----------------------------- MODULE BootProofs -----------------------------
(* What the kernel sets up at boot, for every machine.  Frame: the bitmap,    *)
(* the counter and the owners agree, and a search misses nothing, for every   *)
(* memory map and frame size.  Multiboot: what is read after the handover is  *)
(* reserved, for every loader.                                                *)
EXTENDS Frame, FiniteSetTheorems, SequenceTheorems, WellFoundedInduction, TLAPS

\* A leaf is translated with all the definitions before it: the provers get more
\* time for that than by default.
USE SMTT(30), ZenonT(60)

(* The smallest element that FindRun returns exists and is one of them.       *)
LEMMA LeastIs ==
    ASSUME NEW S \in SUBSET Nat, S # {}
    PROVE  Least(S) \in S /\ \A m \in S : Least(S) <= m
<1> DEFINE R == OpToRel(<, Nat)
<1>0. IsWellFoundedOn(R, Nat)
  BY NatLessThanWellFounded, Zenon
<1>r. \A x, y \in Nat : y < x => <<y, x>> \in R
  BY DEF OpToRel
<1> HIDE DEF R
<1>1. PICK x \in S : \A y \in S : ~(<<y, x>> \in R)
  BY <1>0, WFMin, Zenon
<1>2. \A y \in S : ~(y < x)
  BY <1>1, <1>r, Zenon
<1>3. \A y \in S : x <= y
  BY <1>2, SMT
<1> QED
  BY <1>3, Zenon DEF Least

(* A division by the frame size stays a natural number, and rounding down     *)
(* never exceeds rounding up.                                                 *)
LEMMA Rounding ==
    ASSUME NEW n \in Nat
    PROVE  RoundUp(n) \in Nat /\ n \div SIZE \in Nat
  BY BootsAssumption, Z3 DEF RoundUp

(* What a search returns: nothing, or a free run in the part it looked at.    *)
LEMMA FindRunIs ==
    ASSUME NEW from \in Nat, NEW count \in Counts, reachable \in Nat
    PROVE  LET starts == {s \in from .. reachable - count : Run(s, count) \cap taken = {}}
           IN  IF starts = {} THEN FindRun(from, count) = NOT_FOUND
               ELSE FindRun(from, count) \in starts
<1> DEFINE starts == {s \in from .. reachable - count : Run(s, count) \cap taken = {}}
<1>1. starts \in SUBSET Nat
  BY BootsAssumption
<1>2. CASE starts = {}
  BY <1>2 DEF FindRun
<1>3. CASE starts # {}
  <2>1. Least(starts) \in starts
    BY <1>1, <1>3, LeastIs
  <2> QED
    BY <1>3, <2>1 DEF FindRun
<1> QED
  BY <1>2, <1>3

(* Next fit finds a run exactly when there is one below the limit.            *)
LEMMA FirstIs ==
    ASSUME NEW count \in Counts, reachable \in Nat, nextIndex \in Nat
    PROVE  LET runs == {s \in 0 .. reachable - count : Run(s, count) \cap taken = {}}
           IN  IF runs = {} THEN First(count) = NOT_FOUND ELSE First(count) \in runs
<1> DEFINE ahead == {s \in nextIndex .. reachable - count : Run(s, count) \cap taken = {}}
           runs == {s \in 0 .. reachable - count : Run(s, count) \cap taken = {}}
<1>1. IF ahead = {} THEN FindRun(nextIndex, count) = NOT_FOUND
      ELSE FindRun(nextIndex, count) \in ahead
  BY FindRunIs
<1>2. IF runs = {} THEN FindRun(0, count) = NOT_FOUND ELSE FindRun(0, count) \in runs
  BY FindRunIs
<1>3. ahead \subseteq runs /\ (nextIndex = 0 => ahead = runs) /\ NOT_FOUND \notin runs
  BY BootsAssumption DEF NOT_FOUND
<1> QED
  BY <1>1, <1>2, <1>3 DEF First

(* How many frames a run has, and how counts add up.                          *)
LEMMA RunSize ==
    ASSUME NEW first \in Nat, NEW count \in Nat
    PROVE  IsFiniteSet(Run(first, count)) /\ Cardinality(Run(first, count)) = count
<1>1. first \in Int /\ first + count - 1 \in Int
  OBVIOUS
<1> QED
  BY <1>1, FS_Interval DEF Run

(* The untaken frames are finitely many.                                      *)
LEMMA FramesFinite ==
    ASSUME NEW n \in Nat, NEW S
    PROVE  IsFiniteSet((0 .. n - 1) \ S)
<1>1. 0 \in Int /\ n - 1 \in Int
  OBVIOUS
<1>2. IsFiniteSet(0 .. n - 1)
  BY <1>1, FS_Interval, Zenon
<1> QED
  BY <1>2, FS_Difference, Zenon

(* Taking a part away, and adding one that was not there.                     *)
LEMMA Counting ==
    ASSUME NEW S, NEW T, IsFiniteSet(S), IsFiniteSet(T)
    PROVE  /\ T \subseteq S => Cardinality(S \ T) = Cardinality(S) - Cardinality(T)
           /\ S \cap T = {} => Cardinality(S \cup T) = Cardinality(S) + Cardinality(T)
<1>1. T \subseteq S => S \cap T = T
  OBVIOUS
<1>2. Cardinality(S \ T) = Cardinality(S) - Cardinality(S \cap T)
  BY FS_Difference, Zenon
<1>3. Cardinality(S \cup T) = Cardinality(S) + Cardinality(T) - Cardinality(S \cap T)
  BY FS_Union, Zenon
<1>4. Cardinality({}) = 0 /\ Cardinality(S) \in Nat /\ Cardinality(T) \in Nat
  BY FS_EmptySet, FS_CardinalityType, Zenon
<1>5. ASSUME S \cap T = {} PROVE Cardinality(S \cup T) = Cardinality(S) + Cardinality(T)
  <2>1. Cardinality(S \cap T) = 0
    BY <1>4, <1>5, Zenon
  <2> QED
    BY <1>3, <1>4, <2>1
<1>6. ASSUME T \subseteq S PROVE Cardinality(S \ T) = Cardinality(S) - Cardinality(T)
  BY <1>1, <1>2, <1>6
<1> QED
  BY <1>5, <1>6

Sound ==
    /\ frameCount \in Nat /\ reachable \in 0 .. frameCount /\ nextIndex \in Nat
    /\ taken \subseteq Frames /\ reserved \subseteq Frames
    /\ boot \in Boots
    /\ held \subseteq [first : Nat, count : Counts]
    /\ phase = "off" => taken = {} /\ reserved = {} /\ reachable = 0
    /\ phase # "up" => held = {}

(* Accounting with the types it needs is the inductive invariant.             *)
IInv == Sound /\ Accounting

(* Before Initialize there is nothing to account for.                         *)
LEMMA Initially == Init => IInv
<1> SUFFICES ASSUME Init PROVE IInv
  OBVIOUS
<1>1. Sound
  BY DEF Init, Sound, Frames
<1>2. HeldFrames = {}
  BY DEF Init, HeldFrames
<1> QED
  BY <1>1, <1>2 DEF Init, IInv, Accounting

(* Initialize: what it leaves untaken is what it counted.                     *)
LEMMA InitializeKeeps == IInv /\ Initialize => IInv'
<1> SUFFICES ASSUME IInv, Initialize PROVE IInv'
  OBVIOUS
<1> DEFINE n == FrameCount(boot)
           bytes == BitmapBytes(boot)
           location == ChooseBitmapLocation(boot, bytes)
           added == AddAvailableMemory(boot) \cap (0 .. n - 1)
           left == added \ (ReserveKnownUsers(boot) \cup Reserve(Span(location, location + bytes)))
<1> HIDE DEF n, bytes, location, added, left
<1>1. /\ phase = "off" /\ frameCount' = n /\ boot' = boot /\ nextIndex' = nextIndex /\ held' = held
      /\ left \subseteq 0 .. n - 1
      /\ \/ /\ phase' = "panic"
            /\ UNCHANGED <<taken, reachable, free, reserved>>
         \/ /\ taken' = (0 .. n - 1) \ left /\ reserved' = (0 .. n - 1) \ left
            /\ reachable' = Smaller(IDENTITY_MAPPED_LIMIT \div SIZE, n)
            /\ free' = Cardinality(left) /\ phase' \in {"panic", "up"}
  BY DEF Initialize, n, bytes, location, added, left
<1>2. n \in Nat /\ IDENTITY_MAPPED_LIMIT \div SIZE \in Nat
  BY Rounding, AddressAssumption, LimitAssumption DEF IInv, Sound, FrameCount, n
<1>3. held = {} /\ held' = {} /\ HeldFrames' = {}
  BY <1>1 DEF IInv, Sound, HeldFrames
<1>4. (0 .. n - 1) \ ((0 .. n - 1) \ left) = left
  BY <1>1, Zenon
<1>5. reachable' \in 0 .. frameCount'
  BY <1>1, <1>2 DEF IInv, Sound, Smaller
<1>6. Sound'
  BY <1>1, <1>2, <1>3, <1>5, Zenon DEF IInv, Sound, Frames
<1>7. phase' = "up" => free' = Cardinality(Frames' \ taken')
  BY <1>1, <1>4 DEF Frames
<1>8. taken' = reserved'
  BY <1>1, Zenon DEF IInv, Sound
<1> QED
  BY <1>3, <1>6, <1>7, <1>8 DEF IInv, Accounting

(* Allocate: the run it takes was free, so it is nobody's yet.                *)
LEMMA AllocateKeeps ==
    ASSUME IInv, NEW count \in Counts, Allocate(count)
    PROVE  IInv'
<1> DEFINE first == First(count)
           block == [first |-> first, count |-> count]
           run == Run(first, count)
<1>1. /\ count \in Nat \ {0} /\ reachable \in Nat /\ nextIndex \in Nat /\ frameCount \in Nat
      /\ reachable <= frameCount /\ phase = "up"
  BY BootsAssumption DEF IInv, Sound, Allocate
<1>2. /\ first \in Nat /\ first + count <= reachable /\ run \cap taken = {}
  <2>1. first # NOT_FOUND
    BY DEF Allocate
  <2>2. first \in {s \in 0 .. reachable - count : Run(s, count) \cap taken = {}}
    BY <1>1, <2>1, FirstIs
  <2> QED
    BY <1>1, <2>2
<1> HIDE DEF first
<1>3. /\ taken' = taken \cup run /\ free' = free - count /\ held' = held \cup {block}
      /\ nextIndex' = (IF first + count < reachable THEN first + count ELSE 0)
      /\ UNCHANGED <<phase, boot, frameCount, reachable, reserved>>
  BY DEF Allocate, first
<1>4. run \subseteq Frames
  BY <1>1, <1>2 DEF Run, Frames
<1>5. Sound'
  <2>1. nextIndex' \in Nat
    BY <1>1, <1>2, <1>3
  <2>2. held' \subseteq [first : Nat, count : Counts]
    BY <1>2, <1>3 DEF IInv, Sound
  <2>3. taken' \subseteq Frames' /\ reserved' \subseteq Frames' /\ reachable' \in 0 .. frameCount'
    BY <1>3, <1>4, Zenon DEF IInv, Sound, Frames
  <2> QED
    BY <1>1, <1>3, <2>1, <2>2, <2>3 DEF IInv, Sound
<1>b. Run(block.first, block.count) = run
  OBVIOUS
<1> HIDE DEF block, run
<1>6. HeldFrames' = HeldFrames \cup run
  BY <1>3, <1>b DEF HeldFrames
<1>7. free' = Cardinality(Frames' \ taken')
  <2>1. IsFiniteSet(Frames \ taken) /\ IsFiniteSet(run) /\ Cardinality(run) = count
    BY <1>1, <1>2, FramesFinite, RunSize, Zenon DEF Frames, run
  <2>2. Frames' \ taken' = (Frames \ taken) \ run /\ run \subseteq Frames \ taken
    BY <1>2, <1>3, <1>4 DEF Frames
  <2>3. free = Cardinality(Frames \ taken)
    BY <1>1 DEF IInv, Accounting
  <2> QED
    BY <1>3, <2>1, <2>2, <2>3, Counting
<1>8. \A a, b \in held' : a # b => Run(a.first, a.count) \cap Run(b.first, b.count) = {}
  <2>1. \A a \in held : Run(a.first, a.count) \subseteq taken
    BY DEF IInv, Accounting, HeldFrames
  <2>2. \A a \in held : Run(a.first, a.count) \cap run = {}
    BY <1>2, <2>1
  <2> QED
    BY <1>3, <1>b, <2>2 DEF IInv, Accounting
<1> QED
  BY <1>2, <1>3, <1>5, <1>6, <1>7, <1>8 DEF IInv, Accounting

(* Free: no other block has one of the frames it gives back.                  *)
LEMMA FreeKeeps ==
    ASSUME IInv, NEW block \in held, Free(block)
    PROVE  IInv'
<1> DEFINE run == Run(block.first, block.count)
<1>1. /\ block.first \in Nat /\ block.count \in Nat \ {0} /\ frameCount \in Nat /\ phase = "up"
      /\ run \subseteq taken /\ run \subseteq Frames
  BY BootsAssumption, Zenon DEF IInv, Sound, Free, Accounting, HeldFrames
<1>2. /\ taken' = taken \ run /\ free' = free + block.count /\ held' = held \ {block}
      /\ UNCHANGED <<phase, boot, frameCount, reachable, nextIndex, reserved>>
  BY DEF Free, Freed
<1>3. Sound'
  BY <1>1, <1>2, Zenon DEF IInv, Sound, Frames
<1>4. HeldFrames' = HeldFrames \ run
  <2>1. \A b \in held \ {block} : Run(b.first, b.count) \cap run = {}
    BY DEF IInv, Accounting
  <2> QED
    BY <1>2, <2>1 DEF HeldFrames
<1>5. free' = Cardinality(Frames' \ taken')
  <2>1. IsFiniteSet(Frames \ taken) /\ IsFiniteSet(run) /\ Cardinality(run) = block.count
    BY <1>1, FramesFinite, RunSize, Zenon DEF Frames
  <2>2. Frames' \ taken' = (Frames \ taken) \cup run /\ (Frames \ taken) \cap run = {}
    BY <1>1, <1>2 DEF Frames
  <2>3. free = Cardinality(Frames \ taken)
    BY <1>1 DEF IInv, Accounting
  <2> QED
    BY <1>2, <2>1, <2>2, <2>3, Counting, ZenonT(60)
<1>6. taken' = reserved' \cup HeldFrames' /\ reserved' \cap HeldFrames' = {}
  BY <1>1, <1>2, <1>4 DEF IInv, Accounting, HeldFrames
<1> QED
  BY <1>2, <1>3, <1>5, <1>6, Zenon DEF IInv, Accounting

(* The invariant is inductive.                                                *)
LEMMA Inductive == IInv /\ [Next]_vars => IInv'
<1> SUFFICES ASSUME IInv, [Next]_vars PROVE IInv'
  OBVIOUS
<1>1. CASE Initialize
  BY <1>1, InitializeKeeps
<1>2. CASE SetReachableLimit
  <2>1. HighestAvailableAddress(boot) \div SIZE \in Nat
    BY Rounding, AddressAssumption DEF IInv, Sound
  <2>2. /\ phase = "up" /\ reachable' = Smaller(HighestAvailableAddress(boot) \div SIZE, frameCount)
        /\ UNCHANGED <<phase, boot, frameCount, taken, free, nextIndex, held, reserved>>
    BY <1>2 DEF SetReachableLimit
  <2>3. Sound'
    BY <2>1, <2>2 DEF IInv, Sound, Smaller, Frames
  <2> QED
    BY <2>2, <2>3, Zenon DEF IInv, Accounting, Frames, HeldFrames
<1>3. ASSUME NEW count \in Counts, Allocate(count) PROVE IInv'
  BY <1>3, AllocateKeeps
<1>4. ASSUME NEW block \in held, Free(block) PROVE IInv'
  BY <1>4, FreeKeeps
<1>5. CASE UNCHANGED vars
  BY <1>5 DEF vars, IInv, Sound, Accounting, Frames, HeldFrames
<1> QED
  BY <1>1, <1>2, <1>3, <1>4, <1>5 DEF Next, AllocateFails

(* Bitmap, free counter and owners agree after every sequence of calls, and   *)
(* no frame is handed out twice (Allocate, Free, Initialize).                 *)
THEOREM AccountingHolds == Spec => []Accounting
<1>1. IInv => Accounting
  BY DEF IInv
<1> QED
  BY <1>1, Initially, Inductive, PTL DEF Spec

(* Allocate gives up only when no run of free frames lies below the limit.    *)
THEOREM SearchMissesNothing == Spec => []SearchComplete
<1>1. IInv => SearchComplete
  BY FirstIs DEF IInv, Sound, SearchComplete
<1> QED
  BY <1>1, Initially, Inductive, PTL DEF Spec

-----------------------------------------------------------------------------
(* Bytes and frames.                                                          *)

(* Division by the frame size.                                                *)
LEMMA Dividing ==
    ASSUME NEW n \in Nat
    PROVE  n \div SIZE \in Nat /\ (n \div SIZE) * SIZE <= n /\ n < (n \div SIZE) * SIZE + SIZE
  BY BootsAssumption, Z3

(* A larger number of frames has no fewer bytes.                              *)
LEMMA MoreFrames ==
    ASSUME NEW i \in Nat, NEW j \in Nat, i <= j
    PROVE  i * SIZE <= j * SIZE /\ i * SIZE \in Nat
  BY BootsAssumption, Z3

(* Rounding up adds less than a frame.                                        *)
LEMMA RoundingUp ==
    ASSUME NEW n \in Nat
    PROVE  RoundUp(n) \in Nat /\ n <= RoundUp(n) * SIZE /\ AlignUp(n) \in Nat /\ n <= AlignUp(n)
<1> DEFINE m == n + SIZE - 1
<1>1. m \in Nat /\ SIZE \in Nat \ {0}
  BY BootsAssumption
<1>2. m \div SIZE \in Nat /\ m < (m \div SIZE) * SIZE + SIZE
  BY <1>1, Dividing
<1>3. RoundUp(n) = m \div SIZE
  BY DEF RoundUp
<1>4. (m \div SIZE) * SIZE \in Nat
  BY <1>2, MoreFrames
<1>5. n <= (m \div SIZE) * SIZE
  <2> DEFINE k == (m \div SIZE) * SIZE
  <2>1. k \in Nat /\ n + SIZE - 1 < k + SIZE
    BY <1>2, <1>4
  <2> HIDE DEF k
  <2>2. n <= k
    BY <1>1, <2>1
  <2> QED
    BY <2>2 DEF k
<1> QED
  BY <1>2, <1>3, <1>4, <1>5 DEF AlignUp

(* Add takes only frames of which every byte is in the range.                 *)
LEMMA AddIsInside ==
    ASSUME NEW range, range.start \in Nat, range.end \in Nat, NEW i \in Add(range), NEW a \in FrameBytes(i)
    PROVE  a \in Bytes(range)
<1>1. i \in Nat /\ i <= range.end \div SIZE - 1 /\ i >= RoundUp(range.start)
  <2>1. range.end \div SIZE \in Nat
    BY Dividing
  <2> QED
    BY <2>1 DEF Add
<1>2. SIZE \in Nat \ {0}
  BY BootsAssumption
<1>3. range.start <= i * SIZE /\ i * SIZE \in Nat
  <2>1. RoundUp(range.start) \in Nat /\ range.start <= RoundUp(range.start) * SIZE
    BY RoundingUp
  <2>2. RoundUp(range.start) * SIZE <= i * SIZE /\ RoundUp(range.start) * SIZE \in Nat
    BY <1>1, <2>1, MoreFrames
  <2>3. i * SIZE \in Nat
    BY <1>1, MoreFrames
  <2> QED
    BY <2>1, <2>2, <2>3
<1>4. i * SIZE + SIZE <= range.end
  <2>1. range.end \div SIZE \in Nat /\ (range.end \div SIZE) * SIZE <= range.end
    BY Dividing
  <2>2. i + 1 \in Nat /\ i + 1 <= range.end \div SIZE
    BY <1>1, <2>1
  <2>3. (i + 1) * SIZE <= (range.end \div SIZE) * SIZE /\ (range.end \div SIZE) * SIZE \in Nat
    BY <2>1, <2>2, MoreFrames
  <2>4. (i + 1) * SIZE = i * SIZE + SIZE
    BY <1>1, <1>2
  <2> QED
    BY <1>2, <1>3, <2>1, <2>3, <2>4
<1>5. a \in i * SIZE .. i * SIZE + SIZE - 1
  BY DEF FrameBytes
<1> QED
  BY <1>2, <1>3, <1>4, <1>5 DEF Bytes

(* Reserve takes every frame of which a byte is in the range.                 *)
LEMMA ReserveTouches ==
    ASSUME NEW range, range.start \in Nat, range.end \in Nat, NEW i \in Nat, NEW a \in FrameBytes(i),
           a \in Bytes(range)
    PROVE  i \in Reserve(range)
<1>0. SIZE \in Nat \ {0} /\ i * SIZE \in Nat
  BY BootsAssumption, MoreFrames
<1>1. a \in Nat /\ i * SIZE <= a /\ a < i * SIZE + SIZE /\ range.start <= a /\ a < range.end
  BY <1>0 DEF FrameBytes, Bytes
<1>2. i >= range.start \div SIZE
  <2>1. range.start \div SIZE \in Nat /\ (range.start \div SIZE) * SIZE <= range.start
    BY Dividing
  <2> SUFFICES ASSUME i + 1 <= range.start \div SIZE PROVE FALSE
    BY <2>1
  <2>2. (i + 1) * SIZE <= (range.start \div SIZE) * SIZE /\ (range.start \div SIZE) * SIZE \in Nat
    BY <2>1, MoreFrames
  <2>3. (i + 1) * SIZE = i * SIZE + SIZE
    BY <1>0
  <2> QED
    BY <1>0, <1>1, <2>1, <2>2, <2>3
<1>3. i <= RoundUp(range.end) - 1
  <2>1. RoundUp(range.end) \in Nat /\ range.end <= RoundUp(range.end) * SIZE
    BY RoundingUp
  <2> SUFFICES ASSUME RoundUp(range.end) <= i PROVE FALSE
    BY <2>1
  <2>2. RoundUp(range.end) * SIZE <= i * SIZE /\ RoundUp(range.end) * SIZE \in Nat
    BY <2>1, MoreFrames
  <2> QED
    BY <1>0, <1>1, <2>1, <2>2
<1>4. RoundUp(range.end) \in Nat /\ range.start < range.end
  BY <1>1, RoundingUp
<1> QED
  BY <1>2, <1>3, <1>4 DEF Reserve

-----------------------------------------------------------------------------
(* The loop of FirstFit.                                                      *)

Ascends(limit, stop, next) ==
    /\ \A s \in Nat : s > limit => s \in stop
    /\ \A s \in Nat : s \notin stop => next[s] \in Nat /\ next[s] > s

Solves(f, stop, val, next, n) ==
    \A s \in Nat : s >= n => f[s] = IF s \in stop THEN val[s] ELSE f[next[s]]

(* A loop that moves up, and stops beyond some limit, computes something.     *)
LEMMA LoopEnds ==
    ASSUME NEW limit \in Nat, NEW stop, NEW val \in [Nat -> Nat], NEW next, Ascends(limit, stop, next)
    PROVE  \E f \in [Nat -> Nat] : Solves(f, stop, val, next, 0)
<1> DEFINE Has(n) == \E f \in [Nat -> Nat] : Solves(f, stop, val, next, n)
           good == {n \in Nat : Has(n)}
<1>1. Has(limit + 1)
  <2>1. Solves(val, stop, val, next, limit + 1)
    BY DEF Solves, Ascends
  <2> QED
    BY <2>1
<1>2. ASSUME NEW n \in Nat \ {0}, Has(n) PROVE Has(n - 1)
  <2>1. PICK f \in [Nat -> Nat] : Solves(f, stop, val, next, n)
    BY <1>2
  <2> DEFINE v == IF n - 1 \in stop THEN val[n - 1] ELSE f[next[n - 1]]
             g == [f EXCEPT ![n - 1] = v]
  <2>2. n - 1 \in Nat /\ v \in Nat
    BY DEF Ascends
  <2> HIDE DEF v
  <2>3. g \in [Nat -> Nat] /\ g[n - 1] = v /\ \A s \in Nat : s # n - 1 => g[s] = f[s]
    BY <2>2
  <2> HIDE DEF g
  <2>4. ASSUME NEW s \in Nat, s >= n - 1 PROVE g[s] = IF s \in stop THEN val[s] ELSE g[next[s]]
    <3>1. s \notin stop => next[s] \in Nat /\ next[s] # n - 1
      BY <2>4 DEF Ascends
    <3>2. s \notin stop => g[next[s]] = f[next[s]]
      BY <2>3, <3>1, Zenon
    <3>3. CASE s = n - 1
      BY <2>3, <3>2, <3>3 DEF v
    <3>4. CASE s # n - 1
      <4>1. s >= n
        BY <2>4, <3>4
      <4> QED
        BY <2>1, <2>3, <3>2, <3>4, <4>1 DEF Solves
    <3> QED
      BY <3>3, <3>4
  <2>5. Solves(g, stop, val, next, n - 1)
    BY <2>4 DEF Solves
  <2> QED
    BY <2>3, <2>5
<1>3. Has(0)
  <2> HIDE DEF Has
  <2>1. good \in SUBSET Nat /\ good # {}
    BY <1>1
  <2>2. PICK n \in good : \A m \in good : n <= m
    BY <2>1, LeastIs, Zenon
  <2>3. n = 0
    <3> SUFFICES ASSUME n \in Nat \ {0} PROVE FALSE
      BY <2>1
    <3>1. n - 1 \in good
      BY <1>2, <2>2
    <3> QED
      BY <2>2, <3>1
  <2> QED
    BY <2>2, <2>3
<1> QED
  BY <1>3

(* What blocks a range ends behind its start: the next try is further up.     *)
LEMMA RetryMovesUp ==
    ASSUME NEW b \in Boots, NEW range, IsBlocked(b, range)
    PROVE  RetryAt(b, range) \in Nat /\ AlignUp(RetryAt(b, range)) \in Nat
           /\ range.start < RetryAt(b, range) /\ RetryAt(b, range) <= AlignUp(RetryAt(b, range))
<1> DEFINE n == Least(Blocking(b, range))
<1>1. Blockers(b) \in Seq(Spans)
  BY RangesAssumption DEF Blockers
<1>2. DOMAIN Blockers(b) \subseteq Nat
  BY <1>1, LenProperties
<1>3. Blocking(b, range) \in SUBSET Nat /\ Blocking(b, range) # {}
  BY <1>2 DEF Blocking, IsBlocked
<1>4. n \in Blocking(b, range)
  BY <1>3, LeastIs
<1>5. n \in DOMAIN Blockers(b) /\ range.start < Blockers(b)[n].end
  BY <1>4 DEF Blocking, Overlaps
<1>6. Blockers(b)[n] \in Spans
  BY <1>1, <1>5
<1>7. RetryAt(b, range) \in Nat /\ range.start < RetryAt(b, range)
  BY <1>5, <1>6 DEF RetryAt, Spans
<1> QED
  BY <1>7, RoundingUp

(* The loop as an equation.                                                   *)
LEMMA FitIs ==
    ASSUME NEW b \in Boots, NEW range, range.end \in Nat, NEW bytes \in Nat
    PROVE  \A start \in Nat : Fit(b, range, bytes)[start] =
               IF start + bytes > range.end THEN 0
               ELSE IF IsBlocked(b, Span(start, start + bytes))
                    THEN Fit(b, range, bytes)[AlignUp(RetryAt(b, Span(start, start + bytes)))]
                    ELSE start
<1> DEFINE blocked(s) == IsBlocked(b, Span(s, s + bytes))
           again(s) == AlignUp(RetryAt(b, Span(s, s + bytes)))
           stop == {s \in Nat : s + bytes > range.end \/ ~blocked(s)}
           val == [s \in Nat |-> IF s + bytes > range.end THEN 0 ELSE s]
           next == [s \in Nat |-> again(s)]
           e(g) == [s \in Nat |-> IF s + bytes > range.end THEN 0
                                  ELSE IF blocked(s) THEN g[again(s)] ELSE s]
<1>1. \A s \in Nat : s > range.end => s \in stop
  OBVIOUS
<1>2. \A s \in Nat : s \notin stop => next[s] \in Nat /\ next[s] > s
  <2> SUFFICES ASSUME NEW s \in Nat, blocked(s) PROVE again(s) \in Nat /\ again(s) > s
    OBVIOUS
  <2>1. Span(s, s + bytes).start = s
    BY DEF Span
  <2> QED
    BY <2>1, RetryMovesUp
<1>3. val \in [Nat -> Nat]
  OBVIOUS
<1>4. PICK f \in [Nat -> Nat] : \A s \in Nat : f[s] = IF s \in stop THEN val[s] ELSE f[next[s]]
  <2> HIDE DEF stop, val, next
  <2>1. Ascends(range.end, stop, next)
    BY <1>1, <1>2 DEF Ascends
  <2>2. PICK f \in [Nat -> Nat] : Solves(f, stop, val, next, 0)
    BY <2>1, <1>3, LoopEnds
  <2> QED
    BY <2>2 DEF Solves
<1>5. f = e(f)
  <2>1. \A s \in Nat : f[s] = e(f)[s]
    BY <1>4
  <2> QED
    BY <2>1
<1> DEFINE from == CHOOSE g : g = e(g)
<1>6. from = e(from)
  BY <1>5
<1>7. Fit(b, range, bytes) = from
  BY DEF Fit
<1> HIDE DEF from
<1>8. \A s \in Nat : from[s] = IF s + bytes > range.end THEN 0 ELSE IF blocked(s) THEN from[again(s)] ELSE s
  BY <1>6
<1> QED
  BY <1>7, <1>8

(* What it finds: nothing, or room for the bytes that nothing blocks.         *)
LEMMA FitFinds ==
    ASSUME NEW b \in Boots, NEW range, range.end \in Nat, NEW bytes \in Nat, NEW start \in Nat
    PROVE  LET s == Fit(b, range, bytes)[start]
           IN  \/ s = 0
               \/ /\ s \in Nat /\ s >= start /\ s + bytes <= range.end
                  /\ ~IsBlocked(b, Span(s, s + bytes))
<1> DEFINE f == Fit(b, range, bytes)
           Found(s) == \/ f[s] = 0
                       \/ /\ f[s] \in Nat /\ f[s] >= s /\ f[s] + bytes <= range.end
                          /\ ~IsBlocked(b, Span(f[s], f[s] + bytes))
           below == {n \in Nat : \E s \in Nat : s + n = range.end + 1 /\ ~Found(s)}
<1>1. \A s \in Nat : f[s] = IF s + bytes > range.end THEN 0
                           ELSE IF IsBlocked(b, Span(s, s + bytes))
                                THEN f[AlignUp(RetryAt(b, Span(s, s + bytes)))] ELSE s
  BY FitIs
<1> HIDE DEF f
<1>2. \A s \in Nat : s > range.end => Found(s)
  BY <1>1
<1>3. ASSUME below # {} PROVE FALSE
  <2>1. below \in SUBSET Nat
    OBVIOUS
  <2> HIDE DEF Found
  <2>2. PICK n \in below : \A m \in below : n <= m
    <3> HIDE DEF below
    <3> QED
      BY <2>1, <1>3, LeastIs, Zenon
  <2>3. PICK s \in Nat : s + n = range.end + 1 /\ ~Found(s)
    BY <2>2
  <2>4. s + bytes <= range.end /\ IsBlocked(b, Span(s, s + bytes))
    BY <1>1, <2>3 DEF Found
  <2> DEFINE t == AlignUp(RetryAt(b, Span(s, s + bytes)))
  <2>5. t \in Nat /\ t > s
    <3>1. Span(s, s + bytes).start = s
      BY DEF Span
    <3> QED
      BY <2>4, <3>1, RetryMovesUp
  <2>6. f[s] = f[t]
    BY <1>1, <2>4
  <2> HIDE DEF t
  <2>7. ~Found(t)
    BY <2>3, <2>5, <2>6 DEF Found
  <2>8. t <= range.end
    BY <1>2, <2>5, <2>7
  <2>9. range.end + 1 - t \in below /\ range.end + 1 - t < n
    <3>1. range.end + 1 - t \in Nat /\ t + (range.end + 1 - t) = range.end + 1
      BY <2>5, <2>8
    <3> QED
      BY <2>3, <2>5, <2>7, <3>1
  <2> QED
    BY <2>2, <2>9
<1>4. Found(start)
  <2>1. CASE start > range.end
    BY <1>2, <2>1
  <2>2. CASE start <= range.end
    <3>1. range.end + 1 - start \in Nat /\ start + (range.end + 1 - start) = range.end + 1
      BY <2>2
    <3> HIDE DEF Found
    <3> QED
      BY <1>3, <3>1
  <2> QED
    BY <2>1, <2>2
<1> QED
  BY <1>4 DEF f

(* Ranges that do not overlap have no byte in common.                         *)
LEMMA NotOverlapping ==
    ASSUME NEW l \in Spans, NEW r \in Spans, ~Overlaps(l, r)
    PROVE  Bytes(l) \cap Bytes(r) = {}
  BY DEF Spans, Overlaps, Bytes

Clear(b, range) ==
    /\ Bytes(range) \cap Bytes(KernelRange) = {}
    /\ \A n \in DOMAIN b.info : Bytes(range) \cap Bytes(b.info[n]) = {}
    /\ \A n \in DOMAIN b.modules : Bytes(range) \cap Bytes(b.modules[n]) = {}

ThreeRuns(all, x, p, q) ==
    /\ DOMAIN all = 1 .. 1 + Len(p) + Len(q) /\ all[1] = x
    /\ \A n \in 1 .. Len(p) : all[n + 1] = p[n]
    /\ \A n \in 1 .. Len(q) : all[1 + Len(p) + n] = q[n]

(* The blockers: the kernel, then the structures, then the modules.           *)
LEMMA InARow ==
    ASSUME NEW S, NEW x \in S, NEW p \in Seq(S), NEW q \in Seq(S)
    PROVE  ThreeRuns(<<x>> \o p \o q, x, p, q)
<1> DEFINE a == <<x>> \o p
           k == Len(p)
           m == Len(q)
<1>1. k \in Nat /\ m \in Nat
  BY LenProperties
<1>2. <<x>> \in Seq(S) /\ Len(<<x>>) = 1 /\ <<x>>[1] = x
  OBVIOUS
<1>3. a \in Seq(S) /\ Len(a) = 1 + k /\ a[1] = x /\ \A n \in 1 .. k : a[n + 1] = p[n]
  BY <1>1, <1>2, ConcatProperties
<1> HIDE DEF a
<1>4. /\ Len(a \o q) = 1 + k + m /\ a \o q \in Seq(S)
      /\ \A i \in 1 .. 1 + k + m : (a \o q)[i] = IF i <= 1 + k THEN a[i] ELSE q[i - (1 + k)]
  <2>1. /\ a \o q \in Seq(S) /\ Len(a \o q) = Len(a) + Len(q)
        /\ \A i \in 1 .. Len(a) + Len(q) : (a \o q)[i] = IF i <= Len(a) THEN a[i] ELSE q[i - Len(a)]
    <3>1. a \in Seq(S) /\ q \in Seq(S)
      BY <1>3
    <3> QED
      BY ONLY <3>1, ConcatProperties, Zenon
  <2>2. Len(a) = 1 + k
    BY <1>3
  <2> QED
    BY ONLY <2>1, <2>2, Zenon DEF k, m
<1>5. DOMAIN (a \o q) = 1 .. 1 + k + m
  BY <1>4, LenProperties
<1> HIDE DEF k, m
<1>6. (a \o q)[1] = x
  BY <1>1, <1>3, <1>4
<1>7. ASSUME NEW n \in 1 .. k PROVE (a \o q)[n + 1] = p[n]
  <2>1. n + 1 \in 1 .. 1 + k + m /\ n + 1 <= 1 + k
    BY <1>1
  <2> QED
    BY <1>3, <1>4, <2>1
<1>8. ASSUME NEW n \in 1 .. m PROVE (a \o q)[1 + k + n] = q[n]
  <2>1. 1 + k + n \in 1 .. 1 + k + m /\ ~(1 + k + n <= 1 + k) /\ (1 + k + n) - (1 + k) = n
    BY <1>1
  <2> QED
    BY <1>4, <2>1
<1> QED
  BY <1>5, <1>6, <1>7, <1>8 DEF a, k, m, ThreeRuns

(* What IsBlocked lets through overwrites nobody.                             *)
LEMMA LetThrough ==
    ASSUME NEW b \in Boots, NEW range \in Spans, ~IsBlocked(b, range)
    PROVE  Clear(b, range)
<1> DEFINE k == Len(b.info)
           m == Len(b.modules)
           all == Blockers(b)
<1>1. b.info \in Seq(Spans) /\ b.modules \in Seq(Spans) /\ KernelRange \in Spans
  BY RangesAssumption
<1>2. k \in Nat /\ m \in Nat /\ DOMAIN b.info = 1 .. k /\ DOMAIN b.modules = 1 .. m
  BY <1>1, LenProperties
<1>3. /\ DOMAIN all = 1 .. 1 + k + m /\ all[1] = KernelRange
      /\ \A n \in 1 .. k : all[n + 1] = b.info[n]
      /\ \A n \in 1 .. m : all[1 + k + n] = b.modules[n]
  <2>1. ThreeRuns(all, KernelRange, b.info, b.modules)
    BY <1>1, InARow DEF Blockers
  <2> QED
    BY <2>1, Zenon DEF ThreeRuns
<1> HIDE DEF all, k, m
<1>4. \A n \in 1 .. 1 + k + m : Skipped(b, n) \/ ~Overlaps(range, all[n])
  BY <1>3 DEF IsBlocked, Blocking, all
<1>5. Bytes(range) \cap Bytes(KernelRange) = {}
  <2>1. 1 \in 1 .. 1 + k + m /\ ~Skipped(b, 1)
    BY <1>2 DEF Skipped
  <2> QED
    BY <1>1, <1>3, <1>4, <2>1, NotOverlapping
<1>6. ASSUME NEW n \in 1 .. k PROVE Bytes(range) \cap Bytes(b.info[n]) = {}
  <2>1. n + 1 \in 1 .. 1 + k + m /\ (n + 1) - 1 = n /\ b.info[n] \in Spans
    BY <1>1, <1>2
  <2>2. CASE Skipped(b, n + 1)
    BY <2>1, <2>2 DEF Skipped, Bytes, Spans
  <2>3. CASE ~Skipped(b, n + 1)
    BY <1>3, <1>4, <2>1, <2>3, NotOverlapping
  <2> QED
    BY <2>2, <2>3
<1>7. ASSUME NEW n \in 1 .. m PROVE Bytes(range) \cap Bytes(b.modules[n]) = {}
  <2>1. 1 + k + n \in 1 .. 1 + k + m /\ (1 + k + n) - 1 \notin 1 .. k /\ b.modules[n] \in Spans
    BY <1>1, <1>2
  <2>2. ~Skipped(b, 1 + k + n)
    BY <1>2, <2>1 DEF Skipped
  <2> QED
    BY <1>3, <1>4, <2>1, <2>2, NotOverlapping
<1> QED
  BY <1>2, <1>5, <1>6, <1>7 DEF Clear

Fits(b, range, n) ==
    /\ b.regions[n].start <= range.start /\ range.end <= b.regions[n].end
    /\ MIB <= range.start /\ range.end <= IDENTITY_MAPPED_LIMIT

(* A region of the memory map has a start and an end.                         *)
LEMMA RegionIs ==
    ASSUME NEW b \in Boots, NEW n \in Available(b)
    PROVE  b.regions[n].start \in Nat /\ b.regions[n].end \in Nat
<1> DEFINE R == [start : Nat, end : Nat, available : BOOLEAN]
           q == b.regions
<1>1. q \in Seq(R) /\ n \in DOMAIN q
  BY RangesAssumption DEF Available
<1>2. \A r \in R : r.start \in Nat /\ r.end \in Nat
  OBVIOUS
<1> HIDE DEF q, R
<1>3. q[n] \in R
  BY <1>1, ElementOfSeq, LenProperties
<1> QED
  BY <1>2, <1>3 DEF q

(* The part of a region that ChooseBitmapLocation looks at.                   *)
LEMMA UsableIs ==
    ASSUME NEW r, r.start \in Nat, r.end \in Nat
    PROVE  /\ Usable(r).start \in Nat /\ Usable(r).end \in Nat
           /\ r.start <= Usable(r).start /\ MIB <= Usable(r).start
           /\ Usable(r).end <= r.end /\ Usable(r).end <= IDENTITY_MAPPED_LIMIT
<1>1. MIB \in Nat /\ IDENTITY_MAPPED_LIMIT \in Nat
  BY RangesAssumption, LimitAssumption
<1>2. Usable(r).start = Larger(r.start, MIB) /\ Usable(r).end = Smaller(r.end, IDENTITY_MAPPED_LIMIT)
  BY DEF Usable, Span
<1>3. Larger(r.start, MIB) \in Nat /\ r.start <= Larger(r.start, MIB) /\ MIB <= Larger(r.start, MIB)
  BY <1>1 DEF Larger
<1>4. /\ Smaller(r.end, IDENTITY_MAPPED_LIMIT) \in Nat /\ Smaller(r.end, IDENTITY_MAPPED_LIMIT) <= r.end
      /\ Smaller(r.end, IDENTITY_MAPPED_LIMIT) <= IDENTITY_MAPPED_LIMIT
  BY <1>1 DEF Smaller
<1> QED
  BY <1>2, <1>3, <1>4

(* ChooseBitmapLocation: nothing, or a place in an available region.          *)
LEMMA LocationIs ==
    ASSUME NEW b \in Boots, NEW bytes \in Nat, ChooseBitmapLocation(b, bytes) # 0
    PROVE  LET at == ChooseBitmapLocation(b, bytes)
           IN  /\ at \in Nat /\ ~IsBlocked(b, Span(at, at + bytes))
               /\ \E n \in Available(b) : Fits(b, Span(at, at + bytes), n)
<1> DEFINE at == ChooseBitmapLocation(b, bytes)
           places == {n \in Available(b) : /\ Usable(b.regions[n]).start < Usable(b.regions[n]).end
                                           /\ FirstFit(b, Usable(b.regions[n]), bytes) # 0}
           n == Least(places)
           use == Usable(b.regions[n])
<1>1. places # {} /\ at = FirstFit(b, use, bytes)
  BY DEF ChooseBitmapLocation
<1>2. b.regions \in Seq([start : Nat, end : Nat, available : BOOLEAN])
  BY RangesAssumption
<1>3. places \in SUBSET Nat
  BY <1>2, LenProperties DEF Available
<1>4. n \in places
  BY <1>1, <1>3, LeastIs
<1>a. n \in Available(b)
  BY <1>4, Zenon
<1> HIDE DEF n, places, at
<1>5. n \in Available(b) /\ b.regions[n].start \in Nat /\ b.regions[n].end \in Nat
  BY <1>a, RegionIs
<1>6. /\ use.start \in Nat /\ use.end \in Nat /\ b.regions[n].start <= use.start /\ MIB <= use.start
      /\ use.end <= b.regions[n].end /\ use.end <= IDENTITY_MAPPED_LIMIT
  BY <1>5, UsableIs
<1> HIDE DEF use
<1>7. AlignUp(use.start) \in Nat /\ use.start <= AlignUp(use.start)
  BY <1>6, RoundingUp
<1>8. at = Fit(b, use, bytes)[AlignUp(use.start)]
  BY <1>1 DEF FirstFit
<1>9. /\ at \in Nat /\ at >= AlignUp(use.start) /\ at + bytes <= use.end
      /\ ~IsBlocked(b, Span(at, at + bytes))
  BY <1>6, <1>7, <1>8, FitFinds DEF at
<1>10. Fits(b, Span(at, at + bytes), n)
  <2>1. Span(at, at + bytes).start = at /\ Span(at, at + bytes).end = at + bytes
    BY DEF Span
  <2>2. MIB \in Nat /\ IDENTITY_MAPPED_LIMIT \in Nat
    BY RangesAssumption, LimitAssumption
  <2>3. b.regions[n].start <= at /\ MIB <= at
    BY <1>5, <1>6, <1>7, <1>9, <2>2
  <2>4. at + bytes <= b.regions[n].end /\ at + bytes <= IDENTITY_MAPPED_LIMIT
    BY <1>5, <1>6, <1>9, <2>2
  <2> QED
    BY <2>1, <2>3, <2>4 DEF Fits
<1> QED
  BY <1>5, <1>9, <1>10 DEF at

-----------------------------------------------------------------------------
(* What Initialize has set up, and nobody changes.                            *)
SetUp ==
    phase = "up" =>
        /\ bitmap \in Spans /\ Clear(boot, bitmap)
        /\ \E n \in Available(boot) : Fits(boot, bitmap, n)
        /\ Frames \ reserved \subseteq
               AddAvailableMemory(boot) \ (ReserveKnownUsers(boot) \cup Reserve(bitmap))

(* Initialize sets it up.                                                     *)
LEMMA InitializeSetsUp == IInv /\ Initialize => SetUp'
<1> SUFFICES ASSUME IInv, Initialize, phase' = "up" PROVE SetUp'
  BY DEF SetUp
<1> DEFINE n == FrameCount(boot)
           bytes == BitmapBytes(boot)
           location == ChooseBitmapLocation(boot, bytes)
           place == Span(location, location + bytes)
           added == AddAvailableMemory(boot) \cap (0 .. n - 1)
           left == added \ (ReserveKnownUsers(boot) \cup Reserve(place))
<1>0. boot \in Boots /\ n \in Nat
  BY Rounding, AddressAssumption DEF IInv, Sound, FrameCount
<1>1. bytes \in Nat
  <2>1. BITS_PER_WORD \in Nat \ {0} /\ WORD_SIZE \in Nat
    BY RangesAssumption
  <2> HIDE DEF n
  <2>2. n + BITS_PER_WORD - 1 \in Nat
    BY <1>0, <2>1
  <2>3. (n + BITS_PER_WORD - 1) \div BITS_PER_WORD \in Nat
    BY <2>1, <2>2, Z3
  <2> QED
    BY <2>1, <2>3 DEF BitmapBytes, n
<1> HIDE DEF n, bytes, location
<1>2. /\ location # 0 /\ bitmap' = place /\ boot' = boot /\ frameCount' = n
      /\ reserved' = (0 .. n - 1) \ left
  BY DEF Initialize, n, bytes, location
<1>3. location \in Nat /\ ~IsBlocked(boot, place) /\ \E r \in Available(boot) : Fits(boot, place, r)
  BY <1>0, <1>1, <1>2, LocationIs DEF location
<1>4. place \in Spans
  BY <1>1, <1>3 DEF Span, Spans
<1>5. Clear(boot, place)
  BY <1>0, <1>3, <1>4, LetThrough
<1> HIDE DEF place
<1>6. Frames' \ reserved' \subseteq left
  BY <1>2 DEF Frames
<1> QED
  BY <1>2, <1>3, <1>4, <1>5, <1>6 DEF SetUp, Clear

(* Everything else leaves it alone.                                           *)
LEMMA StaysSetUp == IInv /\ SetUp /\ [Next]_vars => SetUp'
<1> SUFFICES ASSUME IInv, SetUp, [Next]_vars PROVE SetUp'
  OBVIOUS
<1>1. CASE Initialize
  BY <1>1, InitializeSetsUp
<1>2. CASE UNCHANGED <<phase, boot, bitmap, frameCount, reserved>>
  BY <1>2 DEF SetUp, Frames
<1> QED
  BY <1>1, <1>2 DEF Next, SetReachableLimit, Allocate, AllocateFails, Free, vars

(* A byte that Initialize has left to Allocate is available, and nobody's.    *)
LEMMA LeftIsUsable ==
    ASSUME IInv, SetUp
    PROVE  HandedOutUsable
<1> SUFFICES ASSUME phase = "up", NEW i \in Frames \ reserved, NEW a \in FrameBytes(i)
             PROVE  /\ \E n \in Available(boot) : a \in Bytes(boot.regions[n])
                    /\ a >= MIB
                    /\ a \notin Bytes(KernelRange) \cup Bytes(bitmap)
                    /\ \A n \in DOMAIN boot.info : a \notin Bytes(boot.info[n])
                    /\ \A n \in DOMAIN boot.modules : a \notin Bytes(boot.modules[n])
  BY DEF HandedOutUsable
<1>0. /\ i \in Nat /\ boot \in Boots /\ bitmap \in Spans
      /\ i \in AddAvailableMemory(boot) /\ i \notin ReserveKnownUsers(boot) /\ i \notin Reserve(bitmap)
  BY DEF SetUp, IInv, Sound, Frames
<1>1. /\ boot.info \in Seq(Spans) /\ boot.modules \in Seq(Spans) /\ KernelRange \in Spans /\ MIB \in Nat
      /\ boot.regions \in Seq([start : Nat, end : Nat, available : BOOLEAN])
  BY <1>0, RangesAssumption
<1>2. \E n \in Available(boot) : a \in Bytes(boot.regions[n])
  <2>1. PICK n \in Available(boot) : i \in Add(boot.regions[n])
    BY <1>0 DEF AddAvailableMemory
  <2>3. boot.regions[n].start \in Nat /\ boot.regions[n].end \in Nat
    BY <1>0, RegionIs
  <2> QED
    BY <2>1, <2>3, AddIsInside
<1>3. ASSUME NEW r, r.start \in Nat, r.end \in Nat, i \notin Reserve(r) PROVE a \notin Bytes(r)
  BY <1>0, <1>3, ReserveTouches
<1>4. a \notin Bytes(Span(0, MIB))
  <2>1. Span(0, MIB).start \in Nat /\ Span(0, MIB).end \in Nat
    BY <1>1 DEF Span
  <2>2. i \notin Reserve(Span(0, MIB))
    BY <1>0 DEF ReserveKnownUsers
  <2> QED
    BY <1>3, <2>1, <2>2
<1>5. a >= MIB
  <2>1. i * SIZE \in Nat /\ SIZE \in Nat
    BY <1>0, MoreFrames, BootsAssumption
  <2>2. a \in Nat
    BY <2>1 DEF FrameBytes
  <2> QED
    BY <1>1, <1>4, <2>2 DEF Bytes, Span
<1>6. a \notin Bytes(KernelRange) \cup Bytes(bitmap)
  <2>1. i \notin Reserve(KernelRange)
    BY <1>0 DEF ReserveKnownUsers
  <2> QED
    BY <1>0, <1>1, <1>3, <2>1, Zenon DEF Spans
<1>7. ASSUME NEW n \in DOMAIN boot.info PROVE a \notin Bytes(boot.info[n])
  <2>1. boot.info[n] \in Spans
    BY <1>1
  <2>2. i \notin Reserve(boot.info[n])
    BY <1>0 DEF ReserveKnownUsers
  <2> QED
    BY <1>3, <2>1, <2>2 DEF Spans
<1>8. ASSUME NEW n \in DOMAIN boot.modules PROVE a \notin Bytes(boot.modules[n])
  <2>1. boot.modules[n] \in Spans
    BY <1>1
  <2>2. i \notin Reserve(boot.modules[n])
    BY <1>0 DEF ReserveKnownUsers
  <2> QED
    BY <1>3, <2>1, <2>2 DEF Spans
<1> QED
  BY <1>2, <1>5, <1>6, <1>7, <1>8

(* Before Initialize nothing is promised.                                     *)
LEMMA SetUpInitially == Init => SetUp
  BY DEF Init, SetUp

(* Only memory the loader reported as available is handed out, byte by byte,  *)
(* and none that the BIOS, the kernel, the loader, a module or the bitmap     *)
(* uses, for every memory map and frame size (Frame::Initialize).             *)
THEOREM HandedOutIsUsable == Spec => []HandedOutUsable
  BY Initially, Inductive, SetUpInitially, StaysSetUp, LeftIsUsable, PTL DEF Spec

(* The bitmap itself overwrites nothing (FirstFit, ChooseBitmapLocation).     *)
THEOREM BitmapIsPlaced == Spec => []BitmapPlaced
<1>1. IInv /\ SetUp => BitmapPlaced
  <2> SUFFICES ASSUME IInv, SetUp, phase = "up" PROVE BitmapPlaced
    BY DEF BitmapPlaced
  <2>1. PICK n \in Available(boot) : Fits(boot, bitmap, n)
    BY DEF SetUp
  <2>2. boot \in Boots /\ bitmap \in Spans /\ Clear(boot, bitmap) /\ MIB \in Nat
    BY RangesAssumption DEF IInv, Sound, SetUp
  <2>3. boot.regions[n].start \in Nat /\ boot.regions[n].end \in Nat
    BY <2>2, RegionIs
  <2>4. Bytes(bitmap) \subseteq Bytes(boot.regions[n])
    BY <2>1, <2>2, <2>3 DEF Bytes, Spans, Fits
  <2>5. bitmap.start >= MIB /\ bitmap.end <= IDENTITY_MAPPED_LIMIT
    BY <2>1, <2>2 DEF Spans, Fits
  <2> QED
    BY <2>2, <2>4, <2>5 DEF BitmapPlaced, Clear
<1> QED
  BY <1>1, Initially, Inductive, SetUpInitially, StaysSetUp, PTL DEF Spec
-----------------------------------------------------------------------------
(* A set of natural numbers that is not empty has a smallest element.        *)
LEMMA SmallestExists ==
    ASSUME NEW A \in SUBSET Nat, A # {}
    PROVE  \E x \in A : \A y \in A : x <= y
<1> DEFINE R == OpToRel(<, Nat)
<1>1. IsWellFoundedOn(R, Nat)
    BY NatLessThanWellFounded, Zenon
<1>2. \A x, y \in Nat : y < x => <<y, x>> \in R
    BY DEF OpToRel
<1> HIDE DEF R
<1>3. PICK x \in A : \A y \in A : ~(<<y, x>> \in R)
    BY <1>1, WFMin, Zenon
<1>4. \A y \in A : ~(y < x)
    BY <1>2, <1>3, Zenon
<1> QED
    BY <1>4, SMT

(* What holds at zero and is handed on from each number to the next holds    *)
(* up to a bound.                                                            *)
LEMMA UpToBound ==
    ASSUME NEW N \in Nat, NEW A, 0 \in A, \A n \in 1 .. N : n - 1 \in A => n \in A
    PROVE  \A n \in 0 .. N : n \in A
<1> DEFINE Bad == {n \in 0 .. N : n \notin A}
<1> SUFFICES ASSUME Bad # {} PROVE FALSE
    OBVIOUS
<1>0. Bad \in SUBSET Nat
    OBVIOUS
<1> HIDE DEF Bad
<1>1. PICK m \in Bad : \A n \in Bad : m <= n
    BY <1>0, SmallestExists, Zenon
<1> USE DEF Bad
<1>2. m \in 1 .. N /\ m - 1 \in 0 .. N /\ m - 1 \notin Bad
    BY <1>1
<1> QED
    BY <1>1, <1>2
-----------------------------------------------------------------------------
(* Multiboot, for every loader that keeps to the two standards.               *)
CONSTANTS Handovers, MAX_MODULES, DIRECT_MAP_BASE
VARIABLES
    given, parsing, tag, s_Standard, s_CommandLine, s_BootLoaderName, s_AcpiRsdp, s_Framebuffer, map, s_Modules

Loader == INSTANCE Multiboot WITH phase <- parsing

\* The address of the n-th tag, from those of the tags before it.
Behind(f, h, n) ==
    IF n = 1 THEN Loader!Reachable(h.info) + Loader!INFO_HEADER ELSE f[n - 1] + Loader!Padded(h.tags[n - 1].size)

(* There is a function of the addresses, so TagAddresses is one.             *)
LEMMA TagAddressesAre ==
    ASSUME NEW h, Len(h.tags) \in Nat
    PROVE  \A n \in 1 .. Len(h.tags) : Loader!TagAddress(h, n) = Behind(Loader!TagAddresses(h), h, n)
<1> DEFINE N == Len(h.tags)
           Satisfies(f, m) == f = [n \in 1 .. m |-> f[n]] /\ \A n \in 1 .. m : f[n] = Behind(f, h, n)
           A == {m \in Nat : \E f : Satisfies(f, m)}
           Fixed(f) == f = [n \in 1 .. N |-> Behind(f, h, n)]
<1>1. 0 \in A
    <2>1. Satisfies([i \in 1 .. 0 |-> 0], 0)
        OBVIOUS
    <2> QED
        BY <2>1, Zenon
<1>2. ASSUME NEW m \in 1 .. N, m - 1 \in A PROVE m \in A
    <2>1. PICK f : Satisfies(f, m - 1)
        BY <1>2
    <2> DEFINE g == [i \in 1 .. m |-> IF i = m THEN Behind(f, h, m) ELSE f[i]]
    <2>2. \A i \in 1 .. m : (i # 1 => i - 1 \in 1 .. m /\ i - 1 # m) /\ (i # m => i \in 1 .. m - 1)
        OBVIOUS
    <2>3. m \in Nat /\ g = [i \in 1 .. m |-> g[i]]
        OBVIOUS
    <2>4. ASSUME NEW i \in 1 .. m PROVE g[i] = Behind(g, h, i)
        <3>1. i # 1 => g[i - 1] = f[i - 1]
            BY <2>2, Zenon
        <3>2. Behind(g, h, i) = Behind(f, h, i)
            <4> HIDE DEF g
            <4> QED
                BY <3>1, Zenon DEF Behind
        <3>3. CASE i = m
            BY <3>2, <3>3, Zenon
        <3>4. CASE i # m
            BY <2>1, <2>2, <3>2, <3>4, Zenon
        <3> QED
            BY <3>3, <3>4, Zenon
    <2> HIDE DEF g
    <2>5. Satisfies(g, m)
        BY <2>3, <2>4, Zenon
    <2> QED
        BY <2>3, <2>5, Zenon
<1> HIDE DEF A
<1>3. N \in A
    <2>1. N \in Nat /\ N \in 0 .. N
        OBVIOUS
    <2>2. \A m \in 1 .. N : m - 1 \in A => m \in A
        BY <1>2, Zenon
    <2> HIDE DEF N
    <2> QED
        BY <1>1, <2>1, <2>2, UpToBound, Zenon
<1>4. PICK f : Satisfies(f, N)
    BY <1>3, Zenon DEF A
<1>5. Fixed(f)
    <2>1. f = [n \in 1 .. N |-> f[n]]
        BY <1>4
    <2> QED
        BY <1>4, <2>1, Zenon
<1>6. Loader!TagAddresses(h) = CHOOSE at : Fixed(at)
    BY DEF Loader!TagAddresses, Behind
<1>7. Fixed(Loader!TagAddresses(h))
    BY <1>5, <1>6, Zenon
<1> QED
    <2> DEFINE at == Loader!TagAddresses(h)
    <2>1. at = [n \in 1 .. N |-> Behind(at, h, n)]
        BY <1>7
    <2> HIDE DEF at
    <2>2. \A n \in 1 .. N : at[n] = Behind(at, h, n)
        BY <2>1, Zenon
    <2> QED
        BY <2>2 DEF Loader!TagAddress, at

(* Rounding up to the next tag, from an aligned address.                     *)
LEMMA Eights ==
    ASSUME NEW a \in Nat, NEW size \in Nat, a % 8 = 0
    PROVE  /\ Loader!Padded(a + size) = a + Loader!Padded(size)
           /\ a + Loader!Padded(size) \in Nat /\ (a + Loader!Padded(size)) % 8 = 0
           /\ a <= a + Loader!Padded(size)
<1>1. ((a + size + 7) \div 8) * 8 = a + ((size + 7) \div 8) * 8
    BY Z3
<1>2. (a + ((size + 7) \div 8) * 8) % 8 = 0
    BY Z3
<1>3. ((size + 7) \div 8) * 8 \in Nat
    BY Z3
<1> QED
    BY <1>1, <1>2, <1>3 DEF Loader!Padded

(* The first tag is aligned if the structure and the direct map are.         *)
LEMMA FirstAligned ==
    ASSUME NEW a \in Nat, NEW b \in Nat, a % 8 = 0, b % 8 = 0
    PROVE  a + b + 8 \in Nat /\ (a + b + 8) % 8 = 0 /\ a + b + 8 >= a + b
  BY Z3

(* Tags lie one behind the other, aligned, and Tag::Next finds the next one. *)
LEMMA TagsLie ==
    ASSUME NEW h, Loader!GoodV2(h), DIRECT_MAP_BASE \in Nat, DIRECT_MAP_BASE % 8 = 0
    PROVE  \A n \in 1 .. Len(h.tags) :
              /\ Loader!TagAddress(h, n) \in Nat /\ Loader!TagAddress(h, n) % 8 = 0
              /\ Loader!TagAddress(h, n) >= h.info + DIRECT_MAP_BASE
              /\ n # Len(h.tags) =>
                   Loader!TagAddress(h, n + 1) = Loader!Padded(Loader!TagAddress(h, n) + h.tags[n].size)
<1> DEFINE N == Len(h.tags)
           at(n) == Loader!TagAddress(h, n)
           Aligned(a) == a \in Nat /\ a % 8 = 0 /\ a >= h.info + DIRECT_MAP_BASE
           A == {0} \cup {n \in 1 .. N : Aligned(at(n))}
<1>1. /\ N \in Nat /\ DOMAIN h.tags = 1 .. N /\ h.info \in Nat /\ h.info # 0 /\ h.info % 8 = 0
      /\ \A n \in 1 .. N : h.tags[n].size \in Nat
    BY DEF Loader!GoodV2, Loader!GoodTag
<1>2. \A n \in 1 .. N : at(n) = IF n = 1 THEN h.info + DIRECT_MAP_BASE + 8
                                 ELSE at(n - 1) + Loader!Padded(h.tags[n - 1].size)
    <2>1. Loader!Reachable(h.info) + Loader!INFO_HEADER = h.info + DIRECT_MAP_BASE + 8
        BY <1>1 DEF Loader!Reachable, Loader!INFO_HEADER
    <2> QED
        BY <1>1, <2>1, TagAddressesAre, Zenon DEF Behind, Loader!TagAddress
<1> HIDE DEF at
<1>3. \A n \in 1 .. N : n - 1 \in A => n \in A
    <2> SUFFICES ASSUME NEW n \in 1 .. N, n - 1 \in A PROVE Aligned(at(n))
        OBVIOUS
    <2>1. CASE n = 1
        <3>1. at(n) = h.info + DIRECT_MAP_BASE + 8
            BY <1>2, <2>1, Zenon
        <3>2. Aligned(h.info + DIRECT_MAP_BASE + 8)
            BY <1>1, FirstAligned, Zenon
        <3> QED
            BY <3>1, <3>2, Zenon
    <2>2. CASE n # 1
        <3>1. Aligned(at(n - 1)) /\ h.tags[n - 1].size \in Nat /\ at(n) = at(n - 1) + Loader!Padded(h.tags[n - 1].size)
            BY <1>1, <1>2, <2>2
        <3>2. at(n) \in Nat /\ at(n) % 8 = 0 /\ at(n - 1) <= at(n)
            <4> DEFINE was == at(n - 1)
                       size == h.tags[n - 1].size
            <4>1. was \in Nat /\ size \in Nat /\ was % 8 = 0 /\ at(n) = was + Loader!Padded(size)
                BY <3>1, Zenon
            <4> HIDE DEF was, size
            <4>2. was + Loader!Padded(size) \in Nat /\ (was + Loader!Padded(size)) % 8 = 0 /\ was <= was + Loader!Padded(size)
                BY <4>1, Eights, Zenon
            <4> QED
                BY <4>1, <4>2, Zenon DEF was
        <3>3. h.info + DIRECT_MAP_BASE <= at(n)
            <4> DEFINE low == h.info + DIRECT_MAP_BASE
                       was == at(n - 1)
                       now == at(n)
            <4>1. low \in Nat /\ was \in Nat /\ now \in Nat /\ was >= low /\ was <= now
                BY <1>1, <3>1, <3>2
            <4> HIDE DEF low, was, now
            <4>2. low <= now
                BY <4>1
            <4> QED
                BY <4>2 DEF low, now
        <3> QED
            BY <3>2, <3>3
    <2> QED
        BY <2>1, <2>2
<1>4. \A n \in 0 .. N : n \in A
    <2>1. 0 \in A
        OBVIOUS
    <2> HIDE DEF A
    <2> QED
        BY <1>1, <1>3, <2>1, UpToBound, Zenon
<1>5. \A n \in 1 .. N : Aligned(at(n))
    BY <1>1, <1>4
<1>6. ASSUME NEW n \in 1 .. N, n # N PROVE at(n + 1) = Loader!Padded(at(n) + h.tags[n].size)
    <2>1. n + 1 \in 1 .. N /\ n + 1 # 1 /\ n + 1 - 1 = n
        BY <1>1, <1>6
    <2>2. at(n + 1) = at(n) + Loader!Padded(h.tags[n].size)
        BY <1>2, <2>1
    <2>3. Aligned(at(n)) /\ h.tags[n].size \in Nat
        BY <1>1, <1>5
    <2> QED
        BY <2>2, <2>3, Eights, Zenon
<1> QED
    BY <1>5, <1>6 DEF at

(* Every entry that a map is said to have lies in the room it was given.     *)
LEMMA EntriesFit ==
    ASSUME NEW room \in Nat, NEW size \in Nat, size >= 24, NEW i \in 0 .. room \div size - 1
    PROVE  i * size \in Nat /\ i * size + 24 <= room
<1> DEFINE q == room \div size
<1>1. q \in Nat /\ q * size <= room
    BY Z3
<1> HIDE DEF q
<1>2. i \in Nat /\ i + 1 <= q
    BY <1>1 DEF q
<1>3. i * size \in Nat /\ (i + 1) * size = i * size + size
    BY <1>2, Z3
<1>4. (i + 1) * size <= q * size
    BY <1>1, <1>2, Z3
<1> QED
    BY <1>1, <1>3, <1>4, Z3

\* Bytes of the structure the loader handed over.
Inside(address, length) ==
    /\ address \in Nat /\ given.info + DIRECT_MAP_BASE <= address
    /\ address + length <= given.info + given.total + DIRECT_MAP_BASE

\* All that ParseV2 keeps a pointer to is among them.
InStructure ==
    /\ \A i \in 0 .. map.count - 1 : Inside(Loader!GetMemoryRegion(i), 24)
    /\ s_Modules \in Seq(Nat) /\ \A n \in DOMAIN s_Modules : Inside(s_Modules[n], 16)
    /\ s_CommandLine # 0 => Inside(s_CommandLine, 1)
    /\ s_AcpiRsdp # 0 => Inside(s_AcpiRsdp, 1)

LoaderInv ==
    /\ given \in Handovers
    /\ parsing = "start" => s_Standard = "NONE"
    /\ parsing = "tags" => s_Standard = "V2" /\ Loader!TagsAt(given, tag) # {}
    /\ s_Standard = "NONE" => map = Loader!NoMap /\ s_Modules = <<>> /\ s_CommandLine = 0 /\ s_AcpiRsdp = 0
    /\ s_Standard = "V2" => given.magic = "V2" /\ InStructure
    /\ s_Standard = "V1" => parsing = "done" /\ Loader!AccessedIsReserved
    /\ s_Standard \in {"NONE", "V1", "V2"}

(* What lies in the structure is reserved.                                   *)
LEMMA InsideIsReserved ==
    ASSUME Loader!GoodV2(given), DIRECT_MAP_BASE \in Nat, s_Standard = "V2",
           NEW address, NEW length \in Nat \ {0}, Inside(address, length)
    PROVE  Loader!Reserved(address, length)
<1>1. given.info \in Nat /\ given.info # 0 /\ given.total \in Nat
    BY DEF Loader!GoodV2
<1>2. given.total # 0
    BY <1>1 DEF Inside
<1>3. [start |-> given.info, length |-> given.total] \in Loader!InfoRegions
    BY <1>1, <1>2 DEF Loader!InfoRegions, Loader!Described
<1> QED
    BY <1>3 DEF Loader!Reserved, Inside

(* Where the walk is, there is a tag in the structure, and if it is not the  *)
(* last, Tag::Next is another one.                                           *)
LEMMA AtATag ==
    ASSUME Loader!LoadersAssumption, LoaderInv, parsing = "tags", Loader!Tag(tag).type # "END"
    PROVE  /\ tag \in Nat /\ Loader!GoodTag(Loader!Tag(tag)) /\ Inside(tag, Loader!Tag(tag).size)
           /\ Loader!TagsAt(given, Loader!NextTag(tag)) # {}
<1> DEFINE n == CHOOSE n \in Loader!TagsAt(given, tag) : TRUE
<1>1. /\ Loader!GoodV2(given) /\ DIRECT_MAP_BASE \in Nat /\ DIRECT_MAP_BASE % 8 = 0
      /\ Loader!TagsAt(given, tag) # {}
    BY Zenon DEF LoaderInv, Loader!LoadersAssumption
<1>2. n \in Loader!TagsAt(given, tag) /\ Loader!Tag(tag) = given.tags[n]
    BY <1>1, Zenon DEF Loader!Tag
<1> HIDE DEF n
<1>3. /\ n \in 1 .. Len(given.tags) /\ Loader!TagAddress(given, n) = tag
      /\ given.tags[Len(given.tags)].type = "END" /\ Len(given.tags) \in Nat
      /\ DOMAIN given.tags = 1 .. Len(given.tags)
    BY <1>1, <1>2 DEF Loader!TagsAt, Loader!GoodV2
<1>4. n # Len(given.tags) /\ n + 1 \in 1 .. Len(given.tags)
    BY <1>2, <1>3
<1>5. tag \in Nat /\ tag >= given.info + DIRECT_MAP_BASE
      /\ Loader!TagAddress(given, n + 1) = Loader!Padded(tag + given.tags[n].size)
    BY <1>1, <1>3, <1>4, TagsLie
<1>6. /\ Loader!GoodTag(given.tags[n]) /\ given.info \in Nat /\ given.total \in Nat
      /\ tag + given.tags[n].size <= given.info + DIRECT_MAP_BASE + given.total
    BY <1>1, <1>3 DEF Loader!GoodV2, Loader!Reachable
<1>7. Inside(tag, given.tags[n].size)
    BY <1>1, <1>5, <1>6 DEF Inside, Loader!GoodTag
<1>8. n + 1 \in Loader!TagsAt(given, Loader!NextTag(tag))
    BY <1>2, <1>3, <1>4, <1>5 DEF Loader!TagsAt, Loader!NextTag
<1> QED
    BY <1>2, <1>5, <1>6, <1>7, <1>8

(* A tag's step goes on to a tag; what it leaves alone stays in the          *)
(* structure.                                                                *)
LEMMA TagStep ==
    ASSUME Loader!LoadersAssumption, LoaderInv, parsing = "tags", Loader!Tag(tag).type # "END",
           Loader!Go, InStructure'
    PROVE  LoaderInv'
<1>1. Loader!TagsAt(given, Loader!NextTag(tag)) # {}
    BY AtATag
<1>2. tag' = Loader!NextTag(tag) /\ given' = given /\ parsing' = parsing /\ s_Standard' = s_Standard
    BY DEF Loader!Go
<1>3. Loader!TagsAt(given', tag') # {}
    BY <1>1, <1>2, Zenon
<1>4. Loader!TagsAt(given, tag)' # {}
    BY <1>3, Zenon DEF Loader!TagsAt
<1> QED
    BY <1>2, <1>4 DEF LoaderInv

(* Every tag keeps the pointers in the structure.                            *)
LEMMA TagKeeps ==
    ASSUME Loader!LoadersAssumption, LoaderInv,
           \/ Loader!CommandLineTag \/ Loader!LoaderNameTag \/ Loader!ModuleTag \/ Loader!MemoryMapTag
           \/ Loader!AcpiTag \/ Loader!FramebufferTag \/ Loader!OtherTag
    PROVE  LoaderInv'
<1> DEFINE t == Loader!Tag(tag)
<1>1. parsing = "tags" /\ t.type # "END" /\ Loader!Go /\ given' = given
    BY DEF Loader!CommandLineTag, Loader!LoaderNameTag, Loader!ModuleTag, Loader!MemoryMapTag, Loader!AcpiTag,
           Loader!FramebufferTag, Loader!OtherTag, Loader!AtTag, Loader!Go
<1>2. tag \in Nat /\ Loader!GoodTag(t) /\ Inside(tag, t.size)
    BY <1>1, AtATag
<1>3. InStructure /\ DIRECT_MAP_BASE \in Nat /\ given.info \in Nat /\ given.total \in Nat
    BY <1>1 DEF LoaderInv, Loader!LoadersAssumption, Loader!GoodV2
<1>4. \A a, l : Inside(a, l)' <=> Inside(a, l)
    BY <1>1 DEF Inside
<1>5. SUFFICES InStructure'
    BY <1>1, TagStep
<1>6. ASSUME t.size >= 9 PROVE Inside(tag + Loader!TAG_HEADER, 1)
    BY <1>2, <1>3, <1>6 DEF Inside, Loader!GoodTag, Loader!TAG_HEADER
<1>7. CASE Loader!CommandLineTag
    <2>1. t.size >= 9
        BY <1>2, <1>7 DEF Loader!CommandLineTag, Loader!AtTag, Loader!GoodTag, Loader!SmallestTag, Loader!TAG_HEADER
    <2> QED
        BY <1>3, <1>4, <1>6, <1>7, <2>1 DEF Loader!CommandLineTag, InStructure, Loader!GetMemoryRegion
<1>8. CASE Loader!AcpiTag
    <2>1. t.size >= 9
        BY <1>2, <1>8 DEF Loader!AcpiTag, Loader!AtTag, Loader!GoodTag, Loader!SmallestTag, Loader!TAG_HEADER
    <2> QED
        BY <1>3, <1>4, <1>6, <1>8, <2>1 DEF Loader!AcpiTag, InStructure, Loader!GetMemoryRegion
<1>9. CASE Loader!ModuleTag
    <2>1. t.size >= 16
        BY <1>2, <1>9 DEF Loader!ModuleTag, Loader!AtTag, Loader!GoodTag, Loader!SmallestTag, Loader!MAP_HEADER
    <2>2. Inside(tag, 16)
        BY <1>2, <1>3, <2>1 DEF Inside, Loader!GoodTag
    <2>3. s_Modules' = s_Modules \/ s_Modules' = Append(s_Modules, tag)
        BY <1>9 DEF Loader!ModuleTag
    <2>4. s_Modules' \in Seq(Nat) /\ \A n \in DOMAIN s_Modules' : Inside(s_Modules'[n], 16)
        <3>1. s_Modules \in Seq(Nat) /\ \A n \in 1 .. Len(s_Modules) : Inside(s_Modules[n], 16)
            BY <1>3 DEF InStructure
        <3>2. ASSUME s_Modules' = Append(s_Modules, tag)
              PROVE  /\ s_Modules' \in Seq(Nat) /\ Len(s_Modules') = Len(s_Modules) + 1
                     /\ \A n \in 1 .. Len(s_Modules') :
                          s_Modules'[n] = IF n = Len(s_Modules) + 1 THEN tag ELSE s_Modules[n]
            BY <1>2, <3>1, <3>2, AppendProperties
        <3>3. CASE s_Modules' = Append(s_Modules, tag)
            BY <2>2, <3>1, <3>2, <3>3
        <3> QED
            BY <2>3, <3>1, <3>3
    <2> QED
        BY <1>3, <1>4, <1>9, <2>4 DEF Loader!ModuleTag, InStructure, Loader!GetMemoryRegion
<1>10. CASE Loader!MemoryMapTag
    <2> DEFINE room == t.size - 16
               size == t.entrySize
    <2>1. room \in Nat /\ size \in Nat /\ size >= 24
        BY <1>2, <1>10 DEF Loader!MemoryMapTag, Loader!AtTag, Loader!GoodTag, Loader!SmallestTag, Loader!MAP_HEADER,
                           Loader!V2_ENTRY
    <2>2. map' = [entries |-> tag + 16, size |-> size, count |-> room \div size]
        BY <1>10 DEF Loader!MemoryMapTag, Loader!EntrySize, Loader!MAP_HEADER
    <2>3. tag + 16 + room = tag + t.size
        BY <1>2 DEF Loader!GoodTag
    <2> HIDE DEF room, size
    <2>4. ASSUME NEW i \in 0 .. room \div size - 1 PROVE Inside(tag + 16 + i * size, 24)
        <3>1. i * size \in Nat /\ i * size + 24 <= room
            BY <2>1, EntriesFit
        <3> DEFINE offset == i * size
        <3>2. offset \in Nat /\ offset + 24 <= room
            BY <3>1
        <3> HIDE DEF offset
        <3>3. Inside(tag + 16 + offset, 24)
            BY <1>2, <1>3, <2>1, <2>3, <3>2 DEF Inside
        <3> QED
            BY <3>3 DEF offset
    <2>5. \A i \in 0 .. map'.count - 1 : Inside(map'.entries + i * map'.size, 24)
        BY <2>2, <2>4
    <2> QED
        BY <1>3, <1>4, <1>10, <2>5 DEF Loader!MemoryMapTag, InStructure, Loader!GetMemoryRegion
<1>11. CASE Loader!LoaderNameTag \/ Loader!FramebufferTag \/ Loader!OtherTag
    BY <1>3, <1>4, <1>11 DEF Loader!LoaderNameTag, Loader!FramebufferTag, Loader!OtherTag, InStructure,
       Loader!GetMemoryRegion
<1> QED
    BY <1>7, <1>8, <1>9, <1>10, <1>11, ZenonT(60)

\* Some region has these bytes.
Covers(Regions, address, length) ==
    \E r \in Regions :
        r.start + DIRECT_MAP_BASE <= address /\ address + length <= r.start + r.length + DIRECT_MAP_BASE

(* What a region describes is covered.                                       *)
LEMMA RegionCovers ==
    ASSUME DIRECT_MAP_BASE \in Nat, NEW Regions, NEW start \in Nat, NEW size \in Nat, NEW offset \in Nat, NEW length \in Nat,
           [start |-> start, length |-> size] \in Regions, offset + length <= size
    PROVE  Covers(Regions, start + DIRECT_MAP_BASE + offset, length)
<1> DEFINE r == [start |-> start, length |-> size]
<1>1. r.start + DIRECT_MAP_BASE <= start + DIRECT_MAP_BASE + offset
    OBVIOUS
<1>2. start + DIRECT_MAP_BASE + offset + length <= r.start + r.length + DIRECT_MAP_BASE
    OBVIOUS
<1> QED
    BY <1>1, <1>2 DEF Covers

(* ParseV1 keeps pointers into the regions that GetInfoRegion knows.         *)
LEMMA V1Keeps ==
    ASSUME Loader!LoadersAssumption, LoaderInv, Loader!ParseV1
    PROVE  LoaderInv'
<1> USE DEF Loader!V1_ENTRY, Loader!V2_ENTRY, Loader!V1_MODULE
<1>1. Loader!GoodV1(given) /\ DIRECT_MAP_BASE \in Nat /\ MAX_MODULES \in Nat
    BY Zenon DEF LoaderInv, Loader!LoadersAssumption, Loader!ParseV1
<1>2. given' = given /\ s_Standard' = "V1" /\ parsing' = "done" /\ s_AcpiRsdp' = 0
    BY DEF LoaderInv, Loader!ParseV1
<1>3. Loader!InfoRegions' = Loader!InfoRegionsV1'
    BY <1>2 DEF Loader!InfoRegions
<1>4. \A start, size : start # 0 /\ size # 0 => [start |-> start, length |-> size] \in Loader!Described(start, size)
    BY DEF Loader!Described
<1>5. ASSUME NEW i \in 0 .. map'.count - 1 PROVE Loader!Reserved(Loader!GetMemoryRegion(i), 24)'
    <2> DEFINE start == given.map.start
               room == given.map.length
               size == given.map.stride
    <2>1. "MEMORY_MAP" \in given.flags /\ room >= 24
          /\ map' = [entries |-> Loader!Reachable(start), size |-> size, count |-> room \div size]
        BY <1>5 DEF Loader!ParseV1, Loader!NoMap
    <2>2. start \in Nat /\ start # 0 /\ room \in Nat /\ size \in Nat /\ size >= 24
        BY <1>1, <2>1, ZenonT(60) DEF Loader!GoodV1
    <2>3. [start |-> start, length |-> room] \in Loader!InfoRegions'
        BY <1>2, <1>3, <1>4, <2>1, <2>2 DEF Loader!InfoRegionsV1
    <2> HIDE DEF start, room, size
    <2>4. i \in 0 .. room \div size - 1
        BY <2>1
    <2>5. i * size \in Nat /\ i * size + 24 <= room
        BY <2>2, <2>4, EntriesFit
    <2> DEFINE offset == i * size
    <2>6. Loader!GetMemoryRegion(i)' = start + DIRECT_MAP_BASE + offset
        BY <2>1, <2>2 DEF Loader!GetMemoryRegion, Loader!Reachable
    <2>7. offset \in Nat /\ offset + 24 <= room
        BY <2>5
    <2> HIDE DEF offset
    <2>8. Covers(Loader!InfoRegions', start + DIRECT_MAP_BASE + offset, 24)
        BY <1>1, <2>2, <2>3, <2>7, RegionCovers
    <2> QED
        BY <2>6, <2>8 DEF Loader!Reserved, Covers
<1>6. ASSUME NEW n \in DOMAIN s_Modules' PROVE Loader!Reserved(s_Modules[n], 16)'
    <2>1. "MODULES" \in given.flags
        BY <1>6 DEF Loader!ParseV1
    <2>2. given.modules \in Nat /\ given.moduleTable \in Nat /\ given.moduleTable # 0
        BY <1>1, <2>1 DEF Loader!GoodV1
    <2>3. n \in 1 .. given.modules /\ s_Modules'[n] = given.moduleTable + DIRECT_MAP_BASE + (n - 1) * 16
        BY <1>1, <1>6, <2>1, <2>2 DEF Loader!ParseV1, Loader!Reachable
    <2>4. [start |-> given.moduleTable, length |-> given.modules * 16] \in Loader!InfoRegions'
        BY <1>2, <1>3, <1>4, <2>2, <2>3 DEF Loader!InfoRegionsV1
    <2>5. (n - 1) * 16 \in Nat /\ given.modules * 16 \in Nat /\ (n - 1) * 16 + 16 <= given.modules * 16
        BY <2>2, <2>3
    <2>6. Covers(Loader!InfoRegions', given.moduleTable + DIRECT_MAP_BASE + (n - 1) * 16, 16)
        BY <1>1, <2>2, <2>4, <2>5, RegionCovers, Zenon
    <2> QED
        BY <2>3, <2>6 DEF Loader!Reserved, Covers
<1>7. ASSUME s_CommandLine' # 0 PROVE Loader!Reserved(s_CommandLine, given.commandLine.length)'
    <2> DEFINE start == given.commandLine.start
               length == given.commandLine.length
    <2>1. "CMDLINE" \in given.flags /\ start # 0 /\ s_CommandLine' = start + DIRECT_MAP_BASE
        BY <1>7 DEF Loader!ParseV1, Loader!Reachable
    <2>2. start \in Nat /\ length \in Nat /\ length # 0
        BY <1>1, <2>1 DEF Loader!GoodV1
    <2>3. [start |-> start, length |-> length] \in Loader!InfoRegions'
        BY <1>2, <1>3, <1>4, <1>7, <2>1, <2>2 DEF Loader!InfoRegionsV1
    <2> HIDE DEF start, length
    <2>4. 0 \in Nat /\ 0 + length <= length
        BY <2>2
    <2>5. Covers(Loader!InfoRegions', start + DIRECT_MAP_BASE + 0, length)
        BY <1>1, <2>2, <2>3, <2>4, RegionCovers, Zenon
    <2> QED
        BY <1>1, <1>2, <2>1, <2>2, <2>5 DEF Loader!Reserved, Covers, start, length
<1>8. Loader!AccessedIsReserved'
    BY <1>2, <1>5, <1>6, <1>7 DEF Loader!AccessedIsReserved
<1> QED
    BY <1>2, <1>8 DEF LoaderInv

(* What the accessors of Multiboot read lies in memory that GetInfoRegion    *)
(* keeps reserved, for every loader that keeps to its standard.              *)
THEOREM HandoverStaysReserved ==
    Loader!LoadersAssumption => (Loader!Spec => []Loader!AccessedIsReserved)
<1> SUFFICES ASSUME Loader!LoadersAssumption PROVE Loader!Spec => []Loader!AccessedIsReserved
    OBVIOUS
<1>1. Loader!Init => LoaderInv
    BY DEF Loader!Init, LoaderInv
<1>2. LoaderInv /\ [Loader!Next]_Loader!vars => LoaderInv'
    <2> SUFFICES ASSUME LoaderInv, [Loader!Next]_Loader!vars PROVE LoaderInv'
        OBVIOUS
    <2>1. CASE Loader!InitializeV2
        <3>1. given' = given /\ Loader!GoodV2(given) /\ given.magic = "V2"
            BY <2>1 DEF LoaderInv, Loader!LoadersAssumption, Loader!InitializeV2
        <3>2. Len(given.tags) \in Nat /\ 1 \in 1 .. Len(given.tags) /\ DOMAIN given.tags = 1 .. Len(given.tags)
            BY <3>1 DEF Loader!GoodV2
        <3>3. Loader!TagAddress(given, 1) = tag'
            BY <2>1, <3>2, TagAddressesAre DEF Loader!InitializeV2, Behind
        <3>4. 1 \in Loader!TagsAt(given', tag')
            BY <3>1, <3>2, <3>3 DEF Loader!TagsAt
        <3>5. Loader!TagsAt(given, tag)' # {}
            BY <3>4, Zenon DEF Loader!TagsAt
        <3>6. InStructure'
            BY <2>1 DEF LoaderInv, Loader!InitializeV2, InStructure, Loader!NoMap
        <3> QED
            BY <2>1, <3>1, <3>5, <3>6 DEF LoaderInv, Loader!InitializeV2
    <2>2. CASE Loader!ParseV1
        BY <2>2, V1Keeps
    <2>3. CASE \/ Loader!CommandLineTag \/ Loader!LoaderNameTag \/ Loader!ModuleTag \/ Loader!MemoryMapTag
               \/ Loader!AcpiTag \/ Loader!FramebufferTag \/ Loader!OtherTag
        BY <2>3, TagKeeps
    <2>4. CASE Loader!EndTag \/ Loader!NotMultiboot \/ UNCHANGED Loader!vars
        <3>1. UNCHANGED <<given, tag, s_Standard, s_CommandLine, s_AcpiRsdp, map, s_Modules>>
              /\ (parsing' = parsing \/ (parsing' = "done" /\ s_Standard # "V1"))
            BY <2>4 DEF Loader!EndTag, Loader!NotMultiboot, Loader!vars, LoaderInv
        <3>2. InStructure' <=> InStructure
            BY <3>1 DEF InStructure, Inside, Loader!GetMemoryRegion
        <3>3. Loader!TagsAt(given, tag)' = Loader!TagsAt(given, tag)
            BY <3>1, Zenon DEF Loader!TagsAt
        <3>4. parsing' = parsing => (Loader!AccessedIsReserved' <=> Loader!AccessedIsReserved)
            BY <3>1 DEF Loader!AccessedIsReserved, Loader!Reserved, Loader!InfoRegions, Loader!InfoRegionsV1,
               Loader!GetMemoryRegion
        <3> QED
            BY <3>1, <3>2, <3>3, <3>4 DEF LoaderInv
    <2> QED
        BY <2>1, <2>2, <2>3, <2>4 DEF Loader!Next
<1>3. LoaderInv => Loader!AccessedIsReserved
    <2> SUFFICES ASSUME LoaderInv PROVE Loader!AccessedIsReserved
        OBVIOUS
    <2>1. CASE s_Standard = "V1"
        BY <2>1 DEF LoaderInv
    <2>2. CASE s_Standard = "NONE"
        BY <2>2 DEF LoaderInv, Loader!AccessedIsReserved, Loader!NoMap
    <2>3. CASE s_Standard = "V2"
        <3>1. InStructure /\ Loader!GoodV2(given) /\ DIRECT_MAP_BASE \in Nat
            BY <2>3 DEF LoaderInv, Loader!LoadersAssumption
        <3>2. \A a, n : n \in Nat \ {0} /\ Inside(a, n) => Loader!Reserved(a, n)
            BY <2>3, <3>1, InsideIsReserved, Zenon
        <3>3. Loader!V2_ENTRY = 24 /\ Loader!V1_MODULE = 16 /\ \A n \in {1, 16, 24} : n \in Nat \ {0}
            BY DEF Loader!V2_ENTRY, Loader!V1_MODULE
        <3>4. \A i \in 0 .. map.count - 1 : Loader!Reserved(Loader!GetMemoryRegion(i), Loader!V2_ENTRY)
            BY <3>1, <3>2, <3>3, Zenon DEF InStructure
        <3>5. \A n \in DOMAIN s_Modules : Loader!Reserved(s_Modules[n], Loader!V1_MODULE)
            BY <3>1, <3>2, <3>3, Zenon DEF InStructure
        <3>6. /\ s_CommandLine # 0 => Loader!Reserved(s_CommandLine, 1)
              /\ s_AcpiRsdp # 0 => Loader!Reserved(s_AcpiRsdp, 1)
            BY <3>1, <3>2, <3>3, Zenon DEF InStructure
        <3>7. s_Standard # "V1"
            BY <2>3
        <3> QED
            BY <3>4, <3>5, <3>6, <3>7, Zenon DEF Loader!AccessedIsReserved
    <2> QED
        BY <2>1, <2>2, <2>3 DEF LoaderInv
<1> QED
    BY <1>1, <1>2, <1>3, PTL DEF Loader!Spec
=============================================================================
