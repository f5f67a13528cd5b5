-------------------------- MODULE BellringerProofs --------------------------
(* The Bellringer keeps its promise, for any number of threads and any length *)
(* of sleep: the delta list implements the timing wheel of module Alarms.     *)
EXTENDS Bellringer, BellListProofs, FiniteSetTheorems

\* A leaf is translated with all the definitions before it: the provers get more
\* time for that than by default.
USE SMTT(30), ZenonT(60)

(* The bells that ring before the n-th tick are a prefix of the list, of the  *)
(* length Before counts.                                                      *)
LEMMA BeforeUnique ==
    ASSUME NEW T, NEW bells \in Bells(T), NEW n \in Nat, NEW b \in 0 .. Len(bells),
           \A i \in 1 .. Len(bells) : DueIn(bells)[i] < n <=> i <= b
    PROVE  Before(bells, n) = b
<1>1. Len(bells) \in Nat /\ DOMAIN bells = 1 .. Len(bells)
  BY BellsAre
<1>2. {i \in DOMAIN bells : DueIn(bells)[i] < n} = 1 .. b
  BY <1>1
<1>3. 1 \in Int /\ b \in Int
  BY <1>1
<1>4. Cardinality(1 .. b) = IF 1 > b THEN 0 ELSE b - 1 + 1
  BY <1>3, FS_Interval
<1>5. Cardinality(1 .. b) = b
  BY <1>1, <1>4
<1> QED
  BY <1>2, <1>5, Zenon DEF Before

(* The first Before(bells, n) bells are those that ring before tick n.         *)
LEMMA BeforeIs ==
    ASSUME NEW T, NEW bells \in Bells(T), NEW n \in Nat \ {0}
    PROVE  /\ Before(bells, n) \in 0 .. Len(bells)
           /\ \A i \in 1 .. Len(bells) : DueIn(bells)[i] < n <=> i <= Before(bells, n)
<1> DEFINE due == DueIn(bells)
           L == Len(bells)
<1>1. L \in Nat
  BY BellsAre
<1>2. due \in [0 .. L -> Nat]
  BY DueIs
<1>3. n - 1 \in Nat
  OBVIOUS
<1>4. PICK b \in 0 .. L : due[b] <= n - 1 /\ \A j \in b + 1 .. L : due[j] > n - 1
  BY <1>3, WalkStops, Zenon
<1>5. \A i \in 0 .. L : \A j \in i .. L : due[i] <= due[j]
  BY DueMonotone
<1> HIDE DEF due, L
<1>6. ASSUME NEW i \in 1 .. L PROVE due[i] < n <=> i <= b
  <2>1. due[i] \in Nat /\ due[b] \in Nat
    BY <1>1, <1>2
  <2>2. CASE i <= b
    <3>1. due[i] <= due[b]
      BY <2>2, <1>1, <1>5
    <3> QED
      BY <2>1, <2>2, <3>1, <1>4
  <2>3. CASE i > b
    <3>1. i \in b + 1 .. L
      BY <2>3, <1>1
    <3> QED
      BY <2>1, <2>3, <3>1, <1>4, <1>1
  <2> QED
    BY <2>2, <2>3, <1>1
<1>7. Before(bells, n) = b
  BY <1>6, BeforeUnique DEF due, L
<1> QED
  BY <1>6, <1>7 DEF due, L

(* Types, and that every bell is due within the longest sleep but not yet.    *)
IInv ==
    /\ m_Bells \in Bells(Threads)
    /\ NoneOverdue(m_Bells)
    /\ \A i \in 1 .. Len(m_Bells) : DueIn(m_Bells)[i] \in 1 .. MaxTicks

(* No sleep is shorter than a tick or longer than the longest.                *)
LEMMA SleepTicks ==
    ASSUME MillisecondsAssumption, NEW ms \in Milliseconds
    PROVE  TicksFor(ms) \in 1 .. MaxTicks
<1>1. ms \in Nat /\ TicksFor(ms) <= MaxTicks /\ MaxTicks \in Nat
  BY DEF MillisecondsAssumption
<1>2. ms \div 10 \in Nat
  BY <1>1
<1>3. TicksFor(ms) \in Nat /\ TicksFor(ms) >= 1
  BY <1>2 DEF TicksFor, SCHEDULER_TICK_MS
<1> QED
  BY <1>1, <1>3

(* A bell that is due at the first tick or later leaves none overdue.         *)
LEMMA DueLater ==
    ASSUME NEW T, NEW bells \in Bells(T), \A i \in 1 .. Len(bells) : DueIn(bells)[i] >= 1
    PROVE  NoneOverdue(bells)
<1> SUFFICES ASSUME bells # << >> PROVE bells[1].Ticks > 0
  BY DEF NoneOverdue
<1>1. Len(bells) \in Nat \ {0}
  BY EmptySeq DEF Bells
<1>2. 1 \in 1 .. Len(bells) /\ 1 - 1 = 0
  BY <1>1
<1>3. bells[1].Ticks \in Nat
  BY <1>2, BellsAre
<1>4. DueIn(bells)[1] = 0 + bells[1].Ticks
  BY <1>2, DueIs
<1> QED
  BY <1>2, <1>3, <1>4

(* Sleep keeps the invariant.                                                 *)
LEMMA SleepKeeps ==
    ASSUME MillisecondsAssumption, IInv, NEW t \in Threads, NEW ms \in Milliseconds, Sleep(t, ms)
    PROVE  IInv'
<1> DEFINE ticks == TicksFor(ms)
           due == DueIn(m_Bells)
           L == Len(m_Bells)
           new == Insert(m_Bells, t, ticks)
<1>1. ticks \in 1 .. MaxTicks /\ MaxTicks \in Nat
  BY SleepTicks DEF MillisecondsAssumption
<1>2. m_Bells' = new /\ m_Bells \in Bells(Threads) /\ L \in Nat
  BY BellsAre DEF Sleep, IInv
<1>3. \A i \in 1 .. L : due[i] \in 1 .. MaxTicks
  BY DEF IInv
<1>4. new \in Bells(Threads) /\ Len(new) = L + 1
  BY <1>1, <1>2, InsertIs
<1>p. PICK pos \in 0 .. L : InsertedAt(new, m_Bells, t, ticks, pos)
  BY <1>1, <1>2, InsertIs
<1>5. \A i \in 1 .. L + 1 :
         DueIn(new)[i] = IF i <= pos THEN due[i] ELSE IF i = pos + 1 THEN ticks ELSE due[i - 1]
  BY <1>p DEF InsertedAt
<1> HIDE DEF due, L, new, ticks
<1>6. ASSUME NEW i \in 1 .. L + 1 PROVE DueIn(new)[i] \in 1 .. MaxTicks
  <2>1. CASE i <= pos + 1
    BY <2>1, <1>1, <1>2, <1>3, <1>5
  <2>2. CASE i > pos + 1
    <3>1. i - 1 \in 1 .. L
      BY <2>2, <1>2
    <3> QED
      BY <2>2, <3>1, <1>2, <1>3, <1>5
  <2> QED
    BY <2>1, <2>2, <1>2
<1>7. NoneOverdue(new)
  BY <1>1, <1>4, <1>6, DueLater
<1> QED
  BY <1>2, <1>4, <1>6, <1>7 DEF IInv

(* Check keeps the invariant.                                                 *)
LEMMA CheckKeeps ==
    ASSUME MillisecondsAssumption, IInv, Check
    PROVE  IInv'
<1> DEFINE due == DueIn(m_Bells)
           L == Len(m_Bells)
           k == DueCount(Tick(m_Bells))
           new == Unrung(m_Bells)
<1>1. m_Bells' = new /\ m_Bells \in Bells(Threads) /\ L \in Nat /\ NoneOverdue(m_Bells) /\ MaxTicks \in Nat
  BY BellsAre DEF Check, IInv, MillisecondsAssumption
<1>2. \A i \in 1 .. L : due[i] \in 1 .. MaxTicks
  BY DEF IInv
<1>3. /\ k \in 0 .. L /\ new \in Bells(Threads) /\ Len(new) = L - k
      /\ k < L => new[1].Ticks > 0
  BY <1>1, CheckIs
<1>4. /\ \A i \in 1 .. L : due[i] >= 1 /\ (due[i] = 1 <=> i <= k)
      /\ \A i \in 1 .. L - k : DueIn(new)[i] = due[k + i] - 1
  BY <1>1, CheckRingsTheDue
<1> HIDE DEF due, L, new, k
<1>5. ASSUME NEW i \in 1 .. L - k PROVE DueIn(new)[i] \in 1 .. MaxTicks
  <2>1. k + i \in 1 .. L /\ ~(k + i <= k)
    BY <1>1, <1>3
  <2> QED
    BY <2>1, <1>1, <1>2, <1>4
<1>6. NoneOverdue(new)
  BY <1>1, <1>3, <1>5, DueLater
<1> QED
  BY <1>1, <1>3, <1>5, <1>6 DEF IInv

(* A slot of the wheel is the stretch of the list between two prefixes.       *)
LEMMA SlotIs ==
    ASSUME MillisecondsAssumption, NEW bells \in Bells(Threads), NEW n \in 1 .. MaxTicks
    PROVE  LET b == Before(bells, n)
               d == Before(bells, n + 1)
           IN  /\ b \in 0 .. Len(bells) /\ d \in 0 .. Len(bells) /\ d - b \in Nat
               /\ WheelOf(bells)[n] \in Seq(Threads) /\ Len(WheelOf(bells)[n]) = d - b
               /\ \A k \in 1 .. d - b : WheelOf(bells)[n][k] = bells[b + k].Owner
<1> DEFINE b == Before(bells, n)
           d == Before(bells, n + 1)
           L == Len(bells)
           slot == WheelOf(bells)[n]
<1>0. n \in Nat \ {0} /\ n + 1 \in Nat \ {0}
  BY DEF MillisecondsAssumption
<1>1. L \in Nat /\ \A i \in 1 .. L : bells[i].Owner \in Threads
  BY BellsAre
<1>2. b \in 0 .. L /\ \A i \in 1 .. L : DueIn(bells)[i] < n <=> i <= b
  BY <1>0, BeforeIs
<1>3. d \in 0 .. L /\ \A i \in 1 .. L : DueIn(bells)[i] < n + 1 <=> i <= d
  BY <1>0, BeforeIs
<1>4. slot = [k \in 1 .. d - b |-> bells[b + k].Owner]
  BY DEF WheelOf
<1> HIDE DEF b, d, L, slot
<1>5. b <= d
  <2> SUFFICES ASSUME ~(b <= d) PROVE FALSE
    OBVIOUS
  <2>1. b \in 1 .. L /\ b <= b
    BY <1>1, <1>2, <1>3
  <2>2. DueIn(bells)[b] \in Nat
    BY <2>1, <1>1, DueIs DEF L
  <2>3. DueIn(bells)[b] < n /\ ~(DueIn(bells)[b] < n + 1)
    BY <2>1, <1>2, <1>3
  <2> QED
    BY <2>2, <2>3, <1>0
<1>6. d - b \in Nat /\ \A k \in 1 .. d - b : b + k \in 1 .. L
  BY <1>1, <1>2, <1>3, <1>5
<1>7. slot \in [1 .. d - b -> Threads] /\ \A k \in 1 .. d - b : slot[k] = bells[b + k].Owner
  BY <1>1, <1>4, <1>6
<1>8. slot \in Seq(Threads) /\ Len(slot) = d - b
  BY <1>6, <1>7, FunctionIsSeq
<1> QED
  BY <1>2, <1>3, <1>6, <1>7, <1>8 DEF b, d, L, slot

(* Sleep appends its caller to the slot it asks for, and touches no other.    *)
LEMMA WheelAfterSleep ==
    ASSUME MillisecondsAssumption, NEW bells \in Bells(Threads), NEW owner \in Threads,
           NEW ticks \in 1 .. MaxTicks
    PROVE  WheelOf(Insert(bells, owner, ticks)) = [WheelOf(bells) EXCEPT ![ticks] = Append(@, owner)]
<1> DEFINE new == Insert(bells, owner, ticks)
           due == DueIn(bells)
           L == Len(bells)
<1>0. MaxTicks \in Nat /\ ticks \in Nat
  BY DEF MillisecondsAssumption
<1>1. L \in Nat /\ new \in Bells(Threads) /\ Len(new) = L + 1
  <2>1. L \in Nat
    BY BellsAre, Zenon
  <2>2. new \in Bells(Threads) /\ Len(new) = L + 1
    BY <1>0, InsertIs, Zenon
  <2> QED
    BY <2>1, <2>2
<1>p. PICK pos \in 0 .. L : InsertedAt(new, bells, owner, ticks, pos)
  BY <1>0, InsertIs
<1>2. /\ due[pos] <= ticks /\ \A j \in pos + 1 .. L : due[j] > ticks
      /\ \A i \in 1 .. L + 1 :
            /\ new[i].Owner = IF i <= pos THEN bells[i].Owner
                              ELSE IF i = pos + 1 THEN owner ELSE bells[i - 1].Owner
            /\ DueIn(new)[i] = IF i <= pos THEN due[i] ELSE IF i = pos + 1 THEN ticks ELSE due[i - 1]
  BY <1>p DEF InsertedAt
<1>3. due \in [0 .. L -> Nat] /\ \A i \in 0 .. L : \A j \in i .. L : due[i] <= due[j]
  BY DueIs, DueMonotone
<1> HIDE DEF new, due, L
<1>4. ASSUME NEW n \in 1 .. MaxTicks + 1
      PROVE  /\ Before(bells, n) \in 0 .. L
             /\ Before(new, n) = IF n <= ticks THEN Before(bells, n) ELSE Before(bells, n) + 1
             /\ n <= ticks => Before(bells, n) <= pos
             /\ n = ticks + 1 => Before(bells, n) = pos
             /\ n > ticks => Before(bells, n) >= pos
  <2> DEFINE b == Before(bells, n)
  <2>0. n \in Nat \ {0}
    BY <1>0
  <2>1. b \in 0 .. L /\ \A i \in 1 .. L : due[i] < n <=> i <= b
    BY <2>0, BeforeIs DEF due, L
  <2> HIDE DEF b
  <2>2. n <= ticks => b <= pos
    <3> SUFFICES ASSUME n <= ticks, ~(b <= pos) PROVE FALSE
      OBVIOUS
    <3>1. b \in 1 .. L /\ b \in pos + 1 .. L /\ b \in 0 .. L /\ b <= b
      BY <2>1, <1>1
    <3>2. due[b] > ticks /\ due[b] < n /\ due[b] \in Nat
      BY <3>1, <2>1, <1>2, <1>3
    <3> QED
      BY <3>2, <1>0, <2>0
  <2>3. n > ticks => b >= pos
    <3> SUFFICES ASSUME n > ticks, ~(b >= pos) PROVE FALSE
      OBVIOUS
    <3>1. pos \in 1 .. L /\ ~(pos <= b)
      BY <2>1, <1>1
    <3>2. due[pos] \in Nat
      BY <1>3, <1>1
    <3> QED
      BY <3>1, <3>2, <2>1, <1>2, <1>0, <2>0
  <2>4. n = ticks + 1 => b <= pos
    <3> SUFFICES ASSUME n = ticks + 1, ~(b <= pos) PROVE FALSE
      OBVIOUS
    <3>1. b \in 1 .. L /\ b \in pos + 1 .. L /\ b \in 0 .. L /\ b <= b
      BY <2>1, <1>1
    <3>2. due[b] > ticks /\ due[b] < n /\ due[b] \in Nat
      BY <3>1, <2>1, <1>2, <1>3
    <3> QED
      BY <3>2, <1>0, <2>0
  <2> DEFINE c == IF n <= ticks THEN b ELSE b + 1
  <2>5. c \in 0 .. Len(new)
    BY <2>1, <1>1
  <2>6. ASSUME NEW i \in 1 .. L + 1 PROVE DueIn(new)[i] < n <=> i <= c
    <3>1. CASE i <= pos
      <4>1. i \in 1 .. L /\ DueIn(new)[i] = due[i]
        BY <3>1, <1>1, <1>2
      <4> QED
        BY <4>1, <3>1, <2>1, <2>3, <1>1, <2>0, <1>0
    <3>2. CASE i = pos + 1
      <4>1. DueIn(new)[i] = ticks
        BY <3>2, <1>1, <1>2
      <4> QED
        BY <4>1, <3>2, <2>1, <2>2, <2>3, <1>0, <1>1, <2>0
    <3>3. CASE i > pos + 1
      <4>1. i - 1 \in 1 .. L /\ i - 1 \in pos + 1 .. L /\ DueIn(new)[i] = due[i - 1] /\ due[i - 1] \in Nat
        BY <3>3, <1>1, <1>2, <1>3
      <4>2. due[i - 1] > ticks /\ (due[i - 1] < n <=> i - 1 <= b)
        BY <4>1, <1>2, <2>1
      <4> QED
        BY <4>1, <4>2, <3>3, <2>1, <2>2, <1>0, <1>1, <2>0
    <3> QED
      BY <3>1, <3>2, <3>3, <1>1
  <2>7. Before(new, n) = c
    <3> HIDE DEF c
    <3> QED
      BY <1>1, <2>0, <2>5, <2>6, BeforeUnique
  <2> QED
    BY <2>1, <2>2, <2>3, <2>4, <2>7, <1>1 DEF b
<1>5. ASSUME NEW n \in 1 .. MaxTicks
      PROVE  WheelOf(new)[n] = IF n = ticks THEN Append(WheelOf(bells)[n], owner) ELSE WheelOf(bells)[n]
  <2> DEFINE b == Before(bells, n)
             d == Before(bells, n + 1)
             old == WheelOf(bells)[n]
             slot == WheelOf(new)[n]
  <2>0. n \in 1 .. MaxTicks + 1 /\ n + 1 \in 1 .. MaxTicks + 1 /\ n \in Nat
    BY <1>0
  <2>1. /\ b \in 0 .. L /\ d \in 0 .. L /\ d - b \in Nat
        /\ old \in Seq(Threads) /\ Len(old) = d - b
        /\ \A k \in 1 .. d - b : old[k] = bells[b + k].Owner
    BY SlotIs, Zenon DEF L
  <2>2. /\ slot \in Seq(Threads) /\ Len(slot) = Before(new, n + 1) - Before(new, n)
        /\ \A k \in 1 .. Before(new, n + 1) - Before(new, n) : slot[k] = new[Before(new, n) + k].Owner
    BY <1>1, SlotIs, Zenon
  <2>3. /\ Before(new, n) = IF n <= ticks THEN b ELSE b + 1
        /\ n <= ticks => b <= pos
        /\ n > ticks => b >= pos
    BY <2>0, <1>4
  <2>4. /\ Before(new, n + 1) = IF n + 1 <= ticks THEN d ELSE d + 1
        /\ n + 1 <= ticks => d <= pos
        /\ n = ticks => d = pos
        /\ n + 1 > ticks => d >= pos
    BY <2>0, <1>4
  <2> HIDE DEF b, d, old, slot
  <2>5. CASE n < ticks
    <3>1. Before(new, n) = b /\ Before(new, n + 1) = d /\ d <= pos
      BY <2>0, <2>3, <2>4, <2>5, <1>0
    <3>2. ASSUME NEW k \in 1 .. d - b PROVE slot[k] = old[k]
      <4>1. b + k \in 1 .. L + 1 /\ b + k <= pos
        BY <2>1, <3>1, <1>1
      <4>2. new[b + k].Owner = bells[b + k].Owner
        BY <4>1, <1>2
      <4> QED
        BY <4>2, <2>1, <2>2, <3>1, Zenon
    <3>3. slot = old
      BY <2>1, <2>2, <3>1, <3>2, SeqEqual, Zenon
    <3> QED
      BY <3>3, <2>5, <2>0, <1>0 DEF slot, old
  <2>6. CASE n = ticks
    <3>1. Before(new, n) = b /\ Before(new, n + 1) = d + 1 /\ d = pos
      BY <2>0, <2>3, <2>4, <2>6, <1>0
    <3>2. /\ Append(old, owner) \in Seq(Threads) /\ Len(Append(old, owner)) = d - b + 1
          /\ \A k \in 1 .. d - b : Append(old, owner)[k] = old[k]
          /\ Append(old, owner)[d - b + 1] = owner
      <4>1. /\ Append(old, owner) \in Seq(Threads) /\ Len(Append(old, owner)) = Len(old) + 1
            /\ \A k \in 1 .. Len(old) : Append(old, owner)[k] = old[k]
            /\ Append(old, owner)[Len(old) + 1] = owner
        <5>1. old \in Seq(Threads)
          BY <2>1
        <5> QED
          BY <5>1
      <4> QED
        BY <4>1, <2>1
    <3>3. Len(slot) = d - b + 1 /\ \A k \in 1 .. d - b + 1 : slot[k] = new[b + k].Owner
      BY <2>1, <2>2, <3>1
    <3>4. ASSUME NEW k \in 1 .. d - b + 1 PROVE slot[k] = Append(old, owner)[k]
      <4>1. CASE k = d - b + 1
        <5>1. b + k = pos + 1 /\ pos + 1 \in 1 .. L + 1
          BY <4>1, <2>1, <3>1, <1>1
        <5>2. new[pos + 1].Owner = owner
          BY <5>1, <1>2
        <5> QED
          BY <5>1, <5>2, <4>1, <3>2, <3>3
      <4>2. CASE k \in 1 .. d - b
        <5>1. b + k \in 1 .. L + 1 /\ b + k <= pos
          BY <4>2, <2>1, <3>1, <1>1
        <5>2. new[b + k].Owner = bells[b + k].Owner
          BY <5>1, <1>2
        <5> QED
          BY <5>2, <4>2, <2>1, <3>2, <3>3
      <4>3. d - b \in Nat
        BY <2>1, Zenon
      <4>4. k = d - b + 1 \/ k \in 1 .. d - b
        BY <4>3
      <4> QED
        BY <4>1, <4>2, <4>4, Zenon
    <3>5. slot = Append(old, owner)
      BY <2>2, <3>2, <3>3, <3>4, SeqEqual, Zenon
    <3> QED
      BY <3>5, <2>6 DEF slot, old
  <2>7. CASE n > ticks
    <3>1. Before(new, n) = b + 1 /\ Before(new, n + 1) = d + 1 /\ b >= pos
      BY <2>0, <2>3, <2>4, <2>7, <1>0
    <3>2. Len(slot) = d - b /\ \A k \in 1 .. d - b : slot[k] = new[b + 1 + k].Owner
      <4>1. (d + 1) - (b + 1) = d - b
        BY <2>1, <1>1
      <4> QED
        BY <4>1, <2>2, <3>1
    <3>3. ASSUME NEW k \in 1 .. d - b PROVE slot[k] = old[k]
      <4>1. /\ b + 1 + k \in 1 .. L + 1 /\ ~(b + 1 + k <= pos) /\ b + 1 + k # pos + 1
            /\ (b + 1 + k) - 1 = b + k
        BY <2>1, <3>1, <1>1
      <4>2. new[b + 1 + k].Owner = bells[b + k].Owner
        BY <4>1, <1>2
      <4> QED
        BY <4>2, <2>1, <3>2
    <3>4. slot = old
      BY <2>1, <2>2, <3>2, <3>3, SeqEqual, Zenon
    <3> QED
      BY <3>4, <2>7, <2>0, <1>0 DEF slot, old
  <2> QED
    BY <2>5, <2>6, <2>7, <2>0, <1>0
<1>6. /\ WheelOf(new) = [n \in 1 .. MaxTicks |-> WheelOf(new)[n]]
      /\ DOMAIN WheelOf(bells) = 1 .. MaxTicks
  BY DEF WheelOf
<1> QED
  BY <1>5, <1>6, Zenon DEF new

(* Check empties the first slot into woken, and moves every other one closer. *)
LEMMA WheelAfterCheck ==
    ASSUME MillisecondsAssumption, NEW bells \in Bells(Threads), NoneOverdue(bells),
           \A i \in 1 .. Len(bells) : DueIn(bells)[i] \in 1 .. MaxTicks
    PROVE  /\ Rung(bells) = WheelOf(bells)[1]
           /\ WheelOf(Unrung(bells)) =
                 [n \in 1 .. MaxTicks |-> IF n = MaxTicks THEN << >> ELSE WheelOf(bells)[n + 1]]
<1> DEFINE new == Unrung(bells)
           due == DueIn(bells)
           L == Len(bells)
           k == DueCount(Tick(bells))
<1>0. MaxTicks \in Nat \ {0} /\ L \in Nat
  BY BellsAre DEF MillisecondsAssumption
<1>1. /\ k \in 0 .. L /\ Rung(bells) \in Seq(Threads) /\ Len(Rung(bells)) = k
      /\ \A i \in 1 .. k : Rung(bells)[i] = bells[i].Owner
      /\ new \in Bells(Threads) /\ Len(new) = L - k
      /\ \A i \in 1 .. L - k : new[i].Owner = bells[k + i].Owner
  BY CheckIs, Zenon
<1>2. /\ \A i \in 1 .. L : due[i] >= 1 /\ (due[i] = 1 <=> i <= k)
      /\ \A i \in 1 .. L - k : DueIn(new)[i] = due[k + i] - 1
  BY CheckRingsTheDue
<1>3. \A i \in 1 .. L : due[i] \in 1 .. MaxTicks
  OBVIOUS
<1> HIDE DEF new, due, L, k
<1>4. Before(bells, 1) = 0 /\ Before(bells, 2) = k
  <2>1. 0 \in 0 .. L /\ \A i \in 1 .. L : due[i] < 1 <=> i <= 0
    BY <1>0, <1>3
  <2>2. \A i \in 1 .. L : due[i] < 2 <=> i <= k
    BY <1>0, <1>2, <1>3
  <2>3. Before(bells, 1) = 0
    BY <2>1, BeforeUnique DEF due, L
  <2>4. Before(bells, 2) = k
    BY <2>2, <1>1, BeforeUnique DEF due, L
  <2> QED
    BY <2>3, <2>4
<1>5. Rung(bells) = WheelOf(bells)[1]
  <2> DEFINE slot == WheelOf(bells)[1]
             b == Before(bells, 1)
             d == Before(bells, 2)
  <2>1. 1 \in 1 .. MaxTicks /\ 1 + 1 = 2
    BY <1>0
  <2>2. slot \in Seq(Threads) /\ Len(slot) = d - b /\ \A i \in 1 .. d - b : slot[i] = bells[b + i].Owner
    BY <2>1, SlotIs
  <2>3. b = 0 /\ d = k
    BY <1>4
  <2> HIDE DEF slot, b, d
  <2>4. d - b = k /\ \A i \in 1 .. k : b + i = i
    BY <2>3, <1>0, <1>1
  <2>5. Len(slot) = k /\ \A i \in 1 .. k : slot[i] = Rung(bells)[i]
    BY <2>2, <2>4, <1>1, Zenon
  <2>6. slot = Rung(bells)
    BY <1>1, <2>2, <2>5, SeqEqual
  <2> QED
    BY <2>6 DEF slot
<1>6. ASSUME NEW n \in 1 .. MaxTicks + 1
      PROVE  Before(bells, n + 1) \in k .. L /\ Before(new, n) = Before(bells, n + 1) - k
  <2> DEFINE b == Before(bells, n + 1)
  <2>0. n \in Nat \ {0} /\ n + 1 \in Nat \ {0}
    BY <1>0
  <2>1. b \in 0 .. L /\ \A i \in 1 .. L : due[i] < n + 1 <=> i <= b
    BY <2>0, BeforeIs DEF due, L
  <2> HIDE DEF b
  <2>2. b >= k
    <3> SUFFICES ASSUME ~(b >= k) PROVE FALSE
      OBVIOUS
    <3>1. k \in 1 .. L /\ ~(k <= b) /\ k <= k
      BY <2>1, <1>0, <1>1
    <3>2. due[k] = 1 /\ ~(due[k] < n + 1)
      BY <3>1, <1>2, <2>1
    <3> QED
      BY <3>2, <2>0
  <2>3. b - k \in 0 .. L - k
    BY <2>1, <2>2, <1>0, <1>1
  <2>4. ASSUME NEW i \in 1 .. L - k PROVE DueIn(new)[i] < n <=> i <= b - k
    <3>1. k + i \in 1 .. L /\ DueIn(new)[i] = due[k + i] - 1 /\ (due[k + i] < n + 1 <=> k + i <= b)
      BY <1>0, <1>1, <1>2, <2>1
    <3>2. due[k + i] \in Nat
      BY <3>1, <1>0, <1>3
    <3> QED
      BY <3>1, <3>2, <2>0, <2>1, <1>1, <1>0
  <2>5. Before(new, n) = b - k
    BY <1>1, <2>0, <2>3, <2>4, BeforeUnique
  <2> QED
    BY <2>1, <2>2, <2>5, <1>0, <1>1 DEF b
<1>7. ASSUME NEW n \in 1 .. MaxTicks
      PROVE  WheelOf(new)[n] = IF n = MaxTicks THEN << >> ELSE WheelOf(bells)[n + 1]
  <2> DEFINE b == Before(bells, n + 1)
             d == Before(bells, n + 2)
             slot == WheelOf(new)[n]
  <2>0. n \in 1 .. MaxTicks + 1 /\ n + 1 \in 1 .. MaxTicks + 1 /\ (n + 1) + 1 = n + 2 /\ n \in Nat
    BY <1>0
  <2>1. b \in k .. L /\ d \in k .. L /\ Before(new, n) = b - k /\ Before(new, n + 1) = d - k
    <3>1. b \in k .. L /\ Before(new, n) = b - k
      BY <2>0, <1>6
    <3>2. Before(bells, (n + 1) + 1) \in k .. L /\ Before(new, n + 1) = Before(bells, (n + 1) + 1) - k
      BY <2>0, <1>6
    <3> QED
      BY <3>1, <3>2, <2>0
  <2>2. /\ slot \in Seq(Threads) /\ Len(slot) = Before(new, n + 1) - Before(new, n)
        /\ \A j \in 1 .. Before(new, n + 1) - Before(new, n) : slot[j] = new[Before(new, n) + j].Owner
    BY <1>1, SlotIs, Zenon
  <2> HIDE DEF slot
  <2>3. (d - k) - (b - k) = d - b
    BY <2>1, <1>0, <1>1
  <2>4. Len(slot) = d - b /\ \A j \in 1 .. d - b : slot[j] = new[(b - k) + j].Owner
    BY <2>1, <2>2, <2>3
  <2>5. CASE n = MaxTicks
    <3>1. L \in 0 .. L /\ \A i \in 1 .. L : (due[i] < n + 1 <=> i <= L) /\ (due[i] < n + 2 <=> i <= L)
      BY <2>5, <2>0, <1>0, <1>3
    <3>2. n + 1 \in Nat /\ n + 2 \in Nat
      BY <2>0
    <3>3. b = L /\ d = L
      BY <3>1, <3>2, BeforeUnique, Zenon DEF due, L
    <3>4. Len(slot) = 0
      BY <2>4, <3>3, <1>0
    <3>5. slot = << >>
      BY <2>2, <3>4, EmptySeq
    <3> QED
      BY <3>5, <2>5 DEF slot
  <2>6. CASE n # MaxTicks
    <3> DEFINE old == WheelOf(bells)[n + 1]
    <3>0. n + 1 \in 1 .. MaxTicks
      BY <2>6, <1>0
    <3>1. /\ old \in Seq(Threads) /\ Len(old) = d - b
          /\ \A j \in 1 .. d - b : old[j] = bells[b + j].Owner
      BY <3>0, <2>0, SlotIs
    <3> HIDE DEF old
    <3>2. ASSUME NEW j \in 1 .. d - b PROVE slot[j] = old[j]
      <4>1. (b - k) + j \in 1 .. L - k /\ k + ((b - k) + j) = b + j
        <5> HIDE DEF b, d
        <5>1. b \in Int /\ d \in Int /\ k \in Int /\ L \in Int /\ k <= b /\ d <= L
          BY <2>1, <1>0, <1>1
        <5> QED
          BY <5>1
      <4>2. new[(b - k) + j].Owner = bells[b + j].Owner
        BY <4>1, <1>1
      <4> QED
        BY <4>2, <2>4, <3>1
    <3>3. slot = old
      BY <2>2, <2>4, <3>1, <3>2, SeqEqual
    <3> QED
      BY <3>3, <2>6 DEF slot, old
  <2> QED
    BY <2>5, <2>6
<1>8. WheelOf(new) = [n \in 1 .. MaxTicks |-> WheelOf(new)[n]]
  BY DEF WheelOf
<1> QED
  BY <1>5, <1>7, <1>8 DEF new

(* Nobody is asleep at first, and no bell is due.                             *)
LEMMA Initially == Init => IInv
<1> SUFFICES ASSUME Init PROVE IInv
  OBVIOUS
<1>1. m_Bells = << >> /\ Len(m_Bells) = 0 /\ m_Bells \in Bells(Threads)
  BY EmptySeq DEF Init, Bells
<1> QED
  BY <1>1 DEF IInv, NoneOverdue

(* Every step keeps the invariant.                                            *)
LEMMA StepKeeps == ASSUME MillisecondsAssumption PROVE IInv /\ [Next]_vars => IInv'
<1> SUFFICES ASSUME IInv, [Next]_vars PROVE IInv'
  OBVIOUS
<1>1. CASE Check
  BY <1>1, CheckKeeps
<1>2. ASSUME NEW t \in Threads, NEW ms \in Milliseconds, Sleep(t, ms) PROVE IInv'
  BY <1>2, SleepKeeps
<1>3. ASSUME UNCHANGED vars PROVE IInv'
  BY <1>3 DEF vars, IInv
<1>4. ASSUME NEW t \in Threads, NEW ms \in Milliseconds, SleepZero(t, ms) PROVE IInv'
  BY <1>4 DEF SleepZero, IInv
<1> QED
  BY <1>1, <1>2, <1>3, <1>4 DEF Next

(* The empty list is the empty wheel.                                         *)
LEMMA InitRefines == ASSUME MillisecondsAssumption PROVE Init => Promise!Init
<1> SUFFICES ASSUME Init PROVE Promise!Init
  OBVIOUS
<1>1. m_Bells = << >> /\ Len(m_Bells) = 0 /\ m_Bells \in Bells(Threads) /\ woken = << >> /\ called = << >>
  BY EmptySeq DEF Init, Bells
<1>2. ASSUME NEW n \in 1 .. MaxTicks PROVE Wheel[n] = << >>
  <2> DEFINE slot == WheelOf(m_Bells)[n]
             b == Before(m_Bells, n)
             d == Before(m_Bells, n + 1)
  <2>1. b \in 0 .. Len(m_Bells) /\ d \in 0 .. Len(m_Bells) /\ slot \in Seq(Threads) /\ Len(slot) = d - b
    BY <1>1, SlotIs
  <2> HIDE DEF slot, b, d
  <2>2. Len(slot) = 0
    BY <1>1, <2>1
  <2>3. slot = << >>
    BY <2>1, <2>2, EmptySeq
  <2> QED
    BY <2>3 DEF slot, Wheel
<1>3. Wheel = [n \in 1 .. MaxTicks |-> Wheel[n]]
  BY DEF Wheel, WheelOf
<1> QED
  BY <1>1, <1>2, <1>3 DEF Promise!Init

(* A thread that runs is in no slot.                                          *)
LEMMA AwakeIsNotAsleep ==
    ASSUME MillisecondsAssumption, IInv, NEW t \in Threads, Awake(t)
    PROVE  ~Promise!Asleep(t)
<1> SUFFICES ASSUME NEW n \in 1 .. MaxTicks, NEW i \in DOMAIN Wheel[n], Wheel[n][i] = t PROVE FALSE
  BY DEF Promise!Asleep
<1> DEFINE slot == WheelOf(m_Bells)[n]
           b == Before(m_Bells, n)
           d == Before(m_Bells, n + 1)
           L == Len(m_Bells)
<1>1. L \in Nat /\ DOMAIN m_Bells = 1 .. L /\ m_Bells \in Bells(Threads)
  BY BellsAre DEF IInv
<1>2. /\ b \in 0 .. L /\ d \in 0 .. L /\ slot \in Seq(Threads) /\ Len(slot) = d - b
      /\ \A k \in 1 .. d - b : slot[k] = m_Bells[b + k].Owner
  BY <1>1, SlotIs
<1>3. slot[i] = t /\ i \in DOMAIN slot
  BY DEF Wheel
<1> HIDE DEF slot, b, d, L
<1>4. i \in 1 .. d - b
  BY <1>2, <1>3, LenProperties
<1>5. b + i \in 1 .. L /\ m_Bells[b + i].Owner = t
  BY <1>1, <1>2, <1>3, <1>4
<1> QED
  BY <1>1, <1>5 DEF Awake

(* The division in Sleep gives the ticks that were promised.                  *)
LEMMA TicksArePromised ==
    ASSUME NEW ms \in Nat
    PROVE  Promise!Takes(ms, TicksFor(ms))
<1> DEFINE q == ms \div SCHEDULER_TICK_MS
<1>1. q \in Nat /\ q * SCHEDULER_TICK_MS <= ms /\ ms < (q + 1) * SCHEDULER_TICK_MS
  BY DEF SCHEDULER_TICK_MS
<1>2. TicksFor(ms) = IF q = 0 THEN 1 ELSE q
  BY DEF TicksFor
<1> HIDE DEF q
<1>3. ms < (TicksFor(ms) + 1) * SCHEDULER_TICK_MS
  BY <1>1, <1>2 DEF SCHEDULER_TICK_MS
<1>4. TicksFor(ms) = 1 \/ TicksFor(ms) * SCHEDULER_TICK_MS <= ms
  BY <1>1, <1>2
<1> QED
  BY <1>3, <1>4 DEF Promise!Takes

(* Every step of the list is the same call of the wheel, or leaves it alone.  *)
LEMMA StepRefines ==
    ASSUME MillisecondsAssumption PROVE IInv /\ [Next]_vars => [Promise!Next]_<<Wheel, called, woken>>
<1> SUFFICES ASSUME IInv, [Next]_vars PROVE [Promise!Next]_<<Wheel, called, woken>>
  OBVIOUS
<1>0. m_Bells \in Bells(Threads) /\ NoneOverdue(m_Bells)
  BY DEF IInv
<1>1. CASE Check
  <2>1. /\ Rung(m_Bells) = WheelOf(m_Bells)[1]
        /\ WheelOf(Unrung(m_Bells)) =
              [n \in 1 .. MaxTicks |-> IF n = MaxTicks THEN << >> ELSE WheelOf(m_Bells)[n + 1]]
    BY <1>0, WheelAfterCheck DEF IInv
  <2>2. /\ woken' = Wheel[1]
        /\ Wheel' = [n \in 1 .. MaxTicks |-> IF n = MaxTicks THEN << >> ELSE Wheel[n + 1]]
    BY <1>1, <2>1 DEF Check, Wheel
  <2>3. called' = <<"Check">>
    BY <1>1 DEF Check
  <2> QED
    BY <2>2, <2>3 DEF Promise!Next, Promise!Check
<1>2. ASSUME NEW t \in Threads, NEW ms \in Milliseconds, Sleep(t, ms)
      PROVE  Promise!Next
  <2>1. TicksFor(ms) \in 1 .. MaxTicks
    BY SleepTicks
  <2>2. ~Promise!Asleep(t)
    BY <1>2, AwakeIsNotAsleep DEF Sleep
  <2>3. WheelOf(Insert(m_Bells, t, TicksFor(ms))) =
           [WheelOf(m_Bells) EXCEPT ![TicksFor(ms)] = Append(@, t)]
    BY <1>0, <2>1, WheelAfterSleep
  <2>4. Wheel' = [Wheel EXCEPT ![TicksFor(ms)] = Append(@, t)]
    BY <1>2, <2>3 DEF Sleep, Wheel
  <2>5. ms > 0 /\ called' = <<"Sleep", t, ms>> /\ woken' = << >>
    BY <1>2 DEF Sleep
  <2>6. Promise!Takes(ms, TicksFor(ms))
    BY TicksArePromised DEF MillisecondsAssumption
  <2>7. Promise!Sleep(t, ms)
    BY <2>1, <2>2, <2>4, <2>5, <2>6, Zenon DEF Promise!Sleep
  <2> QED
    BY <2>7 DEF Promise!Next
<1>3. ASSUME UNCHANGED vars PROVE UNCHANGED <<Wheel, called, woken>>
  BY <1>3 DEF vars, Wheel
<1>4. ASSUME NEW t \in Threads, NEW ms \in Milliseconds, SleepZero(t, ms)
      PROVE  Promise!Next
  <2>1. ~Promise!Asleep(t)
    BY <1>4, AwakeIsNotAsleep DEF SleepZero
  <2>2. ms = 0 /\ called' = <<"Sleep", t, ms>> /\ woken' = << >> /\ UNCHANGED Wheel
    BY <1>4 DEF SleepZero, Wheel
  <2>3. Promise!Sleep(t, ms)
    BY <2>1, <2>2, Zenon DEF Promise!Sleep
  <2> QED
    BY <2>3 DEF Promise!Next
<1> QED
  BY <1>1, <1>2, <1>3, <1>4 DEF Next

(* The Bellringer (Bellringer.cpp Sleep and Check) wakes every sleeper at     *)
(* exactly the tick that the milliseconds it asked for round to, and those    *)
(* due together in the order they went to sleep, whatever was inserted before *)
(* and after.                                                                 *)
THEOREM BellringerKeepsPromise == MillisecondsAssumption => (Spec => KeepsPromise)
<1> SUFFICES ASSUME MillisecondsAssumption PROVE Spec => KeepsPromise
  OBVIOUS
<1>1. Init => IInv
  BY Initially
<1>2. IInv /\ [Next]_vars => IInv'
  BY StepKeeps
<1>3. Init => Promise!Init
  BY InitRefines
<1>4. IInv /\ [Next]_vars => [Promise!Next]_<<Wheel, called, woken>>
  BY StepRefines
<1> QED
  BY <1>1, <1>2, <1>3, <1>4, PTL DEF Spec, KeepsPromise, Promise!Spec
=============================================================================
