--------------------------- MODULE BellListProofs ---------------------------
(* What the delta encoding computes, for any number of bells and any ticks:   *)
(* when each bell rings, where Sleep inserts one, and what Check dequeues.    *)
EXTENDS BellList, SequenceTheorems, WellFoundedInduction, TLAPS

Bells(T) == Seq([Owner : T, Ticks : Nat])

(* A set of natural numbers that is not empty has a smallest element: the     *)
(* form of induction the other proofs use.                                    *)
LEMMA Minimum ==
    ASSUME NEW S \in SUBSET Nat, S # {}
    PROVE  \E x \in S : \A y \in S : x <= y
<1> DEFINE R == OpToRel(<, Nat)
<1>0. IsWellFoundedOn(R, Nat)
  BY NatLessThanWellFounded, Zenon
<1>r. \A x, y \in Nat : y < x => <<y, x>> \in R
  BY DEF OpToRel
<1> HIDE DEF R
<1>1. PICK x \in S : \A y \in S : ~(<<y, x>> \in R)
  BY <1>0, WFMin, Zenon
<1>2. \A y \in S : ~(y < x)
  BY <1>1, <1>r, Zenon
<1>3. \A y \in S : x <= y
  BY <1>2, SMT
<1> QED
  BY <1>3

(* The recursion of DueIn has a solution, whatever the bells are.             *)
LEMMA DueExists ==
    ASSUME NEW T, NEW bells \in Bells(T)
    PROVE  \E f \in [0 .. Len(bells) -> Nat] :
              f[0] = 0 /\ \A i \in 1 .. Len(bells) : f[i] = f[i - 1] + bells[i].Ticks
<1> DEFINE Solves(f, n) == f[0] = 0 /\ \A i \in 1 .. n : f[i] = f[i - 1] + bells[i].Ticks
           Has(n) == \E f \in [0 .. n -> Nat] : Solves(f, n)
           bad == {n \in 0 .. Len(bells) : ~Has(n)}
<1>0. Len(bells) \in Nat /\ \A i \in 1 .. Len(bells) : bells[i].Ticks \in Nat
  <2>1. Len(bells) \in Nat /\ \A i \in 1 .. Len(bells) : bells[i] \in [Owner : T, Ticks : Nat]
    BY LenProperties, ElementOfSeq, Zenon DEF Bells
  <2> QED
    BY <2>1
<1>1. Has(0)
  <2>1. [i \in 0 .. 0 |-> 0] \in [0 .. 0 -> Nat] /\ Solves([i \in 0 .. 0 |-> 0], 0)
    OBVIOUS
  <2> QED
    BY <2>1, Zenon
<1>2. ASSUME NEW n \in 1 .. Len(bells), Has(n - 1) PROVE Has(n)
  <2>1. PICK f \in [0 .. n - 1 -> Nat] : Solves(f, n - 1)
    BY <1>2, Zenon
  <2> DEFINE g == [i \in 0 .. n |-> IF i = n THEN f[n - 1] + bells[n].Ticks ELSE f[i]]
  <2>2. g \in [0 .. n -> Nat]
    BY <1>0
  <2>3. g[0] = 0
    BY <2>1, <1>0
  <2>4. ASSUME NEW i \in 1 .. n PROVE g[i] = g[i - 1] + bells[i].Ticks
    <3>1. CASE i = n
      BY <3>1
    <3>2. CASE i # n
      <4>1. i \in 1 .. n - 1 /\ i \in 0 .. n /\ i - 1 \in 0 .. n /\ i - 1 # n
        BY <3>2
      <4>2. g[i] = f[i] /\ g[i - 1] = f[i - 1]
        BY <3>2, <4>1, Zenon
      <4> QED
        BY <4>1, <4>2, <2>1, Zenon
    <3> QED
      BY <3>1, <3>2, Zenon
  <2> QED
    BY <2>2, <2>3, <2>4, Zenon
<1>3. CASE bad = {}
  <2>1. Len(bells) \in 0 .. Len(bells)
    BY <1>0
  <2>2. Has(Len(bells))
    BY <2>1, <1>3, Zenon
  <2> QED
    BY <2>2, Zenon
<1>4. CASE bad # {}
  <2> HIDE DEF Has
  <2>0. bad \in SUBSET Nat
    BY <1>0
  <2>1. PICK n \in bad : \A m \in bad : n <= m
    BY <1>4, <2>0, Minimum, Zenon
  <2>2. n \in 1 .. Len(bells) /\ n - 1 \in 0 .. Len(bells) /\ n - 1 \notin bad
    BY <2>1, <1>1, <1>0
  <2>3. Has(n - 1)
    BY <2>2, Zenon
  <2> QED
    BY <2>2, <2>3, <1>2, <2>1, Zenon
<1> QED
  BY <1>3, <1>4, Zenon

(* So DueIn is the sum of the ticks so far.                                   *)
LEMMA DueIs ==
    ASSUME NEW T, NEW bells \in Bells(T)
    PROVE  /\ DueIn(bells) \in [0 .. Len(bells) -> Nat]
           /\ DueIn(bells)[0] = 0
           /\ \A i \in 1 .. Len(bells) : DueIn(bells)[i] = DueIn(bells)[i - 1] + bells[i].Ticks
<1>0. Len(bells) \in Nat
  BY LenProperties DEF Bells
<1>1. PICK f \in [0 .. Len(bells) -> Nat] :
         f[0] = 0 /\ \A i \in 1 .. Len(bells) : f[i] = f[i - 1] + bells[i].Ticks
  BY DueExists
<1> DEFINE e(g) == [i \in 0 .. Len(bells) |-> IF i = 0 THEN 0 ELSE g[i - 1] + bells[i].Ticks]
           due == CHOOSE g : g = e(g)
<1>2. f = e(f)
  BY <1>0, <1>1
<1>3. due = e(due)
  BY <1>2, Zenon
<1>4. DueIn(bells) = due
  BY DEF DueIn
<1> HIDE DEF due
<1>5. due[0] = 0 /\ \A i \in 1 .. Len(bells) : due[i] = due[i - 1] + bells[i].Ticks
  BY <1>3, <1>0
<1> DEFINE bad == {i \in 0 .. Len(bells) : due[i] # f[i]}
<1>6. CASE bad # {}
  <2>0. bad \in SUBSET Nat
    BY <1>0
  <2>1. PICK n \in bad : \A m \in bad : n <= m
    BY <1>6, <2>0, Minimum, Zenon
  <2>2. n \in 1 .. Len(bells) /\ n - 1 \in 0 .. Len(bells) /\ n - 1 \notin bad
    BY <2>1, <1>1, <1>5, <1>0
  <2> QED
    BY <2>1, <2>2, <1>1, <1>5
<1>7. CASE bad = {}
  <2>1. \A i \in 0 .. Len(bells) : due[i] = f[i]
    BY <1>7
  <2>2. due = [i \in 0 .. Len(bells) |-> due[i]]
    BY <1>3
  <2> QED
    BY <2>1, <2>2, <1>4, <1>1
<1> QED
  BY <1>6, <1>7

(* Whatever satisfies the recursion is DueIn.                                 *)
LEMMA DueUnique ==
    ASSUME NEW T, NEW bells \in Bells(T), NEW f,
           f[0] = 0, \A i \in 1 .. Len(bells) : f[i] = f[i - 1] + bells[i].Ticks
    PROVE  \A i \in 0 .. Len(bells) : DueIn(bells)[i] = f[i]
<1>0. Len(bells) \in Nat
  BY LenProperties DEF Bells
<1> DEFINE due == DueIn(bells)
           bad == {i \in 0 .. Len(bells) : due[i] # f[i]}
<1>1. due[0] = 0 /\ \A i \in 1 .. Len(bells) : due[i] = due[i - 1] + bells[i].Ticks
  BY DueIs
<1> HIDE DEF due
<1> SUFFICES ASSUME bad # {} PROVE FALSE
  BY DEF due
<1>2. bad \in SUBSET Nat
  BY <1>0
<1>3. PICK n \in bad : \A m \in bad : n <= m
  BY <1>2, Minimum, Zenon
<1>4. n \in 1 .. Len(bells) /\ n - 1 \in 0 .. Len(bells) /\ n - 1 \notin bad
  BY <1>3, <1>1, <1>0
<1> QED
  BY <1>3, <1>4, <1>1

(* A later bell never rings earlier.                                          *)
LEMMA DueMonotone ==
    ASSUME NEW T, NEW bells \in Bells(T), NEW i \in 0 .. Len(bells), NEW j \in i .. Len(bells)
    PROVE  DueIn(bells)[i] <= DueIn(bells)[j]
<1>0. Len(bells) \in Nat /\ \A n \in 1 .. Len(bells) : bells[n].Ticks \in Nat
  <2>1. Len(bells) \in Nat /\ \A n \in 1 .. Len(bells) : bells[n] \in [Owner : T, Ticks : Nat]
    BY LenProperties, ElementOfSeq, Zenon DEF Bells
  <2> QED
    BY <2>1
<1> DEFINE due == DueIn(bells)
           bad == {n \in i .. Len(bells) : due[i] > due[n]}
<1>1. /\ due \in [0 .. Len(bells) -> Nat]
      /\ \A n \in 1 .. Len(bells) : due[n] = due[n - 1] + bells[n].Ticks
  BY DueIs
<1> HIDE DEF due
<1> SUFFICES ASSUME bad # {} PROVE FALSE
  <2>1. i \in 0 .. Len(bells) /\ j \in 0 .. Len(bells) /\ j \in i .. Len(bells)
    BY <1>0
  <2>2. due[i] \in Nat /\ due[j] \in Nat
    BY <1>1, <2>1, Zenon
  <2>3. j \notin bad => ~(due[i] > due[j])
    BY <2>1, Zenon
  <2>4. j \notin bad => due[i] <= due[j]
    BY <2>2, <2>3
  <2> QED
    BY <2>4 DEF due
<1>2. bad \in SUBSET Nat
  BY <1>0
<1>3. PICK n \in bad : \A m \in bad : n <= m
  BY <1>2, Minimum, Zenon
<1>4. n \in i .. Len(bells) /\ due[i] > due[n] /\ i \in Nat /\ due[i] \in Nat
  <2>1. n \in i .. Len(bells) /\ due[i] > due[n]
    BY <1>3, Zenon
  <2>2. i \in Nat /\ i \in 0 .. Len(bells)
    BY <1>0
  <2>3. due[i] \in Nat
    BY <2>2, <1>1, Zenon
  <2> QED
    BY <2>1, <2>2, <2>3
<1>5. n \in 1 .. Len(bells) /\ n - 1 \in i .. Len(bells) /\ n - 1 \in 0 .. Len(bells)
  BY <1>4, <1>0
<1>6. due[i] <= due[n - 1]
  <2>1. n - 1 \notin bad
    BY <1>3, <1>5
  <2>2. due[n - 1] \in Nat
    BY <1>5, <1>1, Zenon
  <2> QED
    BY <2>1, <2>2, <1>4, <1>5
<1>7. due[n] = due[n - 1] + bells[n].Ticks /\ due[n - 1] \in Nat /\ bells[n].Ticks \in Nat
  BY <1>5, <1>1, <1>0, Zenon
<1> QED
  BY <1>4, <1>6, <1>7

(* The walk of Sleep stops: behind every bell that rings no later, in front   *)
(* of every one that rings later.                                             *)
LEMMA WalkStops ==
    ASSUME NEW T, NEW bells \in Bells(T), NEW ticks \in Nat
    PROVE  \E i \in 0 .. Len(bells) :
              /\ DueIn(bells)[i] <= ticks
              /\ \A j \in i + 1 .. Len(bells) : DueIn(bells)[j] > ticks
<1> DEFINE due == DueIn(bells)
           later == {j \in 1 .. Len(bells) : due[j] > ticks}
<1>0. Len(bells) \in Nat
  BY LenProperties DEF Bells
<1>1. due \in [0 .. Len(bells) -> Nat] /\ due[0] = 0
  BY DueIs
<1>2. \A i \in 0 .. Len(bells) : \A j \in i .. Len(bells) : due[i] <= due[j]
  BY DueMonotone
<1> HIDE DEF due
<1>3. CASE later = {}
  <2>1. Len(bells) \in 0 .. Len(bells) /\ due[Len(bells)] <= ticks
    BY <1>0, <1>1, <1>3
  <2>2. Len(bells) + 1 .. Len(bells) = {}
    BY <1>0
  <2> QED
    BY <2>1, <2>2 DEF due
<1>4. CASE later # {}
  <2>1. later \in SUBSET Nat
    BY <1>0
  <2>2. PICK n \in later : \A m \in later : n <= m
    BY <2>1, <1>4, Minimum, Zenon
  <2>3. n - 1 \in 0 .. Len(bells) /\ due[n - 1] <= ticks
    BY <2>2, <1>0, <1>1
  <2>4. \A j \in n .. Len(bells) : due[j] > ticks
    BY <2>2, <1>0, <1>1, <1>2
  <2>5. (n - 1) + 1 = n
    BY <2>2, <1>0
  <2> QED
    BY <2>3, <2>4, <2>5 DEF due
<1> QED
  BY <1>3, <1>4

(* A function on 1 .. n is a sequence.                                        *)
LEMMA FunctionIsSeq ==
    ASSUME NEW S, NEW n \in Nat, NEW f \in [1 .. n -> S]
    PROVE  f \in Seq(S) /\ Len(f) = n
<1>1. f \in Seq(S)
  BY SeqDef, Zenon
<1>2. DOMAIN f = 1 .. Len(f) /\ Len(f) \in Nat
  BY <1>1, LenProperties
<1> QED
  BY <1>1, <1>2

(* The elements of a list of bells.                                           *)
LEMMA BellsAre ==
    ASSUME NEW T, NEW bells \in Bells(T)
    PROVE  /\ Len(bells) \in Nat /\ DOMAIN bells = 1 .. Len(bells)
           /\ \A i \in 1 .. Len(bells) :
                 bells[i] \in [Owner : T, Ticks : Nat] /\ bells[i].Owner \in T /\ bells[i].Ticks \in Nat
<1>1. /\ Len(bells) \in Nat /\ DOMAIN bells = 1 .. Len(bells)
      /\ \A i \in 1 .. Len(bells) : bells[i] \in [Owner : T, Ticks : Nat]
  BY LenProperties, ElementOfSeq, Zenon DEF Bells
<1> QED
  BY <1>1

(* What list new has to do with the one it came from: the bells in front of   *)
(* the position and behind it keep their owners, their order and the tick     *)
(* they ring at, and the new bell rings after the ticks asked for.            *)
InsertedAt(new, bells, owner, ticks, pos) ==
    /\ DueIn(bells)[pos] <= ticks
    /\ \A j \in pos + 1 .. Len(bells) : DueIn(bells)[j] > ticks
    /\ \A i \in 1 .. Len(bells) + 1 :
          /\ new[i].Owner = IF i <= pos THEN bells[i].Owner
                            ELSE IF i = pos + 1 THEN owner ELSE bells[i - 1].Owner
          /\ DueIn(new)[i] = IF i <= pos THEN DueIn(bells)[i]
                             ELSE IF i = pos + 1 THEN ticks ELSE DueIn(bells)[i - 1]

(* Sleep's insertion does that.  No delta becomes negative, so the unsigned   *)
(* subtractions of Sleep do not wrap.                                         *)
LEMMA InsertIs ==
    ASSUME NEW T, NEW bells \in Bells(T), NEW owner \in T, NEW ticks \in Nat
    PROVE  /\ Insert(bells, owner, ticks) \in Bells(T)
           /\ Len(Insert(bells, owner, ticks)) = Len(bells) + 1
           /\ \E pos \in 0 .. Len(bells) :
                 InsertedAt(Insert(bells, owner, ticks), bells, owner, ticks, pos)
<1> DEFINE B == [Owner : T, Ticks : Nat]
           L == Len(bells)
           due == DueIn(bells)
           pos == CHOOSE i \in 0 .. L : due[i] <= ticks /\ \A j \in i + 1 .. L : due[j] > ticks
           bell == [Owner |-> owner, Ticks |-> ticks - due[pos]]
           rest == SubSeq(bells, pos + 1, L)
           moved == [i \in DOMAIN rest |->
                       IF i = 1 THEN [rest[i] EXCEPT !.Ticks = @ - bell.Ticks] ELSE rest[i]]
           front == SubSeq(bells, 1, pos)
           new == Insert(bells, owner, ticks)
<1>0. L \in Nat /\ \A i \in 1 .. L : bells[i] \in B /\ bells[i].Owner \in T /\ bells[i].Ticks \in Nat
  BY BellsAre
<1>1. /\ due \in [0 .. L -> Nat] /\ due[0] = 0
      /\ \A i \in 1 .. L : due[i] = due[i - 1] + bells[i].Ticks
  BY DueIs
<1>2. pos \in 0 .. L /\ due[pos] <= ticks /\ \A j \in pos + 1 .. L : due[j] > ticks
  BY WalkStops, Zenon
<1>3. new = front \o <<bell>> \o moved
  BY DEF Insert
<1> HIDE DEF pos, due, new, L, B
<1>4. bell \in B /\ bell.Ticks = ticks - due[pos] /\ bell.Owner = owner /\ bell.Ticks \in Nat
  <2>1. due[pos] \in Nat
    BY <1>1, <1>2
  <2>2. ticks - due[pos] \in Nat
    BY <2>1, <1>2
  <2> QED
    BY <2>2 DEF B
<1>5. front \in Seq(B) /\ Len(front) = pos /\ \A i \in 1 .. pos : front[i] = bells[i]
  <2>1. \A i \in 1 .. pos : bells[i] \in B
    BY <1>0, <1>2
  <2>2. 1 \in Int /\ pos \in Int
    BY <1>0, <1>2
  <2>3. /\ front \in Seq(B) /\ Len(front) = IF 1 <= pos THEN pos - 1 + 1 ELSE 0
        /\ \A i \in 1 .. pos - 1 + 1 : front[i] = bells[1 + i - 1]
    BY <2>1, <2>2, SubSeqProperties
  <2> QED
    BY <2>3, <1>0, <1>2
<1>6. rest \in Seq(B) /\ Len(rest) = L - pos /\ \A i \in 1 .. L - pos : rest[i] = bells[pos + i]
  <2>1. \A i \in pos + 1 .. L : bells[i] \in B
    BY <1>0, <1>2
  <2>2. pos + 1 \in Int /\ L \in Int
    BY <1>0, <1>2
  <2>3. /\ rest \in Seq(B) /\ Len(rest) = IF pos + 1 <= L THEN L - (pos + 1) + 1 ELSE 0
        /\ \A i \in 1 .. L - (pos + 1) + 1 : rest[i] = bells[(pos + 1) + i - 1]
    BY <2>1, <2>2, SubSeqProperties
  <2> QED
    BY <2>3, <1>0, <1>2
<1> HIDE DEF front, bell, rest
<1>7. /\ moved \in Seq(B) /\ Len(moved) = L - pos
      /\ \A i \in 1 .. L - pos :
            /\ moved[i].Owner = bells[pos + i].Owner
            /\ moved[i].Ticks = IF i = 1 THEN due[pos + 1] - ticks ELSE bells[pos + i].Ticks
  <2>1. DOMAIN rest = 1 .. L - pos
    BY <1>6, LenProperties
  <2>2. ASSUME NEW i \in 1 .. L - pos
        PROVE  /\ moved[i] \in B /\ moved[i].Owner = bells[pos + i].Owner
               /\ moved[i].Ticks = IF i = 1 THEN due[pos + 1] - ticks ELSE bells[pos + i].Ticks
    <3>1. pos + i \in 1 .. L /\ rest[i] = bells[pos + i] /\ rest[i] \in B
      BY <1>0, <1>2, <1>6
    <3>2. CASE i # 1
      BY <2>1, <3>1, <3>2
    <3>3. CASE i = 1
      <4>1. /\ pos + 1 \in 1 .. L /\ pos + 1 \in 0 .. L /\ due[pos + 1] \in Nat /\ due[pos] \in Nat
            /\ due[pos + 1] = due[pos] + bells[pos + 1].Ticks /\ due[pos + 1] > ticks
            /\ bells[pos + 1].Ticks \in Nat
        <5>1. pos + 1 \in 1 .. L /\ pos + 1 \in 0 .. L /\ pos + 1 \in pos + 1 .. L /\ (pos + 1) - 1 = pos
          BY <3>1, <3>3, <1>0, <1>2
        <5> QED
          BY <5>1, <1>0, <1>1, <1>2
      <4>2. bells[pos + 1].Ticks - bell.Ticks = due[pos + 1] - ticks /\ due[pos + 1] - ticks \in Nat
        BY <4>1, <1>2, <1>4
      <4>3. moved[i] = [rest[i] EXCEPT !.Ticks = @ - bell.Ticks]
        BY <2>1, <3>3
      <4>4. moved[i] = [bells[pos + 1] EXCEPT !.Ticks = due[pos + 1] - ticks]
        BY <4>2, <4>3, <3>1, <3>3
      <4>5. bells[pos + 1] \in B
        BY <3>1, <3>3
      <4> HIDE DEF moved
      <4> QED
        BY <4>2, <4>4, <4>5, <3>3 DEF B
    <3> QED
      BY <3>2, <3>3
  <2>3. moved \in [1 .. L - pos -> B]
    BY <2>1, <2>2
  <2>4. L - pos \in Nat
    BY <1>0, <1>2
  <2> HIDE DEF moved
  <2> QED
    BY <2>2, <2>3, <2>4, FunctionIsSeq
<1> HIDE DEF moved
<1>8. /\ new \in Seq(B) /\ Len(new) = L + 1
      /\ \A i \in 1 .. L + 1 :
            new[i] = IF i <= pos THEN bells[i] ELSE IF i = pos + 1 THEN bell ELSE moved[i - pos - 1]
  <2>1. <<bell>> \in Seq(B) /\ Len(<<bell>>) = 1 /\ <<bell>>[1] = bell
    BY <1>4
  <2>2. /\ front \o <<bell>> \in Seq(B) /\ Len(front \o <<bell>>) = pos + 1
        /\ \A i \in 1 .. pos + 1 : (front \o <<bell>>)[i] = IF i <= pos THEN front[i] ELSE <<bell>>[i - pos]
    BY <2>1, <1>5, ConcatProperties
  <2>3. /\ new \in Seq(B) /\ Len(new) = (pos + 1) + (L - pos)
        /\ \A i \in 1 .. (pos + 1) + (L - pos) :
              new[i] = IF i <= pos + 1 THEN (front \o <<bell>>)[i] ELSE moved[i - (pos + 1)]
    <3> DEFINE both == front \o <<bell>>
    <3> HIDE DEF both
    <3>1. both \in Seq(B) /\ Len(both) = pos + 1 /\ new = both \o moved
      BY <2>2, <1>3 DEF both
    <3>2. /\ both \o moved \in Seq(B) /\ Len(both \o moved) = Len(both) + Len(moved)
          /\ \A i \in 1 .. Len(both) + Len(moved) :
                (both \o moved)[i] = IF i <= Len(both) THEN both[i] ELSE moved[i - Len(both)]
      BY <3>1, <1>7, ConcatProperties, Zenon
    <3> QED
      BY <3>1, <3>2, <1>7 DEF both
  <2>4. (pos + 1) + (L - pos) = L + 1
    BY <1>0, <1>2
  <2>5. ASSUME NEW i \in 1 .. L + 1
        PROVE  new[i] = IF i <= pos THEN bells[i] ELSE IF i = pos + 1 THEN bell ELSE moved[i - pos - 1]
    <3>1. CASE i <= pos
      BY <3>1, <1>0, <1>2, <1>5, <2>2, <2>3, <2>4
    <3>2. CASE i = pos + 1
      BY <3>2, <1>0, <1>2, <2>1, <2>2, <2>3, <2>4
    <3>3. CASE i > pos + 1
      BY <3>3, <1>0, <1>2, <2>3, <2>4
    <3> QED
      BY <3>1, <3>2, <3>3, <1>0, <1>2
  <2> QED
    BY <2>3, <2>4, <2>5
<1>9. ASSUME NEW i \in 1 .. L + 1
      PROVE  new[i].Owner = IF i <= pos THEN bells[i].Owner
                            ELSE IF i = pos + 1 THEN owner ELSE bells[i - 1].Owner
  <2>1. CASE i <= pos + 1
    BY <2>1, <1>0, <1>2, <1>4, <1>8
  <2>2. CASE i > pos + 1
    <3>1. i - pos - 1 \in 1 .. L - pos /\ pos + (i - pos - 1) = i - 1
      BY <2>2, <1>0, <1>2
    <3>2. new[i] = moved[i - pos - 1]
      BY <2>2, <1>0, <1>2, <1>8
    <3>3. moved[i - pos - 1].Owner = bells[pos + (i - pos - 1)].Owner
      BY <3>1, <1>7
    <3> QED
      BY <2>2, <3>1, <3>2, <3>3, <1>0, <1>2
  <2> QED
    BY <2>1, <2>2, <1>0, <1>2
<1> DEFINE g == [i \in 0 .. L + 1 |-> IF i <= pos THEN due[i]
                                      ELSE IF i = pos + 1 THEN ticks ELSE due[i - 1]]
<1>10. g[0] = 0
  BY <1>0, <1>1, <1>2
<1>11. ASSUME NEW i \in 1 .. L + 1 PROVE g[i] = g[i - 1] + new[i].Ticks
  <2>1. CASE i <= pos
    <3>1. g[i] = due[i] /\ g[i - 1] = due[i - 1] /\ new[i] = bells[i] /\ i \in 1 .. L
      BY <2>1, <1>0, <1>2, <1>8
    <3> QED
      BY <3>1, <1>1, Zenon
  <2>2. CASE i = pos + 1
    <3>1. g[i] = ticks /\ g[i - 1] = due[pos] /\ new[i].Ticks = ticks - due[pos] /\ due[pos] \in Nat
      BY <2>2, <1>0, <1>1, <1>2, <1>4, <1>8
    <3> QED
      BY <3>1
  <2>3. CASE i > pos + 1
    <3>1. i - pos - 1 \in 1 .. L - pos /\ pos + (i - pos - 1) = i - 1 /\ i - 1 \in 1 .. L
      BY <2>3, <1>0, <1>2
    <3>2. new[i].Ticks = moved[i - pos - 1].Ticks
      BY <2>3, <1>0, <1>2, <1>8
    <3>3. CASE i = pos + 2
      <4>1. new[i].Ticks = due[pos + 1] - ticks
        BY <3>1, <3>2, <3>3, <1>0, <1>2, <1>7
      <4>2. g[i] = due[pos + 1] /\ g[i - 1] = ticks /\ due[pos + 1] \in Nat
        BY <3>3, <3>1, <1>0, <1>1, <1>2
      <4> QED
        BY <4>1, <4>2
    <3>4. CASE i > pos + 2
      <4>1. new[i].Ticks = bells[i - 1].Ticks
        <5>1. moved[i - pos - 1].Ticks = bells[pos + (i - pos - 1)].Ticks
          <6>1. i - pos - 1 # 1
            BY <3>4, <1>2, <1>0
          <6> QED
            BY <6>1, <3>1, <1>7, Zenon
        <5> QED
          BY <5>1, <3>1, <3>2
      <4>2. g[i] = due[i - 1] /\ g[i - 1] = due[(i - 1) - 1]
        BY <3>4, <3>1, <1>0, <1>1, <1>2
      <4> QED
        BY <4>1, <4>2, <3>1, <1>1
    <3> QED
      BY <2>3, <3>3, <3>4, <1>0, <1>2
  <2> QED
    BY <2>1, <2>2, <2>3, <1>0, <1>2
<1>12. \A i \in 0 .. L + 1 : DueIn(new)[i] = g[i]
  <2> HIDE DEF g
  <2>1. new \in Bells(T)
    BY <1>8 DEF Bells, B
  <2> QED
    BY <2>1, <1>8, <1>10, <1>11, DueUnique
<1>13. \A i \in 1 .. L + 1 :
          DueIn(new)[i] = IF i <= pos THEN due[i] ELSE IF i = pos + 1 THEN ticks ELSE due[i - 1]
  BY <1>12, <1>0
<1>14. InsertedAt(new, bells, owner, ticks, pos)
  BY <1>2, <1>9, <1>13 DEF InsertedAt, L, due
<1> QED
  BY <1>2, <1>8, <1>14 DEF Bells, B, L, new

(* Check's decrement leaves the owners, and all ticks but the first bell's.   *)
LEMMA TickIs ==
    ASSUME NEW T, NEW bells \in Bells(T)
    PROVE  /\ Tick(bells) \in Bells(T) /\ Len(Tick(bells)) = Len(bells)
           /\ \A i \in 1 .. Len(bells) :
                 /\ Tick(bells)[i].Owner = bells[i].Owner
                 /\ Tick(bells)[i].Ticks = IF i = 1 /\ bells[1].Ticks > 0 THEN bells[1].Ticks - 1
                                           ELSE bells[i].Ticks
<1>0. /\ Len(bells) \in Nat /\ DOMAIN bells = 1 .. Len(bells) /\ bells \in Seq([Owner : T, Ticks : Nat])
      /\ \A i \in 1 .. Len(bells) :
            bells[i] \in [Owner : T, Ticks : Nat] /\ bells[i].Owner \in T /\ bells[i].Ticks \in Nat
  BY BellsAre DEF Bells
<1>1. CASE ~(bells # << >> /\ bells[1].Ticks > 0)
  <2>1. Tick(bells) = bells
    BY <1>1 DEF Tick
  <2>2. bells = << >> => Len(bells) = 0
    BY EmptySeq
  <2> QED
    BY <1>0, <1>1, <2>1, <2>2
<1>2. CASE bells # << >> /\ bells[1].Ticks > 0
  <2> DEFINE first == [bells[1] EXCEPT !.Ticks = @ - 1]
  <2>1. 1 \in 1 .. Len(bells)
    BY <1>0, <1>2, EmptySeq
  <2>2. /\ first \in [Owner : T, Ticks : Nat]
        /\ first.Owner = bells[1].Owner /\ first.Ticks = bells[1].Ticks - 1
    BY <1>0, <1>2, <2>1
  <2>3. Tick(bells) = [bells EXCEPT ![1] = first]
    BY <1>2 DEF Tick
  <2> HIDE DEF first
  <2>4. /\ Tick(bells) \in Seq([Owner : T, Ticks : Nat]) /\ Len(Tick(bells)) = Len(bells)
        /\ \A j \in 1 .. Len(bells) : Tick(bells)[j] = IF j = 1 THEN first ELSE bells[j]
    BY <1>0, <2>1, <2>2, <2>3, ExceptSeq
  <2> QED
    BY <1>2, <2>2, <2>4 DEF Bells
<1> QED
  BY <1>1, <1>2

(* Check's loop stops at the first bell with ticks left.                      *)
LEMMA LoopStops ==
    ASSUME NEW T, NEW bells \in Bells(T)
    PROVE  /\ DueCount(bells) \in 0 .. Len(bells)
           /\ \A i \in 1 .. DueCount(bells) : bells[i].Ticks = 0
           /\ DueCount(bells) < Len(bells) => bells[DueCount(bells) + 1].Ticks # 0
<1>0. Len(bells) \in Nat
  BY BellsAre
<1> DEFINE left == {i \in 1 .. Len(bells) : bells[i].Ticks # 0}
           Stops(k) == (\A i \in 1 .. k : bells[i].Ticks = 0) /\ (k < Len(bells) => bells[k + 1].Ticks # 0)
<1>1. \E k \in 0 .. Len(bells) : Stops(k)
  <2>1. CASE left = {}
    <3>1. Len(bells) \in 0 .. Len(bells) /\ Stops(Len(bells))
      BY <1>0, <2>1
    <3> QED
      BY <3>1
  <2>2. CASE left # {}
    <3>1. left \in SUBSET Nat
      BY <1>0
    <3>2. PICK n \in left : \A m \in left : n <= m
      BY <3>1, <2>2, Minimum, Zenon
    <3>3. n - 1 \in 0 .. Len(bells) /\ (n - 1) + 1 = n /\ bells[n].Ticks # 0
      BY <1>0, <3>2
    <3>4. \A i \in 1 .. n - 1 : bells[i].Ticks = 0
      <4>1. ASSUME NEW i \in 1 .. n - 1 PROVE bells[i].Ticks = 0
        <5>1. i \in 1 .. Len(bells) /\ ~(n <= i)
          BY <1>0, <3>3
        <5>2. i \notin left
          BY <5>1, <3>2
        <5> QED
          BY <5>1, <5>2
      <4> QED
        BY <4>1
    <3> QED
      BY <3>3, <3>4, Zenon
  <2> QED
    BY <2>1, <2>2
<1>2. DueCount(bells) = CHOOSE k \in 0 .. Len(bells) : Stops(k)
  BY DEF DueCount
<1> HIDE DEF Stops
<1>3. DueCount(bells) \in 0 .. Len(bells) /\ Stops(DueCount(bells))
  BY <1>1, <1>2
<1> QED
  BY <1>3 DEF Stops

(* Check: the bells it dequeues are a prefix, and the others keep their       *)
(* owners and their order; the first of them has ticks left.                  *)
LEMMA CheckIs ==
    ASSUME NEW T, NEW bells \in Bells(T)
    PROVE  LET k == DueCount(Tick(bells))
           IN  /\ k \in 0 .. Len(bells)
               /\ Rung(bells) \in Seq(T) /\ Len(Rung(bells)) = k
               /\ \A i \in 1 .. k : Rung(bells)[i] = bells[i].Owner
               /\ Unrung(bells) \in Bells(T) /\ Len(Unrung(bells)) = Len(bells) - k
               /\ \A i \in 1 .. Len(bells) - k :
                     /\ Unrung(bells)[i] = Tick(bells)[k + i]
                     /\ Unrung(bells)[i].Owner = bells[k + i].Owner
               /\ k < Len(bells) => Unrung(bells)[1].Ticks > 0
<1> DEFINE ticked == Tick(bells)
           k == DueCount(ticked)
           L == Len(bells)
<1>1. /\ ticked \in Bells(T) /\ Len(ticked) = L
      /\ \A i \in 1 .. L : ticked[i].Owner = bells[i].Owner
  BY TickIs
<1> HIDE DEF ticked
<1>2. L \in Nat /\ \A i \in 1 .. L : ticked[i] \in [Owner : T, Ticks : Nat] /\ ticked[i].Owner \in T /\ ticked[i].Ticks \in Nat
  BY <1>1, BellsAre
<1>3. k \in 0 .. L /\ (k < L => ticked[k + 1].Ticks # 0)
  BY <1>1, LoopStops
<1>4. Rung(bells) = [i \in 1 .. k |-> ticked[i].Owner] /\ Unrung(bells) = SubSeq(ticked, k + 1, L)
  BY <1>1 DEF Rung, Unrung, ticked
<1> HIDE DEF k, L
<1>5. Rung(bells) \in Seq(T) /\ Len(Rung(bells)) = k /\ \A i \in 1 .. k : Rung(bells)[i] = bells[i].Owner
  <2>1. \A i \in 1 .. k : i \in 1 .. L
    BY <1>2, <1>3
  <2>2. Rung(bells) \in [1 .. k -> T] /\ \A i \in 1 .. k : Rung(bells)[i] = bells[i].Owner
    BY <1>1, <1>2, <1>4, <2>1
  <2>3. k \in Nat
    BY <1>3
  <2> QED
    BY <2>2, <2>3, FunctionIsSeq
<1>6. /\ Unrung(bells) \in Bells(T) /\ Len(Unrung(bells)) = L - k
      /\ \A i \in 1 .. L - k : k + i \in 1 .. L /\ Unrung(bells)[i] = ticked[k + i]
  <2>1. \A i \in k + 1 .. L : ticked[i] \in [Owner : T, Ticks : Nat]
    BY <1>2, <1>3
  <2>2. k + 1 \in Int /\ L \in Int
    BY <1>2, <1>3
  <2>3. /\ Unrung(bells) \in Seq([Owner : T, Ticks : Nat])
        /\ Len(Unrung(bells)) = IF k + 1 <= L THEN L - (k + 1) + 1 ELSE 0
        /\ \A i \in 1 .. L - (k + 1) + 1 : Unrung(bells)[i] = ticked[(k + 1) + i - 1]
    BY <1>4, <2>1, <2>2, SubSeqProperties
  <2> QED
    BY <2>3, <1>2, <1>3 DEF Bells
<1>7. k < L => Unrung(bells)[1].Ticks > 0
  <2> SUFFICES ASSUME k < L PROVE Unrung(bells)[1].Ticks > 0
    OBVIOUS
  <2>1. 1 \in 1 .. L - k /\ k + 1 \in 1 .. L
    BY <1>2, <1>3
  <2> QED
    BY <2>1, <1>2, <1>3, <1>6
<1> QED
  BY <1>1, <1>3, <1>5, <1>6, <1>7 DEF k, L, ticked

(* No bell is overdue: the first one still has ticks left.                    *)
NoneOverdue(bells) == bells # << >> => bells[1].Ticks > 0

(* Check rings exactly the bells that are due at the next tick, and moves the *)
(* others one tick closer.                                                    *)
LEMMA CheckRingsTheDue ==
    ASSUME NEW T, NEW bells \in Bells(T), NoneOverdue(bells)
    PROVE  LET k == DueCount(Tick(bells))
           IN  /\ \A i \in 1 .. Len(bells) :
                     DueIn(bells)[i] >= 1 /\ (DueIn(bells)[i] = 1 <=> i <= k)
               /\ \A i \in 1 .. Len(bells) - k : DueIn(Unrung(bells))[i] = DueIn(bells)[k + i] - 1
<1> DEFINE ticked == Tick(bells)
           k == DueCount(ticked)
           L == Len(bells)
           due == DueIn(bells)
           after == DueIn(ticked)
<1>1. /\ ticked \in Bells(T) /\ Len(ticked) = L
      /\ \A i \in 1 .. L : ticked[i].Ticks = IF i = 1 /\ bells[1].Ticks > 0 THEN bells[1].Ticks - 1
                                               ELSE bells[i].Ticks
  BY TickIs
<1>2. /\ k \in 0 .. L /\ (k < L => ticked[k + 1].Ticks # 0)
      /\ \A i \in 1 .. k : ticked[i].Ticks = 0
  BY <1>1, LoopStops
<1>3. /\ Unrung(bells) \in Bells(T) /\ Len(Unrung(bells)) = L - k
      /\ \A i \in 1 .. L - k : Unrung(bells)[i] = ticked[k + i]
  BY CheckIs
<1>4. /\ due \in [0 .. L -> Nat] /\ due[0] = 0
      /\ \A i \in 1 .. L : due[i] = due[i - 1] + bells[i].Ticks
  BY DueIs
<1>5. /\ after \in [0 .. L -> Nat] /\ after[0] = 0
      /\ \A i \in 1 .. L : after[i] = after[i - 1] + ticked[i].Ticks
  BY <1>1, DueIs
<1>6. L \in Nat /\ \A i \in 1 .. L : bells[i].Ticks \in Nat
  BY BellsAre
<1>7. \A i \in 0 .. L : \A j \in i .. L : after[i] <= after[j]
  BY <1>1, DueMonotone
<1>8. L > 0 => bells[1].Ticks > 0
  <2>1. bells = << >> => Len(bells) = 0
    BY EmptySeq
  <2> QED
    BY <2>1 DEF NoneOverdue
<1>9. \A i \in 0 .. L : after[i] = IF i = 0 THEN 0 ELSE due[i] - 1
  <2> DEFINE g == [i \in 0 .. L |-> IF i = 0 THEN 0 ELSE due[i] - 1]
  <2>1. g[0] = 0
    BY <1>6
  <2>2. ASSUME NEW i \in 1 .. L PROVE g[i] = g[i - 1] + ticked[i].Ticks
    <3>1. CASE i = 1
      <4>1. g[1] = due[1] - 1 /\ g[0] = 0 /\ due[1] = 0 + bells[1].Ticks /\ ticked[1].Ticks = bells[1].Ticks - 1
        BY <3>1, <1>1, <1>4, <1>6, <1>8
      <4> QED
        BY <3>1, <4>1, <1>6
    <3>2. CASE i # 1
      <4>1. /\ g[i] = due[i] - 1 /\ g[i - 1] = due[i - 1] - 1 /\ ticked[i].Ticks = bells[i].Ticks
            /\ due[i] = due[i - 1] + bells[i].Ticks /\ due[i - 1] \in Nat /\ bells[i].Ticks \in Nat
        <5>0. i - 1 \in 1 .. L /\ i - 1 \in 0 .. L /\ i \in 0 .. L /\ i # 0 /\ i - 1 # 0
          BY <3>2, <1>6
        <5>1. g[i] = due[i] - 1 /\ g[i - 1] = due[i - 1] - 1
          BY <5>0
        <5>2. ticked[i].Ticks = bells[i].Ticks
          BY <3>2, <1>1
        <5> HIDE DEF g
        <5> QED
          BY <5>0, <5>1, <5>2, <1>4, <1>6, Zenon
      <4> HIDE DEF g
      <4>2. \A a, b \in Nat : (a + b) - 1 = (a - 1) + b
        OBVIOUS
      <4> QED
        BY <4>1, <4>2, Zenon
    <3> QED
      BY <3>1, <3>2
  <2> HIDE DEF g, due, ticked, L
  <2>3. \A i \in 0 .. L : after[i] = g[i]
    BY <1>1, <2>1, <2>2, DueUnique
  <2> QED
    BY <2>3 DEF g
<1> HIDE DEF due, after, ticked, k, L
<1>10. \A i \in 0 .. k : after[i] = 0
  <2> DEFINE bad == {i \in 0 .. k : after[i] # 0}
  <2> SUFFICES ASSUME bad # {} PROVE FALSE
    OBVIOUS
  <2>1. bad \in SUBSET Nat
    BY <1>2
  <2>2. PICK n \in bad : \A m \in bad : n <= m
    BY <2>1, Minimum, Zenon
  <2>3. n \in 1 .. k /\ n \in 1 .. L /\ n - 1 \in 0 .. k /\ n - 1 \notin bad
    BY <2>2, <1>2, <1>5, <1>6
  <2>4. after[n - 1] = 0 /\ after[n] # 0
    BY <2>2, <2>3
  <2> QED
    BY <2>3, <2>4, <1>2, <1>5
<1>11. ASSUME NEW i \in k + 1 .. L PROVE after[i] >= 1
  <2>1. k + 1 \in 1 .. L /\ k < L /\ i \in (k + 1) .. L /\ (k + 1) - 1 = k /\ k \in 0 .. k
    BY <1>2, <1>6
  <2>2. ticked[k + 1].Ticks \in Nat
    BY <2>1, <1>1, BellsAre
  <2>3. after[k + 1] = 0 + ticked[k + 1].Ticks
    BY <2>1, <1>5, <1>10
  <2>4. after[k + 1] <= after[i] /\ after[i] \in Nat
    BY <2>1, <1>5, <1>6, <1>7
  <2> QED
    BY <2>1, <2>2, <2>3, <2>4, <1>2
<1>12. ASSUME NEW i \in 1 .. L PROVE due[i] >= 1 /\ (due[i] = 1 <=> i <= k)
  <2>1. after[i] = due[i] - 1 /\ after[i] \in Nat /\ due[i] \in Nat
    BY <1>4, <1>5, <1>6, <1>9
  <2>2. CASE i <= k
    BY <2>1, <2>2, <1>2, <1>10
  <2>3. CASE i > k
    <3>1. i \in k + 1 .. L
      BY <2>3, <1>2, <1>6
    <3> QED
      BY <2>1, <2>3, <3>1, <1>11, <1>2
  <2> QED
    BY <2>2, <2>3, <1>2
<1>13. ASSUME NEW i \in 1 .. L - k PROVE DueIn(Unrung(bells))[i] = due[k + i] - 1
  <2> DEFINE h == [j \in 0 .. L - k |-> after[k + j]]
  <2>1. h[0] = 0
    BY <1>2, <1>6, <1>10
  <2>2. ASSUME NEW j \in 1 .. L - k PROVE h[j] = h[j - 1] + Unrung(bells)[j].Ticks
    <3>1. k + j \in 1 .. L /\ (k + j) - 1 = k + (j - 1) /\ j - 1 \in 0 .. L - k /\ j \in 0 .. L - k
      BY <1>2, <1>6
    <3> QED
      BY <3>1, <1>3, <1>5
  <2>3. h[i] = after[k + i] /\ k + i \in 1 .. L /\ i \in 0 .. L - k
    BY <1>2, <1>6
  <2> HIDE DEF h
  <2>4. \A j \in 0 .. L - k : DueIn(Unrung(bells))[j] = h[j]
    BY <1>3, <2>1, <2>2, DueUnique
  <2> QED
    BY <2>3, <2>4, <1>9, <1>6
<1> QED
  BY <1>12, <1>13 DEF due, k, L, ticked
=============================================================================
