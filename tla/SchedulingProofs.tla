-------------------------- MODULE SchedulingProofs --------------------------
(* The scheduler, for every number of cores and threads: a thread is in one   *)
(* place at a time and is never lost, the semaphore and the key buffer agree, *)
(* and a killed thread gets no core.                                          *)
EXTENDS Scheduling, BellListProofs, FiniteSetTheorems

\* A leaf is translated with all the definitions before it: the provers get more
\* time for that than by default.
USE SMTT(30), ZenonT(60)

-----------------------------------------------------------------------------
(* Queues as sets: what is in them, and that nothing is twice.                *)

Elems(q) == {q[i] : i \in DOMAIN q}
Distinct(q) == \A i, j \in DOMAIN q : q[i] = q[j] => i = j

(* Queue::Append of something that is not queued.                             *)
LEMMA Appended ==
    ASSUME NEW S, NEW q \in Seq(S), NEW t \in S
    PROVE  /\ Append(q, t) \in Seq(S)
           /\ Elems(Append(q, t)) = Elems(q) \cup {t}
           /\ Distinct(q) /\ t \notin Elems(q) => Distinct(Append(q, t))
<1> DEFINE a == Append(q, t)
<1>1. /\ a \in Seq(S) /\ Len(a) = Len(q) + 1 /\ Len(q) \in Nat
      /\ \A i \in 1 .. Len(q) : a[i] = q[i]
      /\ a[Len(q) + 1] = t
  BY AppendProperties, LenProperties
<1>2. DOMAIN q = 1 .. Len(q) /\ DOMAIN a = 1 .. Len(q) + 1
  BY <1>1, LenProperties
<1> HIDE DEF a
<1>3. \A i \in 1 .. Len(q) + 1 : i \in 1 .. Len(q) \/ i = Len(q) + 1
  BY <1>1
<1>4. Elems(a) = Elems(q) \cup {t}
  BY <1>1, <1>2, <1>3 DEF Elems
<1>5. ASSUME Distinct(q), t \notin Elems(q) PROVE Distinct(a)
  BY <1>1, <1>2, <1>3, <1>5 DEF Distinct, Elems
<1> QED
  BY <1>1, <1>4, <1>5 DEF a

(* A queue behind another.                                                    *)
LEMMA Concatenated ==
    ASSUME NEW S, NEW q \in Seq(S), NEW r \in Seq(S)
    PROVE  /\ q \o r \in Seq(S)
           /\ Elems(q \o r) = Elems(q) \cup Elems(r)
           /\ Distinct(q) /\ Distinct(r) /\ Elems(q) \cap Elems(r) = {} => Distinct(q \o r)
<1> DEFINE a == q \o r
           m == Len(q)
           n == Len(r)
<1>1. /\ a \in Seq(S) /\ Len(a) = m + n
      /\ \A i \in 1 .. m + n : a[i] = IF i <= m THEN q[i] ELSE r[i - m]
  BY ConcatProperties
<1>2. /\ m \in Nat /\ n \in Nat /\ DOMAIN q = 1 .. m /\ DOMAIN r = 1 .. n /\ DOMAIN a = 1 .. m + n
  BY <1>1, LenProperties
<1> HIDE DEF a, m, n
<1>3. \A i \in 1 .. m : i \in 1 .. m + n /\ a[i] = q[i]
  BY <1>1, <1>2
<1>4. \A i \in 1 .. n : m + i \in 1 .. m + n /\ a[m + i] = r[i]
  <2> SUFFICES ASSUME NEW i \in 1 .. n PROVE m + i \in 1 .. m + n /\ a[m + i] = r[i]
    OBVIOUS
  <2>1. m + i \in 1 .. m + n /\ ~(m + i <= m) /\ (m + i) - m = i
    BY <1>2
  <2> QED
    BY <2>1, <1>1
<1>5. ASSUME NEW i \in 1 .. m + n, i \notin 1 .. m PROVE i - m \in 1 .. n /\ a[i] = r[i - m]
  <2>1. i - m \in 1 .. n /\ ~(i <= m)
    BY <1>2, <1>5
  <2> QED
    BY <2>1, <1>1
<1>6. Elems(a) \subseteq Elems(q) \cup Elems(r)
  <2> SUFFICES ASSUME NEW i \in 1 .. m + n PROVE a[i] \in Elems(q) \cup Elems(r)
    BY <1>2 DEF Elems
  <2>1. CASE i \in 1 .. m
    BY <2>1, <1>2, <1>3, Zenon DEF Elems
  <2>2. CASE i \notin 1 .. m
    BY <2>2, <1>2, <1>5, Zenon DEF Elems
  <2> QED
    BY <2>1, <2>2
<1>7. Elems(q) \cup Elems(r) \subseteq Elems(a)
  BY <1>2, <1>3, <1>4, Zenon DEF Elems
<1>8. ASSUME Distinct(q), Distinct(r), Elems(q) \cap Elems(r) = {} PROVE Distinct(a)
  <2> SUFFICES ASSUME NEW i \in 1 .. m + n, NEW j \in 1 .. m + n, a[i] = a[j] PROVE i = j
    BY <1>2 DEF Distinct
  <2>1. CASE i \in 1 .. m /\ j \in 1 .. m
    BY <2>1, <1>2, <1>3, <1>8 DEF Distinct
  <2>2. CASE i \notin 1 .. m /\ j \notin 1 .. m
    <3>1. i - m \in 1 .. n /\ j - m \in 1 .. n /\ r[i - m] = r[j - m]
      BY <2>2, <1>5
    <3>2. i - m = j - m
      BY <3>1, <1>2, <1>8 DEF Distinct
    <3> QED
      BY <3>2, <1>2
  <2>3. CASE i \in 1 .. m /\ j \notin 1 .. m
    <3>1. a[i] \in Elems(q)
      BY <2>3, <1>2, <1>3 DEF Elems
    <3>2. a[j] \in Elems(r)
      BY <2>3, <1>2, <1>5, Zenon DEF Elems
    <3> QED
      BY <3>1, <3>2, <1>8
  <2>4. CASE i \notin 1 .. m /\ j \in 1 .. m
    <3>1. a[j] \in Elems(q)
      BY <2>4, <1>2, <1>3 DEF Elems
    <3>2. a[i] \in Elems(r)
      BY <2>4, <1>2, <1>5 DEF Elems
    <3> QED
      BY <3>1, <3>2, <1>8
  <2> QED
    BY <2>1, <2>2, <2>3, <2>4
<1> QED
  BY <1>1, <1>6, <1>7, <1>8 DEF a

(* A queue cut in two.                                                        *)
LEMMA Cut ==
    ASSUME NEW S, NEW q \in Seq(S), NEW k \in 0 .. Len(q)
    PROVE  /\ SubSeq(q, 1, k) \in Seq(S) /\ SubSeq(q, k + 1, Len(q)) \in Seq(S)
           /\ Len(SubSeq(q, 1, k)) = k /\ Len(SubSeq(q, k + 1, Len(q))) = Len(q) - k
           /\ \A i \in 1 .. k : SubSeq(q, 1, k)[i] = q[i]
           /\ \A i \in 1 .. Len(q) - k : SubSeq(q, k + 1, Len(q))[i] = q[k + i]
           /\ Elems(SubSeq(q, 1, k)) = {q[i] : i \in 1 .. k}
           /\ Elems(SubSeq(q, k + 1, Len(q))) = {q[i] : i \in k + 1 .. Len(q)}
           /\ Elems(q) = Elems(SubSeq(q, 1, k)) \cup Elems(SubSeq(q, k + 1, Len(q)))
           /\ Distinct(q) => /\ Distinct(SubSeq(q, 1, k)) /\ Distinct(SubSeq(q, k + 1, Len(q)))
                             /\ Elems(SubSeq(q, 1, k)) \cap Elems(SubSeq(q, k + 1, Len(q))) = {}
<1> DEFINE front == SubSeq(q, 1, k)
           rest == SubSeq(q, k + 1, Len(q))
           n == Len(q)
<1>1. n \in Nat /\ DOMAIN q = 1 .. n /\ \A i \in 1 .. n : q[i] \in S
  BY LenProperties, ElementOfSeq
<1>2. front \in Seq(S) /\ Len(front) = k /\ \A i \in 1 .. k : front[i] = q[i]
  <2>1. 1 \in Int /\ k \in Int /\ \A i \in 1 .. k : q[i] \in S
    BY <1>1
  <2>2. /\ front \in Seq(S) /\ Len(front) = IF 1 <= k THEN k - 1 + 1 ELSE 0
        /\ \A i \in 1 .. k - 1 + 1 : front[i] = q[1 + i - 1]
    BY <2>1, SubSeqProperties
  <2> QED
    BY <2>2, <1>1
<1>3. rest \in Seq(S) /\ Len(rest) = n - k /\ \A i \in 1 .. n - k : rest[i] = q[k + i]
  <2>1. k + 1 \in Int /\ n \in Int /\ \A i \in k + 1 .. n : q[i] \in S
    BY <1>1
  <2>2. /\ rest \in Seq(S) /\ Len(rest) = IF k + 1 <= n THEN n - (k + 1) + 1 ELSE 0
        /\ \A i \in 1 .. n - (k + 1) + 1 : rest[i] = q[(k + 1) + i - 1]
    BY <2>1, SubSeqProperties
  <2>k. n \in Nat /\ k \in 0 .. n
    BY <1>1
  <2> HIDE DEF rest, n
  <2>3. (k + 1 <= n => n - (k + 1) + 1 = n - k) /\ (~(k + 1 <= n) => n - k = 0) /\ n - (k + 1) + 1 = n - k
    BY <2>k
  <2>4. \A i \in 1 .. n - k : (k + 1) + i - 1 = k + i
    BY <2>k
  <2> QED
    BY <2>2, <2>3, <2>4
<1>4. DOMAIN front = 1 .. k /\ DOMAIN rest = 1 .. n - k
  BY <1>2, <1>3, LenProperties
<1> HIDE DEF front, rest, n
<1>5. Elems(front) = {q[i] : i \in 1 .. k}
  BY <1>2, <1>4 DEF Elems
<1>6. Elems(rest) = {q[i] : i \in k + 1 .. n}
  <2>1. \A i \in k + 1 .. n : i - k \in 1 .. n - k /\ i = k + (i - k)
    BY <1>1
  <2>2. \A i \in 1 .. n - k : k + i \in k + 1 .. n
    BY <1>1
  <2>3. Elems(rest) \subseteq {q[i] : i \in k + 1 .. n}
    BY <1>3, <1>4, <2>2 DEF Elems
  <2>4. {q[i] : i \in k + 1 .. n} \subseteq Elems(rest)
    BY <1>3, <1>4, <2>1 DEF Elems
  <2> QED
    BY <2>3, <2>4
<1>7. \A i \in 1 .. n : i \in 1 .. k \/ i \in k + 1 .. n
  BY <1>1 DEF n
<1>8. (\A i \in 1 .. k : i \in 1 .. n) /\ (\A i \in k + 1 .. n : i \in 1 .. n)
  BY <1>1 DEF n
<1>9. Elems(q) = Elems(front) \cup Elems(rest)
  BY <1>1, <1>5, <1>6, <1>7, <1>8, Zenon DEF Elems
<1>10. ASSUME Distinct(q) PROVE Distinct(front) /\ Distinct(rest) /\ Elems(front) \cap Elems(rest) = {}
  <2>1. Distinct(front)
    BY <1>1, <1>2, <1>4, <1>8, <1>10 DEF Distinct
  <2>2. Distinct(rest)
    <3> SUFFICES ASSUME NEW i \in 1 .. n - k, NEW j \in 1 .. n - k, rest[i] = rest[j] PROVE i = j
      BY <1>4 DEF Distinct
    <3>1. k + i \in 1 .. n /\ k + j \in 1 .. n /\ q[k + i] = q[k + j]
      BY <1>1, <1>3
    <3>2. k + i = k + j
      BY <3>1, <1>1, <1>10 DEF Distinct
    <3> QED
      BY <3>2, <1>1
  <2>3. ASSUME NEW i \in 1 .. k, NEW j \in k + 1 .. n, q[i] = q[j] PROVE FALSE
    <3>1. i \in 1 .. n /\ j \in 1 .. n /\ i # j
      BY <1>1, <1>8
    <3> QED
      BY <3>1, <2>3, <1>1, <1>10 DEF Distinct
  <2> QED
    BY <2>1, <2>2, <2>3, <1>5, <1>6
<1> QED
  BY <1>2, <1>3, <1>5, <1>6, <1>9, <1>10 DEF front, rest, n

(* The sleepers, in the order of their bells.                                 *)
OwnersOf(bells) == [i \in 1 .. Len(bells) |-> bells[i].Owner]

(* The owners of the bells, as a queue.                                       *)
LEMMA OwnersAre ==
    ASSUME NEW T, NEW bells \in Bells(T)
    PROVE  OwnersOf(bells) \in Seq(T) /\ Len(OwnersOf(bells)) = Len(bells)
<1>1. Len(bells) \in Nat /\ \A i \in 1 .. Len(bells) : bells[i].Owner \in T
  BY BellsAre
<1>2. OwnersOf(bells) \in [1 .. Len(bells) -> T]
  BY <1>1 DEF OwnersOf
<1> QED
  BY <1>1, <1>2, FunctionIsSeq

(* Bellringer::Sleep adds its caller to them.                                 *)
LEMMA OwnersAfterInsert ==
    ASSUME NEW T, NEW bells \in Bells(T), NEW t \in T, NEW ticks \in Nat
    PROVE  LET new == Insert(bells, t, ticks)
           IN  /\ new \in Bells(T)
               /\ Elems(OwnersOf(new)) = Elems(OwnersOf(bells)) \cup {t}
               /\ Distinct(OwnersOf(bells)) /\ t \notin Elems(OwnersOf(bells)) => Distinct(OwnersOf(new))
<1> DEFINE new == Insert(bells, t, ticks)
           L == Len(bells)
           old == OwnersOf(bells)
           own == OwnersOf(new)
<1>0. L \in Nat
  BY BellsAre
<1>1. new \in Bells(T) /\ Len(new) = L + 1 /\ L \in Nat
  BY <1>0, InsertIs, Zenon
<1>2. PICK pos \in 0 .. L : InsertedAt(new, bells, t, ticks, pos)
  BY InsertIs
<1>3. \A i \in 1 .. L + 1 : new[i].Owner = IF i <= pos THEN bells[i].Owner
                                           ELSE IF i = pos + 1 THEN t ELSE bells[i - 1].Owner
  BY <1>2 DEF InsertedAt
<1>4. /\ DOMAIN old = 1 .. L /\ DOMAIN own = 1 .. L + 1
      /\ \A i \in 1 .. L : old[i] = bells[i].Owner
      /\ \A i \in 1 .. L + 1 : own[i] = new[i].Owner
  BY <1>1 DEF OwnersOf
<1> HIDE DEF new, L, old, own
<1>5. \A i \in 1 .. L + 1 : own[i] = IF i <= pos THEN old[i] ELSE IF i = pos + 1 THEN t ELSE old[i - 1]
  <2> SUFFICES ASSUME NEW i \in 1 .. L + 1
               PROVE  own[i] = IF i <= pos THEN old[i] ELSE IF i = pos + 1 THEN t ELSE old[i - 1]
    OBVIOUS
  <2>1. (i <= pos => i \in 1 .. L) /\ (i > pos + 1 => i - 1 \in 1 .. L) /\ (i <= pos \/ i = pos + 1 \/ i > pos + 1)
    BY <1>1
  <2> QED
    BY <2>1, <1>3, <1>4
<1>6. /\ pos + 1 \in 1 .. L + 1 /\ own[pos + 1] = t
      /\ \A i \in 1 .. L : IF i <= pos THEN i \in 1 .. L + 1 /\ own[i] = old[i]
                            ELSE i + 1 \in 1 .. L + 1 /\ own[i + 1] = old[i]
  <2>1. pos + 1 \in 1 .. L + 1 /\ own[pos + 1] = t
    BY <1>1, <1>5
  <2>2. ASSUME NEW i \in 1 .. L, i <= pos PROVE i \in 1 .. L + 1 /\ own[i] = old[i]
    BY <2>2, <1>1, <1>5
  <2>3. ASSUME NEW i \in 1 .. L, ~(i <= pos) PROVE i + 1 \in 1 .. L + 1 /\ own[i + 1] = old[i]
    <3>1. i + 1 \in 1 .. L + 1 /\ ~(i + 1 <= pos) /\ i + 1 # pos + 1 /\ (i + 1) - 1 = i
      BY <2>3, <1>1
    <3> QED
      BY <3>1, <1>5
  <2> QED
    BY <2>1, <2>2, <2>3
<1>7. Elems(old) \cup {t} \subseteq Elems(own)
  BY <1>4, <1>6 DEF Elems
<1>8. Elems(own) \subseteq Elems(old) \cup {t}
  <2> SUFFICES ASSUME NEW i \in 1 .. L + 1 PROVE own[i] \in Elems(old) \cup {t}
    BY <1>4 DEF Elems
  <2>1. (i <= pos => i \in 1 .. L) /\ (i > pos + 1 => i - 1 \in 1 .. L) /\ (i <= pos \/ i = pos + 1 \/ i > pos + 1)
    BY <1>1
  <2> QED
    BY <2>1, <1>4, <1>5 DEF Elems
<1>9. ASSUME Distinct(old), t \notin Elems(old) PROVE Distinct(own)
  <2> SUFFICES ASSUME NEW i \in 1 .. L + 1, NEW j \in 1 .. L + 1, own[i] = own[j] PROVE i = j
    BY <1>4 DEF Distinct
  <2>0. /\ \A k \in 1 .. L : old[k] # t
        /\ \A k, m \in 1 .. L : old[k] = old[m] => k = m
    BY <1>4, <1>9 DEF Distinct, Elems
  <2>1. \A k \in 1 .. L + 1 :
           \/ k <= pos /\ k \in 1 .. L /\ own[k] = old[k]
           \/ k = pos + 1 /\ own[k] = t
           \/ k > pos + 1 /\ k - 1 \in 1 .. L /\ own[k] = old[k - 1]
    BY <1>1, <1>5
  <2>2. ASSUME NEW k \in 1 .. L + 1, NEW m \in 1 .. L + 1, own[k] = own[m], k < m PROVE FALSE
    <3>1. CASE m <= pos
      <4>1. k \in 1 .. L /\ m \in 1 .. L /\ own[k] = old[k] /\ own[m] = old[m] /\ k # m
        BY <3>1, <2>1, <2>2, <1>1
      <4> QED
        BY <4>1, <2>0, <2>2, Zenon
    <3>2. CASE m = pos + 1
      <4>1. k \in 1 .. L /\ own[k] = old[k] /\ own[m] = t
        BY <3>2, <2>1, <2>2, <1>1
      <4> QED
        BY <4>1, <2>0, <2>2, Zenon
    <3>3. CASE m > pos + 1 /\ k <= pos
      <4>1. k \in 1 .. L /\ m - 1 \in 1 .. L /\ own[k] = old[k] /\ own[m] = old[m - 1] /\ k # m - 1
        BY <3>3, <2>1, <2>2, <1>1
      <4> QED
        BY <4>1, <2>0, <2>2, Zenon
    <3>4. CASE m > pos + 1 /\ k = pos + 1
      <4>1. m - 1 \in 1 .. L /\ own[k] = t /\ own[m] = old[m - 1]
        BY <3>4, <2>1, <2>2, <1>1
      <4> QED
        BY <4>1, <2>0, <2>2
    <3>5. CASE m > pos + 1 /\ k > pos + 1
      <4>1. k - 1 \in 1 .. L /\ m - 1 \in 1 .. L /\ own[k] = old[k - 1] /\ own[m] = old[m - 1] /\ k - 1 # m - 1
        BY <3>5, <2>1, <2>2, <1>1
      <4> QED
        BY <4>1, <2>0, <2>2, Zenon
    <3> QED
      BY <3>1, <3>2, <3>3, <3>4, <3>5, <1>1
  <2>3. ~(i < j) /\ ~(j < i)
    BY <2>2
  <2> QED
    BY <2>3, <1>1
<1> QED
  BY <1>1, <1>7, <1>8, <1>9 DEF new, old, own

(* Bellringer::Check takes a front part of them off.                          *)
LEMMA OwnersAfterCheck ==
    ASSUME NEW T, NEW bells \in Bells(T)
    PROVE  /\ Unrung(bells) \in Bells(T) /\ Rung(bells) \in Seq(T)
           /\ Elems(OwnersOf(bells)) = Elems(Rung(bells)) \cup Elems(OwnersOf(Unrung(bells)))
           /\ Distinct(OwnersOf(bells)) =>
                 /\ Distinct(Rung(bells)) /\ Distinct(OwnersOf(Unrung(bells)))
                 /\ Elems(Rung(bells)) \cap Elems(OwnersOf(Unrung(bells))) = {}
<1> DEFINE k == DueCount(Tick(bells))
           L == Len(bells)
           old == OwnersOf(bells)
           own == OwnersOf(Unrung(bells))
<1>1. /\ k \in 0 .. L /\ L \in Nat
      /\ Rung(bells) \in Seq(T) /\ Len(Rung(bells)) = k
      /\ \A i \in 1 .. k : Rung(bells)[i] = bells[i].Owner
      /\ Unrung(bells) \in Bells(T) /\ Len(Unrung(bells)) = L - k
      /\ \A i \in 1 .. L - k : Unrung(bells)[i].Owner = bells[k + i].Owner
  BY CheckIs, BellsAre, Zenon
<1>2. /\ old \in Seq(T) /\ Len(old) = L /\ own \in Seq(T) /\ Len(own) = L - k
      /\ \A i \in 1 .. L : old[i] = bells[i].Owner
      /\ \A i \in 1 .. L - k : own[i] = Unrung(bells)[i].Owner
  <2>1. \A i \in 1 .. L : old[i] = bells[i].Owner
    BY DEF OwnersOf
  <2>2. \A i \in 1 .. L - k : own[i] = Unrung(bells)[i].Owner
    BY <1>1 DEF OwnersOf
  <2> QED
    BY <1>1, <2>1, <2>2, OwnersAre
<1> HIDE DEF k, L, old, own
<1> DEFINE front == SubSeq(old, 1, k)
           rest == SubSeq(old, k + 1, L)
<1>3. /\ front \in Seq(T) /\ rest \in Seq(T) /\ Len(front) = k /\ Len(rest) = L - k
      /\ \A i \in 1 .. k : front[i] = old[i]
      /\ \A i \in 1 .. L - k : rest[i] = old[k + i]
      /\ Elems(old) = Elems(front) \cup Elems(rest)
      /\ Distinct(old) => Distinct(front) /\ Distinct(rest) /\ Elems(front) \cap Elems(rest) = {}
  BY <1>1, <1>2, Cut
<1> HIDE DEF front, rest
<1>4. Rung(bells) = front
  <2>1. \A i \in 1 .. k : i \in 1 .. L
    BY <1>1
  <2>2. \A i \in 1 .. k : Rung(bells)[i] = front[i]
    BY <1>1, <1>2, <1>3, <2>1, Zenon
  <2> QED
    BY <2>2, <1>1, <1>3, SeqEqual
<1>5. own = rest
  <2>1. \A i \in 1 .. L - k : k + i \in 1 .. L
    BY <1>1
  <2>2. ASSUME NEW i \in 1 .. L - k PROVE own[i] = rest[i]
    <3>1. own[i] = bells[k + i].Owner
      BY <1>1, <1>2
    <3>2. rest[i] = bells[k + i].Owner
      BY <1>2, <1>3, <2>1
    <3> QED
      BY <3>1, <3>2
  <2> QED
    BY <2>2, <1>2, <1>3, SeqEqual, Zenon
<1> QED
  BY <1>1, <1>3, <1>4, <1>5 DEF old, own

-----------------------------------------------------------------------------
(* Where the threads are: in ready queue q, waiting in w, asleep in bells b,  *)
(* or running on a core of D.  In no two of these, and in none twice; nowhere *)
(* once they are out; and somewhere unless they are out or dead.              *)
Running(active, D) == {active[c] : c \in D} \cap Threads

Apart(Q, W, S, R, out, dead) ==
    /\ Q \cap W = {} /\ (Q \cup W) \cap S = {} /\ (Q \cup W \cup S) \cap R = {}
    /\ Threads \ (out \cup dead) \subseteq Q \cup W \cup S \cup R
    /\ out \cap (Q \cup W \cup S \cup R) = {}

Placed(q, w, b, active, D, out, dead) ==
    /\ q \in Seq(Threads) /\ w \in Seq(Threads) /\ b \in Bells(Threads)
    /\ Distinct(q) /\ Distinct(w) /\ Distinct(OwnersOf(b))
    /\ \A c, d \in D : active[c] \in Threads /\ active[c] = active[d] => c = d
    /\ Apart(Elems(q), Elems(w), Elems(OwnersOf(b)), Running(active, D), out, dead)

(* A thread that runs may go anywhere else.                                   *)
LEMMA Moved ==
    ASSUME NEW Q, NEW W, NEW S, NEW R, NEW out, NEW dead, NEW t,
           Apart(Q, W, S, R \cup {t}, out, dead), t \notin Q \cup W \cup S \cup R \cup out
    PROVE  /\ Apart(Q \cup {t}, W, S, R, out, dead)
           /\ Apart(Q, W \cup {t}, S, R, out, dead)
           /\ Apart(Q, W, S \cup {t}, R, out, dead)
           /\ Apart(Q, W, S, R, out \cup {t}, dead)
           /\ t \in dead => Apart(Q, W, S, R, out, dead)
<1>1. Apart(Q \cup {t}, W, S, R, out, dead)
  BY DEF Apart
<1>2. Apart(Q, W \cup {t}, S, R, out, dead)
  BY DEF Apart
<1>3. Apart(Q, W, S \cup {t}, R, out, dead)
  BY DEF Apart
<1>4. Apart(Q, W, S, R, out \cup {t}, dead)
  BY DEF Apart
<1>5. t \in dead => Apart(Q, W, S, R, out, dead)
  BY DEF Apart
<1> QED
  BY <1>1, <1>2, <1>3, <1>4, <1>5

(* A core's thread set aside: what the others run.                            *)
LEMMA OthersRun ==
    ASSUME NEW active, NEW D, NEW c \in D
    PROVE  Running(active, D) = Running(active, D \ {c}) \cup ({active[c]} \cap Threads)
  BY DEF Running

(* It is on no other core and in no queue.                                    *)
LEMMA OnlyHere ==
    ASSUME NEW q, NEW w, NEW b, NEW active, NEW D, NEW out, NEW dead, NEW c \in D,
           Placed(q, w, b, active, D, out, dead), active[c] \in Threads
    PROVE  /\ active[c] \notin Running(active, D \ {c})
           /\ active[c] \notin Elems(q) \cup Elems(w) \cup Elems(OwnersOf(b)) \cup out
<1>1. active[c] \in Running(active, D)
  BY DEF Running
<1>2. active[c] \notin Running(active, D \ {c})
  BY DEF Running, Placed
<1> QED
  BY <1>1, <1>2 DEF Placed, Apart

(* A core that runs no thread, or a dying one, gives up nothing.              *)
LEMMA SetAside ==
    ASSUME NEW q, NEW w, NEW b, NEW active, NEW D, NEW out, NEW dead, NEW c \in D,
           Placed(q, w, b, active, D, out, dead), active[c] \notin Threads \ dead
    PROVE  Placed(q, w, b, active, D \ {c}, out, dead)
<1>1. Running(active, D) = Running(active, D \ {c}) \cup ({active[c]} \cap Threads)
  BY OthersRun
<1>2. \A d, e \in D \ {c} : active[d] \in Threads /\ active[d] = active[e] => d = e
  BY DEF Placed
<1>3. CASE active[c] \notin Threads
  <2>1. Running(active, D) = Running(active, D \ {c})
    BY <1>1, <1>3
  <2> QED
    BY <1>2, <2>1 DEF Placed
<1>4. CASE active[c] \in Threads
  <2>1. Running(active, D) = Running(active, D \ {c}) \cup {active[c]}
    BY <1>1, <1>4
  <2>2. /\ active[c] \notin Running(active, D \ {c})
        /\ active[c] \notin Elems(q) \cup Elems(w) \cup Elems(OwnersOf(b)) \cup out
    BY <1>4, OnlyHere, Zenon
  <2>3. Apart(Elems(q), Elems(w), Elems(OwnersOf(b)), Running(active, D \ {c}), out, dead)
    BY <1>4, <2>1, <2>2, Moved, Zenon DEF Placed
  <2> QED
    BY <1>2, <2>3 DEF Placed
<1> QED
  BY <1>3, <1>4

(* Resume(true): the thread goes to the back of the ready queue.              *)
LEMMA PutBack ==
    ASSUME NEW q, NEW w, NEW b, NEW active, NEW D, NEW out, NEW dead, NEW c \in D,
           Placed(q, w, b, active, D, out, dead), active[c] \in Threads
    PROVE  Placed(Append(q, active[c]), w, b, active, D \ {c}, out, dead)
<1> DEFINE t == active[c]
           a == Append(q, t)
<1>0. t \in Threads /\ q \in Seq(Threads)
  BY DEF Placed
<1>1. Running(active, D) = Running(active, D \ {c}) \cup {t}
  BY OthersRun
<1>2. /\ t \notin Running(active, D \ {c})
      /\ t \notin Elems(q) \cup Elems(w) \cup Elems(OwnersOf(b)) \cup out
  BY OnlyHere, Zenon
<1>3. a \in Seq(Threads) /\ Elems(a) = Elems(q) \cup {t} /\ (Distinct(q) => Distinct(a))
  BY <1>0, <1>2, Appended
<1>4. \A d, e \in D \ {c} : active[d] \in Threads /\ active[d] = active[e] => d = e
  BY DEF Placed
<1> HIDE DEF a, t
<1>5. Apart(Elems(a), Elems(w), Elems(OwnersOf(b)), Running(active, D \ {c}), out, dead)
  <2>1. Apart(Elems(q), Elems(w), Elems(OwnersOf(b)), Running(active, D \ {c}) \cup {t}, out, dead)
    BY <1>1 DEF Placed
  <2>2. Apart(Elems(q) \cup {t}, Elems(w), Elems(OwnersOf(b)), Running(active, D \ {c}), out, dead)
    BY <2>1, <1>2, Moved, Zenon
  <2> QED
    BY <2>2, <1>3
<1>6. Placed(a, w, b, active, D \ {c}, out, dead)
  BY <1>3, <1>4, <1>5 DEF Placed
<1> QED
  BY <1>6 DEF a, t

(* Semaphore::P: it is parked.                                                *)
LEMMA Parked ==
    ASSUME NEW q, NEW w, NEW b, NEW active, NEW D, NEW out, NEW dead, NEW c \in D,
           Placed(q, w, b, active, D, out, dead), active[c] \in Threads
    PROVE  Placed(q, Append(w, active[c]), b, active, D \ {c}, out, dead)
<1> DEFINE t == active[c]
           a == Append(w, t)
<1>0. t \in Threads /\ w \in Seq(Threads)
  BY DEF Placed
<1>1. Running(active, D) = Running(active, D \ {c}) \cup {t}
  BY OthersRun
<1>2. /\ t \notin Running(active, D \ {c})
      /\ t \notin Elems(q) \cup Elems(w) \cup Elems(OwnersOf(b)) \cup out
  BY OnlyHere, Zenon
<1>3. a \in Seq(Threads) /\ Elems(a) = Elems(w) \cup {t} /\ (Distinct(w) => Distinct(a))
  BY <1>0, <1>2, Appended
<1>4. \A d, e \in D \ {c} : active[d] \in Threads /\ active[d] = active[e] => d = e
  BY DEF Placed
<1> HIDE DEF a, t
<1>5. Apart(Elems(q), Elems(a), Elems(OwnersOf(b)), Running(active, D \ {c}), out, dead)
  <2>1. Apart(Elems(q), Elems(w), Elems(OwnersOf(b)), Running(active, D \ {c}) \cup {t}, out, dead)
    BY <1>1 DEF Placed
  <2>2. Apart(Elems(q), Elems(w) \cup {t}, Elems(OwnersOf(b)), Running(active, D \ {c}), out, dead)
    BY <2>1, <1>2, Moved, Zenon
  <2> QED
    BY <2>2, <1>3
<1>6. Placed(q, a, b, active, D \ {c}, out, dead)
  BY <1>3, <1>4, <1>5 DEF Placed
<1> QED
  BY <1>6 DEF a, t

(* Bellringer::Sleep: it gets a bell.                                         *)
LEMMA PutToSleep ==
    ASSUME NEW q, NEW w, NEW b, NEW active, NEW D, NEW out, NEW dead, NEW c \in D, NEW ticks \in Nat,
           Placed(q, w, b, active, D, out, dead), active[c] \in Threads
    PROVE  Placed(q, w, Insert(b, active[c], ticks), active, D \ {c}, out, dead)
<1> DEFINE t == active[c]
           a == Insert(b, t, ticks)
<1>0. t \in Threads /\ b \in Bells(Threads)
  BY DEF Placed
<1>1. Running(active, D) = Running(active, D \ {c}) \cup {t}
  BY OthersRun
<1>2. /\ t \notin Running(active, D \ {c})
      /\ t \notin Elems(q) \cup Elems(w) \cup Elems(OwnersOf(b)) \cup out
  BY OnlyHere, Zenon
<1>3. /\ a \in Bells(Threads) /\ Elems(OwnersOf(a)) = Elems(OwnersOf(b)) \cup {t}
      /\ Distinct(OwnersOf(b)) => Distinct(OwnersOf(a))
  BY <1>0, <1>2, OwnersAfterInsert
<1>4. \A d, e \in D \ {c} : active[d] \in Threads /\ active[d] = active[e] => d = e
  BY DEF Placed
<1> HIDE DEF a, t
<1>5. Apart(Elems(q), Elems(w), Elems(OwnersOf(a)), Running(active, D \ {c}), out, dead)
  <2>1. Apart(Elems(q), Elems(w), Elems(OwnersOf(b)), Running(active, D \ {c}) \cup {t}, out, dead)
    BY <1>1 DEF Placed
  <2>2. Apart(Elems(q), Elems(w), Elems(OwnersOf(b)) \cup {t}, Running(active, D \ {c}), out, dead)
    BY <2>1, <1>2, Moved, Zenon
  <2> QED
    BY <2>2, <1>3
<1>6. Placed(q, w, a, active, D \ {c}, out, dead)
  BY <1>3, <1>4, <1>5 DEF Placed
<1> QED
  BY <1>6 DEF a, t

(* Scheduler::Exit: it is out.                                                *)
LEMMA TakenOut ==
    ASSUME NEW q, NEW w, NEW b, NEW active, NEW D, NEW out, NEW dead, NEW c \in D,
           Placed(q, w, b, active, D, out, dead), active[c] \in Threads
    PROVE  Placed(q, w, b, active, D \ {c}, out \cup {active[c]}, dead)
<1> DEFINE t == active[c]
<1>1. Running(active, D) = Running(active, D \ {c}) \cup {t}
  BY OthersRun
<1>2. /\ t \notin Running(active, D \ {c})
      /\ t \notin Elems(q) \cup Elems(w) \cup Elems(OwnersOf(b)) \cup out
  BY OnlyHere, Zenon
<1>4. \A d, e \in D \ {c} : active[d] \in Threads /\ active[d] = active[e] => d = e
  BY DEF Placed
<1> HIDE DEF t
<1>5. Apart(Elems(q), Elems(w), Elems(OwnersOf(b)), Running(active, D \ {c}), out \cup {t}, dead)
  BY <1>1, <1>2, Moved, Zenon DEF Placed
<1> QED
  BY <1>4, <1>5 DEF Placed, t

(* Bellringer::Check and Ready: the owners of the bells that ring are queued. *)
LEMMA RungAreReady ==
    ASSUME NEW q, NEW w, NEW b, NEW active, NEW D, NEW out, NEW dead,
           Placed(q, w, b, active, D, out, dead)
    PROVE  Placed(q \o Rung(b), w, Unrung(b), active, D, out, dead)
<1> DEFINE r == Rung(b)
           a == q \o r
           u == Unrung(b)
<1>0. q \in Seq(Threads) /\ b \in Bells(Threads) /\ Distinct(OwnersOf(b)) /\ Distinct(q)
  BY DEF Placed
<1>1. /\ u \in Bells(Threads) /\ r \in Seq(Threads)
      /\ Elems(OwnersOf(b)) = Elems(r) \cup Elems(OwnersOf(u))
      /\ Distinct(r) /\ Distinct(OwnersOf(u)) /\ Elems(r) \cap Elems(OwnersOf(u)) = {}
  BY <1>0, OwnersAfterCheck
<1>2. Elems(q) \cap Elems(r) = {}
  BY <1>1 DEF Placed, Apart
<1>3. a \in Seq(Threads) /\ Elems(a) = Elems(q) \cup Elems(r) /\ Distinct(a)
  BY <1>0, <1>1, <1>2, Concatenated
<1> HIDE DEF a, r, u
<1>4. Placed(a, w, u, active, D, out, dead)
  BY <1>1, <1>3 DEF Placed, Apart
<1> QED
  BY <1>4 DEF a, r, u

(* Semaphore::V and Ready: the first k waiters are queued.                    *)
LEMMA FreedAreReady ==
    ASSUME NEW q, NEW w, NEW b, NEW active, NEW D, NEW out, NEW dead, NEW k \in 0 .. Len(w),
           Placed(q, w, b, active, D, out, dead)
    PROVE  Placed(q \o SubSeq(w, 1, k), SubSeq(w, k + 1, Len(w)), b, active, D, out, dead)
<1> DEFINE r == SubSeq(w, 1, k)
           a == q \o r
           u == SubSeq(w, k + 1, Len(w))
<1>0. q \in Seq(Threads) /\ w \in Seq(Threads) /\ Distinct(w) /\ Distinct(q)
  BY DEF Placed
<1>1. /\ u \in Seq(Threads) /\ r \in Seq(Threads)
      /\ Elems(w) = Elems(r) \cup Elems(u)
      /\ Distinct(r) /\ Distinct(u) /\ Elems(r) \cap Elems(u) = {}
  BY <1>0, Cut
<1>2. Elems(q) \cap Elems(r) = {}
  BY <1>1 DEF Placed, Apart
<1> HIDE DEF r
<1>3. a \in Seq(Threads) /\ Elems(a) = Elems(q) \cup Elems(r) /\ Distinct(a)
  BY <1>0, <1>1, <1>2, Concatenated
<1> HIDE DEF a, u
<1>4. Placed(a, u, b, active, D, out, dead)
  BY <1>1, <1>3 DEF Placed, Apart
<1> QED
  BY <1>4 DEF a, r, u

(* Queue::Remove takes out the thread, and no other.                          *)
LEMMA Removed ==
    ASSUME NEW S, NEW q \in Seq(S), NEW t, Distinct(q)
    PROVE  Remove(q, t) \in Seq(S) /\ Elems(Remove(q, t)) = Elems(q) \ {t} /\ Distinct(Remove(q, t))
<1>1. CASE ~ \E i \in DOMAIN q : q[i] = t
  BY <1>1 DEF Remove, Elems
<1>2. CASE \E i \in DOMAIN q : q[i] = t
  <2> DEFINE n == Len(q)
             at == CHOOSE i \in DOMAIN q : q[i] = t /\ \A j \in 1 .. i - 1 : q[j] # t
             front == SubSeq(q, 1, at - 1)
             rest == SubSeq(q, at + 1, n)
  <2>1. n \in Nat /\ DOMAIN q = 1 .. n
    BY LenProperties
  <2>2. PICK k \in 1 .. n : q[k] = t
    BY <1>2, <2>1
  <2>3. \A j \in 1 .. k - 1 : q[j] # t
    <3> SUFFICES ASSUME NEW j \in 1 .. k - 1, q[j] = t PROVE FALSE
      OBVIOUS
    <3>1. j \in 1 .. n /\ j # k
      BY <2>1
    <3> QED
      BY <3>1, <2>1, <2>2 DEF Distinct
  <2>4. at \in 1 .. n /\ q[at] = t
    BY <2>1, <2>2, <2>3
  <2>5. Remove(q, t) = front \o rest
    BY <1>2, Zenon DEF Remove
  <2> HIDE DEF at, front, rest, n
  <2>6. at - 1 \in 0 .. n /\ at \in 0 .. n
    BY <2>1, <2>4
  <2>7. front \in Seq(S) /\ Distinct(front) /\ Elems(front) = {q[i] : i \in 1 .. at - 1}
    <3> DEFINE m == at - 1
    <3>1. m \in 0 .. Len(q)
      BY <2>6 DEF n
    <3> HIDE DEF m
    <3>2. /\ SubSeq(q, 1, m) \in Seq(S) /\ Distinct(SubSeq(q, 1, m))
          /\ Elems(SubSeq(q, 1, m)) = {q[i] : i \in 1 .. m}
      BY <3>1, Cut
    <3> QED
      BY <3>2 DEF m, front
  <2>8. rest \in Seq(S) /\ Distinct(rest) /\ Elems(rest) = {q[i] : i \in at + 1 .. n}
    BY <2>6, Cut DEF n, rest
  <2>9. ASSUME NEW i \in 1 .. n, NEW j \in 1 .. n, q[i] = q[j] PROVE i = j
    BY <2>1, <2>9 DEF Distinct
  <2>10. /\ \A i \in 1 .. at - 1 : i \in 1 .. n /\ i # at
         /\ \A i \in at + 1 .. n : i \in 1 .. n /\ i # at
         /\ \A i \in 1 .. n : i \in 1 .. at - 1 \/ i = at \/ i \in at + 1 .. n
         /\ \A i \in 1 .. at - 1 : i \notin at + 1 .. n
    BY <2>1, <2>4
  <2>11. Elems(front) \cap Elems(rest) = {}
    BY <2>7, <2>8, <2>9, <2>10
  <2>12. Elems(front) \cup Elems(rest) = Elems(q) \ {t}
    <3>1. Elems(q) = {q[i] : i \in 1 .. n}
      BY <2>1 DEF Elems
    <3>2. Elems(front) \cup Elems(rest) \subseteq Elems(q) \ {t}
      BY <3>1, <2>4, <2>7, <2>8, <2>9, <2>10
    <3>3. Elems(q) \ {t} \subseteq Elems(front) \cup Elems(rest)
      BY <3>1, <2>4, <2>7, <2>8, <2>10
    <3> QED
      BY <3>2, <3>3
  <2>13. /\ front \o rest \in Seq(S)
         /\ Elems(front \o rest) = Elems(front) \cup Elems(rest)
         /\ Distinct(front \o rest)
    <3> HIDE DEF front, rest
    <3>1. front \in Seq(S) /\ rest \in Seq(S)
      BY <2>7, <2>8
    <3>2. Distinct(front) /\ Distinct(rest)
      BY <2>7, <2>8
    <3>3. /\ front \o rest \in Seq(S)
          /\ Elems(front \o rest) = Elems(front) \cup Elems(rest)
          /\ Distinct(front) /\ Distinct(rest) /\ Elems(front) \cap Elems(rest) = {} => Distinct(front \o rest)
      BY <3>1, Concatenated
    <3> QED
      BY <2>11, <3>2, <3>3
  <2> QED
    BY <2>5, <2>12, <2>13
<1> QED
  BY <1>1, <1>2

(* Scheduler::Kill: it is off the ready queue, and dead.                      *)
LEMMA KilledIsOff ==
    ASSUME NEW q, NEW w, NEW b, NEW active, NEW D, NEW out, NEW dead, NEW t,
           Placed(q, w, b, active, D, out, dead)
    PROVE  Placed(Remove(q, t), w, b, active, D, out, dead \cup {t})
<1> DEFINE r == Remove(q, t)
<1>1. r \in Seq(Threads) /\ Elems(r) = Elems(q) \ {t} /\ Distinct(r)
  BY Removed DEF Placed
<1> HIDE DEF r
<1>2. Apart(Elems(r), Elems(w), Elems(OwnersOf(b)), Running(active, D), out, dead \cup {t})
  BY <1>1 DEF Placed, Apart
<1>3. Placed(r, w, b, active, D, out, dead \cup {t})
  BY <1>1, <1>2 DEF Placed
<1> QED
  BY <1>3 DEF r

(* GetNext: what it drops is dying, and what it returns is not.               *)
LEMMA NextIs ==
    ASSUME NEW c \in Cores, NEW q \in Seq(Threads), Distinct(q), DispatchNext(c, q)
    PROVE  \E x \in (Elems(q) \ dying) \cup {Idle} :
              /\ Dispatch(c, x)
              /\ m_ReadyQueue' \in Seq(Threads) /\ Distinct(m_ReadyQueue')
              /\ Elems(m_ReadyQueue') \subseteq Elems(q) /\ x \notin Elems(m_ReadyQueue')
              /\ Elems(q) \subseteq Elems(m_ReadyQueue') \cup {x} \cup dying
<1> DEFINE n == Len(q)
<1>1. n \in Nat /\ DOMAIN q = 1 .. n /\ Elems(q) = {q[i] : i \in 1 .. n}
  BY LenProperties DEF Elems
<1>2. CASE FirstAlive(q) = {} /\ m_ReadyQueue' = << >> /\ Dispatch(c, FallBack(c))
  <2> DEFINE alive == {i \in 1 .. n : q[i] \notin dying}
  <2>1. alive = {}
    <3> SUFFICES ASSUME alive # {} PROVE FALSE
      OBVIOUS
    <3>1. alive \in SUBSET Nat
      BY <1>1
    <3>2. PICK i \in alive : \A j \in alive : i <= j
      BY <3>1, Minimum, Zenon
    <3>3. \A j \in 1 .. i - 1 : j \in 1 .. n /\ ~(i <= j)
      BY <1>1, <3>2
    <3>4. \A j \in 1 .. i - 1 : q[j] \in dying
      BY <3>2, <3>3
    <3>5. i \in FirstAlive(q)
      BY <1>1, <3>2, <3>4 DEF FirstAlive
    <3> QED
      BY <3>5, <1>2
  <2>2. Elems(q) \subseteq dying
    BY <1>1, <2>1
  <2>3. << >> \in Seq(Threads) /\ Distinct(<< >>) /\ Elems(<< >>) = {}
    BY EmptySeq DEF Distinct, Elems
  <2> QED
    BY <1>2, <2>2, <2>3 DEF FallBack
<1>3. ASSUME NEW i \in FirstAlive(q), m_ReadyQueue' = Behind(q, i), Dispatch(c, q[i])
      PROVE  \E x \in (Elems(q) \ dying) \cup {Idle} :
                /\ Dispatch(c, x)
                /\ m_ReadyQueue' \in Seq(Threads) /\ Distinct(m_ReadyQueue')
                /\ Elems(m_ReadyQueue') \subseteq Elems(q) /\ x \notin Elems(m_ReadyQueue')
                /\ Elems(q) \subseteq Elems(m_ReadyQueue') \cup {x} \cup dying
  <2>1. i \in 1 .. n /\ q[i] \notin dying /\ \A j \in 1 .. i - 1 : q[j] \in dying
    BY <1>1 DEF FirstAlive
  <2>2. i \in 0 .. n
    BY <1>1, <2>1
  <2> DEFINE r == SubSeq(q, i + 1, n)
  <2>3. r \in Seq(Threads) /\ Distinct(r) /\ Elems(r) = {q[j] : j \in i + 1 .. n} /\ Elems(r) \subseteq Elems(q)
    BY <2>2, Cut
  <2>4. m_ReadyQueue' = r
    BY <1>3 DEF Behind
  <2> HIDE DEF r, n
  <2>5. q[i] \in Elems(q) \ dying
    BY <1>1, <2>1
  <2>6. q[i] \notin Elems(r)
    <3> SUFFICES ASSUME NEW j \in i + 1 .. n, q[j] = q[i] PROVE FALSE
      BY <2>3
    <3>1. j \in 1 .. n /\ i \in 1 .. n /\ i # j
      BY <1>1, <2>1
    <3> QED
      BY <3>1, <1>1 DEF Distinct
  <2>7. Elems(q) \subseteq Elems(r) \cup {q[i]} \cup dying
    <3> SUFFICES ASSUME NEW j \in 1 .. n PROVE q[j] \in Elems(r) \cup {q[i]} \cup dying
      BY <1>1
    <3>1. j \in 1 .. i - 1 \/ j = i \/ j \in i + 1 .. n
      BY <1>1, <2>1
    <3> QED
      BY <3>1, <2>1, <2>3
  <2> QED
    BY <1>3, <2>3, <2>4, <2>5, <2>6, <2>7
<1> QED
  BY <1>2, <1>3 DEF DispatchNext

OnCores == [Cores -> Threads \cup {Idle, Boot}]

(* Dispatcher::Dispatch of the next thread, by a core whose own thread is     *)
(* elsewhere by now.                                                          *)
LEMMA Dispatched ==
    ASSUME NEW c \in Cores, NEW q, NEW w, NEW b, NEW out,
           m_ActiveThread \in OnCores,
           Placed(q, w, b, m_ActiveThread, Cores \ {c}, out, dying), DispatchNext(c, q)
    PROVE  /\ Placed(m_ReadyQueue', w, b, m_ActiveThread', Cores, out, dying)
           /\ m_ActiveThread' \in OnCores
           /\ m_ActiveThread'[c] \in (Elems(q) \ dying) \cup {Idle}
           /\ \A d \in Cores \ {c} : m_ActiveThread'[d] = m_ActiveThread[d]
           /\ pc' = [pc EXCEPT ![c] = IF m_ActiveThread'[c] \in getting THEN "inside" ELSE "drain"]
<1>0. q \in Seq(Threads) /\ Distinct(q)
  BY DEF Placed
<1>1. PICK x \in (Elems(q) \ dying) \cup {Idle} :
              /\ Dispatch(c, x)
              /\ m_ReadyQueue' \in Seq(Threads) /\ Distinct(m_ReadyQueue')
              /\ Elems(m_ReadyQueue') \subseteq Elems(q) /\ x \notin Elems(m_ReadyQueue')
              /\ Elems(q) \subseteq Elems(m_ReadyQueue') \cup {x} \cup dying
  BY <1>0, NextIs
<1>2. Elems(q) \subseteq Threads
  BY <1>0, LenProperties DEF Elems
<1>3. /\ m_ActiveThread' = [m_ActiveThread EXCEPT ![c] = x]
      /\ pc' = [pc EXCEPT ![c] = IF x \in getting THEN "inside" ELSE "drain"]
  BY <1>1 DEF Dispatch
<1>4. m_ActiveThread'[c] = x /\ \A d \in Cores \ {c} : m_ActiveThread'[d] = m_ActiveThread[d]
  BY <1>3 DEF OnCores
<1>5. m_ActiveThread' \in OnCores
  BY <1>1, <1>2, <1>3 DEF OnCores
<1> DEFINE others == Running(m_ActiveThread, Cores \ {c})
           now == Running(m_ActiveThread', Cores)
<1>6. now = others \cup ({x} \cap Threads)
  BY <1>4 DEF Running
<1>7. x \notin others
  <2>1. x \in Threads => x \in Elems(q)
    BY <1>1, ThreadsAssumption
  <2> QED
    BY <2>1 DEF Placed, Apart, Running
<1>8. \A d, e \in Cores : m_ActiveThread'[d] \in Threads /\ m_ActiveThread'[d] = m_ActiveThread'[e] => d = e
  <2> SUFFICES ASSUME NEW d \in Cores, NEW e \in Cores,
                      m_ActiveThread'[d] \in Threads, m_ActiveThread'[d] = m_ActiveThread'[e], d # e
               PROVE  FALSE
    OBVIOUS
  <2>1. CASE d = c
    BY <2>1, <1>4, <1>7 DEF Running
  <2>2. CASE e = c
    BY <2>2, <1>4, <1>7, ZenonT(60) DEF Running
  <2>3. CASE d # c /\ e # c
    BY <2>3, <1>4 DEF Placed
  <2> QED
    BY <2>1, <2>2, <2>3
<1> HIDE DEF others, now
<1>9. Apart(Elems(m_ReadyQueue'), Elems(w), Elems(OwnersOf(b)), now, out, dying)
  <2>1. Apart(Elems(q), Elems(w), Elems(OwnersOf(b)), others, out, dying)
    BY DEF Placed, others
  <2>2. CASE x \in Threads
    <3>1. now = others \cup {x} /\ x \in Elems(q)
      BY <2>2, <1>1, <1>6, ThreadsAssumption
    <3> QED
      BY <2>1, <3>1, <1>1, <1>7 DEF Apart
  <2>3. CASE x \notin Threads
    <3>1. now = others
      BY <2>3, <1>6
    <3>2. x \notin Elems(q)
      BY <2>3, <1>2, ZenonT(60)
    <3> QED
      BY <2>1, <3>1, <3>2, <1>1, <2>3 DEF Apart
  <2> QED
    BY <2>2, <2>3, ZenonT(60)
<1>10. Placed(m_ReadyQueue', w, b, m_ActiveThread', Cores, out, dying)
  BY <1>1, <1>8, <1>9 DEF Placed, now
<1> QED
  BY <1>1, <1>3, <1>4, <1>5, <1>10, Zenon

(* A timer, wakeup or assassin epilogue, or Yield: the core's own thread is   *)
(* put back, unless it is idle or dying.                                      *)
LEMMA Requeued ==
    ASSUME NEW c \in Cores, NEW q, NEW w, NEW b, NEW out,
           Placed(q, w, b, m_ActiveThread, Cores, out, dying)
    PROVE  Placed(Requeue(c, q), w, b, m_ActiveThread, Cores \ {c}, out, dying)
<1>1. CASE m_ActiveThread[c] \in Threads \ dying
  BY <1>1, PutBack DEF Requeue
<1>2. CASE m_ActiveThread[c] \notin Threads \ dying
  BY <1>2, SetAside DEF Requeue
<1> QED
  BY <1>1, <1>2

-----------------------------------------------------------------------------
(* The inductive invariant.                                                   *)

PCs == {"boot", "check", "mask", "halt", "run", "enter", "inside", "drain"}

TypeOK ==
    /\ pc \in [Cores -> PCs]
    /\ back \in [Cores -> {"check", "run"}]
    /\ m_ActiveThread \in OnCores
    /\ dying \subseteq Threads /\ exited \subseteq Threads /\ getting \subseteq Threads
    /\ m_Counter \in Nat /\ Keys \in 0 .. KeyCapacity /\ raw \in 0 .. RawBound

Places == Placed(m_ReadyQueue, m_Waiting, m_Bells, m_ActiveThread, Cores, exited, dying)

\* Who runs where: in the middle of GetKey inside the level and nowhere else,
\* and no thread before the first dispatch.
Inside(p, active, g) ==
    \A c \in Cores : /\ active[c] \in g <=> p[c] = "inside"
                     /\ p[c] = "boot" => active[c] \notin Threads

\* Waiters wait for a key, and whoever does has not exited.
KeyInv == KeysAccounted /\ Waiters \subseteq getting /\ getting \cap exited = {}

IInv == TypeOK /\ Places /\ Inside(pc, m_ActiveThread, getting) /\ KeyInv

(* A step that moves no thread and no key.                                    *)
LEMMA QuietKeeps ==
    ASSUME IInv, UNCHANGED <<readyVars, lifeVars, keyVars, m_Bells>>,
           pc' \in [Cores -> PCs], back' \in [Cores -> {"check", "run"}], raw' \in 0 .. RawBound,
           \A c \in Cores : /\ pc'[c] = "inside" <=> pc[c] = "inside"
                            /\ pc'[c] = "boot" => pc[c] = "boot"
    PROVE  IInv'
<1>1. TypeOK'
  BY DEF IInv, TypeOK, readyVars, lifeVars, keyVars, OnCores
<1>2. Places'
  BY DEF IInv, Places, readyVars, lifeVars, keyVars
<1>3. Inside(pc, m_ActiveThread, getting)'
  BY DEF IInv, Inside, readyVars, keyVars
<1>4. KeyInv'
  BY DEF IInv, KeyInv, KeysAccounted, Waiters, keyVars, lifeVars
<1> QED
  BY <1>1, <1>2, <1>3, <1>4 DEF IInv

(* Who is inside after a dispatch.                                            *)
LEMMA DispatchedInside ==
    ASSUME NEW c \in Cores, NEW q \in Seq(Threads), TypeOK, Inside(pc, m_ActiveThread, getting),
           \A d \in Cores \ {c} : m_ActiveThread'[d] = m_ActiveThread[d],
           pc' = [pc EXCEPT ![c] = IF m_ActiveThread'[c] \in getting THEN "inside" ELSE "drain"]
    PROVE  /\ pc' \in [Cores -> PCs]
           /\ Inside(pc', m_ActiveThread', getting)
<1>1. pc' \in [Cores -> PCs]
  BY DEF TypeOK, PCs
<1>2. \A d \in Cores \ {c} : pc'[d] = pc[d]
  BY DEF TypeOK
<1>3. pc'[c] = IF m_ActiveThread'[c] \in getting THEN "inside" ELSE "drain"
  BY DEF TypeOK
<1>4. ASSUME NEW d \in Cores
      PROVE  /\ m_ActiveThread'[d] \in getting <=> pc'[d] = "inside"
             /\ pc'[d] = "boot" => m_ActiveThread'[d] \notin Threads
  <2>1. CASE d = c
    BY <2>1, <1>3
  <2>2. CASE d # c
    BY <2>2, <1>2 DEF Inside
  <2> QED
    BY <2>1, <2>2
<1> QED
  BY <1>1, <1>4 DEF Inside

(* A step that ends in a dispatch and moves no key.                           *)
LEMMA DispatchKeeps ==
    ASSUME NEW c \in Cores, NEW q, IInv,
           Placed(q, m_Waiting, m_Bells', m_ActiveThread, Cores \ {c}, exited', dying),
           DispatchNext(c, q), UNCHANGED <<back, dying, keyVars>>, raw' = raw,
           exited' \subseteq Threads, getting \cap exited' = {}
    PROVE  IInv'
<1>1. /\ Placed(m_ReadyQueue', m_Waiting, m_Bells', m_ActiveThread', Cores, exited', dying)
      /\ m_ActiveThread' \in OnCores
      /\ \A d \in Cores \ {c} : m_ActiveThread'[d] = m_ActiveThread[d]
      /\ pc' = [pc EXCEPT ![c] = IF m_ActiveThread'[c] \in getting THEN "inside" ELSE "drain"]
  BY Dispatched, Zenon DEF IInv, TypeOK
<1>2. Places'
  BY <1>1 DEF Places, keyVars
<1>3. pc' \in [Cores -> PCs] /\ Inside(pc', m_ActiveThread', getting)
  <2>1. q \in Seq(Threads) /\ TypeOK /\ Inside(pc, m_ActiveThread, getting)
    BY DEF IInv, Placed
  <2> QED
    BY <1>1, <2>1, DispatchedInside, Zenon
<1>4. Inside(pc, m_ActiveThread, getting)'
  BY <1>3 DEF Inside, keyVars
<1>5. TypeOK'
  BY <1>1, <1>3 DEF IInv, TypeOK, keyVars, OnCores
<1>6. KeyInv'
  BY DEF IInv, KeyInv, KeysAccounted, Waiters, keyVars
<1> QED
  BY <1>2, <1>4, <1>5, <1>6 DEF IInv

(* The idle loop's looks at the queue and the bells, entering and leaving the *)
(* level, and a section that touches nothing.                                 *)
LEMMA LoopKeeps ==
    ASSUME NEW c \in Cores, IInv,
           \/ IdleCheck(c) \/ IdleHalt(c) \/ EnterLevel(c) \/ LeaveLevel(c)
           \/ \E t \in Threads : Other(c, t)
    PROVE  IInv'
<1>1. UNCHANGED <<readyVars, lifeVars, keyVars, m_Bells>> /\ raw' = raw
  BY DEF IdleCheck, IdleHalt, EnterLevel, LeaveLevel, Other, timeVars, readyVars
<1>2. back' \in [Cores -> {"check", "run"}]
  <2>1. back \in [Cores -> {"check", "run"}]
    BY DEF IInv, TypeOK
  <2>2. back' = back \/ back' = [back EXCEPT ![c] = "check"]
    BY Zenon DEF IdleCheck, IdleHalt, EnterLevel, LeaveLevel, Other
  <2> QED
    BY <2>1, <2>2
<1>3. \E to \in {"run", "mask", "halt", "enter", "drain", "check"} : pc' = [pc EXCEPT ![c] = to]
  <2>1. back[c] \in {"check", "run"}
    BY DEF IInv, TypeOK
  <2> QED
    BY <2>1, Zenon DEF IdleCheck, IdleHalt, EnterLevel, LeaveLevel, Other
<1>4. pc \in [Cores -> PCs] /\ pc[c] # "inside"
  BY DEF IInv, TypeOK, IdleCheck, IdleHalt, EnterLevel, LeaveLevel, Other, InSection
<1>5. pc' \in [Cores -> PCs]
  BY <1>3, <1>4 DEF PCs
<1>6. \A d \in Cores : /\ pc'[d] = "inside" <=> pc[d] = "inside"
                       /\ pc'[d] = "boot" => pc[d] = "boot"
  BY <1>3, <1>4
<1>7. raw' \in 0 .. RawBound
  BY <1>1 DEF IInv, TypeOK
<1> QED
  BY <1>1, <1>2, <1>5, <1>6, <1>7, QuietKeeps, ZenonT(60)

(* An interrupt, taken or latched.                                            *)
LEMMA InterruptKeeps ==
    ASSUME NEW c \in Cores, IInv, NEW v,
           Prologue(c, v) \/ UNCHANGED <<pc, back, raw>>,
           UNCHANGED <<readyVars, lifeVars, keyVars, timeVars>>
    PROVE  IInv'
<1>0. /\ pc \in [Cores -> PCs] /\ back \in [Cores -> {"check", "run"}] /\ raw \in 0 .. RawBound
      /\ RawBound \in Nat
  BY BoundsAssumption DEF IInv, TypeOK
<1>1. UNCHANGED <<readyVars, lifeVars, keyVars, m_Bells>>
  BY DEF timeVars
<1>2. CASE UNCHANGED <<pc, back, raw>>
  BY <1>0, <1>1, <1>2, QuietKeeps
<1>3. CASE Prologue(c, v)
  <2>1. back' \in [Cores -> {"check", "run"}]
    BY <1>0, <1>3 DEF Prologue
  <2>2. raw' \in 0 .. RawBound
    BY <1>0, <1>3 DEF Prologue, DrainToQueue
  <2>3. pc' = [pc EXCEPT ![c] = IF pc[c] \in {"run", "halt"} THEN "drain" ELSE pc[c]]
    BY <1>3 DEF Prologue
  <2>4. pc' \in [Cores -> PCs]
    BY <1>0, <2>3 DEF PCs
  <2>5. \A d \in Cores : /\ pc'[d] = "inside" <=> pc[d] = "inside"
                         /\ pc'[d] = "boot" => pc[d] = "boot"
    BY <1>0, <2>3
  <2> QED
    BY <1>1, <2>1, <2>2, <2>4, <2>5, QuietKeeps
<1> QED
  BY <1>2, <1>3

(* MainAp's Schedule and the idle loop's Resume.                              *)
LEMMA ScheduleKeeps ==
    ASSUME NEW c \in Cores, IInv, MainAp(c) \/ IdleResume(c)
    PROVE  IInv'
<1>1. m_ActiveThread[c] \notin Threads
  BY ThreadsAssumption DEF IInv, Inside, MainAp, IdleResume, InSection
<1>2. Placed(m_ReadyQueue, m_Waiting, m_Bells, m_ActiveThread, Cores \ {c}, exited, dying)
  BY <1>1, SetAside DEF IInv, Places
<1>3. /\ DispatchNext(c, m_ReadyQueue) /\ m_Bells' = m_Bells /\ raw' = raw
      /\ UNCHANGED <<back, lifeVars, keyVars>>
  BY DEF MainAp, IdleResume, timeVars
<1>4. exited' = exited /\ dying' = dying
  BY <1>3 DEF lifeVars
<1>5. exited \subseteq Threads /\ getting \cap exited = {}
  BY DEF IInv, TypeOK, KeyInv
<1> QED
  BY <1>2, <1>3, <1>4, <1>5, DispatchKeeps

(* Yield, and the assassin's and the wakeup's epilogue.                       *)
LEMMA ResumeKeeps ==
    ASSUME NEW c \in Cores, IInv, (\E t \in Threads : Yield(c, t)) \/ Assassin(c) \/ Wakeup(c)
    PROVE  IInv'
<1> DEFINE q == Requeue(c, m_ReadyQueue)
<1>2. Placed(q, m_Waiting, m_Bells, m_ActiveThread, Cores \ {c}, exited, dying)
  BY Requeued DEF IInv, Places
<1>3. /\ DispatchNext(c, q) /\ m_Bells' = m_Bells /\ raw' = raw
      /\ UNCHANGED <<back, lifeVars, keyVars>>
  BY DEF Yield, Assassin, Wakeup, timeVars
<1>4. exited' = exited /\ dying' = dying
  BY <1>3 DEF lifeVars
<1>5. exited \subseteq Threads /\ getting \cap exited = {}
  BY DEF IInv, TypeOK, KeyInv
<1> HIDE DEF q
<1> QED
  BY <1>2, <1>3, <1>4, <1>5, DispatchKeeps

(* The timer's epilogue: bells ring first.                                    *)
LEMMA TimerKeeps ==
    ASSUME NEW c \in Cores, IInv, Timer(c)
    PROVE  IInv'
<1> DEFINE rung == IF c = 0 THEN Rung(m_Bells) ELSE << >>
           r == m_ReadyQueue \o rung
           q == Requeue(c, r)
<1>1. Placed(r, m_Waiting, m_Bells', m_ActiveThread, Cores, exited, dying)
  <2>1. CASE c = 0
    BY <2>1, RungAreReady DEF IInv, Places, Timer
  <2>2. CASE c # 0
    <3>1. r = m_ReadyQueue
      BY <2>2, ConcatEmptySeq DEF IInv, Places, Placed
    <3>2. m_Bells' = m_Bells
      BY <2>2 DEF Timer
    <3> QED
      BY <3>1, <3>2, Zenon DEF IInv, Places
  <2> QED
    BY <2>1, <2>2
<1>2. DispatchNext(c, q) /\ raw' = raw /\ UNCHANGED <<back, lifeVars, keyVars>>
  BY DEF Timer
<1> HIDE DEF r
<1>3. Placed(q, m_Waiting, m_Bells', m_ActiveThread, Cores \ {c}, exited, dying)
  BY <1>1, Requeued
<1>4. exited' = exited /\ dying' = dying
  BY <1>2 DEF lifeVars
<1>5. exited \subseteq Threads /\ getting \cap exited = {}
  BY DEF IInv, TypeOK, KeyInv
<1> HIDE DEF q
<1> QED
  BY <1>2, <1>3, <1>4, <1>5, DispatchKeeps

(* Exit and Sleep.                                                            *)
LEMMA GoAwayKeeps ==
    ASSUME NEW c \in Cores, NEW t \in Threads, IInv,
           Exit(c, t) \/ \E ms \in Milliseconds : Sleep(c, t, ms)
    PROVE  IInv'
<1>1. m_ActiveThread[c] = t /\ pc[c] = "enter"
  BY DEF Exit, Sleep, InSection
<1>2. t \notin getting
  BY <1>1 DEF IInv, Inside
<1>3. exited \subseteq Threads /\ getting \cap exited = {}
  BY DEF IInv, TypeOK, KeyInv
<1>4. CASE Exit(c, t)
  <2>1. /\ DispatchNext(c, m_ReadyQueue) /\ m_Bells' = m_Bells /\ raw' = raw
        /\ UNCHANGED <<back, dying, keyVars>> /\ exited' = exited \cup {t}
    BY <1>4 DEF Exit, timeVars
  <2>2. Placed(m_ReadyQueue, m_Waiting, m_Bells', m_ActiveThread, Cores \ {c}, exited', dying)
    BY <1>1, <2>1, TakenOut, Zenon DEF IInv, Places
  <2>3. exited' \subseteq Threads /\ getting \cap exited' = {}
    BY <1>2, <1>3, <2>1
  <2> QED
    BY <2>1, <2>2, <2>3, DispatchKeeps
<1>5. ASSUME NEW ms \in Milliseconds, Sleep(c, t, ms) PROVE IInv'
  <2>1. /\ DispatchNext(c, m_ReadyQueue) /\ raw' = raw
        /\ UNCHANGED <<back, dying, keyVars>> /\ exited' = exited
        /\ m_Bells' = Insert(m_Bells, t, TicksFor(ms))
    BY <1>5 DEF Sleep, lifeVars
  <2>2. TicksFor(ms) \in Nat
    BY SleepAssumption DEF TicksFor, SCHEDULER_TICK_MS
  <2>3. Placed(m_ReadyQueue, m_Waiting, m_Bells', m_ActiveThread, Cores \ {c}, exited', dying)
    BY <1>1, <2>1, <2>2, PutToSleep, Zenon DEF IInv, Places
  <2> QED
    BY <1>3, <2>1, <2>3, DispatchKeeps
<1> QED
  BY <1>4, <1>5

(* Kill.                                                                      *)
LEMMA KillKeeps ==
    ASSUME NEW c \in Cores, NEW t \in Killable, IInv, Kill(c, t)
    PROVE  IInv'
<1>1. /\ dying' = dying \cup {t} /\ m_ReadyQueue' = Remove(m_ReadyQueue, t)
      /\ pc[c] = "enter" /\ pc' = [pc EXCEPT ![c] = "drain"] /\ raw' = raw
      /\ UNCHANGED <<back, m_ActiveThread, exited, keyVars, m_Bells>>
  BY DEF Kill, InSection, timeVars
<1>2. Places'
  BY <1>1, KilledIsOff DEF IInv, Places, keyVars
<1>3. t \in Threads
  BY ThreadsAssumption
<1>4. TypeOK'
  BY <1>1, <1>3 DEF IInv, TypeOK, keyVars, OnCores, PCs
<1>5. \A d \in Cores : pc'[d] = IF d = c THEN "drain" ELSE pc[d]
  BY <1>1 DEF IInv, TypeOK
<1>6. Inside(pc, m_ActiveThread, getting)'
  BY <1>1, <1>5 DEF IInv, Inside, keyVars
<1>7. KeyInv'
  BY <1>1 DEF IInv, KeyInv, KeysAccounted, Waiters, keyVars
<1> QED
  BY <1>2, <1>4, <1>6, <1>7 DEF IInv

-----------------------------------------------------------------------------
(* Keys and those who wait for them.                                          *)

(* A queue without repetitions has as many members as places.                 *)
LEMMA Counting ==
    ASSUME NEW S, NEW q \in Seq(S), Distinct(q)
    PROVE  IsFiniteSet(Elems(q)) /\ Cardinality(Elems(q)) = Len(q)
<1> DEFINE n == Len(q)
<1>1. n \in Nat /\ DOMAIN q = 1 .. n /\ q \in [1 .. n -> S] /\ q = [i \in 1 .. n |-> q[i]]
  BY LenProperties
<1>2. IsFiniteSet(1 .. n) /\ Cardinality(1 .. n) = n
  <2>1. 1 \in Int /\ n \in Int /\ (1 > n => n = 0) /\ n - 1 + 1 = n
    BY <1>1
  <2> QED
    BY <2>1, FS_Interval, Zenon
<1>3. q \in [1 .. n -> Elems(q)]
  BY <1>1 DEF Elems
<1>4. q \in Surjection(1 .. n, Elems(q))
  BY <1>1, <1>3 DEF Surjection, Elems
<1>5. q \in Injection(1 .. n, Elems(q))
  BY <1>1, <1>3 DEF Injection, IsInjective, Distinct
<1> HIDE DEF n
<1>6. IsFiniteSet(Elems(q)) /\ Cardinality(Elems(q)) = n
  BY <1>2, <1>4, <1>5, FS_Surjection
<1> QED
  BY <1>6 DEF n

(* What the invariant says of the waiters.                                    *)
LEMMA KeyFacts ==
    ASSUME IInv
    PROVE  /\ Waiters = Elems(m_Waiting) /\ m_Waiting \in Seq(Threads) /\ Distinct(m_Waiting)
           /\ IsFiniteSet(getting \ Waiters) /\ Cardinality(getting \ Waiters) \in Nat
           /\ Keys = m_Counter + Cardinality(getting \ Waiters)
           /\ m_Waiting # << >> => m_Counter = 0
           /\ Waiters \subseteq getting /\ getting \cap exited = {}
           /\ m_Counter \in Nat /\ Keys \in Nat /\ Keys <= KeyCapacity /\ KeyCapacity \in Nat
           /\ raw \in Nat
<1>1. Waiters = Elems(m_Waiting) /\ m_Waiting \in Seq(Threads) /\ Distinct(m_Waiting)
  BY Zenon DEF IInv, Places, Placed, Waiters, Elems
<1>2. getting \ Waiters \in SUBSET Threads
  BY DEF IInv, TypeOK
<1>3. IsFiniteSet(getting \ Waiters)
  BY <1>2, ThreadsAssumption, FS_Subset
<1>4. Cardinality(getting \ Waiters) \in Nat
  BY <1>3, FS_CardinalityType
<1>5. m_Counter \in Nat /\ Keys \in Nat /\ Keys <= KeyCapacity /\ KeyCapacity \in Nat /\ raw \in Nat
  BY BoundsAssumption DEF IInv, TypeOK
<1> QED
  BY <1>1, <1>3, <1>4, <1>5 DEF IInv, KeyInv, KeysAccounted

(* GetKey finds the counter positive.                                         *)
LEMMA GetKeyPasses ==
    ASSUME NEW c \in Cores, NEW t \in Threads, IInv, InSection(c, t),
           getting' = getting \cup {t}, m_Counter > 0, m_Counter' = m_Counter - 1,
           pc' = [pc EXCEPT ![c] = "inside"],
           UNCHANGED <<m_Waiting, m_ReadyQueue, m_ActiveThread, m_Bells, back, lifeVars, Keys, raw>>
    PROVE  IInv'
<1>1. m_ActiveThread[c] = t /\ pc[c] = "enter"
  BY DEF InSection
<1>2. t \notin getting
  BY <1>1 DEF IInv, Inside
<1>3. t \notin Elems(m_Waiting) /\ t \notin exited
  BY <1>1, OnlyHere, Zenon DEF IInv, Places
<1>4. \A d \in Cores : m_ActiveThread[d] = t => d = c
  BY <1>1, Zenon DEF IInv, Places, Placed
<1>5. Places'
  BY DEF IInv, Places, lifeVars
<1>6. TypeOK'
  <2>1. m_Counter' \in Nat
    BY KeyFacts
  <2> QED
    BY <2>1 DEF IInv, TypeOK, lifeVars, PCs, OnCores
<1>7. Inside(pc, m_ActiveThread, getting)'
  <2>1. \A d \in Cores : pc'[d] = IF d = c THEN "inside" ELSE pc[d]
    BY DEF IInv, TypeOK
  <2> QED
    BY <1>1, <1>4, <2>1 DEF IInv, Inside
<1>8. KeyInv'
  <2> DEFINE g == getting \ Waiters
  <2>1. Waiters' = Waiters
    BY DEF Waiters
  <2>2. t \notin Waiters
    BY <1>3, KeyFacts
  <2>3. (getting \ Waiters)' = g \cup {t} /\ t \notin g
    BY <1>2, <2>1, <2>2
  <2>4. IsFiniteSet(g) /\ Cardinality(g) \in Nat /\ Keys = m_Counter + Cardinality(g) /\ m_Counter \in Nat
    BY KeyFacts
  <2> HIDE DEF g
  <2>5. Cardinality(g \cup {t}) = Cardinality(g) + 1
    BY <2>3, <2>4, FS_AddElement, Zenon
  <2>6. Keys' = m_Counter' + Cardinality((getting \ Waiters)')
    <3>1. Cardinality((getting \ Waiters)') = Cardinality(g) + 1
      BY <2>3, <2>5, Zenon
    <3>2. Keys = (m_Counter - 1) + (Cardinality(g) + 1)
      BY <2>4
    <3> QED
      BY <3>1, <3>2, Zenon
  <2>7. m_Waiting' = << >>
    BY KeyFacts
  <2>8. Waiters' \subseteq getting' /\ getting' \cap exited' = {}
    BY <2>1, <1>3, KeyFacts DEF lifeVars
  <2> QED
    BY <2>6, <2>7, <2>8 DEF KeyInv, KeysAccounted
<1> QED
  BY <1>5, <1>6, <1>7, <1>8 DEF IInv

(* GetKey finds it zero, and waits.                                           *)
LEMMA GetKeyWaits ==
    ASSUME NEW c \in Cores, NEW t \in Threads, IInv, InSection(c, t),
           getting' = getting \cup {t}, m_Counter = 0,
           m_Waiting' = Append(m_Waiting, t), DispatchNext(c, m_ReadyQueue),
           UNCHANGED <<m_Counter, m_Bells, back, lifeVars, Keys, raw>>
    PROVE  IInv'
<1>1. m_ActiveThread[c] = t /\ pc[c] = "enter"
  BY DEF InSection
<1>2. t \notin exited
  BY <1>1, OnlyHere, Zenon DEF IInv, Places
<1>3. Placed(m_ReadyQueue, m_Waiting', m_Bells, m_ActiveThread, Cores \ {c}, exited, dying)
  BY <1>1, Parked, Zenon DEF IInv, Places
<1>4. /\ Placed(m_ReadyQueue', m_Waiting', m_Bells, m_ActiveThread', Cores, exited, dying)
      /\ m_ActiveThread' \in OnCores
      /\ \A d \in Cores \ {c} : m_ActiveThread'[d] = m_ActiveThread[d]
      /\ pc' = [pc EXCEPT ![c] = IF m_ActiveThread'[c] \in getting THEN "inside" ELSE "drain"]
  BY <1>3, Dispatched, Zenon DEF IInv, TypeOK
<1>5. Places'
  BY <1>4, Zenon DEF Places, lifeVars
<1>6. pc' \in [Cores -> PCs] /\ Inside(pc', m_ActiveThread', getting)
  <2>1. m_ReadyQueue \in Seq(Threads) /\ TypeOK /\ Inside(pc, m_ActiveThread, getting)
    BY DEF IInv, Places, Placed
  <2> QED
    BY <1>4, <2>1, DispatchedInside, ZenonT(60)
<1>7. m_Waiting \in Seq(Threads) /\ Waiters' = Waiters \cup {t} /\ t \in Elems(m_Waiting')
  <2>1. m_Waiting \in Seq(Threads) /\ Distinct(m_Waiting) /\ Waiters = Elems(m_Waiting)
    BY KeyFacts
  <2>2. Elems(Append(m_Waiting, t)) = Elems(m_Waiting) \cup {t}
    BY <2>1, Appended
  <2>3. Waiters' = Elems(m_Waiting')
    BY Zenon DEF Waiters, Elems
  <2> QED
    BY <2>1, <2>2, <2>3
<1>8. Inside(pc, m_ActiveThread, getting)'
  <2>1. ASSUME NEW d \in Cores, m_ActiveThread'[d] = t PROVE FALSE
    <3>1. t \in Running(m_ActiveThread', Cores)
      BY <2>1 DEF Running
    <3>2. Elems(m_Waiting') \cap Running(m_ActiveThread', Cores) = {}
      BY <1>4, ZenonT(60) DEF Placed, Apart
    <3> QED
      BY <1>7, <3>1, <3>2
  <2> QED
    BY <1>6, <2>1 DEF Inside
<1>9. TypeOK'
  BY <1>4, <1>6, Zenon DEF IInv, TypeOK, lifeVars, OnCores
<1>10. KeyInv'
  <2>1. t \notin getting
    BY <1>1 DEF IInv, Inside
  <2>2. (getting \ Waiters)' = getting \ Waiters
    BY <1>7, <2>1
  <2>3. Keys' = m_Counter' + Cardinality((getting \ Waiters)')
    BY <2>2, KeyFacts, Zenon
  <2>4. Waiters' \subseteq getting' /\ getting' \cap exited' = {}
    BY <1>2, <1>7, KeyFacts DEF lifeVars
  <2> QED
    BY <2>3, <2>4 DEF KeyInv, KeysAccounted
<1> QED
  BY <1>5, <1>8, <1>9, <1>10, ZenonT(60) DEF IInv

(* The GetKey system call.                                                    *)
LEMMA GetKeyKeeps ==
    ASSUME NEW c \in Cores, NEW t \in Threads, IInv, GetKey(c, t)
    PROVE  IInv'
<1>1. /\ InSection(c, t) /\ getting' = getting \cup {t} /\ P(c)
      /\ UNCHANGED <<m_Bells, back, lifeVars, Keys, raw>>
  BY DEF GetKey, timeVars
<1>2. m_ActiveThread[c] = t
  BY <1>1 DEF InSection
<1>3. CASE /\ m_Counter > 0 /\ m_Counter' = m_Counter - 1 /\ pc' = [pc EXCEPT ![c] = "inside"]
           /\ UNCHANGED <<m_Waiting, m_ReadyQueue, m_ActiveThread>>
  BY <1>1, <1>3, GetKeyPasses, Zenon
<1>4. CASE /\ m_Counter = 0 /\ m_Waiting' = Append(m_Waiting, m_ActiveThread[c])
           /\ DispatchNext(c, m_ReadyQueue) /\ UNCHANGED m_Counter
  BY <1>1, <1>2, <1>4, GetKeyWaits
<1> QED
  BY <1>1, <1>3, <1>4 DEF P

(* The rest of GetKey: there is a key.                                        *)
LEMMA GetKeyConsumeKeeps ==
    ASSUME NEW c \in Cores, IInv, GetKeyConsume(c)
    PROVE  IInv'
<1> DEFINE t == m_ActiveThread[c]
           g == getting \ Waiters
<1>1. pc[c] = "inside" /\ t \in getting
  BY DEF GetKeyConsume
<1>2. t \in Threads
  BY <1>1 DEF IInv, TypeOK
<1>3. t \notin Elems(m_Waiting)
  BY <1>2, OnlyHere, Zenon DEF IInv, Places
<1>4. /\ IsFiniteSet(g) /\ Cardinality(g) \in Nat /\ Keys = m_Counter + Cardinality(g)
      /\ m_Counter \in Nat /\ Keys \in Nat /\ Waiters = Elems(m_Waiting)
  BY KeyFacts
<1>5. t \in g
  BY <1>1, <1>3, <1>4
<1> HIDE DEF g, t
<1>6. Cardinality(g) # 0
  BY <1>4, <1>5, FS_EmptySet
<1>7. Keys > 0
  BY <1>4, <1>6
<1>8. /\ Keys' = Keys - 1 /\ getting' = getting \ {t} /\ pc' = [pc EXCEPT ![c] = "drain"]
      /\ UNCHANGED <<m_Waiting, m_Counter, m_ReadyQueue, m_ActiveThread, back, lifeVars, raw, m_Bells>>
  BY <1>4, <1>7 DEF GetKeyConsume, t, timeVars
<1>9. Places'
  BY <1>8 DEF IInv, Places, lifeVars
<1>10. TypeOK'
  <2>1. Keys' \in 0 .. KeyCapacity
    BY <1>7, <1>8, KeyFacts
  <2> QED
    BY <1>8, <2>1 DEF IInv, TypeOK, lifeVars, PCs, OnCores
<1>11. Inside(pc, m_ActiveThread, getting)'
  <2>1. \A d \in Cores : pc'[d] = IF d = c THEN "drain" ELSE pc[d]
    BY <1>8 DEF IInv, TypeOK
  <2>2. \A d \in Cores : m_ActiveThread[d] = t => d = c
    BY <1>2, Zenon DEF IInv, Places, Placed, t
  <2> QED
    BY <1>8, <2>1, <2>2 DEF IInv, Inside, t
<1>12. KeyInv'
  <2>1. Waiters' = Waiters
    BY <1>8 DEF Waiters
  <2>2. (getting \ Waiters)' = g \ {t}
    BY <1>8, <2>1 DEF g
  <2>3. Cardinality(g \ {t}) = Cardinality(g) - 1
    BY <1>4, <1>5, FS_RemoveElement, Zenon
  <2>4. Cardinality((getting \ Waiters)') = Cardinality(g) - 1
    BY <2>2, <2>3, Zenon
  <2>5. Keys - 1 = m_Counter + (Cardinality(g) - 1)
    BY <1>4
  <2>6. Keys' = m_Counter' + Cardinality((getting \ Waiters)')
    BY <1>8, <2>4, <2>5, Zenon
  <2>7. Waiters' \subseteq getting' /\ getting' \cap exited' = {}
    BY <1>3, <1>4, <1>8, <2>1, KeyFacts DEF lifeVars
  <2>8. m_Waiting' # << >> => m_Counter' = 0
    BY <1>8, KeyFacts
  <2> QED
    BY <2>6, <2>7, <2>8 DEF KeyInv, KeysAccounted
<1> QED
  BY <1>9, <1>10, <1>11, <1>12 DEF IInv

(* The keyboard's epilogue: a key for every waiter it frees, and the rest is  *)
(* counted.                                                                   *)
LEMMA KeyboardKeeps ==
    ASSUME NEW c \in Cores, IInv, Keyboard(c)
    PROVE  IInv'
<1> DEFINE n == Smaller(raw, Room)
           k == Freed(n)
           l == Len(m_Waiting)
           front == SubSeq(m_Waiting, 1, k)
           rest == SubSeq(m_Waiting, k + 1, l)
           g == getting \ Waiters
<1>1. /\ m_Waiting \in Seq(Threads) /\ Distinct(m_Waiting) /\ Waiters = Elems(m_Waiting)
      /\ IsFiniteSet(g) /\ Cardinality(g) \in Nat /\ Keys = m_Counter + Cardinality(g)
      /\ m_Counter \in Nat /\ Keys \in Nat /\ Keys <= KeyCapacity /\ KeyCapacity \in Nat /\ raw \in Nat
      /\ Waiters \subseteq getting /\ getting \cap exited = {}
      /\ m_Waiting # << >> => m_Counter = 0
  BY KeyFacts
<1>2. l \in Nat
  BY <1>1, LenProperties
<1>3. n \in Nat /\ Keys + n <= KeyCapacity
  <2>1. Keys \in Nat /\ Keys <= KeyCapacity /\ KeyCapacity \in Nat /\ raw \in Nat
    BY <1>1
  <2> QED
    BY <2>1 DEF Smaller, Room
<1>4. /\ raw' = 0 /\ Keys' = Keys + n /\ m_Waiting' = rest /\ m_Counter' = m_Counter + Counted(n)
      /\ m_ReadyQueue' = m_ReadyQueue \o front
      /\ UNCHANGED <<pc, back, m_ActiveThread, lifeVars, getting, m_Bells>>
  BY DEF Keyboard, timeVars
<1> HIDE DEF n
<1>5. k \in 0 .. l /\ k <= n /\ (k < l => k = n) /\ Counted(n) = n - k
  BY <1>2, <1>3 DEF Freed, Counted, Smaller
<1> HIDE DEF k, g
<1>6. /\ Elems(m_Waiting) = Elems(front) \cup Elems(rest) /\ Elems(front) \cap Elems(rest) = {}
      /\ front \in Seq(Threads) /\ Distinct(front) /\ Len(front) = k /\ rest \in Seq(Threads)
      /\ Len(rest) = l - k
  BY <1>1, <1>5, Cut
<1>7. Places'
  <2>1. Placed(m_ReadyQueue \o front, rest, m_Bells, m_ActiveThread, Cores, exited, dying)
    BY <1>5, FreedAreReady DEF IInv, Places
  <2> QED
    BY <1>4, <2>1 DEF Places, lifeVars
<1> HIDE DEF front, rest, l
<1>8. TypeOK'
  <2>1. m_Counter' \in Nat
    BY <1>1, <1>2, <1>3, <1>4, <1>5
  <2>2. Keys' \in 0 .. KeyCapacity /\ raw' \in 0 .. RawBound
    <3>1. Keys + n \in 0 .. KeyCapacity
      BY <1>1, <1>3, BoundsAssumption
    <3>2. 0 \in 0 .. RawBound
      BY BoundsAssumption
    <3> QED
      BY <1>4, <3>1, <3>2, Zenon
  <2> QED
    BY <1>4, <2>1, <2>2 DEF IInv, TypeOK, lifeVars, OnCores
<1>9. Inside(pc, m_ActiveThread, getting)'
  BY <1>4 DEF IInv, Inside
<1>10. KeyInv'
  <2>1. Waiters' = Elems(rest)
    BY <1>4 DEF Waiters, Elems
  <2>2. (getting \ Waiters)' = g \cup Elems(front) /\ g \cap Elems(front) = {}
    BY <1>1, <1>4, <1>6, <2>1 DEF g
  <2>3. IsFiniteSet(Elems(front)) /\ Cardinality(Elems(front)) = k
    BY <1>6, Counting
  <2>4. Cardinality(g \cup Elems(front)) = Cardinality(g) + k
    <3>1. Cardinality(g \cup Elems(front)) = Cardinality(g) + k - Cardinality({})
      BY <1>1, <2>2, <2>3, FS_Union
    <3> QED
      BY <3>1, <1>1, <1>2, <1>5, FS_EmptySet
  <2>5. Cardinality((getting \ Waiters)') = Cardinality(g) + k
    BY <2>2, <2>4, Zenon
  <2>6. Keys + n = (m_Counter + (n - k)) + (Cardinality(g) + k)
    BY <1>1, <1>2, <1>3, <1>5
  <2>7. Keys' = m_Counter' + Cardinality((getting \ Waiters)')
    BY <1>4, <1>5, <2>5, <2>6, Zenon
  <2>8. m_Waiting' # << >> => m_Counter' = 0
    <3> SUFFICES ASSUME m_Waiting' # << >> PROVE m_Counter' = 0
      OBVIOUS
    <3>1. Len(rest) # 0
      BY <1>4, <1>6, EmptySeq
    <3>2. k < l /\ l # 0
      BY <1>2, <1>5, <1>6, <3>1
    <3>3. m_Waiting # << >>
      BY <3>2, <1>1, EmptySeq DEF l
    <3> QED
      BY <1>1, <1>3, <1>4, <1>5, <3>2, <3>3
  <2>9. Waiters' \subseteq getting' /\ getting' \cap exited' = {}
    BY <1>1, <1>4, <1>6, <2>1 DEF lifeVars
  <2> QED
    BY <2>7, <2>8, <2>9 DEF KeyInv, KeysAccounted
<1> QED
  BY <1>7, <1>8, <1>9, <1>10 DEF IInv

-----------------------------------------------------------------------------
(* Main's queue holds every thread, and so each once.                         *)
LEMMA Initially == Init => IInv
<1> SUFFICES ASSUME Init PROVE IInv
  OBVIOUS
<1> DEFINE n == Cardinality(Threads)
           q == m_ReadyQueue
<1>1. n \in Nat
  BY ThreadsAssumption, FS_CardinalityType
<1>2. q \in [1 .. n -> Threads] /\ \A t \in Threads : \E i \in 1 .. n : q[i] = t
  BY DEF Init
<1>3. q \in Seq(Threads) /\ DOMAIN q = 1 .. n /\ Elems(q) = Threads
  <2>1. q \in Seq(Threads)
    BY <1>1, <1>2, SeqDef
  <2> QED
    BY <1>2, <2>1 DEF Elems
<1>4. Distinct(q)
  <2>1. IsFiniteSet(1 .. n) /\ Cardinality(1 .. n) = n
    <3>1. 1 \in Int /\ n \in Int /\ (1 > n => n = 0) /\ n - 1 + 1 = n
      BY <1>1
    <3> QED
      BY <3>1, FS_Interval
  <2>2. q \in Surjection(1 .. n, Threads)
    BY <1>2 DEF Surjection
  <2>3. q \in Injection(1 .. n, Threads)
    BY <2>1, <2>2, FS_Surjection
  <2> QED
    BY <1>2, <2>3 DEF Injection, IsInjective, Distinct
<1>5. << >> \in Seq(Threads) /\ << >> \in Bells(Threads) /\ Distinct(<< >>) /\ Elems(<< >>) = {}
  BY EmptySeq DEF Bells, Distinct, Elems
<1>6. OwnersOf(<< >>) = << >>
  BY DEF OwnersOf
<1>7. \A c \in Cores : m_ActiveThread[c] = Boot /\ pc[c] = "boot"
  BY DEF Init
<1>8. Running(m_ActiveThread, Cores) = {}
  BY <1>7, ThreadsAssumption, ZenonT(60) DEF Running
<1> HIDE DEF q
<1>9. Placed(q, << >>, << >>, m_ActiveThread, Cores, {}, {})
  BY <1>3, <1>4, <1>5, <1>6, <1>7, <1>8, ThreadsAssumption DEF Placed, Apart
<1>10. Places
  BY <1>9 DEF Places, Init, q
<1>11. TypeOK
  BY BoundsAssumption DEF Init, TypeOK, OnCores, PCs
<1>12. Inside(pc, m_ActiveThread, getting)
  BY <1>7, ThreadsAssumption DEF Init, Inside
<1>13. KeyInv
  <2>1. getting \ Waiters = {}
    BY DEF Init
  <2>2. Cardinality(getting \ Waiters) = 0
    BY <2>1, FS_EmptySet
  <2>3. Waiters = {}
    BY DEF Init, Waiters
  <2> QED
    BY <2>2, <2>3 DEF Init, KeyInv, KeysAccounted
<1> QED
  BY <1>10, <1>11, <1>12, <1>13 DEF IInv

(* Every step keeps the invariant.                                            *)
LEMMA StepKeeps == IInv /\ [Next]_vars => IInv'
<1> SUFFICES ASSUME IInv, [Next]_vars PROVE IInv'
  OBVIOUS
<1>1. CASE UNCHANGED vars
  BY <1>1, QuietKeeps DEF vars, IInv, TypeOK, timeVars
<1>2. ASSUME NEW c \in Cores, Step(c) \/ ThreadEnters(c) PROVE IInv'
  BY <1>2, LoopKeeps, GetKeyConsumeKeeps DEF Step, ThreadEnters
<1>3. ASSUME NEW c \in Cores, LockedStep(c) PROVE IInv'
  <2>1. CASE MainAp(c)
    BY <2>1, ScheduleKeeps
  <2>2. CASE Section(c)
    BY <2>2, ScheduleKeeps, ResumeKeeps, GoAwayKeeps, LoopKeeps, GetKeyKeeps, KillKeeps DEF Section
  <2>3. CASE Epilogue(c)
    BY <2>3, TimerKeeps, KeyboardKeeps, ResumeKeeps DEF Epilogue
  <2> QED
    BY <1>3, <2>1, <2>2, <2>3 DEF LockedStep
<1>4. ASSUME NEW c \in Cores, NEW v, Raise(c, v) \/ Deliver(c, v) PROVE IInv'
  <2>1. /\ Prologue(c, v) \/ UNCHANGED <<pc, back, raw>>
        /\ UNCHANGED <<readyVars, lifeVars, keyVars, timeVars>>
    BY <1>4 DEF Raise, Deliver
  <2> QED
    BY <2>1, InterruptKeeps
<1> QED
  BY <1>1, <1>2, <1>3, <1>4 DEF Next, TimerFires, KeyPress, Arrive

-----------------------------------------------------------------------------
(* A set whose members are all equal has one or none.                         *)
LEMMA AtMostOne ==
    ASSUME NEW S, \A x, y \in S : x = y
    PROVE  Cardinality(S) = IF S = {} THEN 0 ELSE 1
<1>1. CASE S = {}
  BY <1>1, FS_EmptySet
<1>2. CASE S # {}
  <2>1. PICK x : S = {x}
    BY <1>2
  <2> QED
    BY <1>2, <2>1, FS_Singleton, Zenon
<1> QED
  BY <1>1, <1>2

(* How often a thread is in a queue in which nothing is twice.                *)
LEMMA CountIs ==
    ASSUME NEW q, NEW t, Distinct(q)
    PROVE  Count(q, t) = IF t \in Elems(q) THEN 1 ELSE 0
<1> DEFINE S == {i \in DOMAIN q : q[i] = t}
<1>1. \A i, j \in S : i = j
  BY DEF Distinct
<1>2. S = {} <=> t \notin Elems(q)
  BY DEF Elems
<1>3. Cardinality(S) = IF S = {} THEN 0 ELSE 1
  BY <1>1, AtMostOne
<1> QED
  BY <1>2, <1>3 DEF Count

(* The invariant says in how many places a thread is.                         *)
LEMMA PlacesAre ==
    ASSUME IInv, NEW t \in Threads
    PROVE  PlacesOf(t) = IF t \in Elems(m_ReadyQueue) \cup Elems(m_Waiting) \cup Elems(OwnersOf(m_Bells))
                                   \cup Running(m_ActiveThread, Cores)
                         THEN 1 ELSE 0
<1> DEFINE Q == Elems(m_ReadyQueue)
           W == Elems(m_Waiting)
           S == Elems(OwnersOf(m_Bells))
           R == Running(m_ActiveThread, Cores)
           asleep == {i \in DOMAIN m_Bells : m_Bells[i].Owner = t}
           on == {c \in Cores : m_ActiveThread[c] = t}
<1>0. /\ Distinct(m_ReadyQueue) /\ Distinct(m_Waiting) /\ Distinct(OwnersOf(m_Bells))
      /\ \A c, d \in Cores : m_ActiveThread[c] \in Threads /\ m_ActiveThread[c] = m_ActiveThread[d] => c = d
      /\ Q \cap W = {} /\ (Q \cup W) \cap S = {} /\ (Q \cup W \cup S) \cap R = {}
  BY Zenon DEF IInv, Places, Placed, Apart
<1>1. Count(m_ReadyQueue, t) = IF t \in Q THEN 1 ELSE 0
  BY <1>0, CountIs
<1>2. Count(m_Waiting, t) = IF t \in W THEN 1 ELSE 0
  BY <1>0, CountIs, ZenonT(60)
<1>3. Cardinality(asleep) = IF t \in S THEN 1 ELSE 0
  <2>1. asleep = {i \in DOMAIN OwnersOf(m_Bells) : OwnersOf(m_Bells)[i] = t}
    BY DEF OwnersOf
  <2> QED
    BY <1>0, <2>1, CountIs DEF Count
<1>4. Cardinality(on) = IF t \in R THEN 1 ELSE 0
  <2>1. \A c, d \in on : c = d
    BY <1>0
  <2>2. on = {} <=> t \notin R
    BY DEF Running
  <2> QED
    BY <2>1, <2>2, AtMostOne
<1>5. PlacesOf(t) = Count(m_ReadyQueue, t) + Count(m_Waiting, t) + Cardinality(asleep) + Cardinality(on)
  BY DEF PlacesOf
<1> HIDE DEF Q, W, S, R, asleep, on
<1>6. PlacesOf(t) = IF t \in Q \cup W \cup S \cup R THEN 1 ELSE 0
  <2>1. CASE t \in Q
    <3>1. t \notin W /\ t \notin S /\ t \notin R
      BY <1>0, <2>1
    <3> QED
      BY <2>1, <3>1, <1>1, <1>2, <1>3, <1>4, <1>5
  <2>2. CASE t \notin Q /\ t \in W
    <3>1. t \notin S /\ t \notin R
      BY <1>0, <2>2
    <3> QED
      BY <2>2, <3>1, <1>1, <1>2, <1>3, <1>4, <1>5
  <2>3. CASE t \notin Q /\ t \notin W
    <3>1. t \in S => t \notin R
      BY <1>0
    <3> QED
      BY <2>3, <3>1, <1>1, <1>2, <1>3, <1>4, <1>5
  <2> QED
    BY <2>1, <2>2, <2>3
<1> QED
  BY <1>6 DEF Q, W, S, R

(* A thread is ready, running, waiting for a key or asleep, in one of these   *)
(* only and on one core only, and is not lost before it has exited: for any   *)
(* number of cores and threads, through every dispatch, sleep, GetKey, Kill   *)
(* and Exit.                                                                  *)
THEOREM SchedulingOnePlace == Spec => []OnePlace
<1>1. IInv => OnePlace
  <2> SUFFICES ASSUME IInv, NEW t \in Threads
               PROVE  /\ PlacesOf(t) <= 1
                      /\ t \notin exited \cup dying => PlacesOf(t) = 1
                      /\ t \in exited => PlacesOf(t) = 0
    BY DEF OnePlace
  <2> DEFINE A == Elems(m_ReadyQueue) \cup Elems(m_Waiting) \cup Elems(OwnersOf(m_Bells))
                    \cup Running(m_ActiveThread, Cores)
  <2>1. PlacesOf(t) = IF t \in A THEN 1 ELSE 0
    BY PlacesAre
  <2>2. Threads \ (exited \cup dying) \subseteq A /\ exited \cap A = {}
    BY Zenon DEF IInv, Places, Placed, Apart
  <2> HIDE DEF A
  <2> QED
    BY <2>1, <2>2
<1> QED
  BY <1>1, Initially, StepKeeps, PTL DEF Spec

(* The semaphore and the key buffer agree: every buffered key is counted, or  *)
(* owed to one thread that is past P in GetKey; and nobody waits while a key  *)
(* is counted.                                                                *)
THEOREM SchedulingKeysAccounted == Spec => []KeysAccounted
<1>1. IInv => KeysAccounted
  BY DEF IInv, KeyInv
<1> QED
  BY <1>1, Initially, StepKeeps, PTL DEF Spec

(* GetNext returns nobody who is dying.                                       *)
LEMMA NotDispatched ==
    ASSUME IInv, NEW c \in Cores, NEW q, DispatchNext(c, q), NEW d \in Cores, NEW t \in dying,
           m_ActiveThread'[d] = t
    PROVE  m_ActiveThread[d] = t
<1>1. PICK x : Dispatch(c, x) /\ x \notin dying
  <2>1. Idle \notin dying
    BY ThreadsAssumption DEF IInv, TypeOK
  <2> QED
    BY <2>1 DEF DispatchNext, FallBack, FirstAlive
<1>2. m_ActiveThread' = [m_ActiveThread EXCEPT ![c] = x]
  BY <1>1 DEF Dispatch
<1> QED
  BY <1>1, <1>2 DEF IInv, TypeOK, OnCores

(* A killed thread gets no core again: not from the ready queue, and not when *)
(* a bell or a key has made it ready since.                                   *)
THEOREM SchedulingKilledNotDispatched == Spec => KilledNotDispatched
<1> DEFINE Kept == \A c \in Cores, t \in dying : m_ActiveThread'[c] = t => m_ActiveThread[c] = t
<1>1. ASSUME IInv, Next PROVE Kept
  <2>1. \/ m_ActiveThread' = m_ActiveThread
        \/ \E c \in Cores : \E q : DispatchNext(c, q)
    <3>1. ASSUME NEW c \in Cores, Step(c) \/ ThreadEnters(c)
          PROVE  m_ActiveThread' = m_ActiveThread \/ \E q : DispatchNext(c, q)
      BY <3>1, Zenon DEF Step, ThreadEnters, IdleCheck, IdleHalt, EnterLevel, LeaveLevel, GetKeyConsume, P, readyVars
    <3>2. ASSUME NEW c \in Cores, MainAp(c) \/ Epilogue(c)
          PROVE  m_ActiveThread' = m_ActiveThread \/ \E q : DispatchNext(c, q)
      BY <3>2 DEF MainAp, Epilogue, Timer, Keyboard, Assassin, Wakeup
    <3>3. ASSUME NEW c \in Cores, Section(c)
          PROVE  m_ActiveThread' = m_ActiveThread \/ \E q : DispatchNext(c, q)
      BY <3>3, Zenon DEF Section, IdleResume, Yield, Exit, Sleep, Other, GetKey, P, Kill, readyVars
    <3>4. ASSUME NEW c \in Cores, NEW v, Raise(c, v) \/ Deliver(c, v)
          PROVE  m_ActiveThread' = m_ActiveThread
      BY <3>4 DEF Raise, Deliver, readyVars
    <3> QED
      BY <1>1, <3>1, <3>2, <3>3, <3>4, Zenon DEF Next, LockedStep, TimerFires, KeyPress, Arrive
  <2> QED
    BY <1>1, <2>1, NotDispatched
<1>2. ASSUME IInv, [Next]_vars PROVE [Kept]_vars
  BY <1>1, <1>2
<1> QED
  BY <1>2, Initially, StepKeeps, PTL DEF Spec, KilledNotDispatched

-----------------------------------------------------------------------------
(* Somebody stays up for a thread that is ready.                              *)

Resting == {"mask", "halt"}

AtRest(c) == pc[c] \in Resting /\ sent[c] = {} /\ pending[c] = {}

\* A core that has found the queue empty rests, but for what was sent to it;
\* one that makes a thread ready does not.
Up == IsEmpty \/ \E c \in Cores : ~AtRest(c)

UpInv == Up /\ pending \in [Cores -> SUBSET Vectors]

(* A dispatch leaves its core on its way out of the level, or in GetKey.      *)
LEMMA DispatchIsUp ==
    ASSUME NEW d \in Cores, NEW q, IInv, DispatchNext(d, q)
    PROVE  pc'[d] \notin Resting
<1>1. PICK x : Dispatch(d, x)
  BY DEF DispatchNext
<1>2. pc' = [pc EXCEPT ![d] = IF x \in getting THEN "inside" ELSE "drain"]
  BY <1>1 DEF Dispatch
<1> QED
  BY <1>2 DEF IInv, TypeOK, Resting

(* Sections and epilogues: the core that makes others ready is up itself.     *)
LEMMA LockedIsUp ==
    ASSUME NEW d \in Cores, IInv, LockedStep(d)
    PROVE  pc'[d] \notin Resting /\ pending' = pending
<1>0. pc \in [Cores -> PCs]
  BY DEF IInv, TypeOK
<1>1. ASSUME pc' = [pc EXCEPT ![d] = "drain"] \/ pc' = [pc EXCEPT ![d] = "inside"]
      PROVE  pc'[d] \notin Resting
  BY <1>0, <1>1 DEF Resting
<1>2. CASE MainAp(d) \/ IdleResume(d)
  BY <1>2, DispatchIsUp, Zenon DEF MainAp, IdleResume, apicVars
<1>3. ASSUME NEW t \in Threads,
             Yield(d, t) \/ Exit(d, t) \/ Other(d, t) \/ \E ms \in Milliseconds : Sleep(d, t, ms)
      PROVE  pc'[d] \notin Resting /\ pending' = pending
  BY <1>1, <1>3, DispatchIsUp, Zenon DEF Yield, Exit, Other, Sleep, apicVars
<1>4. ASSUME NEW t \in Threads, GetKey(d, t) PROVE pc'[d] \notin Resting /\ pending' = pending
  BY <1>1, <1>4, DispatchIsUp, Zenon DEF GetKey, P, apicVars
<1>5. ASSUME NEW t \in Killable, Kill(d, t) PROVE pc'[d] \notin Resting /\ pending' = pending
  BY <1>1, <1>5, Zenon DEF Kill
<1>6. CASE Timer(d) \/ Assassin(d) \/ Wakeup(d)
  BY <1>6, DispatchIsUp, Zenon DEF Timer, Assassin, Wakeup, apicVars
<1>7. CASE Keyboard(d)
  <2>1. pc' = pc /\ pc[d] = "drain" /\ pending' = pending
    BY <1>7, Zenon DEF Keyboard, Draining
  <2> QED
    BY <2>1 DEF Resting
<1> QED
  BY <1>2, <1>3, <1>4, <1>5, <1>6, <1>7, Zenon DEF LockedStep, Section, Epilogue

(* The idle loop rests only after a look at the queue that finds it empty.    *)
LEMMA LoopIsUp ==
    ASSUME NEW d \in Cores, IInv, UpInv, Step(d) \/ ThreadEnters(d)
    PROVE  UpInv'
<1>0. pc \in [Cores -> PCs] /\ back \in [Cores -> {"check", "run"}]
  BY DEF IInv, TypeOK
<1>1. ASSUME pc'[d] \notin Resting, pending' = pending PROVE UpInv'
  BY <1>1, Zenon DEF UpInv, Up, AtRest
<1>2. ASSUME NEW to \in PCs \ Resting, pc' = [pc EXCEPT ![d] = to], pending' = pending PROVE UpInv'
  <2>1. pc'[d] = to
    BY <1>0, <1>2
  <2> QED
    BY <1>1, <1>2, <2>1
<1>3. CASE IdleCheck(d)
  <2>1. UNCHANGED <<m_ReadyQueue, sent, pending>>
    BY <1>3 DEF IdleCheck, readyVars, apicVars
  <2>2. CASE pc' = [pc EXCEPT ![d] = "run"]
    BY <1>2, <2>1, <2>2, Zenon DEF PCs, Resting
  <2>3. CASE IsEmpty
    BY <2>1, <2>3, Zenon DEF UpInv, Up, IsEmpty
  <2> QED
    BY <1>3, <2>2, <2>3 DEF IdleCheck
<1>4. CASE IdleHalt(d)
  <2>1. UNCHANGED <<m_ReadyQueue, sent, pending>> /\ pc[d] = "mask" /\ pc' = [pc EXCEPT ![d] = "halt"]
    BY <1>4, Zenon DEF IdleHalt, readyVars, apicVars
  <2>2. ASSUME NEW c \in Cores, AtRest(c)' PROVE AtRest(c)
    <3>1. CASE c = d
      BY <2>1, <2>2, <3>1 DEF AtRest, Resting
    <3>2. CASE c # d
      <4>1. pc'[c] = pc[c]
        BY <1>0, <2>1, <3>2
      <4> QED
        BY <2>1, <2>2, <4>1, Zenon DEF AtRest
    <3> QED
      BY <3>1, <3>2
  <2> QED
    BY <2>1, <2>2, Zenon DEF UpInv, Up, IsEmpty
<1>5. CASE EnterLevel(d)
  BY <1>2, <1>5, Zenon DEF EnterLevel, PCs, Resting, apicVars
<1>6. CASE LeaveLevel(d)
  <2>1. pending' = pending /\ pc' = [pc EXCEPT ![d] = IF IsIdle(d) THEN back[d] ELSE "run"]
    BY <1>6 DEF LeaveLevel, apicVars
  <2>2. back[d] \in PCs \ Resting /\ "run" \in PCs \ Resting
    BY <1>0 DEF PCs, Resting
  <2> QED
    BY <1>2, <2>1, <2>2, Zenon
<1>7. CASE GetKeyConsume(d)
  <2>1. pending' = pending
    BY <1>7 DEF GetKeyConsume, apicVars
  <2>2. \/ pc' = [pc EXCEPT ![d] = "drain"] \/ pc' = [pc EXCEPT ![d] = "inside"]
        \/ DispatchNext(d, m_ReadyQueue)
    BY <1>7, Zenon DEF GetKeyConsume, P
  <2>3. "drain" \in PCs \ Resting /\ "inside" \in PCs \ Resting
    BY DEF PCs, Resting
  <2> QED
    BY <1>1, <1>2, <2>1, <2>2, <2>3, DispatchIsUp, Zenon
<1> QED
  BY <1>3, <1>4, <1>5, <1>6, <1>7, Zenon DEF Step, ThreadEnters

(* An interrupt gets its core up, or stays latched and will.                  *)
LEMMA InterruptIsUp ==
    ASSUME NEW d \in Cores, IInv, UpInv, NEW v \in Vectors, Raise(d, v) \/ Deliver(d, v)
    PROVE  UpInv'
<1>0. pending \in [Cores -> SUBSET Vectors] /\ pc \in [Cores -> PCs]
  BY DEF UpInv, IInv, TypeOK
<1>1. CASE Accepts(d) /\ Prologue(d, v) /\ (pending' = pending \/ pending' = [pending EXCEPT ![d] = @ \ {v}])
  <2>1. pc' = [pc EXCEPT ![d] = IF pc[d] \in {"run", "halt"} THEN "drain" ELSE pc[d]]
    BY <1>1, Zenon DEF Prologue
  <2>2. pc[d] \in {"run", "enter", "inside", "drain", "halt"}
    BY <1>1, Zenon DEF Accepts, InterruptsOn
  <2>3. pc'[d] \notin Resting
    BY <1>0, <2>1, <2>2 DEF Resting
  <2>4. pending' \in [Cores -> SUBSET Vectors]
    BY <1>0, <1>1
  <2> QED
    BY <2>3, <2>4, Zenon DEF UpInv, Up, AtRest
<1>2. CASE pending' = [pending EXCEPT ![d] = @ \cup {v}]
  <2>1. pending' \in [Cores -> SUBSET Vectors] /\ pending'[d] # {}
    BY <1>0, <1>2
  <2> QED
    BY <2>1, Zenon DEF UpInv, Up, AtRest
<1>3. CASE Raise(d, v)
  BY <1>1, <1>2, <1>3, Zenon DEF Raise
<1>4. CASE Deliver(d, v)
  BY <1>1, <1>4, Zenon DEF Deliver, Interrupted
<1> QED
  BY <1>3, <1>4

(* However many cores there are, they never all sleep while a thread is       *)
(* ready: none sleeps through one that becomes ready between its look at the  *)
(* queue and its halt unless another is up that will look again.              *)
THEOREM SchedulingSomeCoreAwake == Spec => []SomeCoreAwake
<1>1. Init => UpInv
  <2> SUFFICES ASSUME Init PROVE UpInv
    OBVIOUS
  <2>1. pending \in [Cores -> SUBSET Vectors]
    BY DEF Init
  <2>2. 0 \in Cores
    BY CoresAssumption DEF Cores
  <2>3. ~AtRest(0)
    BY <2>2 DEF Init, AtRest, Resting
  <2> QED
    BY <2>1, <2>2, <2>3, Zenon DEF UpInv, Up
<1>2. IInv /\ UpInv /\ [Next]_vars => UpInv'
  <2> SUFFICES ASSUME IInv, UpInv, [Next]_vars PROVE UpInv'
    OBVIOUS
  <2>1. CASE UNCHANGED vars
    BY <2>1, ZenonT(60) DEF vars, readyVars, apicVars, UpInv, Up, AtRest, IsEmpty
  <2>2. ASSUME NEW d \in Cores, LockedStep(d) PROVE UpInv'
    <3>1. pc'[d] \notin Resting /\ pending' = pending
      BY <2>2, LockedIsUp
    <3> QED
      BY <3>1, Zenon DEF UpInv, Up, AtRest
  <2>3. {TIMER, KEYBOARD} \subseteq Vectors
    BY DEF Vectors
  <2> QED
    BY <2>1, <2>2, <2>3, LoopIsUp, InterruptIsUp, Zenon DEF Next, TimerFires, KeyPress, Arrive
<1>3. UpInv => SomeCoreAwake
  BY DEF UpInv, Up, AtRest, Resting, SomeCoreAwake, Awake, IsEmpty
<1> QED
  BY <1>1, <1>2, <1>3, Initially, StepKeeps, PTL DEF Spec
=============================================================================
