--------------------------- MODULE KeyboardProofs ---------------------------
(* The way of the keyboard's bytes: module RingBuffer, for every capacity    *)
(* and every set of values; then module Keyboard, whose s_RawBytes is such a *)
(* buffer, for every number of cores, every script, and every size.          *)
EXTENDS RingBuffer, SequenceTheorems, WellFoundedInduction, TLAPS

\* A leaf is translated with all the definitions before it: the provers get more
\* time for that than by default.
USE SMTT(30), ZenonT(60)

\* Adding an offset below CAPACITY to an index wraps at most once.
LEMMA Wrap ==
    ASSUME NEW i \in Slots, NEW k \in 0 .. CAPACITY
    PROVE  (i + k) % CAPACITY = IF i + k < CAPACITY THEN i + k ELSE i + k - CAPACITY
<1>1. CASE i + k < CAPACITY
    BY <1>1, CapacityAssumption DEF Slots
<1>2. CASE i + k >= CAPACITY
    <2>1. i + k - CAPACITY \in 0 .. CAPACITY - 1
        BY <1>2, CapacityAssumption DEF Slots
    <2>2. (i + k - CAPACITY) % CAPACITY = i + k - CAPACITY
        BY <2>1, CapacityAssumption
    <2>3. (i + k) % CAPACITY = (i + k - CAPACITY) % CAPACITY
        BY <1>2, CapacityAssumption DEF Slots
    <2> QED
        BY <1>2, <2>2, <2>3, CapacityAssumption DEF Slots
<1> QED
    BY <1>1, <1>2, CapacityAssumption DEF Slots

\* The next index, without the remainder.
LEMMA AfterIs ==
    ASSUME NEW i \in Slots
    PROVE  After(i) = IF i + 1 < CAPACITY THEN i + 1 ELSE 0
<1>1. 1 \in 0 .. CAPACITY
    BY CapacityAssumption
<1>2. After(i) = IF i + 1 < CAPACITY THEN i + 1 ELSE i + 1 - CAPACITY
    BY <1>1, Wrap DEF After
<1> QED
    BY <1>2, CapacityAssumption DEF Slots

\* Facts about the indices and the two calls on their way that every step
\* keeps: a Produce that goes on has room, a Consume that goes on has a
\* value, and what each has written or copied is still what it was.
IInv ==
    /\ TypeOK
    /\ producer # "idle" => After(write) # read
    /\ consumer # "idle" => read # write
    /\ producer = "publish" => data[write] = value
    /\ consumer = "release" => out = data[read]

\* The empty buffer satisfies the invariant.
LEMMA Initially == Init => IInv
<1> SUFFICES ASSUME Init PROVE IInv
    OBVIOUS
<1>1. 0 \in Slots
    BY CapacityAssumption DEF Slots
<1> QED
    BY <1>1, Zenon DEF Init, IInv, TypeOK

\* No step of Produce or Consume breaks it.
LEMMA Inductive == IInv /\ [Next]_vars => IInv'
<1> SUFFICES ASSUME IInv, [Next]_vars PROVE IInv'
    OBVIOUS
<1>1. write \in Slots /\ read \in Slots /\ After(write) \in Slots /\ After(read) \in Slots
    BY AfterIs, CapacityAssumption DEF IInv, TypeOK, Slots
<1>2. read # write => After(read) # After(write)
    BY <1>1, AfterIs, CapacityAssumption DEF Slots
<1>3. ASSUME NEW v \in Values, ProduceBegin(v) PROVE IInv'
    BY <1>3 DEF ProduceBegin, IsFull, IInv, TypeOK
<1>4. CASE ProduceFull
    BY <1>4 DEF ProduceFull, IInv, TypeOK
<1>5. CASE Fill
    BY <1>1, <1>5 DEF Fill, IInv, TypeOK
<1>6. CASE Publish
    BY <1>1, <1>6, Zenon DEF Publish, IInv, TypeOK
<1>7. CASE ConsumeBegin
    BY <1>7 DEF ConsumeBegin, IsEmpty, IInv, TypeOK
<1>8. CASE ConsumeEmpty
    BY <1>8 DEF ConsumeEmpty, IInv, TypeOK, vars
<1>9. CASE Copy
    BY <1>1, <1>9 DEF Copy, IInv, TypeOK
<1>10. CASE Release
    BY <1>1, <1>2, <1>10 DEF Release, IInv, TypeOK
<1>11. CASE UNCHANGED vars
    BY <1>11 DEF vars, IInv, TypeOK
<1> QED
    BY <1>3, <1>4, <1>5, <1>6, <1>7, <1>8, <1>9, <1>10, <1>11 DEF Next

\* So it holds all the time.
LEMMA Invariance == Spec => []IInv
BY Initially, Inductive, PTL DEF Spec

\* Every index stays below CAPACITY and every slot holds a value.
THEOREM TypeCorrect == Spec => []TypeOK
<1>1. IInv => TypeOK
    BY DEF IInv
<1> QED
    BY <1>1, Invariance, PTL

\* A producer that fills and a consumer that copies never meet in a slot.
THEOREM SlotsStayApart == Spec => []SlotsApart
<1>1. IInv => SlotsApart
    BY DEF IInv, SlotsApart, TypeOK
<1> QED
    BY <1>1, Invariance, PTL

\* An interrupted call finds the room or the value it was promised.
THEOREM CountStaysBounded == Spec => []CountBounded
<1>1. IInv => CountBounded
    BY AfterIs, CapacityAssumption DEF IInv, CountBounded, Count, Room, TypeOK, Slots
<1> QED
    BY <1>1, Invariance, PTL
-----------------------------------------------------------------------------
(* The buffer implements a bounded first-in first-out queue.                 *)

\* Number of values, and where the n-th of them is.
LEMMA CountIs ==
    ASSUME TypeOK
    PROVE  /\ Count \in 0 .. Room
           /\ \A n \in 1 .. Count : (read + n - 1) % CAPACITY \in Slots \ {write}
           /\ (read + Count) % CAPACITY = write
<1> USE CapacityAssumption DEF TypeOK, Slots, Room
<1>1. Count \in 0 .. Room
    BY DEF Count
<1>2. ASSUME NEW n \in 1 .. Count PROVE (read + n - 1) % CAPACITY \in Slots \ {write}
    <2>1. n - 1 \in 0 .. CAPACITY /\ read + n - 1 = read + (n - 1)
        BY <1>1, <1>2
    <2>2. (read + (n - 1)) % CAPACITY
              = IF read + (n - 1) < CAPACITY THEN read + (n - 1) ELSE read + (n - 1) - CAPACITY
        BY <2>1, Wrap, Zenon
    <2> QED
        BY <1>1, <1>2, <2>1, <2>2 DEF Count
<1>3. (read + Count) % CAPACITY = write
    <2>1. Count \in 0 .. CAPACITY
        BY <1>1
    <2>2. (read + Count) % CAPACITY = IF read + Count < CAPACITY THEN read + Count ELSE read + Count - CAPACITY
        BY <2>1, Wrap, Zenon
    <2> QED
        BY <2>2 DEF Count
<1> QED
    BY <1>1, <1>2, <1>3

\* The contents are a sequence of values.
LEMMA ContentsType == ASSUME TypeOK PROVE Contents \in Seq(Values) /\ Len(Contents) = Count
<1>1. Count \in Nat
    BY CountIs, CapacityAssumption DEF Room
<1>2. \A n \in 1 .. Count : data[(read + n - 1) % CAPACITY] \in Values
    BY CountIs DEF TypeOK
<1> QED
    BY <1>1, <1>2 DEF Contents

\* Storing m_Write appends the value.
LEMMA PublishAppends ==
    ASSUME IInv, Publish
    PROVE  Contents' = Append(Contents, value) /\ Len(Contents) < Room
<1> USE CapacityAssumption
<1>0. TypeOK /\ write \in Slots /\ read \in Slots /\ After(write) # read /\ value \in Values
    BY DEF IInv, Publish, TypeOK
<1>1. Count < Room /\ Count' = Count + 1 /\ Count \in Nat
    BY <1>0, AfterIs, CountIs DEF Publish, Count, Room, Slots
<1>2. ASSUME NEW n \in 1 .. Count + 1 PROVE Contents'[n] = Append(Contents, value)[n]
    <2>1. CASE n = Count + 1
        <3>1. read + n - 1 = read + Count
            BY <1>0, <1>1, <2>1 DEF Slots
        <3>2. (read + n - 1) % CAPACITY = write
            BY <1>0, <3>1, CountIs
        <3>3. Append(Contents, value)[n] = value
            BY <1>0, <1>1, <2>1, ContentsType
        <3>4. Contents'[n] = data[(read + n - 1) % CAPACITY]
            BY <1>1 DEF Contents, Publish
        <3> QED
            BY <3>2, <3>3, <3>4 DEF Publish, IInv
    <2>2. CASE n \in 1 .. Count
        <3>1. Append(Contents, value)[n] = Contents[n]
            BY <1>0, <1>1, <2>2, ContentsType
        <3> QED
            BY <1>1, <2>2, <3>1 DEF Contents, Publish
    <2>3. n = Count + 1 \/ n \in 1 .. Count
        BY <1>1, <1>2
    <2> QED
        BY <2>1, <2>2, <2>3, Zenon
<1>3. /\ Contents' = [n \in 1 .. Count + 1 |-> Contents'[n]]
      /\ Append(Contents, value) = [n \in 1 .. Count + 1 |-> Append(Contents, value)[n]]
    BY <1>0, <1>1, ContentsType DEF Contents
<1> QED
    BY <1>0, <1>1, <1>2, <1>3, ContentsType

\* Storing m_Read takes the first value off, and it is the one copied.
LEMMA ReleaseRemoves ==
    ASSUME IInv, Release
    PROVE  Contents # <<>> /\ out = Head(Contents) /\ Contents' = Tail(Contents)
<1> USE CapacityAssumption
<1>0. TypeOK /\ write \in Slots /\ read \in Slots /\ read # write /\ out = data[read]
    BY DEF IInv, Release, TypeOK
<1>1. Count > 0 /\ Count' = Count - 1 /\ Count \in 0 .. Room
    BY <1>0, AfterIs, CountIs DEF Release, Count, Room, Slots
<1>2. Contents # <<>> /\ Head(Contents) = Contents[1]
    BY <1>0, <1>1, ContentsType
<1>3. Contents[1] = data[read]
    <2>1. (read + 1 - 1) % CAPACITY = read
        BY <1>0 DEF Slots
    <2> QED
        BY <1>1, <2>1 DEF Contents, Room
<1>4. ASSUME NEW n \in 1 .. Count - 1 PROVE Contents'[n] = Tail(Contents)[n]
    <2>1. Tail(Contents)[n] = Contents[n + 1]
        BY <1>0, <1>1, <1>2, ContentsType
    <2>2. (After(read) + n - 1) % CAPACITY = (read + (n + 1) - 1) % CAPACITY
        <3>1. n \in 0 .. CAPACITY /\ n - 1 \in 0 .. CAPACITY /\ n \in Nat
            BY <1>1 DEF Room
        <3>2. (read + n) % CAPACITY = IF read + n < CAPACITY THEN read + n ELSE read + n - CAPACITY
            BY <1>0, <3>1, Wrap
        <3>3. After(read) \in Slots /\ After(read) = IF read + 1 < CAPACITY THEN read + 1 ELSE 0
            BY <1>0, AfterIs DEF Slots
        <3>4. (After(read) + (n - 1)) % CAPACITY = IF After(read) + (n - 1) < CAPACITY
                  THEN After(read) + (n - 1) ELSE After(read) + (n - 1) - CAPACITY
            BY <3>1, <3>3, Wrap
        <3>5. After(read) + n - 1 = After(read) + (n - 1) /\ read + (n + 1) - 1 = read + n
            BY <1>0, <3>1, <3>3 DEF Slots
        <3> QED
            BY <1>0, <1>1, <3>1, <3>2, <3>3, <3>4, <3>5 DEF Slots, Room
    <2> QED
        BY <1>1, <2>1, <2>2 DEF Contents, Release, Room
<1>5. /\ Contents' = [n \in 1 .. Count - 1 |-> Contents'[n]]
      /\ Tail(Contents) = [n \in 1 .. Count - 1 |-> Tail(Contents)[n]]
    BY <1>0, <1>1, <1>2, ContentsType DEF Contents
<1> QED
    BY <1>0, <1>2, <1>3, <1>4, <1>5, Zenon

\* Writing a slot changes none of the values in the buffer.
LEMMA FillHidden == ASSUME IInv, Fill PROVE Contents' = Contents
<1>1. Count' = Count /\ TypeOK
    BY DEF Fill, Count, IInv
<1>2. \A n \in 1 .. Count : data'[(read + n - 1) % CAPACITY] = data[(read + n - 1) % CAPACITY]
    BY <1>1, CountIs DEF Fill, TypeOK
<1> QED
    BY <1>1, <1>2 DEF Contents, Fill

\* A bounded first-in first-out queue, for every capacity: the steps of the
\* two sides map to Call, Put, Drop and Get or to nothing.
THEOREM BufferIsFifo == Spec => ImplementsFifo
<1>1. Init => Fifo!Init
    <2> SUFFICES ASSUME Init PROVE Fifo!Init
        OBVIOUS
    <2>1. Count = 0
        BY DEF Init, Count
    <2>2. Contents = <<>>
        BY <2>1 DEF Contents
    <2> QED
        BY <2>2 DEF Init, Fifo!Init, Calling
<1>2. IInv /\ [Next]_vars => [Fifo!Next]_(Fifo!vars)
    <2> SUFFICES ASSUME IInv, [Next]_vars PROVE Fifo!Next \/ UNCHANGED Fifo!vars
        BY DEF Fifo!vars
    <2>0. TypeOK
        BY DEF IInv
    <2>1. ASSUME NEW v \in Values, ProduceBegin(v) PROVE Fifo!Next
        <3>1. Fifo!Call(v)
            BY <2>1 DEF ProduceBegin, Fifo!Call, Calling, Contents, Count
        <3> QED
            BY <3>1 DEF Fifo!Next
    <2>2. CASE ProduceFull
        <3>1. Count = Room /\ Contents' = Contents
            BY <2>0, <2>2, AfterIs, CapacityAssumption DEF ProduceFull, IsFull, Count, Contents, Room, TypeOK, Slots
        <3>2. Fifo!Drop
            BY <2>0, <2>2, <3>1, ContentsType DEF ProduceFull, Fifo!Drop, Calling
        <3> QED
            BY <3>2 DEF Fifo!Next
    <2>3. CASE Fill
        BY <2>3, FillHidden DEF Fill, Fifo!vars, Calling
    <2>4. CASE Publish
        <3>1. Calling /\ ~Calling'
            BY <2>4 DEF Publish, Calling
        <3>2. Fifo!Put
            BY <2>4, <3>1, PublishAppends, Zenon DEF Publish, Fifo!Put
        <3> QED
            BY <3>2 DEF Fifo!Next
    <2>5. CASE ConsumeBegin
        BY <2>5 DEF ConsumeBegin, Fifo!vars, Calling, Contents, Count
    <2>6. CASE ConsumeEmpty
        BY <2>6 DEF ConsumeEmpty, vars, Fifo!vars, Calling, Contents, Count
    <2>7. CASE Copy
        BY <2>7 DEF Copy, Fifo!vars, Calling, Contents, Count
    <2>8. CASE Release
        <3>1. Fifo!Get
            BY <2>8, ReleaseRemoves DEF Release, Fifo!Get, Calling
        <3> QED
            BY <3>1 DEF Fifo!Next
    <2>9. CASE UNCHANGED vars
        BY <2>9 DEF vars, Fifo!vars, Calling, Contents, Count
    <2> QED
        BY <2>1, <2>2, <2>3, <2>4, <2>5, <2>6, <2>7, <2>8, <2>9 DEF Next
<1> QED
    BY <1>1, <1>2, Invariance, PTL DEF Spec, ImplementsFifo, Fifo!Spec
-----------------------------------------------------------------------------
(* Keyboard.                                                                  *)

CONSTANTS Cores, Scripts, SLOTS, BURST, GIVE_UPS
VARIABLES
    toType, output, input, expects, lights, raw, rawLock, prologue, queued, epilogue, decoder, leds, decoded,
    overrun, giveUps

K == INSTANCE Keyboard

(* A set of natural numbers that is not empty has a smallest element.        *)
LEMMA Smallest ==
    ASSUME NEW S \in SUBSET Nat, S # {}
    PROVE  \E x \in S : \A y \in S : x <= y
<1> DEFINE R == OpToRel(<, Nat)
<1>1. IsWellFoundedOn(R, Nat)
    BY NatLessThanWellFounded, Zenon
<1>2. \A x, y \in Nat : y < x => <<y, x>> \in R
    BY DEF OpToRel
<1> HIDE DEF R
<1>3. PICK x \in S : \A y \in S : ~(<<y, x>> \in R)
    BY <1>1, WFMin, Zenon
<1>4. \A y \in S : ~(y < x)
    BY <1>2, <1>3, Zenon
<1>5. \A y \in S : x <= y
    BY <1>4, SMT
<1> QED
    BY <1>5

(* What holds of 0 and goes from each number to the next holds up to m.      *)
LEMMA UpTo ==
    ASSUME NEW m \in Nat, NEW P, 0 \in P, \A i \in 1 .. m : i - 1 \in P => i \in P
    PROVE  \A i \in 0 .. m : i \in P
<1> DEFINE bad == (0 .. m) \ P
<1> SUFFICES ASSUME bad # {} PROVE FALSE
    OBVIOUS
<1>1. bad \in SUBSET Nat
    OBVIOUS
<1>2. PICK n \in bad : \A y \in bad : n <= y
    BY <1>1, Smallest, Zenon
<1>3. n \in 0 .. m /\ n \notin P
    BY <1>2, Zenon
<1>4. n \in 1 .. m /\ n - 1 \in 0 .. m /\ ~(n <= n - 1)
    BY <1>3
<1>5. n - 1 \in P
    BY <1>2, <1>4, Zenon
<1> QED
    BY <1>3, <1>4, <1>5, Zenon

Bytes == Seq(Int)

\* One step of CodesUpTo.
Adds(codes, byte) == IF byte \in K!Replies THEN codes ELSE Append(codes, byte)

(* A byte added to codes gives codes.                                        *)
LEMMA AddsType == ASSUME NEW codes \in Bytes, NEW byte \in Int PROVE Adds(codes, byte) \in Bytes
    BY AppendProperties DEF Adds, Bytes

(* The recursion of CodesUpTo has a solution.                                *)
LEMMA CodesExist ==
    ASSUME NEW bytes \in Bytes
    PROVE  \E f \in [0 .. Len(bytes) -> Bytes] :
              f[0] = <<>> /\ \A n \in 1 .. Len(bytes) : f[n] = Adds(f[n - 1], bytes[n])
<1> DEFINE Solves(f, m) == f[0] = <<>> /\ \A n \in 1 .. m : f[n] = Adds(f[n - 1], bytes[n])
           Has(m) == \E f \in [0 .. m -> Bytes] : Solves(f, m)
           P == {m \in Nat : Has(m)}
<1>0. Len(bytes) \in Nat /\ \A n \in 1 .. Len(bytes) : bytes[n] \in Int
    BY LenProperties, ElementOfSeq, Zenon DEF Bytes
<1>1. Has(0)
  <2>1. <<>> \in Bytes
      BY EmptySeq DEF Bytes
  <2>2. [i \in 0 .. 0 |-> <<>>] \in [0 .. 0 -> Bytes] /\ Solves([i \in 0 .. 0 |-> <<>>], 0)
      BY <2>1
  <2> QED
      BY <2>2, Zenon
<1>2. ASSUME NEW m \in 1 .. Len(bytes), Has(m - 1) PROVE Has(m)
  <2>1. PICK f \in [0 .. m - 1 -> Bytes] : Solves(f, m - 1)
      BY <1>2, Zenon
  <2>2. m \in Nat /\ m - 1 \in 0 .. m - 1 /\ m # 0 /\ 0 \in 0 .. m /\ m \in 1 .. m /\ bytes[m] \in Int
      BY <1>0, <1>2
  <2>3. \A i \in 0 .. m : i # m => i \in 0 .. m - 1
      BY <2>2
  <2>4. \A i \in 1 .. m : i \in 0 .. m /\ i - 1 \in 0 .. m /\ i - 1 # m /\ (i # m => i \in 1 .. m - 1)
      BY <2>2
  <2> DEFINE g == [i \in 0 .. m |-> IF i = m THEN Adds(f[m - 1], bytes[m]) ELSE f[i]]
  <2>5. f[m - 1] \in Bytes
      BY <2>2, Zenon
  <2>6. Adds(f[m - 1], bytes[m]) \in Bytes
      BY <2>2, <2>5, AddsType, Zenon
  <2>7. g \in [0 .. m -> Bytes]
      BY <2>3, <2>6, Zenon
  <2>8. g[0] = <<>>
      BY <2>1, <2>2, Zenon
  <2>9. ASSUME NEW i \in 1 .. m PROVE g[i] = Adds(g[i - 1], bytes[i])
    <3>1. g[i - 1] = f[i - 1]
        BY <2>4, Zenon
    <3>2. CASE i = m
        BY <2>2, <2>4, <3>1, <3>2, Zenon
    <3>3. CASE i # m
        BY <2>1, <2>4, <3>1, <3>3, Zenon
    <3> QED
        BY <3>2, <3>3, Zenon
  <2> HIDE DEF g
  <2> QED
      BY <2>7, <2>8, <2>9, Zenon
<1> HIDE DEF Has
<1>3. 0 \in P
    BY <1>1
<1>4. \A m \in 1 .. Len(bytes) : m - 1 \in P => m \in P
  <2> SUFFICES ASSUME NEW m \in 1 .. Len(bytes), m - 1 \in P PROVE m \in P
      OBVIOUS
  <2>1. Has(m - 1)
      BY Zenon
  <2>2. Has(m)
      BY <2>1, <1>2, Zenon
  <2>3. m \in Nat
      BY <1>0
  <2> QED
      BY <2>2, <2>3, Zenon
<1> HIDE DEF P
<1>5. Len(bytes) \in P
  <2>1. Len(bytes) \in 0 .. Len(bytes)
      BY <1>0
  <2> QED
      BY <1>0, <1>3, <1>4, <2>1, UpTo, Zenon
<1> QED
    BY <1>5, Zenon DEF P, Has

(* So CodesUpTo follows it.                                                  *)
LEMMA CodesAre ==
    ASSUME NEW bytes \in Bytes
    PROVE  LET f == K!CodesUpTo(bytes)
           IN  /\ f[0] = <<>> /\ \A n \in 1 .. Len(bytes) : f[n] = Adds(f[n - 1], bytes[n])
               /\ \A n \in 0 .. Len(bytes) : f[n] \in Bytes
<1>0. Len(bytes) \in Nat
    BY LenProperties DEF Bytes
<1>1. PICK f \in [0 .. Len(bytes) -> Bytes] :
          f[0] = <<>> /\ \A n \in 1 .. Len(bytes) : f[n] = Adds(f[n - 1], bytes[n])
    BY CodesExist, Zenon
<1> DEFINE e(g) == [n \in 0 .. Len(bytes) |-> IF n = 0 THEN <<>> ELSE IF bytes[n] \in K!Replies THEN g[n - 1]
                                              ELSE Append(g[n - 1], bytes[n])]
           codes == CHOOSE g : g = e(g)
<1>2. f = e(f)
  <2>1. \A n \in 0 .. Len(bytes) : n = 0 \/ n \in 1 .. Len(bytes)
      BY <1>0
  <2> QED
      BY <1>1, <2>1, Zenon DEF Adds
<1>3. codes = e(codes)
    BY <1>2, Zenon
<1>4. K!CodesUpTo(bytes) = codes
    BY DEF K!CodesUpTo
<1> HIDE DEF codes
<1>5. codes[0] = <<>> /\ \A n \in 1 .. Len(bytes) : codes[n] = Adds(codes[n - 1], bytes[n])
  <2>1. 0 \in 0 .. Len(bytes) /\ \A n \in 1 .. Len(bytes) : n \in 0 .. Len(bytes) /\ n # 0
      BY <1>0
  <2> QED
      BY <1>3, <2>1, Zenon DEF Adds
<1> DEFINE P == {n \in Nat : codes[n] = f[n]}
<1>6. \A n \in 0 .. Len(bytes) : n \in P
  <2>1. 0 \in P
      BY <1>1, <1>5
  <2>2. \A n \in 1 .. Len(bytes) : n - 1 \in P => n \in P
    <3>1. \A n \in 1 .. Len(bytes) : n \in Nat
        BY <1>0
    <3> QED
        BY <3>1, <1>1, <1>5, Zenon
  <2> HIDE DEF P
  <2> QED
      BY <1>0, <2>1, <2>2, UpTo, Zenon
<1>7. \A n \in 0 .. Len(bytes) : codes[n] \in Bytes
    BY <1>6, <1>1, Zenon
<1> QED
    BY <1>4, <1>5, <1>7, Zenon

(* Bytes one after the other: how the parts are grouped does not matter.     *)
LEMMA Grouping ==
    /\ \A a, b, c \in Bytes : (a \o b) \o c = a \o (b \o c)
    /\ \A a, b \in Bytes : a \o b \in Bytes
    /\ \A a \in Bytes : a \o <<>> = a /\ <<>> \o a = a
<1>1. ASSUME NEW a \in Bytes, NEW b \in Bytes, NEW c \in Bytes PROVE (a \o b) \o c = a \o (b \o c)
    BY ConcatAssociative DEF Bytes
<1>2. ASSUME NEW a \in Bytes, NEW b \in Bytes PROVE a \o b \in Bytes
    BY ConcatProperties DEF Bytes
<1>3. ASSUME NEW a \in Bytes PROVE a \o <<>> = a /\ <<>> \o a = a
    BY ConcatEmptySeq DEF Bytes
<1> QED
    BY <1>1, <1>2, <1>3, Zenon

(* A byte appended to the second part is appended to both.                   *)
LEMMA AppendToConcat ==
    ASSUME NEW a \in Bytes, NEW b \in Bytes, NEW x \in Int
    PROVE  Append(a \o b, x) = a \o Append(b, x)
<1>1. <<x>> \in Bytes
    BY DEF Bytes
<1>2. Append(b, x) = b \o <<x>>
    BY AppendIsConcat DEF Bytes
<1>3. a \o b \in Bytes
    BY Grouping, Zenon
<1>4. Append(a \o b, x) = (a \o b) \o <<x>>
    BY <1>3, AppendIsConcat DEF Bytes
<1>5. (a \o b) \o <<x>> = a \o (b \o <<x>>)
    BY <1>1, Grouping, Zenon
<1> QED
    BY <1>2, <1>4, <1>5, Zenon

(* The codes of two parts, one after the other.                              *)
LEMMA CodesConcat ==
    ASSUME NEW s \in Bytes, NEW t \in Bytes
    PROVE  K!Codes(s \o t) = K!Codes(s) \o K!Codes(t) /\ K!Codes(s) \in Bytes /\ s \o t \in Bytes
<1> DEFINE m == Len(s)
           n == Len(t)
           u == s \o t
           cs == K!CodesUpTo(s)
           ct == K!CodesUpTo(t)
           cu == K!CodesUpTo(u)
<1>1. m \in Nat /\ n \in Nat
    BY LenProperties DEF Bytes
<1>2. u \in Bytes /\ Len(u) = m + n /\ (\A i \in 1 .. m : u[i] = s[i]) /\ (\A i \in 1 .. n : u[m + i] = t[i])
  <2>1. /\ u \in Bytes /\ Len(u) = m + n
        /\ \A i \in 1 .. m + n : u[i] = IF i <= m THEN s[i] ELSE t[i - m]
      BY ConcatProperties DEF Bytes
  <2>2. /\ \A i \in 1 .. m : i \in 1 .. m + n /\ i <= m
        /\ \A i \in 1 .. n : m + i \in 1 .. m + n /\ ~(m + i <= m) /\ (m + i) - m = i
      BY <1>1
  <2> HIDE DEF u, m, n
  <2> QED
      BY <2>1, <2>2, Zenon
<1>3. /\ cs[0] = <<>> /\ (\A i \in 1 .. m : cs[i] = Adds(cs[i - 1], s[i])) /\ (\A i \in 0 .. m : cs[i] \in Bytes)
      /\ ct[0] = <<>> /\ (\A i \in 1 .. n : ct[i] = Adds(ct[i - 1], t[i])) /\ (\A i \in 0 .. n : ct[i] \in Bytes)
      /\ cu[0] = <<>> /\ \A i \in 1 .. m + n : cu[i] = Adds(cu[i - 1], u[i])
  <2>1. /\ cu[0] = <<>> /\ \A i \in 1 .. Len(u) : cu[i] = Adds(cu[i - 1], u[i])
      BY <1>2, CodesAre, Zenon
  <2> QED
      BY <1>2, <2>1, CodesAre, Zenon
<1>4. K!Codes(s) = cs[m] /\ K!Codes(t) = ct[n] /\ K!Codes(u) = cu[m + n]
    BY <1>2, Zenon DEF K!Codes
<1> HIDE DEF m, n, u, cs, ct, cu
<1>5. \A i \in 0 .. m : cu[i] = cs[i]
  <2> DEFINE P == {i \in Nat : cu[i] = cs[i]}
  <2>1. 0 \in P
      BY <1>3
  <2>2. \A i \in 1 .. m : i - 1 \in P => i \in P
    <3>1. \A i \in 1 .. m : i \in Nat /\ i \in 1 .. m + n
        BY <1>1
    <3> QED
        BY <3>1, <1>2, <1>3, Zenon
  <2>3. \A i \in 0 .. m : i \in P
    <3> HIDE DEF P
    <3> QED
        BY <1>1, <2>1, <2>2, UpTo, Zenon
  <2> QED
      BY <2>3, Zenon
<1>6. 0 \in 0 .. n /\ m \in 0 .. m /\ n \in 0 .. n /\ m + 0 = m
    BY <1>1
<1>7. \A i \in 0 .. n : cu[m + i] = cs[m] \o ct[i]
  <2> DEFINE P == {i \in Nat : cu[m + i] = cs[m] \o ct[i]}
  <2>1. 0 \in P
    <3>1. cs[m] \o <<>> = cs[m]
        BY <1>3, <1>6, ConcatEmptySeq, Zenon DEF Bytes
    <3> QED
        BY <3>1, <1>3, <1>5, <1>6, Zenon
  <2>2. ASSUME NEW i \in 1 .. n, i - 1 \in P PROVE i \in P
    <3>1. i \in Nat /\ i - 1 \in 0 .. n /\ m + i \in 1 .. m + n /\ (m + i) - 1 = m + (i - 1)
        BY <1>1
    <3>2. cu[m + i] = Adds(cs[m] \o ct[i - 1], t[i])
      <4>1. cu[m + i] = Adds(cu[(m + i) - 1], u[m + i])
          BY <1>3, <3>1, Zenon
      <4>2. cu[m + (i - 1)] = cs[m] \o ct[i - 1]
          BY <2>2, Zenon
      <4>3. u[m + i] = t[i]
          BY <1>2, Zenon
      <4>4. cu[(m + i) - 1] = cs[m] \o ct[i - 1]
          BY <3>1, <4>2, Zenon
      <4> QED
          BY <4>1, <4>3, <4>4, Zenon
    <3>3. t[i] \in Int /\ cs[m] \in Bytes /\ ct[i - 1] \in Bytes
        BY <1>3, <1>6, <3>1, ElementOfSeq, Zenon DEF Bytes, n
    <3>4. Adds(cs[m] \o ct[i - 1], t[i]) = cs[m] \o Adds(ct[i - 1], t[i])
      <4>1. Append(cs[m] \o ct[i - 1], t[i]) = cs[m] \o Append(ct[i - 1], t[i])
          BY <3>3, AppendToConcat, Zenon
      <4> QED
          BY <4>1, Zenon DEF Adds
    <3>5. ct[i] = Adds(ct[i - 1], t[i])
        BY <1>3, Zenon
    <3> QED
        BY <3>1, <3>2, <3>4, <3>5, Zenon
  <2>3. \A i \in 0 .. n : i \in P
    <3> HIDE DEF P
    <3> QED
        BY <1>1, <2>1, <2>2, UpTo, Zenon
  <2> QED
      BY <2>3, Zenon
<1> QED
    BY <1>2, <1>3, <1>4, <1>6, <1>7, Zenon DEF u

(* The codes of nothing and of one byte.                                     *)
LEMMA CodesOfOne ==
    /\ K!Codes(<<>>) = <<>> /\ <<>> \in Bytes
    /\ \A byte \in Int : /\ K!Codes(<<byte>>) = IF byte \in K!Replies THEN <<>> ELSE <<byte>>
                         /\ <<byte>> \in Bytes
<1>1. <<>> \in Bytes /\ Len(<<>>) = 0
    BY EmptySeq DEF Bytes
<1>2. K!Codes(<<>>) = <<>>
    BY <1>1, CodesAre, Zenon DEF K!Codes
<1>3. ASSUME NEW byte \in Int
      PROVE  K!Codes(<<byte>>) = (IF byte \in K!Replies THEN <<>> ELSE <<byte>>) /\ <<byte>> \in Bytes
  <2>1. <<byte>> \in Bytes /\ Len(<<byte>>) = 1 /\ <<byte>>[1] = byte /\ 1 \in 1 .. 1 /\ 1 - 1 = 0
      BY DEF Bytes
  <2>2. K!Codes(<<byte>>) = Adds(<<>>, byte)
      BY <2>1, CodesAre, Zenon DEF K!Codes
  <2>3. Append(<<>>, byte) = <<byte>>
      OBVIOUS
  <2> QED
      BY <2>1, <2>2, <2>3, Zenon DEF Adds
<1> QED
    BY <1>1, <1>2, <1>3, Zenon
-----------------------------------------------------------------------------
(* A byte at the end, and the first byte.                                    *)
LEMMA Ends ==
    /\ \A a \in Bytes, x \in Int : Append(a, x) = a \o <<x>> /\ Append(a, x) \in Bytes
    /\ \A a \in Bytes : a # <<>> => Head(a) \in Int /\ Tail(a) \in Bytes /\ a = <<Head(a)>> \o Tail(a)
<1>1. \A a \in Bytes, x \in Int : Append(a, x) = a \o <<x>> /\ Append(a, x) \in Bytes
    BY AppendIsConcat, AppendProperties, Zenon DEF Bytes
<1>2. ASSUME NEW a \in Bytes, a # <<>> PROVE Head(a) \in Int /\ Tail(a) \in Bytes /\ a = <<Head(a)>> \o Tail(a)
  <2>1. Head(a) \in Int /\ Tail(a) \in Bytes
      BY <1>2, HeadTailProperties, Zenon DEF Bytes
  <2>2. a = <<Head(a)>> \o Tail(a)
      BY <1>2 DEF Bytes
  <2> QED
      BY <2>1, <2>2, Zenon
<1> QED
    BY <1>1, <1>2, Zenon

ScanCodes == (0 .. 255) \ K!Replies

(* Scan codes are bytes, and as codes they all stay.                         *)
LEMMA ScanCodesAre ==
    ASSUME NEW s \in Seq(ScanCodes)
    PROVE  /\ s \in Bytes
           /\ s # <<>> => Head(s) \in Int /\ Head(s) \notin K!Replies /\ Tail(s) \in Seq(ScanCodes)
<1>0. 0 .. 255 \subseteq Int
    OBVIOUS
<1>1. ScanCodes \subseteq Int
    BY <1>0, Zenon DEF ScanCodes
<1>2. s \in Bytes
    BY <1>1, SeqMonotonic, Zenon DEF Bytes
<1>3. s # <<>> => Head(s) \in ScanCodes /\ Tail(s) \in Seq(ScanCodes)
    BY HeadTailProperties, Zenon
<1> QED
    BY <1>1, <1>2, <1>3, Zenon DEF ScanCodes

Stages == {"idle", "lock", "consume", "decode", "command", "parameter"}
Places == [at : Stages, core : Cores \cup {K!Free}, byte : Int]

(* The types that the stream rests on.                                       *)
KeyboardTypes ==
    /\ toType \in Seq(ScanCodes) /\ output \in Bytes /\ raw \in Bytes /\ decoded \in Bytes /\ overrun \in Nat
    /\ DOMAIN prologue = Cores
    /\ \A c \in Cores : prologue[c].at = "produce" => prologue[c].byte \in Int
    /\ epilogue \in Places

(* s_RawLock excludes: a core between lock and unlock in its prologue, and   *)
(* the epilogue between the two in Fetch, is the one holder; and Fetch, with *)
(* interrupts off from before it waits for the lock, is in no prologue's way.*)
OneHolder ==
    /\ \A c \in Cores : prologue[c].at \in {"read", "produce"} => rawLock = c
    /\ epilogue.at = "consume" => rawLock = epilogue.core
    /\ epilogue.at \in {"lock", "consume"} => prologue[epilogue.core].at = "outside"
    /\ epilogue.at # "idle" => epilogue.core \in Cores

KeyboardInv == KeyboardTypes /\ OneHolder /\ K!StreamInOrder

(* At most one byte is between the port and s_RawBytes.                      *)
OneDrained ==
    /\ \A c \in Cores : prologue[c].at = "produce" => K!Drained = <<prologue[c].byte>>
    /\ (\A c \in Cores : prologue[c].at # "produce") => K!Drained = <<>>
    /\ K!Drained \in Bytes

(* The lock sees to that.                                                    *)
LEMMA LockGivesOneDrained == KeyboardTypes /\ OneHolder => OneDrained
<1> SUFFICES ASSUME KeyboardTypes, OneHolder PROVE OneDrained
    OBVIOUS
<1> DEFINE held == {c \in Cores : prologue[c].at = "produce"}
<1>1. K!Drained = IF held = {} THEN <<>> ELSE <<prologue[CHOOSE c \in held : TRUE].byte>>
    BY DEF K!Drained
<1>2. ASSUME NEW c \in Cores, prologue[c].at = "produce" PROVE K!Drained = <<prologue[c].byte>> /\ K!Drained \in Bytes
  <2>1. \A d \in held : d = c
    <3>1. rawLock = c
        BY <1>2, Zenon DEF OneHolder
    <3>2. \A d \in held : rawLock = d
        BY Zenon DEF OneHolder
    <3> QED
        BY <3>1, <3>2, Zenon
  <2>2. c \in held
      BY <1>2, Zenon
  <2> HIDE DEF held
  <2>3. (CHOOSE d \in held : TRUE) \in held
      BY <2>2, Zenon
  <2>4. (CHOOSE d \in held : TRUE) = c
      BY <2>1, <2>3, Zenon
  <2>5. held # {}
      BY <2>2, Zenon
  <2>6. K!Drained = <<prologue[c].byte>>
      BY <1>1, <2>4, <2>5, Zenon
  <2>7. prologue[c].byte \in Int
      BY <1>2, Zenon DEF KeyboardTypes
  <2> QED
      BY <2>6, <2>7, CodesOfOne, Zenon
<1>3. ASSUME \A c \in Cores : prologue[c].at # "produce" PROVE K!Drained = <<>> /\ K!Drained \in Bytes
  <2>1. held = {}
      BY <1>3, Zenon
  <2> HIDE DEF held
  <2> QED
      BY <1>1, <2>1, CodesOfOne, Zenon
<1> QED
    BY <1>2, <1>3, Zenon DEF OneDrained

(* The types hold from the start on and are kept.                            *)
LEMMA KeyboardTypesStart == K!ScriptsAssumption /\ K!Init => KeyboardTypes /\ OneHolder
<1> SUFFICES ASSUME K!ScriptsAssumption, K!Init PROVE KeyboardTypes /\ OneHolder
    OBVIOUS
<1>1. toType \in Seq(ScanCodes)
    BY Zenon DEF K!ScriptsAssumption, K!Init, ScanCodes
<1>2. output \in Bytes /\ raw \in Bytes /\ decoded \in Bytes
    BY CodesOfOne, Zenon DEF K!Init
<1>3. overrun \in Nat
    BY DEF K!Init
<1>4. DOMAIN prologue = Cores /\ \A c \in Cores : prologue[c].at = "outside"
    BY DEF K!Init, K!Outside
<1>5. epilogue = [at |-> "idle", core |-> K!Free, byte |-> -1]
    BY DEF K!Init, K!Idle, K!None
<1>6. epilogue \in Places
    BY <1>5 DEF Places, Stages
<1>7. epilogue.at = "idle"
    BY <1>5
<1>8. KeyboardTypes
    BY <1>1, <1>2, <1>3, <1>4, <1>6 DEF KeyboardTypes
<1>9. OneHolder
    BY <1>4, <1>7 DEF OneHolder
<1> QED
    BY <1>8, <1>9

(* What a prologue's step does to the map of the prologues.                  *)
LEMMA PrologueIs ==
    ASSUME DOMAIN prologue = Cores, NEW c \in Cores, NEW p, prologue' = [prologue EXCEPT ![c] = p]
    PROVE  DOMAIN prologue' = Cores /\ prologue'[c] = p /\ \A d \in Cores : d # c => prologue'[d] = prologue[d]
    OBVIOUS

(* What Goto does to the epilogue's record.                                  *)
LEMMA GotoIs ==
    ASSUME epilogue \in Places, NEW w \in Stages, epilogue' = [epilogue EXCEPT !.at = w]
    PROVE  /\ epilogue' \in Places /\ epilogue'.at = w
           /\ epilogue'.core = epilogue.core /\ epilogue'.byte = epilogue.byte
    BY DEF Places

(* What Fetch does to it when it has a byte.                                 *)
LEMMA FetchedIs ==
    ASSUME epilogue \in Places, NEW b \in Int, epilogue' = [epilogue EXCEPT !.at = "decode", !.byte = b]
    PROVE  /\ epilogue' \in Places /\ epilogue'.at = "decode"
           /\ epilogue'.core = epilogue.core /\ epilogue'.byte = b
<1>1. epilogue' = [at |-> "decode", core |-> epilogue.core, byte |-> b]
    BY Zenon DEF Places
<1>2. epilogue.core \in Cores \cup {K!Free}
    BY DEF Places
<1> QED
    BY <1>1, <1>2 DEF Places, Stages

(* What it is when an epilogue begins, and when none runs.                   *)
LEMMA BegunIs ==
    ASSUME NEW c \in Cores, epilogue' = [K!Idle EXCEPT !.at = "lock", !.core = c]
    PROVE  epilogue' \in Places /\ epilogue'.at = "lock" /\ epilogue'.core = c
<1>1. epilogue' = [at |-> "lock", core |-> c, byte |-> -1]
    BY Zenon DEF K!Idle, K!None
<1> QED
    BY <1>1 DEF Places, Stages

(* At rest there is no epilogue and no core that runs one.                   *)
LEMMA IdleIs == K!Idle \in Places /\ K!Idle.at = "idle"
<1>1. K!Idle = [at |-> "idle", core |-> K!Free, byte |-> -1]
    BY DEF K!Idle, K!None
<1> QED
    BY <1>1 DEF Places, Stages

(* The prologue's steps keep types and lock.                                 *)
LEMMA PrologueKeeps ==
    ASSUME K!ScriptsAssumption, KeyboardTypes, OneHolder, NEW c \in Cores,
           K!Interrupt(c) \/ K!PrologueLock(c) \/ K!ReadByte(c) \/ K!ProduceByte(c) \/ K!PrologueEnd(c)
    PROVE  KeyboardTypes' /\ OneHolder'
<1>0. c # K!Free /\ \A d \in Cores : d # K!Free
    BY DEF K!ScriptsAssumption
<1>1. DOMAIN prologue = Cores
    BY DEF KeyboardTypes
<1>2. CASE K!Interrupt(c)
  <2>1. prologue' = [prologue EXCEPT ![c] = [at |-> "lock"]] /\ prologue[c].at = "outside"
        /\ ~(epilogue.core = c /\ epilogue.at \in {"lock", "consume"})
      BY <1>2, Zenon DEF K!Interrupt, K!InterruptsOff
  <2>2. DOMAIN prologue' = Cores /\ prologue'[c] = [at |-> "lock"] /\ \A d \in Cores : d # c => prologue'[d] = prologue[d]
      BY <1>1, <2>1, PrologueIs, Zenon
  <2>3. prologue'[c].at = "lock"
      BY <2>2
  <2>4. UNCHANGED <<toType, output, raw, decoded, overrun, rawLock, epilogue>>
      BY <1>2 DEF K!Interrupt, K!device, K!decoding
  <2>5. KeyboardTypes'
      BY <2>2, <2>3, <2>4, Zenon DEF KeyboardTypes
  <2>6. OneHolder'
      BY <2>1, <2>2, <2>3, <2>4, Zenon DEF OneHolder
  <2> QED
      BY <2>5, <2>6
<1>3. CASE K!PrologueLock(c)
  <2>1. prologue' = [prologue EXCEPT ![c] = [at |-> "read", left |-> BURST]] /\ prologue[c].at = "lock"
        /\ rawLock = K!Free /\ rawLock' = c
      BY <1>3, Zenon DEF K!PrologueLock, K!LockTaken
  <2>2. DOMAIN prologue' = Cores /\ prologue'[c] = [at |-> "read", left |-> BURST]
        /\ \A d \in Cores : d # c => prologue'[d] = prologue[d]
      BY <1>1, <2>1, PrologueIs, Zenon
  <2>3. prologue'[c].at = "read"
      BY <2>2
  <2>4. UNCHANGED <<toType, output, raw, decoded, overrun, epilogue>>
      BY <1>3 DEF K!PrologueLock, K!device, K!decoding
  <2>5. KeyboardTypes'
      BY <2>2, <2>3, <2>4, Zenon DEF KeyboardTypes
  <2>6. \A d \in Cores : d # c => prologue'[d].at \notin {"read", "produce"}
      BY <1>0, <2>1, <2>2, Zenon DEF OneHolder
  <2>7. epilogue.at # "consume" /\ (epilogue.at = "lock" => epilogue.core # c)
      BY <1>0, <2>1, Zenon DEF OneHolder
  <2>8. OneHolder'
      BY <2>1, <2>2, <2>4, <2>6, <2>7, Zenon DEF OneHolder
  <2> QED
      BY <2>5, <2>8
<1>4. ASSUME NEW p, prologue' = [prologue EXCEPT ![c] = p], prologue[c].at \in {"read", "produce"},
             p.at \in {"read", "produce"}, UNCHANGED <<rawLock, epilogue>>
      PROVE  OneHolder' /\ DOMAIN prologue' = Cores /\ prologue'[c] = p
             /\ \A d \in Cores : d # c => prologue'[d] = prologue[d]
  <2>1. DOMAIN prologue' = Cores /\ prologue'[c] = p /\ \A d \in Cores : d # c => prologue'[d] = prologue[d]
      BY <1>1, <1>4, PrologueIs, Zenon
  <2>2. epilogue.at \in {"lock", "consume"} => epilogue.core \in Cores /\ epilogue.core # c
      BY <1>4, Zenon DEF OneHolder
  <2>3. OneHolder'
      BY <1>4, <2>1, <2>2, Zenon DEF OneHolder
  <2> QED
      BY <2>1, <2>3, Zenon
<1>5. CASE K!ReadByte(c)
  <2> DEFINE p == [at |-> "produce", left |-> prologue[c].left - 1, byte |-> Head(output)]
  <2>1. prologue' = [prologue EXCEPT ![c] = p] /\ prologue[c].at = "read" /\ output # <<>> /\ output' = Tail(output)
      BY <1>5, Zenon DEF K!ReadByte
  <2>2. UNCHANGED <<toType, raw, decoded, overrun, rawLock, epilogue>>
      BY <1>5 DEF K!ReadByte, K!decoding
  <2>3. p.at = "produce" /\ p.byte = Head(output)
      BY Zenon
  <2> HIDE DEF p
  <2>4. OneHolder' /\ DOMAIN prologue' = Cores /\ prologue'[c] = p
        /\ \A d \in Cores : d # c => prologue'[d] = prologue[d]
      BY <1>4, <2>1, <2>2, <2>3, Zenon
  <2>5. Head(output) \in Int /\ output' \in Bytes
      BY <2>1, Ends, Zenon DEF KeyboardTypes
  <2>6. KeyboardTypes'
      BY <2>2, <2>3, <2>4, <2>5, Zenon DEF KeyboardTypes
  <2> QED
      BY <2>4, <2>6
<1>6. CASE K!ProduceByte(c)
  <2> DEFINE p == [at |-> "read", left |-> prologue[c].left]
  <2>1. prologue' = [prologue EXCEPT ![c] = p] /\ prologue[c].at = "produce"
        /\ (raw' = raw \/ raw' = Append(raw, prologue[c].byte)) /\ (overrun' = overrun \/ overrun' = overrun + 1)
      BY <1>6, Zenon DEF K!ProduceByte
  <2>2. UNCHANGED <<toType, output, decoded, rawLock, epilogue>>
      BY <1>6 DEF K!ProduceByte, K!device, K!decoding
  <2>3. p.at = "read"
      BY Zenon
  <2> HIDE DEF p
  <2>4. OneHolder' /\ DOMAIN prologue' = Cores /\ prologue'[c] = p
        /\ \A d \in Cores : d # c => prologue'[d] = prologue[d]
      BY <1>4, <2>1, <2>2, <2>3, Zenon
  <2>5. raw' \in Bytes
      BY <2>1, Ends, Zenon DEF KeyboardTypes
  <2>6. overrun' \in Nat
      BY <2>1 DEF KeyboardTypes
  <2>7. KeyboardTypes'
      BY <2>2, <2>3, <2>4, <2>5, <2>6, Zenon DEF KeyboardTypes
  <2> QED
      BY <2>4, <2>7
<1>7. CASE K!PrologueEnd(c)
  <2>1. prologue' = [prologue EXCEPT ![c] = K!Outside] /\ prologue[c].at = "read" /\ rawLock' = K!Free
      BY <1>7, Zenon DEF K!PrologueEnd
  <2>2. DOMAIN prologue' = Cores /\ prologue'[c] = K!Outside /\ \A d \in Cores : d # c => prologue'[d] = prologue[d]
      BY <1>1, <2>1, PrologueIs, Zenon
  <2>3. prologue'[c].at = "outside"
      BY <2>2 DEF K!Outside
  <2>4. UNCHANGED <<toType, output, raw, decoded, overrun, epilogue>>
      BY <1>7 DEF K!PrologueEnd, K!device, K!decoding
  <2>5. KeyboardTypes'
      BY <2>2, <2>3, <2>4, Zenon DEF KeyboardTypes
  <2>6. \A d \in Cores : d # c => prologue'[d].at \notin {"read", "produce"}
      BY <2>1, <2>2, Zenon DEF OneHolder
  <2>7. epilogue.at # "consume" /\ (epilogue.at = "lock" => epilogue.core # c)
      BY <2>1, Zenon DEF OneHolder
  <2>8. OneHolder'
      BY <2>2, <2>3, <2>4, <2>6, <2>7, Zenon DEF OneHolder
  <2> QED
      BY <2>5, <2>8
<1> QED
    BY <1>2, <1>3, <1>5, <1>6, <1>7

(* The epilogue's steps keep types and lock.                                 *)
LEMMA EpilogueKeeps ==
    ASSUME K!ScriptsAssumption, KeyboardTypes, OneHolder,
           \/ \E c \in Cores : K!EpilogueBegin(c)
           \/ K!FetchLock \/ K!FetchConsume \/ K!DecodeByte \/ K!SendCommand \/ K!SendParameter
    PROVE  KeyboardTypes' /\ OneHolder'
<1>0. \A d \in Cores : d # K!Free
    BY DEF K!ScriptsAssumption
<1>1. epilogue \in Places
    BY DEF KeyboardTypes
<1>2. ASSUME NEW c \in Cores, K!EpilogueBegin(c) PROVE KeyboardTypes' /\ OneHolder'
  <2>1. epilogue' = [K!Idle EXCEPT !.at = "lock", !.core = c] /\ prologue[c].at = "outside"
      BY <1>2, ZenonT(60) DEF K!EpilogueBegin
  <2>2. UNCHANGED <<toType, output, raw, decoded, overrun, rawLock, prologue>>
      BY <1>2, Zenon DEF K!EpilogueBegin, K!device, K!decoding
  <2>3. epilogue' \in Places /\ epilogue'.at = "lock" /\ epilogue'.core = c
      BY <2>1, BegunIs, Zenon
  <2>4. KeyboardTypes'
      BY <2>2, <2>3, Zenon DEF KeyboardTypes
  <2>5. OneHolder'
      BY <2>1, <2>2, <2>3, Zenon DEF OneHolder
  <2> QED
      BY <2>4, <2>5
<1>3. CASE K!FetchLock
  <2>1. epilogue' = [epilogue EXCEPT !.at = "consume"] /\ epilogue.at = "lock" /\ prologue[epilogue.core].at = "outside"
        /\ rawLock = K!Free /\ rawLock' = epilogue.core
      BY <1>3, Zenon DEF K!FetchLock, K!EpilogueAt, K!LockTaken, K!Goto
  <2>2. UNCHANGED <<toType, output, raw, decoded, overrun, prologue>>
      BY <1>3 DEF K!FetchLock, K!device, K!decoding
  <2>3. epilogue' \in Places /\ epilogue'.at = "consume" /\ epilogue'.core = epilogue.core
      BY <1>1, <2>1, GotoIs DEF Stages
  <2>4. KeyboardTypes'
      BY <2>2, <2>3, Zenon DEF KeyboardTypes
  <2>5. epilogue.core \in Cores /\ \A d \in Cores : prologue[d].at \notin {"read", "produce"}
      BY <1>0, <2>1, Zenon DEF OneHolder
  <2>6. OneHolder'
      BY <2>1, <2>2, <2>3, <2>5, Zenon DEF OneHolder
  <2> QED
      BY <2>4, <2>6
<1>4. CASE K!FetchConsume
  <2>1. epilogue.at = "consume" /\ prologue[epilogue.core].at = "outside" /\ rawLock' = K!Free
      BY <1>4, Zenon DEF K!FetchConsume, K!EpilogueAt
  <2>2. UNCHANGED <<toType, output, decoded, overrun, prologue>>
      BY <1>4 DEF K!FetchConsume, K!device, K!decoding
  <2>3. \A d \in Cores : prologue[d].at \notin {"read", "produce"}
      BY <2>1, Zenon DEF OneHolder
  <2>4. epilogue' \in Places /\ raw' \in Bytes /\ epilogue'.at \in {"idle", "decode"}
        /\ (epilogue'.at # "idle" => epilogue'.core = epilogue.core)
    <3>1. CASE raw = <<>>
      <4>1. epilogue' = K!Idle /\ raw' = raw
          BY <1>4, <3>1, Zenon DEF K!FetchConsume
      <4> QED
          BY <4>1, IdleIs, Zenon DEF KeyboardTypes
    <3>2. CASE raw # <<>>
      <4>1. epilogue' = [epilogue EXCEPT !.at = "decode", !.byte = Head(raw)] /\ raw' = Tail(raw)
          BY <1>4, <3>2, Zenon DEF K!FetchConsume
      <4>2. Head(raw) \in Int /\ Tail(raw) \in Bytes
          BY <3>2, Ends, Zenon DEF KeyboardTypes
      <4> QED
          BY <1>1, <4>1, <4>2, FetchedIs, Zenon
    <3> QED
        BY <3>1, <3>2, Zenon
  <2>5. KeyboardTypes'
      BY <2>2, <2>4, Zenon DEF KeyboardTypes
  <2>6. epilogue.core \in Cores
      BY <2>1, Zenon DEF OneHolder
  <2>7. OneHolder'
      BY <2>2, <2>3, <2>4, <2>6, Zenon DEF OneHolder
  <2> QED
      BY <2>5, <2>7
<1>5. ASSUME NEW w \in {"lock", "command", "parameter"}, epilogue' = [epilogue EXCEPT !.at = w],
             epilogue.at \in {"decode", "command", "parameter"}, prologue[epilogue.core].at = "outside",
             UNCHANGED <<toType, output, raw, overrun, rawLock, prologue>>, decoded' \in Bytes
      PROVE  KeyboardTypes' /\ OneHolder'
  <2>1. w \in Stages
      BY <1>5 DEF Stages
  <2>2. epilogue' \in Places /\ epilogue'.at = w /\ epilogue'.core = epilogue.core
      BY <1>1, <1>5, <2>1, GotoIs, Zenon
  <2>3. KeyboardTypes'
      BY <1>5, <2>2, Zenon DEF KeyboardTypes
  <2>4. epilogue.core \in Cores /\ w # "consume"
      BY <1>5, Zenon DEF OneHolder
  <2>5. OneHolder'
      BY <1>5, <2>2, <2>4, Zenon DEF OneHolder
  <2> QED
      BY <2>3, <2>5
<1>6. CASE K!DecodeByte
  <2>1. epilogue.at = "decode" /\ prologue[epilogue.core].at = "outside"
        /\ \E w \in {"lock", "command", "parameter"} : epilogue' = [epilogue EXCEPT !.at = w]
      BY <1>6, Zenon DEF K!DecodeByte, K!EpilogueAt, K!Goto, K!FetchNext
  <2>2. UNCHANGED <<toType, output, raw, overrun, rawLock, prologue>>
      BY <1>6 DEF K!DecodeByte, K!device
  <2>3. decoded' = decoded \/ decoded' = Append(decoded, epilogue.byte)
      BY <1>6 DEF K!DecodeByte, K!decoding
  <2>4. epilogue.byte \in Int
      BY <1>1 DEF Places
  <2>5. decoded' \in Bytes
      BY <2>3, <2>4, Ends, Zenon DEF KeyboardTypes
  <2> QED
      BY <1>5, <2>1, <2>2, <2>5, Zenon
<1>7. CASE K!SendCommand \/ K!SendParameter
  <2>1. epilogue.at \in {"command", "parameter"} /\ prologue[epilogue.core].at = "outside"
        /\ \E w \in {"lock", "command", "parameter"} : epilogue' = [epilogue EXCEPT !.at = w]
      BY <1>7, Zenon DEF K!SendCommand, K!SendParameter, K!EpilogueAt, K!Goto, K!FetchNext
  <2>2. UNCHANGED <<toType, output, raw, overrun, rawLock, prologue, decoded>>
      BY <1>7 DEF K!SendCommand, K!SendParameter, K!decoding
  <2>3. decoded' \in Bytes
      BY <2>2, Zenon DEF KeyboardTypes
  <2> QED
      BY <1>5, <2>1, <2>2, <2>3, Zenon
<1> QED
    BY <1>2, <1>3, <1>4, <1>6, <1>7

(* So does the keyboard.                                                     *)
LEMMA DeviceKeeps ==
    ASSUME KeyboardTypes, OneHolder, K!Type \/ K!TakeInput
    PROVE  KeyboardTypes' /\ OneHolder'
<1>1. UNCHANGED <<raw, rawLock, prologue, epilogue, decoded, overrun>>
    BY DEF K!Type, K!TakeInput, K!driver, K!decoding
<1>2. toType' \in Seq(ScanCodes) /\ output' \in Bytes
  <2>1. CASE K!Type
    <3>1. toType # <<>> /\ output' = Append(output, Head(toType)) /\ toType' = Tail(toType)
        BY <2>1, Zenon DEF K!Type
    <3>2. Head(toType) \in Int /\ Tail(toType) \in Seq(ScanCodes)
        BY <3>1, ScanCodesAre, Zenon DEF KeyboardTypes
    <3> QED
        BY <3>1, <3>2, Ends, Zenon DEF KeyboardTypes
  <2>2. CASE K!TakeInput
    <3>1. toType' = toType /\ \E reply \in Int : output' = Append(output, reply)
        BY <2>2 DEF K!TakeInput, K!ACKNOWLEDGE, K!RESEND
    <3> QED
        BY <3>1, Ends, Zenon DEF KeyboardTypes
  <2> QED
      BY <2>1, <2>2
<1>3. KeyboardTypes'
    BY <1>1, <1>2, Zenon DEF KeyboardTypes
<1>4. OneHolder'
    BY <1>1, Zenon DEF OneHolder
<1> QED
    BY <1>3, <1>4
-----------------------------------------------------------------------------
(* The stream.                                                                *)

\* Concatenation, as the next lemmas need it: with its laws and nothing else.
Cat(a, b) == a \o b

(* It is associative, with the empty sequence as its unit.                   *)
LEMMA CatLaws ==
    /\ \A a, b, c \in Bytes : Cat(Cat(a, b), c) = Cat(a, Cat(b, c))
    /\ \A a, b \in Bytes : Cat(a, b) \in Bytes
    /\ \A a \in Bytes : Cat(a, <<>>) = a /\ Cat(<<>>, a) = a
    BY Grouping, Zenon DEF Cat

(* Three parts that are bytes: associativity for them alone.                 *)
LEMMA CatRegroup ==
    ASSUME NEW a \in Bytes, NEW b \in Bytes, NEW c \in Bytes
    PROVE  Cat(Cat(a, b), c) = Cat(a, Cat(b, c)) /\ Cat(a, b) \in Bytes /\ Cat(b, c) \in Bytes
    BY CatLaws, ZenonT(60)

(* The codes of one byte more, and of the first byte and the rest.           *)
LEMMA CodesCat ==
    /\ \A s \in Bytes : K!Codes(s) \in Bytes
    /\ \A s \in Bytes, x \in Int : K!Codes(Append(s, x)) = Cat(K!Codes(s), K!Codes(<<x>>))
    /\ \A s \in Bytes : s # <<>> => K!Codes(s) = Cat(K!Codes(<<Head(s)>>), K!Codes(Tail(s)))
<1>1. \A s, t \in Bytes : K!Codes(s \o t) = Cat(K!Codes(s), K!Codes(t)) /\ K!Codes(s) \in Bytes
    BY CodesConcat, Zenon DEF Cat
<1>2. ASSUME NEW s \in Bytes, NEW x \in Int PROVE K!Codes(Append(s, x)) = Cat(K!Codes(s), K!Codes(<<x>>))
  <2>1. Append(s, x) = s \o <<x>> /\ <<x>> \in Bytes
      BY Ends, CodesOfOne, Zenon
  <2> QED
      BY <1>1, <2>1, Zenon
<1>3. ASSUME NEW s \in Bytes, s # <<>> PROVE K!Codes(s) = Cat(K!Codes(<<Head(s)>>), K!Codes(Tail(s)))
  <2>1. s = <<Head(s)>> \o Tail(s) /\ Head(s) \in Int /\ Tail(s) \in Bytes
      BY <1>3, Ends, Zenon
  <2>2. <<Head(s)>> \in Bytes
      BY <2>1, CodesOfOne, Zenon
  <2>3. K!Codes(<<Head(s)>> \o Tail(s)) = Cat(K!Codes(<<Head(s)>>), K!Codes(Tail(s)))
      BY <1>1, <2>1, <2>2, Zenon
  <2> QED
      BY <2>1, <2>3, Zenon
<1> QED
    BY <1>1, <1>2, <1>3, Zenon

\* The codes of what has been taken, of the queue, of what is between port and
\* queue, and of what waits in the controller.
Flow(t, r, d, o) == Cat(Cat(Cat(K!Codes(t), K!Codes(r)), K!Codes(d)), K!Codes(o))

(* The parts of a flow are bytes.                                            *)
LEMMA FlowParts ==
    ASSUME NEW t \in Bytes, NEW r \in Bytes, NEW d \in Bytes, NEW o \in Bytes
    PROVE  /\ Cat(Cat(K!Codes(t), K!Codes(r)), K!Codes(d)) \in Bytes /\ K!Codes(o) \in Bytes
           /\ Flow(t, r, d, o) \in Bytes
<1>1. K!Codes(t) \in Bytes /\ K!Codes(r) \in Bytes /\ K!Codes(d) \in Bytes /\ K!Codes(o) \in Bytes
    BY CodesCat, Zenon
<1>2. Cat(K!Codes(t), K!Codes(r)) \in Bytes
    BY <1>1, CatLaws, Zenon
<1>3. Cat(Cat(K!Codes(t), K!Codes(r)), K!Codes(d)) \in Bytes
    BY <1>1, <1>2, CatLaws, Zenon
<1>4. Flow(t, r, d, o) \in Bytes
    BY <1>1, <1>3, CatLaws, Zenon DEF Flow
<1> QED
    BY <1>1, <1>3, <1>4, Zenon

(* A code arrives: one more at the end.                                      *)
LEMMA FlowSendsCode ==
    ASSUME NEW t \in Bytes, NEW r \in Bytes, NEW d \in Bytes, NEW o \in Bytes, NEW x \in Int, x \notin K!Replies
    PROVE  Flow(t, r, d, Append(o, x)) = Cat(Flow(t, r, d, o), <<x>>)
<1> DEFINE a == Cat(Cat(K!Codes(t), K!Codes(r)), K!Codes(d))
           b == K!Codes(o)
           w == <<x>>
<1>1. a \in Bytes /\ b \in Bytes /\ w \in Bytes
    BY FlowParts, CodesOfOne, Zenon
<1>2. K!Codes(w) = w
    BY CodesOfOne, Zenon
<1>3. Flow(t, r, d, o) = Cat(a, b) /\ Flow(t, r, d, Append(o, x)) = Cat(a, Cat(b, w))
    BY <1>2, CodesCat, Zenon DEF Flow
<1> HIDE DEF a, b, w
<1>4. Cat(Cat(a, b), w) = Cat(a, Cat(b, w))
    BY <1>1, CatRegroup, SMT
<1> QED
    BY <1>3, <1>4, Zenon DEF w

(* A reply arrives: no code.                                                 *)
LEMMA FlowSendsReply ==
    ASSUME NEW t \in Bytes, NEW r \in Bytes, NEW d \in Bytes, NEW o \in Bytes, NEW x \in Int, x \in K!Replies
    PROVE  Flow(t, r, d, Append(o, x)) = Flow(t, r, d, o)
<1> DEFINE b == K!Codes(o)
<1>1. b \in Bytes
    BY FlowParts, Zenon
<1>2. K!Codes(<<x>>) = <<>>
    BY CodesOfOne, Zenon
<1>3. K!Codes(Append(o, x)) = Cat(b, <<>>)
    BY <1>2, CodesCat, Zenon
<1> HIDE DEF b
<1>4. Cat(b, <<>>) = b
    BY <1>1, CatLaws, Zenon
<1> QED
    BY <1>3, <1>4, Zenon DEF Flow, b

(* The prologue reads it.                                                    *)
LEMMA FlowReads ==
    ASSUME NEW t \in Bytes, NEW r \in Bytes, NEW o \in Bytes, o # <<>>
    PROVE  Flow(t, r, <<Head(o)>>, Tail(o)) = Flow(t, r, <<>>, o)
<1> DEFINE a == Cat(K!Codes(t), K!Codes(r))
           h == K!Codes(<<Head(o)>>)
           b == K!Codes(Tail(o))
<1>1. a \in Bytes /\ h \in Bytes /\ b \in Bytes
  <2>1. Head(o) \in Int /\ Tail(o) \in Bytes
      BY Ends, Zenon
  <2>2. <<Head(o)>> \in Bytes
      BY <2>1, CodesOfOne, Zenon
  <2>3. K!Codes(t) \in Bytes /\ K!Codes(r) \in Bytes /\ h \in Bytes /\ b \in Bytes
      BY <2>1, <2>2, CodesCat, Zenon
  <2> QED
      BY <2>3, CatLaws, Zenon
<1>2. Flow(t, r, <<Head(o)>>, Tail(o)) = Cat(Cat(a, h), b)
    BY Zenon DEF Flow
<1>3. Flow(t, r, <<>>, o) = Cat(Cat(a, <<>>), Cat(h, b))
    BY CodesCat, CodesOfOne, Zenon DEF Flow
<1> HIDE DEF a, h, b
<1>4. Cat(a, <<>>) = a
    BY <1>1, CatLaws, Zenon
<1>5. Cat(Cat(a, h), b) = Cat(a, Cat(h, b))
    BY <1>1, CatRegroup, SMT
<1> QED
    BY <1>2, <1>3, <1>4, <1>5, Zenon

(* The prologue puts it into the queue, or drops a reply.                    *)
LEMMA FlowProduces ==
    ASSUME NEW t \in Bytes, NEW r \in Bytes, NEW o \in Bytes, NEW x \in Int
    PROVE  /\ Flow(t, Append(r, x), <<>>, o) = Flow(t, r, <<x>>, o)
           /\ x \in K!Replies => Flow(t, r, <<>>, o) = Flow(t, r, <<x>>, o)
<1> DEFINE a == K!Codes(t)
           b == K!Codes(r)
           h == K!Codes(<<x>>)
<1>1. a \in Bytes /\ b \in Bytes /\ h \in Bytes
  <2>1. <<x>> \in Bytes
      BY CodesOfOne, Zenon
  <2> QED
      BY <2>1, CodesCat, Zenon
<1>2. Flow(t, Append(r, x), <<>>, o) = Cat(Cat(Cat(a, Cat(b, h)), <<>>), K!Codes(o))
    BY CodesCat, CodesOfOne, Zenon DEF Flow
<1>3. Flow(t, r, <<x>>, o) = Cat(Cat(Cat(a, b), h), K!Codes(o))
    BY Zenon DEF Flow
<1>4. Flow(t, r, <<>>, o) = Cat(Cat(Cat(a, b), <<>>), K!Codes(o))
    BY CodesOfOne, Zenon DEF Flow
<1>5. x \in K!Replies => h = <<>>
    BY CodesOfOne, Zenon
<1> HIDE DEF a, b, h
<1>6. Cat(Cat(a, b), h) = Cat(a, Cat(b, h)) /\ Cat(b, h) \in Bytes
    BY <1>1, CatRegroup, SMT
<1>7. Cat(a, Cat(b, h)) \in Bytes
    BY <1>1, <1>6, CatLaws, Zenon
<1>8. Cat(Cat(a, Cat(b, h)), <<>>) = Cat(a, Cat(b, h))
    BY <1>7, CatLaws, Zenon
<1> QED
    BY <1>2, <1>3, <1>4, <1>5, <1>6, <1>8, Zenon

(* Fetch takes the queue's first byte.                                       *)
LEMMA FlowFetches ==
    ASSUME NEW r \in Bytes, NEW d \in Bytes, NEW o \in Bytes, r # <<>>
    PROVE  Flow(<<Head(r)>>, Tail(r), d, o) = Flow(<<>>, r, d, o)
<1>1. K!Codes(r) = Cat(K!Codes(<<Head(r)>>), K!Codes(Tail(r))) /\ K!Codes(r) \in Bytes
    BY CodesCat, Zenon
<1>2. Cat(<<>>, K!Codes(r)) = K!Codes(r)
    BY <1>1, CatLaws, Zenon
<1> QED
    BY <1>1, <1>2, CodesOfOne, Zenon DEF Flow

(* The decoder gets it, or it was a reply.                                   *)
LEMMA FlowDecodes ==
    ASSUME NEW r \in Bytes, NEW d \in Bytes, NEW o \in Bytes, NEW x \in Int
    PROVE  /\ x \in K!Replies => Flow(<<>>, r, d, o) = Flow(<<x>>, r, d, o)
           /\ x \notin K!Replies => Flow(<<x>>, r, d, o) = Cat(<<x>>, Flow(<<>>, r, d, o))
<1> DEFINE h == K!Codes(<<x>>)
           b == K!Codes(r)
           e == K!Codes(d)
           f == K!Codes(o)
           g == Cat(b, e)
<1>1. b \in Bytes /\ e \in Bytes /\ f \in Bytes /\ h \in Bytes
    BY CodesCat, CodesOfOne, Zenon
<1>2. Flow(<<>>, r, d, o) = Cat(Cat(Cat(<<>>, b), e), f) /\ Flow(<<x>>, r, d, o) = Cat(Cat(Cat(h, b), e), f)
    BY CodesOfOne, Zenon DEF Flow
<1>3. h = IF x \in K!Replies THEN <<>> ELSE <<x>>
    BY CodesOfOne, Zenon
<1> HIDE DEF h, b, e, f
<1>4. Cat(<<>>, b) = b /\ g \in Bytes
    BY <1>1, CatLaws, Zenon
<1>5. Cat(Cat(h, b), e) = Cat(h, g)
    BY <1>1, CatRegroup, SMT
<1> HIDE DEF g
<1>6. Cat(Cat(h, g), f) = Cat(h, Cat(g, f))
    BY <1>1, <1>4, CatRegroup, SMT
<1> QED
    BY <1>2, <1>3, <1>4, <1>5, <1>6, Zenon DEF g

\* InFlight is such a flow.
FlowIs ==
    /\ K!Taken \in Bytes /\ K!Drained \in Bytes
    /\ K!InFlight = Flow(K!Taken, raw, K!Drained, output)

(* Types and lock give that.                                                 *)
LEMMA InFlightIs == KeyboardTypes /\ OneHolder => FlowIs
<1> SUFFICES ASSUME KeyboardTypes, OneHolder PROVE FlowIs
    OBVIOUS
<1>1. K!Drained \in Bytes
    BY LockGivesOneDrained, Zenon DEF OneDrained
<1>2. epilogue.byte \in Int
    BY DEF KeyboardTypes, Places
<1>3. K!Taken \in Bytes
    BY <1>2, CodesOfOne, Zenon DEF K!Taken
<1>4. raw \in Bytes /\ output \in Bytes
    BY Zenon DEF KeyboardTypes
<1> DEFINE t == K!Taken
           d == K!Drained
<1>5. K!InFlight = K!Codes(((t \o raw) \o d) \o output)
    BY Zenon DEF K!InFlight
<1> HIDE DEF t, d
<1>6. t \in Bytes /\ d \in Bytes
    BY <1>1, <1>3, Zenon DEF t, d
<1>7. t \o raw \in Bytes /\ K!Codes(t \o raw) = K!Codes(t) \o K!Codes(raw)
    BY <1>4, <1>6, CodesConcat, Zenon
<1>8. (t \o raw) \o d \in Bytes /\ K!Codes((t \o raw) \o d) = K!Codes(t \o raw) \o K!Codes(d)
    BY <1>6, <1>7, CodesConcat, Zenon
<1>9. K!Codes(((t \o raw) \o d) \o output) = K!Codes((t \o raw) \o d) \o K!Codes(output)
    BY <1>4, <1>8, CodesConcat, Zenon
<1>10. K!InFlight = Flow(t, raw, d, output)
    BY <1>5, <1>7, <1>8, <1>9, Zenon DEF Flow, Cat
<1> QED
    BY <1>1, <1>3, <1>10, Zenon DEF FlowIs, t, d

\* All of the stream: decoded, on the way, still to be typed.
Whole == Cat(Cat(decoded, Flow(K!Taken, raw, K!Drained, output)), toType)

(* The keyboard moves the border between the last two parts.                 *)
LEMMA DeviceKeepsWhole ==
    ASSUME KeyboardTypes, FlowIs, K!Type \/ K!TakeInput
    PROVE  Whole' = Whole /\ overrun' = overrun
<1> DEFINE f == Flow(K!Taken, raw, K!Drained, output)
<1>1. UNCHANGED <<raw, decoded, overrun, K!Taken, K!Drained>>
  <2>1. UNCHANGED <<raw, decoded, overrun, prologue, epilogue>>
      BY DEF K!Type, K!TakeInput, K!driver, K!decoding
  <2>2. K!Taken' = K!Taken
      BY <2>1 DEF K!Taken
  <2>3. K!Drained' = K!Drained
      BY <2>1 DEF K!Drained
  <2> QED
      BY <2>1, <2>2, <2>3
<1>2. raw \in Bytes /\ output \in Bytes /\ decoded \in Bytes /\ K!Taken \in Bytes /\ K!Drained \in Bytes
    BY Zenon DEF KeyboardTypes, FlowIs
<1>3. f \in Bytes
    BY <1>2, FlowParts, Zenon
<1>4. CASE K!Type
  <2> DEFINE x == Head(toType)
             rest == Tail(toType)
             w == <<x>>
  <2>1. toType # <<>> /\ output' = Append(output, x) /\ toType' = rest
      BY <1>4, Zenon DEF K!Type
  <2>2. x \in Int /\ x \notin K!Replies /\ toType \in Bytes
      BY <2>1, ScanCodesAre, Zenon DEF KeyboardTypes
  <2>3. w \in Bytes /\ rest \in Bytes /\ toType = Cat(w, rest)
      BY <2>1, <2>2, Ends, CodesOfOne, Zenon DEF Cat
  <2> HIDE DEF x
  <2>4. Flow(K!Taken, raw, K!Drained, output') = Cat(f, w)
    <3>1. Flow(K!Taken, raw, K!Drained, Append(output, x)) = Cat(f, w)
        BY <1>2, <2>2, FlowSendsCode, SMT
    <3> QED
        BY <2>1, <3>1, Zenon
  <2> HIDE DEF f, w, rest
  <2>5. Whole' = Cat(Cat(decoded, Cat(f, w)), rest)
      BY <1>1, <2>1, <2>4, Zenon DEF Whole
  <2>6. Whole = Cat(Cat(decoded, f), Cat(w, rest))
      BY <2>3, Zenon DEF Whole, f
  <2> DEFINE a == Cat(decoded, f)
  <2>7. Cat(a, w) = Cat(decoded, Cat(f, w)) /\ a \in Bytes
      BY <1>2, <1>3, <2>3, CatRegroup, SMT
  <2> HIDE DEF a
  <2>8. Cat(Cat(a, w), rest) = Cat(a, Cat(w, rest))
      BY <2>3, <2>7, CatRegroup, SMT
  <2> QED
      BY <1>1, <2>5, <2>6, <2>7, <2>8, Zenon DEF a
<1>5. CASE K!TakeInput
  <2>1. toType' = toType /\ \E x \in K!Replies : output' = Append(output, x)
      BY <1>5, Zenon DEF K!TakeInput, K!Replies
  <2>2. PICK x \in K!Replies : output' = Append(output, x)
      BY <2>1, Zenon
  <2>3. x \in Int
      BY DEF K!Replies, K!ACKNOWLEDGE, K!RESEND
  <2>4. Flow(K!Taken, raw, K!Drained, output') = f
    <3>1. Flow(K!Taken, raw, K!Drained, Append(output, x)) = f
        BY <1>2, <2>3, FlowSendsReply, SMT
    <3> QED
        BY <2>2, <3>1, Zenon
  <2> QED
      BY <1>1, <2>1, <2>4, Zenon DEF Whole
<1> QED
    BY <1>4, <1>5, Zenon

(* The steps that move no byte.                                              *)
LEMMA NoByteMoves ==
    ASSUME UNCHANGED <<decoded, toType, output, raw>>, K!Taken' = K!Taken, K!Drained' = K!Drained
    PROVE  Whole' = Whole
    BY Zenon DEF Whole

(* A prologue moves a byte on, or drops one from a full queue: a code that   *)
(* it drops is counted.                                                      *)
LEMMA PrologueKeepsWhole ==
    ASSUME KeyboardTypes, OneHolder, OneDrained, OneDrained', FlowIs, NEW c \in Cores,
           K!Interrupt(c) \/ K!PrologueLock(c) \/ K!ReadByte(c) \/ K!ProduceByte(c) \/ K!PrologueEnd(c)
    PROVE  overrun' = 0 => overrun = 0 /\ Whole' = Whole
<1>0. raw \in Bytes /\ output \in Bytes /\ K!Taken \in Bytes /\ DOMAIN prologue = Cores
    BY Zenon DEF KeyboardTypes, FlowIs
<1>1. K!Taken' = K!Taken /\ toType' = toType /\ decoded' = decoded
    BY DEF K!Interrupt, K!PrologueLock, K!ReadByte, K!ProduceByte, K!PrologueEnd, K!Taken, K!device, K!decoding
<1>2. CASE K!Interrupt(c) \/ K!PrologueLock(c) \/ K!PrologueEnd(c)
  <2>1. prologue[c].at # "produce"
      BY <1>2, Zenon DEF K!Interrupt, K!InterruptsOff, K!PrologueLock, K!PrologueEnd
  <2>2. \E p : prologue' = [prologue EXCEPT ![c] = p] /\ p.at # "produce"
    <3>1. [at |-> "lock"].at # "produce" /\ [at |-> "read", left |-> BURST].at # "produce" /\ K!Outside.at # "produce"
        BY DEF K!Outside
    <3> QED
        BY <1>2, <3>1, Zenon DEF K!Interrupt, K!PrologueLock, K!PrologueEnd
  <2>3. prologue'[c].at # "produce" /\ \A d \in Cores : d # c => prologue'[d] = prologue[d]
      BY <1>0, <2>2, PrologueIs, Zenon
  <2>4. K!Drained' = K!Drained
    <3>1. CASE \E d \in Cores : prologue[d].at = "produce"
      <4>1. PICK d \in Cores : prologue[d].at = "produce"
          BY <3>1
      <4>2. prologue'[d] = prologue[d]
          BY <2>1, <2>3, <4>1, Zenon
      <4>3. K!Drained = <<prologue[d].byte>>
          BY <4>1, Zenon DEF OneDrained
      <4>4. prologue'[d].at = "produce"
          BY <4>1, <4>2, Zenon
      <4>5. K!Drained' = <<prologue'[d].byte>>
          BY <4>4, Zenon DEF OneDrained
      <4> QED
          BY <4>2, <4>3, <4>5, Zenon
    <3>2. CASE ~ \E d \in Cores : prologue[d].at = "produce"
      <4>1. \A d \in Cores : prologue'[d].at # "produce"
          BY <2>3, <3>2, ZenonT(60)
      <4> QED
          BY <3>2, <4>1, Zenon DEF OneDrained
    <3> QED
        BY <3>1, <3>2
  <2>5. UNCHANGED <<output, raw, overrun>>
      BY <1>2 DEF K!Interrupt, K!PrologueLock, K!PrologueEnd, K!device
  <2> QED
      BY <1>1, <2>4, <2>5, NoByteMoves, Zenon
<1>3. CASE K!ReadByte(c)
  <2> DEFINE p == [at |-> "produce", left |-> prologue[c].left - 1, byte |-> Head(output)]
  <2>1. prologue' = [prologue EXCEPT ![c] = p] /\ prologue[c].at = "read" /\ output # <<>> /\ output' = Tail(output)
        /\ raw' = raw /\ overrun' = overrun
      BY <1>3, Zenon DEF K!ReadByte
  <2>2. p.at = "produce" /\ p.byte = Head(output)
      BY Zenon
  <2> HIDE DEF p
  <2>3. prologue'[c] = p
      BY <1>0, <2>1, PrologueIs, Zenon
  <2>4. K!Drained' = <<Head(output)>>
      BY <2>2, <2>3, Zenon DEF OneDrained
  <2>5. \A d \in Cores : prologue[d].at # "produce"
      BY <2>1, Zenon DEF OneHolder
  <2>6. K!Drained = <<>>
      BY <2>5, Zenon DEF OneDrained
  <2>7. Flow(K!Taken, raw, <<Head(output)>>, Tail(output)) = Flow(K!Taken, raw, <<>>, output)
      BY <1>0, <2>1, FlowReads, Zenon
  <2> QED
      BY <1>1, <2>1, <2>4, <2>6, <2>7, Zenon DEF Whole
<1>4. CASE K!ProduceByte(c)
  <2> DEFINE p == [at |-> "read", left |-> prologue[c].left]
             x == prologue[c].byte
  <2>1. prologue' = [prologue EXCEPT ![c] = p] /\ prologue[c].at = "produce" /\ output' = output
      BY <1>4, Zenon DEF K!ProduceByte, K!device
  <2>2. \/ raw' = Append(raw, x) /\ overrun' = overrun
        \/ raw' = raw /\ x \in K!Replies /\ overrun' = overrun
        \/ overrun' = overrun + 1
      BY <1>4, Zenon DEF K!ProduceByte
  <2>3. p.at = "read"
      BY Zenon
  <2> HIDE DEF p
  <2>4. prologue'[c].at = "read" /\ \A d \in Cores : d # c => prologue'[d] = prologue[d]
      BY <1>0, <2>1, <2>3, PrologueIs, Zenon
  <2>5. K!Drained = <<x>> /\ x \in Int
      BY <2>1, Zenon DEF OneDrained, KeyboardTypes
  <2>6. \A d \in Cores : prologue'[d].at # "produce"
    <3>1. \A d \in Cores : d # c => prologue[d].at # "produce"
        BY <2>1, Zenon DEF OneHolder
    <3> QED
        BY <2>4, <3>1, Zenon
  <2>7. K!Drained' = <<>>
      BY <2>6, Zenon DEF OneDrained
  <2> HIDE DEF x
  <2>8. /\ Flow(K!Taken, Append(raw, x), <<>>, output) = Flow(K!Taken, raw, <<x>>, output)
        /\ x \in K!Replies => Flow(K!Taken, raw, <<>>, output) = Flow(K!Taken, raw, <<x>>, output)
      BY <1>0, <2>5, FlowProduces, Zenon
  <2>9. overrun' = overrun + 1 => overrun' # 0
      BY DEF KeyboardTypes
  <2>10. CASE overrun' = overrun /\ (raw' = Append(raw, x) \/ (raw' = raw /\ x \in K!Replies))
    <3>1. Flow(K!Taken', raw', K!Drained', output') = Flow(K!Taken, raw, K!Drained, output)
        BY <1>1, <2>1, <2>5, <2>7, <2>8, <2>10, Zenon
    <3> QED
        BY <1>1, <2>10, <3>1, Zenon DEF Whole
  <2> QED
      BY <2>2, <2>9, <2>10, Zenon
<1> QED
    BY <1>2, <1>3, <1>4, Zenon

(* The epilogue takes a byte off the queue, hands it to the decoder, or      *)
(* drops a reply.                                                            *)
LEMMA EpilogueKeepsWhole ==
    ASSUME KeyboardTypes, FlowIs,
           \/ \E c \in Cores : K!EpilogueBegin(c)
           \/ K!FetchLock \/ K!FetchConsume \/ K!DecodeByte \/ K!SendCommand \/ K!SendParameter
    PROVE  overrun' = overrun /\ Whole' = Whole
<1>0. raw \in Bytes /\ output \in Bytes /\ decoded \in Bytes /\ K!Drained \in Bytes /\ toType \in Seq(ScanCodes)
    BY ZenonT(60) DEF KeyboardTypes, FlowIs
<1>1. UNCHANGED <<toType, output, overrun, prologue>>
    BY Zenon DEF K!EpilogueBegin, K!FetchLock, K!FetchConsume, K!DecodeByte, K!SendCommand, K!SendParameter, K!device
<1>2. K!Drained' = K!Drained
    BY <1>1 DEF K!Drained
<1>3. epilogue \in Places /\ epilogue.byte \in Int
    BY DEF KeyboardTypes, Places
<1>4. ASSUME raw' = raw, decoded' = decoded, epilogue.at # "decode", epilogue'.at # "decode"
      PROVE  Whole' = Whole
  <2>1. K!Taken' = K!Taken
      BY <1>4, Zenon DEF K!Taken
  <2> QED
      BY <1>1, <1>2, <1>4, <2>1, NoByteMoves, Zenon
<1>5. ASSUME NEW w \in Stages, epilogue' = [epilogue EXCEPT !.at = w] PROVE epilogue'.at = w
    BY <1>3, <1>5, GotoIs, Zenon
<1>6. ASSUME NEW c \in Cores, K!EpilogueBegin(c) PROVE Whole' = Whole
  <2>1. raw' = raw /\ decoded' = decoded /\ epilogue = K!Idle /\ epilogue' = [K!Idle EXCEPT !.at = "lock", !.core = c]
      BY <1>6, Zenon DEF K!EpilogueBegin, K!decoding
  <2>2. epilogue.at = "idle" /\ epilogue'.at = "lock"
      BY <2>1, IdleIs, BegunIs, Zenon
  <2> QED
      BY <1>4, <2>1, <2>2, ZenonT(60)
<1>7. CASE K!FetchLock \/ K!SendCommand \/ K!SendParameter
  <2>1. raw' = raw /\ decoded' = decoded
      BY <1>7 DEF K!FetchLock, K!SendCommand, K!SendParameter, K!decoding
  <2>2. epilogue.at # "decode"
      BY <1>7, Zenon DEF K!FetchLock, K!SendCommand, K!SendParameter, K!EpilogueAt
  <2>3. \E w \in {"consume", "parameter", "lock"} : epilogue' = [epilogue EXCEPT !.at = w]
      BY <1>7, Zenon DEF K!FetchLock, K!SendCommand, K!SendParameter, K!Goto, K!FetchNext
  <2>4. epilogue'.at # "decode"
    <3>1. \A w \in {"consume", "parameter", "lock"} : w \in Stages /\ w # "decode"
        BY DEF Stages
    <3> QED
        BY <1>5, <2>3, <3>1, Zenon
  <2> QED
      BY <1>1, <1>4, <2>1, <2>2, <2>4, Zenon
<1>8. CASE K!FetchConsume
  <2>1. epilogue.at = "consume" /\ decoded' = decoded
      BY <1>8 DEF K!FetchConsume, K!EpilogueAt, K!decoding
  <2>2. CASE raw = <<>>
    <3>1. epilogue' = K!Idle /\ raw' = raw
        BY <1>8, <2>2, Zenon DEF K!FetchConsume
    <3>2. epilogue'.at = "idle" /\ epilogue.at # "decode"
        BY <2>1, <3>1, IdleIs, Zenon
    <3> QED
        BY <1>1, <1>4, <2>1, <3>1, <3>2, Zenon
  <2>3. CASE raw # <<>>
    <3>1. epilogue' = [epilogue EXCEPT !.at = "decode", !.byte = Head(raw)] /\ raw' = Tail(raw)
        BY <1>8, <2>3, Zenon DEF K!FetchConsume
    <3>2. Head(raw) \in Int
        BY <1>0, <2>3, Ends, Zenon
    <3>3. epilogue'.at = "decode" /\ epilogue'.byte = Head(raw)
        BY <1>3, <3>1, <3>2, FetchedIs, Zenon
    <3>4. K!Taken' = <<Head(raw)>>
        BY <3>3, Zenon DEF K!Taken
    <3>5. K!Taken = <<>>
        BY <2>1, Zenon DEF K!Taken
    <3>6. Flow(<<Head(raw)>>, Tail(raw), K!Drained, output) = Flow(<<>>, raw, K!Drained, output)
        BY <1>0, <2>3, FlowFetches, Zenon
    <3> QED
        BY <1>1, <1>2, <2>1, <3>1, <3>4, <3>5, <3>6, Zenon DEF Whole
  <2> QED
      BY <2>2, <2>3
<1>9. CASE K!DecodeByte
  <2> DEFINE x == epilogue.byte
             w == <<x>>
             f == Flow(<<>>, raw, K!Drained, output)
  <2>1. epilogue.at = "decode" /\ raw' = raw
      BY <1>9, Zenon DEF K!DecodeByte, K!EpilogueAt
  <2>2. epilogue'.at # "decode"
    <3>1. \E v \in {"command", "lock"} : epilogue' = [epilogue EXCEPT !.at = v]
        BY <1>9, Zenon DEF K!DecodeByte, K!Goto, K!FetchNext
    <3>2. \A v \in {"command", "lock"} : v \in Stages /\ v # "decode"
        BY DEF Stages
    <3> QED
        BY <1>5, <3>1, <3>2, Zenon
  <2>3. K!Taken = w /\ K!Taken' = <<>>
      BY <2>1, <2>2, Zenon DEF K!Taken
  <2>4. f \in Bytes /\ w \in Bytes
      BY <1>0, <1>3, FlowParts, CodesOfOne, Zenon
  <2>5. /\ x \in K!Replies => f = Flow(w, raw, K!Drained, output)
        /\ x \notin K!Replies => Flow(w, raw, K!Drained, output) = Cat(w, f)
    <3> DEFINE d == K!Drained
    <3>1. raw \in Bytes /\ d \in Bytes /\ output \in Bytes /\ x \in Int
        BY <1>0, <1>3
    <3> HIDE DEF x, d
    <3>2. /\ x \in K!Replies => Flow(<<>>, raw, d, output) = Flow(<<x>>, raw, d, output)
          /\ x \notin K!Replies => Flow(<<x>>, raw, d, output) = Cat(<<x>>, Flow(<<>>, raw, d, output))
        BY <3>1, FlowDecodes, SMT
    <3> QED
        BY <3>2 DEF d
  <2>6. CASE x \in K!Replies
    <3>1. decoded' = decoded
        BY <1>9, <2>6 DEF K!DecodeByte, K!IsReply, K!decoding
    <3>2. f = Flow(w, raw, K!Drained, output)
        BY <2>5, <2>6
    <3> QED
        BY <1>1, <1>2, <2>1, <2>3, <3>1, <3>2, Zenon DEF Whole
  <2>7. CASE x \notin K!Replies
    <3>1. decoded' = Append(decoded, x)
        BY <1>9, <2>7, Zenon DEF K!DecodeByte, K!IsReply
    <3>2. decoded' = Cat(decoded, w)
        BY <1>0, <1>3, <3>1, Ends, Zenon DEF Cat
    <3>3. Flow(w, raw, K!Drained, output) = Cat(w, f)
        BY <2>5, <2>7
    <3>4. Whole = Cat(Cat(decoded, Cat(w, f)), toType)
        BY <2>3, <3>3, Zenon DEF Whole
    <3>5. Whole' = Cat(Cat(Cat(decoded, w), f), toType)
        BY <1>1, <1>2, <2>1, <2>3, <3>2, Zenon DEF Whole
    <3> HIDE DEF w, f
    <3>6. Cat(Cat(decoded, w), f) = Cat(decoded, Cat(w, f))
        BY <1>0, <2>4, CatRegroup, SMT
    <3> QED
        BY <1>1, <3>4, <3>5, <3>6, Zenon
  <2> QED
      BY <2>6, <2>7
<1> QED
    BY <1>1, <1>6, <1>7, <1>8, <1>9

(* StreamInOrder is about the whole stream.                                  *)
LEMMA StreamIs == FlowIs => (K!StreamInOrder <=> (overrun = 0 => Whole \in Scripts))
    BY Zenon DEF FlowIs, K!StreamInOrder, Whole, Cat

(* Types and lock are kept.                                                  *)
LEMMA HoldersKept ==
    ASSUME K!ScriptsAssumption, KeyboardTypes, OneHolder, [K!Next]_(K!vars)
    PROVE  KeyboardTypes' /\ OneHolder'
<1>1. CASE UNCHANGED K!vars
  <2>1. UNCHANGED <<toType, output, raw, rawLock, prologue, epilogue, decoded, overrun>>
      BY <1>1 DEF K!vars, K!device, K!driver, K!decoding
  <2>2. KeyboardTypes'
      BY <2>1, Zenon DEF KeyboardTypes
  <2>3. OneHolder'
      BY <2>1, Zenon DEF OneHolder
  <2> QED
      BY <2>2, <2>3
<1>2. CASE K!Next
    BY <1>2, PrologueKeeps, EpilogueKeeps, DeviceKeeps, Zenon DEF K!Next
<1> QED
    BY <1>1, <1>2

(* The stream is kept.                                                       *)
LEMMA WholeKept ==
    ASSUME KeyboardTypes, OneHolder, OneDrained, OneDrained', FlowIs, [K!Next]_(K!vars)
    PROVE  overrun' = 0 => overrun = 0 /\ Whole' = Whole
<1>1. CASE UNCHANGED K!vars
  <2>1. UNCHANGED <<toType, output, raw, prologue, epilogue, decoded, overrun>>
      BY <1>1 DEF K!vars, K!device, K!driver, K!decoding
  <2>2. K!Taken' = K!Taken
      BY <2>1 DEF K!Taken
  <2>3. K!Drained' = K!Drained
      BY <2>1 DEF K!Drained
  <2> QED
      BY <2>1, <2>2, <2>3, NoByteMoves, Zenon
<1>2. CASE K!Next
    BY <1>2, PrologueKeepsWhole, EpilogueKeepsWhole, DeviceKeepsWhole, Zenon DEF K!Next
<1> QED
    BY <1>1, <1>2

(* s_RawLock does what it is for, on any number of cores: between a          *)
(* prologue's lock and unlock no other core is there, nor is Fetch.          *)
THEOREM RawLockExcludes == K!ScriptsAssumption => (K!Spec => []OneHolder)
<1> SUFFICES ASSUME K!ScriptsAssumption PROVE K!Spec => []OneHolder
    OBVIOUS
<1>1. K!Init => KeyboardTypes /\ OneHolder
    BY KeyboardTypesStart
<1>2. KeyboardTypes /\ OneHolder /\ [K!Next]_(K!vars) => (KeyboardTypes /\ OneHolder)'
    BY HoldersKept
<1> QED
    BY <1>1, <1>2, PTL DEF K!Spec

(* Unless s_RawBytes overran, the decoder gets every scan code once and in   *)
(* order and none of the keyboard's replies: for every number of cores that  *)
(* take the interrupts, every script, every size of the queue and of a       *)
(* burst, and wherever WaitWritable gives up.                                *)
THEOREM StreamStaysInOrder == K!ScriptsAssumption => (K!Spec => []K!StreamInOrder)
<1> SUFFICES ASSUME K!ScriptsAssumption PROVE K!Spec => []K!StreamInOrder
    OBVIOUS
<1>1. K!Init => KeyboardInv
  <2> SUFFICES ASSUME K!Init PROVE KeyboardInv
      OBVIOUS
  <2>1. KeyboardTypes /\ OneHolder
      BY KeyboardTypesStart
  <2>2. OneDrained /\ FlowIs
      BY <2>1, LockGivesOneDrained, InFlightIs
  <2>3. K!Taken = <<>> /\ K!Drained = <<>>
    <3>1. epilogue.at = "idle" /\ \A c \in Cores : prologue[c].at = "outside"
        BY IdleIs DEF K!Init, K!Outside
    <3> QED
        BY <2>2, <3>1, Zenon DEF K!Taken, OneDrained
  <2>4. decoded = <<>> /\ raw = <<>> /\ output = <<>> /\ toType \in Scripts
      BY Zenon DEF K!Init
  <2>5. Cat(<<>>, <<>>) = <<>> /\ Cat(<<>>, toType) = toType
    <3>1. toType \in Bytes
        BY <2>1, ScanCodesAre, Zenon DEF KeyboardTypes
    <3> QED
        BY <3>1, CatLaws, CodesOfOne, Zenon
  <2>6. Whole = toType
      BY <2>3, <2>4, <2>5, CodesOfOne, Zenon DEF Whole, Flow
  <2> QED
      BY <2>1, <2>2, <2>4, <2>6, StreamIs, Zenon DEF KeyboardInv
<1>2. KeyboardInv /\ [K!Next]_(K!vars) => KeyboardInv'
  <2> SUFFICES ASSUME KeyboardInv, [K!Next]_(K!vars) PROVE KeyboardInv'
      OBVIOUS
  <2>1. KeyboardTypes /\ OneHolder /\ (KeyboardTypes /\ OneHolder)'
      BY HoldersKept DEF KeyboardInv
  <2>2. OneDrained /\ FlowIs /\ (K!StreamInOrder <=> (overrun = 0 => Whole \in Scripts))
      BY <2>1, LockGivesOneDrained, InFlightIs, StreamIs
  <2>3. OneDrained' /\ FlowIs' /\ (K!StreamInOrder <=> (overrun = 0 => Whole \in Scripts))'
      BY <2>1, LockGivesOneDrained, InFlightIs, StreamIs, PTL
  <2>4. overrun' = 0 => overrun = 0 /\ Whole' = Whole
      BY <2>1, <2>2, <2>3, WholeKept, Zenon
  <2>5. K!StreamInOrder'
      BY <2>2, <2>3, <2>4, Zenon DEF KeyboardInv
  <2> QED
      BY <2>1, <2>5, Zenon DEF KeyboardInv
<1>3. KeyboardInv => K!StreamInOrder
    BY DEF KeyboardInv
<1> QED
    BY <1>1, <1>2, <1>3, PTL DEF K!Spec
=============================================================================
