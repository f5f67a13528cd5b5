---------------------------- MODULE GuardProofs ----------------------------
(* Proofs about the cores, for every number of them.  Guard: they take turns, *)
(* first come first served, with any threads.  SmpBoot: they start late       *)
(* enough, for every firmware.                                                *)
EXTENDS Guard, FiniteSetTheorems, SequenceTheorems, WellFoundedInduction, TLAPS

\* A leaf is translated with all the definitions before it: the provers get more
\* time for that than by default.
USE SMTT(30), ZenonT(60)

\* A uint32_t plus one is a uint32_t.
LEMMA AfterType == ASSUME NEW n \in Tickets PROVE After(n) \in Tickets
BY TicketAssumption DEF After, Tickets

\* No step of the Guard takes a variable out of its type.
LEMMA TypeStep == TypeOK /\ [Next]_vars => TypeOK'
<1> SUFFICES ASSUME TypeOK, [Next]_vars PROVE TypeOK'
    OBVIOUS
<1> USE DEF TypeOK, Contexts, Uses, Places, lockVars, contextVars
<1>1. ASSUME NEW c \in Cores, Enter(c) PROVE TypeOK'
    BY <1>1 DEF Enter
<1>2. ASSUME NEW c \in Cores, DrawTicket(c) PROVE TypeOK'
    BY <1>2, AfterType DEF DrawTicket
<1>3. ASSUME NEW c \in Cores, Acquire(c) PROVE TypeOK'
    BY <1>3 DEF Acquire
<1>4. ASSUME NEW c \in Cores, Leave(c) PROVE TypeOK'
    BY <1>4, AfterType DEF Leave, Unlock, IsEnabled
<1>5. ASSUME NEW c \in Cores, TakeEpilogue(c) PROVE TypeOK'
    BY <1>5 DEF TakeEpilogue, Consume
<1>6. ASSUME NEW c \in Cores, EpilogueDone(c) PROVE TypeOK'
    BY <1>6, AfterType DEF EpilogueDone, Unlock
<1>7. ASSUME NEW c \in Cores, LeaveLevel(c) PROVE TypeOK'
    BY <1>7 DEF LeaveLevel
<1>8. ASSUME NEW c \in Cores, NEW e \in Epilogues, RelayBusy(c, e) PROVE TypeOK'
    BY <1>8 DEF RelayBusy, Produce
<1>9. ASSUME NEW c \in Cores, NEW e \in Epilogues, RelayFree(c, e) PROVE TypeOK'
    BY <1>9 DEF RelayFree, Produce
<1>10. ASSUME NEW c \in Cores, Mask(c) PROVE TypeOK'
    BY <1>10 DEF Mask
<1>11. ASSUME NEW c \in Cores, EnableAtBoot(c) PROVE TypeOK'
    BY <1>11 DEF EnableAtBoot
<1>12. ASSUME NEW c \in Cores, NEW t \in Threads, Go(c, t) PROVE TypeOK'
    BY <1>12 DEF Go
<1>13. ASSUME NEW c \in Cores, NEW t \in Threads, Dispatch(c, t) PROVE TypeOK'
    BY <1>13 DEF Dispatch
<1>14. CASE UNCHANGED vars
    BY <1>14 DEF vars
<1> QED
    BY <1>1, <1>2, <1>3, <1>4, <1>5, <1>6, <1>7, <1>8, <1>9, <1>10, <1>11, Zenon,
       <1>12, <1>13, <1>14 DEF Next

\* Every variable keeps its type, the tickets theirs in particular: whatever
\* the cores do, m_NextTicket and m_NowServing stay 32 bit numbers.
THEOREM TypeCorrect == Spec => []TypeOK
<1>1. Init => TypeOK
    BY DEF Init, TypeOK, Contexts, Uses, Places
<1> QED
    BY <1>1, TypeStep, PTL DEF Spec
-----------------------------------------------------------------------------
(* The ticket lock.                                                        *)

\* There are never as many contenders as there are tickets, so a wrapped
\* ticket cannot meet an old one.
LEMMA ContendersBound ==
    /\ IsFiniteSet(Contenders)
    /\ Cardinality(Contenders) \in Nat
    /\ Cardinality(Contenders) < TicketModulus
<1>1. Contenders \in SUBSET Cores
    BY DEF Contenders
<1>2. Cardinality(Cores) \in Nat
    BY CoresAssumption, FS_CardinalityType
<1>3. IsFiniteSet(Contenders) /\ Cardinality(Contenders) <= Cardinality(Cores)
    BY <1>1, CoresAssumption, FS_Subset
<1>4. Cardinality(Contenders) \in Nat
    BY <1>3, FS_CardinalityType
<1> QED
    BY <1>2, <1>3, <1>4, TicketAssumption

\* A step that moves no core into or out of the lock keeps the order.
LEMMA TicketsUntouched ==
    ASSUME TicketsInOrder,
           UNCHANGED lockVars,
           Contenders' = Contenders,
           \A d \in Cores : pc'[d] = "inside" => pc[d] = "inside"
    PROVE  TicketsInOrder'
BY DEF TicketsInOrder, lockVars, Rank, Minus, Plus

\* Drawing a ticket appends to the line.
LEMMA DrawKeepsOrder ==
    ASSUME TypeOK, TicketsInOrder, NEW c \in Cores, DrawTicket(c)
    PROVE  TicketsInOrder'
<1> DEFINE n == Cardinality(Contenders)
<1>1. c \notin Contenders /\ Contenders' = Contenders \cup {c}
    BY DEF DrawTicket, Contenders, TypeOK
<1>2. Cardinality(Contenders') = n + 1
    BY <1>1, ContendersBound, FS_AddElement
<1>3. n \in Nat /\ n + 1 < TicketModulus
  <2>1. IsFiniteSet(Contenders \cup {c}) /\ Contenders \cup {c} \in SUBSET Cores
      BY ContendersBound, FS_AddElement DEF Contenders
  <2>2. Cardinality(Contenders \cup {c}) <= Cardinality(Cores)
      BY <2>1, CoresAssumption, FS_Subset
  <2>3. Cardinality(Cores) \in Nat
      BY CoresAssumption, FS_CardinalityType
  <2> QED
      BY <1>1, <1>2, <2>2, <2>3, ContendersBound, TicketAssumption
<1>4. /\ m_NowServing \in Tickets /\ m_NowServing' = m_NowServing
      /\ m_NextTicket \in Tickets /\ m_NextTicket' = After(m_NextTicket)
      /\ m_NextTicket = Plus(m_NowServing, n)
      /\ ticket' = [ticket EXCEPT ![c] = m_NextTicket]
      /\ ticket \in [Cores -> Tickets]
      /\ pc' = [pc EXCEPT ![c] = "spin"] /\ pc \in [Cores -> Places]
    BY DEF DrawTicket, TypeOK, TicketsInOrder
<1>5. m_NextTicket' = Plus(m_NowServing', n + 1)
    BY <1>3, <1>4, TicketAssumption DEF After, Plus, Tickets
<1>6. Minus(m_NextTicket, m_NowServing) = n
    BY <1>3, <1>4, TicketAssumption DEF Minus, Plus, Tickets
<1>7. \A d \in Contenders : Rank(d) < n /\ d \in Cores /\ d # c
    BY <1>1 DEF TicketsInOrder, Contenders
<1>8. \A d \in Contenders' : Rank(d)' < n + 1
  <2> SUFFICES ASSUME NEW d \in Contenders' PROVE Rank(d)' < n + 1
      OBVIOUS
  <2>1. CASE d = c
      BY <2>1, <1>3, <1>4, <1>6 DEF Rank
  <2>2. CASE d \in Contenders
    <3>1. Rank(d)' = Rank(d)
        BY <2>2, <1>4, <1>7 DEF Rank
    <3>2. Rank(d) \in Int
        BY <2>2, <1>4, <1>7, TicketAssumption DEF Rank, Minus, Tickets
    <3> QED
        BY <2>2, <3>1, <3>2, <1>3, <1>7
  <2> QED
      BY <1>1, <2>1, <2>2
<1>9. \A d \in Contenders : ticket[d] # m_NextTicket
    BY <1>3, <1>6, <1>7 DEF Rank
<1>10. \A d, e \in Contenders' : ticket'[d] = ticket'[e] => d = e
    BY <1>1, <1>4, <1>7, <1>9 DEF TicketsInOrder
<1>11. \A d \in Cores : pc'[d] = "inside" => ticket'[d] = m_NowServing'
    BY <1>4 DEF TicketsInOrder
<1> QED
    BY <1>2, <1>5, <1>8, <1>10, <1>11 DEF TicketsInOrder

\* Unlock by the owner takes the first of the line off it.
LEMMA UnlockKeepsOrder ==
    ASSUME TypeOK, TicketsInOrder, NEW c \in Cores, pc[c] = "inside",
           pc' = [pc EXCEPT ![c] = "drain"], Unlock,
           UNCHANGED <<m_NextTicket, ticket>>
    PROVE  TicketsInOrder'
<1> DEFINE n == Cardinality(Contenders)
<1>1. c \in Contenders /\ Contenders' = Contenders \ {c}
    BY DEF Contenders, TypeOK
<1>2. Cardinality(Contenders') = n - 1
    BY <1>1, ContendersBound, FS_RemoveElement, Zenon
<1>3. n \in Nat /\ n < TicketModulus
    BY ContendersBound
<1>4. /\ m_NowServing \in Tickets /\ m_NowServing' = After(m_NowServing)
      /\ m_NextTicket = Plus(m_NowServing, n) /\ m_NextTicket' = m_NextTicket
      /\ ticket \in [Cores -> Tickets] /\ ticket' = ticket
      /\ ticket[c] = m_NowServing
    BY DEF TypeOK, TicketsInOrder, Unlock
<1>5. n > 0
    BY <1>1, <1>3, <1>4 DEF TicketsInOrder, Rank, Minus, Tickets
<1>6. m_NextTicket' = Plus(m_NowServing', n - 1)
    BY <1>3, <1>4, <1>5, TicketAssumption DEF After, Plus, Tickets
<1>7. \A d \in Contenders' : Rank(d)' < n - 1
  <2> SUFFICES ASSUME NEW d \in Contenders' PROVE Rank(d)' < n - 1
      OBVIOUS
  <2>1. d \in Contenders /\ d \in Cores /\ d # c
      BY <1>1 DEF Contenders
  <2>2. ticket[d] # m_NowServing
      BY <2>1, <1>1, <1>4 DEF TicketsInOrder
  <2>3. Rank(d) < n
      BY <2>1 DEF TicketsInOrder
  <2> QED
      BY <2>1, <2>2, <2>3, <1>3, <1>4, TicketAssumption
      DEF Rank, Minus, After, Tickets
<1>8. \A d, e \in Contenders' : ticket'[d] = ticket'[e] => d = e
    BY <1>1, <1>4 DEF TicketsInOrder
<1>9. \A d \in Cores : pc'[d] # "inside"
  <2> SUFFICES ASSUME NEW d \in Cores, pc'[d] = "inside" PROVE FALSE
      OBVIOUS
  <2>1. pc[d] = "inside" /\ d # c
      BY DEF TypeOK
  <2>2. d \in Contenders /\ ticket[d] = ticket[c]
      BY <2>1, <1>4 DEF Contenders, TicketsInOrder
  <2> QED
      BY <2>1, <2>2, <1>1 DEF TicketsInOrder
<1> QED
    BY <1>2, <1>6, <1>7, <1>8, <1>9 DEF TicketsInOrder

\* RelayFree needs the level's invariant: a clear flag means a core that is
\* not in the lock.
LEMMA TicketsStep ==
    TypeOK /\ LevelConsistent /\ TicketsInOrder /\ [Next]_vars => TicketsInOrder'
<1> SUFFICES ASSUME TypeOK, LevelConsistent, TicketsInOrder, [Next]_vars
             PROVE  TicketsInOrder'
    OBVIOUS
<1> USE DEF TypeOK
<1>1. ASSUME NEW c \in Cores, Enter(c) PROVE TicketsInOrder'
    BY <1>1, TicketsUntouched DEF Enter, Contenders
<1>2. ASSUME NEW c \in Cores, DrawTicket(c) PROVE TicketsInOrder'
    BY <1>2, DrawKeepsOrder
<1>3. ASSUME NEW c \in Cores, Acquire(c) PROVE TicketsInOrder'
  <2>1. Contenders' = Contenders
      BY <1>3 DEF Acquire, Contenders
  <2>2. \A d \in Cores : pc'[d] = "inside" => ticket'[d] = m_NowServing'
      BY <1>3 DEF Acquire, IsServed, lockVars, TicketsInOrder
  <2> QED
      BY <1>3, <2>1, <2>2 DEF Acquire, lockVars, TicketsInOrder, Rank, Minus, Plus
<1>4. ASSUME NEW c \in Cores, Leave(c) PROVE TicketsInOrder'
    BY <1>4, UnlockKeepsOrder, Zenon DEF Leave
<1>5. ASSUME NEW c \in Cores, TakeEpilogue(c) PROVE TicketsInOrder'
    BY <1>5, TicketsUntouched DEF TakeEpilogue, Contenders
<1>6. ASSUME NEW c \in Cores, EpilogueDone(c) PROVE TicketsInOrder'
    BY <1>6, UnlockKeepsOrder, Zenon DEF EpilogueDone
<1>7. ASSUME NEW c \in Cores, LeaveLevel(c) PROVE TicketsInOrder'
    BY <1>7, TicketsUntouched DEF LeaveLevel, Contenders
<1>8. ASSUME NEW c \in Cores, NEW e \in Epilogues, RelayFree(c, e)
      PROVE  TicketsInOrder'
    BY <1>8, TicketsUntouched DEF RelayFree, LevelConsistent, Contenders
<1>9. CASE UNCHANGED <<pc, lockVars>>
    BY <1>9, TicketsUntouched DEF Contenders
<1>10. ASSUME NEW c \in Cores, NEW e \in Epilogues, RelayBusy(c, e)
       PROVE  TicketsInOrder'
    BY <1>9, <1>10 DEF RelayBusy
<1>11. ASSUME NEW c \in Cores, Mask(c) \/ EnableAtBoot(c) PROVE TicketsInOrder'
    BY <1>9, <1>11 DEF Mask, EnableAtBoot
<1>12. ASSUME NEW c \in Cores, NEW t \in Threads, Go(c, t) \/ Dispatch(c, t)
       PROVE  TicketsInOrder'
    BY <1>9, <1>12 DEF Go, Dispatch
<1>13. CASE UNCHANGED vars
    BY <1>9, <1>13 DEF vars
<1> QED
    BY <1>1, <1>2, <1>3, <1>4, <1>5, <1>6, <1>7, <1>8, <1>10, <1>11, <1>12,
       <1>13 DEF Next

-----------------------------------------------------------------------------
(* The level.                                                              *)

\* Every step of every core keeps flags, queues, interrupt flags and contexts
\* in agreement, the switch of contexts inside the level included.
LEMMA LevelStep == TypeOK /\ LevelConsistent /\ [Next]_vars => LevelConsistent'
<1> SUFFICES ASSUME TypeOK, LevelConsistent, [Next]_vars PROVE LevelConsistent'
    OBVIOUS
<1> USE ContextsAssumption, EpiloguesAssumption
    DEF TypeOK, LevelConsistent, NoStrandedEpilogue, Suspended, Contexts, Uses,
        Places, lockVars, contextVars
<1>1. ASSUME NEW c \in Cores, Enter(c) PROVE LevelConsistent'
    BY <1>1 DEF Enter
<1>2. ASSUME NEW c \in Cores, DrawTicket(c) PROVE LevelConsistent'
    BY <1>2 DEF DrawTicket
<1>3. ASSUME NEW c \in Cores, Acquire(c) PROVE LevelConsistent'
    BY <1>3 DEF Acquire
<1>4. ASSUME NEW c \in Cores, Leave(c) PROVE LevelConsistent'
    BY <1>4 DEF Leave, IsEnabled
<1>5. ASSUME NEW c \in Cores, TakeEpilogue(c) PROVE LevelConsistent'
    BY <1>5 DEF TakeEpilogue, Consume
<1>6. ASSUME NEW c \in Cores, EpilogueDone(c) PROVE LevelConsistent'
    BY <1>6 DEF EpilogueDone
<1>7. ASSUME NEW c \in Cores, LeaveLevel(c) PROVE LevelConsistent'
    BY <1>7 DEF LeaveLevel, Drained
<1>8. ASSUME NEW c \in Cores, NEW e \in Epilogues, RelayBusy(c, e)
      PROVE  LevelConsistent'
    BY <1>8 DEF RelayBusy, Produce
<1>9. ASSUME NEW c \in Cores, NEW e \in Epilogues, RelayFree(c, e)
      PROVE  LevelConsistent'
    BY <1>9 DEF RelayFree, Produce
<1>10. ASSUME NEW c \in Cores, Mask(c) PROVE LevelConsistent'
    BY <1>10 DEF Mask
<1>11. ASSUME NEW c \in Cores, EnableAtBoot(c) PROVE LevelConsistent'
    BY <1>11 DEF EnableAtBoot
<1>12. ASSUME NEW c \in Cores, NEW t \in Threads, Go(c, t) PROVE LevelConsistent'
    BY <1>12 DEF Go
<1>13. ASSUME NEW c \in Cores, NEW t \in Threads, Dispatch(c, t)
       PROVE  LevelConsistent'
    BY <1>13 DEF Dispatch
<1>14. CASE UNCHANGED vars
    BY <1>14 DEF vars
<1> QED
    BY <1>1, <1>2, <1>3, <1>4, <1>5, <1>6, <1>7, <1>8, <1>9, <1>10, <1>11, Zenon,
       <1>12, <1>13, <1>14 DEF Next
-----------------------------------------------------------------------------
(* The theorems.                                                           *)

IInv == TypeOK /\ LevelConsistent /\ TicketsInOrder

\* The inductive invariant holds when the cores enter MainAp.
LEMMA InitIInv == Init => IInv
<1> SUFFICES ASSUME Init PROVE IInv
    OBVIOUS
<1>1. TypeOK
    BY DEF Init, TypeOK, Contexts, Uses, Places
<1>2. LevelConsistent
    BY ContextsAssumption, EpiloguesAssumption
    DEF Init, LevelConsistent, NoStrandedEpilogue, Contexts
<1>3. TicketsInOrder
  <2>1. Contenders = {}
      BY DEF Init, Contenders
  <2>2. Cardinality(Contenders) = 0
      BY <2>1, FS_EmptySet
  <2> QED
      BY <2>1, <2>2, TicketAssumption DEF Init, TicketsInOrder, Plus, Tickets
<1> QED
    BY <1>1, <1>2, <1>3 DEF IInv

\* The inductive invariant: MutualExclusion needs the order of the tickets,
\* whose preservation by Relay needs the agreement of flag and place.
THEOREM Invariance == Spec => []IInv
<1>1. IInv /\ [Next]_vars => IInv'
    BY TypeStep, LevelStep, TicketsStep DEF IInv
<1> QED
    BY <1>1, InitIInv, PTL DEF Spec

\* The cores at the lock hold consecutive tickets, all different, and only the
\* one being served is inside: also after m_NextTicket has wrapped around.
THEOREM TicketsStayInOrder == Spec => []TicketsInOrder
<1>1. IInv => TicketsInOrder
    BY DEF IInv
<1> QED
    BY <1>1, Invariance, PTL

\* s_InEpilogue says on every core whether it is at the level, no context runs
\* on two cores, and a relayed epilogue never outlives its prologue.
THEOREM LevelStaysConsistent == Spec => []LevelConsistent
<1>1. IInv => LevelConsistent
    BY DEF IInv
<1> QED
    BY <1>1, Invariance, PTL

\* At most one core is inside the level, whatever the number of cores and
\* however often the 32 bit tickets have wrapped (Guard.cpp:13-15).
THEOREM LevelIsExclusive == Spec => []MutualExclusion
<1>1. IInv => MutualExclusion
    BY DEF IInv, TicketsInOrder, MutualExclusion, Contenders
<1> QED
    BY <1>1, Invariance, PTL

\* No core is back in ordinary code while its queue still holds an epilogue
\* that a prologue left to "whoever is in there" (Guard.h:77-79).
THEOREM EpiloguesAreDrained == Spec => []NoStrandedEpilogue
<1>1. IInv => NoStrandedEpilogue
    BY DEF IInv, LevelConsistent
<1> QED
    BY <1>1, Invariance, PTL

\* Sections and epilogues run with interrupts on, on whichever core the
\* context that runs them ends up (Guard.h:66-67).
THEOREM SectionsAreInterruptible == Spec => []SectionInterruptible
<1>1. IInv => SectionInterruptible
    BY DEF IInv, LevelConsistent, SectionInterruptible
<1> QED
    BY <1>1, Invariance, PTL

\* A context that comes out of Leave, below an interrupt frame or not, has
\* interrupts on: no core is lost to a stale wasEnabled (Guard.cpp:39, 62).
THEOREM LeaveRestoresInterrupts == Spec => InterruptsRestored
<1> DEFINE Restored == \A c \in Cores :
               pc[c] # "outside" /\ pc'[c] = "outside" => enabled'[c]
<1>1. ASSUME IInv, [Next]_vars PROVE [Restored]_vars
  <2> SUFFICES ASSUME Next, NEW c \in Cores,
                      pc[c] # "outside", pc'[c] = "outside"
               PROVE  enabled'[c]
      BY <1>1
  <2>1. LeaveLevel(c)
      BY <1>1, ZenonT(30) DEF IInv, TypeOK, Next, Enter, DrawTicket, Acquire, Leave,
         TakeEpilogue, EpilogueDone, LeaveLevel, RelayBusy, RelayFree, Mask,
         EnableAtBoot, Go, Dispatch
  <2>2. wasEnabled[active[c]] \/ nested[active[c]]
      BY <1>1, <2>1 DEF IInv, LevelConsistent, LeaveLevel
  <2> QED
      BY <1>1, <2>1, <2>2 DEF IInv, TypeOK, LeaveLevel
<1> QED
    BY <1>1, Invariance, PTL DEF Spec, InterruptsRestored
-----------------------------------------------------------------------------
(* First come, first served: Guard implements EpilogueLevel.               *)

\* s lists the members of C by their ranks, which are 0 up to their number.
IsLine(s, C, rank) ==
    /\ s \in Seq(C) /\ Len(s) = Cardinality(C)
    /\ \A i \in 1 .. Len(s) : rank[s[i]] = i - 1
    /\ \A c, d \in C : rank[c] = rank[d] => c = d
    /\ \A c \in C : rank[c] \in Nat /\ rank[c] < Len(s)

Ranks == [c \in Contenders |-> Rank(c)]

\* Every member stands somewhere in the line.
LEMMA LineHasAll ==
    ASSUME NEW s, NEW C, NEW rank, IsLine(s, C, rank)
    PROVE  {s[i] : i \in DOMAIN s} = C
<1>1. s \in Seq(C) /\ DOMAIN s = 1 .. Len(s) /\ Len(s) \in Nat
    BY LenProperties DEF IsLine
<1>2. \A i \in 1 .. Len(s) : s[i] \in C
    BY <1>1, ElementOfSeq, Zenon
<1>3. ASSUME NEW c \in C PROVE \E i \in 1 .. Len(s) : s[i] = c
  <2>1. rank[c] \in Nat /\ rank[c] < Len(s)
      BY DEF IsLine
  <2>2. rank[c] + 1 \in 1 .. Len(s) /\ (rank[c] + 1) - 1 = rank[c]
      BY <1>1, <2>1
  <2>3. rank[s[rank[c] + 1]] = rank[c]
      BY <2>2, Zenon DEF IsLine
  <2>4. s[rank[c] + 1] = c
      BY <1>2, <2>2, <2>3, Zenon DEF IsLine
  <2> QED
      BY <2>2, <2>4, Zenon
<1> QED
    BY <1>1, <1>2, <1>3, Zenon

\* There is only one such line.
LEMMA OnlyLine ==
    ASSUME NEW s, NEW t, NEW C, NEW rank, IsLine(s, C, rank), IsLine(t, C, rank)
    PROVE  s = t
<1>1. s \in Seq(C) /\ t \in Seq(C) /\ Len(s) = Len(t)
    BY Zenon DEF IsLine
<1>2. ASSUME NEW i \in 1 .. Len(s) PROVE s[i] = t[i]
  <2>1. s[i] \in C /\ t[i] \in C
      BY <1>1, ElementOfSeq, Zenon
  <2>2. rank[s[i]] = rank[t[i]]
      BY <1>1, Zenon DEF IsLine
  <2> QED
      BY <2>1, <2>2, Zenon DEF IsLine
<1> QED
    BY <1>1, <1>2, SeqEqual, Zenon

\* Ranks are numbers below the modulus, and tell the contenders apart.
LEMMA RanksDiffer ==
    ASSUME TypeOK, TicketsInOrder
    PROVE  /\ \A c \in Contenders : Rank(c) \in Nat /\ Rank(c) < Cardinality(Contenders)
           /\ \A c, d \in Contenders : Rank(c) = Rank(d) => c = d
<1>1. \A c \in Contenders : c \in Cores /\ ticket[c] \in Tickets /\ m_NowServing \in Tickets
    BY DEF Contenders, TypeOK
<1>2. \A a, b \in Tickets : Minus(a, b) \in Nat
    BY TicketAssumption DEF Minus, Tickets
<1>3. \A a, b, d \in Tickets : Minus(a, d) = Minus(b, d) => a = b
    BY TicketAssumption DEF Minus, Tickets
<1>4. \A c \in Contenders : Rank(c) \in Nat /\ Rank(c) < Cardinality(Contenders)
    BY <1>1, <1>2, Zenon DEF Rank, TicketsInOrder
<1>5. \A c, d \in Contenders : Rank(c) = Rank(d) => ticket[c] = ticket[d]
    BY <1>1, <1>3, Zenon DEF Rank
<1> QED
    BY <1>4, <1>5, Zenon DEF TicketsInOrder

\* No rank is missing: there are as many ranks as contenders.
LEMMA EveryRank ==
    ASSUME TypeOK, TicketsInOrder, NEW i \in 1 .. Cardinality(Contenders)
    PROVE  \E c \in Contenders : Rank(c) = i - 1
<1> DEFINE n == Cardinality(Contenders)
           T == 0 .. n - 1
<1>0. n \in Nat /\ IsFiniteSet(Contenders)
    BY ContendersBound
<1>1. Ranks \in Injection(Contenders, T)
  <2>1. Ranks \in [Contenders -> T]
    <3>1. \A r \in Nat : r < n => r \in T
        BY <1>0
    <3> QED
        BY <3>1, RanksDiffer, Zenon DEF Ranks
  <2>2. \A c, d \in Contenders : Ranks[c] = Ranks[d] => c = d
      BY RanksDiffer, Zenon DEF Ranks
  <2> QED
      BY <2>1, <2>2, Zenon DEF Injection, IsInjective
<1>2. IsFiniteSet(T) /\ Cardinality(T) = n
  <2>1. 0 \in Int /\ n - 1 \in Int /\ (IF 0 > n - 1 THEN 0 ELSE (n - 1) - 0 + 1) = n
      BY <1>0
  <2> QED
      BY <2>1, FS_Interval, Zenon
<1>3. Ranks \in Surjection(Contenders, T)
    BY <1>0, <1>1, <1>2, FS_Injection, Zenon
<1>4. i - 1 \in T
    BY <1>0
<1> QED
    BY <1>3, <1>4, Zenon DEF Surjection, Ranks

\* Line is that line.
LEMMA LineIs == TypeOK /\ TicketsInOrder => IsLine(Line, Contenders, Ranks)
<1> SUFFICES ASSUME TypeOK, TicketsInOrder PROVE IsLine(Line, Contenders, Ranks)
    OBVIOUS
<1> DEFINE n == Cardinality(Contenders)
<1>0. n \in Nat
    BY ContendersBound
<1>1. \A i \in 1 .. n : Line[i] \in Contenders /\ Rank(Line[i]) = i - 1
    BY EveryRank DEF Line
<1>2. Line \in Seq(Contenders) /\ Len(Line) = n
    BY <1>0, <1>1 DEF Line
<1>3. \A i \in 1 .. Len(Line) : Ranks[Line[i]] = i - 1
    BY <1>1, <1>2, Zenon DEF Ranks
<1>4. \A c \in Contenders : Ranks[c] = Rank(c)
    BY Zenon DEF Ranks
<1> QED
    BY <1>2, <1>3, <1>4, RanksDiffer, Zenon DEF IsLine

\* The same after a step.
LEMMA LineIsThen == IInv' => IsLine(Line', Contenders', Ranks')
<1> DEFINE Now == IsLine(Line, Contenders, Ranks)
<1>1. IInv => Now
    BY LineIs DEF IInv
<1> HIDE DEF Now
<1>2. IInv' => Now'
    BY <1>1, PTL
<1> QED
    BY <1>2 DEF Now

\* As long as nobody draws or unlocks, the line stays.
LEMMA LineStays ==
    ASSUME IInv, IInv', Contenders' = Contenders, UNCHANGED <<ticket, m_NowServing>>
    PROVE  Line' = Line
<1>1. IsLine(Line, Contenders, Ranks)
    BY LineIs DEF IInv
<1>2. IsLine(Line', Contenders', Ranks')
    BY LineIsThen
<1>3. Ranks' = Ranks
    BY DEF Ranks, Rank
<1> QED
    BY <1>1, <1>2, <1>3, OnlyLine, Zenon

\* A drawn ticket is the last of the line.
LEMMA DrawAppends ==
    ASSUME IInv, IInv', NEW c \in Cores, DrawTicket(c)
    PROVE  c \notin Contenders /\ Line' = Append(Line, c)
<1> DEFINE n == Cardinality(Contenders)
           new == Append(Line, c)
<1>1. IsLine(Line, Contenders, Ranks)
    BY LineIs DEF IInv
<1>2. IsLine(Line', Contenders', Ranks')
    BY LineIsThen
<1>3. c \notin Contenders /\ Contenders' = Contenders \cup {c}
    BY DEF IInv, DrawTicket, Contenders, TypeOK
<1>4. Cardinality(Contenders') = n + 1 /\ n \in Nat /\ n < TicketModulus
    BY <1>3, ContendersBound, FS_AddElement, Zenon
<1>5. \A d \in Contenders : Ranks'[d] = Ranks[d]
  <2>1. \A d \in Contenders : d \in Contenders' /\ Rank(d)' = Rank(d)
      BY <1>3 DEF IInv, TypeOK, Rank, DrawTicket, Contenders
  <2> QED
      BY <2>1, Zenon DEF Ranks
<1>6. Ranks'[c] = n
  <2>1. Ranks'[c] = Minus(m_NextTicket, m_NowServing)
      BY <1>3 DEF Ranks, Rank, DrawTicket, IInv, TypeOK
  <2>2. m_NextTicket = Plus(m_NowServing, n) /\ m_NowServing \in Tickets
      BY DEF IInv, TypeOK, TicketsInOrder
  <2>3. \A b \in Tickets : Minus(Plus(b, n), b) = n
      BY <1>4, TicketAssumption DEF Minus, Plus, Tickets
  <2> QED
      BY <2>1, <2>2, <2>3, Zenon
<1>7. Line \in Seq(Contenders) /\ Len(Line) = n
    BY <1>1, Zenon DEF IsLine
<1>8. /\ new \in Seq(Contenders') /\ Len(new) = n + 1 /\ new[n + 1] = c
      /\ \A i \in 1 .. n : new[i] = Line[i]
  <2>1. Line \in Seq(Contenders') /\ c \in Contenders'
      BY <1>3, <1>7, SeqMonotonic
  <2>2. /\ new \in Seq(Contenders') /\ Len(new) = Len(Line) + 1 /\ new[Len(Line) + 1] = c
        /\ \A i \in 1 .. Len(Line) : new[i] = Line[i]
    <3> DEFINE S == Contenders'
    <3>1. Line \in Seq(S) /\ c \in S
        BY <2>1, Zenon
    <3> HIDE DEF S
    <3>2. /\ new \in Seq(S) /\ Len(new) = Len(Line) + 1 /\ new[Len(Line) + 1] = c
          /\ \A i \in 1 .. Len(Line) : new[i] = Line[i]
        BY <3>1, AppendProperties
    <3> QED
        BY <3>2, Zenon DEF S
  <2> HIDE DEF new, n
  <2> QED
      BY <1>7, <2>2, Zenon
<1>9. \A i \in 1 .. Len(new) : Ranks'[new[i]] = i - 1
  <2> SUFFICES ASSUME NEW i \in 1 .. Len(new) PROVE Ranks'[new[i]] = i - 1
      OBVIOUS
  <2>1. i = n + 1 \/ i \in 1 .. n
      BY <1>4, <1>8
  <2>2. CASE i = n + 1
      BY <1>4, <1>6, <1>8, <2>2
  <2>3. CASE i \in 1 .. n
    <3>1. Line[i] \in Contenders /\ Ranks[Line[i]] = i - 1
        BY <1>1, <1>7, <2>3, ElementOfSeq, Zenon DEF IsLine
    <3> QED
        BY <1>5, <1>8, <2>3, <3>1, Zenon
  <2> QED
      BY <2>1, <2>2, <2>3, Zenon
<1>10. IsLine(new, Contenders', Ranks')
  <2>1. /\ \A x, y \in Contenders' : Ranks'[x] = Ranks'[y] => x = y
        /\ \A x \in Contenders' : Ranks'[x] \in Nat /\ Ranks'[x] < Len(Line')
        /\ Len(Line') = n + 1
      BY <1>2, <1>4, Zenon DEF IsLine
  <2> HIDE DEF new, n
  <2> QED
      BY <1>4, <1>8, <1>9, <2>1, Zenon DEF IsLine
<1> QED
    BY <1>2, <1>3, <1>10, OnlyLine, Zenon

\* Unlock takes the first off the line.
LEMMA UnlockTakesFirst ==
    ASSUME IInv, IInv', NEW c \in Cores, pc[c] = "inside",
           pc' = [pc EXCEPT ![c] = "drain"], Unlock, UNCHANGED <<m_NextTicket, ticket>>
    PROVE  Line' = Tail(Line)
<1> DEFINE n == Cardinality(Contenders)
           new == Tail(Line)
<1>1. IsLine(Line, Contenders, Ranks)
    BY LineIs DEF IInv
<1>2. IsLine(Line', Contenders', Ranks')
    BY LineIsThen
<1>3. c \in Contenders /\ Contenders' = Contenders \ {c}
    BY DEF IInv, Contenders, TypeOK
<1>4. Cardinality(Contenders') = n - 1 /\ n \in Nat
    BY <1>3, ContendersBound, FS_RemoveElement, Zenon
<1>5. Ranks[c] = 0
  <2>1. ticket[c] = m_NowServing /\ m_NowServing \in Tickets
      BY DEF IInv, TicketsInOrder, TypeOK
  <2>2. \A b \in Tickets : Minus(b, b) = 0
      BY TicketAssumption DEF Minus, Tickets
  <2> QED
      BY <1>3, <2>1, <2>2, Zenon DEF Ranks, Rank
<1>6. \A d \in Contenders' : d \in Contenders /\ d # c /\ Ranks'[d] = Ranks[d] - 1
  <2> SUFFICES ASSUME NEW d \in Contenders' PROVE Ranks'[d] = Ranks[d] - 1
      BY <1>3
  <2>1. d \in Contenders /\ d # c
      BY <1>3
  <2>2. ticket[d] \in Tickets /\ m_NowServing \in Tickets /\ m_NowServing' = After(m_NowServing)
      BY <2>1 DEF IInv, TypeOK, Unlock, Contenders
  <2>3. ticket[d] # m_NowServing
      BY <2>1, <1>3, Zenon DEF IInv, TicketsInOrder
  <2>4. \A a, b \in Tickets : a # b => Minus(a, After(b)) = Minus(a, b) - 1
      BY TicketAssumption DEF Minus, After, Tickets
  <2>5. Ranks'[d] = Minus(ticket[d], After(m_NowServing)) /\ Ranks[d] = Minus(ticket[d], m_NowServing)
      BY <2>1, <2>2, Zenon DEF Ranks, Rank
  <2> QED
      BY <2>2, <2>3, <2>4, <2>5, Zenon
<1>7. Line \in Seq(Contenders) /\ Len(Line) = n /\ n # 0 /\ Line # <<>>
  <2>1. Line \in Seq(Contenders) /\ Len(Line) = n /\ 0 < n
      BY <1>1, <1>3, <1>5, Zenon DEF IsLine
  <2> QED
      BY <1>4, <2>1
<1>8. Len(new) = n - 1 /\ new \in Seq(Contenders) /\ \A i \in 1 .. n - 1 : new[i] = Line[i + 1]
    BY <1>7, HeadTailProperties, Zenon
<1>9. \A i \in 1 .. n - 1 : new[i] \in Contenders' /\ Ranks'[new[i]] = i - 1
  <2> SUFFICES ASSUME NEW i \in 1 .. n - 1 PROVE new[i] \in Contenders' /\ Ranks'[new[i]] = i - 1
      BY Zenon
  <2>1. i + 1 \in 1 .. n /\ (i + 1) - 1 = i /\ i # 0 /\ i \in Nat
      BY <1>4
  <2>2. Line[i + 1] \in Contenders /\ Ranks[Line[i + 1]] = i
    <3>1. Line[i + 1] \in Contenders
        BY <1>7, <2>1, ElementOfSeq, Zenon
    <3>2. Ranks[Line[i + 1]] = (i + 1) - 1
        BY <1>1, <1>7, <2>1, Zenon DEF IsLine
    <3> QED
        BY <2>1, <3>1, <3>2, Zenon
  <2>3. Line[i + 1] # c
      BY <1>5, <2>1, <2>2, Zenon
  <2>4. Line[i + 1] \in Contenders'
      BY <1>3, <2>2, <2>3
  <2> QED
      BY <1>6, <1>8, <2>2, <2>4, Zenon
<1>10. new \in Seq(Contenders')
  <2> HIDE DEF new
  <2> QED
      BY <1>8, <1>9
<1>11. IsLine(new, Contenders', Ranks')
  <2>1. /\ \A x, y \in Contenders' : Ranks'[x] = Ranks'[y] => x = y
        /\ \A x \in Contenders' : Ranks'[x] \in Nat /\ Ranks'[x] < Len(Line')
        /\ Len(Line') = n - 1
      BY <1>2, <1>4, Zenon DEF IsLine
  <2> HIDE DEF new, n
  <2> QED
      BY <1>4, <1>8, <1>9, <1>10, <2>1, Zenon DEF IsLine
<1> QED
    BY <1>2, <1>11, OnlyLine, Zenon

Inside == \E c \in Cores : pc[c] = "inside"

\* The cores that have asked are the contenders.
LEMMA AskingIs == IInv => Level!Asking = Contenders
    BY LineIs, LineHasAll DEF IInv, Level!Asking

\* Unlock is the abstract release.
LEMMA UnlockReleases ==
    ASSUME IInv, IInv', NEW c \in Cores, pc[c] = "inside",
           pc' = [pc EXCEPT ![c] = "drain"], Unlock,
           UNCHANGED <<m_NextTicket, ticket, s_EpilogueQueue>>
    PROVE  Level!Release
<1>1. Line' = Tail(Line)
    BY UnlockTakesFirst, Zenon
<1>2. ASSUME NEW d \in Cores PROVE pc'[d] # "inside"
  <2>1. pc[d] = "inside" => d = c
      BY DEF IInv, TicketsInOrder, Contenders
  <2> QED
      BY <2>1 DEF IInv, TypeOK
<1> QED
    BY <1>1, <1>2, Zenon DEF Level!Release

\* A core that is neither at the lock before nor after leaves the line alone.
LEMMA MovesElsewhere ==
    ASSUME IInv, IInv', NEW c \in Cores, NEW to, pc' = [pc EXCEPT ![c] = to],
           pc[c] \notin {"spin", "inside"}, to \notin {"spin", "inside"},
           UNCHANGED lockVars
    PROVE  Line' = Line /\ Contenders' = Contenders /\ (Inside' <=> Inside)
<1>1. pc \in [Cores -> Places]
    BY DEF IInv, TypeOK
<1>2. Contenders' = Contenders
    BY <1>1 DEF Contenders
<1>3. Inside' <=> Inside
    BY <1>1 DEF Inside
<1> QED
    BY <1>2, <1>3, LineStays DEF lockVars

\* Every step of the Guard is a step of the level or none.
LEMMA LevelStepIs ==
    ASSUME IInv, IInv', [Next]_vars
    PROVE  [Level!Next]_(Level!vars)
<1> USE DEF Inside
<1>1. ASSUME UNCHANGED <<pc, lockVars>> PROVE Line' = Line /\ (Inside' <=> Inside)
    BY <1>1, LineStays DEF lockVars, Contenders
<1>2. ASSUME NEW c \in Cores, Enter(c) PROVE UNCHANGED Level!vars
    BY <1>2, MovesElsewhere, Zenon DEF Enter, Level!vars
<1>3. ASSUME NEW c \in Cores, DrawTicket(c) PROVE Level!Ask(c)
  <2>1. Inside' <=> Inside
      BY <1>3 DEF DrawTicket, IInv, TypeOK
  <2> QED
      BY <1>3, <2>1, DrawAppends, AskingIs, Zenon DEF DrawTicket, Level!Ask
<1>4. ASSUME NEW c \in Cores, Acquire(c) PROVE Level!Admit
  <2>1. Contenders' = Contenders /\ c \in Contenders
      BY <1>4 DEF Acquire, Contenders, IInv, TypeOK
  <2>2. Line' = Line
      BY <1>4, <2>1, LineStays DEF Acquire, lockVars
  <2>3. Inside'
      BY <1>4 DEF Acquire, IInv, TypeOK
  <2>4. ~Inside
    <3> SUFFICES ASSUME NEW d \in Cores, pc[d] = "inside" PROVE FALSE
        OBVIOUS
    <3>1. d \in Contenders /\ ticket[d] = ticket[c]
        BY <1>4 DEF Contenders, Acquire, IsServed, IInv, TicketsInOrder
    <3>2. d = c
        BY <2>1, <3>1 DEF IInv, TicketsInOrder
    <3> QED
        BY <1>4, <3>2 DEF Acquire
  <2>5. Line # <<>>
    <3>1. c \in {Line[i] : i \in DOMAIN Line}
        BY <2>1, AskingIs DEF Level!Asking
    <3> QED
        BY <3>1
  <2> QED
      BY <1>4, <2>2, <2>3, <2>4, <2>5 DEF Acquire, Level!Admit
<1>5. ASSUME NEW c \in Cores, Leave(c) PROVE Level!Release
    BY <1>5, UnlockReleases, Zenon DEF Leave
<1>6. ASSUME NEW c \in Cores, TakeEpilogue(c) PROVE Level!Take(c)
  <2>1. Line' = Line /\ (Inside' <=> Inside)
      BY <1>6, MovesElsewhere, Zenon DEF TakeEpilogue
  <2>2. c \notin Level!Asking
      BY <1>6, AskingIs DEF TakeEpilogue, Contenders
  <2> QED
      BY <1>6, <2>1, <2>2 DEF TakeEpilogue, Consume, Level!Take
<1>7. ASSUME NEW c \in Cores, EpilogueDone(c) PROVE Level!Release
    BY <1>7, UnlockReleases, Zenon DEF EpilogueDone
<1>8. ASSUME NEW c \in Cores, LeaveLevel(c) PROVE UNCHANGED Level!vars
    BY <1>8, MovesElsewhere, Zenon DEF LeaveLevel, Level!vars
<1>9. ASSUME NEW c \in Cores, NEW e \in Epilogues, RelayBusy(c, e) PROVE Level!Post(c, e)
    BY <1>1, <1>9 DEF RelayBusy, Produce, Level!Post
<1>10. ASSUME NEW c \in Cores, NEW e \in Epilogues, RelayFree(c, e) PROVE Level!Post(c, e)
  <2>1. pc[c] = "outside"
      BY <1>10 DEF RelayFree, IInv, LevelConsistent
  <2>2. Line' = Line /\ (Inside' <=> Inside)
      BY <1>10, <2>1, MovesElsewhere, Zenon DEF RelayFree
  <2> QED
      BY <1>10, <2>2 DEF RelayFree, Produce, Level!Post
<1>11. ASSUME NEW c \in Cores, Mask(c) \/ EnableAtBoot(c) PROVE UNCHANGED Level!vars
    BY <1>1, <1>11 DEF Mask, EnableAtBoot, Level!vars
<1>12. ASSUME NEW c \in Cores, NEW t \in Threads, Go(c, t) \/ Dispatch(c, t)
       PROVE  UNCHANGED Level!vars
    BY <1>1, <1>12 DEF Go, Dispatch, Level!vars
<1>13. CASE UNCHANGED vars
    BY <1>1, <1>13 DEF vars, Level!vars
<1> QED
    BY <1>2, <1>3, <1>4, <1>5, <1>6, <1>7, <1>8, <1>9, <1>10, <1>11, <1>12, <1>13, Zenon
    DEF Next, Level!Next

\* The ticket lock and the epilogue queues are what Guard.cpp:13-18 promises,
\* for every number of cores and every width of the tickets: one owner at a
\* time, in the order of asking, and queues that only their own core empties,
\* first in first out.
THEOREM GuardServesInOrder == Spec => ImplementsLevel
<1>1. Init => Level!Init
  <2> SUFFICES ASSUME Init PROVE Level!Init
      OBVIOUS
  <2>1. Contenders = {} /\ Cardinality({}) = 0
      BY FS_EmptySet DEF Init, Contenders
  <2>2. Line = <<>>
      BY <2>1 DEF Line
  <2> QED
      BY <2>2 DEF Init, Level!Init
<1>2. IInv /\ IInv' /\ [Next]_vars => [Level!Next]_(Level!vars)
    BY LevelStepIs
<1> QED
    BY <1>1, <1>2, Invariance, PTL DEF Spec, ImplementsLevel, Level!Spec
-----------------------------------------------------------------------------
(* A set of natural numbers that is not empty has a smallest element.        *)
LEMMA SmallestExists ==
    ASSUME NEW A \in SUBSET Nat, A # {}
    PROVE  \E x \in A : \A y \in A : x <= y
<1> DEFINE R == OpToRel(<, Nat)
<1>1. IsWellFoundedOn(R, Nat)
    BY NatLessThanWellFounded, Zenon
<1>2. \A x, y \in Nat : y < x => <<y, x>> \in R
    BY DEF OpToRel
<1> HIDE DEF R
<1>3. PICK x \in A : \A y \in A : ~(<<y, x>> \in R)
    BY <1>1, WFMin, Zenon
<1>4. \A y \in A : ~(y < x)
    BY <1>2, <1>3, Zenon
<1> QED
    BY <1>4, SMT

(* What holds at zero and is handed on from each number to the next holds    *)
(* up to a bound.                                                            *)
LEMMA UpToBound ==
    ASSUME NEW N \in Nat, NEW A, 0 \in A, \A n \in 1 .. N : n - 1 \in A => n \in A
    PROVE  \A n \in 0 .. N : n \in A
<1> DEFINE Bad == {n \in 0 .. N : n \notin A}
<1> SUFFICES ASSUME Bad # {} PROVE FALSE
    OBVIOUS
<1>0. Bad \in SUBSET Nat
    OBVIOUS
<1> HIDE DEF Bad
<1>1. PICK m \in Bad : \A n \in Bad : m <= n
    BY <1>0, SmallestExists, Zenon
<1> USE DEF Bad
<1>2. m \in 1 .. N /\ m - 1 \in 0 .. N /\ m - 1 \notin Bad
    BY <1>1
<1> QED
    BY <1>1, <1>2
-----------------------------------------------------------------------------
(* SmpBoot, for every set of machines and every number of cores.              *)
CONSTANTS MAX_CORES, PINS, Machines
VARIABLES
    machine, at, CoreStackPointer, stack, alias, cr3, KernelPageTableRoot, s_IsBootstrapProcessor, idt, rsdp,
    apic, s_CoreIdByLapicId, s_CoreCount, s_OnlineCount, s_CoreOnline, registered, timerSet, readied, trampoline

Smp == INSTANCE SmpBoot WITH pc <- at

\* The results of Apic::Initialize after so many entries.
Results(f, madt) ==
    f = [n \in 0 .. Len(madt.entries) |->
            IF n = 0 THEN Smp!ApicFresh(madt) ELSE Smp!MadtEntry(f[n - 1], madt.entries[n])]

(* There is such a function, so ApicAfter is one.                            *)
LEMMA ApicAfterIs ==
    ASSUME NEW madt, Len(madt.entries) \in Nat
    PROVE  Results(Smp!ApicAfter(madt), madt)
<1> DEFINE N == Len(madt.entries)
           Step(f, n) == Smp!MadtEntry(f[n - 1], madt.entries[n])
           Satisfies(f, m) == /\ f = [n \in 0 .. m |-> f[n]] /\ f[0] = Smp!ApicFresh(madt)
                              /\ \A n \in 1 .. m : f[n] = Step(f, n)
           A == {m \in Nat : \E f : Satisfies(f, m)}
<1>1. 0 \in A
    <2> DEFINE f == [i \in 0 .. 0 |-> Smp!ApicFresh(madt)]
    <2>1. f = [i \in 0 .. 0 |-> f[i]] /\ f[0] = Smp!ApicFresh(madt) /\ \A n \in 1 .. 0 : FALSE
        OBVIOUS
    <2> QED
        BY <2>1, Zenon
<1>2. ASSUME NEW m \in 1 .. N, m - 1 \in A PROVE m \in A
    <2>1. PICK f : Satisfies(f, m - 1)
        BY <1>2
    <2> DEFINE g == [i \in 0 .. m |-> IF i = m THEN Step(f, m) ELSE f[i]]
    <2>2. \A i \in 1 .. m : i \in 0 .. m /\ i - 1 \in 0 .. m /\ i - 1 # m /\ (i # m => i \in 1 .. m - 1)
        OBVIOUS
    <2>3. m # 0 /\ 0 \in 0 .. m /\ m \in Nat
        OBVIOUS
    <2>4. g[0] = Smp!ApicFresh(madt) /\ g = [i \in 0 .. m |-> g[i]]
        BY <2>1, <2>3, Zenon
    <2>5. ASSUME NEW i \in 1 .. m PROVE g[i] = Step(g, i)
        <3>1. g[i - 1] = f[i - 1]
            BY <2>2, Zenon
        <3>2. CASE i = m
            BY <2>2, <3>1, <3>2, Zenon
        <3>3. CASE i # m
            BY <2>1, <2>2, <3>1, <3>3, Zenon
        <3> QED
            BY <3>2, <3>3, Zenon
    <2> HIDE DEF g
    <2>6. Satisfies(g, m)
        BY <2>4, <2>5, Zenon
    <2> QED
        BY <2>3, <2>6, Zenon
<1> HIDE DEF A
<1>3. N \in A
    <2>1. N \in Nat /\ N \in 0 .. N
        OBVIOUS
    <2>2. \A m \in 1 .. N : m - 1 \in A => m \in A
        BY <1>2, Zenon
    <2> HIDE DEF N
    <2> QED
        BY <1>1, <2>1, <2>2, UpToBound, Zenon
<1>4. PICK f : Satisfies(f, N)
    BY <1>3, Zenon DEF A
<1>5. Results(f, madt)
    <2> DEFINE h == [n \in 0 .. N |-> IF n = 0 THEN Smp!ApicFresh(madt) ELSE Step(f, n)]
    <2>1. \A n \in 0 .. N : f[n] = h[n]
        <3>1. \A n \in 0 .. N : n # 0 => n \in 1 .. N
            OBVIOUS
        <3> QED
            BY <1>4, <3>1, Zenon
    <2>2. f = [n \in 0 .. N |-> f[n]]
        BY <1>4, Zenon
    <2>3. f = h
        BY <2>1, <2>2, Zenon
    <2> QED
        BY <2>3, Zenon DEF Results
<1>6. Smp!ApicAfter(madt) = CHOOSE after : Results(after, madt)
    BY DEF Smp!ApicAfter, Results
<1> QED
    BY <1>5, <1>6, Zenon

\* No more processors than there is room for, and none with the invalid id.
GoodIds(ids) ==
    Len(ids) \in Nat /\ Len(ids) <= MAX_CORES /\ \A n \in 1 .. Len(ids) : ids[n] # Smp!INVALID_ID

\* The same of a result of Apic::Initialize that takes its ids from a set.
GoodApic(a, Ids) ==
    /\ DOMAIN a = {"base", "ids", "ioApic", "pins"}
    /\ a.ids \in Seq(Ids) /\ GoodIds(a.ids)

(* No entry of the table breaks it.                                          *)
LEMMA EntryKeeps ==
    ASSUME NEW Ids, NEW a, GoodApic(a, Ids), NEW e, e.id \in Ids, MAX_CORES \in Nat
    PROVE  GoodApic(Smp!MadtEntry(a, e), Ids)
<1> DEFINE b == Smp!MadtEntry(a, e)
<1>0. /\ DOMAIN a = {"base", "ids", "ioApic", "pins"} /\ a.ids \in Seq(Ids)
      /\ GoodIds(a.ids)
    BY DEF GoodApic
<1>1. CASE Smp!IsCounted(a, e) /\ b = [a EXCEPT !.ids = Append(@, e.id)]
    <2>1. b.ids = Append(a.ids, e.id) /\ DOMAIN b = DOMAIN a
        BY <1>0, <1>1
    <2>2. Append(a.ids, e.id) \in Seq(Ids) /\ Len(Append(a.ids, e.id)) = Len(a.ids) + 1
        BY <1>0, AppendProperties
    <2>3. \A n \in 1 .. Len(a.ids) + 1 : Append(a.ids, e.id)[n] = IF n = Len(a.ids) + 1 THEN e.id ELSE a.ids[n]
        BY <1>0, AppendProperties
    <2>4. e.id # Smp!INVALID_ID /\ Len(a.ids) < MAX_CORES
        BY <1>1 DEF Smp!IsCounted
    <2>5. GoodIds(Append(a.ids, e.id))
        BY <1>0, <2>2, <2>3, <2>4 DEF GoodIds
    <2> QED
        BY <1>0, <2>1, <2>2, <2>5 DEF GoodApic
<1>2. CASE b.ids = a.ids /\ DOMAIN b = DOMAIN a
    BY <1>0, <1>2 DEF GoodApic
<1>3. \/ Smp!IsCounted(a, e) /\ b = [a EXCEPT !.ids = Append(@, e.id)]
      \/ b.ids = a.ids /\ DOMAIN b = DOMAIN a
    <2>1. CASE e.type = "LOCAL_APIC"
        BY <2>1, <1>0 DEF Smp!MadtEntry, Smp!LocalApicEntry
    <2>2. CASE e.type = "IO_APIC"
        BY <2>2, <1>0 DEF Smp!MadtEntry, Smp!IoApicEntry
    <2>3. CASE e.type = "INTERRUPT_SOURCE_OVERRIDE"
        BY <2>3, <1>0 DEF Smp!MadtEntry, Smp!OverrideEntry
    <2>4. CASE e.type = "LOCAL_APIC_ADDRESS_OVERRIDE"
        BY <2>4, <1>0 DEF Smp!MadtEntry
    <2>5. CASE e.type \notin {"LOCAL_APIC", "IO_APIC", "INTERRUPT_SOURCE_OVERRIDE", "LOCAL_APIC_ADDRESS_OVERRIDE"}
        BY <2>5, <1>0 DEF Smp!MadtEntry
    <2> HIDE DEF b
    <2> QED
        BY <2>1, <2>2, <2>3, <2>4, <2>5
<1> QED
    BY <1>1, <1>2, <1>3

(* So Apic::Initialize returns such a result.                                *)
LEMMA ApicIsGood ==
    ASSUME NEW madt, Len(madt.entries) \in Nat, MAX_CORES \in Nat
    PROVE  GoodIds(Smp!ApicInitialize(madt).ids)
<1> DEFINE N == Len(madt.entries)
           Ids == {madt.entries[n].id : n \in 1 .. N}
           f == Smp!ApicAfter(madt)
           A == {n \in 0 .. N : GoodApic(f[n], Ids)}
<1>1. Results(f, madt)
    BY ApicAfterIs, Zenon
<1>2. f[0] = Smp!ApicFresh(madt) /\ \A n \in 1 .. N : f[n] = Smp!MadtEntry(f[n - 1], madt.entries[n])
    <2> HIDE DEF f
    <2>1. \A n \in 1 .. N : n \in 0 .. N /\ n # 0
        OBVIOUS
    <2>2. 0 \in 0 .. N
        OBVIOUS
    <2> QED
        BY <1>1, <2>1, <2>2, Zenon DEF Results
<1> HIDE DEF f
<1>3. GoodApic(Smp!ApicFresh(madt), Ids)
    BY DEF Smp!ApicFresh, GoodApic, GoodIds
<1>4. 0 \in A
    BY <1>2, <1>3
<1>5. \A n \in 1 .. N : n - 1 \in A => n \in A
    <2> SUFFICES ASSUME NEW n \in 1 .. N, n - 1 \in A PROVE n \in A
        BY Zenon
    <2>1. GoodApic(f[n - 1], Ids) /\ madt.entries[n].id \in Ids /\ n \in 0 .. N
        OBVIOUS
    <2>2. GoodApic(Smp!MadtEntry(f[n - 1], madt.entries[n]), Ids)
        BY <2>1, EntryKeeps, Zenon
    <2> QED
        BY <1>2, <2>1, <2>2, ZenonT(60)
<1> HIDE DEF A
<1>6. N \in A
    <2>1. N \in Nat /\ N \in 0 .. N
        OBVIOUS
    <2> HIDE DEF N
    <2> QED
        BY <1>4, <1>5, <2>1, UpToBound, Zenon
<1>7. GoodApic(f[N], Ids)
    BY <1>6, Zenon DEF A
<1> QED
    BY <1>7 DEF GoodApic, Smp!ApicInitialize, f

(* The size of a set is the same in both modules.                            *)
LEMMA SameCount ==
    \A A : Smp!Cardinality(A) = Cardinality(A)
  BY DEF Smp!Cardinality, Cardinality

(* Cpu::Initialize counts all of them.                                       *)
LEMMA CountIsLength ==
    ASSUME NEW a, GoodIds(a.ids), MAX_CORES \in Nat
    PROVE  Cardinality({n \in 0 .. MAX_CORES - 1 : Smp!GetLocalApicId(a, n) # Smp!INVALID_ID}) = Len(a.ids)
<1>0. Len(a.ids) \in Nat /\ Len(a.ids) <= MAX_CORES
    BY DEF GoodIds
<1>1. \A n \in 0 .. MAX_CORES - 1 : Smp!GetLocalApicId(a, n) # Smp!INVALID_ID <=> n < Len(a.ids)
    BY DEF GoodIds, Smp!GetLocalApicId
<1>2. {n \in 0 .. MAX_CORES - 1 : Smp!GetLocalApicId(a, n) # Smp!INVALID_ID} = 0 .. Len(a.ids) - 1
    BY <1>0, <1>1
<1>3. Cardinality(0 .. Len(a.ids) - 1) = Len(a.ids)
    BY <1>0, FS_Interval
<1> QED
    BY <1>2, <1>3, Zenon

(* The smallest element is one.                                              *)
LEMMA FirstIsIn ==
    ASSUME NEW A \in SUBSET Nat, A # {}
    PROVE  Smp!First(A) \in A
<1>1. \E x \in A : \A y \in A : x =< y
    BY SmallestExists, Zenon
<1> QED
    BY <1>1, Zenon DEF Smp!First

(* What Acpi::Initialize and the lookup of the MADT find is a table whose    *)
(* entries are a list.                                                       *)
LEMMA MadtIsList ==
    ASSUME NEW m, Smp!FirmwareAssumption(m), NEW madt, Smp!FindRsdp(m) # Smp!NoRsdp,
           madt = Smp!Get(m, Smp!FindRsdp(m), "APIC"), madt # Smp!NoTable
    PROVE  Len(madt.entries) \in Nat
<1> DEFINE areas == {m.ebda, m.bios}
           roots == {m.hint} \cup UNION {{area.rsdp[o] : o \in DOMAIN area.rsdp} : area \in areas}
           r == Smp!FindRsdp(m)
<1>1. /\ \A area \in areas : DOMAIN area.rsdp \subseteq Nat
      /\ \A q \in roots \ {Smp!NoRsdp} : q.rsdt \in Seq(DOMAIN m.tables) /\ q.xsdt \in Seq(DOMAIN m.tables)
      /\ \A a \in DOMAIN m.tables :
            m.tables[a].signature = "APIC" =>
               m.tables[a].entries \in Seq({m.tables[a].entries[n] : n \in DOMAIN m.tables[a].entries})
    BY ZenonT(60) DEF Smp!FirmwareAssumption
<1>2. \A area \in areas : Smp!Scan(area) = Smp!NoRsdp \/ Smp!Scan(area) \in roots
    <2> SUFFICES ASSUME NEW area \in areas, Smp!Scan(area) # Smp!NoRsdp PROVE Smp!Scan(area) \in roots
        OBVIOUS
    <2> DEFINE offsets == {o \in DOMAIN area.rsdp :
                        o % 16 = 0 /\ o + Smp!SIZEOF_RSDP <= area.length /\ Smp!IsValidRsdp(area.rsdp[o])}
    <2>1. Smp!Scan(area) = IF offsets = {} THEN Smp!NoRsdp ELSE area.rsdp[Smp!First(offsets)]
        BY DEF Smp!Scan
    <2>2. offsets \in SUBSET Nat /\ offsets \subseteq DOMAIN area.rsdp
        BY <1>1
    <2> HIDE DEF offsets
    <2>3. Smp!First(offsets) \in DOMAIN area.rsdp /\ Smp!Scan(area) = area.rsdp[Smp!First(offsets)]
        BY <2>1, <2>2, FirstIsIn
    <2> QED
        BY <2>3
<1>3. r \in roots \ {Smp!NoRsdp}
    <2>1. r \in roots
        BY <1>2 DEF Smp!FindRsdp
    <2> QED
        BY <2>1
<1> HIDE DEF r, roots, areas
<1> DEFINE entries == Smp!RootEntries(r)
           match == {i \in DOMAIN entries : Smp!GetIndex(m, entries[i]).signature = "APIC"}
<1>4. entries \in Seq(DOMAIN m.tables)
    BY <1>1, <1>3 DEF Smp!RootEntries
<1>5. madt = IF match = {} THEN Smp!NoTable ELSE Smp!GetIndex(m, entries[Smp!First(match)])
    BY DEF Smp!Get, r
<1>6. match \in SUBSET Nat
    BY <1>4
<1>7. Smp!First(match) \in match /\ madt = Smp!GetIndex(m, entries[Smp!First(match)])
    <2> HIDE DEF match
    <2> QED
        BY <1>5, <1>6, FirstIsIn
<1>8. PICK i \in DOMAIN entries : madt = Smp!GetIndex(m, entries[i]) /\ madt.signature = "APIC"
    BY <1>7
<1>9. entries[i] \in DOMAIN m.tables
    <2> HIDE DEF entries
    <2> QED
        BY <1>4
<1>10. madt = m.tables[entries[i]]
    <2> HIDE DEF entries
    <2> QED
        BY <1>8 DEF Smp!GetIndex
<1>11. madt.entries \in Seq({madt.entries[n] : n \in DOMAIN madt.entries})
    BY <1>1, <1>8, <1>9, <1>10, Zenon
<1> QED
    BY <1>11, LenProperties
-----------------------------------------------------------------------------
\* Where the first processor is from each stage on.
Started == {"first_startup", "second_startup", "main_ap", "running"}
FromBoot == {"boot"} \cup Started
FromDevices == {"devices"} \cup FromBoot
FromRegister == {"register", "main"} \cup FromDevices
FromTable == {"table"} \cup FromRegister
FromAcpi == {"acpi", "apic", "cpu"} \cup FromTable
OnTheWay == {"segment", "long_mode", "64_bit", "init"}
Stopped == {"halted", "dead"}

\* What the first processor has prepared, by where it is.
Prepared(place) ==
    /\ place \in OnTheWay \cup FromAcpi \cup Stopped
    /\ place \in OnTheWay => s_IsBootstrapProcessor
    /\ place \in FromAcpi => ~s_IsBootstrapProcessor /\ idt
    /\ place = "apic" => rsdp = Smp!FindRsdp(machine) /\ rsdp # Smp!NoRsdp
    /\ place \in OnTheWay \cup {"acpi", "apic", "cpu"} => s_OnlineCount = 0
    /\ place \in FromTable => s_OnlineCount > 0
    /\ place \in FromRegister => s_CoreCount = Len(apic.ids)
    /\ place \in FromDevices => KernelPageTableRoot
    /\ place \in FromBoot => timerSet /\ readied

\* Where another processor can be, and that it is off before it is started.
Other(place, bsp, tables) ==
    /\ place \in OnTheWay \cup {"off", "wait", "trampoline", "cpu", "register", "main_ap", "running", "halted"}
    /\ place # "off" => bsp \in Started /\ trampoline
    /\ place \in {"64_bit", "init", "cpu", "register", "main_ap", "running"} => tables = "kernel"

BootInv ==
    /\ machine \in Machines
    /\ at = [c \in Smp!Cpus |-> at[c]] /\ cr3 = [c \in Smp!Cpus |-> cr3[c]]
    /\ s_OnlineCount \in Nat /\ GoodIds(apic.ids)
    /\ Prepared(at[machine.bsp])
    /\ \A c \in Smp!Cpus \ {machine.bsp} : Other(at[c], at[machine.bsp], cr3[c])

(* The first processor starts with nothing prepared, and the others are off. *)
LEMMA BootStarts == Smp!MachinesAssumption /\ Smp!Init => BootInv
  BY DEF Smp!MachinesAssumption, Smp!Init, BootInv, Smp!Cpus, GoodIds, Prepared, Other,
         Started, FromBoot, FromDevices, FromRegister, FromTable, FromAcpi, OnTheWay, Stopped

(* No step of a processor breaks it.                                         *)
LEMMA BootKept ==
    ASSUME Smp!MachinesAssumption, BootInv, NEW c \in Smp!Cpus, Smp!Core(c)
    PROVE  BootInv'
<1> DEFINE b == machine.bsp
           Rest == Smp!Cpus \ {b}
<1>0. /\ b \in Smp!Cpus /\ MAX_CORES \in Nat /\ Smp!FirmwareAssumption(machine)
      /\ Prepared(at[b]) /\ (\A d \in Rest : Other(at[d], at[b], cr3[d]))
      /\ s_OnlineCount \in Nat /\ GoodIds(apic.ids)
      /\ at = [d \in Smp!Cpus |-> at[d]] /\ cr3 = [d \in Smp!Cpus |-> cr3[d]]
  BY Zenon DEF BootInv, Smp!MachinesAssumption, Smp!Cpus
<1>1. SUFFICES /\ machine' = machine /\ Smp!Cpus' = Smp!Cpus
               /\ at' = [d \in Smp!Cpus |-> at'[d]] /\ cr3' = [d \in Smp!Cpus |-> cr3'[d]]
               /\ s_OnlineCount' \in Nat /\ GoodIds(apic.ids)'
               /\ Prepared(at[b])' /\ \A d \in Rest : Other(at[d], at[b], cr3[d])'
  BY ZenonT(60) DEF BootInv
<1> USE <1>0 DEF Prepared, Other, Started, FromBoot, FromDevices, FromRegister, FromTable, FromAcpi,
                 OnTheWay, Stopped, Smp!Step, Smp!boot, Smp!firmware, Smp!cpu, Smp!started
<1>2. CASE Smp!ApTrampoline(c)
  BY <1>2, ZenonT(60) DEF Smp!ApTrampoline, Smp!Cpus, GoodIds
<1>3. CASE Smp!SegmentInit(c)
  BY <1>3, ZenonT(60) DEF Smp!SegmentInit, Smp!Cpus, GoodIds
<1>4. CASE Smp!NoLongMode(c)
  BY <1>4, ZenonT(60) DEF Smp!NoLongMode, Smp!Cpus, GoodIds
<1>5. CASE Smp!SetupPaging(c)
  BY <1>5, ZenonT(60) DEF Smp!SetupPaging, Smp!Cpus, GoodIds, Smp!Tables
<1>6. CASE Smp!LongModeStart(c)
  BY <1>6, ZenonT(60) DEF Smp!LongModeStart, Smp!Cpus, GoodIds
<1>7. CASE Smp!KernelInit_Bsp(c)
  BY <1>7, ZenonT(60) DEF Smp!KernelInit_Bsp, Smp!Cpus, GoodIds
<1>8. CASE Smp!AcpiInitialize(c)
  BY <1>8, ZenonT(60) DEF Smp!AcpiInitialize, Smp!Cpus, GoodIds
<1>9. CASE Smp!ApicInitializeStep(c)
  <2> DEFINE madt == Smp!Get(machine, rsdp, "APIC")
  <2>1. c = b /\ at[b] = "apic" /\ rsdp = Smp!FindRsdp(machine) /\ rsdp # Smp!NoRsdp
    BY <1>9 DEF Smp!ApicInitializeStep
  <2>2. apic' = IF madt = Smp!NoTable THEN apic ELSE Smp!ApicInitialize(madt)
    BY <1>9 DEF Smp!ApicInitializeStep
  <2>3. madt # Smp!NoTable => Len(madt.entries) \in Nat
    BY <2>1, MadtIsList
  <2> HIDE DEF madt
  <2>4. GoodIds(apic'.ids)
    BY <2>2, <2>3, ApicIsGood, ZenonT(60)
  <2> QED
    BY <1>9, <2>1, <2>4, ZenonT(60) DEF Smp!ApicInitializeStep, Smp!Cpus, GoodIds
<1>10. CASE Smp!KernelInit_Ap(c)
  BY <1>10, ZenonT(60) DEF Smp!KernelInit_Ap, Smp!Cpus, GoodIds
<1>11. CASE Smp!CpuInitialize_Count(c)
  <2>0. s_OnlineCount' = s_OnlineCount + 1
    BY <1>11, ZenonT(60) DEF Smp!CpuInitialize_Count
  <2>1. s_OnlineCount' \in Nat /\ s_OnlineCount' > 0
    <3> HIDE DEF Prepared, Other
    <3> QED
      BY <2>0
  <2>2. CASE c = b
    BY <1>11, <2>1, <2>2, ZenonT(60) DEF Smp!CpuInitialize_Count, Smp!Cpus, GoodIds
  <2>3. CASE c # b
    <3>1. at[b] \in Started /\ s_OnlineCount > 0 /\ at[c] = "cpu"
      BY <1>11, <2>3 DEF Smp!CpuInitialize_Count
    <3>2. /\ machine' = machine /\ Smp!Cpus' = Smp!Cpus /\ cr3' = cr3 /\ apic' = apic /\ trampoline' = trampoline
          /\ at' = [at EXCEPT ![c] = "register"]
      BY <1>11, <3>1 DEF Smp!CpuInitialize_Count, Smp!Cpus
    <3>3. \A d \in Rest : at'[d] = IF d = c THEN "register" ELSE at[d]
      BY <3>2
    <3>4. at'[b] = at[b] /\ at' = [d \in Smp!Cpus |-> at'[d]]
      BY <2>3, <3>2
    <3>5. Prepared(at[b])'
      BY <1>11, <2>1, <3>1, <3>2, <3>4, Zenon DEF Smp!CpuInitialize_Count
    <3>6. \A d \in Rest : Other(at[d], at[b], cr3[d])'
      BY <3>1, <3>2, <3>3, <3>4
    <3> QED
      BY <2>1, <3>2, <3>4, <3>5, <3>6, Zenon DEF GoodIds
  <2> QED
    BY <2>2, <2>3, ZenonT(60)
<1>12. CASE Smp!CpuInitialize_Table(c)
  <2>1. c = b /\ at[b] = "table"
    BY <1>12 DEF Smp!CpuInitialize_Table
  <2>2. s_CoreCount' = Len(apic.ids)
    BY <1>12, CountIsLength, SameCount, Zenon DEF Smp!CpuInitialize_Table
  <2> QED
    BY <1>12, <2>1, <2>2, ZenonT(60) DEF Smp!CpuInitialize_Table, Smp!Cpus, GoodIds
<1>13. CASE Smp!CpuInitialize_Register(c)
  BY <1>13, ZenonT(60) DEF Smp!CpuInitialize_Register, Smp!Cpus, GoodIds
<1>14. CASE Smp!Main_Paging(c)
  BY <1>14, ZenonT(60) DEF Smp!Main_Paging, Smp!Cpus, GoodIds
<1>15. CASE Smp!Main_Devices(c)
  BY <1>15, ZenonT(60) DEF Smp!Main_Devices, Smp!Cpus, GoodIds
<1>16. CASE Smp!BootAlone(c)
  BY <1>16, ZenonT(60) DEF Smp!BootAlone, Smp!Cpus, GoodIds, Smp!HasOthers
<1>17. CASE Smp!SendInit(c)
  BY <1>17, Zenon DEF Smp!SendInit, Smp!Cpus, GoodIds, Smp!HasOthers
<1>18. CASE Smp!SendStartup_First(c)
  BY <1>18, ZenonT(60) DEF Smp!SendStartup_First, Smp!Cpus, GoodIds, Smp!Woken, Smp!Others
<1>19. CASE Smp!SendStartup_Second(c)
  BY <1>19, ZenonT(60) DEF Smp!SendStartup_Second, Smp!Cpus, GoodIds, Smp!Woken, Smp!Others, Smp!SecondHeard
<1>20. CASE Smp!MainAp(c)
  BY <1>20, Zenon DEF Smp!MainAp, Smp!Cpus, GoodIds
<1> QED
  BY <1>2, <1>3, <1>4, <1>5, <1>6, <1>7, <1>8, <1>9, <1>10, <1>11, <1>12, <1>13, <1>14, <1>15,
     <1>16, <1>17, <1>18, <1>19, <1>20, Zenon DEF Smp!Core

(* SmpBoot::Boot starts the other processors only once Main has prepared     *)
(* everything they read without a lock, and they run on the kernel's tables. *)
THEOREM StartedOnlyLate == Smp!MachinesAssumption => (Smp!Spec => []Smp!StartedLate)
<1> SUFFICES ASSUME Smp!MachinesAssumption PROVE Smp!Spec => []Smp!StartedLate
  OBVIOUS
<1>1. Smp!Init => BootInv
  BY BootStarts
<1>2. BootInv /\ [Smp!Next]_Smp!vars => BootInv'
  <2> SUFFICES ASSUME BootInv, [Smp!Next]_Smp!vars PROVE BootInv'
    OBVIOUS
  <2>1. CASE Smp!Next
    BY <2>1, BootKept, ZenonT(60) DEF Smp!Next
  <2>2. CASE UNCHANGED Smp!vars
    BY <2>2, ZenonT(60) DEF BootInv, Smp!Cpus, GoodIds, Prepared, Other, Smp!vars, Smp!boot, Smp!firmware, Smp!cpu, Smp!started
  <2> QED
    BY <2>1, <2>2
<1>3. BootInv => Smp!StartedLate
  BY Zenon DEF Smp!MachinesAssumption, BootInv, Smp!StartedLate, Smp!InC, Smp!Cpus, Prepared, Other,
         Started, FromBoot, FromDevices, FromRegister, FromTable, FromAcpi, OnTheWay, Stopped
<1> QED
  BY <1>1, <1>2, <1>3, PTL DEF Smp!Spec
============================================================================
