-------------------------- MODULE UserMemoryProofs --------------------------
(* However callers on several cores interleave: no two pages get the same     *)
(* frame, what CopyIn has checked stays readable, ring 3 reaches its own half *)
(* only, and guard pages stay unmapped.                                       *)
EXTENDS UserMemory, NaturalsInduction, WellFoundedInduction, TLAPS

\* A leaf is translated with all the definitions before it: the provers get more
\* time for that than by default.
USE SMTT(30), ZenonT(60)

-----------------------------------------------------------------------------
(* Pages and bytes.                                                           *)

(* A set of natural numbers has a least element.                              *)
LEMMA LeastExists ==
    ASSUME NEW S \in SUBSET Nat, S # {}
    PROVE  \E n \in S : \A m \in S : n <= m
<1> DEFINE R == OpToRel(<, Nat)
<1>1. IsWellFoundedOn(R, Nat)
  BY NatLessThanWellFounded, Zenon
<1>2. \A x, y \in Nat : y < x => <<y, x>> \in R
  BY DEF OpToRel
<1> HIDE DEF R
<1>3. PICK x \in S : \A y \in S : ~(<<y, x>> \in R)
  BY <1>1, WFMin, Zenon
<1>4. \A y \in S : ~(y < x)
  BY <1>2, <1>3, Zenon
<1>5. \A y \in S : x <= y
  BY <1>4
<1> QED
  BY <1>5

(* Division by the page size.                                                 *)
LEMMA PageOfIs ==
    ASSUME LayoutAssumption, NEW n \in Nat
    PROVE  PageOf(n) \in Nat /\ PageOf(n) * PAGE_SIZE <= n /\ n < PageOf(n) * PAGE_SIZE + PAGE_SIZE
  BY Z3 DEF LayoutAssumption, PageOf

(* More pages have more bytes.                                                *)
LEMMA MorePages ==
    ASSUME LayoutAssumption, NEW j \in Int, NEW k \in Int
    PROVE  /\ j * PAGE_SIZE \in Int /\ (j \in Nat => j * PAGE_SIZE \in Nat)
           /\ j <= k <=> j * PAGE_SIZE <= k * PAGE_SIZE
           /\ (j + k) * PAGE_SIZE = j * PAGE_SIZE + k * PAGE_SIZE
           /\ (j + 1) * PAGE_SIZE = j * PAGE_SIZE + PAGE_SIZE
  BY Z3 DEF LayoutAssumption

(* The same for natural numbers, and the page after one.                      *)
LEMMA NextPage ==
    ASSUME LayoutAssumption, NEW j \in Nat
    PROVE  (j + 1) * PAGE_SIZE = j * PAGE_SIZE + PAGE_SIZE /\ j * PAGE_SIZE \in Nat
  BY MorePages

(* So do sums.                                                                *)
LEMMA AddPages ==
    ASSUME LayoutAssumption, NEW j \in Nat, NEW k \in Nat
    PROVE  /\ (j + k) * PAGE_SIZE = j * PAGE_SIZE + k * PAGE_SIZE
           /\ j * PAGE_SIZE \in Nat /\ k * PAGE_SIZE \in Nat
  BY MorePages

(* A page is determined by its bytes.                                         *)
LEMMA PageIs ==
    ASSUME LayoutAssumption, NEW n \in Nat, NEW k \in Int,
           k * PAGE_SIZE <= n, n < k * PAGE_SIZE + PAGE_SIZE
    PROVE  PageOf(n) = k
<1> DEFINE m == PageOf(n)
<1>1. m \in Nat /\ m * PAGE_SIZE <= n /\ n < m * PAGE_SIZE + PAGE_SIZE
  BY PageOfIs
<1>2. PAGE_SIZE \in Nat \ {0}
  BY DEF LayoutAssumption
<1> HIDE DEF m
<1>3. /\ (m + 1) * PAGE_SIZE = m * PAGE_SIZE + PAGE_SIZE /\ (k + 1) * PAGE_SIZE = k * PAGE_SIZE + PAGE_SIZE
      /\ m * PAGE_SIZE \in Int /\ k * PAGE_SIZE \in Int
  BY <1>1, MorePages
<1>4. ~((m + 1) * PAGE_SIZE <= k * PAGE_SIZE) /\ ~((k + 1) * PAGE_SIZE <= m * PAGE_SIZE)
  BY <1>1, <1>2, <1>3
<1>5. ~(m + 1 <= k) /\ ~(k + 1 <= m)
  BY <1>1, <1>4, MorePages
<1>6. m = k
  BY <1>1, <1>5
<1> QED
  BY <1>6 DEF m

(* A multiple of the page size is that many pages.                            *)
LEMMA WholePages ==
    ASSUME LayoutAssumption, NEW n \in Nat, n % PAGE_SIZE = 0
    PROVE  PageOf(n) \in Nat /\ n = PageOf(n) * PAGE_SIZE
  BY Z3 DEF LayoutAssumption, PageOf

(* Larger addresses are on no smaller page.                                   *)
LEMMA PageOrder ==
    ASSUME LayoutAssumption, NEW m \in Nat, NEW n \in Nat, m <= n
    PROVE  PageOf(m) <= PageOf(n)
<1> DEFINE j == PageOf(m)
           k == PageOf(n)
<1>1. j \in Nat /\ k \in Nat /\ j * PAGE_SIZE <= m /\ n < k * PAGE_SIZE + PAGE_SIZE
  BY PageOfIs
<1> HIDE DEF j, k
<1>2. j * PAGE_SIZE \in Nat /\ k * PAGE_SIZE \in Nat /\ (k + 1) * PAGE_SIZE = k * PAGE_SIZE + PAGE_SIZE
  BY <1>1, MorePages
<1>3. ~((k + 1) * PAGE_SIZE <= j * PAGE_SIZE)
  BY <1>1, <1>2 DEF LayoutAssumption
<1>4. ~(k + 1 <= j)
  BY <1>1, <1>3, MorePages
<1> QED
  BY <1>1, <1>4 DEF j, k

(* A segment of at least a byte has at least a page, and its last page holds  *)
(* its last byte.                                                             *)
LEMMA SegmentHasPages ==
    ASSUME LayoutAssumption, NEW s, s.virtual \in Nat, s.memorySize \in Nat \ {0}
    PROVE  SegmentPages(s) \in Nat \ {0} /\ PageOf(s.virtual) \in Nat
<1> DEFINE v == s.virtual
           m == s.memorySize
           n == v + m + PAGE_SIZE - 1
           j == PageOf(v)
<1>1. PAGE_SIZE \in Nat \ {0} /\ n \in Nat /\ v \in Nat /\ m \in Nat \ {0}
  BY DEF LayoutAssumption
<1>2. j \in Nat /\ j * PAGE_SIZE <= v /\ PageOf(n) \in Nat
  BY <1>1, PageOfIs
<1>3. PageOf(v + PAGE_SIZE) <= PageOf(n)
  BY <1>1, PageOrder
<1>4. PageOf(v + PAGE_SIZE) = j + 1
  <2> HIDE DEF j
  <2>1. v < j * PAGE_SIZE + PAGE_SIZE
    BY <1>1, PageOfIs DEF j
  <2>2. (j + 1) * PAGE_SIZE = j * PAGE_SIZE + PAGE_SIZE /\ j * PAGE_SIZE \in Nat
    BY <1>2, MorePages
  <2> HIDE DEF v, m
  <2>3. (j + 1) * PAGE_SIZE <= v + PAGE_SIZE /\ v + PAGE_SIZE < (j + 1) * PAGE_SIZE + PAGE_SIZE /\ v + PAGE_SIZE \in Nat
    BY <1>1, <1>2, <2>1, <2>2
  <2> QED
    BY <1>2, <2>3, PageIs
<1> QED
  BY <1>2, <1>3, <1>4 DEF SegmentPages

-----------------------------------------------------------------------------
(* What a step does to the caller that takes it.                              *)

Granted == [present : {TRUE}, frame : Nat, access : Accesses, user : BOOLEAN]

IdleCalls == [at : {"idle"}, left : Int]
SegmentCalls == [at : {"segment"}, left : Int, image : Images, index : Nat \ {0}]
StackCalls == [at : {"stack"}, left : Int, top : Int]
CheckCalls == [at : {"check"}, left : Int, buffer : Buffers, page : Nat]
MapCalls == [at : {"map"}, left : Int, page : Int, end : Int, frame : Nat, access : Accesses,
             user : BOOLEAN, then : IdleCalls \cup SegmentCalls]
Calls == IdleCalls \cup SegmentCalls \cup StackCalls \cup CheckCalls \cup MapCalls

\* What a frame holds that has been cleared, and filled since or not.
Clean == {"zero", "image", "other"}

TypeOK ==
    /\ phase \in {"off", "up", "panic"}
    /\ space \in [Pages -> {Unmapped} \cup Granted]
    /\ nextSlot \in Nat /\ nextStackTop \in Int
    /\ nextFrame \in FirstFrame .. FirstFrame + MAX_FRAMES
    /\ content \in [AllFrames -> {"junk"} \cup Clean]
    /\ call \in [Callers -> Calls]
    /\ phase = "off" => /\ call \in [Callers -> IdleCalls] /\ space = [p \in Pages |-> Unmapped]
                        /\ nextSlot = KERNEL_STACK_BASE /\ nextStackTop = HK_USER_STACK_TOP

Others(c) == call' \in [Callers -> Calls] /\ \A d \in Callers \ {c} : call'[d] = call[d]

\* c goes on with nothing, with the next segment, or with what it was doing.
Quiet(c) ==
    /\ Others(c) /\ call'[c] \in {call[c]} \cup IdleCalls \cup SegmentCalls
    /\ UNCHANGED <<space, nextStackTop, nextFrame, content>>
    /\ \/ phase' \in {phase, "panic"} /\ nextSlot' = nextSlot
       \/ phase' = "panic" /\ nextSlot' = nextSlot + STRIDE

\* c has taken frames that it is about to map.
Takes(c, first, count, user) ==
    /\ Others(c) /\ call'[c] \in MapCalls
    /\ call'[c].page = first /\ call'[c].end = first + count
    /\ call'[c].frame = nextFrame /\ call'[c].user = user
    /\ first \in Int /\ count \in Nat \ {0} /\ HasFrames(count) /\ TakeFrames(count)
    /\ UNCHANGED <<phase, space>>

TakesForKernel(c) ==
    /\ Takes(c, PageOf(nextSlot + GUARD_SIZE), PageOf(THREAD_STACK_SIZE), FALSE)
    /\ nextSlot + STRIDE <= WORD /\ nextSlot' = nextSlot + STRIDE
    /\ UNCHANGED <<nextStackTop, content>>

TakesForSegment(c) ==
    LET s == Segment(c)
    IN  /\ call[c] \in SegmentCalls /\ call[c].index \in DOMAIN call[c].image.segments
        /\ ~Skipped(s) /\ InUserHalf(s.virtual, s.memorySize)
        /\ Takes(c, PageOf(s.virtual), SegmentPages(s), TRUE)
        /\ \E what \in Clean : content' = Filled(SegmentPages(s), what)
        /\ UNCHANGED <<nextSlot, nextStackTop>>

TakesForStack(c) ==
    /\ call[c] \in StackCalls
    /\ Takes(c, PageOf(call[c].top - HK_USER_STACK_SIZE), PageOf(HK_USER_STACK_SIZE), TRUE)
    /\ \E what \in Clean : content' = Filled(PageOf(HK_USER_STACK_SIZE), what)
    /\ UNCHANGED <<nextSlot, nextStackTop>>

Enters(c) ==
    /\ Others(c) /\ call'[c] \in StackCalls /\ call'[c].top = nextStackTop
    /\ nextStackTop' = nextStackTop - STACK_STRIDE
    /\ UNCHANGED <<phase, space, nextSlot, nextFrame, content>>

Maps(c) ==
    LET k == call[c]
    IN  /\ Others(c) /\ k \in MapCalls
        /\ space' = [space EXCEPT ![k.page] = Mapped(k.frame, k.access, k.user)]
        /\ \/ /\ call'[c] \in MapCalls /\ k.page + 1 < k.end
              /\ call'[c].page = k.page + 1 /\ call'[c].end = k.end /\ call'[c].frame = k.frame + 1
              /\ call'[c].user = k.user
           \/ call'[c] \in IdleCalls \cup SegmentCalls
        /\ UNCHANGED <<phase, nextSlot, nextStackTop, nextFrame, content>>

StartsCheck(c) ==
    /\ Others(c) /\ call'[c] \in CheckCalls
    /\ LET b == call'[c].buffer
       IN  b.length # 0 /\ InUserHalf(b.start, b.length) /\ call'[c].page = PageOf(b.start)
    /\ UNCHANGED <<phase, space, nextSlot, nextStackTop, nextFrame, content>>

Checks(c) ==
    /\ Others(c) /\ call[c] \in CheckCalls /\ call'[c] \in CheckCalls
    /\ ~PastBuffer(call[c].buffer, call[c].page) /\ IsUserReadable(call[c].page)
    /\ call'[c].buffer = call[c].buffer /\ call'[c].page = call[c].page + 1
    /\ UNCHANGED <<phase, space, nextSlot, nextStackTop, nextFrame, content>>

Does(c) ==
    \/ Quiet(c) \/ TakesForKernel(c) \/ TakesForSegment(c) \/ TakesForStack(c)
    \/ Enters(c) \/ Maps(c) \/ StartsCheck(c) \/ Checks(c)

(* The caller's new state is all that changes in call.                        *)
LEMMA Going ==
    ASSUME TypeOK, NEW c \in Callers, NEW k \in Calls, Goto(c, k)
    PROVE  Others(c) /\ call'[c] = k
  BY DEF TypeOK, Goto, Others

(* A caller's record tells what it is doing.                                  *)
LEMMA CallIs ==
    ASSUME TypeOK, NEW c \in Callers
    PROVE  /\ call[c].at = "idle" => call[c] \in IdleCalls
           /\ call[c].at = "segment" => call[c] \in SegmentCalls
           /\ call[c].at = "stack" => call[c] \in StackCalls
           /\ call[c].at = "check" => call[c] \in CheckCalls
           /\ call[c].at = "map" => call[c] \in MapCalls
           /\ call[c].left \in Int
<1>1. call[c] \in Calls
  BY DEF TypeOK
<1> QED
  BY <1>1 DEF Calls, IdleCalls, SegmentCalls, StackCalls, CheckCalls, MapCalls

(* The same after a step, for CopyIn.                                         *)
LEMMA CallIsPrimed ==
    ASSUME TypeOK', NEW c \in Callers, call'[c].at = "check"
    PROVE  call'[c] \in CheckCalls
<1>1. call'[c] \in Calls
  BY DEF TypeOK
<1> QED
  BY <1>1 DEF Calls, IdleCalls, SegmentCalls, StackCalls, CheckCalls, MapCalls

(* A caller that returns is idle.                                             *)
LEMMA Returning ==
    ASSUME TypeOK, NEW c \in Callers
    PROVE  Return(c) => Others(c) /\ call'[c] \in IdleCalls
<1>1. Idle(call[c].left) \in IdleCalls /\ IdleCalls \subseteq Calls
  BY CallIs DEF Idle, IdleCalls, Calls
<1> QED
  BY <1>1, Going DEF Return

(* Paging::Map takes its lock, maps a page, or gives up.                      *)
LEMMA MapDoes ==
    ASSUME TypeOK, NEW c \in Callers, MapBegin(c) \/ MapPage(c) \/ MapFails(c)
    PROVE  Does(c)
<1>1. CASE MapBegin(c)
  BY <1>1 DEF MapBegin, Does, Quiet, Others, TypeOK
<1>2. CASE MapFails(c)
  BY <1>2, Returning DEF MapFails, Does, Quiet
<1>3. CASE MapPage(c)
  <2> DEFINE k == call[c]
  <2>1. k \in MapCalls
    BY <1>3, CallIs DEF MapPage, At
  <2>2. CASE k.page + 1 < k.end
    <3>1. /\ Further(c) \in MapCalls /\ Further(c).page = k.page + 1 /\ Further(c).end = k.end
          /\ Further(c).frame = k.frame + 1 /\ Further(c).user = k.user
      <4> DEFINE m == [k EXCEPT !.page = @ + 1]
      <4> HIDE DEF k
      <4>1. m \in MapCalls /\ m.page = k.page + 1 /\ m.end = k.end /\ m.frame = k.frame /\ m.user = k.user
        BY <2>1 DEF MapCalls
      <4>2. Further(c) = [m EXCEPT !.frame = k.frame + 1]
        BY <4>1 DEF Further, k
      <4>3. k.frame \in Nat
        BY <2>1 DEF MapCalls
      <4> HIDE DEF m
      <4>4. [m EXCEPT !.frame = k.frame + 1] \in MapCalls
        BY <4>1, <4>3 DEF MapCalls
      <4>5. /\ [m EXCEPT !.frame = k.frame + 1].page = m.page /\ [m EXCEPT !.frame = k.frame + 1].end = m.end
            /\ [m EXCEPT !.frame = k.frame + 1].user = m.user
            /\ [m EXCEPT !.frame = k.frame + 1].frame = k.frame + 1
        BY <4>1 DEF MapCalls
      <4> QED
        BY <4>1, <4>2, <4>4, <4>5
    <3>2. Others(c) /\ call'[c] = Further(c)
      BY <1>3, <2>2, <3>1, Going DEF MapPage, Calls
    <3> QED
      BY <1>3, <2>1, <2>2, <3>1, <3>2 DEF MapPage, Does, Maps
  <2>3. CASE ~(k.page + 1 < k.end)
    <3>1. k.then \in IdleCalls \cup SegmentCalls
      BY <2>1 DEF MapCalls
    <3>2. Others(c) /\ call'[c] = k.then
      BY <1>3, <2>3, <3>1, Going DEF MapPage, Calls
    <3> QED
      BY <1>3, <2>1, <3>1, <3>2 DEF MapPage, Does, Maps
  <2> QED
    BY <2>2, <2>3
<1> QED
  BY <1>1, <1>2, <1>3

(* The frames of a call of Map are those that Frame::Allocate has just given. *)
LEMMA Taking ==
    ASSUME TypeOK, LayoutAssumption, NEW c \in Callers, NEW first \in Int, NEW count \in Nat \ {0},
           NEW access \in Accesses, NEW user \in BOOLEAN, NEW then \in IdleCalls \cup SegmentCalls,
           Goto(c, MapCall(c, first, count, nextFrame, access, user, then)),
           HasFrames(count), TakeFrames(count), UNCHANGED <<phase, space>>
    PROVE  Takes(c, first, count, user)
<1> DEFINE k == MapCall(c, first, count, nextFrame, access, user, then)
<1>1. nextFrame \in Nat /\ call[c].left \in Int /\ first + count \in Int
  BY CallIs DEF TypeOK, LayoutAssumption
<1>2. /\ k \in MapCalls /\ k.page = first /\ k.end = first + count /\ k.frame = nextFrame
      /\ k.user = user
  BY <1>1 DEF MapCall, MapCalls
<1> HIDE DEF k
<1>3. Others(c) /\ call'[c] = k
  BY <1>2, Going DEF Calls, k
<1> QED
  BY <1>2, <1>3 DEF Takes

(* A stack of more than nothing has at least a page.                          *)
LEMMA StackHasPages ==
    ASSUME LayoutAssumption
    PROVE  /\ PageOf(THREAD_STACK_SIZE) \in Nat \ {0} /\ PageOf(HK_USER_STACK_SIZE) \in Nat \ {0}
           /\ THREAD_STACK_SIZE = PageOf(THREAD_STACK_SIZE) * PAGE_SIZE
           /\ HK_USER_STACK_SIZE = PageOf(HK_USER_STACK_SIZE) * PAGE_SIZE
<1>1. ASSUME NEW n \in Nat \ {0}, n % PAGE_SIZE = 0
      PROVE  PageOf(n) \in Nat \ {0} /\ n = PageOf(n) * PAGE_SIZE
  <2>1. PageOf(n) \in Nat /\ n = PageOf(n) * PAGE_SIZE
    BY <1>1, WholePages
  <2>2. 0 * PAGE_SIZE = 0
    BY DEF LayoutAssumption
  <2> QED
    BY <2>1, <2>2
<1>2. THREAD_STACK_SIZE \in Nat \ {0} /\ THREAD_STACK_SIZE % PAGE_SIZE = 0
  BY DEF LayoutAssumption
<1>3. HK_USER_STACK_SIZE \in Nat \ {0} /\ HK_USER_STACK_SIZE % PAGE_SIZE = 0
  BY DEF LayoutAssumption
<1> QED
  BY <1>1, <1>2, <1>3

(* KernelStack::Allocate.                                                     *)
LEMMA AllocateDoes ==
    ASSUME TypeOK, LayoutAssumption, NEW c \in Callers, KernelStack_Allocate(c)
    PROVE  Does(c)
<1> DEFINE pages == PageOf(THREAD_STACK_SIZE)
<1>1. pages \in Nat \ {0} /\ PAGE_SIZE \in Nat /\ nextSlot \in Nat
  BY StackHasPages DEF LayoutAssumption, TypeOK
<1>2. nextSlot + GUARD_SIZE \in Nat /\ PageOf(nextSlot + GUARD_SIZE) \in Int
  <2>1. nextSlot + GUARD_SIZE \in Nat
    BY <1>1 DEF GUARD_SIZE
  <2> QED
    BY <2>1, PageOfIs
<1>3. CASE HasFrames(pages)
  <2>1. Idle(call[c].left - 1) \in IdleCalls
    BY CallIs DEF Idle, IdleCalls
  <2>2. /\ Goto(c, MapCall(c, PageOf(nextSlot + GUARD_SIZE), pages, nextFrame, "RW", FALSE, Idle(call[c].left - 1)))
        /\ TakeFrames(pages) /\ UNCHANGED <<phase, space, nextStackTop, content>>
        /\ nextSlot + STRIDE <= WORD /\ nextSlot' = nextSlot + STRIDE
    BY <1>3, Zenon DEF KernelStack_Allocate, StackStart
  <2>3. Takes(c, PageOf(nextSlot + GUARD_SIZE), pages, FALSE)
    BY <1>1, <1>2, <1>3, <2>1, <2>2, Taking, Zenon DEF Accesses
  <2> QED
    BY <2>2, <2>3, Zenon DEF Does, TakesForKernel
<1>4. CASE ~HasFrames(pages)
  <2>1. /\ phase' = "panic" /\ nextSlot' = nextSlot + STRIDE
        /\ UNCHANGED <<nextFrame, call, space, nextStackTop, content>>
    BY <1>4 DEF KernelStack_Allocate
  <2> QED
    BY <2>1 DEF Does, Quiet, Others, TypeOK
<1> QED
  BY <1>3, <1>4

(* User::Load: the header, a segment that is skipped, refused or mapped.      *)
LEMMA LoadDoes ==
    ASSUME TypeOK, LayoutAssumption, WordsAssumption, NEW c \in Callers,
           Load(c) \/ SkipSegment(c) \/ RejectSegment(c) \/ LoadSegment(c)
    PROVE  Does(c)
<1>1. CASE Load(c)
  <2>1. PICK image \in Images :
            Goto(c, IF image.runnable
                    THEN [at |-> "segment", left |-> call[c].left - 1, image |-> image, index |-> 1]
                    ELSE Idle(call[c].left - 1))
    BY <1>1 DEF Load
  <2>2. PICK k \in IdleCalls \cup SegmentCalls : Goto(c, k)
    <3>1. /\ [at |-> "segment", left |-> call[c].left - 1, image |-> image, index |-> 1] \in SegmentCalls
          /\ Idle(call[c].left - 1) \in IdleCalls
      BY CallIs DEF SegmentCalls, IdleCalls, Idle
    <3> QED
      BY <2>1, <3>1
  <2>3. Others(c) /\ call'[c] = k
    BY <2>2, Going DEF Calls
  <2> QED
    BY <1>1, <2>3 DEF Load, Does, Quiet
<1>2. CASE SkipSegment(c)
  <2>1. call[c] \in SegmentCalls
    BY <1>2, CallIs DEF SkipSegment, At
  <2>2. AfterSegment(c) \in SegmentCalls
    BY <2>1 DEF AfterSegment, SegmentCalls
  <2>3. Others(c) /\ call'[c] = AfterSegment(c)
    BY <1>2, <2>2, Going DEF Calls, SkipSegment
  <2> QED
    BY <1>2, <2>2, <2>3 DEF SkipSegment, Does, Quiet
<1>3. CASE RejectSegment(c)
  BY <1>3, Returning DEF RejectSegment, Does, Quiet
<1>4. CASE LoadSegment(c)
  <2> DEFINE s == Segment(c)
             pages == SegmentPages(s)
  <2>1. call[c] \in SegmentCalls
    BY <1>4, CallIs DEF LoadSegment, At
  <2>2. AfterSegment(c) \in SegmentCalls
    BY <2>1 DEF AfterSegment, SegmentCalls
  <2>3. /\ ~Skipped(s) /\ ~Rejected(c, s) /\ HasFrames(pages) /\ TakeFrames(pages)
        /\ call[c].index <= Len(call[c].image.segments)
        /\ content' = Filled(pages, Source(c, s)) /\ UNCHANGED <<phase, space, nextSlot, nextStackTop>>
        /\ Goto(c, MapCall(c, PageOf(s.virtual), pages, nextFrame, AccessFor(s), TRUE, AfterSegment(c)))
    BY <1>4, Zenon DEF LoadSegment, MoreSegments
  <2>4. s \in Segments /\ call[c].index \in DOMAIN call[c].image.segments
    <3>1. call[c].image \in Images /\ call[c].index \in Nat \ {0}
      BY <2>1 DEF SegmentCalls
    <3>2. call[c].image.segments \in Seq(Segments)
      BY <3>1 DEF WordsAssumption
    <3> DEFINE q == call[c].image.segments
               i == call[c].index
    <3>3. q \in Seq(Segments) /\ i \in Nat \ {0} /\ i <= Len(q)
      BY <2>3, <3>1, <3>2
    <3> HIDE DEF q, i
    <3>4. q[i] \in Segments /\ i \in DOMAIN q
      BY <3>3
    <3> QED
      BY <3>4 DEF Segment, q, i
  <2>5. s.virtual \in Nat /\ s.memorySize \in Nat \ {0}
    <3>1. s.virtual \in 0 .. WORD - 1 /\ s.memorySize \in 0 .. WORD - 1 /\ WORD \in Nat
      BY <2>4 DEF Segments, Words, LayoutAssumption
    <3> HIDE DEF s
    <3> QED
      BY <2>3, <3>1 DEF Skipped
  <2>6. PageOf(s.virtual) \in Int /\ pages \in Nat \ {0}
    BY <2>5, SegmentHasPages
  <2>7. AccessFor(s) \in Accesses
    BY DEF AccessFor, Accesses
  <2> HIDE DEF s, pages
  <2>8. Takes(c, PageOf(s.virtual), pages, TRUE)
    BY <2>2, <2>3, <2>6, <2>7, Taking, Zenon
  <2>9. InUserHalf(s.virtual, s.memorySize)
    BY <2>3 DEF Rejected
  <2>10. \E what \in Clean : content' = Filled(pages, what)
    <3>1. Source(c, s) \in Clean
      BY DEF Source, Clean
    <3> QED
      BY <2>3, <3>1
  <2> QED
    BY <2>1, <2>3, <2>4, <2>8, <2>9, <2>10, Zenon DEF Does, TakesForSegment, s, pages
<1> QED
  BY <1>1, <1>2, <1>3, <1>4

(* The end of User::Load and User::AllocateStack.                             *)
LEMMA EntryDoes ==
    ASSUME TypeOK, LayoutAssumption, NEW c \in Callers, LoadEntry(c) \/ AllocateStack(c)
    PROVE  Does(c)
<1>1. CASE LoadEntry(c)
  <2>1. CASE EntryOk(call[c].image)
    <3> DEFINE k == [at |-> "stack", left |-> call[c].left, top |-> nextStackTop]
    <3>1. k \in StackCalls /\ k.top = nextStackTop
      BY CallIs DEF StackCalls, TypeOK
    <3>2. Goto(c, k) /\ nextStackTop' = Lowered
      BY <1>1, <2>1 DEF LoadEntry
    <3> HIDE DEF k
    <3>3. Others(c) /\ call'[c] = k
      BY <3>1, <3>2, Going DEF Calls
    <3> QED
      BY <1>1, <3>1, <3>2, <3>3 DEF LoadEntry, Does, Enters, Lowered
  <2>2. CASE ~EntryOk(call[c].image)
    BY <1>1, <2>2, Returning DEF LoadEntry, Does, Quiet
  <2> QED
    BY <2>1, <2>2
<1>2. CASE AllocateStack(c)
  <2> DEFINE pages == PageOf(HK_USER_STACK_SIZE)
             first == PageOf(call[c].top - HK_USER_STACK_SIZE)
  <2>1. call[c] \in StackCalls
    BY <1>2, CallIs DEF AllocateStack, At
  <2>2. CASE HasFrames(pages)
    <3>1. first \in Int
      BY <2>1, Z3 DEF StackCalls, PageOf, LayoutAssumption
    <3>2. Idle(call[c].left) \in IdleCalls
      BY CallIs DEF Idle, IdleCalls
    <3>3. /\ Goto(c, MapCall(c, first, pages, nextFrame, "RW", TRUE, Idle(call[c].left)))
          /\ TakeFrames(pages) /\ content' = StackContent
          /\ UNCHANGED <<phase, space, nextSlot, nextStackTop>>
      BY <1>2, <2>2, Zenon DEF AllocateStack
    <3>4. pages \in Nat \ {0}
      BY StackHasPages
    <3> HIDE DEF pages, first
    <3>5. Takes(c, first, pages, TRUE)
      BY <2>2, <3>1, <3>2, <3>3, <3>4, Taking, Zenon DEF Accesses
    <3>6. \E what \in Clean : content' = Filled(pages, what)
      BY <3>3, Zenon DEF Clean, StackContent, pages
    <3> QED
      BY <2>1, <3>3, <3>5, <3>6, Zenon DEF Does, TakesForStack, pages, first
  <2>3. CASE ~HasFrames(pages)
    BY <1>2, <2>3, Returning DEF AllocateStack, Does, Quiet
  <2> QED
    BY <2>2, <2>3
<1> QED
  BY <1>1, <1>2

(* User::CopyIn: refused, or page by page.                                    *)
LEMMA CopyInDoes ==
    ASSUME TypeOK, LayoutAssumption, WordsAssumption, NEW c \in Callers,
           CopyIn(c) \/ CopyIn_Page(c) \/ CopyIn_Copy(c)
    PROVE  Does(c)
<1>1. CASE CopyIn(c)
  <2>1. PICK b \in Buffers :
            Goto(c, IF b.length = 0 \/ ~InUserHalf(b.start, b.length) THEN Idle(call[c].left - 1)
                    ELSE [at |-> "check", left |-> call[c].left - 1, buffer |-> b, page |-> PageOf(b.start)])
    BY <1>1 DEF CopyIn
  <2>2. CASE b.length = 0 \/ ~InUserHalf(b.start, b.length)
    <3>1. Idle(call[c].left - 1) \in IdleCalls
      BY CallIs DEF Idle, IdleCalls
    <3>2. Others(c) /\ call'[c] \in IdleCalls
      BY <2>1, <2>2, <3>1, Going, Zenon DEF Calls
    <3> QED
      BY <1>1, <3>2, Zenon DEF CopyIn, Does, Quiet
  <2>3. CASE ~(b.length = 0 \/ ~InUserHalf(b.start, b.length))
    <3> DEFINE k == [at |-> "check", left |-> call[c].left - 1, buffer |-> b, page |-> PageOf(b.start)]
    <3>1. PageOf(b.start) \in Nat
      <4>1. b.start \in Nat
        BY DEF WordsAssumption, LayoutAssumption, Words
      <4> QED
        BY <4>1, PageOfIs
    <3>2. k \in CheckCalls /\ k.buffer = b /\ k.page = PageOf(b.start)
      BY <3>1, CallIs DEF CheckCalls
    <3>3. Goto(c, k)
      BY <2>1, <2>3
    <3> HIDE DEF k
    <3>4. Others(c) /\ call'[c] = k
      BY <3>2, <3>3, Going DEF Calls
    <3> QED
      BY <1>1, <2>3, <3>2, <3>4 DEF CopyIn, Does, StartsCheck
  <2> QED
    BY <2>2, <2>3
<1>2. CASE CopyIn_Page(c)
  <2>1. call[c] \in CheckCalls
    BY <1>2, CallIs DEF CopyIn_Page, At
  <2>2. CASE IsUserReadable(call[c].page)
    <3> DEFINE k == [call[c] EXCEPT !.page = @ + 1]
    <3>1. k \in CheckCalls /\ k.buffer = call[c].buffer /\ k.page = call[c].page + 1
      BY <2>1 DEF CheckCalls
    <3>2. Goto(c, k)
      BY <1>2, <2>2 DEF CopyIn_Page
    <3> HIDE DEF k
    <3>3. Others(c) /\ call'[c] = k
      BY <3>1, <3>2, Going DEF Calls
    <3> QED
      BY <1>2, <2>1, <2>2, <3>1, <3>3 DEF CopyIn_Page, Does, Checks
  <2>3. CASE ~IsUserReadable(call[c].page)
    BY <1>2, <2>3, Returning DEF CopyIn_Page, Does, Quiet
  <2> QED
    BY <2>2, <2>3
<1>3. CASE CopyIn_Copy(c)
  BY <1>3, Returning DEF CopyIn_Copy, Does, Quiet
<1> QED
  BY <1>1, <1>2, <1>3

\* A step, as far as it matters here.
Step == Initialize \/ UNCHANGED vars \/ \E c \in Callers : phase = "up" /\ Does(c)

(* Every step is one of these.                                                *)
LEMMA StepIs ==
    ASSUME TypeOK, LayoutAssumption, WordsAssumption, [Next]_vars
    PROVE  Step
<1>1. CASE Initialize
  BY <1>1 DEF Step
<1>2. CASE UNCHANGED vars
  BY <1>2 DEF Step
<1>3. ASSUME NEW c \in Callers, MapBegin(c) \/ MapPage(c) \/ MapFails(c) PROVE Step
  BY <1>3, MapDoes DEF Step, MapBegin, MapPage, MapFails, At
<1>4. ASSUME NEW c \in Callers, KernelStack_Allocate(c) PROVE Step
  BY <1>4, AllocateDoes, Zenon DEF Step, KernelStack_Allocate, Begin, At
<1>5. ASSUME NEW c \in Callers, Load(c) \/ SkipSegment(c) \/ RejectSegment(c) \/ LoadSegment(c) PROVE Step
  BY <1>5, LoadDoes, Zenon DEF Step, Load, SkipSegment, RejectSegment, LoadSegment, Begin, At
<1>6. ASSUME NEW c \in Callers, LoadEntry(c) \/ AllocateStack(c) PROVE Step
  BY <1>6, EntryDoes, Zenon DEF Step, LoadEntry, AllocateStack, At
<1>7. ASSUME NEW c \in Callers, CopyIn(c) \/ CopyIn_Page(c) \/ CopyIn_Copy(c) PROVE Step
  BY <1>7, CopyInDoes DEF Step, CopyIn, CopyIn_Page, CopyIn_Copy, Begin, At
<1> QED
  BY <1>1, <1>2, <1>3, <1>4, <1>5, <1>6, <1>7 DEF Next

(* What the last of Initialize's maps grants is a mapping.                    *)
LEMMA WinnerIs ==
    ASSUME LayoutAssumption, WordsAssumption
    PROVE  /\ KernelSpace \in [Pages -> {Unmapped} \cup Granted]
           /\ \A p \in Pages : /\ SpanOf(p) = {} => KernelSpace[p] = Unmapped
                               /\ ~(KernelSpace[p].present /\ KernelSpace[p].user)
<1> SUFFICES ASSUME NEW p \in Pages
             PROVE  /\ KernelSpace[p] \in {Unmapped} \cup Granted
                    /\ SpanOf(p) = {} => KernelSpace[p] = Unmapped
                    /\ ~(KernelSpace[p].present /\ KernelSpace[p].user)
  BY Zenon DEF KernelSpace
<1>1. CASE SpanOf(p) = {}
  BY <1>1, Zenon DEF KernelSpace, Unmapped
<1>2. CASE SpanOf(p) # {}
  <2> DEFINE S == SpanOf(p)
             n == Winner(p)
  <2>1. \E n_1 \in S : \A m \in S : m <= n_1
    <3> DEFINE f == Len(BootSpans)
               D == {d \in Nat : f - d \in S}
    <3>1. f \in Nat /\ S \subseteq 1 .. f
      BY DEF WordsAssumption, SpanOf
    <3> HIDE DEF S, f
    <3>2. \A m \in S : f - m \in D
      <4> SUFFICES ASSUME NEW m \in S PROVE f - m \in Nat /\ f - (f - m) = m
        OBVIOUS
      <4> QED
        BY <3>1
    <3>3. D # {} /\ D \in SUBSET Nat
      BY <1>2, <3>2 DEF S
    <3>4. PICK d \in D : \A e \in D : d <= e
      BY <3>3, LeastExists, Zenon
    <3>5. f - d \in S /\ d \in Nat
      OBVIOUS
    <3>6. \A m \in S : m <= f - d
      <4> SUFFICES ASSUME NEW m \in S PROVE m <= f - d
        OBVIOUS
      <4>1. d <= f - m /\ m \in Nat
        BY <3>1, <3>2, <3>4
      <4> QED
        BY <3>1, <3>5, <4>1
    <3> QED
      BY <3>5, <3>6
  <2>2. n \in S
    BY <2>1 DEF Winner
  <2> DEFINE s == BootSpans[n]
  <2>3. n \in DOMAIN BootSpans /\ s.first <= p
    BY <2>2 DEF SpanOf
  <2>4. s \in [first : Nat, count : Nat, physical : Nat, access : Accesses]
    <3> DEFINE R == [first : Nat, count : Nat, physical : Nat, access : Accesses]
    <3>1. BootSpans \in Seq(R)
      BY DEF WordsAssumption
    <3> HIDE DEF R
    <3>2. s \in R
      BY <2>3, <3>1
    <3> QED
      BY <3>2 DEF R
  <2>5. p \in Nat
    <3>1. PageOf(WORD) \in Nat
      BY PageOfIs DEF LayoutAssumption
    <3> QED
      BY <3>1 DEF Pages
  <2> HIDE DEF n
  <2>6. s.physical + (p - s.first) \in Nat
    BY <2>3, <2>4, <2>5
  <2>7. KernelSpace[p] = Mapped(s.physical + (p - s.first), s.access, FALSE)
    BY <1>2, Zenon DEF KernelSpace, n
  <2> QED
    BY <1>2, <2>4, <2>6, <2>7 DEF Mapped, Granted
<1> QED
  BY <1>1, <1>2

(* The types hold at first.                                                   *)
LEMMA TypesInitially ==
    ASSUME LayoutAssumption, Init
    PROVE  TypeOK
<1>1. [c \in Callers |-> Idle(MAX_CALLS)] \in [Callers -> IdleCalls]
  BY DEF Idle, IdleCalls, LayoutAssumption
<1>2. IdleCalls \subseteq Calls
  BY DEF Calls
<1> QED
  BY <1>1, <1>2 DEF TypeOK, Init, LayoutAssumption

(* The types are kept.                                                        *)
LEMMA TypesKept ==
    ASSUME LayoutAssumption, WordsAssumption, TypeOK, [Next]_vars
    PROVE  TypeOK'
<1>0. Step
  BY StepIs
<1>a. /\ PAGE_SIZE \in Nat /\ HK_USER_STACK_SIZE \in Nat /\ THREAD_STACK_SIZE \in Nat
      /\ FirstFrame \in Nat /\ MAX_FRAMES \in Nat
  BY DEF LayoutAssumption
<1>b. STRIDE \in Nat /\ STACK_STRIDE \in Nat
  BY <1>a DEF STRIDE, STACK_STRIDE, GUARD_SIZE
<1>1. CASE Initialize
  BY <1>1, WinnerIs DEF Initialize, TypeOK
<1>2. CASE UNCHANGED vars
  BY <1>2 DEF vars, TypeOK
<1>3. ASSUME NEW c \in Callers, phase = "up", Does(c) PROVE TypeOK'
  <2>1. /\ phase' \in {"up", "panic"} /\ call' \in [Callers -> Calls]
        /\ nextSlot' \in {nextSlot, nextSlot + STRIDE}
        /\ nextStackTop' \in {nextStackTop, nextStackTop - STACK_STRIDE}
    BY <1>3, Zenon DEF Does, Quiet, Takes, TakesForKernel, TakesForSegment, TakesForStack, Enters, Maps,
                StartsCheck, Checks, Others
  <2>2. nextFrame' \in FirstFrame .. FirstFrame + MAX_FRAMES
    <3>1. nextFrame' = nextFrame \/ \E n \in Nat : HasFrames(n) /\ TakeFrames(n)
      BY <1>3, Zenon DEF Does, Quiet, Takes, TakesForKernel, TakesForSegment, TakesForStack, Enters, Maps,
                  StartsCheck, Checks
    <3> QED
      BY <1>a, <3>1 DEF HasFrames, TakeFrames, TypeOK
  <2>3. content' \in [AllFrames -> {"junk"} \cup Clean]
    <3>1. content' = content \/ \E n : \E what \in Clean : content' = Filled(n, what)
      BY <1>3, Zenon DEF Does, Quiet, Takes, TakesForKernel, TakesForSegment, TakesForStack, Enters, Maps,
                  StartsCheck, Checks
    <3> QED
      BY <3>1 DEF TypeOK, Filled
  <2>4. space' \in [Pages -> {Unmapped} \cup Granted]
    <3>1. CASE Maps(c)
      <4>1. Mapped(call[c].frame, call[c].access, call[c].user) \in Granted
        BY <3>1, Zenon DEF Maps, MapCalls, Mapped, Granted
      <4> QED
        BY <3>1, <4>1, Zenon DEF Maps, TypeOK
    <3>2. CASE UNCHANGED space
      BY <3>2 DEF TypeOK
    <3> QED
      BY <1>3, <3>1, <3>2, Zenon DEF Does, Quiet, Takes, TakesForKernel, TakesForSegment, TakesForStack, Enters,
                              StartsCheck, Checks
  <2>5. nextSlot' \in Nat /\ nextStackTop' \in Int
    BY <1>b, <2>1 DEF TypeOK
  <2> QED
    BY <2>1, <2>2, <2>3, <2>4, <2>5 DEF TypeOK
<1> QED
  BY <1>0, <1>1, <1>2, <1>3 DEF Step

-----------------------------------------------------------------------------
(* Frames.                                                                    *)

Mapping(c) == call[c].at = "map"
LastFrame(c) == call[c].frame + (call[c].end - call[c].page)

Apart(c, d) == LastFrame(c) <= call[d].frame \/ LastFrame(d) <= call[c].frame
Outside(p, c) == space[p].frame < call[c].frame \/ LastFrame(c) <= space[p].frame

FramesInv ==
    /\ \A c \in Callers : Mapping(c) =>
        call[c].page < call[c].end /\ FirstFrame <= call[c].frame /\ LastFrame(c) <= nextFrame
    /\ \A c, d \in Callers : c # d /\ Mapping(c) /\ Mapping(d) => Apart(c, d)
    /\ \A p \in Own : /\ FirstFrame <= space[p].frame /\ space[p].frame < nextFrame
                      /\ \A c \in Callers : Mapping(c) => Outside(p, c)
    /\ \A p, q \in Own : p # q => space[p].frame # space[q].frame

\* No new call of Map, and nothing mapped.
Calm ==
    /\ UNCHANGED <<space, nextFrame>>
    /\ \A d \in Callers : Mapping(d)' => call'[d] = call[d]

(* Most steps leave frames alone.                                             *)
LEMMA CalmIs ==
    ASSUME TypeOK, NEW c \in Callers, Does(c)
    PROVE  Calm \/ Maps(c) \/ \E first, count, user : Takes(c, first, count, user)
<1>1. ASSUME Quiet(c) \/ Enters(c) \/ StartsCheck(c) \/ Checks(c) PROVE Calm
  <2>1. UNCHANGED <<space, nextFrame>>
    BY <1>1, Zenon DEF Quiet, Enters, StartsCheck, Checks
  <2>2. Others(c) /\ (call'[c] = call[c] \/ call'[c] \in IdleCalls \cup SegmentCalls \cup StackCalls \cup CheckCalls)
    BY <1>1 DEF Quiet, Enters, StartsCheck, Checks
  <2>3. call'[c] = call[c] \/ call'[c].at # "map"
    BY <2>2 DEF IdleCalls, SegmentCalls, StackCalls, CheckCalls
  <2> QED
    BY <2>1, <2>2, <2>3 DEF Calm, Mapping, Others
<1> QED
  BY <1>1, Zenon DEF Does, TakesForKernel, TakesForSegment, TakesForStack

(* Calls of Map are made of numbers.                                          *)
LEMMA MappingIs ==
    ASSUME TypeOK, LayoutAssumption
    PROVE  /\ \A c \in Callers : Mapping(c) =>
                /\ call[c] \in MapCalls /\ call[c].page \in Int /\ call[c].end \in Int
                /\ call[c].frame \in Nat /\ LastFrame(c) \in Int
           /\ \A p \in Own : space[p].frame \in Nat
           /\ nextFrame \in Nat /\ FirstFrame \in Nat
<1>1. ASSUME NEW c \in Callers, Mapping(c)
      PROVE  /\ call[c] \in MapCalls /\ call[c].page \in Int /\ call[c].end \in Int
             /\ call[c].frame \in Nat /\ LastFrame(c) \in Int
  <2>1. call[c] \in MapCalls
    BY <1>1, CallIs DEF Mapping
  <2>2. call[c].page \in Int /\ call[c].end \in Int /\ call[c].frame \in Nat
    BY <2>1 DEF MapCalls
  <2> QED
    BY <2>1, <2>2 DEF LastFrame
<1>2. ASSUME NEW p \in Own PROVE space[p].frame \in Nat
  <2>1. space[p] \in Granted
    BY DEF TypeOK, Own, Unmapped
  <2> QED
    BY <2>1, Zenon DEF Granted
<1> QED
  BY <1>1, <1>2 DEF TypeOK, LayoutAssumption

(* Steps that leave frames alone keep the invariant.                          *)
LEMMA CalmKeepsFrames ==
    ASSUME FramesInv, Calm
    PROVE  FramesInv'
<1>1. Own' = Own /\ nextFrame' = nextFrame /\ space' = space
  BY DEF Calm, Own
<1>2. \A d \in Callers : Mapping(d)' => Mapping(d) /\ call'[d] = call[d] /\ LastFrame(d)' = LastFrame(d)
  BY DEF Calm, Mapping, LastFrame
<1>3. \A c, d \in Callers : Mapping(c)' /\ Mapping(d)' => (Apart(c, d)' <=> Apart(c, d))
  BY <1>2 DEF Apart
<1>4. \A p \in Own, d \in Callers : Mapping(d)' => (Outside(p, d)' <=> Outside(p, d))
  BY <1>1, <1>2 DEF Outside
<1> QED
  BY <1>1, <1>2, <1>3, <1>4 DEF FramesInv

(* Frame::Allocate gives frames that nobody has, and nobody maps.             *)
LEMMA TakesKeepsFrames ==
    ASSUME TypeOK, TypeOK', LayoutAssumption, FramesInv, NEW c \in Callers,
           NEW first, NEW count, NEW user, Takes(c, first, count, user)
    PROVE  FramesInv'
<1>0. /\ nextFrame \in Nat /\ FirstFrame \in Nat /\ count \in Nat \ {0} /\ nextFrame' = nextFrame + count
      /\ FirstFrame <= nextFrame
  BY MappingIs DEF Takes, TakeFrames, TypeOK
<1>1. Own' = Own /\ space' = space
  BY DEF Takes, Own
<1>2. /\ call'[c].frame = nextFrame /\ LastFrame(c)' = nextFrame + count
      /\ call'[c].page < call'[c].end /\ Mapping(c)'
  <2>1. call'[c].page = first /\ call'[c].end = first + count /\ call'[c].frame = nextFrame /\ first \in Int
    BY DEF Takes
  <2>2. LastFrame(c)' = nextFrame + ((first + count) - first)
    BY <2>1 DEF LastFrame
  <2>3. Mapping(c)'
    BY Zenon DEF Takes, MapCalls, Mapping
  <2> QED
    BY <1>0, <2>1, <2>2, <2>3
<1>3. \A d \in Callers \ {c} : /\ (Mapping(d)' <=> Mapping(d)) /\ call'[d] = call[d]
                               /\ LastFrame(d)' = LastFrame(d)
  BY DEF Takes, Others, Mapping, LastFrame
<1>4. ASSUME NEW d \in Callers, Mapping(d)'
      PROVE  call'[d].page < call'[d].end /\ FirstFrame <= call'[d].frame /\ LastFrame(d)' <= nextFrame'
  <2>1. CASE d = c
    BY <1>0, <1>2, <2>1
  <2>2. CASE d # c
    <3>1. call[d].page < call[d].end /\ FirstFrame <= call[d].frame /\ LastFrame(d) <= nextFrame /\ LastFrame(d) \in Int
      BY <1>3, <1>4, <2>2, MappingIs, ZenonT(60) DEF FramesInv
    <3> QED
      BY <1>0, <1>3, <2>2, <3>1
  <2> QED
    BY <2>1, <2>2, Zenon
<1>5. \A d \in Callers \ {c} : Mapping(d) => LastFrame(d)' <= call'[c].frame
  BY <1>2, <1>3 DEF FramesInv
<1>6. ASSUME NEW d \in Callers, NEW e \in Callers, d # e, Mapping(d)', Mapping(e)' PROVE Apart(d, e)'
  <2>1. CASE d = c \/ e = c
    BY <1>3, <1>5, <1>6, <2>1 DEF Apart
  <2>2. CASE d # c /\ e # c
    BY <1>3, <1>6, <2>2 DEF Apart, FramesInv
  <2> QED
    BY <2>1, <2>2
<1>7. ASSUME NEW p \in Own
      PROVE  /\ FirstFrame <= space[p].frame /\ space[p].frame < nextFrame'
             /\ \A d \in Callers : Mapping(d)' => Outside(p, d)'
  <2>1. FirstFrame <= space[p].frame /\ space[p].frame < nextFrame /\ space[p].frame \in Nat
    BY MappingIs DEF FramesInv
  <2>2. space[p].frame < nextFrame'
    BY <1>0, <2>1
  <2>3. Outside(p, c)'
    BY <1>1, <1>2, <2>1 DEF Outside
  <2>4. \A d \in Callers \ {c} : Mapping(d)' => Outside(p, d)'
    BY <1>1, <1>3 DEF Outside, FramesInv
  <2> QED
    BY <2>1, <2>2, <2>3, <2>4
<1> QED
  BY <1>1, <1>4, <1>6, <1>7, Zenon DEF FramesInv

(* A page of a call of Map gets the first of the frames that are left to it.  *)
LEMMA MapsKeepsFrames ==
    ASSUME TypeOK, TypeOK', LayoutAssumption, FramesInv, NEW c \in Callers, Maps(c)
    PROVE  FramesInv'
<1> DEFINE f == call[c].frame
           page == call[c].page
           end == call[c].end
<1>0. /\ Mapping(c) /\ f \in Nat /\ page \in Int /\ end \in Int /\ nextFrame \in Nat /\ FirstFrame \in Nat
      /\ nextFrame' = nextFrame /\ page < end /\ FirstFrame <= f /\ LastFrame(c) = f + (end - page)
      /\ f + (end - page) <= nextFrame
  <2>1. Mapping(c) /\ nextFrame' = nextFrame
    BY Zenon DEF Maps, MapCalls, Mapping
  <2> QED
    BY <2>1, MappingIs, Zenon DEF FramesInv, LastFrame
<1>1. \A p \in Own' : (p = page /\ space'[p].frame = f) \/ (p \in Own /\ space'[p] = space[p] /\ p # page)
  <2> SUFFICES ASSUME NEW p \in Own'
               PROVE  (p = page /\ space'[p].frame = f) \/ (p \in Own /\ space'[p] = space[p] /\ p # page)
    OBVIOUS
  <2>1. p \in Pages /\ space'[p].present /\ space'[p] # KernelSpace[p]
    BY DEF Own
  <2>2. space'[p] = IF p = page THEN Mapped(f, call[c].access, call[c].user) ELSE space[p]
    BY <2>1 DEF Maps, TypeOK
  <2> QED
    BY <2>1, <2>2 DEF Own, Mapped
<1>2. \A d \in Callers \ {c} : /\ (Mapping(d)' <=> Mapping(d)) /\ call'[d] = call[d]
                               /\ LastFrame(d)' = LastFrame(d)
  BY DEF Maps, Others, Mapping, LastFrame
<1>3. Mapping(c)' => /\ call'[c].frame = f + 1 /\ LastFrame(c)' = LastFrame(c)
                     /\ call'[c].page < call'[c].end
  <2> SUFFICES ASSUME Mapping(c)'
               PROVE  call'[c].frame = f + 1 /\ LastFrame(c)' = LastFrame(c) /\ call'[c].page < call'[c].end
    OBVIOUS
  <2>1. call'[c] \notin IdleCalls \cup SegmentCalls
    BY DEF Mapping, IdleCalls, SegmentCalls
  <2>2. call'[c].page = page + 1 /\ call'[c].end = end /\ call'[c].frame = f + 1 /\ page + 1 < end
    BY <2>1 DEF Maps
  <2>3. LastFrame(c)' = (f + 1) + (end - (page + 1))
    BY <2>2 DEF LastFrame
  <2> HIDE DEF f, page, end
  <2>4. (f + 1) + (end - (page + 1)) = f + (end - page)
    BY <1>0
  <2> QED
    BY <1>0, <2>2, <2>3, <2>4
<1> HIDE DEF f, page, end
<1>4. ASSUME NEW d \in Callers, Mapping(d)'
      PROVE  call'[d].page < call'[d].end /\ FirstFrame <= call'[d].frame /\ LastFrame(d)' <= nextFrame'
  <2>1. CASE d = c
    BY <1>0, <1>3, <1>4, <2>1
  <2>2. CASE d # c
    BY <1>0, <1>2, <1>4, <2>2 DEF FramesInv
  <2> QED
    BY <2>1, <2>2
<1>5. ASSUME NEW d \in Callers \ {c}, Mapping(d) PROVE LastFrame(c) <= call[d].frame \/ LastFrame(d) <= f
  BY <1>0, <1>5 DEF FramesInv, Apart, f
<1>6. ASSUME NEW d \in Callers \ {c}, Mapping(d)', Mapping(c)' PROVE Apart(c, d)' /\ Apart(d, c)'
  <2>1. LastFrame(c) <= call[d].frame \/ LastFrame(d) <= f
    BY <1>2, <1>5, <1>6
  <2>2. LastFrame(d) \in Int
    BY <1>2, <1>6, MappingIs
  <2>3. LastFrame(c)' <= call'[d].frame \/ LastFrame(d)' <= call'[c].frame
    BY <1>0, <1>2, <1>3, <1>6, <2>1, <2>2
  <2> QED
    BY <2>3 DEF Apart
<1>7. ASSUME NEW d \in Callers, NEW e \in Callers, d # e, Mapping(d)', Mapping(e)' PROVE Apart(d, e)'
  <2>1. CASE d = c \/ e = c
    BY <1>6, <1>7, <2>1
  <2>2. CASE d # c /\ e # c
    BY <1>2, <1>7, <2>2 DEF Apart, FramesInv
  <2> QED
    BY <2>1, <2>2
<1>8. ASSUME NEW p \in Own'
      PROVE  /\ FirstFrame <= space'[p].frame /\ space'[p].frame < nextFrame'
             /\ \A d \in Callers : Mapping(d)' => Outside(p, d)'
  <2>1. CASE p = page /\ space'[p].frame = f
    <3>1. f < nextFrame'
      BY <1>0
    <3>2. Mapping(c)' => Outside(p, c)'
      BY <1>0, <1>3, <2>1 DEF Outside
    <3>3. ASSUME NEW d \in Callers \ {c}, Mapping(d)' PROVE Outside(p, d)'
      <4>1. LastFrame(c) <= call[d].frame \/ LastFrame(d) <= f
        BY <1>2, <1>5, <3>3
      <4>2. call[d].frame \in Nat /\ f < LastFrame(c) /\ LastFrame(c) \in Int
        BY <1>0, <1>2, <3>3, MappingIs
      <4>3. f < call[d].frame \/ LastFrame(d) <= f
        BY <1>0, <4>1, <4>2
      <4> QED
        BY <1>2, <2>1, <4>3 DEF Outside
    <3> QED
      BY <1>0, <2>1, <3>1, <3>2, <3>3
  <2>2. CASE p \in Own /\ space'[p] = space[p] /\ p # page
    <3>1. FirstFrame <= space[p].frame /\ space[p].frame < nextFrame /\ Outside(p, c) /\ space[p].frame \in Nat
      BY <1>0, <2>2, MappingIs, ZenonT(60) DEF FramesInv
    <3>2. Mapping(c)' => Outside(p, c)'
      BY <1>0, <1>3, <2>2, <3>1 DEF Outside, f
    <3>3. \A d \in Callers \ {c} : Mapping(d)' => Outside(p, d)'
      BY <1>2, <2>2 DEF Outside, FramesInv
    <3> QED
      BY <1>0, <2>2, <3>1, <3>2, <3>3
  <2> QED
    BY <1>1, <2>1, <2>2
<1>9. ASSUME NEW p \in Own PROVE space[p].frame # f
  <2>1. Outside(p, c) /\ space[p].frame \in Nat
    BY <1>0, MappingIs DEF FramesInv
  <2> QED
    BY <1>0, <2>1 DEF Outside, f
<1>10. ASSUME NEW p \in Own', NEW q \in Own', p # q PROVE space'[p].frame # space'[q].frame
  BY <1>1, <1>9, <1>10 DEF FramesInv
<1> QED
  BY <1>4, <1>7, <1>8, <1>10, Zenon DEF FramesInv

(* Nothing is mapped, and no call of Map is made, before Initialize is done.  *)
LEMMA OffHasNone ==
    ASSUME TypeOK, phase = "off"
    PROVE  Own = {} /\ \A c \in Callers : call[c].at = "idle"
<1>1. Own = {}
  BY DEF TypeOK, Own, Unmapped
<1>2. \A c \in Callers : call[c] \in IdleCalls
  BY DEF TypeOK
<1> QED
  BY <1>1, <1>2 DEF IdleCalls

(* The frames' invariant is inductive.                                        *)
LEMMA FramesKept ==
    ASSUME LayoutAssumption, WordsAssumption, TypeOK, FramesInv, [Next]_vars
    PROVE  FramesInv'
<1>0. Step /\ TypeOK'
  BY StepIs, TypesKept, ZenonT(60)
<1>1. CASE Initialize
  <2>1. Own = {} /\ \A c \in Callers : call[c].at = "idle"
    BY <1>1, OffHasNone DEF Initialize
  <2>2. Own' = {}
    <3>1. space' = KernelSpace \/ space' = space
      BY <1>1 DEF Initialize
    <3> QED
      BY <2>1, <3>1 DEF Own
  <2>3. \A c \in Callers : ~Mapping(c)'
    BY <1>1, <2>1 DEF Initialize, Mapping
  <2> QED
    BY <2>2, <2>3 DEF FramesInv
<1>2. CASE UNCHANGED vars
  <2>1. Calm
    BY <1>2 DEF Calm, vars
  <2> QED
    BY <2>1, CalmKeepsFrames
<1>3. ASSUME NEW c \in Callers, Does(c) PROVE FramesInv'
  BY <1>0, <1>3, CalmIs, CalmKeepsFrames, TakesKeepsFrames, MapsKeepsFrames
<1> QED
  BY <1>0, <1>1, <1>2, <1>3 DEF Step

(* No two pages that were mapped since Initialize are on the same frame,      *)
(* however the callers of Paging::Map and Frame::Allocate interleave and      *)
(* whatever the images ask for.                                               *)
THEOREM FramesAreOwned == LayoutAssumption /\ WordsAssumption => (Spec => []FramesOwned)
<1> SUFFICES ASSUME LayoutAssumption, WordsAssumption PROVE Spec => []FramesOwned
  OBVIOUS
<1>1. Init => TypeOK /\ FramesInv
  <2> SUFFICES ASSUME Init PROVE TypeOK /\ FramesInv
    OBVIOUS
  <2>1. TypeOK
    BY TypesInitially
  <2>2. Own = {} /\ \A c \in Callers : call[c].at = "idle"
    BY <2>1, OffHasNone DEF Init
  <2> QED
    BY <2>1, <2>2 DEF FramesInv, Mapping
<1>2. TypeOK /\ FramesInv /\ [Next]_vars => (TypeOK /\ FramesInv)'
  BY TypesKept, FramesKept
<1>3. FramesInv => FramesOwned
  BY DEF FramesInv, FramesOwned
<1> QED
  BY <1>1, <1>2, <1>3, PTL DEF Spec

-----------------------------------------------------------------------------
(* CopyIn.                                                                    *)

(* What InUserHalf lets through does not wrap around.                         *)
LEMMA HalfIs ==
    ASSUME LayoutAssumption, NEW start \in Words, NEW length \in Words, InUserHalf(start, length)
    PROVE  start \in Nat /\ length \in Nat /\ HK_USER_MIN <= start /\ start + length <= HK_USER_MAX
<1>1. start \in Nat /\ length \in Nat /\ start < WORD /\ length < WORD /\ WORD \in Nat /\ HK_USER_MAX \in Nat
  BY DEF Words, LayoutAssumption
<1>2. start + length >= WORD => (start + length) % WORD = start + length - WORD
  BY <1>1, Z3
<1>3. start + length < WORD => (start + length) % WORD = start + length
  BY <1>1, Z3
<1>4. HK_USER_MIN <= start /\ (start + length) % WORD >= start /\ (start + length) % WORD <= HK_USER_MAX
  BY DEF InUserHalf
<1> QED
  BY <1>1, <1>2, <1>3, <1>4

CheckedPages(k) == PageOf(k.buffer.start) .. k.page - 1

CheckInv ==
    /\ nextSlot >= KERNEL_STACK_BASE
    /\ \A c \in Callers : Mapping(c) /\ call[c].user = FALSE => PageOf(KERNEL_STACK_BASE) <= call[c].page
    /\ \A c \in Callers : call[c].at = "check" =>
        /\ InUserHalf(call[c].buffer.start, call[c].buffer.length)
        /\ \A p \in CheckedPages(call[c]) : p < PageOf(HK_USER_MAX) /\ IsUserReadable(p)

(* The landmarks, in pages.                                                   *)
LEMMA Landmarks ==
    ASSUME LayoutAssumption
    PROVE  /\ PageOf(HK_USER_MAX) \in Nat /\ PageOf(KERNEL_STACK_BASE) \in Nat /\ PageOf(WORD) \in Nat
           /\ PageOf(HK_USER_MAX) <= PageOf(KERNEL_STACK_BASE) /\ PageOf(KERNEL_STACK_BASE) <= PageOf(WORD)
           /\ HK_USER_MAX = PageOf(HK_USER_MAX) * PAGE_SIZE /\ WORD = PageOf(WORD) * PAGE_SIZE
           /\ KERNEL_STACK_BASE = PageOf(KERNEL_STACK_BASE) * PAGE_SIZE
<1>1. /\ \A n \in {HK_USER_MAX, KERNEL_STACK_BASE, WORD} : n \in Nat /\ n % PAGE_SIZE = 0
      /\ HK_USER_MAX <= KERNEL_STACK_BASE /\ KERNEL_STACK_BASE <= WORD
  BY DEF LayoutAssumption
<1>2. \A n \in {HK_USER_MAX, KERNEL_STACK_BASE, WORD} : PageOf(n) \in Nat /\ n = PageOf(n) * PAGE_SIZE
  BY <1>1, WholePages
<1>3. PageOf(HK_USER_MAX) <= PageOf(KERNEL_STACK_BASE) /\ PageOf(KERNEL_STACK_BASE) <= PageOf(WORD)
  BY <1>1, PageOrder
<1> QED
  BY <1>2, <1>3

(* A buffer that has passed InUserHalf is in the user half, page by page.     *)
LEMMA BufferIs ==
    ASSUME LayoutAssumption, WordsAssumption, NEW b \in Buffers
    PROVE  /\ b.start \in Nat /\ b.length \in Nat /\ PageOf(b.start) \in Nat
           /\ InUserHalf(b.start, b.length) => b.start + b.length <= HK_USER_MAX
<1>1. b.start \in Words /\ b.length \in Words
  BY DEF WordsAssumption
<1>2. b.start \in Nat /\ b.length \in Nat
  BY <1>1 DEF Words, LayoutAssumption
<1> QED
  BY <1>1, <1>2, HalfIs, PageOfIs

(* What was checked stays readable: only kernel stacks take a page away from  *)
(* ring 3, and they lie above the user half.                                  *)
LEMMA StaysReadable ==
    ASSUME LayoutAssumption, TypeOK, CheckInv, NEW c \in Callers, Does(c),
           NEW p \in Nat, p < PageOf(HK_USER_MAX), IsUserReadable(p)
    PROVE  IsUserReadable(p)'
<1>0. p \in Pages
  BY Landmarks DEF Pages
<1>1. CASE UNCHANGED space
  BY <1>1 DEF IsUserReadable
<1>2. CASE Maps(c)
  <2>1. /\ call[c] \in MapCalls /\ Mapping(c)
        /\ space' = [space EXCEPT ![call[c].page] = Mapped(call[c].frame, call[c].access, call[c].user)]
    BY <1>2, Zenon DEF Maps, Mapping, MapCalls
  <2>2. CASE p # call[c].page
    <3>1. space'[p] = space[p]
      BY <1>0, <2>1, <2>2 DEF TypeOK
    <3> QED
      BY <3>1 DEF IsUserReadable
  <2>3. CASE p = call[c].page
    <3>1. call[c].user # FALSE
      <4> SUFFICES ASSUME call[c].user = FALSE PROVE FALSE
        BY Zenon
      <4>1. PageOf(KERNEL_STACK_BASE) <= p
        BY <2>1, <2>3, Zenon DEF CheckInv
      <4> QED
        BY <4>1, Landmarks
    <3>2. call[c].user \in BOOLEAN
      BY <2>1 DEF MapCalls
    <3>3. space'[p] = Mapped(call[c].frame, call[c].access, TRUE)
      <4>1. call[c].user = TRUE
        BY <3>1, <3>2, Zenon
      <4> QED
        BY <1>0, <2>1, <2>3, <4>1, Zenon DEF TypeOK
    <3> QED
      BY <3>3 DEF IsUserReadable, Mapped
  <2> QED
    BY <2>2, <2>3
<1> QED
  BY <1>1, <1>2, Zenon DEF Does, Quiet, Takes, TakesForKernel, TakesForSegment, TakesForStack, Enters, StartsCheck, Checks

(* The invariant of CopyIn is kept.                                           *)
LEMMA CheckKept ==
    ASSUME LayoutAssumption, WordsAssumption, TypeOK, CheckInv, [Next]_vars
    PROVE  CheckInv'
<1>0. Step /\ TypeOK'
  BY StepIs, TypesKept
<1>1. CASE Initialize
  <2>1. \A c \in Callers : call'[c].at = "idle"
    BY <1>1, OffHasNone, Zenon DEF Initialize
  <2>2. nextSlot' = nextSlot
    BY <1>1 DEF Initialize
  <2> QED
    BY <2>1, <2>2 DEF CheckInv, Mapping
<1>2. CASE UNCHANGED vars
  BY <1>2 DEF vars, CheckInv, Mapping, IsUserReadable
<1>3. ASSUME NEW c \in Callers, Does(c) PROVE CheckInv'
  <2>1. nextSlot' >= KERNEL_STACK_BASE
    <3>1. nextSlot' \in {nextSlot, nextSlot + STRIDE}
      BY <1>3, Zenon DEF Does, Quiet, Takes, TakesForKernel, TakesForSegment, TakesForStack, Enters, Maps,
                  StartsCheck, Checks
    <3>2. STRIDE \in Nat /\ KERNEL_STACK_BASE \in Nat
      BY DEF STRIDE, GUARD_SIZE, LayoutAssumption
    <3> QED
      BY <3>1, <3>2 DEF CheckInv, TypeOK
  <2>2. ASSUME NEW d \in Callers \ {c} PROVE call'[d] = call[d]
    BY <1>3, <2>2, Zenon DEF Does, Quiet, Takes, TakesForKernel, TakesForSegment, TakesForStack, Enters, Maps,
                      StartsCheck, Checks, Others
  <2>3. ASSUME NEW d \in Callers, Mapping(d)', call'[d].user = FALSE
        PROVE  PageOf(KERNEL_STACK_BASE) <= call'[d].page
    <3>1. CASE call'[d] = call[d]
      BY <2>3, <3>1, Zenon DEF CheckInv, Mapping
    <3>2. CASE d = c /\ Maps(c)
      <4>1. call'[c] \notin IdleCalls \cup SegmentCalls
        BY <2>3, <3>2 DEF Mapping, IdleCalls, SegmentCalls
      <4>2. /\ call'[c].page = call[c].page + 1 /\ call'[c].user = call[c].user
            /\ Mapping(c) /\ call[c].page \in Int
        BY <3>2, <4>1 DEF Maps, MapCalls, Mapping
      <4>3. PageOf(KERNEL_STACK_BASE) <= call[c].page
        BY <2>3, <3>2, <4>2, Zenon DEF CheckInv
      <4> QED
        BY <3>2, <4>2, <4>3, Landmarks, SMTT(30)
    <3>3. CASE d = c /\ TakesForKernel(c)
      <4>1. call'[c].page = PageOf(nextSlot + GUARD_SIZE)
        BY <3>3 DEF TakesForKernel, Takes
      <4>2. /\ KERNEL_STACK_BASE \in Nat /\ nextSlot + GUARD_SIZE \in Nat
            /\ KERNEL_STACK_BASE <= nextSlot + GUARD_SIZE
        <5>1. nextSlot \in Nat
          BY Zenon DEF TypeOK
        <5>2. PAGE_SIZE \in Nat /\ KERNEL_STACK_BASE \in Nat
          BY DEF LayoutAssumption
        <5>3. nextSlot >= KERNEL_STACK_BASE
          BY Zenon DEF CheckInv
        <5> QED
          BY <5>1, <5>2, <5>3 DEF GUARD_SIZE
      <4> QED
        BY <3>3, <4>1, <4>2, PageOrder
    <3>4. CASE d = c /\ (TakesForSegment(c) \/ TakesForStack(c))
      <4>1. call'[c].user = TRUE
        BY <3>4, Zenon DEF TakesForSegment, TakesForStack, Takes
      <4> QED
        BY <2>3, <3>4, <4>1
    <3>5. CASE d = c /\ (Quiet(c) \/ Enters(c) \/ StartsCheck(c) \/ Checks(c))
      <4>1. call'[c] = call[c] \/ call'[c] \in IdleCalls \cup SegmentCalls \cup StackCalls \cup CheckCalls
        BY <3>5, Zenon DEF Quiet, Enters, StartsCheck, Checks
      <4>2. call'[c] = call[c]
        BY <2>3, <3>5, <4>1, Zenon DEF Mapping, IdleCalls, SegmentCalls, StackCalls, CheckCalls
      <4> QED
        BY <3>1, <3>5, <4>2, ZenonT(60)
    <3> QED
      BY <1>3, <2>2, <3>1, <3>2, <3>3, <3>4, <3>5, Zenon DEF Does
  <2>4. ASSUME NEW d \in Callers, call'[d].at = "check"
        PROVE  /\ InUserHalf(call'[d].buffer.start, call'[d].buffer.length)
               /\ \A p \in CheckedPages(call'[d]) : p < PageOf(HK_USER_MAX) /\ IsUserReadable(p)'
    <3>0. call'[d] \in CheckCalls
      BY <1>0, <2>4, CallIsPrimed
    <3>1. CASE call'[d] = call[d]
      <4>1. /\ InUserHalf(call[d].buffer.start, call[d].buffer.length)
            /\ \A p \in CheckedPages(call[d]) : p < PageOf(HK_USER_MAX) /\ IsUserReadable(p)
        BY <2>4, <3>1 DEF CheckInv
      <4>2. \A p \in CheckedPages(call[d]) : p \in Nat
        <5>1. call[d].buffer \in Buffers /\ call[d].page \in Nat
          BY <3>0, <3>1 DEF CheckCalls
        <5> QED
          BY <5>1, BufferIs DEF CheckedPages
      <4> QED
        BY <1>3, <3>1, <4>1, <4>2, StaysReadable, Zenon
    <3>2. CASE d = c /\ StartsCheck(c)
      <4>1. InUserHalf(call'[c].buffer.start, call'[c].buffer.length) /\ call'[c].page = PageOf(call'[c].buffer.start)
        BY <3>2 DEF StartsCheck
      <4>2. call'[c].page \in Nat
        BY <3>0, <3>2 DEF CheckCalls
      <4> QED
        BY <3>2, <4>1, <4>2 DEF CheckedPages
    <3>3. CASE d = c /\ Checks(c)
      <4> DEFINE b == call[c].buffer
                 page == call[c].page
      <4>1. /\ call[c].at = "check" /\ b \in Buffers /\ page \in Nat
            /\ call'[c].buffer = b /\ call'[c].page = page + 1
            /\ ~PastBuffer(b, page) /\ IsUserReadable(page) /\ space' = space
        BY <3>3, Zenon DEF Checks, CheckCalls
      <4>2. /\ InUserHalf(b.start, b.length)
            /\ \A p \in PageOf(b.start) .. page - 1 : p < PageOf(HK_USER_MAX) /\ IsUserReadable(p)
        BY <4>1, Zenon DEF CheckInv, CheckedPages
      <4> HIDE DEF b, page
      <4>3. b.start \in Nat /\ b.length \in Nat /\ PageOf(b.start) \in Nat /\ b.start + b.length <= HK_USER_MAX
        BY <4>1, <4>2, BufferIs
      <4>4. page < PageOf(HK_USER_MAX)
        <5>1. page * PAGE_SIZE \in Nat /\ page * PAGE_SIZE < b.start + b.length
          <6>1. page * PAGE_SIZE \in Nat
            BY <4>1, MorePages
          <6> QED
            BY <4>1, <4>3, <6>1 DEF PastBuffer
        <5>2. ~(PageOf(HK_USER_MAX) * PAGE_SIZE <= page * PAGE_SIZE)
          BY <4>3, <5>1, Landmarks DEF LayoutAssumption
        <5>3. ~(PageOf(HK_USER_MAX) <= page)
          BY <4>1, <5>2, Landmarks, MorePages
        <5> QED
          BY <4>1, <5>3, Landmarks
      <4>5. \A p \in PageOf(b.start) .. (page + 1) - 1 : p < PageOf(HK_USER_MAX) /\ IsUserReadable(p)
        BY <4>1, <4>2, <4>3, <4>4
      <4>6. \A p : IsUserReadable(p)' <=> IsUserReadable(p)
        BY <4>1 DEF IsUserReadable
      <4> QED
        BY <3>3, <4>1, <4>2, <4>5, <4>6 DEF CheckedPages
    <3>4. CASE d = c /\ ~StartsCheck(c) /\ ~Checks(c)
      <4>1. \/ call'[c] = call[c]
            \/ call'[c] \in IdleCalls \cup SegmentCalls \cup StackCalls \cup MapCalls
        BY <1>3, <3>4, Zenon DEF Does, Quiet, Takes, TakesForKernel, TakesForSegment, TakesForStack, Enters, Maps
      <4>2. call'[c] = call[c]
        BY <2>4, <3>4, <4>1, Zenon DEF IdleCalls, SegmentCalls, StackCalls, MapCalls
      <4> QED
        BY <3>1, <3>4, <4>2, Zenon
    <3> QED
      BY <2>2, <3>1, <3>2, <3>3, <3>4, Zenon
  <2> QED
    BY <2>1, <2>3, <2>4, Zenon DEF CheckInv
<1> QED
  BY <1>0, <1>1, <1>2, <1>3 DEF Step

(* When CopyIn has checked the last page, every byte is on a checked page.    *)
LEMMA CheckedIsSafe ==
    ASSUME LayoutAssumption, WordsAssumption, TypeOK, CheckInv
    PROVE  CopyInSafe
<1> SUFFICES ASSUME NEW c \in Callers, At(c, "check"), PastBuffer(call[c].buffer, call[c].page),
                    NEW a \in call[c].buffer.start .. call[c].buffer.start + call[c].buffer.length - 1
             PROVE  IsUserReadable(PageOf(a))
  BY DEF CopyInSafe
<1> DEFINE b == call[c].buffer
           page == call[c].page
<1>1. b \in Buffers /\ page \in Nat /\ page * PAGE_SIZE >= b.start + b.length
  <2>1. call[c] \in CheckCalls
    BY CallIs DEF At
  <2> QED
    BY <2>1 DEF CheckCalls, PastBuffer
<1>2. \A p \in PageOf(b.start) .. page - 1 : IsUserReadable(p)
  BY DEF At, CheckInv, CheckedPages
<1>3. a \in b.start .. b.start + b.length - 1
  OBVIOUS
<1> HIDE DEF b, page
<1>4. b.start \in Nat /\ b.length \in Nat /\ PageOf(b.start) \in Nat
  BY <1>1, BufferIs
<1>5. a \in Nat /\ b.start <= a /\ a < b.start + b.length
  BY <1>3, <1>4
<1>6. PageOf(b.start) <= PageOf(a) /\ PageOf(a) \in Nat /\ PageOf(a) * PAGE_SIZE <= a
  BY <1>4, <1>5, PageOrder, PageOfIs
<1>7. page * PAGE_SIZE \in Nat /\ PageOf(a) * PAGE_SIZE \in Nat
  BY <1>1, <1>6, MorePages
<1>8. ~(page * PAGE_SIZE <= PageOf(a) * PAGE_SIZE)
  BY <1>1, <1>4, <1>5, <1>6, <1>7
<1>9. ~(page <= PageOf(a))
  BY <1>1, <1>6, <1>8, MorePages
<1>10. PageOf(a) \in PageOf(b.start) .. page - 1
  BY <1>1, <1>4, <1>6, <1>9
<1> QED
  BY <1>2, <1>10

(* CopyIn copies only what ring 3 may read, although it checks page by page   *)
(* while other cores map and nothing is locked.                               *)
THEOREM CopyInIsSafe == LayoutAssumption /\ WordsAssumption => (Spec => []CopyInSafe)
<1> SUFFICES ASSUME LayoutAssumption, WordsAssumption PROVE Spec => []CopyInSafe
  OBVIOUS
<1>1. Init => TypeOK /\ CheckInv
  <2> SUFFICES ASSUME Init PROVE TypeOK /\ CheckInv
    OBVIOUS
  <2>1. TypeOK
    BY TypesInitially
  <2>2. \A c \in Callers : call[c].at = "idle"
    BY <2>1, OffHasNone DEF Init
  <2>3. nextSlot >= KERNEL_STACK_BASE
    BY DEF Init, LayoutAssumption
  <2> QED
    BY <2>1, <2>2, <2>3 DEF CheckInv, Mapping
<1>2. TypeOK /\ CheckInv /\ [Next]_vars => (TypeOK /\ CheckInv)'
  BY TypesKept, CheckKept
<1>3. TypeOK /\ CheckInv => CopyInSafe
  BY CheckedIsSafe
<1> QED
  BY <1>1, <1>2, <1>3, PTL DEF Spec

-----------------------------------------------------------------------------
(* Which page is whose.                                                       *)

UserTop == PageOf(HK_USER_STACK_TOP)
UserStride == PageOf(HK_USER_STACK_SIZE) + 1
KernelBase == PageOf(KERNEL_STACK_BASE)
KernelStride == PageOf(THREAD_STACK_SIZE) + 1

\* Strictly between two guard pages.
InUserStack(p) == \E i \in Nat : UserTop - (i + 1) * UserStride < p /\ p < UserTop - i * UserStride
InKernelStack(p) == \E i \in Nat : KernelBase + i * KernelStride < p /\ p < KernelBase + (i + 1) * KernelStride

\* In the user half, and a stack's page if it is not below low.
UserSide(p, low) ==
    /\ PageOf(HK_USER_MIN) <= p /\ p < PageOf(HK_USER_MAX)
    /\ p < low \/ InUserStack(p)

KernelSide(p) == KernelBase <= p /\ InKernelStack(p)

StacksInv ==
    /\ \E i \in Nat : nextStackTop = (UserTop - i * UserStride) * PAGE_SIZE
    /\ \E i \in Nat : nextSlot = (KernelBase + i * KernelStride) * PAGE_SIZE

\* The user stacks stay above page floor.
StackRoom(floor) == floor * PAGE_SIZE <= nextStackTop

SegmentsBelow(low) ==
    \A image \in Images : \A n \in DOMAIN image.segments :
        LET s == image.segments[n] IN Loadable(s) => PageOf(s.virtual) + SegmentPages(s) <= low

SidesInv(floor, low) ==
    /\ \A c \in Callers : Mapping(c) => \A p \in call[c].page .. call[c].end - 1 :
        (call[c].user = TRUE => UserSide(p, low)) /\ (call[c].user = FALSE => KernelSide(p))
    /\ \A p \in Pages : space[p].present /\ space[p].user = TRUE => UserSide(p, low)
    /\ \A p \in Own : space[p].user = FALSE => KernelSide(p)
    /\ \A c \in Callers : call[c].at = "stack" =>
        \E i \in Nat : /\ call[c].top = (UserTop - i * UserStride) * PAGE_SIZE
                       /\ floor <= UserTop - (i + 1) * UserStride

(* The numbers of this section.                                               *)
LEMMA Numbers ==
    ASSUME LayoutAssumption
    PROVE  /\ UserTop \in Nat /\ KernelBase \in Nat /\ UserStride \in Nat \ {0} /\ KernelStride \in Nat \ {0}
           /\ UserTop <= PageOf(HK_USER_MAX) /\ HK_USER_STACK_TOP = UserTop * PAGE_SIZE
           /\ KERNEL_STACK_BASE = KernelBase * PAGE_SIZE
           /\ STACK_STRIDE = UserStride * PAGE_SIZE /\ STRIDE = KernelStride * PAGE_SIZE
           /\ HK_USER_STACK_SIZE = (UserStride - 1) * PAGE_SIZE
           /\ PAGE_SIZE \in Nat \ {0}
<1>0. PAGE_SIZE \in Nat \ {0}
  BY DEF LayoutAssumption
<1>1. UserTop \in Nat /\ HK_USER_STACK_TOP = UserTop * PAGE_SIZE
  BY WholePages DEF LayoutAssumption, UserTop
<1>2. KernelBase \in Nat /\ KERNEL_STACK_BASE = KernelBase * PAGE_SIZE
  BY Landmarks DEF KernelBase
<1>3. UserTop <= PageOf(HK_USER_MAX)
  BY PageOrder DEF LayoutAssumption, UserTop
<1> DEFINE u == PageOf(HK_USER_STACK_SIZE)
           k == PageOf(THREAD_STACK_SIZE)
<1>4. u \in Nat \ {0} /\ k \in Nat \ {0} /\ HK_USER_STACK_SIZE = u * PAGE_SIZE /\ THREAD_STACK_SIZE = k * PAGE_SIZE
  BY StackHasPages
<1> HIDE DEF u, k
<1>5. (u + 1) * PAGE_SIZE = u * PAGE_SIZE + PAGE_SIZE /\ (k + 1) * PAGE_SIZE = k * PAGE_SIZE + PAGE_SIZE
  BY <1>4, MorePages
<1>6. UserStride = u + 1 /\ KernelStride = k + 1
  BY DEF u, k, UserStride, KernelStride
<1>7. UserStride - 1 = u /\ UserStride \in Nat \ {0} /\ KernelStride \in Nat \ {0}
  BY <1>4, <1>6
<1> QED
  BY <1>0, <1>1, <1>2, <1>3, <1>4, <1>5, <1>6, <1>7 DEF STRIDE, STACK_STRIDE, GUARD_SIZE

(* Steps of a stride.                                                         *)
LEMMA Strides ==
    ASSUME LayoutAssumption, NEW i \in Nat
    PROVE  /\ i * UserStride \in Nat /\ i * KernelStride \in Nat
           /\ (i + 1) * UserStride = i * UserStride + UserStride
           /\ (i + 1) * KernelStride = i * KernelStride + KernelStride
           /\ (UserTop - i * UserStride) * PAGE_SIZE - STACK_STRIDE = (UserTop - (i + 1) * UserStride) * PAGE_SIZE
           /\ (KernelBase + i * KernelStride) * PAGE_SIZE + STRIDE = (KernelBase + (i + 1) * KernelStride) * PAGE_SIZE
<1> DEFINE u == i * UserStride
           k == i * KernelStride
<1>1. u \in Nat /\ k \in Nat /\ (i + 1) * UserStride = u + UserStride /\ (i + 1) * KernelStride = k + KernelStride
  <2>1. \A q \in Nat : i * q \in Nat /\ (i + 1) * q = i * q + q
    BY Z3
  <2> QED
    BY <2>1, Numbers, Zenon
<1> HIDE DEF u, k
<1>2. (UserTop - u) * PAGE_SIZE - UserStride * PAGE_SIZE = (UserTop - (u + UserStride)) * PAGE_SIZE
  <2> DEFINE v == UserTop - (u + UserStride)
             q == UserStride
  <2>1. v + q = UserTop - u /\ v \in Int /\ q \in Int
    BY <1>1, Numbers
  <2> HIDE DEF v, q
  <2>2. (v + q) * PAGE_SIZE = v * PAGE_SIZE + q * PAGE_SIZE /\ v * PAGE_SIZE \in Int /\ q * PAGE_SIZE \in Int
    BY <2>1, MorePages, Zenon
  <2>3. (UserTop - u) * PAGE_SIZE - q * PAGE_SIZE = v * PAGE_SIZE
    BY <2>1, <2>2
  <2> QED
    BY <2>3 DEF v, q
<1>3. (KernelBase + k) * PAGE_SIZE + KernelStride * PAGE_SIZE = (KernelBase + (k + KernelStride)) * PAGE_SIZE
  <2>1. (KernelBase + k) + KernelStride = KernelBase + (k + KernelStride)
    BY <1>1, Numbers
  <2>2. ((KernelBase + k) + KernelStride) * PAGE_SIZE = (KernelBase + k) * PAGE_SIZE + KernelStride * PAGE_SIZE
    <3>1. KernelBase + k \in Int /\ KernelStride \in Int
      BY <1>1, Numbers
    <3> QED
      BY <3>1, MorePages, Zenon
  <2> QED
    BY <2>1, <2>2
<1> QED
  BY <1>1, <1>2, <1>3, Numbers DEF u, k

(* Both kinds of stacks move by whole strides.                                *)
LEMMA StacksKept ==
    ASSUME LayoutAssumption, TypeOK, StacksInv, Step
    PROVE  StacksInv'
<1>1. /\ nextSlot' \in {nextSlot, nextSlot + STRIDE}
      /\ nextStackTop' \in {nextStackTop, nextStackTop - STACK_STRIDE}
  BY Zenon DEF Step, Initialize, vars, Does, Quiet, Takes, TakesForKernel, TakesForSegment, TakesForStack,
         Enters, Maps, StartsCheck, Checks
<1>2. \E i \in Nat : nextStackTop' = (UserTop - i * UserStride) * PAGE_SIZE
  <2>1. PICK i \in Nat : nextStackTop = (UserTop - i * UserStride) * PAGE_SIZE
    BY DEF StacksInv
  <2>2. nextStackTop - STACK_STRIDE = (UserTop - (i + 1) * UserStride) * PAGE_SIZE /\ i + 1 \in Nat
    BY <2>1, Strides
  <2> QED
    BY <1>1, <2>1, <2>2
<1>3. \E i \in Nat : nextSlot' = (KernelBase + i * KernelStride) * PAGE_SIZE
  <2>1. PICK i \in Nat : nextSlot = (KernelBase + i * KernelStride) * PAGE_SIZE
    BY DEF StacksInv
  <2>2. nextSlot + STRIDE = (KernelBase + (i + 1) * KernelStride) * PAGE_SIZE /\ i + 1 \in Nat
    BY <2>1, Strides
  <2> QED
    BY <1>1, <2>1, <2>2
<1> QED
  BY <1>2, <1>3 DEF StacksInv

(* Room only shrinks.                                                         *)
LEMMA RoomShrinks ==
    ASSUME LayoutAssumption, TypeOK, Step, NEW floor \in Nat, StackRoom(floor)'
    PROVE  StackRoom(floor)
<1>1. nextStackTop' \in {nextStackTop, nextStackTop - STACK_STRIDE}
  BY Zenon DEF Step, Initialize, vars, Does, Quiet, Takes, TakesForKernel, TakesForSegment, TakesForStack,
         Enters, Maps, StartsCheck, Checks
<1>2. STACK_STRIDE \in Nat /\ nextStackTop \in Int
  <2>1. STACK_STRIDE \in Nat
    BY DEF STACK_STRIDE, GUARD_SIZE, LayoutAssumption
  <2>2. nextStackTop \in Int
    BY Zenon DEF TypeOK
  <2> QED
    BY <2>1, <2>2
<1>3. floor * PAGE_SIZE \in Nat
  BY MorePages
<1>4. floor * PAGE_SIZE <= nextStackTop'
  BY DEF StackRoom
<1> QED
  BY <1>1, <1>2, <1>3, <1>4 DEF StackRoom

(* KernelStack::Allocate maps what lies between two guard pages.              *)
LEMMA KernelPages ==
    ASSUME LayoutAssumption, TypeOK, StacksInv, NEW c \in Callers, TakesForKernel(c),
           NEW p \in call'[c].page .. call'[c].end - 1
    PROVE  KernelSide(p)
<1>1. PICK i \in Nat : nextSlot = (KernelBase + i * KernelStride) * PAGE_SIZE
  BY DEF StacksInv
<1> DEFINE k == i * KernelStride
           g == KernelBase + k
<1>2. k \in Nat /\ (i + 1) * KernelStride = k + KernelStride /\ KernelBase \in Nat /\ KernelStride \in Nat \ {0}
  BY Numbers, Strides, Zenon
<1>3. nextSlot = g * PAGE_SIZE
  BY <1>1
<1> HIDE DEF k
<1>4. g \in Nat
  BY <1>2
<1> HIDE DEF g
<1>5. PageOf(nextSlot + GUARD_SIZE) = g + 1
  <2>1. (g + 1) * PAGE_SIZE = g * PAGE_SIZE + PAGE_SIZE /\ g * PAGE_SIZE \in Nat
    BY <1>4, NextPage
  <2>2. PAGE_SIZE \in Nat \ {0}
    BY Numbers
  <2>3. nextSlot + GUARD_SIZE = (g + 1) * PAGE_SIZE
    BY <1>3, <2>1 DEF GUARD_SIZE
  <2>4. /\ nextSlot + GUARD_SIZE \in Nat /\ (g + 1) * PAGE_SIZE <= nextSlot + GUARD_SIZE
        /\ nextSlot + GUARD_SIZE < (g + 1) * PAGE_SIZE + PAGE_SIZE
    BY <2>1, <2>2, <2>3
  <2> QED
    BY <1>4, <2>4, PageIs
<1>6. call'[c].page = g + 1 /\ call'[c].end = (g + 1) + (KernelStride - 1)
  <2>1. PageOf(THREAD_STACK_SIZE) = KernelStride - 1
    BY StackHasPages DEF KernelStride
  <2> QED
    BY <1>5, <2>1 DEF TakesForKernel, Takes
<1>7. g < p /\ p < g + KernelStride /\ p \in Int
  BY <1>2, <1>4, <1>6
<1>8. KernelBase <= p /\ KernelBase + k < p /\ p < KernelBase + (k + KernelStride)
  BY <1>2, <1>7 DEF g
<1> QED
  BY <1>2, <1>8 DEF KernelSide, InKernelStack, k

(* User::AllocateStack maps what lies between two guard pages.                *)
LEMMA StackPages ==
    ASSUME LayoutAssumption, TypeOK, NEW floor \in Nat, NEW low, PageOf(HK_USER_MIN) <= floor,
           SidesInv(floor, low), NEW c \in Callers, TakesForStack(c), NEW p \in call'[c].page .. call'[c].end - 1
    PROVE  UserSide(p, low)
<1>1. PICK i \in Nat : /\ call[c].top = (UserTop - i * UserStride) * PAGE_SIZE
                       /\ floor <= UserTop - (i + 1) * UserStride
  BY DEF TakesForStack, StackCalls, SidesInv
<1> DEFINE u == i * UserStride
           q == UserStride
<1>2. /\ u \in Nat /\ (i + 1) * UserStride = u + q /\ UserTop \in Nat /\ q \in Nat \ {0} /\ floor \in Nat
      /\ UserTop <= PageOf(HK_USER_MAX) /\ PageOf(HK_USER_MAX) \in Nat /\ PAGE_SIZE \in Nat \ {0}
      /\ PageOf(HK_USER_MAX) <= PageOf(WORD) /\ PageOf(WORD) \in Nat
  <2>1. PageOf(HK_USER_MAX) \in Nat /\ PageOf(HK_USER_MAX) <= PageOf(WORD) /\ PageOf(WORD) \in Nat
    BY Landmarks
  <2> QED
    BY <2>1, Numbers, Strides, Zenon
<1>3. call[c].top = (UserTop - u) * PAGE_SIZE /\ floor <= UserTop - (u + q)
  BY <1>1, <1>2
<1>4. HK_USER_STACK_SIZE = (q - 1) * PAGE_SIZE /\ PageOf(HK_USER_STACK_SIZE) = q - 1
  BY Numbers, StackHasPages DEF UserStride
<1> HIDE DEF u, q
<1> DEFINE g == UserTop - (u + q)
<1>5. g \in Nat /\ g + 1 \in Nat /\ q - 1 \in Nat /\ (g + 1) + (q - 1) = UserTop - u
  BY <1>2, <1>3
<1> HIDE DEF g
<1>6. PageOf(call[c].top - HK_USER_STACK_SIZE) = g + 1
  <2> DEFINE w == q - 1
             h == g + 1
  <2>1. h \in Nat /\ w \in Nat /\ call[c].top = (h + w) * PAGE_SIZE /\ HK_USER_STACK_SIZE = w * PAGE_SIZE
    BY <1>3, <1>4, <1>5
  <2> HIDE DEF w, h
  <2>2. (h + w) * PAGE_SIZE = h * PAGE_SIZE + w * PAGE_SIZE /\ h * PAGE_SIZE \in Nat /\ w * PAGE_SIZE \in Nat
    BY <2>1, AddPages, Zenon
  <2>3. call[c].top - HK_USER_STACK_SIZE = h * PAGE_SIZE
    BY <2>1, <2>2
  <2>4. PageOf(h * PAGE_SIZE) = h
    <3>1. h * PAGE_SIZE <= h * PAGE_SIZE /\ h * PAGE_SIZE < h * PAGE_SIZE + PAGE_SIZE
      BY <1>2, <2>2
    <3> QED
      BY <2>1, <2>2, <3>1, PageIs
  <2> QED
    BY <2>3, <2>4 DEF h
<1>7. call'[c].page = g + 1 /\ call'[c].end = (g + 1) + (q - 1)
  BY <1>4, <1>6 DEF TakesForStack, Takes
<1>8. g < p /\ p < UserTop - u /\ p \in Nat
  BY <1>2, <1>5, <1>7
<1>9. floor <= p /\ p < UserTop /\ p < PageOf(HK_USER_MAX) /\ UserTop - (u + q) < p
  <2>1. g = UserTop - (u + q) /\ floor <= g
    BY <1>3 DEF g
  <2> QED
    BY <1>2, <1>5, <1>8, <2>1
<1>10. PageOf(HK_USER_MIN) <= p
  <2>1. PageOf(HK_USER_MIN) \in Nat
    BY PageOfIs DEF LayoutAssumption
  <2> QED
    BY <1>2, <1>8, <1>9, <2>1
<1>11. InUserStack(p)
  BY <1>2, <1>8, <1>9, Zenon DEF InUserStack, u, q
<1> QED
  BY <1>9, <1>10, <1>11, Zenon DEF UserSide

(* A segment that InUserHalf lets through lies in the user half with all its  *)
(* pages.                                                                     *)
LEMMA SegmentEnds ==
    ASSUME LayoutAssumption, NEW s \in Segments, Loadable(s)
    PROVE  /\ PageOf(s.virtual) \in Nat /\ SegmentPages(s) \in Nat \ {0}
           /\ PageOf(HK_USER_MIN) <= PageOf(s.virtual)
           /\ PageOf(s.virtual) + SegmentPages(s) <= PageOf(HK_USER_MAX)
<1> DEFINE v == s.virtual
           m == s.memorySize
<1>1. v \in Words /\ m \in Words /\ m # 0 /\ InUserHalf(v, m)
  BY DEF Segments, Loadable, Skipped
<1>2. SegmentPages(s) = PageOf(v + m + PAGE_SIZE - 1) - PageOf(v)
  BY DEF SegmentPages
<1>a. PageOf(v) \in Nat /\ SegmentPages(s) \in Nat \ {0}
  <2>1. v \in Nat /\ m \in Nat \ {0}
    BY <1>1 DEF Words, LayoutAssumption
  <2> QED
    BY <2>1, SegmentHasPages
<1> HIDE DEF v, m
<1>6. /\ v \in Nat /\ m \in Nat \ {0} /\ HK_USER_MIN <= v /\ v + m <= HK_USER_MAX
      /\ HK_USER_MIN \in Nat /\ HK_USER_MAX \in Nat /\ PAGE_SIZE \in Nat \ {0}
  BY <1>1, HalfIs DEF LayoutAssumption
<1> DEFINE n == v + m + PAGE_SIZE - 1
<1>7. n \in Nat /\ n < HK_USER_MAX + PAGE_SIZE
  BY <1>6
<1>8. PageOf(HK_USER_MIN) <= PageOf(v) /\ PageOf(v) \in Nat /\ PageOf(n) \in Nat
  BY <1>6, <1>7, PageOrder, PageOfIs, Zenon
<1>9. PageOf(n) <= PageOf(HK_USER_MAX)
  <2> DEFINE x == PageOf(HK_USER_MAX)
             y == PageOf(n)
  <2>1. x \in Nat /\ HK_USER_MAX = x * PAGE_SIZE /\ y \in Nat /\ y * PAGE_SIZE <= n
    BY <1>7, Landmarks, PageOfIs
  <2> HIDE DEF x, y, n
  <2>2. (x + 1) * PAGE_SIZE = x * PAGE_SIZE + PAGE_SIZE /\ x * PAGE_SIZE \in Nat /\ y * PAGE_SIZE \in Nat
    BY <2>1, MorePages
  <2>3. ~((x + 1) * PAGE_SIZE <= y * PAGE_SIZE)
    BY <1>6, <1>7, <2>1, <2>2
  <2>4. ~(x + 1 <= y)
    BY <2>1, <2>3, MorePages
  <2>5. y <= x
    BY <2>1, <2>4
  <2> QED
    BY <2>5 DEF x, y
<1>10. PageOf(v) + SegmentPages(s) = PageOf(n)
  <2> HIDE DEF n
  <2>1. SegmentPages(s) = PageOf(n) - PageOf(v)
    BY <1>2 DEF n
  <2> QED
    BY <1>8, <2>1
<1> QED
  BY <1>8, <1>9, <1>10, <1>a, Zenon DEF v

(* Load maps a segment's pages in the user half, below what all segments are  *)
(* below.                                                                     *)
LEMMA SegmentSide ==
    ASSUME LayoutAssumption, WordsAssumption, TypeOK, NEW low \in Nat, SegmentsBelow(low),
           NEW c \in Callers, TakesForSegment(c), NEW p \in call'[c].page .. call'[c].end - 1
    PROVE  UserSide(p, low)
<1> DEFINE s == Segment(c)
<1>1. /\ call[c] \in SegmentCalls /\ call[c].index \in DOMAIN call[c].image.segments /\ Loadable(s)
  BY Zenon DEF TakesForSegment, Loadable
<1>2. call[c].image \in Images
  BY <1>1 DEF SegmentCalls
<1>3. s \in Segments
  <2> DEFINE q == call[c].image.segments
             i == call[c].index
  <2>1. q \in Seq(Segments) /\ i \in DOMAIN q
    BY <1>1, <1>2 DEF WordsAssumption
  <2> HIDE DEF q, i
  <2>2. q[i] \in Segments
    BY <2>1
  <2> QED
    BY <2>2, Zenon DEF Segment, q, i
<1>4. call'[c].page = PageOf(s.virtual) /\ call'[c].end = PageOf(s.virtual) + SegmentPages(s)
  BY Zenon DEF TakesForSegment, Takes
<1>5. PageOf(s.virtual) + SegmentPages(s) <= low
  BY <1>1, <1>2, Zenon DEF SegmentsBelow, Segment
<1> HIDE DEF s
<1> DEFINE first == PageOf(s.virtual)
           end == first + SegmentPages(s)
<1>6. /\ first \in Nat /\ end \in Nat /\ PageOf(HK_USER_MIN) <= first /\ end <= PageOf(HK_USER_MAX)
      /\ PageOf(HK_USER_MIN) \in Nat /\ PageOf(HK_USER_MAX) \in Nat /\ end <= low
  <2>1. PageOf(HK_USER_MIN) \in Nat /\ PageOf(HK_USER_MAX) \in Nat
    BY PageOfIs DEF LayoutAssumption
  <2> QED
    BY <1>1, <1>3, <1>5, <2>1, SegmentEnds
<1>7. p \in first .. end - 1
  BY <1>4
<1> HIDE DEF first, end
<1>8. PageOf(HK_USER_MIN) <= p /\ p < PageOf(HK_USER_MAX) /\ p < low
  BY <1>6, <1>7
<1> QED
  BY <1>8 DEF UserSide

(* No step puts a page on the wrong side while there is room.                 *)
LEMMA SidesStep ==
    ASSUME LayoutAssumption, WordsAssumption, TypeOK, TypeOK', StacksInv, FramesInv,
           NEW floor \in Nat, NEW low \in Nat, PageOf(HK_USER_MIN) <= floor, SegmentsBelow(low), StackRoom(floor)',
           SidesInv(floor, low), NEW c \in Callers, Does(c)
    PROVE  SidesInv(floor, low)'
<1>1. ASSUME NEW d \in Callers \ {c} PROVE call'[d] = call[d]
  BY <1>1, Zenon DEF Does, Quiet, Takes, TakesForKernel, TakesForSegment, TakesForStack, Enters, Maps,
              StartsCheck, Checks, Others
<1>2. ASSUME NEW d \in Callers, Mapping(d)', NEW p \in call'[d].page .. call'[d].end - 1
      PROVE  (call'[d].user = TRUE => UserSide(p, low)) /\ (call'[d].user = FALSE => KernelSide(p))
  <2>1. CASE call'[d] = call[d]
    BY <1>2, <2>1, Zenon DEF SidesInv, Mapping
  <2>2. CASE d = c /\ Maps(c)
    <3>1. call'[c] \notin IdleCalls \cup SegmentCalls
      BY <1>2, <2>2 DEF Mapping, IdleCalls, SegmentCalls
    <3>2. /\ call'[c].page = call[c].page + 1 /\ call'[c].end = call[c].end /\ call'[c].user = call[c].user
          /\ Mapping(c) /\ call[c].page \in Int /\ call[c].end \in Int
      BY <2>2, <3>1, Zenon DEF Maps, MapCalls, Mapping
    <3>3. p \in call[c].page .. call[c].end - 1
      BY <2>2, <3>2, SMTT(30)
    <3> QED
      BY <2>2, <3>2, <3>3, Zenon DEF SidesInv
  <2>3. CASE d = c /\ TakesForKernel(c)
    <3>1. KernelSide(p)
      BY <2>3, KernelPages
    <3>2. call'[d].user = FALSE
      BY <2>3, Zenon DEF TakesForKernel, Takes
    <3> QED
      BY <3>1, <3>2, Zenon
  <2>4. CASE d = c /\ (TakesForSegment(c) \/ TakesForStack(c))
    <3>1. UserSide(p, low)
      BY <2>4, SegmentSide, StackPages
    <3>2. call'[d].user = TRUE
      BY <2>4, Zenon DEF TakesForSegment, TakesForStack, Takes
    <3> QED
      BY <3>1, <3>2, Zenon
  <2>5. CASE d = c /\ (Quiet(c) \/ Enters(c) \/ StartsCheck(c) \/ Checks(c))
    <3>1. call'[c] = call[c] \/ call'[c] \in IdleCalls \cup SegmentCalls \cup StackCalls \cup CheckCalls
      BY <2>5, Zenon DEF Quiet, Enters, StartsCheck, Checks
    <3>2. call'[c] = call[c]
      BY <1>2, <2>5, <3>1, Zenon DEF Mapping, IdleCalls, SegmentCalls, StackCalls, CheckCalls
    <3> QED
      BY <2>1, <2>5, <3>2, Zenon
  <2> QED
    BY <1>1, <2>1, <2>2, <2>3, <2>4, <2>5, Zenon DEF Does
<1>3. /\ \A p \in Pages : space'[p].present /\ space'[p].user = TRUE => UserSide(p, low)
      /\ \A p \in Own' : space'[p].user = FALSE => KernelSide(p)
  <2>1. CASE UNCHANGED space
    BY <2>1, Zenon DEF SidesInv, Own
  <2>2. CASE Maps(c)
    <3> DEFINE k == call[c]
    <3>1. Mapping(c) /\ k \in MapCalls /\ space' = [space EXCEPT ![k.page] = Mapped(k.frame, k.access, k.user)]
      BY <2>2 DEF Maps, Mapping, MapCalls
    <3>2. k.page \in k.page .. k.end - 1
      <4>1. k.page \in Int /\ k.end \in Int /\ k.page < k.end
        BY <3>1, Zenon DEF MapCalls, FramesInv
      <4> QED
        BY <4>1
    <3>3. (k.user = TRUE => UserSide(k.page, low)) /\ (k.user = FALSE => KernelSide(k.page))
      BY <3>1, <3>2, Zenon DEF SidesInv
    <3>4. ASSUME NEW p \in Pages
          PROVE  (p = k.page /\ space'[p].user = k.user) \/ (p # k.page /\ space'[p] = space[p])
      BY <3>1, Zenon DEF TypeOK, Mapped
    <3> HIDE DEF k
    <3>5. ASSUME NEW p \in Pages, space'[p].present, space'[p].user = TRUE PROVE UserSide(p, low)
      <4>1. CASE p = k.page /\ space'[p].user = k.user
        BY <3>3, <3>5, <4>1, Zenon
      <4>2. CASE p # k.page /\ space'[p] = space[p]
        BY <3>5, <4>2, Zenon DEF SidesInv
      <4> QED
        BY <3>4, <4>1, <4>2, Zenon
    <3>6. ASSUME NEW p \in Own', space'[p].user = FALSE PROVE KernelSide(p)
      <4>0. p \in Pages
        BY DEF Own
      <4>1. CASE p = k.page /\ space'[p].user = k.user
        BY <3>3, <3>6, <4>1, Zenon
      <4>2. CASE p # k.page /\ space'[p] = space[p]
        <5>1. p \in Own
          BY <4>2, ZenonT(60) DEF Own
        <5> QED
          BY <3>6, <4>2, <5>1, Zenon DEF SidesInv
      <4> QED
        BY <3>4, <4>0, <4>1, <4>2, Zenon
    <3> QED
      BY <3>5, <3>6, Zenon
  <2> QED
    BY <2>1, <2>2, Zenon DEF Does, Quiet, Takes, TakesForKernel, TakesForSegment, TakesForStack, Enters,
                      StartsCheck, Checks
<1>4. ASSUME NEW d \in Callers, call'[d].at = "stack"
      PROVE  \E i \in Nat : /\ call'[d].top = (UserTop - i * UserStride) * PAGE_SIZE
                            /\ floor <= UserTop - (i + 1) * UserStride
  <2>1. CASE call'[d] = call[d]
    BY <1>4, <2>1, Zenon DEF SidesInv
  <2>2. CASE d = c /\ Enters(c)
    <3>1. PICK i \in Nat : nextStackTop = (UserTop - i * UserStride) * PAGE_SIZE
      BY DEF StacksInv
    <3>2. nextStackTop' = (UserTop - (i + 1) * UserStride) * PAGE_SIZE /\ call'[c].top = nextStackTop
      BY <2>2, <3>1, Strides DEF Enters
    <3> DEFINE g == UserTop - (i + 1) * UserStride
    <3>3. g \in Int /\ floor \in Nat
      BY Numbers, Strides, SMTT(30)
    <3>4. floor * PAGE_SIZE <= g * PAGE_SIZE
      BY <3>2 DEF StackRoom
    <3> HIDE DEF g
    <3>5. floor <= g
      BY <3>3, <3>4, MorePages
    <3> QED
      BY <2>2, <3>1, <3>2, <3>5, Zenon DEF g
  <2>3. CASE d = c /\ ~Enters(c)
    <3>1. call'[c] = call[c] \/ call'[c] \in IdleCalls \cup SegmentCalls \cup CheckCalls \cup MapCalls
      BY <2>3, Zenon DEF Does, Quiet, Takes, TakesForKernel, TakesForSegment, TakesForStack, Maps, StartsCheck, Checks
    <3>2. call'[c] = call[c]
      BY <1>4, <2>3, <3>1 DEF IdleCalls, SegmentCalls, CheckCalls, MapCalls
    <3> QED
      BY <2>1, <2>3, <3>2
  <2> QED
    BY <1>1, <2>1, <2>2, <2>3
<1>5. \A d \in Callers : Mapping(d)' => \A p \in call'[d].page .. call'[d].end - 1 :
        (call'[d].user = TRUE => UserSide(p, low)) /\ (call'[d].user = FALSE => KernelSide(p))
  BY <1>2, Zenon
<1> QED
  BY <1>3, <1>4, <1>5, Zenon DEF SidesInv

(* The fields of the entry that Map writes.                                   *)
LEMMA MapsGives ==
    ASSUME NEW c \in Callers, NEW p \in Pages, TypeOK, Maps(c), p = call[c].page
    PROVE  space'[p].user = call[c].user /\ space'[p].frame = call[c].frame
  BY DEF Maps, Mapped, TypeOK

ContentInv ==
    /\ \A c \in Callers : Mapping(c) /\ call[c].user = TRUE =>
        \A f \in call[c].frame .. LastFrame(c) - 1 : f \in AllFrames /\ content[f] # "junk"
    /\ \A p \in Own : space[p].user = TRUE => space[p].frame \in AllFrames /\ content[space[p].frame] # "junk"

(* Frames that ring 3 is given were cleared or filled before, and stay so.    *)
LEMMA ContentStep ==
    ASSUME LayoutAssumption, TypeOK, TypeOK', FramesInv, ContentInv, NEW c \in Callers, Does(c)
    PROVE  ContentInv'
<1>1. ASSUME NEW d \in Callers \ {c} PROVE call'[d] = call[d]
  BY <1>1, Zenon DEF Does, Quiet, Takes, TakesForKernel, TakesForSegment, TakesForStack, Enters, Maps,
              StartsCheck, Checks, Others
<1>2. ASSUME NEW f \in AllFrames, content[f] # "junk" PROVE content'[f] # "junk"
  <2>1. content' = content \/ \E n : \E what \in Clean : content' = Filled(n, what)
    BY Zenon DEF Does, Quiet, Takes, TakesForKernel, TakesForSegment, TakesForStack, Enters, Maps,
           StartsCheck, Checks
  <2> QED
    BY <1>2, <2>1 DEF Filled, Clean
<1>3. ASSUME NEW d \in Callers, Mapping(d)', call'[d].user = TRUE, NEW f \in call'[d].frame .. LastFrame(d)' - 1
      PROVE  f \in AllFrames /\ content'[f] # "junk"
  <2>1. CASE call'[d] = call[d]
    <3>1. Mapping(d) /\ call[d].user = TRUE /\ f \in call[d].frame .. LastFrame(d) - 1
      BY <1>3, <2>1, Zenon DEF Mapping, LastFrame
    <3>2. f \in AllFrames /\ content[f] # "junk"
      BY <3>1, Zenon DEF ContentInv
    <3> QED
      BY <1>2, <3>2
  <2>2. CASE d = c /\ Maps(c)
    <3>1. call'[c] \notin IdleCalls \cup SegmentCalls
      BY <1>3, <2>2 DEF Mapping, IdleCalls, SegmentCalls
    <3>2. /\ call'[c].page = call[c].page + 1 /\ call'[c].end = call[c].end /\ call'[c].user = call[c].user
          /\ call'[c].frame = call[c].frame + 1 /\ Mapping(c)
          /\ call[c].page \in Int /\ call[c].end \in Int /\ call[c].frame \in Nat
      BY <2>2, <3>1, Zenon DEF Maps, MapCalls, Mapping
    <3>3. f \in call[c].frame .. LastFrame(c) - 1
      <4>1. f \in call[c].frame + 1 .. (call[c].frame + 1 + (call[c].end - (call[c].page + 1))) - 1
        BY <1>3, <2>2, <3>2, Zenon DEF LastFrame
      <4> QED
        BY <3>2, <4>1, SMTT(30) DEF LastFrame
    <3>4. f \in AllFrames /\ content[f] # "junk"
      BY <1>3, <2>2, <3>2, <3>3, Zenon DEF ContentInv
    <3> QED
      BY <1>2, <3>4
  <2>3. CASE d = c /\ TakesForKernel(c)
    BY <1>3, <2>3, Zenon DEF TakesForKernel, Takes
  <2>4. CASE d = c /\ (TakesForSegment(c) \/ TakesForStack(c))
    <3>1. PICK n \in Nat \ {0} : /\ HasFrames(n) /\ \E what \in Clean : content' = Filled(n, what)
                                 /\ \E first, user : Takes(c, first, n, user)
      BY <2>4, Zenon DEF TakesForSegment, TakesForStack, Takes
    <3>2. f \in nextFrame .. nextFrame + n - 1 /\ nextFrame \in Nat
      <4>1. PICK first, user : Takes(c, first, n, user)
        BY <3>1, ZenonT(60)
      <4>2. LastFrame(c)' = nextFrame + ((first + n) - first) /\ first \in Int /\ call'[c].frame = nextFrame
        BY <4>1 DEF LastFrame, Takes
      <4>3. nextFrame \in Nat
        BY MappingIs
      <4>4. LastFrame(c)' = nextFrame + n
        BY <4>2, <4>3
      <4> QED
        <5>1. call'[d].frame = nextFrame /\ LastFrame(d)' = nextFrame + n
          BY <2>4, <4>2, <4>4
        <5>2. call'[d].frame <= f /\ f <= LastFrame(d)' - 1 /\ f \in Int
          BY <1>3
        <5>3. nextFrame <= f /\ f <= (nextFrame + n) - 1
          BY <5>1, <5>2, Zenon
        <5> QED
          BY <4>3, <5>2, <5>3
    <3>3. f \in AllFrames
      <4>1. FirstFrame \in Nat /\ MAX_FRAMES \in Nat
        BY DEF LayoutAssumption
      <4>2. nextFrame \in FirstFrame .. FirstFrame + MAX_FRAMES
        BY Zenon DEF TypeOK
      <4>3. nextFrame + n <= FirstFrame + MAX_FRAMES
        BY <3>1, Zenon DEF HasFrames
      <4> QED
        BY <3>1, <3>2, <4>1, <4>2, <4>3 DEF AllFrames
    <3>4. \A what \in Clean : what # "junk"
      BY DEF Clean
    <3> QED
      BY <3>1, <3>2, <3>3, <3>4, Zenon DEF Filled
  <2>5. CASE d = c /\ (Quiet(c) \/ Enters(c) \/ StartsCheck(c) \/ Checks(c))
    <3>1. call'[c] = call[c] \/ call'[c] \in IdleCalls \cup SegmentCalls \cup StackCalls \cup CheckCalls
      BY <2>5, Zenon DEF Quiet, Enters, StartsCheck, Checks
    <3>2. call'[c] = call[c]
      BY <1>3, <2>5, <3>1 DEF Mapping, IdleCalls, SegmentCalls, StackCalls, CheckCalls
    <3> QED
      BY <2>1, <2>5, <3>2
  <2> QED
    BY <1>1, <2>1, <2>2, <2>3, <2>4, <2>5, Zenon DEF Does
<1>4. ASSUME NEW p \in Own', space'[p].user = TRUE
      PROVE  space'[p].frame \in AllFrames /\ content'[space'[p].frame] # "junk"
  <2>0. p \in Pages
    BY DEF Own
  <2>1. CASE p \in Own /\ space'[p] = space[p]
    <3>1. space[p].frame \in AllFrames /\ content[space[p].frame] # "junk"
      BY <1>4, <2>1, Zenon DEF ContentInv
    <3> QED
      BY <1>2, <2>1, <3>1
  <2>2. CASE Maps(c) /\ p = call[c].page
    <3>1. /\ Mapping(c) /\ call[c] \in MapCalls
          /\ space'[p] = Mapped(call[c].frame, call[c].access, call[c].user)
      BY <2>0, <2>2 DEF Maps, Mapping, MapCalls, TypeOK
    <3>2. space'[p].user = call[c].user /\ space'[p].frame = call[c].frame
      BY <2>0, <2>2, MapsGives, Zenon
    <3>3. call[c].frame \in call[c].frame .. LastFrame(c) - 1
      <4>1. call[c].page < call[c].end /\ call[c].page \in Int /\ call[c].end \in Int /\ call[c].frame \in Nat
        BY <3>1, MappingIs, Zenon DEF FramesInv
      <4> QED
        BY <4>1 DEF LastFrame
    <3>4. call[c].frame \in AllFrames /\ content[call[c].frame] # "junk"
      BY <1>4, <3>1, <3>2, <3>3, Zenon DEF ContentInv
    <3> QED
      BY <1>2, <3>2, <3>4, ZenonT(60)
  <2>3. CASE Maps(c) /\ p # call[c].page
    <3>1. space'[p] = space[p]
      BY <2>0, <2>3 DEF Maps, TypeOK
    <3> QED
      BY <2>1, <3>1, Zenon DEF Own
  <2>4. CASE UNCHANGED space
    BY <2>1, <2>4, Zenon DEF Own
  <2> QED
    BY <2>2, <2>3, <2>4, Zenon DEF Does, Quiet, Takes, TakesForKernel, TakesForSegment, TakesForStack, Enters,
                            StartsCheck, Checks
<1>5. \A d \in Callers : Mapping(d)' /\ call'[d].user = TRUE =>
        \A f \in call'[d].frame .. LastFrame(d)' - 1 : f \in AllFrames /\ content'[f] # "junk"
  BY <1>3, Zenon
<1>6. \A p \in Own' : space'[p].user = TRUE =>
        space'[p].frame \in AllFrames /\ content'[space'[p].frame] # "junk"
  BY <1>4, Zenon
<1> QED
  BY <1>5, <1>6, Zenon DEF ContentInv, AllFrames

\* All of it, while there is room.
SpaceInv(floor, low) ==
    TypeOK /\ FramesInv /\ StacksInv /\ ContentInv /\ (StackRoom(floor) => SidesInv(floor, low))

(* It holds at first.                                                         *)
LEMMA SpaceInitially ==
    ASSUME LayoutAssumption, NEW floor, NEW low, Init
    PROVE  SpaceInv(floor, low)
<1>1. TypeOK
  BY TypesInitially
<1>2. Own = {} /\ \A c \in Callers : call[c].at = "idle"
  BY <1>1, OffHasNone DEF Init
<1>3. FramesInv /\ ContentInv
  BY <1>2, Zenon DEF FramesInv, ContentInv, Mapping
<1>4. StacksInv
  <2>1. 0 * UserStride = 0 /\ 0 * KernelStride = 0 /\ UserTop \in Nat /\ KernelBase \in Nat
    BY Numbers
  <2>2. UserTop - 0 * UserStride = UserTop /\ KernelBase + 0 * KernelStride = KernelBase
    BY <2>1
  <2>3. nextStackTop = (UserTop - 0 * UserStride) * PAGE_SIZE /\ nextSlot = (KernelBase + 0 * KernelStride) * PAGE_SIZE
    BY <2>2, Numbers DEF Init
  <2> QED
    BY <2>3 DEF StacksInv
<1>5. SidesInv(floor, low)
  <2>1. \A p \in Pages : ~space[p].present
    BY DEF Init, Unmapped
  <2> QED
    BY <1>2, <2>1 DEF SidesInv, Mapping
<1> QED
  BY <1>1, <1>3, <1>4, <1>5 DEF SpaceInv

(* It is inductive.                                                           *)
LEMMA SpaceKept ==
    ASSUME LayoutAssumption, WordsAssumption, NEW floor \in Nat, NEW low \in Nat,
           PageOf(HK_USER_MIN) <= floor, SegmentsBelow(low), SpaceInv(floor, low), [Next]_vars
    PROVE  SpaceInv(floor, low)'
<1>0. TypeOK /\ FramesInv /\ StacksInv /\ ContentInv /\ (StackRoom(floor) => SidesInv(floor, low))
  BY DEF SpaceInv
<1>1. Step /\ TypeOK' /\ FramesInv'
  BY <1>0, StepIs, TypesKept, FramesKept
<1>2. StacksInv'
  BY <1>0, <1>1, StacksKept
<1>3. StackRoom(floor)' => StackRoom(floor)
  BY <1>0, <1>1, RoomShrinks, ZenonT(60)
<1>4. CASE Initialize
  <2>1. Own = {} /\ \A c \in Callers : call[c].at = "idle"
    BY <1>0, <1>4, OffHasNone, Zenon DEF Initialize
  <2>2. /\ \A p \in Pages : ~(space'[p].present /\ space'[p].user)
        /\ Own' = {}
    <3>1. space' = KernelSpace \/ space' = space
      BY <1>4 DEF Initialize
    <3>2. \A p \in Pages : ~(KernelSpace[p].present /\ KernelSpace[p].user)
      BY WinnerIs, Zenon
    <3>3. \A p \in Pages : ~space[p].present
      BY <1>0, <1>4 DEF Initialize, TypeOK, Unmapped
    <3> QED
      BY <3>1, <3>2, <3>3 DEF Own
  <2>3. \A c \in Callers : call'[c].at = "idle"
    BY <1>4, <2>1 DEF Initialize
  <2>4. ContentInv'
    BY <2>2, <2>3 DEF ContentInv, Mapping
  <2>5. SidesInv(floor, low)'
    <3>1. \A c \in Callers : ~Mapping(c)' /\ call'[c].at # "stack"
      BY <2>3 DEF Mapping
    <3>2. \A p \in Pages : ~(space'[p].present /\ space'[p].user = TRUE)
      BY <2>2, Zenon
    <3> QED
      BY <2>2, <3>1, <3>2, Zenon DEF SidesInv
  <2> QED
    BY <1>1, <1>2, <2>4, <2>5 DEF SpaceInv
<1>5. CASE UNCHANGED vars
  <2>1. ContentInv'
    BY <1>0, <1>5, Zenon DEF vars, ContentInv, Mapping, LastFrame, Own
  <2>2. SidesInv(floor, low) => SidesInv(floor, low)'
    BY <1>5, Zenon DEF vars, SidesInv, Mapping, Own
  <2> QED
    BY <1>0, <1>1, <1>2, <1>3, <2>1, <2>2 DEF SpaceInv
<1>6. ASSUME NEW c \in Callers, Does(c) PROVE SpaceInv(floor, low)'
  <2>1. ContentInv'
    BY <1>0, <1>1, <1>6, ContentStep
  <2>2. StackRoom(floor)' => SidesInv(floor, low)'
    BY <1>0, <1>1, <1>3, <1>6, SidesStep
  <2> QED
    BY <1>1, <1>2, <2>1, <2>2 DEF SpaceInv
<1> QED
  BY <1>1, <1>4, <1>5, <1>6 DEF Step

(* While the user stacks have not grown out of the user half, ring 3 reaches  *)
(* only pages of its own half, on frames that were cleared first, whatever    *)
(* the images ask for and wherever Initialize's own maps lie.                 *)
THEOREM UserReachesItsOwn ==
    LayoutAssumption /\ WordsAssumption => (Spec => [](HK_USER_MIN <= nextStackTop => UserOnlyItsOwn))
<1> SUFFICES ASSUME LayoutAssumption, WordsAssumption
             PROVE  Spec => [](HK_USER_MIN <= nextStackTop => UserOnlyItsOwn)
  OBVIOUS
<1> DEFINE floor == PageOf(HK_USER_MIN)
           low == PageOf(HK_USER_MAX)
<1>0. /\ floor \in Nat /\ low \in Nat /\ HK_USER_MIN = floor * PAGE_SIZE /\ HK_USER_MAX = low * PAGE_SIZE
      /\ floor <= floor /\ SegmentsBelow(low)
  <2>1. /\ PageOf(HK_USER_MIN) \in Nat /\ HK_USER_MIN = PageOf(HK_USER_MIN) * PAGE_SIZE
        /\ PageOf(HK_USER_MAX) \in Nat /\ HK_USER_MAX = PageOf(HK_USER_MAX) * PAGE_SIZE
    BY WholePages, Landmarks, Zenon DEF LayoutAssumption
  <2>2. ASSUME NEW image \in Images, NEW n \in DOMAIN image.segments, Loadable(image.segments[n])
        PROVE  PageOf(image.segments[n].virtual) + SegmentPages(image.segments[n]) <= PageOf(HK_USER_MAX)
    <3> DEFINE q == image.segments
    <3>1. q \in Seq(Segments) /\ n \in DOMAIN q
      BY DEF WordsAssumption
    <3> HIDE DEF q
    <3>2. q[n] \in Segments
      BY <3>1
    <3> QED
      BY <2>2, <3>2, SegmentEnds, Zenon DEF q
  <2>3. SegmentsBelow(low)
    BY <2>2, Zenon DEF SegmentsBelow
  <2> QED
    BY <2>1, <2>3
<1> HIDE DEF floor, low
<1>a. PageOf(HK_USER_MIN) <= floor
  BY <1>0 DEF floor
<1>1. Init => SpaceInv(floor, low)
  BY SpaceInitially
<1>2. SpaceInv(floor, low) /\ [Next]_vars => SpaceInv(floor, low)'
  BY <1>0, <1>a, SpaceKept
<1>3. SpaceInv(floor, low) => (HK_USER_MIN <= nextStackTop => UserOnlyItsOwn)
  <2> SUFFICES ASSUME SpaceInv(floor, low), HK_USER_MIN <= nextStackTop,
                      NEW p \in Pages, space[p].present, space[p].user
               PROVE  /\ p * PAGE_SIZE >= HK_USER_MIN /\ (p + 1) * PAGE_SIZE <= HK_USER_MAX
                      /\ space[p].frame \in AllFrames /\ content[space[p].frame] # "junk"
    BY DEF UserOnlyItsOwn
  <2>1. space[p].user = TRUE
    <3>1. space[p] \in Granted
      BY DEF SpaceInv, TypeOK, Unmapped
    <3>2. space[p].user \in BOOLEAN
      BY <3>1 DEF Granted
    <3> QED
      BY <3>2
  <2>2. UserSide(p, low)
    <3>1. StackRoom(floor)
      BY <1>0 DEF StackRoom
    <3> QED
      BY <2>1, <3>1, Zenon DEF SpaceInv, SidesInv
  <2>3. floor <= p /\ p < low /\ p \in Int
    <3>1. floor <= p /\ p < low
      BY <2>2, Zenon DEF UserSide, floor, low
    <3> QED
      BY <3>1 DEF Pages
  <2>4. space[p].frame \in AllFrames /\ content[space[p].frame] # "junk"
    <3>1. p \in Own
      BY WinnerIs, Zenon DEF Own
    <3> QED
      BY <2>1, <3>1, Zenon DEF SpaceInv, ContentInv
  <2>5. p + 1 \in Int /\ p + 1 <= low
    BY <1>0, <2>3
  <2>6. floor * PAGE_SIZE <= p * PAGE_SIZE /\ (p + 1) * PAGE_SIZE <= low * PAGE_SIZE
    BY <1>0, <2>3, <2>5, MorePages
  <2>7. p * PAGE_SIZE \in Int /\ HK_USER_MIN \in Nat
    BY <2>3, MorePages DEF LayoutAssumption
  <2>8. p * PAGE_SIZE >= HK_USER_MIN
    BY <1>0, <2>6, <2>7
  <2> QED
    BY <1>0, <2>4, <2>6, <2>8, Zenon
<1> QED
  BY <1>1, <1>2, <1>3, PTL DEF Spec

-----------------------------------------------------------------------------
(* Guard pages.                                                               *)

(* Multiples are ordered like their factors.                                  *)
LEMMA Multiples ==
    ASSUME NEW q \in Nat \ {0}, NEW i \in Nat, NEW j \in Nat
    PROVE  /\ i * q \in Nat /\ (i + 1) * q = i * q + q
           /\ i <= j <=> i * q <= j * q
  BY Z3

(* No multiple lies between two neighbours.                                   *)
LEMMA NoneBetween ==
    ASSUME NEW q \in Nat \ {0}, NEW i \in Nat, NEW j \in Nat, i * q < j * q
    PROVE  (i + 1) * q <= j * q
<1>1. i * q \in Nat /\ j * q \in Nat
  BY Multiples
<1>2. ~(j * q <= i * q)
  BY <1>1
<1>3. ~(j <= i)
  BY <1>2, Multiples
<1>4. i + 1 <= j /\ i + 1 \in Nat
  BY <1>3
<1> QED
  BY <1>4, Multiples

(* What a remainder is.                                                       *)
LEMMA Dividing ==
    ASSUME NEW q \in Nat \ {0}, NEW n \in Nat
    PROVE  /\ n \div q \in Nat /\ n % q \in 0 .. q - 1 /\ n = (n \div q) * q + (n % q)
  BY Z3

(* A remainder is determined by its size.                                     *)
LEMMA Remainder ==
    ASSUME NEW q \in Nat \ {0}, NEW j \in Nat, NEW r \in 0 .. q - 1
    PROVE  (j * q + r) % q = r
<1> DEFINE n == j * q + r
           d == n \div q
           m == n % q
<1>0. j * q \in Nat /\ r \in Nat
  BY Multiples
<1>1. n \in Nat
  BY <1>0
<1>2. d \in Nat /\ m \in 0 .. q - 1 /\ n = d * q + m
  BY <1>1, Dividing, Zenon
<1> HIDE DEF d, m
<1>3. d * q \in Nat /\ (d + 1) * q = d * q + q /\ (j + 1) * q = j * q + q
  BY <1>2, Multiples
<1> DEFINE a == d * q
           b == j * q
<1>4. a \in Nat /\ b \in Nat /\ b + r = a + m
  BY <1>0, <1>2, <1>3
<1>5. (a < b => a + q <= b) /\ (b < a => b + q <= a)
  BY <1>2, <1>3, NoneBetween
<1> HIDE DEF a, b, n
<1>6. r = m
  BY <1>2, <1>4, <1>5
<1> QED
  BY <1>6 DEF m, n

(* The kernel's guard pages are a stride apart.                               *)
LEMMA KernelGuardIs ==
    ASSUME LayoutAssumption, TypeOK, NEW a \in KernelSlots
    PROVE  \E j \in Nat : /\ a = (KernelBase + j * KernelStride) * PAGE_SIZE /\ a < nextSlot
                          /\ PageOf(a) = KernelBase + j * KernelStride /\ a \in Nat
<1> DEFINE B == KERNEL_STACK_BASE
           q == STRIDE
           n == a - B
<1>0. B \in Nat /\ q \in Nat \ {0} /\ PAGE_SIZE \in Nat \ {0}
  <2>1. THREAD_STACK_SIZE \in Nat /\ B \in Nat /\ PAGE_SIZE \in Nat \ {0}
    BY DEF LayoutAssumption
  <2> QED
    BY <2>1 DEF STRIDE, GUARD_SIZE
<1>1. a \in Nat /\ B <= a /\ a < nextSlot /\ n % q = 0 /\ n \in Nat
  BY <1>0 DEF KernelSlots, TypeOK
<1> DEFINE j == n \div q
<1>2. j \in Nat /\ n = j * q
  <2>1. n \div q \in Nat /\ n = (n \div q) * q + (n % q)
    BY <1>0, <1>1, Dividing, Zenon
  <2>2. (n \div q) * q \in Nat
    BY <1>0, <2>1, Multiples
  <2> QED
    BY <1>1, <2>1, <2>2
<1> HIDE DEF j, n, q
<1>3. a = B + j * q
  <2>1. j * q \in Nat
    BY <1>0, <1>2, Multiples
  <2> QED
    BY <1>0, <1>1, <1>2, <2>1 DEF n
<1>4. j * q = (j * KernelStride) * PAGE_SIZE
  <2>1. q = KernelStride * PAGE_SIZE /\ KernelStride \in Nat
    BY Numbers DEF q
  <2>2. \A x, y, z \in Nat : x * (y * z) = (x * y) * z
    BY Z3
  <2> QED
    BY <1>0, <1>2, <2>1, <2>2
<1> DEFINE k == j * KernelStride
           g == KernelBase + k
<1>5. k \in Nat /\ KernelBase \in Nat /\ B = KernelBase * PAGE_SIZE
  BY <1>2, Numbers, Strides
<1> HIDE DEF k
<1>6. g \in Nat /\ g * PAGE_SIZE = KernelBase * PAGE_SIZE + k * PAGE_SIZE
  BY <1>5, AddPages
<1>7. a = g * PAGE_SIZE
  BY <1>3, <1>4, <1>5, <1>6 DEF k
<1> HIDE DEF g
<1>8. PageOf(a) = g
  <2>1. g * PAGE_SIZE <= a /\ a < g * PAGE_SIZE + PAGE_SIZE
    BY <1>0, <1>1, <1>7
  <2> QED
    BY <1>1, <1>6, <2>1, PageIs
<1> QED
  BY <1>1, <1>2, <1>7, <1>8 DEF g, k

(* And no kernel stack reaches into one.                                      *)
LEMMA KernelGuardIsFree ==
    ASSUME LayoutAssumption, NEW j \in Nat
    PROVE  ~InKernelStack(KernelBase + j * KernelStride)
<1> SUFFICES ASSUME NEW i \in Nat, KernelBase + i * KernelStride < KernelBase + j * KernelStride,
                    KernelBase + j * KernelStride < KernelBase + (i + 1) * KernelStride
             PROVE  FALSE
  BY DEF InKernelStack
<1> DEFINE a == i * KernelStride
           b == j * KernelStride
           d == (i + 1) * KernelStride
<1>1. a \in Nat /\ b \in Nat /\ d \in Nat /\ KernelBase \in Nat /\ KernelStride \in Nat \ {0}
  BY Numbers, Strides
<1>2. a < b => d <= b
  BY <1>1, NoneBetween
<1> HIDE DEF a, b, d
<1>3. KernelBase + a < KernelBase + b /\ KernelBase + b < KernelBase + d
  BY DEF a, b, d
<1> QED
  BY <1>1, <1>2, <1>3

(* The same for the guard below a user stack.                                 *)
LEMMA UserGuardIsFree ==
    ASSUME LayoutAssumption, NEW j \in Nat
    PROVE  ~InUserStack(UserTop - j * UserStride)
<1> SUFFICES ASSUME NEW i \in Nat, UserTop - (i + 1) * UserStride < UserTop - j * UserStride,
                    UserTop - j * UserStride < UserTop - i * UserStride
             PROVE  FALSE
  BY DEF InUserStack
<1> DEFINE a == i * UserStride
           b == j * UserStride
           d == (i + 1) * UserStride
<1>1. a \in Nat /\ b \in Nat /\ d \in Nat /\ UserTop \in Nat /\ UserStride \in Nat \ {0}
  BY Numbers, Strides
<1>2. a < b => d <= b
  BY <1>1, NoneBetween
<1> HIDE DEF a, b, d
<1>3. UserTop - d < UserTop - b /\ UserTop - b < UserTop - a
  BY DEF a, b, d
<1> QED
  BY <1>1, <1>2, <1>3

(* The guard below a user stack that was handed out.                          *)
LEMMA UserGuardIs ==
    ASSUME LayoutAssumption, StacksInv, NEW floor \in Nat, floor * PAGE_SIZE <= nextStackTop, NEW a \in UserTops
    PROVE  \E j \in Nat : /\ PageOf(a - HK_USER_STACK_SIZE) - 1 = UserTop - j * UserStride
                          /\ floor <= UserTop - j * UserStride /\ UserTop - j * UserStride < UserTop
<1> DEFINE T == HK_USER_STACK_TOP
           q == STACK_STRIDE
           n == T - a
           i == n \div q
<1>0. /\ UserTop \in Nat /\ UserStride \in Nat \ {0} /\ T = UserTop * PAGE_SIZE /\ q = UserStride * PAGE_SIZE
      /\ HK_USER_STACK_SIZE = (UserStride - 1) * PAGE_SIZE /\ PAGE_SIZE \in Nat \ {0}
  BY Numbers
<1>1. PICK k \in Nat : nextStackTop = (UserTop - k * UserStride) * PAGE_SIZE
  BY DEF StacksInv
<1>a. k * UserStride \in Nat
  BY Strides
<1>b. nextStackTop \in Int /\ T \in Nat /\ q \in Nat \ {0}
  <2>1. UserTop - k * UserStride \in Int
    BY <1>0, <1>a
  <2>2. \A x, y \in Nat \ {0} : x * y \in Nat \ {0}
    BY Z3
  <2>3. q \in Nat \ {0}
    BY <1>0, <2>2
  <2> QED
    BY <1>0, <1>1, <2>1, <2>3, MorePages
<1>2. a \in Int /\ nextStackTop < a /\ a <= T /\ n % q = 0 /\ n \in Nat
  BY <1>b DEF UserTops
<1>3. i \in Nat /\ n = i * q
  <2>1. n \div q \in Nat /\ n = (n \div q) * q + (n % q)
    BY <1>b, <1>2, Dividing, Zenon
  <2>2. (n \div q) * q \in Nat
    BY <1>b, <2>1, Multiples
  <2> QED
    BY <1>2, <2>1, <2>2
<1> HIDE DEF i, n, q
<1> DEFINE u == i * UserStride
           v == k * UserStride
           w == (i + 1) * UserStride
<1>4. u \in Nat /\ v \in Nat /\ w = u + UserStride /\ w \in Nat
  BY <1>3, Strides
<1>5. i * q = u * PAGE_SIZE
  <2>1. \A x, y, z \in Nat : x * (y * z) = (x * y) * z
    BY Z3
  <2> QED
    BY <1>0, <1>3, <2>1
<1> HIDE DEF u, v, w
<1>6. a = (UserTop - u) * PAGE_SIZE
  <2>1. (UserTop - u) * PAGE_SIZE = UserTop * PAGE_SIZE - u * PAGE_SIZE /\ u * PAGE_SIZE \in Nat
    BY <1>0, <1>4, Z3
  <2> QED
    BY <1>0, <1>b, <1>2, <1>3, <1>5, <2>1 DEF n
<1>7. u < v
  <2> SUFFICES ASSUME v <= u PROVE FALSE
    BY <1>4
  <2> DEFINE x == UserTop - u
             y == UserTop - v
  <2>1. x \in Int /\ y \in Int /\ x <= y
    BY <1>0, <1>4
  <2> HIDE DEF x, y
  <2>2. x * PAGE_SIZE <= y * PAGE_SIZE
    BY <2>1, MorePages
  <2>3. nextStackTop = y * PAGE_SIZE /\ a = x * PAGE_SIZE
    BY <1>1, <1>6 DEF x, y, v
  <2> QED
    BY <1>b, <1>2, <2>2, <2>3
<1>8. w <= v
  BY <1>0, <1>3, <1>7, NoneBetween DEF u, v, w
<1> DEFINE g == UserTop - w
<1>9. floor <= g /\ g < UserTop /\ g \in Nat
  <2> DEFINE y == UserTop - v
  <2>1. y \in Int /\ y <= g /\ g < UserTop /\ g \in Int
    BY <1>0, <1>4, <1>8
  <2> HIDE DEF y, g
  <2>2. floor <= y
    <3> SUFFICES ASSUME y < floor PROVE FALSE
      BY <2>1
    <3>1. y + 1 <= floor /\ y + 1 \in Int /\ floor \in Int
      BY <2>1
    <3>2. (y + 1) * PAGE_SIZE <= floor * PAGE_SIZE /\ (y + 1) * PAGE_SIZE = y * PAGE_SIZE + PAGE_SIZE
      BY <2>1, <3>1, MorePages, Zenon
    <3>3. nextStackTop = y * PAGE_SIZE
      BY <1>1 DEF y, v
    <3>4. floor * PAGE_SIZE \in Int
      BY <3>1, MorePages
    <3> QED
      BY <1>0, <1>b, <3>2, <3>3, <3>4
  <2> QED
    BY <2>1, <2>2
<1> DEFINE h == g + 1
<1>10. a - HK_USER_STACK_SIZE = h * PAGE_SIZE
  <2> DEFINE x == UserTop - u
             s == UserStride - 1
  <2>1. x \in Nat /\ s \in Nat /\ h = x - s
    BY <1>0, <1>4, <1>9
  <2> HIDE DEF x, s, h
  <2>2. (x - s) * PAGE_SIZE = x * PAGE_SIZE - s * PAGE_SIZE
    BY <1>0, <2>1, Z3
  <2>3. a = x * PAGE_SIZE /\ HK_USER_STACK_SIZE = s * PAGE_SIZE
    BY <1>0, <1>6 DEF x, s
  <2> QED
    BY <2>1, <2>2, <2>3
<1> HIDE DEF g
<1>11. h \in Nat /\ h * PAGE_SIZE \in Nat
  BY <1>9, MorePages
<1> HIDE DEF h
<1>12. PageOf(h * PAGE_SIZE) = h
  <2>1. h * PAGE_SIZE <= h * PAGE_SIZE /\ h * PAGE_SIZE < h * PAGE_SIZE + PAGE_SIZE
    BY <1>0, <1>11
  <2> QED
    BY <1>11, <2>1, PageIs
<1>13. PageOf(a - HK_USER_STACK_SIZE) - 1 = g
  BY <1>9, <1>10, <1>12 DEF h
<1>14. i + 1 \in Nat
  BY <1>3
<1> QED
  BY <1>9, <1>13, <1>14 DEF g, w

(* IsGuardPage knows the kernel's guard pages.                                *)
LEMMA GuardPageIs ==
    ASSUME LayoutAssumption, TypeOK, StacksInv, NEW a \in Nat
    PROVE  IsGuardPage(a) <=> PageOf(a) \in KernelGuards
<1> DEFINE B == KERNEL_STACK_BASE
           q == STRIDE
<1>0. /\ KernelBase \in Nat /\ KernelStride \in Nat \ {0} /\ B = KernelBase * PAGE_SIZE /\ PAGE_SIZE \in Nat \ {0}
      /\ q = KernelStride * PAGE_SIZE /\ B \in Nat /\ nextSlot \in Nat
  <2>1. B \in Nat /\ nextSlot \in Nat
    BY DEF LayoutAssumption, TypeOK
  <2> QED
    BY <2>1, Numbers, ZenonT(60)
<1>a. q \in Nat \ {0} /\ PAGE_SIZE <= q
  <2>1. THREAD_STACK_SIZE \in Nat
    BY DEF LayoutAssumption
  <2> QED
    BY <1>0, <2>1 DEF STRIDE, GUARD_SIZE
<1>1. ASSUME IsGuardPage(a) PROVE PageOf(a) \in KernelGuards
  <2> DEFINE n == a - B
             d == n \div q
             r == n % q
             s == B + d * q
  <2>1. B <= a /\ a < nextSlot /\ r < PAGE_SIZE /\ n \in Nat
    BY <1>0, <1>1 DEF IsGuardPage, GUARD_SIZE
  <2>2. d \in Nat /\ r \in 0 .. q - 1 /\ n = d * q + r
    BY <1>a, <2>1, Dividing, Zenon
  <2> HIDE DEF d, r, q
  <2>3. d * q \in Nat
    BY <1>a, <2>2, Multiples
  <2> DEFINE e == d * q
  <2>4. e \in Nat /\ n = e + r /\ r \in Nat
    BY <1>a, <2>2, <2>3
  <2> HIDE DEF e
  <2>5. s \in B .. nextSlot - 1 /\ s <= a /\ a < s + PAGE_SIZE /\ s - B = e /\ s \in Nat
    BY <1>0, <2>1, <2>4 DEF e
  <2>6. e % q = 0
    <3>1. 0 \in 0 .. q - 1 /\ e + 0 = e
      BY <1>a, <2>4
    <3>2. (d * q + 0) % q = 0
      BY <1>a, <2>2, <3>1, Remainder
    <3> QED
      BY <3>1, <3>2 DEF e
  <2> HIDE DEF s
  <2>7. s \in KernelSlots
    BY <2>5, <2>6 DEF KernelSlots, q
  <2>8. PICK j \in Nat : /\ s = (KernelBase + j * KernelStride) * PAGE_SIZE
                         /\ PageOf(s) = KernelBase + j * KernelStride
    BY <2>7, KernelGuardIs
  <2> DEFINE p == PageOf(s)
  <2>9. p \in Nat /\ s = p * PAGE_SIZE
    BY <2>5, <2>8, PageOfIs
  <2> HIDE DEF p
  <2>10. PageOf(a) = p
    BY <2>5, <2>9, PageIs
  <2> QED
    BY <2>7, <2>10 DEF KernelGuards, p
<1>2. ASSUME PageOf(a) \in KernelGuards PROVE IsGuardPage(a)
  <2>1. PICK s \in KernelSlots : PageOf(a) = PageOf(s)
    BY <1>2 DEF KernelGuards
  <2>2. PICK j \in Nat : /\ s = (KernelBase + j * KernelStride) * PAGE_SIZE /\ s < nextSlot
                         /\ PageOf(s) = KernelBase + j * KernelStride /\ s \in Nat
    BY <2>1, KernelGuardIs
  <2> DEFINE k == j * KernelStride
             p == KernelBase + k
  <2>3. k \in Nat /\ p \in Nat
    BY <1>0, <2>2, Strides
  <2>4. p * PAGE_SIZE = B + k * PAGE_SIZE /\ k * PAGE_SIZE \in Nat
    BY <1>0, <2>3, AddPages
  <2>5. k * PAGE_SIZE = j * q
    <3>1. \A x, y, z \in Nat : x * (y * z) = (x * y) * z
      BY Z3
    <3> QED
      BY <1>0, <2>2, <3>1
  <2>6. s = p * PAGE_SIZE /\ PageOf(a) = p
    BY <2>1, <2>2
  <2> HIDE DEF k, p, q
  <2>7. s <= a /\ a < s + PAGE_SIZE
    BY <2>6, PageOfIs
  <2>8. s + PAGE_SIZE <= nextSlot
    <3>1. PICK i \in Nat : nextSlot = (KernelBase + i * KernelStride) * PAGE_SIZE
      BY DEF StacksInv
    <3> DEFINE m == KernelBase + i * KernelStride
    <3>2. i * KernelStride \in Nat
      BY Strides
    <3>3. m \in Nat
      BY <1>0, <3>2
    <3> HIDE DEF m
    <3>4. nextSlot = m * PAGE_SIZE
      BY <3>1 DEF m
    <3>5. p < m
      <4> SUFFICES ASSUME m <= p PROVE FALSE
        BY <2>3, <3>3
      <4>1. m * PAGE_SIZE <= p * PAGE_SIZE
        BY <2>3, <3>3, MorePages
      <4> QED
        BY <1>0, <2>2, <2>6, <3>4, <4>1
    <3>6. p + 1 <= m /\ p + 1 \in Nat
      BY <2>3, <3>3, <3>5
    <3>7. (p + 1) * PAGE_SIZE <= m * PAGE_SIZE /\ (p + 1) * PAGE_SIZE = p * PAGE_SIZE + PAGE_SIZE
      BY <2>3, <3>3, <3>6, MorePages
    <3> QED
      BY <2>6, <3>4, <3>7
  <2> DEFINE r == a - s
             e == j * q
  <2>9. r \in 0 .. q - 1 /\ r < PAGE_SIZE /\ r \in Nat
    BY <1>0, <1>a, <2>2, <2>7
  <2>10. a - B = e + r /\ B <= a /\ a < nextSlot
    BY <1>0, <2>2, <2>4, <2>5, <2>6, <2>7, <2>8
  <2> HIDE DEF r
  <2>11. (e + r) % q = r
    BY <1>a, <2>2, <2>9, Remainder
  <2> QED
    BY <2>9, <2>10, <2>11 DEF IsGuardPage, GUARD_SIZE, q
<1> QED
  BY <1>1, <1>2

(* While there is room for stacks, no guard page is mapped, and IsGuardPage   *)
(* tells exactly the kernel's.                                                *)
THEOREM GuardsAreUnmapped ==
    ASSUME LayoutAssumption, WordsAssumption, NEW floor, NEW ceiling, RoomAssumption(floor, ceiling)
    PROVE  Spec => [](HasRoom(floor, ceiling) => GuardsUnmapped)
<1>0. floor \in Nat /\ PageOf(HK_USER_MIN) <= floor /\ SegmentsBelow(floor)
  BY Zenon DEF RoomAssumption, SegmentsBelow
<1>1. Init => SpaceInv(floor, floor)
  BY SpaceInitially
<1>2. SpaceInv(floor, floor) /\ [Next]_vars => SpaceInv(floor, floor)'
  BY <1>0, SpaceKept
<1>3. SpaceInv(floor, floor) => (HasRoom(floor, ceiling) => GuardsUnmapped)
  <2> SUFFICES ASSUME SpaceInv(floor, floor), HasRoom(floor, ceiling)
               PROVE  GuardsUnmapped
    OBVIOUS
  <2>0. TypeOK /\ StacksInv /\ SidesInv(floor, floor)
    BY DEF SpaceInv, HasRoom, StackRoom
  <2>1. /\ floor \in Nat /\ PageOf(WORD) \in Nat /\ ceiling \in 0 .. PageOf(WORD) /\ UserTop \in Nat /\ KernelBase \in Nat
        /\ UserTop <= PageOf(HK_USER_MAX) /\ PageOf(HK_USER_MAX) \in Nat /\ PageOf(HK_USER_MAX) <= KernelBase
        /\ KernelBase <= PageOf(WORD) /\ PAGE_SIZE \in Nat \ {0} /\ nextSlot \in Nat
    <3>1. nextSlot \in Nat
      BY <2>0 DEF TypeOK
    <3> QED
      BY <3>1, Landmarks, Numbers, Zenon DEF RoomAssumption, KernelBase
  <2>2. ASSUME NEW p \in Pages, space[p].present, SpanOf(p) = {}
        PROVE  UserSide(p, floor) \/ KernelSide(p)
    <3>1. space[p].user \in BOOLEAN
      <4>1. space[p] \in Granted
        BY <2>0, <2>2 DEF TypeOK, Unmapped
      <4> QED
        BY <4>1, Zenon DEF Granted
    <3>2. p \in Own
      <4>1. KernelSpace[p] = Unmapped
        BY <2>2, WinnerIs, Zenon
      <4>2. ~Unmapped.present
        BY DEF Unmapped
      <4> QED
        BY <2>2, <4>1, <4>2, Zenon DEF Own
    <3>3. CASE space[p].user = TRUE
      BY <2>0, <2>2, <3>3, Zenon DEF SidesInv
    <3>4. CASE space[p].user = FALSE
      BY <2>0, <3>2, <3>4, Zenon DEF SidesInv
    <3> QED
      BY <3>1, <3>3, <3>4, Zenon
  <2>3. ASSUME NEW p \in KernelGuards PROVE ~space[p].present
    <3>1. PICK a \in KernelSlots : p = PageOf(a)
      BY <2>3 DEF KernelGuards
    <3>2. PICK j \in Nat : /\ a = (KernelBase + j * KernelStride) * PAGE_SIZE /\ a < nextSlot
                           /\ PageOf(a) = KernelBase + j * KernelStride
      BY <2>0, <3>1, KernelGuardIs
    <3>3. ~InKernelStack(p)
      BY <3>1, <3>2, KernelGuardIsFree
    <3>4. p \in Nat /\ KernelBase <= p /\ a = p * PAGE_SIZE
      <4>1. j * KernelStride \in Nat
        BY Strides
      <4> QED
        BY <2>1, <3>1, <3>2, <4>1
    <3>5. p < ceiling
      <4> SUFFICES ASSUME ceiling <= p PROVE FALSE
        BY <2>1, <3>4
      <4>1. ceiling * PAGE_SIZE <= p * PAGE_SIZE /\ ceiling * PAGE_SIZE \in Int /\ p * PAGE_SIZE \in Int
        BY <2>1, <3>4, MorePages
      <4>2. nextSlot <= ceiling * PAGE_SIZE
        BY DEF HasRoom
      <4> QED
        BY <2>1, <3>2, <3>4, <4>1, <4>2
    <3>6. p \in Pages
      BY <2>1, <3>4, <3>5 DEF Pages
    <3>7. SpanOf(p) = {}
      BY <3>4, <3>5, <3>6 DEF RoomAssumption, KernelBase
    <3>8. ~UserSide(p, floor)
      BY <2>1, <3>4 DEF UserSide
    <3> QED
      BY <2>2, <3>3, <3>6, <3>7, <3>8 DEF KernelSide
  <2>4. ASSUME NEW p \in UserGuards PROVE ~space[p].present
    <3>1. PICK a \in UserTops : p = PageOf(a - HK_USER_STACK_SIZE) - 1
      BY <2>4 DEF UserGuards
    <3>2. PICK j \in Nat : /\ PageOf(a - HK_USER_STACK_SIZE) - 1 = UserTop - j * UserStride
                           /\ floor <= UserTop - j * UserStride /\ UserTop - j * UserStride < UserTop
      BY <2>0, <2>1, <3>1, UserGuardIs DEF HasRoom
    <3>3. ~InUserStack(p)
      BY <3>1, <3>2, UserGuardIsFree
    <3>4. p \in Int /\ floor <= p /\ p < UserTop
      <4>1. j * UserStride \in Nat
        BY Strides
      <4> QED
        BY <2>1, <3>1, <3>2, <4>1
    <3>5. p \in Pages
      BY <2>1, <3>4 DEF Pages
    <3>6. SpanOf(p) = {}
      BY <3>4, <3>5 DEF RoomAssumption, UserTop
    <3>7. ~KernelSide(p)
      BY <2>1, <3>4 DEF KernelSide
    <3>8. ~UserSide(p, floor)
      BY <2>1, <3>3, <3>4 DEF UserSide
    <3> QED
      BY <2>2, <3>5, <3>6, <3>7, <3>8, ZenonT(60)
  <2>5. \A a \in 0 .. WORD - 1 : IsGuardPage(a) <=> PageOf(a) \in KernelGuards
    <3>1. \A a \in 0 .. WORD - 1 : a \in Nat
      BY DEF LayoutAssumption
    <3> QED
      BY <2>0, <3>1, GuardPageIs, ZenonT(60)
  <2> QED
    BY <2>3, <2>4, <2>5, Zenon DEF GuardsUnmapped
<1> QED
  BY <1>1, <1>2, <1>3, PTL DEF Spec
=============================================================================
