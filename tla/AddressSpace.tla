---------------------------- MODULE AddressSpace ----------------------------
(* What Paging promises: a flat map from pages to what the processor grants   *)
(* there.  A request fills its pages one by one, from the first, each in a    *)
(* single step that no other page notices, and may stop short; nothing is     *)
(* ever taken out of the map.                                                 *)
EXTENDS Integers

CONSTANTS Pages, Requests

VARIABLES space, request
vars == <<space, request>>

Unmapped == [present |-> FALSE]
NoRequest == [busy |-> FALSE]

\* What a request grants on one of its pages.
Grant(r, page) ==
    [present |-> TRUE, frame |-> r.physical + (page - r.first), writable |-> r.access = "RW",
     execute |-> r.access = "RX", user |-> r.user]

Carrying(r, next) == [busy |-> TRUE, what |-> r, next |-> next]

Init == space = [p \in Pages |-> Unmapped] /\ request = NoRequest

Begin(r) == ~request.busy /\ request' = Carrying(r, r.first) /\ UNCHANGED space

MapNext ==
    /\ request.busy
    /\ LET r == request.what
           page == request.next
       IN  /\ space' = [space EXCEPT ![page] = Grant(r, page)]
           /\ request' = IF page + 1 < r.first + r.count THEN Carrying(r, page + 1) ELSE NoRequest

GiveUp == request.busy /\ request' = NoRequest /\ UNCHANGED space

Next == (\E r \in Requests : Begin(r)) \/ MapNext \/ GiveUp

Spec == Init /\ [][Next]_vars
=============================================================================
