--------------------------- MODULE EpilogueLevel ---------------------------
(***************************************************************************)
(* What the Guard promises to its users (the comments of Interrupt/Guard.h *)
(* and Guard.cpp:13-18): one owner at a time, served in the order of       *)
(* asking, and per core a first-in first-out queue of epilogues that only  *)
(* that core takes from, and only while it does not hold the level.        *)
(***************************************************************************)
EXTENDS Sequences

CONSTANTS Cores, Epilogues

VARIABLES
    line,      \* the cores that have asked for the level, oldest first
    admitted,  \* whether the oldest one is inside
    pending    \* per core: the epilogues its prologues have relayed

vars == <<line, admitted, pending>>

Asking == {line[i] : i \in DOMAIN line}

Init ==
    /\ line = << >>
    /\ admitted = FALSE
    /\ pending = [c \in Cores |-> << >>]

Ask(c) ==
    /\ c \notin Asking
    /\ line' = Append(line, c)
    /\ UNCHANGED <<admitted, pending>>

Admit ==
    /\ line # << >>
    /\ ~admitted
    /\ admitted' = TRUE
    /\ UNCHANGED <<line, pending>>

Release ==
    /\ admitted
    /\ admitted' = FALSE
    /\ line' = Tail(line)
    /\ UNCHANGED pending

Post(c, e) ==
    /\ pending' = [pending EXCEPT ![c] = Append(@, e)]
    /\ UNCHANGED <<line, admitted>>

Take(c) ==
    /\ c \notin Asking
    /\ pending[c] # << >>
    /\ pending' = [pending EXCEPT ![c] = Tail(@)]
    /\ UNCHANGED <<line, admitted>>

Next ==
    \/ Admit
    \/ Release
    \/ \E c \in Cores :
          \/ Ask(c)
          \/ Take(c)
          \/ \E e \in Epilogues : Post(c, e)

Spec == Init /\ [][Next]_vars
=============================================================================
