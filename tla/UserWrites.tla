----------------------------- MODULE UserWrites -----------------------------
(***************************************************************************)
(* Ring 3 programs printing through the C library (hk_write_all, ABI/C/    *)
(* HK.c) and the Write system call (Arch/Syscall.cpp) into the shared user *)
(* window, while another core prints into the debug window beside it       *)
(* without any lock.  A buffer is a sequence of characters, of which only  *)
(* a prefix may be readable from ring 3.                                   *)
(***************************************************************************)
EXTENDS TextWindow, FiniteSets

CONSTANTS
    Tasks,          \* ring 3 tasks
    Buffers,        \* [text, readable, handle] a task may hand to hk_write_all
    HK_WRITE_MAX,   \* most characters one Write prints
    USER, DEBUG,    \* the windows
    DebugText       \* what the other core prints

VARIABLES
    screen,         \* TEXT_BUFFER
    cursor,         \* of each window
    library,        \* each task's run of hk_write_all: buffer, written, result, place
    call,           \* each task's Write in progress: start, next and left characters
    holder,         \* who has the Guard, or NoTask
    printed,        \* history: what reached the user window, and from which call
    debugged        \* how much of DebugText has been printed

vars == <<screen, cursor, library, call, holder, printed, debugged>>

NULL == "null"
HK_STDOUT == 1
EBADF == -5
EFAULT == -4
NoTask == "none"
Firmware == "firmware"      \* left on the screen by what ran before the kernel

Init ==
    /\ screen = Reset(Reset([o \in 0 .. ROWS * COLUMNS - 1 |-> Firmware], USER), DEBUG)
    /\ cursor = [user |-> [column |-> 0, row |-> 0], debug |-> [column |-> 0, row |-> 0]]
    /\ library \in [Tasks -> {[buffer |-> b, written |-> 0, result |-> 0, at |-> "loop"] : b \in Buffers}]
    /\ call = [t \in Tasks |-> [start |-> 0, next |-> 1, left |-> 0]]
    /\ holder = NoTask
    /\ printed = <<>>
    /\ debugged = 0

At(t, where) == library[t].at = where
Goto(t, where) == library' = [library EXCEPT ![t].at = where]

Remaining(t) == Len(library[t].buffer.text) - library[t].written

\* hk_write_all has the whole buffer out, or its last step wrote nothing.
Return(t) ==
    /\ At(t, "loop") /\ Remaining(t) = 0
    /\ library' = [library EXCEPT ![t].result = library[t].written, ![t].at = "done"]
    /\ UNCHANGED <<screen, cursor, call, holder, printed, debugged>>

\* What one Write looks at.
Length(t) == IF Remaining(t) < HK_WRITE_MAX THEN Remaining(t) ELSE HK_WRITE_MAX

CopyIn(t) == library[t].written + Length(t) <= library[t].buffer.readable

Refused(t, error) ==
    /\ library' = [library EXCEPT ![t].result = error, ![t].at = "done"]
    /\ UNCHANGED <<screen, cursor, call, holder, printed, debugged>>

\* Write refuses the handle, and hk_write_all hands the error on.
BadHandle(t) ==
    At(t, "loop") /\ Remaining(t) > 0 /\ library[t].buffer.handle # HK_STDOUT /\ Refused(t, EBADF)

\* Write refuses the buffer.
BadBuffer(t) ==
    /\ At(t, "loop") /\ Remaining(t) > 0 /\ library[t].buffer.handle = HK_STDOUT
    /\ ~CopyIn(t) /\ Refused(t, EFAULT)

UpToEnd(text) == Len(text)       \* mutant: counts past a null byte

\* How many characters of the copied text come before a null byte.
UpToNull(text) ==
    IF NULL \in Range(text) THEN SelectInSeq(text, LAMBDA c : c = NULL) - 1 ELSE Len(text)

\* Write has copied the buffer in and counted what it is going to print.
Write(t) ==
    LET from == library[t].written IN
    /\ At(t, "loop") /\ Remaining(t) > 0 /\ library[t].buffer.handle = HK_STDOUT /\ CopyIn(t)
    /\ call' = [call EXCEPT ![t] =
                   [start |-> from, next |-> from + 1,
                    left |-> UpToNull(SubSeq(library[t].buffer.text, from + 1, from + Length(t)))]]
    /\ Goto(t, "enter")
    /\ UNCHANGED <<screen, cursor, holder, printed, debugged>>

GuardFree == holder = NoTask

Enter(t) ==
    /\ At(t, "enter") /\ GuardFree
    /\ holder' = t /\ Goto(t, "print")
    /\ UNCHANGED <<screen, cursor, call, printed, debugged>>

\* One character of Print; the loop also stops at a null byte.
PrintCharacter(t) ==
    LET character == library[t].buffer.text[call[t].next]
        after == Printed(screen, USER, cursor.user, character)
    IN  /\ At(t, "print") /\ call[t].left > 0 /\ character # NULL
        /\ screen' = after.screen /\ cursor' = [cursor EXCEPT !.user = after.at]
        /\ printed' = Append(printed, [task |-> t, start |-> call[t].start, character |-> character])
        /\ call' = [call EXCEPT ![t].next = @ + 1, ![t].left = @ - 1]
        /\ UNCHANGED <<library, holder, debugged>>

Breaks(step) == step = 0

\* Write leaves the Guard and returns the count; hk_write_all takes it.
PrintEnds(t) ==
    LET step == call[t].next + call[t].left - library[t].written - 1 IN
    /\ At(t, "print")
    /\ call[t].left > 0 => library[t].buffer.text[call[t].next] = NULL
    /\ holder' = NoTask
    /\ library' = [library EXCEPT ![t].written = @ + step,
                                  ![t].result = IF Breaks(step) THEN library[t].written ELSE @,
                                  ![t].at = IF Breaks(step) THEN "done" ELSE "loop"]
    /\ UNCHANGED <<screen, cursor, call, printed, debugged>>

\* Another core prints the next character into its own window.
Debug ==
    LET after == Printed(screen, DEBUG, cursor.debug, DebugText[debugged + 1]) IN
    /\ debugged < Len(DebugText)
    /\ screen' = after.screen /\ cursor' = [cursor EXCEPT !.debug = after.at]
    /\ debugged' = debugged + 1
    /\ UNCHANGED <<library, call, holder, printed>>

Task(t) ==
    \/ Return(t) \/ BadHandle(t) \/ BadBuffer(t) \/ Write(t) \/ Enter(t) \/ PrintCharacter(t) \/ PrintEnds(t)

Next == Debug \/ \E t \in Tasks : Task(t)

Spec == Init /\ [][Next]_vars

-----------------------------------------------------------------------------
Of(t) == SelectSeq(printed, LAMBDA p : p.task = t)

\* What hk_write_all returns is what it printed: the characters a task got out
\* are a prefix of its buffer without gap or repetition, and a count returned
\* is the length of exactly that prefix, however the Writes were cut.
ResultTrue ==
    \A t \in Tasks :
        /\ \A n \in 1 .. Len(Of(t)) : Of(t)[n].character = library[t].buffer.text[n]
        /\ At(t, "done") /\ library[t].result >= 0 => Len(Of(t)) = library[t].result

Shows(w, stream) ==
    \A c \in Cells(w) : Get(screen, w, c[1], c[2]) = Expected(w, stream, c[1], c[2])

\* After every character, each window shows the last lines of everything ever
\* printed to it, wrapped at its own width, and nothing of its neighbour's,
\* although the two are drawn by different cores without a common lock.
WindowsShowTheirTails ==
    /\ Shows(USER, [n \in 1 .. Len(printed) |-> printed[n].character])
    /\ Shows(DEBUG, SubSeq(DebugText, 1, debugged))
=============================================================================
