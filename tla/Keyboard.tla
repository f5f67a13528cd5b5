------------------------------- MODULE Keyboard -------------------------------
(* From the keyboard's wire to the decoder: the interrupt prologue's          *)
(* DrainToQueue on any core, the raw queue and its lock, Fetch and SetLed in  *)
(* the keyboard epilogue, and the keyboard that answers the LED commands with *)
(* bytes of the same stream.  Epilogues run one at a time (module Guard).     *)
EXTENDS KeyDecoder

CONSTANTS
    Cores,
    Scripts,    \* sequences of scan codes that may be typed
    SLOTS,      \* slots of s_RawBytes, one of them unused
    BURST,      \* bytes that one DrainToQueue reads at most
    GIVE_UPS    \* times that WaitWritable runs out

VARIABLES
    toType,     \* scan codes that are still to come
    output,     \* bytes that the controller has for us, in order
    input,      \* a byte the keyboard has not taken yet, or none
    expects,    \* the keyboard waits for the parameter of SET_LED
    lights,     \* what its LEDs show
    raw,        \* s_RawBytes
    rawLock,    \* holder of s_RawLock
    prologue,   \* core to what DrainToQueue is doing there
    queued,     \* cores with a keyboard epilogue queued
    epilogue,   \* the running epilogue: core, place and byte
    decoder, leds,
    decoded,    \* scan codes that reached the decoder
    overrun,    \* scan codes that the full queue dropped
    giveUps     \* times that WaitWritable may still run out

device == <<toType, output, input, expects, lights>>
driver == <<raw, rawLock, prologue, queued, epilogue>>
decoding == <<decoder, leds, decoded>>
vars == <<device, driver, decoding, overrun, giveUps>>

SET_LED == 237
ACKNOWLEDGE == 250
RESEND == 254
Replies == {ACKNOWLEDGE, RESEND}
None == -1
Free == "free"

Outside == [at |-> "outside"]
Idle == [at |-> "idle", core |-> Free, byte |-> None]

Init ==
    /\ toType \in Scripts /\ output = <<>> /\ input = None /\ expects = FALSE /\ lights = 0
    /\ raw = <<>> /\ rawLock = Free
    /\ prologue = [c \in Cores |-> Outside]
    /\ queued = {} /\ epilogue = Idle
    /\ decoder = Fresh /\ leds = {}
    /\ decoded = <<>> /\ overrun = 0
    /\ giveUps = GIVE_UPS
-----------------------------------------------------------------------------
\* The keyboard: it sends what is typed, and takes a byte and answers it.
Type ==
    /\ toType # <<>>
    /\ output' = Append(output, Head(toType))
    /\ toType' = Tail(toType)
    /\ UNCHANGED <<input, expects, lights, driver, decoding, overrun, giveUps>>

TakeInput ==
    /\ input # None
    /\ input' = None
    /\ LET parameter == expects /\ input < 8
       IN  /\ expects' = (input = SET_LED)
           /\ lights' = IF parameter THEN input ELSE lights
           /\ output' = Append(output, IF parameter \/ input = SET_LED THEN ACKNOWLEDGE ELSE RESEND)
    /\ UNCHANGED <<toType, driver, decoding, overrun, giveUps>>
-----------------------------------------------------------------------------
\* Interrupts are off in a prologue, and where Fetch holds s_RawLock.
InterruptsOff(c) ==
    \/ prologue[c].at # "outside"
    \/ epilogue.core = c /\ epilogue.at \in {"lock", "consume"}

\* The line is level triggered and stays up while there is output.
Interrupt(c) ==
    /\ output # <<>> /\ ~InterruptsOff(c)
    /\ prologue' = [prologue EXCEPT ![c] = [at |-> "lock"]]
    /\ UNCHANGED <<device, raw, rawLock, queued, epilogue, decoding, overrun, giveUps>>

\* SpinLock::Acquire of s_RawLock comes back.
LockIgnored == TRUE
LockTaken == rawLock = Free

PrologueLock(c) ==
    /\ prologue[c].at = "lock" /\ LockTaken
    /\ rawLock' = c
    /\ prologue' = [prologue EXCEPT ![c] = [at |-> "read", left |-> BURST]]
    /\ UNCHANGED <<device, raw, queued, epilogue, decoding, overrun, giveUps>>

\* Status, then data.
ReadByte(c) ==
    /\ prologue[c].at = "read" /\ prologue[c].left > 0 /\ output # <<>>
    /\ output' = Tail(output)
    /\ prologue' = [prologue EXCEPT ![c] = [at |-> "produce", left |-> prologue[c].left - 1, byte |-> Head(output)]]
    /\ UNCHANGED <<toType, input, expects, lights, raw, rawLock, queued, epilogue, decoding, overrun, giveUps>>

ProduceByte(c) ==
    /\ prologue[c].at = "produce"
    /\ LET full == Len(raw) = SLOTS - 1
           byte == prologue[c].byte
       IN  /\ raw' = IF full THEN raw ELSE Append(raw, byte)
           /\ overrun' = IF full /\ byte \notin Replies THEN overrun + 1 ELSE overrun
    /\ prologue' = [prologue EXCEPT ![c] = [at |-> "read", left |-> prologue[c].left]]
    /\ UNCHANGED <<device, rawLock, queued, epilogue, decoding, giveUps>>

\* The lock is released, the local APIC acknowledged, the epilogue relayed.
PrologueEnd(c) ==
    /\ prologue[c].at = "read" /\ (prologue[c].left = 0 \/ output = <<>>)
    /\ rawLock' = Free
    /\ prologue' = [prologue EXCEPT ![c] = Outside]
    /\ queued' = queued \cup {c}
    /\ UNCHANGED <<device, raw, epilogue, decoding, overrun, giveUps>>
-----------------------------------------------------------------------------
\* The epilogue goes on only where no prologue has interrupted it.
EpilogueAt(where) == epilogue.at = where /\ ~(prologue[epilogue.core].at # "outside")
Goto(where) == epilogue' = [epilogue EXCEPT !.at = where]

EpilogueBegin(c) ==
    /\ c \in queued /\ epilogue = Idle /\ prologue[c].at = "outside"
    /\ queued' = queued \ {c}
    /\ epilogue' = [Idle EXCEPT !.at = "lock", !.core = c]
    /\ UNCHANGED <<device, raw, rawLock, prologue, decoding, overrun, giveUps>>

FetchLock ==
    /\ EpilogueAt("lock") /\ LockTaken
    /\ rawLock' = epilogue.core
    /\ Goto("consume")
    /\ UNCHANGED <<device, raw, prologue, queued, decoding, overrun, giveUps>>

FetchConsume ==
    /\ EpilogueAt("consume")
    /\ rawLock' = Free
    /\ IF raw = <<>>
       THEN epilogue' = Idle /\ UNCHANGED raw
       ELSE /\ epilogue' = [epilogue EXCEPT !.at = "decode", !.byte = Head(raw)]
            /\ raw' = Tail(raw)
    /\ UNCHANGED <<device, prologue, queued, decoding, overrun, giveUps>>

\* The loop of Epilogues::Keyboard: fetch until the raw queue is empty.
FetchNextNot == Idle
FetchNext == [epilogue EXCEPT !.at = "lock"]

IsReply(byte) == byte \in Replies

DecodeByte ==
    /\ EpilogueAt("decode")
    /\ IF IsReply(epilogue.byte)
       THEN Goto("lock") /\ UNCHANGED decoding
       ELSE LET r == Decode(decoder, epilogue.byte)
            IN  /\ decoder' = r.decoder
                /\ decoded' = Append(decoded, epilogue.byte)
                /\ leds' = SetLed(leds, r.leds, r.decoder.mods)
                /\ IF r.leds = {} THEN epilogue' = FetchNext ELSE Goto("command")
    /\ UNCHANGED <<device, raw, rawLock, prologue, queued, overrun, giveUps>>

\* SendData waits for the input buffer, but not forever.
SendData(byte) ==
    \/ input = None /\ input' = byte /\ UNCHANGED giveUps
    \/ input # None /\ giveUps > 0 /\ giveUps' = giveUps - 1 /\ UNCHANGED input

SendCommand ==
    /\ EpilogueAt("command") /\ SendData(SET_LED)
    /\ Goto("parameter")
    /\ UNCHANGED <<toType, output, expects, lights, raw, rawLock, prologue, queued, decoding, overrun>>

SendParameter ==
    /\ EpilogueAt("parameter") /\ SendData(LedByte(leds))
    /\ epilogue' = FetchNext
    /\ UNCHANGED <<toType, output, expects, lights, raw, rawLock, prologue, queued, decoding, overrun>>

Next ==
    \/ Type \/ TakeInput
    \/ \E c \in Cores : \/ Interrupt(c) \/ PrologueLock(c) \/ ReadByte(c) \/ ProduceByte(c) \/ PrologueEnd(c)
                        \/ EpilogueBegin(c)
    \/ FetchLock \/ FetchConsume \/ DecodeByte \/ SendCommand \/ SendParameter

Spec == Init /\ [][Next]_vars
-----------------------------------------------------------------------------
\* The scan codes among some bytes: what is left without the keyboard's replies.
CodesUpTo(bytes) ==
    LET codes[n \in 0 .. Len(bytes)] ==
            IF n = 0 THEN <<>> ELSE IF bytes[n] \in Replies THEN codes[n - 1] ELSE Append(codes[n - 1], bytes[n])
    IN  codes
Codes(bytes) == CodesUpTo(bytes)[Len(bytes)]

\* Bytes on their way, the earliest first.
Taken == IF epilogue.at = "decode" THEN <<epilogue.byte>> ELSE <<>>
Drained ==
    LET held == {c \in Cores : prologue[c].at = "produce"}
    IN  IF held = {} THEN <<>> ELSE <<prologue[CHOOSE c \in held : TRUE].byte>>
InFlight == Codes(Taken \o raw \o Drained \o output)

\* What is typed are scan codes: no byte of set 1 is one of the replies.
ScriptsAssumption == Free \notin Cores /\ Scripts \subseteq Seq((0 .. 255) \ Replies)

(* Unless the raw queue overran, the decoder gets every scan code once and in *)
(* order, whichever cores took the interrupts, and none of the replies.       *)
StreamInOrder == overrun = 0 => decoded \o InFlight \o toType \in Scripts

(* Every byte the keyboard sends reaches the decoder or is counted as overrun: *)
(* no byte is left in the queue without an epilogue to fetch it.              *)
AllDecoded == []<>(output = <<>> /\ raw = <<>> /\ input = None /\ epilogue = Idle)
=============================================================================
