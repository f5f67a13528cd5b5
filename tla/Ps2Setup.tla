------------------------------ MODULE Ps2Setup ------------------------------
(* Ps2Controller::Initialize against an 8042 that may be absent and a         *)
(* keyboard that may be slow, ask for a byte again, or be typed on meanwhile; *)
(* then the I/O APIC pin, IoApic::Initialize, Configure and Allow.            *)
EXTENDS Integers, Sequences

CONSTANTS
    ATTEMPTS,       \* of SendToKeyboard
    DRAIN_LIMIT,    \* reads of DrainBuffer
    MAX_TYPED, MAX_RESENDS, MAX_TIMEOUTS    \* bounds on the environment

\* A command is tried, and a buffer that holds a byte is read.
LimitsAssumption == ATTEMPTS \in Nat /\ DRAIN_LIMIT \in Nat \ {0}

VARIABLES
    bus,        \* "8042", or what an absent one reads as: "ones" or "zeros"
    pc,         \* index of the step of Initialize
    phase,      \* within a step: "write", "read"
    attempt,    \* of SendToKeyboard or DrainBuffer
    input,      \* byte that the controller has not consumed yet, or <<>>
    output,     \* bytes for us to read, oldest first
    config,     \* the configuration byte: the bits set
    port,       \* the keyboard port is enabled
    keyboard,   \* [scanning, leds, rate, expects]
    pin,        \* the redirection entry: [vector, trigger, masked]
    raised,     \* the pin's interrupt is on its way to a core
    typed, resends, timeouts

hardware == <<bus, config, port, keyboard>>
counted == <<typed, resends, timeouts>>
vars == <<pc, phase, attempt, input, output, hardware, pin, raised, counted>>

ACKNOWLEDGE == "ACKNOWLEDGE"
RESEND == "RESEND"
SCAN == "scan_code"

\* The steps of Initialize, SetRepeatRate within it.
Command(c) == [do |-> "command", byte |-> c]
Data(b) == [do |-> "data", byte |-> b]
Keyboard(b) == [do |-> "keyboard", byte |-> b]
Other(what) == [do |-> what, byte |-> "none"]
Quieted == <<Command("DISABLE_KEYBOARD_PORT"), Command("DISABLE_MOUSE_PORT"), Other("drain")>>
Routed == <<Other("configure"), Other("allow")>>
Steps ==
    Quieted
    \o << Command("READ_CONFIGURATION"), Other("read_configuration"),
          Command("WRITE_CONFIGURATION"), Data("configuration"), Command("ENABLE_KEYBOARD_PORT"),
          Keyboard("ENABLE_SCANNING"),
          Keyboard("SET_REPEAT_RATE"), Keyboard("30_cps"),
          Keyboard("SET_LED"), Keyboard("no_leds"), Other("drain") >>
    \o Routed
Done == Len(Steps) + 1

\* The bits that matter of what the firmware may have left.
Bits == {"KEYBOARD_INTERRUPT", "MOUSE_INTERRUPT", "KEYBOARD_CLOCK_OFF"}

Init ==
    /\ bus \in {"8042", "ones", "zeros"}
    /\ pc = 1 /\ phase = "write" /\ attempt = 0
    /\ input = <<>> /\ output \in {<<>>, <<SCAN>>}
    /\ config \in SUBSET Bits /\ port = TRUE
    /\ keyboard \in [scanning : BOOLEAN, leds : {"on"}, rate : {"default"}, expects : {"command"}]
    /\ pin = [vector |-> "PANIC", trigger |-> "EDGE", masked |-> TRUE]      \* IoApic::Initialize
    /\ raised = FALSE
    /\ typed = 0 /\ resends = 0 /\ timeouts = 0

At(what) == pc < Done /\ Steps[pc].do = what
Advance == pc' = pc + 1 /\ phase' = "write" /\ attempt' = 0
-----------------------------------------------------------------------------
\* Status bits; WaitWritable and WaitReadable spin on them, SPIN_LIMIT times.
Writable == IF bus = "8042" THEN input = <<>> ELSE bus = "zeros"
SpinsForever == FALSE
NeverWritable == bus = "ones"
HasOutput == IF bus = "8042" THEN output # <<>> ELSE bus = "ones"
TimesOut == IF bus = "8042" THEN output = <<>> /\ timeouts < MAX_TIMEOUTS ELSE bus = "zeros"
Front == IF bus = "8042" THEN Head(output) ELSE "ones"
Read == output' = IF bus = "8042" THEN Tail(output) ELSE output
CountTimeout == timeouts' = IF bus = "8042" THEN timeouts + 1 ELSE timeouts

\* SendCommand and SendData: written when there is room, else dropped.
Written(b, to) == input' = IF Writable /\ bus = "8042" THEN <<[byte |-> b, to |-> to]>> ELSE input

SendCommand ==
    /\ At("command") \/ At("data")
    /\ Writable \/ NeverWritable
    /\ Written(Steps[pc].byte, "controller")
    /\ Advance
    /\ UNCHANGED <<output, hardware, pin, raised, counted>>

\* ReadData of the configuration; no answer means no controller.
ReadConfiguration ==
    /\ At("read_configuration") /\ HasOutput
    /\ Read
    /\ Advance
    /\ UNCHANGED <<input, hardware, pin, raised, counted>>

NoController ==
    /\ At("read_configuration") /\ TimesOut
    /\ pc' = Done /\ CountTimeout
    /\ UNCHANGED <<phase, attempt, input, output, hardware, pin, raised, typed, resends>>

\* SendToKeyboard: a byte, its reply, again while the keyboard wants it again.
KeyboardWrite ==
    /\ At("keyboard") /\ phase = "write"
    /\ Writable \/ NeverWritable
    /\ Written(Steps[pc].byte, "keyboard")
    /\ phase' = "read"
    /\ UNCHANGED <<pc, attempt, output, hardware, pin, raised, counted>>

MayRetryNever(reply) == FALSE
MayRetry(reply) == reply = RESEND /\ attempt + 1 < ATTEMPTS

KeyboardReply ==
    /\ At("keyboard") /\ phase = "read" /\ HasOutput
    /\ Read
    /\ IF MayRetry(Front)
       THEN attempt' = attempt + 1 /\ phase' = "write" /\ UNCHANGED pc
       ELSE Advance
    /\ UNCHANGED <<input, hardware, pin, raised, counted>>

KeyboardSilent ==
    /\ At("keyboard") /\ phase = "read" /\ TimesOut
    /\ Advance /\ CountTimeout
    /\ UNCHANGED <<input, output, hardware, pin, raised, typed, resends>>

\* DrainBuffer: a bounded number of reads.
Drained == ~HasOutput \/ attempt = DRAIN_LIMIT
DrainByte ==
    /\ At("drain") /\ ~Drained
    /\ Read /\ attempt' = attempt + 1
    /\ UNCHANGED <<pc, phase, input, hardware, pin, raised, counted>>
DrainEnds ==
    /\ At("drain") /\ Drained
    /\ Advance
    /\ UNCHANGED <<input, output, hardware, pin, raised, counted>>

\* IoApic::Configure and Allow, of the keyboard's pin.  The line follows the
\* output buffer; an edge is seen once, a level as long as it lasts.
Line == bus = "8042" /\ output # <<>> /\ "KEYBOARD_INTERRUPT" \in config
TriggerEdge == "EDGE"
Trigger == "LEVEL"
Configure ==
    /\ At("configure")
    /\ pin' = [pin EXCEPT !.vector = "KEYBOARD", !.trigger = Trigger]
    /\ Advance
    /\ UNCHANGED <<input, output, hardware, raised, counted>>
Allow ==
    /\ At("allow")
    /\ pin' = [pin EXCEPT !.masked = FALSE]
    /\ raised' = (pin.trigger = "LEVEL" /\ Line)
    /\ Advance
    /\ UNCHANGED <<input, output, hardware, counted>>
-----------------------------------------------------------------------------
\* The 8042 and the keyboard.  A byte that reaches the buffer raises the line.
Puts(bytes) ==
    /\ output' = output \o bytes
    /\ raised' = (raised \/ (bytes # <<>> /\ "KEYBOARD_INTERRUPT" \in config' /\ ~pin.masked /\ output = <<>>))

ConfigurationWritten == (config \cup {"KEYBOARD_INTERRUPT"}) \ {"KEYBOARD_CLOCK_OFF", "MOUSE_INTERRUPT"}

ControllerConsumes ==
    /\ bus = "8042" /\ input # <<>> /\ input[1].to = "controller"
    /\ input' = <<>>
    /\ port' = CASE input[1].byte = "DISABLE_KEYBOARD_PORT" -> FALSE
                 [] input[1].byte = "ENABLE_KEYBOARD_PORT" -> TRUE
                 [] OTHER -> port
    /\ config' = IF input[1].byte = "configuration" THEN ConfigurationWritten ELSE config
    /\ Puts(IF input[1].byte = "READ_CONFIGURATION" THEN <<"configuration">> ELSE <<>>)
    /\ UNCHANGED <<pc, phase, attempt, bus, keyboard, pin, counted>>

Understood(b) ==
    CASE b = "ENABLE_SCANNING" -> [keyboard EXCEPT !.scanning = TRUE, !.expects = "command"]
      [] b = "SET_LED" -> [keyboard EXCEPT !.expects = "leds"]
      [] b = "SET_REPEAT_RATE" -> [keyboard EXCEPT !.expects = "rate"]
      [] b = "no_leds" -> [keyboard EXCEPT !.leds = "off", !.expects = "command"]
      [] b = "30_cps" -> [keyboard EXCEPT !.rate = b, !.expects = "command"]
Fits(b) == (b = "no_leds" => keyboard.expects = "leds") /\ (b = "30_cps" => keyboard.expects = "rate")

KeyboardConsumes ==
    /\ bus = "8042" /\ input # <<>> /\ input[1].to = "keyboard"
    /\ input' = <<>>
    /\ \/ /\ Fits(input[1].byte)
          /\ keyboard' = Understood(input[1].byte)
          /\ config' = config /\ Puts(<<ACKNOWLEDGE>>) /\ resends' = resends
       \/ /\ ~Fits(input[1].byte) \/ resends < MAX_RESENDS
          /\ config' = config /\ Puts(<<RESEND>>)
          /\ resends' = IF Fits(input[1].byte) THEN resends + 1 ELSE resends
          /\ keyboard' = keyboard
    /\ UNCHANGED <<pc, phase, attempt, bus, port, pin, typed, timeouts>>

Type ==
    /\ bus = "8042" /\ port /\ keyboard.scanning /\ typed < MAX_TYPED
    /\ typed' = typed + 1
    /\ config' = config /\ Puts(<<SCAN>>)
    /\ UNCHANGED <<pc, phase, attempt, input, bus, port, keyboard, pin, resends, timeouts>>

Initialize ==
    \/ SendCommand \/ ReadConfiguration \/ NoController \/ KeyboardWrite \/ KeyboardReply \/ KeyboardSilent
    \/ DrainByte \/ DrainEnds \/ Configure \/ Allow
Device == ControllerConsumes \/ KeyboardConsumes

Next == Initialize \/ Device \/ Type

Spec == Init /\ [][Next]_vars
-----------------------------------------------------------------------------
Settled == pc = Done /\ bus = "8042" /\ input = <<>>
Configured == keyboard.scanning /\ keyboard.leds = "off" /\ keyboard.rate = "30_cps"

(* The keyboard ends up scanning, its lamps off and its rate set, although    *)
(* answers come late, bytes are asked for again or keys are typed; only a     *)
(* repeated byte together with another disturbance may defeat it.             *)
SetUp ==
    Settled /\ pin.vector = "KEYBOARD" /\ (resends = 0 \/ (typed = 0 /\ timeouts = 0 /\ resends < ATTEMPTS)) => Configured

(* Once the pin is open, a byte that waits in the controller is announced: one *)
(* that came while the pin was still masked is not forgotten, and the keyboard *)
(* does not go dead.                                                          *)
NotDead == pc = Done /\ ~pin.masked /\ Line => raised

(* "hanging the kernel on absent hardware is not acceptable": Initialize ends *)
(* with no controller, a silent keyboard or one that answers late; only a     *)
(* controller that is there is taken to empty its input.                      *)
Returns == <>(pc = Done)
=============================================================================
