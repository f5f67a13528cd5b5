------------------------------ MODULE KeyStrokes ------------------------------
(* The keyboard's physical keys against what the keyboard epilogue makes of   *)
(* their bytes.  A key going down, repeating or coming up sends its bytes in  *)
(* scan code set 1; all arrive, or, where the raw queue was full, only some.  *)
EXTENDS KeyDecoder, FiniteSets, SequencesExt

CONSTANTS
    Keys,       \* names of the physical keys, a part of DOMAIN Make
    MAX_HELD,   \* keys that are down at once
    LOSSY       \* whether bytes may be lost

VARIABLES
    decoder,    \* s_Decoder
    leds,       \* s_Leds, as the set of its locks
    held,       \* physical keys that are down
    locks,      \* locks as the physical keys put them
    lost,       \* a byte was lost at some time
    last,       \* the physical key, the modifiers before it and the key delivered
    rebooted

vars == <<decoder, leds, held, locks, lost, last, rebooted>>

\* Set 1 make codes of the physical keys.
Make == [
    A |-> <<30>>, KP_8 |-> <<72>>, UP |-> <<224, 72>>, DIVIDE |-> <<224, 53>>, DELETE |-> <<224, 83>>,
    LEFT_SHIFT |-> <<42>>, RIGHT_SHIFT |-> <<54>>, LEFT_CTRL |-> <<29>>, RIGHT_CTRL |-> <<224, 29>>,
    LEFT_ALT |-> <<56>>, RIGHT_ALT |-> <<224, 56>>, CAPS_LOCK |-> <<58>>, NUM_LOCK |-> <<69>>,
    PAUSE |-> <<225, 29, 69, 225, 157, 197>>]

Break(k) ==
    IF k = "PAUSE" THEN <<>>
    ELSE [n \in DOMAIN Make[k] |-> IF Make[k][n] = 224 THEN 224 ELSE Make[k][n] + 128]

NoKey == [code |-> INVALID, mods |-> NoModifiers]
Nothing == [physical |-> "none", before |-> NoModifiers, key |-> NoKey]

Init ==
    /\ decoder = Fresh /\ leds = {}
    /\ held = {} /\ locks = {}
    /\ lost = FALSE
    /\ last = Nothing /\ rebooted = FALSE
-----------------------------------------------------------------------------
\* Fetch and the loop of Epilogues::Keyboard over some bytes.
Feed(bytes) ==
    FoldLeft(LAMBDA s, byte :
                LET r == Decode(s.decoder, byte)
                IN  [decoder |-> r.decoder,
                     leds |-> SetLed(s.leds, r.leds, r.decoder.mods),
                     key |-> IF IsValid(r.key) THEN r.key ELSE s.key],
             [decoder |-> decoder, leds |-> leds, key |-> NoKey], bytes)

RebootAsked(key) == Ctrl(key) /\ Alt(key) /\ key.code = KP_PERIOD

\* The bytes of a sequence at some places, in order.
Kept(bytes, places) ==
    LET order == SetToSortSeq(places, LAMBDA m, n : m < n) IN [n \in DOMAIN order |-> bytes[order[n]]]

Arrive(k, bytes) ==
    /\ ~rebooted
    /\ LET f == Feed(bytes)
       IN  /\ decoder' = f.decoder /\ leds' = f.leds
           /\ last' = [physical |-> k, before |-> decoder.mods, key |-> f.key]
           /\ rebooted' = RebootAsked(f.key)

Send(k, bytes) ==
    \/ Arrive(k, bytes) /\ UNCHANGED lost
    \/ /\ LOSSY
       /\ \E places \in SUBSET DOMAIN bytes :
            places # DOMAIN bytes /\ Arrive("none", Kept(bytes, places))
       /\ lost' = TRUE

LockOf(k) ==
    CASE k = "CAPS_LOCK" -> {"CapsLock"}
      [] k = "NUM_LOCK" /\ "LEFT_CTRL" \notin held -> {"NumLock"}
      [] OTHER -> {}

\* The keyboard.  Pause with a Ctrl key down is another key, and is left out.
Down(k) ==
    /\ k \notin held => Cardinality(held) < MAX_HELD
    /\ k = "PAUSE" => held \cap {"LEFT_CTRL", "RIGHT_CTRL"} = {}
    /\ held' = held \cup {k}
    /\ locks' = (locks \ LockOf(k)) \cup (LockOf(k) \ locks)
    /\ Send(k, Make[k])

Up(k) ==
    /\ k \in held
    /\ held' = held \ {k}
    /\ UNCHANGED locks
    /\ Send("none", Break(k))

Next == \E k \in Keys : Down(k) \/ Up(k)

Spec == Init /\ [][Next]_vars
-----------------------------------------------------------------------------
(* After any sequence of keys, left and right Alt and Ctrl are told apart as  *)
(* the physical keys are, no key is taken for pressed that is up, the locks   *)
(* and their LEDs are as toggled, and Pause, which sends a Ctrl of its own,   *)
(* changes none of them.                                                      *)
ModifiersTrue ==
    ~lost =>
        /\ decoder.mods.CtrlLeft = ("LEFT_CTRL" \in held)
        /\ decoder.mods.CtrlRight = ("RIGHT_CTRL" \in held)
        /\ decoder.mods.AltLeft = ("LEFT_ALT" \in held)
        /\ decoder.mods.AltRight = ("RIGHT_ALT" \in held)
        /\ {f \in {"CapsLock", "NumLock", "ScrollLock"} : decoder.mods[f]} = locks
        /\ leds = locks
        /\ decoder.pressed \subseteq {Last(Make[k]) : k \in held}

(* What GetKey returns for a key, taken apart by the program: its code, the   *)
(* modifiers, and the character they make of it.  The keypad types digits     *)
(* under NumLock, an arrow types nothing there (without Shift), the keypad's  *)
(* divide key is a slash under Shift too; and no key is the invalid one.      *)
GetKeyTrue ==
    LET m == last.before
        packed == Packed(last.key)
        c == hk_key_ascii(packed)
    IN  /\ last.physical \in {"A", "KP_8", "UP", "DIVIDE"} => IsValid(last.key)
        /\ IsValid(last.key) =>
            /\ packed \in 1 .. 2 ^ 24 - 1
            /\ hk_key_code(packed) = last.key.code
            /\ \A n \in DOMAIN Fields : hk_key_has(packed, Bit(n)) = last.key.mods[Fields[n]]
        /\ last.physical = "A" => c = IF m.Shift \/ m.CapsLock THEN 65 ELSE 97
        /\ last.physical = "KP_8" => c = IF m.Shift \/ m.NumLock THEN 56 ELSE 0
        /\ last.physical = "UP" /\ ~m.Shift => c = 0
        /\ last.physical = "DIVIDE" => c = 47

\* What a modifier key holds down.
Modifier == [LEFT_SHIFT |-> "Shift", LEFT_CTRL |-> "CtrlLeft", RIGHT_CTRL |-> "CtrlRight",
             LEFT_ALT |-> "AltLeft", RIGHT_ALT |-> "AltRight"]

(* Whatever bytes were lost before, and wherever in a sequence, one tap of a  *)
(* modifier key releases its modifier and leaves no prefix behind: no lost    *)
(* byte leaves the decoder stuck.                                             *)
Recovers ==
    \A k \in DOMAIN Modifier :
        LET f == Feed(Make[k] \o Break(k)).decoder IN f.prefix = 0 /\ ~f.mods[Modifier[k]]
=============================================================================
