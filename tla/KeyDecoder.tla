----------------------------- MODULE KeyDecoder -----------------------------
(* KeyDecoder::Decode, Key::Ascii and the packing of a key for GetKey, as     *)
(* operators.  A decoder is a record of prefix, modifiers and the codes that  *)
(* are pressed; a key is a code with modifiers.                               *)
EXTENDS Integers, Sequences

\* Scan codes with a role of their own, and the number of codes.
INVALID == 0
LEFT_CTRL == 29
LEFT_SHIFT == 42
SLASH == 53
RIGHT_SHIFT == 54
LEFT_ALT == 56
CAPS_LOCK == 58
NUM_LOCK == 69
SCROLL_LOCK == 70
KP_7 == 71
KP_PERIOD == 83
COUNT == 89

BREAK_BIT == 128
PREFIX_EXTENDED == 224
PREFIX_PAUSE == 225

\* Fields of a Key, in the order of their HK_MOD_ bits.
Fields == <<"Shift", "AltLeft", "AltRight", "CtrlLeft", "CtrlRight", "CapsLock", "NumLock", "ScrollLock">>
FieldSet == {Fields[n] : n \in DOMAIN Fields}
NoModifiers == [f \in FieldSet |-> FALSE]

Fresh == [prefix |-> 0, mods |-> NoModifiers, pressed |-> {}]
-----------------------------------------------------------------------------
\* The modifier that a make or break code of a held key sets, if any.
HeldFieldUnprefixed(code, extended) ==
    CASE code \in {LEFT_SHIFT, RIGHT_SHIFT} -> {"Shift"}
      [] code = LEFT_ALT -> {"AltLeft"}
      [] code = LEFT_CTRL -> {"CtrlLeft"}
      [] OTHER -> {}
HeldField(code, extended) ==
    CASE code \in {LEFT_SHIFT, RIGHT_SHIFT} -> {"Shift"}
      [] code = LEFT_ALT -> {IF extended THEN "AltRight" ELSE "AltLeft"}
      [] code = LEFT_CTRL -> {IF extended THEN "CtrlRight" ELSE "CtrlLeft"}
      [] OTHER -> {}

\* The lock that a make code toggles.  Ctrl+NumLock is the Pause key.
Toggled(code, mods) ==
    CASE code = CAPS_LOCK -> {"CapsLock"}
      [] code = SCROLL_LOCK -> {"ScrollLock"}
      [] code = NUM_LOCK /\ ~mods.CtrlLeft -> {"NumLock"}
      [] OTHER -> {}

\* What a prefixed key hides of the modifiers that it reports.
Hidden(code, extended) ==
    IF ~extended \/ code = NUM_LOCK THEN {} ELSE IF code = SLASH THEN {"Shift"} ELSE {"NumLock"}

PrefixKept(d) == d.prefix
PrefixAfter(d) == 0

\* KeyDecoder::Decode: the decoder afterwards, the key (its modifiers are those
\* before the byte) and the locks whose LED SetLed is to update.
Decode(d, byte) ==
    LET extended == d.prefix = PREFIX_EXTENDED
        pressed == byte < BREAK_BIT
        code == byte % BREAK_BIT
        held == IF code < COUNT THEN HeldField(code, extended) ELSE {}
        toggled == IF code < COUNT /\ pressed THEN Toggled(code, d.mods) ELSE {}
        key(c, hidden) == [code |-> c, mods |-> [f \in FieldSet |-> d.mods[f] /\ f \notin hidden]]
    IN  IF byte \in {PREFIX_EXTENDED, PREFIX_PAUSE}
        THEN [decoder |-> [d EXCEPT !.prefix = byte], key |-> key(INVALID, {}), leds |-> {}]
        ELSE [decoder |-> [prefix |-> PrefixAfter(d),
                           mods |-> [f \in FieldSet |-> IF f \in held THEN pressed
                                                        ELSE IF f \in toggled THEN ~d.mods[f] ELSE d.mods[f]],
                           pressed |-> IF code < COUNT /\ pressed THEN d.pressed \cup {code} ELSE d.pressed \ {code}],
              key |-> IF code < COUNT /\ pressed /\ held = {} /\ toggled = {}
                      THEN key(code, Hidden(code, extended)) ELSE key(INVALID, {}),
              leds |-> toggled]

\* Ps2Controller::SetLed's new s_Leds, as a set of locks, and as the byte sent.
SetLed(on, toggled, mods) == (on \ toggled) \cup {f \in toggled : mods[f]}
LedByte(on) ==
    LET bit(f, b) == IF f \in on THEN b ELSE 0
    IN  bit("ScrollLock", 1) + bit("NumLock", 2) + bit("CapsLock", 4)

IsValid(key) == key.code # INVALID /\ key.code < COUNT
Ctrl(key) == key.mods.CtrlLeft \/ key.mods.CtrlRight
Alt(key) == key.mods.AltLeft \/ key.mods.AltRight
-----------------------------------------------------------------------------
\* ASCII_TABLE as the numbers of its characters; 0 is no character.
NormalRow == <<
    27, 49, 50, 51, 52, 53, 54, 55, 56, 57, 48, 45, 61, 8, 9,
    113, 119, 101, 114, 116, 121, 117, 105, 111, 112, 91, 93, 10, 0,
    97, 115, 100, 102, 103, 104, 106, 107, 108, 59, 39, 96, 0,
    92, 122, 120, 99, 118, 98, 110, 109, 44, 46, 47, 0, 42, 0, 32, 0,
    0, 0, 0, 0, 0, 0, 0, 0, 0, 0, 0, 0,
    0, 0, 0, 45, 0, 0, 0, 43, 0, 0, 0, 0, 127, 0, 92, 0, 0, 61>>
ShiftedRow == <<
    27, 33, 64, 35, 36, 37, 94, 38, 42, 40, 41, 95, 43, 8, 9,
    81, 87, 69, 82, 84, 89, 85, 73, 79, 80, 123, 125, 10, 0,
    65, 83, 68, 70, 71, 72, 74, 75, 76, 58, 34, 126, 0,
    124, 90, 88, 67, 86, 66, 78, 77, 60, 62, 63, 0, 42, 0, 32, 0,
    0, 0, 0, 0, 0, 0, 0, 0, 0, 0, 0, 0,
    55, 56, 57, 45, 52, 53, 54, 43, 49, 50, 51, 48, 46, 0, 124, 0, 0, 61>>

IsLetter(code) == code \in 16 .. 25 \cup 30 .. 38 \cup 44 .. 50
IsKeypadDigit(code) == code \in KP_7 .. KP_PERIOD

Ascii(key) ==
    IF ~IsValid(key) THEN 0
    ELSE IF \/ key.mods.Shift
            \/ key.mods.CapsLock /\ IsLetter(key.code)
            \/ key.mods.NumLock /\ IsKeypadDigit(key.code)
         THEN ShiftedRow[key.code] ELSE NormalRow[key.code]
-----------------------------------------------------------------------------
\* ModifiersOf, and hk_key_pack with its inverses.
Bit(n) == 2 ^ (n - 1)
ModifiersOf(mods) ==
    LET value[n \in 0 .. 8] == IF n = 0 THEN 0 ELSE value[n - 1] + (IF mods[Fields[n]] THEN Bit(n) ELSE 0)
    IN  value[8]

\* Mutant: the code is shifted by seven bits.
hk_key_pack_seven(code, ascii, modifiers) == ascii + code * 128 + modifiers * 32768
hk_key_pack(code, ascii, modifiers) == ascii + code * 256 + modifiers * 65536
hk_key_ascii(key) == key % 256
hk_key_code(key) == (key \div 256) % 256
hk_key_modifiers(key) == (key \div 65536) % 256
hk_key_has(key, bit) == (hk_key_modifiers(key) \div bit) % 2 = 1

\* What GetKey returns for a key of the queue.
Packed(key) == hk_key_pack(key.code, Ascii(key), ModifiersOf(key.mods))
=============================================================================
