------------------------------- MODULE Keymap --------------------------------
(***************************************************************************)
(* How the keyboard driver (devices/kbd.c) turns scancodes into            *)
(* characters.  Characters are ASCII codes.  A state of the keyboard is    *)
(* the set of shift keys held down and the state of Caps Lock.             *)
(***************************************************************************)
EXTENDS Integers, Sequences

\* A keymap is a sequence of rows; row r maps r[1], r[1] + 1, ... to the
\* characters r[2].
invariant_keymap ==
  << <<1, <<27>>>>, <<14, <<8>>>>,
     <<15, <<9, 81, 87, 69, 82, 84, 89, 85, 73, 79, 80>>>>,     \* \t Q ... P
     <<28, <<13>>>>,
     <<30, <<65, 83, 68, 70, 71, 72, 74, 75, 76>>>>,            \* A ... L
     <<44, <<90, 88, 67, 86, 66, 78, 77>>>>,                    \* Z ... M
     <<55, <<42>>>>, <<57, <<32>>>>, <<83, <<127>>>> >>

unshifted_keymap ==
  << <<2, <<49, 50, 51, 52, 53, 54, 55, 56, 57, 48, 45, 61>>>>, \* 1 ... 0 - =
     <<26, <<91, 93>>>>, <<39, <<59, 39, 96>>>>, <<43, <<92>>>>,
     <<51, <<44, 46, 47>>>> >>

shifted_keymap ==
  << <<2, <<33, 64, 35, 36, 37, 94, 38, 42, 40, 41, 95, 43>>>>, \* ! ... ) _ +
     <<26, <<123, 125>>>>, <<39, <<58, 34, 126>>>>, <<43, <<124>>>>,
     <<51, <<60, 62, 63>>>> >>

LeftShift == 42
RightShift == 54
LeftAlt == 56
RightAlt == 57400        \* 0xe038
LeftCtrl == 29
RightCtrl == 57373       \* 0xe01d
CapsLock == 58
shift_keys == {LeftShift, RightShift, LeftAlt, RightAlt, LeftCtrl, RightCtrl}

NoChar == -1

\* The character of the first row that has the scancode.
map_key(k, code) ==
  LET rows == {i \in 1..Len(k) : code >= k[i][1] /\ code < k[i][1] + Len(k[i][2])}
      row == k[CHOOSE i \in rows : \A j \in rows : i <= j]
  IN IF rows = {} THEN NoChar ELSE row[2][code - row[1] + 1]

Shift(held) == {LeftShift, RightShift} \cap held # {}
Alt(held) == {LeftAlt, RightAlt} \cap held # {}
Ctrl(held) == {LeftCtrl, RightCtrl} \cap held # {}

\* The character of the key before modifiers are applied, NoChar for a key that
\* has none.
RawChar(code, held) ==
  IF map_key(invariant_keymap, code) # NoChar THEN map_key(invariant_keymap, code)
  ELSE map_key(IF Shift(held) THEN shifted_keymap ELSE unshifted_keymap, code)

tolower(c) == IF c \in 65..90 THEN c + 32 ELSE c

\* Ctrl overrides Shift; Caps Lock inverts Shift; Alt sets the high bit of the
\* byte.
KeyChar(code, held, caps_lock) ==
  LET raw == RawChar(code, held)
      c == IF Ctrl(held) /\ raw \in 64..95 THEN raw - 64
           ELSE IF Shift(held) = caps_lock THEN tolower(raw) ELSE raw
  IN IF Alt(held) THEN (c + 128) % 256 ELSE c

\* Ctrl+Alt+Del.
Reboots(code, held) == RawChar(code, held) = 127 /\ Ctrl(held) /\ Alt(held)
=============================================================================
