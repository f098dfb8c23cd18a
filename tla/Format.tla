------------------------------- MODULE Format -------------------------------
(***************************************************************************)
(* Formatted output (lib/stdio.c) and atoi (lib/stdlib.c).  A character is *)
(* its code.  A format is a sequence of literal characters, [lit], and     *)
(* conversion specifications, [conv, flags, width, precision, type, arg]:  *)
(* the conversion character, what is written before it (a width or a       *)
(* precision given as * is the number taken from the arguments, and may be *)
(* negative) and the argument it converts.                                 *)
(***************************************************************************)
EXTENDS Integers, SequencesExt

CONSTANT BUF                       \* sizeof buf in format_integer (64 in the code)

Dup(ch, cnt) == [i \in 1..Max({cnt, 0}) |-> ch]     \* output_dup; a loop to a place already reached

\* MINUS and PLUS cancel ZERO and SPACE, a negative width is a MINUS flag, a
\* negative precision is none, and a precision cancels ZERO.
parse_conversion(spec) ==
  LET f1 == spec.flags \ (IF "MINUS" \in spec.flags THEN {"ZERO"} ELSE {})
      f2 == f1 \ (IF "PLUS" \in f1 THEN {"SPACE"} ELSE {})
      f3 == IF spec.width < 0 THEN f2 \cup {"MINUS"} ELSE f2
      precision == IF spec.precision < 0 THEN -1 ELSE spec.precision
  IN [flags |-> IF precision >= 0 THEN f3 \ {"ZERO"} ELSE f3,
      width |-> IF spec.width < 0 THEN -spec.width ELSE spec.width,
      precision |-> precision]

base_d == [base |-> 10, x |-> 0, group |-> 3]
base_o == [base |-> 8, x |-> 0, group |-> 3]
base_x == [base |-> 16, x |-> 120, group |-> 4]
digit(v) == IF v < 10 THEN 48 + v ELSE 87 + v

\* The digits of a value, the last one first, with a comma between groups.
RECURSIVE DigitsOf(_, _, _, _)
DigitsOf(value, digit_cnt, b, c) ==
  IF value = 0 THEN <<>>
  ELSE (IF "GROUP" \in c.flags /\ digit_cnt > 0 /\ digit_cnt % b.group = 0 THEN <<44>> ELSE <<>>)
         \o <<digit(value % b.base)>> \o DigitsOf(value \div b.base, digit_cnt + 1, b, c)

\* What format_integer has in buf: digits, zeros up to the precision, and the
\* zero an octal number with the # flag starts with.
Buf(value, b, c) ==
  LET digits == DigitsOf(value, 0, b, c)
      precision == IF c.precision < 0 THEN 1 ELSE c.precision
      full == digits \o Dup(48, Min({precision, BUF - 1}) - Len(digits))
  IN IF "POUND" \in c.flags /\ b.base = 8 /\ (full = <<>> \/ Last(full) # 48)
     THEN Append(full, 48) ELSE full

SignOf(is_signed, negative, c) ==
  IF ~is_signed THEN <<>>
  ELSE IF "PLUS" \in c.flags THEN IF negative THEN <<45>> ELSE <<43>>
  ELSE IF "SPACE" \in c.flags THEN IF negative THEN <<45>> ELSE <<32>>
  ELSE IF negative THEN <<45>> ELSE <<>>

format_integer(value, is_signed, negative, b, c) ==
  LET sign == SignOf(is_signed, negative, c)
      x == IF "POUND" \in c.flags /\ value # 0 /\ b.x # 0 THEN <<48, b.x>> ELSE <<>>
      buf == Buf(value, b, c)
      pad == Max({c.width - Len(buf) - Len(x) - Len(sign), 0})
  IN Dup(32, IF c.flags \cap {"MINUS", "ZERO"} = {} THEN pad ELSE 0) \o sign \o x
       \o Dup(48, IF "ZERO" \in c.flags THEN pad ELSE 0) \o Reverse(buf)
       \o Dup(32, IF "MINUS" \in c.flags THEN pad ELSE 0)

format_string(string, c) ==
  LET pad == Dup(32, Max({c.width - Len(string), 0}))
  IN IF "MINUS" \in c.flags THEN string \o pad ELSE pad \o string

\* The argument as its type reads it: hh and h drop the upper bits.
Bits(type) == IF type = "hh" THEN 8 ELSE 16
Unsigned(v, type) == IF type \in {"hh", "h"} THEN v % 2^Bits(type) ELSE v
SignedArg(v, type) ==
  LET u == Unsigned(v, type)
  IN IF type \in {"hh", "h"} /\ u >= 2^(Bits(type) - 1) THEN u - 2^Bits(type) ELSE u

\* What one item of the format puts out.
Convert(item) ==
  LET c == parse_conversion(item)
      v == SignedArg(item.arg, item.type)
      u == Unsigned(item.arg, item.type)
  IN CASE item.conv \in {"d", "i"} -> format_integer(IF v < 0 THEN -v ELSE v, TRUE, v < 0, base_d, c)
       [] item.conv = "u" -> format_integer(u, FALSE, FALSE, base_d, c)
       [] item.conv = "o" -> format_integer(u, FALSE, FALSE, base_o, c)
       [] item.conv = "x" -> format_integer(u, FALSE, FALSE, base_x, c)
       [] item.conv = "p" -> format_integer(item.arg, FALSE, FALSE, base_x, [c EXCEPT !.flags = {"POUND"}])
       [] item.conv = "c" -> format_string(<<item.arg>>, c)
       [] item.conv = "s" -> format_string(SubSeq(item.arg, 1, IF c.precision < 0 THEN Len(item.arg)
                                                               ELSE Min({c.precision, Len(item.arg)})), c)

vprintf(format) ==
  FoldLeft(LAMBDA s, item : s \o (IF "lit" \in DOMAIN item THEN <<item.lit>> ELSE Convert(item)), <<>>, format)

vsnprintf_helper(aux, ch) ==
  [aux EXCEPT !.length = @ + 1, !.buffer = IF aux.length < aux.max_length THEN Append(@, ch) ELSE @]

\* The bytes stored in the buffer and the value returned.
vsnprintf(buf_size, format) ==
  LET aux == FoldLeft(vsnprintf_helper, [buffer |-> <<>>, length |-> 0, max_length |-> Max({buf_size - 1, 0})],
                      vprintf(format))
  IN [buffer |-> IF buf_size > 0 THEN Append(aux.buffer, 0) ELSE aux.buffer, ret |-> aux.length]

\* White space, a sign, and the digits up to the first other character, built
\* up as a negative number.
RECURSIVE AtoiDigits(_, _)
AtoiDigits(s, value) ==
  IF s = <<>> \/ Head(s) \notin 48..57 THEN value ELSE AtoiDigits(Tail(s), value * 10 - (Head(s) - 48))

RECURSIVE atoi(_)
atoi(s) ==
  IF s = <<>> THEN 0
  ELSE IF Head(s) \in {32} \cup 9..13 THEN atoi(Tail(s))
  ELSE IF Head(s) = 45 THEN AtoiDigits(Tail(s), 0)
  ELSE -AtoiDigits(IF Head(s) = 43 THEN Tail(s) ELSE s, 0)
=============================================================================
