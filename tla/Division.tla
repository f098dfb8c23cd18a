------------------------------ MODULE Division ------------------------------
(***************************************************************************)
(* The double-word division routines (lib/arithmetic.c), for a machine     *)
(* word of W bits (32 in the code, a power of 2): a dividend and a divisor *)
(* have 2 * W bits.  A signed number is given by its value.                *)
(***************************************************************************)
EXTENDS Integers, SequencesExt

CONSTANT W

B == 2^W                           \* the base: one more than the largest word
Word(x) == x % B
DWord(x) == x % (B * B)
Signed(x, bits) == IF x >= 2^(bits - 1) THEN x - 2^bits ELSE x
Trap == -1                         \* the divide error #DE

\* The DIVL instruction traps when the quotient does not fit in a word.
divl(n, d) == IF d = 0 \/ n \div d >= B THEN Trap ELSE n \div d

\* Leading zero bits: the halving steps W/2, W/4, ... 1.
Halves == [i \in 1..(CHOOSE k \in 0..W : 2^k = W) |-> W \div 2^i]
nlz(x) ==
  FoldLeft(LAMBDA r, k : IF r.x <= 2^(W - k) - 1 THEN [n |-> r.n + k, x |-> Word(r.x * 2^k)] ELSE r,
           [n |-> 0, x |-> x], Halves).n

\* Mutant of udiv64: the estimate of the quotient is taken as it is.
udiv64_estimate(n, d) ==
  IF d \div B = 0
  THEN LET n1 == n \div B
           q == divl(B * (n1 % d) + Word(n), d)
       IN IF q = Trap THEN Trap ELSE q + B * (n1 \div d)
  ELSE IF n < d THEN 0
  ELSE LET s == nlz(d \div B)
           e == divl(n \div 2, DWord(d * 2^s) \div B)
       IN IF e = Trap THEN Trap ELSE e \div 2^(W - 1 - s)

udiv64(n, d) ==
  IF d \div B = 0
  THEN LET n1 == n \div B
           q == divl(B * (n1 % d) + Word(n), d)
       IN IF q = Trap THEN Trap ELSE q + B * (n1 \div d)
  ELSE IF n < d THEN 0
  ELSE LET s == nlz(d \div B)
           e == divl(n \div 2, DWord(d * 2^s) \div B)
           q == e \div 2^(W - 1 - s)
       IN IF e = Trap THEN Trap
          ELSE IF DWord(n - (q - 1) * d) < d THEN q - 1 ELSE q

\* The remainder is returned in one word.
umod64(n, d) == Word(DWord(n - d * udiv64(n, d)))

\* Negating the most negative number gives it back.
sdiv64(n, d) ==
  LET q_abs == udiv64(IF n >= 0 THEN n ELSE DWord(-n), IF d >= 0 THEN d ELSE DWord(-d))
  IN Signed(IF (n < 0) <=> (d < 0) THEN q_abs ELSE DWord(-q_abs), 2 * W)

smod64(n, d) == Signed(Word(n - d * sdiv64(n, d)), W)
=============================================================================
