------------------------------ MODULE BitWords ------------------------------
(***************************************************************************)
(* Bitmaps (lib/kernel/bitmap.c) as they are stored: a record with the     *)
(* number of bits and the sequence of words of ELEM_BITS bits that hold    *)
(* them.                                                                   *)
(***************************************************************************)
EXTENDS Integers, SequencesExt, Bitwise

CONSTANT ELEM_BITS

BITMAP_ERROR == -1

elem_idx(bit_idx) == bit_idx \div ELEM_BITS + 1
bit_mask(bit_idx) == 2^(bit_idx % ELEM_BITS)
elem_cnt(bit_cnt) == (bit_cnt + ELEM_BITS - 1) \div ELEM_BITS

bitmap_mark(b, bit_idx) == [b EXCEPT !.bits[elem_idx(bit_idx)] = @ | bit_mask(bit_idx)]
bitmap_reset(b, bit_idx) == [b EXCEPT !.bits[elem_idx(bit_idx)] = @ & (2^ELEM_BITS - 1 - bit_mask(bit_idx))]
bitmap_flip(b, bit_idx) == [b EXCEPT !.bits[elem_idx(bit_idx)] = @ ^^ bit_mask(bit_idx)]
bitmap_set(b, idx, value) == IF value THEN bitmap_mark(b, idx) ELSE bitmap_reset(b, idx)
bitmap_test(b, idx) == (b.bits[elem_idx(idx)] & bit_mask(idx)) # 0

bitmap_set_multiple(b, start, cnt, value) ==
  FoldLeft(LAMBDA c, i : bitmap_set(c, start + i - 1, value), b, [i \in 1..cnt |-> i])
bitmap_set_all(b, value) == bitmap_set_multiple(b, 0, b.bit_cnt, value)

\* The words malloc returned may hold anything: fill.
bitmap_create(bit_cnt, fill) ==
  bitmap_set_all([bit_cnt |-> bit_cnt, bits |-> [i \in 1..elem_cnt(bit_cnt) |-> fill]], FALSE)

bitmap_count(b, start, cnt, value) ==
  Cardinality({i \in start..start+cnt-1 : bitmap_test(b, i) = value})
bitmap_contains(b, start, cnt, value) == \E i \in start..start+cnt-1 : bitmap_test(b, i) = value

bitmap_scan(b, start, cnt, value) ==
  LET at == {i \in start..b.bit_cnt-cnt : ~bitmap_contains(b, i, cnt, ~value)}
  IN IF at = {} THEN BITMAP_ERROR ELSE Min(at)

bitmap_scan_and_flip(b, start, cnt, value) ==
  LET idx == bitmap_scan(b, start, cnt, value)
  IN [b |-> IF idx = BITMAP_ERROR THEN b ELSE bitmap_set_multiple(b, idx, cnt, ~value), idx |-> idx]
=============================================================================
