------------------------------ MODULE HashTable ------------------------------
(***************************************************************************)
(* The chained hash table (lib/kernel/hash.c).  A table is a record: the   *)
(* element count and the buckets, a sequence of lists.  An element is a    *)
(* record with a key, the part hash and less look at; hash is a function   *)
(* from keys to hash values.  Null stands for the null pointer.            *)
(***************************************************************************)
EXTENDS Integers, SequencesExt, Bitwise

CONSTANTS hash,                    \* the hash_hash_func
          MIN_BUCKETS,             \* at least this many buckets (4 in the code), a power of 2
          BEST_ELEMS_PER_BUCKET,   \* ideal elements per bucket (2 in the code)
          Null

Empty(n) == [i \in 1..n |-> <<>>]

hash_init == [elem_cnt |-> 0, buckets |-> Empty(MIN_BUCKETS)]
hash_clear(h) == [elem_cnt |-> 0, buckets |-> Empty(Len(h.buckets))]

find_bucket(h, e) == ((hash[e.key] & (Len(h.buckets) - 1))) + 1

find_elem(bucket, e) ==
  LET at == {i \in DOMAIN bucket : bucket[i].key = e.key}
  IN IF at = {} THEN Null ELSE bucket[Min(at)]

hash_find(h, e) == find_elem(h.buckets[find_bucket(h, e)], e)

insert_elem(h, b, e) == [elem_cnt |-> h.elem_cnt + 1, buckets |-> [h.buckets EXCEPT ![b] = <<e>> \o @]]
remove_elem(h, b, e) == [elem_cnt |-> h.elem_cnt - 1, buckets |-> [h.buckets EXCEPT ![b] = Remove(@, e)]]

turn_off_least_1bit(x) == x & (x - 1)
is_power_of_2(x) == x # 0 /\ turn_off_least_1bit(x) = 0

RECURSIVE PowerOf2(_)
PowerOf2(n) == IF is_power_of_2(n) THEN n ELSE PowerOf2(turn_off_least_1bit(n))

\* Mutant of Move: the bucket is looked up in the table as it was.
Move_old(h, new, e) ==
  LET b == Min({find_bucket(h, e), Len(new.buckets)})
  IN [new EXCEPT !.buckets[b] = <<e>> \o @]

\* One old element moved into its bucket of the new table.
Move(h, new, e) == [new EXCEPT !.buckets[find_bucket(new, e)] = <<e>> \o @]

\* The bucket count is brought in line with the element count, unless there is
\* no memory for the new buckets.
rehash(h, malloc_fails) ==
  LET n == PowerOf2(Max({h.elem_cnt \div BEST_ELEMS_PER_BUCKET, MIN_BUCKETS}))
  IN IF n = Len(h.buckets) \/ malloc_fails THEN h
     ELSE FoldLeft(LAMBDA new, e : Move(h, new, e), [h EXCEPT !.buckets = Empty(n)], FlattenSeq(h.buckets))

\* The operations return the table and the element found before.
hash_insert(h, new, malloc_fails) ==
  LET old == hash_find(h, new)
  IN [h |-> rehash(IF old = Null THEN insert_elem(h, find_bucket(h, new), new) ELSE h, malloc_fails),
      old |-> old]

hash_replace(h, new, malloc_fails) ==
  LET b == find_bucket(h, new)
      old == hash_find(h, new)
      without == IF old # Null THEN remove_elem(h, b, old) ELSE h
  IN [h |-> rehash(insert_elem(without, b, new), malloc_fails), old |-> old]

hash_delete(h, e, malloc_fails) ==
  LET found == hash_find(h, e)
  IN [h |-> IF found = Null THEN h ELSE rehash(remove_elem(h, find_bucket(h, e), found), malloc_fails),
      old |-> found]

\* hash_first, hash_next: the iterator stands on position pos of bucket b (pos 0
\* is the head); after the last bucket b is past the end.
hash_first == [b |-> 1, pos |-> 0]

hash_next(h, i) ==
  IF i.pos < Len(h.buckets[i.b]) THEN [i EXCEPT !.pos = @ + 1]
  ELSE LET full == {b \in i.b+1..Len(h.buckets) : h.buckets[b] # <<>>}
       IN IF full = {} THEN [b |-> Len(h.buckets) + 1, pos |-> 0] ELSE [b |-> Min(full), pos |-> 1]

\* What a loop over the iterator, and hash_apply, meet.
RECURSIVE Visit(_, _)
Visit(h, i) ==
  LET j == hash_next(h, i)
  IN IF j.b > Len(h.buckets) THEN <<>> ELSE <<h.buckets[j.b][j.pos]>> \o Visit(h, j)

hash_apply(h) == FlattenSeq(h.buckets)
=============================================================================
