----------------------------- MODULE SynchProofs -----------------------------
(***************************************************************************)
(* The safety of locks with priority donation, for any threads, locks,     *)
(* priorities and donation depth. First what the list operations of KList  *)
(* keep, then what a step of a thread does to the scheduler's lists and to *)
(* the waiters lists; with these each conjunct of IInv is preserved by     *)
(* every step, and the properties of Synch follow.                         *)
(***************************************************************************)
EXTENDS Synch, FiniteSetTheorems, FunctionTheorems, TLAPS

-----------------------------------------------------------------------------
\* What the list operations keep: the elements, and that none of them is linked
\* twice.  The comparators of the kernel all compare an integer key (a priority or
\* a wake-up time), so they are ByKey(key, S).
ByKey(key, S) == {p \in S \X S : key[p[1]] > key[p[2]]}

-----------------------------------------------------------------------------
\* list_insert adds one element, once.
LEMMA ListInsert ==
  ASSUME NEW S, NEW s \in Seq(S), NEW x \in S, NEW p \in 1..(Len(s) + 1)
  PROVE  /\ list_insert(s, p, x) \in Seq(S)
         /\ Elems(list_insert(s, p, x)) = Elems(s) \cup {x}
         /\ NoDup(s) /\ x \notin Elems(s) => NoDup(list_insert(s, p, x))
<1> DEFINE n == Len(s)
           r == list_insert(s, p, x)
<1>1. n \in Nat /\ DOMAIN s = 1..n /\ \A i \in 1..n : s[i] \in S
  BY SMTT(30)
<1>2. \A i \in 1..(n + 1) : r[i] = IF i < p THEN s[i] ELSE IF i = p THEN x ELSE s[i - 1]
  BY <1>1, Zenon DEF list_insert
<1>3. r \in [1..(n + 1) -> S]
  BY <1>1, SMTT(30) DEF list_insert
<1>4. r \in Seq(S) /\ Len(r) = n + 1
  BY <1>1, <1>3, SMTT(30)
<1> HIDE DEF r
<1>5. Elems(r) = Elems(s) \cup {x}
  <2>1. ASSUME NEW e \in Elems(r) PROVE e \in Elems(s) \cup {x}
    BY <1>1, <1>2, <1>4, SMTT(30) DEF Elems
  <2>2. ASSUME NEW i \in 1..n PROVE s[i] \in Elems(r)
    <3>1. CASE i < p
      BY <3>1, <1>1, <1>2, <1>4, SMTT(30) DEF Elems
    <3>2. CASE i >= p
      <4>1. i + 1 \in 1..(n + 1) /\ r[i + 1] = s[i]
        BY <3>2, <1>1, <1>2, SMTT(30)
      <4> QED BY <4>1, <1>4, Zenon DEF Elems
    <3> QED BY <3>1, <3>2, <1>1, SMTT(30)
  <2>3. x \in Elems(r)
    <3>1. p \in 1..(n + 1) /\ r[p] = x
      BY <1>1, <1>2, SMTT(30)
    <3> QED BY <3>1, <1>4, Zenon DEF Elems
  <2> QED BY Zenon, <2>1, <2>2, <2>3 DEF Elems
<1>6. ASSUME NoDup(s), x \notin Elems(s) PROVE NoDup(r)
  <2> SUFFICES ASSUME NEW i \in 1..(n + 1), NEW j \in 1..(n + 1), r[i] = r[j]
               PROVE  i = j
    BY <1>4, Zenon DEF NoDup
  <2>1. \A k \in 1..n : s[k] # x
    BY <1>6, Zenon DEF Elems
  <2>2. \A k, l \in 1..n : s[k] = s[l] => k = l
    BY <1>6, Zenon DEF NoDup
  <2> QED BY <2>1, <2>2, <1>1, <1>2, SMTT(30)
<1> QED BY <1>4, <1>5, <1>6, Zenon DEF r

\* list_insert_ordered finds a place, whatever the comparator.
LEMMA InsertPosRange ==
  ASSUME NEW S, NEW s \in Seq(S), NEW x, NEW less
  PROVE  InsertPos(s, x, less) \in 1..(Len(s) + 1)
<1> DEFINE P == {i \in 1..Len(s) : <<x, s[i]>> \in less}
<1>1. CASE \E i \in P : \A j \in P : i <= j
  <2>1. InsertPos(s, x, less) = CHOOSE i \in P : \A j \in P : i <= j
    BY Zenon, <1>1 DEF InsertPos
  <2>2. (CHOOSE i \in P : \A j \in P : i <= j) \in P
    BY Zenon, <1>1
  <2> QED BY <2>1, <2>2, SMTT(30)
<1>2. CASE ~ \E i \in P : \A j \in P : i <= j
  BY <1>2, SMTT(30) DEF InsertPos
<1> QED BY <1>1, <1>2, Zenon

\* So list_insert_ordered adds one element, once, whatever the comparator and
\* however the list was ordered before.
LEMMA ListInsertOrdered ==
  ASSUME NEW S, NEW s \in Seq(S), NEW x \in S, NEW less
  PROVE  /\ list_insert_ordered(s, x, less) \in Seq(S)
         /\ Elems(list_insert_ordered(s, x, less)) = Elems(s) \cup {x}
         /\ NoDup(s) /\ x \notin Elems(s) => NoDup(list_insert_ordered(s, x, less))
BY InsertPosRange, ListInsert, Zenon DEF list_insert_ordered

-----------------------------------------------------------------------------
\* The order list_sort puts positions in is total: of two positions one comes
\* before the other, and what comes before the first comes before the second.
LEMMA PrecedesTotal ==
  ASSUME NEW S, NEW s \in Seq(S), NEW key \in [S -> Int],
         NEW i \in 1..Len(s), NEW j \in 1..Len(s), i # j
  PROVE  \/ Precedes(s, ByKey(key, S), i) \cup {i} \subseteq Precedes(s, ByKey(key, S), j)
         \/ Precedes(s, ByKey(key, S), j) \cup {j} \subseteq Precedes(s, ByKey(key, S), i)
<1> DEFINE less == ByKey(key, S)
           k(a) == key[s[a]]
           before(a, b) == k(a) > k(b) \/ (a < b /\ ~(k(b) > k(a)))
<1>1. Len(s) \in Nat /\ \A a \in 1..Len(s) : s[a] \in S /\ k(a) \in Int
  BY SMTT(30)
<1>2. \A a, b \in 1..Len(s) : (<<s[a], s[b]>> \in less) <=> k(a) > k(b)
  BY <1>1, Zenon DEF ByKey
<1>3. \A b \in 1..Len(s) : Precedes(s, less, b) = {a \in 1..Len(s) : before(a, b)}
  BY <1>2, Zenon DEF Precedes
<1> HIDE DEF less, k
<1>4. before(i, j) \/ before(j, i)
  BY <1>1, SMTT(30)
<1>5. ASSUME NEW a \in 1..Len(s), NEW b \in 1..Len(s), NEW c \in 1..Len(s),
             before(a, b), before(b, c)
      PROVE  before(a, c)
  <2>1. k(a) \in Int /\ k(b) \in Int /\ k(c) \in Int
    BY <1>1, Zenon
  <2>2. a \in Int /\ b \in Int /\ c \in Int
    BY SMTT(30)
  <2> QED BY <2>1, <2>2, <1>5, SMTT(30)
<1> HIDE DEF before
<1>6. ASSUME NEW a \in 1..Len(s), NEW b \in 1..Len(s), before(a, b)
      PROVE  Precedes(s, less, a) \cup {a} \subseteq Precedes(s, less, b)
  BY <1>3, <1>5, <1>6, SMTT(30)
<1>7. \/ Precedes(s, less, i) \cup {i} \subseteq Precedes(s, less, j)
      \/ Precedes(s, less, j) \cup {j} \subseteq Precedes(s, less, i)
  BY <1>4, <1>6, Zenon
<1> QED BY <1>7, Zenon DEF less

\* No position comes before itself.
LEMMA PrecedesIrreflexive ==
  ASSUME NEW S, NEW s \in Seq(S), NEW key \in [S -> Int], NEW i \in 1..Len(s)
  PROVE  /\ i \notin Precedes(s, ByKey(key, S), i)
         /\ Precedes(s, ByKey(key, S), i) \subseteq 1..Len(s)
BY SMTT(30) DEF Precedes, ByKey

\* Ranks are positions, and no two positions have the same.
LEMMA RankType ==
  ASSUME NEW S, NEW s \in Seq(S), NEW key \in [S -> Int], NEW i \in 1..Len(s)
  PROVE  /\ IsFiniteSet(Precedes(s, ByKey(key, S), i))
         /\ Rank(s, ByKey(key, S), i) \in 1..Len(s)
<1> DEFINE P == Precedes(s, ByKey(key, S), i)
<1>1. IsFiniteSet(1..Len(s)) /\ Cardinality(1..Len(s)) = Len(s)
  BY FS_Interval, SMTT(30)
<1>2. P \subseteq 1..Len(s) /\ i \notin P
  BY PrecedesIrreflexive, Zenon
<1> HIDE DEF P
<1>3. IsFiniteSet(P)
  BY Zenon, <1>1, <1>2, FS_Subset
<1>4. Cardinality(P) \in Nat
  BY <1>3, FS_CardinalityType, Zenon
<1>5. Cardinality(P \cup {i}) = Cardinality(P) + 1
  BY Zenon, <1>2, <1>3, FS_AddElement
<1>6. Cardinality(P \cup {i}) <= Len(s)
  <2>1. P \cup {i} \in SUBSET (1..Len(s))
    BY <1>2, Zenon
  <2> QED BY <2>1, <1>1, FS_Subset, Zenon
<1> QED BY <1>3, <1>4, <1>5, <1>6, SMTT(30) DEF P, Rank

\* In list_sort an element that has more elements before it goes further back.
LEMMA RankLess ==
  ASSUME NEW S, NEW s \in Seq(S), NEW key \in [S -> Int],
         NEW i \in 1..Len(s), NEW j \in 1..Len(s),
         Precedes(s, ByKey(key, S), i) \cup {i} \subseteq Precedes(s, ByKey(key, S), j)
  PROVE  Rank(s, ByKey(key, S), i) < Rank(s, ByKey(key, S), j)
<1> DEFINE P == Precedes(s, ByKey(key, S), i)
           Q == Precedes(s, ByKey(key, S), j)
<1>1. IsFiniteSet(P) /\ IsFiniteSet(Q) /\ i \notin P
  BY RankType, PrecedesIrreflexive, Zenon
<1> HIDE DEF P, Q
<1>2. Cardinality(P) \in Nat /\ Cardinality(Q) \in Nat
  BY <1>1, FS_CardinalityType, Zenon
<1>3. Cardinality(P \cup {i}) = Cardinality(P) + 1
  BY Zenon, <1>1, FS_AddElement
<1>4. Cardinality(P \cup {i}) <= Cardinality(Q)
  <2>1. P \cup {i} \in SUBSET Q
    BY Zenon DEF P, Q
  <2> QED BY <2>1, <1>1, FS_Subset, Zenon
<1> QED BY <1>2, <1>3, <1>4, SMTT(30) DEF P, Q, Rank

\* list_sort gives no two elements the same place.
LEMMA RankInjective ==
  ASSUME NEW S, NEW s \in Seq(S), NEW key \in [S -> Int],
         NEW i \in 1..Len(s), NEW j \in 1..Len(s),
         Rank(s, ByKey(key, S), i) = Rank(s, ByKey(key, S), j)
  PROVE  i = j
<1> SUFFICES ASSUME i # j PROVE FALSE
  BY Zenon
<1>1. \/ Rank(s, ByKey(key, S), i) < Rank(s, ByKey(key, S), j)
      \/ Rank(s, ByKey(key, S), j) < Rank(s, ByKey(key, S), i)
  BY PrecedesTotal, RankLess, Zenon
<1>2. /\ Rank(s, ByKey(key, S), i) \in Int
      /\ Rank(s, ByKey(key, S), j) \in Int
  BY RankType, SMTT(30)
<1> QED BY <1>1, <1>2, SMTT(30)

\* Every position is the rank of one: an injection of a finite set in itself.
LEMMA RankSurjective ==
  ASSUME NEW S, NEW s \in Seq(S), NEW key \in [S -> Int], NEW k \in 1..Len(s)
  PROVE  \E i \in 1..Len(s) : Rank(s, ByKey(key, S), i) = k
<1> DEFINE D == 1..Len(s)
           f == [i \in D |-> Rank(s, ByKey(key, S), i)]
<1>1. IsFiniteSet(D)
  BY FS_Interval, SMTT(30)
<1>2. f \in Injection(D, D)
  <2>1. f \in [D -> D]
    BY RankType, Zenon
  <2>2. \A i, j \in D : f[i] = f[j] => i = j
    BY RankInjective, Zenon
  <2> QED BY Zenon, <2>1, <2>2, Fun_IsInj
<1>3. f \in Surjection(D, D)
  BY <1>1, <1>2, FS_Injection, Zenon
<1>4. \E i \in D : f[i] = k
  <2>1. k \in D
    BY Zenon
  <2> HIDE DEF f, D
  <2> QED BY <2>1, <1>3, Zenon DEF Surjection
<1> QED BY <1>4, Zenon

\* A function on 1..m is a sequence of length m.
LEMMA SeqOfFunction ==
  ASSUME NEW S, NEW m \in Nat, NEW f \in [1..m -> S]
  PROVE  f \in Seq(S) /\ Len(f) = m
BY SMTT(30)

\* list_sort permutes the list: same elements, none linked twice.
LEMMA ListSort ==
  ASSUME NEW S, NEW s \in Seq(S), NEW key \in [S -> Int]
  PROVE  LET r == list_sort(s, ByKey(key, S))
         IN /\ r \in Seq(S)
            /\ Len(r) = Len(s)
            /\ Elems(r) = Elems(s)
            /\ NoDup(s) => NoDup(r)
<1> DEFINE n == Len(s)
           rk(i) == Rank(s, ByKey(key, S), i)
           at(k) == CHOOSE i \in 1..n : rk(i) = k
           r == list_sort(s, ByKey(key, S))
<1>1. n \in Nat /\ \A i \in 1..n : s[i] \in S
  BY SMTT(30)
<1>2. \A k \in 1..n : at(k) \in 1..n /\ rk(at(k)) = k
  BY ZenonT(60), RankSurjective
<1>3. \A i \in 1..n : rk(i) \in 1..n
  BY RankType, Zenon
<1>4. \A i, j \in 1..n : rk(i) = rk(j) => i = j
  BY RankInjective, Zenon
<1>5. \A k \in 1..n : r[k] = s[at(k)]
  BY Zenon DEF list_sort
<1>6. r \in [1..n -> S]
  BY <1>1, <1>2, Zenon DEF list_sort
<1> HIDE DEF r, rk, at
<1>7. r \in Seq(S) /\ Len(r) = n
  <2>1. n \in Nat
    BY <1>1, Zenon
  <2> HIDE DEF n
  <2> QED BY <2>1, <1>6, SeqOfFunction, Zenon
<1>8. \A i \in 1..n : at(rk(i)) = i
  BY <1>2, <1>3, <1>4, Zenon
<1>9. Elems(r) = Elems(s)
  <2>1. ASSUME NEW k \in 1..n PROVE r[k] \in Elems(s)
    BY Zenon, <1>2, <1>5 DEF Elems
  <2>2. ASSUME NEW i \in 1..n PROVE s[i] \in Elems(r)
    <3>1. rk(i) \in 1..n /\ r[rk(i)] = s[i]
      BY <1>3, <1>5, <1>8, Zenon
    <3> QED BY <3>1, <1>7, Zenon DEF Elems
  <2> QED BY Zenon, <2>1, <2>2, <1>7 DEF Elems
<1>10. ASSUME NoDup(s) PROVE NoDup(r)
  <2> SUFFICES ASSUME NEW k \in 1..n, NEW l \in 1..n, r[k] = r[l]
               PROVE  k = l
    BY <1>7, Zenon DEF NoDup
  <2>1. at(k) = at(l)
    BY ZenonT(60), <1>2, <1>5, <1>10 DEF NoDup
  <2> QED BY <2>1, <1>2, Zenon
<1> QED BY <1>7, <1>9, <1>10, Zenon DEF r

\* The front of a sorted list has the greatest key.
LEMMA ListSortFront ==
  ASSUME NEW S, NEW s \in Seq(S), NEW key \in [S -> Int], s # <<>>,
         NEW e \in Elems(s)
  PROVE  key[e] <= key[Head(list_sort(s, ByKey(key, S)))]
<1> DEFINE n == Len(s)
           rk(i) == Rank(s, ByKey(key, S), i)
           first == CHOOSE i \in 1..n : rk(i) = 1
<1>1. n \in Nat /\ 1 \in 1..n /\ \A i \in 1..n : s[i] \in S
  BY SMTT(30)
<1>2. first \in 1..n /\ rk(first) = 1
  BY ZenonT(60), <1>1, RankSurjective
<1>3. Head(list_sort(s, ByKey(key, S))) = s[first]
  <2>1. list_sort(s, ByKey(key, S))[1] = s[first]
    BY <1>1, Zenon DEF list_sort
  <2>2. list_sort(s, ByKey(key, S)) \in Seq(S) /\ Len(list_sort(s, ByKey(key, S))) = n
    BY ListSort, Zenon
  <2> QED BY <2>1, <2>2, <1>1, SMTT(30)
<1>4. Precedes(s, ByKey(key, S), first) = {}
  <2> HIDE DEF first
  <2>1. IsFiniteSet(Precedes(s, ByKey(key, S), first))
    BY <1>2, RankType, Zenon
  <2>2. Cardinality(Precedes(s, ByKey(key, S), first)) \in Nat
    BY <2>1, FS_CardinalityType, Zenon
  <2>3. Cardinality(Precedes(s, ByKey(key, S), first)) = 0
    BY <1>2, <2>2, SMTT(30) DEF Rank
  <2> QED BY <2>1, <2>3, FS_EmptySet, Zenon
<1> HIDE DEF first
<1>5. PICK j \in 1..n : s[j] = e
  BY Zenon DEF Elems
<1>6. <<s[j], s[first]>> \notin ByKey(key, S)
  BY Zenon, <1>4, <1>2 DEF Precedes
<1>7. s[j] \in S /\ s[first] \in S /\ key[s[j]] \in Int /\ key[s[first]] \in Int
  BY <1>1, <1>2, Zenon
<1>8. key[s[j]] <= key[s[first]]
  BY <1>6, <1>7, SMTT(30) DEF ByKey
<1> QED BY <1>3, <1>5, <1>8, Zenon

\* list_pop_front unlinks the front and nothing else.
LEMMA PopFront ==
  ASSUME NEW S, NEW s \in Seq(S), s # <<>>
  PROVE  /\ Head(s) \in Elems(s)
         /\ Head(s) \in S
         /\ Tail(s) \in Seq(S)
         /\ NoDup(s) => NoDup(Tail(s)) /\ Elems(Tail(s)) = Elems(s) \ {Head(s)}
<1>1. Len(s) \in Nat /\ Len(s) >= 1 /\ Head(s) = s[1] /\ s[1] \in S
  BY SMTT(30)
<1>2. /\ Tail(s) \in Seq(S)
      /\ Len(Tail(s)) = Len(s) - 1
      /\ \A i \in 1..(Len(s) - 1) : Tail(s)[i] = s[i + 1]
  BY SMTT(30)
<1>3. Head(s) \in Elems(s)
  BY <1>1, SMTT(30) DEF Elems
<1>4. ASSUME NoDup(s) PROVE NoDup(Tail(s))
  BY <1>1, <1>2, <1>4, SMTT(30) DEF NoDup
<1>5. ASSUME NoDup(s) PROVE Elems(Tail(s)) = Elems(s) \ {Head(s)}
  <2>1. ASSUME NEW i \in 1..(Len(s) - 1)
        PROVE  Tail(s)[i] \in Elems(s) /\ Tail(s)[i] # Head(s)
    <3>1. i + 1 \in 1..Len(s) /\ 1 \in 1..Len(s) /\ Tail(s)[i] = s[i + 1]
      BY <1>1, <1>2, SMTT(30)
    <3> QED BY <3>1, <1>1, <1>5, SMTT(30) DEF NoDup, Elems
  <2>2. ASSUME NEW i \in 1..Len(s), s[i] # Head(s) PROVE s[i] \in Elems(Tail(s))
    <3>1. i - 1 \in 1..Len(Tail(s)) /\ Tail(s)[i - 1] = s[i]
      BY <2>2, <1>1, <1>2, SMTT(30)
    <3> QED BY <3>1, Zenon DEF Elems
  <2> QED BY ZenonT(60), <2>1, <2>2, <1>2 DEF Elems
<1> QED BY <1>1, <1>2, <1>3, <1>4, <1>5, Zenon

-----------------------------------------------------------------------------
\* Inside lock_acquire and lock_release the holder member is what the code at
\* that point takes it to be.
HolderPlaced ==
  \A t \in Thread :
    /\ pc[t] \in {"clear", "rel_reset", "rel_compare", "rel_inherit", "rel_holder"}
         => holder[lk[t]] = t
    /\ pc[t] \in {"own", "try_own", "rel_up"} => holder[lk[t]] # t

IInv ==
  /\ TypeOK
  /\ ListsExact
  /\ HolderPlaced
  /\ MutualExclusion
  /\ NoLostWakeup
  /\ WaitingOnAccurate

-----------------------------------------------------------------------------
\* The comparator of the ready and waiters lists compares an integer key.
LEMMA ByPriorityIsByKey ==
  ASSUME NEW pri PROVE ByPriority(pri) = ByKey(pri, Thread)
BY Zenon DEF ByPriority, ByKey

\* schedule keeps a ready list that is exact for the statuses it is given.
LEMMA ScheduleExact ==
  ASSUME NEW rl \in Seq(Thread), NEW st \in [Thread -> Status],
         NoDup(rl), \A u \in Thread : (u \in Elems(rl)) <=> (st[u] = "READY"),
         \A u \in Thread : st[u] # "RUNNING",
         schedule(rl, st)
  PROVE  /\ cur' \in Thread \cup {Idle}
         /\ ready_list' \in Seq(Thread)
         /\ status' \in [Thread -> Status]
         /\ ReadyListExact'
         /\ \A u \in Thread : \/ status'[u] = st[u]
                              \/ st[u] = "READY" /\ status'[u] = "RUNNING"
<1>1. CASE rl = <<>>
  <2>1. Elems(rl) = {}
    BY <1>1, SMTT(30) DEF Elems
  <2> QED BY <1>1, <2>1, ThreadAssumption, Zenon DEF schedule, ReadyListExact
<1>2. CASE rl # <<>>
  <2>1. /\ Head(rl) \in Thread /\ Head(rl) \in Elems(rl)
        /\ Tail(rl) \in Seq(Thread) /\ NoDup(Tail(rl))
        /\ Elems(Tail(rl)) = Elems(rl) \ {Head(rl)}
    BY <1>2, PopFront, Zenon
  <2>2. /\ cur' = Head(rl)
        /\ ready_list' = Tail(rl)
        /\ status' = [st EXCEPT ![Head(rl)] = "RUNNING"]
    BY <1>2, Zenon DEF schedule
  <2>3. status' \in [Thread -> Status]
    BY <2>1, <2>2, Zenon DEF Status
  <2> QED BY <2>1, <2>2, <2>3, Zenon DEF ReadyListExact
<1> QED BY <1>1, <1>2, Zenon

\* thread_block, thread_yield and thread_exit by the running thread, and
\* thread_unblock of a thread that is in no list, keep the ready list exact and
\* change no other status than they must.
LEMMA BlockExact ==
  ASSUME TypeOK, ReadyListExact, NEW t \in Thread, cur = t,
         NEW s \in {"BLOCKED", "DYING"},
         schedule(ready_list, [status EXCEPT ![t] = s])
  PROVE  /\ cur' \in Thread \cup {Idle}
         /\ ready_list' \in Seq(Thread)
         /\ status' \in [Thread -> Status]
         /\ ReadyListExact'
         /\ status'[t] = s
         /\ \A u \in Thread \ {t} : \/ status'[u] = status[u]
                                    \/ status[u] = "READY" /\ status'[u] = "RUNNING"
<1> DEFINE st == [status EXCEPT ![t] = s]
<1>1. /\ st \in [Thread -> Status]
      /\ \A u \in Thread : st[u] = IF u = t THEN s ELSE status[u]
  BY Zenon DEF TypeOK, ThreadVarsOK, Status
<1>2. /\ ready_list \in Seq(Thread) /\ NoDup(ready_list)
      /\ \A u \in Thread : (u \in Elems(ready_list)) <=> (st[u] = "READY")
      /\ \A u \in Thread : st[u] # "RUNNING"
  BY <1>1, SMTT(30) DEF TypeOK, ThreadVarsOK, ReadyListExact
<1> HIDE DEF st
<1>3. schedule(ready_list, st)
  BY Zenon DEF st
<1> QED BY <1>1, <1>2, <1>3, ScheduleExact, ZenonT(30)

\* thread_yield leaves the ready list exact.
LEMMA YieldExact ==
  ASSUME TypeOK, ReadyListExact, NEW t \in Thread, cur = t, thread_yield(t)
  PROVE  /\ cur' \in Thread \cup {Idle}
         /\ ready_list' \in Seq(Thread)
         /\ status' \in [Thread -> Status]
         /\ ReadyListExact'
         /\ \A u \in Thread : \/ status'[u] = status[u]
                              \/ /\ status[u] \in {"READY", "RUNNING"}
                                 /\ status'[u] \in {"READY", "RUNNING"}
<1> DEFINE st == [status EXCEPT ![t] = "READY"]
           rl == list_insert_ordered(ready_list, t, ByPriority(priority))
<1>1. /\ st \in [Thread -> Status]
      /\ \A u \in Thread : st[u] = IF u = t THEN "READY" ELSE status[u]
  BY Zenon DEF TypeOK, ThreadVarsOK, Status
<1>2. status[t] = "RUNNING" /\ t \notin Elems(ready_list)
  BY Zenon DEF ReadyListExact
<1>3. rl \in Seq(Thread) /\ Elems(rl) = Elems(ready_list) \cup {t} /\ NoDup(rl)
  BY <1>2, ListInsertOrdered, SMTT(30) DEF TypeOK, ThreadVarsOK, ReadyListExact
<1>4. schedule(rl, st)
  BY Zenon DEF thread_yield
<1> HIDE DEF st, rl
<1>5. /\ \A u \in Thread : (u \in Elems(rl)) <=> (st[u] = "READY")
      /\ \A u \in Thread : st[u] # "RUNNING"
  BY <1>1, <1>3, Zenon DEF ReadyListExact
<1> QED BY ZenonT(60), <1>1, <1>2, <1>3, <1>4, <1>5, ScheduleExact

\* thread_unblock of a thread that is not ready leaves the ready list exact.
LEMMA UnblockExact ==
  ASSUME TypeOK, ReadyListExact, NEW u \in Thread, status[u] \notin {"READY", "RUNNING"},
         NEW pri, thread_unblock(u, pri)
  PROVE  /\ cur' = cur
         /\ ready_list' \in Seq(Thread)
         /\ status' = [status EXCEPT ![u] = "READY"]
         /\ status' \in [Thread -> Status]
         /\ ReadyListExact'
<1>1. u \notin Elems(ready_list)
  BY Zenon DEF ReadyListExact
<1>2. /\ ready_list' \in Seq(Thread)
      /\ Elems(ready_list') = Elems(ready_list) \cup {u}
      /\ NoDup(ready_list')
  BY <1>1, ListInsertOrdered, SMTT(30) DEF thread_unblock, TypeOK, ThreadVarsOK, ReadyListExact
<1>3. /\ cur' = cur
      /\ status' = [status EXCEPT ![u] = "READY"]
      /\ status' \in [Thread -> Status]
  BY Zenon DEF thread_unblock, TypeOK, ThreadVarsOK, Status
<1>4. ReadyListExact'
  <2>1. \A v \in Thread : status'[v] = IF v = u THEN "READY" ELSE status[v]
    BY <1>3, Zenon DEF TypeOK, ThreadVarsOK
  <2> QED BY ZenonT(60), <1>2, <1>3, <2>1 DEF ReadyListExact
<1> QED BY <1>2, <1>3, <1>4, Zenon

-----------------------------------------------------------------------------
\* The initial state.
LEMMA InitIInv == Init => IInv
<1> SUFFICES ASSUME Init PROVE IInv
  BY Zenon
<1> USE ThreadAssumption, SynchAssumption DEF Init, ThreadInit
<1>1. TypeOK
  <2>1. ThreadVarsOK
    BY SMTT(30) DEF ThreadVarsOK, Status, Pri
  <2>2. pc \in [Thread -> PC] /\ \A t \in Thread : pc[t] \in ThreadPC
    BY Zenon DEF PC, ThreadPC
  <2>3. \A t \in Thread : pc[t] \notin {"don_read", "don_compare", "don_store", "don_chain"}
    BY Zenon
  <2>4. undefined \in BOOLEAN
    BY ZenonT(60)
  <2>5. waiters \in [Lock -> Seq(Thread)]
    BY SMTT(30)
  <2> QED BY ZenonT(60), <2>1, <2>2, <2>3, <2>4, <2>5 DEF TypeOK
<1>2. Elems(<<>>) = {} /\ NoDup(<<>>)
  BY SMTT(30) DEF Elems, NoDup
<1>3. ListsExact
  BY <1>2, Zenon DEF ListsExact, ReadyListExact
<1>4. HolderPlaced /\ MutualExclusion
  BY Zenon DEF HolderPlaced, MutualExclusion, Owns
<1>5. NoLostWakeup /\ WaitingOnAccurate
  BY Zenon DEF NoLostWakeup, WaitingOnAccurate
<1> QED BY <1>1, <1>3, <1>4, <1>5, Zenon DEF IInv

-----------------------------------------------------------------------------
\* Every step is one of the current thread: another thread's place in the code
\* and the lock it works on stay as they are.
LEMMA StepFrame ==
  ASSUME TypeOK, NEW t \in Thread, Step(t)
  PROVE  /\ cur = t
         /\ \A u \in Thread \ {t} : /\ pc'[u] = pc[u] /\ lk'[u] = lk[u]
                                    /\ cur_lock'[u] = cur_lock[u] /\ chained'[u] = chained[u]
<1> USE DEF TypeOK, Running, Call, Goto, Return, lockVars, compare_priority
<1>1. CASE (ThreadCall(t) \/ Preempt(t)) /\ UNCHANGED lockVars
  BY <1>1, ZenonT(30)
     DEF ThreadCall, UndonatedCall, thread_create, thread_set_priority, SetPriorityCompare,
         SetPriorityInherit, SetPriorityCheck, YieldAtEnd, Preempt
<1>2. CASE Acquire(t)
  BY ZenonT(150), <1>2
     DEF Acquire, lock_acquire, lock_try_acquire, DonateStart, DonateRead, DonateCompare,
         DonateStore, DonateChain, DonateInsert, DonateLink, SemaDown, AcquireOwn, AcquireClear,
         TryAcquireOwn
<1>3. CASE Release(t)
  BY ZenonT(60), <1>3
     DEF Release, lock_release, ReleaseReset, ReleaseCompare, ReleaseInherit, ReleaseHolder,
         SemaUp
<1>4. CASE Exit(t)
  BY <1>4, Zenon DEF Exit, thread_exit
<1> QED BY <1>1, <1>2, <1>3, <1>4, Zenon DEF Step

\* The ready list and the statuses: what a step of the running thread t does to
\* them, whichever action it is, other than blocking in sema_down, waking in
\* sema_up and exiting.
Rescheduled ==
  /\ cur' \in Thread \cup {Idle}
  /\ ready_list' \in Seq(Thread)
  /\ status' \in [Thread -> Status]
  /\ ReadyListExact'
  /\ \A u \in Thread : status[u] = "BLOCKED" <=> status'[u] = "BLOCKED"
  /\ \A u \in Thread : status[u] \in {"READY", "RUNNING"}
                         => status'[u] \in {"READY", "RUNNING"}

\* A step that touches no list and no status is one that keeps them exact.
LEMMA UnscheduledIsRescheduled ==
  TypeOK /\ ReadyListExact /\ Unscheduled => Rescheduled
BY Zenon DEF TypeOK, ThreadVarsOK, ReadyListExact, Unscheduled, Rescheduled

\* Every scheduler call, and preemption, keeps the ready list exact and blocks or
\* unblocks nobody.
LEMMA ThreadRescheduled ==
  ASSUME TypeOK, ReadyListExact, NEW t \in Thread, cur = t, ThreadCall(t) \/ Preempt(t)
  PROVE  Rescheduled
<1>1. ASSUME NEW u \in Thread, NEW p \in Pri, thread_create(t, u, p) PROVE Rescheduled
  <2>1. status[u] = "NONE" /\ thread_unblock(u, priority')
    BY <1>1, Zenon DEF thread_create
  <2>2. /\ cur' = cur /\ ready_list' \in Seq(Thread) /\ ReadyListExact'
        /\ status' = [status EXCEPT ![u] = "READY"] /\ status' \in [Thread -> Status]
    BY <2>1, UnblockExact, Zenon
  <2> QED BY ZenonT(60), <2>1, <2>2 DEF Rescheduled, TypeOK, ThreadVarsOK
<1>2. ASSUME thread_yield(t) PROVE Rescheduled
  BY <1>2, YieldExact, Zenon DEF Rescheduled
<1>3. ASSUME NEW p \in Pri, thread_set_priority(t, p) PROVE Rescheduled
  BY ZenonT(60), <1>3, UnscheduledIsRescheduled DEF thread_set_priority
<1>4. CASE SetPriorityCompare(t) \/ SetPriorityInherit(t) \/ SetPriorityCheck(t)
  BY <1>4, UnscheduledIsRescheduled, Zenon
     DEF SetPriorityCompare, SetPriorityInherit, SetPriorityCheck
<1> QED BY ZenonT(60), <1>1, <1>2, <1>3, <1>4 DEF ThreadCall, UndonatedCall, YieldAtEnd, Preempt

-----------------------------------------------------------------------------
\* The schedulers' variables of a step that is not sema_down, sema_up or exit.
LEMMA OtherStepsRescheduled ==
  ASSUME TypeOK, ReadyListExact, NEW t \in Thread, Step(t),
         ~SemaDown(t), ~SemaUp(t), ~Exit(t)
  PROVE  Rescheduled
<1>1. cur = t
  BY StepFrame, Zenon
<1>2. CASE (ThreadCall(t) \/ Preempt(t)) /\ UNCHANGED lockVars
  BY ZenonT(60), <1>1, <1>2, ThreadRescheduled
<1>3. CASE Acquire(t)
  BY ZenonT(60), <1>3, UnscheduledIsRescheduled
     DEF Acquire, lock_acquire, lock_try_acquire, DonateStart, DonateRead, DonateCompare,
         DonateStore, DonateChain, DonateInsert, DonateLink, AcquireOwn, AcquireClear,
         TryAcquireOwn
<1>4. CASE Release(t)
  BY ZenonT(60), <1>4, UnscheduledIsRescheduled
     DEF Release, lock_release, ReleaseReset, ReleaseCompare, ReleaseInherit, ReleaseHolder
<1> QED BY ZenonT(60), <1>2, <1>3, <1>4 DEF Step

\* Such a step leaves the waiters lists alone and ups no semaphore.
LEMMA OtherStepsFrame ==
  ASSUME TypeOK, NEW t \in Thread, Step(t), ~SemaDown(t), ~SemaUp(t)
  PROVE  /\ waiters' = waiters
         /\ \A l \in Lock : value'[l] > 0 => value[l] > 0
<1> USE DEF TypeOK, lockVars
<1>1. CASE (ThreadCall(t) \/ Preempt(t)) /\ UNCHANGED lockVars
  BY ZenonT(60), <1>1
<1>2. CASE Acquire(t)
  BY ZenonT(60), <1>2
     DEF Acquire, lock_acquire, lock_try_acquire, DonateStart, DonateRead, DonateCompare,
         DonateStore, DonateChain, DonateInsert, DonateLink, AcquireOwn, AcquireClear,
         TryAcquireOwn
<1>3. CASE Release(t)
  BY <1>3, Zenon
     DEF Release, lock_release, ReleaseReset, ReleaseCompare, ReleaseInherit, ReleaseHolder
<1>4. CASE Exit(t)
  BY <1>4, Zenon DEF Exit
<1> QED BY ZenonT(60), <1>1, <1>2, <1>3, <1>4 DEF Step

\* sema_up wakes a waiter, which was BLOCKED, and takes it out of the waiters.
LEMMA SemaUpWakes ==
  ASSUME TypeOK, ListsExact, NEW t \in Thread, SemaUp(t), waiters[lk[t]] # <<>>,
         NEW w, w = Head(list_sort(waiters[lk[t]], ByPriority(priority)))
  PROVE  /\ lk[t] \in Lock
         /\ w \in Thread
         /\ w \in Elems(waiters[lk[t]])
         /\ status[w] = "BLOCKED" /\ lk[w] = lk[t] /\ pc[w] = "down"
         /\ \A e \in Elems(waiters[lk[t]]) : priority[e] <= priority[w]
         /\ waiters' \in [Lock -> Seq(Thread)]
         /\ \A l \in Lock \ {lk[t]} : waiters'[l] = waiters[l]
         /\ NoDup(waiters'[lk[t]])
         /\ Elems(waiters'[lk[t]]) = Elems(waiters[lk[t]]) \ {w}
         /\ cur' = cur
         /\ ready_list' \in Seq(Thread)
         /\ status' = [status EXCEPT ![w] = "READY"]
         /\ status' \in [Thread -> Status]
         /\ ReadyListExact'
<1> DEFINE l == lk[t]
           s == waiters[l]
           r == list_sort(s, ByPriority(priority))
<1>1. l \in Lock /\ s \in Seq(Thread) /\ NoDup(s)
  BY ZenonT(60) DEF TypeOK, SemaUp, Running, ThreadPC, ListsExact
<1>2. priority \in [Thread -> Int] /\ ByPriority(priority) = ByKey(priority, Thread)
  BY ThreadAssumption, ByPriorityIsByKey, SMTT(30) DEF TypeOK, ThreadVarsOK, Pri
<1>3. r \in Seq(Thread) /\ Len(r) = Len(s) /\ Elems(r) = Elems(s) /\ NoDup(r)
  BY <1>1, <1>2, ListSort, SMTT(30)
<1>4. r # <<>>
  BY <1>1, <1>3, SMTT(30)
<1>5. /\ w \in Thread /\ w \in Elems(s)
      /\ Tail(r) \in Seq(Thread) /\ NoDup(Tail(r))
      /\ Elems(Tail(r)) = Elems(s) \ {w}
  BY ZenonT(60), <1>3, <1>4, PopFront
<1>6. \A e \in Elems(s) : priority[e] <= priority[w]
  BY ZenonT(60), <1>1, <1>2, ListSortFront
<1>7. status[w] = "BLOCKED" /\ lk[w] = l /\ pc[w] = "down"
  BY <1>1, <1>5, SMTT(30) DEF ListsExact
<1>8. waiters' = [waiters EXCEPT ![l] = Tail(r)] /\ thread_unblock(w, priority)
  BY ZenonT(60) DEF SemaUp
<1>9. /\ cur' = cur
      /\ ready_list' \in Seq(Thread)
      /\ status' = [status EXCEPT ![w] = "READY"]
      /\ status' \in [Thread -> Status]
      /\ ReadyListExact'
  BY ZenonT(60), <1>5, <1>7, <1>8, UnblockExact DEF ListsExact
<1> HIDE DEF r
<1>10. /\ waiters' \in [Lock -> Seq(Thread)]
       /\ \A m \in Lock \ {l} : waiters'[m] = waiters[m]
       /\ waiters'[l] = Tail(r)
  BY ZenonT(60), <1>1, <1>5, <1>8 DEF TypeOK
<1> QED BY <1>1, <1>5, <1>6, <1>7, <1>9, <1>10, Zenon

\* sema_down, where it waits: the thread joins the waiters and blocks.
LEMMA SemaDownBlocks ==
  ASSUME TypeOK, ListsExact, NEW t \in Thread, SemaDown(t), value[lk[t]] = 0
  PROVE  /\ lk[t] \in Lock
         /\ waiters' \in [Lock -> Seq(Thread)]
         /\ \A l \in Lock \ {lk[t]} : waiters'[l] = waiters[l]
         /\ NoDup(waiters'[lk[t]])
         /\ Elems(waiters'[lk[t]]) = Elems(waiters[lk[t]]) \cup {t}
         /\ cur' \in Thread \cup {Idle}
         /\ ready_list' \in Seq(Thread)
         /\ status' \in [Thread -> Status]
         /\ ReadyListExact'
         /\ status'[t] = "BLOCKED"
         /\ \A u \in Thread \ {t} : \/ status'[u] = status[u]
                                    \/ status[u] = "READY" /\ status'[u] = "RUNNING"
<1> DEFINE l == lk[t]
           r == list_insert_ordered(waiters[l], t, ByPriority(priority))
<1>1. /\ cur = t /\ pc[t] = "down" /\ l \in Lock
      /\ waiters[l] \in Seq(Thread) /\ NoDup(waiters[l])
  BY ZenonT(60) DEF TypeOK, SemaDown, Running, ThreadPC, ListsExact
<1>2. t \notin Elems(waiters[l])
  BY <1>1, Zenon DEF ListsExact, ReadyListExact
<1>3. r \in Seq(Thread) /\ Elems(r) = Elems(waiters[l]) \cup {t} /\ NoDup(r)
  BY <1>1, <1>2, ListInsertOrdered, SMTT(30)
<1>4. waiters' = [waiters EXCEPT ![l] = r] /\ thread_block(t)
  BY ZenonT(60) DEF SemaDown
<1> HIDE DEF r
<1>5. /\ waiters' \in [Lock -> Seq(Thread)]
      /\ \A m \in Lock \ {l} : waiters'[m] = waiters[m]
      /\ waiters'[l] = r
  BY ZenonT(60), <1>1, <1>3, <1>4 DEF TypeOK
<1> QED BY Zenon, <1>1, <1>3, <1>4, <1>5, BlockExact DEF thread_block, ListsExact

-----------------------------------------------------------------------------
\* The types of the variables that the scheduler does not own.
DataOK ==
  /\ priority \in [Thread -> Pri]
  /\ base_priority \in [Thread -> Pri]
  /\ donors \in [Thread -> SUBSET Thread]
  /\ highest_prio \in [Thread -> Thread]
  /\ budget \in [Thread -> Nat]
  /\ holder \in [Lock -> Thread \cup {NoThread}]
  /\ value \in [Lock -> Nat]
  /\ waiting_on \in [Thread -> Lock \cup {NoLock}]
  /\ lk \in [Thread -> Lock \cup {NoLock}]
  /\ cur_lock \in [Thread -> Lock \cup {NoLock}]
  /\ depth \in [Thread -> Nat]
  /\ chained \in [Thread -> Thread \cup {NoThread}]
  /\ undefined \in BOOLEAN

\* Every statement stores values of the right types.
LEMMA DataStep ==
  ASSUME TypeOK, NEW t \in Thread, Step(t)
  PROVE  DataOK'
<1> USE DEF Running, Goto, Return, Call, lockVars, priorityVars
<1>1. /\ DataOK
      /\ pc[t] \notin ThreadPC => lk[t] \in Lock
      /\ pc[t] = "don_read" => cur_lock[t] \in Lock
      /\ pc[t] \in {"don_compare", "don_store", "don_chain"} => chained[t] \in Thread
  BY ZenonT(60) DEF TypeOK, ThreadVarsOK, DataOK
<1> USE DEF DataOK
<1>2. CASE (ThreadCall(t) \/ Preempt(t)) /\ UNCHANGED lockVars
  <2>1. ASSUME NEW u \in Thread, NEW p \in Pri, thread_create(t, u, p) PROVE DataOK'
    BY ZenonT(60), <1>1, <1>2, <2>1 DEF thread_create
  <2>2. ASSUME NEW p \in Pri, thread_set_priority(t, p) PROVE DataOK'
    BY <1>1, <1>2, <2>2, SMTT(30) DEF thread_set_priority, reset_priority
  <2>3. CASE SetPriorityCompare(t)
    BY ZenonT(60), <1>1, <1>2, <2>3 DEF SetPriorityCompare, compare_priority
  <2>4. CASE SetPriorityInherit(t)
    BY ZenonT(60), <1>1, <1>2, <2>4 DEF SetPriorityInherit, inherit_priority
  <2>5. CASE SetPriorityCheck(t)
    BY ZenonT(60), <1>1, <1>2, <2>5 DEF SetPriorityCheck
  <2>6. CASE YieldAtEnd(t)
    BY ZenonT(60), <1>1, <1>2, <2>6 DEF YieldAtEnd
  <2>7. CASE Preempt(t)
    BY ZenonT(60), <1>1, <1>2, <2>7 DEF Preempt
  <2> QED BY ZenonT(60), <1>2, <2>1, <2>2, <2>3, <2>4, <2>5, <2>6, <2>7
             DEF ThreadCall, UndonatedCall
<1>3. CASE Acquire(t)
  <2>1. ASSUME NEW l \in Lock, lock_acquire(t, l) PROVE DataOK'
    BY <1>1, <2>1, SMTT(30) DEF lock_acquire
  <2>2. ASSUME NEW l \in Lock, lock_try_acquire(t, l) PROVE DataOK'
    BY <1>1, <2>2, SMTT(30) DEF lock_try_acquire
  <2>3. CASE DonateStart(t)
    BY ZenonT(60), <1>1, <2>3 DEF DonateStart
  <2>4. CASE DonateRead(t)
    BY ZenonT(60), <1>1, <2>4 DEF DonateRead
  <2>5. CASE DonateCompare(t)
    BY ZenonT(60), <1>1, <2>5 DEF DonateCompare
  <2>6. CASE DonateStore(t)
    BY ZenonT(60), <1>1, <2>6 DEF DonateStore
  <2>7. CASE DonateChain(t)
    <3>1. chained[t] \in Thread /\ waiting_on[chained[t]] \in Lock \cup {NoLock}
      BY ZenonT(60), <1>1, <2>7 DEF DonateChain
    <3>2. cur_lock' \in [Thread -> Lock \cup {NoLock}] /\ depth' \in [Thread -> Nat]
      BY <1>1, <2>7, <3>1, SMTT(30) DEF DonateChain
    <3>3. undefined' \in BOOLEAN
      BY ZenonT(60), <2>7 DEF DonateChain
    <3> QED BY ZenonT(60), <1>1, <2>7, <3>2, <3>3 DEF DonateChain
  <2>8. CASE DonateInsert(t)
    BY ZenonT(60), <1>1, <2>8 DEF DonateInsert
  <2>9. CASE DonateLink(t)
    <3>1. donors' \in [Thread -> SUBSET Thread]
      BY ZenonT(60), <1>1, <2>9 DEF DonateLink
    <3>2. undefined' \in BOOLEAN
      BY ZenonT(60), <1>1, <2>9 DEF DonateLink, Donating
    <3> QED BY ZenonT(60), <1>1, <2>9, <3>1, <3>2 DEF DonateLink
  <2>10. CASE SemaDown(t)
    BY <1>1, <2>10, SMTT(30) DEF SemaDown
  <2>11. CASE AcquireOwn(t)
    BY Zenon, <1>1, <2>11 DEF AcquireOwn
  <2>12. CASE AcquireClear(t)
    BY <1>1, <2>12, Zenon DEF AcquireClear
  <2>13. CASE TryAcquireOwn(t)
    BY ZenonT(60), <1>1, <2>13 DEF TryAcquireOwn
  <2> QED BY ZenonT(60), <1>3, <2>1, <2>2, <2>3, <2>4, <2>5, <2>6, <2>7, <2>8, <2>9, <2>10, <2>11,
             <2>12, <2>13 DEF Acquire
<1>4. CASE Release(t)
  <2>1. ASSUME NEW l \in Lock, lock_release(t, l) PROVE DataOK'
    BY ZenonT(60), <1>1, <2>1 DEF lock_release
  <2>2. CASE ReleaseReset(t)
    BY ZenonT(60), <1>1, <2>2 DEF ReleaseReset, reset_priority
  <2>3. CASE ReleaseCompare(t)
    BY ZenonT(60), <1>1, <2>3 DEF ReleaseCompare, compare_priority
  <2>4. CASE ReleaseInherit(t)
    BY ZenonT(60), <1>1, <2>4 DEF ReleaseInherit, inherit_priority
  <2>5. CASE ReleaseHolder(t)
    BY ZenonT(60), <1>1, <2>5 DEF ReleaseHolder
  <2>6. CASE SemaUp(t)
    <3>1. value' = [value EXCEPT ![lk[t]] = @ + 1] /\ lk' = [lk EXCEPT ![t] = NoLock]
      BY ZenonT(60), <2>6 DEF SemaUp
    <3>2. lk[t] \in Lock
      BY ZenonT(60), <1>1, <2>6 DEF SemaUp, ThreadPC
    <3>3. value[lk[t]] + 1 \in Nat
      BY <1>1, <3>2, SMTT(30)
    <3>4. value' \in [Lock -> Nat]
      BY ZenonT(60), <1>1, <3>1, <3>2, <3>3
    <3>5. lk' \in [Thread -> Lock \cup {NoLock}]
      BY ZenonT(60), <1>1, <3>1
    <3> QED BY <1>1, <2>6, <3>4, <3>5, Zenon DEF SemaUp
  <2> QED BY <1>4, <2>1, <2>2, <2>3, <2>4, <2>5, <2>6, Zenon DEF Release
<1>5. CASE Exit(t)
  BY ZenonT(60), <1>1, <1>5 DEF Exit, thread_exit, Donating
<1> QED BY ZenonT(60), <1>2, <1>3, <1>4, <1>5 DEF Step

\* Where the thread goes: it has its lock while it is inside a lock function,
\* and a lock and a holder while it is in the loop of donate_priority.
PlaceOK(t) ==
  /\ pc[t] \notin ThreadPC => lk[t] \in Lock
  /\ pc[t] = "don_read" => cur_lock[t] \in Lock
  /\ pc[t] \in {"don_compare", "don_store", "don_chain"} => chained[t] \in Thread

\* Every statement leaves the thread at a place whose local variables are set.
LEMMA PlaceStep ==
  ASSUME TypeOK, NEW t \in Thread, Step(t)
  PROVE  pc' \in [Thread -> PC] /\ PlaceOK(t)'
<1> USE DEF PC, ThreadPC, Running, Goto, Return, Call, lockVars
<1>1. /\ pc \in [Thread -> PC] /\ lk \in [Thread -> Lock \cup {NoLock}]
      /\ cur_lock \in [Thread -> Lock \cup {NoLock}]
      /\ waiting_on \in [Thread -> Lock \cup {NoLock}]
      /\ chained \in [Thread -> Thread \cup {NoThread}]
      /\ holder \in [Lock -> Thread \cup {NoThread}]
      /\ PlaceOK(t)
  BY ZenonT(60) DEF TypeOK, PlaceOK
<1> USE DEF PlaceOK
<1>2. CASE (ThreadCall(t) \/ Preempt(t)) /\ UNCHANGED lockVars
  <2>1. ASSUME NEW u \in Thread, NEW p \in Pri, thread_create(t, u, p)
        PROVE  pc' \in [Thread -> PC] /\ PlaceOK(t)'
    BY ZenonT(60), <1>1, <1>2, <2>1 DEF thread_create
  <2>2. ASSUME NEW p \in Pri, thread_set_priority(t, p)
        PROVE  pc' \in [Thread -> PC] /\ PlaceOK(t)'
    BY ZenonT(60), <1>1, <1>2, <2>2 DEF thread_set_priority
  <2>3. CASE SetPriorityCompare(t)
    BY ZenonT(60), <1>1, <1>2, <2>3 DEF SetPriorityCompare, compare_priority
  <2>4. CASE SetPriorityInherit(t)
    BY ZenonT(60), <1>1, <1>2, <2>4 DEF SetPriorityInherit
  <2>5. CASE SetPriorityCheck(t)
    BY ZenonT(60), <1>1, <1>2, <2>5 DEF SetPriorityCheck
  <2>6. CASE YieldAtEnd(t)
    BY ZenonT(60), <1>1, <1>2, <2>6 DEF YieldAtEnd
  <2>7. CASE Preempt(t)
    BY ZenonT(60), <1>1, <1>2, <2>7 DEF Preempt
  <2> QED BY ZenonT(60), <1>2, <2>1, <2>2, <2>3, <2>4, <2>5, <2>6, <2>7
             DEF ThreadCall, UndonatedCall
<1>3. CASE Acquire(t)
  <2>1. ASSUME NEW l \in Lock, lock_acquire(t, l)
        PROVE  pc' \in [Thread -> PC] /\ PlaceOK(t)'
    BY ZenonT(60), <1>1, <2>1 DEF lock_acquire
  <2>2. ASSUME NEW l \in Lock, lock_try_acquire(t, l)
        PROVE  pc' \in [Thread -> PC] /\ PlaceOK(t)'
    BY ZenonT(60), <1>1, <2>2 DEF lock_try_acquire
  <2>3. CASE DonateStart(t)
    BY ZenonT(60), <1>1, <2>3 DEF DonateStart
  <2>4. CASE DonateRead(t)
    BY ZenonT(60), <1>1, <2>4 DEF DonateRead
  <2>5. CASE DonateCompare(t)
    BY ZenonT(60), <1>1, <2>5 DEF DonateCompare
  <2>6. CASE DonateStore(t)
    BY ZenonT(60), <1>1, <2>6 DEF DonateStore
  <2>7. CASE DonateChain(t)
    BY ZenonT(60), <1>1, <2>7 DEF DonateChain
  <2>8. CASE DonateInsert(t)
    BY ZenonT(60), <1>1, <2>8 DEF DonateInsert
  <2>9. CASE DonateLink(t)
    BY ZenonT(60), <1>1, <2>9 DEF DonateLink
  <2>10. CASE SemaDown(t)
    BY ZenonT(60), <1>1, <2>10 DEF SemaDown
  <2>11. CASE AcquireOwn(t)
    BY ZenonT(60), <1>1, <2>11 DEF AcquireOwn
  <2>12. CASE AcquireClear(t)
    BY ZenonT(60), <1>1, <2>12 DEF AcquireClear
  <2>13. CASE TryAcquireOwn(t)
    BY ZenonT(60), <1>1, <2>13 DEF TryAcquireOwn
  <2> QED BY ZenonT(60), <1>3, <2>1, <2>2, <2>3, <2>4, <2>5, <2>6, <2>7, <2>8, <2>9, <2>10, <2>11,
             <2>12, <2>13 DEF Acquire
<1>4. CASE Release(t)
  <2>1. ASSUME NEW l \in Lock, lock_release(t, l)
        PROVE  pc' \in [Thread -> PC] /\ PlaceOK(t)'
    BY ZenonT(60), <1>1, <2>1 DEF lock_release
  <2>2. CASE ReleaseReset(t)
    BY ZenonT(60), <1>1, <2>2 DEF ReleaseReset
  <2>3. CASE ReleaseCompare(t)
    BY ZenonT(60), <1>1, <2>3 DEF ReleaseCompare, compare_priority
  <2>4. CASE ReleaseInherit(t)
    BY ZenonT(60), <1>1, <2>4 DEF ReleaseInherit
  <2>5. CASE ReleaseHolder(t)
    BY ZenonT(60), <1>1, <2>5 DEF ReleaseHolder
  <2>6. CASE SemaUp(t)
    BY ZenonT(60), <1>1, <2>6 DEF SemaUp
  <2> QED BY ZenonT(60), <1>4, <2>1, <2>2, <2>3, <2>4, <2>5, <2>6 DEF Release
<1>5. CASE Exit(t)
  BY ZenonT(60), <1>1, <1>5 DEF Exit, thread_exit
<1> QED BY ZenonT(60), <1>2, <1>3, <1>4, <1>5 DEF Step

\* Every step keeps the type invariant.
LEMMA TypeStep ==
  ASSUME IInv, NEW t \in Thread, Step(t)
  PROVE  TypeOK'
<1>1. TypeOK /\ ListsExact /\ ReadyListExact /\ cur = t
  BY ZenonT(60), StepFrame DEF IInv, ListsExact
<1>2. /\ cur' \in Thread \cup {Idle} /\ status' \in [Thread -> Status]
      /\ ready_list' \in Seq(Thread) /\ waiters' \in [Lock -> Seq(Thread)]
  <2>1. CASE SemaDown(t)
    BY ZenonT(60), <1>1, <2>1, SemaDownBlocks DEF SemaDown, Unscheduled, TypeOK, ThreadVarsOK
  <2>2. CASE SemaUp(t)
    BY ZenonT(60), <1>1, <2>2, SemaUpWakes DEF SemaUp, Unscheduled, TypeOK, ThreadVarsOK
  <2>3. CASE Exit(t)
    BY Zenon, <1>1, <2>3, BlockExact DEF Exit, thread_exit, TypeOK
  <2>4. CASE ~SemaDown(t) /\ ~SemaUp(t) /\ ~Exit(t)
    BY ZenonT(60), <1>1, <2>4, OtherStepsRescheduled, OtherStepsFrame DEF Rescheduled, TypeOK
  <2> QED BY ZenonT(60), <2>1, <2>2, <2>3, <2>4
<1>3. \A u \in Thread : PlaceOK(u)'
  <2> SUFFICES ASSUME NEW u \in Thread \ {t} PROVE PlaceOK(u)'
    BY <1>1, PlaceStep, Zenon
  <2> QED BY ZenonT(60), <1>1, StepFrame DEF PlaceOK, TypeOK
<1> QED BY ZenonT(60), <1>1, <1>2, <1>3, DataStep, PlaceStep
           DEF TypeOK, ThreadVarsOK, DataOK, PlaceOK

-----------------------------------------------------------------------------
\* The lists.
LEMMA ListsStep ==
  ASSUME IInv, NEW t \in Thread, Step(t)
  PROVE  ListsExact'
<1>1. TypeOK /\ ListsExact /\ ReadyListExact /\ TypeOK'
  BY TypeStep, Zenon DEF IInv, ListsExact
<1>2. /\ cur = t /\ status[t] = "RUNNING"
      /\ \A u \in Thread \ {t} : pc'[u] = pc[u] /\ lk'[u] = lk[u]
  BY ZenonT(60), <1>1, StepFrame DEF ReadyListExact
<1>3. CASE SemaDown(t) /\ value[lk[t]] = 0
  <2>1. pc' = pc /\ lk' = lk /\ pc[t] = "down"
    BY <1>3, Zenon DEF SemaDown, Running
  <2>2. /\ ReadyListExact' /\ status'[t] = "BLOCKED" /\ lk[t] \in Lock
        /\ NoDup(waiters'[lk[t]]) /\ Elems(waiters'[lk[t]]) = Elems(waiters[lk[t]]) \cup {t}
        /\ \A l \in Lock \ {lk[t]} : waiters'[l] = waiters[l]
        /\ \A u \in Thread \ {t} : status[u] = "BLOCKED" <=> status'[u] = "BLOCKED"
    BY Zenon, <1>1, <1>3, SemaDownBlocks
  <2> QED BY <1>1, <1>2, <2>1, <2>2, SMTT(30) DEF ListsExact
<1>4. CASE SemaUp(t) /\ waiters[lk[t]] # <<>>
  <2> PICK w : w = Head(list_sort(waiters[lk[t]], ByPriority(priority)))
    BY Zenon
  <2>1. /\ ReadyListExact' /\ lk[t] \in Lock
        /\ w \in Thread /\ lk[w] = lk[t] /\ status[w] = "BLOCKED"
        /\ NoDup(waiters'[lk[t]]) /\ Elems(waiters'[lk[t]]) = Elems(waiters[lk[t]]) \ {w}
        /\ \A l \in Lock \ {lk[t]} : waiters'[l] = waiters[l]
        /\ status' = [status EXCEPT ![w] = "READY"]
    BY ZenonT(60), <1>1, <1>4, SemaUpWakes
  <2>2. /\ w # t
        /\ \A u \in Thread : status'[u] = IF u = w THEN "READY" ELSE status[u]
    BY <1>1, <1>2, <2>1, Zenon DEF TypeOK, ThreadVarsOK
  <2> QED BY <1>1, <1>2, <2>1, <2>2, SMTT(30) DEF ListsExact
<1>5. CASE Exit(t)
  <2>1. waiters' = waiters /\ lk' = lk /\ pc' = pc
    BY <1>5, Zenon DEF Exit, thread_exit
  <2>2. /\ ReadyListExact'
        /\ \A u \in Thread : status[u] = "BLOCKED" <=> status'[u] = "BLOCKED"
    BY ZenonT(60), <1>1, <1>2, <1>5, BlockExact DEF Exit, thread_exit
  <2> QED BY <1>1, <2>1, <2>2, Zenon DEF ListsExact
<1>6. CASE waiters' = waiters /\ Rescheduled
  BY <1>1, <1>2, <1>6, ZenonT(30) DEF ListsExact, Rescheduled
<1>7. CASE SemaDown(t) /\ value[lk[t]] # 0
  BY <1>1, <1>6, <1>7, UnscheduledIsRescheduled, Zenon DEF SemaDown
<1>8. CASE SemaUp(t) /\ waiters[lk[t]] = <<>>
  BY <1>1, <1>6, <1>8, UnscheduledIsRescheduled, Zenon DEF SemaUp
<1>9. CASE ~SemaDown(t) /\ ~SemaUp(t) /\ ~Exit(t)
  BY ZenonT(60), <1>1, <1>6, <1>9, OtherStepsRescheduled, OtherStepsFrame
<1> QED BY ZenonT(60), <1>3, <1>4, <1>5, <1>7, <1>8, <1>9

-----------------------------------------------------------------------------
\* Ownership.  A step that leaves the holders and the semaphores alone and keeps
\* away from the places where a thread owns a lock without being its holder.
LEMMA OwnersKept ==
  ASSUME TypeOK, HolderPlaced, MutualExclusion, NEW t \in Thread,
         \A u \in Thread \ {t} : pc'[u] = pc[u] /\ lk'[u] = lk[u],
         holder' = holder, value' = value,
         pc[t] \notin {"own", "try_own", "rel_up"},
         pc'[t] \notin {"own", "try_own", "rel_up"},
         pc'[t] \in {"clear", "rel_reset", "rel_compare", "rel_inherit", "rel_holder"}
           => holder[lk'[t]] = t
  PROVE  HolderPlaced' /\ MutualExclusion'
<1>1. HolderPlaced'
  BY Zenon DEF HolderPlaced
<1>2. \A u \in Thread, l \in Lock : Owns(u, l)' <=> Owns(u, l)
  BY Zenon DEF Owns
<1> QED BY ZenonT(60), <1>1, <1>2 DEF MutualExclusion

\* sema_down or sema_try_down takes the semaphore: t owns l, not as its holder.
LEMMA OwnersTake ==
  ASSUME TypeOK, HolderPlaced, MutualExclusion, NEW t \in Thread, NEW l \in Lock,
         \A u \in Thread \ {t} : pc'[u] = pc[u] /\ lk'[u] = lk[u],
         holder' = holder, value[l] # 0, value' = [value EXCEPT ![l] = @ - 1],
         pc[t] \notin {"own", "try_own", "rel_up"},
         pc'[t] \in {"own", "try_own"}, lk'[t] = l
  PROVE  HolderPlaced' /\ MutualExclusion'
<1>1. value[l] = 1 /\ \A u \in Thread : ~Owns(u, l)
  BY Zenon DEF MutualExclusion
<1>2. HolderPlaced'
  BY <1>1, SMTT(30) DEF HolderPlaced, Owns
<1>3. \A u \in Thread, m \in Lock : Owns(u, m)' <=> Owns(u, m) \/ (u = t /\ m = l)
  BY Zenon DEF Owns
<1>4. \A m \in Lock : value'[m] = IF m = l THEN 0 ELSE value[m]
  BY <1>1, SMTT(30) DEF TypeOK
<1> QED BY <1>1, <1>2, <1>3, <1>4, SMTT(30) DEF MutualExclusion

\* lock_acquire and lock_try_acquire make the owner the holder, lock_release
\* makes the holder an owner that is not: nobody's ownership changes.
LEMMA OwnersMove ==
  ASSUME TypeOK, HolderPlaced, MutualExclusion, NEW t \in Thread, NEW l \in Lock,
         \A u \in Thread \ {t} : pc'[u] = pc[u] /\ lk'[u] = lk[u],
         value' = value, lk[t] = l,
         \/ /\ pc[t] \in {"own", "try_own"} /\ holder' = [holder EXCEPT ![l] = t]
            /\ (pc'[t] = "clear" /\ lk'[t] = l) \/ pc'[t] = "run"
         \/ /\ pc[t] = "rel_holder" /\ holder' = [holder EXCEPT ![l] = NoThread]
            /\ pc'[t] = "rel_up" /\ lk'[t] = l
  PROVE  HolderPlaced' /\ MutualExclusion'
<1>1. /\ Owns(t, l)
      /\ \A u \in Thread \ {t} : ~Owns(u, l)
  BY SMTT(30) DEF HolderPlaced, Owns, MutualExclusion
<1>2. \A u \in Thread, m \in Lock : Owns(u, m)' <=> Owns(u, m)
  BY <1>1, SynchAssumption, SMTT(30) DEF Owns, TypeOK
<1>3. HolderPlaced'
  <2>1. holder'[l] \in {t, NoThread} /\ \A m \in Lock \ {l} : holder'[m] = holder[m]
    BY Zenon DEF TypeOK
  <2>2. ASSUME NEW u \in Thread \ {t}
        PROVE  /\ pc'[u] \in {"clear", "rel_reset", "rel_compare", "rel_inherit", "rel_holder"}
                    => holder'[lk'[u]] = u
               /\ pc'[u] \in {"own", "try_own", "rel_up"} => holder'[lk'[u]] # u
    <3>1. CASE lk[u] = l
      BY ZenonT(60), <1>1, <2>1, <3>1, SynchAssumption DEF HolderPlaced, Owns
    <3>2. CASE lk[u] # l
      <4>1. pc[u] \notin ThreadPC => holder'[lk[u]] = holder[lk[u]]
        BY ZenonT(60), <2>1, <3>2 DEF TypeOK
      <4> QED BY <4>1, SMTT(30) DEF HolderPlaced, ThreadPC
    <3> QED BY ZenonT(60), <3>1, <3>2
  <2>3. /\ pc'[t] = "clear" => holder'[lk'[t]] = t
        /\ pc'[t] = "rel_up" => holder'[lk'[t]] # t
        /\ pc'[t] \in {"clear", "run", "rel_up"}
    BY SynchAssumption, SMTT(30) DEF TypeOK
  <2> QED BY <2>2, <2>3, SMTT(30) DEF HolderPlaced
<1> QED BY ZenonT(60), <1>2, <1>3 DEF MutualExclusion

\* sema_up: the owner gives the lock up.
LEMMA OwnersUp ==
  ASSUME TypeOK, HolderPlaced, MutualExclusion, NEW t \in Thread, NEW l \in Lock,
         \A u \in Thread \ {t} : pc'[u] = pc[u] /\ lk'[u] = lk[u],
         holder' = holder, value' = [value EXCEPT ![l] = @ + 1],
         pc[t] = "rel_up", lk[t] = l, pc'[t] \in {"run", "yield"}
  PROVE  HolderPlaced' /\ MutualExclusion'
<1>1. /\ Owns(t, l) /\ holder[l] # t /\ value[l] = 0
      /\ \A u \in Thread \ {t} : ~Owns(u, l)
  BY SMTT(30) DEF HolderPlaced, Owns, MutualExclusion
<1>2. HolderPlaced'
  BY Zenon DEF HolderPlaced
<1>3. \A u \in Thread, m \in Lock : Owns(u, m)' <=> Owns(u, m) /\ m # l
  BY ZenonT(60), <1>1 DEF Owns
<1>4. \A m \in Lock : value'[m] = IF m = l THEN 1 ELSE value[m]
  BY <1>1, SMTT(30) DEF TypeOK
<1>5. ASSUME NEW m \in Lock
      PROVE  /\ value'[m] \in {0, 1}
             /\ value'[m] = 1 <=> \A u \in Thread : ~Owns(u, m)'
             /\ \A u, v \in Thread : Owns(u, m)' /\ Owns(v, m)' => u = v
  <2>1. CASE m = l
    BY ZenonT(60), <1>3, <1>4, <2>1
  <2>2. CASE m # l
    BY <1>3, <1>4, <2>2, SMTT(30) DEF MutualExclusion
  <2> QED BY ZenonT(60), <2>1, <2>2
<1> QED BY ZenonT(60), <1>2, <1>5 DEF MutualExclusion

\* A step of the running thread keeps every lock with one owner at most, in
\* whatever statement of lock_acquire or lock_release the owner is.
LEMMA OwnersStep ==
  ASSUME IInv, NEW t \in Thread, Step(t)
  PROVE  HolderPlaced' /\ MutualExclusion'
<1>1. /\ TypeOK /\ HolderPlaced /\ MutualExclusion /\ pc \in [Thread -> PC]
      /\ lk \in [Thread -> Lock \cup {NoLock}]
      /\ pc[t] \notin ThreadPC => lk[t] \in Lock
      /\ \A u \in Thread \ {t} : pc'[u] = pc[u] /\ lk'[u] = lk[u]
  BY StepFrame, Zenon DEF IInv, TypeOK
<1> USE DEF Running, Goto, Return, Call, ThreadPC, compare_priority
<1>2. CASE (ThreadCall(t) \/ Preempt(t)) /\ UNCHANGED lockVars
  <2>1. CASE Preempt(t)
    <3>1. holder' = holder /\ value' = value /\ lk' = lk /\ pc' = pc
      BY ZenonT(60), <1>2, <2>1 DEF Preempt, lockVars
    <3> QED BY <1>1, <3>1, SMTT(30) DEF HolderPlaced, MutualExclusion, Owns
  <2>2. CASE ThreadCall(t)
    <3>1. /\ holder' = holder /\ value' = value
          /\ pc[t] \in ThreadPC /\ pc'[t] \in ThreadPC
      BY ZenonT(60), <1>1, <1>2, <2>2
         DEF ThreadCall, UndonatedCall, thread_create, thread_set_priority, lockVars,
             SetPriorityCompare, SetPriorityInherit, SetPriorityCheck, YieldAtEnd
    <3> QED BY ZenonT(60), <1>1, <3>1, OwnersKept
  <2> QED BY ZenonT(60), <1>2, <2>1, <2>2
<1>3. CASE \/ \E l \in Lock : lock_acquire(t, l)
           \/ DonateStart(t) \/ DonateRead(t) \/ DonateCompare(t) \/ DonateStore(t)
           \/ DonateChain(t) \/ DonateInsert(t) \/ DonateLink(t)
           \/ SemaDown(t) /\ value[lk[t]] = 0
           \/ AcquireClear(t)
  <2>1. /\ holder' = holder /\ value' = value
        /\ pc[t] \notin {"own", "try_own", "rel_up"}
        /\ pc'[t] \in {"run", "don_start", "don_read", "don_compare", "don_store",
                       "don_chain", "don_insert", "don_link", "down"}
    BY ZenonT(60), <1>1, <1>3
       DEF lock_acquire, DonateStart, DonateRead, DonateCompare, DonateStore, DonateChain,
           DonateInsert, DonateLink, SemaDown, AcquireClear
  <2> QED BY ZenonT(60), <1>1, <2>1, OwnersKept
<1>4. CASE SemaDown(t) /\ value[lk[t]] # 0
  BY ZenonT(60), <1>1, <1>4, OwnersTake DEF SemaDown
<1>5. ASSUME NEW l \in Lock, lock_try_acquire(t, l) PROVE HolderPlaced' /\ MutualExclusion'
  <2>1. CASE value[l] > 0
    BY <1>1, <1>5, <2>1, OwnersTake, SMTT(30) DEF lock_try_acquire
  <2>2. CASE ~(value[l] > 0)
    BY ZenonT(60), <1>1, <1>5, <2>2, OwnersKept DEF lock_try_acquire
  <2> QED BY ZenonT(60), <2>1, <2>2
<1>6. CASE AcquireOwn(t) \/ TryAcquireOwn(t) \/ ReleaseHolder(t)
  <2>1. /\ value' = value /\ lk[t] \in Lock
        /\ \/ /\ pc[t] \in {"own", "try_own"} /\ holder' = [holder EXCEPT ![lk[t]] = t]
              /\ (pc'[t] = "clear" /\ lk'[t] = lk[t]) \/ pc'[t] = "run"
           \/ /\ pc[t] = "rel_holder" /\ holder' = [holder EXCEPT ![lk[t]] = NoThread]
              /\ pc'[t] = "rel_up" /\ lk'[t] = lk[t]
    BY ZenonT(60), <1>1, <1>6 DEF AcquireOwn, TryAcquireOwn, ReleaseHolder
  <2> QED BY ZenonT(60), <1>1, <2>1, OwnersMove
<1>7. ASSUME NEW l \in Lock, lock_release(t, l) PROVE HolderPlaced' /\ MutualExclusion'
  BY ZenonT(60), <1>1, <1>7, OwnersKept DEF lock_release
<1>8. CASE ReleaseReset(t) \/ ReleaseCompare(t) \/ ReleaseInherit(t)
  <2>1. /\ holder' = holder /\ value' = value /\ lk' = lk
        /\ pc[t] \in {"rel_reset", "rel_compare", "rel_inherit"}
        /\ pc'[t] \in {"rel_compare", "rel_inherit", "rel_holder"}
    BY ZenonT(60), <1>1, <1>8 DEF ReleaseReset, ReleaseCompare, ReleaseInherit, lockVars
  <2> QED BY ZenonT(60), <1>1, <2>1, OwnersKept DEF HolderPlaced
<1>9. CASE SemaUp(t)
  <2>1. /\ holder' = holder /\ value' = [value EXCEPT ![lk[t]] = @ + 1]
        /\ pc[t] = "rel_up" /\ lk[t] \in Lock /\ pc'[t] \in {"run", "yield"}
    BY <1>1, <1>9, Zenon DEF SemaUp
  <2> QED BY ZenonT(60), <1>1, <2>1, OwnersUp
<1>10. CASE Exit(t)
  <2>1. holder' = holder /\ value' = value /\ lk' = lk /\ pc' = pc
    BY <1>10, Zenon DEF Exit, thread_exit
  <2> QED BY <1>1, <2>1, SMTT(30) DEF HolderPlaced, MutualExclusion, Owns
<1> QED BY ZenonT(60), <1>2, <1>3, <1>4, <1>5, <1>6, <1>7, <1>8, <1>9, <1>10
           DEF Step, Acquire, Release

-----------------------------------------------------------------------------
\* Wake-ups.  The thread on its way to a free lock loses neither its place nor
\* its turn, except by downing the semaphore itself.
LEMMA WakeupStep ==
  ASSUME IInv, NEW t \in Thread, Step(t)
  PROVE  NoLostWakeup'
<1> SUFFICES ASSUME NEW l \in Lock, value'[l] > 0, waiters'[l] # <<>>
             PROVE  \E u \in Thread : /\ status'[u] \in {"READY", "RUNNING"}
                                      /\ pc'[u] = "down" /\ lk'[u] = l
  BY Zenon DEF NoLostWakeup
<1>1. TypeOK /\ ListsExact /\ ReadyListExact /\ NoLostWakeup
  BY Zenon DEF IInv, ListsExact
<1>2. /\ cur = t /\ status[t] = "RUNNING"
      /\ \A u \in Thread \ {t} : pc'[u] = pc[u] /\ lk'[u] = lk[u]
  BY ZenonT(60), <1>1, StepFrame DEF ReadyListExact
<1>3. CASE SemaDown(t)
  <2>1. lk[t] \in Lock /\ value[lk[t]] \in {0, 1}
    BY ZenonT(60), <1>3 DEF IInv, TypeOK, MutualExclusion, SemaDown, Running, ThreadPC
  <2>2. l # lk[t]
    BY <1>1, <1>3, <2>1, SMTT(30) DEF SemaDown, TypeOK
  <2>3. value'[l] = value[l] /\ waiters'[l] = waiters[l]
    BY <1>1, <1>3, <2>1, <2>2, Zenon DEF SemaDown, TypeOK
  <2>4. PICK u \in Thread : status[u] \in {"READY", "RUNNING"} /\ pc[u] = "down" /\ lk[u] = l
    BY ZenonT(60), <1>1, <2>3 DEF NoLostWakeup
  <2>5. u # t
    BY ZenonT(60), <2>2, <2>4
  <2>6. status'[u] \in {"READY", "RUNNING"}
    BY ZenonT(60), <1>1, <1>3, <2>1, <2>4, <2>5, SemaDownBlocks DEF SemaDown, Unscheduled
  <2> QED BY ZenonT(60), <1>2, <2>4, <2>5, <2>6
<1>4. CASE SemaUp(t)
  <2>1. lk[t] \in Lock /\ pc[t] = "rel_up"
    BY ZenonT(60), <1>1, <1>4 DEF TypeOK, SemaUp, Running, ThreadPC
  <2>2. CASE l = lk[t]
    <3>1. waiters[lk[t]] # <<>>
      BY <1>4, <2>2, Zenon DEF SemaUp
    <3>2. PICK w : w = Head(list_sort(waiters[lk[t]], ByPriority(priority)))
      BY Zenon
    <3>3. /\ w \in Thread /\ pc[w] = "down" /\ lk[w] = l
          /\ status' = [status EXCEPT ![w] = "READY"]
      BY <1>1, <1>4, <2>2, <3>1, <3>2, SemaUpWakes, Zenon
    <3>4. status'[w] = "READY" /\ w # t
      BY ZenonT(60), <1>1, <2>1, <3>3 DEF TypeOK, ThreadVarsOK
    <3> QED BY <1>2, <3>3, <3>4, Zenon
  <2>3. CASE l # lk[t]
    <3>1. value'[l] = value[l]
      BY ZenonT(60), <1>1, <1>4, <2>1, <2>3 DEF SemaUp, TypeOK
    <3>2. waiters'[l] = waiters[l]
      BY ZenonT(60), <1>1, <1>4, <2>1, <2>3 DEF SemaUp, TypeOK
    <3>3. PICK u \in Thread : status[u] \in {"READY", "RUNNING"} /\ pc[u] = "down" /\ lk[u] = l
      BY ZenonT(60), <1>1, <3>1, <3>2 DEF NoLostWakeup
    <3>4. u # t
      BY ZenonT(60), <2>1, <3>3
    <3>5. status'[u] \in {"READY", "RUNNING"}
      <4>1. CASE waiters[lk[t]] = <<>>
        BY ZenonT(60), <1>4, <3>3, <4>1 DEF SemaUp, Unscheduled
      <4>2. CASE waiters[lk[t]] # <<>>
        <5>1. PICK w : w = Head(list_sort(waiters[lk[t]], ByPriority(priority)))
          BY ZenonT(60)
        <5>2. w \in Thread /\ status' = [status EXCEPT ![w] = "READY"]
          BY ZenonT(60), <1>1, <1>4, <4>2, <5>1, SemaUpWakes
        <5> QED BY ZenonT(60), <1>1, <3>3, <5>2 DEF TypeOK, ThreadVarsOK
      <4> QED BY ZenonT(60), <4>1, <4>2
    <3> QED BY <1>2, <3>3, <3>4, <3>5, ZenonT(60)
  <2> QED BY ZenonT(60), <2>2, <2>3
<1>5. CASE ~SemaDown(t) /\ ~SemaUp(t)
  <2>1. value[l] > 0 /\ waiters[l] # <<>>
    BY ZenonT(60), <1>1, <1>5, OtherStepsFrame
  <2>2. PICK u \in Thread : status[u] \in {"READY", "RUNNING"} /\ pc[u] = "down" /\ lk[u] = l
    BY ZenonT(60), <1>1, <2>1 DEF NoLostWakeup
  <2>3. CASE Exit(t)
    <3>1. pc' = pc /\ lk' = lk /\ pc[t] = "run"
      BY ZenonT(60), <2>3 DEF Exit, thread_exit, Running
    <3>2. status'[u] \in {"READY", "RUNNING"}
      BY ZenonT(60), <1>1, <1>2, <2>2, <2>3, <3>1, BlockExact DEF Exit, thread_exit
    <3> QED BY ZenonT(60), <2>2, <3>1, <3>2
  <2>4. CASE ~Exit(t)
    <3>1. status'[u] \in {"READY", "RUNNING"}
      BY <1>1, <1>5, <2>2, <2>4, OtherStepsRescheduled, Zenon DEF Rescheduled
    <3>2. CASE u # t
      BY ZenonT(60), <1>2, <2>2, <3>1, <3>2
    <3>3. CASE u = t
      <4>1. pc[t] = "down"
        BY ZenonT(60), <2>2, <3>3
      <4>2. Preempt(t) /\ UNCHANGED lockVars
        BY ZenonT(60), <1>5, <2>4, <4>1
           DEF Step, ThreadCall, UndonatedCall, Acquire, Release, thread_create,
               thread_set_priority, SetPriorityCompare, SetPriorityInherit, SetPriorityCheck,
               YieldAtEnd, lock_acquire, lock_try_acquire, DonateStart, DonateRead, DonateCompare,
               DonateStore, DonateChain, DonateInsert, DonateLink, AcquireOwn, AcquireClear,
               TryAcquireOwn, lock_release, ReleaseReset, ReleaseCompare, ReleaseInherit,
               ReleaseHolder, Call, Running
      <4> QED BY ZenonT(60), <2>2, <3>1, <3>3, <4>2 DEF Preempt, lockVars
    <3> QED BY <3>2, <3>3, Zenon
  <2> QED BY ZenonT(60), <2>3, <2>4
<1> QED BY <1>3, <1>4, <1>5, Zenon

-----------------------------------------------------------------------------
\* waiting_on.  Another thread's is only ever cleared; the thread's own is set
\* where donate_priority starts and cleared before lock_acquire returns.
LEMMA WaitingStep ==
  ASSUME IInv, NEW t \in Thread, Step(t)
  PROVE  WaitingOnAccurate'
<1> DEFINE InAcquire == {"don_read", "don_compare", "don_store", "don_chain",
                         "don_insert", "don_link", "down", "own", "clear"}
<1>1. /\ TypeOK /\ WaitingOnAccurate
      /\ \A u \in Thread \ {t} : pc'[u] = pc[u] /\ lk'[u] = lk[u]
  BY ZenonT(60), StepFrame DEF IInv
<1>2. /\ pc \in [Thread -> PC] /\ lk \in [Thread -> Lock \cup {NoLock}]
      /\ waiting_on \in [Thread -> Lock \cup {NoLock}]
      /\ waiting_on[t] # NoLock =>
           /\ waiting_on[t] = lk[t]
           /\ pc[t] \in InAcquire
  BY ZenonT(60), <1>1 DEF TypeOK, WaitingOnAccurate
<1> USE DEF Running, Goto, Return, Call, lockVars, compare_priority
<1>3. CASE (ThreadCall(t) \/ Preempt(t)) /\ UNCHANGED lockVars
  BY ZenonT(60), <1>1, <1>2, <1>3
     DEF WaitingOnAccurate, ThreadCall, UndonatedCall, thread_create, thread_set_priority,
         SetPriorityCompare, SetPriorityInherit, SetPriorityCheck, YieldAtEnd, Preempt
<1>4. CASE Acquire(t)
  <2>1. /\ \A u \in Thread \ {t} : waiting_on'[u] = waiting_on[u]
        /\ waiting_on'[t] # NoLock =>
             /\ waiting_on'[t] = lk'[t]
             /\ pc'[t] \in InAcquire
    BY ZenonT(60), <1>2, <1>4, SynchAssumption
       DEF Acquire, lock_acquire, lock_try_acquire, DonateStart, DonateRead, DonateCompare,
           DonateStore, DonateChain, DonateInsert, DonateLink, SemaDown, AcquireOwn, AcquireClear,
           TryAcquireOwn
  <2> QED BY ZenonT(60), <1>1, <2>1 DEF WaitingOnAccurate
<1>5. CASE Release(t)
  <2>1. /\ \A u \in Thread : waiting_on'[u] \in {waiting_on[u], NoLock}
        /\ waiting_on[t] = NoLock
    BY ZenonT(60), <1>2, <1>5
       DEF Release, lock_release, ReleaseReset, ReleaseCompare, ReleaseInherit, ReleaseHolder,
           SemaUp
  <2> QED BY ZenonT(60), <1>1, <2>1 DEF WaitingOnAccurate
<1>6. CASE Exit(t)
  BY ZenonT(60), <1>1, <1>6 DEF WaitingOnAccurate, Exit, thread_exit
<1> QED BY ZenonT(60), <1>3, <1>4, <1>5, <1>6 DEF Step

-----------------------------------------------------------------------------
\* The inductive invariant is kept by every step of the running thread.
LEMMA Inductive == IInv /\ [Next]_vars => IInv'
<1> SUFFICES ASSUME IInv, [Next]_vars PROVE IInv'
  BY Zenon
<1>1. ASSUME NEW t \in Thread, Step(t) PROVE IInv'
  BY ZenonT(60), <1>1, TypeStep, ListsStep, OwnersStep, WakeupStep, WaitingStep DEF IInv
<1>2. CASE UNCHANGED vars
  <2> USE <1>2 DEF vars, threadVars, priorityVars, lockVars
  <2>1. TypeOK'
    BY ZenonT(60) DEF IInv, TypeOK, ThreadVarsOK
  <2>2. ListsExact'
    BY ZenonT(60) DEF IInv, ListsExact, ReadyListExact
  <2>3. HolderPlaced'
    BY ZenonT(60) DEF IInv, HolderPlaced
  <2>4. \A u \in Thread, l \in Lock : Owns(u, l)' <=> Owns(u, l)
    BY ZenonT(60) DEF Owns
  <2>5. MutualExclusion'
    BY ZenonT(60), <2>4 DEF IInv, MutualExclusion
  <2>6. NoLostWakeup' /\ WaitingOnAccurate'
    BY Zenon DEF IInv, NoLostWakeup, WaitingOnAccurate
  <2> QED BY ZenonT(60), <2>1, <2>2, <2>3, <2>5, <2>6 DEF IInv
<1> QED BY <1>1, <1>2, Zenon DEF Next, Stopped

\* IInv holds in every reachable state.
THEOREM Invariance == Spec => []IInv
BY InitIInv, Inductive, PTL DEF Spec

\* Every variable has its type, and donate_priority always has a lock and a
\* holder to look at, in every execution of lock_acquire and lock_release.
THEOREM TypeCorrect == Spec => []TypeOK
<1>1. IInv => TypeOK
  BY Zenon DEF IInv
<1> QED BY <1>1, Invariance, PTL

\* lock_acquire, lock_try_acquire and lock_release never let two threads own a
\* lock, and the lock's semaphore always says whether it is owned.
THEOREM Exclusion == Spec => []MutualExclusion
<1>1. IInv => MutualExclusion
  BY ZenonT(60) DEF IInv
<1> QED BY <1>1, Invariance, PTL

\* The elem of a thread is in the one list that its status calls for: the ready
\* list, the waiters of one semaphore, or none.
THEOREM ListsIntact == Spec => []ListsExact
<1>1. IInv => ListsExact
  BY ZenonT(60) DEF IInv
<1> QED BY <1>1, Invariance, PTL

\* No wake-up of sema_up is lost: a free lock with waiters has a thread, awake,
\* on its way to down it.
THEOREM WakeupKept == Spec => []NoLostWakeup
<1>1. IInv => NoLostWakeup
  BY ZenonT(60) DEF IInv
<1> QED BY <1>1, Invariance, PTL

\* waiting_on, which donate_priority follows, only ever names the lock that the
\* thread is acquiring.
THEOREM ChainAccurate == Spec => []WaitingOnAccurate
<1>1. IInv => WaitingOnAccurate
  BY Zenon DEF IInv
<1> QED BY <1>1, Invariance, PTL

\* sema_up wakes a waiter of the highest priority, whatever donations did to
\* the priorities since the waiters were put in order.
THEOREM WakesFirst == Spec => WakesHighest
<1> DEFINE A == \A l \in Lock : \A t \in Elems(waiters[l]) \ Elems(waiters'[l]) :
                  \A u \in Elems(waiters[l]) : priority[u] <= priority[t]
<1>1. IInv /\ [Next]_vars => [A]_vars
  <2> SUFFICES ASSUME IInv, Next, NEW l \in Lock,
                      NEW w \in Elems(waiters[l]) \ Elems(waiters'[l]),
                      NEW u \in Elems(waiters[l])
               PROVE  priority[u] <= priority[w]
    BY Zenon
  <2>1. TypeOK /\ ListsExact
    BY Zenon DEF IInv
  <2>2. waiters'[l] # waiters[l]
    BY Zenon
  <2>3. PICK t \in Thread : Step(t)
    BY ZenonT(60), <2>2 DEF Next, Stopped, vars, lockVars
  <2>4. CASE SemaDown(t)
    <3>1. CASE value[lk[t]] = 0
      BY ZenonT(60), <2>1, <2>4, <3>1, SemaDownBlocks
    <3>2. CASE value[lk[t]] # 0
      BY <2>2, <2>4, <3>2, Zenon DEF SemaDown
    <3> QED BY ZenonT(60), <3>1, <3>2
  <2>5. CASE SemaUp(t)
    <3>1. waiters[lk[t]] # <<>>
      BY ZenonT(60), <2>2, <2>5 DEF SemaUp
    <3>2. PICK v : v = Head(list_sort(waiters[lk[t]], ByPriority(priority)))
      BY ZenonT(60)
    <3>3. /\ \A m \in Lock \ {lk[t]} : waiters'[m] = waiters[m]
          /\ Elems(waiters'[lk[t]]) = Elems(waiters[lk[t]]) \ {v}
          /\ \A e \in Elems(waiters[lk[t]]) : priority[e] <= priority[v]
      BY ZenonT(60), <2>1, <2>5, <3>1, <3>2, SemaUpWakes
    <3> QED BY <2>2, <3>3, Zenon
  <2>6. CASE ~SemaDown(t) /\ ~SemaUp(t)
    BY <2>1, <2>2, <2>3, <2>6, OtherStepsFrame, Zenon
  <2> QED BY ZenonT(60), <2>4, <2>5, <2>6
<1> QED BY <1>1, Invariance, PTL DEF Spec, WakesHighest
=============================================================================
