---------------------------- MODULE ConsoleProofs ----------------------------
(***************************************************************************)
(* For any number of readers and writers and rings of any size: threads    *)
(* sleep at a limit of a ring only with reason, the UART's interrupts are  *)
(* on when they are needed, messages do not mix (WaitersConsistent), and   *)
(* both rings implement a queue of bytes (BytesInOrder).                   *)
(***************************************************************************)
EXTENDS Console, TLAPS, WellFoundedInduction

-----------------------------------------------------------------------------
(* Rings.                                                                  *)
Position == 0..INTQ_BUFSIZE-1
AnyByte == (0..255) \cup OutByte \cup {None}
Ring == [lock : Thread \cup {None}, not_full : Thread \cup {None}, not_empty : Thread \cup {None},
         buf : [Position -> AnyByte], head : Position, tail : Position]

\* How many bytes the ring holds.
Size(q) == IF q.head >= q.tail THEN q.head - q.tail ELSE q.head - q.tail + INTQ_BUFSIZE

\* The position k places into the ring.
Pos(k) == IF k < INTQ_BUFSIZE THEN k ELSE k - INTQ_BUFSIZE

\* A ring holds at least one byte.
LEMMA BufSize == INTQ_BUFSIZE \in Nat /\ INTQ_BUFSIZE >= 2
BY ConsoleAssumption, SMTT(30)

\* Counting modulo the size of the ring.
LEMMA Modulo ==
  ASSUME NEW x \in 0..2*INTQ_BUFSIZE-1
  PROVE  x % INTQ_BUFSIZE = Pos(x)
BY BufSize, SMTT(30) DEF Pos

\* The position after another.
LEMMA NextPosition ==
  ASSUME NEW i \in Position
  PROVE  next(i) = (IF i = INTQ_BUFSIZE - 1 THEN 0 ELSE i + 1) /\ next(i) \in Position
<1> DEFINE x == i + 1
<1>1. x \in 0..2*INTQ_BUFSIZE-1
  BY BufSize, SMTT(30) DEF Position
<1>2. x % INTQ_BUFSIZE = Pos(x)
  <2> HIDE DEF x
  <2> QED BY <1>1, Modulo, Zenon
<1> QED BY <1>2, BufSize, SMTT(30) DEF next, Position, Pos

\* The bytes in a ring are at the Size(q) positions from its tail on.
LEMMA ContentsAre ==
  ASSUME NEW q \in Ring
  PROVE  /\ Size(q) \in 0..INTQ_BUFSIZE-1
         /\ Contents(q) = [i \in 1..Size(q) |-> q.buf[Pos(q.tail + i - 1)]]
<1>1. q.head \in Position /\ q.tail \in Position
  BY Zenon DEF Ring
<1>2. Size(q) \in 0..INTQ_BUFSIZE-1
  BY <1>1, BufSize, SMTT(30) DEF Size, Position
<1>3. (q.head - q.tail + INTQ_BUFSIZE) % INTQ_BUFSIZE = Size(q)
  <2> DEFINE x == q.head - q.tail + INTQ_BUFSIZE
  <2>1. x \in 0..2*INTQ_BUFSIZE-1
    BY <1>1, BufSize, SMTT(30) DEF Position
  <2>2. x % INTQ_BUFSIZE = Pos(x)
    <3> HIDE DEF x
    <3> QED BY <2>1, Modulo, Zenon
  <2> QED BY <1>1, <2>2, BufSize, SMTT(30) DEF Size, Position, Pos
<1>4. ASSUME NEW i \in 1..Size(q)
      PROVE  (q.tail + i - 1) % INTQ_BUFSIZE = Pos(q.tail + i - 1)
  <2> DEFINE x == q.tail + i - 1
  <2>1. x \in 0..2*INTQ_BUFSIZE-1
    BY <1>1, <1>2, BufSize, SMTT(30) DEF Position
  <2> HIDE DEF x
  <2>2. x % INTQ_BUFSIZE = Pos(x)
    BY <2>1, Modulo, Zenon
  <2> QED BY <1>1, <1>2, <2>2, BufSize, Zenon DEF x, Position
<1> QED BY <1>2, <1>3, <1>4, Zenon DEF Contents

\* The same by index: the k-th byte, for k = 0 the first.
LEMMA ContentsAt ==
  ASSUME NEW q \in Ring, NEW k \in 0..Size(q)-1
  PROVE  Contents(q)[k + 1] = q.buf[Pos(q.tail + k)]
<1>1. k + 1 \in 1..Size(q) /\ q.tail + (k + 1) - 1 = q.tail + k
  BY ContentsAre, SMTT(30) DEF Ring, Position
<1>2. Contents(q)[k + 1] = q.buf[Pos(q.tail + (k + 1) - 1)]
  BY <1>1, ContentsAre, Zenon
<1> QED BY <1>1, <1>2, Zenon

\* Different bytes are at different positions, and the next one goes to the head.
LEMMA Positions ==
  ASSUME NEW q \in Ring, NEW k \in 0..Size(q)
  PROVE  /\ Pos(q.tail + k) \in Position
         /\ Pos(q.tail + k) = q.head <=> k = Size(q)
         /\ Pos(q.tail + k) = q.tail <=> k = 0
<1>1. q.head \in Position /\ q.tail \in Position
  BY Zenon DEF Ring
<1>2. Size(q) \in 0..INTQ_BUFSIZE-1
  BY ContentsAre, Zenon
<1> QED BY <1>1, <1>2, BufSize, SMTT(30) DEF Position, Size, Pos

\* A ring is empty, or full, by its size.
LEMMA EmptyFull ==
  ASSUME NEW q \in Ring
  PROVE  /\ intq_empty(q) <=> Size(q) = 0
         /\ intq_full(q) <=> Size(q) = INTQ_BUFSIZE - 1
<1>1. q.head \in Position /\ q.tail \in Position
  BY Zenon DEF Ring
<1> QED BY <1>1, NextPosition, BufSize, SMTT(30) DEF intq_empty, intq_full, Size, Position

\* What intq_putc does to a ring that is not full.
LEMMA PutRing ==
  ASSUME NEW q \in Ring, NEW b \in AnyByte, ~intq_full(q)
  PROVE  /\ Put(q, b) \in Ring
         /\ Put(q, b).lock = q.lock /\ Put(q, b).not_full = q.not_full /\ Put(q,
              b).not_empty = None
         /\ ~intq_empty(Put(q, b))
         /\ Contents(Put(q, b)) = Append(Contents(q), b)
         /\ Len(Contents(q)) < INTQ_BUFSIZE - 1
<1> DEFINE r == Put(q, b)
<1>1. q.head \in Position /\ q.tail \in Position /\ q.buf \in [Position -> AnyByte]
  BY Zenon DEF Ring
<1>2. /\ r.lock = q.lock /\ r.not_full = q.not_full /\ r.not_empty = None
      /\ r.buf = [q.buf EXCEPT ![q.head] = b] /\ r.head = next(q.head) /\ r.tail = q.tail
  BY Zenon DEF Put, Ring
<1>3. r \in Ring
  BY <1>1, NextPosition, Zenon DEF Put, Ring
<1>4. Size(r) = Size(q) + 1 /\ Size(q) < INTQ_BUFSIZE - 1 /\ Size(q) \in Nat
  <2>1. Size(q) \in 0..INTQ_BUFSIZE-1 /\ Size(q) # INTQ_BUFSIZE - 1
    BY EmptyFull, ContentsAre, Zenon
  <2>2. r.head = (IF q.head = INTQ_BUFSIZE - 1 THEN 0 ELSE q.head + 1) /\ r.tail = q.tail
    BY <1>1, <1>2, NextPosition, Zenon
  <2> HIDE DEF r
  <2> QED BY <1>1, <2>1, <2>2, BufSize, SMTT(30) DEF Size, Position
<1>5. ~intq_empty(r)
  BY <1>3, <1>4, EmptyFull, SMTT(30)
<1> HIDE DEF r
<1>6. Contents(r) = Append(Contents(q), b)
  <2>1. Contents(q) = [i \in 1..Size(q) |-> Contents(q)[i]] /\ Len(Contents(q)) = Size(q)
    BY <1>4, ContentsAre, SMTT(30)
  <2>2. Append(Contents(q),
               b) = [i \in 1..Size(q)+1 |-> IF i <= Size(q) THEN Contents(q)[i] ELSE b]
    BY <1>4, <2>1, SMTT(30)
  <2>3. ASSUME NEW k \in 0..Size(q)
        PROVE  Contents(r)[k + 1] = IF k + 1 <= Size(q) THEN Contents(q)[k + 1] ELSE b
    <3>1. Contents(r)[k + 1] = r.buf[Pos(q.tail + k)]
      <4>1. k \in 0..Size(r)-1 /\ r.tail = q.tail
        BY <1>2, <1>4, SMTT(30)
      <4> QED BY <1>3, <4>1, ContentsAt, Zenon
    <3>2. k # Size(q) => Contents(q)[k + 1] = q.buf[Pos(q.tail + k)]
      BY <1>4, ContentsAt, SMTT(30)
    <3>3. Pos(q.tail + k) \in Position /\ (Pos(q.tail + k) = q.head <=> k = Size(q))
      BY Positions, Zenon
    <3> QED BY <1>1, <1>2, <1>4, <3>1, <3>2, <3>3, SMTT(30)
  <2>4. ASSUME NEW i \in 1..Size(q)+1
        PROVE  Contents(r)[i] = IF i <= Size(q) THEN Contents(q)[i] ELSE b
    <3>1. i - 1 \in 0..Size(q) /\ (i - 1) + 1 = i
      BY <1>4, SMTT(30)
    <3> QED BY <2>3, <3>1, Zenon
  <2>5. Contents(r) = [i \in 1..Size(q)+1 |-> Contents(r)[i]]
    BY <1>3, <1>4, ContentsAre, Zenon
  <2> QED BY <2>2, <2>4, <2>5, Zenon
<1>7. Len(Contents(q)) < INTQ_BUFSIZE - 1
  BY <1>4, ContentsAre, SMTT(30)
<1> QED BY <1>2, <1>3, <1>5, <1>6, <1>7, Zenon DEF r

\* What intq_getc does to a ring that is not empty.
LEMMA TakenRing ==
  ASSUME NEW q \in Ring, ~intq_empty(q)
  PROVE  /\ Taken(q) \in Ring
         /\ Taken(q).lock = q.lock /\ Taken(q).not_full = None
              /\ Taken(q).not_empty = q.not_empty
         /\ ~intq_full(Taken(q))
         /\ Contents(q) # <<>> /\ First(q) = Head(Contents(q))
         /\ Contents(Taken(q)) = Tail(Contents(q))
<1> DEFINE r == Taken(q)
<1>1. q.head \in Position /\ q.tail \in Position /\ q.buf \in [Position -> AnyByte]
  BY Zenon DEF Ring
<1>2. /\ r.lock = q.lock /\ r.not_full = None /\ r.not_empty = q.not_empty
      /\ r.buf = [q.buf EXCEPT ![q.tail] = None] /\ r.head = q.head /\ r.tail = next(q.tail)
  BY Zenon DEF Taken, Ring
<1>3. r \in Ring
  BY <1>1, NextPosition, Zenon DEF Taken, Ring, AnyByte
<1>4. Size(r) = Size(q) - 1 /\ Size(q) \in 1..INTQ_BUFSIZE-1
  <2>1. Size(q) \in 0..INTQ_BUFSIZE-1 /\ Size(q) # 0
    BY EmptyFull, ContentsAre, Zenon
  <2>2. r.tail = (IF q.tail = INTQ_BUFSIZE - 1 THEN 0 ELSE q.tail + 1) /\ r.head = q.head
    BY <1>1, <1>2, NextPosition, Zenon
  <2> HIDE DEF r
  <2> QED BY <1>1, <2>1, <2>2, BufSize, SMTT(30) DEF Size, Position
<1>5. ~intq_full(r)
  BY <1>3, <1>4, EmptyFull, BufSize, SMTT(30)
<1> HIDE DEF r
<1>6. Contents(q) # <<>> /\ First(q) = Head(Contents(q))
  <2>1. Len(Contents(q)) = Size(q) /\ Contents(q)[1] = q.buf[q.tail]
    <3>1. Contents(q)[0 + 1] = q.buf[Pos(q.tail + 0)] /\ Pos(q.tail + 0) = q.tail
      BY <1>4, ContentsAt, Positions, SMTT(30)
    <3> QED BY <1>4, <3>1, ContentsAre, SMTT(30)
  <2>2. Contents(q) # <<>>
    BY <1>4, <2>1, SMTT(30)
  <2> QED BY <2>1, <2>2, SMTT(30) DEF First
<1>7. Contents(r) = Tail(Contents(q))
  <2>1. Contents(q) = [i \in 1..Size(q) |-> Contents(q)[i]] /\ Len(Contents(q)) = Size(q)
    BY <1>4, ContentsAre, SMTT(30)
  <2>2. Tail(Contents(q)) = [i \in 1..Size(q)-1 |-> Contents(q)[i + 1]]
    BY <1>4, <2>1, SMTT(30)
  <2>3. ASSUME NEW i \in 1..Size(q)-1
        PROVE  Contents(r)[i] = Contents(q)[i + 1]
    <3>1. Contents(r)[i] = r.buf[Pos(r.tail + i - 1)]
      BY <1>3, <1>4, ContentsAre, Zenon
    <3>2. r.tail = IF q.tail = INTQ_BUFSIZE - 1 THEN 0 ELSE q.tail + 1
      BY <1>1, <1>2, NextPosition, Zenon
    <3>3. Pos(r.tail + i - 1) = Pos(q.tail + i)
      BY <1>1, <1>4, <3>2, BufSize, SMTT(30) DEF Position, Pos
    <3>4. Pos(q.tail + i) \in Position /\ Pos(q.tail + i) # q.tail
      BY <1>4, Positions, SMTT(30)
    <3>5. Contents(q)[i + 1] = q.buf[Pos(q.tail + i)]
      BY <1>4, ContentsAt, SMTT(30)
    <3> QED BY <1>1, <1>2, <3>1, <3>3, <3>4, <3>5, SMTT(30)
  <2>4. Contents(r) = [i \in 1..Size(q)-1 |-> Contents(r)[i]]
    BY <1>3, <1>4, ContentsAre, Zenon
  <2> QED BY <2>2, <2>3, <2>4, Zenon
<1> QED BY <1>2, <1>3, <1>5, <1>6, <1>7, Zenon DEF r

\* What TypeOK asks of a ring.
LEMMA RingType ==
  ASSUME NEW r \in Ring
  PROVE  /\ {r.lock, r.not_full, r.not_empty} \subseteq Thread \cup {None}
         /\ {r.head, r.tail} \subseteq 0..INTQ_BUFSIZE-1
BY Zenon DEF Ring, Position

-----------------------------------------------------------------------------
(* Characters.                                                             *)

\* A nonempty set of naturals has a least element.
LEMMA Least ==
  ASSUME NEW S \in SUBSET Nat, S # {}
  PROVE  \E m \in S : \A k \in S : m <= k
<1> DEFINE R == {ss \in Nat \X Nat : ss[1] < ss[2]}
<1>1. IsWellFoundedOn(R, Nat)
  BY NatLessThanWellFounded, Zenon DEF OpToRel
<1>2. \E m \in S : \A k \in S : ~(<<k, m>> \in R)
  <2>1. S \subseteq Nat /\ S # {}
    BY Zenon
  <2> HIDE DEF R
  <2> QED BY <1>1, <2>1, WFMin, Zenon
<1>3. PICK m \in S : \A k \in S : ~(<<k, m>> \in R)
  BY <1>2, Zenon
<1>4. \A k \in S : m <= k
  <2> TAKE k \in S
  <2>1. <<k, m>> \in Nat \X Nat
    BY Zenon
  <2>2. ~(k < m)
    BY <1>3, <2>1, Zenon
  <2> QED BY <2>2, SMTT(30)
<1> QED BY <1>4, Zenon

\* The rows of the keymaps.
Row == Nat \X Seq(8..127)

LEMMA Keymaps ==
  {invariant_keymap, unshifted_keymap, shifted_keymap} \subseteq Seq(Row)
<1>1. \A n \in Nat, chars \in Seq(8..127) : <<n, chars>> \in Row
  BY Zenon DEF Row
<1>2. invariant_keymap \in Seq(Row)
  <2>1. /\ <<27>> \in Seq(8..127)
        /\ <<8>> \in Seq(8..127)
        /\ <<9, 81, 87, 69, 82, 84, 89, 85, 73, 79, 80>> \in Seq(8..127)
        /\ <<13>> \in Seq(8..127)
        /\ <<65, 83, 68, 70, 71, 72, 74, 75, 76>> \in Seq(8..127)
        /\ <<90, 88, 67, 86, 66, 78, 77>> \in Seq(8..127)
        /\ <<42>> \in Seq(8..127)
        /\ <<32>> \in Seq(8..127)
        /\ <<127>> \in Seq(8..127)
    BY SMTT(30)
  <2>2. /\ <<1, <<27>>>> \in Row
        /\ <<14, <<8>>>> \in Row
        /\ <<15, <<9, 81, 87, 69, 82, 84, 89, 85, 73, 79, 80>>>> \in Row
    BY <1>1, <2>1, ZenonT(30)
  <2>3. /\ <<28, <<13>>>> \in Row
        /\ <<30, <<65, 83, 68, 70, 71, 72, 74, 75, 76>>>> \in Row
        /\ <<44, <<90, 88, 67, 86, 66, 78, 77>>>> \in Row
    BY <1>1, <2>1, ZenonT(30)
  <2>4. /\ <<55, <<42>>>> \in Row
        /\ <<57, <<32>>>> \in Row
        /\ <<83, <<127>>>> \in Row
    BY <1>1, <2>1, ZenonT(30)
  <2> QED BY <2>2, <2>3, <2>4, SMTT(30) DEF invariant_keymap
<1>3. unshifted_keymap \in Seq(Row)
  <2>1. /\ <<49, 50, 51, 52, 53, 54, 55, 56, 57, 48, 45, 61>> \in Seq(8..127)
        /\ <<91, 93>> \in Seq(8..127)
        /\ <<59, 39, 96>> \in Seq(8..127)
        /\ <<92>> \in Seq(8..127)
        /\ <<44, 46, 47>> \in Seq(8..127)
    BY SMTT(30)
  <2>2. /\ <<2, <<49, 50, 51, 52, 53, 54, 55, 56, 57, 48, 45, 61>>>> \in Row
        /\ <<26, <<91, 93>>>> \in Row
        /\ <<39, <<59, 39, 96>>>> \in Row
        /\ <<43, <<92>>>> \in Row
        /\ <<51, <<44, 46, 47>>>> \in Row
    BY <1>1, <2>1, ZenonT(30)
  <2> QED BY <2>2, SMTT(30) DEF unshifted_keymap
<1>4. shifted_keymap \in Seq(Row)
  <2>1. /\ <<33, 64, 35, 36, 37, 94, 38, 42, 40, 41, 95, 43>> \in Seq(8..127)
        /\ <<123, 125>> \in Seq(8..127)
        /\ <<58, 34, 126>> \in Seq(8..127)
        /\ <<124>> \in Seq(8..127)
        /\ <<60, 62, 63>> \in Seq(8..127)
    BY SMTT(30)
  <2>2. /\ <<2, <<33, 64, 35, 36, 37, 94, 38, 42, 40, 41, 95, 43>>>> \in Row
        /\ <<26, <<123, 125>>>> \in Row
        /\ <<39, <<58, 34, 126>>>> \in Row
        /\ <<43, <<124>>>> \in Row
        /\ <<51, <<60, 62, 63>>>> \in Row
    BY <1>1, <2>1, ZenonT(30)
  <2> QED BY <2>2, SMTT(30) DEF shifted_keymap
<1> QED BY <1>2, <1>3, <1>4, Zenon

\* map_key gives the character of a row, or none.
LEMMA MapKey ==
  ASSUME NEW k \in Seq(Row), NEW code \in Nat
  PROVE  map_key(k, code) \in (8..127) \cup {NoChar}
<1> DEFINE rows == {i \in 1..Len(k) : code >= k[i][1] /\ code < k[i][1] + Len(k[i][2])}
           least == CHOOSE i \in rows : \A j \in rows : i <= j
<1>1. CASE rows = {}
  BY <1>1, Zenon DEF map_key
<1>2. CASE rows # {}
  <2>1. rows \in SUBSET Nat
    BY SMTT(30)
  <2>2. \E i \in rows : \A j \in rows : i <= j
    <3> HIDE DEF rows
    <3> QED BY <1>2, <2>1, Least, Zenon
  <2>3. least \in rows
    <3> HIDE DEF rows
    <3> QED BY <2>2, Zenon
  <2>4. k[least] \in Row /\ code >= k[least][1] /\ code < k[least][1] + Len(k[least][2])
    <3> HIDE DEF least
    <3> QED BY <2>3, SMTT(30)
  <2>5. PICK first \in Nat, chars \in Seq(8..127) : k[least] = <<first, chars>>
    <3>1. PICK row \in Row : row = k[least]
      BY <2>4, Zenon
    <3>2. row[1] \in Nat /\ row[2] \in Seq(8..127) /\ row = <<row[1], row[2]>>
      BY SMTT(30) DEF Row
    <3> QED BY <3>1, <3>2, Zenon
  <2>6. PICK n \in Nat : n = Len(chars)
    BY SMTT(30)
  <2>7. PICK i \in 1..n : i = code - first + 1
    <3>1. code >= first /\ code < first + n
      BY <2>4, <2>5, <2>6, SMTT(30)
    <3> QED BY <3>1, SMTT(30)
  <2>8. chars[i] \in 8..127
    BY <2>6, SMTT(30)
  <2>9. map_key(k, code) = chars[code - first + 1]
    BY <1>2, <2>5, SMTT(30) DEF map_key
  <2> QED BY <2>7, <2>8, <2>9, Zenon
<1> QED BY <1>1, <1>2, Zenon

\* What keyboard_interrupt stores is a byte.
LEMMA KeyByte ==
  ASSUME NEW code \in Nat, NEW keys, NEW caps, RawChar(code, keys) # NoChar
  PROVE  KeyChar(code, keys, caps) \in 0..255
<1>1. RawChar(code, keys) \in 8..127
  <2>1. \A k \in {invariant_keymap, unshifted_keymap, shifted_keymap} :
          map_key(k, code) \in (8..127) \cup {NoChar}
    BY Keymaps, MapKey, Zenon
  <2> QED BY <2>1, Zenon DEF RawChar
<1> DEFINE raw == RawChar(code, keys)
           c == IF Ctrl(keys) /\ raw \in 64..95 THEN raw - 64
                ELSE IF Shift(keys) = caps THEN tolower(raw) ELSE raw
<1>2. c \in 0..127
  <2>1. raw \in 8..127
    BY <1>1, Zenon
  <2> HIDE DEF raw
  <2> QED BY <2>1, SMTT(30) DEF tolower
<1>3. KeyChar(code, keys, caps) = IF Alt(keys) THEN (c + 128) % 256 ELSE c
  BY Zenon DEF KeyChar
<1> HIDE DEF c
<1> QED BY <1>2, <1>3, SMTT(30)

-----------------------------------------------------------------------------
(* The inductive invariant.                                                *)
PC == {"run", "put", "loop", "lock", "wait", "woken"}

\* Every variable has its type; readers wait for input, writers for output.
Typed ==
  /\ TypeOK
  /\ intq \in [{"buffer", "txq"} -> Ring]
  /\ prints \in Nat /\ inputs \in Nat
  /\ {intq["buffer"].lock, intq["buffer"].not_empty} \subseteq Reader \cup {None}
  /\ {intq["txq"].lock, intq["txq"].not_full} \subseteq Writer \cup {None}
  /\ intq["buffer"].not_full = None /\ intq["txq"].not_empty = None

\* What SleepersWaitForSomething says of each of the rings.
ReadersWait ==
  \A t \in Reader :
    /\ pc[t] = "wait" <=> t = intq["buffer"].not_empty
    /\ pc[t] \in {"wait", "woken"} <=> intq["buffer"].lock = t
    /\ pc[t] = "wait" => intq_empty(intq["buffer"])

WritersWait ==
  \A t \in Writer :
    /\ pc[t] = "wait" <=> t = intq["txq"].not_full
    /\ pc[t] \in {"wait", "woken"} <=> intq["txq"].lock = t
    /\ pc[t] = "wait" => intq_full(intq["txq"])

\* A writer that has begun to print, and not ended, has the console's lock.
Printing ==
  \A w \in Writer :
    /\ left[w] <= WriteSize
    /\ pc[w] # "run" <=> console_lock = w
    /\ pc[w] = "run" => left[w] \in {0, WriteSize}

IInv == /\ Typed /\ Printing
        /\ outcome = "ok" => ReadersWait /\ WritersWait /\ ier = write_ier(intq)

LEMMA InitIInv == Init => IInv
<1> SUFFICES ASSUME Init PROVE IInv
  BY Zenon
<1> USE ConsoleAssumption DEF Init
<1>1. intq_init \in Ring
  BY SMTT(30) DEF intq_init, Ring, Position, AnyByte
<1>2. intq["buffer"] = intq_init /\ intq["txq"] = intq_init
        /\ intq \in [{"buffer", "txq"} -> Ring]
  BY <1>1, Zenon
<1>3. intq_init.lock = None /\ intq_init.not_full = None /\ intq_init.not_empty = None
      /\ intq_init.head = 0 /\ intq_init.tail = 0
  BY Zenon DEF intq_init
<1>4. intq_empty(intq_init) /\ ~intq_full(intq_init)
  BY <1>1, <1>3, EmptyFull, BufSize, SMTT(30) DEF Size
<1>5. TypeOK
  <2>1. \A q \in {"buffer", "txq"} :
          /\ {intq[q].lock, intq[q].not_full, intq[q].not_empty} \subseteq Thread \cup {None}
          /\ {intq[q].head, intq[q].tail} \subseteq 0..INTQ_BUFSIZE-1
    BY <1>2, <1>3, BufSize, SMTT(30)
  <2>2. left \in [Thread -> Nat] /\ pc \in [Thread -> {"run", "put", "loop", "lock", "wait",
                                                       "woken"}]
    BY Zenon
  <2> QED BY <2>1, <2>2, Zenon DEF TypeOK
<1>6. Typed
  BY <1>2, <1>3, <1>5, Zenon DEF Typed
<1>7. Printing
  BY SMTT(30) DEF Printing, Thread
<1>8. ReadersWait /\ WritersWait
  BY <1>2, <1>3, SMTT(30) DEF ReadersWait, WritersWait, Thread
<1>9. ier = write_ier(intq)
  BY <1>2, <1>4, Zenon DEF write_ier
<1> QED BY <1>6, <1>7, <1>8, <1>9, Zenon DEF IInv

-----------------------------------------------------------------------------
(* The steps.                                                              *)

\* The waiter that an interrupt handler wakes.
LEMMA WokenPc ==
  ASSUME NEW W, NEW at \in [Thread -> PC]
  PROVE  /\ Woken(W, at) \in [Thread -> PC]
         /\ \A t \in Thread : Woken(W, at)[t] = IF t \in W THEN "woken" ELSE at[t]
BY Zenon DEF Woken, PC

\* A thread becomes the waiter of a ring whose lock is free.
LEMMA WaitStep ==
  ASSUME IInv, outcome = "ok", outcome' = "ok", NEW t \in Thread, pc[t] \in {"run", "put", "loop",
                                                                             "lock"},
         t \in Writer => pc[t] # "run",
         wait(t), MustWait(t, intq), intq[Queue(t)].lock = None,
         off' = None \/ off' = off,
         UNCHANGED <<console_lock, left, ier, rbr, thre, kbdVars, history, inputs, prints>>
  PROVE  IInv'
<1> USE ConsoleAssumption
<1>1. CASE t \in Reader
  <2> DEFINE q == intq["buffer"]
             r == [q EXCEPT !.lock = t, !.not_empty = t]
  <2>1. q \in Ring /\ Queue(t) = "buffer" /\ intq_empty(q)
    BY <1>1, Zenon DEF IInv, Typed, Queue, MustWait
  <2>2. r \in Ring /\ r.lock = t /\ r.not_empty = t /\ r.not_full = q.not_full
        /\ r.head = q.head /\ r.tail = q.tail
    BY <2>1, ZenonT(30) DEF Ring
  <2>3. intq' = [intq EXCEPT !["buffer"] = r] /\ pc' = [pc EXCEPT ![t] = "wait"]
    BY <1>1, <2>1, Zenon DEF wait
  <2> HIDE DEF r
  <2>4. intq'["buffer"] = r /\ intq'["txq"] = intq["txq"] /\ intq' \in [{"buffer", "txq"} -> Ring]
    BY <2>2, <2>3, Zenon DEF IInv, Typed
  <2>5. pc' \in [Thread -> PC] /\ pc'[t] = "wait" /\ \A u \in Thread \ {t} : pc'[u] = pc[u]
    BY <2>3, SMTT(30) DEF IInv, Typed, TypeOK, PC
  <2>6. Typed'
    BY <1>1, <2>2, <2>4, <2>5, SMTT(30) DEF IInv, Typed, TypeOK, Thread, PC, kbdVars
  <2>7. Printing'
    BY <1>1, <2>5, SMTT(30) DEF IInv, Printing, Thread
  <2>8. ReadersWait'
    BY <1>1, <2>1, <2>2, <2>4, <2>5, SMTT(30) DEF IInv, ReadersWait, Thread, intq_empty, Queue
  <2>9. WritersWait'
    BY <1>1, <2>4, <2>5, SMTT(30) DEF IInv, WritersWait, Thread
  <2>10. (ier = write_ier(intq))'
    BY <2>2, <2>4, Zenon DEF IInv, write_ier, intq_full
  <2> QED BY <2>6, <2>7, <2>8, <2>9, <2>10, Zenon DEF IInv
<1>2. CASE t \in Writer
  <2> DEFINE q == intq["txq"]
             r == [q EXCEPT !.lock = t, !.not_full = t]
  <2>1. q \in Ring /\ Queue(t) = "txq" /\ intq_full(q) /\ t \notin Reader
    BY <1>2, Zenon DEF IInv, Typed, Queue, MustWait
  <2>2. r \in Ring /\ r.lock = t /\ r.not_full = t /\ r.not_empty = q.not_empty
        /\ r.head = q.head /\ r.tail = q.tail
    BY <2>1, ZenonT(30) DEF Ring
  <2>3. intq' = [intq EXCEPT !["txq"] = r] /\ pc' = [pc EXCEPT ![t] = "wait"]
    BY <2>1, Zenon DEF wait
  <2> HIDE DEF r
  <2>4. intq'["txq"] = r /\ intq'["buffer"] = intq["buffer"]
          /\ intq' \in [{"buffer", "txq"} -> Ring]
    BY <2>2, <2>3, Zenon DEF IInv, Typed
  <2>5. pc' \in [Thread -> PC] /\ pc'[t] = "wait" /\ \A u \in Thread \ {t} : pc'[u] = pc[u]
    BY <2>3, SMTT(30) DEF IInv, Typed, TypeOK, PC
  <2>6. Typed'
    BY <1>2, <2>2, <2>4, <2>5, SMTT(30) DEF IInv, Typed, TypeOK, Thread, PC, kbdVars
  <2>7. Printing'
    BY <1>2, <2>5, SMTT(30) DEF IInv, Printing, Thread
  <2>8. WritersWait'
    BY <1>2, <2>1, <2>2, <2>4, <2>5, SMTT(30) DEF IInv, WritersWait, Thread, intq_full, Queue
  <2>9. ReadersWait'
    BY <1>2, <2>1, <2>4, <2>5, SMTT(30) DEF IInv, ReadersWait, Thread
  <2>10. (ier = write_ier(intq))'
    BY <2>2, <2>4, Zenon DEF IInv, write_ier, intq_empty
  <2> QED BY <2>6, <2>7, <2>8, <2>9, <2>10, Zenon DEF IInv
<1> QED BY <1>1, <1>2, Zenon DEF Thread

\* A thread finds the queue's lock taken.
LEMMA LockStep ==
  ASSUME IInv, outcome = "ok", outcome' = "ok", NEW t \in Thread, pc[t] \in {"run", "put",
                                                                             "loop"},
         t \in Writer => pc[t] # "run",
         pc' = [pc EXCEPT ![t] = "lock"], UNCHANGED intq, off' = None,
         UNCHANGED <<console_lock, left, ier, rbr, thre, kbdVars, history, inputs, prints>>
  PROVE  IInv'
<1> USE ConsoleAssumption
<1>1. pc' \in [Thread -> PC] /\ pc'[t] = "lock" /\ \A u \in Thread \ {t} : pc'[u] = pc[u]
  BY SMTT(30) DEF IInv, Typed, TypeOK, PC
<1>2. Typed'
  BY <1>1, SMTT(30) DEF IInv, Typed, TypeOK, Thread, PC, kbdVars
<1>3. Printing'
  BY <1>1, ZenonT(30) DEF IInv, Printing, Thread
<1>4. ReadersWait'
  BY <1>1, ZenonT(30) DEF IInv, ReadersWait, Thread
<1>5. WritersWait'
  BY <1>1, ZenonT(30) DEF IInv, WritersWait, Thread
<1> QED BY <1>2, <1>3, <1>4, <1>5, Zenon DEF IInv

LEMMA SleepStep ==
  ASSUME IInv, outcome = "ok", NEW t \in Thread, pc[t] \in {"run", "put", "loop"},
         t \in Writer => pc[t] # "run", MustSleep(t)
  PROVE  IInv'
<1>1. CASE intq[Queue(t)].lock = None
  BY <1>1, WaitStep, Zenon DEF MustSleep
<1>2. CASE intq[Queue(t)].lock # None
  BY <1>2, LockStep, Zenon DEF MustSleep
<1> QED BY <1>1, <1>2, Zenon

LEMMA IntqLockedStep ==
  ASSUME IInv, NEW t \in Thread, IntqLocked(t)
  PROVE  IInv'
<1>1. outcome = "ok" /\ pc[t] = "lock" /\ intq[Queue(t)].lock = None
  BY Zenon DEF IntqLocked, Interruptible
<1>2. CASE MustWait(t, intq)
  BY <1>1, <1>2, WaitStep, Zenon DEF IntqLocked
<1>3. CASE ~MustWait(t, intq)
  <2>1. outcome' = "panic" /\ UNCHANGED <<intq, pc, console_lock, left, off, ier, rbr, thre,
                                          kbdVars,
                                          inputs, prints>>
    BY <1>3, Zenon DEF IntqLocked
  <2> QED BY <2>1, Zenon DEF IInv, Typed, TypeOK, Printing, kbdVars
<1> QED BY <1>2, <1>3, Zenon

LEMMA WaitEndStep ==
  ASSUME IInv, NEW t \in Thread, WaitEnd(t)
  PROVE  IInv'
<1> USE ConsoleAssumption
<1> DEFINE q == intq[Queue(t)]
           r == [q EXCEPT !.lock = None]
<1>1. outcome = "ok" /\ pc[t] = "woken" /\ UNCHANGED <<console_lock, left, ier, rbr, thre, held,
                                                       caps_lock,
        inputs, prints, outcome>> /\ off' \in {None, t}
  BY Zenon DEF WaitEnd, Interruptible, kbdVars
<1>2. q \in Ring
  BY Zenon DEF IInv, Typed, Queue
<1>3. r \in Ring /\ r.lock = None /\ r.not_full = q.not_full /\ r.not_empty = q.not_empty
      /\ r.head = q.head /\ r.tail = q.tail
  BY <1>2, SMTT(30) DEF Ring
<1>4. intq' = [intq EXCEPT ![Queue(t)] = r] /\ pc' = [pc EXCEPT ![t] = "loop"]
  BY Zenon DEF WaitEnd
<1> HIDE DEF r
<1>5. /\ intq' \in [{"buffer", "txq"} -> Ring] /\ intq'[Queue(t)] = r
      /\ \A k \in {"buffer", "txq"} \ {Queue(t)} : intq'[k] = intq[k]
  BY <1>3, <1>4, Zenon DEF IInv, Typed, Queue
<1>6. pc' \in [Thread -> PC] /\ pc'[t] = "loop" /\ \A u \in Thread \ {t} : pc'[u] = pc[u]
  BY <1>4, SMTT(30) DEF IInv, Typed, TypeOK, PC
<1>7. Typed'
  BY <1>1, <1>3, <1>5, <1>6, SMTT(30) DEF IInv, Typed, TypeOK, Thread, PC, Queue
<1>8. Printing'
  BY <1>1, <1>6, SMTT(30) DEF IInv, Printing, Thread
<1>9. ReadersWait' /\ WritersWait'
  <2>1. CASE t \in Reader
    <3>1. Queue(t) = "buffer" /\ t \notin Writer
      BY <2>1, Zenon DEF Queue
    <3>2. ReadersWait'
      <4> SUFFICES ASSUME NEW u \in Reader
                   PROVE  (/\ pc[u] = "wait" <=> u = intq["buffer"].not_empty
                           /\ pc[u] \in {"wait", "woken"} <=> intq["buffer"].lock = u
                           /\ pc[u] = "wait" => intq_empty(intq["buffer"]))'
        BY Zenon DEF ReadersWait
      <4>1. /\ pc[u] = "wait" <=> u = q.not_empty
            /\ pc[u] \in {"wait", "woken"} <=> q.lock = u
            /\ pc[u] = "wait" => intq_empty(q)
        BY <1>1, <3>1, Zenon DEF IInv, ReadersWait
      <4>2. /\ intq'["buffer"].lock = None /\ intq'["buffer"].not_empty = q.not_empty
            /\ intq'["buffer"].head = q.head /\ intq'["buffer"].tail = q.tail
        BY <1>3, <1>5, <3>1, Zenon
      <4>3. u # t => pc'[u] = pc[u] /\ q.lock # u /\ u # None
        BY <1>1, <1>6, <2>1, <3>1, SMTT(30) DEF IInv, ReadersWait, Thread
      <4>4. u = t => pc'[u] = "loop" /\ pc[u] = "woken" /\ u # None
        BY <1>1, <1>6, SMTT(30) DEF Thread
      <4> HIDE DEF q
      <4> QED BY <4>1, <4>2, <4>3, <4>4, Zenon DEF intq_empty
    <3>3. WritersWait'
      <4>1. intq'["txq"] = intq["txq"]
        BY <1>5, <3>1, Zenon
      <4>2. \A w \in Writer : pc'[w] = pc[w]
        BY <1>6, <3>1, Zenon DEF Thread
      <4>3. WritersWait
        BY <1>1, Zenon DEF IInv
      <4> QED BY <4>1, <4>2, <4>3, SMTT(30) DEF WritersWait
    <3> QED BY <3>2, <3>3, Zenon
  <2>2. CASE t \in Writer
    <3>1. Queue(t) = "txq" /\ t \notin Reader
      BY <2>2, Zenon DEF Queue
    <3>2. WritersWait'
      <4> SUFFICES ASSUME NEW u \in Writer
                   PROVE  (/\ pc[u] = "wait" <=> u = intq["txq"].not_full
                           /\ pc[u] \in {"wait", "woken"} <=> intq["txq"].lock = u
                           /\ pc[u] = "wait" => intq_full(intq["txq"]))'
        BY Zenon DEF WritersWait
      <4>1. /\ pc[u] = "wait" <=> u = q.not_full
            /\ pc[u] \in {"wait", "woken"} <=> q.lock = u
            /\ pc[u] = "wait" => intq_full(q)
        BY <1>1, <3>1, Zenon DEF IInv, WritersWait
      <4>2. /\ intq'["txq"].lock = None /\ intq'["txq"].not_full = q.not_full
            /\ intq'["txq"].head = q.head /\ intq'["txq"].tail = q.tail
        BY <1>3, <1>5, <3>1, Zenon
      <4>3. u # t => pc'[u] = pc[u] /\ q.lock # u /\ u # None
        BY <1>1, <1>6, <2>2, <3>1, SMTT(30) DEF IInv, WritersWait, Thread
      <4>4. u = t => pc'[u] = "loop" /\ pc[u] = "woken" /\ u # None
        BY <1>1, <1>6, SMTT(30) DEF Thread
      <4> HIDE DEF q
      <4> QED BY <4>1, <4>2, <4>3, <4>4, Zenon DEF intq_full
    <3>3. ReadersWait'
      <4>1. intq'["buffer"] = intq["buffer"]
        BY <1>5, <3>1, Zenon
      <4>2. \A u \in Reader : pc'[u] = pc[u]
        BY <1>6, <3>1, Zenon DEF Thread
      <4>3. ReadersWait
        BY <1>1, Zenon DEF IInv
      <4> QED BY <4>1, <4>2, <4>3, SMTT(30) DEF ReadersWait
    <3> QED BY <3>2, <3>3, Zenon
  <2> QED BY <2>1, <2>2, Zenon DEF Thread
<1>10. (ier = write_ier(intq))'
  BY <1>1, <1>3, <1>5, SMTT(30) DEF IInv, write_ier, intq_empty, intq_full, Queue
<1> QED BY <1>7, <1>8, <1>9, <1>10, Zenon DEF IInv

LEMMA GetStep ==
  ASSUME IInv, NEW t \in Thread, input_getc(t), ~MustSleep(t)
  PROVE  IInv'
<1> USE ConsoleAssumption
<1> DEFINE q == intq["buffer"]
           r == Taken(q)
<1>1. /\ t \in Reader /\ t \notin Writer /\ outcome = "ok" /\ pc[t] \in {"run", "loop"}
         /\ left[t] > 0
      /\ ~intq_empty(q) /\ intq' = [intq EXCEPT !["buffer"] = r] /\ ier' = write_ier(intq')
      /\ left' = [left EXCEPT ![t] = @ - 1] /\ pc' = [pc EXCEPT ![t] = "run"] /\ off' = None
      /\ UNCHANGED <<console_lock, rbr, thre, held, caps_lock, inputs, prints, outcome>>
  BY Zenon DEF input_getc, Turn, MustWait, Queue, kbdVars
<1>2. q \in Ring
  BY Zenon DEF IInv, Typed
<1>3. r \in Ring /\ r.lock = q.lock /\ r.not_full = None /\ r.not_empty = q.not_empty
  BY <1>1, <1>2, TakenRing, Zenon
<1> HIDE DEF r
<1>4. /\ intq' \in [{"buffer", "txq"} -> Ring] /\ intq'["buffer"] = r
         /\ intq'["txq"] = intq["txq"]
  BY <1>1, <1>3, Zenon DEF IInv, Typed
<1>5. pc' \in [Thread -> PC] /\ pc'[t] = "run" /\ \A u \in Thread \ {t} : pc'[u] = pc[u]
  BY <1>1, SMTT(30) DEF IInv, Typed, TypeOK, PC
<1>6. left' \in [Thread -> Nat] /\ \A u \in Thread \ {t} : left'[u] = left[u]
  BY <1>1, SMTT(30) DEF IInv, Typed, TypeOK
<1>7. ier' \subseteq {"recv", "xmit"}
  BY <1>1, Zenon DEF write_ier
<1>8. Typed'
  <2>1. \A k \in {"buffer", "txq"} :
          /\ {intq'[k].lock, intq'[k].not_full, intq'[k].not_empty} \subseteq Thread \cup {None}
          /\ {intq'[k].head, intq'[k].tail} \subseteq 0..INTQ_BUFSIZE-1
    BY <1>4, RingType, SMTT(30)
  <2>2. TypeOK'
    BY <1>1, <1>5, <1>6, <1>7, <2>1, Zenon DEF IInv, Typed, TypeOK, PC
  <2> QED BY <1>1, <1>3, <1>4, <2>2, SMTT(30) DEF IInv, Typed
<1>9. Printing'
  BY <1>1, <1>5, <1>6, Zenon DEF IInv, Printing, Thread
<1>10. ReadersWait'
  BY <1>1, <1>3, <1>4, <1>5, SMTT(30) DEF IInv, ReadersWait, Thread
<1>11. WritersWait'
  BY <1>1, <1>4, <1>5, Zenon DEF IInv, WritersWait, Thread
<1> QED BY <1>1, <1>8, <1>9, <1>10, <1>11, Zenon DEF IInv

LEMMA AcquireStep ==
  ASSUME IInv, NEW t \in Thread, acquire_console(t) \/ release_console(t)
  PROVE  IInv'
<1> USE ConsoleAssumption
<1>1. /\ t \in Writer /\ t \notin Reader /\ outcome = "ok" /\ {pc[t], pc'[t]} = {"run", "put"}
      /\ pc' = [pc EXCEPT ![t] = IF pc[t] = "run" THEN "put" ELSE "run"]
      /\ left[t] = (IF pc[t] = "run" THEN WriteSize ELSE 0)
      /\ pc[t] = "run" => console_lock = None
      /\ console_lock' = IF pc[t] = "run" THEN t ELSE None
      /\ UNCHANGED <<intq, left, off, ier, rbr, thre, held, caps_lock, inputs, prints, outcome>>
  BY SMTT(30) DEF acquire_console, release_console, Interruptible, kbdVars, IInv, Typed, TypeOK
<1>2. pc' \in [Thread -> PC] /\ \A u \in Thread \ {t} : pc'[u] = pc[u]
  BY <1>1, SMTT(30) DEF IInv, Typed, TypeOK, PC
<1>3. Typed'
  BY <1>1, <1>2, SMTT(30) DEF IInv, Typed, TypeOK, PC
<1>4. Printing'
  BY <1>1, <1>2, SMTT(30) DEF IInv, Printing, Thread
<1>5. ReadersWait' /\ WritersWait'
  <2>1. ReadersWait'
    BY <1>1, <1>2, Zenon DEF IInv, ReadersWait, Thread
  <2>2. WritersWait'
    BY <1>1, <1>2, Zenon DEF IInv, WritersWait, Thread
  <2> QED BY <2>1, <2>2, Zenon
<1> QED BY <1>1, <1>3, <1>4, <1>5, Zenon DEF IInv

LEMMA PutStep ==
  ASSUME IInv, NEW t \in Thread, serial_putc(t), ~MustSleep(t)
  PROVE  IInv'
<1> USE ConsoleAssumption
<1> DEFINE q == intq["txq"]
           b == <<t, WriteSize - left[t] + 1>>
           r == Put(q, b)
<1>1. /\ t \in Writer /\ t \notin Reader /\ outcome = "ok" /\ pc[t] \in {"put", "loop"}
         /\ left[t] > 0
      /\ ~intq_full(q) /\ intq' = [intq EXCEPT !["txq"] = r] /\ ier' = write_ier(intq')
      /\ left' = [left EXCEPT ![t] = @ - 1] /\ pc' = [pc EXCEPT ![t] = "put"] /\ off' = None
      /\ UNCHANGED <<console_lock, rbr, thre, held, caps_lock, inputs, prints, outcome>>
  BY Zenon DEF serial_putc, Turn, MustWait, Queue, kbdVars
<1>2. q \in Ring /\ left[t] \in Nat /\ left[t] <= WriteSize
  BY <1>1, Zenon DEF IInv, Typed, TypeOK, Printing
<1>3. b \in AnyByte
  <2>1. WriteSize - left[t] + 1 \in 1..WriteSize
    BY <1>1, <1>2, SMTT(30)
  <2> QED BY <1>1, <2>1, Zenon DEF AnyByte, OutByte
<1>4. r \in Ring /\ r.lock = q.lock /\ r.not_full = q.not_full /\ r.not_empty = None
  <2> HIDE DEF b
  <2> QED BY <1>1, <1>2, <1>3, PutRing, ZenonT(30)
<1> HIDE DEF r
<1>5. /\ intq' \in [{"buffer", "txq"} -> Ring] /\ intq'["txq"] = r
         /\ intq'["buffer"] = intq["buffer"]
  BY <1>1, <1>4, Zenon DEF IInv, Typed
<1>6. pc' \in [Thread -> PC] /\ pc'[t] = "put" /\ \A u \in Thread \ {t} : pc'[u] = pc[u]
  BY <1>1, SMTT(30) DEF IInv, Typed, TypeOK, PC
<1>7. left' \in [Thread -> Nat] /\ left'[t] = left[t] - 1
        /\ \A u \in Thread \ {t} : left'[u] = left[u]
  BY <1>1, <1>2, SMTT(30) DEF IInv, Typed, TypeOK
<1>8. ier' \subseteq {"recv", "xmit"}
  BY <1>1, Zenon DEF write_ier
<1>9. Typed'
  <2>1. \A k \in {"buffer", "txq"} :
          /\ {intq'[k].lock, intq'[k].not_full, intq'[k].not_empty} \subseteq Thread \cup {None}
          /\ {intq'[k].head, intq'[k].tail} \subseteq 0..INTQ_BUFSIZE-1
    BY <1>5, RingType, SMTT(30)
  <2>2. TypeOK'
    BY <1>1, <1>6, <1>7, <1>8, <2>1, Zenon DEF IInv, Typed, TypeOK, PC
  <2> QED BY <1>1, <1>4, <1>5, <2>2, SMTT(30) DEF IInv, Typed
<1>10. Printing'
  BY <1>1, <1>2, <1>6, <1>7, SMTT(30) DEF IInv, Printing, Thread
<1>11. WritersWait'
  BY <1>1, <1>4, <1>5, <1>6, SMTT(30) DEF IInv, WritersWait, Thread
<1>12. ReadersWait'
  BY <1>1, <1>5, <1>6, Zenon DEF IInv, ReadersWait, Thread
<1> QED BY <1>1, <1>9, <1>10, <1>11, <1>12, Zenon DEF IInv

\* What an interrupt handler does to the waiters: nothing while it leaves a
\* ring as it is, and otherwise it wakes the ring's waiter.
LEMMA HandlerStep ==
  ASSUME IInv, outcome = "ok",
         intq' \in [{"buffer", "txq"} -> Ring],
         intq'["buffer"].lock = intq["buffer"].lock, intq'["buffer"].not_full = None,
         intq'["txq"].lock = intq["txq"].lock, intq'["txq"].not_empty = None,
         pc' \in [Thread -> PC],
         \/ /\ intq'["buffer"] = intq["buffer"]
            /\ \A t \in Reader : pc'[t] = pc[t]
         \/ /\ intq'["buffer"].not_empty = None
            /\ \A t \in Reader : pc'[t] = IF t = intq["buffer"].not_empty THEN "woken" ELSE pc[t],
         \/ /\ intq'["txq"] = intq["txq"]
            /\ \A t \in Writer : pc'[t] = pc[t]
         \/ /\ intq'["txq"].not_full = None
            /\ \A t \in Writer : pc'[t] = IF t = intq["txq"].not_full THEN "woken" ELSE pc[t]
         \/ /\ intq'["txq"].not_full = intq["txq"].not_full
            /\ ~intq_full(intq["txq"])
            /\ \A t \in Writer : pc'[t] = pc[t],
         outcome' = "ok" => ier' = write_ier(intq'),
         ier' = ier \/ ier' = write_ier(intq'),
         rbr' \in Input \cup {None}, thre' \in BOOLEAN, held' \subseteq shift_keys,
         caps_lock' \in BOOLEAN, outcome' \in {"ok", "off"}, inputs' \in Nat, prints' \in Nat,
         UNCHANGED <<console_lock, left, off>>
  PROVE  IInv'
<1> USE ConsoleAssumption
<1>1. ier' \subseteq {"recv", "xmit"}
  <2>1. ier \subseteq {"recv", "xmit"}
    BY Zenon DEF IInv, Typed, TypeOK
  <2>2. write_ier(intq') \subseteq {"recv", "xmit"}
    BY Zenon DEF write_ier
  <2>3. CASE ier' = ier
    BY <2>1, <2>3, Zenon
  <2>4. CASE ier' = write_ier(intq')
    BY <2>2, <2>4, Zenon
  <2> QED BY <2>3, <2>4, Zenon
<1>2. Typed'
  <2>1. \A k \in {"buffer", "txq"} :
          /\ {intq'[k].lock, intq'[k].not_full, intq'[k].not_empty} \subseteq Thread \cup {None}
          /\ {intq'[k].head, intq'[k].tail} \subseteq 0..INTQ_BUFSIZE-1
    BY RingType, SMTT(30)
  <2>2. TypeOK'
    BY <1>1, <2>1, Zenon DEF IInv, Typed, TypeOK, PC
  <2> QED BY <2>2, SMTT(30) DEF IInv, Typed
<1>3. ReadersWait'
  BY SMTT(30) DEF IInv, ReadersWait, Thread
<1>4. WritersWait'
  BY SMTT(30) DEF IInv, WritersWait, Thread
<1>5. Printing'
  BY SMTT(30) DEF IInv, WritersWait, Printing
<1> QED BY <1>2, <1>3, <1>4, <1>5, Zenon DEF IInv

LEMMA DeviceStep ==
  ASSUME IInv, Transmit \/ \E b \in Input : Receive(b)
  PROVE  IInv'
<1>1. /\ outcome = "ok" /\ UNCHANGED <<intq, console_lock, pc, left, off, ier, held, caps_lock,
                                       prints, outcome>>
      /\ inputs' \in Nat /\ rbr' \in Input \cup {None} /\ thre' \in BOOLEAN
  <2>1. CASE Transmit
    BY <2>1, Zenon DEF Transmit, kbdVars, IInv, Typed, TypeOK
  <2>2. CASE \E b \in Input : Receive(b)
    BY <2>2, SMTT(30) DEF Receive, kbdVars, IInv, Typed, TypeOK
  <2> QED BY <2>1, <2>2, Zenon
<1> QED BY <1>1, Zenon DEF IInv, Typed, TypeOK, ReadersWait, WritersWait, Printing

\* A byte printed with interrupts off is one of OutByte.
LEMMA PrintOffStep ==
  ASSUME IInv, PrintOff
  PROVE  IInv'
<1> USE ConsoleAssumption
<1> DEFINE q == intq["txq"]
           b == <<None, prints + 1>>
<1>1. /\ outcome = "ok" /\ prints < MaxPrints /\ prints' = prints + 1 /\ ier' = write_ier(intq')
      /\ UNCHANGED <<console_lock, left, off, rbr, held, caps_lock, inputs, outcome>>
  BY Zenon DEF PrintOff, Interruptible, kbdVars
<1>2. /\ q \in Ring /\ intq["buffer"] \in Ring /\ intq["buffer"].not_full = None
         /\ prints' \in Nat
      /\ pc \in [Thread -> PC] /\ q.not_empty = None
  BY <1>1, SMTT(30) DEF IInv, Typed, TypeOK, PC
<1>3. b \in AnyByte
  BY <1>1, SMTT(30) DEF AnyByte, OutByte, IInv, Typed
<1>4. /\ rbr' \in Input \cup {None} /\ held' \subseteq shift_keys /\ caps_lock' \in BOOLEAN
      /\ outcome' \in {"ok", "off"} /\ inputs' \in Nat /\ thre \in BOOLEAN
  BY <1>1, Zenon DEF IInv, Typed, TypeOK
<1>5. CASE intq_full(q)
  <2> DEFINE r == Put(Taken(q), b)
  <2>1. /\ intq' = [intq EXCEPT !["txq"] = r] /\ pc' = Woken({q.not_full}, pc) /\ thre' = FALSE
    BY <1>5, Zenon DEF PrintOff
  <2>2. ~intq_empty(q)
    BY <1>2, <1>5, EmptyFull, BufSize, SMTT(30)
  <2>3. /\ Taken(q) \in Ring /\ Taken(q).lock = q.lock /\ Taken(q).not_full = None
        /\ ~intq_full(Taken(q))
    BY <1>2, <2>2, TakenRing, Zenon
  <2>4. r \in Ring /\ r.lock = q.lock /\ r.not_full = None /\ r.not_empty = None
    <3> HIDE DEF b
    <3> QED BY <1>3, <2>3, PutRing, ZenonT(30)
  <2> HIDE DEF r
  <2>5. /\ intq' \in [{"buffer", "txq"} -> Ring] /\ intq'["txq"] = r
           /\ intq'["buffer"] = intq["buffer"]
    BY <2>1, <2>4, Zenon DEF IInv, Typed
  <2>6. /\ pc' \in [Thread -> PC]
        /\ \A t \in Thread : pc'[t] = IF t = q.not_full THEN "woken" ELSE pc[t]
    BY <1>2, <2>1, WokenPc, SMTT(30)
  <2>7. \A t \in Reader : t # q.not_full
    BY SMTT(30) DEF IInv, Typed, Thread
  <2> QED BY <1>1, <1>2, <1>4, <2>1, <2>4, <2>5, <2>6, <2>7, HandlerStep, Zenon DEF Thread
<1>6. CASE ~intq_full(q)
  <2> DEFINE r == Put(q, b)
  <2>1. intq' = [intq EXCEPT !["txq"] = r] /\ UNCHANGED <<pc, thre>>
    BY <1>6, Zenon DEF PrintOff
  <2>2. r \in Ring /\ r.lock = q.lock /\ r.not_full = q.not_full /\ r.not_empty = None
    <3> HIDE DEF b
    <3> QED BY <1>2, <1>3, <1>6, PutRing, ZenonT(30)
  <2> HIDE DEF r
  <2>3. /\ intq' \in [{"buffer", "txq"} -> Ring] /\ intq'["txq"] = r
           /\ intq'["buffer"] = intq["buffer"]
    BY <2>1, <2>2, Zenon DEF IInv, Typed
  <2> QED BY <1>1, <1>2, <1>4, <1>6, <2>1, <2>2, <2>3, HandlerStep, Zenon
<1> QED BY <1>5, <1>6, Zenon

LEMMA FlushStep ==
  ASSUME IInv, serial_flush
  PROVE  IInv'
<1> USE ConsoleAssumption
<1> DEFINE q == intq["txq"]
           r == [intq_init EXCEPT !.lock = q.lock, !.head = q.head, !.tail = q.head]
<1>1. /\ outcome = "ok" /\ outcome' = "off" /\ intq' = [intq EXCEPT !["txq"] = r]
      /\ pc' = Woken({q.not_full}, pc) /\ thre' = (thre /\ intq_empty(q))
      /\ UNCHANGED <<console_lock, left, off, ier, rbr, held, caps_lock, inputs, prints>>
  BY Zenon DEF serial_flush, Interruptible, kbdVars
<1>2. /\ q \in Ring /\ intq["buffer"] \in Ring /\ intq["buffer"].not_full = None
      /\ pc \in [Thread -> PC]
  BY <1>1, ZenonT(30) DEF IInv, Typed, TypeOK, PC
<1>3. thre' \in BOOLEAN
  BY <1>1, Zenon
<1>4. /\ rbr' \in Input \cup {None} /\ held' \subseteq shift_keys /\ caps_lock' \in BOOLEAN
      /\ inputs' \in Nat /\ prints' \in Nat
  BY <1>1, Zenon DEF IInv, Typed, TypeOK
<1>5. intq_init \in Ring /\ intq_init.not_full = None /\ intq_init.not_empty = None
  BY BufSize, SMTT(30) DEF intq_init, Ring, Position, AnyByte
<1>6. r \in Ring /\ r.lock = q.lock /\ r.not_full = None /\ r.not_empty = None
  BY <1>2, <1>5, ZenonT(30) DEF Ring
<1> HIDE DEF r
<1>7. /\ intq' \in [{"buffer", "txq"} -> Ring] /\ intq'["txq"] = r
         /\ intq'["buffer"] = intq["buffer"]
  BY <1>1, <1>6, Zenon DEF IInv, Typed
<1>8. /\ pc' \in [Thread -> PC]
      /\ \A t \in Thread : pc'[t] = IF t = q.not_full THEN "woken" ELSE pc[t]
  BY <1>1, <1>2, WokenPc, SMTT(30)
<1>9. \A t \in Reader : t # q.not_full
  BY SMTT(30) DEF IInv, Typed, Thread
<1> QED BY <1>1, <1>2, <1>3, <1>4, <1>6, <1>7, <1>8, <1>9, HandlerStep, Zenon DEF Thread

LEMMA KeyboardStep ==
  ASSUME IInv, NEW code \in Nat, NEW release \in BOOLEAN, keyboard_interrupt(code, release)
  PROVE  IInv'
<1> USE ConsoleAssumption
<1> DEFINE q == intq["buffer"]
           stored == /\ RawChar(code, held) # NoChar /\ ~release /\ ~Reboots(code, held)
                     /\ ~intq_full(q)
           b == KeyChar(code, held, caps_lock)
           r == Put(q, b)
<1>1. /\ outcome = "ok" /\ outcome' \in {"ok", "off"} /\ inputs' = inputs + 1
      /\ UNCHANGED <<console_lock, left, off, rbr, thre, prints>>
  BY Zenon DEF keyboard_interrupt, Interruptible
<1>2. caps_lock' \in BOOLEAN
  BY Zenon DEF keyboard_interrupt, IInv, Typed, TypeOK
<1>3. held' \subseteq shift_keys
  BY SMTT(30) DEF keyboard_interrupt, IInv, Typed, TypeOK
<1>4. /\ q \in Ring /\ intq["txq"] \in Ring /\ pc \in [Thread -> PC] /\ rbr' \in Input \cup {None}
      /\ thre' \in BOOLEAN /\ inputs' \in Nat /\ prints' \in Nat /\ q.not_full = None
      /\ intq["txq"].not_empty = None
  BY <1>1, SMTT(30) DEF IInv, Typed, TypeOK, PC
<1>5. CASE stored
  <2>1. /\ intq' = [intq EXCEPT !["buffer"] = r] /\ pc' = Woken({q.not_empty}, pc)
        /\ ier' = write_ier(intq')
    BY <1>5, Zenon DEF keyboard_interrupt, input_putc
  <2>2. b \in AnyByte
    BY <1>5, KeyByte, Zenon DEF AnyByte
  <2>3. r \in Ring /\ r.lock = q.lock /\ r.not_full = q.not_full /\ r.not_empty = None
    <3> HIDE DEF b
    <3> QED BY <1>4, <1>5, <2>2, PutRing, ZenonT(30)
  <2> HIDE DEF r
  <2>4. /\ intq' \in [{"buffer", "txq"} -> Ring] /\ intq'["buffer"] = r
           /\ intq'["txq"] = intq["txq"]
    BY <2>1, <2>3, Zenon DEF IInv, Typed
  <2>5. /\ pc' \in [Thread -> PC]
        /\ \A t \in Thread : pc'[t] = IF t = q.not_empty THEN "woken" ELSE pc[t]
    BY <1>4, <2>1, WokenPc, SMTT(30)
  <2>6. \A t \in Writer : t # q.not_empty
    BY SMTT(30) DEF IInv, Typed, Thread
  <2> HIDE DEF stored, b
  <2> QED BY <1>1, <1>2, <1>3, <1>4, <2>1, <2>3, <2>4, <2>5, <2>6, HandlerStep, Zenon DEF Thread
<1>6. CASE ~stored
  <2>1. UNCHANGED <<intq, pc, ier>>
    BY <1>6, Zenon DEF keyboard_interrupt
  <2>2. intq' \in [{"buffer", "txq"} -> Ring] /\ ier = write_ier(intq)
    BY <1>1, <2>1, Zenon DEF IInv, Typed
  <2> HIDE DEF stored, b, r
  <2> QED BY <1>1, <1>2, <1>3, <1>4, <2>1, <2>2, HandlerStep, Zenon
<1> QED BY <1>5, <1>6, Zenon

LEMMA SerialStep ==
  ASSUME IInv, serial_interrupt
  PROVE  IInv'
<1> USE ConsoleAssumption
<1> DEFINE q == intq["buffer"]
           x == intq["txq"]
           receives == ~intq_full(q) /\ rbr # None
           sends == ~intq_empty(x) /\ thre
<1>1. /\ outcome = "ok" /\ ier' = write_ier(intq')
      /\ UNCHANGED <<console_lock, left, off, held, caps_lock, inputs, prints, outcome>>
      /\ rbr' = IF receives THEN None ELSE rbr
  BY Zenon DEF serial_interrupt, Interruptible, kbdVars
<1>2. thre' \in BOOLEAN
  <2>1. thre' = (thre /\ ~sends)
    BY Zenon DEF serial_interrupt
  <2> QED BY <2>1, Zenon
<1>3. /\ q \in Ring /\ x \in Ring /\ pc \in [Thread -> PC] /\ rbr' \in Input \cup {None}
      /\ held' \subseteq shift_keys /\ caps_lock' \in BOOLEAN /\ inputs' \in Nat
           /\ prints' \in Nat
      /\ q.not_full = None /\ x.not_empty = None
  BY <1>1, SMTT(30) DEF IInv, Typed, TypeOK, PC
<1>4. receives => /\ Put(q, rbr) \in Ring /\ Put(q, rbr).lock = q.lock
                  /\ Put(q, rbr).not_full = q.not_full /\ Put(q, rbr).not_empty = None
  <2>1. receives => rbr \in AnyByte
    BY Zenon DEF AnyByte, IInv, Typed, TypeOK
  <2> QED BY <1>3, <2>1, PutRing, ZenonT(30)
<1>5. sends => /\ Taken(x) \in Ring /\ Taken(x).lock = x.lock
               /\ Taken(x).not_full = None /\ Taken(x).not_empty = x.not_empty
  BY <1>3, TakenRing, Zenon
<1>6. /\ intq'["buffer"] = IF receives THEN Put(q, rbr) ELSE q
      /\ intq'["txq"] = IF sends THEN Taken(x) ELSE x
      /\ intq' \in [{"buffer", "txq"} -> Ring]
  <2>1. intq \in [{"buffer", "txq"} -> Ring]
    BY Zenon DEF IInv, Typed
  <2>2. PICK f \in [{"buffer", "txq"} -> Ring] :
          /\ f = IF receives THEN input_putc(intq, rbr) ELSE intq
          /\ f["buffer"] = (IF receives THEN Put(q, rbr) ELSE q) /\ f["txq"] = x
    <3>1. CASE receives
      <4> DEFINE r == Put(q, rbr)
                 f == [intq EXCEPT !["buffer"] = r]
      <4>1. r \in Ring
        BY <1>4, <3>1, Zenon
      <4>2. f = input_putc(intq, rbr)
        BY Zenon DEF input_putc
      <4>3. f \in [{"buffer", "txq"} -> Ring] /\ f["buffer"] = r /\ f["txq"] = x
        <5> HIDE DEF r
        <5> QED BY <2>1, <4>1, Zenon
      <4> HIDE DEF f, q, x
      <4> QED BY <3>1, <4>2, <4>3, Zenon
    <3>2. CASE ~receives
      <4> HIDE DEF receives
      <4> QED BY <2>1, <3>2, Zenon
    <3> QED BY <3>1, <3>2, Zenon
  <2>3. intq' = IF sends THEN [f EXCEPT !["txq"] = Taken(x)] ELSE f
    BY <2>2, Zenon DEF serial_interrupt
  <2> HIDE DEF receives, sends, q, x
  <2> QED BY <1>5, <2>2, <2>3, Zenon
<1>7. /\ pc' \in [Thread -> PC]
      /\ \A t \in Thread :
           pc'[t] = IF (receives /\ t = q.not_empty) \/ (sends
                /\ t = x.not_full) THEN "woken" ELSE pc[t]
  <2> DEFINE W == (IF receives THEN {q.not_empty} ELSE {}) \cup (IF sends THEN {x.not_full} ELSE {})
  <2>1. pc' = Woken(W, pc)
    BY Zenon DEF serial_interrupt
  <2>2. pc' \in [Thread -> PC] /\ \A t \in Thread : pc'[t] = IF t \in W THEN "woken" ELSE pc[t]
    <3> HIDE DEF W
    <3> QED BY <1>3, <2>1, WokenPc, SMTT(30)
  <2> HIDE DEF receives, sends, q, x
  <2> QED BY <2>2, Zenon
<1>8. (\A t \in Writer : t # q.not_empty) /\ (\A t \in Reader : t # x.not_full)
  BY SMTT(30) DEF IInv, Typed, Thread
<1> HIDE DEF receives, sends, q, x
<1>9. /\ intq'["buffer"].lock = q.lock /\ intq'["buffer"].not_full = None
      /\ intq'["txq"].lock = x.lock /\ intq'["txq"].not_empty = None
  BY <1>3, <1>4, <1>5, <1>6, Zenon
<1>10. \/ intq'["buffer"] = q /\ \A t \in Reader : pc'[t] = pc[t]
       \/ /\ intq'["buffer"].not_empty = None
          /\ \A t \in Reader : pc'[t] = IF t = q.not_empty THEN "woken" ELSE pc[t]
  BY <1>4, <1>6, <1>7, <1>8, ZenonT(30) DEF Thread
<1>11. \/ intq'["txq"] = x /\ \A t \in Writer : pc'[t] = pc[t]
       \/ /\ intq'["txq"].not_full = None
          /\ \A t \in Writer : pc'[t] = IF t = x.not_full THEN "woken" ELSE pc[t]
  BY <1>5, <1>6, <1>7, <1>8, ZenonT(30) DEF Thread
<1> QED BY <1>1, <1>2, <1>3, <1>6, <1>7, <1>9, <1>10, <1>11, HandlerStep, ZenonT(30) DEF q, x

LEMMA NextIInv == IInv /\ [Next]_vars => IInv'
<1> SUFFICES ASSUME IInv, [Next]_vars PROVE IInv'
  BY Zenon
<1>1. ASSUME NEW t \in Thread, ThreadStep(t)
      PROVE  IInv'
  <2>1. CASE IntqLocked(t)
    BY <2>1, IntqLockedStep, Zenon
  <2>2. CASE WaitEnd(t)
    BY <2>2, WaitEndStep, Zenon
  <2>3. CASE input_getc(t)
    <3>1. CASE MustSleep(t)
      BY <2>3, <3>1, SleepStep, ConsoleAssumption, Zenon DEF input_getc, Turn
    <3> QED BY <2>3, <3>1, GetStep, Zenon
  <2>4. CASE acquire_console(t) \/ release_console(t)
    BY <2>4, AcquireStep, Zenon
  <2>5. CASE serial_putc(t)
    <3>1. CASE MustSleep(t)
      BY <2>5, <3>1, SleepStep, Zenon DEF serial_putc, Turn
    <3> QED BY <2>5, <3>1, PutStep, Zenon
  <2> QED BY <1>1, <2>1, <2>2, <2>3, <2>4, <2>5, Zenon DEF ThreadStep
<1>2. CASE Device
  BY <1>2, SerialStep, DeviceStep, Zenon DEF Device
<1>3. CASE Environment
  <2>1. ASSUME NEW code \in Codes,
               keyboard_interrupt(code, FALSE) \/ keyboard_interrupt(code, TRUE)
        PROVE  IInv'
    <3>1. code \in Nat
      BY ConsoleAssumption, Zenon
    <3> QED BY <2>1, <3>1, KeyboardStep, Zenon
  <2> QED BY <1>3, <2>1, DeviceStep, PrintOffStep, FlushStep, Zenon DEF Environment
<1>4. CASE UNCHANGED vars
  BY <1>4, Zenon DEF vars, IInv, Typed, TypeOK, Printing, ReadersWait, WritersWait
<1> QED BY <1>1, <1>2, <1>3, <1>4, Zenon DEF Next, Quiet

LEMMA Invariance == Spec => []IInv
BY InitIInv, NextIInv, PTL DEF Spec

\* In every reachable state, for any number of readers and writers and any size
\* of the rings: whoever sleeps in intq_getc or intq_putc is the recorded waiter,
\* holds the queue's lock and has reason to sleep, write_ier has enabled the
\* interrupts that are needed, and console_lock keeps messages whole.
THEOREM WaitersAreConsistent == Spec => []WaitersConsistent
<1>1. IInv => WaitersConsistent
  <2> SUFFICES ASSUME IInv PROVE WaitersConsistent
    BY Zenon
  <2> USE ConsoleAssumption
  <2>1. TypeOK /\ IerAccurate
    BY Zenon DEF IInv, Typed, IerAccurate
  <2>2. SleepersWaitForSomething
    BY SMTT(30)
       DEF IInv, ReadersWait, WritersWait, SleepersWaitForSomething, Queue, MustWait, Thread
  <2>3. MessagesWhole
    <3> SUFFICES ASSUME NEW v \in Writer, NEW w \in Writer,
                        left[v] \in 1..WriteSize-1, left[w] \in 1..WriteSize-1
                 PROVE  v = w
      BY Zenon DEF MessagesWhole
    <3>1. pc[v] # "run" /\ pc[w] # "run"
      BY SMTT(30) DEF IInv, Printing
    <3> QED BY <3>1, Zenon DEF IInv, Printing
  <2> QED BY <2>1, <2>2, <2>3, Zenon DEF WaitersConsistent
<1> QED BY <1>1, Invariance, PTL

-----------------------------------------------------------------------------
(* Both rings implement ByteQueue.                                         *)

InStep == [In!Next]_<<Contents(intq["buffer"]), got>>
OutStep == [Out!Next]_<<Contents(intq["txq"]), sent>>

LEMMA ContentsSeq ==
  ASSUME NEW q \in Ring
  PROVE  Contents(q) \in Seq(AnyByte)
<1>1. Size(q) \in Nat /\ Contents(q) = [i \in 1..Size(q) |-> q.buf[Pos(q.tail + i - 1)]]
  BY ContentsAre, SMTT(30)
<1>2. ASSUME NEW i \in 1..Size(q)
      PROVE  q.buf[Pos(q.tail + i - 1)] \in AnyByte
  <2>1. PICK k \in 0..Size(q) : k = i - 1
    BY <1>1, SMTT(30)
  <2>2. Pos(q.tail + k) \in Position /\ q.tail + i - 1 = q.tail + k
    BY <1>1, <2>1, Positions, Zenon DEF Ring, Position
  <2> QED BY <2>2, Zenon DEF Ring
<1> QED BY <1>1, <1>2, SMTT(30)

\* An empty ring holds no bytes.
LEMMA EmptyContents ==
  ASSUME NEW q \in Ring, Size(q) = 0
  PROVE  Contents(q) = <<>>
<1>1. Len(Contents(q)) = 0
  BY ContentsAre, SMTT(30)
<1> QED BY <1>1, ContentsSeq, SMTT(30)

LEMMA Appended ==
  ASSUME NEW S, NEW c \in Seq(S), NEW b \in S
  PROVE  Append(c, b) # <<>> /\ Append(c, b)[Len(Append(c, b))] = b
BY SMTT(30)

\* A ring with other locks or waiters has the same bytes.
LEMMA SameContents ==
  ASSUME NEW q, NEW r, r.buf = q.buf, r.head = q.head, r.tail = q.tail
  PROVE  Contents(r) = Contents(q)
BY Zenon DEF Contents

LEMMA InPut ==
  ASSUME intq["buffer"] \in Ring, NEW b \in 0..255, ~intq_full(intq["buffer"]),
         intq'["buffer"] = Put(intq["buffer"], b), UNCHANGED got
  PROVE  InStep
<1> DEFINE c == Contents(intq["buffer"])
<1>1. c \in Seq(AnyByte) /\ b \in AnyByte
  BY ContentsSeq, Zenon DEF AnyByte
<1>2. Contents(intq'["buffer"]) = Append(c, b) /\ Len(c) < INTQ_BUFSIZE - 1
  BY <1>1, PutRing, Zenon
<1>3. Append(c, b) # <<>> /\ Append(c, b)[Len(Append(c, b))] = b
  <2> HIDE DEF c
  <2> QED BY <1>1, Appended, Zenon
<1>4. In!Put /\ Contents(intq'["buffer"]) # <<>>
  BY <1>2, <1>3, Zenon DEF In!Put, In!Added
<1> QED BY <1>4, Zenon DEF InStep, In!Next

LEMMA InGet ==
  ASSUME intq["buffer"] \in Ring, ~intq_empty(intq["buffer"]),
         intq'["buffer"] = Taken(intq["buffer"]), got' = First(intq["buffer"])
  PROVE  InStep
<1>1. In!Get /\ Contents(intq["buffer"]) # <<>>
  BY TakenRing, Zenon DEF In!Get
<1> QED BY <1>1, Zenon DEF InStep, In!Next

LEMMA InSame ==
  ASSUME Contents(intq'["buffer"]) = Contents(intq["buffer"]), UNCHANGED got
  PROVE  InStep
BY Zenon DEF InStep

LEMMA OutPut ==
  ASSUME intq["txq"] \in Ring, NEW b \in OutByte, ~intq_full(intq["txq"]),
         intq'["txq"] = Put(intq["txq"], b), UNCHANGED sent
  PROVE  OutStep
<1> DEFINE c == Contents(intq["txq"])
<1>1. c \in Seq(AnyByte) /\ b \in AnyByte
  BY ContentsSeq, Zenon DEF AnyByte
<1>2. Contents(intq'["txq"]) = Append(c, b) /\ Len(c) < INTQ_BUFSIZE - 1
  BY <1>1, PutRing, Zenon
<1>3. Append(c, b) # <<>> /\ Append(c, b)[Len(Append(c, b))] = b
  <2> HIDE DEF c
  <2> QED BY <1>1, Appended, Zenon
<1>4. Out!Put /\ Contents(intq'["txq"]) # <<>>
  BY <1>2, <1>3, Zenon DEF Out!Put, Out!Added
<1> QED BY <1>4, Zenon DEF OutStep, Out!Next

LEMMA OutGet ==
  ASSUME intq["txq"] \in Ring, ~intq_empty(intq["txq"]),
         intq'["txq"] = Taken(intq["txq"]), sent' = First(intq["txq"])
  PROVE  OutStep
<1>1. Out!Get /\ Contents(intq["txq"]) # <<>>
  BY TakenRing, Zenon DEF Out!Get
<1> QED BY <1>1, Zenon DEF OutStep, Out!Next

LEMMA OutSame ==
  ASSUME Contents(intq'["txq"]) = Contents(intq["txq"]), UNCHANGED sent
  PROVE  OutStep
BY Zenon DEF OutStep

\* A byte pushed through a full ring by polling.
LEMMA OutPass ==
  ASSUME intq["txq"] \in Ring, NEW b \in OutByte, intq_full(intq["txq"]),
         intq'["txq"] = Put(Taken(intq["txq"]), b), sent' = First(intq["txq"])
  PROVE  OutStep
<1> DEFINE q == intq["txq"]
           r == Taken(q)
           c == Contents(r)
<1>1. ~intq_empty(q)
  BY EmptyFull, BufSize, SMTT(30)
<1>2. r \in Ring /\ ~intq_full(r) /\ Contents(q) # <<>> /\ First(q) = Head(Contents(q))
        /\ c = Tail(Contents(q))
  BY <1>1, TakenRing, Zenon
<1>3. c \in Seq(AnyByte) /\ b \in AnyByte
  BY <1>2, ContentsSeq, Zenon DEF AnyByte
<1>4. Contents(intq'["txq"]) = Append(c, b)
  <2> HIDE DEF r
  <2> QED BY <1>2, <1>3, PutRing, Zenon DEF r
<1>5. Append(c, b) # <<>> /\ Append(c, b)[Len(Append(c, b))] = b
  <2> HIDE DEF c
  <2> QED BY <1>3, Appended, Zenon
<1>6. Out!Pass /\ Contents(intq'["txq"]) # <<>>
  BY <1>2, <1>4, <1>5, Zenon DEF Out!Pass, Out!Added
<1> QED BY <1>2, <1>6, Zenon DEF OutStep, Out!Next

\* serial_flush transmits everything; the last byte stays in the UART.
LEMMA OutFlush ==
  ASSUME IInv, serial_flush
  PROVE  OutStep
<1> DEFINE q == intq["txq"]
           r == [intq_init EXCEPT !.lock = q.lock, !.head = q.head, !.tail = q.head]
           n == Size(q)
<1>1. q \in Ring /\ intq'["txq"] = r
  BY Zenon DEF serial_flush, IInv, Typed
<1>2. intq_init \in Ring
  BY BufSize, SMTT(30) DEF intq_init, Ring, Position, AnyByte
<1>3. r \in Ring /\ r.head = q.head /\ r.tail = q.head
  BY <1>1, <1>2, Zenon DEF Ring
<1>4. Contents(r) = <<>>
  <2> HIDE DEF r
  <2>1. Size(r) = 0
    BY <1>3, EmptyFull, Zenon DEF intq_empty
  <2> QED BY <1>3, <2>1, EmptyContents, Zenon
<1> HIDE DEF r
<1>5. CASE intq_empty(q)
  <2>1. n = 0 /\ UNCHANGED sent
    BY <1>1, <1>5, EmptyFull, Zenon DEF serial_flush
  <2>2. Contents(q) = <<>>
    BY <1>1, <2>1, EmptyContents, Zenon
  <2> QED BY <1>1, <1>4, <2>1, <2>2, OutSame, Zenon
<1>6. CASE ~intq_empty(q)
  <2>1. n \in 1..INTQ_BUFSIZE-1
    BY <1>1, <1>6, EmptyFull, ContentsAre, SMTT(30)
  <2>2. Len(Contents(q)) = n
    BY <1>1, <2>1, ContentsAre, SMTT(30)
  <2>3. Contents(q) # <<>>
    <3> HIDE DEF q, n
    <3> QED BY <2>1, <2>2, SMTT(30)
  <2>4. sent' = q.buf[(q.head + INTQ_BUFSIZE - 1) % INTQ_BUFSIZE]
    BY <1>6, Zenon DEF serial_flush
  <2>5. q.head \in Position /\ q.tail \in Position
    BY <1>1, Zenon DEF Ring
  <2>6. (q.head + INTQ_BUFSIZE - 1) % INTQ_BUFSIZE = Pos(q.tail + (n - 1))
    <3> DEFINE x == q.head + INTQ_BUFSIZE - 1
    <3>1. x \in 0..2*INTQ_BUFSIZE-1
      BY <2>5, BufSize, SMTT(30) DEF Position
    <3>2. x % INTQ_BUFSIZE = Pos(x)
      <4> HIDE DEF x
      <4> QED BY <3>1, Modulo, Zenon
    <3>3. Pos(x) = Pos(q.tail + (n - 1))
      BY <2>1, <2>5, BufSize, SMTT(30) DEF Position, Pos, Size
    <3> QED BY <3>2, <3>3, Zenon
  <2>7. Contents(q)[n] = q.buf[Pos(q.tail + (n - 1))]
    <3>1. n - 1 \in 0..n-1 /\ (n - 1) + 1 = n
      BY <2>1, SMTT(30)
    <3>2. Contents(q)[(n - 1) + 1] = q.buf[Pos(q.tail + (n - 1))]
      BY <1>1, <3>1, ContentsAt, Zenon
    <3> QED BY <3>1, <3>2, Zenon
  <2>8. sent' = Contents(q)[Len(Contents(q))]
    BY <2>2, <2>4, <2>6, <2>7, Zenon
  <2>9. Out!Flush /\ Contents(intq["txq"]) # <<>>
    BY <1>1, <1>4, <2>3, <2>8, Zenon DEF Out!Flush
  <2> QED BY <2>9, Zenon DEF OutStep, Out!Next
<1> QED BY <1>5, <1>6, Zenon

\* The steps of the threads.
LEMMA ThreadRefines ==
  ASSUME IInv, NEW t \in Thread, ThreadStep(t)
  PROVE  InStep /\ OutStep
<1> USE ConsoleAssumption
<1>1. intq \in [{"buffer", "txq"} -> Ring]
  BY Zenon DEF IInv, Typed
<1>2. ASSUME wait(t), UNCHANGED history
      PROVE  InStep /\ OutStep
  <2>1. \A k \in {"buffer", "txq"} :
          intq'[k].buf = intq[k].buf /\ intq'[k].head = intq[k].head
               /\ intq'[k].tail = intq[k].tail
    BY <1>1, <1>2, SMTT(30) DEF wait, Queue, Ring
  <2>2. \A k \in {"buffer", "txq"} : Contents(intq'[k]) = Contents(intq[k])
    BY <2>1, SameContents, Zenon
  <2> QED BY <1>2, <2>2, InSame, OutSame, Zenon DEF history
<1>3. ASSUME UNCHANGED <<intq, history>>
      PROVE  InStep /\ OutStep
  BY <1>3, InSame, OutSame, Zenon DEF history
<1>4. CASE IntqLocked(t)
  BY <1>2, <1>3, <1>4, Zenon DEF IntqLocked
<1>5. CASE WaitEnd(t)
  <2>1. \A k \in {"buffer", "txq"} :
          intq'[k].buf = intq[k].buf /\ intq'[k].head = intq[k].head
               /\ intq'[k].tail = intq[k].tail
    BY <1>1, <1>5, SMTT(30) DEF WaitEnd, Queue, Ring
  <2>2. \A k \in {"buffer", "txq"} : Contents(intq'[k]) = Contents(intq[k])
    BY <2>1, SameContents, Zenon
  <2> QED BY <1>5, <2>2, InSame, OutSame, Zenon DEF WaitEnd, history
<1>6. CASE MustSleep(t)
  BY <1>2, <1>3, <1>6, Zenon DEF MustSleep
<1>7. CASE input_getc(t) /\ ~MustSleep(t)
  <2>1. /\ ~intq_empty(intq["buffer"]) /\ intq' = [intq EXCEPT !["buffer"] = Taken(@)]
        /\ got' = First(intq["buffer"]) /\ UNCHANGED sent
    BY <1>7, Zenon DEF input_getc, MustWait, Queue
  <2>2. intq'["buffer"] = Taken(intq["buffer"]) /\ intq'["txq"] = intq["txq"]
    BY <1>1, <2>1, Zenon
  <2> QED BY <1>1, <2>1, <2>2, InGet, OutSame, Zenon
<1>8. CASE serial_putc(t) /\ ~MustSleep(t)
  <2> DEFINE b == <<t, WriteSize - left[t] + 1>>
  <2>1. /\ t \in Writer /\ left[t] > 0
        /\ ~intq_full(intq["txq"]) /\ intq' = [intq EXCEPT !["txq"] = Put(@, b)]
             /\ UNCHANGED <<got, sent>>
    BY <1>8, Zenon DEF serial_putc, MustWait, Queue
  <2>2. b \in OutByte
    <3>1. left[t] \in Nat /\ left[t] =< WriteSize /\ WriteSize \in Nat
      BY <2>1, Zenon DEF IInv, Typed, TypeOK, Printing
    <3>2. WriteSize - left[t] + 1 \in 1..WriteSize
      BY <2>1, <3>1, SMTT(30)
    <3> QED BY <2>1, <3>2, Zenon DEF OutByte
  <2> HIDE DEF b
  <2>3. intq'["txq"] = Put(intq["txq"], b) /\ intq'["buffer"] = intq["buffer"]
    BY <1>1, <2>1, Zenon
  <2> QED BY <1>1, <2>1, <2>2, <2>3, OutPut, InSame, Zenon
<1>9. CASE acquire_console(t) \/ release_console(t)
  BY <1>3, <1>9, Zenon DEF acquire_console, release_console
<1> QED BY <1>4, <1>5, <1>6, <1>7, <1>8, <1>9, Zenon DEF ThreadStep

\* The steps of the interrupt handlers and the devices.
LEMMA HandlerRefines ==
  ASSUME IInv, Device \/ Environment
  PROVE  InStep /\ OutStep
<1> USE ConsoleAssumption
<1>1. intq \in [{"buffer", "txq"} -> Ring]
  BY Zenon DEF IInv, Typed
<1>2. ASSUME UNCHANGED <<intq, history>>
      PROVE  InStep /\ OutStep
  BY <1>2, InSame, OutSame, Zenon DEF history
<1>3. CASE Transmit \/ \E b \in Input : Receive(b)
  BY <1>2, <1>3, Zenon DEF Transmit, Receive
<1>4. CASE PrintOff
  <2> DEFINE b == <<None, prints + 1>>
             q == intq["txq"]
  <2>1. b \in OutByte
    <3>1. prints < MaxPrints /\ prints \in Nat /\ MaxPrints \in Nat
      BY <1>4, Zenon DEF PrintOff, IInv, Typed
    <3>2. prints + 1 \in 1..MaxPrints
      BY <3>1, SMTT(30)
    <3> QED BY <3>2, Zenon DEF OutByte
  <2>2. CASE intq_full(q)
    <3>1. intq' = [intq EXCEPT !["txq"] = Put(Taken(q), b)] /\ sent' = First(q) /\ UNCHANGED got
      BY <1>4, <2>2, Zenon DEF PrintOff
    <3> HIDE DEF b
    <3>2. intq'["txq"] = Put(Taken(q), b) /\ intq'["buffer"] = intq["buffer"]
      BY <1>1, <3>1, Zenon
    <3> QED BY <1>1, <2>1, <2>2, <3>1, <3>2, OutPass, InSame, Zenon
  <2>3. CASE ~intq_full(q)
    <3>1. intq' = [intq EXCEPT !["txq"] = Put(q, b)] /\ UNCHANGED <<got, sent>>
      BY <1>4, <2>3, Zenon DEF PrintOff
    <3> HIDE DEF b
    <3>2. intq'["txq"] = Put(q, b) /\ intq'["buffer"] = intq["buffer"]
      BY <1>1, <3>1, Zenon
    <3> QED BY <1>1, <2>1, <2>3, <3>1, <3>2, OutPut, InSame, Zenon
  <2> QED BY <2>2, <2>3, Zenon
<1>5. CASE serial_flush
  <2>1. intq'["buffer"] = intq["buffer"] /\ UNCHANGED got
    BY <1>1, <1>5, Zenon DEF serial_flush
  <2> QED BY <1>5, <2>1, InSame, OutFlush, Zenon
<1>6. ASSUME NEW code \in Codes, NEW release \in BOOLEAN, keyboard_interrupt(code, release)
      PROVE  InStep /\ OutStep
  <2> DEFINE b == KeyChar(code, held, caps_lock)
  <2>1. CASE RawChar(code, held) # NoChar /\ ~release /\ ~Reboots(code, held)
               /\ ~intq_full(intq["buffer"])
    <3>1. intq' = [intq EXCEPT !["buffer"] = Put(@, b)] /\ UNCHANGED <<got, sent>>
      BY <1>6, <2>1, Zenon DEF keyboard_interrupt, input_putc, history
    <3>2. b \in 0..255
      <4>1. code \in Nat
        BY Zenon
      <4> QED BY <2>1, <4>1, KeyByte, ZenonT(30)
    <3> HIDE DEF b
    <3>3. intq'["buffer"] = Put(intq["buffer"], b) /\ intq'["txq"] = intq["txq"]
      BY <1>1, <3>1, Zenon
    <3> QED BY <1>1, <2>1, <3>1, <3>2, <3>3, InPut, OutSame, ZenonT(30)
  <2>2. CASE ~(RawChar(code, held) # NoChar /\ ~release /\ ~Reboots(code, held)
               /\ ~intq_full(intq["buffer"]))
    BY <1>2, <1>6, <2>2, ZenonT(30) DEF keyboard_interrupt
  <2> QED BY <2>1, <2>2, Zenon
<1>7. CASE serial_interrupt
  <2> DEFINE q == intq["buffer"]
             x == intq["txq"]
             receives == ~intq_full(q) /\ rbr # None
             sends == ~intq_empty(x) /\ thre
  <2>1. UNCHANGED got /\ sent' = IF sends THEN First(x) ELSE sent
    BY <1>7, Zenon DEF serial_interrupt
  <2>2. intq'["buffer"] = IF receives THEN Put(q, rbr) ELSE q
    BY <1>1, <1>7, Zenon DEF serial_interrupt, input_putc
  <2>3. intq'["txq"] = IF sends THEN Taken(x) ELSE x
    BY <1>1, <1>7, Zenon DEF serial_interrupt, input_putc
  <2>4. InStep
    <3>1. receives => rbr \in 0..255
      BY Zenon DEF IInv, Typed, TypeOK
    <3> QED BY <1>1, <2>1, <2>2, <3>1, InPut, InSame, Zenon
  <2>5. OutStep
    BY <1>1, <2>1, <2>3, OutGet, OutSame, ZenonT(30)
  <2> QED BY <2>4, <2>5, Zenon
<1> QED BY <1>3, <1>4, <1>5, <1>6, <1>7, Zenon DEF Device, Environment

\* What is typed and received reaches sys_read, and what is printed reaches the
\* UART, in order and each byte once: the two rings of intq.c, with the interrupt
\* handlers, the polling of a full ring and the flush at shutdown, implement
\* queues of INTQ_BUFSIZE - 1 bytes.
THEOREM BytesStayInOrder == Spec => BytesInOrder
<1> USE ConsoleAssumption
<1>1. Init => In!Init /\ Out!Init
  <2> SUFFICES ASSUME Init PROVE In!Init /\ Out!Init
    BY ZenonT(30)
  <2>1. intq["buffer"] = intq_init /\ intq["txq"] = intq_init /\ got = None /\ sent = None
    BY ZenonT(30) DEF Init
  <2>2. intq_init \in Ring /\ Size(intq_init) = 0
    BY BufSize, SMTT(30) DEF intq_init, Ring, Position, AnyByte, Size
  <2>3. PICK r \in Ring : r = intq_init /\ Size(r) = 0
    BY <2>2, ZenonT(30)
  <2>4. Contents(r) = <<>>
    BY <2>3, EmptyContents, SMTT(30)
  <2> QED BY <2>1, <2>3, <2>4, SMTT(30) DEF In!Init, Out!Init
<1>2. IInv /\ [Next]_vars => InStep /\ OutStep
  <2> SUFFICES ASSUME IInv, [Next]_vars PROVE InStep /\ OutStep
    BY Zenon
  <2>1. CASE UNCHANGED vars
    BY <2>1, InSame, OutSame, Zenon DEF vars
  <2> QED BY <2>1, ThreadRefines, HandlerRefines, Zenon DEF Next, Quiet
<1>3. Spec => In!Spec /\ Out!Spec
  BY <1>1, <1>2, Invariance, PTL DEF Spec, In!Spec, Out!Spec, InStep, OutStep
<1> QED BY <1>3, Zenon DEF BytesInOrder, InputInOrder, OutputInOrder
=============================================================================
