------------------------------- MODULE Library -------------------------------
(***************************************************************************)
(* The kernel library's algorithms against what they are for.  A behaviour *)
(* starts with one call, its arguments chosen freely; a structure that is  *)
(* built up by many calls (a hash table, a bitmap, a file's sectors, the   *)
(* screen) goes on from there, next to a plain picture of what it holds.   *)
(***************************************************************************)
EXTENDS Integers, SequencesExt, FiniteSetsExt

CONSTANTS WordBits,      \* bits of a machine word in Division
          SortLen,       \* longest list to sort
          MemLen,        \* bytes of memory in string calls
          CmdLen,        \* longest command line
          NameLen,       \* longest file name
          Keys, Tags,    \* elements put in a hash table
          HashOf,        \* the hash function
          BitCnts,       \* sizes of bitmaps
          Columns, Rows, MaxRows,   \* of the screen; of its transcript
          FlagSets, Widths, Precisions, Numbers,   \* for printf conversions
          DigitBuf,      \* bytes of printf's digit buffer
          Loads, Recents, Nices,    \* of the feedback scheduler, fixed-point but for nice
          TicksPerSecond, MaxTicks, SetNices

VARIABLE call

D == INSTANCE Division WITH W <- WordBits
K == INSTANCE KList
O == INSTANCE Sorting
S == INSTANCE Strings
H == INSTANCE HashTable WITH hash <- HashOf, MIN_BUCKETS <- 1, BEST_ELEMS_PER_BUCKET <- 1, Null <- [key |-> 0, tag |-> 0]
B == INSTANCE BitWords WITH ELEM_BITS <- 4
I == INSTANCE DiskData WITH BLOCK_SECTOR_SIZE <- 2
L == INSTANCE Loader WITH ADDR_BITS <- 5, PGSIZE <- 4, PHYS_BASE <- 24
A == INSTANCE Loader WITH ADDR_BITS <- 7, PGSIZE <- 4, PHYS_BASE <- 64
U == INSTANCE Archive WITH SECTOR <- 2, OCTAL <- 4, NAME <- NameLen, INT_MAX <- 255, Slash <- 47, Dot <- 46
P == INSTANCE Format WITH BUF <- DigitBuf
M == INSTANCE FixedPoint WITH INT_BITS <- 16, FP_SHIFT_AMOUNT <- 5, PRI_MIN <- 0, PRI_MAX <- 63, TIMER_FREQ <- TicksPerSecond
V == INSTANCE Screen WITH COL_CNT <- Columns, ROW_CNT <- Rows, TAB <- 2
T == INSTANCE Keymap

SeqsUpTo(X, n) == UNION {[1..k -> X] : k \in 0..n}

\* Elements to sort are keys with the position they started at.
Tagged(keys) == [i \in DOMAIN keys |-> <<keys[i], i>>]
ByKey(s) == {p \in Range(s) \X Range(s) : p[1][1] < p[2][1]}

NoElem == [key |-> 0, tag |-> 0]
Elements == [key : Keys, tag : Tags]
Inodes == {[start |-> 0, length |-> 3, deny_write_cnt |-> 0],
           [start |-> 2, length |-> 2, deny_write_cnt |-> 0],
           [start |-> 0, length |-> 3, deny_write_cnt |-> 1]}
Started(id) == [id |-> id, idle |-> FALSE, nice |-> 0, recent_cpu |-> 0, priority |-> 63]
Chars == {65, 7, 8, 9, 10, 12, 13}

Init ==
  \/ call \in [kind : {"divide"}, d : 1..D!DWord(-1)]
  \/ \E keys \in SeqsUpTo(1..3, SortLen) : call = [kind |-> "sort", s |-> Tagged(keys)]
  \/ call \in [kind : {"string"}, m : [1..MemLen -> 0..2]]
  \/ call \in [kind : {"arguments"}, cmd : SeqsUpTo({1, 2, 3}, CmdLen)]
  \/ call \in [kind : {"segment"}, vaddr : 0..31, offset : 0..7]
  \/ call \in [kind : {"name"}, name : SeqsUpTo({46, 47, 97}, NameLen + 1)]
  \/ call \in [kind : {"archive"}, names : [1..2 -> {<<97>>, <<47, 97>>, <<98>>}], sizes : [1..2 -> 0..3], size : 3..8]
  \/ call \in [kind : {"printf"}, conv : {"d", "o", "x"}, flags : FlagSets, width : Widths,
               precision : Precisions, type : {"int", "hh"}, arg : Numbers]
  \/ call \in [kind : {"schedule"}, load : Loads, recent : Recents]
  \/ call = [kind |-> "mlfqs", cur |-> Started(1), ready |-> <<Started(2), Started(3)>>, ticks |-> 0, load_avg |-> 0,
             yield |-> FALSE]
  \/ call \in [kind : {"key"}, c : {8, 9, 13, 27} \cup 32..126]
  \/ call = [kind |-> "hash", h |-> H!hash_init, holds |-> [k \in Keys |-> 0], old |-> NoElem, was |-> NoElem]
  \/ \E n \in BitCnts, fill \in {0, 15} : call = [kind |-> "bitmap", b |-> B!bitmap_create(n, fill), set |-> {}]
  \/ call = [kind |-> "file", disk |-> [i \in 1..3 |-> <<0, 0>>], bytes |-> [i \in 1..6 |-> 0], all |-> TRUE]
  \/ call = [kind |-> "screen", s |-> [fb |-> [y \in 1..Rows |-> V!Blank], cx |-> 0, cy |-> 0, cp |-> 0],
             log |-> [y \in 1..Rows |-> V!Blank], line |-> 1]

-----------------------------------------------------------------------------
(* Calls on a structure that is kept.                                      *)

\* hash_insert, hash_replace, hash_delete and hash_clear.
HashCall ==
  /\ call.kind = "hash"
  /\ \/ \E e \in Elements, fails \in BOOLEAN :
          LET was == [key |-> e.key, tag |-> call.holds[e.key]]
              found == IF was.tag = 0 THEN NoElem ELSE was
          IN \/ LET r == H!hash_insert(call.h, e, fails)
                IN call' = [call EXCEPT !.h = r.h, !.old = r.old, !.was = found,
                                        !.holds[e.key] = IF @ = 0 THEN e.tag ELSE @]
             \/ LET r == H!hash_replace(call.h, e, fails)
                IN call' = [call EXCEPT !.h = r.h, !.old = r.old, !.was = found, !.holds[e.key] = e.tag]
             \/ LET r == H!hash_delete(call.h, e, fails)
                IN call' = [call EXCEPT !.h = r.h, !.old = r.old, !.was = found, !.holds[e.key] = 0]
     \/ call' = [call EXCEPT !.h = H!hash_clear(@), !.holds = [k \in Keys |-> 0], !.old = NoElem, !.was = NoElem]

Bits == 0..call.b.bit_cnt-1
Flip(set, X) == (set \ X) \cup (X \ set)

\* bitmap_set, bitmap_flip and bitmap_scan_and_flip.
BitmapCall ==
  /\ call.kind = "bitmap"
  /\ \/ \E i \in Bits, value \in BOOLEAN :
          call' = [call EXCEPT !.b = B!bitmap_set(@, i, value),
                               !.set = IF value THEN @ \cup {i} ELSE @ \ {i}]
     \/ \E i \in Bits : call' = [call EXCEPT !.b = B!bitmap_flip(@, i), !.set = Flip(@, {i})]
     \/ \E start, cnt \in 0..call.b.bit_cnt, value \in BOOLEAN :
          LET r == B!bitmap_scan_and_flip(call.b, start, cnt, value)
          IN call' = [call EXCEPT !.b = r.b,
                                  !.set = IF r.idx = B!BITMAP_ERROR THEN @ ELSE Flip(@, r.idx..r.idx+cnt-1)]

\* inode_write_at; due is what a write that finds memory for its bounce buffer
\* has to write, and all whether it did.
FileCall ==
  /\ call.kind = "file"
  /\ \E inode \in Inodes, buffer \in SeqsUpTo({1}, 3) \cup SeqsUpTo({2}, 4), offset \in 0..4, fails \in BOOLEAN :
       LET r == I!inode_write_at(call.disk, inode, buffer, offset, fails)
           at == inode.start * 2 + offset
           due == IF inode.deny_write_cnt > 0 THEN 0 ELSE Max({0, Min({Len(buffer), inode.length - offset})})
       IN call' = [call EXCEPT !.disk = r.disk, !.all = fails \/ r.written = due,
                               !.bytes = [i \in 1..6 |-> IF i \in at+1..at+r.written THEN buffer[i - at] ELSE @[i]]]

\* timer_interrupt and thread_set_nice with the feedback scheduler.
MlfqsCall ==
  /\ call.kind = "mlfqs"
  /\ \/ call.ticks < MaxTicks /\ \E slice_over \in BOOLEAN : call' = M!TimerInterrupt(call, slice_over)
     \/ \E nice \in SetNices : call' = M!thread_set_nice(call, nice)

\* The transcript goes on to the next line, a new one after the last.
NextLine(log, line) == IF line = Len(log) THEN Append(log, V!Blank) ELSE log

\* vga_putc.
ScreenCall ==
  /\ call.kind = "screen"
  /\ \E c \in Chars :
       LET s == V!vga_putc(call.s, c)
           written == IF c = 65 THEN [call.log EXCEPT ![call.line][call.s.cx + 1] = c] ELSE call.log
           ends == \/ c = 10
                   \/ c = 65 /\ call.s.cx = Columns - 1
                   \/ c = 9 /\ call.s.cx >= Columns - 2
       IN /\ Len(NextLine(written, call.line)) <= MaxRows \/ ~ends
          /\ call' = IF c = 12 THEN [call EXCEPT !.s = s, !.log = [y \in 1..Rows |-> V!Blank], !.line = 1]
                     ELSE IF ends THEN [call EXCEPT !.s = s, !.log = NextLine(written, call.line), !.line = @ + 1]
                     ELSE [call EXCEPT !.s = s, !.log = written]

Next == MlfqsCall \/ HashCall \/ BitmapCall \/ FileCall \/ ScreenCall

Spec == Init /\ [][Next]_call

-----------------------------------------------------------------------------
(* Arithmetic and sorting.                                                 *)

Int2W == -(2^(2 * WordBits - 1))..(2^(2 * WordBits - 1) - 1)
Trunc(n, d) == IF n >= 0 THEN n \div d ELSE -((-n) \div d)

\* Double-word division (udiv64, sdiv64) never traps and gives the exact
\* quotient, rounded towards zero when signed; umod64 and smod64 give the
\* remainder wherever the single word they return it in can hold it.
QuotientExact ==
  call.kind = "divide" =>
    LET d == call.d
    IN /\ \A n \in 0..D!DWord(-1) :
            /\ D!udiv64(n, d) = n \div d
            /\ n % d < D!B => D!umod64(n, d) = n % d
       /\ d < 2^(2 * WordBits - 1) =>
            \A n \in Int2W :
              LET q == Trunc(n, d)
                  r == n - q * d
              IN /\ D!sdiv64(n, d) = q
                 /\ D!sdiv64(n, -d) = -q \/ n = -(2^(2 * WordBits - 1))
                 /\ r \in -(D!B \div 2)..(D!B \div 2 - 1) => D!smod64(n, d) = r

\* The merge sort list_sort runs on a list in place gives the one list that is
\* sorted and keeps equal elements in their order (the stable sort the ready
\* list's round robin rests on); list_unique then keeps the first of each
\* group of equals, and list_max and list_min find the earliest extreme.
SortsStably ==
  call.kind = "sort" =>
    LET s == call.s
        less == ByKey(s)
        sorted == O!list_sort(s, less)
        u == O!list_unique(sorted, less)
    IN /\ sorted = K!list_sort(s, less)
       /\ \A i \in DOMAIN u.s : \A j \in DOMAIN s : s[j][1] = u.s[i][1] => u.s[i][2] <= s[j][2]
       /\ {u.s[i][1] : i \in DOMAIN u.s} = {s[i][1] : i \in DOMAIN s} /\ Len(u.s) + Len(u.duplicates) = Len(s)
       /\ s # <<>> => /\ O!list_min(s, less) = sorted[1]
                      /\ O!list_max(s, less) = O!list_min(s, {<<p[2], p[1]>> : p \in less})

\* The heap sort behind sort and qsort orders every array without losing an
\* element, and binary_search finds a key in the result exactly when it is there.
HeapSorts ==
  call.kind = "sort" =>
    LET s == call.s
        array == O!sort(s, ByKey(s))
        all == ByKey(s) \cup {p \in ((1..3) \X {0}) \X Range(s) : p[1][1] < p[2][1]}
                 \cup {p \in Range(s) \X ((1..3) \X {0}) : p[1][1] < p[2][1]}
    IN /\ Range(array) = Range(s)
       /\ K!is_sorted(array, ByKey(s))
       /\ \A k \in 1..3 :
            LET at == O!binary_search(<<k, 0>>, array, all)
            IN IF \E i \in DOMAIN array : array[i][1] = k THEN at # 0 /\ array[at][1] = k ELSE at = 0

-----------------------------------------------------------------------------
(* Strings, formats and names.                                             *)

StringAt(p) == \E q \in p..MemLen-1 : S!Byte(call.m, q) = 0

\* memmove copies as if through a second buffer, however source and
\* destination overlap, and touches no other byte.
MovesWhole ==
  call.kind = "string" =>
    \A dst, src \in 0..MemLen-1 : \A size \in 0..(MemLen - Max({dst, src})) :
      LET m == S!memmove(call.m, dst, src, size)
      IN \A p \in 0..MemLen-1 :
           S!Byte(m, p) = IF p \in dst..dst+size-1 THEN S!Byte(call.m, src + p - dst) ELSE S!Byte(call.m, p)

\* strlcpy and strlcat write nothing outside the SIZE bytes of the destination,
\* end it with a null byte, and return the length of the string they were
\* asked to build, so that a shortened result is seen (filesys and thread
\* names, argument pages are copied so).
CopiesBounded ==
  call.kind = "string" =>
    \A src \in 0..MemLen-1 : \A size \in 1..src :
      StringAt(src) =>
        LET r == S!strlcpy(call.m, 0, src, size)
            c == S!strlcat(call.m, 0, src, size)
            text == S!Str(call.m, src)
        IN /\ \A p \in size..MemLen-1 : S!Byte(r.m, p) = S!Byte(call.m, p) /\ S!Byte(c.m, p) = S!Byte(call.m, p)
           /\ S!Str(r.m, 0) = SubSeq(text, 1, Min({size - 1, Len(text)})) /\ r.ret = Len(text)
           /\ S!strlen(call.m, 0) < size =>
                LET both == S!Str(call.m, 0) \o text
                IN S!Str(c.m, 0) = SubSeq(both, 1, Min({size - 1, Len(both)})) /\ c.ret = Len(both)

\* The searching functions of string.c agree with one another: strpbrk
\* and strspn with strcspn, strchr with strrchr and memchr, strlen with strnlen,
\* strstr and strcmp with the strings' characters.
SearchesAgree ==
  call.kind = "string" =>
    \A s, t \in 0..MemLen-1 :
      (StringAt(s) /\ StringAt(t)) =>
        LET m == call.m
            n == S!strlen(m, s)
        IN /\ S!strpbrk(m, s, t) = IF S!strcspn(m, s, t) = n THEN S!Null ELSE s + S!strcspn(m, s, t)
           /\ (S!strcmp(m, s, t) = 0) = (S!Str(m, s) = S!Str(m, t))
           /\ S!strcmp(m, s, t) = -S!strcmp(m, t, s)
           /\ LET at == S!strstr(m, s, t)
              IN IF at = S!Null THEN \A i \in 0..n : ~IsPrefix(S!Str(m, t), SubSeq(S!Str(m, s), i + 1, n))
                 ELSE IsPrefix(S!Str(m, t), S!Str(m, at)) /\ at \in s..s+n
           /\ n > 0 => ((S!strspn(m, s, t) = 0) # (S!strcspn(m, s, t) = 0))
           /\ \A k \in 0..n+1 : S!strnlen(m, s, k) = Min({k, n})
           /\ \A c \in 1..2 : /\ S!memchr(m, s, c, n) = S!strchr(m, s, c)
                              /\ (S!strchr(m, s, c) = S!Null) = (c \notin Range(S!Str(m, s)))
                              /\ S!strchr(m, s, c) <= S!strrchr(m, s, c)

Conversion == [conv |-> call.conv, flags |-> call.flags, width |-> call.width, precision |-> call.precision,
               type |-> call.type, arg |-> IF call.conv = "d" THEN call.arg ELSE Max({call.arg, 0})]

\* printf's integer conversions: a decimal is read back by atoi as the number
\* printed, whatever flags, width and precision; the field is as wide as asked
\* and no wider than that or its text (a * width below zero with the 0 flag
\* pads twice, and is left out); the digits fit format_integer's buffer.
FormatReads ==
  call.kind = "printf" =>
    LET out == P!Convert(Conversion)
        c == P!parse_conversion(Conversion)
        bare == P!Convert([Conversion EXCEPT !.width = 0])
        v == P!SignedArg(call.arg, call.type)
    IN /\ call.conv = "d" /\ "GROUP" \notin call.flags => P!atoi(out) = v
       /\ ~({"MINUS", "ZERO"} \subseteq c.flags) => Len(out) = Max({Len(bare), c.width})
       /\ \A b \in {P!base_d, P!base_o, P!base_x} : Len(P!Buf(Max({v, -v}), b, c)) <= DigitBuf

\* vsnprintf stores at most BUF_SIZE bytes, the last of them a null, of the text
\* it would print, and returns that text's length.
BufferBounded ==
  call.kind = "printf" =>
    LET format == <<[lit |-> 65], Conversion, [lit |-> 66]>>
        text == P!vprintf(format)
    IN \A buf_size \in {0, 1, 2, 5} :
         LET r == P!vsnprintf(buf_size, format)
         IN /\ r.ret = Len(text)
            /\ r.buffer = IF buf_size = 0 THEN <<>> ELSE Append(SubSeq(text, 1, Min({buf_size - 1, Len(text)})), 0)

Unsafe(name) == \/ name = <<>> \/ name = <<46, 46>>
                \/ \E p \in {<<47>>, <<46, 47>>, <<46, 46, 47>>} : IsPrefix(p, name)

\* A name taken from an archive, or put into one, is free of the prefixes
\* strip_antisocial_prefixes is there to drop, and is the end of the given name.
NamesStripped ==
  call.kind = "name" =>
    LET n == U!strip_antisocial_prefixes(call.name)
    IN ~Unsafe(n) /\ (n = <<46>> \/ IsSuffix(n, call.name))

\* Every character of a PC keyboard's layout can be typed: some key, with or
\* without shift, is translated to it (keyboard_interrupt's maps).
EveryCharTypeable ==
  call.kind = "key" => \E code \in 0..127, held \in {{}, {T!LeftShift}} : T!KeyChar(code, held, FALSE) = call.c

-----------------------------------------------------------------------------
(* A program's memory, its arguments, archives and the feedback scheduler. *)

\* What a page table entry puts at an address: an offset of the file, or zero.
LoadedByte(e, a) == IF a - e.upage < e.read_bytes THEN e.ofs + a - e.upage ELSE -1

\* Every segment validate_segment accepts is loaded as its program header
\* says: each byte of it lies in exactly one page entry that load_segment made,
\* the first p_filesz bytes come from the file at p_offset on, the others are
\* zero, and no entry is in page 0 or reaches the kernel.
SegmentsLoaded ==
  call.kind = "segment" =>
    \A filesz \in 0..9, memsz \in 0..31 :
      LET phdr == [p_vaddr |-> call.vaddr, p_offset |-> call.offset, p_filesz |-> filesz, p_memsz |-> memsz]
          pages == L!LoadSegment(phdr)
      IN L!validate_segment(phdr, 7) =>
           /\ \A e \in pages : e.upage \in 4..20 /\ e.read_bytes + e.zero_bytes = 4
           /\ \A i \in 0..memsz-1 :
                LET a == call.vaddr + i
                    at == {e \in pages : a \in e.upage..e.upage+3}
                IN Cardinality(at) = 1 /\ \A e \in at : LoadedByte(e, a) = IF i < filesz THEN call.offset + i ELSE -1

\* The words of a command line, 2 being the space.
RECURSIVE Words(_)
Words(cmd) ==
  IF cmd = <<>> THEN <<>>
  ELSE IF Head(cmd) = 2 THEN Words(Tail(cmd))
  ELSE LET n == Min({k \in 1..Len(cmd) : k = Len(cmd) \/ cmd[k + 1] = 2})
       IN <<SubSeq(cmd, 1, n)>> \o Words(SubSeq(cmd, n + 1, Len(cmd)))

StackString(stk, a) == [i \in 1..(Min({k \in a..63 : stk[k] = 0}) - a) |-> stk[a + i - 1]]

\* A program started with a command line finds its words on the stack: a null
\* return address, argc, argv, and argv[0] to argv[argc - 1] pointing to the
\* words in order with a null pointer after them; the stack pointer and the
\* pointer array are word aligned, whatever the words' lengths.
ArgumentsPassed ==
  call.kind = "arguments" =>
    LET args == S!parse_args(call.cmd \o <<0>>, 0, 2)
        strings == [i \in DOMAIN args.argv |-> S!Str(args.m, args.argv[i])]
        st == A!PushArguments([a \in 0..63 |-> 9], strings)
        argv == st.stk[st.esp + 8]
    IN strings # <<>> =>
         /\ strings = Words(call.cmd)
         /\ st.esp % 4 = 0 /\ argv = st.esp + 12
         /\ st.stk[st.esp] = 0 /\ st.stk[st.esp + 4] = Len(strings)
         /\ \A i \in DOMAIN strings : StackString(st.stk, st.stk[argv + 4 * (i - 1)]) = strings[i]
         /\ st.stk[argv + 4 * Len(strings)] = 0

ArchiveData(k) == [i \in 1..call.sizes[k] |-> 10 * k + i]
Device(dev) == [dev |-> dev, sector |-> 0, panic |-> FALSE, files |-> <<>>]

\* Two files fsutil_append archived one after the other are extracted by
\* fsutil_extract with the names, sizes and bytes they had, over whatever the
\* scratch device held before; the archive is then gone, so that a second
\* extraction finds nothing.  (The byte behind the append buffer is taken to be
\* 0: any other makes the end mark unreadable.)
ArchiveRoundTrip ==
  call.kind = "archive" =>
    LET names == [k \in 1..2 |-> U!strip_antisocial_prefixes(call.names[k])]
        junk == [i \in 1..call.size |-> U!Data(<<9, 9>>)]
        a1 == U!fsutil_append(Device(junk), call.names[1], ArchiveData(1), 0)
        a2 == U!fsutil_append(a1, call.names[2], ArchiveData(2), 0)
        x == U!fsutil_extract(Device(a2.dev))
    IN /\ ~a1.panic => /\ a1.sector < call.size
                       /\ a2.panic <=> a1.sector + 1 + U!Chunks(call.sizes[2]) >= call.size
       /\ (~a1.panic /\ ~a2.panic /\ names[1] # names[2]) =>
            /\ ~x.panic
            /\ x.files = [k \in 1..2 |-> [name |-> names[k], data |-> ArchiveData(k)]]
            /\ U!fsutil_extract(Device(x.dev)).files = <<>>

\* The checksum of an archive header catches any one changed byte of the name
\* or the size: ustar_parse_header refuses it.
ChecksumCatches ==
  call.kind = "name" =>
    \A size \in {0, 9, 255} :
      LET h == U!ustar_make_header(call.name, U!USTAR_REGULAR, size)
      IN h # U!NoHeader =>
           /\ LET r == U!ustar_parse_header(h)
              IN r.ok /\ r.name = h.name /\ r.size = size
           /\ \A i \in DOMAIN h.name : ~U!ustar_parse_header([h EXCEPT !.name[i] = @ + 1]).ok
           /\ \A i \in 1..4 : ~U!ustar_parse_header([h EXCEPT !.size[i] = IF @ = 48 THEN 49 ELSE 48]).ok

Thread(recent, nice) == [idle |-> FALSE, nice |-> nice, recent_cpu |-> recent, priority |-> 0]

\* A thread's computed priority is one there is a place for, and neither more
\* CPU time nor a larger nice value ever raises it (mlfqs_priority_of).
PriorityMonotone ==
  call.kind = "schedule" =>
    \A nice \in Nices :
      LET p == M!mlfqs_priority_of(Thread(call.recent, nice))
      IN /\ p \in 0..63
         /\ \A recent \in Recents : recent > call.recent => M!mlfqs_priority_of(Thread(recent, nice)) <= p
         /\ \A n \in Nices : n > nice => M!mlfqs_priority_of(Thread(call.recent, n)) <= p

Between(x, a, b) == (a <= x /\ x <= b) \/ (b <= x /\ x <= a)

\* The second's update: the load average moves towards the number of ready
\* threads without passing it and without overflow; recent_cpu decays towards
\* nice, never past it; and the load average reported is 100 times the value,
\* rounded to the nearest.
LoadDecays ==
  call.kind = "schedule" =>
    /\ \A ready \in 0..10 :
         LET load == M!LoadAvg(call.load, ready)
         IN load \in 0..Max({call.load, ready * M!F})
    /\ \A nice \in Nices :
         Between(M!Decay(Thread(call.recent, nice), call.load).recent_cpu - nice * M!F, 0, call.recent)
    /\ LET off == 100 * call.load - M!F * M!thread_get_load_avg(call.load)
       IN 2 * off \in -(M!F)..(M!F)

\* With the feedback scheduler the ready list is always in order of priority, and
\* the running thread yields to a ready one that outranks it in the same
\* interrupt or call; except that the update once a second comes after the tick
\* has looked, and its changes wait for the next tick.
RunsTheHighest ==
  call.kind = "mlfqs" =>
    /\ \A i \in 2..Len(call.ready) : call.ready[i - 1].priority >= call.ready[i].priority
    /\ M!Outranked(call) => call.ticks % TicksPerSecond = 0

-----------------------------------------------------------------------------
(* The structures that are kept.                                           *)

\* A hash table holds what was put in and not taken out, whatever the order of
\* calls and whichever reallocations of its buckets failed: every lookup, the
\* count, an iteration, and the element each call returned agree with it.
HashFinds ==
  call.kind = "hash" =>
    LET held == {[key |-> k, tag |-> call.holds[k]] : k \in {k \in Keys : call.holds[k] # 0}}
        seen == H!Visit(call.h, H!hash_first)
    IN /\ \A k \in Keys : H!hash_find(call.h, [key |-> k, tag |-> 0]) =
                            IF call.holds[k] = 0 THEN NoElem ELSE [key |-> k, tag |-> call.holds[k]]
       /\ call.h.elem_cnt = Cardinality(held)
       /\ Range(seen) = held /\ Len(seen) = Cardinality(held) /\ H!hash_apply(call.h) = seen
       /\ call.old = call.was
       /\ H!is_power_of_2(Len(call.h.buckets))

\* A bitmap's words say of each bit what was last stored there, and scanning
\* them finds the first group of equal bits at or after the start, or none
\* when there is none (the page, swap, sector and frame allocators' search).
BitsAgree ==
  call.kind = "bitmap" =>
    /\ \A i \in Bits : B!bitmap_test(call.b, i) = (i \in call.set)
    /\ \A start, cnt \in 0..call.b.bit_cnt, value \in BOOLEAN :
         LET groups == {i \in start..call.b.bit_cnt-cnt : \A j \in i..i+cnt-1 : (j \in call.set) = value}
         IN /\ B!bitmap_scan(call.b, start, cnt, value) = IF groups = {} THEN B!BITMAP_ERROR ELSE Min(groups)
            /\ start + cnt <= call.b.bit_cnt =>
                 B!bitmap_count(call.b, start, cnt, value) =
                   Cardinality({i \in start..start+cnt-1 : (i \in call.set) = value})

\* A file's bytes are those last written at their offsets, however writes and
\* reads fall across sectors: a write changes no byte outside its range, of the
\* file or of its neighbour, and stops only at the end of the file.
FileBytes ==
  call.kind = "file" =>
    /\ call.all
    /\ \A inode \in Inodes, size \in 0..4, offset \in 0..4 :
         LET n == Max({0, Min({size, inode.length - offset})})
         IN I!inode_read_at(call.disk, inode, size, offset, FALSE) =
              [i \in 1..n |-> call.bytes[inode.start * 2 + offset + i]]

\* The screen shows the last rows of everything written since it was cleared,
\* and the cursor, the hardware's copy included, is on it where the next
\* character goes.
ScreenShowsTail ==
  call.kind = "screen" =>
    LET s == call.s
        gone == Len(call.log) - Rows
    IN /\ s.fb = SubSeq(call.log, gone + 1, Len(call.log))
       /\ s.cy = call.line - gone - 1 /\ s.cx \in 0..Columns-1
       /\ V!find_cursor(s.cp) = [x |-> s.cx, y |-> s.cy]

-----------------------------------------------------------------------------
(* The properties in the groups in which they are checked.                 *)

\* Sorting, hash tables and bitmaps agree with the sequences and sets they
\* stand for.
ContainersAgree == SortsStably /\ HeapSorts /\ HashFinds /\ BitsAgree

\* The string calls agree with their reference definitions, wherever source and
\* destination overlap and whatever the bounds given.
StringsAgree == MovesWhole /\ CopiesBounded /\ SearchesAgree

\* 64-bit division and printf's conversions give the numbers they are given.
NumbersExact == QuotientExact /\ FormatReads /\ BufferBounded

\* A program starts with its segments as its file has them and its arguments as
\* the command line has them.
ProgramsLoaded == SegmentsLoaded /\ ArgumentsPassed

\* What is put into an archive comes out of it, under a harmless name, and a
\* damaged header is refused.
ArchivesKept == NamesStripped /\ ArchiveRoundTrip /\ ChecksumCatches

\* The feedback scheduler lowers whoever has used the CPU, forgets it in time,
\* without overflow, and runs the highest priority.
FeedbackWorks == PriorityMonotone /\ LoadDecays /\ RunsTheHighest

\* What is printed is on the screen, and everything can be typed.
ConsoleWorks == ScreenShowsTail /\ EveryCharTypeable
=============================================================================
