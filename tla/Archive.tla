------------------------------ MODULE Archive ------------------------------
(***************************************************************************)
(* ustar archives on the scratch device (lib/ustar.c, filesys/fsutil.c).   *)
(* A character is its code.  A sector of the device holds SECTOR bytes of  *)
(* data or an archive header, as a record of its fields; OCTAL is   *)
(* the number of octal digits its size and checksum fields have room for   *)
(* (11 and 7 in the code), NAME the longest name (99).                     *)
(***************************************************************************)
EXTENDS Integers, SequencesExt

CONSTANTS SECTOR, OCTAL, NAME, INT_MAX, Slash, Dot

Data(bytes) == [bytes |-> bytes]
Zeros == Data([i \in 1..SECTOR |-> 0])
IsHeader(block) == "name" \in DOMAIN block
Bad == -1                          \* a field that cannot be parsed

HasPrefix(name, p) == IsPrefix(p, name)

RECURSIVE strip_antisocial_prefixes(_)
strip_antisocial_prefixes(name) ==
  IF HasPrefix(name, <<Slash>>) \/ HasPrefix(name, <<Dot, Slash>>) \/ HasPrefix(name, <<Dot, Dot, Slash>>)
  THEN strip_antisocial_prefixes(SubSeq(name, SelectInSeq(name, LAMBDA c : c = Slash) + 1, Len(name)))
  ELSE IF name = <<>> \/ name = <<Dot, Dot>> THEN <<Dot>> ELSE name

\* snprintf "%0<OCTAL>o" into a field of OCTAL + 1 bytes: the digits, a null byte.
OctalField(v) == [i \in 1..OCTAL |-> 48 + ((v \div 8^(OCTAL - i)) % 8)] \o <<0>>

\* The value of the digits before the first space or null byte.
parse_octal_field(s) ==
  LET end == SelectInSeq(s, LAMBDA c : c \notin 48..55)
  IN IF end <= 1 \/ s[Max({end, 1})] \notin {32, 0} THEN Bad
     ELSE FoldLeft(LAMBDA v, c : c - 48 + v * 8, 0, SubSeq(s, 1, end - 1))

Total(s) == FoldLeft(LAMBDA v, c : v + c, 0, s)

\* The sum of the header's bytes, its checksum field counted as spaces.
calculate_chksum(h) == Total(h.name) + Total(h.size) + h.typeflag + (OCTAL + 1) * 32

USTAR_REGULAR == 48
USTAR_DIRECTORY == 53
USTAR_EOF == -1

NoHeader == Data(<<>>)

\* A header, or NoHeader when the name is too long.
ustar_make_header(file_name, type, size) ==
  LET name == strip_antisocial_prefixes(file_name)
      h == [name |-> name, size |-> OctalField(size), typeflag |-> type, chksum |-> <<>>]
  IN IF Len(name) > NAME THEN NoHeader ELSE [h EXCEPT !.chksum = OctalField(calculate_chksum(h))]

Parsed(ok, name, type, size) == [ok |-> ok, name |-> name, type |-> type, size |-> size]

\* What a sector says as a header: ok is false where an error is returned.
ustar_parse_header(block) ==
  IF block = Zeros THEN Parsed(TRUE, <<>>, USTAR_EOF, 0)
  ELSE IF ~IsHeader(block) THEN Parsed(FALSE, <<>>, USTAR_EOF, 0)
  ELSE LET size == IF block.typeflag = USTAR_REGULAR THEN parse_octal_field(block.size) ELSE 0
           ok == /\ parse_octal_field(block.chksum) = calculate_chksum(block)
                 /\ Len(block.name) <= NAME
                 /\ block.typeflag \in {USTAR_REGULAR, USTAR_DIRECTORY}
                 /\ size \in 0..INT_MAX
       IN Parsed(ok, strip_antisocial_prefixes(block.name), block.typeflag, size)

-----------------------------------------------------------------------------
(* The device is a sequence of blocks; sector is the 0-based position each *)
(* command keeps.  A command that panics leaves panic set.                 *)

Panic(r) == [r EXCEPT !.panic = TRUE]
WriteBlock(r, sector, block) ==
  IF sector >= Len(r.dev) THEN Panic(r) ELSE [r EXCEPT !.dev[sector + 1] = block]
WriteNext(r, block) ==
  IF r.panic THEN r ELSE [WriteBlock(r, r.sector, block) EXCEPT !.sector = @ + 1]

Chunks(n) == (n + SECTOR - 1) \div SECTOR
Chunk(data, k) ==
  Data([i \in 1..SECTOR |-> IF (k - 1) * SECTOR + i <= Len(data) THEN data[(k - 1) * SECTOR + i] ELSE 0])

\* The file is archived at the command's position, and one sector after it
\* marked as the end.  That sector is written twice, the second time from one
\* byte into the buffer: its last byte, stray, is the one after the buffer.
fsutil_append(r, file_name, data, stray) ==
  LET h == ustar_make_header(file_name, USTAR_REGULAR, Len(data))
      copied == FoldLeft(LAMBDA q, k : WriteNext(q, Chunk(data, k)), WriteNext(r, h), [k \in 1..Chunks(Len(data)) |-> k])
  IN IF h = NoHeader THEN Panic(r)
     ELSE IF copied.panic THEN copied
     ELSE WriteBlock(copied, copied.sector, Data([i \in 1..SECTOR |-> IF i = SECTOR THEN stray ELSE 0]))

\* Mutant of Content: the last sector is taken whole.
Content_whole(dev, sector, size) ==
  FoldLeft(LAMBDA s, k : s \o dev[sector + k].bytes, <<>>, [k \in 1..Chunks(size) |-> k])

\* The bytes of a file whose data starts at a sector.
Content(dev, sector, size) ==
  SubSeq(FoldLeft(LAMBDA s, k : s \o dev[sector + k].bytes, <<>>, [k \in 1..Chunks(size) |-> k]), 1, size)

\* Every file up to the end mark is created: files is a sequence of names and contents.
RECURSIVE ExtractOn(_)
ExtractOn(r) ==
  LET h == ustar_parse_header(r.dev[r.sector + 1])
      next == r.sector + 1 + Chunks(h.size)
  IN IF r.sector >= Len(r.dev) THEN Panic(r)
     ELSE IF ~h.ok THEN Panic(r)
     ELSE IF h.type = USTAR_EOF THEN [r EXCEPT !.sector = @ + 1]
     ELSE IF h.type = USTAR_DIRECTORY THEN ExtractOn([r EXCEPT !.sector = @ + 1])
     ELSE IF next > Len(r.dev) \/ \E i \in DOMAIN r.files : r.files[i].name = h.name THEN Panic(r)
     ELSE ExtractOn([r EXCEPT !.sector = next,
                              !.files = Append(@, [name |-> h.name, data |-> Content(r.dev, r.sector + 1, h.size)])])

\* The archive's first two sectors are erased once it is extracted.
fsutil_extract(r) ==
  LET done == ExtractOn(r)
  IN IF done.panic THEN done ELSE [done EXCEPT !.dev[1] = Zeros, !.dev[2] = Zeros]
=============================================================================
