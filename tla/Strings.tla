------------------------------- MODULE Strings -------------------------------
(***************************************************************************)
(* Byte and string functions (lib/string.c).  Memory is a sequence m of    *)
(* bytes, a pointer a 0-based index of it, and Null the null pointer.  The *)
(* string at s ends at the first 0 byte.                                   *)
(***************************************************************************)
EXTENDS Integers, SequencesExt

Null == -1

Byte(m, p) == m[p + 1]
Store(m, p, b) == [m EXCEPT ![p + 1] = b]

\* The first of a set of positions, or Null.
FirstOf(S) == IF S = {} THEN Null ELSE Min(S)

\* One byte copied after the other: moves is a sequence of pairs <<dst, src>>.
Copy(m, moves) == FoldLeft(LAMBDA mem, mv : Store(mem, mv[1], Byte(mem, mv[2])), m, moves)

memcpy(m, dst, src, size) == Copy(m, [i \in 1..size |-> <<dst + i - 1, src + i - 1>>])

\* Mutant of memmove: always from the front.
memmove_front(m, dst, src, size) == memcpy(m, dst, src, size)

memmove(m, dst, src, size) ==
  IF dst < src THEN memcpy(m, dst, src, size)
  ELSE Copy(m, [i \in 1..size |-> <<dst + size - i, src + size - i>>])

Sign(x, y) == IF x > y THEN 1 ELSE IF x < y THEN -1 ELSE 0

memcmp(m, a, b, size) ==
  LET i == FirstOf({i \in 0..size-1 : Byte(m, a + i) # Byte(m, b + i)})
  IN IF i = Null THEN 0 ELSE Sign(Byte(m, a + i), Byte(m, b + i))

memchr(m, block, ch, size) == FirstOf({p \in block..block+size-1 : Byte(m, p) = ch})

strlen(m, s) == Min({i \in 0..Len(m)-1 : s + i < Len(m) /\ Byte(m, s + i) = 0})
strnlen(m, s, maxlen) == Min({i \in 0..maxlen : i = maxlen \/ Byte(m, s + i) = 0})

\* Both strings up to the first difference or the end of a.
strcmp(m, a, b) ==
  LET i == Min({i \in 0..Min({strlen(m, a), strlen(m, b)}) : Byte(m, a + i) = 0 \/ Byte(m, a + i) # Byte(m, b + i)})
  IN Sign(Byte(m, a + i), Byte(m, b + i))

\* The null byte at the end counts as part of the string.
strchr(m, string, c) == FirstOf({p \in string..string+strlen(m, string) : Byte(m, p) = c})
strrchr(m, string, c) ==
  LET at == {p \in string..string+strlen(m, string)-1 : Byte(m, p) = c}
  IN IF at = {} THEN Null ELSE Max(at)

strcspn(m, string, stop) ==
  Min({i \in 0..strlen(m, string) : i = strlen(m, string) \/ strchr(m, stop, Byte(m, string + i)) # Null})
strspn(m, string, skip) ==
  Min({i \in 0..strlen(m, string) : i = strlen(m, string) \/ strchr(m, skip, Byte(m, string + i)) = Null})
strpbrk(m, string, stop) ==
  FirstOf({p \in string..string+strlen(m, string)-1 : strchr(m, stop, Byte(m, p)) # Null})

strstr(m, haystack, needle) ==
  LET h == strlen(m, haystack)
      n == strlen(m, needle)
      i == IF h < n THEN Null ELSE FirstOf({i \in 0..h-n : memcmp(m, haystack + i, needle, n) = 0})
  IN IF i = Null THEN Null ELSE haystack + i

\* The next token from s on, delimiters being a set of bytes: delimiters are
\* skipped, the token's end is overwritten with a null byte.
strtok_r(m, s, delimiters) ==
  LET end == s + strlen(m, s)
      token == Min({p \in s..end : p = end \/ Byte(m, p) \notin delimiters})
      stop == Min({p \in token..end : p = end \/ Byte(m, p) \in delimiters})
  IN IF token = end THEN [m |-> m, token |-> Null, save_ptr |-> end]
     ELSE IF stop = end THEN [m |-> m, token |-> token, save_ptr |-> end]
     ELSE [m |-> Store(m, stop, 0), token |-> token, save_ptr |-> stop + 1]

strlcpy(m, dst, src, size) ==
  LET dst_len == Min({size - 1, strlen(m, src)})
  IN [m |-> IF size > 0 THEN Store(memcpy(m, dst, src, dst_len), dst + dst_len, 0) ELSE m,
      ret |-> strlen(m, src)]

strlcat(m, dst, src, size) ==
  LET src_len == strlen(m, src)
      dst_len == strlen(m, dst)
      copy_cnt == Min({size - dst_len - 1, src_len})
  IN [m |-> IF size > 0 /\ dst_len < size
            THEN Store(memcpy(m, dst + dst_len, src, copy_cnt), dst + dst_len + copy_cnt, 0) ELSE m,
      ret |-> src_len + dst_len]

-----------------------------------------------------------------------------
\* The tokens of the string at s, in order, as the loop of the comment of
\* strtok_r and parse_args (userprog/process.c) collects them: memory and positions.
RECURSIVE Tokens(_, _, _, _)
Tokens(m, s, delimiters, argv) ==
  LET t == strtok_r(m, s, delimiters)
  IN IF t.token = Null THEN [m |-> t.m, argv |-> argv]
     ELSE Tokens(t.m, t.save_ptr, delimiters, Append(argv, t.token))

parse_args(m, cmd_line, space) == Tokens(m, cmd_line, {space}, <<>>)

\* The string at p as a sequence.
Str(m, p) == SubSeq(m, p + 1, p + strlen(m, p))
=============================================================================
