------------------------------- MODULE Loader -------------------------------
(***************************************************************************)
(* What a program starts with (userprog/process.c): the pages a segment of *)
(* the executable is mapped to, and the arguments on its stack.  Addresses *)
(* have ADDR_BITS bits (32 in the code) and pages PGSIZE bytes.            *)
(***************************************************************************)
EXTENDS Integers, SequencesExt

CONSTANTS ADDR_BITS, PGSIZE, PHYS_BASE

S == INSTANCE Strings

Addr(x) == x % 2^ADDR_BITS
pg_ofs(a) == a % PGSIZE
pg_round_down(a) == a - pg_ofs(a)
ROUND_UP(x, step) == ((x + step - 1) \div step) * step
is_user_vaddr(a) == a < PHYS_BASE

\* Mutant of validate_segment: the sum is taken without its overflow.
validate_segment_wrap(phdr, file_length) ==
  /\ pg_ofs(phdr.p_offset) = pg_ofs(phdr.p_vaddr)
  /\ phdr.p_offset <= file_length
  /\ phdr.p_memsz >= phdr.p_filesz
  /\ phdr.p_memsz # 0
  /\ is_user_vaddr(phdr.p_vaddr)
  /\ is_user_vaddr(Addr(phdr.p_vaddr + phdr.p_memsz))
  /\ phdr.p_vaddr >= PGSIZE

validate_segment(phdr, file_length) ==
  /\ pg_ofs(phdr.p_offset) = pg_ofs(phdr.p_vaddr)
  /\ phdr.p_offset <= file_length
  /\ phdr.p_memsz >= phdr.p_filesz
  /\ phdr.p_memsz # 0
  /\ is_user_vaddr(phdr.p_vaddr)
  /\ is_user_vaddr(Addr(phdr.p_vaddr + phdr.p_memsz))
  /\ Addr(phdr.p_vaddr + phdr.p_memsz) >= phdr.p_vaddr
  /\ phdr.p_vaddr >= PGSIZE

\* load_segment with demand paging: one supplemental page table entry a page.
RECURSIVE load_segment(_, _, _, _)
load_segment(ofs, upage, read_bytes, zero_bytes) ==
  LET page_read == Min({read_bytes, PGSIZE})
      page_zero == PGSIZE - page_read
  IN IF read_bytes <= 0 /\ zero_bytes <= 0 THEN {}
     ELSE {[upage |-> upage, ofs |-> ofs, read_bytes |-> page_read, zero_bytes |-> page_zero]}
            \cup load_segment(ofs + page_read, Addr(upage + PGSIZE), read_bytes - page_read, zero_bytes - page_zero)

\* The PT_LOAD case of load: whole pages around the segment.
LoadSegment(phdr) ==
  LET page_offset == pg_ofs(phdr.p_vaddr)
      read_bytes == IF phdr.p_filesz > 0 THEN page_offset + phdr.p_filesz ELSE 0
      zero_bytes == Addr(ROUND_UP(page_offset + phdr.p_memsz, PGSIZE)) - read_bytes
  IN load_segment(pg_round_down(phdr.p_offset), pg_round_down(phdr.p_vaddr), read_bytes, zero_bytes)

-----------------------------------------------------------------------------
(* The arguments.  The stack is a function from addresses below PHYS_BASE  *)
(* to bytes; a pointer or an int takes a word of WORD bytes, and is kept   *)
(* at the word's address.                                                  *)

WORD == 4

Put(stk, a, bytes) == [x \in DOMAIN stk |-> IF x \in a..a+Len(bytes)-1 THEN bytes[x - a + 1] ELSE stk[x]]

\* A string, its null byte included, and a word pushed.
PushString(st, string) ==
  LET esp == st.esp - (Len(string) + 1)
  IN [esp |-> esp, stk |-> Put(st.stk, esp, Append(string, 0)), ptrs |-> <<esp>> \o st.ptrs]
PushWord(st, w) == [st EXCEPT !.esp = @ - WORD, !.stk = Put(@, st.esp - WORD, <<w, 0, 0, 0>>)]

Align(st) ==
  LET padding == st.esp % WORD
  IN [st EXCEPT !.esp = @ - padding, !.stk = Put(@, st.esp - padding, [i \in 1..padding |-> 0])]

\* start_process: strings from the last argument to the first, padding, the
\* null that ends argv, the pointers, argv itself, argc and a return address.
PushArguments(stk, strings) ==
  LET argc == Len(strings)
      st1 == Align(FoldLeft(PushString, [esp |-> PHYS_BASE, stk |-> stk, ptrs |-> <<>>], Reverse(strings)))
      st2 == FoldLeft(PushWord, PushWord(st1, 0), Reverse(st1.ptrs))
  IN FoldLeft(PushWord, st2, <<st2.esp, argc, 0>>)
=============================================================================
