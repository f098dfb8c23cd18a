------------------------------ MODULE Partition ------------------------------
(***************************************************************************)
(* The scan of a disk for partitions (devices/partition.c).  A table is a  *)
(* sequence of entries, or NoTable for a sector without the signature.     *)
(* Sector numbers are unsigned and wrap at Modulus, 2^32 in the code.      *)
(***************************************************************************)
EXTENDS Integers, Sequences, FiniteSets

CONSTANTS Size,         \* sectors of the disk
          Modulus,
          MaxDepth      \* of nested calls before the stack is full

ASSUME PartitionAssumption ==
  Size \in Nat /\ Modulus \in Nat /\ MaxDepth \in Nat /\ Size < Modulus

NoTable == << [type |-> "no signature", offset |-> 0, size |-> 0] >>

\* The block device registered for a partition, if it lies on the disk.
found_partition(type, start, size) ==
  LET end == (start + size) % Modulus
  IN IF start >= Size \/ end < start \/ end > Size THEN <<>>
     ELSE << [start |-> start, size |-> size,
              type |-> IF type \in {"kernel", "filesys", "scratch", "swap"} THEN type ELSE "foreign"] >>

\* read_partition_table of SECTOR, with the tables on the disk: what it registers,
\* in order.  It reads sector 0 whatever SECTOR is; the entries of an extended
\* partition are so those of the master boot record again.
Overflow == << [start |-> 0, size |-> 0, type |-> "overflow"] >>

RECURSIVE Scan(_, _, _, _, _)
Scan(tables, i, sector, primary, depth) ==
  LET pt == tables[0]
      e == pt[i]
      rest == Scan(tables, i + 1, sector, primary, depth)
      nested == IF sector = 0 THEN Scan(tables, 1, e.offset, e.offset, depth + 1)
                ELSE Scan(tables, 1, (e.offset + primary) % Modulus, primary, depth + 1)
      this == IF e.size = 0 \/ e.type = "empty" THEN <<>>
              ELSE IF e.type = "extended" THEN nested
              ELSE found_partition(e.type, (e.offset + sector) % Modulus, e.size)
  IN IF depth > MaxDepth THEN Overflow
     ELSE IF sector >= Size \/ pt = NoTable \/ i > Len(pt) THEN <<>>
     ELSE IF Overflow \in {this, rest} THEN Overflow ELSE this \o rest

partition_scan(tables) == Scan(tables, 1, 0, 0, 1)
=============================================================================
