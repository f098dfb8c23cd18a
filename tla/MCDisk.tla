------------------------------- MODULE MCDisk --------------------------------
(* Instance of Disk for TLC: a disk of four sectors, addresses of four bits. *)
EXTENDS Disk

CONSTANTS t1, t2

Entry(type, offset, size) == [type |-> type, offset |-> offset, size |-> size]
With(mbr, ext) == [s \in 0..3 |-> IF s = 0 THEN mbr ELSE IF s = 1 THEN ext ELSE NoTable]

\* No table; two partitions; one that ends past the disk, one whose end wraps and
\* an empty one; an extended partition in sector 1, with one logical partition.
MCTables ==
  { With(NoTable, NoTable),
    With(<<Entry("filesys", 1, 1), Entry("linux", 2, 2)>>, NoTable),
    With(<<Entry("swap", 3, 2), Entry("filesys", 2, 15), Entry("swap", 2, 1), Entry("empty", 1, 1)>>,
         NoTable),
    With(<<Entry("extended", 1, 3)>>, <<Entry("swap", 1, 1)>>) }
==============================================================================
