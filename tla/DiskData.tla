------------------------------ MODULE DiskData ------------------------------
(***************************************************************************)
(* Reading and writing the bytes of a file through its sectors             *)
(* (filesys/inode.c).  disk is a sequence of sectors, each a sequence of   *)
(* BLOCK_SECTOR_SIZE bytes; an inode is a record with start, length and    *)
(* deny_write_cnt.  no_bounce: malloc has no memory for the bounce buffer. *)
(***************************************************************************)
EXTENDS Integers, SequencesExt

CONSTANT BLOCK_SECTOR_SIZE

SectorBytes == 1..BLOCK_SECTOR_SIZE

byte_to_sector(inode, pos) ==
  IF pos < inode.length THEN inode.start + pos \div BLOCK_SECTOR_SIZE ELSE -1

\* The bytes of one round of the loops: what is left of the request, of the
\* file and of the sector.
chunk_size(inode, size, offset) ==
  Min({size, inode.length - offset, BLOCK_SECTOR_SIZE - (offset % BLOCK_SECTOR_SIZE)})

\* A whole sector goes straight between the disk and the caller's buffer.
Direct(offset, chunk) == offset % BLOCK_SECTOR_SIZE = 0 /\ chunk = BLOCK_SECTOR_SIZE

RECURSIVE ReadOn(_, _, _, _, _, _)
ReadOn(disk, inode, size, offset, no_bounce, buffer) ==
  LET chunk == chunk_size(inode, size, offset)
      ofs == offset % BLOCK_SECTOR_SIZE
      sector == disk[byte_to_sector(inode, offset) + 1]
  IN IF size <= 0 \/ chunk <= 0 \/ (~Direct(offset, chunk) /\ no_bounce) THEN buffer
     ELSE ReadOn(disk, inode, size - chunk, offset + chunk, no_bounce,
                 buffer \o SubSeq(sector, ofs + 1, ofs + chunk))

\* The bytes read.
inode_read_at(disk, inode, size, offset, no_bounce) == ReadOn(disk, inode, size, offset, no_bounce, <<>>)

\* Mutant of Bounce: the sector is always started from zeros.
Bounce_zero(sector, ofs, chunk) == [i \in SectorBytes |-> 0]

\* The bounce buffer before the chunk is copied into it: the sector's old
\* bytes when there are any outside the chunk.
Bounce(sector, ofs, chunk) ==
  IF ofs > 0 \/ chunk < BLOCK_SECTOR_SIZE - ofs THEN sector ELSE [i \in SectorBytes |-> 0]

RECURSIVE WriteOn(_, _, _, _, _, _)
WriteOn(disk, inode, buffer, offset, no_bounce, written) ==
  LET chunk == chunk_size(inode, Len(buffer), offset)
      ofs == offset % BLOCK_SECTOR_SIZE
      idx == byte_to_sector(inode, offset) + 1
      bounce == Bounce(disk[idx], ofs, chunk)
      new == [i \in SectorBytes |-> IF i \in ofs+1..ofs+chunk THEN buffer[i - ofs] ELSE bounce[i]]
  IN IF buffer = <<>> \/ chunk <= 0 \/ (~Direct(offset, chunk) /\ no_bounce)
     THEN [disk |-> disk, written |-> written]
     ELSE WriteOn([disk EXCEPT ![idx] = new], inode, SubSeq(buffer, chunk + 1, Len(buffer)),
                  offset + chunk, no_bounce, written + chunk)

\* The disk and the number of bytes written.
inode_write_at(disk, inode, buffer, offset, no_bounce) ==
  IF inode.deny_write_cnt > 0 THEN [disk |-> disk, written |-> 0]
  ELSE WriteOn(disk, inode, buffer, offset, no_bounce, 0)
=============================================================================
