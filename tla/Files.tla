-------------------------------- MODULE Files --------------------------------
(***************************************************************************)
(* The file system (filesys/inode.c, file.c, directory.c, filesys.c,       *)
(* free-map.c), the file descriptors and file system calls of              *)
(* userprog/syscall.c and the use load (userprog/process.c) makes of the   *)
(* executable.  One global file_lock serialises the file system; a step is *)
(* what one thread does between taking and releasing it, split where a     *)
(* crash between two writes to the disk can be told from one before both.  *)
(*                                                                         *)
(* Sectors 0 and 1 hold the inodes of the free map and of the root         *)
(* directory.  A file has a length in sectors; inode_read_at and           *)
(* inode_write_at within a sector are in module DiskData.  A sector holds  *)
(* 0 or 1, 1 being a program image.                                        *)
(***************************************************************************)
EXTENDS Integers, FiniteSets, SequencesExt

CONSTANTS Proc, Name,
          Sectors,      \* of the file system device, those of the free map and root data apart
          Lengths,      \* of files, in sectors
          FdMax,        \* descriptors are 2..FdMax-1
          DirEntries,   \* entries of the root directory
          First,        \* the file on the disk at boot
          None

ASSUME FilesAssumption ==
  /\ Sectors \in Nat /\ Sectors > 4
  /\ Lengths \subseteq Nat /\ FdMax \in Nat /\ DirEntries \in Nat \ {0}
  /\ First \in Name

VARIABLES pc,
          file_lock,    \* the thread that holds it, or None
          dir,          \* dir[n]: sector of the inode of file n, or None
          free_map,     \* the sectors whose bit is clear, in memory and on disk
          disk_inode,   \* disk_inode[s]: start and length, or None
          data,         \* contents of the sectors
          open_inodes,  \* open_inodes[s]: the struct inode of sector s, or None
          fd,           \* fd[p][i]: struct file, or None
          executable,   \* struct file, or None
          mmap_list,    \* the files p has mapped
          local,        \* the call in progress
          leaked,       \* sectors nothing refers to any more (history)
          crashed, outcome

vars == <<pc, file_lock, dir, free_map, disk_inode, data, open_inodes, fd, executable,
          mmap_list, local, leaked, crashed, outcome>>
diskVars == <<dir, free_map, disk_inode, data, leaked>>
handleVars == <<fd, executable, mmap_list>>

Sector == 2..Sectors-1
Fd == 2..FdMax-1

-----------------------------------------------------------------------------
Goto(p, l) == pc' = [pc EXCEPT ![p] = l]

\* p is at l and may take file_lock; the step releases it too.
Locked(p, l) == outcome = "ok" /\ pc[p] = l /\ file_lock = None

\* p is at l and has held file_lock since an earlier step.
Holding(p, l) == outcome = "ok" /\ pc[p] = l /\ file_lock = p

\* Where free_map_allocate finds CNT consecutive free sectors: at the first place.
Runs(cnt) == {s \in Sector : s..(s + cnt - 1) \subseteq free_map}
free_map_allocate(cnt) == Min(Runs(cnt))
free_map_release(map, sectors) == map \cup sectors
Blocks(i) == i.start..(i.start + i.length - 1)

\* inode_open, of an inode that is open or not.
inode_open(s) ==
  [open_inodes EXCEPT ![s] =
     IF @ # None THEN [@ EXCEPT !.open_cnt = @ + 1]
     ELSE [open_cnt |-> 1, removed |-> FALSE, deny_write_cnt |-> 0,
           start |-> disk_inode[s].start, length |-> disk_inode[s].length]]

inode_reopen(s) == [open_inodes EXCEPT ![s].open_cnt = @ + 1]
inode_deny_write(inodes, s) == [inodes EXCEPT ![s].deny_write_cnt = @ + 1]
inode_allow_write(inodes, s) == [inodes EXCEPT ![s].deny_write_cnt = @ - 1]
inode_remove(inodes, s) == [inodes EXCEPT ![s].removed = TRUE]

file_open(s) == [inode |-> s, pos |-> 0, deny_write |-> FALSE]

\* Mutant: only the data sectors are released.
inode_close_data(st, s) ==
  LET i == st.inodes[s]
      last == i.open_cnt = 1
  IN [inodes |-> [st.inodes EXCEPT ![s] = IF last THEN None ELSE [i EXCEPT !.open_cnt = @ - 1]],
      free |-> IF last /\ i.removed THEN free_map_release(st.free, Blocks(i)) ELSE st.free]

\* inode_close, with the open inodes and the free map in st.  The inode goes with
\* its last opener, its sectors too if it is removed.
inode_close(st, s) ==
  LET i == st.inodes[s]
      last == i.open_cnt = 1
  IN [inodes |-> [st.inodes EXCEPT ![s] = IF last THEN None ELSE [i EXCEPT !.open_cnt = @ - 1]],
      free |-> IF last /\ i.removed THEN free_map_release(st.free, {s} \cup Blocks(i)) ELSE st.free]

\* file_close allows writes again and closes the inode.
file_close(st, f) ==
  inode_close(IF f.deny_write THEN [st EXCEPT !.inodes = inode_allow_write(@, f.inode)] ELSE st,
              f.inode)

\* What sectors that belong to no file hold is not followed: inode_create writes
\* all of a sector before anything reads it.
Free(sectors, d) ==
  /\ free_map' = sectors
  /\ disk_inode' = [s \in Sector |-> IF s \in sectors THEN None ELSE disk_inode[s]]
  /\ data' = [s \in Sector |-> IF s \in sectors THEN 0 ELSE d[s]]

CloseFiles(fs, d) ==
  LET st == FoldLeft(file_close, [inodes |-> open_inodes, free |-> free_map], fs)
  IN open_inodes' = st.inodes /\ Free(st.free, d)

-----------------------------------------------------------------------------
\* filesys_create up to free_map_allocate of the inode's sector.
filesys_create(p, n, length) ==
  /\ free_map # {}
  /\ free_map' = free_map \ {free_map_allocate(1)}
  /\ local' = [local EXCEPT ![p] = [inode |-> free_map_allocate(1), name |-> n, length |-> length]]
  /\ Goto(p, "inode_create")

sys_create(p, n, length) ==
  /\ Locked(p, "run")
  /\ filesys_create(p, n, length)
  /\ file_lock' = p
  /\ UNCHANGED <<dir, disk_inode, data, open_inodes, handleVars, leaked, crashed, outcome>>

\* inode_create: its data sectors, found first-fit and zeroed, and the inode.
\* Without room filesys_create gives the inode's sector back.
inode_create(p) ==
  LET k == local[p].length
      i == [start |-> IF k = 0 THEN 0 ELSE free_map_allocate(k), length |-> k]
  IN /\ Holding(p, "inode_create")
     /\ IF k > 0 /\ Runs(k) = {}
        THEN /\ free_map' = free_map_release(free_map, {local[p].inode})
             /\ file_lock' = None
             /\ local' = [local EXCEPT ![p] = None]
             /\ Goto(p, "run")
             /\ UNCHANGED <<disk_inode, data>>
        ELSE /\ free_map' = free_map \ Blocks(i)
             /\ disk_inode' = [disk_inode EXCEPT ![local[p].inode] = i]
             /\ data' = [s \in Sector |-> IF s \in Blocks(i) THEN 0 ELSE data[s]]
             /\ Goto(p, "dir_add")
             /\ UNCHANGED <<file_lock, local>>
     /\ UNCHANGED <<dir, open_inodes, handleVars, leaked, crashed, outcome>>

\* dir_add.  If the name is taken or the directory is full filesys_create gives
\* back the sector of the inode, and only that.
dir_add(p) ==
  LET s == local[p].inode
      full == Cardinality({n \in Name : dir[n] # None}) >= DirEntries
  IN /\ Holding(p, "dir_add")
     /\ IF dir[local[p].name] # None \/ full
        THEN /\ Free(free_map_release(free_map, {s}), data)
             /\ leaked' = leaked \cup Blocks(disk_inode[s])
             /\ UNCHANGED dir
        ELSE /\ dir' = [dir EXCEPT ![local[p].name] = s]
             /\ UNCHANGED <<free_map, disk_inode, data, leaked>>
     /\ file_lock' = None
     /\ local' = [local EXCEPT ![p] = None]
     /\ Goto(p, "run")
     /\ UNCHANGED <<open_inodes, handleVars, crashed, outcome>>

\* The entry is erased and the inode marked removed, then the inode, opened for
\* it, is closed.
dir_remove(n) ==
  /\ dir' = [dir EXCEPT ![n] = None]
  /\ LET removed == inode_remove(inode_open(dir[n]), dir[n])
         st == inode_close([inodes |-> removed, free |-> free_map], dir[n])
     IN open_inodes' = st.inodes /\ Free(st.free, data)

sys_remove(p, n) ==
  /\ Locked(p, "run") /\ dir[n] # None
  /\ dir_remove(n)
  /\ UNCHANGED <<pc, file_lock, handleVars, local, leaked, crashed, outcome>>

\* filesys_open: the inode of the entry is opened, a struct file made.
dir_lookup(n) == dir[n]
filesys_open(p, n) ==
  /\ open_inodes' = inode_open(dir_lookup(n))
  /\ local' = [local EXCEPT ![p] = file_open(dir_lookup(n))]

\* sys_open up to the release of file_lock.
sys_open(p, n) ==
  /\ Locked(p, "run") /\ dir_lookup(n) # None
  /\ filesys_open(p, n)
  /\ Goto(p, "open_fd")
  /\ UNCHANGED <<file_lock, diskVars, handleVars, crashed, outcome>>

\* Mutant: with no descriptor free the file stays open.
OpenFd_full(p) ==
  LET unused == {i \in Fd : fd[p][i] = None}
  IN /\ outcome = "ok" /\ pc[p] = "open_fd"
     /\ fd' = IF unused = {} THEN fd ELSE [fd EXCEPT ![p][Min(unused)] = local[p]]
     /\ local' = [local EXCEPT ![p] = None]
     /\ Goto(p, "run")
     /\ UNCHANGED <<file_lock, diskVars, open_inodes, executable, mmap_list, crashed, outcome>>

\* The first free descriptor; with none the file is closed again.
OpenFd(p) ==
  LET unused == {i \in Fd : fd[p][i] = None}
  IN /\ outcome = "ok" /\ pc[p] = "open_fd"
     /\ IF unused = {} THEN Goto(p, "close") /\ UNCHANGED <<fd, local>>
        ELSE /\ fd' = [fd EXCEPT ![p][Min(unused)] = local[p]]
             /\ local' = [local EXCEPT ![p] = None]
             /\ Goto(p, "run")
     /\ UNCHANGED <<file_lock, diskVars, open_inodes, executable, mmap_list, crashed, outcome>>

fd_get(p, i) == fd[p][i]
fd_detach(p, i) ==
  /\ local' = [local EXCEPT ![p] = fd[p][i]]
  /\ fd' = [fd EXCEPT ![p][i] = None]

\* sys_close: fd_detach ...
sys_close(p, i) ==
  /\ outcome = "ok" /\ pc[p] = "run" /\ fd_get(p, i) # None
  /\ fd_detach(p, i)
  /\ Goto(p, "close")
  /\ UNCHANGED <<file_lock, diskVars, open_inodes, executable, mmap_list, crashed, outcome>>

\* ... then file_close.
Close(p) ==
  /\ Locked(p, "close")
  /\ CloseFiles(<<local[p]>>, data)
  /\ local' = [local EXCEPT ![p] = None]
  /\ Goto(p, "run")
  /\ UNCHANGED <<file_lock, dir, leaked, handleVars, crashed, outcome>>

\* Mutant: denied writes are written.
inode_write_at_denied(f, v) ==
  LET i == open_inodes[f.inode]
  IN IF f.pos < i.length THEN [data EXCEPT ![i.start + f.pos] = v] ELSE data

\* inode_write_at of v in the sector at position pos of file f: nothing at or past
\* the end, or while writes are denied.
inode_write_at(f, v) ==
  LET i == open_inodes[f.inode]
  IN IF f.pos < i.length /\ i.deny_write_cnt = 0
     THEN [data EXCEPT ![i.start + f.pos] = v] ELSE data

\* file_read and file_write move the position by what was transferred.
Advanced(p, i, n) == fd' = [fd EXCEPT ![p][i].pos = @ + n]

file_write(p, i, v) ==
  LET f == fd_get(p, i)
      ino == open_inodes[f.inode]
  IN /\ data' = inode_write_at(f, v)
     /\ Advanced(p, i, IF f.pos < ino.length /\ ino.deny_write_cnt = 0 THEN 1 ELSE 0)

file_read(p, i) ==
  LET f == fd_get(p, i)
  IN f.pos < open_inodes[f.inode].length /\ Advanced(p, i, 1)

\* One chunk of sys_write; file_lock is released between chunks.
sys_write(p, i, v) ==
  /\ Locked(p, "run") /\ fd_get(p, i) # None
  /\ file_write(p, i, v)
  /\ UNCHANGED <<pc, file_lock, dir, free_map, disk_inode, open_inodes, executable, mmap_list,
                 local, leaked, crashed, outcome>>

\* One chunk of sys_read.
sys_read(p, i) ==
  /\ Locked(p, "run") /\ fd_get(p, i) # None
  /\ file_read(p, i)
  /\ UNCHANGED <<pc, file_lock, diskVars, open_inodes, executable, mmap_list, local, crashed,
                 outcome>>

sys_seek(p, i, pos) ==
  /\ Locked(p, "run") /\ fd_get(p, i) # None
  /\ fd' = [fd EXCEPT ![p][i].pos = pos]
  /\ UNCHANGED <<pc, file_lock, diskVars, open_inodes, executable, mmap_list, local, crashed,
                 outcome>>

\* sys_mmap: an inode opener of its own, so that closing the descriptor or
\* removing the file leaves the mapping alone.
sys_mmap(p, i) ==
  /\ Locked(p, "run") /\ fd[p][i] # None
  /\ open_inodes[fd[p][i].inode].length > 0 /\ mmap_list[p] = <<>>
  /\ open_inodes' = inode_reopen(fd[p][i].inode)
  /\ mmap_list' = [mmap_list EXCEPT ![p] = <<file_open(fd[p][i].inode)>>]
  /\ UNCHANGED <<pc, file_lock, diskVars, fd, executable, local, crashed, outcome>>

\* mmap_unmap, by sys_munmap or at exit: a dirty page is written to the file
\* through the mapping's own opener, which is then closed.
mmap_unmap(p, dirty, v) ==
  /\ pc[p] \in {"run", "exit_maps"} /\ Locked(p, pc[p]) /\ mmap_list[p] # <<>>
  /\ CloseFiles(mmap_list[p], IF dirty THEN inode_write_at(mmap_list[p][1], v) ELSE data)
  /\ mmap_list' = [mmap_list EXCEPT ![p] = <<>>]
  /\ UNCHANGED <<pc, file_lock, dir, leaked, fd, executable, local, crashed, outcome>>

-----------------------------------------------------------------------------
\* load up to the check of the ELF header; file_lock is kept.
load(p, n) ==
  /\ Locked(p, "none")
  /\ IF dir[n] = None THEN Goto(p, "dead") /\ UNCHANGED <<file_lock, open_inodes, local>>
     ELSE /\ file_lock' = p
          /\ open_inodes' = inode_deny_write(inode_open(dir[n]), dir[n])
          /\ local' = [local EXCEPT ![p] = [file_open(dir[n]) EXCEPT !.deny_write = TRUE]]
          /\ Goto(p, "load_header")
  /\ UNCHANGED <<diskVars, handleVars, crashed, outcome>>

\* A file that is no program is closed, and closed again at the end of load.
LoadHeader(p) ==
  LET i == open_inodes[local[p].inode]
  IN /\ Holding(p, "load_header")
     /\ IF i.length > 0 /\ data[i.start] = 1 THEN Goto(p, "load_segments") /\ UNCHANGED outcome
        ELSE outcome' = "closed_twice" /\ UNCHANGED pc
     /\ UNCHANGED <<file_lock, diskVars, open_inodes, handleVars, local, crashed>>

\* The program headers.  A bad one ends load, and the thread, with file_lock held.
LoadSegments(p, good) ==
  /\ Holding(p, "load_segments")
  /\ IF good
     THEN /\ Goto(p, "setup_stack") /\ file_lock' = None
          /\ UNCHANGED <<open_inodes, free_map, disk_inode, data, local>>
     ELSE /\ CloseFiles(<<local[p]>>, data)
          /\ local' = [local EXCEPT ![p] = None]
          /\ Goto(p, "dead") /\ UNCHANGED file_lock
  /\ UNCHANGED <<dir, leaked, handleVars, crashed, outcome>>

\* The end of load.  A failure of setup_stack closes the file without the lock.
LoadEnd(p, success) ==
  /\ outcome = "ok" /\ pc[p] = "setup_stack"
  /\ IF success
     THEN /\ executable' = [executable EXCEPT ![p] = local[p]]
          /\ local' = [local EXCEPT ![p] = None]
          /\ Goto(p, "run") /\ UNCHANGED <<open_inodes, free_map, disk_inode, data, outcome>>
     ELSE IF file_lock # None
     THEN /\ outcome' = "close_unlocked"
          /\ UNCHANGED <<pc, open_inodes, free_map, disk_inode, data, executable, local>>
     ELSE /\ CloseFiles(<<local[p]>>, data)
          /\ local' = [local EXCEPT ![p] = None]
          /\ Goto(p, "dead") /\ UNCHANGED <<executable, outcome>>
  /\ UNCHANGED <<file_lock, dir, leaked, fd, mmap_list, crashed>>

fd_close_all(p) ==
  /\ CloseFiles(SelectSeq([j \in 1..(FdMax - 2) |-> fd[p][j + 1]], LAMBDA f : f # None), data)
  /\ fd' = [fd EXCEPT ![p] = [i \in Fd |-> None]]

\* sys_exit: fd_close_all under one lock, then the executable, then the maps.
sys_exit(p) ==
  /\ Locked(p, "run")
  /\ fd_close_all(p)
  /\ Goto(p, "exit_executable")
  /\ UNCHANGED <<file_lock, dir, leaked, executable, mmap_list, local, crashed, outcome>>

ExitExecutable(p) ==
  /\ Locked(p, "exit_executable")
  /\ CloseFiles(<<executable[p]>>, data)
  /\ executable' = [executable EXCEPT ![p] = None]
  /\ Goto(p, "exit_maps")
  /\ UNCHANGED <<file_lock, dir, leaked, fd, mmap_list, local, crashed, outcome>>

ExitEnd(p) ==
  /\ outcome = "ok" /\ pc[p] = "exit_maps" /\ mmap_list[p] = <<>>
  /\ Goto(p, "dead")
  /\ UNCHANGED <<file_lock, diskVars, open_inodes, handleVars, local, crashed, outcome>>

\* The machine stops between two writes to the disk; filesys_init without format
\* reads the free map back.  One crash is followed.
Crash ==
  LET referred == UNION {{dir[n]} \cup Blocks(disk_inode[dir[n]]) : n \in {n \in Name : dir[n] # None}}
  IN /\ ~crashed
     /\ crashed' = TRUE
     /\ pc' = [p \in Proc |-> "none"] /\ file_lock' = None /\ outcome' = "ok"
     /\ open_inodes' = [s \in Sector |-> None]
     /\ fd' = [p \in Proc |-> [i \in Fd |-> None]]
     /\ executable' = [p \in Proc |-> None] /\ mmap_list' = [p \in Proc |-> <<>>]
     /\ local' = [p \in Proc |-> None]
     /\ leaked' = (Sector \ free_map) \ referred
     /\ data' = [s \in Sector |-> IF s \in referred THEN data[s] ELSE 0]
     /\ disk_inode' = [s \in Sector |-> IF s \in referred THEN disk_inode[s] ELSE None]
     /\ UNCHANGED <<dir, free_map>>

-----------------------------------------------------------------------------
\* After do_format and the extraction of one program of one sector.
Init ==
  /\ pc = [p \in Proc |-> "none"] /\ file_lock = None
  /\ dir = [n \in Name |-> IF n = First THEN 2 ELSE None]
  /\ disk_inode = [s \in Sector |-> IF s = 2 THEN [start |-> 3, length |-> 1] ELSE None]
  /\ free_map = Sector \ {2, 3}
  /\ data = [s \in Sector |-> IF s = 3 THEN 1 ELSE 0]
  /\ open_inodes = [s \in Sector |-> None]
  /\ fd = [p \in Proc |-> [i \in Fd |-> None]]
  /\ executable = [p \in Proc |-> None] /\ mmap_list = [p \in Proc |-> <<>>]
  /\ local = [p \in Proc |-> None]
  /\ leaked = {} /\ crashed = FALSE /\ outcome = "ok"

syscall_handler(p) ==
  \/ \E n \in Name : \/ sys_remove(p, n) \/ sys_open(p, n)
                     \/ \E k \in Lengths : sys_create(p, n, k)
  \/ \E i \in Fd : \/ sys_close(p, i) \/ sys_read(p, i) \/ sys_mmap(p, i)
                   \/ \E v \in {0, 1} : sys_write(p, i, v)
                   \/ \E pos \in {0} \cup Lengths : sys_seek(p, i, pos)
  \/ sys_exit(p)

InKernel(p) ==
  \/ inode_create(p) \/ dir_add(p) \/ OpenFd(p) \/ Close(p)
  \/ LoadHeader(p) \/ \E ok \in BOOLEAN : LoadSegments(p, ok) \/ LoadEnd(p, ok)
  \/ ExitExecutable(p) \/ ExitEnd(p)
  \/ \E dirty \in BOOLEAN, v \in {0, 1} : mmap_unmap(p, dirty, v)

\* Nothing runs any more, or waits for a lock that nobody will release.
Halted ==
  /\ outcome # "ok" \/ (\A p \in Proc : pc[p] = "dead") \/ (file_lock # None /\ pc[file_lock] = "dead")
  /\ UNCHANGED vars

Next == (\E p \in Proc : syscall_handler(p) \/ InKernel(p) \/ \E n \in Name : load(p, n))
        \/ Crash \/ Halted

Spec == Init /\ [][Next]_vars

-----------------------------------------------------------------------------
File == [inode : Sector, pos : Nat, deny_write : BOOLEAN]

\* Every variable has its type.
TypeOK ==
  /\ file_lock \in Proc \cup {None} /\ dir \in [Name -> Sector \cup {None}]
  /\ free_map \subseteq Sector /\ leaked \subseteq Sector
  /\ disk_inode \in [Sector -> {None} \cup [start : Sector \cup {0}, length : Lengths \cup {1}]]
  /\ data \in [Sector -> {0, 1}]
  /\ open_inodes \in [Sector -> {None} \cup [open_cnt : Nat \ {0}, removed : BOOLEAN,
                        deny_write_cnt : Nat, start : Sector \cup {0}, length : Lengths \cup {1}]]
  /\ fd \in [Proc -> [Fd -> {None} \cup File]] /\ executable \in [Proc -> {None} \cup File]
  /\ mmap_list \in [Proc -> Seq(File)]
  /\ local \in [Proc -> {None} \cup File \cup [inode : Sector, name : Name, length : Lengths]]
  /\ outcome \in {"ok", "closed_twice", "close_unlocked"}

\* Every struct file of process p, under a name of its own.
Creating(p) == pc[p] \in {"inode_create", "dir_add"}
Handles(p) ==
  {<<i, fd[p][i]>> : i \in {i \in Fd : fd[p][i] # None}}
    \cup {<<j, mmap_list[p][1]>> : j \in {0} \cap {Len(mmap_list[p]) - 1}}
    \cup (IF executable[p] = None THEN {} ELSE {<<-1, executable[p]>>})
    \cup (IF local[p] = None \/ Creating(p) THEN {} ELSE {<<-2, local[p]>>})
Opener(s) == UNION {{<<p, h>> : h \in {h \in Handles(p) : h[2].inode = s}} : p \in Proc}

\* An inode is in memory exactly while some struct file refers to it, and its two
\* counts are those of its openers and of those that deny writes (inode_open,
\* inode_reopen, inode_close, inode_deny_write), whichever way files are closed:
\* sys_close, exit, unmapping, a full table, a load that fails.
OpenersCounted ==
  outcome = "ok" => \A s \in Sector :
    LET deny == {o \in Opener(s) : o[2][2].deny_write}
    IN IF open_inodes[s] = None THEN Opener(s) = {}
       ELSE /\ open_inodes[s].open_cnt = Cardinality(Opener(s))
            /\ open_inodes[s].deny_write_cnt = Cardinality(deny)

Live == {s \in Sector : (\E n \in Name : dir[n] = s) \/ open_inodes[s] # None}
Extent(s) == {s} \cup Blocks(disk_inode[s])

\* Every sector is free, or belongs to exactly one file that has a name or is
\* open, or to the file being created, or is lost for good: no two files share a
\* sector and no sector of a file is handed out again (free_map_allocate,
\* free_map_release), across removal of open files and crashes.
SectorsPartitioned ==
  LET files == {Extent(s) : s \in Live}
      being == {IF pc[p] = "dir_add" THEN Extent(local[p].inode) ELSE {local[p].inode} :
                  p \in {p \in Proc : Creating(p)}}
      parts == files \cup being \cup {free_map, leaked}
  IN /\ UNION parts = Sector
     /\ \A a, b \in parts : a = b \/ a \cap b = {}
     /\ Cardinality(files) = Cardinality(Live)

\* What the sectors of each file hold, for FileStore.
Contents ==
  [s \in Sector |->
     IF open_inodes[s] = None /\ \A n \in Name : dir[n] # s THEN None
     ELSE LET i == disk_inode[s] IN [j \in 1..i.length |-> data[i.start + j - 1]]]

FS == INSTANCE FileStore WITH
        Id <- Sector, MaxLength <- Max(Lengths \cup {1}), names <- dir, store <- Contents,
        running <- {s \in Sector : open_inodes[s] # None /\ open_inodes[s].deny_write_cnt > 0}

\* A file changes only by a write to it and never while it is executed, a removed
\* file lives on while it is open or mapped, and a crash leaves every file that
\* has a name as it is.
FilesKept == FS!Spec

\* file_lock is not held by a thread that is gone: what p2/DESIGNDOC.MD:173 says,
\* "Locks are only acquired when during a necessary file operation and released
\* after the operation finishes."
LockReleased == file_lock # None => pc[file_lock] # "dead"

\* The open inodes and their counts are those of the struct files there are.
OpenFilesCounted == TypeOK /\ OpenersCounted
=============================================================================
