-------------------------------- MODULE Disk ---------------------------------
(***************************************************************************)
(* The block layer (devices/block.c) and the IDE driver (devices/ide.c):   *)
(* one channel with one disk, the interrupt handler, and threads that read *)
(* and write sectors of its partitions.  The disk is modelled from how the *)
(* driver uses it: it is busy with a command, asks for data (DRQ) or is    *)
(* idle, and raises an interrupt when data is ready to be read or a write  *)
(* is done.  It may fail a command, and interrupts may come that no        *)
(* command has caused.                                                     *)
(*                                                                         *)
(* The channel's lock is taken in one step when it is free (see Synch).    *)
(***************************************************************************)
EXTENDS Partition

CONSTANTS Thread,
          Main,         \* the thread that runs ide_init
          Tables,       \* the partition tables the disk may have
          Value,        \* contents of a sector
          Calls,        \* calls of block_read and block_write each thread makes
          MaxSpurious,  \* interrupts without a cause
          MaxErrors,    \* commands the disk fails
          None

ASSUME DiskAssumption ==
  Main \in Thread /\ {Calls, MaxSpurious, MaxErrors} \subseteq Nat

VARIABLES tables,
          all_blocks,           \* the partitions, once they are found
          lock,
          expecting_interrupt,
          completion_wait,      \* value of the semaphore
          pc, req,              \* req[t]: the call of thread t
          dev,                  \* the disk: state, command, sector, data
          irq,                  \* an interrupt is pending
          medium,
          calls, spurious, errors,
          outcome               \* "ok", "panic", "stack overflow" or "command while busy"

vars == <<tables, all_blocks, lock, expecting_interrupt, completion_wait, pc, req, dev, irq,
          medium, calls, spurious, errors, outcome>>
bounds == <<calls, spurious, errors>>

Sector == 0..Size-1
Idle == [state |-> "idle", cmd |-> None, sector |-> 0, data |-> None]

At(t, l) == outcome = "ok" /\ pc[t] = l
Goto(t, l) == pc' = [pc EXCEPT ![t] = l]

-----------------------------------------------------------------------------
\* Mutant of block_rw: the partition's start is not added.
block_rw_raw(t, cmd, b, s, v) ==
  /\ At(t, "idle") /\ calls[t] > 0 /\ all_blocks # <<>>
  /\ s < b.size /\ (cmd = "write" => b.type # "foreign")
  /\ calls' = [calls EXCEPT ![t] = @ - 1]
  /\ req' = [req EXCEPT ![t] = [cmd |-> cmd, block |-> b, sector |-> s, data |-> v]]
  /\ Goto(t, "acquire")
  /\ UNCHANGED <<tables, all_blocks, lock, expecting_interrupt, completion_wait, dev, irq, medium,
                 spurious, errors, outcome>>

\* block_read or block_write of sector s of block device b: the partition's
\* offset is added and the sector checked again against the whole disk.
block_rw(t, cmd, b, s, v) ==
  LET raw == (b.start + s) % Modulus
  IN /\ At(t, "idle") /\ calls[t] > 0 /\ all_blocks # <<>>
     /\ s < b.size /\ (cmd = "write" => b.type # "foreign")
     /\ calls' = [calls EXCEPT ![t] = @ - 1]
     /\ IF raw >= Size THEN outcome' = "panic" /\ UNCHANGED <<pc, req>>
        ELSE /\ req' = [req EXCEPT ![t] = [cmd |-> cmd, block |-> b, sector |-> raw, data |-> v]]
             /\ Goto(t, "acquire") /\ UNCHANGED outcome
     /\ UNCHANGED <<tables, all_blocks, lock, expecting_interrupt, completion_wait, dev, irq, medium,
                    spurious, errors>>

\* ide_read and ide_write.
Acquire(t) ==
  /\ At(t, "acquire") /\ lock = None
  /\ lock' = t
  /\ Goto(t, "select")
  /\ UNCHANGED <<tables, all_blocks, expecting_interrupt, completion_wait, req, dev, irq, medium,
                 bounds, outcome>>

\* select_device_wait polls until the disk is idle, which also clears a pending
\* interrupt, or gives up after a time and goes on.
select_sector(t) ==
  /\ At(t, "select")
  /\ IF dev.state = "idle"
     THEN irq' = FALSE /\ Goto(t, "issue") /\ UNCHANGED outcome
     ELSE outcome' = "command while busy" /\ UNCHANGED <<irq, pc>>
  /\ UNCHANGED <<tables, all_blocks, lock, expecting_interrupt, completion_wait, req, dev, medium,
                 bounds>>

issue_pio_command(t) ==
  /\ At(t, "issue")
  /\ expecting_interrupt' = TRUE
  /\ dev' = [state |-> "busy", cmd |-> req[t].cmd, sector |-> req[t].sector, data |-> None]
  /\ Goto(t, IF req[t].cmd = "write" THEN "wait_busy" ELSE "completion")
  /\ UNCHANGED <<tables, all_blocks, lock, completion_wait, req, irq, medium, bounds, outcome>>

\* sema_down of completion_wait: before the data is read, after it was written.
Completion(t) ==
  /\ At(t, "completion") /\ completion_wait > 0
  /\ completion_wait' = completion_wait - 1
  /\ Goto(t, IF req[t].cmd = "write" THEN "release" ELSE "wait_busy")
  /\ UNCHANGED <<tables, all_blocks, lock, expecting_interrupt, req, dev, irq, medium, bounds,
                 outcome>>

\* Mutants of wait_while_busy: a read does not look at the busy bit; the driver
\* waits for DRQ however long it takes.
wait_while_busy_not(t) ==
  /\ At(t, "wait_busy") /\ (dev.state # "busy" \/ req[t].cmd = "read")
  /\ IF dev.state \notin {"drq", "busy"}
     THEN /\ IF req[t].cmd = "identify" THEN Goto(t, "idle") /\ UNCHANGED outcome
             ELSE outcome' = "panic" /\ UNCHANGED pc
          /\ UNCHANGED <<req, dev>>
     ELSE IF req[t].cmd = "write"
     THEN /\ dev' = [dev EXCEPT !.state = "writing", !.data = req[t].data]
          /\ Goto(t, "completion") /\ UNCHANGED <<req, outcome>>
     ELSE /\ req' = [req EXCEPT ![t].data = dev.data]
          /\ dev' = Idle
          /\ Goto(t, IF req[t].cmd = "identify" THEN "scan" ELSE "release")
          /\ UNCHANGED outcome
  /\ UNCHANGED <<tables, all_blocks, lock, expecting_interrupt, completion_wait, irq, medium, bounds>>

wait_while_busy_spin(t) ==
  /\ At(t, "wait_busy")
  /\ IF dev.state # "drq" THEN UNCHANGED <<req, dev, pc>>
     ELSE IF req[t].cmd = "write"
     THEN /\ dev' = [dev EXCEPT !.state = "writing", !.data = req[t].data]
          /\ Goto(t, "completion") /\ UNCHANGED req
     ELSE /\ req' = [req EXCEPT ![t].data = dev.data]
          /\ dev' = Idle
          /\ Goto(t, IF req[t].cmd = "identify" THEN "scan" ELSE "release")
  /\ UNCHANGED <<tables, all_blocks, lock, expecting_interrupt, completion_wait, irq, medium, bounds,
                 outcome>>

\* wait_while_busy, and input_sector or output_sector.  A disk that does not ask
\* for data has failed the command: the kernel panics, or ignores the disk.
wait_while_busy(t) ==
  /\ At(t, "wait_busy") /\ dev.state # "busy"
  /\ IF dev.state # "drq"
     THEN /\ IF req[t].cmd = "identify" THEN Goto(t, "idle") /\ UNCHANGED outcome
             ELSE outcome' = "panic" /\ UNCHANGED pc
          /\ UNCHANGED <<req, dev>>
     ELSE IF req[t].cmd = "write"
     THEN /\ dev' = [dev EXCEPT !.state = "writing", !.data = req[t].data]
          /\ Goto(t, "completion") /\ UNCHANGED <<req, outcome>>
     ELSE /\ req' = [req EXCEPT ![t].data = dev.data]
          /\ dev' = Idle
          /\ Goto(t, IF req[t].cmd = "identify" THEN "scan" ELSE "release")
          /\ UNCHANGED outcome
  /\ UNCHANGED <<tables, all_blocks, lock, expecting_interrupt, completion_wait, irq, medium, bounds>>

Release(t) ==
  /\ At(t, "release")
  /\ lock' = None
  /\ req' = [req EXCEPT ![t] = None]
  /\ Goto(t, "idle")
  /\ UNCHANGED <<tables, all_blocks, expecting_interrupt, completion_wait, dev, irq, medium, bounds,
                 outcome>>

\* The rest of identify_ata_device: block_register and partition_scan.
PartitionScan(t) ==
  LET found == partition_scan(tables)
  IN /\ At(t, "scan")
     /\ IF found = Overflow THEN outcome' = "stack overflow" /\ UNCHANGED <<all_blocks, pc, req>>
        ELSE /\ all_blocks' = found
             /\ req' = [req EXCEPT ![t] = None]
             /\ Goto(t, "idle") /\ UNCHANGED outcome
     /\ UNCHANGED <<tables, lock, expecting_interrupt, completion_wait, dev, irq, medium, bounds>>

-----------------------------------------------------------------------------
\* The disk does what it was told, or fails.
DeviceStep ==
  /\ outcome = "ok" /\ dev.state \in {"busy", "writing"}
  /\ IF dev.state = "writing"
     THEN /\ medium' = [medium EXCEPT ![dev.sector] = dev.data]
          /\ dev' = Idle /\ irq' = TRUE
     ELSE /\ dev' = [dev EXCEPT !.state = "drq",
                                !.data = IF dev.cmd = "read" THEN medium[dev.sector] ELSE None]
          /\ irq' = (irq \/ dev.cmd # "write")
          /\ UNCHANGED medium
  /\ UNCHANGED <<tables, all_blocks, lock, expecting_interrupt, completion_wait, pc, req, bounds, outcome>>

DeviceError ==
  /\ outcome = "ok" /\ dev.state = "busy" /\ errors < MaxErrors
  /\ dev' = Idle /\ irq' = TRUE /\ errors' = errors + 1
  /\ UNCHANGED <<tables, all_blocks, lock, expecting_interrupt, completion_wait, pc, req, medium,
                 calls, spurious, outcome>>

Spurious ==
  /\ outcome = "ok" /\ ~irq /\ spurious < MaxSpurious
  /\ irq' = TRUE /\ spurious' = spurious + 1
  /\ UNCHANGED <<tables, all_blocks, lock, expecting_interrupt, completion_wait, pc, req, dev, medium,
                 calls, errors, outcome>>

interrupt_handler ==
  /\ outcome = "ok" /\ irq
  /\ irq' = FALSE
  /\ completion_wait' = IF expecting_interrupt THEN completion_wait + 1 ELSE completion_wait
  /\ UNCHANGED <<tables, all_blocks, lock, expecting_interrupt, pc, req, dev, medium, bounds, outcome>>

-----------------------------------------------------------------------------
\* ide_init has reset the channel and found the disk; Main is about to identify it.
Init ==
  /\ tables \in Tables
  /\ all_blocks = <<>> /\ lock = None
  /\ expecting_interrupt = FALSE /\ completion_wait = 0
  /\ pc = [t \in Thread |-> IF t = Main THEN "select" ELSE "idle"]
  /\ req = [t \in Thread |-> IF t # Main THEN None
                             ELSE [cmd |-> "identify", block |-> None, sector |-> 0, data |-> None]]
  /\ dev = Idle /\ irq = FALSE
  /\ medium \in [Sector -> {CHOOSE v \in Value : TRUE}]
  /\ calls = [t \in Thread |-> Calls] /\ spurious = 0 /\ errors = 0
  /\ outcome = "ok"

DriverStep(t) ==
  \/ Acquire(t) \/ select_sector(t) \/ issue_pio_command(t) \/ Completion(t)
  \/ wait_while_busy(t) \/ Release(t) \/ PartitionScan(t)

Call(t) ==
  \E i \in DOMAIN all_blocks : \E s \in 0..all_blocks[i].size-1, v \in Value :
    block_rw(t, "read", all_blocks[i], s, None) \/ block_rw(t, "write", all_blocks[i], s, v)

\* Nothing more is called, or the machine has stopped.
Done ==
  /\ outcome # "ok" \/ \A t \in Thread : pc[t] = "idle" /\ (calls[t] = 0 \/ all_blocks = <<>>)
  /\ UNCHANGED vars

Next == (\E t \in Thread : DriverStep(t) \/ Call(t))
        \/ DeviceStep \/ DeviceError \/ Spurious \/ interrupt_handler \/ Done

\* Threads that can run do, a pending interrupt is delivered and the disk goes on.
Spec == /\ Init /\ [][Next]_vars
        /\ \A t \in Thread : WF_vars(DriverStep(t))
        /\ WF_vars(DeviceStep) /\ WF_vars(interrupt_handler)

-----------------------------------------------------------------------------
\* Every variable has its type.
TypeOK ==
  /\ lock \in Thread \cup {None} /\ completion_wait \in 0..(Cardinality(Thread) * Calls + 1 + MaxSpurious)
  /\ pc \in [Thread -> {"idle", "acquire", "select", "issue", "completion", "wait_busy", "release",
                        "scan"}]
  /\ dev.state \in {"idle", "busy", "drq", "writing"} /\ dev.sector \in Sector
  /\ irq \in BOOLEAN /\ expecting_interrupt \in BOOLEAN
  /\ medium \in [Sector -> Value]

\* A partition lies on the disk, whatever the table says, sums that wrap included
\* (found_partition); so no call through a partition runs into check_sector.
PartitionsOnDisk ==
  \A i \in DOMAIN all_blocks : all_blocks[i].start + all_blocks[i].size <= Size

\* What a read returns is what the sector holds, although interrupts may come too
\* early, too late or without a cause: a read waits for the busy bit too.
ReadsCurrent ==
  \A t \in Thread : At(t, "release") /\ req[t].cmd = "read" => req[t].data = medium[req[t].sector]

\* As long as every interrupt had its cause, a write has reached the medium when
\* it returns (ide_write), and no completion is left over for the next command.
WritesAcknowledged ==
  spurious = 0 =>
    /\ \A t \in Thread : At(t, "release") =>
         (req[t].cmd = "write" => req[t].data = medium[req[t].sector])
    /\ lock = None /\ all_blocks # <<>> => completion_wait = 0 /\ dev.state = "idle"

\* Only sectors of Pintos partitions ever change: a sector number within a
\* partition never reaches one of its neighbours, a foreign partition or the
\* partition table (partition_write, block_write).
WritesStayInside ==
  [][\A s \in Sector : medium'[s] # medium[s] =>
       \E i \in DOMAIN all_blocks : LET b == all_blocks[i] IN
         b.type # "foreign" /\ s \in b.start..(b.start + b.size - 1)]_vars

\* Every call returns: the completion interrupt is never missed, whether it comes
\* before or after the thread sleeps.
CallsReturn == \A t \in Thread : (pc[t] # "idle") ~> (pc[t] = "idle" \/ outcome # "ok")

\* When a call returns its sector has been transferred: a read has the data of the
\* medium, and a write is on it unless an interrupt came without a cause.
TransfersDone == TypeOK /\ ReadsCurrent /\ WritesAcknowledged

\* Partitions lie on the disk, and a write through one stays in it.
PartitionsKept == []PartitionsOnDisk /\ WritesStayInside
=============================================================================
