--------------------------- MODULE ProcessProofs ----------------------------
(***************************************************************************)
(* For any set of processes: the record a parent and its child share is    *)
(* freed once by the one that looks last, and exec and wait report what    *)
(* became of the child (RecordsAccounted, CallsReport of Process).         *)
(***************************************************************************)
EXTENDS Process, TLAPS

\* The parent p refers to the record of c: from its list, or from a call.
InCall == {"load_down", "wait_down", "reap_check"}
Refers(p, c) == c \in children[p] \/ (pc[p] \in InCall /\ target[p] = c)

Exiting == {"exit_up", "exit_check", "reap", "reap_check", "dead"}
Working == {"run", "load_down", "wait_down"}

\* c was loaded, and has either stored its exit status or will do so.
Loaded(c) == \/ rec[c].exited /\ pc[c] \in Exiting
             \/ ~rec[c].exited /\ pc[c] \in Working /\ my_record[c]

\* What exec finds in the record of the child it started.
Starting(c) ==
  \/ pc[c] = "load" /\ rec[c].load_sema = 0
  \/ rec[c].load_status /\ Loaded(c)
  \/ ~rec[c].load_status /\ pc[c] \in {"reap", "dead"} /\ children[c] = {}

-----------------------------------------------------------------------------
(* The parts of the inductive invariant.                                   *)

\* A record has at most one parent that refers to it.
OneParent == \A p, q, c \in Proc : Refers(p, c) /\ Refers(q, c) => p = q

\* A call other than that of process_exit has its child out of the list.
Unlinked ==
  \A p, c \in Proc :
    target[p] = c =>
      /\ pc[p] \in {"load_down", "wait_down"} => c \notin children[p]
      /\ pc[p] = "reap_check" => c \in children[p] /\ rec[c].parent_thread = NoProc

\* The parent's view: a child it refers to has its record, which names the
\* parent until process_exit has made it an orphan.
ParentSees ==
  \A p, c \in Proc :
    /\ Refers(p, c) /\ ~(pc[p] = "reap_check" /\ target[p] = c) => Live(c)
       /\ rec[c].parent_thread = p
    /\ Refers(p, c) /\ pc[p] # "load_down" => Loaded(c)
    /\ c \in children[p] => Loaded(c)
    /\ pc[p] = "load_down" /\ target[p] = c => Starting(c)

\* A record nobody refers to is an orphan's, and the orphan will free it.
OrphanFrees ==
  \A c \in Proc :
    Live(c) => \/ \E p \in Proc : Refers(p, c)
               \/ /\ rec[c].parent_thread = NoProc /\ my_record[c]
                  /\ pc[c] \in Working \cup {"exit_up", "exit_check"}

\* A process that has not started, or is gone, has no children; one that exits
\* with a record still has it in exit_up.
Childless ==
  \A p \in Proc :
    /\ pc[p] \in {"none", "load", "dead"} => children[p] = {}
    /\ pc[p] = "load" => ~rec[p].exited
    /\ pc[p] = "exit_up" => my_record[p]

Shared == OneParent /\ Unlinked /\ ParentSees /\ OrphanFrees /\ Childless

\* The status is in the record before wait_sema says so.
StatusStored ==
  \A c \in Proc :
    /\ pc[c] = "exit_up" => rec[c].exit_status = status[c]
    /\ rec[c].wait_sema > 0 => /\ pc[c] \in Exiting \ {"exit_up"}
                               /\ rec[c].exit_status = status[c]

\* What results say stays so.
Reported ==
  /\ result = [p \in Proc |-> result[p]]
  /\ \A p, c \in Proc :
       /\ result[p].call = "wait" /\ result[p].child = c =>
            pc[c] \in Exiting \ {"exit_up"} /\ result[p].value = status[c]
       /\ result[p].call = "exec" /\ result[p].child = c /\ result[p].value = 0 =>
            pc[c] \notin {"none", "load"} /\ rec[c].load_status
       /\ result[p] = ExecFailed(c) =>
            pc[c] \in {"reap", "dead"} /\ children[c] = {} /\ rec[c].mem = "freed"

\* Sharing is kept up to the use of a freed record; the rest also after it.
IInv == TypeOK /\ StatusStored /\ Reported /\ (~undefined => Shared)

-----------------------------------------------------------------------------
\* The initial state.
LEMMA InitIInv == Init => IInv
<1> SUFFICES ASSUME Init PROVE IInv
  BY Zenon
<1> USE ProcessAssumption DEF Init, NoRecord
<1>1. TypeOK
  BY Zenon DEF TypeOK, PC, Record
<1>2. StatusStored
  BY SMTT(30) DEF StatusStored
<1>3. Reported
  BY Zenon DEF Reported, Nothing, ExecFailed
<1>4. Shared
  BY Zenon DEF Shared, OneParent, Unlinked, ParentSees, OrphanFrees, Childless, Refers, Live
<1> QED BY <1>1, <1>2, <1>3, <1>4, Zenon DEF IInv

\* The record sys_exit leaves.
LEMMA ExitRecord ==
  ASSUME NEW r \in Record, NEW s \in ExitStatus
  PROVE  [r EXCEPT !.exit_status = s, !.exited = TRUE] \in Record
BY Zenon DEF Record

\* Every step keeps the types.
LEMMA TypeStep == ASSUME TypeOK, [Next]_vars PROVE TypeOK'
<1> USE ProcessAssumption DEF TypeOK, PC, Record, Goto, free, NoRecord, Live
<1>1. ASSUME NEW p \in Proc, NEW c \in Proc, process_execute(p, c) PROVE TypeOK'
  BY <1>1, Zenon DEF process_execute
<1>2. ASSUME NEW p \in Proc, NEW c \in Proc, process_wait(p, c) PROVE TypeOK'
  BY <1>2, SMTT(30) DEF process_wait
<1>3. ASSUME NEW p \in Proc, ExecuteFails(p) PROVE TypeOK'
  BY <1>3, Zenon DEF ExecuteFails
<1>4. ASSUME NEW p \in Proc, NEW s \in ExitStatus, sys_exit(p, s) PROVE TypeOK'
  <2>1. CASE my_record[p]
    <3>1. rec' = [rec EXCEPT ![p].exit_status = s, ![p].exited = TRUE]
      BY <1>4, <2>1, Zenon DEF sys_exit
    <3>2. [rec[p] EXCEPT !.exit_status = s, !.exited = TRUE] \in Record
      BY ExitRecord, Zenon
    <3>3. rec' = [rec EXCEPT ![p] = [rec[p] EXCEPT !.exit_status = s, !.exited = TRUE]]
      BY <3>1, Zenon
    <3>4. rec' \in [Proc -> Record]
      BY <3>2, <3>3, Zenon
    <3> QED BY <1>4, <2>1, <3>4, SMTT(30) DEF sys_exit
  <2>2. CASE ~my_record[p]
    BY <1>4, <2>2, Zenon DEF sys_exit
  <2> QED BY <2>1, <2>2, Zenon
<1>5. ASSUME NEW p \in Proc, NEW success \in BOOLEAN, start_process(p, success) PROVE TypeOK'
  BY <1>5, SMTT(30) DEF start_process
<1>6. ASSUME NEW p \in Proc, LoadDown(p) PROVE TypeOK'
  <2>1. target[p] \in Proc
    BY <1>6, Zenon DEF LoadDown
  <2>2. CASE rec[target[p]].load_status
    <3>1. rec' = [rec EXCEPT ![target[p]].load_sema = @ - 1] /\ rec[target[p]].load_sema > 0
      BY <1>6, <2>2, Zenon DEF LoadDown
    <3>2. rec' \in [Proc -> Record]
      BY <2>1, <3>1, SMTT(30)
    <3> QED BY <1>6, <2>1, <2>2, <3>2, SMTT(30) DEF LoadDown
  <2>3. CASE ~rec[target[p]].load_status
    BY <1>6, <2>1, <2>3, SMTT(30) DEF LoadDown
  <2> QED BY <2>2, <2>3, Zenon
<1>7. ASSUME NEW p \in Proc, WaitDown(p) PROVE TypeOK'
  BY <1>7, SMTT(30) DEF WaitDown
<1>8. ASSUME NEW p \in Proc, ExitUp(p) PROVE TypeOK'
  BY <1>8, SMTT(30) DEF ExitUp
<1>9. ASSUME NEW p \in Proc, ExitCheck(p) PROVE TypeOK'
  BY <1>9, SMTT(30) DEF ExitCheck
<1>10. ASSUME NEW p \in Proc, NEW c \in Proc, ReapOrphan(p, c) PROVE TypeOK'
  <2>1. rec' \in [Proc -> Record]
    BY <1>10, SMTT(30) DEF ReapOrphan
  <2> QED BY <1>10, <2>1, ZenonT(30) DEF ReapOrphan
<1>11. ASSUME NEW p \in Proc, ReapCheck(p) PROVE TypeOK'
  <2>1. target[p] \in Proc
    BY <1>11, Zenon DEF ReapCheck
  <2>2. rec' \in [Proc -> Record]
    <3>1. CASE rec[target[p]].exited
      BY <1>11, <2>1, <3>1, SMTT(30) DEF ReapCheck
    <3>2. CASE ~rec[target[p]].exited
      BY <1>11, <3>2, Zenon DEF ReapCheck
    <3> QED BY <3>1, <3>2, Zenon
  <2>3. children' \in [Proc -> SUBSET Proc]
    BY <1>11, <2>1, Zenon DEF ReapCheck
  <2> QED BY <1>11, <2>1, <2>2, <2>3, ZenonT(30) DEF ReapCheck
<1>12. ASSUME NEW p \in Proc, ReapDone(p) PROVE TypeOK'
  BY <1>12, Zenon DEF ReapDone
<1>13. CASE UNCHANGED vars
  BY <1>13, Zenon DEF vars
<1> QED
  BY <1>1, <1>2, <1>3, <1>4, <1>5, <1>6, <1>7, <1>8, <1>9, <1>10, <1>11, <1>12, <1>13, Zenon
     DEF Next, Choice, Continue, Stopped

-----------------------------------------------------------------------------
\* process_execute gives a process that never ran a record and a parent.
LEMMA ExecuteStep ==
  ASSUME NEW p \in Proc, NEW c \in Proc, IInv, ~undefined, process_execute(p, c)
  PROVE  StatusStored' /\ Reported' /\ (~undefined' => Shared')
<1> USE ProcessAssumption
<1>1. /\ pc[p] = "run" /\ pc[c] = "none" /\ p # c
      /\ children' = children
      /\ my_record' = my_record
      /\ status' = status
      /\ undefined' = undefined
  BY Zenon DEF IInv, TypeOK, process_execute, Live
<1>2. /\ pc'[p] = "load_down" /\ pc'[c] = "load"
      /\ \A q \in Proc \ {p, c} : pc'[q] = pc[q]
      /\ target'[p] = c
      /\ result'[p] = Nothing
      /\ \A q \in Proc \ {p} : target'[q] = target[q] /\ result'[q] = result[q]
  BY SMTT(30) DEF IInv, TypeOK, process_execute, Goto, Reported
<1>3. /\ rec'[c].mem = "live"
      /\ rec'[c].load_sema = 0
      /\ rec'[c].load_status = FALSE
      /\ rec'[c].wait_sema = 0
      /\ rec'[c].exit_status = -1
      /\ rec'[c].exited = FALSE
      /\ rec'[c].parent_thread = p
      /\ \A q \in Proc \ {c} : rec'[q] = rec[q]
  BY Zenon DEF IInv, TypeOK, process_execute, NoRecord
<1>4. StatusStored'
  BY <1>1, <1>2, <1>3, SMTT(30) DEF IInv, TypeOK, Record, StatusStored, Exiting
<1>5. Reported'
  <2>1. (result = [q \in Proc |-> result[q]])'
    BY Zenon DEF IInv, Reported, process_execute
  <2> QED
    BY <1>1, <1>2, <1>3, <2>1, SMTT(30) DEF IInv, Reported, Exiting, Nothing, ExecFailed
<1>6. ASSUME ~undefined' PROVE Shared'
  <2> USE <1>1, <1>2, <1>3, <1>6 DEF IInv, Shared, Refers, InCall, Live
  <2>1. \A q \in Proc : ~Refers(q, c)
    BY Zenon DEF ParentSees, Loaded, Starting, Exiting, Working
  <2>2. OneParent'
    BY <2>1, SMTT(30) DEF OneParent
  <2>3. Unlinked'
    BY <2>1, SMTT(30) DEF Unlinked
  <2>4. ParentSees'
    BY SMTT(30) DEF ParentSees, Loaded, Starting, Exiting, Working
  <2>5. OrphanFrees'
    BY SMTT(30) DEF OrphanFrees, ParentSees, Loaded, Working
  <2>6. Childless'
    BY SMTT(30) DEF Childless
  <2> QED BY <2>2, <2>3, <2>4, <2>5, <2>6, Zenon
<1> QED BY <1>4, <1>5, <1>6, Zenon

\* process_execute without memory changes nothing but the result.
LEMMA ExecuteFailsStep ==
  ASSUME NEW p \in Proc, IInv, ~undefined, ExecuteFails(p)
  PROVE  StatusStored' /\ Reported' /\ (~undefined' => Shared')
<1> USE ProcessAssumption
<1>1. /\ pc' = pc
      /\ children' = children
      /\ my_record' = my_record
      /\ target' = target
      /\ rec' = rec
      /\ status' = status
      /\ undefined' = undefined
  BY Zenon DEF IInv, TypeOK, ExecuteFails, Live
<1>2. /\ result'[p] = ExecFailed(NoProc)
      /\ \A q \in Proc \ {p} : result'[q] = result[q]
  BY Zenon DEF IInv, TypeOK, ExecuteFails, Goto, Reported
<1>3. StatusStored'
  BY <1>1, <1>2, Zenon DEF IInv, TypeOK, Record, StatusStored, Exiting
<1>4. Reported'
  <2>1. (result = [q \in Proc |-> result[q]])'
    BY Zenon DEF IInv, Reported, ExecuteFails
  <2> QED
    BY <1>1, <1>2, <2>1, SMTT(30) DEF IInv, Reported, ExecFailed
<1>5. ASSUME ~undefined' PROVE Shared'
  <2> USE <1>1, <1>2, <1>5 DEF IInv, Shared, Refers, InCall, Live
  <2>1. OneParent'
    BY SMTT(30) DEF OneParent
  <2>2. Unlinked'
    BY Zenon DEF Unlinked, OneParent, ParentSees
  <2>3. ParentSees'
    BY SMTT(30) DEF ParentSees, OneParent, Unlinked, Childless, Loaded, Starting, Exiting, Working
  <2>4. OrphanFrees'
    BY SMTT(30) DEF OrphanFrees, ParentSees, Loaded, Working
  <2>5. Childless'
    BY Zenon DEF Childless
  <2> QED BY <2>1, <2>2, <2>3, <2>4, <2>5, Zenon
<1> QED BY <1>3, <1>4, <1>5, Zenon

\* start_process: the parent is in load_down and finds the outcome.
LEMMA StartStep ==
  ASSUME NEW p \in Proc, NEW success \in BOOLEAN, IInv, ~undefined, start_process(p, success)
  PROVE  StatusStored' /\ Reported' /\ (~undefined' => Shared')
<1> USE ProcessAssumption
<1>1. /\ pc[p] = "load"
      /\ undefined' = ~Live(p)
      /\ children' = children
      /\ target' = target
      /\ status' = status
      /\ result' = result
  BY Zenon DEF IInv, TypeOK, start_process, Live
<1>2. /\ pc'[p] = IF success THEN "run" ELSE "reap"
      /\ my_record'[p] = success
      /\ \A q \in Proc \ {p} : pc'[q] = pc[q] /\ my_record'[q] = my_record[q]
  BY Zenon DEF IInv, TypeOK, start_process, Goto, Reported
<1>3. /\ rec'[p].mem = rec[p].mem
      /\ rec'[p].load_sema = rec[p].load_sema + 1
      /\ rec'[p].load_status = success
      /\ rec'[p].wait_sema = rec[p].wait_sema
      /\ rec'[p].exit_status = rec[p].exit_status
      /\ rec'[p].exited = rec[p].exited
      /\ rec'[p].parent_thread = rec[p].parent_thread
      /\ \A q \in Proc \ {p} : rec'[q] = rec[q]
  BY SMTT(30) DEF IInv, TypeOK, start_process
<1>4. StatusStored'
  BY <1>1, <1>2, <1>3, SMTT(30) DEF IInv, TypeOK, Record, StatusStored, Exiting
<1>5. Reported'
  <2>1. (result = [q \in Proc |-> result[q]])'
    BY Zenon DEF IInv, Reported, start_process
  <2> QED
    BY <1>1, <1>2, <1>3, <2>1, SMTT(30) DEF IInv, Reported, Exiting, ExecFailed
<1>6. ASSUME ~undefined' PROVE Shared'
  <2> USE <1>1, <1>2, <1>3, <1>6 DEF IInv, Shared, Refers, InCall, Live
  <2>1. OneParent'
    BY SMTT(30) DEF OneParent
  <2>2. Unlinked'
    BY SMTT(30) DEF Unlinked, OneParent, ParentSees
  <2>3. ParentSees'
    BY SMTT(30) DEF ParentSees, Childless, Loaded, Starting, Working
  <2>4. OrphanFrees'
    BY SMTT(30) DEF OrphanFrees, ParentSees, Loaded, Working
  <2>5. Childless'
    BY ZenonT(30) DEF Childless
  <2> QED BY <2>1, <2>2, <2>3, <2>4, <2>5, Zenon
<1> QED BY <1>4, <1>5, <1>6, Zenon

\* The rest of process_execute: the child is linked.
LEMMA LoadedStep ==
  ASSUME NEW p \in Proc, rec[target[p]].load_status, IInv, ~undefined, LoadDown(p)
  PROVE  StatusStored' /\ Reported' /\ (~undefined' => Shared')
<1> USE ProcessAssumption
<1>1. PICK c \in Proc : c = target[p] /\ rec[c].load_sema > 0 /\ rec[c].load_status
  BY Zenon DEF IInv, TypeOK, LoadDown
<1>2. /\ pc[p] = "load_down"
      /\ my_record' = my_record
      /\ status' = status
      /\ undefined' = undefined
  BY <1>1, Zenon DEF IInv, TypeOK, LoadDown, Live
<1>3. /\ pc' = [pc EXCEPT ![p] = "run"]
      /\ target' = [target EXCEPT ![p] = NoProc]
      /\ children' = [children EXCEPT ![p] = @ \cup {c}]
      /\ result' = [result EXCEPT ![p] = [call |-> "exec", child |-> c, value |-> 0]]
      /\ rec' = [rec EXCEPT ![c].load_sema = @ - 1]
  BY <1>1, Zenon DEF LoadDown, Goto
<1>4. /\ pc'[p] = "run"
      /\ target'[p] = NoProc
      /\ children'[p] = children[p] \cup {c}
      /\ result'[p] = [call |-> "exec", child |-> c, value |-> 0]
      /\ \A q \in Proc \ {p} : pc'[q] = pc[q] /\ target'[q] = target[q]
         /\ children'[q] = children[q] /\ result'[q] = result[q]
  BY <1>3, SMTT(30) DEF IInv, TypeOK, Reported
<1>5. /\ rec'[c].mem = rec[c].mem
      /\ rec'[c].load_sema = rec[c].load_sema - 1
      /\ rec'[c].load_status = rec[c].load_status
      /\ rec'[c].wait_sema = rec[c].wait_sema
      /\ rec'[c].exit_status = rec[c].exit_status
      /\ rec'[c].exited = rec[c].exited
      /\ rec'[c].parent_thread = rec[c].parent_thread
      /\ \A q \in Proc \ {c} : rec'[q] = rec[q]
  BY <1>3, SMTT(30) DEF IInv, TypeOK, Record
<1>6. StatusStored'
  BY <1>1, <1>2, <1>4, <1>5, SMTT(30) DEF IInv, TypeOK, Record, StatusStored, Exiting
<1>7. Reported'
  <2>1. (result = [q \in Proc |-> result[q]])'
    BY Zenon DEF IInv, Reported, LoadDown
  <2>2. pc[c] \notin {"none", "load"}
    BY <1>1, <1>2, SMTT(30) DEF IInv, Shared, ParentSees, Starting, Loaded, Working, Exiting
  <2>3. rec'[c].load_status /\ \A d \in Proc : rec[d].load_status => rec'[d].load_status
    BY <1>1, <1>5, Zenon
  <2>4. \A d \in Proc : rec'[d].mem = rec[d].mem
    BY <1>5, Zenon
  <2>5. ASSUME NEW q \in Proc, NEW d \in Proc
        PROVE  /\ result'[q].call = "wait" /\ result'[q].child = d =>
                    pc'[d] \in Exiting \ {"exit_up"} /\ result'[q].value = status[d]
               /\ result'[q].call = "exec" /\ result'[q].child = d /\ result'[q].value = 0 =>
                    pc'[d] \notin {"none", "load"} /\ rec'[d].load_status
               /\ result'[q] = ExecFailed(d) =>
                    pc'[d] \in {"reap", "dead"} /\ children'[d] = {} /\ rec'[d].mem = "freed"
    <3>1. CASE q = p
      BY <1>1, <1>2, <1>4, <2>2, <2>3, <3>1, SMTT(30) DEF ExecFailed, TID_ERROR
    <3>2. CASE q # p
      BY <1>1, <1>2, <1>4, <2>3, <2>4, <3>2, SMTT(30) DEF IInv, Reported, Exiting
    <3> QED BY <3>1, <3>2, Zenon
  <2> QED
    BY <1>2, <2>1, <2>5, SMTT(30) DEF Reported, ExecFailed
<1>8. ASSUME ~undefined' PROVE Shared'
  <2> USE <1>1, <1>2, <1>4, <1>5, <1>8 DEF IInv, Shared, Refers, InCall, Live
  <2>1. OneParent'
    BY SMTT(30) DEF OneParent
  <2>2. Unlinked'
    BY SMTT(30) DEF Unlinked, OneParent, ParentSees
  <2>3. ParentSees'
    BY SMTT(30) DEF ParentSees, Loaded, Starting, Exiting, Working
  <2>4. OrphanFrees'
    BY SMTT(30) DEF OrphanFrees, ParentSees, Loaded, Working
  <2>5. Childless'
    BY SMTT(30) DEF Childless
  <2> QED BY <2>1, <2>2, <2>3, <2>4, <2>5, Zenon
<1> QED BY <1>6, <1>7, <1>8, Zenon

\* The rest of process_execute: the record of a child that did not load is freed.
LEMMA NotLoadedStep ==
  ASSUME NEW p \in Proc, ~rec[target[p]].load_status, IInv, ~undefined, LoadDown(p)
  PROVE  StatusStored' /\ Reported' /\ (~undefined' => Shared')
<1> USE ProcessAssumption
<1>1. PICK c \in Proc : c = target[p] /\ rec[c].load_sema > 0 /\ ~rec[c].load_status
  BY Zenon DEF IInv, TypeOK, LoadDown
<1>2. /\ pc[p] = "load_down"
      /\ my_record' = my_record
      /\ status' = status
      /\ undefined' = undefined
      /\ children' = children
  BY <1>1, Zenon DEF IInv, TypeOK, LoadDown, Live
<1>3. /\ pc'[p] = "run"
      /\ target'[p] = NoProc
      /\ result'[p] = ExecFailed(c)
      /\ \A q \in Proc \ {p} : pc'[q] = pc[q] /\ target'[q] = target[q] /\ result'[q] = result[q]
  BY <1>1, SMTT(30) DEF IInv, TypeOK, LoadDown, Goto, Reported
<1>4. /\ rec'[c].mem = "freed"
      /\ rec'[c].load_sema = rec[c].load_sema
      /\ rec'[c].load_status = rec[c].load_status
      /\ rec'[c].wait_sema = rec[c].wait_sema
      /\ rec'[c].exit_status = rec[c].exit_status
      /\ rec'[c].exited = rec[c].exited
      /\ rec'[c].parent_thread = rec[c].parent_thread
      /\ \A q \in Proc \ {c} : rec'[q] = rec[q]
  BY <1>1, SMTT(30) DEF IInv, TypeOK, Record, LoadDown, free
<1>5. StatusStored'
  BY <1>1, <1>2, <1>3, <1>4, SMTT(30) DEF IInv, TypeOK, Record, StatusStored, Exiting
<1>6. Reported'
  <2>1. (result = [q \in Proc |-> result[q]])'
    BY Zenon DEF IInv, Reported, LoadDown
  <2> QED
    BY <1>1, <1>2, <1>3, <1>4, <2>1, SMTT(30)
       DEF IInv, Reported, Shared, ParentSees, Starting, Exiting, ExecFailed, TID_ERROR
<1>7. ASSUME ~undefined' PROVE Shared'
  <2> USE <1>1, <1>2, <1>3, <1>4, <1>7 DEF IInv, Shared, Refers, InCall, Live
  <2>1. OneParent'
    BY SMTT(30) DEF OneParent
  <2>2. Unlinked'
    BY SMTT(30) DEF Unlinked, OneParent, ParentSees
  <2>3. ParentSees'
    BY SMTT(30) DEF ParentSees, OneParent, Unlinked, Childless, Loaded, Starting, Exiting, Working
  <2>4. OrphanFrees'
    BY SMTT(30) DEF OrphanFrees, ParentSees, Loaded, Working
  <2>5. Childless'
    BY SMTT(30) DEF Childless
  <2> QED BY <2>1, <2>2, <2>3, <2>4, <2>5, Zenon
<1> QED BY <1>5, <1>6, <1>7, Zenon

\* process_wait takes the child out of the list, into the call.
LEMMA WaitStep ==
  ASSUME NEW p \in Proc, NEW c \in Proc, c \in children[p], IInv, ~undefined, process_wait(p, c)
  PROVE  StatusStored' /\ Reported' /\ (~undefined' => Shared')
<1> USE ProcessAssumption
<1>1. /\ pc[p] = "run"
      /\ my_record' = my_record
      /\ rec' = rec
      /\ status' = status
      /\ undefined' = undefined
  BY Zenon DEF IInv, TypeOK, process_wait, Live
<1>2. /\ pc' = [pc EXCEPT ![p] = "wait_down"]
      /\ target' = [target EXCEPT ![p] = c]
      /\ children' = [children EXCEPT ![p] = @ \ {c}]
      /\ result' = [result EXCEPT ![p] = Nothing]
  BY Zenon DEF process_wait, Goto
<1>3. /\ pc'[p] = "wait_down"
      /\ target'[p] = c
      /\ children'[p] = children[p] \ {c}
      /\ result'[p] = Nothing
      /\ \A q \in Proc \ {p} : pc'[q] = pc[q] /\ target'[q] = target[q]
         /\ children'[q] = children[q] /\ result'[q] = result[q]
  BY <1>2, SMTT(30) DEF IInv, TypeOK, Reported
<1>4. StatusStored'
  BY <1>1, <1>3, Zenon DEF IInv, TypeOK, Record, StatusStored, Exiting
<1>5. Reported'
  <2>1. (result = [q \in Proc |-> result[q]])'
    BY Zenon DEF IInv, Reported, process_wait
  <2> QED
    BY <1>1, <1>3, <2>1, SMTT(30) DEF IInv, Reported, Exiting, Nothing, ExecFailed
<1>6. ASSUME ~undefined' PROVE Shared'
  <2> USE <1>1, <1>3, <1>6 DEF IInv, Shared, Refers, InCall, Live
  <2>1. OneParent'
    BY SMTT(30) DEF OneParent
  <2>2. Unlinked'
    BY SMTT(30) DEF Unlinked, OneParent, ParentSees
  <2>3. ParentSees'
    BY SMTT(30) DEF ParentSees, Loaded, Starting, Exiting, Working
  <2>4. OrphanFrees'
    BY SMTT(30) DEF OrphanFrees, ParentSees, Loaded, Working
  <2>5. Childless'
    BY Zenon DEF Childless
  <2> QED BY <2>1, <2>2, <2>3, <2>4, <2>5, Zenon
<1> QED BY <1>4, <1>5, <1>6, Zenon

\* process_wait of what is no child.
LEMMA NoWaitStep ==
  ASSUME NEW p \in Proc, NEW c \in Proc, c \notin children[p], IInv, ~undefined,
           process_wait(p, c)
  PROVE  StatusStored' /\ Reported' /\ (~undefined' => Shared')
<1> USE ProcessAssumption
<1>1. /\ pc' = pc
      /\ target' = target
      /\ children' = children
      /\ my_record' = my_record
      /\ rec' = rec
      /\ status' = status
      /\ undefined' = undefined
  BY Zenon DEF IInv, TypeOK, process_wait, Live
<1>2. /\ result'[p] = NotAChild
      /\ \A q \in Proc \ {p} : result'[q] = result[q]
  BY Zenon DEF IInv, TypeOK, process_wait, Goto, Reported
<1>3. StatusStored'
  BY <1>1, <1>2, Zenon DEF IInv, TypeOK, Record, StatusStored, Exiting
<1>4. Reported'
  <2>1. (result = [q \in Proc |-> result[q]])'
    BY Zenon DEF IInv, Reported, process_wait
  <2> QED
    BY <1>1, <1>2, <2>1, SMTT(30) DEF IInv, Reported, NotAChild, ExecFailed
<1>5. ASSUME ~undefined' PROVE Shared'
  <2> USE <1>1, <1>2, <1>5 DEF IInv, Shared, Refers, InCall, Live
  <2>1. OneParent'
    BY Zenon DEF OneParent
  <2>2. Unlinked'
    BY Zenon DEF Unlinked, OneParent, ParentSees
  <2>3. ParentSees'
    BY SMTT(30) DEF ParentSees, Loaded, Starting
  <2>4. OrphanFrees'
    BY SMTT(30) DEF OrphanFrees, ParentSees, Loaded, Working
  <2>5. Childless'
    BY Zenon DEF Childless
  <2> QED BY <2>1, <2>2, <2>3, <2>4, <2>5, Zenon
<1> QED BY <1>3, <1>4, <1>5, Zenon

\* The rest of process_wait: the parent frees the record and returns the status.
LEMMA WaitDownStep ==
  ASSUME NEW p \in Proc, IInv, ~undefined, WaitDown(p)
  PROVE  StatusStored' /\ Reported' /\ (~undefined' => Shared')
<1> USE ProcessAssumption
<1>1. PICK c \in Proc : c = target[p] /\ rec[c].wait_sema > 0
  BY Zenon DEF IInv, TypeOK, WaitDown
<1>2. /\ pc[p] = "wait_down"
      /\ undefined' = ~Live(c)
      /\ children' = children
      /\ my_record' = my_record
      /\ status' = status
  BY <1>1, Zenon DEF IInv, TypeOK, WaitDown, Live
<1>3. /\ pc'[p] = "run"
      /\ target'[p] = NoProc
      /\ result'[p] = [call |-> "wait", child |-> c, value |-> rec[c].exit_status]
      /\ \A q \in Proc \ {p} : pc'[q] = pc[q] /\ target'[q] = target[q] /\ result'[q] = result[q]
  BY <1>1, ZenonT(30) DEF IInv, TypeOK, WaitDown, Goto, Reported
<1>4. /\ rec'[c].mem = "freed"
      /\ rec'[c].load_sema = rec[c].load_sema
      /\ rec'[c].load_status = rec[c].load_status
      /\ rec'[c].wait_sema = rec[c].wait_sema
      /\ rec'[c].exit_status = rec[c].exit_status
      /\ rec'[c].exited = rec[c].exited
      /\ rec'[c].parent_thread = rec[c].parent_thread
      /\ \A q \in Proc \ {c} : rec'[q] = rec[q]
  BY <1>1, SMTT(30) DEF IInv, TypeOK, WaitDown, free
<1>5. StatusStored'
  BY <1>1, <1>2, <1>3, <1>4, SMTT(30) DEF IInv, TypeOK, Record, StatusStored, Exiting
<1>6. Reported'
  <2>1. (result = [q \in Proc |-> result[q]])'
    BY Zenon DEF IInv, Reported, WaitDown
  <2> QED
    BY <1>1, <1>2, <1>3, <1>4, <2>1, SMTT(30)
       DEF IInv, Reported, StatusStored, Exiting, ExecFailed
<1>7. ASSUME ~undefined' PROVE Shared'
  <2> USE <1>1, <1>2, <1>3, <1>4, <1>7 DEF IInv, Shared, Refers, InCall, Live
  <2>1. OneParent'
    BY SMTT(30) DEF OneParent
  <2>2. Unlinked'
    BY SMTT(30) DEF Unlinked, OneParent, ParentSees
  <2>3. ParentSees'
    BY SMTT(30) DEF ParentSees, Unlinked, Loaded, Starting, Exiting, Working
  <2>4. OrphanFrees'
    BY SMTT(30) DEF OrphanFrees, ParentSees, Loaded, Working
  <2>5. Childless'
    BY SMTT(30) DEF Childless
  <2> QED BY <2>1, <2>2, <2>3, <2>4, <2>5, Zenon
<1> QED BY <1>5, <1>6, <1>7, Zenon

\* sys_exit stores the status in the record.
LEMMA ExitStep ==
  ASSUME NEW p \in Proc, NEW s \in ExitStatus, my_record[p], IInv, ~undefined, sys_exit(p, s)
  PROVE  StatusStored' /\ Reported' /\ (~undefined' => Shared')
<1> USE ProcessAssumption
<1>1. /\ pc[p] = "run"
      /\ undefined' = ~Live(p)
      /\ children' = children
      /\ my_record' = my_record
      /\ target' = target
  BY Zenon DEF IInv, TypeOK, sys_exit, Live
<1>2. /\ pc'[p] = "exit_up"
      /\ status'[p] = s
      /\ result'[p] = Nothing
      /\ \A q \in Proc \ {p} : pc'[q] = pc[q] /\ status'[q] = status[q] /\ result'[q] = result[q]
  BY ZenonT(30) DEF IInv, TypeOK, sys_exit, Goto, Reported
<1>3. /\ rec'[p].mem = rec[p].mem
      /\ rec'[p].load_sema = rec[p].load_sema
      /\ rec'[p].load_status = rec[p].load_status
      /\ rec'[p].wait_sema = rec[p].wait_sema
      /\ rec'[p].exit_status = s
      /\ rec'[p].exited = TRUE
      /\ rec'[p].parent_thread = rec[p].parent_thread
      /\ \A q \in Proc \ {p} : rec'[q] = rec[q]
  BY SMTT(30) DEF IInv, TypeOK, Record, sys_exit
<1>4. StatusStored'
  BY <1>1, <1>2, <1>3, SMTT(30) DEF IInv, TypeOK, Record, StatusStored, Exiting
<1>5. Reported'
  <2>1. (result = [q \in Proc |-> result[q]])'
    BY Zenon DEF IInv, Reported, sys_exit
  <2> QED
    BY <1>1, <1>2, <1>3, <2>1, SMTT(30) DEF IInv, Reported, Exiting, Nothing, ExecFailed
<1>6. ASSUME ~undefined' PROVE Shared'
  <2> USE <1>1, <1>2, <1>3, <1>6 DEF IInv, Shared, Refers, InCall, Live
  <2>1. OneParent'
    BY SMTT(30) DEF OneParent
  <2>2. Unlinked'
    BY SMTT(30) DEF Unlinked, OneParent, ParentSees
  <2>3. ParentSees'
    BY SMTT(30) DEF ParentSees, Loaded, Starting, Exiting
  <2>4. OrphanFrees'
    BY SMTT(30) DEF OrphanFrees, ParentSees, Loaded, Working
  <2>5. Childless'
    BY ZenonT(30) DEF Childless
  <2> QED BY <2>1, <2>2, <2>3, <2>4, <2>5, Zenon
<1> QED BY <1>4, <1>5, <1>6, Zenon

\* sys_exit of a thread without a record.
LEMMA RootExitStep ==
  ASSUME NEW p \in Proc, NEW s \in ExitStatus, ~my_record[p], IInv, ~undefined, sys_exit(p, s)
  PROVE  StatusStored' /\ Reported' /\ (~undefined' => Shared')
<1> USE ProcessAssumption
<1>1. /\ pc[p] = "run"
      /\ children' = children
      /\ my_record' = my_record
      /\ target' = target
      /\ rec' = rec
      /\ undefined' = undefined
  BY Zenon DEF IInv, TypeOK, sys_exit, Live
<1>2. /\ pc'[p] = "reap"
      /\ status'[p] = s
      /\ result'[p] = Nothing
      /\ \A q \in Proc \ {p} : pc'[q] = pc[q] /\ status'[q] = status[q] /\ result'[q] = result[q]
  BY SMTT(30) DEF IInv, TypeOK, sys_exit, Goto, Reported
<1>3. StatusStored'
  BY <1>1, <1>2, Zenon DEF IInv, TypeOK, Record, StatusStored, Exiting
<1>4. Reported'
  <2>1. (result = [q \in Proc |-> result[q]])'
    BY Zenon DEF IInv, Reported, sys_exit
  <2> QED
    BY <1>1, <1>2, <2>1, SMTT(30) DEF IInv, Reported, Exiting, Nothing, ExecFailed
<1>5. ASSUME ~undefined' PROVE Shared'
  <2> USE <1>1, <1>2, <1>5 DEF IInv, Shared, Refers, InCall, Live
  <2>1. OneParent'
    BY ZenonT(30) DEF OneParent
  <2>2. Unlinked'
    BY SMTT(30) DEF Unlinked, OneParent, ParentSees
  <2>3. ParentSees'
    BY SMTT(30) DEF ParentSees, Loaded, Starting, Exiting
  <2>4. OrphanFrees'
    BY SMTT(30) DEF OrphanFrees, ParentSees, Loaded, Working
  <2>5. Childless'
    BY Zenon DEF Childless
  <2> QED BY <2>1, <2>2, <2>3, <2>4, <2>5, Zenon
<1> QED BY <1>3, <1>4, <1>5, Zenon

\* sema_up (&wait_sema), after the status was stored.
LEMMA ExitUpStep ==
  ASSUME NEW p \in Proc, IInv, ~undefined, ExitUp(p)
  PROVE  StatusStored' /\ Reported' /\ (~undefined' => Shared')
<1> USE ProcessAssumption
<1>1. /\ pc[p] = "exit_up"
      /\ undefined' = ~Live(p)
      /\ children' = children
      /\ my_record' = my_record
      /\ target' = target
      /\ status' = status
      /\ result' = result
  BY Zenon DEF IInv, TypeOK, ExitUp, Live
<1>2. /\ pc'[p] = "exit_check"
      /\ \A q \in Proc \ {p} : pc'[q] = pc[q]
  BY Zenon DEF IInv, TypeOK, ExitUp, Goto, Reported
<1>3. /\ rec'[p].mem = rec[p].mem
      /\ rec'[p].load_sema = rec[p].load_sema
      /\ rec'[p].load_status = rec[p].load_status
      /\ rec'[p].wait_sema = rec[p].wait_sema + 1
      /\ rec'[p].exit_status = rec[p].exit_status
      /\ rec'[p].exited = rec[p].exited
      /\ rec'[p].parent_thread = rec[p].parent_thread
      /\ \A q \in Proc \ {p} : rec'[q] = rec[q]
  BY SMTT(30) DEF IInv, TypeOK, ExitUp
<1>4. StatusStored'
  BY <1>1, <1>2, <1>3, SMTT(30) DEF IInv, TypeOK, Record, StatusStored, Exiting
<1>5. Reported'
  <2>1. (result = [q \in Proc |-> result[q]])'
    BY Zenon DEF IInv, Reported, ExitUp
  <2> QED
    BY <1>1, <1>2, <1>3, <2>1, SMTT(30) DEF IInv, Reported, ExecFailed
<1>6. ASSUME ~undefined' PROVE Shared'
  <2> USE <1>1, <1>2, <1>3, <1>6 DEF IInv, Shared, Refers, InCall, Live
  <2>1. OneParent'
    BY SMTT(30) DEF OneParent
  <2>2. Unlinked'
    BY SMTT(30) DEF Unlinked, OneParent, ParentSees
  <2>3. ParentSees'
    BY SMTT(30) DEF ParentSees, Loaded, Starting, Exiting, Working
  <2>4. OrphanFrees'
    BY SMTT(30) DEF OrphanFrees, ParentSees, Loaded, Working
  <2>5. Childless'
    BY Zenon DEF Childless
  <2> QED BY <2>1, <2>2, <2>3, <2>4, <2>5, Zenon
<1> QED BY <1>4, <1>5, <1>6, Zenon

\* An orphan frees its record.
LEMMA OrphanExitStep ==
  ASSUME NEW p \in Proc, rec[p].parent_thread = NoProc, IInv, ~undefined, ExitCheck(p)
  PROVE  StatusStored' /\ Reported' /\ (~undefined' => Shared')
<1> USE ProcessAssumption
<1>1. /\ pc[p] = "exit_check"
      /\ undefined' = ~Live(p)
      /\ children' = children
      /\ target' = target
      /\ status' = status
      /\ result' = result
  BY Zenon DEF IInv, TypeOK, ExitCheck, Live
<1>2. /\ pc'[p] = "reap"
      /\ my_record'[p] = FALSE
      /\ \A q \in Proc \ {p} : pc'[q] = pc[q] /\ my_record'[q] = my_record[q]
  BY SMTT(30) DEF IInv, TypeOK, ExitCheck, Goto, Reported
<1>3. /\ rec'[p].mem = "freed"
      /\ rec'[p].load_sema = rec[p].load_sema
      /\ rec'[p].load_status = rec[p].load_status
      /\ rec'[p].wait_sema = rec[p].wait_sema
      /\ rec'[p].exit_status = rec[p].exit_status
      /\ rec'[p].exited = rec[p].exited
      /\ rec'[p].parent_thread = rec[p].parent_thread
      /\ \A q \in Proc \ {p} : rec'[q] = rec[q]
  BY SMTT(30) DEF IInv, TypeOK, Record, ExitCheck, free
<1>4. StatusStored'
  BY <1>1, <1>2, <1>3, SMTT(30) DEF IInv, TypeOK, Record, StatusStored, Exiting
<1>5. Reported'
  <2>1. (result = [q \in Proc |-> result[q]])'
    BY Zenon DEF IInv, Reported, ExitCheck
  <2> QED
    BY <1>1, <1>2, <1>3, <2>1, SMTT(30) DEF IInv, Reported, Exiting, ExecFailed
<1>6. ASSUME ~undefined' PROVE Shared'
  <2> USE <1>1, <1>2, <1>3, <1>6 DEF IInv, Shared, Refers, InCall, Live
  <2>1. OneParent'
    BY SMTT(30) DEF OneParent
  <2>2. Unlinked'
    BY SMTT(30) DEF Unlinked, OneParent, ParentSees
  <2>3. ParentSees'
    BY SMTT(30) DEF ParentSees, Loaded, Starting, Exiting, Working
  <2>4. OrphanFrees'
    BY SMTT(30) DEF OrphanFrees, ParentSees, Loaded, Working
  <2>5. Childless'
    BY Zenon DEF Childless
  <2> QED BY <2>1, <2>2, <2>3, <2>4, <2>5, Zenon
<1> QED BY <1>4, <1>5, <1>6, Zenon

\* The record of a child that is no orphan stays its parent's.
LEMMA ChildExitStep ==
  ASSUME NEW p \in Proc, rec[p].parent_thread # NoProc, IInv, ~undefined, ExitCheck(p)
  PROVE  StatusStored' /\ Reported' /\ (~undefined' => Shared')
<1> USE ProcessAssumption
<1>1. /\ pc[p] = "exit_check"
      /\ undefined' = ~Live(p)
      /\ children' = children
      /\ target' = target
      /\ status' = status
      /\ result' = result
      /\ rec' = rec
  BY Zenon DEF IInv, TypeOK, ExitCheck, Live
<1>2. /\ pc'[p] = "reap"
      /\ my_record'[p] = FALSE
      /\ \A q \in Proc \ {p} : pc'[q] = pc[q] /\ my_record'[q] = my_record[q]
  BY ZenonT(30) DEF IInv, TypeOK, ExitCheck, Goto, Reported
<1>3. StatusStored'
  BY <1>1, <1>2, Zenon DEF IInv, TypeOK, Record, StatusStored, Exiting
<1>4. Reported'
  <2>1. (result = [q \in Proc |-> result[q]])'
    BY Zenon DEF IInv, Reported, ExitCheck
  <2> QED
    BY <1>1, <1>2, <2>1, SMTT(30) DEF IInv, Reported, Exiting, ExecFailed
<1>5. ASSUME ~undefined' PROVE Shared'
  <2> USE <1>1, <1>2, <1>5 DEF IInv, Shared, Refers, InCall, Live
  <2>1. OneParent'
    BY SMTT(30) DEF OneParent
  <2>2. Unlinked'
    BY SMTT(30) DEF Unlinked, OneParent, ParentSees
  <2>3. ParentSees'
    BY SMTT(30) DEF ParentSees, Loaded, Starting, Exiting, Working
  <2>4. OrphanFrees'
    BY SMTT(30) DEF OrphanFrees, ParentSees, Loaded, Working
  <2>5. Childless'
    BY Zenon DEF Childless
  <2> QED BY <2>1, <2>2, <2>3, <2>4, <2>5, Zenon
<1> QED BY <1>3, <1>4, <1>5, Zenon

\* process_exit makes a child an orphan.
LEMMA ReapOrphanStep ==
  ASSUME NEW p \in Proc, NEW c \in Proc, IInv, ~undefined, ReapOrphan(p, c)
  PROVE  StatusStored' /\ Reported' /\ (~undefined' => Shared')
<1> USE ProcessAssumption
<1>1. /\ pc[p] = "reap" /\ c \in children[p]
      /\ undefined' = ~Live(c)
      /\ children' = children
      /\ my_record' = my_record
      /\ status' = status
      /\ result' = result
  BY Zenon DEF IInv, TypeOK, ReapOrphan, Live
<1>2. /\ pc'[p] = "reap_check"
      /\ target'[p] = c
      /\ \A q \in Proc \ {p} : pc'[q] = pc[q] /\ target'[q] = target[q]
  BY SMTT(30) DEF IInv, TypeOK, ReapOrphan, Goto, Reported
<1>3. /\ rec'[c].mem = rec[c].mem
      /\ rec'[c].load_sema = rec[c].load_sema
      /\ rec'[c].load_status = rec[c].load_status
      /\ rec'[c].wait_sema = rec[c].wait_sema
      /\ rec'[c].exit_status = rec[c].exit_status
      /\ rec'[c].exited = rec[c].exited
      /\ rec'[c].parent_thread = NoProc
      /\ \A q \in Proc \ {c} : rec'[q] = rec[q]
  BY SMTT(30) DEF IInv, TypeOK, ReapOrphan
<1>4. StatusStored'
  BY <1>1, <1>2, <1>3, SMTT(30) DEF IInv, TypeOK, Record, StatusStored, Exiting
<1>5. Reported'
  <2>1. (result = [q \in Proc |-> result[q]])'
    BY Zenon DEF IInv, Reported, ReapOrphan
  <2> QED
    BY <1>1, <1>2, <1>3, <2>1, SMTT(30) DEF IInv, Reported, Exiting, ExecFailed
<1>6. ASSUME ~undefined' PROVE Shared'
  <2> USE <1>1, <1>2, <1>3, <1>6 DEF IInv, Shared, Refers, InCall, Live
  <2>1. OneParent'
    BY SMTT(30) DEF OneParent
  <2>2. Unlinked'
    BY SMTT(30) DEF Unlinked, OneParent, ParentSees
  <2>3. ParentSees'
    BY SMTT(30) DEF ParentSees, Loaded, Starting, Exiting, Working
  <2>4. OrphanFrees'
    <3> SUFFICES ASSUME NEW d \in Proc, Live(d)'
                 PROVE  \/ \E q \in Proc : Refers(q, d)'
                        \/ (/\ rec[d].parent_thread = NoProc /\ my_record[d]
                            /\ pc[d] \in Working \cup {"exit_up", "exit_check"})'
      BY Zenon DEF OrphanFrees
    <3>1. Live(d)
      BY Zenon
    <3>2. ASSUME NEW q \in Proc, Refers(q, d) PROVE Refers(q, d)'
      BY <3>2, Zenon
    <3>3. CASE rec[d].parent_thread = NoProc /\ my_record[d]
               /\ pc[d] \in Working \cup {"exit_up", "exit_check"}
      <4>1. d # p
        BY <3>3, Zenon DEF Working
      <4>2. pc'[d] = pc[d] /\ rec'[d].parent_thread = NoProc
        BY <3>3, <4>1, Zenon
      <4> QED BY <3>3, <4>2, Zenon
    <3> QED BY <3>1, <3>2, <3>3, Zenon DEF OrphanFrees
  <2>5. Childless'
    BY SMTT(30) DEF Childless
  <2> QED BY <2>1, <2>2, <2>3, <2>4, <2>5, Zenon
<1> QED BY <1>4, <1>5, <1>6, Zenon

\* process_exit frees the record of a child that has exited, and forgets it.
LEMMA ReapExitedStep ==
  ASSUME NEW p \in Proc, rec[target[p]].exited, IInv, ~undefined, ReapCheck(p)
  PROVE  StatusStored' /\ Reported' /\ (~undefined' => Shared')
<1> USE ProcessAssumption
<1>1. PICK c \in Proc : c = target[p] /\ rec[c].exited
  BY Zenon DEF IInv, TypeOK, ReapCheck
<1>2. /\ pc[p] = "reap_check"
      /\ undefined' = ~Live(c)
      /\ my_record' = my_record
      /\ status' = status
      /\ result' = result
  BY <1>1, Zenon DEF IInv, TypeOK, ReapCheck, Live
<1>3. /\ pc'[p] = "reap"
      /\ target'[p] = NoProc
      /\ children'[p] = children[p] \ {c}
      /\ \A q \in Proc \ {p} : pc'[q] = pc[q] /\ target'[q] = target[q]
         /\ children'[q] = children[q]
  BY <1>1, SMTT(30) DEF IInv, TypeOK, ReapCheck, Goto, Reported
<1>4. rec' = [rec EXCEPT ![c].mem = "freed"]
  BY <1>1, Zenon DEF ReapCheck, free
<1>5. /\ rec'[c].mem = "freed"
      /\ rec'[c].load_sema = rec[c].load_sema
      /\ rec'[c].load_status = rec[c].load_status
      /\ rec'[c].wait_sema = rec[c].wait_sema
      /\ rec'[c].exit_status = rec[c].exit_status
      /\ rec'[c].exited = rec[c].exited
      /\ rec'[c].parent_thread = rec[c].parent_thread
      /\ \A q \in Proc \ {c} : rec'[q] = rec[q]
  BY <1>4, SMTT(30) DEF IInv, TypeOK, Record
<1>6. StatusStored'
  BY <1>1, <1>2, <1>3, <1>5, SMTT(30) DEF IInv, TypeOK, Record, StatusStored, Exiting
<1>7. Reported'
  <2>1. (result = [q \in Proc |-> result[q]])'
    BY Zenon DEF IInv, Reported, ReapCheck
  <2> QED
    BY <1>1, <1>2, <1>3, <1>5, <2>1, SMTT(30) DEF IInv, Reported, Exiting, ExecFailed
<1>8. ASSUME ~undefined' PROVE Shared'
  <2> USE <1>1, <1>2, <1>3, <1>5, <1>8 DEF IInv, Shared, Refers, InCall, Live
  <2>1. OneParent'
    BY SMTT(30) DEF OneParent
  <2>2. c \in children[p]
    BY Zenon DEF Unlinked
  <2>3. \A q \in Proc : ~Refers(q, c)'
    BY <2>2, SMTT(30) DEF OneParent
  <2>4. Unlinked'
    <3> SUFFICES ASSUME NEW q \in Proc, NEW d \in Proc, target'[q] = d
                 PROVE  /\ pc'[q] \in {"load_down", "wait_down"} => d \notin children'[q]
                        /\ pc'[q] = "reap_check" => d \in children'[q]
                                                    /\ rec'[d].parent_thread = NoProc
      BY Zenon DEF Unlinked
    <3>1. q # p
      BY Zenon
    <3>2. target[q] = d /\ pc'[q] = pc[q] /\ children'[q] = children[q]
          /\ rec'[d].parent_thread = rec[d].parent_thread
      BY <3>1, Zenon
    <3> QED BY <3>2, SMTT(30) DEF Unlinked
  <2>5. \A q, d \in Proc : Refers(q, d)' => d # c /\ Refers(q, d)
    BY <2>3, SMTT(30)
  <2>6. \A d \in Proc : Loaded(d) => Loaded(d)'
    BY Zenon DEF Loaded, Exiting, Working
  <2>7. ParentSees'
    <3> SUFFICES ASSUME NEW q \in Proc, NEW d \in Proc
                 PROVE (/\ Refers(q, d) /\ ~(pc[q] = "reap_check" /\ target[q] = d) => Live(d)
                          /\ rec[d].parent_thread = q
                        /\ Refers(q, d) /\ pc[q] # "load_down" => Loaded(d)
                        /\ d \in children[q] => Loaded(d)
                        /\ pc[q] = "load_down" /\ target[q] = d => Starting(d))'
      BY Zenon DEF ParentSees
    <3>1. ASSUME Refers(q, d)', ~(pc[q] = "reap_check" /\ target[q] = d)'
          PROVE  (Live(d) /\ rec[d].parent_thread = q)'
      <4>1. rec'[d] = rec[d]
        BY <2>5, <3>1, Zenon
      <4>2. Live(d) /\ rec[d].parent_thread = q
        BY <2>5, <3>1, SMTT(30) DEF ParentSees
      <4> QED BY <4>1, <4>2, Zenon
    <3>2. ASSUME Refers(q, d)', pc'[q] # "load_down" PROVE Loaded(d)'
      BY <2>5, <2>6, <3>2, SMTT(30) DEF ParentSees
    <3>3. ASSUME d \in children'[q] PROVE Loaded(d)'
      BY <2>6, <3>3, SMTT(30) DEF ParentSees
    <3>4. ASSUME pc'[q] = "load_down", target'[q] = d PROVE Starting(d)'
      <4>1. Starting(d) /\ d # c
        BY <2>5, <3>4, SMTT(30) DEF ParentSees
      <4>2. CASE d = p
        BY <2>6, <4>1, <4>2, Zenon DEF Starting
      <4>3. CASE d # p
        BY <2>6, <4>1, <4>3, Zenon DEF Starting
      <4> QED BY <4>2, <4>3, Zenon
    <3> QED BY <3>1, <3>2, <3>3, <3>4, Zenon
  <2>8. OrphanFrees'
    <3> SUFFICES ASSUME NEW d \in Proc, Live(d)'
                 PROVE  \/ \E q \in Proc : Refers(q, d)'
                        \/ (/\ rec[d].parent_thread = NoProc /\ my_record[d]
                            /\ pc[d] \in Working \cup {"exit_up", "exit_check"})'
      BY Zenon DEF OrphanFrees
    <3>1. d # c /\ Live(d)
      BY SMTT(30), SMTT(30)
    <3>2. ASSUME NEW q \in Proc, Refers(q, d) PROVE Refers(q, d)'
      BY <3>1, <3>2, Zenon
    <3>3. CASE rec[d].parent_thread = NoProc /\ my_record[d]
               /\ pc[d] \in Working \cup {"exit_up", "exit_check"}
      <4>1. d # p
        BY <3>3, Zenon DEF Working
      <4> QED BY <3>1, <3>3, <4>1, Zenon
    <3> QED BY <3>1, <3>2, <3>3, Zenon DEF OrphanFrees
  <2>9. Childless'
    <3> SUFFICES ASSUME NEW q \in Proc
                 PROVE (/\ pc[q] \in {"none", "load", "dead"} => children[q] = {}
                        /\ pc[q] = "load" => ~rec[q].exited
                        /\ pc[q] = "exit_up" => my_record[q])'
      BY Zenon DEF Childless
    <3>1. CASE q = p
      BY <3>1, Zenon
    <3>2. CASE q # p
      <4>1. pc'[q] = pc[q] /\ children'[q] = children[q] /\ rec'[q].exited = rec[q].exited
        BY <3>2, Zenon
      <4> QED BY <4>1, SMTT(30) DEF Childless
    <3> QED BY <3>1, <3>2, Zenon
  <2> QED BY <2>1, <2>4, <2>7, <2>8, <2>9, Zenon
<1> QED BY <1>6, <1>7, <1>8, Zenon

\* process_exit forgets a child that has not exited.
LEMMA ReapRunningStep ==
  ASSUME NEW p \in Proc, ~rec[target[p]].exited, IInv, ~undefined, ReapCheck(p)
  PROVE  StatusStored' /\ Reported' /\ (~undefined' => Shared')
<1> USE ProcessAssumption
<1>1. PICK c \in Proc : c = target[p] /\ ~rec[c].exited
  BY Zenon DEF IInv, TypeOK, ReapCheck
<1>2. /\ pc[p] = "reap_check"
      /\ undefined' = ~Live(c)
      /\ my_record' = my_record
      /\ status' = status
      /\ result' = result
      /\ rec' = rec
  BY <1>1, Zenon DEF IInv, TypeOK, ReapCheck, Live
<1>3. /\ pc'[p] = "reap"
      /\ target'[p] = NoProc
      /\ children'[p] = children[p] \ {c}
      /\ \A q \in Proc \ {p} : pc'[q] = pc[q] /\ target'[q] = target[q]
         /\ children'[q] = children[q]
  BY <1>1, SMTT(30) DEF IInv, TypeOK, ReapCheck, Goto, Reported
<1>4. StatusStored'
  BY <1>1, <1>2, <1>3, Zenon DEF IInv, TypeOK, Record, StatusStored, Exiting
<1>5. Reported'
  <2>1. (result = [q \in Proc |-> result[q]])'
    BY Zenon DEF IInv, Reported, ReapCheck
  <2> QED
    BY <1>1, <1>2, <1>3, <2>1, SMTT(30) DEF IInv, Reported, Exiting, ExecFailed
<1>6. ASSUME ~undefined' PROVE Shared'
  <2> USE <1>1, <1>2, <1>3, <1>6 DEF IInv, Shared, Refers, InCall, Live
  <2>1. OneParent'
    BY SMTT(30) DEF OneParent
  <2>2. Unlinked'
    BY SMTT(30) DEF Unlinked, OneParent, ParentSees
  <2>3. ParentSees'
    BY SMTT(30) DEF ParentSees, Loaded, Starting, Exiting, Working
  <2>4. rec[c].parent_thread = NoProc /\ Loaded(c)
    BY ZenonT(30) DEF Unlinked, ParentSees
  <2>5. \A d \in Proc \ {c} : \A q \in Proc : Refers(q, d) => Refers(q, d)'
    BY Zenon
  <2>6. OrphanFrees'
    BY <2>4, <2>5, SMTT(30) DEF OrphanFrees, Loaded, Working
  <2>7. Childless'
    BY ZenonT(30) DEF Childless
  <2> QED BY <2>1, <2>2, <2>3, <2>6, <2>7, Zenon
<1> QED BY <1>4, <1>5, <1>6, Zenon

\* The last step of process_exit.
LEMMA ReapDoneStep ==
  ASSUME NEW p \in Proc, IInv, ~undefined, ReapDone(p)
  PROVE  StatusStored' /\ Reported' /\ (~undefined' => Shared')
<1> USE ProcessAssumption
<1>1. /\ pc[p] = "reap" /\ children[p] = {}
      /\ children' = children
      /\ my_record' = my_record
      /\ target' = target
      /\ rec' = rec
      /\ status' = status
      /\ result' = result
      /\ undefined' = undefined
  BY Zenon DEF IInv, TypeOK, ReapDone, Live
<1>2. /\ pc'[p] = "dead"
      /\ \A q \in Proc \ {p} : pc'[q] = pc[q]
  BY ZenonT(30) DEF IInv, TypeOK, ReapDone, Goto, Reported
<1>3. StatusStored'
  BY <1>1, <1>2, Zenon DEF IInv, TypeOK, Record, StatusStored, Exiting
<1>4. Reported'
  <2>1. (result = [q \in Proc |-> result[q]])'
    BY Zenon DEF IInv, Reported, ReapDone
  <2> QED
    BY <1>1, <1>2, <2>1, SMTT(30) DEF IInv, Reported, Exiting, ExecFailed
<1>5. ASSUME ~undefined' PROVE Shared'
  <2> USE <1>1, <1>2, <1>5 DEF IInv, Shared, Refers, InCall, Live
  <2>1. OneParent'
    BY SMTT(30) DEF OneParent
  <2>2. Unlinked'
    BY SMTT(30) DEF Unlinked, OneParent, ParentSees
  <2>3. ParentSees'
    BY SMTT(30) DEF ParentSees, Loaded, Starting, Exiting, Working
  <2>4. OrphanFrees'
    BY SMTT(30) DEF OrphanFrees, ParentSees, Loaded, Working
  <2>5. Childless'
    BY Zenon DEF Childless
  <2> QED BY <2>1, <2>2, <2>3, <2>4, <2>5, Zenon
<1> QED BY <1>3, <1>4, <1>5, Zenon

-----------------------------------------------------------------------------
\* Every step keeps the invariant.
LEMMA NextIInv == ASSUME IInv, [Next]_vars PROVE IInv'
<1>1. TypeOK'
  BY TypeStep, Zenon DEF IInv
<1> DEFINE Rest == StatusStored /\ Reported /\ (~undefined => Shared)
<1>2. CASE UNCHANGED vars
  <2> USE <1>2 DEF vars, IInv
  <2>1. \A q, d \in Proc : Refers(q, d)' = Refers(q, d)
    BY Zenon DEF Refers
  <2>2. \A d \in Proc : /\ Loaded(d)' = Loaded(d)
                        /\ Starting(d)' = Starting(d)
                        /\ Live(d)' = Live(d)
    BY ZenonT(30) DEF Loaded, Starting, Live
  <2>3. StatusStored' /\ Reported'
    BY SMTT(30) DEF StatusStored, Reported
  <2>4. ASSUME ~undefined' PROVE Shared'
    <3> USE <2>1, <2>2, <2>4 DEF Shared
    <3>1. OneParent' /\ Unlinked' /\ Childless'
      BY Zenon DEF OneParent, Unlinked, Childless
    <3>2. ParentSees'
      BY ZenonT(30) DEF ParentSees
    <3>3. OrphanFrees'
      BY Zenon DEF OrphanFrees
    <3> QED BY <3>1, <3>2, <3>3, Zenon
  <2> QED BY <1>1, <2>3, <2>4, Zenon
<1>3. ASSUME ~undefined, NEW p \in Proc, Choice(p) PROVE Rest'
  <2>1. ASSUME NEW c \in Proc, process_execute(p, c) PROVE Rest'
    BY <1>3, <2>1, ExecuteStep, Zenon
  <2>2. ASSUME NEW c \in Proc, process_wait(p, c) PROVE Rest'
    BY <1>3, <2>2, WaitStep, NoWaitStep, Zenon
  <2>3. CASE ExecuteFails(p)
    BY <1>3, <2>3, ExecuteFailsStep, Zenon
  <2>4. ASSUME NEW s \in ExitStatus, sys_exit(p, s) PROVE Rest'
    BY <1>3, <2>4, ExitStep, RootExitStep, Zenon
  <2> QED BY <1>3, <2>1, <2>2, <2>3, <2>4, Zenon DEF Choice
<1>4. ASSUME ~undefined, NEW p \in Proc, Continue(p) PROVE Rest'
  <2>1. ASSUME NEW success \in BOOLEAN, start_process(p, success) PROVE Rest'
    BY <1>4, <2>1, StartStep, Zenon
  <2>2. CASE LoadDown(p)
    BY <1>4, <2>2, LoadedStep, NotLoadedStep, Zenon
  <2>3. CASE WaitDown(p)
    BY <1>4, <2>3, WaitDownStep, Zenon
  <2>4. CASE ExitUp(p)
    BY <1>4, <2>4, ExitUpStep, Zenon
  <2>5. CASE ExitCheck(p)
    BY <1>4, <2>5, OrphanExitStep, ChildExitStep, Zenon
  <2>6. ASSUME NEW c \in Proc, ReapOrphan(p, c) PROVE Rest'
    BY <1>4, <2>6, ReapOrphanStep, Zenon
  <2>7. CASE ReapCheck(p)
    BY <1>4, <2>7, ReapExitedStep, ReapRunningStep, Zenon
  <2>8. CASE ReapDone(p)
    BY <1>4, <2>8, ReapDoneStep, Zenon
  <2> QED BY <1>4, <2>1, <2>2, <2>3, <2>4, <2>5, <2>6, <2>7, <2>8, Zenon DEF Continue
<1>5. CASE Stopped
  BY <1>2, <1>5, Zenon DEF Stopped
<1>6. CASE ~undefined /\ \E p \in Proc : Choice(p) \/ Continue(p)
  <2>1. Rest'
    BY <1>3, <1>4, <1>6, Zenon
  <2> QED BY <1>1, <2>1, Zenon DEF IInv
<1> QED BY <1>2, <1>5, <1>6, Zenon DEF Next

\* The invariant holds in every state.
LEMMA Invariance == Spec => []IInv
<1> QED BY InitIInv, NextIInv, PTL DEF Spec

\* Whoever of parent and child looks last at the record they share frees it: up
\* to a use of a freed record, what a list of children links is allocated, and
\* somebody is left who will free it.
THEOREM RecordsAreAccounted == Spec => []RecordsAccounted
<1>1. IInv => RecordsAccounted
  <2> SUFFICES ASSUME IInv PROVE ChildrenLive /\ NoRecordLeak
    BY Zenon DEF IInv, RecordsAccounted
  <2>1. ChildrenLive
    BY Zenon DEF IInv, TypeOK, Shared, ParentSees, Refers, ChildrenLive
  <2>2. NoRecordLeak
    BY Zenon DEF IInv, Shared, OrphanFrees, Childless, Refers, InCall, Working, NoRecordLeak
  <2> QED BY <2>1, <2>2, Zenon
<1> QED BY <1>1, Invariance, PTL

\* exec and wait report what became of the child: the status wait returns is the
\* one the child passed to sys_exit, also when processes exit in any order.
THEOREM CallsDoReport == Spec => []CallsReport
<1>1. IInv => CallsReport
  <2> SUFFICES ASSUME IInv PROVE CallsReport
    BY Zenon
  <2>1. WaitReturnsExitStatus
    BY SMTT(30) DEF IInv, Reported, Exiting, WaitReturnsExitStatus
  <2>2. ExecReportsLoad
    BY SMTT(30) DEF IInv, Reported, ExecReportsLoad, ExecFailed
  <2> QED BY <2>1, <2>2, Zenon DEF CallsReport
<1> QED BY <1>1, Invariance, PTL
=============================================================================
