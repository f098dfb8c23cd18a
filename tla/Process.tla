------------------------------- MODULE Process -------------------------------
(***************************************************************************)
(* Parent and child processes: process_execute, start_process,             *)
(* process_wait and process_exit (userprog/process.c) and sys_exit         *)
(* (userprog/syscall.c), which share one malloced struct child_process per *)
(* child.  Every process is a kernel thread that may be preempted between  *)
(* any two steps; a semaphore operation is one step.                       *)
(*                                                                         *)
(* rec[c] is the record of child c.  Using it after it was freed makes the *)
(* behaviour undefined, and the model says nothing more.                   *)
(***************************************************************************)
EXTENDS Integers

CONSTANTS Proc,         \* the processes that may ever exist
          Root,         \* the kernel's main thread, child of nobody
          NoProc,       \* the null parent_thread
          ExitStatus    \* arguments of sys_exit

ASSUME ProcessAssumption ==
  /\ Root \in Proc
  /\ NoProc \notin Proc
  /\ ExitStatus \subseteq Int

VARIABLES pc,
          children,     \* cur->children
          my_record,    \* cur->my_record # NULL
          target,       \* the child the call in progress is about
          rec,
          status,       \* the argument of sys_exit (history)
          result,       \* what the last call returned, until the next one (history)
          undefined

vars == <<pc, children, my_record, target, rec, status, result, undefined>>

TID_ERROR == -1

\* No call has returned; process_wait found no such child; exec failed.
Nothing == [call |-> "none"]
NotAChild == [call |-> "wait", child |-> NoProc, value |-> -1]
ExecFailed(c) == [call |-> "exec", child |-> c, value |-> TID_ERROR]

NoRecord == [mem |-> "none", load_sema |-> 0, load_status |-> FALSE, wait_sema |-> 0,
             exit_status |-> -1, exited |-> FALSE, parent_thread |-> NoProc]

Live(c) == rec[c].mem = "live"
Goto(p, l) == pc' = [pc EXCEPT ![p] = l]
free(c) == rec' = [rec EXCEPT ![c].mem = "freed"]

-----------------------------------------------------------------------------
\* process_execute up to sema_down (&child->load_sema): the record, and the
\* child's thread.
process_execute(p, c) ==
  /\ pc[p] = "run"
  /\ pc[c] = "none"
  /\ rec' = [rec EXCEPT ![c] = [NoRecord EXCEPT !.mem = "live", !.parent_thread = p]]
  /\ pc' = [pc EXCEPT ![p] = "load_down", ![c] = "load"]
  /\ target' = [target EXCEPT ![p] = c]
  /\ result' = [result EXCEPT ![p] = Nothing]
  /\ UNCHANGED <<children, my_record, status, undefined>>

\* process_execute without the memory for the record, the page or the thread:
\* what was allocated is released again.
ExecuteFails(p) ==
  /\ pc[p] = "run"
  /\ result' = [result EXCEPT ![p] = ExecFailed(NoProc)]
  /\ UNCHANGED <<pc, children, my_record, target, rec, status, undefined>>

\* start_process: load, the outcome in the record, sema_up (&load_sema).
start_process(c, success) ==
  /\ pc[c] = "load"
  /\ my_record' = [my_record EXCEPT ![c] = success]
  /\ rec' = [rec EXCEPT ![c].load_status = success, ![c].load_sema = @ + 1]
  /\ Goto(c, IF success THEN "run" ELSE "reap")
  /\ undefined' = ~Live(c)
  /\ UNCHANGED <<children, target, status, result>>

\* process_execute from sema_down (&child->load_sema) on.
LoadDown(p) ==
  LET c == target[p]
  IN /\ pc[p] = "load_down"
     /\ rec[c].load_sema > 0
     /\ IF rec[c].load_status
        THEN /\ children' = [children EXCEPT ![p] = @ \cup {c}]
             /\ rec' = [rec EXCEPT ![c].load_sema = @ - 1]
             /\ result' = [result EXCEPT ![p] = [call |-> "exec", child |-> c, value |-> 0]]
        ELSE /\ free(c)
             /\ result' = [result EXCEPT ![p] = ExecFailed(c)]
             /\ UNCHANGED children
     /\ target' = [target EXCEPT ![p] = NoProc]
     /\ Goto(p, "run")
     /\ UNCHANGED <<my_record, status, undefined>>

\* process_wait up to sema_down: a child is found and unlinked, or is not found.
process_wait(p, c) ==
  /\ pc[p] = "run"
  /\ IF c \in children[p]
     THEN /\ children' = [children EXCEPT ![p] = @ \ {c}]
          /\ target' = [target EXCEPT ![p] = c]
          /\ Goto(p, "wait_down")
          /\ result' = [result EXCEPT ![p] = Nothing]
     ELSE /\ result' = [result EXCEPT ![p] = NotAChild]
          /\ UNCHANGED <<pc, children, target>>
  /\ UNCHANGED <<my_record, rec, status, undefined>>

\* Mutant of WaitDown: no sema_down.
WaitDown_nowait(p) ==
  /\ pc[p] = "wait_down"
  /\ result' = [result EXCEPT ![p] =
       [call |-> "wait", child |-> target[p], value |-> rec[target[p]].exit_status]]
  /\ free(target[p])
  /\ target' = [target EXCEPT ![p] = NoProc]
  /\ Goto(p, "run")
  /\ UNCHANGED <<children, my_record, status, undefined>>

\* process_wait from sema_down (&child->wait_sema) on.
WaitDown(p) ==
  LET c == target[p]
  IN /\ pc[p] = "wait_down"
     /\ rec[c].wait_sema > 0
     /\ result' = [result EXCEPT ![p] =
                     [call |-> "wait", child |-> c, value |-> rec[c].exit_status]]
     /\ free(c)
     /\ target' = [target EXCEPT ![p] = NoProc]
     /\ Goto(p, "run")
     /\ undefined' = ~Live(c)
     /\ UNCHANGED <<children, my_record, status>>

-----------------------------------------------------------------------------
\* sys_exit: exit_status and exited are stored (only exited is read by the
\* parent before wait_sema is upped).
sys_exit(p, s) ==
  /\ pc[p] = "run"
  /\ status' = [status EXCEPT ![p] = s]
  /\ IF my_record[p]
     THEN /\ rec' = [rec EXCEPT ![p].exit_status = s, ![p].exited = TRUE]
          /\ undefined' = ~Live(p)
          /\ Goto(p, "exit_up")
     ELSE /\ Goto(p, "reap")
          /\ UNCHANGED <<rec, undefined>>
  /\ result' = [result EXCEPT ![p] = Nothing]
  /\ UNCHANGED <<children, my_record, target>>

\* Mutant of ExitUp: the child polls until its parent is not waiting.
ExitUp_poll(p) ==
  /\ pc[p] = "exit_up"
  /\ IF \E q \in Proc : pc[q] = "wait_down" /\ target[q] = p THEN UNCHANGED vars
     ELSE /\ rec' = [rec EXCEPT ![p].wait_sema = @ + 1]
          /\ undefined' = ~Live(p)
          /\ Goto(p, "exit_check")
          /\ UNCHANGED <<children, my_record, target, status, result>>

\* sys_exit: sema_up (&child_rec->wait_sema).
ExitUp(p) ==
  /\ pc[p] = "exit_up"
  /\ rec' = [rec EXCEPT ![p].wait_sema = @ + 1]
  /\ undefined' = ~Live(p)
  /\ Goto(p, "exit_check")
  /\ UNCHANGED <<children, my_record, target, status, result>>

\* Mutant of ExitCheck: an orphan keeps its record.
ExitCheck_keep(p) ==
  /\ pc[p] = "exit_check"
  /\ undefined' = ~Live(p)
  /\ my_record' = [my_record EXCEPT ![p] = FALSE]
  /\ Goto(p, "reap")
  /\ UNCHANGED <<children, target, rec, status, result>>

\* sys_exit: an orphan frees its record.
ExitCheck(p) ==
  /\ pc[p] = "exit_check"
  /\ undefined' = ~Live(p)
  /\ IF rec[p].parent_thread = NoProc THEN free(p) ELSE UNCHANGED rec
  /\ my_record' = [my_record EXCEPT ![p] = FALSE]
  /\ Goto(p, "reap")
  /\ UNCHANGED <<children, target, status, result>>

\* process_exit, one child: it becomes an orphan ...
ReapOrphan(p, c) ==
  /\ pc[p] = "reap"
  /\ c \in children[p]
  /\ rec' = [rec EXCEPT ![c].parent_thread = NoProc]
  /\ undefined' = ~Live(c)
  /\ target' = [target EXCEPT ![p] = c]
  /\ Goto(p, "reap_check")
  /\ UNCHANGED <<children, my_record, status, result>>

\* ... is unlinked, and its record is freed if it has exited.
ReapCheck(p) ==
  LET c == target[p]
  IN /\ pc[p] = "reap_check"
     /\ undefined' = ~Live(c)
     /\ children' = [children EXCEPT ![p] = @ \ {c}]
     /\ IF rec[c].exited THEN free(c) ELSE UNCHANGED rec
     /\ target' = [target EXCEPT ![p] = NoProc]
     /\ Goto(p, "reap")
     /\ UNCHANGED <<my_record, status, result>>

\* process_exit is through with the children; the thread is gone.
ReapDone(p) ==
  /\ pc[p] = "reap"
  /\ children[p] = {}
  /\ Goto(p, "dead")
  /\ UNCHANGED <<children, my_record, target, rec, status, result, undefined>>

-----------------------------------------------------------------------------
Init ==
  /\ pc = [p \in Proc |-> IF p = Root THEN "run" ELSE "none"]
  /\ children = [p \in Proc |-> {}]
  /\ my_record = [p \in Proc |-> FALSE]
  /\ target = [p \in Proc |-> NoProc]
  /\ rec = [p \in Proc |-> NoRecord]
  /\ status = [p \in Proc |-> -1]
  /\ result = [p \in Proc |-> Nothing]
  /\ undefined = FALSE

\* What a process decides to do.
Choice(p) ==
  \/ \E c \in Proc : process_execute(p, c) \/ process_wait(p, c)
  \/ ExecuteFails(p)
  \/ \E s \in ExitStatus : sys_exit(p, s)

\* What it goes on doing inside the kernel.
Continue(p) ==
  \/ \E success \in BOOLEAN : start_process(p, success)
  \/ LoadDown(p)
  \/ WaitDown(p)
  \/ ExitUp(p)
  \/ ExitCheck(p)
  \/ \E c \in Proc : ReapOrphan(p, c)
  \/ ReapCheck(p)
  \/ ReapDone(p)

\* Every process has exited, or C's behaviour is undefined.
Stopped ==
  /\ undefined \/ \A p \in Proc : pc[p] \in {"none", "dead"}
  /\ UNCHANGED vars

Next == (~undefined /\ \E p \in Proc : Choice(p) \/ Continue(p)) \/ Stopped

Spec == Init /\ [][Next]_vars

\* Every kernel call goes on as long as nothing blocks it; what processes do
\* between two calls is their own affair.
FairSpec == Spec /\ \A p \in Proc : WF_vars(~undefined /\ Continue(p))

-----------------------------------------------------------------------------
PC == {"none", "load", "run", "load_down", "wait_down", "exit_up", "exit_check",
       "reap", "reap_check", "dead"}

Record == [mem : {"none", "live", "freed"}, load_sema : Nat, load_status : BOOLEAN,
           wait_sema : Nat, exit_status : ExitStatus \cup {-1}, exited : BOOLEAN,
           parent_thread : Proc \cup {NoProc}]

\* Every variable has its type; a process inside a call about a child names it.
TypeOK ==
  /\ pc \in [Proc -> PC]
  /\ children \in [Proc -> SUBSET Proc]
  /\ my_record \in [Proc -> BOOLEAN]
  /\ target \in [Proc -> Proc \cup {NoProc}]
  /\ rec \in [Proc -> Record]
  /\ status \in [Proc -> ExitStatus \cup {-1}]
  /\ undefined \in BOOLEAN
  /\ \A p \in Proc :
       pc[p] \in {"load_down", "wait_down", "reap_check"} => target[p] \in Proc

\* process_wait of a child returns the status the child passed to sys_exit, and
\* returns it after the child has passed it.
WaitReturnsExitStatus ==
  \A p, c \in Proc, v \in ExitStatus \cup {-1} :
    result[p] = [call |-> "wait", child |-> c, value |-> v] =>
      /\ pc[c] \in {"exit_check", "reap", "reap_check", "dead"}
      /\ v = status[c]

\* exec returns a child only after its executable was loaded, and an error only
\* when it was not, and then nothing is left of the child's record.
ExecReportsLoad ==
  \A p, c \in Proc :
    /\ result[p] = [call |-> "exec", child |-> c, value |-> 0] =>
         pc[c] # "load" /\ rec[c].load_status
    /\ result[p] = ExecFailed(c) =>
         pc[c] \in {"reap", "dead"} /\ rec[c].mem = "freed"

\* The records linked in a process's list of children exist, except for the one
\* process_exit is just looking at.
ChildrenLive ==
  \A p \in Proc : \A c \in children[p] :
    Live(c) \/ undefined \/ (pc[p] = "reap_check" /\ target[p] = c)

\* Every record has somebody left who will free it: the child, if it has not
\* yet looked whether it is an orphan, or a process that still has the child in
\* its list or in hand.  When all have exited no record is left.
NoRecordLeak ==
  ~undefined =>
    \A c \in Proc :
      Live(c) => \/ pc[c] \notin {"reap", "reap_check", "dead"}
                 \/ \E p \in Proc : pc[p] # "dead" /\ (c \in children[p] \/ target[p] = c)

\* A wait for a child that exits is over some time.
WaitReturns ==
  \A p, c \in Proc :
    (pc[p] = "wait_down" /\ target[p] = c /\ pc[c] = "exit_up")
      ~> (pc[p] # "wait_down" \/ undefined)

\* "sys_exit checks if there are any orphans and tells any orphan to free
\* itself": nobody uses a child's record after it was freed, or frees it twice.
RecordUsedOnlyWhileLive == ~undefined

\* wait and exec report what became of the child, and not before it did: the
\* status the child passed to sys_exit, whether its executable was loaded.
CallsReport == WaitReturnsExitStatus /\ ExecReportsLoad

\* A child's record exists as long as a list of children or the child refers to
\* it, and no longer: whoever of parent and child looks last frees it.
RecordsAccounted == TypeOK /\ ChildrenLive /\ NoRecordLeak
=============================================================================
