------------------------------- MODULE Thread --------------------------------
(***************************************************************************)
(* The priority scheduler of threads/thread.c (thread_mlfqs off): the      *)
(* running thread, the ready list, thread creation and exit, yielding, and *)
(* thread_set_priority.  One CPU: only the running thread takes a step,    *)
(* and between two steps it may lose the CPU to the timer (Preempt).  Code *)
(* that runs with interrupts off is one step.                              *)
(*                                                                         *)
(* pc[t] is where thread t stands inside a kernel function: "run" is       *)
(* outside of any, the other values are named after the code that comes    *)
(* next.  budget[t] bounds the calls t still makes (not its threads: those  *)
(* it may create are bounded by Thread).                                   *)
(***************************************************************************)
EXTENDS KList

CONSTANTS Thread,       \* the threads that may ever exist
          Main,         \* initial_thread
          Idle,         \* idle_thread, never in the ready list
          PRI_DEFAULT, PRI_MAX,
          OpBound       \* bound on the kernel calls of each thread

ASSUME ThreadAssumption ==
  /\ Main \in Thread
  /\ Idle \notin Thread
  /\ PRI_MAX \in Nat
  /\ PRI_DEFAULT \in 0..PRI_MAX
  /\ OpBound \in [Thread -> Nat]

VARIABLES cur,            \* thread_current ()
          status,         \* "NONE" before thread_create, then enum thread_status
          ready_list,
          priority, base_priority,
          donors,         \* the threads linked in t->donors
          highest_prio,   \* local of update_priority: the front donor (t: none)
          pc, budget

priorityVars == <<priority, base_priority, donors, highest_prio>>
threadVars == <<cur, status, ready_list, priorityVars, pc, budget>>

Pri == 0..PRI_MAX
Status == {"NONE", "RUNNING", "READY", "BLOCKED", "DYING"}

-----------------------------------------------------------------------------
\* thread_priority_comparison on the elem members: higher priority first.
ByPriority(pri) == {p \in Thread \X Thread : pri[p[1]] > pri[p[2]]}

\* next_thread_to_run, schedule and thread_schedule_tail: the front of the
\* ready list rl runs next, the idle thread if there is none.
schedule(rl, st) ==
  IF rl = <<>>
  THEN /\ cur' = Idle
       /\ ready_list' = rl
       /\ status' = st
  ELSE /\ cur' = Head(rl)
       /\ ready_list' = Tail(rl)
       /\ status' = [st EXCEPT ![Head(rl)] = "RUNNING"]

thread_block(t) == schedule(ready_list, [status EXCEPT ![t] = "BLOCKED"])

\* Not the actual scheduling: the woken thread only becomes ready.
thread_unblock(u, pri) ==
  /\ ready_list' = list_insert_ordered(ready_list, u, ByPriority(pri))
  /\ status' = [status EXCEPT ![u] = "READY"]
  /\ cur' = cur

thread_yield(t) ==
  schedule(list_insert_ordered(ready_list, t, ByPriority(priority)),
           [status EXCEPT ![t] = "READY"])

Unscheduled == UNCHANGED <<cur, status, ready_list>>

\* update_priority, interrupts on: the base priority is stored first; the front
\* donor is compared with; its priority is stored if it is higher.  list_sort
\* compares donor_elem members with a function that expects elem members: it
\* reads the priorities of unrelated memory, so any donor may be at the front.
reset_priority(t) == priority' = [priority EXCEPT ![t] = base_priority'[t]]

compare_priority(t, store, done) ==
  \/ \E d \in donors[t] : /\ priority[d] > priority[t]
                          /\ highest_prio' = [highest_prio EXCEPT ![t] = d]
                          /\ pc' = [pc EXCEPT ![t] = store]
  \/ /\ donors[t] = {} \/ \E d \in donors[t] : priority[d] <= priority[t]
     /\ pc' = [pc EXCEPT ![t] = done]
     /\ UNCHANGED highest_prio

inherit_priority(t) ==
  /\ priority' = [priority EXCEPT ![t] = priority[highest_prio[t]]]
  /\ highest_prio' = [highest_prio EXCEPT ![t] = t]

-----------------------------------------------------------------------------
Running(t, l) == cur = t /\ pc[t] = l
Goto(t, l) == pc' = [pc EXCEPT ![t] = l]
Call(t) == /\ Running(t, "run")
           /\ budget[t] > 0
           /\ budget' = [budget EXCEPT ![t] = @ - 1]

\* A thread at the front of the ready list that must run instead of t.
MustYield(t) == ready_list # <<>> /\ priority[Head(ready_list)] > priority[t]

\* thread_create: the new thread is made ready; the creator yields when the
\* priority asked for is higher than its own.
thread_create(t, u, p) ==
  /\ Running(t, "run")
  /\ status[u] = "NONE"
  /\ priority' = [priority EXCEPT ![u] = p]
  /\ base_priority' = [base_priority EXCEPT ![u] = p]
  /\ thread_unblock(u, priority')
  /\ Goto(t, IF priority[t] < p THEN "yield" ELSE "run")
  /\ UNCHANGED <<donors, highest_prio, budget>>

\* thread_set_priority, interrupts on: the base and the priority are stored
\* (only the thread itself reads its base), then the front donor's if that is
\* higher, then the front of the ready list is looked at.
thread_set_priority(t, p) ==
  /\ Call(t)
  /\ base_priority' = [base_priority EXCEPT ![t] = p]
  /\ reset_priority(t)
  /\ Goto(t, "set_compare")
  /\ Unscheduled /\ UNCHANGED <<donors, highest_prio>>

SetPriorityCompare(t) ==
  /\ Running(t, "set_compare")
  /\ compare_priority(t, "set_inherit", "set_check")
  /\ Unscheduled /\ UNCHANGED <<priority, base_priority, donors, budget>>

SetPriorityInherit(t) ==
  /\ Running(t, "set_inherit")
  /\ inherit_priority(t)
  /\ Goto(t, "set_check")
  /\ Unscheduled /\ UNCHANGED <<base_priority, donors, budget>>

SetPriorityCheck(t) ==
  /\ Running(t, "set_check")
  /\ Goto(t, IF MustYield(t) THEN "yield" ELSE "run")
  /\ Unscheduled /\ UNCHANGED <<priorityVars, budget>>

\* The call of thread_yield that thread_create, thread_set_priority and
\* sema_up make at their end.
YieldAtEnd(t) ==
  /\ Running(t, "yield")
  /\ thread_yield(t)
  /\ Goto(t, "run")
  /\ UNCHANGED <<priorityVars, budget>>

\* thread_exit.
thread_exit(t) ==
  /\ Running(t, "run")
  /\ schedule(ready_list, [status EXCEPT ![t] = "DYING"])
  /\ UNCHANGED <<priorityVars, pc, budget>>

\* A timer tick ends the time slice: thread_tick asks for a yield on return
\* from the interrupt and intr_handler calls thread_yield.
Preempt(t) ==
  /\ cur = t
  /\ thread_yield(t)
  /\ UNCHANGED <<priorityVars, pc, budget>>

ThreadInit ==
  /\ cur = Main
  /\ status = [t \in Thread |-> IF t = Main THEN "RUNNING" ELSE "NONE"]
  /\ ready_list = <<>>
  /\ priority = [t \in Thread |-> PRI_DEFAULT]
  /\ base_priority = [t \in Thread |-> PRI_DEFAULT]
  /\ donors = [t \in Thread |-> {}]
  /\ highest_prio = [t \in Thread |-> t]
  /\ pc = [t \in Thread |-> "run"]
  /\ budget = OpBound

\* The calls of a thread that nobody has donated to, which is how Alarm has
\* them; Synch has the donors.
UndonatedCall(t) ==
  \/ \E u \in Thread, p \in Pri : thread_create(t, u, p)
  \/ \E p \in Pri : thread_set_priority(t, p)
  \/ SetPriorityCompare(t)
  \/ SetPriorityCheck(t)
  \/ YieldAtEnd(t)

ThreadCall(t) == UndonatedCall(t) \/ SetPriorityInherit(t)

ThreadStep(t) == UndonatedCall(t) \/ thread_exit(t)

-----------------------------------------------------------------------------
ThreadPC == {"run", "yield", "set_compare", "set_inherit", "set_check"}

ThreadVarsOK ==
  /\ cur \in Thread \cup {Idle}
  /\ status \in [Thread -> Status]
  /\ ready_list \in Seq(Thread)
  /\ priority \in [Thread -> Pri]
  /\ base_priority \in [Thread -> Pri]
  /\ donors \in [Thread -> SUBSET Thread]
  /\ highest_prio \in [Thread -> Thread]
  /\ budget \in [Thread -> Nat]

\* The ready list holds exactly the READY threads, each once, and exactly the
\* current thread is RUNNING (the idle thread is in no list): no sequence of
\* unblocking, yielding, preemption and exit links an elem twice or drops one.
ReadyListExact ==
  /\ NoDup(ready_list)
  /\ \A t \in Thread : (t \in Elems(ready_list)) <=> (status[t] = "READY")
  /\ \A t \in Thread : (status[t] = "RUNNING") <=> (cur = t)

\* The ready list is sorted by priority, highest first: a READY thread's
\* priority never changes behind the list's back.
ReadyListSorted == is_sorted(ready_list, ByPriority(priority))

\* While a thread runs outside the scheduler's own calls no READY thread has a
\* higher priority: creation and thread_set_priority yield when they must.
HighestPriorityRuns ==
  cur \in Thread /\ pc[cur] = "run" =>
    \A u \in Thread : status[u] = "READY" => priority[u] <= priority[cur]

\* A thread that stays READY with no runnable thread above it is not kept from
\* the CPU, even if the running threads never give it up: time slices end and
\* a thread goes behind the ready threads of its own priority.
RoundRobin ==
  \A t \in Thread :
    ~ <>[](/\ status[t] = "READY"
           /\ \A u \in Thread : status[u] \in {"READY", "RUNNING"}
                                  => priority[u] <= priority[t])
=============================================================================
