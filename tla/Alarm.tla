-------------------------------- MODULE Alarm --------------------------------
(***************************************************************************)
(* The alarm clock: timer_sleep and timer_interrupt (devices/timer.c),     *)
(* thread_sleep and the idle thread (threads/thread.c), on top of the      *)
(* scheduler of Thread.  The timer interrupt is what ends a time slice     *)
(* here, so it takes the place of Thread's Preempt.                        *)
(*                                                                         *)
(* ticks counts up to MaxTicks and stays there.  No thread asks to be      *)
(* woken later than MaxTicks, so every later tick acts like it.            *)
(***************************************************************************)
EXTENDS Thread

CONSTANTS MaxTicks

ASSUME AlarmAssumption == MaxTicks \in Nat

VARIABLES ticks,
          sleeping_list,
          wakeup_tick,        \* t->wakeup_tick (before thread_sleep: its argument)
          next_wakeup_tick

alarmVars == <<ticks, sleeping_list, wakeup_tick, next_wakeup_tick>>
vars == <<threadVars, alarmVars>>

\* INT64_MAX, which ticks never reaches.
Never == MaxTicks + 1

list_sleep_less_func == {p \in Thread \X Thread : wakeup_tick[p[1]] < wakeup_tick[p[2]]}

\* timer_sleep: the wake-up time is computed with interrupts on.
timer_sleep(t, n) ==
  /\ Call(t)
  /\ n > 0 /\ ticks + n <= MaxTicks
  /\ wakeup_tick' = [wakeup_tick EXCEPT ![t] = ticks + n]
  /\ Goto(t, "sleep")
  /\ Unscheduled /\ UNCHANGED priorityVars
  /\ UNCHANGED <<ticks, sleeping_list, next_wakeup_tick>>

\* Mutant of thread_sleep: next_wakeup_tick is set only when nobody sleeps.
thread_sleep_first(t) ==
  /\ Running(t, "sleep")
  /\ sleeping_list' = list_insert_ordered(sleeping_list, t, list_sleep_less_func)
  /\ next_wakeup_tick' = IF sleeping_list = <<>> THEN wakeup_tick[t] ELSE next_wakeup_tick
  /\ thread_block(t)
  /\ Goto(t, "run")
  /\ UNCHANGED <<priorityVars, budget, ticks, wakeup_tick>>

\* thread_sleep, interrupts off: it returns to "run" when the thread runs again.
thread_sleep(t) ==
  /\ Running(t, "sleep")
  /\ sleeping_list' = list_insert_ordered(sleeping_list, t, list_sleep_less_func)
  /\ next_wakeup_tick' = IF wakeup_tick[t] < next_wakeup_tick
                         THEN wakeup_tick[t] ELSE next_wakeup_tick
  /\ thread_block(t)
  /\ Goto(t, "run")
  /\ UNCHANGED <<priorityVars, budget, ticks, wakeup_tick>>

\* Mutant of DueCount: sleepers are woken one tick ahead.
DueCount_early(now) ==
  CHOOSE k \in 0..Len(sleeping_list) :
    /\ \A i \in 1..k : now + 1 >= wakeup_tick[sleeping_list[i]]
    /\ k < Len(sleeping_list) => now + 1 < wakeup_tick[sleeping_list[k + 1]]

\* The loop of timer_interrupt at tick now stops at the first sleeper that is
\* not due; DueCount sleepers are woken.
DueCount(now) ==
  CHOOSE k \in 0..Len(sleeping_list) :
    /\ \A i \in 1..k : now >= wakeup_tick[sleeping_list[i]]
    /\ k < Len(sleeping_list) => now < wakeup_tick[sleeping_list[k + 1]]

\* The ready list after thread_unblock of the first k sleepers, in this order.
Unblocked(k) ==
  LET rl[i \in 0..k] ==
        IF i = 0 THEN ready_list
        ELSE list_insert_ordered(rl[i - 1], sleeping_list[i], ByPriority(priority))
  IN rl[k]

\* Mutant of YieldOnReturn: the running thread stays ahead of the others of its
\* priority.
YieldOnReturn_first(rl, st) ==
  IF cur = Idle
  THEN schedule(rl, st)
  ELSE schedule(list_insert_ordered(rl, cur, {p \in Thread \X Thread : priority[p[1]] >= priority[p[2]]}),
                [st EXCEPT ![cur] = "READY"])

\* The end of an interrupt on which the running thread yields, or the idle
\* thread goes round its loop: schedule, with rl ready and st the statuses.
YieldOnReturn(rl, st) ==
  IF cur = Idle
  THEN schedule(rl, st)
  ELSE schedule(list_insert_ordered(rl, cur, ByPriority(priority)),
                [st EXCEPT ![cur] = "READY"])

\* Mutant of Preempted: only the time slice counts.
Preempted_slice(expired, k, rl) == cur = Idle \/ expired

\* The running thread gives up the CPU at the end of the interrupt that makes
\* k sleepers ready: its time slice is over (expired), or a thread_unblock of
\* the handler finds a higher priority at the front of the ready list.
Preempted(expired, k, rl) ==
  \/ cur = Idle
  \/ expired
  \/ k > 0 /\ priority[Head(rl)] > priority[cur]

\* Mutant of Now: idle ticks are counted apart and not here.
Now_idle == IF ticks < MaxTicks /\ cur # Idle THEN ticks + 1 ELSE ticks

\* ticks++.
Now == IF ticks < MaxTicks THEN ticks + 1 ELSE ticks

\* timer_interrupt: thread_tick, then the sleepers that are due, then the next
\* wake-up time, then the yield on return.
timer_interrupt(expired) ==
  LET now == Now
      k == IF now >= next_wakeup_tick THEN DueCount(now) ELSE 0
      woken == {sleeping_list[i] : i \in 1..k}
      rest == SubSeq(sleeping_list, k + 1, Len(sleeping_list))
      rl == Unblocked(k)
      st == [t \in Thread |-> IF t \in woken THEN "READY" ELSE status[t]]
  IN /\ ticks' = now
     /\ sleeping_list' = rest
     /\ next_wakeup_tick' = IF now < next_wakeup_tick THEN next_wakeup_tick
                            ELSE IF rest = <<>> THEN Never ELSE wakeup_tick[Head(rest)]
     /\ IF Preempted(expired, k, rl)
        THEN YieldOnReturn(rl, st)
        ELSE cur' = cur /\ ready_list' = rl /\ status' = st
     /\ UNCHANGED <<priorityVars, pc, budget, wakeup_tick>>

-----------------------------------------------------------------------------
Init ==
  /\ ThreadInit
  /\ ticks = 0
  /\ sleeping_list = <<>>
  /\ wakeup_tick = [t \in Thread |-> 0]
  /\ next_wakeup_tick = Never

Sleep(t) == (\E n \in 1..MaxTicks : timer_sleep(t, n)) \/ thread_sleep(t)

Tick == \E expired \in BOOLEAN : timer_interrupt(expired)

Next ==
  \/ \E t \in Thread : (ThreadStep(t) /\ UNCHANGED alarmVars) \/ Sleep(t)
  \/ Tick

Spec == Init /\ [][Next]_vars

\* The timer keeps interrupting, and whoever keeps running, the idle thread too,
\* comes to the end of its time slice: no kernel code keeps interrupts off for
\* good.
FairSpec == Spec /\ WF_vars(timer_interrupt(TRUE))

-----------------------------------------------------------------------------
\* Every variable has its type.
TypeOK ==
  /\ ThreadVarsOK
  /\ pc \in [Thread -> ThreadPC \cup {"sleep"}]
  /\ ticks \in 0..MaxTicks
  /\ sleeping_list \in Seq(Thread)
  /\ wakeup_tick \in [Thread -> 0..MaxTicks]
  /\ next_wakeup_tick \in 0..Never

\* The sleeping list holds exactly the BLOCKED threads, each once, and never a
\* thread that is also in the ready list.
SleepersExact ==
  /\ ReadyListExact
  /\ NoDup(sleeping_list)
  /\ \A t \in Thread : (t \in Elems(sleeping_list)) <=> (status[t] = "BLOCKED")

\* next_wakeup_tick is the earliest wake-up time of the sleepers: the handler's
\* early exit never skips a thread that is due.
NextWakeupEarliest ==
  /\ \A t \in Elems(sleeping_list) : next_wakeup_tick <= wakeup_tick[t]
  /\ IF sleeping_list = <<>> THEN next_wakeup_tick = Never
     ELSE \E t \in Elems(sleeping_list) : next_wakeup_tick = wakeup_tick[t]

\* After a tick no thread that is due is still asleep, even one that was put to
\* sleep after its wake-up time had passed.
NobodyOversleeps ==
  [][ticks' # ticks => \A t \in Elems(sleeping_list') : wakeup_tick'[t] > ticks']_vars

\* A thread leaves the sleeping list no earlier than it asked for.
NeverEarly ==
  [][\A t \in Elems(sleeping_list) \ Elems(sleeping_list') : ticks' >= wakeup_tick[t]]_vars

\* The idle thread runs only when nothing is ready: a tick that wakes a thread,
\* of whatever priority, also ends the idle thread's turn.
IdleOnlyWhenNothingReady == cur = Idle => ready_list = <<>>

\* No thread sleeps for ever.
SleepersWake == \A t \in Thread : []<>(status[t] # "BLOCKED")

-----------------------------------------------------------------------------
(* The properties in the groups in which they are checked.                 *)

\* Through timer_sleep, thread_sleep and timer_interrupt each thread is in the
\* list its status calls for, once, and the cached tick is the earliest sleeper's:
\* the handler's early exit skips nobody.
AlarmConsistent == TypeOK /\ SleepersExact /\ NextWakeupEarliest

\* Whoever runs outside the scheduler's own calls is of the highest priority
\* there is, through sleeping, waking in the handler, changes of priority and
\* exits; the idle thread runs only when nobody can.
HighestRuns == ReadyListSorted /\ HighestPriorityRuns /\ IdleOnlyWhenNothingReady

\* The first tick at which a sleeper is due wakes it, and none before, even when
\* it was put to sleep after its wake-up time had passed.
WokenOnTime == NobodyOversleeps /\ NeverEarly
=============================================================================
