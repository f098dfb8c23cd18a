-------------------------------- MODULE Synch --------------------------------
(***************************************************************************)
(* Locks with priority donation (threads/synch.c) on top of the scheduler  *)
(* of Thread.  lock_acquire and lock_release run with interrupts on except *)
(* inside sema_down and sema_up, so they are several steps with Preempt in *)
(* between; each list operation is one step.                               *)
(*                                                                         *)
(* The clients are arbitrary threads that keep to the interface: a thread  *)
(* acquires a lock it does not hold, in increasing order of locks, only    *)
(* releases what it holds and exits holding nothing.                       *)
(***************************************************************************)
EXTENDS Thread

CONSTANTS Lock,           \* the locks, numbered in the order they are taken
          NoThread,       \* the null holder
          NoLock,         \* the null waiting_on
          DonationLimit   \* the depth limit of donate_priority

ASSUME SynchAssumption ==
  /\ Lock \subseteq Nat
  /\ NoThread \notin Thread \cup {Idle}
  /\ NoLock \notin Lock
  /\ DonationLimit \in Nat

VARIABLES holder,        \* lock->holder
          value,         \* lock->semaphore.value
          waiters,       \* lock->semaphore.waiters
          waiting_on,    \* t->waiting_on
          lk,            \* the lock argument of the call t is in
          cur_lock, depth, chained,   \* locals of donate_priority (chained: holder)
          undefined      \* C's behaviour has become undefined

lockVars == <<holder, value, waiters, waiting_on, lk, cur_lock, depth, chained, undefined>>
vars == <<threadVars, lockVars>>

\* The call is over: its argument is forgotten.
Return(t, l) == Goto(t, l) /\ lk' = [lk EXCEPT ![t] = NoLock]

Held(t) == {l \in Lock : holder[l] = t}
\* t->donor_elem is linked into the list of a thread that still exists.
Donating(t) == \E u \in Thread : status[u] # "DYING" /\ t \in donors[u]

-----------------------------------------------------------------------------
\* lock_acquire up to the call of donate_priority or of sema_down: holder is
\* read.  The first conjuncts are the client's obligations.
lock_acquire(t, l) ==
  /\ Call(t)
  /\ \A m \in Held(t) : m < l
  /\ lk' = [lk EXCEPT ![t] = l]
  /\ Goto(t, IF holder[l] = NoThread THEN "down" ELSE "don_start")
  /\ Unscheduled /\ UNCHANGED priorityVars
  /\ UNCHANGED <<holder, value, waiters, waiting_on, cur_lock, depth, chained, undefined>>

\* donate_priority up to its loop.
DonateStart(t) ==
  /\ Running(t, "don_start")
  /\ waiting_on' = [waiting_on EXCEPT ![t] = lk[t]]
  /\ cur_lock' = [cur_lock EXCEPT ![t] = lk[t]]
  /\ Goto(t, "don_read")
  /\ Unscheduled /\ UNCHANGED <<priorityVars, budget>>
  /\ UNCHANGED <<holder, value, waiters, lk, depth, chained, undefined>>

\* donate_priority, head of the loop: the holder of the lock looked at.
DonateRead(t) ==
  /\ Running(t, "don_read")
  /\ IF depth[t] < DonationLimit /\ holder[cur_lock[t]] # NoThread
     THEN /\ chained' = [chained EXCEPT ![t] = holder[cur_lock[t]]]
          /\ Goto(t, "don_compare")
     ELSE /\ Goto(t, "don_insert")
          /\ UNCHANGED chained
  /\ Unscheduled /\ UNCHANGED <<priorityVars, budget>>
  /\ UNCHANGED <<holder, value, waiters, waiting_on, lk, cur_lock, depth, undefined>>

\* donate_priority, the comparison.  A holder that exited since it was read is
\* freed memory, here and in the next two steps.
DonateCompare(t) ==
  /\ Running(t, "don_compare")
  /\ Goto(t, IF priority[t] > priority[chained[t]] THEN "don_store" ELSE "don_insert")
  /\ undefined' = (status[chained[t]] = "DYING")
  /\ Unscheduled /\ UNCHANGED <<priorityVars, budget>>
  /\ UNCHANGED <<holder, value, waiters, waiting_on, lk, cur_lock, depth, chained>>

\* donate_priority, the donation: neither the ready list nor a waiters list is
\* put in order again.
DonateStore(t) ==
  /\ Running(t, "don_store")
  /\ priority' = [priority EXCEPT ![chained[t]] = priority[t]]
  /\ Goto(t, "don_chain")
  /\ undefined' = (status[chained[t]] = "DYING")
  /\ Unscheduled /\ UNCHANGED <<base_priority, donors, highest_prio, budget>>
  /\ UNCHANGED <<holder, value, waiters, waiting_on, lk, cur_lock, depth, chained>>

\* Mutant of DonateChain: followed without looking whether the holder waits.
DonateChain_unchecked(t) ==
  /\ Running(t, "don_chain")
  /\ cur_lock' = [cur_lock EXCEPT ![t] = waiting_on[chained[t]]]
  /\ Goto(t, "don_read")
  /\ Unscheduled /\ UNCHANGED <<priorityVars, budget>>
  /\ UNCHANGED <<holder, value, waiters, waiting_on, lk, depth, chained, undefined>>

\* donate_priority, end of an iteration: on to the lock the holder waits for.
DonateChain(t) ==
  LET next == waiting_on[chained[t]]
  IN /\ Running(t, "don_chain")
     /\ IF next # NoLock
        THEN /\ cur_lock' = [cur_lock EXCEPT ![t] = next]
             /\ depth' = [depth EXCEPT ![t] = @ + 1]
             /\ Goto(t, "don_read")
        ELSE /\ Goto(t, "don_insert")
             /\ UNCHANGED <<cur_lock, depth>>
     /\ undefined' = (status[chained[t]] = "DYING")
     /\ Unscheduled /\ UNCHANGED <<priorityVars, budget>>
     /\ UNCHANGED <<holder, value, waiters, waiting_on, lk, chained>>

\* donate_priority after the loop: is there (still) a holder?
DonateInsert(t) ==
  /\ Running(t, "don_insert")
  /\ Goto(t, IF holder[lk[t]] = NoThread THEN "down" ELSE "don_link")
  /\ cur_lock' = [cur_lock EXCEPT ![t] = NoLock]
  /\ depth' = [depth EXCEPT ![t] = 0]
  /\ chained' = [chained EXCEPT ![t] = NoThread]
  /\ Unscheduled /\ UNCHANGED <<priorityVars, budget>>
  /\ UNCHANGED <<holder, value, waiters, waiting_on, lk, undefined>>

\* donate_priority, last statement: holder is read again and t->donor_elem is
\* linked into its donors.  Undefined when the holder is gone by now, and when
\* donor_elem is in a list already.
DonateLink(t) ==
  LET h == holder[lk[t]]
  IN /\ Running(t, "don_link")
     /\ undefined' = (h = NoThread \/ Donating(t))
     /\ donors' = [u \in Thread |-> IF u = h THEN donors[u] \cup {t} ELSE donors[u]]
     /\ Goto(t, "down")
     /\ Unscheduled /\ UNCHANGED <<priority, base_priority, highest_prio, budget>>
     /\ UNCHANGED <<holder, value, waiters, waiting_on, lk, cur_lock, depth, chained>>

\* Mutant of SemaDown: "if" for "while", the woken thread does not look again.
SemaDown_if(t) ==
  /\ Running(t, "down")
  /\ Goto(t, "own")
  /\ IF value[lk[t]] = 0
     THEN /\ waiters' = [waiters EXCEPT ![lk[t]] =
                           list_insert_ordered(@, t, ByPriority(priority))]
          /\ thread_block(t)
          /\ UNCHANGED value
     ELSE /\ value' = [value EXCEPT ![lk[t]] = @ - 1]
          /\ Unscheduled /\ UNCHANGED waiters
  /\ UNCHANGED <<priorityVars, budget>>
  /\ UNCHANGED <<holder, waiting_on, lk, cur_lock, depth, chained, undefined>>

\* sema_down, one pass of its loop (interrupts off): wait or take.
SemaDown(t) ==
  LET l == lk[t]
  IN /\ Running(t, "down")
     /\ IF value[l] = 0
        THEN /\ waiters' = [waiters EXCEPT ![l] =
                              list_insert_ordered(@, t, ByPriority(priority))]
             /\ thread_block(t)
             /\ UNCHANGED <<value, pc>>
        ELSE /\ value' = [value EXCEPT ![l] = @ - 1]
             /\ Goto(t, "own")
             /\ Unscheduled /\ UNCHANGED waiters
     /\ UNCHANGED <<priorityVars, budget>>
     /\ UNCHANGED <<holder, waiting_on, lk, cur_lock, depth, chained, undefined>>

\* lock_acquire after sema_down: lock->holder = thread_current ().
AcquireOwn(t) ==
  /\ Running(t, "own")
  /\ holder' = [holder EXCEPT ![lk[t]] = t]
  /\ Goto(t, "clear")
  /\ Unscheduled /\ UNCHANGED <<priorityVars, budget>>
  /\ UNCHANGED <<value, waiters, waiting_on, lk, cur_lock, depth, chained, undefined>>

\* Mutant of AcquireClear: waiting_on is left set.
AcquireClear_not(t) ==
  /\ Running(t, "clear")
  /\ Return(t, "run")
  /\ Unscheduled /\ UNCHANGED <<priorityVars, budget>>
  /\ UNCHANGED <<holder, value, waiters, waiting_on, cur_lock, depth, chained, undefined>>

\* lock_acquire, last statement: waiting_on = NULL.
AcquireClear(t) ==
  /\ Running(t, "clear")
  /\ waiting_on' = [waiting_on EXCEPT ![t] = NoLock]
  /\ Return(t, "run")
  /\ Unscheduled /\ UNCHANGED <<priorityVars, budget>>
  /\ UNCHANGED <<holder, value, waiters, cur_lock, depth, chained, undefined>>

\* lock_try_acquire: sema_try_down, and the holder if it succeeded.
lock_try_acquire(t, l) ==
  /\ Call(t)
  /\ \A m \in Held(t) : m < l
  /\ IF value[l] > 0
     THEN /\ value' = [value EXCEPT ![l] = @ - 1]
          /\ lk' = [lk EXCEPT ![t] = l]
          /\ Goto(t, "try_own")
     ELSE UNCHANGED <<value, lk, pc>>
  /\ Unscheduled /\ UNCHANGED priorityVars
  /\ UNCHANGED <<holder, waiters, waiting_on, cur_lock, depth, chained, undefined>>

TryAcquireOwn(t) ==
  /\ Running(t, "try_own")
  /\ holder' = [holder EXCEPT ![lk[t]] = t]
  /\ Return(t, "run")
  /\ Unscheduled /\ UNCHANGED <<priorityVars, budget>>
  /\ UNCHANGED <<value, waiters, waiting_on, cur_lock, depth, chained, undefined>>

-----------------------------------------------------------------------------
\* lock_release: entry, and the scan of remove_priority.  Every donor that
\* waits for l is dropped and its waiting_on cleared.
lock_release(t, l) ==
  LET dropped == {d \in donors[t] : waiting_on[d] = l}
  IN /\ Running(t, "run")
     /\ holder[l] = t
     /\ lk' = [lk EXCEPT ![t] = l]
     /\ donors' = [donors EXCEPT ![t] = @ \ dropped]
     /\ waiting_on' = [d \in Thread |-> IF d \in dropped THEN NoLock ELSE waiting_on[d]]
     /\ Goto(t, "rel_reset")
     /\ Unscheduled /\ UNCHANGED <<priority, base_priority, highest_prio, budget>>
     /\ UNCHANGED <<holder, value, waiters, cur_lock, depth, chained, undefined>>

\* remove_priority: update_priority (thread_current ()).
ReleaseReset(t) ==
  /\ Running(t, "rel_reset")
  /\ UNCHANGED <<base_priority, donors, highest_prio, budget>>
  /\ reset_priority(t)
  /\ Goto(t, "rel_compare")
  /\ Unscheduled /\ UNCHANGED lockVars

ReleaseCompare(t) ==
  /\ Running(t, "rel_compare")
  /\ compare_priority(t, "rel_inherit", "rel_holder")
  /\ Unscheduled /\ UNCHANGED <<priority, base_priority, donors, budget>>
  /\ UNCHANGED lockVars

ReleaseInherit(t) ==
  /\ Running(t, "rel_inherit")
  /\ inherit_priority(t)
  /\ Goto(t, "rel_holder")
  /\ Unscheduled /\ UNCHANGED <<base_priority, donors, budget>>
  /\ UNCHANGED lockVars

\* lock_release: lock->holder = NULL.
ReleaseHolder(t) ==
  /\ Running(t, "rel_holder")
  /\ holder' = [holder EXCEPT ![lk[t]] = NoThread]
  /\ Goto(t, "rel_up")
  /\ Unscheduled /\ UNCHANGED <<priorityVars, budget>>
  /\ UNCHANGED <<value, waiters, waiting_on, lk, cur_lock, depth, chained, undefined>>

\* Mutants of SemaUp: list_front for list_pop_front; list_pop_back; nobody woken.
WakeWith(t, wake) ==
  /\ Running(t, "rel_up")
  /\ IF waiters[lk[t]] = <<>> THEN Unscheduled /\ UNCHANGED waiters ELSE wake
  /\ Return(t, "run")
  /\ value' = [value EXCEPT ![lk[t]] = @ + 1]
  /\ UNCHANGED <<priorityVars, budget>>
  /\ UNCHANGED <<holder, waiting_on, cur_lock, depth, chained, undefined>>

SemaUp_front(t) ==
  WakeWith(t, UNCHANGED waiters /\ thread_unblock(Head(waiters[lk[t]]), priority))
SemaUp_back(t) ==
  LET l == lk[t]
      sorted == list_sort(waiters[l], ByPriority(priority))
  IN WakeWith(t, /\ waiters' = [waiters EXCEPT ![l] = SubSeq(sorted, 1, Len(@) - 1)]
                 /\ thread_unblock(sorted[Len(sorted)], priority))
SemaUp_silent(t) == WakeWith(t, Unscheduled /\ UNCHANGED waiters)

\* sema_up (interrupts off): the waiters are sorted, the first is made ready,
\* and the caller goes on to yield if the woken thread's priority is higher.
SemaUp(t) ==
  LET l == lk[t]
      sorted == list_sort(waiters[l], ByPriority(priority))
  IN /\ Running(t, "rel_up")
     /\ IF waiters[l] = <<>>
        THEN /\ Unscheduled /\ UNCHANGED waiters
             /\ Return(t, "run")
        ELSE /\ waiters' = [waiters EXCEPT ![l] = Tail(sorted)]
             /\ thread_unblock(Head(sorted), priority)
             /\ Return(t, IF priority[Head(sorted)] > priority[t] THEN "yield" ELSE "run")
     /\ value' = [value EXCEPT ![l] = @ + 1]
     /\ UNCHANGED <<priorityVars, budget>>
     /\ UNCHANGED <<holder, waiting_on, cur_lock, depth, chained, undefined>>

\* thread_exit of a thread that holds nothing.  Its page is freed: a donor_elem
\* still linked somewhere dangles.
Exit(t) ==
  /\ Held(t) = {}
  /\ thread_exit(t)
  /\ undefined' = Donating(t)
  /\ UNCHANGED <<holder, value, waiters, waiting_on, lk, cur_lock, depth, chained>>

-----------------------------------------------------------------------------
Init ==
  /\ ThreadInit
  /\ holder = [l \in Lock |-> NoThread]
  /\ value = [l \in Lock |-> 1]
  /\ waiters = [l \in Lock |-> <<>>]
  /\ waiting_on = [t \in Thread |-> NoLock]
  /\ lk = [t \in Thread |-> NoLock]
  /\ cur_lock = [t \in Thread |-> NoLock]
  /\ depth = [t \in Thread |-> 0]
  /\ chained = [t \in Thread |-> NoThread]
  /\ undefined = FALSE

Acquire(t) ==
  \/ \E l \in Lock : lock_acquire(t, l) \/ lock_try_acquire(t, l)
  \/ DonateStart(t) \/ DonateRead(t) \/ DonateCompare(t)
  \/ DonateStore(t) \/ DonateChain(t) \/ DonateInsert(t) \/ DonateLink(t)
  \/ SemaDown(t) \/ AcquireOwn(t) \/ AcquireClear(t) \/ TryAcquireOwn(t)

Release(t) ==
  \/ \E l \in Lock : lock_release(t, l)
  \/ ReleaseReset(t) \/ ReleaseCompare(t) \/ ReleaseInherit(t)
  \/ ReleaseHolder(t) \/ SemaUp(t)

Step(t) ==
  \/ (ThreadCall(t) \/ Preempt(t)) /\ UNCHANGED lockVars
  \/ Acquire(t)
  \/ Release(t)
  \/ Exit(t)

\* Once C's behaviour is undefined the model says nothing more.
Stopped ==
  /\ undefined \/ (cur = Idle /\ \A t \in Thread : status[t] \in {"NONE", "DYING"})
  /\ UNCHANGED vars

Next == (~undefined /\ \E t \in Thread : Step(t)) \/ Stopped

Spec == Init /\ [][Next]_vars

-----------------------------------------------------------------------------
PC == ThreadPC \cup
  {"don_start", "don_read", "don_compare", "don_store", "don_chain",
   "don_insert", "don_link", "down", "own", "clear", "try_own",
   "rel_reset", "rel_compare", "rel_inherit", "rel_holder", "rel_up"}

\* Every variable has its type; the walk of donate_priority always has a lock
\* and a holder to look at.
TypeOK ==
  /\ ThreadVarsOK
  /\ pc \in [Thread -> PC]
  /\ holder \in [Lock -> Thread \cup {NoThread}]
  /\ value \in [Lock -> Nat]
  /\ waiters \in [Lock -> Seq(Thread)]
  /\ waiting_on \in [Thread -> Lock \cup {NoLock}]
  /\ lk \in [Thread -> Lock \cup {NoLock}]
  /\ cur_lock \in [Thread -> Lock \cup {NoLock}]
  /\ depth \in [Thread -> Nat]
  /\ chained \in [Thread -> Thread \cup {NoThread}]
  /\ undefined \in BOOLEAN
  /\ \A t \in Thread :
       /\ pc[t] \notin ThreadPC => lk[t] \in Lock
       /\ pc[t] = "don_read" => cur_lock[t] \in Lock
       /\ pc[t] \in {"don_compare", "don_store", "don_chain"} => chained[t] \in Thread

\* The threads that have downed l's semaphore and not upped it yet, whether or
\* not the holder member says so already (lock_acquire) or still (lock_release).
Owns(t, l) ==
  \/ holder[l] = t
  \/ pc[t] \in {"own", "try_own", "rel_up"} /\ lk[t] = l

\* A lock has at most one owner, and its semaphore is 1 exactly when it has
\* none, at every point of lock_acquire, lock_try_acquire and lock_release.
MutualExclusion ==
  \A l \in Lock :
    /\ value[l] \in {0, 1}
    /\ value[l] = 1 <=> \A t \in Thread : ~Owns(t, l)
    /\ \A t, u \in Thread : Owns(t, l) /\ Owns(u, l) => t = u

\* Each thread's elem is in exactly the list its status calls for: the ready
\* list when READY, the waiters of the lock it downs when BLOCKED, else none.
ListsExact ==
  /\ ReadyListExact
  /\ \A l \in Lock : NoDup(waiters[l])
  /\ \A t \in Thread, l \in Lock :
       (t \in Elems(waiters[l])) <=> (status[t] = "BLOCKED" /\ lk[t] = l)
  /\ \A t \in Thread : status[t] = "BLOCKED" => pc[t] = "down"

\* A free lock with waiters has a thread on its way to it: sema_up wakes one
\* thread per up, and that thread cannot lose the wake-up, even when another
\* thread takes the lock first.
NoLostWakeup ==
  \A l \in Lock :
    value[l] > 0 /\ waiters[l] # <<>> =>
      \E t \in Thread : /\ status[t] \in {"READY", "RUNNING"}
                        /\ pc[t] = "down" /\ lk[t] = l

\* A thread recorded as waiting for a lock is inside lock_acquire of that lock:
\* donate_priority never follows a chain through a thread that has moved on.
WaitingOnAccurate ==
  \A t \in Thread :
    waiting_on[t] # NoLock =>
      /\ waiting_on[t] = lk[t]
      /\ pc[t] \in {"don_read", "don_compare", "don_store", "don_chain",
                   "don_insert", "don_link", "down", "own", "clear"}

\* sema_up wakes a waiter of the highest priority, although donations may have
\* changed the priorities of the waiters since they were put in order.
WakesHighest ==
  [][\A l \in Lock : \A t \in Elems(waiters[l]) \ Elems(waiters'[l]) :
       \A u \in Elems(waiters[l]) : priority[u] <= priority[t]]_vars
=============================================================================
