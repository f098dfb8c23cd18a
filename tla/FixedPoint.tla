----------------------------- MODULE FixedPoint -----------------------------
(***************************************************************************)
(* Fixed-point arithmetic (threads/fixed.h) and the formulas of the        *)
(* multi-level feedback queue scheduler (threads/thread.c) written in it.  *)
(* An int has INT_BITS bits (32 in the code), FP_SHIFT_AMOUNT of them      *)
(* behind the point (15).  A right shift rounds down, a division towards 0.*)
(***************************************************************************)
EXTENDS KList

CONSTANTS INT_BITS, FP_SHIFT_AMOUNT, PRI_MIN, PRI_MAX,
          TIMER_FREQ               \* ticks a second (100 in the code)

F == 2^FP_SHIFT_AMOUNT
Int32(x) == ((x + 2^(INT_BITS - 1)) % 2^INT_BITS) - 2^(INT_BITS - 1)
Quot(a, b) == IF (a < 0) # (b < 0) THEN -((IF a < 0 THEN -a ELSE a) \div (IF b < 0 THEN -b ELSE b))
              ELSE (IF a < 0 THEN -a ELSE a) \div (IF b < 0 THEN -b ELSE b)

FP_CONST(a) == Int32(a * F)
FP_ADD(a, b) == Int32(a + b)
FP_ADD_MIX(a, b) == Int32(a + Int32(b * F))
FP_MULT_MIX(a, b) == Int32(a * b)
FP_DIV_MIX(a, b) == Quot(a, b)
FP_MULT(a, b) == Int32((a * b) \div F)
FP_DIV(a, b) == Int32(Quot(a * F, b))
FP_INT_PART(a) == a \div F
FP_ROUND(a) == IF a >= 0 THEN Int32(a + F \div 2) \div F ELSE Int32(a - F \div 2) \div F

-----------------------------------------------------------------------------
\* A thread is a record with idle, nice, recent_cpu and priority.

mlfqs_priority_of(t) ==
  LET pr == PRI_MAX - FP_INT_PART(FP_DIV_MIX(t.recent_cpu, 4)) - t.nice * 2
  IN IF t.idle THEN PRI_MIN
     ELSE IF pr > PRI_MAX THEN PRI_MAX ELSE IF pr < PRI_MIN THEN PRI_MIN ELSE pr

\* The load average after a second with that many threads ready or running.
LoadAvg(load_avg, ready_threads) ==
  FP_ADD(FP_DIV_MIX(FP_MULT_MIX(load_avg, 59), 60), FP_DIV_MIX(FP_CONST(ready_threads), 60))

\* What a second does to one thread's recent_cpu.
Decay(t, load_avg) ==
  LET two_la == FP_MULT_MIX(load_avg, 2)
      coeff == FP_DIV(two_la, FP_ADD_MIX(two_la, 1))
  IN IF t.idle THEN t ELSE [t EXCEPT !.recent_cpu = FP_ADD(FP_MULT(coeff, @), FP_CONST(t.nice))]

thread_get_load_avg(load_avg) == FP_ROUND(FP_MULT_MIX(load_avg, 100))

-----------------------------------------------------------------------------
(* The scheduler's state: cur, the running thread; ready, the ready list;  *)
(* ticks; load_avg; and yield, a switch asked for on return from the       *)
(* interrupt.                                                              *)

thread_priority_comparison(threads) == {p \in threads \X threads : p[1].priority > p[2].priority}

thread_update_priority_mlfqs(t) == [t EXCEPT !.priority = mlfqs_priority_of(t)]

Outranked(s) == s.ready # <<>> /\ Head(s.ready).priority > s.cur.priority

\* thread_tick: the end of a time slice asks for a switch, and so does a ready
\* thread that outranks the running one.
thread_mlfqs_tick(s, slice_over) ==
  LET ran == IF s.cur.idle THEN s.cur ELSE [s.cur EXCEPT !.recent_cpu = FP_ADD_MIX(@, 1)]
      now == [s EXCEPT !.cur = IF s.ticks % 4 = 0 THEN thread_update_priority_mlfqs(ran) ELSE ran]
  IN [now EXCEPT !.yield = slice_over \/ Outranked(now)]

mlfqs_update_load_avg_and_recent_cpu_all(s) ==
  LET load == LoadAvg(s.load_avg, Len(s.ready) + (IF s.cur.idle THEN 0 ELSE 1))
  IN [s EXCEPT !.load_avg = load, !.cur = Decay(@, load), !.ready = [i \in DOMAIN @ |-> Decay(@[i], load)]]

\* Mutant of mlfqs_recompute_priority_all: the ready list keeps its order.
mlfqs_recompute_priority_all_unsorted(s) ==
  [s EXCEPT !.cur = thread_update_priority_mlfqs(@),
            !.ready = [i \in DOMAIN @ |-> thread_update_priority_mlfqs(@[i])]]

mlfqs_recompute_priority_all(s) ==
  LET ready == [i \in DOMAIN s.ready |-> thread_update_priority_mlfqs(s.ready[i])]
  IN [s EXCEPT !.cur = thread_update_priority_mlfqs(@),
               !.ready = list_sort(ready, thread_priority_comparison(Elems(ready)))]

thread_yield(s) ==
  LET ready == list_insert_ordered(s.ready, s.cur, thread_priority_comparison(Elems(s.ready) \cup {s.cur}))
  IN [s EXCEPT !.cur = Head(ready), !.ready = Tail(ready), !.yield = FALSE]

\* The timer interrupt, with no thread asleep: the tick, once a second the load
\* and all priorities, then the switch asked for.
TimerInterrupt(s, slice_over) ==
  LET ticked == thread_mlfqs_tick([s EXCEPT !.ticks = @ + 1], slice_over)
      updated == IF ticked.ticks % TIMER_FREQ = 0
                 THEN mlfqs_recompute_priority_all(mlfqs_update_load_avg_and_recent_cpu_all(ticked)) ELSE ticked
  IN IF updated.yield THEN thread_yield(updated) ELSE updated

thread_set_nice(s, nice) ==
  LET now == [s EXCEPT !.cur = thread_update_priority_mlfqs([@ EXCEPT !.nice = nice])]
  IN IF Outranked(now) THEN thread_yield(now) ELSE now
=============================================================================
