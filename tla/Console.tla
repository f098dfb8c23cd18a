------------------------------- MODULE Console -------------------------------
(***************************************************************************)
(* Console input and output: the keyboard (devices/kbd.c) and the serial   *)
(* port (devices/serial.c), the interrupt queues between their handlers    *)
(* and the threads (devices/intq.c, devices/input.c), the console lock     *)
(* (lib/kernel/console.c) and the loops of sys_read and sys_write on       *)
(* descriptors 0 and 1.                                                    *)
(*                                                                         *)
(* A step is what happens with interrupts off.  A lock is taken in one     *)
(* step when it is free (Synch has the semaphore inside it and shows that  *)
(* a thread waiting for it is woken).  off is the thread that is between   *)
(* two steps with interrupts still off; nothing else happens then.  The    *)
(* UART has one byte of receive and one byte of transmit buffer.           *)
(***************************************************************************)
EXTENDS Keymap, FiniteSets

CONSTANTS Reader, Writer,     \* threads in sys_read of 0 and sys_write of 1
          INTQ_BUFSIZE,
          ReadSize, WriteSize, \* bytes each of them reads or writes
          Codes,              \* scancodes of the keys used
          Input,              \* bytes that arrive on the line
          MaxInput,           \* key presses and releases and bytes on the line, in all
          MaxPrints,          \* characters printed with interrupts off
          None

VARIABLES intq,               \* intq["buffer"] of input.c, intq["txq"] of serial.c
          console_lock,       \* its holder, or None
          pc, left,           \* left[t]: bytes t has still to read or write
          off,
          ier,                \* the interrupts enabled in the UART
          rbr,                \* the UART's receive register
          thre,               \* its transmit register is empty
          held, caps_lock,    \* the keyboard
          got, sent,          \* the byte read last, the byte given to the UART last
          inputs, prints,     \* how many there have been
          outcome             \* "ok", "panic", "off"

vars == <<intq, console_lock, pc, left, off, ier, rbr, thre, held, caps_lock, got, sent,
          inputs, prints, outcome>>
kbdVars == <<held, caps_lock>>
history == <<got, sent>>

Thread == Reader \cup Writer
OutByte == (Writer \X (1..WriteSize)) \cup ({None} \X (1..MaxPrints))

ASSUME ConsoleAssumption ==
  /\ INTQ_BUFSIZE \in Nat \ {0, 1}
  /\ {ReadSize, WriteSize, MaxInput, MaxPrints} \subseteq Nat
  /\ Codes \subseteq Nat /\ Input \subseteq 0..255
  /\ Reader \cap Writer = {}
  /\ None \notin Thread /\ None \notin 0..255 /\ None \notin OutByte

-----------------------------------------------------------------------------
intq_init == [lock |-> None, not_full |-> None, not_empty |-> None,
              buf |-> [i \in 0..INTQ_BUFSIZE-1 |-> None], head |-> 0, tail |-> 0]

next(pos) == (pos + 1) % INTQ_BUFSIZE
intq_empty(q) == q.head = q.tail

\* Mutant: the ring is never full.
intq_full_never(q) == q.head = INTQ_BUFSIZE

intq_full(q) == next(q.head) = q.tail

\* intq_getc of a queue that is not empty, and intq_putc of one that is not full;
\* signal resets the waiter, and Woken makes it ready.  What the ring holds outside
\* of head and tail is not followed.
Taken(q) == [q EXCEPT !.buf[q.tail] = None, !.tail = next(@), !.not_full = None]

\* Mutant of Put: the waiter stays recorded.
Put_waiter(q, b) == [q EXCEPT !.buf[q.head] = b, !.head = next(@)]

Put(q, b) == [q EXCEPT !.buf[q.head] = b, !.head = next(@), !.not_empty = None]
First(q) == q.buf[q.tail]
Woken(waiters, at) == [t \in Thread |-> IF t \in waiters THEN "woken" ELSE at[t]]

\* The interrupts that write_ier enables, for queues q.
write_ier(q) ==
  (IF intq_empty(q["txq"]) THEN {} ELSE {"xmit"})
    \cup (IF intq_full(q["buffer"]) THEN {} ELSE {"recv"})

Interruptible == outcome = "ok" /\ off = None
Turn(t, l) == outcome = "ok" /\ off \in {None, t} /\ pc[t] = l

-----------------------------------------------------------------------------
\* The loop of intq_getc (a reader) and of intq_putc (a writer).
Queue(t) == IF t \in Reader THEN "buffer" ELSE "txq"
MustWait(t, q) == IF t \in Reader THEN intq_empty(q[Queue(t)]) ELSE intq_full(q[Queue(t)])

\* wait: t is recorded as the waiter and blocks, with the queue's lock held.
wait(t) ==
  /\ intq' = [intq EXCEPT ![Queue(t)] =
                IF t \in Reader THEN [@ EXCEPT !.lock = t, !.not_empty = t]
                ELSE [@ EXCEPT !.lock = t, !.not_full = t]]
  /\ pc' = [pc EXCEPT ![t] = "wait"]

\* The loop finds the queue empty, or full.
MustSleep(t) ==
  /\ MustWait(t, intq)
  /\ IF intq[Queue(t)].lock = None THEN wait(t)
     ELSE pc' = [pc EXCEPT ![t] = "lock"] /\ UNCHANGED intq
  /\ off' = None
  /\ UNCHANGED <<console_lock, left, ier, rbr, thre, kbdVars, history, inputs, prints, outcome>>

\* The queue's lock is free at last; wait asserts that there still is something
\* to wait for.
IntqLocked(t) ==
  /\ Interruptible /\ pc[t] = "lock" /\ intq[Queue(t)].lock = None
  /\ IF MustWait(t, intq) THEN wait(t) /\ UNCHANGED outcome
     ELSE outcome' = "panic" /\ UNCHANGED <<intq, pc>>
  /\ UNCHANGED <<console_lock, left, off, ier, rbr, thre, kbdVars, history, inputs, prints>>

\* After wait: lock_release, which yields if it wakes a thread of higher
\* priority, and the test of the loop again.
WaitEnd(t) ==
  /\ Interruptible /\ pc[t] = "woken"
  /\ intq' = [intq EXCEPT ![Queue(t)].lock = None]
  /\ pc' = [pc EXCEPT ![t] = "loop"]
  /\ \E yield \in BOOLEAN :
       /\ yield => \E u \in Thread : pc[u] = "lock" /\ Queue(u) = Queue(t)
       /\ off' = IF yield THEN None ELSE t
  /\ UNCHANGED <<console_lock, left, ier, rbr, thre, kbdVars, history, inputs, prints, outcome>>

\* sys_read of descriptor 0: input_getc for every byte, and serial_notify.
input_getc(t) ==
  /\ t \in Reader /\ (Turn(t, "run") \/ Turn(t, "loop")) /\ left[t] > 0
  /\ \/ MustSleep(t)
     \/ /\ ~MustWait(t, intq)
        /\ intq' = [intq EXCEPT !["buffer"] = Taken(@)]
        /\ got' = First(intq["buffer"])
        /\ ier' = write_ier(intq')
        /\ left' = [left EXCEPT ![t] = @ - 1]
        /\ pc' = [pc EXCEPT ![t] = "run"]
        /\ off' = None
        /\ UNCHANGED <<console_lock, rbr, thre, kbdVars, sent, inputs, prints, outcome>>

\* sys_write of descriptor 1: putbuf takes the console lock.
acquire_console(t) ==
  /\ t \in Writer /\ Interruptible /\ pc[t] = "run" /\ left[t] = WriteSize /\ WriteSize > 0
  /\ console_lock = None
  /\ console_lock' = t
  /\ pc' = [pc EXCEPT ![t] = "put"]
  /\ UNCHANGED <<intq, left, off, ier, rbr, thre, kbdVars, history, inputs, prints, outcome>>

\* putchar_have_lock: serial_putc, called with interrupts on.
serial_putc(t) ==
  LET b == <<t, WriteSize - left[t] + 1>>
  IN /\ t \in Writer /\ (Turn(t, "put") \/ Turn(t, "loop")) /\ left[t] > 0
     /\ \/ MustSleep(t)
        \/ /\ ~MustWait(t, intq)
           /\ intq' = [intq EXCEPT !["txq"] = Put(@, b)]
           /\ ier' = write_ier(intq')
           /\ left' = [left EXCEPT ![t] = @ - 1]
           /\ pc' = [pc EXCEPT ![t] = "put"]
           /\ off' = None
           /\ UNCHANGED <<console_lock, rbr, thre, kbdVars, got, sent, inputs, prints, outcome>>

\* Mutant: the console lock is kept.
release_console_not(t) ==
  /\ t \in Writer /\ Interruptible /\ pc[t] = "put" /\ left[t] = 0
  /\ pc' = [pc EXCEPT ![t] = "run"]
  /\ UNCHANGED <<intq, console_lock, left, off, ier, rbr, thre, kbdVars, history, inputs, prints,
                 outcome>>

release_console(t) ==
  /\ t \in Writer /\ Interruptible /\ pc[t] = "put" /\ left[t] = 0
  /\ console_lock' = None
  /\ pc' = [pc EXCEPT ![t] = "run"]
  /\ UNCHANGED <<intq, left, off, ier, rbr, thre, kbdVars, history, inputs, prints, outcome>>

-----------------------------------------------------------------------------
\* A character printed with interrupts off, as by an interrupt handler: a full
\* queue gives its first byte to the UART by polling, which ends with the UART
\* holding that byte.
PrintOff ==
  LET q == intq["txq"]
      b == <<None, prints + 1>>
  IN /\ Interruptible /\ prints < MaxPrints
     /\ prints' = prints + 1
     /\ IF intq_full(q)
        THEN /\ intq' = [intq EXCEPT !["txq"] = Put(Taken(q), b)]
             /\ pc' = Woken({q.not_full}, pc)
             /\ thre' = FALSE /\ sent' = First(q)
        ELSE /\ intq' = [intq EXCEPT !["txq"] = Put(q, b)]
             /\ UNCHANGED <<pc, thre, sent>>
     /\ ier' = write_ier(intq')
     /\ UNCHANGED <<console_lock, left, off, rbr, kbdVars, got, inputs, outcome>>

\* input_putc from an interrupt handler.
input_putc(q, b) == [q EXCEPT !["buffer"] = Put(@, b)]

\* keyboard_interrupt: a press or release of a key.
keyboard_interrupt(code, release) ==
  LET isChar == RawChar(code, held) # NoChar
      reboots == isChar /\ ~release /\ Reboots(code, held)
      stored == isChar /\ ~release /\ ~reboots /\ ~intq_full(intq["buffer"])
  IN /\ Interruptible /\ inputs < MaxInput
     /\ inputs' = inputs + 1
     /\ caps_lock' = IF code = CapsLock /\ ~release THEN ~caps_lock ELSE caps_lock
     /\ held' = IF isChar \/ code \notin shift_keys THEN held
                ELSE IF release THEN held \ {code} ELSE held \cup {code}
     /\ outcome' = IF reboots THEN "off" ELSE "ok"
     /\ IF stored
        THEN /\ intq' = input_putc(intq, KeyChar(code, held, caps_lock))
             /\ pc' = Woken({intq["buffer"].not_empty}, pc)
             /\ ier' = write_ier(intq')
        ELSE UNCHANGED <<intq, pc, ier>>
     /\ UNCHANGED <<console_lock, left, off, rbr, thre, history, prints>>

\* The UART asks for attention.
Pending == ("recv" \in ier /\ rbr # None) \/ ("xmit" \in ier /\ thre)

\* serial_interrupt: a byte received, if there is room; a byte to transmit, if
\* the UART takes one; the interrupts enabled anew.
serial_interrupt ==
  LET receives == ~intq_full(intq["buffer"]) /\ rbr # None
      sends == ~intq_empty(intq["txq"]) /\ thre
      received == IF receives THEN input_putc(intq, rbr) ELSE intq
  IN /\ Interruptible /\ Pending
     /\ intq' = IF sends THEN [received EXCEPT !["txq"] = Taken(@)] ELSE received
     /\ rbr' = IF receives THEN None ELSE rbr
     /\ thre' = (thre /\ ~sends)
     /\ sent' = IF sends THEN First(intq["txq"]) ELSE sent
     /\ pc' = Woken((IF receives THEN {intq["buffer"].not_empty} ELSE {})
                      \cup (IF sends THEN {intq["txq"].not_full} ELSE {}), pc)
     /\ ier' = write_ier(intq')
     /\ UNCHANGED <<console_lock, left, off, kbdVars, got, inputs, prints, outcome>>

\* The UART: a byte arrives, a byte leaves.
Receive(b) ==
  /\ outcome = "ok" /\ rbr = None /\ inputs < MaxInput
  /\ rbr' = b /\ inputs' = inputs + 1
  /\ UNCHANGED <<intq, console_lock, pc, left, off, ier, thre, kbdVars, history, prints, outcome>>

Transmit ==
  /\ outcome = "ok" /\ ~thre
  /\ thre' = TRUE
  /\ UNCHANGED <<intq, console_lock, pc, left, off, ier, rbr, kbdVars, history, inputs, prints,
                 outcome>>

\* shutdown_power_off: serial_flush polls everything out.
serial_flush ==
  LET q == intq["txq"]
      last == q.buf[(q.head + INTQ_BUFSIZE - 1) % INTQ_BUFSIZE]
  IN /\ Interruptible
     /\ intq' = [intq EXCEPT !["txq"] = [intq_init EXCEPT !.lock = q.lock, !.head = q.head, !.tail = q.head]]
     /\ pc' = Woken({q.not_full}, pc)
     /\ thre' = (thre /\ intq_empty(q))
     /\ sent' = IF intq_empty(q) THEN sent ELSE last
     /\ outcome' = "off"
     /\ UNCHANGED <<console_lock, left, off, ier, rbr, kbdVars, got, inputs, prints>>

-----------------------------------------------------------------------------
\* After serial_init_queue and input_init.
Init ==
  /\ intq = [q \in {"buffer", "txq"} |-> intq_init]
  /\ console_lock = None /\ off = None
  /\ pc = [t \in Thread |-> "run"]
  /\ left = [t \in Thread |-> IF t \in Reader THEN ReadSize ELSE WriteSize]
  /\ ier = {"recv"}
  /\ rbr = None /\ thre = TRUE
  /\ held = {} /\ caps_lock = FALSE
  /\ got = None /\ sent = None
  /\ inputs = 0 /\ prints = 0
  /\ outcome = "ok"

ThreadStep(t) ==
  \/ IntqLocked(t) \/ WaitEnd(t) \/ input_getc(t)
  \/ acquire_console(t) \/ serial_putc(t) \/ release_console(t)

Device == serial_interrupt \/ Transmit

\* The release of a key that is no shift key changes nothing.
Environment ==
  \/ \E code \in Codes : \/ keyboard_interrupt(code, FALSE)
                         \/ code \in held /\ keyboard_interrupt(code, TRUE)
  \/ \E b \in Input : Receive(b)
  \/ PrintOff \/ serial_flush

\* The machine is off, or everybody is done or waits for a key.
Quiet ==
  /\ \/ outcome # "ok"
     \/ inputs = MaxInput /\ \A t \in Thread : left[t] = 0 \/ pc[t] \in {"wait", "lock"}
  /\ UNCHANGED vars

Next == (\E t \in Thread : ThreadStep(t)) \/ Device \/ Environment \/ Quiet

\* The CPU does not rest while some thread can run, an interrupt that is pending
\* is delivered and the UART transmits what it has.
Spec == /\ Init /\ [][Next]_vars
        /\ WF_vars(\E t \in Thread : ThreadStep(t))
        /\ WF_vars(serial_interrupt) /\ WF_vars(Transmit)

-----------------------------------------------------------------------------
\* Every variable has its type.
TypeOK ==
  /\ \A q \in {"buffer", "txq"} :
       /\ {intq[q].lock, intq[q].not_full, intq[q].not_empty} \subseteq Thread \cup {None}
       /\ {intq[q].head, intq[q].tail} \subseteq 0..INTQ_BUFSIZE-1
  /\ console_lock \in Writer \cup {None} /\ off \in Thread \cup {None}
  /\ pc \in [Thread -> {"run", "put", "loop", "lock", "wait", "woken"}]
  /\ left \in [Thread -> Nat]
  /\ ier \subseteq {"recv", "xmit"}
  /\ rbr \in Input \cup {None} /\ thre \in BOOLEAN
  /\ held \subseteq shift_keys /\ caps_lock \in BOOLEAN
  /\ outcome \in {"ok", "panic", "off"}

\* The bytes in a queue, oldest first.
Contents(q) ==
  [i \in 1..((q.head - q.tail + INTQ_BUFSIZE) % INTQ_BUFSIZE) |->
     q.buf[(q.tail + i - 1) % INTQ_BUFSIZE]]

In == INSTANCE ByteQueue WITH
        Byte <- 0..255, Capacity <- INTQ_BUFSIZE - 1, queue <- Contents(intq["buffer"]), out <- got
Out == INSTANCE ByteQueue WITH
        Byte <- OutByte, Capacity <- INTQ_BUFSIZE - 1, queue <- Contents(intq["txq"]), out <- sent

\* What is typed and received reaches the readers in order, each byte once, with
\* two interrupt handlers filling the ring and several threads emptying it.
InputInOrder == In!Spec

\* What is printed leaves in order, each byte once: by interrupt, by polling when
\* the ring is full and interrupts are off, and by the flush at shutdown.
OutputInOrder == Out!Spec

\* A thread is recorded as the waiter exactly while it sleeps, it then holds the
\* queue's lock, and it sleeps only while the queue really is empty, or full:
\* neither handler takes a byte or adds one without waking it.
SleepersWaitForSomething ==
  outcome = "ok" => \A t \in Thread :
    LET q == intq[Queue(t)]
    IN /\ pc[t] = "wait" <=> t = (IF t \in Reader THEN q.not_empty ELSE q.not_full)
       /\ pc[t] \in {"wait", "woken"} <=> q.lock = t
       /\ pc[t] = "wait" => MustWait(t, intq)

\* The UART interrupts for transmission exactly while there is something to
\* transmit and for reception exactly while there is room (write_ier,
\* serial_notify): otherwise output stalls or a full ring is interrupted for ever.
IerAccurate == outcome = "ok" => ier = write_ier(intq)

\* Two threads' output is not mixed: no two are in the middle of what they print,
\* even when one of them sleeps because the ring is full (console_lock).
MessagesWhole ==
  \A v, w \in {u \in Writer : left[u] \in 1..WriteSize-1} : v = w

\* Everything a thread prints is transmitted, however small the ring is, unless
\* the machine goes off.
OutputDrains == <>(outcome # "ok" \/ (intq_empty(intq["txq"]) /\ \A w \in Writer : left[w] = 0))

\* A reader does not sleep on while there is input.
InputDelivered ==
  \A t \in Reader :
    (pc[t] \in {"wait", "lock", "woken"} /\ ~intq_empty(intq["buffer"]))
      ~> (outcome # "ok" \/ pc[t] = "run" \/ intq_empty(intq["buffer"]))

\* Input and output are queues of bytes: nothing lost, doubled or overtaken.
BytesInOrder == InputInOrder /\ OutputInOrder

\* Output is transmitted and input delivered some time: the ring's limits, the
\* locks and the interrupt enables never leave a byte where it is.
BytesMove == OutputDrains /\ InputDelivered

\* Whoever sleeps at a limit of the ring has reason to and is the recorded
\* waiter, the UART's interrupts are on when they are needed, and messages of two
\* threads do not mix.
WaitersConsistent == TypeOK /\ SleepersWaitForSomething /\ IerAccurate /\ MessagesWhole
=============================================================================
