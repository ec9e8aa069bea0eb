----------------------------- MODULE Interrupts -----------------------------
(***************************************************************************)
(* Interrupts in detail: the interrupt flag, the two 8259A controllers     *)
(* (initialised for manual end of interrupt), the interrupt gates and the  *)
(* common entry and exit of interrupt_asm.s, the handler table, and the    *)
(* nesting of cli_condition and sti_condition in the locks, semaphores and *)
(* thread operations.                                                      *)
(*                                                                         *)
(* Sync takes each of these operations, and each handler, as one step.     *)
(* Here they are sequences of steps, and an interrupt may come before any  *)
(* of them that runs with the flag set.  AtomicView is the claim that the  *)
(* coarse picture is right.                                                *)
(***************************************************************************)
EXTENDS Sync

CONSTANT Irq    \* the request lines in use: 0 is the timer, 1 the keyboard, 8 .. 15 the slave's

ASSUME IrqAssumption == Irq \subseteq 0 .. 15 /\ 0 \in Irq

VARIABLES irr,        \* requests the controllers have not delivered yet
          isr,        \* lines of the master that are in service
          sisr,       \* requests of the slave that are in service
          stack       \* of each thread: the calls and interrupts it is in, outermost first

pic == <<irr, isr, sisr>>
ivars == <<vars, pic, stack>>

\* The thread module's state but for the flag.
threads == <<next, status, time_left, cur, live, created, cr3, esp0>>
history == <<at, cs, irq>>

-----------------------------------------------------------------------------
(***************************************************************************)
(* _8259A_init: vectors 0x20 and 0x28, the slave on line 2 of the master,  *)
(* manual EOI.  A request is delivered when nothing of the same or higher  *)
(* priority is in service or pending.                                      *)
(***************************************************************************)
TimerVector == 32
PageFaultVector == 14

Line(i) == IF i < 8 THEN i ELSE 2

Unblocked(i) ==
    /\ \A j \in isr : Line(i) < j
    /\ i >= 8 => \A j \in sisr : i < j

Before(i, j) == Line(i) < Line(j) \/ (Line(i) = Line(j) /\ i < j)

Deliverable(i) ==
    /\ i \in irr /\ Unblocked(i)
    /\ \A j \in irr : Before(j, i) => ~Unblocked(j)

\* The EOI written to a controller ends the service of highest priority.
Ended(S) == {x \in S : \E y \in S : y < x}

\* Fault: only the slave is told.
Eoi_slaveOnly == sisr' = Ended(sisr) /\ UNCHANGED isr

Eoi == isr' = Ended(isr) /\ sisr' = Ended(sisr)

(***************************************************************************)
(* idt_init and keyboard_init: the handler of each vector.  All but the    *)
(* timer's (default_server_func, page_fault_func and the keyboard's) print *)
(* a line.                                                                 *)
(***************************************************************************)
int_server_func_list ==
    [n \in {PageFaultVector} \cup (32 .. 47) |-> IF n = TimerVector THEN "timer" ELSE "print"]

-----------------------------------------------------------------------------
(***************************************************************************)
(* The call stack.  Every function that changes shared state begins with   *)
(* cli_condition and ends with sti_condition of the result; an interrupt   *)
(* gate and iret do the same with the saved eflags.  A frame has the       *)
(* function, its argument, the flag it found, and where it is; node is the *)
(* thread sem_V has unlinked, and in an interrupt frame the thread itself  *)
(* if the handler found it holding the printk lock.                        *)
(***************************************************************************)
Top == Last(stack[cur])

Doing(fn, pc) == stack[cur] # <<>> /\ Top.fn = fn /\ Top.pc = pc

\* The thread is outside all of this, in kernel code.
AtBase == stack[cur] = <<>> /\ cur \notin UserTask

Handlers(t) == {k \in DOMAIN stack[t] : stack[t][k].fn = "int"}

InHandler == Handlers(cur) # {}

\* The stack with the caller's frame set to where, and what it found in node.
Resuming(pc, node) ==
    IF stack[cur] = <<>> THEN <<>>
    ELSE Append(Front(stack[cur]), [Top EXCEPT !.pc = pc, !.node = node])

Frame(fn, arg, cond) == [fn |-> fn, arg |-> arg, cond |-> cond, pc |-> 1, node |-> NoTcb]

\* Fault: the result is True whatever the flag was.
cli_condition_true(fn, arg, below) ==
    /\ stack' = [stack EXCEPT ![cur] = Append(below, Frame(fn, arg, TRUE))]
    /\ iflag' = [iflag EXCEPT ![cur] = FALSE]

cli_condition(fn, arg, below) ==
    /\ stack' = [stack EXCEPT ![cur] = Append(below, Frame(fn, arg, iflag[cur]))]
    /\ iflag' = [iflag EXCEPT ![cur] = FALSE]

Call(fn, arg, pc, node) == cli_condition(fn, arg, Resuming(pc, node))

\* Fault: the flag is set whatever it was.
sti_condition_always ==
    /\ stack' = [stack EXCEPT ![cur] = Front(@)]
    /\ iflag' = [iflag EXCEPT ![cur] = TRUE]

sti_condition ==
    /\ stack' = [stack EXCEPT ![cur] = Front(@)]
    /\ iflag' = [iflag EXCEPT ![cur] = Top.cond]

(***************************************************************************)
(* schedule as called by thread_block and the timer, after which the       *)
(* caller goes on at pc.  switch_to loads the flags of the thread it       *)
(* switches to (popf) before it sends the EOI: a new thread begins with    *)
(* the flag set, and may be interrupted in between.                        *)
(***************************************************************************)
Switching(pc) ==
    stack' = LET left == [stack EXCEPT ![cur] = Resuming(pc, NoTcb)]
             IN  IF cur' = cur THEN left
                 ELSE [left EXCEPT ![cur'] = Append(@, Frame("switch_to", NoTcb, TRUE))]

\* Fault: switch_to sends no EOI.
SwitchEoi_none ==
    /\ Doing("switch_to", 1)
    /\ stack' = [stack EXCEPT ![cur] = Front(@)]
    /\ UNCHANGED <<vars, pic>>

SwitchEoi ==
    /\ Doing("switch_to", 1)
    /\ stack' = [stack EXCEPT ![cur] = Front(@)]
    /\ Eoi
    /\ UNCHANGED <<vars, irr>>

-----------------------------------------------------------------------------
(***************************************************************************)
(* The functions, one action for each stretch between two calls.           *)
(***************************************************************************)
CallAcquire(l) ==
    /\ AtBase /\ ~InCriticalSection
    /\ Call("lock_acquire", l, 0, NoTcb)
    /\ UNCHANGED <<threads, val, wait, holder, history, pic>>

CallRelease(l) ==
    /\ AtBase /\ cur \in cs[l]
    /\ Call("lock_release", l, 0, NoTcb)
    /\ UNCHANGED <<threads, val, wait, holder, history, pic>>

\* lock_acquire up to the call of sem_P, and after it.
AcquireTests ==
    /\ Doing("lock_acquire", 1)
    /\ \/ holder[Top.arg] = cur /\ sti_condition
       \/ holder[Top.arg] # cur /\ Call("sem_P", Top.arg, 2, NoTcb)
    /\ UNCHANGED <<threads, val, wait, holder, history, pic>>

AcquireOwns ==
    /\ Doing("lock_acquire", 2)
    /\ holder' = [holder EXCEPT ![Top.arg] = cur]
    /\ sti_condition
    /\ IF InHandler THEN UNCHANGED <<at, cs>>
       ELSE /\ cs' = [cs EXCEPT ![Top.arg] = @ \cup {cur}]
            /\ at' = [at EXCEPT ![cur] = NoSem]
    /\ UNCHANGED <<threads, val, wait, irq, pic>>

\* A turn of the loop of sem_P, and its end.
SemPQueues ==
    /\ Doing("sem_P", 1)
    /\ val[Top.arg] = 0
    /\ Enqueue(Top.arg)
    /\ Call("thread_block", Top.arg, 1, NoTcb)
    /\ UNCHANGED <<threads, val, holder, history, pic>>

SemPTakes ==
    /\ Doing("sem_P", 1)
    /\ Take(Top.arg)
    /\ sti_condition
    /\ UNCHANGED <<threads, holder, history, pic>>

\* thread_block, up to and after the switch.
BlockSwitches ==
    /\ Doing("thread_block", 1)
    /\ schedule([status EXCEPT ![cur] = "BLOCKED"])
    /\ Switching(2)
    /\ at' = [at EXCEPT ![cur] = Top.arg]
    /\ irq' = IF InHandler THEN irq \cup {cur} ELSE irq
    /\ UNCHANGED <<next, iflag, live, created, val, wait, holder, cs, pic>>

BlockReturns ==
    /\ Doing("thread_block", 2)
    /\ sti_condition
    /\ UNCHANGED <<threads, val, wait, holder, history, pic>>

\* lock_release up to the call of sem_V, and after it.
ReleaseTests ==
    /\ Doing("lock_release", 1)
    /\ \/ /\ holder[Top.arg] # cur
          /\ sti_condition
          /\ cs' = IF InHandler THEN cs ELSE [cs EXCEPT ![Top.arg] = @ \ {cur}]
          /\ UNCHANGED holder
       \/ /\ holder[Top.arg] = cur
          /\ holder' = [holder EXCEPT ![Top.arg] = NoTcb]
          /\ Call("sem_V", Top.arg, 2, NoTcb)
          /\ UNCHANGED cs
    /\ UNCHANGED <<threads, val, wait, at, irq, pic>>

ReleaseReturns ==
    /\ Doing("lock_release", 2)
    /\ sti_condition
    /\ UNCHANGED <<threads, val, wait, holder, history, pic>>

\* sync_tool_is_empty.  Fault: a queue of one node is taken for an empty one.
sync_tool_is_empty_one(s) == Len(wait[s]) <= 1

sync_tool_is_empty(s) == wait[s] = <<>>

\* The first thread of the queue is unlinked.
sync_tool_get(s) == wait' = [wait EXCEPT ![s] = Tail(@)]

\* sem_V up to the call of thread_wakeup, if there is a thread to wake.
SemVUnlinks ==
    /\ Doing("sem_V", 1)
    /\ ~sync_tool_is_empty(Top.arg)
    /\ sync_tool_get(Top.arg)
    /\ Call("thread_wakeup", Head(wait[Top.arg]), 2, Head(wait[Top.arg]))
    /\ UNCHANGED <<threads, val, holder, history, pic>>

SemVRaises ==
    /\ Doing("sem_V", 2) \/ (Doing("sem_V", 1) /\ sync_tool_is_empty(Top.arg))
    /\ val' = [val EXCEPT ![Top.arg] = @ + 1]
    /\ sti_condition
    /\ IF InHandler
       THEN at' = [at EXCEPT ![cur] = NoSem] /\ irq' = irq \ {cur} /\ UNCHANGED cs
       ELSE cs' = [cs EXCEPT ![Top.arg] = @ \ {cur}] /\ UNCHANGED <<at, irq>>
    /\ UNCHANGED <<threads, wait, holder, pic>>

WakeupReadies ==
    /\ Doing("thread_wakeup", 1)
    /\ status' = [status EXCEPT ![Top.arg] = "READY"]
    /\ sti_condition
    /\ UNCHANGED <<next, time_left, cur, live, created, cr3, esp0, val, wait, holder,
                   history, pic>>

-----------------------------------------------------------------------------
(***************************************************************************)
(* A device asks for service; the processor takes the interrupt through a  *)
(* gate of type 0x8E, which clears the flag.                               *)
(***************************************************************************)
Raise(i) ==
    /\ i \in Irq \ irr
    /\ irr' = irr \cup {i}
    /\ UNCHANGED <<vars, isr, sisr, stack>>

Gate(n) ==
    /\ stack' = [stack EXCEPT ![cur] = Append(@, Frame("int", n, iflag[cur]))]
    /\ iflag' = [iflag EXCEPT ![cur] = FALSE]

Interrupt(i) ==
    /\ iflag[cur]
    /\ Deliverable(i)
    /\ irr' = irr \ {i}
    /\ isr' = isr \cup {Line(i)}
    /\ sisr' = IF i < 8 THEN sisr ELSE sisr \cup {i}
    /\ Gate(32 + i)
    /\ UNCHANGED <<threads, svars>>

\* A user task makes a page fault: same entry and exit, but no controller is involved.
PageFault ==
    /\ cur \in UserTask
    /\ stack[cur] = <<>>
    /\ Gate(PageFaultVector)
    /\ UNCHANGED <<threads, svars, pic>>

(***************************************************************************)
(* int_func_route and the handlers: the timer's charges the tick or        *)
(* switches, the others call printk.                                       *)
(***************************************************************************)
IntHandler(h) == Doing("int", 1) /\ int_server_func_list[Top.arg] = h

TimerHandler ==
    /\ IntHandler("timer")
    /\ Tick \/ SliceOver
    /\ Switching(3)
    /\ UNCHANGED <<next, iflag, live, created, svars, pic>>

PrintHandler ==
    /\ \/ /\ IntHandler("print")
          /\ Call("lock_acquire", PrintkLock, 2, IF holder[PrintkLock] = cur THEN cur ELSE NoTcb)
       \/ /\ Doing("int", 2)
          /\ Call("lock_release", PrintkLock, 3, Top.node)
    /\ UNCHANGED <<threads, svars, pic>>

\* The exit of pre_handle: the EOI, with the flag still clear, and iret.
Iret ==
    /\ Doing("int", 3)
    /\ Eoi
    /\ stack' = [stack EXCEPT ![cur] = Front(@)]
    /\ iflag' = [iflag EXCEPT ![cur] = Top.cond]
    /\ UNCHANGED <<threads, svars, irr>>

CreateThread(t) ==
    /\ AtBase
    /\ Create(t)
    /\ UNCHANGED <<pic, stack>>

IntInit ==
    /\ SyncInit
    /\ irr = {} /\ isr = {} /\ sisr = {}
    /\ stack = [t \in Tcb |-> <<>>]

\* The running thread goes on with the call or the handler it is in.
Proceed ==
    \/ SwitchEoi
    \/ AcquireTests \/ AcquireOwns
    \/ SemPQueues \/ SemPTakes
    \/ BlockSwitches \/ BlockReturns
    \/ ReleaseTests \/ ReleaseReturns
    \/ SemVUnlinks \/ SemVRaises \/ WakeupReadies
    \/ TimerHandler \/ PrintHandler \/ Iret

IntNext ==
    \/ Proceed
    \/ \E l \in Lock : CallAcquire(l) \/ CallRelease(l)
    \/ \E t \in Tcb : CreateThread(t)
    \/ \E i \in Irq : Raise(i) \/ Interrupt(i)
    \/ PageFault

IntSpec == IntInit /\ [][IntNext]_ivars

(***************************************************************************)
(* The timer raises its line again and again, and a request is taken at    *)
(* one of the instructions that run with the flag set.  Code that runs     *)
(* with the flag clear is not held up, and a thread that gets the          *)
(* processor again and again executes its next instruction (the EOI of     *)
(* switch_to) or comes to the end of its critical section.                 *)
(***************************************************************************)
FairIntSpec ==
    /\ IntSpec
    /\ WF_ivars(Raise(0))
    /\ SF_ivars(Interrupt(0))
    /\ WF_ivars(~iflag[cur] /\ Proceed)
    /\ \A t \in Tcb \ {Main} : SF_ivars(cur = t /\ SwitchEoi)
    /\ \A t \in Tcb \ UserTask, l \in Lock : SF_ivars(cur = t /\ CallRelease(l))

-----------------------------------------------------------------------------
(***************************************************************************)
(* What Sync sees of a state in the middle of an operation.  An operation  *)
(* takes effect when lock_acquire sets the holder, when sem_V raises the   *)
(* value, or when thread_block switches; a handler that takes the lock     *)
(* itself takes effect as a whole when it gives it up.                     *)
(***************************************************************************)
Granted(l) == Doing("lock_acquire", 2) /\ Top.arg = l

PostFrames(s) == {k \in DOMAIN stack[cur] : stack[cur][k].fn = "sem_V" /\ stack[cur][k].arg = s}

Dropping(s) == PostFrames(s) # {}

\* The threads that sem_V of s has unlinked.
Unlinked(s) == {stack[cur][k].node : k \in PostFrames(s)} \ {NoTcb}

HandlerHas(l) ==
    /\ l = PrintkLock
    /\ \E k \in Handlers(cur) :
          LET f == stack[cur][k] IN f.arg # TimerVector /\ f.pc # 1 /\ f.node = NoTcb
    /\ Granted(l) \/ holder[l] = cur \/ Dropping(l)

SeenVal == [s \in Sem |-> val[s] + IF s \in Lock /\ (Granted(s) \/ HandlerHas(s)) THEN 1 ELSE 0]

SeenHolder ==
    [l \in Lock |-> IF HandlerHas(l) THEN NoTcb ELSE IF Dropping(l) THEN cur ELSE holder[l]]

SeenWait ==
    [s \in Sem |-> IF Doing("thread_block", 1) /\ Top.arg = s THEN Front(wait[s])
                   ELSE SetToSeq(Unlinked(s)) \o wait[s]]

SeenStatus ==
    [t \in Tcb |-> IF \E s \in Sem : t \in Unlinked(s) THEN "BLOCKED" ELSE status[t]]

Atomic == INSTANCE Sync WITH val <- SeenVal, holder <- SeenHolder, wait <- SeenWait,
                             status <- SeenStatus, iflag <- [t \in Tcb |-> at[t] = NoSem]

(***************************************************************************)
(* Locks, semaphores, thread operations and interrupt handlers behave as   *)
(* if each were one step, as Sync has it: the nested cli_condition and     *)
(* sti_condition pairs keep interrupts out between the inner sti_condition *)
(* and the outer one, and a thread that is switched out inside an          *)
(* operation comes back with its flag clear.                               *)
(***************************************************************************)
AtomicView == Atomic!IrqSpec

(***************************************************************************)
(* Interrupt handlers do not nest on a kernel stack (it shares one page    *)
(* with the TCB): a second interrupt waits until the thread has left the   *)
(* first, even if that handler blocked and was resumed much later.         *)
(***************************************************************************)
OneHandlerPerStack ==
    \A t \in Tcb : Cardinality(Handlers(t)) <= 1

(***************************************************************************)
(* While code runs with the flag set, the timer's line is not in service   *)
(* (it would be blocked, and nothing would preempt that code), but for the *)
(* moment in switch_to between popf and the EOI.                           *)
(***************************************************************************)
PreemptionOn == iflag[cur] /\ ~Doing("switch_to", 1) => 0 \notin isr

(***************************************************************************)
(* On both controllers a line in service is ended some time, although      *)
(* handlers switch to other threads before their EOI, the EOI of switch_to *)
(* may be preempted, and EOIs are also sent when nothing is in service.    *)
(***************************************************************************)
EveryLineEnded ==
    \A i \in Irq :
        /\ Line(i) \in isr ~> Line(i) \notin isr
        /\ i \in sisr ~> i \notin sisr
=============================================================================
