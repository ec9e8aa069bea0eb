-------------------------------- MODULE Sync --------------------------------
(***************************************************************************)
(* Semaphores and locks (kernel/modules/sync) on top of the thread module, *)
(* with the client that every part of the kernel shares: printk, whose     *)
(* lock is also taken by the keyboard interrupt handler.                   *)
(*                                                                         *)
(* sem_P, sem_V, lock_acquire and lock_release run with interrupts         *)
(* disabled, so each is one step up to the point where it blocks; a thread *)
(* that is resumed inside sem_P goes on with its loop, interrupts still    *)
(* disabled, before anything else can happen.                              *)
(*                                                                         *)
(* How the kernel uses locks (printk.c, list.c): a critical section takes  *)
(* no other lock and waits for no semaphore.  The main thread is the idle  *)
(* thread (kern_entry ends in while(1)): it prints, but never waits for a  *)
(* semaphore.  No thread exits: exit resumes BLOCKED threads, see          *)
(* Threads!BlockedStaysOff.                                                *)
(***************************************************************************)
EXTENDS Threads, Sequences, SequencesExt

CONSTANTS PlainSem,     \* semaphores used as such
          Lock,         \* the locks; a lock also names its semaphore (lock_t.sem)
          PrintkLock,   \* printk_lock
          NoSem, NoTcb, \* "in no sem_P", and the NULL holder
          InitVal,      \* the initial value of a plain semaphore
          MaxVal        \* bound on the value a plain semaphore is raised to

Sem == PlainSem \cup Lock

ASSUME SyncAssumption ==
    /\ PlainSem \cap Lock = {}
    /\ PrintkLock \in Lock
    /\ NoSem \notin Sem
    /\ NoTcb \notin Tcb
    /\ InitVal \in Nat
    /\ MaxVal \in Nat

VARIABLES val,      \* sem_t.val
          wait,     \* sem_t.wait_queue: the threads of its nodes, head first
          holder,   \* lock_t.holder
          at,       \* the semaphore in whose sem_P loop a thread is, or NoSem
          cs,       \* the threads between lock_acquire and lock_release
          irq       \* the threads whose sem_P was called by the keyboard handler

svars == <<val, wait, holder, at, cs, irq>>
vars == <<tvars, svars>>

(***************************************************************************)
(* sem_init, lock_init, printk_init_lock.                                  *)
(***************************************************************************)
SyncInit ==
    /\ ThreadsInit
    /\ val = [s \in Sem |-> IF s \in Lock THEN 1 ELSE InitVal]
    /\ wait = [s \in Sem |-> <<>>]
    /\ holder = [l \in Lock |-> NoTcb]
    /\ at = [t \in Tcb |-> NoSem]
    /\ cs = [l \in Lock |-> {}]
    /\ irq = {}

-----------------------------------------------------------------------------
(***************************************************************************)
(* The running thread executes kernel code outside sem_P.                  *)
(***************************************************************************)
InKernel == cur \notin UserTask /\ at[cur] = NoSem

InCriticalSection == \E l \in Lock : cur \in cs[l]

\* sync_tool_add.  Fault: the node is put in front of the queue.
Enqueue_front(s) == wait' = [wait EXCEPT ![s] = <<cur>> \o @]

Enqueue(s) == wait' = [wait EXCEPT ![s] = Append(@, cur)]

(***************************************************************************)
(* One turn of the loop of sem_P that finds no token: the thread queues    *)
(* itself and blocks, to be resumed in the loop with interrupts disabled.  *)
(***************************************************************************)
Sleep(s) ==
    /\ val[s] = 0
    /\ Enqueue(s)
    /\ at' = [at EXCEPT ![cur] = s]
    /\ iflag' = [iflag EXCEPT ![cur] = FALSE]
    /\ schedule([status EXCEPT ![cur] = "BLOCKED"])
    /\ UNCHANGED <<next, live, created, val>>

\* The loop of sem_P ends and the value is decremented.
\* Fault: the value is not looked at (again).
Take_unchecked(s) ==
    /\ val' = [val EXCEPT ![s] = @ - 1]
    /\ UNCHANGED wait

Take(s) ==
    /\ val[s] # 0
    /\ val' = [val EXCEPT ![s] = @ - 1]
    /\ UNCHANGED wait

(***************************************************************************)
(* sync_tool_get and thread_wakeup: the thread at the head of the queue,   *)
(* if there is one, is unlinked and made READY.                            *)
(***************************************************************************)
\* Fault: the thread is woken but stays in the queue.
WakeHead_kept(s) ==
    /\ status' = IF wait[s] = <<>> THEN status
                 ELSE [status EXCEPT ![Head(wait[s])] = "READY"]
    /\ UNCHANGED wait

WakeHead(s) ==
    IF wait[s] = <<>>
    THEN UNCHANGED <<wait, status>>
    ELSE /\ wait' = [wait EXCEPT ![s] = Tail(@)]
         /\ status' = [status EXCEPT ![Head(wait[s])] = "READY"]

\* Fault: a thread is woken only when the value leaves 0.
Post_fromZero(s) ==
    /\ IF val[s] = 0 THEN WakeHead(s) ELSE UNCHANGED <<wait, status>>
    /\ val' = [val EXCEPT ![s] = @ + 1]
    /\ UNCHANGED <<next, time_left, cur, live, created, cr3, esp0>>

\* sem_V
Post(s) ==
    /\ WakeHead(s)
    /\ val' = [val EXCEPT ![s] = @ + 1]
    /\ UNCHANGED <<next, time_left, cur, live, created, cr3, esp0>>

-----------------------------------------------------------------------------
sem_P(s) ==
    /\ InKernel /\ ~InCriticalSection
    /\ cur # Main
    /\ s \in PlainSem
    /\ \/ Take(s) /\ UNCHANGED <<tvars, at>>
       \/ Sleep(s)
    /\ UNCHANGED <<holder, cs, irq>>

sem_V(s) ==
    /\ InKernel
    /\ s \in PlainSem
    /\ val[s] < MaxVal
    /\ Post(s)
    /\ UNCHANGED <<iflag, holder, at, cs, irq>>

\* The running thread becomes the holder and enters its critical section.
Own(l) ==
    /\ holder' = [holder EXCEPT ![l] = cur]
    /\ cs' = [cs EXCEPT ![l] = @ \cup {cur}]

lock_acquire(l) ==
    /\ InKernel /\ ~InCriticalSection
    /\ l \in Lock
    /\ holder[l] # cur
    /\ \/ Take(l) /\ Own(l) /\ UNCHANGED <<tvars, at>>
       \/ Sleep(l) /\ UNCHANGED <<holder, cs>>
    /\ UNCHANGED irq

\* What lock_release does when the caller is the holder.
Disown(l) ==
    /\ holder' = [holder EXCEPT ![l] = NoTcb]
    /\ Post(l)

\* Fault: the holder is not checked.
lock_release_any(l) ==
    /\ InKernel
    /\ l \in Lock /\ cur \in cs[l]
    /\ cs' = [cs EXCEPT ![l] = @ \ {cur}]
    /\ Disown(l)
    /\ UNCHANGED <<iflag, at, irq>>

lock_release(l) ==
    /\ InKernel
    /\ l \in Lock /\ cur \in cs[l]
    /\ cs' = [cs EXCEPT ![l] = @ \ {cur}]
    /\ \/ holder[l] = cur /\ Disown(l) /\ UNCHANGED iflag
       \/ holder[l] # cur /\ UNCHANGED <<tvars, val, wait, holder>>
    /\ UNCHANGED <<at, irq>>

(***************************************************************************)
(* A thread that has been resumed inside sem_P tests the value again.  On  *)
(* success sem_P, and the lock_acquire that called it, return with         *)
(* interrupts enabled.                                                     *)
(***************************************************************************)
ResumeTakes(s) ==
    /\ Take(s)
    /\ at' = [at EXCEPT ![cur] = NoSem]
    /\ iflag' = [iflag EXCEPT ![cur] = TRUE]
    /\ IF s \in Lock THEN Own(s) ELSE UNCHANGED <<holder, cs>>
    /\ UNCHANGED <<next, status, time_left, cur, live, created, cr3, esp0, irq>>

Resume ==
    /\ at[cur] # NoSem /\ cur \notin irq
    /\ \/ ResumeTakes(at[cur])
       \/ Sleep(at[cur]) /\ UNCHANGED <<holder, cs, irq>>

-----------------------------------------------------------------------------
(***************************************************************************)
(* The keyboard interrupt calls printk on behalf of the thread it          *)
(* interrupts.  If that thread holds printk_lock, lock_acquire lets it     *)
(* through and lock_release gives the lock up.  If the lock is free it is  *)
(* taken and given up within the handler.  Otherwise the interrupted       *)
(* thread, which may be a user task, blocks inside the handler.            *)
(***************************************************************************)
\* printk with interrupts disabled and the lock free: the token is taken and put back.
PrintInHandler ==
    /\ val[PrintkLock] # 0
    /\ WakeHead(PrintkLock)
    /\ UNCHANGED <<next, time_left, cur, live, created, cr3, esp0, val, holder, cs>>

interrupt_handler_keyboard ==
    /\ iflag[cur]
    /\ \/ holder[PrintkLock] = cur /\ Disown(PrintkLock) /\ UNCHANGED <<iflag, at, cs, irq>>
       \/ holder[PrintkLock] # cur /\ PrintInHandler /\ UNCHANGED <<iflag, at, irq>>
       \/ /\ holder[PrintkLock] # cur
          /\ Sleep(PrintkLock)
          /\ irq' = irq \cup {cur}
          /\ UNCHANGED <<holder, cs>>

ResumeInHandler ==
    /\ at[cur] # NoSem /\ cur \in irq
    /\ \/ /\ PrintInHandler
          /\ at' = [at EXCEPT ![cur] = NoSem]
          /\ iflag' = [iflag EXCEPT ![cur] = TRUE]
          /\ irq' = irq \ {cur}
       \/ Sleep(PrintkLock) /\ UNCHANGED <<holder, cs, irq>>

-----------------------------------------------------------------------------
Preempt == timer_server_func /\ UNCHANGED svars

Create(t) == InKernel /\ create_thread(t) /\ UNCHANGED svars

SyncNext ==
    \/ \E s \in PlainSem : sem_P(s) \/ sem_V(s)
    \/ \E l \in Lock : lock_acquire(l) \/ lock_release(l)
    \/ Resume
    \/ Preempt
    \/ \E t \in Tcb : Create(t)

SyncSpec == SyncInit /\ [][SyncNext]_vars

\* The same with the keyboard.
IrqNext == SyncNext \/ interrupt_handler_keyboard \/ ResumeInHandler

IrqSpec == SyncInit /\ [][IrqNext]_vars

-----------------------------------------------------------------------------
(***************************************************************************)
(* Type correctness of the semaphores and locks.                           *)
(***************************************************************************)
SyncTypeOK ==
    /\ val \in [Sem -> Nat]
    /\ wait \in [Sem -> Seq(Tcb)]
    /\ holder \in [Lock -> Tcb \cup {NoTcb}]
    /\ at \in [Tcb -> Sem \cup {NoSem}]
    /\ cs \in [Lock -> SUBSET Tcb]
    /\ irq \in SUBSET Tcb

(***************************************************************************)
(* At most one thread is between lock_acquire and lock_release.            *)
(***************************************************************************)
MutualExclusion == \A l \in Lock : \A t, u \in cs[l] : t = u

(***************************************************************************)
(* The holder field and the value of a lock's semaphore always agree (the  *)
(* value is 1 exactly when there is no holder), the holder is in its       *)
(* critical section, and it is able to run, or waits inside the keyboard   *)
(* handler for the printk lock, whose own holder never waits: the threads  *)
(* that wait for a lock wait for someone who will release it.              *)
(***************************************************************************)
LockConsistent ==
    \A l \in Lock :
        /\ val[l] = IF holder[l] = NoTcb THEN 1 ELSE 0
        /\ holder[l] # NoTcb =>
              /\ holder[l] \in cs[l]
              /\ status[holder[l]] = "BLOCKED" => l # PrintkLock /\ holder[l] \in irq

(***************************************************************************)
(* A thread is BLOCKED exactly when its node is in the queue of the        *)
(* semaphore whose sem_P it is in, and then only once: the node is a local *)
(* variable of sem_P, so it must be unlinked before the thread goes on,    *)
(* and a second insertion would make the list cyclic.  It follows that     *)
(* schedule never finds all threads blocked (which it calls not allowed):  *)
(* it would go on with a thread whose node is still queued.                *)
(***************************************************************************)
Queued(t, s) == \E i \in DOMAIN wait[s] : wait[s][i] = t

BlockedIsQueued ==
    /\ \A t \in live : status[t] = "BLOCKED" <=> at[t] # NoSem /\ Queued(t, at[t])
    /\ \A s \in Sem, t \in Tcb : Queued(t, s) => t \in live /\ at[t] = s
    /\ \A s \in Sem : \A i, j \in DOMAIN wait[s] : wait[s][i] = wait[s][j] => i = j

(***************************************************************************)
(* No wake-up is lost: while threads wait, every token of the semaphore    *)
(* has a thread that was woken for it and has yet to run.                  *)
(***************************************************************************)
Woken(s) == {t \in Tcb : at[t] = s /\ ~Queued(t, s)}

NoLostWakeup == \A s \in Sem : wait[s] # <<>> => val[s] <= Cardinality(Woken(s))

(***************************************************************************)
(* The queue is first come, first served: a thread leaves it only from the *)
(* head, and nobody is put before those that wait already.                 *)
(***************************************************************************)
FirstComeFirstServed ==
    [][\A s \in Sem : \/ IsPrefix(wait[s], wait'[s])
                      \/ wait[s] # <<>> /\ wait'[s] = Tail(wait[s])]_vars

(***************************************************************************)
(* Every thread that waits for the printk lock is woken, in spite of the   *)
(* keyboard.  (It is not promised the lock: another thread may take it     *)
(* before the woken one runs, which then waits again at the end.)          *)
(***************************************************************************)
PrintkWaiterWoken ==
    \A t \in Tcb : Queued(t, PrintkLock) ~> ~Queued(t, PrintkLock)
=============================================================================
