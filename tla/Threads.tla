------------------------------ MODULE Threads ------------------------------
(***************************************************************************)
(* The thread module of the kernel (kernel/modules/threads): the circular  *)
(* list of TCBs, the round-robin scheduler driven by the timer interrupt,  *)
(* blocking and waking, creation and exit, and the activation of a task's  *)
(* address space that goes with a switch.                                  *)
(*                                                                         *)
(* The machine has one processor.  A step of this module is what the       *)
(* running thread, or the timer handler on top of it, does between two     *)
(* points where the interrupt flag is set; the code runs each of these     *)
(* operations with interrupts disabled.                                    *)
(***************************************************************************)
EXTENDS Naturals, FiniteSets

CONSTANTS Tcb,        \* the TCBs: the main thread's and the pages create_* may get
          Main,       \* the statically allocated main_TCB (tid 0)
          UserTask,   \* the TCBs that create_user_task makes (is_kern_thread False)
          Exiters,    \* the threads whose function returns, or calls exit
          TIME_CONT   \* the ticks of a time slice

ASSUME ThreadsAssumption ==
    /\ IsFiniteSet(Tcb)
    /\ Main \in Tcb
    /\ UserTask \subseteq Tcb \ {Main}
    /\ Exiters \subseteq Tcb \ UserTask
    /\ TIME_CONT \in Nat

VARIABLES next,       \* TCB_t.next
          status,     \* TCB_t.task_status
          time_left,  \* TCB_t.time_left
          iflag,      \* the IF bit a thread runs with, kept in its eflags when it is switched out
          cur,        \* cur_tcb
          live,       \* the TCBs linked into the ring
          created,    \* the TCBs ever handed to create_thread: an exited one is not reused
          cr3,        \* the loaded page directory: Main's is the kernel's, a user task's its own
          esp0        \* the TCB whose kernel stack the TSS names

tvars == <<next, status, time_left, iflag, cur, live, created, cr3, esp0>>

Status == {"RUNNING", "READY", "BLOCKED"}

(***************************************************************************)
(* threads_init, and kern_entry up to its sti().                           *)
(***************************************************************************)
ThreadsInit ==
    /\ next = [t \in Tcb |-> t]
    /\ status = [t \in Tcb |-> "RUNNING"]
    /\ time_left = [t \in Tcb |-> TIME_CONT]
    /\ iflag = [t \in Tcb |-> TRUE]
    /\ cur = Main
    /\ live = {Main}
    /\ created = {Main}
    /\ cr3 = Main
    /\ esp0 = Main

(***************************************************************************)
(* The page directory of a thread, and active_task: every switch loads it; *)
(* for a user task the TSS also gets the task's kernel stack.              *)
(***************************************************************************)
Pdt(t) == IF t \in UserTask THEN t ELSE Main

\* Fault: a kernel thread keeps the directory of the task before it.
active_task_userOnly(t) ==
    /\ cr3' = IF t \in UserTask THEN t ELSE cr3
    /\ esp0' = IF t \in UserTask THEN t ELSE esp0

active_task(t) ==
    /\ cr3' = Pdt(t)
    /\ esp0' = IF t \in UserTask THEN t ELSE esp0

(***************************************************************************)
(* switch_to: the registers are saved in the old TCB and loaded from the   *)
(* new one, the eflags with them, so the IF bit stays with its thread.     *)
(***************************************************************************)
switch_to(t) == cur' = t

(***************************************************************************)
(* The probe of schedule: probe[k] is the k-th TCB it looks at.  The loop  *)
(* ends at the first READY one or when it is back at cur_tcb.  Every TCB   *)
(* it meets is on the ring.                                                *)
(***************************************************************************)
probe[k \in Nat] == IF k = 0 THEN cur ELSE next[probe[k - 1]]

\* Fault: anything that is not running will do.
Stops_notRunning(st, t) == t = cur \/ st[t] # "RUNNING"

Stops(st, t) == t = cur \/ st[t] = "READY"

ScanEndsAt(st, t) ==
    \E k \in 1 .. Cardinality(Tcb) :
        /\ probe[k] = t
        /\ Stops(st, t)
        /\ \A j \in 1 .. (k - 1) : ~Stops(st, probe[j])

\* What schedule makes of the status of the thread it takes the processor from.
\* Fault: the status is left alone.
Demoted_never(s) == s

Demoted(s) == IF s = "RUNNING" THEN "READY" ELSE s

(***************************************************************************)
(* schedule, entered with the statuses st.  If no other thread is READY    *)
(* the running one gets a new slice, and is woken if it had just blocked.  *)
(* Otherwise it is demoted to READY (unless it blocked) and the processor  *)
(* goes to the thread found.  The warning printed when all are blocked is  *)
(* left out: that case does not occur (SyncProofs, RunnerIsNotQueued).     *)
(***************************************************************************)
schedule(st) ==
    \E t \in live :
        /\ ScanEndsAt(st, t)
        /\ time_left' = [time_left EXCEPT ![t] = TIME_CONT]
        /\ \/ /\ t = cur
              /\ status' = [st EXCEPT ![cur] =
                               IF st[cur] = "BLOCKED" THEN "RUNNING" ELSE @]
              /\ UNCHANGED <<cur, cr3, esp0>>
           \/ /\ t # cur
              /\ status' = [st EXCEPT ![cur] = Demoted(@), ![t] = "RUNNING"]
              /\ active_task(t)
              /\ switch_to(t)

(***************************************************************************)
(* create_thread (with create_TCB): the new TCB goes right after cur_tcb.  *)
(* Both the creator (by the final sti) and the new thread (by its initial  *)
(* eflags) run with interrupts enabled.  There are no system calls yet, so *)
(* a user task never creates, blocks, wakes or exits.                      *)
(***************************************************************************)
\* Fault: the new TCB is not linked to the rest of the ring.
LinkAfterCur_lost(t) == next' = [next EXCEPT ![cur] = t]

LinkAfterCur(t) == next' = [next EXCEPT ![cur] = t, ![t] = next[cur]]

create_thread(t) ==
    /\ cur \notin UserTask
    /\ t \in Tcb \ created
    /\ LinkAfterCur(t)
    /\ status' = [status EXCEPT ![t] = "READY"]
    /\ time_left' = [time_left EXCEPT ![t] = TIME_CONT]
    /\ iflag' = [iflag EXCEPT ![cur] = TRUE, ![t] = TRUE]
    /\ live' = live \cup {t}
    /\ created' = created \cup {t}
    /\ UNCHANGED <<cur, cr3, esp0>>

(***************************************************************************)
(* The timer interrupt: the tick is charged to the running thread, or its  *)
(* slice is over.                                                          *)
(***************************************************************************)
\* Fault: the slice is charged even when it is used up.
Tick_unchecked ==
    /\ time_left' = [time_left EXCEPT ![cur] = @ - 1]
    /\ UNCHANGED <<status, cur, cr3, esp0>>

\* Fault: only time_counter is advanced.
Tick_uncharged ==
    /\ time_left[cur] # 0
    /\ UNCHANGED <<time_left, status, cur, cr3, esp0>>

Tick ==
    /\ time_left[cur] # 0
    /\ time_left' = [time_left EXCEPT ![cur] = @ - 1]
    /\ UNCHANGED <<status, cur, cr3, esp0>>

SliceOver ==
    /\ time_left[cur] = 0
    /\ schedule(status)

timer_server_func ==
    /\ iflag[cur]
    /\ Tick \/ SliceOver
    /\ UNCHANGED <<next, iflag, live, created>>

thread_block ==
    /\ cur \notin UserTask
    /\ schedule([status EXCEPT ![cur] = "BLOCKED"])
    /\ UNCHANGED <<next, iflag, live, created>>

thread_wakeup(t) ==
    /\ cur \notin UserTask
    /\ t \in live
    /\ status' = [status EXCEPT ![t] = "READY"]
    /\ UNCHANGED <<next, time_left, iflag, cur, live, created, cr3, esp0>>

(***************************************************************************)
(* remove_thread unlinks the running thread by searching its predecessor;  *)
(* the main thread is refused (and goes on).  The message it prints then,  *)
(* which may wait for the printk lock first, is left out: the main thread  *)
(* of the kernel does not call exit.                                       *)
(***************************************************************************)
remove_thread ==
    IF cur = Main
    THEN UNCHANGED <<next, live>>
    ELSE \E p \in live :
            /\ next[p] = cur
            /\ next' = [next EXCEPT ![p] = next[cur]]
            /\ live' = live \ {cur}

(***************************************************************************)
(* exit: the processor goes to the next TCB of the ring, whatever its      *)
(* status, which is not changed, and without active_task.  The cli of      *)
(* remove_thread stays in force in a main thread that is resumed later.    *)
(***************************************************************************)
exit ==
    /\ cur \in Exiters
    /\ remove_thread
    /\ iflag' = [iflag EXCEPT ![cur] = FALSE]
    /\ time_left' = [time_left EXCEPT ![next[cur]] = TIME_CONT]
    /\ switch_to(next[cur])
    /\ UNCHANGED <<status, created, cr3, esp0>>

ThreadsNext ==
    \/ \E t \in Tcb : create_thread(t)
    \/ timer_server_func
    \/ thread_block
    \/ \E t \in Tcb : thread_wakeup(t)
    \/ exit

ThreadsSpec == ThreadsInit /\ [][ThreadsNext]_tvars

\* The timer keeps interrupting while interrupts are enabled.
FairThreadsSpec == ThreadsSpec /\ WF_tvars(timer_server_func)

-----------------------------------------------------------------------------
(***************************************************************************)
(* Type correctness of the thread module's state.                          *)
(***************************************************************************)
ThreadsTypeOK ==
    /\ next \in [Tcb -> Tcb]
    /\ status \in [Tcb -> Status]
    /\ time_left \in [Tcb -> 0 .. TIME_CONT]
    /\ iflag \in [Tcb -> BOOLEAN]
    /\ cur \in Tcb
    /\ created \in SUBSET Tcb
    /\ live \in SUBSET created
    /\ cr3 \in UserTask \cup {Main}
    /\ esp0 \in UserTask \cup {Main}

(***************************************************************************)
(* The TCBs form one ring: the running thread is on it, no two TCBs have   *)
(* the same successor, and no proper part of the ring is closed under      *)
(* next, so following next from any TCB visits all of them (what the       *)
(* probe loop of schedule and the search loop of remove_thread rely on to  *)
(* end).                                                                   *)
(***************************************************************************)
SingleRing ==
    /\ cur \in live
    /\ \A t \in live : next[t] \in live
    /\ \A t, u \in live : next[t] = next[u] => t = u
    /\ \A S \in SUBSET live :
          S # {} /\ (\A t \in S : next[t] \in S) => S = live

(***************************************************************************)
(* schedule only ever picks a READY thread, so a thread left RUNNING while *)
(* another one has the processor would never run again.  There is none,    *)
(* except a main thread that called exit against the rule.                 *)
(***************************************************************************)
NoThreadLost ==
    \A t \in live : status[t] = "RUNNING" => t \in {cur} \cup (Exiters \cap {Main})

(***************************************************************************)
(* The running thread runs in its own address space, and an interrupt      *)
(* taken in a user task finds that task's kernel stack in the TSS          *)
(* (active_task before every switch).                                      *)
(***************************************************************************)
AddressSpaceActive ==
    /\ cr3 = Pdt(cur)
    /\ cur \in UserTask => esp0 = cur

(***************************************************************************)
(* A switch never resumes a BLOCKED thread: it waits until a wake-up has   *)
(* made it READY.                                                          *)
(***************************************************************************)
BlockedStaysOff == [][cur' # cur => status[cur'] # "BLOCKED"]_tvars

(***************************************************************************)
(* Round robin: a READY thread gets the processor (it cannot leave the     *)
(* ring without it), whatever the others create, block, wake or end.       *)
(***************************************************************************)
ReadyRuns ==
    \A t \in Tcb : (t \in live /\ status[t] = "READY") ~> (cur = t)
=============================================================================
