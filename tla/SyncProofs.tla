----------------------------- MODULE SyncProofs -----------------------------
(***************************************************************************)
(* Proofs about semaphores and locks, for every set of threads, semaphores *)
(* and locks, with the keyboard handler: first the locks, then the wait    *)
(* queues of the semaphores (a thread is blocked exactly when it is        *)
(* queued, no wake-up is lost, and the queues are served in order).        *)
(***************************************************************************)
EXTENDS Sync, ThreadsProofs

(***************************************************************************)
(* The state of both modules has its types and the TCBs form one ring.     *)
(***************************************************************************)
BaseInv == RingInv /\ SyncTypeOK

(***************************************************************************)
(* What every proof below needs to know of the running thread.             *)
(***************************************************************************)
LEMMA CurFacts ==
    ASSUME BaseInv
    PROVE  cur \in Tcb /\ cur \in live /\ live \subseteq Tcb
BY DEF BaseInv, RingInv, ThreadsTypeOK, SingleRing

(***************************************************************************)
(* A thread that goes to sleep on a semaphore keeps the ring and the types *)
(* of everything it touches.                                               *)
(***************************************************************************)
LEMMA SleepKeepsBase ==
    ASSUME BaseInv, NEW s \in Sem, Sleep(s)
    PROVE  /\ RingInv'
           /\ val' = val
           /\ wait' \in [Sem -> Seq(Tcb)]
           /\ at' \in [Tcb -> Sem \cup {NoSem}]
<1> DEFINE st == [status EXCEPT ![cur] = "BLOCKED"]
<1>1. cur \in Tcb /\ cur \in live /\ live \subseteq Tcb
  BY CurFacts
<1>2. st \in [Tcb -> Status] /\ schedule(st)
  BY DEF Sleep, BaseInv, RingInv, ThreadsTypeOK, Status
<1>3. iflag' \in [Tcb -> BOOLEAN]
  BY DEF Sleep, BaseInv, RingInv, ThreadsTypeOK
<1>4. UNCHANGED <<next, live, created, val>>
  BY DEF Sleep
<1>5. RingInv'
  <2> HIDE DEF st
  <2>1. /\ time_left' \in [Tcb -> 0 .. TIME_CONT]
        /\ status' \in [Tcb -> Status]
        /\ cur' \in live
        /\ cr3' \in UserTask \cup {Main}
        /\ esp0' \in UserTask \cup {Main}
    BY <1>1, <1>2, ScheduleTypes DEF BaseInv, RingInv
  <2> QED BY <2>1, <1>1, <1>3, <1>4 DEF BaseInv, RingInv, ThreadsTypeOK, SingleRing
<1>6. wait' \in [Sem -> Seq(Tcb)]
  BY <1>1 DEF Sleep, Enqueue, BaseInv, SyncTypeOK
<1>7. at' \in [Tcb -> Sem \cup {NoSem}]
  BY DEF Sleep, BaseInv, SyncTypeOK
<1> QED BY <1>4, <1>5, <1>6, <1>7

(***************************************************************************)
(* Waking the head of a queue keeps the ring and the queue's type.         *)
(***************************************************************************)
LEMMA WakeHeadKeepsBase ==
    ASSUME BaseInv, NEW s \in Sem, WakeHead(s), iflag' \in [Tcb -> BOOLEAN],
           UNCHANGED <<next, time_left, cur, live, created, cr3, esp0>>
    PROVE  RingInv' /\ wait' \in [Sem -> Seq(Tcb)]
<1>1. status' \in [Tcb -> Status] /\ wait' \in [Sem -> Seq(Tcb)]
  <2>1. CASE wait[s] = <<>>
    BY <2>1 DEF WakeHead, BaseInv, RingInv, ThreadsTypeOK, SyncTypeOK
  <2>2. CASE wait[s] # <<>>
    <3>1. wait[s] \in Seq(Tcb)
      BY DEF BaseInv, SyncTypeOK
    <3>2. Head(wait[s]) \in Tcb /\ Tail(wait[s]) \in Seq(Tcb)
      BY <3>1, <2>2
    <3> QED BY <3>2, <2>2 DEF WakeHead, BaseInv, RingInv, ThreadsTypeOK, SyncTypeOK, Status
  <2> QED BY <2>1, <2>2
<1> QED BY <1>1 DEF BaseInv, RingInv, ThreadsTypeOK, SingleRing

(***************************************************************************)
(* Taking a token: the value was positive, so it stays a natural number.   *)
(***************************************************************************)
LEMMA TakeType ==
    ASSUME BaseInv, NEW s \in Sem, Take(s)
    PROVE  val' \in [Sem -> Nat] /\ val'[s] = val[s] - 1
BY DEF Take, BaseInv, SyncTypeOK

(***************************************************************************)
(* Putting a token back.                                                   *)
(***************************************************************************)
LEMMA PostType ==
    ASSUME BaseInv, NEW s \in Sem, Post(s)
    PROVE  val' \in [Sem -> Nat] /\ val'[s] = val[s] + 1
BY DEF Post, BaseInv, SyncTypeOK

(***************************************************************************)
(* Becoming the holder of a lock.                                          *)
(***************************************************************************)
LEMMA OwnType ==
    ASSUME BaseInv, NEW l \in Lock, Own(l)
    PROVE  holder' \in [Lock -> Tcb \cup {NoTcb}] /\ cs' \in [Lock -> SUBSET Tcb]
BY CurFacts DEF Own, BaseInv, SyncTypeOK

(***************************************************************************)
(* Every step of the semaphores and locks, the keyboard handler included,  *)
(* keeps the types and the ring.                                           *)
(***************************************************************************)
LEMMA BaseStep == BaseInv /\ [IrqNext]_vars => BaseInv'
<1> SUFFICES ASSUME BaseInv, [IrqNext]_vars PROVE BaseInv'
  OBVIOUS
<1>1. cur \in Tcb /\ cur \in live /\ live \subseteq Tcb
  BY CurFacts
<1>2. /\ PlainSem \subseteq Sem
      /\ Lock \subseteq Sem
      /\ PrintkLock \in Lock
  BY SyncAssumption DEF Sem
<1>3. ASSUME UNCHANGED tvars PROVE RingInv'
  BY <1>3 DEF tvars, BaseInv, RingInv, ThreadsTypeOK, SingleRing
<1>4. ASSUME NEW b \in BOOLEAN, iflag' = [iflag EXCEPT ![cur] = b]
      PROVE  iflag' \in [Tcb -> BOOLEAN]
  BY <1>4 DEF BaseInv, RingInv, ThreadsTypeOK
<1>5. iflag \in [Tcb -> BOOLEAN]
  BY DEF BaseInv, RingInv, ThreadsTypeOK
<1>6. ASSUME NEW s \in PlainSem, sem_P(s) PROVE BaseInv'
  <2>1. CASE Take(s) /\ UNCHANGED <<tvars, at>>
    BY <1>2, <1>3, <1>6, <2>1, TakeType DEF sem_P, Take, BaseInv, SyncTypeOK
  <2>2. CASE Sleep(s)
    BY <1>2, <1>6, <2>2, SleepKeepsBase DEF sem_P, BaseInv, SyncTypeOK
  <2> QED BY <1>6, <2>1, <2>2 DEF sem_P
<1>7. ASSUME NEW s \in PlainSem, sem_V(s) PROVE BaseInv'
  <2>1. RingInv' /\ wait' \in [Sem -> Seq(Tcb)]
    BY <1>2, <1>5, <1>7, WakeHeadKeepsBase DEF sem_V, Post
  <2>2. val' \in [Sem -> Nat]
    BY <1>2, <1>7, PostType DEF sem_V
  <2> QED BY <2>1, <2>2, <1>7 DEF sem_V, BaseInv, SyncTypeOK
<1>8. ASSUME NEW l \in Lock, lock_acquire(l) PROVE BaseInv'
  <2>1. CASE Take(l) /\ Own(l) /\ UNCHANGED <<tvars, at>>
    BY <1>2, <1>3, <1>8, <2>1, TakeType, OwnType DEF lock_acquire, Take, BaseInv, SyncTypeOK
  <2>2. CASE Sleep(l) /\ UNCHANGED <<holder, cs>>
    BY <1>2, <1>8, <2>2, SleepKeepsBase DEF lock_acquire, BaseInv, SyncTypeOK
  <2> QED BY <1>8, <2>1, <2>2 DEF lock_acquire
<1>9. ASSUME NEW l \in Lock, Disown(l), UNCHANGED <<iflag, at, irq>>,
             cs' \in [Lock -> SUBSET Tcb]
      PROVE  BaseInv'
  <2>1. RingInv' /\ wait' \in [Sem -> Seq(Tcb)]
    BY <1>2, <1>5, <1>9, WakeHeadKeepsBase DEF Disown, Post
  <2>2. val' \in [Sem -> Nat]
    BY <1>2, <1>9, PostType DEF Disown
  <2>3. holder' \in [Lock -> Tcb \cup {NoTcb}]
    BY <1>9 DEF Disown, BaseInv, SyncTypeOK
  <2> QED BY <2>1, <2>2, <2>3, <1>9 DEF BaseInv, SyncTypeOK
<1>10. ASSUME NEW l \in Lock, lock_release(l) PROVE BaseInv'
  <2>1. cs' \in [Lock -> SUBSET Tcb]
    BY <1>10 DEF lock_release, BaseInv, SyncTypeOK
  <2>2. CASE holder[l] = cur /\ Disown(l) /\ UNCHANGED iflag
    BY <1>9, <1>10, <2>1, <2>2 DEF lock_release
  <2>3. CASE UNCHANGED <<tvars, val, wait, holder>>
    BY <1>3, <1>10, <2>1, <2>3 DEF lock_release, BaseInv, SyncTypeOK
  <2> QED BY <1>10, <2>2, <2>3 DEF lock_release
<1>11. ASSUME NEW s \in Sem, ResumeTakes(s) PROVE BaseInv'
  <2>1. at' \in [Tcb -> Sem \cup {NoSem}]
    BY <1>11 DEF ResumeTakes, BaseInv, SyncTypeOK
  <2>2. iflag' \in [Tcb -> BOOLEAN]
    BY <1>4, <1>11 DEF ResumeTakes
  <2>3. RingInv'
    BY <2>2, <1>11 DEF ResumeTakes, BaseInv, RingInv, ThreadsTypeOK, SingleRing
  <2>4. holder' \in [Lock -> Tcb \cup {NoTcb}] /\ cs' \in [Lock -> SUBSET Tcb]
    BY <1>11, OwnType DEF ResumeTakes, BaseInv, SyncTypeOK
  <2>5. val' \in [Sem -> Nat] /\ wait' = wait /\ irq' = irq
    BY <1>11, TakeType DEF ResumeTakes, Take
  <2> QED BY <2>1, <2>3, <2>4, <2>5 DEF BaseInv, SyncTypeOK
<1>12. CASE Resume
  <2>1. at[cur] \in Sem
    BY <1>1, <1>12 DEF Resume, BaseInv, SyncTypeOK
  <2>2. CASE ResumeTakes(at[cur])
    BY <2>1, <2>2, <1>11
  <2>3. CASE Sleep(at[cur]) /\ UNCHANGED <<holder, cs, irq>>
    BY <2>1, <2>3, SleepKeepsBase DEF BaseInv, SyncTypeOK
  <2> QED BY <1>12, <2>2, <2>3 DEF Resume
<1>13. ASSUME PrintInHandler, iflag' \in [Tcb -> BOOLEAN],
              at' \in [Tcb -> Sem \cup {NoSem}], irq' \in SUBSET Tcb
       PROVE  BaseInv'
  <2>1. RingInv' /\ wait' \in [Sem -> Seq(Tcb)]
    BY <1>2, <1>13, WakeHeadKeepsBase DEF PrintInHandler
  <2> QED BY <2>1, <1>13 DEF PrintInHandler, BaseInv, SyncTypeOK
<1>14. ASSUME Sleep(PrintkLock), irq' \in SUBSET Tcb, UNCHANGED <<holder, cs>>
       PROVE  BaseInv'
  BY <1>2, <1>14, SleepKeepsBase DEF BaseInv, SyncTypeOK
<1>15. irq \in SUBSET Tcb /\ irq \cup {cur} \in SUBSET Tcb /\ irq \ {cur} \in SUBSET Tcb
  BY <1>1 DEF BaseInv, SyncTypeOK
<1>16. CASE interrupt_handler_keyboard
  <2>1. CASE Disown(PrintkLock) /\ UNCHANGED <<iflag, at, cs, irq>>
    BY <2>1, <1>2, <1>9 DEF BaseInv, SyncTypeOK
  <2>2. CASE PrintInHandler /\ UNCHANGED <<iflag, at, irq>>
    BY <2>2, <1>5, <1>13 DEF BaseInv, SyncTypeOK
  <2>3. CASE Sleep(PrintkLock) /\ irq' = irq \cup {cur} /\ UNCHANGED <<holder, cs>>
    BY <2>3, <1>14, <1>15
  <2> QED BY <1>16, <2>1, <2>2, <2>3 DEF interrupt_handler_keyboard
<1>17. CASE ResumeInHandler
  <2>1. CASE /\ PrintInHandler
             /\ at' = [at EXCEPT ![cur] = NoSem]
             /\ iflag' = [iflag EXCEPT ![cur] = TRUE]
             /\ irq' = irq \ {cur}
    <3>1. at' \in [Tcb -> Sem \cup {NoSem}]
      BY <2>1 DEF BaseInv, SyncTypeOK
    <3>2. iflag' \in [Tcb -> BOOLEAN]
      BY <2>1, <1>4
    <3> QED BY <2>1, <3>1, <3>2, <1>13, <1>15
  <2>2. CASE Sleep(PrintkLock) /\ UNCHANGED <<holder, cs, irq>>
    BY <2>2, <1>14, <1>15
  <2> QED BY <1>17, <2>1, <2>2 DEF ResumeInHandler
<1>18. CASE Preempt
  <2>1. RingInv'
    BY <1>18, RingStep DEF Preempt, ThreadsNext, BaseInv
  <2> QED BY <1>18, <2>1 DEF Preempt, svars, BaseInv, SyncTypeOK
<1>19. ASSUME NEW t \in Tcb, Create(t) PROVE BaseInv'
  <2>1. RingInv'
    BY <1>19, CreateKeepsRing DEF Create, BaseInv
  <2> QED BY <1>19, <2>1 DEF Create, svars, BaseInv, SyncTypeOK
<1>20. CASE UNCHANGED vars
  BY <1>20, <1>3 DEF vars, svars, BaseInv, SyncTypeOK
<1> QED BY <1>6, <1>7, <1>8, <1>10, <1>12, <1>16, <1>17, <1>18, <1>19, <1>20
        DEF IrqNext, SyncNext

(***************************************************************************)
(* The initial state.                                                      *)
(***************************************************************************)
LEMMA BaseInit == SyncInit => BaseInv
<1> SUFFICES ASSUME SyncInit PROVE BaseInv
  OBVIOUS
<1>1. RingInv
  BY RingInit DEF SyncInit
<1>2. SyncTypeOK
  BY SyncAssumption DEF SyncInit, SyncTypeOK
<1> QED BY <1>1, <1>2 DEF BaseInv

(***************************************************************************)
(* With the keyboard or without it, the semaphores and locks keep their    *)
(* types, and the threads that sleep and are woken stay on one ring.       *)
(***************************************************************************)
THEOREM SyncTypes == IrqSpec => [](SyncTypeOK /\ SingleRing)
<1>1. BaseInv => SyncTypeOK /\ SingleRing
  BY DEF BaseInv, RingInv
<1> QED BY <1>1, BaseInit, BaseStep, PTL DEF IrqSpec

-----------------------------------------------------------------------------
(***************************************************************************)
(* Mutual exclusion without the keyboard.  MutualExclusion alone is not    *)
(* inductive: it needs that the value of the semaphore tells whether there *)
(* is a holder, and that only the holder is in the critical section.       *)
(***************************************************************************)
Agrees(l) == val[l] = IF holder[l] = NoTcb THEN 1 ELSE 0

MutexInv ==
    \A l \in Lock : Agrees(l) /\ \A t \in cs[l] : holder[l] = t

(***************************************************************************)
(* The step in which the running thread gets a lock keeps MutexInv.        *)
(***************************************************************************)
LEMMA OwnKeepsMutex ==
    ASSUME BaseInv, MutexInv, NEW l \in Lock, Take(l), Own(l)
    PROVE  MutexInv'
<1>1. cur \in Tcb /\ cur # NoTcb /\ l \in Sem
  BY CurFacts, SyncAssumption DEF Sem
<1>2. val[l] # 0 /\ holder[l] = NoTcb /\ val[l] = 1
  BY DEF Take, MutexInv, Agrees
<1>3. cs[l] = {}
  BY <1>2, SyncAssumption DEF MutexInv, BaseInv, SyncTypeOK
<1>4. ASSUME NEW k \in Lock PROVE Agrees(k)' /\ \A t \in cs'[k] : holder'[k] = t
  <2>1. CASE k = l
    BY <2>1, <1>1, <1>2, <1>3 DEF Agrees, Take, Own, BaseInv, SyncTypeOK
  <2>2. CASE k # l
    BY <2>2 DEF Agrees, Take, Own, BaseInv, SyncTypeOK, MutexInv, Sem
  <2> QED BY <2>1, <2>2
<1> QED BY <1>4 DEF MutexInv

(***************************************************************************)
(* Without the keyboard at most one thread is between lock_acquire and     *)
(* lock_release, for any number of threads and locks.                      *)
(***************************************************************************)
THEOREM LocksExclude == SyncSpec => []MutualExclusion
<1>1. SyncInit => MutexInv
  BY DEF SyncInit, MutexInv, Agrees, Sem
<1>2. BaseInv /\ MutexInv /\ [SyncNext]_vars => MutexInv'
  <2> SUFFICES ASSUME BaseInv, MutexInv, [SyncNext]_vars PROVE MutexInv'
    OBVIOUS
  <2>1. ASSUME \A l \in Lock : val'[l] = val[l], UNCHANGED <<holder, cs>>
        PROVE  MutexInv'
    BY <2>1 DEF MutexInv, Agrees
  <2>2. ASSUME NEW s \in PlainSem, sem_P(s) \/ sem_V(s) PROVE MutexInv'
    <3>1. \A l \in Lock : val'[l] = val[l]
      BY <2>2, SyncAssumption
         DEF sem_P, sem_V, Take, Sleep, Post, BaseInv, SyncTypeOK, Sem
    <3> QED BY <3>1, <2>1, <2>2 DEF sem_P, sem_V
  <2>3. ASSUME NEW l \in Lock, lock_acquire(l) PROVE MutexInv'
    BY <2>1, <2>3, OwnKeepsMutex DEF lock_acquire, Sleep
  <2>4. ASSUME NEW l \in Lock, lock_release(l) PROVE MutexInv'
    <3>1. holder[l] = cur
      BY <2>4 DEF lock_release, MutexInv
    <3>2. holder[l] # NoTcb /\ l \in Sem
      BY <3>1, CurFacts, SyncAssumption DEF Sem
    <3>3. /\ holder' = [holder EXCEPT ![l] = NoTcb]
          /\ cs' = [cs EXCEPT ![l] = @ \ {cur}]
          /\ val' = [val EXCEPT ![l] = @ + 1]
      BY <2>4, <3>1 DEF lock_release, Disown, Post
    <3>4. ASSUME NEW k \in Lock PROVE Agrees(k)' /\ \A t \in cs'[k] : holder'[k] = t
      <4>1. CASE k = l
        BY <4>1, <3>1, <3>2, <3>3 DEF Agrees, MutexInv, BaseInv, SyncTypeOK
      <4>2. CASE k # l
        BY <4>2, <3>3 DEF Agrees, MutexInv, BaseInv, SyncTypeOK, Sem
      <4> QED BY <4>1, <4>2
    <3> QED BY <3>4 DEF MutexInv
  <2>5. CASE Resume
    <3>1. at[cur] \in Sem
      BY <2>5, CurFacts DEF Resume, BaseInv, SyncTypeOK
    <3>2. CASE ResumeTakes(at[cur]) /\ at[cur] \in Lock
      BY <3>2, OwnKeepsMutex DEF ResumeTakes
    <3>3. CASE ResumeTakes(at[cur]) /\ at[cur] \notin Lock
      BY <3>1, <3>3, <2>1 DEF ResumeTakes, Take, BaseInv, SyncTypeOK, Sem
    <3>4. CASE Sleep(at[cur]) /\ UNCHANGED <<holder, cs, irq>>
      BY <3>4, <2>1 DEF Sleep
    <3> QED BY <2>5, <3>2, <3>3, <3>4 DEF Resume
  <2>6. CASE Preempt \/ \E t \in Tcb : Create(t)
    BY <2>6, <2>1 DEF Preempt, Create, svars
  <2>7. CASE UNCHANGED vars
    BY <2>7, <2>1 DEF vars, svars
  <2> QED BY <2>2, <2>3, <2>4, <2>5, <2>6, <2>7 DEF SyncNext
<1>3. BaseInv /\ [SyncNext]_vars => BaseInv'
  BY BaseStep DEF IrqNext
<1>4. MutexInv => MutualExclusion
  BY DEF MutexInv, MutualExclusion
<1> QED BY <1>1, <1>2, <1>3, <1>4, BaseInit, PTL DEF SyncSpec

-----------------------------------------------------------------------------
(***************************************************************************)
(* With the keyboard.  That the holder of a lock can run, or waits in the  *)
(* handler only, follows from where a thread can be when it sleeps:        *)
(*   - a thread inside sem_P is in no critical section, unless the handler *)
(*     interrupted it there;                                               *)
(*   - the handler waits for the printk lock only, never as its holder;    *)
(*   - a thread with interrupts enabled is not inside sem_P, a BLOCKED one *)
(*     is, and the running thread is not BLOCKED.                          *)
(***************************************************************************)
HolderInv ==
    /\ \A l \in Lock : Agrees(l) /\ (holder[l] # NoTcb => holder[l] \in cs[l])
    /\ \A t \in Tcb :
          /\ at[t] # NoSem /\ t \notin irq => \A l \in Lock : t \notin cs[l]
          /\ t \in irq => at[t] = PrintkLock /\ holder[PrintkLock] # t
          /\ iflag[t] => at[t] = NoSem
          /\ t \notin created => at[t] = NoSem
          /\ status[t] = "BLOCKED" => at[t] # NoSem
    /\ status[cur] # "BLOCKED"

(***************************************************************************)
(* The parts of the state that HolderInv relates, for a step that leaves   *)
(* the locks alone.                                                        *)
(***************************************************************************)
LEMMA SleepKeepsHolder ==
    ASSUME BaseInv, HolderInv, NEW s \in Sem, Sleep(s), UNCHANGED <<holder, cs>>,
           \/ irq' = irq /\ cur \notin irq /\ \A l \in Lock : cur \notin cs[l]
           \/ irq' = irq \cup {cur} /\ s = PrintkLock /\ holder[PrintkLock] # cur
    PROVE  HolderInv'
<1> DEFINE st == [status EXCEPT ![cur] = "BLOCKED"]
<1>1. cur \in Tcb /\ cur \in live /\ cur \in created /\ s # NoSem
  BY CurFacts, SyncAssumption DEF BaseInv, RingInv, ThreadsTypeOK
<1>2. st \in [Tcb -> Status] /\ schedule(st)
  BY DEF Sleep, BaseInv, RingInv, ThreadsTypeOK, Status
<1>3. /\ status'[cur'] # "BLOCKED"
      /\ \A u \in Tcb : status'[u] = "BLOCKED" => st[u] = "BLOCKED"
  <2> HIDE DEF st
  <2> QED BY <1>1, <1>2, ScheduleBlocksNobody DEF BaseInv, RingInv
<1>4. \A u \in Tcb \ {cur} : status'[u] = "BLOCKED" => status[u] = "BLOCKED"
  BY <1>3 DEF BaseInv, RingInv, ThreadsTypeOK
<1>5. /\ at'[cur] = s /\ ~iflag'[cur]
      /\ \A u \in Tcb \ {cur} : at'[u] = at[u] /\ iflag'[u] = iflag[u]
      /\ created' = created /\ val' = val
  BY <1>1 DEF Sleep, BaseInv, RingInv, ThreadsTypeOK, SyncTypeOK
<1>6. \A l \in Lock : Agrees(l)' /\ (holder'[l] # NoTcb => holder'[l] \in cs'[l])
  BY <1>5 DEF HolderInv, Agrees
<1>7. ASSUME NEW t \in Tcb
      PROVE  /\ at'[t] # NoSem /\ t \notin irq' => \A l \in Lock : t \notin cs'[l]
             /\ t \in irq' => at'[t] = PrintkLock /\ holder'[PrintkLock] # t
             /\ iflag'[t] => at'[t] = NoSem
             /\ t \notin created' => at'[t] = NoSem
             /\ status'[t] = "BLOCKED" => at'[t] # NoSem
  <2>1. CASE t = cur
    BY <2>1, <1>1, <1>5 DEF HolderInv
  <2>2. CASE t # cur
    BY <2>2, <1>4, <1>5 DEF HolderInv
  <2> QED BY <2>1, <2>2
<1> QED BY <1>3, <1>6, <1>7 DEF HolderInv

(***************************************************************************)
(* Waking a thread makes it READY: it blocks nobody.                       *)
(***************************************************************************)
LEMMA WakeHeadBlocksNobody ==
    ASSUME BaseInv, NEW s \in Sem, WakeHead(s)
    PROVE  \A u \in Tcb : status'[u] = "BLOCKED" => status[u] = "BLOCKED"
BY DEF WakeHead, BaseInv, RingInv, ThreadsTypeOK

(***************************************************************************)
(* A step that sets no thread asleep and touches no lock.                  *)
(***************************************************************************)
LEMMA QuietKeepsHolder ==
    ASSUME BaseInv, HolderInv, UNCHANGED <<holder, cs>>, cur' = cur,
           \A l \in Lock : val'[l] = val[l],
           \A u \in Tcb : status'[u] = "BLOCKED" => status[u] = "BLOCKED",
           created' = created,
           \/ UNCHANGED <<at, iflag, irq>>
           \/ /\ at' = [at EXCEPT ![cur] = NoSem]
              /\ iflag' = [iflag EXCEPT ![cur] = TRUE]
              /\ irq' = irq \ {cur}
    PROVE  HolderInv'
<1>1. cur \in Tcb
  BY CurFacts
<1>2. \A l \in Lock : Agrees(l)' /\ (holder'[l] # NoTcb => holder'[l] \in cs'[l])
  BY DEF HolderInv, Agrees
<1>3. status'[cur'] # "BLOCKED"
  BY <1>1 DEF HolderInv
<1>4. ASSUME NEW t \in Tcb
      PROVE  /\ at'[t] # NoSem /\ t \notin irq' => \A l \in Lock : t \notin cs'[l]
             /\ t \in irq' => at'[t] = PrintkLock /\ holder'[PrintkLock] # t
             /\ iflag'[t] => at'[t] = NoSem
             /\ t \notin created' => at'[t] = NoSem
             /\ status'[t] = "BLOCKED" => at'[t] # NoSem
  <2>1. CASE UNCHANGED <<at, iflag, irq>>
    BY <2>1 DEF HolderInv
  <2>2. CASE /\ at' = [at EXCEPT ![cur] = NoSem]
             /\ iflag' = [iflag EXCEPT ![cur] = TRUE]
             /\ irq' = irq \ {cur}
    <3>1. CASE t = cur
      BY <3>1, <2>2, <1>1, <1>3 DEF BaseInv, SyncTypeOK
    <3>2. CASE t # cur
      BY <3>2, <2>2 DEF HolderInv, BaseInv, SyncTypeOK, RingInv, ThreadsTypeOK
    <3> QED BY <3>1, <3>2
  <2> QED BY <2>1, <2>2
<1> QED BY <1>2, <1>3, <1>4 DEF HolderInv

(***************************************************************************)
(* The running thread gets a lock, at once or resumed inside sem_P.        *)
(***************************************************************************)
LEMMA OwnKeepsHolder ==
    ASSUME BaseInv, HolderInv, NEW l \in Lock, Take(l), Own(l), cur \notin irq,
           UNCHANGED <<status, cur, created, irq>>,
           \/ UNCHANGED <<at, iflag>> /\ at[cur] = NoSem
           \/ /\ at' = [at EXCEPT ![cur] = NoSem]
              /\ iflag' = [iflag EXCEPT ![cur] = TRUE]
    PROVE  HolderInv'
<1>1. cur \in Tcb /\ cur # NoTcb /\ l \in Sem
  BY CurFacts, SyncAssumption DEF Sem
<1>2. val[l] = 1 /\ holder[l] = NoTcb
  BY DEF Take, HolderInv, Agrees
<1>3. /\ at'[cur] = NoSem
      /\ \A u \in Tcb \ {cur} : at'[u] = at[u] /\ iflag'[u] = iflag[u]
  BY <1>1 DEF BaseInv, SyncTypeOK, RingInv, ThreadsTypeOK
<1>4. /\ holder'[l] = cur /\ cs'[l] = cs[l] \cup {cur} /\ val'[l] = 0
      /\ \A k \in Lock \ {l} : holder'[k] = holder[k] /\ cs'[k] = cs[k] /\ val'[k] = val[k]
  BY <1>1, <1>2 DEF Take, Own, BaseInv, SyncTypeOK, Sem
<1>5. ASSUME NEW k \in Lock
      PROVE  Agrees(k)' /\ (holder'[k] # NoTcb => holder'[k] \in cs'[k])
  BY <1>1, <1>4 DEF HolderInv, Agrees
<1>6. ASSUME NEW t \in Tcb
      PROVE  /\ at'[t] # NoSem /\ t \notin irq' => \A k \in Lock : t \notin cs'[k]
             /\ t \in irq' => at'[t] = PrintkLock /\ holder'[PrintkLock] # t
             /\ iflag'[t] => at'[t] = NoSem
             /\ t \notin created' => at'[t] = NoSem
             /\ status'[t] = "BLOCKED" => at'[t] # NoSem
  <2>1. CASE t = cur
    BY <2>1, <1>3 DEF HolderInv
  <2>2. CASE t # cur
    BY <2>2, <1>3, <1>4, SyncAssumption DEF HolderInv
  <2> QED BY <2>1, <2>2
<1> QED BY <1>5, <1>6 DEF HolderInv

(***************************************************************************)
(* The running thread gives up the lock it holds: by lock_release, or in   *)
(* the keyboard handler, which leaves it in its critical section.          *)
(***************************************************************************)
LEMMA DisownKeepsHolder ==
    ASSUME BaseInv, HolderInv, NEW l \in Lock, Disown(l), holder[l] = cur,
           UNCHANGED <<iflag, at, irq>>,
           cs' = cs \/ cs' = [cs EXCEPT ![l] = @ \ {cur}]
    PROVE  HolderInv'
<1>1. cur \in Tcb /\ cur # NoTcb /\ l \in Sem
  BY CurFacts, SyncAssumption DEF Sem
<1>2. /\ holder'[l] = NoTcb /\ val'[l] = 1
      /\ \A k \in Lock \ {l} : holder'[k] = holder[k] /\ cs'[k] = cs[k] /\ val'[k] = val[k]
      /\ \A k \in Lock : cs'[k] \subseteq cs[k]
  <2>1. /\ holder' = [holder EXCEPT ![l] = NoTcb]
        /\ val' = [val EXCEPT ![l] = @ + 1]
    BY DEF Disown, Post
  <2>2. /\ val \in [Sem -> Nat]
        /\ holder \in [Lock -> Tcb \cup {NoTcb}]
        /\ cs \in [Lock -> SUBSET Tcb]
    BY DEF BaseInv, SyncTypeOK
  <2>3. val[l] = 0
    BY <1>1 DEF HolderInv, Agrees
  <2>4. holder'[l] = NoTcb /\ val'[l] = 1
    BY <2>1, <2>2, <2>3, <1>1
  <2>5. ASSUME NEW k \in Lock \ {l}
        PROVE  holder'[k] = holder[k] /\ cs'[k] = cs[k] /\ val'[k] = val[k]
    BY <2>1, <2>2 DEF Sem
  <2>6. \A k \in Lock : cs'[k] \subseteq cs[k]
    BY <2>2
  <2> QED BY <2>4, <2>5, <2>6
<1>3. /\ created' = created /\ cur' = cur
      /\ \A u \in Tcb : status'[u] = "BLOCKED" => status[u] = "BLOCKED"
  BY <1>1, WakeHeadBlocksNobody DEF Disown, Post
<1>4. ASSUME NEW k \in Lock
      PROVE  Agrees(k)' /\ (holder'[k] # NoTcb => holder'[k] \in cs'[k])
  BY <1>2 DEF HolderInv, Agrees
<1>5. ASSUME NEW t \in Tcb
      PROVE  /\ at'[t] # NoSem /\ t \notin irq' => \A k \in Lock : t \notin cs'[k]
             /\ t \in irq' => at'[t] = PrintkLock /\ holder'[PrintkLock] # t
             /\ iflag'[t] => at'[t] = NoSem
             /\ t \notin created' => at'[t] = NoSem
             /\ status'[t] = "BLOCKED" => at'[t] # NoSem
  BY <1>2, <1>3, SyncAssumption DEF HolderInv
<1> QED BY <1>1, <1>3, <1>4, <1>5 DEF HolderInv

(***************************************************************************)
(* Every step, the keyboard handler's included, keeps HolderInv.           *)
(***************************************************************************)
LEMMA HolderStep == BaseInv /\ HolderInv /\ [IrqNext]_vars => HolderInv'
<1> SUFFICES ASSUME BaseInv, HolderInv, [IrqNext]_vars PROVE HolderInv'
  OBVIOUS
<1>1. cur \in Tcb /\ cur \in live /\ live \subseteq Tcb
  BY CurFacts
<1>2. /\ PlainSem \subseteq Sem
      /\ Lock \subseteq Sem
      /\ PrintkLock \in Lock
      /\ PrintkLock # NoSem
      /\ \A s \in PlainSem : s \notin Lock
  BY SyncAssumption DEF Sem
<1>3. cur \in irq => at[cur] # NoSem
  BY <1>1, <1>2 DEF HolderInv
<1>4. ASSUME NEW s \in PlainSem, sem_P(s) PROVE HolderInv'
  <2>1. CASE Take(s) /\ UNCHANGED <<tvars, at>>
    <3>1. \A l \in Lock : val'[l] = val[l]
      BY <2>1, <1>2 DEF Take, BaseInv, SyncTypeOK
    <3> QED BY <3>1, <2>1, <1>4, QuietKeepsHolder DEF sem_P, tvars
  <2>2. CASE Sleep(s)
    BY <2>2, <1>2, <1>3, <1>4, SleepKeepsHolder DEF sem_P, InKernel, InCriticalSection
  <2> QED BY <1>4, <2>1, <2>2 DEF sem_P
<1>5. ASSUME NEW s \in PlainSem, sem_V(s) PROVE HolderInv'
  <2>1. \A l \in Lock : val'[l] = val[l]
    BY <1>2, <1>5 DEF sem_V, Post, BaseInv, SyncTypeOK
  <2>2. \A u \in Tcb : status'[u] = "BLOCKED" => status[u] = "BLOCKED"
    BY <1>2, <1>5, WakeHeadBlocksNobody DEF sem_V, Post
  <2> QED BY <2>1, <2>2, <1>5, QuietKeepsHolder DEF sem_V, Post
<1>6. ASSUME NEW l \in Lock, lock_acquire(l) PROVE HolderInv'
  <2>1. CASE Take(l) /\ Own(l) /\ UNCHANGED <<tvars, at>>
    BY <2>1, <1>3, <1>6, OwnKeepsHolder DEF lock_acquire, InKernel, tvars
  <2>2. CASE Sleep(l) /\ UNCHANGED <<holder, cs>>
    BY <2>2, <1>2, <1>3, <1>6, SleepKeepsHolder DEF lock_acquire, InKernel, InCriticalSection
  <2> QED BY <1>6, <2>1, <2>2 DEF lock_acquire
<1>7. ASSUME NEW l \in Lock, lock_release(l) PROVE HolderInv'
  <2>1. CASE holder[l] = cur /\ Disown(l) /\ UNCHANGED iflag
    BY <2>1, <1>7, DisownKeepsHolder DEF lock_release
  <2>2. CASE holder[l] # cur /\ UNCHANGED <<tvars, val, wait, holder>>
    <3>1. cs' = [cs EXCEPT ![l] = @ \ {cur}] /\ UNCHANGED <<at, irq>>
      BY <1>7 DEF lock_release
    <3>2. cs'[l] = cs[l] \ {cur} /\ \A k \in Lock \ {l} : cs'[k] = cs[k]
      BY <3>1 DEF BaseInv, SyncTypeOK
    <3>3. ASSUME NEW k \in Lock
          PROVE  Agrees(k)' /\ (holder'[k] # NoTcb => holder'[k] \in cs'[k])
      BY <3>2, <2>2 DEF HolderInv, Agrees
    <3> QED BY <3>1, <3>2, <3>3, <2>2 DEF HolderInv, tvars
  <2> QED BY <1>7, <2>1, <2>2 DEF lock_release
<1>8. CASE Resume
  <2>1. at[cur] \in Sem /\ at[cur] # NoSem /\ cur \notin irq
    BY <1>1, <1>8 DEF Resume, BaseInv, SyncTypeOK
  <2>2. CASE ResumeTakes(at[cur]) /\ at[cur] \in Lock
    BY <2>1, <2>2, OwnKeepsHolder DEF ResumeTakes
  <2>3. CASE ResumeTakes(at[cur]) /\ at[cur] \notin Lock
    <3>1. \A l \in Lock : val'[l] = val[l]
      BY <2>1, <2>3, <1>2 DEF ResumeTakes, Take, BaseInv, SyncTypeOK
    <3>2. irq' = irq \ {cur}
      BY <2>1, <2>3 DEF ResumeTakes
    <3> QED BY <3>1, <3>2, <2>3, QuietKeepsHolder DEF ResumeTakes
  <2>4. CASE Sleep(at[cur]) /\ UNCHANGED <<holder, cs, irq>>
    <3>1. \A l \in Lock : cur \notin cs[l]
      BY <2>1, <1>1 DEF HolderInv
    <3> QED BY <3>1, <2>1, <2>4, SleepKeepsHolder
  <2> QED BY <1>8, <2>2, <2>3, <2>4 DEF Resume
<1>9. ASSUME PrintInHandler
      PROVE  /\ UNCHANGED <<holder, cs, cur, created>>
             /\ \A l \in Lock : val'[l] = val[l]
             /\ \A u \in Tcb : status'[u] = "BLOCKED" => status[u] = "BLOCKED"
  BY <1>9, <1>2, WakeHeadBlocksNobody DEF PrintInHandler
<1>10. ASSUME Sleep(PrintkLock), holder[PrintkLock] # cur, irq' = irq \cup {cur},
              UNCHANGED <<holder, cs>>
       PROVE  HolderInv'
  BY <1>10, <1>2, SleepKeepsHolder
<1>11. CASE interrupt_handler_keyboard
  <2>1. CASE holder[PrintkLock] = cur /\ Disown(PrintkLock) /\ UNCHANGED <<iflag, at, cs, irq>>
    BY <2>1, <1>2, DisownKeepsHolder
  <2>2. CASE PrintInHandler /\ UNCHANGED <<iflag, at, irq>>
    BY <2>2, <1>9, QuietKeepsHolder
  <2>3. CASE /\ holder[PrintkLock] # cur
             /\ Sleep(PrintkLock)
             /\ irq' = irq \cup {cur}
             /\ UNCHANGED <<holder, cs>>
    BY <2>3, <1>10
  <2> QED BY <1>11, <2>1, <2>2, <2>3 DEF interrupt_handler_keyboard
<1>12. CASE ResumeInHandler
  <2>1. CASE /\ PrintInHandler
             /\ at' = [at EXCEPT ![cur] = NoSem]
             /\ iflag' = [iflag EXCEPT ![cur] = TRUE]
             /\ irq' = irq \ {cur}
    BY <2>1, <1>9, QuietKeepsHolder
  <2>2. CASE Sleep(PrintkLock) /\ UNCHANGED <<holder, cs, irq>>
    <3>1. cur \in irq /\ holder[PrintkLock] # cur
      BY <1>1, <1>12 DEF ResumeInHandler, HolderInv
    <3>2. irq' = irq \cup {cur}
      BY <3>1, <2>2
    <3> QED BY <3>1, <3>2, <2>2, <1>10
  <2> QED BY <1>12, <2>1, <2>2 DEF ResumeInHandler
<1>13. CASE Preempt
  <2>1. UNCHANGED <<val, holder, at, cs, irq, iflag, created>>
    BY <1>13 DEF Preempt, svars, timer_server_func
  <2>2. /\ status'[cur'] # "BLOCKED"
        /\ \A u \in Tcb : status'[u] = "BLOCKED" => status[u] = "BLOCKED"
    <3>1. CASE Tick
      BY <3>1 DEF Tick, HolderInv
    <3>2. CASE SliceOver
      BY <3>2, <1>1, ScheduleBlocksNobody DEF SliceOver, BaseInv, RingInv, ThreadsTypeOK
    <3> QED BY <1>13, <3>1, <3>2 DEF Preempt, timer_server_func
  <2>3. \A l \in Lock : Agrees(l)'
    BY <2>1 DEF HolderInv, Agrees
  <2> QED BY <2>1, <2>2, <2>3 DEF HolderInv
<1>14. ASSUME NEW t \in Tcb, Create(t) PROVE HolderInv'
  <2>1. UNCHANGED <<val, holder, at, cs, irq, cur>>
    BY <1>14 DEF Create, svars, create_thread
  <2>2. /\ at[t] = NoSem /\ at[cur] = NoSem
        /\ iflag' = [iflag EXCEPT ![cur] = TRUE, ![t] = TRUE]
        /\ status' = [status EXCEPT ![t] = "READY"]
        /\ created' = created \cup {t}
    BY <1>14 DEF Create, create_thread, InKernel, HolderInv
  <2>3. /\ \A u \in Tcb \ {t, cur} : iflag'[u] = iflag[u]
        /\ \A u \in Tcb \ {t} : status'[u] = status[u]
        /\ status'[t] = "READY"
    BY <2>2 DEF BaseInv, RingInv, ThreadsTypeOK
  <2>4. \A l \in Lock : Agrees(l)'
    BY <2>1 DEF HolderInv, Agrees
  <2>5. status'[cur'] # "BLOCKED"
    BY <2>1, <2>3, <1>1 DEF HolderInv
  <2>6. ASSUME NEW u \in Tcb
        PROVE  /\ iflag'[u] => at'[u] = NoSem
               /\ u \notin created' => at'[u] = NoSem
               /\ status'[u] = "BLOCKED" => at'[u] # NoSem
    BY <2>1, <2>2, <2>3 DEF HolderInv
  <2> QED BY <2>1, <2>4, <2>5, <2>6 DEF HolderInv
<1>15. CASE UNCHANGED vars
  <2>1. \A l \in Lock : Agrees(l)'
    BY <1>15 DEF HolderInv, Agrees, vars, svars
  <2> QED BY <1>15, <2>1 DEF vars, svars, tvars, HolderInv
<1> QED BY <1>4, <1>5, <1>6, <1>7, <1>8, <1>11, <1>12, <1>13, <1>14, <1>15
        DEF IrqNext, SyncNext

(***************************************************************************)
(* The initial state: all locks are free.                                  *)
(***************************************************************************)
LEMMA HolderInit == SyncInit => HolderInv
<1> SUFFICES ASSUME SyncInit PROVE HolderInv
  OBVIOUS
<1>1. \A l \in Lock : Agrees(l) /\ holder[l] = NoTcb
  BY DEF SyncInit, Agrees, Sem
<1> QED BY <1>1, ThreadsAssumption DEF SyncInit, ThreadsInit, HolderInv

(***************************************************************************)
(* The value and the holder of a lock agree, the holder is in its critical *)
(* section, and it can run or waits in the keyboard handler for the printk *)
(* lock, whose holder can run: although the keyboard breaks mutual         *)
(* exclusion it never leaves a lock that nobody will release.              *)
(***************************************************************************)
THEOREM LocksAreReleasable == IrqSpec => []LockConsistent
<1>1. BaseInv /\ HolderInv => LockConsistent
  <2> SUFFICES ASSUME BaseInv, HolderInv, NEW l \in Lock, holder[l] # NoTcb,
                      status[holder[l]] = "BLOCKED"
               PROVE  l # PrintkLock /\ holder[l] \in irq
    BY DEF HolderInv, LockConsistent, Agrees
  <2>1. holder[l] \in Tcb /\ holder[l] \in cs[l]
    BY DEF HolderInv, BaseInv, SyncTypeOK
  <2>2. at[holder[l]] # NoSem
    BY <2>1 DEF HolderInv
  <2>3. holder[l] \in irq
    BY <2>1, <2>2 DEF HolderInv
  <2> QED BY <2>1, <2>3 DEF HolderInv
<1> QED BY <1>1, HolderInit, BaseInit, BaseStep, HolderStep, PTL DEF IrqSpec

-----------------------------------------------------------------------------
(***************************************************************************)
(* What BlockedIsQueued needs besides NoLostWakeup and the invariants of   *)
(* the locks: no thread leaves the ring or holds a lock outside it, the    *)
(* main thread waits for no plain semaphore, and whoever is not running is *)
(* READY or BLOCKED.                                                       *)
(***************************************************************************)
IdleInv ==
    /\ created = live
    /\ \A l \in Lock : cs[l] \subseteq live
    /\ at[Main] \notin PlainSem
    /\ \A t \in live : status[t] = "RUNNING" => t = cur

QueueInv == BlockedIsQueued /\ NoLostWakeup /\ IdleInv

SyncInv == BaseInv /\ HolderInv /\ QueueInv

(***************************************************************************)
(* Facts about the constants and the running thread used throughout.       *)
(***************************************************************************)
LEMMA SyncFacts ==
    ASSUME SyncInv
    PROVE  /\ PlainSem \subseteq Sem /\ Lock \subseteq Sem
           /\ PrintkLock \in Lock /\ PrintkLock # NoSem
           /\ \A s \in PlainSem : s \notin Lock
           /\ NoSem \notin Sem
           /\ cur \in Tcb /\ cur \in live /\ live \subseteq Tcb
           /\ Main \in live
           /\ \A t \in Tcb : at[t] # NoSem => at[t] \in Sem /\ t \in live
           /\ \A l \in Lock : holder[l] # NoTcb => holder[l] \in live /\ holder[l] \in cs[l]
<1>1. BaseInv /\ HolderInv /\ IdleInv
  BY DEF SyncInv, QueueInv
<1>2. cur \in Tcb /\ cur \in live /\ live \subseteq Tcb /\ Main \in live
  BY <1>1, CurFacts DEF BaseInv, RingInv
<1>3. ASSUME NEW t \in Tcb, at[t] # NoSem PROVE at[t] \in Sem /\ t \in live
  BY <1>1, <1>3 DEF HolderInv, IdleInv, BaseInv, SyncTypeOK
<1>4. ASSUME NEW l \in Lock, holder[l] # NoTcb
      PROVE  holder[l] \in live /\ holder[l] \in cs[l]
  BY <1>1, <1>4 DEF HolderInv, IdleInv
<1> QED BY <1>2, <1>3, <1>4, SyncAssumption DEF Sem

(***************************************************************************)
(* The running thread is in no queue, so a thread that was resumed inside  *)
(* sem_P is one of the woken.                                              *)
(***************************************************************************)
LEMMA CurNotQueued ==
    ASSUME SyncInv
    PROVE  \A s \in Sem : ~Queued(cur, s)
<1> SUFFICES ASSUME NEW s \in Sem, Queued(cur, s) PROVE FALSE
  OBVIOUS
<1>1. cur \in Tcb /\ cur \in live /\ s # NoSem
  BY SyncFacts
<1>2. at[cur] = s
  BY <1>1 DEF SyncInv, QueueInv, BlockedIsQueued
<1>3. status[cur] = "BLOCKED"
  BY <1>1, <1>2 DEF SyncInv, QueueInv, BlockedIsQueued
<1> QED BY <1>3 DEF SyncInv, HolderInv

-----------------------------------------------------------------------------
(***************************************************************************)
(* Somebody can always run.  A semaphore with waiters and a token has a    *)
(* woken thread that has yet to run.                                       *)
(***************************************************************************)
LEMMA WokenRuns ==
    ASSUME SyncInv, NEW s \in Sem, val[s] # 0, wait[s] # <<>>
    PROVE  \E t \in live : status[t] # "BLOCKED" /\ at[t] = s
<1>1. val[s] \in Nat /\ val[s] <= Cardinality(Woken(s))
  BY DEF SyncInv, BaseInv, SyncTypeOK, QueueInv, NoLostWakeup
<1>2. Woken(s) # {}
  <2>1. ASSUME Woken(s) = {} PROVE FALSE
    <3>1. Cardinality(Woken(s)) = 0
      BY <2>1, FS_EmptySet
    <3> QED BY <1>1, <3>1
  <2> QED BY <2>1
<1>3. PICK t \in Tcb : at[t] = s /\ ~Queued(t, s)
  BY <1>2 DEF Woken
<1>4. t \in live /\ at[t] # NoSem
  BY <1>3, SyncFacts
<1> QED BY <1>3, <1>4 DEF SyncInv, QueueInv, BlockedIsQueued

(***************************************************************************)
(* When a lock is taken its holder can run, or it waits inside the         *)
(* keyboard handler for the printk lock, and then the holder of that lock, *)
(* or a thread woken for it, can run.                                      *)
(***************************************************************************)
LEMMA HolderRuns ==
    ASSUME SyncInv, NEW l \in Lock, val[l] = 0
    PROVE  \E t \in live :
              /\ status[t] # "BLOCKED"
              /\ \/ holder[l] = t
                 \/ l # PrintkLock /\ (holder[PrintkLock] = t \/ at[t] = PrintkLock)
<1>1. \A k \in Lock : val[k] = 0 => holder[k] # NoTcb
  BY DEF SyncInv, HolderInv, Agrees
<1>2. ASSUME NEW k \in Lock, val[k] = 0, status[holder[k]] = "BLOCKED"
      PROVE  k # PrintkLock /\ at[holder[k]] = PrintkLock
  <2>1. holder[k] \in live /\ holder[k] \in Tcb /\ holder[k] \in cs[k]
    BY <1>1, <1>2, SyncFacts
  <2>2. at[holder[k]] # NoSem
    BY <1>2, <2>1 DEF SyncInv, HolderInv
  <2>3. holder[k] \in irq
    BY <2>1, <2>2 DEF SyncInv, HolderInv
  <2> QED BY <2>1, <2>3 DEF SyncInv, HolderInv
<1>3. CASE status[holder[l]] # "BLOCKED"
  BY <1>3, <1>1, SyncFacts
<1>4. CASE status[holder[l]] = "BLOCKED"
  <2>1. l # PrintkLock /\ at[holder[l]] = PrintkLock
    BY <1>2, <1>4
  <2>2. PrintkLock \in Lock /\ PrintkLock \in Sem /\ PrintkLock # NoSem
    BY SyncFacts
  <2>3. CASE val[PrintkLock] = 0
    <3>1. status[holder[PrintkLock]] # "BLOCKED" /\ holder[PrintkLock] # NoTcb
      BY <1>1, <1>2, <2>2, <2>3
    <3> QED BY <2>1, <2>2, <3>1, SyncFacts
  <2>4. CASE val[PrintkLock] # 0
    <3>1. holder[l] \in live
      BY <1>1, SyncFacts
    <3>2. Queued(holder[l], PrintkLock)
      BY <1>4, <2>1, <2>2, <3>1 DEF SyncInv, QueueInv, BlockedIsQueued
    <3>3. wait[PrintkLock] # <<>>
      BY <3>2 DEF Queued
    <3> QED BY <2>1, <2>2, <2>4, <3>3, WokenRuns
  <2> QED BY <2>3, <2>4
<1> QED BY <1>3, <1>4

(***************************************************************************)
(* How the running thread comes to sleep on s: outside sem_P or inside the *)
(* one of s; inside the keyboard handler without the printk lock, and      *)
(* otherwise outside critical sections; the main thread never on a plain   *)
(* semaphore.                                                              *)
(***************************************************************************)
MaySleepOn(s) ==
    /\ at[cur] \in {NoSem, s}
    /\ s = PrintkLock => holder[s] # cur
    /\ s # PrintkLock => \A l \in Lock : cur \notin cs[l]
    /\ s \in PlainSem => cur # Main

(***************************************************************************)
(* schedule never finds all threads blocked: whoever goes to sleep leaves  *)
(* another thread READY.                                                   *)
(***************************************************************************)
LEMMA SomeoneIsReady ==
    ASSUME SyncInv, NEW s \in Sem, val[s] = 0, MaySleepOn(s)
    PROVE  \E t \in live \ {cur} : status[t] = "READY"
<1> USE SyncFacts
<1>1. ASSUME NEW t \in live, t # cur, status[t] # "BLOCKED"
      PROVE  \E u \in live \ {cur} : status[u] = "READY"
  <2>1. status[t] \in Status /\ status[t] # "RUNNING"
    BY <1>1 DEF SyncInv, QueueInv, IdleInv, BaseInv, RingInv, ThreadsTypeOK
  <2> QED BY <1>1, <2>1 DEF Status
<1>2. ASSUME NEW l \in Lock, val[l] = 0, l = s \/ s \in PlainSem
      PROVE  \E u \in live \ {cur} : status[u] = "READY"
  <2>1. PICK t \in live :
          /\ status[t] # "BLOCKED"
          /\ \/ holder[l] = t
             \/ l # PrintkLock /\ (holder[PrintkLock] = t \/ at[t] = PrintkLock)
    BY <1>2, HolderRuns
  <2>2. CASE s = PrintkLock
    <3>1. holder[s] # cur /\ l = s
      BY <1>2, <2>2 DEF MaySleepOn
    <3> QED BY <1>1, <2>1, <2>2, <3>1
  <2>3. CASE s # PrintkLock
    <3>1. \A k \in Lock : holder[k] = t => t # cur
      BY <2>3, SyncAssumption DEF MaySleepOn
    <3>2. at[t] = PrintkLock => t # cur
      BY <2>3 DEF MaySleepOn
    <3> QED BY <1>1, <2>1, <3>1, <3>2
  <2> QED BY <2>2, <2>3
<1>3. CASE s \in Lock
  BY <1>2, <1>3
<1>4. CASE s \in PlainSem
  <2>1. cur # Main /\ at[cur] \in {NoSem, s} /\ s \notin Lock
    BY <1>4 DEF MaySleepOn
  <2>2. CASE status[Main] # "BLOCKED"
    BY <1>1, <2>1, <2>2
  <2>3. CASE status[Main] = "BLOCKED"
    <3>1. at[Main] # NoSem /\ Queued(Main, at[Main])
      BY <2>3 DEF SyncInv, QueueInv, BlockedIsQueued
    <3>2. at[Main] \in Lock /\ wait[at[Main]] # <<>>
      BY <3>1, ThreadsAssumption DEF SyncInv, QueueInv, IdleInv, Sem, Queued
    <3>3. CASE val[at[Main]] = 0
      BY <1>2, <1>4, <3>2, <3>3
    <3>4. CASE val[at[Main]] # 0
      <4>1. PICK t \in live : status[t] # "BLOCKED" /\ at[t] = at[Main]
        BY <3>2, <3>4, WokenRuns
      <4>2. t # cur
        BY <2>1, <3>2, <4>1
      <4> QED BY <1>1, <4>1, <4>2
    <3> QED BY <3>3, <3>4
  <2> QED BY <2>2, <2>3
<1> QED BY <1>3, <1>4 DEF Sem

(***************************************************************************)
(* So a thread that sleeps gives the processor to another, READY thread.   *)
(***************************************************************************)
LEMMA SleepSwitches ==
    ASSUME SyncInv, NEW s \in Sem, Sleep(s), MaySleepOn(s)
    PROVE  \E t \in live \ {cur} :
              /\ status[t] = "READY"
              /\ status' = [status EXCEPT ![cur] = "BLOCKED", ![t] = "RUNNING"]
              /\ cur' = t
<1> DEFINE st == [status EXCEPT ![cur] = "BLOCKED"]
<1>1. /\ status \in [Tcb -> Status] /\ st \in [Tcb -> Status]
      /\ cur \in Tcb /\ cur \in live /\ live \subseteq Tcb
  BY SyncFacts DEF SyncInv, BaseInv, RingInv, ThreadsTypeOK, Status
<1>2. schedule(st) /\ val[s] = 0
  BY DEF Sleep
<1>3. \E u \in live \ {cur} : st[u] = "READY"
  BY <1>1, <1>2, SomeoneIsReady
<1>4. ~ScanEndsAt(st, cur)
  <2> HIDE DEF st
  <2> QED BY <1>1, <1>3, ScanCoversRing DEF SyncInv, BaseInv
<1>5. PICK t \in live :
        /\ ScanEndsAt(st, t)
        /\ t # cur
        /\ status' = [st EXCEPT ![cur] = Demoted(@), ![t] = "RUNNING"]
        /\ cur' = t
  <2> HIDE DEF st
  <2> QED BY <1>2, <1>4 DEF schedule, switch_to
<1>6. st[t] = "READY"
  <2> HIDE DEF st
  <2> QED BY <1>5 DEF ScanEndsAt, Stops
<1>7. status[t] = "READY"
  BY <1>1, <1>5, <1>6
<1>8. status' = [status EXCEPT ![cur] = "BLOCKED", ![t] = "RUNNING"]
  BY <1>1, <1>5 DEF Demoted
<1> QED BY <1>5, <1>7, <1>8

-----------------------------------------------------------------------------
(***************************************************************************)
(* Enqueueing a thread that is in no queue: the queues gain that one       *)
(* element and stay without repetition.                                    *)
(***************************************************************************)
Distinct(q) == \A i, j \in DOMAIN q : q[i] = q[j] => i = j

LEMMA EnqueueQueues ==
    ASSUME SyncInv, NEW s \in Sem, Enqueue(s)
    PROVE  /\ \A u \in Tcb, k \in Sem : Queued(u, k)' <=> Queued(u, k) \/ (u = cur /\ k = s)
           /\ \A k \in Sem : Distinct(wait'[k])
<1>1. wait \in [Sem -> Seq(Tcb)] /\ wait' = [wait EXCEPT ![s] = Append(@, cur)] /\ cur \in Tcb
  BY SyncFacts DEF SyncInv, BaseInv, SyncTypeOK, Enqueue
<1>2. \A k \in Sem : Distinct(wait[k])
  BY DEF SyncInv, QueueInv, BlockedIsQueued, Distinct
<1>3. \A i \in DOMAIN wait[s] : wait[s][i] # cur
  BY CurNotQueued DEF Queued
<1> DEFINE q == wait[s]
<1>4. q \in Seq(Tcb) /\ DOMAIN q = 1 .. Len(q) /\ Len(q) \in Nat
  BY <1>1
<1>5. /\ wait'[s] = Append(q, cur)
      /\ DOMAIN wait'[s] = 1 .. (Len(q) + 1)
      /\ \A i \in 1 .. Len(q) : wait'[s][i] = q[i]
      /\ wait'[s][Len(q) + 1] = cur
  BY <1>1, <1>4
<1>6. \A k \in Sem \ {s} : wait'[k] = wait[k]
  BY <1>1
<1>7. ASSUME NEW u \in Tcb, NEW k \in Sem
      PROVE  Queued(u, k)' <=> Queued(u, k) \/ (u = cur /\ k = s)
  <2>1. CASE k # s
    BY <2>1, <1>6 DEF Queued
  <2>2. CASE k = s
    <3>1. Queued(u, s)' <=> \E i \in 1 .. (Len(q) + 1) : wait'[s][i] = u
      BY <1>5 DEF Queued
    <3>2. Queued(u, s) <=> \E i \in 1 .. Len(q) : q[i] = u
      BY <1>4 DEF Queued
    <3> HIDE DEF q
    <3>3. (\E i \in 1 .. (Len(q) + 1) : wait'[s][i] = u)
             <=> (\E i \in 1 .. Len(q) : q[i] = u) \/ u = cur
      <4>1. ASSUME NEW i \in 1 .. (Len(q) + 1), wait'[s][i] = u
            PROVE  (\E j \in 1 .. Len(q) : q[j] = u) \/ u = cur
        BY <4>1, <1>4, <1>5
      <4>2. ASSUME NEW i \in 1 .. Len(q), q[i] = u
            PROVE  i \in 1 .. (Len(q) + 1) /\ wait'[s][i] = u
        BY <4>2, <1>4, <1>5
      <4>3. Len(q) + 1 \in 1 .. (Len(q) + 1)
        BY <1>4
      <4> QED BY <4>1, <4>2, <4>3, <1>5
    <3> QED BY <2>2, <3>1, <3>2, <3>3
  <2> QED BY <2>1, <2>2
<1>8. ASSUME NEW k \in Sem PROVE Distinct(wait'[k])
  <2>1. CASE k # s
    BY <2>1, <1>2, <1>6
  <2>2. CASE k = s
    <3> HIDE DEF q
    <3>1. ASSUME NEW i \in 1 .. (Len(q) + 1), NEW j \in 1 .. (Len(q) + 1),
                 wait'[s][i] = wait'[s][j]
          PROVE  i = j
      <4>1. \A a, b \in 1 .. Len(q) : q[a] = q[b] => a = b
        BY <1>2, <1>4 DEF Distinct, q
      <4>2. \A a \in 1 .. Len(q) : q[a] # cur
        BY <1>3, <1>4 DEF q
      <4>3. i \in 1 .. Len(q) \/ i = Len(q) + 1
        BY <1>4
      <4>4. j \in 1 .. Len(q) \/ j = Len(q) + 1
        BY <1>4
      <4> QED BY <3>1, <4>1, <4>2, <4>3, <4>4, <1>5
    <3> QED BY <2>2, <3>1, <1>5 DEF Distinct
  <2> QED BY <2>1, <2>2
<1> QED BY <1>7, <1>8

(***************************************************************************)
(* Waking the head of a queue: the queues lose that one element and stay   *)
(* without repetition.                                                     *)
(***************************************************************************)
LEMMA DequeueQueues ==
    ASSUME SyncInv, NEW s \in Sem, wait[s] # <<>>, wait' = [wait EXCEPT ![s] = Tail(@)]
    PROVE  /\ Head(wait[s]) \in Tcb
           /\ Queued(Head(wait[s]), s)
           /\ \A u \in Tcb, k \in Sem :
                 Queued(u, k)' <=> Queued(u, k) /\ ~(u = Head(wait[s]) /\ k = s)
           /\ \A k \in Sem : Distinct(wait'[k])
<1> DEFINE q == wait[s]
<1>1. wait \in [Sem -> Seq(Tcb)] /\ q \in Seq(Tcb)
  BY DEF SyncInv, BaseInv, SyncTypeOK
<1>2. DOMAIN q = 1 .. Len(q) /\ Len(q) \in Nat /\ Len(q) # 0 /\ Head(q) = q[1]
  BY <1>1
<1>3. \A k \in Sem : Distinct(wait[k])
  BY DEF SyncInv, QueueInv, BlockedIsQueued, Distinct
<1>4. /\ wait'[s] = Tail(q)
      /\ DOMAIN wait'[s] = 1 .. (Len(q) - 1)
      /\ \A i \in 1 .. (Len(q) - 1) : wait'[s][i] = q[i + 1]
  BY <1>1, <1>2
<1>5. \A k \in Sem \ {s} : wait'[k] = wait[k]
  BY <1>1
<1>6. \A a, b \in 1 .. Len(q) : q[a] = q[b] => a = b
  BY <1>2, <1>3 DEF Distinct
<1>7. Head(q) \in Tcb /\ Queued(Head(q), s)
  BY <1>1, <1>2 DEF Queued
<1>8. ASSUME NEW u \in Tcb, NEW k \in Sem
      PROVE  Queued(u, k)' <=> Queued(u, k) /\ ~(u = Head(q) /\ k = s)
  <2>1. CASE k # s
    BY <2>1, <1>5 DEF Queued
  <2>2. CASE k = s
    <3>1. Queued(u, s)' <=> \E i \in 1 .. (Len(q) - 1) : q[i + 1] = u
      BY <1>4 DEF Queued
    <3>2. Queued(u, s) <=> \E i \in 1 .. Len(q) : q[i] = u
      BY <1>2 DEF Queued
    <3> HIDE DEF q
    <3>3. (\E i \in 1 .. (Len(q) - 1) : q[i + 1] = u)
             <=> (\E i \in 1 .. Len(q) : q[i] = u) /\ u # q[1]
      <4>1. ASSUME NEW i \in 1 .. (Len(q) - 1), q[i + 1] = u
            PROVE  (\E j \in 1 .. Len(q) : q[j] = u) /\ u # q[1]
        <5>1. i + 1 \in 1 .. Len(q) /\ i + 1 # 1 /\ 1 \in 1 .. Len(q)
          BY <1>2
        <5> QED BY <5>1, <4>1, <1>6
      <4>2. ASSUME NEW i \in 1 .. Len(q), q[i] = u, u # q[1]
            PROVE  \E j \in 1 .. (Len(q) - 1) : q[j + 1] = u
        <5>1. i # 1
          BY <4>2
        <5>2. i - 1 \in 1 .. (Len(q) - 1) /\ (i - 1) + 1 = i
          BY <5>1, <1>2
        <5> QED BY <5>2, <4>2
      <4> QED BY <4>1, <4>2
    <3> QED BY <2>2, <3>1, <3>2, <3>3, <1>2
  <2> QED BY <2>1, <2>2
<1>9. ASSUME NEW k \in Sem PROVE Distinct(wait'[k])
  <2>1. CASE k # s
    BY <2>1, <1>3, <1>5
  <2>2. CASE k = s
    <3> HIDE DEF q
    <3>1. ASSUME NEW i \in 1 .. (Len(q) - 1), NEW j \in 1 .. (Len(q) - 1), q[i + 1] = q[j + 1]
          PROVE  i = j
      <4>1. i + 1 \in 1 .. Len(q) /\ j + 1 \in 1 .. Len(q)
        BY <1>2
      <4> QED BY <3>1, <4>1, <1>6
    <3>2. ASSUME NEW i \in DOMAIN wait'[s], NEW j \in DOMAIN wait'[s], wait'[s][i] = wait'[s][j]
          PROVE  i = j
      BY <3>1, <3>2, <1>4
    <3> QED BY <2>2, <3>2 DEF Distinct
  <2> QED BY <2>1, <2>2
<1> QED BY <1>7, <1>8, <1>9

-----------------------------------------------------------------------------
(***************************************************************************)
(* Falling asleep keeps the invariant of the queues: the thread is put in  *)
(* the queue, and is off the processor, in the same step.                  *)
(***************************************************************************)
LEMMA SleepKeepsQueue ==
    ASSUME SyncInv, NEW s \in Sem, Sleep(s), MaySleepOn(s), UNCHANGED cs
    PROVE  QueueInv'
<1> USE SyncFacts
<1>1. PICK t \in live \ {cur} :
        /\ status[t] = "READY"
        /\ status' = [status EXCEPT ![cur] = "BLOCKED", ![t] = "RUNNING"]
        /\ cur' = t
  BY SleepSwitches
<1>2. /\ at' = [at EXCEPT ![cur] = s] /\ at \in [Tcb -> Sem \cup {NoSem}]
      /\ UNCHANGED <<val, live, created>> /\ val[s] = 0
      /\ status \in [Tcb -> Status]
      /\ s # NoSem
  BY DEF Sleep, SyncInv, BaseInv, SyncTypeOK, RingInv, ThreadsTypeOK
<1>3. /\ at'[cur] = s /\ \A u \in Tcb \ {cur} : at'[u] = at[u]
      /\ status'[cur] = "BLOCKED" /\ status'[t] = "RUNNING"
      /\ \A u \in Tcb \ {cur, t} : status'[u] = status[u]
  BY <1>1, <1>2
<1>4. /\ \A u \in Tcb, k \in Sem : Queued(u, k)' <=> Queued(u, k) \/ (u = cur /\ k = s)
      /\ \A k \in Sem : Distinct(wait'[k])
  BY EnqueueQueues DEF Sleep
<1>5. BlockedIsQueued /\ NoLostWakeup /\ IdleInv
  BY DEF SyncInv, QueueInv
<1>6. BlockedIsQueued'
  <2>1. ASSUME NEW u \in live
        PROVE  (status[u] = "BLOCKED" <=> at[u] # NoSem /\ Queued(u, at[u]))'
    <3>1. Queued(u, at[u])' <=> \E i \in DOMAIN wait'[at'[u]] : wait'[at'[u]][i] = u
      BY DEF Queued
    <3>2. CASE u = cur
      <4>1. Queued(u, s)'
        BY <3>2, <1>4
      <4>2. Queued(u, at[u])'
        BY <3>1, <3>2, <4>1, <1>3 DEF Queued
      <4> QED BY <3>2, <4>2, <1>2, <1>3
    <3>3. CASE u # cur
      <4>1. at'[u] = at[u] /\ (status'[u] = "BLOCKED" <=> status[u] = "BLOCKED")
        BY <3>3, <1>1, <1>3
      <4>2. ASSUME at[u] # NoSem PROVE Queued(u, at[u])' <=> Queued(u, at[u])
        <5>1. at[u] \in Sem
          BY <4>2
        <5>2. ASSUME NEW k \in Sem, k = at[u] PROVE Queued(u, at[u])' <=> Queued(u, k)
          BY <5>2, <3>3, <1>4, <3>1, <4>1 DEF Queued
        <5> QED BY <5>1, <5>2
      <4> QED BY <4>1, <4>2, <1>5 DEF BlockedIsQueued
    <3> QED BY <3>2, <3>3
  <2>2. ASSUME NEW k \in Sem, NEW u \in Tcb, Queued(u, k)'
        PROVE  u \in live /\ at'[u] = k
    <3>1. CASE u = cur /\ k = s
      BY <3>1, <1>3
    <3>2. CASE ~(u = cur /\ k = s)
      <4>1. Queued(u, k)
        BY <2>2, <3>2, <1>4
      <4>2. u # cur
        BY <4>1, CurNotQueued
      <4> QED BY <4>1, <4>2, <1>3, <1>5 DEF BlockedIsQueued
    <3> QED BY <3>1, <3>2
  <2> QED BY <2>1, <2>2, <1>2, <1>4 DEF BlockedIsQueued, Distinct
<1>7. NoLostWakeup'
  <2> SUFFICES ASSUME NEW k \in Sem, wait'[k] # <<>>
               PROVE  val'[k] <= Cardinality(Woken(k)')
    BY DEF NoLostWakeup
  <2>1. CASE k = s
    <3>1. IsFiniteSet(Woken(k)')
      BY ThreadsAssumption, FS_Subset DEF Woken
    <3>2. Cardinality(Woken(k)') \in Nat
      BY <3>1, FS_CardinalityType
    <3> QED BY <2>1, <3>2, <1>2
  <2>2. CASE k # s
    <3>1. wait'[k] = wait[k]
      BY <2>2 DEF Sleep, Enqueue, SyncInv, BaseInv, SyncTypeOK
    <3>2. ASSUME NEW u \in Tcb
          PROVE  at'[u] = k /\ ~Queued(u, k)' <=> at[u] = k /\ ~Queued(u, k)
      BY <2>2, <1>3, <1>4 DEF MaySleepOn
    <3>3. Woken(k)' = Woken(k)
      BY <3>2 DEF Woken
    <3> QED BY <3>1, <3>3, <1>2, <1>5, <2>2 DEF NoLostWakeup
  <2> QED BY <2>1, <2>2
<1>8. IdleInv'
  BY <1>1, <1>2, <1>3, <1>5, ThreadsAssumption DEF IdleInv, MaySleepOn
<1> QED BY <1>6, <1>7, <1>8 DEF QueueInv

(***************************************************************************)
(* A semaphore has finitely many woken threads.                            *)
(***************************************************************************)
LEMMA WokenFinite ==
    ASSUME NEW s \in Sem
    PROVE  /\ IsFiniteSet(Woken(s)) /\ Cardinality(Woken(s)) \in Nat
           /\ IsFiniteSet(Woken(s)') /\ Cardinality(Woken(s)') \in Nat
<1>1. IsFiniteSet(Woken(s)) /\ IsFiniteSet(Woken(s)')
  BY ThreadsAssumption, FS_Subset DEF Woken
<1> QED BY <1>1, FS_CardinalityType

(***************************************************************************)
(* BlockedIsQueued of the next state, said thread by thread.               *)
(***************************************************************************)
LEMMA BlockedIsQueuedNext ==
    ASSUME at' \in [Tcb -> Sem \cup {NoSem}], live' \subseteq Tcb,
           \A u \in live' : at'[u] = NoSem => status'[u] # "BLOCKED",
           \A u \in live', k \in Sem :
               at'[u] = k => (status'[u] = "BLOCKED" <=> Queued(u, k)'),
           \A u \in Tcb, k \in Sem : Queued(u, k)' => u \in live' /\ at'[u] = k,
           \A k \in Sem : Distinct(wait'[k])
    PROVE  BlockedIsQueued'
<1>1. ASSUME NEW u \in live'
      PROVE  (status[u] = "BLOCKED" <=> at[u] # NoSem /\ Queued(u, at[u]))'
  <2>1. CASE at'[u] = NoSem
    BY <2>1
  <2>2. ASSUME NEW k \in Sem, at'[u] = k
        PROVE  (status[u] = "BLOCKED" <=> at[u] # NoSem /\ Queued(u, at[u]))'
    <3>1. Queued(u, at[u])' <=> Queued(u, k)'
      BY <2>2 DEF Queued
    <3> QED BY <2>2, <3>1, SyncAssumption
  <2> QED BY <2>1, <2>2
<1> QED BY <1>1 DEF BlockedIsQueued, Distinct

(***************************************************************************)
(* A step that neither queues nor wakes anybody and takes no token, but    *)
(* may switch threads or add one.                                          *)
(***************************************************************************)
LEMMA QuietKeepsQueue ==
    ASSUME SyncInv, UNCHANGED <<wait, at, val>>,
           live \subseteq live', live' \subseteq Tcb, created' = live',
           \A u \in live : status'[u] = "BLOCKED" <=> status[u] = "BLOCKED",
           \A u \in live' \ live : status'[u] # "BLOCKED",
           \A u \in live' : status'[u] = "RUNNING" => u = cur',
           \A l \in Lock : cs'[l] \subseteq cs[l]
    PROVE  QueueInv'
<1> USE SyncFacts
<1>1. BlockedIsQueued /\ NoLostWakeup /\ IdleInv /\ at \in [Tcb -> Sem \cup {NoSem}]
  BY DEF SyncInv, QueueInv, BaseInv, SyncTypeOK
<1>2. \A u \in Tcb, k \in Sem : Queued(u, k)' <=> Queued(u, k)
  BY DEF Queued
<1>3. BlockedIsQueued'
  <2>1. \A u \in live' : at'[u] = NoSem => status'[u] # "BLOCKED"
    BY <1>1 DEF BlockedIsQueued
  <2>2. \A u \in live', k \in Sem : at'[u] = k => (status'[u] = "BLOCKED" <=> Queued(u, k)')
    BY <1>1, <1>2, SyncAssumption DEF BlockedIsQueued
  <2>3. \A u \in Tcb, k \in Sem : Queued(u, k)' => u \in live' /\ at'[u] = k
    BY <1>1, <1>2 DEF BlockedIsQueued
  <2>4. \A k \in Sem : Distinct(wait'[k])
    BY <1>1 DEF BlockedIsQueued, Distinct
  <2> QED BY <1>1, <2>1, <2>2, <2>3, <2>4, BlockedIsQueuedNext
<1>4. NoLostWakeup'
  <2>1. \A k \in Sem : Woken(k)' = Woken(k)
    BY <1>2 DEF Woken
  <2> QED BY <1>1, <2>1 DEF NoLostWakeup
<1>5. IdleInv'
  BY <1>1 DEF IdleInv
<1> QED BY <1>3, <1>4, <1>5 DEF QueueInv

(***************************************************************************)
(* Taking a token, at once or as a woken thread.                           *)
(***************************************************************************)
LEMMA TakeKeepsQueue ==
    ASSUME SyncInv, NEW s \in Sem, Take(s), UNCHANGED <<live, created, cur, status>>,
           \A l \in Lock : cs'[l] \subseteq cs[l] \cup {cur},
           \/ at' = at
           \/ at[cur] = s /\ at' = [at EXCEPT ![cur] = NoSem]
    PROVE  QueueInv'
<1> USE SyncFacts
<1>1. /\ BlockedIsQueued /\ NoLostWakeup /\ IdleInv
      /\ at \in [Tcb -> Sem \cup {NoSem}] /\ val \in [Sem -> Nat]
      /\ status[cur] # "BLOCKED"
  BY DEF SyncInv, QueueInv, BaseInv, SyncTypeOK, HolderInv
<1>2. /\ val[s] # 0 /\ val'[s] = val[s] - 1 /\ wait' = wait
      /\ \A k \in Sem \ {s} : val'[k] = val[k]
  BY <1>1 DEF Take
<1>3. \A u \in Tcb, k \in Sem : Queued(u, k)' <=> Queued(u, k)
  BY <1>2 DEF Queued
<1>4. /\ at' \in [Tcb -> Sem \cup {NoSem}]
      /\ \A u \in Tcb \ {cur} : at'[u] = at[u]
      /\ at'[cur] # NoSem => at'[cur] = at[cur]
  BY <1>1
<1>5. BlockedIsQueued'
  <2>1. \A u \in live' : at'[u] = NoSem => status'[u] # "BLOCKED"
    BY <1>1, <1>4 DEF BlockedIsQueued
  <2>2. \A u \in live', k \in Sem : at'[u] = k => (status'[u] = "BLOCKED" <=> Queued(u, k)')
    BY <1>1, <1>3, <1>4 DEF BlockedIsQueued
  <2>3. \A u \in Tcb, k \in Sem : Queued(u, k)' => u \in live' /\ at'[u] = k
    BY <1>1, <1>3, <1>4, CurNotQueued DEF BlockedIsQueued
  <2>4. \A k \in Sem : Distinct(wait'[k])
    BY <1>1, <1>2 DEF BlockedIsQueued, Distinct
  <2> QED BY <1>4, <2>1, <2>2, <2>3, <2>4, BlockedIsQueuedNext
<1>6. ASSUME NEW k \in Sem, wait'[k] # <<>> PROVE val'[k] <= Cardinality(Woken(k)')
  <2>1. val[k] <= Cardinality(Woken(k)) /\ val[k] \in Nat
    BY <1>1, <1>2, <1>6 DEF NoLostWakeup
  <2>2. CASE at' = at \/ k # s
    <3>1. \A u \in Tcb : at'[u] = k /\ ~Queued(u, k)' <=> at[u] = k /\ ~Queued(u, k)
      BY <2>2, <1>3, <1>4
    <3>2. Woken(k)' = Woken(k)
      BY <3>1 DEF Woken
    <3>3. val'[k] <= val[k] /\ val'[k] \in Int
      BY <1>2, <2>1
    <3> QED BY <2>1, <3>2, <3>3, WokenFinite
  <2>3. CASE k = s /\ at[cur] = s /\ at' = [at EXCEPT ![cur] = NoSem]
    <3>1. cur \in Woken(s)
      BY <2>3, CurNotQueued DEF Woken
    <3>2. \A u \in Tcb : at'[u] = s /\ ~Queued(u, s)' <=> u # cur /\ at[u] = s /\ ~Queued(u, s)
      BY <2>3, <1>1, <1>3, SyncAssumption
    <3>3. Woken(s)' = Woken(s) \ {cur}
      BY <3>2 DEF Woken
    <3>4. Cardinality(Woken(s) \ {cur}) = Cardinality(Woken(s)) - 1
      BY <3>1, WokenFinite, FS_RemoveElement
    <3> QED BY <2>1, <2>3, <3>3, <3>4, <1>2, WokenFinite
  <2> QED BY <2>2, <2>3
<1>7. IdleInv'
  BY <1>1, <1>4, ThreadsAssumption, SyncAssumption DEF IdleInv
<1> QED BY <1>5, <1>6, <1>7 DEF QueueInv, NoLostWakeup

(***************************************************************************)
(* Waking the head of a queue, with or without a new token.                *)
(***************************************************************************)
LEMMA WakeHeadKeepsQueue ==
    ASSUME SyncInv, NEW s \in Sem, WakeHead(s), UNCHANGED <<live, created, cur>>,
           \A l \in Lock : cs'[l] \subseteq cs[l],
           val' \in [Sem -> Nat], \A k \in Sem \ {s} : val'[k] = val[k],
           \/ at' = at /\ val'[s] <= val[s] + 1
           \/ at[cur] = s /\ at' = [at EXCEPT ![cur] = NoSem] /\ val'[s] <= val[s]
    PROVE  QueueInv'
<1> USE SyncFacts
<1>1. /\ BlockedIsQueued /\ NoLostWakeup /\ IdleInv
      /\ at \in [Tcb -> Sem \cup {NoSem}] /\ val \in [Sem -> Nat]
      /\ status \in [Tcb -> Status] /\ wait \in [Sem -> Seq(Tcb)]
      /\ status[cur] # "BLOCKED"
  BY DEF SyncInv, QueueInv, BaseInv, SyncTypeOK, HolderInv, RingInv, ThreadsTypeOK
<1>2. /\ at' \in [Tcb -> Sem \cup {NoSem}]
      /\ \A u \in Tcb \ {cur} : at'[u] = at[u]
      /\ at'[cur] # NoSem => at'[cur] = at[cur]
  BY <1>1
<1>3. CASE wait[s] = <<>>
  <2>1. wait' = wait /\ status' = status
    BY <1>3 DEF WakeHead
  <2>2. \A u \in Tcb, k \in Sem : Queued(u, k)' <=> Queued(u, k)
    BY <2>1 DEF Queued
  <2>3. BlockedIsQueued'
    <3>1. \A u \in live' : at'[u] = NoSem => status'[u] # "BLOCKED"
      BY <1>1, <1>2, <2>1 DEF BlockedIsQueued
    <3>2. ASSUME NEW u \in live', NEW k \in Sem, at'[u] = k
          PROVE  status'[u] = "BLOCKED" <=> Queued(u, k)'
      <4>1. at[u] = k /\ k # NoSem
        BY <3>2, <1>2
      <4>2. status[u] = "BLOCKED" <=> Queued(u, k)
        BY <4>1, <1>1 DEF BlockedIsQueued
      <4> QED BY <4>2, <2>1, <2>2
    <3>3. \A u \in Tcb, k \in Sem : Queued(u, k)' => u \in live' /\ at'[u] = k
      BY <1>1, <1>2, <2>2, CurNotQueued DEF BlockedIsQueued
    <3>4. \A k \in Sem : Distinct(wait'[k])
      BY <1>1, <2>1 DEF BlockedIsQueued, Distinct
    <3> QED BY <1>2, <3>1, <3>2, <3>3, <3>4, BlockedIsQueuedNext
  <2>4. ASSUME NEW k \in Sem, wait'[k] # <<>> PROVE val'[k] <= Cardinality(Woken(k)')
    <3>1. k # s
      BY <2>1, <2>4, <1>3
    <3>2. \A u \in Tcb : at'[u] = k /\ ~Queued(u, k)' <=> at[u] = k /\ ~Queued(u, k)
      BY <2>2, <3>1, <1>2
    <3>3. Woken(k)' = Woken(k)
      BY <3>2 DEF Woken
    <3> QED BY <2>1, <2>4, <3>1, <3>3, <1>1 DEF NoLostWakeup
  <2>5. IdleInv'
    BY <1>1, <1>2, <2>1, ThreadsAssumption, SyncAssumption DEF IdleInv
  <2> QED BY <2>3, <2>4, <2>5 DEF QueueInv, NoLostWakeup
<1>4. CASE wait[s] # <<>>
  <2> DEFINE h == Head(wait[s])
  <2>1. /\ wait' = [wait EXCEPT ![s] = Tail(@)]
        /\ status' = [status EXCEPT ![h] = "READY"]
    BY <1>4 DEF WakeHead
  <2>2. /\ h \in Tcb /\ Queued(h, s)
        /\ \A u \in Tcb, k \in Sem : Queued(u, k)' <=> Queued(u, k) /\ ~(u = h /\ k = s)
        /\ \A k \in Sem : Distinct(wait'[k])
    BY <1>4, <2>1, DequeueQueues
  <2> HIDE DEF h
  <2>3. h # cur /\ h \in live /\ at[h] = s /\ at'[h] = s
    BY <2>2, <1>1, <1>2, CurNotQueued DEF BlockedIsQueued
  <2>4. status'[h] = "READY" /\ \A u \in Tcb \ {h} : status'[u] = status[u]
    BY <2>1, <2>2, <1>1
  <2>5. BlockedIsQueued'
    <3>1. \A u \in live' : at'[u] = NoSem => status'[u] # "BLOCKED"
      BY <1>1, <1>2, <2>4 DEF BlockedIsQueued
    <3>2. ASSUME NEW u \in live', NEW k \in Sem, at'[u] = k
          PROVE  status'[u] = "BLOCKED" <=> Queued(u, k)'
      <4>1. CASE u = h
        <5>1. k = s
          BY <3>2, <4>1, <2>3
        <5> QED BY <4>1, <5>1, <2>2, <2>4
      <4>2. CASE u # h
        <5>1. at[u] = k /\ k # NoSem
          BY <3>2, <1>2
        <5>2. status[u] = "BLOCKED" <=> Queued(u, k)
          BY <5>1, <1>1 DEF BlockedIsQueued
        <5> QED BY <4>2, <5>2, <2>2, <2>4
      <4> QED BY <4>1, <4>2
    <3>3. \A u \in Tcb, k \in Sem : Queued(u, k)' => u \in live' /\ at'[u] = k
      BY <1>1, <1>2, <2>2, CurNotQueued DEF BlockedIsQueued
    <3> QED BY <1>2, <2>2, <3>1, <3>2, <3>3, BlockedIsQueuedNext
  <2>6. ASSUME NEW k \in Sem, wait'[k] # <<>> PROVE val'[k] <= Cardinality(Woken(k)')
    <3>1. wait[k] # <<>>
      <4>1. CASE k = s
        BY <4>1, <1>4
      <4>2. CASE k # s
        BY <4>2, <2>1, <2>6, <1>1
      <4> QED BY <4>1, <4>2
    <3>2. val[k] <= Cardinality(Woken(k)) /\ val[k] \in Nat /\ val'[k] \in Nat
      BY <1>1, <3>1 DEF NoLostWakeup
    <3>3. CASE k # s
      <4>1. \A u \in Tcb : at'[u] = k /\ ~Queued(u, k)' <=> at[u] = k /\ ~Queued(u, k)
        BY <2>2, <3>3, <1>2
      <4>2. Woken(k)' = Woken(k)
        BY <4>1 DEF Woken
      <4> QED BY <3>2, <3>3, <4>2
    <3>4. CASE k = s /\ at' = at /\ val'[s] <= val[s] + 1
      <4>1. \A u \in Tcb : at'[u] = s /\ ~Queued(u, s)' <=> (at[u] = s /\ ~Queued(u, s)) \/ u = h
        BY <3>4, <2>2, <2>3
      <4>2. Woken(s)' = Woken(s) \cup {h} /\ h \notin Woken(s)
        BY <4>1, <2>2 DEF Woken
      <4>3. Cardinality(Woken(s) \cup {h}) = Cardinality(Woken(s)) + 1
        BY <4>2, WokenFinite, FS_AddElement
      <4> QED BY <3>2, <3>4, <4>2, <4>3, WokenFinite
    <3>5. CASE /\ k = s /\ at[cur] = s
               /\ at' = [at EXCEPT ![cur] = NoSem] /\ val'[s] <= val[s]
      <4> DEFINE W == Woken(s) \ {cur}
      <4>1. cur \in Woken(s) /\ h \notin Woken(s)
        BY <3>5, <2>2, CurNotQueued DEF Woken
      <4>2. \A u \in Tcb : at'[u] = s /\ ~Queued(u, s)'
                               <=> (u # cur /\ at[u] = s /\ ~Queued(u, s)) \/ u = h
        BY <3>5, <2>2, <2>3, <1>1
      <4>3. Woken(s)' = W \cup {h} /\ h \notin W
        BY <4>1, <4>2, <2>2 DEF Woken
      <4>4. Cardinality(W) = Cardinality(Woken(s)) - 1 /\ IsFiniteSet(W)
        BY <4>1, WokenFinite, FS_RemoveElement
      <4>5. Cardinality(W \cup {h}) = Cardinality(W) + 1
        <5> HIDE DEF W
        <5> QED BY <4>3, <4>4, FS_AddElement
      <4> QED BY <3>2, <3>5, <4>3, <4>4, <4>5, WokenFinite
    <3> QED BY <3>3, <3>4, <3>5
  <2>7. IdleInv'
    BY <1>1, <1>2, <2>4, ThreadsAssumption, SyncAssumption DEF IdleInv
  <2> QED BY <2>5, <2>6, <2>7 DEF QueueInv, NoLostWakeup
<1> QED BY <1>3, <1>4

-----------------------------------------------------------------------------
(***************************************************************************)
(* Every step, the keyboard handler's included, keeps the invariant of the *)
(* queues.                                                                 *)
(***************************************************************************)
LEMMA QueueStep == SyncInv /\ [IrqNext]_vars => QueueInv'
<1> SUFFICES ASSUME SyncInv, [IrqNext]_vars PROVE QueueInv'
  OBVIOUS
<1> USE SyncFacts
<1>1. /\ BaseInv /\ HolderInv /\ IdleInv /\ cs \in [Lock -> SUBSET Tcb]
      /\ val \in [Sem -> Nat] /\ status \in [Tcb -> Status]
  BY DEF SyncInv, QueueInv, BaseInv, SyncTypeOK, RingInv, ThreadsTypeOK
<1>2. ASSUME NEW l \in Lock, Own(l) PROVE \A k \in Lock : cs'[k] \subseteq cs[k] \cup {cur}
  BY <1>1, <1>2 DEF Own
<1>3. ASSUME NEW s \in PlainSem, sem_P(s) PROVE QueueInv'
  <2>1. CASE Take(s) /\ UNCHANGED <<tvars, at>>
    BY <2>1, <1>3, TakeKeepsQueue DEF sem_P, tvars
  <2>2. CASE Sleep(s)
    <3>1. MaySleepOn(s)
      BY <1>3, SyncAssumption DEF sem_P, MaySleepOn, InKernel, InCriticalSection
    <3> QED BY <2>2, <3>1, <1>3, SleepKeepsQueue DEF sem_P
  <2> QED BY <1>3, <2>1, <2>2 DEF sem_P
<1>4. ASSUME NEW s \in Sem, Post(s), at' = at, \A l \in Lock : cs'[l] \subseteq cs[l]
      PROVE  QueueInv'
  <2>1. /\ WakeHead(s) /\ UNCHANGED <<live, created, cur>>
        /\ val' = [val EXCEPT ![s] = @ + 1]
    BY <1>4 DEF Post
  <2>2. /\ val' \in [Sem -> Nat] /\ val'[s] <= val[s] + 1
        /\ \A k \in Sem \ {s} : val'[k] = val[k]
    BY <2>1, <1>1
  <2> QED BY <2>1, <2>2, <1>4, WakeHeadKeepsQueue
<1>5. ASSUME NEW s \in PlainSem, sem_V(s) PROVE QueueInv'
  BY <1>4, <1>5 DEF sem_V
<1>6. ASSUME NEW l \in Lock, lock_acquire(l) PROVE QueueInv'
  <2>1. CASE Take(l) /\ Own(l) /\ UNCHANGED <<tvars, at>>
    BY <2>1, <1>2, TakeKeepsQueue DEF tvars
  <2>2. CASE Sleep(l) /\ UNCHANGED <<holder, cs>>
    <3>1. MaySleepOn(l)
      BY <1>6, SyncAssumption DEF lock_acquire, MaySleepOn, InKernel, InCriticalSection
    <3> QED BY <2>2, <3>1, SleepKeepsQueue
  <2> QED BY <1>6, <2>1, <2>2 DEF lock_acquire
<1>7. ASSUME UNCHANGED <<tvars, wait, at, val>>, \A l \in Lock : cs'[l] \subseteq cs[l]
      PROVE  QueueInv'
  BY <1>1, <1>7, QuietKeepsQueue DEF tvars, IdleInv
<1>8. ASSUME NEW l \in Lock, lock_release(l) PROVE QueueInv'
  <2>1. \A k \in Lock : cs'[k] \subseteq cs[k]
    BY <1>1, <1>8 DEF lock_release
  <2>2. CASE holder[l] = cur /\ Disown(l) /\ UNCHANGED iflag
    BY <1>4, <1>8, <2>1, <2>2 DEF lock_release, Disown
  <2>3. CASE holder[l] # cur /\ UNCHANGED <<tvars, val, wait, holder>>
    BY <1>7, <1>8, <2>1, <2>3 DEF lock_release
  <2> QED BY <1>8, <2>2, <2>3 DEF lock_release
<1>9. CASE Resume
  <2>1. at[cur] \in Sem /\ at[cur] # NoSem /\ cur \notin irq
    BY <1>9 DEF Resume
  <2>2. CASE ResumeTakes(at[cur])
    <3>1. \A k \in Lock : cs'[k] \subseteq cs[k] \cup {cur}
      BY <2>1, <2>2, <1>2 DEF ResumeTakes
    <3> QED BY <2>1, <2>2, <3>1, TakeKeepsQueue DEF ResumeTakes
  <2>3. CASE Sleep(at[cur]) /\ UNCHANGED <<holder, cs, irq>>
    <3>1. \A l \in Lock : cur \notin cs[l]
      BY <2>1, <1>1 DEF HolderInv
    <3>2. \A l \in Lock : holder[l] # cur
      BY <3>1, SyncAssumption
    <3>3. MaySleepOn(at[cur])
      BY <3>1, <3>2, <2>1, <1>1 DEF MaySleepOn, IdleInv
    <3> QED BY <2>1, <2>3, <3>3, SleepKeepsQueue
  <2> QED BY <1>9, <2>2, <2>3 DEF Resume
<1>10. ASSUME Sleep(PrintkLock), holder[PrintkLock] # cur, at[cur] \in {NoSem, PrintkLock},
              UNCHANGED <<holder, cs>>
       PROVE  QueueInv'
  <2>1. MaySleepOn(PrintkLock)
    BY <1>10, SyncAssumption DEF MaySleepOn
  <2> QED BY <2>1, <1>10, SleepKeepsQueue
<1>11. CASE interrupt_handler_keyboard
  <2>1. at[cur] = NoSem
    BY <1>1, <1>11 DEF interrupt_handler_keyboard, HolderInv
  <2>2. CASE Disown(PrintkLock) /\ UNCHANGED <<iflag, at, cs, irq>>
    BY <2>2, <1>4 DEF Disown
  <2>3. CASE PrintInHandler /\ UNCHANGED <<iflag, at, irq>>
    <3>1. /\ WakeHead(PrintkLock) /\ UNCHANGED <<live, created, cur, val, cs>>
          /\ val'[PrintkLock] <= val[PrintkLock] + 1
      BY <2>3, <1>1 DEF PrintInHandler
    <3> QED BY <3>1, <2>3, <1>1, WakeHeadKeepsQueue
  <2>4. CASE /\ holder[PrintkLock] # cur
             /\ Sleep(PrintkLock)
             /\ irq' = irq \cup {cur}
             /\ UNCHANGED <<holder, cs>>
    BY <2>1, <2>4, <1>10
  <2> QED BY <1>11, <2>2, <2>3, <2>4 DEF interrupt_handler_keyboard
<1>12. CASE ResumeInHandler
  <2>1. at[cur] = PrintkLock /\ holder[PrintkLock] # cur
    BY <1>1, <1>12 DEF ResumeInHandler, HolderInv
  <2>2. CASE /\ PrintInHandler
             /\ at' = [at EXCEPT ![cur] = NoSem]
             /\ iflag' = [iflag EXCEPT ![cur] = TRUE]
             /\ irq' = irq \ {cur}
    <3>1. /\ WakeHead(PrintkLock) /\ UNCHANGED <<live, created, cur, val, cs>>
          /\ val'[PrintkLock] <= val[PrintkLock]
      BY <2>2, <1>1 DEF PrintInHandler
    <3> QED BY <3>1, <2>1, <2>2, <1>1, WakeHeadKeepsQueue
  <2>3. CASE Sleep(PrintkLock) /\ UNCHANGED <<holder, cs, irq>>
    BY <2>1, <2>3, <1>10
  <2> QED BY <1>12, <2>2, <2>3 DEF ResumeInHandler
<1>13. CASE Preempt
  <2>1. UNCHANGED <<wait, at, val, cs, live, created>>
    BY <1>13 DEF Preempt, svars, timer_server_func
  <2>2. /\ \A u \in live : status'[u] = "BLOCKED" <=> status[u] = "BLOCKED"
        /\ \A u \in live : status'[u] = "RUNNING" => u = cur'
    <3>1. CASE Tick
      BY <3>1, <1>1 DEF Tick, IdleInv
    <3>2. CASE SliceOver
      <4>1. PICK t \in live :
              /\ ScanEndsAt(status, t)
              /\ \/ /\ t = cur
                    /\ status' = [status EXCEPT ![cur] =
                                     IF status[cur] = "BLOCKED" THEN "RUNNING" ELSE @]
                    /\ cur' = cur
                 \/ /\ t # cur
                    /\ status' = [status EXCEPT ![cur] = Demoted(@), ![t] = "RUNNING"]
                    /\ cur' = t
        BY <3>2 DEF SliceOver, schedule, switch_to
      <4>2. status[cur] # "BLOCKED" /\ (t # cur => status[t] = "READY")
        BY <4>1, <1>1 DEF HolderInv, ScanEndsAt, Stops
      <4> QED BY <4>1, <4>2, <1>1 DEF IdleInv, Demoted
    <3> QED BY <1>13, <3>1, <3>2 DEF Preempt, timer_server_func
  <2> QED BY <2>1, <2>2, <1>1, QuietKeepsQueue DEF IdleInv
<1>14. ASSUME NEW t \in Tcb, Create(t) PROVE QueueInv'
  <2>1. /\ UNCHANGED <<wait, at, val, cs, cur>> /\ t \notin live
        /\ status' = [status EXCEPT ![t] = "READY"]
        /\ live' = live \cup {t} /\ created' = created \cup {t}
    BY <1>1, <1>14 DEF Create, svars, create_thread, IdleInv
  <2>2. \A u \in live : status'[u] = status[u]
    BY <2>1, <1>1
  <2>3. status'[t] = "READY"
    BY <2>1, <1>1
  <2>4. \A u \in live' : status'[u] = "RUNNING" => u = cur'
    BY <2>1, <2>2, <2>3, <1>1 DEF IdleInv
  <2> QED BY <2>1, <2>2, <2>3, <2>4, <1>1, QuietKeepsQueue DEF IdleInv
<1>15. CASE UNCHANGED vars
  BY <1>7, <1>15 DEF vars, svars
<1> QED BY <1>3, <1>5, <1>6, <1>8, <1>9, <1>11, <1>12, <1>13, <1>14, <1>15
        DEF IrqNext, SyncNext

(***************************************************************************)
(* The initial state: one thread, nobody waits.                            *)
(***************************************************************************)
LEMMA SyncInvInit == SyncInit => SyncInv
<1> SUFFICES ASSUME SyncInit PROVE SyncInv
  OBVIOUS
<1>1. \A s \in Sem : wait[s] = <<>> /\ \A u \in Tcb : ~Queued(u, s)
  BY DEF SyncInit, Queued
<1>2. BlockedIsQueued
  <2>1. \A t \in live : at[t] = NoSem /\ status[t] # "BLOCKED"
    BY ThreadsAssumption DEF SyncInit, ThreadsInit
  <2>2. \A s \in Sem : \A i, j \in DOMAIN wait[s] : wait[s][i] = wait[s][j] => i = j
    BY <1>1
  <2> QED BY <1>1, <2>1, <2>2 DEF BlockedIsQueued
<1>3. NoLostWakeup
  BY <1>1 DEF NoLostWakeup
<1>4. IdleInv
  BY ThreadsAssumption, SyncAssumption DEF SyncInit, ThreadsInit, IdleInv, Sem
<1> QED BY <1>2, <1>3, <1>4, BaseInit, HolderInit DEF SyncInv, QueueInv

(***************************************************************************)
(* Together the invariants are inductive.                                  *)
(***************************************************************************)
LEMMA SyncInvStep == SyncInv /\ [IrqNext]_vars => SyncInv'
BY BaseStep, HolderStep, QueueStep DEF SyncInv

(***************************************************************************)
(* A thread is BLOCKED exactly when its node is in the queue of the        *)
(* semaphore it waits for, and then only once, for any number of threads,  *)
(* semaphores and locks and whenever the keyboard interrupts.              *)
(***************************************************************************)
THEOREM BlockedThreadsAreQueued == IrqSpec => []BlockedIsQueued
<1>1. SyncInv => BlockedIsQueued
  BY DEF SyncInv, QueueInv
<1> QED BY <1>1, SyncInvInit, SyncInvStep, PTL DEF IrqSpec

(***************************************************************************)
(* No wake-up is lost: the tokens of a semaphore never outnumber the       *)
(* threads woken for them while other threads wait.                        *)
(***************************************************************************)
THEOREM WakeupsAreKept == IrqSpec => []NoLostWakeup
<1>1. SyncInv => NoLostWakeup
  BY DEF SyncInv, QueueInv
<1> QED BY <1>1, SyncInvInit, SyncInvStep, PTL DEF IrqSpec

(***************************************************************************)
(* The running thread is in no queue: schedule never finds all threads     *)
(* blocked and goes on with one whose node, on the stack of sem_P, is      *)
(* still linked (schedule calls that case not allowed but resumes the      *)
(* thread all the same).                                                   *)
(***************************************************************************)
THEOREM RunnerIsNotQueued == IrqSpec => [](\A s \in Sem : ~Queued(cur, s))
<1>1. SyncInv => \A s \in Sem : ~Queued(cur, s)
  BY CurNotQueued
<1> QED BY <1>1, SyncInvInit, SyncInvStep, PTL DEF IrqSpec

-----------------------------------------------------------------------------
(***************************************************************************)
(* What a step does to a queue: nothing, or the running thread is appended *)
(* to it, or its head is taken off.                                        *)
(***************************************************************************)
LEMMA QueueChange ==
    ASSUME BaseInv, [IrqNext]_vars, NEW k \in Sem
    PROVE  \/ wait'[k] = wait[k]
           \/ wait'[k] = Append(wait[k], cur)
           \/ wait[k] # <<>> /\ wait'[k] = Tail(wait[k])
<1> DEFINE Goal == \/ wait'[k] = wait[k]
                   \/ wait'[k] = Append(wait[k], cur)
                   \/ wait[k] # <<>> /\ wait'[k] = Tail(wait[k])
<1>1. wait \in [Sem -> Seq(Tcb)]
  BY DEF BaseInv, SyncTypeOK
<1>2. ASSUME NEW s, Sleep(s) PROVE Goal
  BY <1>1, <1>2 DEF Sleep, Enqueue
<1>3. ASSUME NEW s, WakeHead(s) PROVE Goal
  BY <1>1, <1>3 DEF WakeHead
<1>4. ASSUME NEW s, Take(s) PROVE Goal
  BY <1>4 DEF Take
<1>5. ASSUME NEW s \in PlainSem, sem_P(s) \/ sem_V(s) PROVE Goal
  BY <1>2, <1>3, <1>4, <1>5 DEF sem_P, sem_V, Post
<1>6. ASSUME NEW l \in Lock, lock_acquire(l) \/ lock_release(l) PROVE Goal
  BY <1>2, <1>3, <1>4, <1>6 DEF lock_acquire, lock_release, Disown, Post
<1>7. CASE Resume
  BY <1>2, <1>4, <1>7 DEF Resume, ResumeTakes
<1>8. CASE interrupt_handler_keyboard \/ ResumeInHandler
  BY <1>2, <1>3, <1>8
     DEF interrupt_handler_keyboard, ResumeInHandler, Disown, Post, PrintInHandler
<1>9. CASE Preempt
  BY <1>9 DEF Preempt, svars
<1>10. ASSUME NEW t \in Tcb, Create(t) PROVE Goal
  BY <1>10 DEF Create, svars
<1>11. CASE UNCHANGED vars
  BY <1>11 DEF vars, svars
<1> QED BY <1>5, <1>6, <1>7, <1>8, <1>9, <1>10, <1>11 DEF IrqNext, SyncNext

(***************************************************************************)
(* A sequence is a prefix of itself and of what is appended to it.         *)
(***************************************************************************)
LEMMA AppendExtends ==
    ASSUME NEW S, NEW q \in Seq(S), NEW x \in S
    PROVE  IsPrefix(q, q) /\ IsPrefix(q, Append(q, x))
<1>1. /\ Len(Append(q, x)) = Len(q) + 1
      /\ \A i \in 1 .. Len(q) : Append(q, x)[i] = q[i]
      /\ Append(q, x) \in Seq(S)
      /\ Len(q) \in Nat
  OBVIOUS
<1>2. SubSeq(q, 1, Len(q)) = SubSeq(Append(q, x), 1, Len(q))
  BY <1>1
<1> QED BY <1>1, <1>2 DEF IsPrefix

(***************************************************************************)
(* The queues are first come, first served: a thread leaves a queue only   *)
(* from its head and nobody is put before those that wait.                 *)
(***************************************************************************)
THEOREM QueuesServeInOrder == IrqSpec => FirstComeFirstServed
<1>1. BaseInv /\ [IrqNext]_vars
         => [\A s \in Sem : \/ IsPrefix(wait[s], wait'[s])
                            \/ wait[s] # <<>> /\ wait'[s] = Tail(wait[s])]_vars
  <2> SUFFICES ASSUME BaseInv, [IrqNext]_vars, NEW s \in Sem
               PROVE  \/ IsPrefix(wait[s], wait'[s])
                      \/ wait[s] # <<>> /\ wait'[s] = Tail(wait[s])
    OBVIOUS
  <2>1. wait[s] \in Seq(Tcb) /\ cur \in Tcb
    BY CurFacts DEF BaseInv, SyncTypeOK
  <2>2. IsPrefix(wait[s], wait[s]) /\ IsPrefix(wait[s], Append(wait[s], cur))
    BY <2>1, AppendExtends
  <2> QED BY <2>2, QueueChange
<1> QED BY <1>1, BaseInit, BaseStep, PTL DEF IrqSpec, FirstComeFirstServed

-----------------------------------------------------------------------------
(***************************************************************************)
(* Threads that wait, are woken and are interrupted by the keyboard always *)
(* run in their own address space with their kernel stack in the TSS, and  *)
(* a BLOCKED thread is never switched to (no thread exits here).           *)
(***************************************************************************)
THEOREM SyncSwitchesAreSound == IrqSpec => []AddressSpaceActive /\ BlockedStaysOff
<1> DEFINE Sound == cur' # cur => status[cur'] # "BLOCKED"
<1>1. SyncInit => AddressSpaceActive
  BY ThreadsAssumption DEF SyncInit, ThreadsInit, AddressSpaceActive, Pdt
<1>2. BaseInv /\ AddressSpaceActive /\ [IrqNext]_vars => AddressSpaceActive' /\ [Sound]_tvars
  <2> SUFFICES ASSUME BaseInv, AddressSpaceActive, [IrqNext]_vars
               PROVE  AddressSpaceActive' /\ Sound
    OBVIOUS
  <2>1. cur \in live /\ cur \in Tcb /\ live \subseteq Tcb
    BY CurFacts
  <2>2. ASSUME UNCHANGED <<cur, cr3, esp0>> PROVE AddressSpaceActive' /\ Sound
    BY <2>2 DEF AddressSpaceActive, Pdt
  <2>3. ASSUME NEW st \in [Tcb -> Status], schedule(st),
               \A u \in Tcb \ {cur} : st[u] = status[u]
        PROVE  AddressSpaceActive' /\ Sound
    <3>1. CASE UNCHANGED <<cur, cr3, esp0>>
      BY <3>1, <2>2
    <3>2. CASE /\ cur' \in live
               /\ cur' # cur
               /\ st[cur'] = "READY"
               /\ cr3' = Pdt(cur')
               /\ cur' \in UserTask => esp0' = cur'
      BY <3>2, <2>3, <2>1 DEF AddressSpaceActive, Pdt
    <3> QED BY <3>1, <3>2, <2>1, <2>3, ScheduleSwitches DEF BaseInv, RingInv
  <2>4. ASSUME NEW s, Sleep(s) PROVE AddressSpaceActive' /\ Sound
    <3> DEFINE st == [status EXCEPT ![cur] = "BLOCKED"]
    <3>1. /\ st \in [Tcb -> Status]
          /\ schedule(st)
          /\ \A u \in Tcb \ {cur} : st[u] = status[u]
      BY <2>1, <2>4 DEF Sleep, BaseInv, RingInv, ThreadsTypeOK, Status
    <3> HIDE DEF st
    <3> QED BY <3>1, <2>3
  <2>5. ASSUME NEW s, Post(s) PROVE UNCHANGED <<cur, cr3, esp0>>
    BY <2>5 DEF Post
  <2>6. CASE UNCHANGED tvars
    BY <2>6, <2>2 DEF tvars
  <2>7. ASSUME NEW s \in PlainSem, sem_P(s) \/ sem_V(s)
        PROVE  AddressSpaceActive' /\ Sound
    BY <2>2, <2>4, <2>5, <2>6, <2>7 DEF sem_P, sem_V
  <2>8. ASSUME NEW l \in Lock, lock_acquire(l) \/ lock_release(l)
        PROVE  AddressSpaceActive' /\ Sound
    BY <2>2, <2>4, <2>5, <2>6, <2>8 DEF lock_acquire, lock_release, Disown
  <2>9. CASE Resume
    BY <2>2, <2>4, <2>9 DEF Resume, ResumeTakes
  <2>10. CASE interrupt_handler_keyboard \/ ResumeInHandler
    BY <2>2, <2>4, <2>5, <2>10
       DEF interrupt_handler_keyboard, ResumeInHandler, Disown, PrintInHandler
  <2>11. CASE Preempt
    BY <2>1, <2>2, <2>3, <2>11
       DEF Preempt, timer_server_func, Tick, SliceOver, BaseInv, RingInv, ThreadsTypeOK
  <2>12. ASSUME NEW t \in Tcb, Create(t) PROVE AddressSpaceActive' /\ Sound
    BY <2>2, <2>12 DEF Create, create_thread
  <2>13. CASE UNCHANGED vars
    BY <2>6, <2>13 DEF vars
  <2> QED BY <2>7, <2>8, <2>9, <2>10, <2>11, <2>12, <2>13 DEF IrqNext, SyncNext
<1> QED BY <1>1, <1>2, BaseInit, BaseStep, PTL DEF IrqSpec, BlockedStaysOff

(***************************************************************************)
(* In particular schedule never resumes a thread inside thread_block that  *)
(* nobody has woken.                                                       *)
(***************************************************************************)
THEOREM BlockedThreadsStayOff == IrqSpec => BlockedStaysOff
<1> QED BY SyncSwitchesAreSound, PTL
=============================================================================
