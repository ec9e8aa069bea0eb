--------------------------- MODULE ThreadsProofs ---------------------------
(***************************************************************************)
(* Proofs about the thread module, for every set of TCBs and every length  *)
(* of the time slice: the ring and what schedule does to it, and the probe *)
(* loop of schedule, which ends within one turn of the ring and finds a    *)
(* READY thread whenever there is one.                                     *)
(***************************************************************************)
EXTENDS Threads, NumberProofs, FiniteSetTheorems, TLAPS

(***************************************************************************)
(* schedule keeps its variables in their types, and the thread that runs   *)
(* afterwards is one of the ring.                                          *)
(***************************************************************************)
LEMMA ScheduleTypes ==
    ASSUME ThreadsTypeOK, cur \in live, NEW st \in [Tcb -> Status], schedule(st)
    PROVE  /\ time_left' \in [Tcb -> 0 .. TIME_CONT]
           /\ status' \in [Tcb -> Status]
           /\ cur' \in live
           /\ cr3' \in UserTask \cup {Main}
           /\ esp0' \in UserTask \cup {Main}
<1>1. PICK t \in live :
        /\ time_left' = [time_left EXCEPT ![t] = TIME_CONT]
        /\ \/ /\ t = cur
              /\ status' = [st EXCEPT ![cur] =
                               IF st[cur] = "BLOCKED" THEN "RUNNING" ELSE @]
              /\ UNCHANGED <<cur, cr3, esp0>>
           \/ /\ t # cur
              /\ status' = [st EXCEPT ![cur] = Demoted(@), ![t] = "RUNNING"]
              /\ cur' = t
              /\ active_task(t)
  BY DEF schedule, switch_to
<1>2. t \in Tcb /\ TIME_CONT \in 0 .. TIME_CONT
  BY ThreadsAssumption DEF ThreadsTypeOK
<1>3. time_left' \in [Tcb -> 0 .. TIME_CONT]
  BY <1>1, <1>2 DEF ThreadsTypeOK
<1>4. status' \in [Tcb -> Status]
  BY <1>1, <1>2 DEF ThreadsTypeOK, Status, Demoted
<1>5. cur' \in live
  BY <1>1
<1>6. cr3' \in UserTask \cup {Main} /\ esp0' \in UserTask \cup {Main}
  BY <1>1, <1>2 DEF ThreadsTypeOK, active_task, Pdt
<1> QED BY <1>3, <1>4, <1>5, <1>6

(***************************************************************************)
(* The inductive invariant of the ring.  SingleRing alone is not inductive *)
(* (the exit of the only thread would leave an empty ring): the main       *)
(* thread is always on it.                                                 *)
(***************************************************************************)
RingInv == ThreadsTypeOK /\ SingleRing /\ Main \in live

(***************************************************************************)
(* The search loop of remove_thread ends: the running thread has a         *)
(* predecessor on the ring.                                                *)
(***************************************************************************)
LEMMA PredecessorExists ==
    ASSUME RingInv
    PROVE  \E p \in live : next[p] = cur
<1> DEFINE Image == {next[t] : t \in live}
<1>1. Image \in SUBSET live /\ Image # {}
  BY DEF RingInv, SingleRing
<1>2. \A t \in Image : next[t] \in Image
  BY <1>1
<1>3. Image = live
  BY <1>1, <1>2 DEF RingInv, SingleRing
<1> QED BY <1>3 DEF RingInv, SingleRing

(***************************************************************************)
(* create_thread keeps the ring.                                           *)
(***************************************************************************)
LEMMA CreateKeepsRing ==
    ASSUME RingInv, NEW t \in Tcb, create_thread(t)
    PROVE  RingInv'
<1> USE DEF RingInv
<1>1. /\ t \notin live
      /\ cur \in Tcb
      /\ live \subseteq Tcb
      /\ next \in [Tcb -> Tcb]
      /\ next' = [next EXCEPT ![cur] = t, ![t] = next[cur]]
      /\ live' = live \cup {t}
      /\ cur' = cur
  BY DEF create_thread, LinkAfterCur, ThreadsTypeOK
<1>2. ThreadsTypeOK'
  <2>1. next' \in [Tcb -> Tcb]
    BY <1>1
  <2>2. status' \in [Tcb -> Status]
    BY DEF create_thread, ThreadsTypeOK, Status
  <2>3. time_left' \in [Tcb -> 0 .. TIME_CONT]
    BY ThreadsAssumption DEF create_thread, ThreadsTypeOK
  <2>4. iflag' \in [Tcb -> BOOLEAN]
    BY DEF create_thread, ThreadsTypeOK
  <2>5. created' \in SUBSET Tcb /\ live' \in SUBSET created'
    BY DEF create_thread, ThreadsTypeOK
  <2>6. UNCHANGED <<cur, cr3, esp0>>
    BY DEF create_thread
  <2> QED BY <2>1, <2>2, <2>3, <2>4, <2>5, <2>6 DEF ThreadsTypeOK
<1>3. /\ next'[cur] = t
      /\ next'[t] = next[cur]
      /\ \A u \in live \ {cur} : next'[u] = next[u]
  BY <1>1 DEF SingleRing
<1>4. \A u \in live' : next'[u] \in live'
  BY <1>1, <1>3 DEF SingleRing
<1>5. \A u, v \in live' : next'[u] = next'[v] => u = v
  BY <1>1, <1>3 DEF SingleRing
<1>6. ASSUME NEW S \in SUBSET live', S # {}, \A u \in S : next'[u] \in S
      PROVE  S = live'
  <2> DEFINE R == S \ {t}
  <2>1. R \in SUBSET live
    BY <1>1
  <2>2. next[cur] \in live
    BY DEF SingleRing
  <2>3. R # {}
    <3>1. ASSUME S = {t} PROVE FALSE
      BY <3>1, <1>6, <1>3, <1>1, <2>2
    <3> QED BY <3>1, <1>6
  <2>4. ASSUME NEW u \in R PROVE next[u] \in R
    <3>1. next[u] \in live
      BY <2>1 DEF SingleRing
    <3>2. CASE u = cur
      BY <3>1, <3>2, <1>6, <1>3, <1>1
    <3>3. CASE u # cur
      BY <3>1, <3>3, <2>1, <1>6, <1>3, <1>1
    <3> QED BY <3>2, <3>3
  <2>5. R = live
    BY <2>1, <2>3, <2>4 DEF SingleRing
  <2>6. cur \in S
    BY <2>5 DEF SingleRing
  <2>7. t \in S
    BY <2>6, <1>6, <1>3
  <2> QED BY <2>5, <2>7, <1>1
<1>7. cur' \in live'
  BY <1>1 DEF SingleRing
<1>8. SingleRing'
  BY <1>4, <1>5, <1>6, <1>7 DEF SingleRing
<1> QED BY <1>1, <1>2, <1>8

(***************************************************************************)
(* exit keeps the ring, whoever calls it.                                  *)
(***************************************************************************)
LEMMA ExitKeepsRing ==
    ASSUME RingInv, exit
    PROVE  RingInv'
<1> USE DEF RingInv
<1>1. /\ next \in [Tcb -> Tcb]
      /\ cur \in live
      /\ cur \in Tcb
      /\ live \subseteq Tcb
      /\ next[cur] \in live
      /\ cur' = next[cur]
      /\ TIME_CONT \in 0 .. TIME_CONT
  BY ThreadsAssumption DEF exit, switch_to, ThreadsTypeOK, SingleRing
<1>2. CASE cur = Main
  <2>1. next' = next /\ live' = live
    BY <1>2 DEF exit, switch_to, remove_thread
  <2>2. ThreadsTypeOK'
    BY <1>1, <2>1 DEF exit, switch_to, ThreadsTypeOK
  <2>3. SingleRing'
    BY <1>1, <2>1 DEF SingleRing
  <2> QED BY <2>1, <2>2, <2>3
<1>3. CASE cur # Main
  <2>1. PICK p \in live :
          /\ next[p] = cur
          /\ next' = [next EXCEPT ![p] = next[cur]]
          /\ live' = live \ {cur}
    BY <1>3 DEF exit, switch_to, remove_thread
  <2>2. next[cur] # cur
    <3>1. ASSUME next[cur] = cur PROVE live = {cur}
      <4>1. {cur} \in SUBSET live /\ {cur} # {}
        BY <1>1
      <4>2. \A u \in {cur} : next[u] \in {cur}
        BY <3>1
      <4> QED BY <4>1, <4>2 DEF SingleRing
    <3> QED BY <3>1, <1>3
  <2>3. p # cur
    BY <2>1, <2>2
  <2>4. /\ next'[p] = next[cur]
        /\ \A u \in live \ {p} : next'[u] = next[u]
    BY <2>1, <1>1
  <2>5. ThreadsTypeOK'
    BY <1>1, <2>1 DEF exit, switch_to, ThreadsTypeOK
  <2>6. cur' \in live'
    BY <1>1, <2>1, <2>2
  <2>7. \A u \in live' : next'[u] \in live'
    BY <1>1, <2>1, <2>2, <2>4 DEF SingleRing
  <2>8. \A u, v \in live' : next'[u] = next'[v] => u = v
    BY <1>1, <2>1, <2>4 DEF SingleRing
  <2>9. ASSUME NEW S \in SUBSET live', S # {}, \A u \in S : next'[u] \in S
        PROVE  S = live'
    <3>1. S \in SUBSET live /\ cur \notin S
      BY <2>1
    <3>2. CASE p \in S
      <4> DEFINE R == S \cup {cur}
      <4>1. R \in SUBSET live /\ R # {}
        BY <3>1, <1>1
      <4>2. next[cur] \in S
        BY <3>2, <2>9, <2>4
      <4>3. \A u \in R : next[u] \in R
        BY <4>2, <3>1, <2>9, <2>4, <2>1
      <4>4. R = live
        BY <4>1, <4>3 DEF SingleRing
      <4> QED BY <4>4, <3>1, <2>1
    <3>3. CASE p \notin S
      <4>1. \A u \in S : next[u] \in S
        BY <3>3, <3>1, <2>9, <2>4
      <4>2. S = live
        BY <4>1, <3>1, <2>9 DEF SingleRing
      <4> QED BY <4>2, <3>1, <1>1
    <3> QED BY <3>2, <3>3
  <2>10. SingleRing'
    BY <2>6, <2>7, <2>8, <2>9 DEF SingleRing
  <2> QED BY <2>1, <2>5, <2>10, <1>3
<1> QED BY <1>2, <1>3

(***************************************************************************)
(* The inductive invariant holds initially.                                *)
(***************************************************************************)
LEMMA RingInit == ThreadsInit => RingInv
BY ThreadsAssumption DEF ThreadsInit, RingInv, ThreadsTypeOK, SingleRing, Status

(***************************************************************************)
(* Every step keeps the inductive invariant.                               *)
(***************************************************************************)
LEMMA RingStep == RingInv /\ [ThreadsNext]_tvars => RingInv'
<1> SUFFICES ASSUME RingInv, [ThreadsNext]_tvars PROVE RingInv'
  OBVIOUS
<1>1. cur \in live /\ cur \in Tcb /\ live \subseteq Tcb
  BY DEF RingInv, SingleRing, ThreadsTypeOK
<1>2. ASSUME NEW t \in Tcb, create_thread(t) PROVE RingInv'
  BY <1>2, CreateKeepsRing
<1>3. CASE timer_server_func
  <2>1. /\ time_left' \in [Tcb -> 0 .. TIME_CONT]
        /\ status' \in [Tcb -> Status]
        /\ cur' \in live
        /\ cr3' \in UserTask \cup {Main}
        /\ esp0' \in UserTask \cup {Main}
    <3>1. CASE Tick
      <4>1. time_left[cur] \in 0 .. TIME_CONT /\ time_left[cur] # 0
        BY <3>1, <1>1 DEF Tick, RingInv, ThreadsTypeOK
      <4>2. time_left[cur] - 1 \in 0 .. TIME_CONT
        BY <4>1, ThreadsAssumption
      <4> QED BY <3>1, <4>2, <1>1 DEF Tick, RingInv, ThreadsTypeOK
    <3>2. CASE SliceOver
      BY <3>2, <1>1, ScheduleTypes DEF SliceOver, RingInv, ThreadsTypeOK
    <3> QED BY <1>3, <3>1, <3>2 DEF timer_server_func
  <2>2. UNCHANGED <<next, iflag, live, created>>
    BY <1>3 DEF timer_server_func
  <2> QED BY <2>1, <2>2, <1>1 DEF RingInv, SingleRing, ThreadsTypeOK
<1>4. CASE thread_block
  <2> DEFINE st == [status EXCEPT ![cur] = "BLOCKED"]
  <2>1. st \in [Tcb -> Status] /\ schedule(st)
    BY <1>4 DEF thread_block, RingInv, ThreadsTypeOK, Status
  <2>2. UNCHANGED <<next, iflag, live, created>>
    BY <1>4 DEF thread_block
  <2> HIDE DEF st
  <2> QED BY <2>1, <2>2, <1>1, ScheduleTypes DEF RingInv, SingleRing, ThreadsTypeOK
<1>5. ASSUME NEW t \in Tcb, thread_wakeup(t) PROVE RingInv'
  BY <1>5 DEF thread_wakeup, RingInv, SingleRing, ThreadsTypeOK, Status
<1>6. CASE exit
  BY <1>6, ExitKeepsRing
<1>7. CASE UNCHANGED tvars
  BY <1>7 DEF tvars, RingInv, SingleRing, ThreadsTypeOK
<1> QED BY <1>2, <1>3, <1>4, <1>5, <1>6, <1>7 DEF ThreadsNext

(***************************************************************************)
(* The thread module's state has its types, and the TCBs always form one   *)
(* ring through the running thread, so the loops of schedule and of        *)
(* remove_thread end.                                                      *)
(***************************************************************************)
THEOREM RingSafety == ThreadsSpec => [](ThreadsTypeOK /\ SingleRing)
<1>1. RingInv => ThreadsTypeOK /\ SingleRing
  BY DEF RingInv
<1> QED BY <1>1, RingInit, RingStep, PTL DEF ThreadsSpec

(***************************************************************************)
(* In particular the statuses, flags, slices and links of the TCBs have    *)
(* their types, so that every action is defined where it is taken.         *)
(***************************************************************************)
THEOREM ThreadsTypes == ThreadsSpec => []ThreadsTypeOK
<1> QED BY RingSafety, PTL

(***************************************************************************)
(* What a call of schedule does to the statuses, the processor and the     *)
(* address space: either nothing is switched, or the processor goes to a   *)
(* thread that was READY and active_task has been called for it.           *)
(***************************************************************************)
LEMMA ScheduleSwitches ==
    ASSUME ThreadsTypeOK, cur \in live, NEW st \in [Tcb -> Status], schedule(st)
    PROVE  \/ /\ UNCHANGED <<cur, cr3, esp0>>
              /\ \A u \in Tcb \ {cur} : status'[u] = st[u]
           \/ /\ cur' \in live
              /\ cur' # cur
              /\ st[cur'] = "READY"
              /\ status'[cur] # "RUNNING"
              /\ \A u \in Tcb \ {cur, cur'} : status'[u] = st[u]
              /\ cr3' = Pdt(cur')
              /\ cur' \in UserTask => esp0' = cur'
<1>1. PICK t \in live :
        /\ ScanEndsAt(st, t)
        /\ \/ /\ t = cur
              /\ status' = [st EXCEPT ![cur] =
                               IF st[cur] = "BLOCKED" THEN "RUNNING" ELSE @]
              /\ UNCHANGED <<cur, cr3, esp0>>
           \/ /\ t # cur
              /\ status' = [st EXCEPT ![cur] = Demoted(@), ![t] = "RUNNING"]
              /\ cur' = t
              /\ active_task(t)
  BY DEF schedule, switch_to
<1>2. t \in Tcb /\ cur \in Tcb
  BY DEF ThreadsTypeOK
<1>3. t = cur \/ st[t] = "READY"
  BY <1>1 DEF ScanEndsAt, Stops
<1>4. CASE t = cur
  BY <1>1, <1>2, <1>4
<1>5. CASE t # cur
  BY <1>1, <1>2, <1>3, <1>5 DEF active_task, Demoted
<1> QED BY <1>4, <1>5

(***************************************************************************)
(* schedule blocks nobody, and the thread that runs after it is not        *)
(* BLOCKED, even if the caller had just blocked and was the only one left. *)
(***************************************************************************)
LEMMA ScheduleBlocksNobody ==
    ASSUME ThreadsTypeOK, cur \in live, NEW st \in [Tcb -> Status], schedule(st)
    PROVE  /\ status'[cur'] # "BLOCKED"
           /\ \A u \in Tcb : status'[u] = "BLOCKED" => st[u] = "BLOCKED"
<1>1. PICK t \in live :
        \/ /\ t = cur
           /\ status' = [st EXCEPT ![cur] =
                            IF st[cur] = "BLOCKED" THEN "RUNNING" ELSE @]
           /\ cur' = cur
        \/ /\ t # cur
           /\ status' = [st EXCEPT ![cur] = Demoted(@), ![t] = "RUNNING"]
           /\ cur' = t
  BY DEF schedule, switch_to
<1>2. t \in Tcb /\ cur \in Tcb
  BY DEF ThreadsTypeOK
<1> QED BY <1>1, <1>2 DEF Demoted

(***************************************************************************)
(* No thread of the ring is left RUNNING without the processor, where      *)
(* schedule would never find it again.                                     *)
(***************************************************************************)
THEOREM ThreadsAreFound == ThreadsSpec => []NoThreadLost
<1> DEFINE Inv == ThreadsTypeOK /\ SingleRing
<1>1. ThreadsInit => NoThreadLost
  BY DEF ThreadsInit, NoThreadLost
<1>2. Inv /\ NoThreadLost /\ [ThreadsNext]_tvars => NoThreadLost'
  <2> SUFFICES ASSUME Inv, NoThreadLost, [ThreadsNext]_tvars PROVE NoThreadLost'
    OBVIOUS
  <2>1. cur \in live /\ cur \in Tcb /\ live \subseteq Tcb
    BY DEF SingleRing, ThreadsTypeOK
  <2>2. ASSUME NEW t \in Tcb, create_thread(t) PROVE NoThreadLost'
    BY <2>1, <2>2 DEF create_thread, NoThreadLost, ThreadsTypeOK
  <2>3. ASSUME NEW st \in [Tcb -> Status], schedule(st), live' = live,
               \A u \in Tcb \ {cur} : st[u] = status[u]
        PROVE  NoThreadLost'
    BY <2>1, <2>3, ScheduleSwitches DEF NoThreadLost
  <2>4. CASE timer_server_func
    BY <2>1, <2>3, <2>4 DEF timer_server_func, Tick, SliceOver, NoThreadLost, ThreadsTypeOK
  <2>5. CASE thread_block
    <3> DEFINE st == [status EXCEPT ![cur] = "BLOCKED"]
    <3>1. /\ st \in [Tcb -> Status]
          /\ schedule(st)
          /\ live' = live
          /\ \A u \in Tcb \ {cur} : st[u] = status[u]
      BY <2>5 DEF thread_block, ThreadsTypeOK, Status
    <3> HIDE DEF st
    <3> QED BY <3>1, <2>3
  <2>6. ASSUME NEW t \in Tcb, thread_wakeup(t) PROVE NoThreadLost'
    BY <2>1, <2>6 DEF thread_wakeup, NoThreadLost, ThreadsTypeOK
  <2>7. CASE exit
    BY <2>1, <2>7 DEF exit, switch_to, remove_thread, NoThreadLost
  <2>8. CASE UNCHANGED tvars
    BY <2>8 DEF tvars, NoThreadLost
  <2> QED BY <2>2, <2>4, <2>5, <2>6, <2>7, <2>8 DEF ThreadsNext
<1> QED BY <1>1, <1>2, RingSafety, PTL DEF ThreadsSpec

(***************************************************************************)
(* As long as no thread exits, every thread runs in its own address space  *)
(* with its own kernel stack in the TSS, and a BLOCKED thread is never     *)
(* switched to.  (With exit both fail: it neither calls active_task nor    *)
(* looks at the status of the thread it resumes.)                          *)
(***************************************************************************)
THEOREM SwitchesAreSound ==
    Exiters = {} => (ThreadsSpec => []AddressSpaceActive /\ BlockedStaysOff)
<1> SUFFICES ASSUME Exiters = {}
             PROVE  ThreadsSpec => []AddressSpaceActive /\ BlockedStaysOff
  OBVIOUS
<1> DEFINE Inv == ThreadsTypeOK /\ SingleRing
           Sound == cur' # cur => status[cur'] # "BLOCKED"
<1>1. ThreadsInit => AddressSpaceActive
  BY ThreadsAssumption DEF ThreadsInit, AddressSpaceActive, Pdt
<1>2. Inv /\ AddressSpaceActive /\ [ThreadsNext]_tvars
         => AddressSpaceActive' /\ (Sound \/ UNCHANGED tvars)
  <2> SUFFICES ASSUME Inv, AddressSpaceActive, [ThreadsNext]_tvars
               PROVE  AddressSpaceActive' /\ Sound
    OBVIOUS
  <2>1. cur \in live /\ cur \in Tcb /\ live \subseteq Tcb
    BY DEF SingleRing, ThreadsTypeOK
  <2>2. ASSUME UNCHANGED <<cur, cr3, esp0>> PROVE AddressSpaceActive' /\ Sound
    BY <2>2 DEF AddressSpaceActive, Pdt
  <2>3. ASSUME NEW st \in [Tcb -> Status], schedule(st),
               \A u \in Tcb \ {cur} : st[u] = status[u]
        PROVE  AddressSpaceActive' /\ Sound
    <3>1. CASE UNCHANGED <<cur, cr3, esp0>>
      BY <3>1, <2>2
    <3>2. CASE /\ cur' \in live
               /\ cur' # cur
               /\ st[cur'] = "READY"
               /\ cr3' = Pdt(cur')
               /\ cur' \in UserTask => esp0' = cur'
      BY <3>2, <2>3, <2>1 DEF AddressSpaceActive, Pdt
    <3> QED BY <3>1, <3>2, <2>1, <2>3, ScheduleSwitches
  <2>4. CASE timer_server_func
    BY <2>1, <2>2, <2>3, <2>4 DEF timer_server_func, Tick, SliceOver, ThreadsTypeOK
  <2>5. CASE thread_block
    <3> DEFINE st == [status EXCEPT ![cur] = "BLOCKED"]
    <3>1. /\ st \in [Tcb -> Status]
          /\ schedule(st)
          /\ \A u \in Tcb \ {cur} : st[u] = status[u]
      BY <2>5 DEF thread_block, ThreadsTypeOK, Status
    <3> HIDE DEF st
    <3> QED BY <3>1, <2>3
  <2>6. ASSUME NEW t \in Tcb, create_thread(t) \/ thread_wakeup(t)
        PROVE  UNCHANGED <<cur, cr3, esp0>>
    BY <2>6 DEF create_thread, thread_wakeup
  <2>7. ~exit
    BY DEF exit
  <2>8. CASE UNCHANGED tvars
    BY <2>8, <2>2 DEF tvars
  <2> QED BY <2>2, <2>4, <2>5, <2>6, <2>7, <2>8 DEF ThreadsNext
<1>3. ThreadsSpec => []Inv
  BY RingSafety
<1> QED BY <1>1, <1>2, <1>3, PTL DEF ThreadsSpec, BlockedStaysOff

-----------------------------------------------------------------------------
(***************************************************************************)
(* The recursive definition of probe is one: probe starts at cur_tcb and   *)
(* every element is the successor of the one before it.                    *)
(***************************************************************************)
LEMMA ProbeSteps ==
    ASSUME ThreadsTypeOK
    PROVE  /\ probe[0] = cur
           /\ \A k \in Nat : probe[k + 1] = next[probe[k]]
<1>1. next \in [Tcb -> Tcb] /\ cur \in Tcb
  BY DEF ThreadsTypeOK
<1>2. probe = [k \in Nat |-> IF k = 0 THEN cur ELSE next[probe[k - 1]]]
  <2>1. \E G : G = [k \in Nat |-> IF k = 0 THEN cur ELSE next[G[k - 1]]]
    BY <1>1, IterationExists
  <2> QED BY <2>1 DEF probe
<1> QED BY <1>1, <1>2, IterationSteps

(***************************************************************************)
(* Every TCB the loop looks at is on the ring.                             *)
(***************************************************************************)
LEMMA ProbeOnRing ==
    ASSUME RingInv
    PROVE  \A k \in Nat : probe[k] \in live
<1> DEFINE S == {k \in Nat : probe[k] \in live}
<1>1. 0 \in S /\ \A k \in S : k + 1 \in S
  BY ProbeSteps DEF RingInv, SingleRing
<1>2. S = Nat
  <2> HIDE DEF S
  <2> QED BY <1>1, SetInduction DEF S
<1> QED BY <1>2

(***************************************************************************)
(* The loop is back at cur_tcb after at most as many steps as there are    *)
(* TCBs: among the elements looked at two are the same, and since no two   *)
(* TCBs have the same successor the walk from one to the other can be      *)
(* moved back until it starts at cur_tcb.                                  *)
(***************************************************************************)
LEMMA ProbeReturns ==
    ASSUME RingInv
    PROVE  \E k \in 1 .. Cardinality(Tcb) : probe[k] = cur
<1> DEFINE N == Cardinality(Tcb)
           f == [i \in 0 .. N |-> probe[i]]
<1>1. N \in Nat /\ live \subseteq Tcb /\ IsFiniteSet(Tcb)
  BY ThreadsAssumption, FS_CardinalityType DEF RingInv, ThreadsTypeOK
<1>2. f \in [0 .. N -> Tcb]
  BY <1>1, ProbeOnRing
<1>3. IsFiniteSet(0 .. N) /\ Cardinality(0 .. N) = N + 1
  <2> HIDE DEF N
  <2>1. 0 \in Int /\ N \in Int /\ ~(0 > N)
    BY <1>1
  <2>2. IsFiniteSet(0 .. N) /\ Cardinality(0 .. N) = IF 0 > N THEN 0 ELSE N - 0 + 1
    BY <2>1, FS_Interval
  <2> QED BY <2>1, <2>2
<1>4. \E x, y \in 0 .. N : x # y /\ f[x] = f[y]
  <2> HIDE DEF f
  <2>1. Cardinality(Tcb) < Cardinality(0 .. N)
    BY <1>1, <1>3
  <2> QED BY <1>1, <1>2, <1>3, <2>1, FS_PigeonHole
<1>5. PICK i \in 0 .. N, d \in 1 .. N : probe[i] = probe[i + d]
  <2>1. PICK x \in 0 .. N, y \in 0 .. N : x # y /\ probe[x] = probe[y]
    BY <1>4
  <2>2. CASE x < y
    <3>1. y - x \in 1 .. N /\ x + (y - x) = y
      BY <2>2, <1>1
    <3> QED BY <2>1, <3>1
  <2>3. CASE y < x
    <3>1. x - y \in 1 .. N /\ y + (x - y) = x
      BY <2>3, <1>1
    <3> QED BY <2>1, <3>1
  <2> QED BY <2>1, <2>2, <2>3, <1>1
<1> DEFINE S == {j \in Nat : probe[j] = probe[j + d] => probe[d] = cur}
<1>6. 0 \in S
  BY <1>1, ProbeSteps DEF RingInv
<1>7. ASSUME NEW j \in S PROVE j + 1 \in S
  <2>1. d \in Nat /\ j + d \in Nat /\ (j + 1) + d = (j + d) + 1
    BY <1>1
  <2>2. probe[j + 1] = next[probe[j]] /\ probe[(j + 1) + d] = next[probe[j + d]]
    BY <2>1, ProbeSteps DEF RingInv
  <2>3. probe[j] \in live /\ probe[j + d] \in live
    BY <2>1, ProbeOnRing
  <2>4. probe[j + 1] = probe[(j + 1) + d] => probe[j] = probe[j + d]
    BY <2>2, <2>3 DEF RingInv, SingleRing
  <2> QED BY <2>4
<1>8. S = Nat
  <2> HIDE DEF S
  <2> QED BY <1>6, <1>7, SetInduction DEF S
<1>9. probe[d] = cur
  <2>1. i \in S
    <3> HIDE DEF S
    <3> QED BY <1>8, <1>1
  <2> QED BY <2>1, <1>5
<1> QED BY <1>9

(***************************************************************************)
(* The probe loop of schedule ends, within one turn of the ring and at a   *)
(* thread of the ring, whatever the statuses are.                          *)
(***************************************************************************)
LEMMA ScanEnds ==
    ASSUME RingInv, NEW st \in [Tcb -> Status]
    PROVE  \E t \in live : ScanEndsAt(st, t)
<1> DEFINE K == {k \in 1 .. Cardinality(Tcb) : Stops(st, probe[k])}
<1>1. K # {} /\ K \in SUBSET Nat
  BY ProbeReturns DEF Stops
<1>2. PICK k \in K : \A j \in K : k <= j
  <2> HIDE DEF K
  <2> QED BY <1>1, LeastNumber
<1>3. Cardinality(Tcb) \in Nat
  BY ThreadsAssumption, FS_CardinalityType
<1>4. \A j \in 1 .. (k - 1) : ~Stops(st, probe[j])
  BY <1>2, <1>3
<1>5. ScanEndsAt(st, probe[k])
  BY <1>2, <1>4 DEF ScanEndsAt
<1> QED BY <1>5, ProbeOnRing

(***************************************************************************)
(* The loop comes back to cur_tcb only when no other thread of the ring is *)
(* READY: the TCBs it has looked at are closed under next, so they are the *)
(* whole ring.                                                             *)
(***************************************************************************)
LEMMA ScanCoversRing ==
    ASSUME RingInv, NEW st \in [Tcb -> Status], ScanEndsAt(st, cur)
    PROVE  \A t \in live \ {cur} : st[t] # "READY"
<1>1. PICK k \in 1 .. Cardinality(Tcb) :
        probe[k] = cur /\ \A j \in 1 .. (k - 1) : ~Stops(st, probe[j])
  BY DEF ScanEndsAt
<1>2. k \in Nat /\ k # 0
  BY ThreadsAssumption, FS_CardinalityType
<1> DEFINE S == {t \in live : \E j \in 0 .. (k - 1) : probe[j] = t}
<1>3. S # {} /\ S \in SUBSET live
  BY <1>2, ProbeSteps DEF RingInv, SingleRing
<1>4. ASSUME NEW t \in S PROVE next[t] \in S
  <2>1. PICK j \in 0 .. (k - 1) : probe[j] = t
    OBVIOUS
  <2>2. j \in Nat /\ probe[j + 1] = next[t] /\ next[t] \in live
    BY <1>2, <2>1, ProbeSteps DEF RingInv, SingleRing
  <2>3. CASE j + 1 = k
    BY <1>1, <1>2, <2>2, <2>3, ProbeSteps DEF RingInv
  <2>4. CASE j + 1 # k
    <3>1. j + 1 \in 0 .. (k - 1)
      BY <1>2, <2>4
    <3> QED BY <3>1, <2>2
  <2> QED BY <2>3, <2>4
<1>5. S = live
  <2> HIDE DEF S
  <2> QED BY <1>3, <1>4 DEF RingInv, SingleRing
<1>6. ASSUME NEW t \in live \ {cur} PROVE st[t] # "READY"
  <2>1. PICK j \in 0 .. (k - 1) : probe[j] = t
    BY <1>5
  <2>2. j # 0
    BY <2>1, ProbeSteps DEF RingInv
  <2>3. j \in 1 .. (k - 1)
    BY <2>2, <1>2
  <2> QED BY <2>1, <2>3, <1>1 DEF Stops
<1> QED BY <1>6

(***************************************************************************)
(* schedule always comes to an end: in every state the thread module can   *)
(* be in, and with whatever statuses it is entered, the probe loop stops   *)
(* at a thread of the ring.                                                *)
(***************************************************************************)
THEOREM ScheduleEnds ==
    ThreadsSpec => [](\A st \in [Tcb -> Status] : \E t \in live : ScanEndsAt(st, t))
<1>1. RingInv => \A st \in [Tcb -> Status] : \E t \in live : ScanEndsAt(st, t)
  BY ScanEnds
<1> QED BY <1>1, RingInit, RingStep, PTL DEF ThreadsSpec
=============================================================================
