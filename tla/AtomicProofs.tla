---------------------------- MODULE AtomicProofs ----------------------------
(***************************************************************************)
(* The proof that locks, semaphores, thread operations and handlers behave *)
(* as if each were one step (Interrupts!AtomicView), for every set of      *)
(* threads, locks and request lines: what Sync sees of a state in the      *)
(* middle of an operation, and what each step is in the coarse picture.    *)
(***************************************************************************)
EXTENDS InterruptsProofs

(***************************************************************************)
(* The sequence of the threads that sem_V has unlinked: none or one.       *)
(***************************************************************************)
LEMMA SetToSeqNone == SetToSeq({}) = <<>>
<1>1. Cardinality({}) = 0
  BY FS_EmptySet
<1>2. \A f \in [1 .. 0 -> {}] : f = <<>>
  <2> SUFFICES ASSUME NEW f \in [1 .. 0 -> {}] PROVE f = <<>>
    OBVIOUS
  <2>1. f \in Seq({}) /\ Len(f) = 0
    <3>1. 0 \in Nat /\ DOMAIN f = 1 .. 0
      OBVIOUS
    <3> QED BY <3>1
  <2> QED BY <2>1
<1>3. <<>> \in [1 .. 0 -> {}] /\ IsInjective(<<>>)
  BY DEF IsInjective
<1>4. SetToSeq({}) = CHOOSE f \in [1 .. 0 -> {}] : IsInjective(f)
  BY <1>1 DEF SetToSeq
<1> QED BY <1>2, <1>3, <1>4

(***************************************************************************)
(* One thread makes a sequence of one.                                      *)
(***************************************************************************)
LEMMA SetToSeqOne ==
    ASSUME NEW u
    PROVE  SetToSeq({u}) = <<u>>
<1>1. Cardinality({u}) = 1
  BY FS_Singleton
<1>2. \A f \in [1 .. 1 -> {u}] : f = <<u>>
  OBVIOUS
<1>3. <<u>> \in [1 .. 1 -> {u}] /\ IsInjective(<<u>>)
  BY DEF IsInjective
<1>4. SetToSeq({u}) = CHOOSE f \in [1 .. 1 -> {u}] : IsInjective(f)
  BY <1>1 DEF SetToSeq
<1> QED BY <1>2, <1>3, <1>4

-----------------------------------------------------------------------------
(***************************************************************************)
(* The handler has taken the printk lock itself and has not begun to give  *)
(* it up.                                                                  *)
(***************************************************************************)
HandlerOwns ==
    \/ Doing("int", 2) /\ Top.node = NoTcb
    \/ Doing("lock_release", 1) /\ Len(stack[cur]) > 1 /\ Under.node = NoTcb

\* No operation is half done.
Quiet ==
    /\ ~HandlerOwns
    /\ stack[cur] # <<>> => /\ Top.fn \notin {"sem_V", "thread_wakeup"}
                            /\ ~(Top.fn = "lock_acquire" /\ Top.pc = 2)
                            /\ ~(Top.fn = "thread_block" /\ Top.pc = 1)

\* The place of sem_V on the stack.
PostAt == IF Top.fn = "thread_wakeup" THEN Len(stack[cur]) - 1 ELSE Len(stack[cur])

Posting == stack[cur] # <<>> /\ Top.fn \in {"sem_V", "thread_wakeup"}

\* sem_V gives up a lock that the handler has taken.
HandlerPosts == PostAt > 2 /\ stack[cur][PostAt - 2].node = NoTcb

(***************************************************************************)
(* When the handler has the lock.                                          *)
(***************************************************************************)
HasWhen ==
    /\ Quiet \/ Doing("thread_block", 1) => \A l \in Lock : ~HandlerHas(l)
    /\ HandlerOwns => \A l \in Lock : HandlerHas(l) <=> l = PrintkLock
    /\ Posting =>
          /\ PostAt \in 2 .. Len(stack[cur]) /\ stack[cur][PostAt].fn = "sem_V"
          /\ stack[cur][PostAt].arg \in Lock
          /\ \A s \in Sem : PostFrames(s) = IF stack[cur][PostAt].arg = s THEN {PostAt} ELSE {}
          /\ HandlerPosts => stack[cur][PostAt].arg = PrintkLock
          /\ \A l \in Lock : HandlerHas(l) <=> HandlerPosts /\ l = stack[cur][PostAt].arg

(***************************************************************************)
(* A handler that did not find its thread the holder sees it become the     *)
(* holder only by its own lock_acquire.                                     *)
(***************************************************************************)
LEMMA NeverMine ==
    ASSUME CallInv, holder[PrintkLock] = cur, ~Posting, NEW k \in Handlers(cur),
           stack[cur][k].arg # TimerVector, stack[cur][k].pc # 1, stack[cur][k].node = NoTcb
    PROVE  HandlerOwns
<1> DEFINE q == stack[cur]
           n == Len(q)
<1>1. /\ cur \in Tcb /\ n \in Nat /\ q \in Seq(Frames) /\ DOMAIN q = 1 .. n /\ Top = q[n]
      /\ Under = q[n - 1] /\ (q = <<>> <=> n = 0)
  BY StackFacts DEF CallInv, Under
<1>2. k \in 1 .. n /\ q[k].fn = "int"
  BY <1>1 DEF Handlers
<1>3. Linked(cur, q, iflag[cur]) /\ NotMine(cur) /\ HandlerInv
  BY <1>1 DEF CallInv, LinkInv, ThreadInv, TopInv
<1>4. /\ \A j \in 1 .. n : j = 1 \/ On(q[j], q[j - 1])
      /\ \A j \in 1 .. n : q[j].fn = "sem_V" => j = n \/ (j = n - 1 /\ q[n].fn = "thread_wakeup")
      /\ \A j \in 1 .. n : Sane(cur, q[j])
  <2>1. \A j \in 1 .. n : Sane(cur, q[j])
    BY <1>3 DEF Linked
  <2> QED BY <1>1, <1>3, <2>1, Places
<1>5. cur # NoTcb
  BY <1>1, SyncAssumption
<1>6. q # <<>> /\ n > 0
  BY <1>1, <1>2
<1> HIDE DEF q, n
<1>7. CASE k = n
  <2>1. q[n].pc = 2 \/ (q[n].pc = 3 /\ PrintFrame(Top))
    BY <1>1, <1>2, <1>4, <1>7 DEF Sane, PrintFrame, q
  <2>2. ~Doing("int", 3)
    BY <1>1, <1>3, <1>6, <2>1 DEF HandlerInv, Doing, PrintFrame, q, n
  <2>3. Doing("int", 2) /\ Top.node = NoTcb
    BY <1>1, <1>2, <1>6, <1>7, <2>1, <2>2 DEF Doing, q
  <2> QED BY <2>3 DEF HandlerOwns
<1>8. CASE k # n
  <2>1. k + 1 \in 1 .. n /\ (k + 1) - 1 = k /\ k + 1 # 1 /\ n > 1
    BY <1>1, <1>2, <1>8
  <2>2. On(q[k + 1], q[k])
    BY <1>4, <2>1
  <2>3. /\ q[k + 1].fn \in {"lock_acquire", "lock_release"} /\ q[k + 1].arg = PrintkLock
        /\ q[k + 1].pc \in {1, 2}
    <3>1. q[k + 1].fn \in {"lock_acquire", "lock_release"} /\ q[k + 1].arg = PrintkLock
      BY <1>2, <2>2 DEF On, PrintFrame, q
    <3> QED BY <1>4, <2>1, <3>1 DEF Sane
  <2>4. ~(q[k + 1].fn = "lock_acquire" /\ q[k + 1].pc = 2)
    BY <1>3, <2>1, <2>3 DEF NotMine, q, n
  <2>5. CASE k + 1 = n
    <3>1. Under = q[k] /\ Top = q[k + 1] /\ Len(stack[cur]) > 1 /\ stack[cur] # <<>>
      <4>1. n - 1 = k
        BY <1>1, <1>2, <2>5
      <4> QED BY <1>1, <1>6, <2>1, <2>5, <4>1 DEF q, n
    <3>2. Top.fn = "lock_acquire" => FALSE
      BY <1>3, <1>5, <2>3, <2>4, <3>1 DEF HandlerInv, Doing, q
    <3>3. Top.pc = 2 => FALSE
      BY <1>3, <2>3, <3>1, <3>2 DEF HandlerInv, Doing
    <3> QED BY <2>3, <3>1, <3>2, <3>3 DEF HandlerOwns, Doing, q
  <2>6. CASE k + 1 # n
    <3>1. k + 2 \in 1 .. n /\ (k + 2) - 1 = k + 1 /\ k + 2 # 1
      BY <1>1, <1>2, <2>1, <2>6
    <3>2. On(q[k + 2], q[k + 1])
      BY <1>4, <3>1
    <3>3. q[k + 2].fn = "sem_V"
      BY <2>3, <2>4, <3>2 DEF On, PrintFrame
    <3>4. Top.fn \in {"sem_V", "thread_wakeup"}
      BY <1>1, <1>4, <3>1, <3>3
    <3> QED BY <1>6, <3>4 DEF Posting, q
  <2> QED BY <2>5, <2>6
<1> QED BY <1>7, <1>8

(***************************************************************************)
(* The frames around sem_V: lock_release, and below that a handler or       *)
(* nothing.                                                                 *)
(***************************************************************************)
LEMMA PostFacts ==
    ASSUME CallInv, Posting
    PROVE  LET p == PostAt q == stack[cur]
           IN  /\ p \in 2 .. Len(q) /\ q[p].fn = "sem_V" /\ q[p].arg \in Lock
               /\ \A s \in Sem : PostFrames(s) = IF q[p].arg = s THEN {p} ELSE {}
               /\ q[p - 1].fn = "lock_release" /\ q[p - 1].arg = q[p].arg
               /\ p > 2 => On(q[p - 1], q[p - 2])
               /\ q[p] \in Frames /\ Sane(cur, q[p])
<1> DEFINE q == stack[cur]
           n == Len(q)
           p == PostAt
<1>1. /\ cur \in Tcb /\ n \in Nat /\ q \in Seq(Frames) /\ Top = q[n]
      /\ Under = q[n - 1] /\ q # <<>> /\ n > 0
      /\ \A k \in 1 .. n : q[k] \in Frames
      /\ Top.fn \in {"sem_V", "thread_wakeup"}
      /\ p = IF Top.fn = "thread_wakeup" THEN n - 1 ELSE n
  BY StackFacts DEF CallInv, Under, Posting, PostAt
<1>2. Linked(cur, q, iflag[cur])
  BY <1>1 DEF CallInv, LinkInv
<1>3. /\ \A j \in 1 .. n : j = 1 \/ On(q[j], q[j - 1])
      /\ \A j \in 1 .. n : Sane(cur, q[j])
      /\ Bottom(q[1])
  <2>1. \A j \in 1 .. n : Sane(cur, q[j])
    BY <1>2 DEF Linked
  <2> QED BY <1>1, <1>2, <2>1, Places
<1>4. DroppingTop
  BY DroppingIs DEF CallInv
<1>5. \A s \in Sem : PostFrames(s) = IF q[p].arg = s THEN {p} ELSE {}
  <2>1. CASE Top.fn = "sem_V"
    BY <1>1, <1>4, <2>1 DEF DroppingTop
  <2>2. CASE Top.fn = "thread_wakeup"
    BY <1>1, <1>4, <2>2 DEF DroppingTop
  <2> QED BY <1>1, <2>1, <2>2
<1> HIDE DEF q, n, p
<1>6. p \in 1 .. n /\ q[p].fn = "sem_V"
  <2>1. CASE Top.fn = "sem_V"
    BY <1>1, <2>1
  <2>2. CASE Top.fn = "thread_wakeup"
    <3>1. n # 1
      BY <1>1, <1>3, <2>2 DEF Bottom
    <3>2. n \in 1 .. n /\ n - 1 \in 1 .. n
      BY <1>1, <3>1
    <3>3. On(q[n], q[n - 1])
      BY <1>3, <3>1, <3>2
    <3> QED BY <1>1, <2>2, <3>2, <3>3 DEF On
  <2> QED BY <1>1, <2>1, <2>2
<1>7. p # 1
  BY <1>3, <1>6 DEF Bottom
<1>8. q[p - 1].fn = "lock_release" /\ q[p - 1].arg = q[p].arg
  BY <1>3, <1>6, <1>7 DEF On
<1>9. p > 2 => On(q[p - 1], q[p - 2])
  <2> SUFFICES ASSUME p > 2 PROVE On(q[p - 1], q[p - 2])
    OBVIOUS
  <2>1. p - 1 \in 1 .. n /\ p - 1 # 1 /\ (p - 1) - 1 = p - 2
    BY <1>1, <1>6
  <2> QED BY <1>3, <2>1
<1>10. q[p].arg \in Lock
  BY <1>1, <1>6, FrameFields DEF LockCalls
<1>11. p \in 2 .. n
  BY <1>1, <1>6, <1>7
<1> QED BY <1>1, <1>3, <1>5, <1>6, <1>8, <1>9, <1>10, <1>11 DEF q, n, p

(***************************************************************************)
(* HandlerHas, told from the top of the stack.                              *)
(***************************************************************************)
LEMMA HandlerHasWhen == CallInv => HasWhen
<1> SUFFICES ASSUME CallInv PROVE HasWhen
  OBVIOUS
<1> DEFINE q == stack[cur]
           n == Len(q)
<1>1. /\ cur \in Tcb /\ n \in Nat /\ q \in Seq(Frames) /\ DOMAIN q = 1 .. n /\ Top = q[n]
      /\ Under = q[n - 1] /\ (q = <<>> <=> n = 0)
      /\ PrintkLock \in Lock /\ Lock \subseteq Sem
  BY StackFacts, SyncAssumption DEF CallInv, Under, Sem
<1>2. DroppingTop
  BY DroppingIs DEF CallInv
<1>3. ASSUME Quiet \/ Doing("thread_block", 1), NEW l \in Lock, HandlerHas(l) PROVE FALSE
  <2>1. ~Posting /\ ~Granted(l) /\ ~HandlerOwns
    BY <1>3 DEF Quiet, Posting, Granted, Doing, HandlerOwns
  <2>2. ~Dropping(l)
    BY <1>1, <1>2, <2>1 DEF DroppingTop, Posting
  <2>3. holder[PrintkLock] = cur
    BY <1>3, <2>1, <2>2 DEF HandlerHas
  <2>4. PICK k \in Handlers(cur) : q[k].arg # TimerVector /\ q[k].pc # 1 /\ q[k].node = NoTcb
    BY <1>3 DEF HandlerHas
  <2> QED BY <2>1, <2>3, <2>4, NeverMine
<1>4. ASSUME HandlerOwns PROVE \A l \in Lock : HandlerHas(l) <=> l = PrintkLock
  <2>1. q # <<>> /\ n > 0
    BY <1>1, <1>4 DEF HandlerOwns, Doing
  <2>2. holder[PrintkLock] = cur
    BY <1>4, <2>1 DEF HandlerOwns, CallInv, TopInv, HandlerInv
  <2>3. \E k \in Handlers(cur) : q[k].arg # TimerVector /\ q[k].pc # 1 /\ q[k].node = NoTcb
    <3>1. CASE Doing("int", 2) /\ Top.node = NoTcb
      <4>1. n \in Handlers(cur) /\ q[n].pc = 2 /\ q[n].node = NoTcb
        BY <1>1, <2>1, <3>1 DEF Doing, Handlers
      <4>2. q[n].arg # TimerVector
        BY <1>1, <3>1, DoingFacts DEF Sane
      <4> QED BY <4>1, <4>2
    <3>2. CASE Doing("lock_release", 1) /\ n > 1 /\ Under.node = NoTcb
      <4>1. On(Top, Under) /\ Top.fn = "lock_release"
        BY <3>2, DoingFacts
      <4>2. Under.fn = "int" /\ Under.arg # TimerVector /\ Under.pc = 3
        BY <4>1 DEF On, PrintFrame
      <4>3. n - 1 \in 1 .. n
        BY <1>1, <3>2
      <4>4. n - 1 \in Handlers(cur)
        BY <1>1, <4>2, <4>3 DEF Handlers
      <4> QED BY <1>1, <3>2, <4>2, <4>4
    <3> QED BY <1>4, <3>1, <3>2 DEF HandlerOwns
  <2> QED BY <2>2, <2>3 DEF HandlerHas
<1>5. ASSUME Posting
      PROVE  /\ PostAt \in 2 .. n /\ q[PostAt].fn = "sem_V" /\ q[PostAt].arg \in Lock
             /\ \A s \in Sem : PostFrames(s) = IF q[PostAt].arg = s THEN {PostAt} ELSE {}
             /\ HandlerPosts => q[PostAt].arg = PrintkLock
             /\ \A l \in Lock : HandlerHas(l) <=> HandlerPosts /\ l = q[PostAt].arg
  <2> DEFINE p == PostAt
  <2>1. /\ p \in 2 .. n /\ q[p].fn = "sem_V" /\ q[p].arg \in Lock
        /\ \A s \in Sem : PostFrames(s) = IF q[p].arg = s THEN {p} ELSE {}
        /\ q[p - 1].fn = "lock_release" /\ q[p - 1].arg = q[p].arg
        /\ p > 2 => On(q[p - 1], q[p - 2])
    BY <1>5, PostFacts
  <2>2. p > 2 => /\ q[p].arg = PrintkLock /\ q[p - 2].fn = "int" /\ q[p - 2].arg # TimerVector
                 /\ q[p - 2].pc = 3
    BY <2>1 DEF On, PrintFrame
  <2>3. /\ \A k \in 1 .. n : q[k].fn = "int" => k = 1 \/ (k = 2 /\ q[1].fn = "switch_to")
        /\ \A k \in 1 .. n : k = 1 \/ On(q[k], q[k - 1])
    <3>1. Linked(cur, q, iflag[cur])
      BY <1>1 DEF CallInv, LinkInv
    <3> QED BY <1>1, <3>1, Places
  <2>4. \A l \in Lock : ~Granted(l) /\ (Dropping(l) <=> l = q[p].arg)
    BY <1>1, <1>5, <2>1 DEF Granted, Doing, Posting, Dropping
  <2> HIDE DEF p, n
  <2>5. ASSUME NEW k \in Handlers(cur) PROVE p > 2 /\ k = p - 2
    <3>1. k \in 1 .. n /\ q[k].fn = "int"
      BY <1>1 DEF Handlers
    <3>2. k = 1 \/ (k = 2 /\ q[1].fn = "switch_to")
      BY <2>3, <3>1
    <3>3. p > 2
      <4> SUFFICES ASSUME ~(p > 2) PROVE FALSE
        OBVIOUS
      <4>1. p = 2 /\ q[1].fn = "lock_release"
        BY <1>1, <2>1
      <4>2. k = 1
        BY <3>2, <4>1
      <4> QED BY <3>1, <4>1, <4>2
    <3>4. p - 2 \in 1 .. n
      BY <1>1, <2>1, <3>3
    <3>5. p - 2 = 1 \/ (p - 2 = 2 /\ q[1].fn = "switch_to")
      BY <2>2, <2>3, <3>3, <3>4
    <3> QED BY <1>1, <2>1, <2>2, <3>1, <3>2, <3>3, <3>5
  <2>6. p > 2 => p - 2 \in Handlers(cur)
    BY <1>1, <2>1, <2>2 DEF Handlers
  <2>7. HandlerPosts <=> p > 2 /\ q[p - 2].node = NoTcb
    BY DEF HandlerPosts, p
  <2>8. ASSUME NEW l \in Lock PROVE HandlerHas(l) <=> HandlerPosts /\ l = q[p].arg
    <3>1. ASSUME HandlerHas(l) PROVE HandlerPosts /\ l = q[p].arg
      <4>1. PICK k \in Handlers(cur) : q[k].node = NoTcb
        BY <3>1 DEF HandlerHas
      <4>2. l = PrintkLock
        BY <3>1 DEF HandlerHas
      <4> QED BY <2>2, <2>5, <2>7, <4>1, <4>2
    <3>2. ASSUME HandlerPosts, l = q[p].arg PROVE HandlerHas(l)
      BY <2>2, <2>4, <2>6, <2>7, <3>2 DEF HandlerHas
    <3> QED BY <3>1, <3>2
  <2> QED BY <2>1, <2>2, <2>7, <2>8 DEF p, n
<1> QED BY <1>3, <1>4, <1>5 DEF HasWhen

-----------------------------------------------------------------------------
(***************************************************************************)
(* What Sync sees in each phase of an operation.                           *)
(***************************************************************************)
SeesQuiet ==
    Quiet => SeenVal = val /\ SeenHolder = holder /\ SeenWait = wait /\ SeenStatus = status

SeesGranted ==
    Doing("lock_acquire", 2) =>
        /\ SeenVal = [val EXCEPT ![Top.arg] = @ + 1]
        /\ SeenHolder = holder /\ SeenWait = wait /\ SeenStatus = status

SeesOwner ==
    HandlerOwns =>
        /\ SeenVal = [val EXCEPT ![PrintkLock] = @ + 1]
        /\ SeenHolder = [holder EXCEPT ![PrintkLock] = NoTcb]
        /\ SeenWait = wait /\ SeenStatus = status

SeesQueued ==
    Doing("thread_block", 1) =>
        /\ SeenWait = [wait EXCEPT ![Top.arg] = Front(@)]
        /\ SeenVal = val /\ SeenHolder = holder /\ SeenStatus = status

SeesPost ==
    Posting =>
        LET l == stack[cur][PostAt].arg
            u == stack[cur][PostAt].node
        IN  /\ IF HandlerPosts THEN SeenVal = [val EXCEPT ![l] = @ + 1] /\ SeenHolder = holder
               ELSE SeenVal = val /\ SeenHolder = [holder EXCEPT ![l] = cur]
            /\ IF u = NoTcb THEN SeenWait = wait /\ SeenStatus = status
               ELSE /\ SeenWait = [wait EXCEPT ![l] = <<u>> \o @]
                    /\ SeenStatus = [status EXCEPT ![u] = "BLOCKED"]

Sees == SeesQuiet /\ SeesGranted /\ SeesOwner /\ SeesQueued /\ SeesPost

(***************************************************************************)
(* Types, for the facts about what is seen.                                *)
(***************************************************************************)
LEMMA SeenTypes ==
    ASSUME CallInv
    PROVE  /\ cur \in Tcb /\ Lock \subseteq Sem /\ PrintkLock \in Lock /\ NoTcb \notin Tcb
           /\ NoSem \notin Sem
           /\ val \in [Sem -> Nat] /\ wait \in [Sem -> Seq(Tcb)]
           /\ holder \in [Lock -> Tcb \cup {NoTcb}]
           /\ at \in [Tcb -> Sem \cup {NoSem}]
           /\ cs \in [Lock -> SUBSET Tcb]
           /\ status \in [Tcb -> Status]
BY CurFacts, SyncAssumption DEF CallInv, BaseInv, SyncTypeOK, Sem, RingInv, ThreadsTypeOK

(***************************************************************************)
(* Outside sem_V no thread is unlinked.                                     *)
(***************************************************************************)
LEMMA NoneUnlinked ==
    ASSUME CallInv, ~Posting
    PROVE  /\ \A s \in Sem : Unlinked(s) = {} /\ ~Dropping(s)
           /\ SeenStatus = status
           /\ ~Doing("thread_block", 1) => SeenWait = wait
<1>1. \A s \in Sem : PostFrames(s) = {}
  BY DroppingIs DEF CallInv, DroppingTop, Posting
<1>2. \A s \in Sem : Unlinked(s) = {} /\ ~Dropping(s)
  BY <1>1 DEF Unlinked, Dropping
<1>3. SeenStatus = status
  BY <1>2, SeenTypes DEF SeenStatus
<1>4. ASSUME ~Doing("thread_block", 1) PROVE SeenWait = wait
  <2>1. \A s \in Sem : <<>> \o wait[s] = wait[s]
    BY SeenTypes
  <2>2. \A s \in Sem : SetToSeq(Unlinked(s)) \o wait[s] = wait[s]
    BY <1>2, <2>1, SetToSeqNone
  <2>3. SeenWait = [s \in Sem |-> wait[s]]
    BY <1>4, <2>2 DEF SeenWait
  <2> QED BY <2>3, SeenTypes
<1> QED BY <1>2, <1>3, <1>4

(***************************************************************************)
(* The values and holders that are seen, from who has the token.           *)
(***************************************************************************)
LEMMA SeenValNone ==
    ASSUME CallInv, \A l \in Lock : ~Granted(l) /\ ~HandlerHas(l)
    PROVE  SeenVal = val
<1>1. \A s \in Sem : val[s] \in Nat /\ val[s] + 0 = val[s]
  BY SeenTypes
<1>2. SeenVal = [s \in Sem |-> val[s]]
  BY <1>1 DEF SeenVal
<1> QED BY <1>2, SeenTypes

(***************************************************************************)
(* The value that is seen when one lock's token is on its way.              *)
(***************************************************************************)
LEMMA SeenValOne ==
    ASSUME CallInv, NEW k \in Lock, \A l \in Lock : Granted(l) \/ HandlerHas(l) <=> l = k
    PROVE  SeenVal = [val EXCEPT ![k] = @ + 1]
<1>1. \A s \in Sem : val[s] \in Nat /\ val[s] + 0 = val[s]
  BY SeenTypes
<1>2. \A s \in Sem : (val[s] + IF s \in Lock /\ (Granted(s) \/ HandlerHas(s)) THEN 1 ELSE 0)
                     = IF s = k THEN val[s] + 1 ELSE val[s]
  BY <1>1
<1>3. SeenVal = [s \in Sem |-> IF s = k THEN val[s] + 1 ELSE val[s]]
  BY <1>2 DEF SeenVal
<1> QED BY <1>3, SeenTypes

(***************************************************************************)
(* What is seen in each phase follows from the invariant of the call        *)
(* stacks.                                                                  *)
(***************************************************************************)
LEMMA SeesPhases == CallInv => Sees
<1> SUFFICES ASSUME CallInv PROVE Sees
  OBVIOUS
<1>1. HasWhen
  BY HandlerHasWhen
<1>2. ASSUME Quiet
      PROVE  SeenVal = val /\ SeenHolder = holder /\ SeenWait = wait /\ SeenStatus = status
  <2>1. ~Posting /\ ~Doing("thread_block", 1) /\ \A l \in Lock : ~Granted(l) /\ ~HandlerHas(l)
    BY <1>1, <1>2 DEF Quiet, Posting, Doing, Granted, HasWhen
  <2>2. SeenVal = val
    BY <2>1, SeenValNone
  <2>3. SeenHolder = holder
    BY <2>1, NoneUnlinked, SeenTypes DEF SeenHolder
  <2> QED BY <2>1, <2>2, <2>3, NoneUnlinked
<1>3. ASSUME Doing("thread_block", 1)
      PROVE  /\ SeenWait = [wait EXCEPT ![Top.arg] = Front(@)]
             /\ SeenVal = val /\ SeenHolder = holder /\ SeenStatus = status
  <2>1. ~Posting /\ \A l \in Lock : ~Granted(l) /\ ~HandlerHas(l)
    BY <1>1, <1>3 DEF Posting, Doing, Granted, HasWhen
  <2>2. SeenVal = val
    BY <2>1, SeenValNone
  <2>3. SeenHolder = holder
    BY <2>1, NoneUnlinked, SeenTypes DEF SeenHolder
  <2>4. \A s \in Sem : SetToSeq(Unlinked(s)) \o wait[s] = wait[s]
    <3>1. \A s \in Sem : <<>> \o wait[s] = wait[s]
      BY SeenTypes
    <3> QED BY <2>1, <3>1, NoneUnlinked, SetToSeqNone
  <2>5. SeenWait = [s \in Sem |-> IF s = Top.arg THEN Front(wait[s]) ELSE wait[s]]
    BY <1>3, <2>4 DEF SeenWait
  <2>6. SeenWait = [wait EXCEPT ![Top.arg] = Front(@)]
    BY <2>5, SeenTypes
  <2> QED BY <2>1, <2>2, <2>3, <2>6, NoneUnlinked
<1>4. ASSUME Doing("lock_acquire", 2)
      PROVE  /\ SeenVal = [val EXCEPT ![Top.arg] = @ + 1]
             /\ SeenHolder = holder /\ SeenWait = wait /\ SeenStatus = status
  <2>1. ~Posting /\ ~Doing("thread_block", 1) /\ Top.arg \in Lock
    BY <1>4, DoingFacts DEF Posting, Doing, LockCalls
  <2>2. \A l \in Lock : Granted(l) <=> l = Top.arg
    BY <1>4 DEF Granted
  <2>3. holder[Top.arg] = NoTcb
    BY <2>1, <2>2 DEF CallInv, TopInv, TokenInv
  <2>4. \A l \in Lock : HandlerHas(l) => l = Top.arg
    <3> SUFFICES ASSUME NEW l \in Lock, HandlerHas(l), l # Top.arg PROVE FALSE
      OBVIOUS
    <3>1. l = PrintkLock /\ holder[PrintkLock] = cur
      BY <2>1, <2>2, NoneUnlinked, SeenTypes DEF HandlerHas
    <3>2. PICK k \in Handlers(cur) : LET f == stack[cur][k]
                                     IN  f.arg # TimerVector /\ f.pc # 1 /\ f.node = NoTcb
      BY DEF HandlerHas
    <3>3. HandlerOwns
      BY <2>1, <3>1, <3>2, NeverMine
    <3> QED BY <1>4, <3>3 DEF HandlerOwns, Doing
  <2>5. SeenVal = [val EXCEPT ![Top.arg] = @ + 1]
    BY <2>1, <2>2, <2>4, SeenValOne
  <2>6. SeenHolder = holder
    <3>1. \A l \in Lock : ~Dropping(l)
      BY <2>1, NoneUnlinked, SeenTypes
    <3>2. SeenHolder = [l \in Lock |-> holder[l]]
      BY <2>3, <2>4, <3>1 DEF SeenHolder
    <3> QED BY <3>2, SeenTypes
  <2> QED BY <2>1, <2>5, <2>6, NoneUnlinked
<1>5. ASSUME HandlerOwns
      PROVE  /\ SeenVal = [val EXCEPT ![PrintkLock] = @ + 1]
             /\ SeenHolder = [holder EXCEPT ![PrintkLock] = NoTcb]
             /\ SeenWait = wait /\ SeenStatus = status
  <2>1. ~Posting /\ ~Doing("thread_block", 1) /\ \A l \in Lock : ~Granted(l)
    BY <1>5 DEF Posting, Doing, Granted, HandlerOwns
  <2>2. \A l \in Lock : HandlerHas(l) <=> l = PrintkLock
    BY <1>1, <1>5 DEF HasWhen
  <2>3. SeenVal = [val EXCEPT ![PrintkLock] = @ + 1]
    BY <2>1, <2>2, SeenTypes, SeenValOne
  <2>4. SeenHolder = [holder EXCEPT ![PrintkLock] = NoTcb]
    <3>1. SeenHolder = [l \in Lock |-> IF l = PrintkLock THEN NoTcb ELSE holder[l]]
      BY <2>1, <2>2, NoneUnlinked, SeenTypes DEF SeenHolder
    <3> QED BY <3>1, SeenTypes
  <2> QED BY <2>1, <2>3, <2>4, NoneUnlinked
<1>6. ASSUME Posting PROVE SeesPost
  <2> DEFINE l == stack[cur][PostAt].arg
             u == stack[cur][PostAt].node
  <2>1. /\ l \in Lock /\ (\A s \in Sem : PostFrames(s) = IF l = s THEN {PostAt} ELSE {})
        /\ \A k \in Lock : HandlerHas(k) <=> HandlerPosts /\ k = l
    BY <1>1, <1>6 DEF HasWhen
  <2>2. ~Doing("thread_block", 1) /\ \A k \in Lock : ~Granted(k)
    BY <1>6 DEF Posting, Doing, Granted
  <2>3. /\ \A s \in Sem : Dropping(s) <=> s = l
        /\ \A s \in Sem : Unlinked(s) = IF s = l /\ u # NoTcb THEN {u} ELSE {}
    BY <2>1 DEF Dropping, Unlinked
  <2>4. u \in Tcb \cup {NoTcb}
    BY <1>6, PostFacts, FrameFields
  <2>5. holder[l] = NoTcb
    BY <2>1, <2>3, SeenTypes DEF CallInv, TopInv, TokenInv
  <2> HIDE DEF l, u
  <2>6. ASSUME HandlerPosts PROVE SeenVal = [val EXCEPT ![l] = @ + 1] /\ SeenHolder = holder
    <3>1. SeenVal = [val EXCEPT ![l] = @ + 1]
      BY <2>1, <2>2, <2>6, SeenValOne
    <3>2. SeenHolder = [k \in Lock |-> holder[k]]
      BY <2>1, <2>3, <2>5, <2>6, SeenTypes DEF SeenHolder
    <3> QED BY <3>1, <3>2, SeenTypes
  <2>7. ASSUME ~HandlerPosts PROVE SeenVal = val /\ SeenHolder = [holder EXCEPT ![l] = cur]
    <3>1. SeenVal = val
      BY <2>1, <2>2, <2>7, SeenValNone
    <3>2. SeenHolder = [k \in Lock |-> IF k = l THEN cur ELSE holder[k]]
      BY <2>1, <2>3, <2>7, SeenTypes DEF SeenHolder
    <3> QED BY <3>1, <3>2, <2>1, SeenTypes
  <2>8. /\ \A s \in Sem : <<>> \o wait[s] = wait[s]
        /\ SeenWait = [s \in Sem |-> SetToSeq(Unlinked(s)) \o wait[s]]
    BY <2>2, SeenTypes DEF SeenWait
  <2>9. CASE u = NoTcb
    <3>1. \A s \in Sem : Unlinked(s) = {}
      BY <2>3, <2>9
    <3>2. SeenWait = [s \in Sem |-> wait[s]]
      BY <2>8, <3>1, SetToSeqNone
    <3>3. SeenStatus = status
      BY <3>1, SeenTypes DEF SeenStatus
    <3>4. SeenWait = wait
      BY <3>2, SeenTypes
    <3> QED BY <1>6, <2>6, <2>7, <2>9, <3>3, <3>4 DEF SeesPost, l, u
  <2>10. CASE u # NoTcb
    <3>1. \A s \in Sem : Unlinked(s) = IF s = l THEN {u} ELSE {}
      BY <2>3, <2>10
    <3>2. \A s \in Sem : SetToSeq(Unlinked(s)) \o wait[s] = IF s = l THEN <<u>> \o wait[s] ELSE wait[s]
      <4>1. \A s \in Sem : s # l => SetToSeq(Unlinked(s)) \o wait[s] = wait[s]
        BY <2>8, <3>1, SetToSeqNone
      <4>2. \A s \in Sem : s = l => SetToSeq(Unlinked(s)) = <<u>>
        BY <3>1, SetToSeqOne
      <4> QED BY <4>1, <4>2
    <3>3. SeenWait = [s \in Sem |-> IF s = l THEN <<u>> \o wait[s] ELSE wait[s]]
      BY <2>8, <3>2
    <3>4. SeenWait = [wait EXCEPT ![l] = <<u>> \o @]
      BY <3>3, SeenTypes
    <3>5. SeenStatus = [t \in Tcb |-> IF t = u THEN "BLOCKED" ELSE status[t]]
      BY <2>1, <3>1, SeenTypes DEF SeenStatus
    <3>6. SeenStatus = [status EXCEPT ![u] = "BLOCKED"]
      BY <3>5, <2>4, <2>10, SeenTypes
    <3> QED BY <1>6, <2>6, <2>7, <2>10, <3>4, <3>6 DEF SeesPost, l, u
  <2> QED BY <2>9, <2>10
<1> QED BY <1>2, <1>3, <1>4, <1>5, <1>6 
       DEF Sees, SeesQuiet, SeesGranted, SeesOwner, SeesQueued, SeesPost

-----------------------------------------------------------------------------
(***************************************************************************)
(* The coarse picture: a step of Sync, or none.                            *)
(***************************************************************************)
Coarse == [Atomic!IrqNext]_(Atomic!vars)

\* All that Sync sees besides what is in the middle of an operation.
Same == UNCHANGED <<next, time_left, cur, live, created, cr3, esp0, at, cs, irq>>

(***************************************************************************)
(* The phases before and after a step.                                      *)
(***************************************************************************)
LEMMA SeesSteps ==
    ASSUME CallInv, CallInv'
    PROVE  Sees /\ Sees'
<1>1. Sees
  BY SeesPhases
<1>2. Sees'
  BY SeesPhases, PTL
<1> QED BY <1>1, <1>2

(***************************************************************************)
(* Steps that Sync does not see.                                           *)
(***************************************************************************)
LEMMA Unseen ==
    ASSUME Same, SeenVal' = SeenVal, SeenHolder' = SeenHolder, SeenWait' = SeenWait,
           SeenStatus' = SeenStatus
    PROVE  Coarse
BY DEF Same, Coarse, Atomic!vars, Atomic!tvars, Atomic!svars

(***************************************************************************)
(* A step between two quiet places that leaves what Sync knows is not       *)
(* seen.                                                                    *)
(***************************************************************************)
LEMMA QuietUnseen ==
    ASSUME CallInv, CallInv', Quiet, Quiet', Same, UNCHANGED <<val, holder, wait, status>>
    PROVE  Coarse
BY SeesSteps, Unseen DEF Sees, SeesQuiet

(***************************************************************************)
(* Steps of the controllers and of devices are not seen.                    *)
(***************************************************************************)
LEMMA PicUnseen ==
    ASSUME UNCHANGED <<vars, stack>>
    PROVE  Coarse
<1>1. Same /\ UNCHANGED <<val, holder, wait, status, stack>>
  BY DEF Same, vars, tvars, svars
<1>2. Top' = Top /\ cur' = cur /\ stack' = stack
  BY <1>1 DEF Top, Same
<1>3. \A s \in Sem : /\ PostFrames(s)' = PostFrames(s) /\ Unlinked(s)' = Unlinked(s)
                     /\ (Dropping(s)' <=> Dropping(s))
  BY <1>1, <1>2 DEF PostFrames, Unlinked, Dropping
<1>4. \A l \in Sem : (Granted(l)' <=> Granted(l))
  BY <1>1, <1>2 DEF Granted, Doing
<1>5. \A l \in Lock : HandlerHas(l)' <=> HandlerHas(l)
  BY <1>1, <1>2, <1>3, <1>4 DEF HandlerHas, Handlers, Sem
<1>6. SeenVal' = SeenVal
  BY <1>1, <1>4, <1>5 DEF SeenVal
<1>7. SeenHolder' = SeenHolder
  BY <1>1, <1>2, <1>3, <1>5 DEF SeenHolder, Sem
<1>8. SeenWait' = SeenWait
  BY <1>1, <1>2, <1>3 DEF SeenWait, Doing
<1>9. SeenStatus' = SeenStatus
  BY <1>1, <1>3 DEF SeenStatus
<1> QED BY <1>1, <1>6, <1>7, <1>8, <1>9, Unseen

(***************************************************************************)
(* schedule is the same in the coarse picture.                             *)
(***************************************************************************)
LEMMA ScanSeen ==
    ASSUME NEW st, NEW t
    PROVE  Atomic!ScanEndsAt(st, t) <=> ScanEndsAt(st, t)
<1>1. Atomic!probe = probe
  BY DEF Atomic!probe, probe
<1>2. Atomic!Cardinality(Tcb) = Cardinality(Tcb)
  BY DEF Atomic!Cardinality, Cardinality, Atomic!IsFiniteSet, IsFiniteSet
<1> QED BY <1>1, <1>2, Zenon DEF ScanEndsAt, Atomic!ScanEndsAt, Stops, Atomic!Stops

(***************************************************************************)
(* schedule does the same to what is seen.                                  *)
(***************************************************************************)
LEMMA ScheduleSeen ==
    ASSUME NEW st, schedule(st), SeenStatus' = status'
    PROVE  Atomic!schedule(st)
BY ScanSeen DEF schedule, Atomic!schedule, switch_to, Atomic!switch_to, active_task,
                Atomic!active_task, Pdt, Atomic!Pdt, Demoted, Atomic!Demoted

(***************************************************************************)
(* Taking the last thread of a queue off, and putting it back.             *)
(***************************************************************************)
LEMMA FrontOfAppend ==
    ASSUME NEW S, NEW q \in Seq(S), NEW x \in S
    PROVE  Front(Append(q, x)) = q
<1> DEFINE r == Append(q, x)
<1>1. /\ r \in Seq(S) /\ r # <<>> /\ Len(r) = Len(q) + 1
      /\ \A k \in 1 .. Len(q) : r[k] = q[k]
      /\ Len(q) \in Nat
  OBVIOUS
<1> HIDE DEF r
<1>2. /\ Front(r) \in Seq(S) /\ Len(Front(r)) = Len(q)
      /\ \A k \in 1 .. Len(q) : Front(r)[k] = q[k]
  <2>1. /\ Front(r) \in Seq(S) /\ Len(Front(r)) = Len(r) - 1
        /\ \A k \in 1 .. (Len(r) - 1) : Front(r)[k] = r[k]
    BY <1>1, FrontFacts
  <2>2. Len(r) - 1 = Len(q)
    BY <1>1
  <2> QED BY <1>1, <2>1, <2>2
<1>3. Front(r) = q
  BY <1>1, <1>2
<1> QED BY <1>3 DEF r

(***************************************************************************)
(* A sequence is its front and its last element.                            *)
(***************************************************************************)
LEMMA AppendOfFront ==
    ASSUME NEW S, NEW q \in Seq(S), q # <<>>
    PROVE  Append(Front(q), Last(q)) = q
<1>1. /\ Front(q) \in Seq(S) /\ Len(Front(q)) = Len(q) - 1
      /\ \A k \in 1 .. (Len(q) - 1) : Front(q)[k] = q[k]
  BY FrontFacts
<1>2. Len(q) \in Nat \ {0} /\ Last(q) = q[Len(q)] /\ Last(q) \in S
  BY DEF Last
<1> DEFINE r == Append(Front(q), Last(q))
<1>3. /\ r \in Seq(S) /\ Len(r) = Len(q)
      /\ \A k \in 1 .. (Len(q) - 1) : r[k] = q[k]
      /\ r[Len(q)] = q[Len(q)]
  BY <1>1, <1>2
<1> HIDE DEF r
<1>4. \A k \in 1 .. Len(q) : r[k] = q[k]
  BY <1>2, <1>3
<1>5. r = q
  BY <1>2, <1>3, <1>4
<1> QED BY <1>5 DEF r

(***************************************************************************)
(* A thread in a handler waits only in the handler that prints on its own, *)
(* and one outside waits only in lock_acquire.                             *)
(***************************************************************************)
LEMMA WaitPlaces ==
    ASSUME CallInv, stack[cur] # <<>>
    PROVE  /\ InHandler /\ at[cur] # NoSem => cur \in irq
           /\ cur \in irq => at[cur] = PrintkLock /\ InHandler
           /\ cur \in irq => \E k \in Handlers(cur) : Printing(stack[cur][k])
           /\ ~InHandler /\ at[cur] # NoSem =>
                 stack[cur][1].fn = "lock_acquire" /\ stack[cur][1].arg = at[cur]
<1> DEFINE q == stack[cur]
           n == Len(q)
<1>1. /\ cur \in Tcb /\ n \in Nat /\ q \in Seq(Frames) /\ DOMAIN q = 1 .. n /\ n > 0
  BY StackFacts DEF CallInv
<1>2. WaitsFor(cur)
  BY <1>1 DEF CallInv, ThreadInv
<1>3. \A k \in 1 .. n : q[k].fn = "int" => k = 1 \/ (k = 2 /\ q[1].fn = "switch_to")
  <2>1. Linked(cur, q, iflag[cur])
    BY <1>1 DEF CallInv, LinkInv
  <2> QED BY <1>1, <2>1, Places
<1>4. InHandler => q[1].fn \in {"int", "switch_to"}
  BY <1>1, <1>3 DEF InHandler, Handlers
<1>5. ASSUME cur \in irq
      PROVE  at[cur] = PrintkLock /\ InHandler /\ \E k \in Handlers(cur) : Printing(q[k])
  <2>1. at[cur] = PrintkLock /\ \E k \in 1 .. n : Printing(q[k])
    BY <1>2, <1>5 DEF WaitsFor
  <2>2. PICK k \in 1 .. n : Printing(q[k])
    BY <2>1
  <2>3. k \in Handlers(cur)
    BY <1>1, <2>2 DEF Handlers, Printing, PrintFrame
  <2> QED BY <2>1, <2>2, <2>3 DEF InHandler
<1>6. ASSUME cur \notin irq, at[cur] # NoSem
      PROVE  q[1].fn = "lock_acquire" /\ q[1].arg = at[cur]
  BY <1>2, <1>6 DEF WaitsFor
<1> QED BY <1>4, <1>5, <1>6

-----------------------------------------------------------------------------
(***************************************************************************)
(* One lemma for each step, first those that Sync does not see.            *)
(***************************************************************************)
LEMMA QuietSteps ==
    ASSUME CallInv, CallInv'
    PROVE  /\ BaseInv /\ StackInv /\ LinkInv /\ BaseInv' /\ StackInv' /\ LinkInv'
           /\ stack[cur] = <<>> \/ Top.fn \in {"sem_P", "switch_to"} => Quiet
           /\ (stack[cur] = <<>> \/ Top.fn \in {"sem_P", "switch_to"})' => Quiet'
<1>1. stack[cur] = <<>> \/ Top.fn \in {"sem_P", "switch_to"} => Quiet
  BY DEF Quiet, HandlerOwns, Doing
<1>2. (stack[cur] = <<>> \/ Top.fn \in {"sem_P", "switch_to"})' => Quiet'
  BY DEF Quiet, HandlerOwns, Doing
<1> QED BY <1>1, <1>2 DEF CallInv

(***************************************************************************)
(* The EOI of switch_to is not seen.                                        *)
(***************************************************************************)
LEMMA SwitchEoiSeen ==
    ASSUME CallInv, CallInv', SwitchEoi
    PROVE  Coarse
<1>1. /\ Doing("switch_to", 1) /\ cur' = cur /\ stack' = [stack EXCEPT ![cur] = Front(@)]
      /\ iflag' = [iflag EXCEPT ![cur] = iflag[cur]]
      /\ Same /\ UNCHANGED <<val, holder, wait, status>>
  BY StackFacts DEF SwitchEoi, vars, tvars, svars, CallInv, Same
<1>2. /\ stack[cur] # <<>> /\ Top.fn = "switch_to"
      /\ Len(stack[cur]) = 1 \/ Len(stack[cur]) > 1
      /\ Len(stack[cur]) > 1 => On(Top, Under)
  BY <1>1, DoingFacts
<1>3. Pops(iflag[cur])
  BY <1>1, <1>2, ReturnPops DEF CallInv
<1>4. Quiet'
  <2>1. Len(stack[cur]) = 1 => stack'[cur'] = <<>>
    BY <1>2, <1>3, QuietSteps, PopTop
  <2>2. Len(stack[cur]) > 1 => Top' = Under
    BY <1>2, <1>3, QuietSteps, PopTop
  <2>3. Len(stack[cur]) > 1 => Quiet'
    BY <1>2, <2>2 DEF On, Quiet, HandlerOwns, Doing
  <2> QED BY <1>2, <2>1, <2>3, QuietSteps
<1> QED BY <1>1, <1>2, <1>4, QuietSteps, QuietUnseen

(***************************************************************************)
(* The call of lock_acquire or lock_release is not seen.                    *)
(***************************************************************************)
LEMMA LockCallSeen ==
    ASSUME CallInv, CallInv', NEW l \in Lock, CallAcquire(l) \/ CallRelease(l)
    PROVE  Coarse
<1>1. stack[cur] = <<>> /\ cur' = cur /\ Same /\ UNCHANGED <<val, holder, wait, status>>
  BY DEF CallAcquire, CallRelease, AtBase, threads, history, Same
<1>2. PICK fn \in {"lock_acquire", "lock_release"} : Call(fn, l, 0, NoTcb)
  BY DEF CallAcquire, CallRelease
<1>3. Pushes(0, NoTcb, fn, l)
  BY <1>1, <1>2, QuietSteps, StepFacts, LockCallPushes
<1>4. Quiet'
  <2>1. Len(stack[cur]) = 0
    BY <1>1
  <2>2. Top'.fn = fn /\ Top'.pc = 1 /\ Len(stack'[cur']) = 1
    BY <1>3, <2>1, QuietSteps, PushTop
  <2>3. ~(Len(stack'[cur']) > 1)
    BY <2>2
  <2> QED BY <1>2, <2>2, <2>3 DEF Quiet, HandlerOwns, Doing
<1> QED BY <1>1, <1>4, QuietSteps, QuietUnseen

(***************************************************************************)
(* The test of the holder is not seen.                                      *)
(***************************************************************************)
LEMMA AcquireTestsSeen ==
    ASSUME CallInv, CallInv', AcquireTests
    PROVE  Coarse
<1> DEFINE n == Len(stack[cur])
<1>1. Doing("lock_acquire", 1) /\ cur' = cur /\ Same /\ UNCHANGED <<val, holder, wait, status>>
  BY DEF AcquireTests, threads, history, Same
<1>2. /\ stack[cur] # <<>> /\ Top.fn = "lock_acquire" /\ Top.pc = 1 /\ (n = 1 \/ n > 1)
      /\ n > 1 => On(Top, Under)
      /\ Top.arg \in Lock
  BY <1>1, DoingFacts DEF LockCalls
<1>3. Quiet
  BY <1>2 DEF Quiet, HandlerOwns, Doing
<1>4. Quiet'
  <2>1. CASE holder[Top.arg] = cur /\ sti_condition
    <3>1. Pops(Top.cond)
      BY <1>1, <1>2, <2>1, QuietSteps, ReturnPops DEF sti_condition
    <3>2. CASE n = 1
      <4>1. stack'[cur'] = <<>>
        BY <1>2, <3>1, <3>2, QuietSteps, PopTop
      <4> QED BY <4>1, QuietSteps
    <3>3. CASE n > 1
      <4>1. Top' = Under
        BY <1>2, <3>1, <3>3, QuietSteps, PopTop
      <4>2. Under.fn = "int" /\ Top.arg = PrintkLock
        BY <1>2, <3>3 DEF On, PrintFrame
      <4>3. Under.node = cur
        <5>1. Len(stack[cur]) > 0
          BY <3>3
        <5> QED BY <1>1, <2>1, <3>3, <4>2, <5>1 DEF CallInv, TopInv, HandlerInv
      <4> QED BY <1>1, <4>1, <4>2, <4>3, SeenTypes DEF Quiet, HandlerOwns, Doing
    <3> QED BY <1>2, <3>2, <3>3
  <2>2. CASE holder[Top.arg] # cur /\ Call("sem_P", Top.arg, 2, NoTcb)
    <3>1. Pushes(2, NoTcb, "sem_P", Top.arg)
      BY <1>1, <1>2, <2>2, QuietSteps, StepFacts, LockCallPushes
    <3>2. Top'.fn = "sem_P"
      BY <3>1, QuietSteps, PushTop
    <3> QED BY <3>2, QuietSteps
  <2> QED BY <2>1, <2>2 DEF AcquireTests
<1> QED BY <1>1, <1>3, <1>4, QuietUnseen

(***************************************************************************)
(* The thread that sem_P queues is not seen until thread_block switches.    *)
(***************************************************************************)
LEMMA SemPQueuesSeen ==
    ASSUME CallInv, CallInv', SemPQueues
    PROVE  Coarse
<1> DEFINE l == Top.arg
<1>1. /\ Doing("sem_P", 1) /\ cur' = cur /\ Call("thread_block", l, 1, NoTcb)
      /\ Same /\ UNCHANGED <<val, holder, status>>
      /\ wait' = [wait EXCEPT ![l] = Append(@, cur)]
  BY DEF SemPQueues, Enqueue, threads, history, Same
<1>2. stack[cur] # <<>> /\ Top.fn = "sem_P" /\ l \in Lock
  BY <1>1, DoingFacts DEF LockCalls
<1>3. Pushes(1, NoTcb, "thread_block", l)
  BY <1>1, <1>2, QuietSteps, StepFacts, LockCallPushes
<1>4. Doing("thread_block", 1)' /\ Top'.arg = l
  BY <1>3, QuietSteps, PushTop DEF Doing
<1>5. Quiet
  BY <1>2, QuietSteps
<1>6. /\ SeenWait' = [wait' EXCEPT ![l] = Front(@)]
      /\ SeenVal' = val' /\ SeenHolder' = holder' /\ SeenStatus' = status'
      /\ SeenWait = wait /\ SeenVal = val /\ SeenHolder = holder /\ SeenStatus = status
  BY <1>4, <1>5, SeesSteps DEF Sees, SeesQuiet, SeesQueued
<1> HIDE DEF l
<1>7. Front(Append(wait[l], cur)) = wait[l]
  BY <1>2, SeenTypes, FrontOfAppend
<1>8. SeenWait' = wait
  BY <1>1, <1>2, <1>6, <1>7, SeenTypes
<1> QED BY <1>1, <1>6, <1>8, Unseen

(***************************************************************************)
(* The token that sem_P takes is seen until lock_acquire sets the holder.   *)
(***************************************************************************)
LEMMA SemPTakesSeen ==
    ASSUME CallInv, CallInv', SemPTakes
    PROVE  Coarse
<1> DEFINE l == Top.arg
<1>1. /\ Doing("sem_P", 1) /\ sti_condition /\ cur' = cur /\ Same
      /\ UNCHANGED <<holder, wait, status>> /\ val[l] # 0 /\ val' = [val EXCEPT ![l] = @ - 1]
  BY DEF SemPTakes, Take, threads, history, Same
<1>2. /\ stack[cur] # <<>> /\ Top.fn = "sem_P" /\ l \in Lock /\ Len(stack[cur]) > 1
      /\ On(Top, Under)
  BY <1>1, DoingFacts DEF LockCalls, Bottom
<1>3. Pops(Top.cond)
  BY <1>1, <1>2, QuietSteps, ReturnPops DEF sti_condition
<1>4. Doing("lock_acquire", 2)' /\ Top'.arg = l
  <2>1. stack'[cur'] # <<>> /\ Top' = Under
    BY <1>2, <1>3, QuietSteps, PopTop
  <2> QED BY <1>2, <2>1 DEF On, Doing
<1>5. Quiet
  BY <1>2, QuietSteps
<1>6. /\ SeenVal' = [val' EXCEPT ![l] = @ + 1]
      /\ SeenHolder' = holder' /\ SeenWait' = wait' /\ SeenStatus' = status'
      /\ SeenWait = wait /\ SeenVal = val /\ SeenHolder = holder /\ SeenStatus = status
  BY <1>4, <1>5, SeesSteps DEF Sees, SeesQuiet, SeesGranted
<1> HIDE DEF l
<1>7. val[l] \in Nat /\ (val[l] - 1) + 1 = val[l]
  BY <1>2, SeenTypes
<1>8. SeenVal' = val
  BY <1>1, <1>2, <1>6, <1>7, SeenTypes
<1> QED BY <1>1, <1>6, <1>8, Unseen

(***************************************************************************)
(* The return of thread_block is not seen.                                  *)
(***************************************************************************)
LEMMA BlockReturnsSeen ==
    ASSUME CallInv, CallInv', BlockReturns
    PROVE  Coarse
<1>1. /\ Doing("thread_block", 2) /\ sti_condition /\ cur' = cur /\ Same
      /\ UNCHANGED <<val, holder, wait, status>>
  BY DEF BlockReturns, threads, history, Same
<1>2. /\ stack[cur] # <<>> /\ Top.fn = "thread_block" /\ Top.pc = 2 /\ Len(stack[cur]) > 1
      /\ On(Top, Under)
  BY <1>1, DoingFacts DEF Bottom
<1>3. Pops(Top.cond)
  BY <1>1, <1>2, QuietSteps, ReturnPops DEF sti_condition
<1>4. Top'.fn = "sem_P"
  BY <1>2, <1>3, QuietSteps, PopTop DEF On
<1>5. Quiet
  BY <1>2 DEF Quiet, HandlerOwns, Doing
<1> QED BY <1>1, <1>4, <1>5, QuietSteps, QuietUnseen

(***************************************************************************)
(* The return of lock_release is not seen.                                  *)
(***************************************************************************)
LEMMA ReleaseReturnsSeen ==
    ASSUME CallInv, CallInv', ReleaseReturns
    PROVE  Coarse
<1>1. /\ Doing("lock_release", 2) /\ sti_condition /\ cur' = cur /\ Same
      /\ UNCHANGED <<val, holder, wait, status>>
  BY DEF ReleaseReturns, threads, history, Same
<1>2. /\ stack[cur] # <<>> /\ Top.fn = "lock_release" /\ Top.pc = 2
      /\ Len(stack[cur]) = 1 \/ Len(stack[cur]) > 1
      /\ Len(stack[cur]) > 1 => On(Top, Under)
  BY <1>1, DoingFacts
<1>3. Pops(Top.cond)
  BY <1>1, <1>2, QuietSteps, ReturnPops DEF sti_condition
<1>4. Quiet
  BY <1>2 DEF Quiet, HandlerOwns, Doing
<1>5. CASE Len(stack[cur]) = 1
  <2>1. stack'[cur'] = <<>>
    BY <1>2, <1>3, <1>5, QuietSteps, PopTop
  <2> QED BY <1>1, <1>4, <2>1, QuietSteps, QuietUnseen
<1>6. CASE Len(stack[cur]) > 1
  <2>1. Top'.fn = "int" /\ Top'.pc = 3
    BY <1>2, <1>3, <1>6, QuietSteps, PopTop DEF On, PrintFrame
  <2>2. Quiet'
    BY <2>1 DEF Quiet, HandlerOwns, Doing
  <2> QED BY <1>1, <1>4, <2>2, QuietUnseen
<1> QED BY <1>2, <1>5, <1>6

(***************************************************************************)
(* The end of a handler is not seen.                                        *)
(***************************************************************************)
LEMMA IretSeen ==
    ASSUME CallInv, CallInv', Iret
    PROVE  Coarse
<1>1. Doing("int", 3) /\ cur' = cur /\ Same /\ UNCHANGED <<val, holder, wait, status>>
  BY DEF Iret, threads, svars, Same
<1>2. /\ stack[cur] # <<>> /\ Top.fn = "int" /\ Top.pc = 3
      /\ Len(stack[cur]) = 1 \/ Len(stack[cur]) > 1
      /\ Len(stack[cur]) > 1 => On(Top, Under)
  BY <1>1, DoingFacts
<1>3. Pops(Top.cond)
  BY <1>1, <1>2, QuietSteps, ReturnPops DEF Iret
<1>4. stack'[cur'] = <<>> \/ Top'.fn = "switch_to"
  BY <1>2, <1>3, QuietSteps, PopTop DEF On
<1>5. Quiet
  BY <1>2 DEF Quiet, HandlerOwns, Doing
<1> QED BY <1>1, <1>4, <1>5, QuietSteps, QuietUnseen

(***************************************************************************)
(* The entry of an interrupt or a page fault is not seen.                   *)
(***************************************************************************)
LEMMA GateSeen ==
    ASSUME CallInv, CallInv', NEW m \in 0 .. 47, Gate(m), Same,
           UNCHANGED <<val, holder, wait, status>>,
           stack[cur] = <<>> \/ Top.fn = "switch_to"
    PROVE  Coarse
<1>1. Pushes(Top.pc, Top.node, "int", m)
  BY GatePushes, QuietSteps DEF Same
<1>2. Top'.fn = "int" /\ Top'.pc = 1
  BY <1>1, QuietSteps, PushTop
<1>3. Quiet'
  BY <1>2 DEF Quiet, HandlerOwns, Doing
<1> QED BY <1>3, QuietSteps, QuietUnseen

(***************************************************************************)
(* The calls of a handler are not seen.                                     *)
(***************************************************************************)
LEMMA PrintHandlerSeen ==
    ASSUME CallInv, CallInv', PrintHandler
    PROVE  Coarse
<1>1. cur' = cur /\ Same /\ UNCHANGED <<val, holder, wait, status>>
  BY DEF PrintHandler, threads, svars, Same
<1>2. stack[cur] # <<>> /\ Top.fn = "int" /\ Top.node \in Tcb \cup {NoTcb}
  BY DoingFacts DEF PrintHandler, IntHandler
<1>3. CASE /\ IntHandler("print")
           /\ Call("lock_acquire", PrintkLock, 2, IF holder[PrintkLock] = cur THEN cur ELSE NoTcb)
  <2> DEFINE x == IF holder[PrintkLock] = cur THEN cur ELSE NoTcb
  <2>1. x \in Tcb \cup {NoTcb} /\ Top.pc = 1
    BY <1>3, SeenTypes DEF IntHandler, Doing
  <2> HIDE DEF x
  <2>2. Pushes(2, x, "lock_acquire", PrintkLock)
    BY <1>1, <1>2, <1>3, <2>1, QuietSteps, StepFacts, LockCallPushes DEF x
  <2>3. Top'.fn = "lock_acquire" /\ Top'.pc = 1
    BY <2>2, QuietSteps, PushTop
  <2>4. Quiet /\ Quiet'
    BY <1>2, <2>1, <2>3 DEF Quiet, HandlerOwns, Doing
  <2> QED BY <1>1, <2>4, QuietUnseen
<1>4. CASE Doing("int", 2) /\ Call("lock_release", PrintkLock, 3, Top.node)
  <2>1. Pushes(3, Top.node, "lock_release", PrintkLock)
    BY <1>1, <1>2, <1>4, QuietSteps, StepFacts, LockCallPushes
  <2>2. /\ Top'.fn = "lock_release" /\ Top'.pc = 1 /\ Under'.node = Top.node
        /\ Len(stack'[cur']) > 1 /\ stack'[cur'] # <<>>
    <3>1. Len(stack[cur]) \in Nat \ {0}
      BY <1>2, QuietSteps, TopLinked
    <3> QED BY <1>2, <2>1, <3>1, QuietSteps, PushTop DEF Moved
  <2>3. CASE Top.node = NoTcb
    <3>1. HandlerOwns /\ HandlerOwns'
      BY <1>4, <2>2, <2>3 DEF HandlerOwns, Doing
    <3> QED BY <1>1, <3>1, SeesSteps, Unseen DEF Sees, SeesOwner
  <2>4. CASE Top.node # NoTcb
    <3>1. Quiet /\ Quiet'
      BY <1>2, <2>2, <2>4 DEF Quiet, HandlerOwns, Doing
    <3> QED BY <1>1, <3>1, QuietUnseen
  <2> QED BY <2>3, <2>4
<1> QED BY <1>3, <1>4 DEF PrintHandler

(***************************************************************************)
(* Steps of a handler that prints, and of sem_V, before they take effect.  *)
(***************************************************************************)
LEMMA PostPlace ==
    ASSUME CallInv, Posting
    PROVE  LET q == stack[cur] n == Len(q)
           IN  /\ n \in Nat /\ Top = q[n] /\ n > 1
               /\ Top.fn = "sem_V" => PostAt = n
               /\ Top.fn = "thread_wakeup" => PostAt = n - 1 /\ n > 2 /\ Under = q[n - 1]
BY PostFacts, StackFacts DEF CallInv, PostAt, Posting, Under

(***************************************************************************)
(* The holder that lock_release clears is seen until sem_V raises the       *)
(* value.                                                                   *)
(***************************************************************************)
LEMMA DropSeen ==
    ASSUME CallInv, CallInv', Doing("lock_release", 1), holder[Top.arg] = cur,
           holder' = [holder EXCEPT ![Top.arg] = NoTcb],
           Call("sem_V", Top.arg, 2, NoTcb), Same, UNCHANGED <<val, wait, status>>
    PROVE  Coarse
<1> DEFINE q == stack[cur]
           r == stack'[cur]
           n == Len(q)
           l == Top.arg
<1>1. /\ q # <<>> /\ Top.fn = "lock_release" /\ Top.pc = 1 /\ (n = 1 \/ n > 1)
      /\ n > 1 => On(Top, Under)
      /\ l \in Lock /\ cur' = cur /\ n \in Nat /\ Under = q[n - 1] /\ Sane(cur, Top)
  BY DoingFacts, StackFacts DEF LockCalls, Same, CallInv, Under
<1>2. Pushes(2, NoTcb, "sem_V", l)
  BY <1>1, QuietSteps, StepFacts, LockCallPushes
<1>3. /\ Top'.fn = "sem_V" /\ Top'.arg = l /\ Top'.node = NoTcb /\ stack'[cur'] # <<>>
      /\ Len(r) = n + 1
  BY <1>2, QuietSteps, PushTop
<1>4. \A k \in 1 .. (n - 1) : r[k] = q[k]
  BY <1>2 DEF Pushes, Pushed
<1>5. Posting' /\ PostAt' = n + 1 /\ stack'[cur'][PostAt'] = Top'
  <2>1. Posting' /\ PostAt' = n + 1
    BY <1>1, <1>3 DEF Posting, PostAt
  <2>2. Top' = r[Len(r)]
    BY <1>1 DEF Top, Last
  <2> QED BY <1>1, <1>3, <2>1, <2>2
<1>6. HandlerPosts' <=> n > 1 /\ Under.node = NoTcb
  <2>1. HandlerPosts' <=> n + 1 > 2 /\ r[(n + 1) - 2].node = NoTcb
    BY <1>1, <1>5 DEF HandlerPosts
  <2> HIDE DEF n, q, r
  <2>2. (n + 1 > 2 <=> n > 1) /\ (n + 1) - 2 = n - 1 /\ (n > 1 => n - 1 \in 1 .. (n - 1))
    BY <1>1
  <2> QED BY <1>1, <1>4, <2>1, <2>2
<1>7. /\ IF HandlerPosts' THEN SeenVal' = [val' EXCEPT ![l] = @ + 1] /\ SeenHolder' = holder'
         ELSE SeenVal' = val' /\ SeenHolder' = [holder' EXCEPT ![l] = cur]
      /\ SeenWait' = wait' /\ SeenStatus' = status'
  BY <1>1, <1>3, <1>5, SeesSteps DEF Sees, SeesPost
<1>8. CASE HandlerPosts'
  <2>1. HandlerOwns
    BY <1>6, <1>8 DEF HandlerOwns
  <2>2. l = PrintkLock
    BY <1>1, <1>6, <1>8 DEF On
  <2>3. /\ SeenVal = [val EXCEPT ![l] = @ + 1] /\ SeenHolder = [holder EXCEPT ![l] = NoTcb]
        /\ SeenWait = wait /\ SeenStatus = status
    BY <2>1, <2>2, SeesSteps DEF Sees, SeesOwner
  <2> QED BY <1>7, <1>8, <2>3, Unseen
<1>9. CASE ~HandlerPosts'
  <2>1. Quiet
    BY <1>1, <1>6, <1>9 DEF Quiet, HandlerOwns, Doing
  <2>2. SeenVal = val /\ SeenHolder = holder /\ SeenWait = wait /\ SeenStatus = status
    BY <2>1, SeesSteps DEF Sees, SeesQuiet
  <2>3. [holder' EXCEPT ![l] = cur] = holder
    BY <1>1, SeenTypes
  <2> QED BY <1>7, <1>9, <2>2, <2>3, Unseen
<1> QED BY <1>8, <1>9

(***************************************************************************)
(* The thread that sem_V unlinks is seen in its queue until sem_V raises    *)
(* the value.                                                               *)
(***************************************************************************)
LEMMA SemVUnlinksSeen ==
    ASSUME CallInv, CallInv', SemVUnlinks,
           \A s \in Sem : \A k \in DOMAIN SeenWait[s] : SeenStatus[SeenWait[s][k]] = "BLOCKED"
    PROVE  Coarse
<1> DEFINE q == stack[cur]
           r == stack'[cur]
           n == Len(q)
           l == Top.arg
           u == Head(wait[l])
<1>1. /\ Doing("sem_V", 1) /\ cur' = cur /\ Call("thread_wakeup", u, 2, u)
      /\ wait[l] # <<>> /\ wait' = [wait EXCEPT ![l] = Tail(@)]
      /\ Same /\ UNCHANGED <<val, holder, status>>
  BY DEF SemVUnlinks, sync_tool_is_empty, sync_tool_get, threads, history, Same
<1>2. /\ q # <<>> /\ Top.fn = "sem_V" /\ l \in Lock /\ Top.node = NoTcb
      /\ n \in Nat \ {0} /\ Top = q[n] /\ q \in Seq(Frames)
  BY <1>1, DoingFacts, StackFacts DEF LockCalls, Sane, CallInv
<1>3. wait[l] \in Seq(Tcb) /\ u \in Tcb /\ u # NoTcb
  BY <1>1, <1>2, SeenTypes
<1> HIDE DEF u
<1>4. Pushes(2, u, "thread_wakeup", u)
  <2>1. Frame("thread_wakeup", u, iflag[cur]) \in Frames /\ u \in Tcb \cup {NoTcb}
    BY <1>3, FrameTypes, StackFacts DEF CallInv
  <2> QED BY <1>1, <2>1, QuietSteps, StepFacts, CallPushes
<1>5. /\ Len(r) = n + 1 /\ (\A k \in 1 .. (n - 1) : r[k] = q[k])
      /\ r[n].arg = l /\ r[n].node = u
  BY <1>2, <1>4 DEF Pushes, Pushed, Moved
<1>6. Top'.fn = "thread_wakeup" /\ stack'[cur'] # <<>>
  BY <1>4, QuietSteps, PushTop
<1>7. Posting /\ PostAt = n /\ Posting' /\ PostAt' = n /\ n > 1
  <2>1. Posting /\ PostAt = n /\ n > 1
    BY <1>2, PostPlace DEF Posting
  <2>2. PostAt' = Len(r) - 1
    BY <1>1, <1>6 DEF PostAt
  <2>3. PostAt' = n
    BY <1>2, <1>5, <2>2
  <2> QED BY <1>6, <2>1, <2>3 DEF Posting
<1>8. HandlerPosts' <=> HandlerPosts
  <2>1. HandlerPosts' <=> n > 2 /\ r[n - 2].node = NoTcb
    BY <1>1, <1>7 DEF HandlerPosts
  <2>2. HandlerPosts <=> n > 2 /\ q[n - 2].node = NoTcb
    BY <1>7 DEF HandlerPosts
  <2>3. n > 2 => n - 2 \in 1 .. (n - 1)
    BY <1>2
  <2> QED BY <1>5, <2>1, <2>2, <2>3
<1>9. /\ IF HandlerPosts THEN SeenVal = [val EXCEPT ![l] = @ + 1] /\ SeenHolder = holder
         ELSE SeenVal = val /\ SeenHolder = [holder EXCEPT ![l] = cur]
      /\ SeenWait = wait /\ SeenStatus = status
  BY <1>2, <1>7, SeesSteps DEF Sees, SeesPost
<1>10. /\ IF HandlerPosts' THEN SeenVal' = [val' EXCEPT ![l] = @ + 1] /\ SeenHolder' = holder'
          ELSE SeenVal' = val' /\ SeenHolder' = [holder' EXCEPT ![l] = cur]
       /\ SeenWait' = [wait' EXCEPT ![l] = <<u>> \o @]
       /\ SeenStatus' = [status' EXCEPT ![u] = "BLOCKED"]
  <2>1. stack'[cur'][PostAt'].arg = l /\ stack'[cur'][PostAt'].node = u
    BY <1>1, <1>5, <1>7
  <2> QED BY <1>1, <1>3, <1>7, <2>1, SeesSteps DEF Sees, SeesPost
<1>11. SeenVal' = SeenVal /\ SeenHolder' = SeenHolder
  BY <1>1, <1>8, <1>9, <1>10, SMTT(40)
<1>12. SeenWait' = SeenWait
  <2>1. <<u>> \o Tail(wait[l]) = wait[l]
    BY <1>1, <1>3 DEF u
  <2>2. l \in Sem /\ wait \in [Sem -> Seq(Tcb)]
    BY <1>2, SeenTypes
  <2> HIDE DEF l
  <2> QED BY <1>1, <1>9, <1>10, <2>1, <2>2, ZenonT(30)
<1>13. SeenStatus' = SeenStatus
  <2>1. status[u] = "BLOCKED"
    <3>1. 1 \in DOMAIN wait[l] /\ u = wait[l][1] /\ l \in Sem
      BY <1>1, <1>2, <1>3, SeenTypes DEF u
    <3> QED BY <1>9, <3>1
  <2> QED BY <1>1, <1>3, <1>9, <1>10, <2>1, SeenTypes
<1> QED BY <1>1, <1>11, <1>12, <1>13, Unseen

(***************************************************************************)
(* The thread that thread_wakeup makes READY is seen BLOCKED until sem_V    *)
(* raises the value.                                                        *)
(***************************************************************************)
LEMMA WakeupReadiesSeen ==
    ASSUME CallInv, CallInv', WakeupReadies
    PROVE  Coarse
<1> DEFINE q == stack[cur]
           r == stack'[cur]
           n == Len(q)
           u == Top.arg
           l == Under.arg
<1>1. /\ Doing("thread_wakeup", 1) /\ sti_condition /\ cur' = cur
      /\ Same /\ UNCHANGED <<val, holder, wait>>
      /\ status' = [status EXCEPT ![u] = "READY"]
  BY DEF WakeupReadies, history, Same
<1>2. /\ q # <<>> /\ Top.fn = "thread_wakeup" /\ On(Top, Under) /\ u \in Tcb
      /\ n > 1 /\ n \in Nat
  BY <1>1, DoingFacts, StackFacts DEF Bottom, CallInv
<1>3. Pops(Top.cond)
  BY <1>1, <1>2, QuietSteps, ReturnPops DEF sti_condition
<1>4. Top' = Under /\ Len(r) = n - 1 /\ stack'[cur'] # <<>> /\ \A k \in 1 .. (n - 1) : r[k] = q[k]
  BY <1>2, <1>3, QuietSteps, PopTop DEF Pops, Popped
<1>5. Under.fn = "sem_V" /\ Under.node = u
  BY <1>2 DEF On
<1>6. Posting /\ PostAt = n - 1 /\ n > 2 /\ Under = q[n - 1]
  BY <1>2, PostPlace DEF Posting
<1>7. Posting' /\ PostAt' = n - 1
  BY <1>1, <1>4, <1>5 DEF Posting, PostAt
<1>8. r[n - 1] = Under /\ (HandlerPosts' <=> HandlerPosts)
  <2>1. HandlerPosts' <=> n - 1 > 2 /\ r[(n - 1) - 2].node = NoTcb
    BY <1>1, <1>7 DEF HandlerPosts
  <2>2. HandlerPosts <=> n - 1 > 2 /\ q[(n - 1) - 2].node = NoTcb
    BY <1>6 DEF HandlerPosts
  <2>3. n - 1 > 2 => (n - 1) - 2 \in 1 .. (n - 1)
    BY <1>2
  <2>4. n - 1 \in 1 .. (n - 1)
    BY <1>2, <1>6
  <2> QED BY <1>4, <1>6, <2>1, <2>2, <2>3, <2>4
<1>9. /\ IF HandlerPosts THEN SeenVal = [val EXCEPT ![l] = @ + 1] /\ SeenHolder = holder
         ELSE SeenVal = val /\ SeenHolder = [holder EXCEPT ![l] = cur]
      /\ SeenWait = [wait EXCEPT ![l] = <<u>> \o @]
      /\ SeenStatus = [status EXCEPT ![u] = "BLOCKED"]
  BY <1>2, <1>5, <1>6, SeesSteps, SeenTypes DEF Sees, SeesPost
<1>10. /\ IF HandlerPosts' THEN SeenVal' = [val' EXCEPT ![l] = @ + 1] /\ SeenHolder' = holder'
          ELSE SeenVal' = val' /\ SeenHolder' = [holder' EXCEPT ![l] = cur]
       /\ SeenWait' = [wait' EXCEPT ![l] = <<u>> \o @]
       /\ SeenStatus' = [status' EXCEPT ![u] = "BLOCKED"]
  <2>1. stack'[cur'][PostAt'].arg = l /\ stack'[cur'][PostAt'].node = u
    BY <1>1, <1>5, <1>7, <1>8
  <2> QED BY <1>1, <1>2, <1>7, <2>1, SeesSteps, SeenTypes DEF Sees, SeesPost
<1>11. SeenVal' = SeenVal /\ SeenHolder' = SeenHolder /\ SeenWait' = SeenWait
  BY <1>1, <1>8, <1>9, <1>10
<1>12. SeenStatus' = SeenStatus
  BY <1>1, <1>2, <1>9, <1>10, SeenTypes
<1> QED BY <1>1, <1>11, <1>12, Unseen

-----------------------------------------------------------------------------
(***************************************************************************)
(* The steps at which an operation takes effect.  The flag that Sync sees  *)
(* is set outside sem_P.                                                   *)
(***************************************************************************)
Flag == [t \in Tcb |-> at[t] = NoSem]

(***************************************************************************)
(* The flag that Sync sees, when the running thread enters or leaves        *)
(* sem_P.                                                                   *)
(***************************************************************************)
LEMMA FlagSteps ==
    ASSUME at \in [Tcb -> Sem \cup {NoSem}], cur \in Tcb, NEW s \in Sem \cup {NoSem},
           at' = [at EXCEPT ![cur] = s]
    PROVE  Flag' = [Flag EXCEPT ![cur] = (s = NoSem)]
BY DEF Flag

(***************************************************************************)
(* The flag that Sync sees, when nothing of the kind happens.               *)
(***************************************************************************)
LEMMA FlagKept ==
    ASSUME at' = at
    PROVE  Flag' = Flag
BY DEF Flag

(***************************************************************************)
(* A thread outside the handlers: where lock_acquire and lock_release are   *)
(* called from.                                                             *)
(***************************************************************************)
LEMMA Outside ==
    ASSUME CallInv, stack[cur] # <<>>, ~InHandler
    PROVE  /\ cur \notin irq
           /\ stack[cur][1].fn = "lock_acquire" =>
                 /\ cur \notin UserTask /\ ~InCriticalSection
                 /\ at[cur] # NoSem => at[cur] = stack[cur][1].arg
           /\ stack[cur][1].fn = "lock_release" /\ (stack[cur][1].pc = 1 \/ Len(stack[cur]) > 1) =>
                 InKernel /\ cur \in cs[stack[cur][1].arg]
<1>1. cur \in Tcb /\ Base(cur)
  BY SeenTypes DEF CallInv, ThreadInv
<1> QED BY <1>1, WaitPlaces DEF Base, InCriticalSection, InKernel

(***************************************************************************)
(* lock_acquire sets the holder: outside a handler this is lock_acquire of  *)
(* Sync, or the Resume of a thread that waited; in a handler it is not      *)
(* seen.                                                                    *)
(***************************************************************************)
LEMMA AcquireOwnsSeen ==
    ASSUME CallInv, CallInv', AcquireOwns
    PROVE  Coarse
<1> DEFINE n == Len(stack[cur])
<1>0. PICK l \in Lock : l = Top.arg
  BY DoingFacts DEF AcquireOwns, LockCalls
<1>1. /\ Doing("lock_acquire", 2) /\ sti_condition /\ cur' = cur
      /\ UNCHANGED <<next, status, time_left, live, created, cr3, esp0, val, wait, irq>>
      /\ holder' = [holder EXCEPT ![l] = cur]
  BY <1>0 DEF AcquireOwns, threads
<1>2. /\ stack[cur] # <<>> /\ Top.fn = "lock_acquire" /\ Top.pc = 2 /\ (n = 1 \/ n > 1)
      /\ n > 1 => On(Top, Under)
      /\ l \in Lock /\ ~(n = 1 /\ n > 1) /\ Top = stack[cur][n]
  BY <1>0, <1>1, DoingFacts, StackFacts DEF LockCalls, CallInv
<1>3. Pops(Top.cond)
  BY <1>1, <1>2, QuietSteps, ReturnPops DEF sti_condition
<1>4. /\ SeenVal = [val EXCEPT ![l] = @ + 1]
      /\ SeenHolder = holder /\ SeenWait = wait /\ SeenStatus = status
  BY <1>0, <1>1, SeesSteps DEF Sees, SeesGranted
<1>5. InHandler <=> n > 1
  BY <1>2, QuietSteps, StepFacts DEF HandlerDepth
<1>6. holder[l] = NoTcb /\ val[l] = 0
  BY <1>0, <1>1, <1>2 DEF CallInv, TopInv, TokenInv, Granted
<1>7. CASE n = 1
  <2>1. at' = [at EXCEPT ![cur] = NoSem] /\ cs' = [cs EXCEPT ![l] = @ \cup {cur}]
    BY <1>0, <1>2, <1>5, <1>7 DEF AcquireOwns
  <2>2. Quiet'
    <3>1. stack'[cur'] = <<>>
      BY <1>2, <1>3, <1>7, QuietSteps, PopTop
    <3> QED BY <3>1, QuietSteps
  <2>3. SeenVal' = val /\ SeenHolder' = holder' /\ SeenWait' = wait /\ SeenStatus' = status
    BY <1>1, <2>2, SeesSteps DEF Sees, SeesQuiet
  <2>4. /\ cur \notin irq /\ cur \notin UserTask /\ ~InCriticalSection
        /\ at[cur] # NoSem => at[cur] = l
    BY <1>0, <1>2, <1>5, <1>7, Outside
  <2>5. Atomic!Take(l)
    <3>1. SeenVal[l] = 1
      BY <1>2, <1>4, <1>6, SeenTypes
    <3>2. val = [SeenVal EXCEPT ![l] = @ - 1]
      <4>1. val \in [Sem -> Nat] /\ l \in Sem /\ val[l] = 0
        BY <1>6, SeenTypes
      <4>2. [SeenVal EXCEPT ![l] = @ - 1] = [val EXCEPT ![l] = val[l] + 1 - 1]
        BY <1>4, <4>1
      <4>3. val[l] + 1 - 1 = val[l]
        BY <4>1
      <4> QED BY <4>1, <4>2, <4>3
    <3> QED BY <1>4, <2>3, <3>1, <3>2 DEF Atomic!Take
  <2>6. Atomic!Own(l)
    BY <1>1, <1>4, <2>1, <2>3 DEF Atomic!Own
  <2>7. CASE at[cur] = NoSem
    <3>1. at' = at /\ Flag' = Flag
      BY <2>1, <2>7, SeenTypes, FlagKept
    <3>2. UNCHANGED Atomic!tvars
      BY <1>1, <1>4, <2>3, <3>1 DEF Atomic!tvars, Flag
    <3>3. Atomic!lock_acquire(l)
      BY <1>1, <1>2, <1>4, <1>6, <2>4, <2>5, <2>6, <2>7, <3>1, <3>2, SeenTypes
         DEF Atomic!lock_acquire, Atomic!InKernel, Atomic!InCriticalSection, InCriticalSection
    <3> QED BY <3>3 DEF Coarse, Atomic!IrqNext, Atomic!SyncNext
  <2>8. CASE at[cur] # NoSem
    <3>1. Flag' = [Flag EXCEPT ![cur] = TRUE]
      BY <2>1, SeenTypes, FlagSteps
    <3>2. Atomic!ResumeTakes(l)
      BY <1>1, <1>2, <1>4, <2>1, <2>3, <2>5, <2>6, <3>1 DEF Atomic!ResumeTakes, Flag
    <3>3. Atomic!Resume
      <4>1. at[cur] = l
        BY <2>4, <2>8
      <4> QED BY <2>4, <2>8, <3>2, <4>1
             DEF Atomic!Resume, Atomic!ResumeTakes, Atomic!Take, Atomic!Own
    <3> QED BY <3>3 DEF Coarse, Atomic!IrqNext, Atomic!SyncNext
  <2> QED BY <2>7, <2>8
<1>8. CASE n > 1
  <2>1. UNCHANGED <<at, cs>>
    BY <1>5, <1>8 DEF AcquireOwns
  <2>2. Top' = Under /\ stack'[cur'] # <<>>
    BY <1>2, <1>3, <1>8, QuietSteps, PopTop
  <2>3. Under.fn = "int" /\ Under.pc = 2 /\ Under.node = NoTcb /\ l = PrintkLock
    BY <1>0, <1>2, <1>8 DEF On, PrintFrame
  <2>4. HandlerOwns'
    BY <2>2, <2>3 DEF HandlerOwns, Doing
  <2>5. /\ SeenVal' = [val' EXCEPT ![l] = @ + 1] /\ SeenHolder' = [holder' EXCEPT ![l] = NoTcb]
        /\ SeenWait' = wait' /\ SeenStatus' = status'
    BY <2>3, <2>4, SeesSteps DEF Sees, SeesOwner
  <2>6. [holder' EXCEPT ![l] = NoTcb] = holder
    BY <1>1, <1>2, <1>6, SeenTypes
  <2> QED BY <1>1, <1>4, <2>1, <2>5, <2>6, Unseen DEF Same
<1> QED BY <1>2, <1>7, <1>8

(***************************************************************************)
(* lock_release of a thread that is not the holder (a handler gave the      *)
(* lock up) is the whole operation; otherwise it is not seen yet.           *)
(***************************************************************************)
LEMMA ReleaseTestsSeen ==
    ASSUME CallInv, CallInv', ReleaseTests
    PROVE  Coarse
<1> DEFINE n == Len(stack[cur])
           l == Top.arg
<1>1. /\ Doing("lock_release", 1) /\ cur' = cur
      /\ UNCHANGED <<next, status, time_left, live, created, cr3, esp0, val, wait, at, irq>>
  BY DEF ReleaseTests, threads
<1>2. /\ stack[cur] # <<>> /\ Top.fn = "lock_release" /\ Top.pc = 1 /\ (n = 1 \/ n > 1)
      /\ n > 1 => On(Top, Under)
      /\ l \in Lock /\ ~(n = 1 /\ n > 1) /\ Top = stack[cur][n]
  BY <1>1, DoingFacts, StackFacts DEF LockCalls, CallInv
<1>3. InHandler <=> n > 1
  BY <1>2, QuietSteps, StepFacts DEF HandlerDepth
<1>4. CASE /\ holder[l] # cur /\ sti_condition
           /\ cs' = IF InHandler THEN cs ELSE [cs EXCEPT ![l] = @ \ {cur}]
           /\ UNCHANGED holder
  <2>1. n = 1
    <3> SUFFICES ASSUME n > 1 PROVE FALSE
      BY <1>2
    <3>1. l = PrintkLock
      BY <1>2 DEF On
    <3>2. Len(stack[cur]) > 0
      OBVIOUS
    <3> QED BY <1>1, <1>4, <3>1, <3>2 DEF CallInv, TopInv, HandlerInv
  <2>2. Pops(Top.cond)
    BY <1>1, <1>2, <1>4, QuietSteps, ReturnPops DEF sti_condition
  <2>3. Quiet'
    <3>1. stack'[cur'] = <<>>
      BY <1>2, <2>1, <2>2, QuietSteps, PopTop
    <3> QED BY <3>1, QuietSteps
  <2>4. Quiet
    <3>1. ~(Len(stack[cur]) > 1)
      BY <1>2, <2>1
    <3> QED BY <1>2, <3>1 DEF Quiet, HandlerOwns, Doing
  <2>5. /\ SeenVal' = SeenVal /\ SeenHolder' = SeenHolder /\ SeenWait' = SeenWait
        /\ SeenStatus' = SeenStatus /\ SeenHolder = holder
    BY <1>1, <1>4, <2>3, <2>4, SeesSteps DEF Sees, SeesQuiet
  <2>6. InKernel /\ cur \in cs[l]
    BY <1>2, <1>3, <2>1, Outside
  <2>7. cs' = [cs EXCEPT ![l] = @ \ {cur}]
    BY <1>2, <1>3, <1>4, <2>1
  <2>8. UNCHANGED Atomic!tvars
    BY <1>1, <2>5, FlagKept DEF Atomic!tvars, Flag
  <2>9. Atomic!lock_release(l)
    BY <1>1, <1>2, <1>4, <2>5, <2>6, <2>7, <2>8 DEF Atomic!lock_release, Atomic!InKernel, InKernel
  <2> QED BY <1>2, <2>9 DEF Coarse, Atomic!IrqNext, Atomic!SyncNext
<1>5. CASE /\ holder[l] = cur /\ holder' = [holder EXCEPT ![l] = NoTcb]
           /\ Call("sem_V", l, 2, NoTcb) /\ UNCHANGED cs
  <2>1. Same
    BY <1>1, <1>5 DEF Same
  <2> QED BY <1>1, <1>5, <2>1, DropSeen
<1> QED BY <1>4, <1>5 DEF ReleaseTests

(***************************************************************************)
(* sem_V raises the value: outside a handler this is lock_release of Sync,  *)
(* in a handler it is the handler as a whole.                               *)
(***************************************************************************)
LEMMA SemVRaisesSeen ==
    ASSUME CallInv, CallInv', SemVRaises
    PROVE  Coarse
<1> DEFINE q == stack[cur]
           n == Len(q)
           l == Top.arg
           u == Top.node
<1>1. /\ Doing("sem_V", 1) \/ Doing("sem_V", 2)
      /\ Doing("sem_V", 2) \/ wait[l] = <<>>
      /\ sti_condition /\ cur' = cur
      /\ UNCHANGED <<next, status, time_left, live, created, cr3, esp0, wait, holder>>
      /\ val' = [val EXCEPT ![l] = @ + 1]
  BY DEF SemVRaises, threads, sync_tool_is_empty
<1>2. /\ q # <<>> /\ Top.fn = "sem_V" /\ n > 1 /\ On(Top, Under) /\ l \in Lock
      /\ Sane(cur, Top)
  BY <1>1, DoingFacts DEF LockCalls, Bottom
<1>3. Pops(Top.cond)
  BY <1>1, <1>2, QuietSteps, ReturnPops DEF sti_condition
<1>4. InHandler <=> n > 2
  BY <1>2, QuietSteps, StepFacts DEF HandlerDepth
<1>5. Quiet'
  <2>1. Top'.fn = "lock_release" /\ Top'.pc = 2
    BY <1>2, <1>3, QuietSteps, PopTop DEF On
  <2> QED BY <2>1 DEF Quiet, HandlerOwns, Doing
<1>6. SeenVal' = val' /\ SeenHolder' = holder /\ SeenWait' = wait /\ SeenStatus' = status
  BY <1>1, <1>5, SeesSteps DEF Sees, SeesQuiet
<1>7. Posting /\ PostAt = n /\ Top = q[n] /\ n \in Nat
  BY <1>2, PostPlace DEF Posting
<1>8. /\ IF HandlerPosts THEN SeenVal = [val EXCEPT ![l] = @ + 1] /\ SeenHolder = holder
         ELSE SeenVal = val /\ SeenHolder = [holder EXCEPT ![l] = cur]
      /\ IF u = NoTcb THEN SeenWait = wait /\ SeenStatus = status
         ELSE /\ SeenWait = [wait EXCEPT ![l] = <<u>> \o @]
              /\ SeenStatus = [status EXCEPT ![u] = "BLOCKED"]
  BY <1>7, SeesSteps DEF Sees, SeesPost
<1>9. holder[l] = NoTcb
  BY <1>2, QuietSteps, StepFacts DEF CallInv, TopInv, TokenInv, TakenTop, Taken
<1>10. Atomic!WakeHead(l)
  <2>1. CASE u = NoTcb
    <3>1. wait[l] = <<>>
      BY <1>1, <1>2, <2>1, SeenTypes DEF Sane, Doing
    <3> QED BY <1>6, <1>8, <2>1, <3>1 DEF Atomic!WakeHead
  <2>2. CASE u # NoTcb
    <3>1. Doing("sem_V", 2) /\ u \in Tcb
      BY <1>1, <1>2, <2>2 DEF Sane, Doing
    <3>2. status[u] = "READY"
      BY <3>1 DEF CallInv, TopInv, QueueingInv
    <3>3. l \in Sem /\ wait \in [Sem -> Seq(Tcb)] /\ status \in [Tcb -> Status]
      BY <1>2, SeenTypes
    <3> HIDE DEF l, u
    <3>4. SeenWait[l] = <<u>> \o wait[l] /\ wait[l] \in Seq(Tcb)
      BY <1>8, <2>2, <3>3
    <3>5. SeenWait[l] # <<>> /\ Head(SeenWait[l]) = u /\ Tail(SeenWait[l]) = wait[l]
      BY <3>1, <3>4
    <3>6. wait = [SeenWait EXCEPT ![l] = Tail(@)]
      BY <1>8, <2>2, <3>3, <3>5
    <3>7. status = [SeenStatus EXCEPT ![u] = "READY"]
      BY <1>8, <2>2, <3>1, <3>2, <3>3
    <3> QED BY <1>6, <3>5, <3>6, <3>7 DEF Atomic!WakeHead
  <2> QED BY <2>1, <2>2
<1>11. UNCHANGED <<next, time_left, cur, live, created, cr3, esp0>>
  BY <1>1
<1>12. SeenHolder' = holder /\ (~HandlerPosts => holder = [SeenHolder EXCEPT ![l] = NoTcb])
  BY <1>2, <1>6, <1>8, <1>9, SeenTypes
<1>13. ~HandlerPosts => Atomic!Disown(l)
  BY <1>1, <1>6, <1>8, <1>10, <1>11, <1>12 DEF Atomic!Disown, Atomic!Post
<1>14. ~HandlerPosts => SeenHolder[l] = cur
  BY <1>2, <1>8, SeenTypes
<1>15. CASE n = 2
  <2>1. ~InHandler /\ ~HandlerPosts
    <3>1. ~(n > 2)
      BY <1>15
    <3> QED BY <1>4, <1>7, <3>1 DEF HandlerPosts
  <2>2. cs' = [cs EXCEPT ![l] = @ \ {cur}] /\ UNCHANGED <<at, irq>>
    BY <2>1 DEF SemVRaises
  <2>3. q[1].fn = "lock_release" /\ q[1].arg = l
    <3>1. Under = q[1]
      BY <1>15 DEF Under
    <3> QED BY <1>2, <3>1 DEF On
  <2>4. InKernel /\ cur \in cs[l]
    BY <1>2, <2>1, <2>3, Outside
  <2>5. Flag' = Flag
    BY <2>2, FlagKept
  <2>6. Atomic!lock_release(l)
    BY <1>2, <1>13, <1>14, <2>1, <2>2, <2>4, <2>5
       DEF Atomic!lock_release, Atomic!InKernel, InKernel, Flag
  <2> QED BY <1>2, <2>6 DEF Coarse, Atomic!IrqNext, Atomic!SyncNext
<1>16. CASE n > 2
  <2>1. at' = [at EXCEPT ![cur] = NoSem] /\ irq' = irq \ {cur} /\ UNCHANGED cs
    BY <1>4, <1>16 DEF SemVRaises
  <2>2. On(q[n - 1], q[n - 2]) /\ q[n - 1].fn = "lock_release"
    BY <1>7, <1>16, PostFacts
  <2>3. /\ l = PrintkLock /\ q[n - 2].fn = "int"
        /\ HandlerPosts <=> q[n - 2].node = NoTcb
    <3>1. q[n - 1].arg = l
      BY <1>7, PostFacts
    <3> QED BY <1>7, <1>16, <2>2, <3>1 DEF On, HandlerPosts, PrintFrame
  <2>4. at[cur] # NoSem <=> cur \in irq
    BY <1>2, <1>4, <1>16, WaitPlaces, SeenTypes
  <2>5. CASE HandlerPosts
    <3>1. SeenVal' = SeenVal
      BY <1>1, <1>6, <1>8, <2>5
    <3>2. SeenVal[l] # 0
      <4>1. SeenVal[l] = val[l] + 1 /\ val[l] \in Nat
        BY <1>2, <1>8, <2>5, SeenTypes
      <4> QED BY <4>1
    <3>3. Atomic!PrintInHandler
      BY <1>8, <1>10, <1>11, <1>12, <2>1, <2>3, <2>5, <3>1, <3>2 DEF Atomic!PrintInHandler
    <3>4. SeenHolder[PrintkLock] # cur
      BY <1>8, <1>9, <2>3, <2>5, SeenTypes
    <3>5. CASE at[cur] = NoSem
      <4>1. at' = at /\ irq' = irq /\ Flag' = Flag
        BY <2>1, <2>4, <3>5, SeenTypes, FlagKept
      <4>2. Flag[cur]
        BY <3>5, SeenTypes DEF Flag
      <4>3. Atomic!interrupt_handler_keyboard
        BY <3>3, <3>4, <4>1, <4>2 DEF Atomic!interrupt_handler_keyboard, Flag
      <4> QED BY <4>3 DEF Coarse, Atomic!IrqNext
    <3>6. CASE at[cur] # NoSem
      <4>1. Flag' = [Flag EXCEPT ![cur] = TRUE]
        BY <2>1, SeenTypes, FlagSteps
      <4>2. Atomic!ResumeInHandler
        BY <2>1, <2>4, <3>3, <3>6, <4>1 DEF Atomic!ResumeInHandler, Flag
      <4> QED BY <4>2 DEF Coarse, Atomic!IrqNext
    <3> QED BY <3>5, <3>6
  <2>6. CASE ~HandlerPosts
    <3>1. cur \notin irq
      <4> SUFFICES ASSUME cur \in irq PROVE FALSE
        OBVIOUS
      <4>1. PICK k \in Handlers(cur) : Printing(q[k])
        BY <1>2, WaitPlaces
      <4>2. q[k].arg # TimerVector /\ q[k].pc # 1 /\ q[k].node = NoTcb
        BY <4>1 DEF Printing, PrintFrame
      <4>3. Dropping(PrintkLock)
        BY <1>2, <2>3, QuietSteps, DroppingIs, SeenTypes DEF DroppingTop
      <4>4. HandlerHas(PrintkLock)
        BY <4>1, <4>2, <4>3 DEF HandlerHas
      <4> QED BY <1>7, <2>6, <4>4, HandlerHasWhen, SeenTypes DEF HasWhen
    <3>2. at' = at /\ irq' = irq /\ Flag' = Flag /\ at[cur] = NoSem
      BY <2>1, <2>4, <3>1, SeenTypes, FlagKept
    <3>3. Flag[cur]
      BY <3>2, SeenTypes DEF Flag
    <3>4. Atomic!interrupt_handler_keyboard
      BY <1>13, <1>14, <2>1, <2>3, <2>6, <3>2, <3>3 DEF Atomic!interrupt_handler_keyboard, Flag
    <3> QED BY <3>4 DEF Coarse, Atomic!IrqNext
  <2> QED BY <2>5, <2>6
<1>17. n = 2 \/ n > 2
  <2>1. n \in Nat /\ n > 1
    BY <1>2, <1>7
  <2> HIDE DEF n
  <2> QED BY <2>1
<1> QED BY <1>15, <1>16, <1>17

(***************************************************************************)
(* thread_block switches: the thread sleeps on the semaphore.  It came     *)
(* from lock_acquire, for the first time or in another turn of the loop of *)
(* sem_P, in a handler or outside.                                         *)
(***************************************************************************)
LEMMA BlockSwitchesSeen ==
    ASSUME CallInv, CallInv', BlockSwitches
    PROVE  Coarse
<1> DEFINE q == stack[cur]
           n == Len(q)
           st == [status EXCEPT ![cur] = "BLOCKED"]
<1>1. PICK l \in Lock : l = Top.arg
  BY DoingFacts DEF BlockSwitches, LockCalls
<1>2. /\ Doing("thread_block", 1) /\ schedule(st) /\ Switching(2) /\ iflag' = iflag
      /\ at' = [at EXCEPT ![cur] = l]
      /\ irq' = IF InHandler THEN irq \cup {cur} ELSE irq
      /\ UNCHANGED <<next, live, created, val, wait, holder, cs>>
  BY <1>1 DEF BlockSwitches
<1>3. cur' \in live
  BY CurFacts DEF BlockSwitches, schedule, switch_to, CallInv
<1>4. /\ q # <<>> /\ Top.fn = "thread_block" /\ Top.pc = 1 /\ Top = q[n]
      /\ n \in Nat /\ q \in Seq(Frames)
  BY <1>2, DoingFacts, StackFacts DEF CallInv
<1>5. Switches(2)
  BY <1>2, <1>3, <1>4, StepFacts, QuietSteps, SwitchingSwitches
<1>6. n > 2 /\ (InHandler <=> n > 3)
  BY <1>4, StepFacts, QuietSteps DEF HandlerDepth
<1>7. Linked(cur, q, iflag[cur]) /\ NotMine(cur)
  BY SeenTypes DEF CallInv, LinkInv, ThreadInv
<1>8. \A k \in 1 .. n : k = 1 \/ On(q[k], q[k - 1])
  BY <1>4, <1>7, Places
<1>9. \A k \in 1 .. n : q[k].fn = "lock_acquire" /\ q[k].pc = 2 => holder[q[k].arg] # cur
  BY <1>7 DEF NotMine
<1>10. Quiet'
  <2>1. IF cur' = cur THEN Moved(Top, Top', 2, NoTcb) ELSE Top'.fn = "switch_to"
    BY <1>5, QuietSteps, SwitchTop
  <2>2. CASE cur' = cur
    BY <1>4, <2>1, <2>2 DEF Quiet, HandlerOwns, Doing, Moved
  <2> QED BY <2>1, <2>2, QuietSteps
<1>11. /\ SeenVal' = val /\ SeenHolder' = holder /\ SeenWait' = wait /\ SeenStatus' = status'
       /\ SeenVal = val /\ SeenHolder = holder /\ SeenStatus = status
       /\ SeenWait = [wait EXCEPT ![l] = Front(@)]
  BY <1>1, <1>2, <1>10, SeesSteps DEF Sees, SeesQuiet, SeesQueued
<1>12. val[l] = 0 /\ wait[l] # <<>> /\ Last(wait[l]) = cur
  BY <1>1, <1>2 DEF CallInv, TopInv, QueueingInv
<1>13. wait = [SeenWait EXCEPT ![l] = Append(@, cur)]
  <2>1. wait \in [Sem -> Seq(Tcb)] /\ l \in Sem
    BY SeenTypes
  <2>2. Append(Front(wait[l]), cur) = wait[l]
    BY <1>12, <2>1, AppendOfFront
  <2> QED BY <1>11, <2>1, <2>2
<1>14. Flag' = [Flag EXCEPT ![cur] = FALSE]
  BY <1>2, SeenTypes, FlagSteps
<1>15. Atomic!schedule([SeenStatus EXCEPT ![cur] = "BLOCKED"])
  <2>1. st = [SeenStatus EXCEPT ![cur] = "BLOCKED"]
    BY <1>11
  <2>2. Atomic!schedule(st)
    BY <1>2, <1>11, ScheduleSeen
  <2> QED BY <1>11, <2>2
<1>16. Atomic!Sleep(l)
  BY <1>2, <1>11, <1>12, <1>13, <1>14, <1>15 DEF Atomic!Sleep, Atomic!Enqueue, Flag
<1>17. UNCHANGED <<SeenHolder, cs>>
  BY <1>2, <1>11
<1> HIDE DEF n, q, st
<1>18. q[n - 1].fn = "sem_P" /\ q[n - 2].fn = "lock_acquire" /\ q[n - 2].pc = 2 /\ q[n - 2].arg = l
  <2>1. On(q[n], q[n - 1])
    BY <1>4, <1>6, <1>8
  <2>2. n - 1 \in 1 .. n /\ n - 1 # 1 /\ (n - 1) - 1 = n - 2
    BY <1>4, <1>6
  <2>3. On(q[n - 1], q[n - 2])
    BY <1>8, <2>2
  <2> QED BY <1>1, <1>4, <2>1, <2>3 DEF On
<1>19. SeenHolder[l] # cur
  <2>1. n - 2 \in 1 .. n
    BY <1>4, <1>6
  <2> QED BY <1>9, <1>11, <1>18, <2>1
<1>20. CASE n = 3
  <2>1. ~InHandler /\ irq' = irq /\ q[n - 2] = q[1]
    BY <1>2, <1>6, <1>20
  <2>2. /\ cur \notin irq /\ cur \notin UserTask /\ ~InCriticalSection
        /\ at[cur] # NoSem => at[cur] = l
    BY <1>4, <1>18, <2>1, Outside DEF q
  <2>3. CASE at[cur] = NoSem
    <3>1. Atomic!lock_acquire(l)
      BY <1>16, <1>17, <1>19, <2>1, <2>2, <2>3
         DEF Atomic!lock_acquire, Atomic!InKernel, Atomic!InCriticalSection, InCriticalSection
    <3> QED BY <3>1 DEF Coarse, Atomic!IrqNext, Atomic!SyncNext
  <2>4. CASE at[cur] # NoSem
    <3>1. at[cur] = l
      BY <2>2, <2>4
    <3>2. Atomic!Sleep(at[cur])
      BY <1>16, <3>1 DEF Atomic!Sleep, Atomic!Enqueue
    <3>3. Atomic!Resume
      BY <1>17, <2>1, <2>2, <2>4, <3>2 DEF Atomic!Resume
    <3> QED BY <3>3 DEF Coarse, Atomic!IrqNext, Atomic!SyncNext
  <2> QED BY <2>3, <2>4
<1>21. CASE n > 3
  <2>1. InHandler /\ irq' = irq \cup {cur}
    BY <1>2, <1>6, <1>21
  <2>2. n - 2 \in 1 .. n /\ n - 2 # 1 /\ (n - 2) - 1 = n - 3
    BY <1>4, <1>21
  <2>3. On(q[n - 2], q[n - 3])
    BY <1>8, <2>2
  <2>4. l = PrintkLock
    BY <1>18, <2>3 DEF On
  <2>5. at[cur] # NoSem <=> cur \in irq
    BY <1>4, <2>1, WaitPlaces, SeenTypes DEF q
  <2>6. Atomic!Sleep(PrintkLock)
    BY <1>16, <2>4
  <2>7. CASE cur \in irq
    <3>1. irq' = irq
      BY <2>1, <2>7
    <3>2. Atomic!ResumeInHandler
      BY <1>17, <2>5, <2>6, <2>7, <3>1 DEF Atomic!ResumeInHandler
    <3> QED BY <3>2 DEF Coarse, Atomic!IrqNext
  <2>8. CASE cur \notin irq
    <3>1. Flag[cur]
      BY <2>5, <2>8, SeenTypes DEF Flag
    <3>2. Atomic!interrupt_handler_keyboard
      BY <1>17, <1>19, <2>1, <2>4, <2>6, <3>1 DEF Atomic!interrupt_handler_keyboard, Flag
    <3> QED BY <3>2 DEF Coarse, Atomic!IrqNext
  <2> QED BY <2>7, <2>8
<1> QED BY <1>4, <1>6, <1>20, <1>21

(***************************************************************************)
(* The timer's handler interrupts a thread outside sem_P.                  *)
(***************************************************************************)
LEMMA TimerHandlerSeen ==
    ASSUME CallInv, CallInv', TimerHandler
    PROVE  Coarse
<1> DEFINE q == stack[cur]
           n == Len(q)
<1>1. /\ Doing("int", 1) /\ int_server_func_list[Top.arg] = "timer" /\ Switching(3)
      /\ Tick \/ SliceOver
      /\ iflag' = iflag /\ UNCHANGED <<next, live, created, val, wait, holder, at, cs, irq>>
  BY DEF TimerHandler, IntHandler, svars
<1>2. cur' \in live
  BY <1>1, CurFacts DEF Tick, SliceOver, schedule, switch_to, CallInv
<1>3. q # <<>> /\ Top.fn = "int" /\ Top.pc = 1 /\ Sane(cur, Top)
  BY <1>1, DoingFacts
<1>4. Top.arg = TimerVector
  BY <1>1, <1>3 DEF Sane, int_server_func_list
<1>5. Switches(3)
  BY <1>1, <1>2, <1>3, StepFacts, QuietSteps, SwitchingSwitches
<1>6. Quiet
  BY <1>3 DEF Quiet, HandlerOwns, Doing
<1>7. Quiet'
  <2>1. IF cur' = cur THEN Moved(Top, Top', 3, NoTcb) ELSE Top'.fn = "switch_to"
    BY <1>5, QuietSteps, SwitchTop
  <2>2. CASE cur' = cur
    BY <1>3, <2>1, <2>2 DEF Quiet, HandlerOwns, Doing, Moved
  <2> QED BY <2>1, <2>2, QuietSteps
<1>8. /\ SeenVal' = val /\ SeenHolder' = holder /\ SeenWait' = wait /\ SeenStatus' = status'
      /\ SeenVal = val /\ SeenHolder = holder /\ SeenWait = wait /\ SeenStatus = status
  BY <1>1, <1>6, <1>7, SeesSteps DEF Sees, SeesQuiet
<1>9. at[cur] = NoSem
  <2>1. /\ n \in Nat \ {0} /\ Top = q[n] /\ (n = 1 \/ (n = 2 /\ q[1].fn = "switch_to"))
    <3>1. n \in Nat \ {0} /\ Top = q[n] /\ Open(q, n - 1)
      BY <1>3, QuietSteps, TopLinked
    <3> HIDE DEF n
    <3> QED BY <3>1 DEF Open
  <2>2. WaitsFor(cur)
    BY SeenTypes DEF CallInv, ThreadInv
  <2>3. cur \notin irq
    <3> SUFFICES ASSUME cur \in irq PROVE FALSE
      OBVIOUS
    <3>1. PICK k \in 1 .. n : Printing(q[k])
      BY <2>2 DEF WaitsFor
    <3>2. q[k].fn = "int" /\ q[k].arg # TimerVector
      BY <3>1 DEF Printing, PrintFrame
    <3> HIDE DEF n, q
    <3>3. k = n \/ q[k].fn = "switch_to"
      BY <2>1, <3>1
    <3> QED BY <1>4, <2>1, <3>2, <3>3
  <2>4. q[1].fn # "lock_acquire"
    BY <1>3, <2>1
  <2> QED BY <2>2, <2>3, <2>4 DEF WaitsFor
<1>10. Flag' = Flag /\ Flag[cur]
  BY <1>1, <1>9, FlagKept, SeenTypes DEF Flag
<1>11. Atomic!Tick \/ Atomic!SliceOver
  <2>1. CASE Tick
    BY <1>8, <2>1 DEF Tick, Atomic!Tick
  <2>2. CASE SliceOver
    <3>1. time_left[cur] = 0 /\ schedule(status)
      BY <2>2 DEF SliceOver
    <3>2. Atomic!schedule(status)
      BY <1>8, <3>1, ScheduleSeen
    <3> QED BY <1>8, <3>1, <3>2 DEF Atomic!SliceOver
  <2> QED BY <1>1, <2>1, <2>2
<1>12. Atomic!timer_server_func
  BY <1>1, <1>10, <1>11 DEF Atomic!timer_server_func, Flag
<1>13. Atomic!Preempt
  BY <1>1, <1>8, <1>12 DEF Atomic!Preempt, Atomic!svars
<1> QED BY <1>13 DEF Coarse, Atomic!IrqNext, Atomic!SyncNext

(***************************************************************************)
(* A thread is created outside all operations.                             *)
(***************************************************************************)
LEMMA CreateThreadSeen ==
    ASSUME CallInv, CallInv', NEW t \in Tcb, CreateThread(t)
    PROVE  Coarse
<1>1. /\ stack[cur] = <<>> /\ stack' = stack /\ InKernel /\ create_thread(t) /\ cur' = cur
      /\ UNCHANGED <<val, wait, holder, at, cs, irq>>
  BY DEF CreateThread, AtBase, Create, create_thread, svars
<1>2. Quiet /\ Quiet'
  BY <1>1, QuietSteps
<1>3. /\ SeenVal' = val /\ SeenHolder' = holder /\ SeenWait' = wait /\ SeenStatus' = status'
      /\ SeenVal = val /\ SeenHolder = holder /\ SeenWait = wait /\ SeenStatus = status
  BY <1>1, <1>2, SeesSteps DEF Sees, SeesQuiet
<1>4. at[cur] = NoSem /\ at[t] = NoSem
  <2>1. stack[t] = <<>>
    BY <1>1 DEF create_thread, CallInv, StackInv
  <2>2. WaitsFor(t) /\ Len(stack[t]) = 0
    BY <2>1 DEF CallInv, ThreadInv
  <2> QED BY <1>1, <2>1, <2>2 DEF WaitsFor, InKernel
<1>5. Flag' = [Flag EXCEPT ![cur] = TRUE, ![t] = TRUE]
  BY <1>1, <1>4, FlagKept, SeenTypes DEF Flag
<1>6. Atomic!create_thread(t)
  BY <1>1, <1>3, <1>5 DEF create_thread, Atomic!create_thread, LinkAfterCur, Atomic!LinkAfterCur, Flag
<1>7. Atomic!Create(t)
  BY <1>1, <1>3, <1>6 DEF Atomic!Create, Atomic!InKernel, InKernel, Atomic!svars
<1> QED BY <1>7 DEF Coarse, Atomic!IrqNext, Atomic!SyncNext

-----------------------------------------------------------------------------
(***************************************************************************)
(* The invariant of Sync holds in the coarse picture: what is proved of    *)
(* Sync is used for what Sync sees of this module.                         *)
(***************************************************************************)
Seen == INSTANCE SyncProofs WITH val <- SeenVal, holder <- SeenHolder, wait <- SeenWait,
                                 status <- SeenStatus, iflag <- [t \in Tcb |-> at[t] = NoSem]

(***************************************************************************)
(* What is proved of Sync in SyncProofs, for what Sync sees here.          *)
(***************************************************************************)
LEMMA SeenInvStep == Seen!SyncInv /\ [Seen!IrqNext]_(Seen!vars) => Seen!SyncInv'
BY Seen!SyncInvStep, ThreadsAssumption, SyncAssumption
   DEF Sem, Seen!Sem, IsFiniteSet, Seen!IsFiniteSet

(***************************************************************************)
(* The same for the initial states.                                         *)
(***************************************************************************)
LEMMA SeenInvInit == Seen!SyncInit => Seen!SyncInv
BY Seen!SyncInvInit, ThreadsAssumption, SyncAssumption
   DEF Sem, Seen!Sem, IsFiniteSet, Seen!IsFiniteSet

(***************************************************************************)
(* Both instances of Sync have the same steps.                             *)
(***************************************************************************)
LEMMA SameSchedule ==
    ASSUME NEW st
    PROVE  Seen!schedule(st) <=> Atomic!schedule(st)
<1>1. Seen!probe = Atomic!probe
  BY DEF Seen!probe, Atomic!probe
<1>2. Seen!Cardinality(Tcb) = Atomic!Cardinality(Tcb)
  BY DEF Seen!Cardinality, Atomic!Cardinality, Seen!IsFiniteSet, Atomic!IsFiniteSet
<1>3. \A t : Seen!ScanEndsAt(st, t) <=> Atomic!ScanEndsAt(st, t)
  BY <1>1, <1>2 DEF Seen!ScanEndsAt, Atomic!ScanEndsAt, Seen!Stops, Atomic!Stops
<1> QED BY <1>3 DEF Seen!schedule, Atomic!schedule, Seen!switch_to, Atomic!switch_to,
             Seen!active_task, Atomic!active_task, Seen!Pdt, Atomic!Pdt, Seen!Demoted, Atomic!Demoted

(***************************************************************************)
(* A step of the one instance is a step of the other.                       *)
(***************************************************************************)
LEMMA SameSteps == Coarse => [Seen!IrqNext]_(Seen!vars)
<1>1. ASSUME NEW s PROVE Atomic!Take(s) => Seen!Take(s)
  BY DEF Atomic!Take, Seen!Take
<1>2. ASSUME NEW s PROVE Atomic!Sleep(s) => Seen!Sleep(s)
  BY SameSchedule DEF Atomic!Sleep, Seen!Sleep, Atomic!Enqueue, Seen!Enqueue
<1>3. ASSUME NEW s PROVE Atomic!Post(s) => Seen!Post(s)
  BY DEF Atomic!Post, Seen!Post, Atomic!WakeHead, Seen!WakeHead
<1>4. ASSUME NEW l PROVE Atomic!Own(l) => Seen!Own(l)
  BY DEF Atomic!Own, Seen!Own
<1>5. ASSUME NEW l PROVE Atomic!Disown(l) => Seen!Disown(l)
  BY <1>3 DEF Atomic!Disown, Seen!Disown
<1>6. Atomic!InKernel <=> Seen!InKernel
  BY DEF Atomic!InKernel, Seen!InKernel
<1>7. Atomic!InCriticalSection <=> Seen!InCriticalSection
  BY DEF Atomic!InCriticalSection, Seen!InCriticalSection
<1>8. UNCHANGED Atomic!tvars <=> UNCHANGED Seen!tvars
  BY DEF Atomic!tvars, Seen!tvars
<1>9. ASSUME NEW s PROVE Atomic!sem_P(s) => Seen!sem_P(s)
  BY <1>1, <1>2, <1>6, <1>7, <1>8 DEF Atomic!sem_P, Seen!sem_P
<1>10. ASSUME NEW s PROVE Atomic!sem_V(s) => Seen!sem_V(s)
  BY <1>3, <1>6 DEF Atomic!sem_V, Seen!sem_V
<1>11. ASSUME NEW l PROVE Atomic!lock_acquire(l) => Seen!lock_acquire(l)
  BY <1>1, <1>2, <1>4, <1>6, <1>7, <1>8 DEF Atomic!lock_acquire, Seen!lock_acquire
<1>12. ASSUME NEW l PROVE Atomic!lock_release(l) => Seen!lock_release(l)
  BY <1>5, <1>6, <1>8 DEF Atomic!lock_release, Seen!lock_release
<1>13. Atomic!Resume => Seen!Resume
  <2>1. Atomic!ResumeTakes(at[cur]) => Seen!ResumeTakes(at[cur])
    BY DEF Atomic!ResumeTakes, Seen!ResumeTakes, Atomic!Take, Seen!Take, Atomic!Own, Seen!Own
  <2>2. Atomic!Sleep(at[cur]) => Seen!Sleep(at[cur])
    BY SameSchedule DEF Atomic!Sleep, Seen!Sleep, Atomic!Enqueue, Seen!Enqueue
  <2> QED BY <2>1, <2>2 DEF Atomic!Resume, Seen!Resume
<1>14. Atomic!PrintInHandler => Seen!PrintInHandler
  BY DEF Atomic!PrintInHandler, Seen!PrintInHandler, Atomic!WakeHead, Seen!WakeHead
<1>15. Atomic!interrupt_handler_keyboard => Seen!interrupt_handler_keyboard
  BY <1>2, <1>5, <1>14 DEF Atomic!interrupt_handler_keyboard, Seen!interrupt_handler_keyboard
<1>16. Atomic!ResumeInHandler => Seen!ResumeInHandler
  BY <1>2, <1>14 DEF Atomic!ResumeInHandler, Seen!ResumeInHandler
<1>17. UNCHANGED Atomic!svars <=> UNCHANGED Seen!svars
  BY DEF Atomic!svars, Seen!svars
<1>18. Atomic!Preempt => Seen!Preempt
  <2>1. Atomic!SliceOver => Seen!SliceOver
    BY SameSchedule DEF Atomic!SliceOver, Seen!SliceOver
  <2>2. Atomic!Tick => Seen!Tick
    BY DEF Atomic!Tick, Seen!Tick
  <2> QED BY <1>17, <2>1, <2>2
         DEF Atomic!Preempt, Seen!Preempt, Atomic!timer_server_func, Seen!timer_server_func
<1>19. ASSUME NEW t PROVE Atomic!Create(t) => Seen!Create(t)
  BY <1>6, <1>17 DEF Atomic!Create, Seen!Create, Atomic!create_thread, Seen!create_thread,
                     Atomic!LinkAfterCur, Seen!LinkAfterCur
<1>20. UNCHANGED Atomic!vars => UNCHANGED Seen!vars
  BY <1>8, <1>17 DEF Atomic!vars, Seen!vars
<1> QED BY <1>9, <1>10, <1>11, <1>12, <1>13, <1>15, <1>16, <1>18, <1>19, <1>20
       DEF Coarse, Atomic!IrqNext, Atomic!SyncNext, Seen!IrqNext, Seen!SyncNext

-----------------------------------------------------------------------------
(***************************************************************************)
(* The threads that Sync sees in a queue are BLOCKED.                      *)
(***************************************************************************)
LEMMA SeenQueuedBlocked ==
    ASSUME CallInv, Seen!SyncInv
    PROVE  \A s \in Sem : \A k \in DOMAIN SeenWait[s] : SeenStatus[SeenWait[s][k]] = "BLOCKED"
<1> SUFFICES ASSUME NEW s \in Sem, NEW k \in DOMAIN SeenWait[s]
             PROVE  SeenStatus[SeenWait[s][k]] = "BLOCKED"
  OBVIOUS
<1> DEFINE t == SeenWait[s][k]
<1>1. Seen!BlockedIsQueued /\ SeenWait \in [Sem -> Seq(Tcb)] /\ s # NoSem
  BY SyncAssumption DEF Seen!SyncInv, Seen!QueueInv, Seen!BaseInv, Seen!SyncTypeOK, Sem, Seen!Sem
<1>2. t \in Tcb
  BY <1>1
<1>3. Seen!Queued(t, s)
  BY DEF Seen!Queued
<1>4. t \in live /\ at[t] = s
  BY <1>1, <1>2, <1>3 DEF Seen!BlockedIsQueued, Seen!Queued, Sem, Seen!Sem
<1> QED BY <1>1, <1>3, <1>4 DEF Seen!BlockedIsQueued, Seen!Queued

(***************************************************************************)
(* Every step of the detailed model is a step of the coarse picture, or is *)
(* not seen in it.                                                         *)
(***************************************************************************)
LEMMA CoarseStep ==
    ASSUME CallInv, CallInv', Seen!SyncInv, [IntNext]_ivars
    PROVE  Coarse
<1>1. CASE Proceed
  <2>1. CASE SwitchEoi \/ AcquireTests \/ AcquireOwns \/ SemPQueues \/ SemPTakes
    BY <2>1, SwitchEoiSeen, AcquireTestsSeen, AcquireOwnsSeen, SemPQueuesSeen, SemPTakesSeen
  <2>2. CASE BlockSwitches \/ BlockReturns \/ ReleaseTests \/ ReleaseReturns
    BY <2>2, BlockSwitchesSeen, BlockReturnsSeen, ReleaseTestsSeen, ReleaseReturnsSeen
  <2>3. CASE SemVUnlinks \/ SemVRaises \/ WakeupReadies
    BY <2>3, SeenQueuedBlocked, SemVUnlinksSeen, SemVRaisesSeen, WakeupReadiesSeen
  <2>4. CASE TimerHandler \/ PrintHandler \/ Iret
    BY <2>4, TimerHandlerSeen, PrintHandlerSeen, IretSeen
  <2> QED BY <1>1, <2>1, <2>2, <2>3, <2>4 DEF Proceed
<1>2. ASSUME NEW l \in Lock, CallAcquire(l) \/ CallRelease(l) PROVE Coarse
  BY <1>2, LockCallSeen
<1>3. ASSUME NEW t \in Tcb, CreateThread(t) PROVE Coarse
  BY <1>3, CreateThreadSeen
<1>4. ASSUME NEW i \in Irq, Interrupt(i) PROVE Coarse
  <2>1. iflag[cur] /\ Gate(32 + i) /\ Same /\ UNCHANGED <<val, holder, wait, status>>
    BY <1>4 DEF Interrupt, threads, svars, Same
  <2>2. 32 + i \in 0 .. 47
    BY IrqAssumption
  <2>3. stack[cur] = <<>> \/ Top.fn = "switch_to"
    BY <2>1, TopLinked DEF CallInv
  <2> QED BY <2>1, <2>2, <2>3, GateSeen
<1>5. ASSUME PageFault PROVE Coarse
  <2>1. PageFaultVector \in 0 .. 47
    BY DEF PageFaultVector
  <2> QED BY <1>5, <2>1, GateSeen DEF PageFault, threads, svars, Same
<1>6. ASSUME NEW i \in Irq, Raise(i) PROVE Coarse
  BY <1>6, PicUnseen DEF Raise
<1>7. CASE UNCHANGED ivars
  BY <1>7, PicUnseen DEF ivars
<1> QED BY <1>1, <1>2, <1>3, <1>4, <1>5, <1>6, <1>7 DEF IntNext

(***************************************************************************)
(* The initial states are those of Sync.                                   *)
(***************************************************************************)
LEMMA CoarseInit == IntInit => Atomic!SyncInit /\ Seen!SyncInit
<1> SUFFICES ASSUME IntInit PROVE Atomic!SyncInit /\ Seen!SyncInit
  OBVIOUS
<1>1. SyncInit /\ CallInv /\ stack[cur] = <<>>
  BY CallInvInit, ThreadsAssumption DEF IntInit, SyncInit, ThreadsInit
<1>2. Quiet
  BY <1>1 DEF Quiet, HandlerOwns, Doing
<1>3. SeenVal = val /\ SeenHolder = holder /\ SeenWait = wait /\ SeenStatus = status
  BY <1>1, <1>2, SeesPhases DEF Sees, SeesQuiet
<1>4. [t \in Tcb |-> at[t] = NoSem] = [t \in Tcb |-> TRUE]
  BY <1>1 DEF SyncInit
<1> QED BY <1>1, <1>3, <1>4 DEF SyncInit, ThreadsInit, Atomic!SyncInit, Atomic!ThreadsInit,
             Seen!SyncInit, Seen!ThreadsInit, Sem, Atomic!Sem, Seen!Sem

(***************************************************************************)
(* The invariant of the detailed model: that of the call stacks, and that  *)
(* of Sync for what is seen.                                               *)
(***************************************************************************)
LEMMA DetailedInit == IntInit => CallInv /\ Seen!SyncInv /\ Atomic!SyncInit
BY CallInvInit, CoarseInit, SeenInvInit

(***************************************************************************)
(* Every step keeps it and is a step of the coarse picture.                *)
(***************************************************************************)
LEMMA DetailedStep ==
    CallInv /\ Seen!SyncInv /\ [IntNext]_ivars => CallInv' /\ Seen!SyncInv' /\ Coarse
<1> SUFFICES ASSUME CallInv, Seen!SyncInv, [IntNext]_ivars
             PROVE  CallInv' /\ Seen!SyncInv' /\ Coarse
  OBVIOUS
<1>1. CallInv'
  BY CallInvStep
<1>2. Coarse
  BY <1>1, CoarseStep
<1>3. Seen!SyncInv'
  BY <1>2, SameSteps, SeenInvStep
<1> QED BY <1>1, <1>2, <1>3

(***************************************************************************)
(* Interrupts implements Sync, for every set of threads, locks and request *)
(* lines: locks, semaphores, thread operations and interrupt handlers      *)
(* behave as if each were one step, although an interrupt may come before  *)
(* every one of their steps that runs with the flag set.  The nested       *)
(* cli_condition and sti_condition pairs of semaphore.c, lock.c and        *)
(* threads.c keep the inner steps to themselves, and a thread that is      *)
(* switched out inside an operation comes back with its flag clear.        *)
(***************************************************************************)
THEOREM OperationsAreAtomic == IntSpec => AtomicView
BY DetailedInit, DetailedStep, PTL DEF IntSpec, AtomicView, Atomic!IrqSpec, Coarse

(***************************************************************************)
(* What follows for the steps in between: the running thread is in no wait *)
(* queue, but for the moment between sync_tool_add in sem_P and the switch *)
(* in thread_block, and whoever is in a queue is BLOCKED or that thread.   *)
(* So a node, which lives on the stack of sem_P, is unlinked before its    *)
(* thread leaves sem_P, whatever interrupts come.                          *)
(***************************************************************************)
THEOREM NodesAreUnlinked ==
    IntSpec => [](\A s \in Sem : \A k \in DOMAIN wait[s] :
                    \/ status[wait[s][k]] = "BLOCKED" /\ wait[s][k] # cur
                    \/ Doing("thread_block", 1) /\ wait[s][k] = cur)
<1> DEFINE Fine == \A s \in Sem : \A k \in DOMAIN wait[s] :
                      \/ status[wait[s][k]] = "BLOCKED" /\ wait[s][k] # cur
                      \/ Doing("thread_block", 1) /\ wait[s][k] = cur
<1>1. CallInv /\ Seen!SyncInv => Fine
  <2> SUFFICES ASSUME CallInv, Seen!SyncInv PROVE Fine
    OBVIOUS
  <2>1. \A s \in Sem : \A k \in DOMAIN SeenWait[s] :
           SeenStatus[SeenWait[s][k]] = "BLOCKED" /\ SeenWait[s][k] # cur
    <3>1. \A s \in Sem : ~Seen!Queued(cur, s)
      BY Seen!CurNotQueued, ThreadsAssumption, SyncAssumption
         DEF Sem, Seen!Sem, IsFiniteSet, Seen!IsFiniteSet
    <3> QED BY <3>1, SeenQueuedBlocked DEF Seen!Queued
  <2>2. Sees
    BY SeesPhases
  <2>3. CASE SeenWait = wait /\ SeenStatus = status
    BY <2>1, <2>3
  <2>4. CASE Doing("thread_block", 1)
    <3>1. PICK l \in Lock : l = Top.arg
      BY <2>4, DoingFacts DEF LockCalls
    <3>2. /\ SeenWait = [wait EXCEPT ![l] = Front(@)] /\ SeenStatus = status
          /\ wait[l] # <<>> /\ Last(wait[l]) = cur /\ l \in Sem /\ wait \in [Sem -> Seq(Tcb)]
      BY <2>2, <2>4, <3>1, SeenTypes DEF Sees, SeesQueued, CallInv, TopInv, QueueingInv
    <3> SUFFICES ASSUME NEW s \in Sem, NEW k \in DOMAIN wait[s]
                 PROVE  (status[wait[s][k]] = "BLOCKED" /\ wait[s][k] # cur) \/ wait[s][k] = cur
      BY <2>4
    <3>3. CASE s # l
      BY <2>1, <3>2, <3>3
    <3>4. CASE s = l
      <4> DEFINE w == wait[l]
      <4>1. /\ Front(w) \in Seq(Tcb) /\ Len(Front(w)) = Len(w) - 1 /\ Len(w) \in Nat \ {0}
            /\ \A j \in 1 .. (Len(w) - 1) : Front(w)[j] = w[j]
            /\ w[Len(w)] = cur /\ SeenWait[l] = Front(w)
        BY <3>2, FrontFacts DEF Last
      <4>2. DOMAIN Front(w) = 1 .. (Len(w) - 1) /\ k \in 1 .. Len(w)
        BY <3>2, <3>4, <4>1
      <4>3. CASE k = Len(w)
        BY <3>4, <4>1, <4>3
      <4>4. CASE k # Len(w)
        <5>1. k \in 1 .. (Len(w) - 1)
          BY <4>1, <4>2, <4>4
        <5> QED BY <2>1, <3>2, <3>4, <4>1, <4>2, <5>1
      <4> QED BY <4>3, <4>4
    <3> QED BY <3>3, <3>4
  <2>5. CASE Posting
    <3> DEFINE l == stack[cur][PostAt].arg
               u == stack[cur][PostAt].node
    <3>1. /\ IF u = NoTcb THEN SeenWait = wait /\ SeenStatus = status
             ELSE /\ SeenWait = [wait EXCEPT ![l] = <<u>> \o @]
                  /\ SeenStatus = [status EXCEPT ![u] = "BLOCKED"]
          /\ l \in Sem /\ u \in Tcb \cup {NoTcb}
          /\ wait \in [Sem -> Seq(Tcb)] /\ status \in [Tcb -> Status]
      BY <2>2, <2>5, PostFacts, FrameFields, SeenTypes DEF Sees, SeesPost
    <3> HIDE DEF l, u
    <3>2. CASE u # NoTcb
      <4>1. /\ SeenWait = [wait EXCEPT ![l] = <<u>> \o @]
            /\ SeenStatus = [status EXCEPT ![u] = "BLOCKED"] /\ u \in Tcb
        BY <3>1, <3>2
      <4>2. Seen!BlockedIsQueued
        BY DEF Seen!SyncInv, Seen!QueueInv
      <4>3. /\ DOMAIN SeenWait[l] = 1 .. (Len(wait[l]) + 1) /\ Len(wait[l]) \in Nat
            /\ SeenWait[l][1] = u
            /\ \A k \in 1 .. Len(wait[l]) : SeenWait[l][k + 1] = wait[l][k]
        BY <3>1, <4>1
      <4>4. at[u] = l
        <5>1. 1 \in DOMAIN SeenWait[l]
          BY <4>3
        <5>2. Seen!Queued(u, l)
          BY <4>3, <5>1 DEF Seen!Queued
        <5> QED BY <3>1, <4>1, <4>2, <5>2 DEF Seen!BlockedIsQueued, Seen!Queued, Sem, Seen!Sem
      <4>5. ASSUME NEW s \in Sem, NEW k \in DOMAIN wait[s]
            PROVE  status[wait[s][k]] = "BLOCKED" /\ wait[s][k] # cur
        <5>1. wait[s][k] \in Tcb
          BY <3>1
        <5>2. CASE s = l
          <6>1. k \in 1 .. Len(wait[l]) /\ k + 1 \in DOMAIN SeenWait[l] /\ 1 \in DOMAIN SeenWait[l]
            BY <3>1, <4>3, <5>2
          <6>2. k + 1 # 1
            BY <6>1
          <6>3. SeenWait[l][k + 1] # u
            BY <3>1, <4>2, <4>3, <6>1, <6>2 DEF Seen!BlockedIsQueued, Sem, Seen!Sem
          <6>4. SeenWait[l][k + 1] = wait[s][k]
            BY <4>3, <5>2, <6>1
          <6> QED BY <2>1, <3>1, <4>1, <5>1, <6>1, <6>3, <6>4
        <5>3. CASE s # l
          <6>1. SeenWait[s] = wait[s]
            BY <3>1, <4>1, <5>3
          <6>2. Seen!Queued(wait[s][k], s)
            BY <6>1 DEF Seen!Queued
          <6>3. at[wait[s][k]] = s
            BY <4>2, <5>1, <6>2 DEF Seen!BlockedIsQueued, Seen!Queued, Sem, Seen!Sem
          <6>4. wait[s][k] # u
            BY <4>4, <5>3, <6>3
          <6> QED BY <2>1, <3>1, <4>1, <5>1, <6>1, <6>4
        <5> QED BY <5>2, <5>3
      <4> QED BY <4>5
    <3> QED BY <2>3, <3>1, <3>2
  <2>6. Quiet \/ HandlerOwns \/ Posting \/ Doing("lock_acquire", 2) \/ Doing("thread_block", 1)
    BY DEF Quiet, Posting, Doing
  <2>7. Quiet \/ HandlerOwns \/ Doing("lock_acquire", 2) => SeenWait = wait /\ SeenStatus = status
    BY <2>2 DEF Sees, SeesQuiet, SeesOwner, SeesGranted
  <2> QED BY <2>3, <2>4, <2>5, <2>6, <2>7
<1> QED BY <1>1, DetailedInit, DetailedStep, PTL DEF IntSpec
=============================================================================
