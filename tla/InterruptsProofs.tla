-------------------------- MODULE InterruptsProofs --------------------------
(***************************************************************************)
(* Proofs about interrupts in detail, for every set of threads, locks and  *)
(* request lines.  First: handlers do not nest on a kernel stack, and the  *)
(* timer is not kept in service while code runs with the flag set.  Then   *)
(* the invariant CallInv of the call stacks: which frame may lie on which, *)
(* what a thread that was switched out waits for, and who has the token of *)
(* a lock in the middle of an operation; AtomicProofs builds on it.        *)
(***************************************************************************)
EXTENDS Interrupts, SyncProofs, FiniteSetTheorems

(***************************************************************************)
(* The frames of a call stack.                                             *)
(***************************************************************************)
Calls(fns, args) ==
    [fn : fns, arg : args, cond : BOOLEAN, pc : 0 .. 3, node : Tcb \cup {NoTcb}]

LockCalls == {"lock_acquire", "lock_release", "sem_P", "sem_V", "thread_block"}

Frames ==
    UNION {Calls(LockCalls, Lock), Calls({"thread_wakeup"}, Tcb),
           Calls({"int"}, 0 .. 47), Calls({"switch_to"}, {NoTcb})}

(***************************************************************************)
(* How interrupts and the saved flags nest on a stack q of a thread that   *)
(* runs with the given flag: no handler is under code that runs with the   *)
(* flag set, nor under a frame that will set it again, nor under another   *)
(* handler.  (A new switch_to frame does not restore a flag.)              *)
(***************************************************************************)
Clear(q, n) == \A j \in 1 .. n : q[j].fn # "int"

Nests(q, flag) ==
    /\ flag => Clear(q, Len(q))
    /\ \A k \in 1 .. Len(q) :
          (q[k].cond /\ q[k].fn # "switch_to") \/ q[k].fn = "int" => Clear(q, k - 1)

(***************************************************************************)
(* The stacks have their types and nest, and a thread that was never       *)
(* created has an empty one.                                               *)
(***************************************************************************)
StackInv ==
    /\ stack \in [Tcb -> Seq(Frames)]
    /\ \A t \in Tcb \ created : stack[t] = <<>>
    /\ \A t \in Tcb : Nests(stack[t], iflag[t])

(***************************************************************************)
(* A frame has its fields.                                                 *)
(***************************************************************************)
LEMMA FrameFields ==
    ASSUME NEW f \in Frames
    PROVE  /\ f.cond \in BOOLEAN /\ f.pc \in 0 .. 3 /\ f.node \in Tcb \cup {NoTcb}
           /\ f.fn \in LockCalls => f.arg \in Lock
           /\ f.fn = "thread_wakeup" => f.arg \in Tcb
           /\ f.fn = "int" => f.arg \in 0 .. 47
BY DEF Frames, Calls, LockCalls

(***************************************************************************)
(* Frames as the functions make them and as they change them.              *)
(***************************************************************************)
LEMMA FrameTypes ==
    ASSUME NEW c \in BOOLEAN
    PROVE  /\ \A fn \in LockCalls, l \in Lock : Frame(fn, l, c) \in Frames
           /\ \A t \in Tcb : Frame("thread_wakeup", t, c) \in Frames
           /\ \A n \in 0 .. 47 : Frame("int", n, c) \in Frames
           /\ Frame("switch_to", NoTcb, c) \in Frames
           /\ \A f \in Frames, pc \in 0 .. 3, node \in Tcb \cup {NoTcb} :
                 [f EXCEPT !.pc = pc, !.node = node] \in Frames
<1>1. \A fn \in LockCalls, l \in Lock : Frame(fn, l, c) \in Calls(LockCalls, Lock)
  BY DEF Frame, Calls
<1>2. \A t \in Tcb : Frame("thread_wakeup", t, c) \in Calls({"thread_wakeup"}, Tcb)
  BY DEF Frame, Calls
<1>3. \A n \in 0 .. 47 : Frame("int", n, c) \in Calls({"int"}, 0 .. 47)
  BY DEF Frame, Calls
<1>4. Frame("switch_to", NoTcb, c) \in Calls({"switch_to"}, {NoTcb})
  BY DEF Frame, Calls
<1>5. ASSUME NEW F, NEW A, NEW f \in Calls(F, A), NEW pc \in 0 .. 3,
             NEW node \in Tcb \cup {NoTcb}
      PROVE  [f EXCEPT !.pc = pc, !.node = node] \in Calls(F, A)
  BY DEF Calls
<1> QED BY <1>1, <1>2, <1>3, <1>4, <1>5 DEF Frames

(***************************************************************************)
(* What is left of a sequence without its last element.                    *)
(***************************************************************************)
LEMMA FrontFacts ==
    ASSUME NEW S, NEW q \in Seq(S), q # <<>>
    PROVE  /\ Front(q) \in Seq(S) /\ Len(Front(q)) = Len(q) - 1
           /\ \A k \in 1 .. (Len(q) - 1) : Front(q)[k] = q[k]
<1> DEFINE n == Len(q) - 1
<1>1. Len(q) \in Nat \ {0} /\ n \in Nat /\ n <= Len(q)
  OBVIOUS
<1>2. q \in [1 .. Len(q) -> S]
  OBVIOUS
<1>3. Front(q) = [k \in 1 .. n |-> q[k]]
  BY <1>1 DEF Front
<1>4. [k \in 1 .. n |-> q[k]] \in [1 .. n -> S]
  BY <1>1, <1>2
<1> QED BY <1>1, <1>3, <1>4

(***************************************************************************)
(* The last element of a sequence that was appended to.                    *)
(***************************************************************************)
LEMMA LastAppend ==
    ASSUME NEW S, NEW q \in Seq(S), NEW e \in S
    PROVE  Append(q, e) # <<>> /\ Last(Append(q, e)) = e
BY DEF Last

(***************************************************************************)
(* Two stacks whose frames differ only in where they are.                  *)
(***************************************************************************)
SameShape(q, r) ==
    /\ Len(r) = Len(q)
    /\ \A k \in 1 .. Len(q) : r[k].fn = q[k].fn /\ r[k].cond = q[k].cond /\ r[k].arg = q[k].arg

LEMMA ResumingShape ==
    ASSUME BaseInv, StackInv, NEW pc \in 0 .. 3, NEW node \in Tcb \cup {NoTcb}
    PROVE  Resuming(pc, node) \in Seq(Frames) /\ SameShape(stack[cur], Resuming(pc, node))
<1> DEFINE q == stack[cur]
           f == [Top EXCEPT !.pc = pc, !.node = node]
<1>1. q \in Seq(Frames)
  BY CurFacts DEF StackInv
<1>2. CASE q = <<>>
  BY <1>1, <1>2 DEF Resuming, SameShape
<1>3. CASE q # <<>>
  <2>1. Len(q) \in Nat \ {0} /\ Top = q[Len(q)] /\ Top \in Frames
    BY <1>1, <1>3 DEF Top, Last
  <2>2. f \in Frames
    <3> HIDE DEF f
    <3> QED BY <2>1, FrameTypes DEF f
  <2>3. f.fn = Top.fn /\ f.cond = Top.cond /\ f.arg = Top.arg
    BY <2>1 DEF Frames, Calls
  <2>4. /\ Front(q) \in Seq(Frames) /\ Len(Front(q)) = Len(q) - 1
        /\ \A k \in 1 .. (Len(q) - 1) : Front(q)[k] = q[k]
    BY <1>1, <1>3, FrontFacts
  <2> HIDE DEF f
  <2>5. Resuming(pc, node) = Append(Front(q), f)
    BY <1>3 DEF Resuming, f
  <2> HIDE DEF q
  <2>6. /\ Append(Front(q), f) \in Seq(Frames)
        /\ Len(Append(Front(q), f)) = Len(q)
        /\ \A k \in 1 .. (Len(q) - 1) : Append(Front(q), f)[k] = q[k]
        /\ Append(Front(q), f)[Len(q)] = f
    BY <2>1, <2>2, <2>4
  <2>7. SameShape(q, Append(Front(q), f))
    BY <2>1, <2>3, <2>6 DEF SameShape
  <2> QED BY <2>5, <2>6, <2>7 DEF q
<1> QED BY <1>2, <1>3

(***************************************************************************)
(* A call, or the entry of an interrupt taken with the flag set or on an   *)
(* empty stack, keeps the nesting: the frame saves the flag, the flag is   *)
(* cleared.                                                                *)
(***************************************************************************)
LEMMA PushNests ==
    ASSUME NEW q \in Seq(Frames), NEW r \in Seq(Frames), SameShape(q, r),
           NEW flag \in BOOLEAN, Nests(q, flag),
           NEW f \in Frames, f.cond = flag, f.fn = "int" => flag \/ q = <<>>
    PROVE  Append(r, f) \in Seq(Frames) /\ Nests(Append(r, f), FALSE)
<1> DEFINE s == Append(r, f)
<1>1. /\ s \in Seq(Frames) /\ Len(s) = Len(q) + 1 /\ Len(q) \in Nat
      /\ s[Len(q) + 1] = f
      /\ \A k \in 1 .. Len(q) : s[k].fn = q[k].fn /\ s[k].cond = q[k].cond
  BY DEF SameShape
<1> HIDE DEF s
<1>2. ASSUME NEW k \in 1 .. Len(s), (s[k].cond /\ s[k].fn # "switch_to") \/ s[k].fn = "int"
      PROVE  Clear(s, k - 1)
  <2>1. CASE k = Len(q) + 1
    <3>1. flag \/ q = <<>>
      BY <1>1, <1>2, <2>1
    <3>2. Clear(q, Len(q))
      BY <3>1 DEF Nests, Clear
    <3> QED BY <1>1, <2>1, <3>2 DEF Clear
  <2>2. CASE k \in 1 .. Len(q)
    <3>1. Clear(q, k - 1)
      BY <1>1, <1>2, <2>2 DEF Nests
    <3> QED BY <1>1, <2>2, <3>1 DEF Clear
  <2> QED BY <1>1, <2>1, <2>2
<1>3. Nests(s, FALSE)
  BY <1>2 DEF Nests
<1> QED BY <1>1, <1>3 DEF s

(***************************************************************************)
(* A return, with the flag restored from the frame.                        *)
(***************************************************************************)
LEMMA PopNests ==
    ASSUME NEW q \in Seq(Frames), q # <<>>, NEW flag \in BOOLEAN, Nests(q, flag)
    PROVE  /\ Front(q) \in Seq(Frames)
           /\ Last(q).fn # "switch_to" => Nests(Front(q), Last(q).cond)
           /\ Nests(Front(q), flag)
<1> DEFINE r == Front(q)
<1>0. Len(q) \in Nat \ {0} /\ Last(q) = q[Len(q)]
  BY DEF Last
<1>1. /\ r \in Seq(Frames) /\ Len(r) = Len(q) - 1
      /\ \A k \in 1 .. (Len(q) - 1) : r[k] = q[k]
  BY <1>0, FrontFacts
<1> HIDE DEF r
<1>2. ASSUME NEW k \in 1 .. Len(r), (r[k].cond /\ r[k].fn # "switch_to") \/ r[k].fn = "int"
      PROVE  Clear(r, k - 1)
  <2>1. k \in 1 .. Len(q) /\ Clear(q, k - 1)
    BY <1>0, <1>1, <1>2 DEF Nests
  <2> QED BY <1>0, <1>1, <2>1 DEF Clear
<1>3. Clear(q, Len(q)) \/ Clear(q, Len(q) - 1) => Clear(r, Len(r))
  BY <1>0, <1>1 DEF Clear
<1>4. ASSUME Last(q).fn # "switch_to" PROVE Nests(r, Last(q).cond)
  <2>1. Last(q).cond => Clear(q, Len(q) - 1)
    BY <1>0, <1>1, <1>4 DEF Nests
  <2> QED BY <1>2, <1>3, <2>1 DEF Nests
<1>5. Nests(r, flag)
  BY <1>2, <1>3 DEF Nests
<1> QED BY <1>0, <1>1, <1>4, <1>5 DEF r

(***************************************************************************)
(* A stack of the same shape nests as well, also with a switch_to frame on *)
(* top.                                                                    *)
(***************************************************************************)
LEMMA SwitchNests ==
    ASSUME NEW q \in Seq(Frames), NEW r \in Seq(Frames), SameShape(q, r),
           NEW flag \in BOOLEAN, Nests(q, flag)
    PROVE  /\ Nests(r, flag)
           /\ Append(r, Frame("switch_to", NoTcb, TRUE)) \in Seq(Frames)
           /\ Nests(Append(r, Frame("switch_to", NoTcb, TRUE)), flag)
<1> DEFINE f == Frame("switch_to", NoTcb, TRUE)
           s == Append(r, f)
<1>1. f \in Frames /\ f.fn = "switch_to"
  BY FrameTypes DEF Frame
<1> HIDE DEF f
<1>2. /\ s \in Seq(Frames) /\ Len(s) = Len(q) + 1 /\ Len(q) \in Nat
      /\ s[Len(q) + 1] = f
      /\ \A k \in 1 .. Len(q) : s[k].fn = q[k].fn /\ s[k].cond = q[k].cond
      /\ Len(r) = Len(q)
      /\ \A k \in 1 .. Len(q) : r[k].fn = q[k].fn /\ r[k].cond = q[k].cond
  BY <1>1 DEF SameShape
<1> HIDE DEF s
<1>3. ASSUME NEW n \in 0 .. Len(q), Clear(q, n) PROVE Clear(r, n) /\ Clear(s, n)
  BY <1>2, <1>3 DEF Clear
<1>4. Nests(r, flag)
  BY <1>2, <1>3 DEF Nests
<1>5. ASSUME NEW k \in 1 .. Len(s), (s[k].cond /\ s[k].fn # "switch_to") \/ s[k].fn = "int"
      PROVE  Clear(s, k - 1)
  <2>1. k \in 1 .. Len(q)
    BY <1>1, <1>2, <1>5
  <2>2. Clear(q, k - 1)
    BY <1>2, <1>5, <2>1 DEF Nests
  <2> QED BY <1>2, <1>3, <2>1, <2>2
<1>6. flag => Clear(s, Len(s))
  BY <1>1, <1>2 DEF Nests, Clear
<1>7. Nests(s, flag)
  BY <1>5, <1>6 DEF Nests
<1> QED BY <1>2, <1>4, <1>7 DEF f, s

-----------------------------------------------------------------------------
(***************************************************************************)
(* A step that changes the flag and the stack of the running thread only.  *)
(***************************************************************************)
LEMMA UpdateKeepsStacks ==
    ASSUME BaseInv, StackInv, NEW q \in Seq(Frames), NEW flag \in BOOLEAN, Nests(q, flag),
           stack' = [stack EXCEPT ![cur] = q], iflag' = [iflag EXCEPT ![cur] = flag],
           created' = created
    PROVE  StackInv' /\ iflag' \in [Tcb -> BOOLEAN]
<1>1. cur \in Tcb /\ cur \in created /\ iflag \in [Tcb -> BOOLEAN]
  BY CurFacts DEF BaseInv, RingInv, ThreadsTypeOK
<1>2. stack' \in [Tcb -> Seq(Frames)] /\ iflag' \in [Tcb -> BOOLEAN]
  BY <1>1 DEF StackInv
<1>3. \A t \in Tcb \ created' : stack'[t] = <<>>
  BY <1>1 DEF StackInv
<1>4. ASSUME NEW t \in Tcb PROVE Nests(stack'[t], iflag'[t])
  BY <1>1 DEF StackInv
<1> QED BY <1>2, <1>3, <1>4 DEF StackInv

(***************************************************************************)
(* A call: the caller's frame is set to where it goes on, and cli_condition *)
(* saves the flag.                                                         *)
(***************************************************************************)
LEMMA CallKeepsStacks ==
    ASSUME BaseInv, StackInv, NEW fn, NEW arg, NEW pc \in 0 .. 3,
           NEW node \in Tcb \cup {NoTcb},
           fn # "int", Frame(fn, arg, iflag[cur]) \in Frames,
           Call(fn, arg, pc, node), created' = created
    PROVE  StackInv' /\ iflag' \in [Tcb -> BOOLEAN]
<1> DEFINE f == Frame(fn, arg, iflag[cur])
           r == Resuming(pc, node)
<1>1. cur \in Tcb /\ stack[cur] \in Seq(Frames) /\ iflag[cur] \in BOOLEAN
      /\ Nests(stack[cur], iflag[cur])
  BY CurFacts DEF StackInv, BaseInv, RingInv, ThreadsTypeOK
<1>2. r \in Seq(Frames) /\ SameShape(stack[cur], r)
  BY ResumingShape
<1>3. f.cond = iflag[cur] /\ f.fn = fn
  BY DEF Frame
<1>4. /\ stack' = [stack EXCEPT ![cur] = Append(r, f)]
      /\ iflag' = [iflag EXCEPT ![cur] = FALSE]
  BY DEF Call, cli_condition
<1> HIDE DEF f, r
<1>5. Append(r, f) \in Seq(Frames) /\ Nests(Append(r, f), FALSE)
  <2>1. f \in Frames
    BY DEF f
  <2> QED BY <2>1, <1>1, <1>2, <1>3, PushNests
<1> QED BY <1>4, <1>5, UpdateKeepsStacks

(***************************************************************************)
(* A return by sti_condition or iret: the flag is what the frame saved.    *)
(***************************************************************************)
LEMMA ReturnKeepsStacks ==
    ASSUME BaseInv, StackInv, stack[cur] # <<>>, Top.fn # "switch_to", sti_condition,
           created' = created
    PROVE  StackInv' /\ iflag' \in [Tcb -> BOOLEAN]
<1>1. cur \in Tcb /\ stack[cur] \in Seq(Frames) /\ iflag[cur] \in BOOLEAN
      /\ Nests(stack[cur], iflag[cur])
  BY CurFacts DEF StackInv, BaseInv, RingInv, ThreadsTypeOK
<1>2. Front(stack[cur]) \in Seq(Frames) /\ Nests(Front(stack[cur]), Top.cond)
  BY <1>1, PopNests DEF Top
<1>3. Top \in Frames
  BY <1>1 DEF Top, Last
<1>4. Top.cond \in BOOLEAN
  BY <1>3, FrameFields
<1>5. /\ stack' = [stack EXCEPT ![cur] = Front(stack[cur])]
      /\ iflag' = [iflag EXCEPT ![cur] = Top.cond]
  BY DEF sti_condition
<1> QED BY <1>2, <1>4, <1>5, UpdateKeepsStacks

(***************************************************************************)
(* The entry of an interrupt or fault.                                     *)
(***************************************************************************)
LEMMA GateKeepsStacks ==
    ASSUME BaseInv, StackInv, NEW n \in 0 .. 47, Gate(n), iflag[cur] \/ stack[cur] = <<>>,
           created' = created
    PROVE  StackInv' /\ iflag' \in [Tcb -> BOOLEAN]
<1> DEFINE f == Frame("int", n, iflag[cur])
<1>1. cur \in Tcb /\ stack[cur] \in Seq(Frames) /\ iflag[cur] \in BOOLEAN
      /\ Nests(stack[cur], iflag[cur])
  BY CurFacts DEF StackInv, BaseInv, RingInv, ThreadsTypeOK
<1>2. f \in Frames
  BY <1>1, FrameTypes
<1>3. f.cond = iflag[cur]
  BY DEF Frame
<1>4. /\ stack' = [stack EXCEPT ![cur] = Append(stack[cur], f)]
      /\ iflag' = [iflag EXCEPT ![cur] = FALSE]
  BY DEF Gate
<1> HIDE DEF f
<1>5. SameShape(stack[cur], stack[cur])
  BY <1>1 DEF SameShape
<1>6. Append(stack[cur], f) \in Seq(Frames) /\ Nests(Append(stack[cur], f), FALSE)
  BY <1>1, <1>2, <1>3, <1>5, PushNests
<1> QED BY <1>4, <1>6, UpdateKeepsStacks

(***************************************************************************)
(* schedule: the stack of the thread that is resumed gets the end of       *)
(* switch_to, and no flag changes hands.                                   *)
(***************************************************************************)
LEMMA SwitchingKeepsStacks ==
    ASSUME BaseInv, StackInv, NEW pc \in 0 .. 3, Switching(pc), cur' \in live,
           UNCHANGED <<iflag, created>>
    PROVE  StackInv'
<1> DEFINE r == Resuming(pc, NoTcb)
           f == Frame("switch_to", NoTcb, TRUE)
           left == [stack EXCEPT ![cur] = r]
<1>1. /\ cur \in Tcb /\ cur \in created /\ cur' \in Tcb /\ cur' \in created
      /\ stack \in [Tcb -> Seq(Frames)]
      /\ iflag \in [Tcb -> BOOLEAN]
  BY CurFacts DEF StackInv, BaseInv, RingInv, ThreadsTypeOK
<1>2. r \in Seq(Frames) /\ SameShape(stack[cur], r)
  BY ResumingShape
<1>3. stack' = IF cur' = cur THEN left ELSE [left EXCEPT ![cur'] = Append(@, f)]
  BY DEF Switching
<1> HIDE DEF r, f
<1>4. stack'[cur] = r /\ (cur' # cur => stack'[cur'] = Append(stack[cur'], f))
  BY <1>1, <1>2, <1>3
<1>5. DOMAIN stack' = Tcb /\ \A t \in Tcb \ {cur, cur'} : stack'[t] = stack[t]
  BY <1>1, <1>2, <1>3
<1>6. ASSUME NEW t \in Tcb PROVE stack'[t] \in Seq(Frames) /\ Nests(stack'[t], iflag[t])
  <2>1. Nests(stack[t], iflag[t]) /\ stack[t] \in Seq(Frames) /\ iflag[t] \in BOOLEAN
    BY <1>1 DEF StackInv
  <2>2. CASE t = cur
    <3>1. SameShape(stack[t], r)
      BY <2>2, <1>2
    <3>2. Nests(r, iflag[t])
      BY <3>1, <2>1, <1>2, SwitchNests
    <3> QED BY <3>2, <2>2, <1>2, <1>4
  <2>3. CASE t = cur' /\ t # cur
    <3>1. SameShape(stack[t], stack[t])
      BY <2>1 DEF SameShape
    <3> QED BY <2>1, <2>3, <1>4, <3>1, SwitchNests DEF f
  <2>4. CASE t \notin {cur, cur'}
    BY <2>1, <2>4, <1>5
  <2> QED BY <2>2, <2>3, <2>4
<1>7. stack' \in [Tcb -> Seq(Frames)]
  <2>1. stack' = [t \in Tcb |-> stack'[t]]
    BY <1>1, <1>3
  <2> QED BY <2>1, <1>6
<1>8. \A t \in Tcb \ created' : stack'[t] = <<>>
  BY <1>1, <1>5 DEF StackInv
<1>9. iflag' = iflag
  OBVIOUS
<1> QED BY <1>6, <1>7, <1>8, <1>9 DEF StackInv

(***************************************************************************)
(* A step that changes nothing of the thread module's state but flags      *)
(* keeps the ring.                                                         *)
(***************************************************************************)
LEMMA FlagKeepsRing ==
    ASSUME BaseInv, UNCHANGED threads, iflag' \in [Tcb -> BOOLEAN]
    PROVE  RingInv'
BY DEF threads, BaseInv, RingInv, ThreadsTypeOK, SingleRing

(***************************************************************************)
(* The frame of the function the running thread is in.                     *)
(***************************************************************************)
LEMMA TopFacts ==
    ASSUME BaseInv, StackInv, NEW fn, NEW pc, Doing(fn, pc)
    PROVE  /\ stack[cur] # <<>> /\ Top \in Frames /\ Top.fn = fn
           /\ fn \in LockCalls => Top.arg \in Lock /\ Top.arg \in Sem
           /\ fn = "thread_wakeup" => Top.arg \in Tcb
           /\ fn = "int" => Top.arg \in 0 .. 47
           /\ Top.node \in Tcb \cup {NoTcb}
<1>1. stack[cur] \in Seq(Frames) /\ stack[cur] # <<>> /\ Top.fn = fn
  BY CurFacts DEF StackInv, Doing
<1>2. Top \in Frames
  BY <1>1 DEF Top, Last
<1> QED BY <1>1, <1>2, FrameFields DEF Sem

(***************************************************************************)
(* A call of one of the functions on a lock.                               *)
(***************************************************************************)
LEMMA LockCallKeepsStacks ==
    ASSUME BaseInv, StackInv, NEW fn \in LockCalls, NEW l \in Lock, NEW pc \in 0 .. 3,
           NEW node \in Tcb \cup {NoTcb}, Call(fn, l, pc, node), created' = created
    PROVE  StackInv' /\ iflag' \in [Tcb -> BOOLEAN]
<1>1. iflag[cur] \in BOOLEAN
  BY CurFacts DEF BaseInv, RingInv, ThreadsTypeOK
<1>2. Frame(fn, l, iflag[cur]) \in Frames
  BY <1>1, FrameTypes
<1>3. fn # "int"
  BY DEF LockCalls
<1> QED BY <1>2, <1>3, CallKeepsStacks

(***************************************************************************)
(* Every step keeps the ring, the types and the nesting of the stacks.     *)
(***************************************************************************)
LEMMA StackStep == BaseInv /\ StackInv /\ [IntNext]_ivars => BaseInv' /\ StackInv'
<1> SUFFICES ASSUME BaseInv, StackInv, [IntNext]_ivars PROVE BaseInv' /\ StackInv'
  OBVIOUS
<1>1. cur \in Tcb /\ cur \in live /\ live \subseteq Tcb
  BY CurFacts
<1>2. /\ PrintkLock \in Lock /\ Lock \subseteq Sem /\ NoTcb \in Tcb \cup {NoTcb}
      /\ \A n \in 0 .. 3 : n \in 0 .. 3
  BY SyncAssumption DEF Sem
<1>3. /\ val \in [Sem -> Nat]
      /\ wait \in [Sem -> Seq(Tcb)]
      /\ holder \in [Lock -> Tcb \cup {NoTcb}]
      /\ at \in [Tcb -> Sem \cup {NoSem}]
      /\ cs \in [Lock -> SUBSET Tcb]
      /\ irq \in SUBSET Tcb
      /\ iflag \in [Tcb -> BOOLEAN]
  BY DEF BaseInv, SyncTypeOK, RingInv, ThreadsTypeOK
<1>4. UNCHANGED threads => created' = created
  BY DEF threads
<1>5. ASSUME UNCHANGED threads, StackInv' /\ iflag' \in [Tcb -> BOOLEAN], SyncTypeOK'
      PROVE  BaseInv' /\ StackInv'
  BY <1>5, FlagKeepsRing DEF BaseInv
<1>6. ASSUME UNCHANGED <<threads, val, wait, holder, history>>,
             StackInv' /\ iflag' \in [Tcb -> BOOLEAN]
      PROVE  BaseInv' /\ StackInv'
  <2>1. SyncTypeOK'
    BY <1>3, <1>6 DEF SyncTypeOK, history
  <2> QED BY <2>1, <1>5, <1>6
<1>7. {"lock_acquire", "lock_release", "sem_P", "sem_V", "thread_block"} = LockCalls
  BY DEF LockCalls
<1>8. CASE SwitchEoi
  <2>1. /\ stack' = [stack EXCEPT ![cur] = Front(stack[cur])]
        /\ UNCHANGED <<vars>> /\ iflag' = [iflag EXCEPT ![cur] = iflag[cur]]
        /\ created' = created
    BY <1>3, <1>8 DEF SwitchEoi, vars, tvars
  <2>2. stack[cur] # <<>> /\ stack[cur] \in Seq(Frames) /\ iflag[cur] \in BOOLEAN
        /\ Nests(stack[cur], iflag[cur])
    BY <1>1, <1>3, <1>8 DEF SwitchEoi, Doing, StackInv
  <2>3. Front(stack[cur]) \in Seq(Frames) /\ Nests(Front(stack[cur]), iflag[cur])
    BY <2>2, PopNests
  <2>4. StackInv' /\ iflag' \in [Tcb -> BOOLEAN]
    BY <2>1, <2>2, <2>3, UpdateKeepsStacks
  <2> QED BY <2>1, <2>4, <1>6 DEF vars, tvars, svars, threads, history
<1>9. ASSUME NEW l \in Lock, CallAcquire(l) \/ CallRelease(l) PROVE BaseInv' /\ StackInv'
  <2>1. UNCHANGED <<threads, val, wait, holder, history>>
    BY <1>9 DEF CallAcquire, CallRelease
  <2>2. \E fn \in LockCalls : Call(fn, l, 0, NoTcb)
    BY <1>9 DEF CallAcquire, CallRelease, LockCalls
  <2>3. StackInv' /\ iflag' \in [Tcb -> BOOLEAN]
    BY <2>1, <2>2, <1>4, LockCallKeepsStacks
  <2> QED BY <2>1, <2>3, <1>6
<1>10. CASE AcquireTests
  <2>1. UNCHANGED <<threads, val, wait, holder, history>> /\ Doing("lock_acquire", 1)
    BY <1>10 DEF AcquireTests
  <2>2. stack[cur] # <<>> /\ Top.fn # "switch_to" /\ Top.arg \in Lock
    BY <2>1, TopFacts DEF LockCalls
  <2>3. CASE sti_condition
    BY <2>1, <2>2, <2>3, <1>4, <1>6, ReturnKeepsStacks
  <2>4. CASE Call("sem_P", Top.arg, 2, NoTcb)
    <3>1. StackInv' /\ iflag' \in [Tcb -> BOOLEAN]
      BY <2>1, <2>2, <2>4, <1>4, <1>7, LockCallKeepsStacks
    <3> QED BY <2>1, <3>1, <1>6
  <2> QED BY <1>10, <2>3, <2>4 DEF AcquireTests
<1>11. CASE AcquireOwns
  <2>1. UNCHANGED <<threads, val, wait, irq>> /\ Doing("lock_acquire", 2) /\ sti_condition
    BY <1>11 DEF AcquireOwns
  <2>2. stack[cur] # <<>> /\ Top.fn # "switch_to" /\ Top.arg \in Lock
    BY <2>1, TopFacts DEF LockCalls
  <2>3. StackInv' /\ iflag' \in [Tcb -> BOOLEAN]
    BY <2>1, <2>2, <1>4, ReturnKeepsStacks
  <2>4. holder' = [holder EXCEPT ![Top.arg] = cur]
    BY <1>11 DEF AcquireOwns
  <2>5. \/ UNCHANGED <<at, cs>>
        \/ /\ cs' = [cs EXCEPT ![Top.arg] = @ \cup {cur}]
           /\ at' = [at EXCEPT ![cur] = NoSem]
    BY <1>11 DEF AcquireOwns
  <2>6. holder' \in [Lock -> Tcb \cup {NoTcb}]
    BY <2>4, <1>1, <1>3
  <2>7. cs' \in [Lock -> SUBSET Tcb] /\ at' \in [Tcb -> Sem \cup {NoSem}]
    <3>1. CASE UNCHANGED <<at, cs>>
      BY <3>1, <1>3
    <3>2. CASE /\ cs' = [cs EXCEPT ![Top.arg] = @ \cup {cur}]
               /\ at' = [at EXCEPT ![cur] = NoSem]
      BY <3>2, <1>1, <1>3
    <3> QED BY <2>5, <3>1, <3>2
  <2>8. SyncTypeOK'
    BY <2>1, <2>6, <2>7, <1>3 DEF SyncTypeOK
  <2> QED BY <2>1, <2>3, <2>8, <1>5
<1>12. CASE SemPQueues
  <2>1. /\ UNCHANGED <<threads, val, holder, history>> /\ Doing("sem_P", 1)
        /\ Call("thread_block", Top.arg, 1, NoTcb) /\ Enqueue(Top.arg)
    BY <1>12 DEF SemPQueues
  <2>2. Top.arg \in Lock /\ Top.arg \in Sem
    BY <2>1, TopFacts DEF LockCalls
  <2>3. StackInv' /\ iflag' \in [Tcb -> BOOLEAN]
    BY <2>1, <2>2, <1>4, <1>7, LockCallKeepsStacks
  <2>4. wait' \in [Sem -> Seq(Tcb)]
    BY <2>1, <2>2, <1>1, <1>3 DEF Enqueue
  <2>5. SyncTypeOK'
    BY <2>1, <2>4, <1>3 DEF SyncTypeOK, history
  <2> QED BY <2>1, <2>3, <2>5, <1>5
<1>13. CASE SemPTakes
  <2>1. /\ UNCHANGED <<threads, holder, history>> /\ Doing("sem_P", 1)
        /\ sti_condition /\ Take(Top.arg)
    BY <1>13 DEF SemPTakes
  <2>2. Top.arg \in Sem /\ stack[cur] # <<>> /\ Top.fn # "switch_to"
    BY <2>1, TopFacts DEF LockCalls
  <2>3. StackInv' /\ iflag' \in [Tcb -> BOOLEAN]
    BY <2>1, <2>2, <1>4, ReturnKeepsStacks
  <2>4. val' \in [Sem -> Nat] /\ wait' = wait
    BY <2>1, <2>2, TakeType DEF Take
  <2>5. SyncTypeOK'
    BY <2>1, <2>4, <1>3 DEF SyncTypeOK, history
  <2> QED BY <2>1, <2>3, <2>5, <1>5
<1>14. ASSUME BlockReturns \/ ReleaseReturns PROVE BaseInv' /\ StackInv'
  <2>1. /\ UNCHANGED <<threads, val, wait, holder, history>> /\ sti_condition
        /\ Doing("thread_block", 2) \/ Doing("lock_release", 2)
    BY <1>14 DEF BlockReturns, ReleaseReturns
  <2>2. stack[cur] # <<>> /\ Top.fn # "switch_to"
    BY <2>1, TopFacts
  <2> QED BY <2>1, <2>2, <1>4, <1>6, ReturnKeepsStacks
<1>15. CASE ReleaseTests
  <2>1. UNCHANGED <<threads, val, wait, at, irq>> /\ Doing("lock_release", 1)
    BY <1>15 DEF ReleaseTests
  <2>2. stack[cur] # <<>> /\ Top.fn # "switch_to" /\ Top.arg \in Lock
    BY <2>1, TopFacts DEF LockCalls
  <2>3. /\ cs' = cs \/ cs' = [cs EXCEPT ![Top.arg] = @ \ {cur}]
        /\ holder' = holder \/ holder' = [holder EXCEPT ![Top.arg] = NoTcb]
        /\ sti_condition \/ Call("sem_V", Top.arg, 2, NoTcb)
    BY <1>15 DEF ReleaseTests
  <2>4. StackInv' /\ iflag' \in [Tcb -> BOOLEAN]
    <3>1. CASE sti_condition
      BY <2>1, <2>2, <3>1, <1>4, ReturnKeepsStacks
    <3>2. CASE Call("sem_V", Top.arg, 2, NoTcb)
      BY <2>1, <2>2, <3>2, <1>4, <1>7, LockCallKeepsStacks
    <3> QED BY <2>3, <3>1, <3>2
  <2>5. cs' \in [Lock -> SUBSET Tcb] /\ holder' \in [Lock -> Tcb \cup {NoTcb}]
    BY <2>3, <1>3
  <2>6. SyncTypeOK'
    BY <2>1, <2>5, <1>3 DEF SyncTypeOK
  <2> QED BY <2>1, <2>4, <2>6, <1>5
<1>16. CASE SemVUnlinks
  <2> DEFINE u == Head(wait[Top.arg])
  <2>1. /\ UNCHANGED <<threads, val, holder, history>> /\ Doing("sem_V", 1)
        /\ Call("thread_wakeup", u, 2, u) /\ wait[Top.arg] # <<>>
        /\ wait' = [wait EXCEPT ![Top.arg] = Tail(@)]
    BY <1>16 DEF SemVUnlinks, sync_tool_is_empty, sync_tool_get
  <2>2. Top.arg \in Sem
    BY <2>1, TopFacts DEF LockCalls
  <2>3. wait[Top.arg] \in Seq(Tcb)
    BY <2>2, <1>3
  <2>4. u \in Tcb /\ Tail(wait[Top.arg]) \in Seq(Tcb)
    BY <2>1, <2>3
  <2>5. wait' \in [Sem -> Seq(Tcb)]
    BY <2>1, <2>2, <2>4, <1>3
  <2> HIDE DEF u
  <2>6. iflag[cur] \in BOOLEAN
    BY <1>1, <1>3
  <2>7. Frame("thread_wakeup", u, iflag[cur]) \in Frames
    BY <2>4, <2>6, FrameTypes
  <2>8. StackInv' /\ iflag' \in [Tcb -> BOOLEAN]
    BY <2>1, <2>4, <2>7, <1>4, CallKeepsStacks
  <2>9. SyncTypeOK'
    BY <2>1, <2>5, <1>3 DEF SyncTypeOK, history
  <2> QED BY <2>1, <2>8, <2>9, <1>5
<1>17. CASE SemVRaises
  <2>1. /\ UNCHANGED <<threads, wait, holder>>
        /\ Doing("sem_V", 1) \/ Doing("sem_V", 2)
        /\ sti_condition /\ val' = [val EXCEPT ![Top.arg] = @ + 1]
    BY <1>17 DEF SemVRaises
  <2>2. stack[cur] # <<>> /\ Top.fn # "switch_to" /\ Top.arg \in Lock /\ Top.arg \in Sem
    BY <2>1, TopFacts DEF LockCalls
  <2>3. StackInv' /\ iflag' \in [Tcb -> BOOLEAN]
    BY <2>1, <2>2, <1>4, ReturnKeepsStacks
  <2>4. /\ at' = at \/ at' = [at EXCEPT ![cur] = NoSem]
        /\ irq' = irq \/ irq' = irq \ {cur}
        /\ cs' = cs \/ cs' = [cs EXCEPT ![Top.arg] = @ \ {cur}]
    BY <1>17 DEF SemVRaises
  <2>5. val' \in [Sem -> Nat]
    BY <2>1, <2>2, <1>3
  <2>6. at' \in [Tcb -> Sem \cup {NoSem}]
    BY <2>4, <1>3
  <2>7. irq' \in SUBSET Tcb
    BY <2>4, <1>3
  <2>8. cs' \in [Lock -> SUBSET Tcb]
    BY <2>4, <1>3
  <2>9. SyncTypeOK'
    BY <2>1, <2>5, <2>6, <2>7, <2>8, <1>3 DEF SyncTypeOK
  <2> QED BY <2>1, <2>3, <2>9, <1>5
<1>18. CASE WakeupReadies
  <2>1. /\ UNCHANGED <<next, time_left, cur, live, created, cr3, esp0, val, wait, holder, history>>
        /\ Doing("thread_wakeup", 1) /\ sti_condition
        /\ status' = [status EXCEPT ![Top.arg] = "READY"]
    BY <1>18 DEF WakeupReadies
  <2>2. stack[cur] # <<>> /\ Top.fn # "switch_to" /\ Top.arg \in Tcb
    BY <2>1, TopFacts
  <2>3. StackInv' /\ iflag' \in [Tcb -> BOOLEAN]
    BY <2>1, <2>2, ReturnKeepsStacks
  <2>4. status' \in [Tcb -> Status]
    BY <2>1 DEF BaseInv, RingInv, ThreadsTypeOK, Status
  <2>5. RingInv'
    BY <2>1, <2>3, <2>4 DEF BaseInv, RingInv, ThreadsTypeOK, SingleRing
  <2>6. SyncTypeOK'
    BY <2>1, <1>3 DEF SyncTypeOK, history
  <2> QED BY <2>3, <2>5, <2>6 DEF BaseInv
<1>19. CASE BlockSwitches
  <2> DEFINE st == [status EXCEPT ![cur] = "BLOCKED"]
  <2>1. /\ Doing("thread_block", 1) /\ schedule(st) /\ Switching(2)
        /\ at' = [at EXCEPT ![cur] = Top.arg]
        /\ irq' = irq \cup {cur} \/ irq' = irq
        /\ UNCHANGED <<next, iflag, live, created, val, wait, holder, cs>>
    BY <1>19 DEF BlockSwitches
  <2>2. st \in [Tcb -> Status]
    BY DEF BaseInv, RingInv, ThreadsTypeOK, Status
  <2> HIDE DEF st
  <2>3. /\ time_left' \in [Tcb -> 0 .. TIME_CONT]
        /\ status' \in [Tcb -> Status]
        /\ cur' \in live
        /\ cr3' \in UserTask \cup {Main}
        /\ esp0' \in UserTask \cup {Main}
    BY <2>1, <2>2, <1>1, ScheduleTypes DEF BaseInv, RingInv
  <2>4. RingInv'
    BY <2>1, <2>3, <1>1 DEF BaseInv, RingInv, ThreadsTypeOK, SingleRing
  <2>5. Top.arg \in Sem
    BY <2>1, TopFacts DEF LockCalls
  <2>6. at' \in [Tcb -> Sem \cup {NoSem}] /\ irq' \in SUBSET Tcb
    BY <2>1, <2>5, <1>1, <1>3
  <2>7. SyncTypeOK'
    BY <2>1, <2>6, <1>3 DEF SyncTypeOK
  <2>8. StackInv'
    BY <2>1, <2>3, SwitchingKeepsStacks
  <2> QED BY <2>4, <2>7, <2>8 DEF BaseInv
<1>20. CASE TimerHandler
  <2>1. /\ Tick \/ SliceOver
        /\ Switching(3)
        /\ UNCHANGED <<next, iflag, live, created, svars>>
    BY <1>20 DEF TimerHandler
  <2>2. /\ time_left' \in [Tcb -> 0 .. TIME_CONT]
        /\ status' \in [Tcb -> Status]
        /\ cur' \in live
        /\ cr3' \in UserTask \cup {Main}
        /\ esp0' \in UserTask \cup {Main}
    <3>1. CASE Tick
      BY <3>1, <1>1, ThreadsAssumption DEF Tick, BaseInv, RingInv, ThreadsTypeOK
    <3>2. CASE SliceOver
      BY <3>2, <1>1, ScheduleTypes DEF SliceOver, BaseInv, RingInv, ThreadsTypeOK
    <3> QED BY <2>1, <3>1, <3>2
  <2>3. RingInv'
    BY <2>1, <2>2, <1>1 DEF BaseInv, RingInv, ThreadsTypeOK, SingleRing
  <2>4. SyncTypeOK'
    BY <2>1, <1>3 DEF SyncTypeOK, svars
  <2>5. StackInv'
    BY <2>1, <2>2, SwitchingKeepsStacks
  <2> QED BY <2>3, <2>4, <2>5 DEF BaseInv
<1>21. CASE PrintHandler
  <2>1. UNCHANGED <<threads, val, wait, holder, history>>
    BY <1>21 DEF PrintHandler, svars, history
  <2>2. CASE Call("lock_acquire", PrintkLock, 2, IF holder[PrintkLock] = cur THEN cur ELSE NoTcb)
    <3>1. (IF holder[PrintkLock] = cur THEN cur ELSE NoTcb) \in Tcb \cup {NoTcb}
      BY <1>1
    <3>2. StackInv' /\ iflag' \in [Tcb -> BOOLEAN]
      BY <2>1, <2>2, <3>1, <1>2, <1>4, <1>7, LockCallKeepsStacks
    <3> QED BY <3>2, <2>1, <1>6
  <2>3. CASE Doing("int", 2) /\ Call("lock_release", PrintkLock, 3, Top.node)
    <3>1. Top.node \in Tcb \cup {NoTcb}
      BY <2>3, TopFacts
    <3>2. StackInv' /\ iflag' \in [Tcb -> BOOLEAN]
      BY <2>1, <2>3, <3>1, <1>2, <1>4, <1>7, LockCallKeepsStacks
    <3> QED BY <3>2, <2>1, <1>6
  <2> QED BY <1>21, <2>2, <2>3 DEF PrintHandler
<1>22. CASE Iret
  <2>1. UNCHANGED <<threads, val, wait, holder, history>> /\ sti_condition /\ Doing("int", 3)
    BY <1>22 DEF Iret, svars, history, sti_condition
  <2>2. stack[cur] # <<>> /\ Top.fn # "switch_to"
    BY <2>1, TopFacts
  <2> QED BY <2>1, <2>2, <1>4, <1>6, ReturnKeepsStacks
<1>23. ASSUME NEW t \in Tcb, CreateThread(t) PROVE BaseInv' /\ StackInv'
  <2>1. RingInv' /\ SyncTypeOK'
    BY <1>3, <1>23, CreateKeepsRing DEF CreateThread, Create, svars, BaseInv, SyncTypeOK
  <2>2. /\ stack' = stack /\ stack[cur] = <<>> /\ t \in Tcb \ created
        /\ created' = created \cup {t}
        /\ iflag' = [iflag EXCEPT ![cur] = TRUE, ![t] = TRUE]
    BY <1>23 DEF CreateThread, Create, create_thread, AtBase
  <2>3. stack[t] = <<>>
    BY <2>2 DEF StackInv
  <2>4. Nests(<<>>, TRUE)
    BY DEF Nests, Clear
  <2>5. ASSUME NEW u \in Tcb PROVE Nests(stack'[u], iflag'[u])
    <3>1. CASE u \in {cur, t}
      BY <3>1, <2>2, <2>3, <2>4, <1>3
    <3>2. CASE u \notin {cur, t}
      BY <3>2, <2>2, <1>3 DEF StackInv
    <3> QED BY <3>1, <3>2
  <2>6. StackInv'
    BY <2>2, <2>5 DEF StackInv
  <2> QED BY <2>1, <2>6 DEF BaseInv
<1>24. ASSUME NEW i \in Irq, Interrupt(i) PROVE BaseInv' /\ StackInv'
  <2>1. UNCHANGED <<threads, val, wait, holder, history>> /\ Gate(32 + i) /\ iflag[cur]
    BY <1>24 DEF Interrupt, svars, history
  <2>2. 32 + i \in 0 .. 47
    BY IrqAssumption
  <2> QED BY <2>1, <2>2, <1>4, <1>6, GateKeepsStacks
<1>25. CASE PageFault
  <2>1. UNCHANGED <<threads, val, wait, holder, history>> /\ Gate(14) /\ stack[cur] = <<>>
    BY <1>25 DEF PageFault, svars, history, PageFaultVector
  <2> QED BY <2>1, <1>4, <1>6, GateKeepsStacks
<1>26. ASSUME UNCHANGED <<vars, stack>> PROVE BaseInv' /\ StackInv'
  <2>1. UNCHANGED <<threads, val, wait, holder, history>> /\ iflag' = iflag /\ stack' = stack
    BY <1>26 DEF vars, tvars, svars, threads, history
  <2>2. StackInv'
    BY <2>1, <1>4 DEF StackInv
  <2> QED BY <2>1, <2>2, <1>3, <1>6
<1>27. ASSUME NEW i \in Irq, Raise(i) PROVE BaseInv' /\ StackInv'
  BY <1>26, <1>27 DEF Raise
<1>28. CASE UNCHANGED ivars
  BY <1>26, <1>28 DEF ivars
<1> QED BY <1>8, <1>9, <1>10, <1>11, <1>12, <1>13, <1>14, <1>15, <1>16, <1>17, <1>18, <1>19,
           <1>20, <1>21, <1>22, <1>23, <1>24, <1>25, <1>27, <1>28 DEF IntNext, Proceed

(***************************************************************************)
(* The initial state: no thread is in a call or a handler.                 *)
(***************************************************************************)
LEMMA StackInit == IntInit => BaseInv /\ StackInv
<1> SUFFICES ASSUME IntInit PROVE BaseInv /\ StackInv
  OBVIOUS
<1>1. BaseInv /\ stack = [t \in Tcb |-> <<>>] /\ iflag = [t \in Tcb |-> TRUE]
  BY BaseInit DEF IntInit, SyncInit, ThreadsInit
<1>2. Nests(<<>>, TRUE)
  BY DEF Nests, Clear
<1>3. ASSUME NEW t \in Tcb PROVE stack[t] = <<>> /\ iflag[t] = TRUE
  BY <1>1
<1>4. \A t \in Tcb : Nests(stack[t], iflag[t])
  BY <1>2, <1>3
<1>5. stack \in [Tcb -> Seq(Frames)]
  BY <1>1
<1> QED BY <1>1, <1>3, <1>4, <1>5 DEF StackInv

(***************************************************************************)
(* With interrupts between any two steps that run with the flag set, the   *)
(* semaphores and locks keep their types and the threads one ring.         *)
(***************************************************************************)
THEOREM InterruptsKeepTypes == IntSpec => [](SyncTypeOK /\ SingleRing)
<1>1. BaseInv => SyncTypeOK /\ SingleRing
  BY DEF BaseInv, RingInv
<1> QED BY <1>1, StackInit, StackStep, PTL DEF IntSpec

(***************************************************************************)
(* However interrupts, page faults and switches are interleaved, and       *)
(* however long a handler is blocked, there is at most one handler on each *)
(* kernel stack: while one is there, every saved flag that a return can    *)
(* restore above it is clear.                                              *)
(***************************************************************************)
THEOREM HandlersDoNotNest == IntSpec => []OneHandlerPerStack
<1>1. StackInv => OneHandlerPerStack
  <2> SUFFICES ASSUME StackInv, NEW t \in Tcb PROVE Cardinality(Handlers(t)) <= 1
    BY DEF OneHandlerPerStack
  <2>1. stack[t] \in Seq(Frames) /\ Nests(stack[t], iflag[t])
    BY DEF StackInv
  <2>2. DOMAIN stack[t] = 1 .. Len(stack[t]) /\ Len(stack[t]) \in Nat
    BY <2>1
  <2>3. ASSUME NEW j \in Handlers(t), NEW k \in Handlers(t), j < k PROVE FALSE
    <3>1. j \in 1 .. Len(stack[t]) /\ k \in 1 .. Len(stack[t])
          /\ stack[t][j].fn = "int" /\ stack[t][k].fn = "int"
      BY <2>2 DEF Handlers
    <3>2. Clear(stack[t], k - 1)
      BY <3>1, <2>1 DEF Nests
    <3>3. j \in 1 .. (k - 1)
      BY <3>1, <2>2, <2>3
    <3> QED BY <3>1, <3>2, <3>3 DEF Clear
  <2>4. Handlers(t) \subseteq Nat
    BY <2>2 DEF Handlers
  <2>5. CASE Handlers(t) = {}
    BY <2>5, FS_EmptySet
  <2>6. CASE Handlers(t) # {}
    <3>1. PICK k \in Handlers(t) : TRUE
      BY <2>6
    <3>2. \A j \in Handlers(t) : j = k
      BY <2>3, <2>4, <3>1
    <3>3. Handlers(t) = {k}
      BY <3>1, <3>2
    <3>4. Cardinality({k}) = 1
      BY FS_Singleton
    <3> QED BY <3>3, <3>4
  <2> QED BY <2>5, <2>6
<1> QED BY <1>1, StackInit, StackStep, PTL DEF IntSpec

-----------------------------------------------------------------------------
(***************************************************************************)
(* When the timer's line is in service: from the gate of its handler to    *)
(* the EOI, which is the handler's own or, if it switched, that at the end *)
(* of switch_to in the thread that was resumed.                            *)
(***************************************************************************)
TimerHandling ==
    \/ Doing("switch_to", 1)
    \/ (Doing("int", 1) \/ Doing("int", 3)) /\ Top.arg = TimerVector

TimerInv ==
    /\ isr \subseteq 0 .. 7
    /\ 0 \in isr => TimerHandling

(***************************************************************************)
(* Every step keeps TimerInv: an EOI ends the service of highest priority, *)
(* which is the timer's, and while it lasts no other request is delivered. *)
(***************************************************************************)
LEMMA TimerStep ==
    BaseInv /\ StackInv /\ TimerInv /\ [IntNext]_ivars => TimerInv'
<1> SUFFICES ASSUME BaseInv, StackInv, TimerInv, [IntNext]_ivars PROVE TimerInv'
  OBVIOUS
<1>1. cur \in Tcb /\ stack \in [Tcb -> Seq(Frames)] /\ stack[cur] \in Seq(Frames)
  BY CurFacts DEF StackInv
<1>2. ASSUME UNCHANGED <<cur, stack, isr>> PROVE TimerInv'
  BY <1>2 DEF TimerInv, TimerHandling, Doing, Top
<1>3. ASSUME Eoi PROVE TimerInv'
  <2>1. isr' = {x \in isr : \E y \in isr : y < x} /\ isr \subseteq 0 .. 7
    BY <1>3 DEF TimerInv, Eoi, Ended
  <2>2. \A y \in isr : ~(y < 0)
    BY <2>1
  <2>3. isr' \subseteq 0 .. 7 /\ 0 \notin isr'
    BY <2>1, <2>2
  <2> QED BY <2>3 DEF TimerInv
<1>4. ASSUME ~TimerHandling, isr' = isr PROVE TimerInv'
  BY <1>4 DEF TimerInv
<1>5. ASSUME NEW fn, fn \notin {"int", "switch_to"}, NEW pc, Doing(fn, pc) PROVE ~TimerHandling
  BY <1>5 DEF TimerHandling, Doing
<1>6. ASSUME stack[cur] = <<>> PROVE ~TimerHandling
  BY <1>6 DEF TimerHandling, Doing
<1>7. ASSUME SwitchEoi \/ Iret PROVE TimerInv'
  BY <1>3, <1>7 DEF SwitchEoi, Iret
<1>8. ASSUME \/ AcquireTests \/ AcquireOwns
             \/ SemPQueues \/ SemPTakes
             \/ BlockSwitches \/ BlockReturns
             \/ ReleaseTests \/ ReleaseReturns
             \/ SemVUnlinks \/ SemVRaises \/ WakeupReadies
      PROVE  TimerInv'
  <2>1. /\ isr' = isr
        /\ \E fn \in LockCalls \cup {"thread_wakeup"}, pc \in 1 .. 2 : Doing(fn, pc)
    BY <1>8 DEF AcquireTests, AcquireOwns, SemPQueues, SemPTakes, BlockSwitches, BlockReturns,
                ReleaseTests, ReleaseReturns, SemVUnlinks, SemVRaises, WakeupReadies, LockCalls, pic
  <2> QED BY <2>1, <1>4, <1>5 DEF LockCalls
<1>9. ASSUME NEW l \in Lock, CallAcquire(l) \/ CallRelease(l) PROVE TimerInv'
  BY <1>4, <1>6, <1>9 DEF CallAcquire, CallRelease, AtBase, pic
<1>10. ASSUME NEW t \in Tcb, CreateThread(t) PROVE TimerInv'
  BY <1>4, <1>6, <1>10 DEF CreateThread, AtBase, pic
<1>11. CASE PageFault
  BY <1>4, <1>6, <1>11 DEF PageFault, pic
<1>12. CASE PrintHandler
  <2>1. isr' = isr
    BY <1>12 DEF PrintHandler, pic
  <2>2. CASE IntHandler("print")
    <3>1. Doing("int", 1) /\ int_server_func_list[Top.arg] = "print"
      BY <2>2 DEF IntHandler
    <3>2. int_server_func_list[TimerVector] = "timer"
      BY DEF int_server_func_list, TimerVector, PageFaultVector
    <3>3. ~TimerHandling
      BY <3>1, <3>2 DEF TimerHandling, Doing
    <3> QED BY <2>1, <3>3, <1>4
  <2>3. CASE Doing("int", 2)
    BY <2>1, <2>3, <1>4 DEF TimerHandling, Doing
  <2> QED BY <1>12, <2>2, <2>3 DEF PrintHandler
<1>13. CASE TimerHandler
  <2> DEFINE f == [Top EXCEPT !.pc = 3, !.node = NoTcb]
             g == Frame("switch_to", NoTcb, TRUE)
  <2>1. Doing("int", 1) /\ Switching(3) /\ isr' = isr
    BY <1>13 DEF TimerHandler, IntHandler, pic
  <2>2. stack[cur] # <<>> /\ Top \in Frames /\ Top.fn = "int" /\ cur' \in live
    <3>1. (Tick \/ SliceOver) => cur' \in live
      BY CurFacts, ScheduleTypes DEF Tick, SliceOver, BaseInv, RingInv, ThreadsTypeOK
    <3> QED BY <2>1, <3>1, <1>13, TopFacts DEF TimerHandler
  <2>3. SUFFICES ASSUME 0 \in isr PROVE TimerHandling'
    BY <2>1 DEF TimerInv
  <2>4. Top.arg = TimerVector
    BY <2>1, <2>3 DEF TimerInv, TimerHandling, Doing
  <2>5. f \in Frames /\ f.fn = "int" /\ f.pc = 3 /\ f.arg = TimerVector
    <3>1. f \in Frames
      <4>1. \A e \in Frames, pc \in 0 .. 3, node \in Tcb \cup {NoTcb} :
               [e EXCEPT !.pc = pc, !.node = node] \in Frames
        BY FrameTypes
      <4>2. 3 \in 0 .. 3 /\ NoTcb \in Tcb \cup {NoTcb}
        OBVIOUS
      <4> HIDE DEF f
      <4> QED BY <4>1, <4>2, <2>2 DEF f
    <3> QED BY <2>2, <2>4, <3>1 DEF Frames, Calls
  <2>6. g \in Frames /\ g.fn = "switch_to" /\ g.pc = 1
    BY FrameTypes DEF Frame
  <2>7. Resuming(3, NoTcb) = Append(Front(stack[cur]), f)
    BY <2>2 DEF Resuming
  <2>8. Front(stack[cur]) \in Seq(Frames) /\ cur' \in Tcb /\ stack[cur'] \in Seq(Frames)
    BY <2>2, <1>1, FrontFacts, CurFacts
  <2> HIDE DEF f, g
  <2>9. \/ cur' = cur /\ stack'[cur'] = Append(Front(stack[cur]), f)
        \/ stack'[cur'] = Append(stack[cur'], g)
    BY <2>1, <2>7, <2>8, <1>1 DEF Switching, g
  <2>10. stack'[cur'] # <<>> /\ Last(stack'[cur']) \in {f, g}
    BY <2>5, <2>6, <2>8, <2>9, LastAppend
  <2>11. (Last(stack[cur]))' \in {f, g}
    BY <2>10
  <2> QED BY <2>5, <2>6, <2>10, <2>11 DEF TimerHandling, Doing, Top
<1>14. ASSUME NEW i \in Irq, Raise(i) PROVE TimerInv'
  BY <1>2, <1>14 DEF Raise, vars, tvars
<1>15. ASSUME NEW i \in Irq, Interrupt(i) PROVE TimerInv'
  <2> DEFINE f == Frame("int", 32 + i, iflag[cur])
  <2>1. /\ isr' = isr \cup {Line(i)} /\ cur' = cur
        /\ stack' = [stack EXCEPT ![cur] = Append(@, f)]
        /\ Unblocked(i)
    BY <1>15 DEF Interrupt, Gate, threads, Deliverable
  <2>2. i \in 0 .. 15 /\ Line(i) \in 0 .. 7 /\ (Line(i) = 0 => i = 0)
    BY IrqAssumption DEF Line
  <2>3. 0 \notin isr
    BY <2>1, <2>2 DEF Unblocked
  <2>4. isr' \subseteq 0 .. 7
    BY <2>1, <2>2 DEF TimerInv
  <2>5. CASE i = 0
    <3>1. f \in Frames /\ f.fn = "int" /\ f.pc = 1 /\ f.arg = TimerVector
      <4>1. iflag[cur] \in BOOLEAN /\ 32 + i \in 0 .. 47
        BY <2>2, CurFacts DEF BaseInv, RingInv, ThreadsTypeOK
      <4>2. f \in Frames
        BY <4>1, FrameTypes
      <4> QED BY <4>2, <2>5 DEF Frame, TimerVector
    <3> HIDE DEF f
    <3>2. stack'[cur'] = Append(stack[cur], f)
      BY <2>1, <1>1
    <3>3. stack'[cur'] # <<>> /\ (Last(stack[cur]))' = f
      BY <3>1, <3>2, <1>1, LastAppend
    <3> QED BY <2>4, <3>1, <3>3 DEF TimerInv, TimerHandling, Doing, Top
  <2>6. CASE i # 0
    BY <2>1, <2>2, <2>3, <2>4, <2>6 DEF TimerInv
  <2> QED BY <2>5, <2>6
<1>16. CASE UNCHANGED ivars
  BY <1>2, <1>16 DEF ivars, vars, tvars, pic
<1> QED BY <1>7, <1>8, <1>9, <1>10, <1>11, <1>12, <1>13, <1>14, <1>15, <1>16
        DEF IntNext, Proceed

(***************************************************************************)
(* The timer can preempt whatever runs with the flag set: its line is in   *)
(* service only while its handler runs with the flag clear, or in the      *)
(* instructions of switch_to before the EOI.                               *)
(***************************************************************************)
THEOREM TimerIsNotHeldUp == IntSpec => []PreemptionOn
<1>1. IntInit => TimerInv
  BY DEF IntInit, TimerInv
<1>2. BaseInv /\ StackInv /\ TimerInv => PreemptionOn
  <2> SUFFICES ASSUME BaseInv, StackInv, TimerInv, iflag[cur], ~Doing("switch_to", 1), 0 \in isr
               PROVE  FALSE
    BY DEF PreemptionOn
  <2>1. stack[cur] # <<>> /\ Top.fn = "int"
    BY DEF TimerInv, TimerHandling, Doing
  <2>2. stack[cur] \in Seq(Frames) /\ Nests(stack[cur], iflag[cur])
    BY CurFacts DEF StackInv
  <2>3. Len(stack[cur]) \in Nat \ {0} /\ Top = stack[cur][Len(stack[cur])]
    BY <2>1, <2>2 DEF Top, Last
  <2>4. Clear(stack[cur], Len(stack[cur]))
    BY <2>2 DEF Nests
  <2> QED BY <2>1, <2>3, <2>4 DEF Clear
<1> QED BY <1>1, <1>2, StackInit, StackStep, TimerStep, PTL DEF IntSpec

-----------------------------------------------------------------------------
(***************************************************************************)
(* The frame that a call or an interrupt finds on the stack, below its own.*)
(***************************************************************************)
PrintFrame(g) == g.fn = "int" /\ g.arg # TimerVector

Bottom(f) == f.fn \in {"lock_acquire", "lock_release", "int", "switch_to"}

On(f, g) ==
    \/ f.fn = "sem_P" /\ g.fn = "lock_acquire" /\ g.pc = 2 /\ g.arg = f.arg
    \/ f.fn = "thread_block" /\ g.fn = "sem_P" /\ g.arg = f.arg
    \/ f.fn = "sem_V" /\ g.fn = "lock_release" /\ g.pc = 2 /\ g.arg = f.arg
    \/ f.fn = "thread_wakeup" /\ g.fn = "sem_V" /\ g.pc = 2 /\ g.node = f.arg
    \/ /\ f.fn = "lock_acquire" /\ f.arg = PrintkLock
       /\ PrintFrame(g) /\ g.pc = 2 /\ (f.pc = 2 => g.node = NoTcb)
    \/ f.fn = "lock_release" /\ f.arg = PrintkLock /\ PrintFrame(g) /\ g.pc = 3
    \/ f.fn = "int" /\ g.fn = "switch_to"
    \/ /\ f.fn = "switch_to"
       /\ (g.fn = "thread_block" /\ g.pc = 2) \/ (g.fn = "int" /\ g.arg = TimerVector /\ g.pc = 3)

\* What the fields of a frame on the stack of t say.
Sane(t, f) ==
    /\ f.fn = "sem_V" => (f.pc = 1 /\ f.node = NoTcb) \/ (f.pc = 2 /\ f.node \in Tcb)
    /\ f.fn \in {"lock_acquire", "lock_release"} => f.pc \in {1, 2}
    /\ f.fn = "int" => /\ f.pc \in {1, 2, 3}
                       /\ f.arg \in {PageFaultVector} \cup 32 .. 47
                       /\ f.node \in {NoTcb, t}
                       /\ f.pc = 2 => f.arg # TimerVector

\* The part of the stack where the flag is set: nothing, or a new thread's switch_to.
Open(q, n) == n = 0 \/ (n = 1 /\ q[1].fn = "switch_to")

Linked(t, q, flag) ==
    /\ \A k \in 1 .. Len(q) :
          /\ Sane(t, q[k])
          /\ IF k = 1 THEN Bottom(q[1]) ELSE On(q[k], q[k - 1])
          /\ (q[k].cond /\ q[k].fn # "switch_to") \/ q[k].fn = "int" => Open(q, k - 1)
    /\ flag => Open(q, Len(q))

\* A thread that does not run is outside, or it was switched out.
Parked(q) ==
    \/ q = <<>>
    \/ Last(q).fn = "thread_block" /\ Last(q).pc = 2
    \/ Last(q).fn = "int" /\ Last(q).arg = TimerVector /\ Last(q).pc = 3

LinkInv ==
    /\ \A t \in Tcb : Linked(t, stack[t], iflag[t])
    /\ \A t \in Tcb \ {cur} : Parked(stack[t])

\* A handler that printed without finding its thread the holder.
Printing(f) == PrintFrame(f) /\ f.pc \in {2, 3} /\ f.node = NoTcb

WaitsFor(t) ==
    IF t \in irq
    THEN at[t] = PrintkLock /\ \E k \in 1 .. Len(stack[t]) : Printing(stack[t][k])
    ELSE at[t] # NoSem => /\ stack[t] # <<>>
                          /\ stack[t][1].fn = "lock_acquire" /\ stack[t][1].pc = 2
                          /\ stack[t][1].arg = at[t]

Base(t) ==
    stack[t] # <<>> =>
        /\ stack[t][1].fn = "lock_acquire" => t \notin UserTask /\ \A l \in Lock : t \notin cs[l]
        /\ stack[t][1].fn = "lock_release" /\ (stack[t][1].pc = 1 \/ Len(stack[t]) > 1) =>
              t \notin UserTask /\ t \in cs[stack[t][1].arg]

NotMine(t) ==
    \A k \in 1 .. Len(stack[t]) :
        stack[t][k].fn = "lock_acquire" /\ stack[t][k].pc = 2 => holder[stack[t][k].arg] # t

ThreadInv == \A t \in Tcb : WaitsFor(t) /\ Base(t) /\ NotMine(t)

Under == stack[cur][Len(stack[cur]) - 1]

HandlerInv ==
    Len(stack[cur]) > 0 =>
      LET inner == Len(stack[cur]) > 1 IN
        /\ inner /\ Doing("lock_acquire", 1) =>
              Under.node = IF holder[PrintkLock] = cur THEN cur ELSE NoTcb
        /\ Doing("int", 2) \/ (inner /\ Doing("lock_release", 1)) => holder[PrintkLock] = cur
        /\ (Doing("int", 3) /\ PrintFrame(Top)) \/ (inner /\ Doing("lock_release", 2)) =>
              holder[PrintkLock] # cur /\ at[cur] = NoSem

QueueingInv ==
    /\ Doing("thread_block", 1) =>
          val[Top.arg] = 0 /\ wait[Top.arg] # <<>> /\ Last(wait[Top.arg]) = cur
    /\ Doing("sem_V", 2) => status[Top.node] = "READY"

TokenInv ==
    \A l \in Lock :
        /\ Granted(l) \/ Dropping(l) => holder[l] = NoTcb
        /\ val[l] = IF holder[l] = NoTcb /\ ~Granted(l) /\ ~Dropping(l) THEN 1 ELSE 0

-----------------------------------------------------------------------------
(***************************************************************************)
(* What a call, a return and a switch do to the stack q, which becomes r.  *)
(***************************************************************************)
Moved(f, g, pc, node) ==
    g.fn = f.fn /\ g.arg = f.arg /\ g.cond = f.cond /\ g.pc = pc /\ g.node = node

Pushed(q, r, pc, node, fn, arg, cond) ==
    /\ Len(r) = Len(q) + 1
    /\ \A k \in 1 .. (Len(q) - 1) : r[k] = q[k]
    /\ Len(q) > 0 => Moved(q[Len(q)], r[Len(q)], pc, node)
    /\ LET f == r[Len(q) + 1]
       IN  f.fn = fn /\ f.arg = arg /\ f.cond = cond /\ f.pc = 1 /\ f.node = NoTcb

Popped(q, r) ==
    /\ Len(q) > 0 /\ Len(r) = Len(q) - 1
    /\ \A k \in 1 .. (Len(q) - 1) : r[k] = q[k]

Resumed(q, r, pc) ==
    /\ Len(q) > 0 /\ Len(r) = Len(q)
    /\ \A k \in 1 .. (Len(q) - 1) : r[k] = q[k]
    /\ Moved(q[Len(q)], r[Len(q)], pc, NoTcb)

Others == \A t \in Tcb \ {cur} : stack'[t] = stack[t]

Pushes(pc, node, fn, arg) ==
    /\ cur' = cur /\ Others
    /\ Pushed(stack[cur], stack'[cur], pc, node, fn, arg, iflag[cur])
    /\ iflag' = [iflag EXCEPT ![cur] = FALSE]

Pops(flag) ==
    /\ cur' = cur /\ Others
    /\ Popped(stack[cur], stack'[cur])
    /\ iflag' = [iflag EXCEPT ![cur] = flag]

Switches(pc) ==
    /\ cur' \in Tcb /\ iflag' = iflag
    /\ Resumed(stack[cur], stack'[cur], pc)
    /\ cur' # cur => Pushed(stack[cur'], stack'[cur'], Last(stack[cur']).pc,
                            Last(stack[cur']).node, "switch_to", NoTcb, TRUE)
    /\ \A t \in Tcb \ {cur, cur'} : stack'[t] = stack[t]

(***************************************************************************)
(* The stacks and the frame on top.                                        *)
(***************************************************************************)
LEMMA StackFacts ==
    ASSUME BaseInv, StackInv
    PROVE  /\ cur \in Tcb /\ stack \in [Tcb -> Seq(Frames)] /\ iflag \in [Tcb -> BOOLEAN]
           /\ \A t \in Tcb : /\ Len(stack[t]) \in Nat
                             /\ stack[t] = <<>> <=> Len(stack[t]) = 0
                             /\ \A k \in 1 .. Len(stack[t]) : stack[t][k] \in Frames
                             /\ DOMAIN stack[t] = 1 .. Len(stack[t])
           /\ \A t \in Tcb : Last(stack[t]) = stack[t][Len(stack[t])]
           /\ Top = stack[cur][Len(stack[cur])]
BY CurFacts DEF StackInv, BaseInv, RingInv, ThreadsTypeOK, Last, Top

(***************************************************************************)
(* A frame whose pc and node are set is a frame with the other fields       *)
(* kept.                                                                    *)
(***************************************************************************)
LEMMA MovedFrame ==
    ASSUME NEW f \in Frames, NEW pc \in 0 .. 3, NEW node \in Tcb \cup {NoTcb}
    PROVE  /\ [f EXCEPT !.pc = pc, !.node = node] \in Frames
           /\ Moved(f, [f EXCEPT !.pc = pc, !.node = node], pc, node)
<1>1. [f EXCEPT !.pc = pc, !.node = node] \in Frames
  BY FrameTypes
<1>2. Moved(f, [f EXCEPT !.pc = pc, !.node = node], pc, node)
  BY DEF Moved, Frames, Calls
<1> QED BY <1>1, <1>2

(***************************************************************************)
(* The caller's frame, set to where it goes on.                            *)
(***************************************************************************)
LEMMA ResumingMoves ==
    ASSUME BaseInv, StackInv, NEW pc \in 0 .. 3, NEW node \in Tcb \cup {NoTcb},
           stack[cur] # <<>>
    PROVE  LET q == stack[cur] r == Resuming(pc, node)
           IN  /\ r \in Seq(Frames) /\ Len(r) = Len(q) /\ Len(q) \in Nat \ {0}
               /\ \A k \in 1 .. (Len(q) - 1) : r[k] = q[k]
               /\ Moved(q[Len(q)], r[Len(q)], pc, node)
<1> DEFINE q == stack[cur]
           f == [Top EXCEPT !.pc = pc, !.node = node]
<1>1. q \in Seq(Frames) /\ q # <<>> /\ Len(q) \in Nat \ {0} /\ Top = q[Len(q)] /\ Top \in Frames
  BY CurFacts DEF StackInv, Top, Last
<1>2. f \in Frames /\ Moved(Top, f, pc, node)
  <2> HIDE DEF f
  <2> QED BY <1>1, MovedFrame DEF f
<1>3. /\ Front(q) \in Seq(Frames) /\ Len(Front(q)) = Len(q) - 1
      /\ \A k \in 1 .. (Len(q) - 1) : Front(q)[k] = q[k]
  BY <1>1, FrontFacts
<1> HIDE DEF f
<1>4. Resuming(pc, node) = Append(Front(q), f)
  BY <1>1 DEF Resuming, f
<1> HIDE DEF q
<1>5. /\ Append(Front(q), f) \in Seq(Frames) /\ Len(Append(Front(q), f)) = Len(q)
      /\ \A k \in 1 .. (Len(q) - 1) : Append(Front(q), f)[k] = q[k]
      /\ Append(Front(q), f)[Len(q)] = f
  BY <1>1, <1>2, <1>3
<1> QED BY <1>1, <1>2, <1>4, <1>5 DEF q

(***************************************************************************)
(* The fields of the frame of a call.                                       *)
(***************************************************************************)
LEMMA FrameIs ==
    ASSUME NEW fn, NEW arg, NEW cond
    PROVE  LET f == Frame(fn, arg, cond)
           IN  f.fn = fn /\ f.arg = arg /\ f.cond = cond /\ f.pc = 1 /\ f.node = NoTcb
BY DEF Frame

(***************************************************************************)
(* A call pushes a frame.                                                  *)
(***************************************************************************)
LEMMA CallPushes ==
    ASSUME BaseInv, StackInv, NEW fn, NEW arg, NEW pc \in 0 .. 3, NEW node \in Tcb \cup {NoTcb},
           Frame(fn, arg, iflag[cur]) \in Frames, Call(fn, arg, pc, node), cur' = cur
    PROVE  Pushes(pc, node, fn, arg)
<1> DEFINE f == Frame(fn, arg, iflag[cur])
           q == stack[cur]
           r == Resuming(pc, node)
<1>1. cur \in Tcb /\ stack \in [Tcb -> Seq(Frames)] /\ q \in Seq(Frames) /\ Len(q) \in Nat
  BY StackFacts
<1>2. /\ stack' = [stack EXCEPT ![cur] = Append(r, f)]
      /\ iflag' = [iflag EXCEPT ![cur] = FALSE]
  BY DEF Call, cli_condition
<1>3. f \in Frames /\ f.fn = fn /\ f.arg = arg /\ f.cond = iflag[cur] /\ f.pc = 1 /\ f.node = NoTcb
  BY FrameIs
<1> HIDE DEF f
<1>4. /\ r \in Seq(Frames) /\ Len(r) = Len(q)
      /\ \A k \in 1 .. (Len(q) - 1) : r[k] = q[k]
      /\ Len(q) > 0 => Moved(q[Len(q)], r[Len(q)], pc, node)
  <2>1. CASE q = <<>>
    BY <2>1 DEF Resuming
  <2>2. CASE q # <<>>
    BY <2>2, ResumingMoves
  <2> QED BY <2>1, <2>2
<1> HIDE DEF r
<1>5. stack'[cur] = Append(r, f) /\ Others
  BY <1>1, <1>2 DEF Others
<1> HIDE DEF q
<1>6. /\ Len(Append(r, f)) = Len(q) + 1 /\ Append(r, f)[Len(q) + 1] = f
      /\ \A k \in 1 .. Len(q) : Append(r, f)[k] = r[k]
  BY <1>1, <1>3, <1>4
<1>7. Pushed(q, Append(r, f), pc, node, fn, arg, iflag[cur])
  BY <1>1, <1>3, <1>4, <1>6 DEF Pushed, Moved
<1> QED BY <1>2, <1>5, <1>7 DEF Pushes, q

(***************************************************************************)
(* A call of a function of the locks and semaphores pushes its frame.       *)
(***************************************************************************)
LEMMA LockCallPushes ==
    ASSUME BaseInv, StackInv, NEW fn \in LockCalls, NEW l \in Lock, NEW pc \in 0 .. 3,
           NEW node \in Tcb \cup {NoTcb}, Call(fn, l, pc, node), cur' = cur
    PROVE  Pushes(pc, node, fn, l)
<1>1. iflag[cur] \in BOOLEAN
  BY StackFacts
<1>2. Frame(fn, l, iflag[cur]) \in Frames
  BY <1>1, FrameTypes
<1> QED BY <1>2, CallPushes

(***************************************************************************)
(* So does an interrupt, which leaves the frame below as it is.            *)
(***************************************************************************)
LEMMA GatePushes ==
    ASSUME BaseInv, StackInv, NEW n \in 0 .. 47, Gate(n), cur' = cur
    PROVE  Pushes(Top.pc, Top.node, "int", n)
<1> DEFINE f == Frame("int", n, iflag[cur])
           q == stack[cur]
<1>1. /\ cur \in Tcb /\ stack \in [Tcb -> Seq(Frames)] /\ q \in Seq(Frames) /\ Len(q) \in Nat
      /\ iflag[cur] \in BOOLEAN /\ Top = q[Len(q)]
  BY StackFacts
<1>2. /\ stack' = [stack EXCEPT ![cur] = Append(q, f)]
      /\ iflag' = [iflag EXCEPT ![cur] = FALSE]
  BY DEF Gate
<1>3. f \in Frames /\ f.fn = "int" /\ f.arg = n /\ f.cond = iflag[cur] /\ f.pc = 1 /\ f.node = NoTcb
  <2>1. f \in Frames
    BY <1>1, FrameTypes
  <2> QED BY <2>1, FrameIs
<1> HIDE DEF f
<1>5. stack'[cur] = Append(q, f) /\ Others
  BY <1>1, <1>2 DEF Others
<1> HIDE DEF q
<1>6. /\ Len(Append(q, f)) = Len(q) + 1 /\ Append(q, f)[Len(q) + 1] = f
      /\ \A k \in 1 .. Len(q) : Append(q, f)[k] = q[k]
  BY <1>1, <1>3
<1>7. Pushed(q, Append(q, f), Top.pc, Top.node, "int", n, iflag[cur])
  BY <1>1, <1>3, <1>6 DEF Pushed, Moved
<1> QED BY <1>2, <1>5, <1>7 DEF Pushes, q

(***************************************************************************)
(* A return pops one.                                                      *)
(***************************************************************************)
LEMMA ReturnPops ==
    ASSUME BaseInv, StackInv, stack[cur] # <<>>, cur' = cur,
           stack' = [stack EXCEPT ![cur] = Front(@)], NEW flag,
           iflag' = [iflag EXCEPT ![cur] = flag]
    PROVE  Pops(flag)
<1> DEFINE q == stack[cur]
<1>1. /\ cur \in Tcb /\ stack \in [Tcb -> Seq(Frames)] /\ q \in Seq(Frames) /\ Len(q) \in Nat
      /\ q # <<>> /\ Len(q) # 0
  BY StackFacts
<1>2. stack'[cur] = Front(q) /\ Others
  BY <1>1 DEF Others
<1> HIDE DEF q
<1>3. /\ Len(Front(q)) = Len(q) - 1
      /\ \A k \in 1 .. (Len(q) - 1) : Front(q)[k] = q[k]
  BY <1>1, FrontFacts
<1>4. Popped(q, Front(q))
  BY <1>1, <1>3 DEF Popped
<1> QED BY <1>2, <1>4 DEF Pops, q

(***************************************************************************)
(* schedule moves on the frame of the thread that calls it and pushes the  *)
(* end of switch_to on the stack of the one that is resumed.               *)
(***************************************************************************)
LEMMA SwitchingSwitches ==
    ASSUME BaseInv, StackInv, NEW pc \in 0 .. 3, Switching(pc), cur' \in live, iflag' = iflag,
           stack[cur] # <<>>
    PROVE  Switches(pc)
<1> DEFINE r == Resuming(pc, NoTcb)
           f == Frame("switch_to", NoTcb, TRUE)
           q == stack[cur']
           left == [stack EXCEPT ![cur] = r]
<1>1. /\ cur \in Tcb /\ stack \in [Tcb -> Seq(Frames)] /\ cur' \in Tcb
      /\ q \in Seq(Frames) /\ Len(q) \in Nat
      /\ Last(q) = q[Len(q)]
  BY StackFacts, CurFacts
<1>2. Resumed(stack[cur], r, pc)
  BY ResumingMoves DEF Resumed
<1>3. stack' = IF cur' = cur THEN left ELSE [left EXCEPT ![cur'] = Append(@, f)]
  BY DEF Switching
<1>4. /\ f \in Frames /\ f.fn = "switch_to" /\ f.arg = NoTcb
      /\ f.cond = TRUE /\ f.pc = 1 /\ f.node = NoTcb
  <2>1. f \in Frames
    BY FrameTypes
  <2> QED BY <2>1 DEF Frame
<1> HIDE DEF r, f
<1>5. /\ stack'[cur] = r /\ (cur' # cur => stack'[cur'] = Append(q, f))
      /\ \A t \in Tcb \ {cur, cur'} : stack'[t] = stack[t]
  BY <1>1, <1>3
<1> HIDE DEF q
<1>6. /\ Len(Append(q, f)) = Len(q) + 1 /\ Append(q, f)[Len(q) + 1] = f
      /\ \A k \in 1 .. Len(q) : Append(q, f)[k] = q[k]
  BY <1>1, <1>4
<1>7. Pushed(q, Append(q, f), Last(q).pc, Last(q).node, "switch_to", NoTcb, TRUE)
  BY <1>1, <1>4, <1>6 DEF Pushed, Moved
<1> QED BY <1>1, <1>2, <1>5, <1>7 DEF Switches, q

-----------------------------------------------------------------------------
(***************************************************************************)
(* A call or an interrupt keeps the links, if the new frame is linked to   *)
(* the one below and that one still is.                                    *)
(***************************************************************************)
LEMMA PushLinks ==
    ASSUME NEW t, NEW q \in Seq(Frames), NEW r \in Seq(Frames), NEW flag \in BOOLEAN,
           Linked(t, q, flag), NEW pc, NEW node, NEW fn, NEW arg,
           Pushed(q, r, pc, node, fn, arg, flag),
           Len(q) > 0 => Sane(t, r[Len(q)]),
           Len(q) > 1 => On(r[Len(q)], q[Len(q) - 1]),
           Sane(t, r[Len(q) + 1]),
           IF Len(q) = 0 THEN Bottom(r[1]) ELSE On(r[Len(q) + 1], r[Len(q)]),
           fn = "int" => Open(q, Len(q))
    PROVE  Linked(t, r, FALSE)
<1> DEFINE n == Len(q)
<1>1. n \in Nat /\ Len(r) = n + 1
  BY DEF Pushed
<1>2. \A k \in 1 .. n : r[k].fn = q[k].fn /\ r[k].cond = q[k].cond
  BY <1>1 DEF Pushed, Moved
<1>3. ASSUME NEW k \in 1 .. n PROVE Open(q, k - 1) => Open(r, k - 1)
  BY <1>1, <1>2 DEF Open
<1>4. Open(q, n) => Open(r, n)
  BY <1>1, <1>2 DEF Open
<1>5. ASSUME NEW k \in 1 .. Len(r)
      PROVE  /\ Sane(t, r[k])
             /\ IF k = 1 THEN Bottom(r[1]) ELSE On(r[k], r[k - 1])
             /\ (r[k].cond /\ r[k].fn # "switch_to") \/ r[k].fn = "int" => Open(r, k - 1)
  <2>1. CASE k = n + 1
    <3>1. r[k].cond = flag /\ r[k].fn = fn
      BY <2>1 DEF Pushed
    <3>2. flag => Open(q, n)
      BY DEF Linked
    <3>3. k - 1 = n
      BY <1>1, <2>1
    <3>4. (r[k].cond /\ r[k].fn # "switch_to") \/ r[k].fn = "int" => Open(r, k - 1)
      BY <3>1, <3>2, <3>3, <1>4
    <3>5. IF k = 1 THEN Bottom(r[1]) ELSE On(r[k], r[k - 1])
      BY <2>1, <3>3, <1>1
    <3> QED BY <2>1, <3>4, <3>5
  <2>2. CASE k \in 1 .. n
    <3>1. /\ Sane(t, q[k])
          /\ IF k = 1 THEN Bottom(q[1]) ELSE On(q[k], q[k - 1])
          /\ (q[k].cond /\ q[k].fn # "switch_to") \/ q[k].fn = "int" => Open(q, k - 1)
      BY <2>2 DEF Linked
    <3>2. (r[k].cond /\ r[k].fn # "switch_to") \/ r[k].fn = "int" => Open(r, k - 1)
      BY <3>1, <2>2, <1>2, <1>3
    <3>3. CASE k < n
      <4>1. r[k] = q[k] /\ (k # 1 => r[k - 1] = q[k - 1])
        BY <1>1, <2>2, <3>3 DEF Pushed
      <4> QED BY <3>1, <3>2, <4>1, <1>1, <3>3, <2>2
    <3>4. CASE k = n
      <4>1. k # 1 => r[k - 1] = q[k - 1]
        BY <1>1, <2>2, <3>4 DEF Pushed
      <4>2. k = 1 => Bottom(r[1])
        BY <3>1, <1>2, <2>2 DEF Bottom
      <4> QED BY <3>2, <4>1, <4>2, <1>1, <3>4, <2>2
    <3> QED BY <2>2, <3>3, <3>4, <1>1
  <2> QED BY <1>1, <2>1, <2>2
<1> QED BY <1>5 DEF Linked

(***************************************************************************)
(* A return, or iret, leaves the rest of the stack linked, with the flag    *)
(* that the frame had found (switch_to leaves the flag alone).              *)
(***************************************************************************)
LEMMA PopLinks ==
    ASSUME NEW t, NEW q \in Seq(Frames), NEW r \in Seq(Frames), NEW flag \in BOOLEAN,
           Linked(t, q, flag), Popped(q, r)
    PROVE  /\ q[Len(q)].fn # "switch_to" => Linked(t, r, q[Len(q)].cond)
           /\ q[Len(q)].fn = "switch_to" => Linked(t, r, flag)
<1> DEFINE n == Len(q)
<1>1. n \in Nat \ {0} /\ Len(r) = n - 1 /\ \A k \in 1 .. (n - 1) : r[k] = q[k]
  BY DEF Popped
<1>2. ASSUME NEW k \in 0 .. (n - 1), Open(q, k) PROVE Open(r, k)
  BY <1>1, <1>2 DEF Open
<1>3. ASSUME NEW k \in 1 .. Len(r)
      PROVE  /\ Sane(t, r[k])
             /\ IF k = 1 THEN Bottom(r[1]) ELSE On(r[k], r[k - 1])
             /\ (r[k].cond /\ r[k].fn # "switch_to") \/ r[k].fn = "int" => Open(r, k - 1)
  <2>1. k \in 1 .. n /\ r[k] = q[k] /\ (k # 1 => r[k - 1] = q[k - 1])
        /\ k - 1 \in 0 .. (n - 1)
    BY <1>1
  <2>2. /\ Sane(t, q[k])
        /\ IF k = 1 THEN Bottom(q[1]) ELSE On(q[k], q[k - 1])
        /\ (q[k].cond /\ q[k].fn # "switch_to") \/ q[k].fn = "int" => Open(q, k - 1)
    BY <2>1 DEF Linked
  <2> QED BY <2>1, <2>2, <1>2
<1>4. ASSUME q[n].fn # "switch_to", q[n].cond PROVE Open(r, Len(r))
  <2>1. Open(q, n - 1)
    BY <1>1, <1>4 DEF Linked
  <2> QED BY <2>1, <1>1, <1>2
<1>5. ASSUME q[n].fn = "switch_to", flag PROVE Open(r, Len(r))
  <2>1. n = 1
    BY <1>1, <1>5 DEF Linked, Open
  <2> QED BY <2>1, <1>1 DEF Open
<1> QED BY <1>3, <1>4, <1>5 DEF Linked

(***************************************************************************)
(* The same with the frame on top moved on.                                *)
(***************************************************************************)
LEMMA ResumeLinks ==
    ASSUME NEW t, NEW q \in Seq(Frames), NEW r \in Seq(Frames), NEW flag \in BOOLEAN,
           Linked(t, q, flag), NEW pc, Resumed(q, r, pc),
           Sane(t, r[Len(q)]),
           Len(q) > 1 => On(r[Len(q)], q[Len(q) - 1])
    PROVE  Linked(t, r, flag)
<1> DEFINE n == Len(q)
<1>1. n \in Nat \ {0} /\ Len(r) = n /\ \A k \in 1 .. (n - 1) : r[k] = q[k]
  BY DEF Resumed
<1>2. \A k \in 1 .. n : r[k].fn = q[k].fn /\ r[k].cond = q[k].cond
  BY <1>1 DEF Resumed, Moved
<1>3. ASSUME NEW k \in 0 .. n, Open(q, k) PROVE Open(r, k)
  BY <1>1, <1>2, <1>3 DEF Open
<1>4. ASSUME NEW k \in 1 .. Len(r)
      PROVE  /\ Sane(t, r[k])
             /\ IF k = 1 THEN Bottom(r[1]) ELSE On(r[k], r[k - 1])
             /\ (r[k].cond /\ r[k].fn # "switch_to") \/ r[k].fn = "int" => Open(r, k - 1)
  <2>1. k \in 1 .. n /\ (k # 1 => r[k - 1] = q[k - 1]) /\ (k # n => r[k] = q[k])
        /\ k - 1 \in 0 .. n
    BY <1>1
  <2>2. /\ Sane(t, q[k])
        /\ IF k = 1 THEN Bottom(q[1]) ELSE On(q[k], q[k - 1])
        /\ (q[k].cond /\ q[k].fn # "switch_to") \/ q[k].fn = "int" => Open(q, k - 1)
    BY <2>1 DEF Linked
  <2>3. k = 1 => Bottom(r[1])
    BY <2>2, <1>2, <2>1 DEF Bottom
  <2>4. k # 1 => On(r[k], r[k - 1])
    BY <2>1, <2>2, <1>1
  <2>5. Sane(t, r[k])
    BY <2>1, <2>2
  <2>6. (r[k].cond /\ r[k].fn # "switch_to") \/ r[k].fn = "int" => Open(r, k - 1)
    BY <2>1, <2>2, <1>2, <1>3
  <2> QED BY <2>3, <2>4, <2>5, <2>6
<1>5. flag => Open(r, Len(r))
  BY <1>1, <1>3 DEF Linked
<1> QED BY <1>4, <1>5 DEF Linked

(***************************************************************************)
(* A parked stack under the end of switch_to.                              *)
(***************************************************************************)
LEMMA ParkedLinks ==
    ASSUME NEW t, NEW q \in Seq(Frames), NEW r \in Seq(Frames), NEW flag \in BOOLEAN,
           Linked(t, q, flag), Parked(q),
           Pushed(q, r, Last(q).pc, Last(q).node, "switch_to", NoTcb, TRUE)
    PROVE  Linked(t, r, flag)
<1> DEFINE n == Len(q)
           Link(s, k) == /\ Sane(t, s[k])
                         /\ IF k = 1 THEN Bottom(s[1]) ELSE On(s[k], s[k - 1])
                         /\ (s[k].cond /\ s[k].fn # "switch_to") \/ s[k].fn = "int" => Open(s, k - 1)
<1>1. n \in Nat /\ Len(r) = n + 1 /\ Last(q) = q[n]
  BY DEF Pushed, Last
<1>2. \A k \in 1 .. n : /\ r[k].fn = q[k].fn /\ r[k].cond = q[k].cond /\ r[k].arg = q[k].arg
                        /\ r[k].pc = q[k].pc /\ r[k].node = q[k].node
  BY <1>1 DEF Pushed, Moved
<1>3. ASSUME NEW k \in 0 .. n, Open(q, k) PROVE Open(r, k)
  BY <1>1, <1>2, <1>3 DEF Open
<1>4. ASSUME NEW k \in 1 .. n PROVE Link(r, k)
  <2>1. Link(q, k)
    BY DEF Linked
  <2>2. Sane(t, r[k])
    BY <2>1, <1>2 DEF Sane
  <2>3. k = 1 => Bottom(r[1])
    BY <2>1, <1>2 DEF Bottom
  <2>4. k # 1 => On(r[k], r[k - 1])
    <3>1. ASSUME k # 1 PROVE k - 1 \in 1 .. n
      BY <1>1, <3>1
    <3>2. k # 1 => On(q[k], q[k - 1])
      BY <2>1
    <3> QED BY <3>1, <3>2, <1>2, SMTT(30) DEF On, PrintFrame
  <2>5. (r[k].cond /\ r[k].fn # "switch_to") \/ r[k].fn = "int" => Open(r, k - 1)
    BY <2>1, <1>1, <1>2, <1>3
  <2> QED BY <2>2, <2>3, <2>4, <2>5
<1>5. Link(r, n + 1)
  <2>1. r[n + 1].fn = "switch_to" /\ (n + 1) - 1 = n
    BY <1>1 DEF Pushed
  <2>2. Sane(t, r[n + 1])
    BY <2>1 DEF Sane
  <2>3. n = 0 => Bottom(r[1])
    BY <2>1, <1>1 DEF Bottom
  <2>4. n # 0 => On(r[n + 1], r[n])
    <3>1. ASSUME n # 0 PROVE q # <<>> /\ n \in 1 .. n
      BY <1>1, <3>1
    <3> QED BY <3>1, <2>1, <1>1, <1>2 DEF On, Parked
  <2> QED BY <2>1, <2>2, <2>3, <2>4, <1>1
<1>6. ASSUME flag PROVE Open(r, Len(r))
  <2>1. Open(q, n)
    BY <1>6 DEF Linked
  <2>2. n = 0
    BY <2>1, <1>1 DEF Open, Parked
  <2> QED BY <2>2, <1>1 DEF Open, Pushed
<1>7. \A k \in 1 .. Len(r) : Link(r, k)
  BY <1>1, <1>4, <1>5
<1> QED BY <1>6, <1>7 DEF Linked

-----------------------------------------------------------------------------
(***************************************************************************)
(* The links of the frame on top.                                          *)
(***************************************************************************)
LEMMA TopLinked ==
    ASSUME BaseInv, StackInv, LinkInv, stack[cur] # <<>>
    PROVE  /\ Len(stack[cur]) \in Nat \ {0} /\ Top = stack[cur][Len(stack[cur])]
           /\ Len(stack[cur]) = 1 \/ Len(stack[cur]) > 1
           /\ Top \in Frames /\ Sane(cur, Top)
           /\ Len(stack[cur]) = 1 => Bottom(Top)
           /\ Len(stack[cur]) > 1 => On(Top, Under) /\ Under \in Frames
           /\ Top.fn = "int" => Open(stack[cur], Len(stack[cur]) - 1)
           /\ iflag[cur] => Len(stack[cur]) = 1 /\ Top.fn = "switch_to"
<1> DEFINE q == stack[cur]
           n == Len(q)
<1>1. /\ cur \in Tcb /\ n \in Nat \ {0} /\ Top = q[n]
      /\ \A k \in 1 .. n : q[k] \in Frames
  BY StackFacts
<1>2. Linked(cur, q, iflag[cur])
  BY <1>1 DEF LinkInv
<1>3. /\ Sane(cur, q[n])
      /\ IF n = 1 THEN Bottom(q[1]) ELSE On(q[n], q[n - 1])
      /\ q[n].fn = "int" => Open(q, n - 1)
  <2>1. n \in 1 .. Len(q)
    BY <1>1
  <2> HIDE DEF q, n
  <2>2. /\ Sane(cur, q[n])
        /\ IF n = 1 THEN Bottom(q[1]) ELSE On(q[n], q[n - 1])
        /\ (q[n].cond /\ q[n].fn # "switch_to") \/ q[n].fn = "int" => Open(q, n - 1)
    BY <2>1, <1>2 DEF Linked
  <2> QED BY <2>2
<1>5. iflag[cur] => Open(q, n)
  BY <1>2 DEF Linked
<1>4. n > 1 => q[n - 1] \in Frames
  BY <1>1
<1>6. n = 1 \/ n > 1
  <2> HIDE DEF n
  <2> QED BY <1>1
<1> QED BY <1>1, <1>3, <1>4, <1>5, <1>6 DEF Under, Open

(***************************************************************************)
(* A call keeps the links of all stacks.                                   *)
(***************************************************************************)
LEMMA PushKeepsLinks ==
    ASSUME BaseInv, StackInv, StackInv', LinkInv, NEW pc, NEW node, NEW fn, NEW arg,
           Pushes(pc, node, fn, arg),
           Len(stack[cur]) > 0 => Sane(cur, stack'[cur][Len(stack[cur])]),
           Len(stack[cur]) > 1 => On(stack'[cur][Len(stack[cur])], Under),
           Sane(cur, stack'[cur][Len(stack[cur]) + 1]),
           IF Len(stack[cur]) = 0 THEN Bottom(stack'[cur][1])
           ELSE On(stack'[cur][Len(stack[cur]) + 1], stack'[cur][Len(stack[cur])]),
           fn = "int" => Open(stack[cur], Len(stack[cur]))
    PROVE  LinkInv'
<1>1. /\ cur \in Tcb /\ cur' = cur /\ Others
      /\ iflag \in [Tcb -> BOOLEAN] /\ iflag' = [iflag EXCEPT ![cur] = FALSE]
      /\ stack[cur] \in Seq(Frames)
  BY StackFacts DEF Pushes
<1>2. stack'[cur] \in Seq(Frames) /\ iflag[cur] \in BOOLEAN
  BY <1>1 DEF StackInv
<1>3. Linked(cur, stack[cur], iflag[cur])
  BY <1>1 DEF LinkInv
<1>4. Pushed(stack[cur], stack'[cur], pc, node, fn, arg, iflag[cur])
  BY DEF Pushes
<1> DEFINE q == stack[cur]
           r == stack'[cur]
<1>5. /\ Len(q) > 0 => Sane(cur, r[Len(q)])
      /\ Len(q) > 1 => On(r[Len(q)], q[Len(q) - 1])
      /\ Sane(cur, r[Len(q) + 1])
      /\ IF Len(q) = 0 THEN Bottom(r[1]) ELSE On(r[Len(q) + 1], r[Len(q)])
      /\ fn = "int" => Open(q, Len(q))
  BY DEF Under
<1> HIDE DEF q, r
<1>6. Linked(cur, r, FALSE)
  BY <1>2, <1>3, <1>4, <1>5, <1>1, PushLinks DEF q, r
<1>7. ASSUME NEW t \in Tcb PROVE Linked(t, stack'[t], iflag'[t])
  <2>1. CASE t = cur
    BY <2>1, <1>1, <1>6 DEF r
  <2>2. CASE t # cur
    BY <2>2, <1>1 DEF Others, LinkInv
  <2> QED BY <2>1, <2>2
<1>8. ASSUME NEW t \in Tcb \ {cur} PROVE Parked(stack'[t])
  BY <1>1 DEF Others, LinkInv
<1> QED BY <1>1, <1>7, <1>8 DEF LinkInv

(***************************************************************************)
(* A return keeps them.                                                    *)
(***************************************************************************)
LEMMA PopKeepsLinks ==
    ASSUME BaseInv, StackInv, StackInv', LinkInv, NEW flag, Pops(flag), stack[cur] # <<>>,
           flag = IF Top.fn = "switch_to" THEN iflag[cur] ELSE Top.cond
    PROVE  LinkInv'
<1>1. /\ cur \in Tcb /\ cur' = cur /\ Others
      /\ iflag \in [Tcb -> BOOLEAN] /\ iflag' = [iflag EXCEPT ![cur] = flag]
      /\ stack[cur] \in Seq(Frames) /\ Top = stack[cur][Len(stack[cur])]
  BY StackFacts DEF Pops
<1>2. stack'[cur] \in Seq(Frames) /\ iflag[cur] \in BOOLEAN
  BY <1>1 DEF StackInv
<1>3. Linked(cur, stack[cur], iflag[cur]) /\ Popped(stack[cur], stack'[cur])
  BY <1>1 DEF LinkInv, Pops
<1>4. Linked(cur, stack'[cur], flag)
  BY <1>1, <1>2, <1>3, PopLinks
<1>5. ASSUME NEW t \in Tcb PROVE Linked(t, stack'[t], iflag'[t])
  <2>1. CASE t = cur
    BY <2>1, <1>1, <1>4
  <2>2. CASE t # cur
    BY <2>2, <1>1 DEF Others, LinkInv
  <2> QED BY <2>1, <2>2
<1>6. ASSUME NEW t \in Tcb \ {cur} PROVE Parked(stack'[t])
  BY <1>1 DEF Others, LinkInv
<1> QED BY <1>1, <1>5, <1>6 DEF LinkInv

(***************************************************************************)
(* So does a switch that leaves the caller's stack parked.                 *)
(***************************************************************************)
LEMMA SwitchKeepsLinks ==
    ASSUME BaseInv, StackInv, StackInv', LinkInv, NEW pc, Switches(pc),
           Sane(cur, stack'[cur][Len(stack[cur])]),
           Len(stack[cur]) > 1 => On(stack'[cur][Len(stack[cur])], Under),
           Parked(stack'[cur])
    PROVE  LinkInv'
<1>1. /\ cur \in Tcb /\ cur' \in Tcb /\ iflag' = iflag /\ iflag \in [Tcb -> BOOLEAN]
      /\ \A t \in Tcb : stack[t] \in Seq(Frames) /\ stack'[t] \in Seq(Frames)
      /\ \A t \in Tcb \ {cur, cur'} : stack'[t] = stack[t]
  BY StackFacts DEF Switches, StackInv
<1>2. Linked(cur, stack'[cur], iflag[cur])
  <2> DEFINE q == stack[cur]
             r == stack'[cur]
  <2>1. /\ Linked(cur, q, iflag[cur]) /\ Resumed(q, r, pc) /\ q \in Seq(Frames) /\ r \in Seq(Frames)
        /\ iflag[cur] \in BOOLEAN
        /\ Sane(cur, r[Len(q)])
        /\ Len(q) > 1 => On(r[Len(q)], q[Len(q) - 1])
    BY <1>1 DEF LinkInv, Switches, Under
  <2> HIDE DEF q, r
  <2>2. Linked(cur, r, iflag[cur])
    BY <2>1, ResumeLinks
  <2> QED BY <2>2 DEF r
<1>3. ASSUME cur' # cur PROVE Linked(cur', stack'[cur'], iflag[cur'])
  <2> DEFINE q == stack[cur']
             r == stack'[cur']
  <2>1. /\ Linked(cur', q, iflag[cur']) /\ Parked(q) /\ q \in Seq(Frames) /\ r \in Seq(Frames)
        /\ iflag[cur'] \in BOOLEAN
        /\ Pushed(q, r, Last(q).pc, Last(q).node, "switch_to", NoTcb, TRUE)
    BY <1>1, <1>3 DEF LinkInv, Switches
  <2> HIDE DEF q, r
  <2>2. Linked(cur', r, iflag[cur'])
    BY <2>1, ParkedLinks
  <2> QED BY <2>2 DEF r
<1>4. ASSUME NEW t \in Tcb PROVE Linked(t, stack'[t], iflag'[t])
  <2>1. CASE t \in {cur, cur'}
    BY <2>1, <1>1, <1>2, <1>3
  <2>2. CASE t \notin {cur, cur'}
    BY <2>2, <1>1 DEF LinkInv
  <2> QED BY <2>1, <2>2
<1>5. ASSUME NEW t \in Tcb \ {cur'} PROVE Parked(stack'[t])
  BY <1>1 DEF LinkInv
<1> QED BY <1>4, <1>5 DEF LinkInv

(***************************************************************************)
(* A return by sti_condition or iret.                                      *)
(***************************************************************************)
LEMMA StiKeepsLinks ==
    ASSUME BaseInv, StackInv, StackInv', LinkInv, stack[cur] # <<>>, Top.fn # "switch_to",
           sti_condition, cur' = cur
    PROVE  LinkInv' /\ Pops(Top.cond)
<1>1. Pops(Top.cond)
  BY ReturnPops DEF sti_condition
<1> QED BY <1>1, PopKeepsLinks

(***************************************************************************)
(* Every step keeps the links of the call stacks.  (That a handler that    *)
(* goes on to sem_P did not find its thread the holder is a part of        *)
(* HandlerInv.)                                                            *)
(***************************************************************************)
LEMMA LinkStep ==
    ASSUME BaseInv, StackInv, BaseInv', StackInv', LinkInv, HandlerInv, [IntNext]_ivars
    PROVE  LinkInv'
<1> DEFINE q == stack[cur]
           r == stack'[cur]
           n == Len(q)
<1>1. /\ cur \in Tcb /\ n \in Nat /\ (q = <<>> <=> n = 0)
      /\ NoTcb \in Tcb \cup {NoTcb} /\ PrintkLock \in Lock
  BY StackFacts, SyncAssumption
<1>2. /\ "lock_acquire" \in LockCalls /\ "lock_release" \in LockCalls /\ "sem_P" \in LockCalls
      /\ "sem_V" \in LockCalls /\ "thread_block" \in LockCalls
      /\ 1 \in 0 .. 3 /\ 2 \in 0 .. 3 /\ 3 \in 0 .. 3
  BY DEF LockCalls
<1>3. UNCHANGED threads => cur' = cur
  BY DEF threads
<1>4. CASE SwitchEoi
  <2>1. /\ Doing("switch_to", 1) /\ cur' = cur /\ stack' = [stack EXCEPT ![cur] = Front(@)]
        /\ iflag' = [iflag EXCEPT ![cur] = iflag[cur]]
    BY <1>4, StackFacts DEF SwitchEoi, vars, tvars
  <2>2. q # <<>> /\ Top.fn = "switch_to"
    BY <2>1 DEF Doing
  <2>3. Pops(iflag[cur])
    BY <2>1, <2>2, ReturnPops
  <2> QED BY <2>2, <2>3, PopKeepsLinks
<1>5. ASSUME NEW l \in Lock, CallAcquire(l) \/ CallRelease(l) PROVE LinkInv'
  <2>1. q = <<>> /\ cur' = cur
    BY <1>5, <1>3 DEF CallAcquire, CallRelease, AtBase
  <2>2. PICK fn \in {"lock_acquire", "lock_release"} : Call(fn, l, 0, NoTcb)
    BY <1>5 DEF CallAcquire, CallRelease
  <2>3. Pushes(0, NoTcb, fn, l)
    BY <1>1, <2>1, <2>2, LockCallPushes DEF LockCalls
  <2>4. r[1].fn = fn /\ r[1].pc = 1
    BY <1>1, <2>1, <2>3 DEF Pushes, Pushed
  <2>5. Sane(cur, r[1]) /\ Bottom(r[1])
    BY <2>2, <2>4 DEF Sane, Bottom
  <2> QED BY <1>1, <2>1, <2>2, <2>3, <2>5, PushKeepsLinks
<1>6. ASSUME NEW fn, NEW pc, Doing(fn, pc), fn # "switch_to", sti_condition, cur' = cur
      PROVE  LinkInv'
  <2>1. q # <<>> /\ Top.fn # "switch_to"
    BY <1>6 DEF Doing
  <2> QED BY <2>1, <1>6, StiKeepsLinks
<1>7. CASE AcquireTests
  <2>1. Doing("lock_acquire", 1) /\ cur' = cur
    BY <1>7, <1>3 DEF AcquireTests
  <2>2. CASE sti_condition
    BY <2>1, <2>2, <1>6
  <2>3. CASE holder[Top.arg] # cur /\ Call("sem_P", Top.arg, 2, NoTcb)
    <3>1. /\ q # <<>> /\ Top = q[n] /\ Top.fn = "lock_acquire" /\ Top.pc = 1 /\ Top.arg \in Lock
          /\ n > 1 => On(Top, Under)
      BY <2>1, TopFacts, TopLinked DEF Doing, LockCalls
    <3>2. Pushes(2, NoTcb, "sem_P", Top.arg)
      BY <2>1, <2>3, <3>1, <1>1, <1>2, LockCallPushes
    <3>3. /\ r[n].fn = "lock_acquire" /\ r[n].arg = Top.arg /\ r[n].pc = 2
          /\ r[n + 1].fn = "sem_P" /\ r[n + 1].arg = Top.arg
      BY <1>1, <3>1, <3>2 DEF Pushes, Pushed, Moved
    <3>4. n > 1 => Under.node = NoTcb /\ PrintFrame(Under) /\ Under.pc = 2 /\ Top.arg = PrintkLock
      BY <2>1, <2>3, <3>1 DEF HandlerInv, On
    <3>5. /\ Sane(cur, r[n]) /\ (n > 1 => On(r[n], Under)) /\ Sane(cur, r[n + 1])
          /\ On(r[n + 1], r[n])
      BY <3>3, <3>4 DEF Sane, On
    <3> QED BY <1>1, <3>1, <3>2, <3>5, PushKeepsLinks
  <2> QED BY <1>7, <2>2, <2>3 DEF AcquireTests
<1>8. CASE AcquireOwns
  BY <1>8, <1>3, <1>6 DEF AcquireOwns
<1>9. CASE SemPQueues
  <2>1. Doing("sem_P", 1) /\ cur' = cur /\ Call("thread_block", Top.arg, 1, NoTcb)
    BY <1>9, <1>3 DEF SemPQueues
  <2>2. /\ q # <<>> /\ Top = q[n] /\ Top.fn = "sem_P" /\ Top.pc = 1 /\ Top.arg \in Lock
        /\ n > 1 => On(Top, Under)
    BY <2>1, TopFacts, TopLinked DEF Doing, LockCalls
  <2>3. Pushes(1, NoTcb, "thread_block", Top.arg)
    BY <2>1, <2>2, <1>1, <1>2, LockCallPushes
  <2>4. /\ r[n].fn = "sem_P" /\ r[n].arg = Top.arg
        /\ r[n + 1].fn = "thread_block" /\ r[n + 1].arg = Top.arg
    BY <1>1, <2>2, <2>3 DEF Pushes, Pushed, Moved
  <2>5. /\ Sane(cur, r[n]) /\ (n > 1 => On(r[n], Under)) /\ Sane(cur, r[n + 1])
        /\ On(r[n + 1], r[n])
    BY <2>2, <2>4 DEF Sane, On
  <2> QED BY <1>1, <2>2, <2>3, <2>5, PushKeepsLinks
<1>10. CASE SemPTakes
  BY <1>10, <1>3, <1>6 DEF SemPTakes
<1>11. CASE BlockSwitches
  <2>1. /\ Doing("thread_block", 1) /\ Switching(2) /\ iflag' = iflag /\ cur' \in live
        /\ q # <<>> /\ Top = q[n] /\ Top.fn = "thread_block"
        /\ n > 1 => On(Top, Under)
    <3>1. schedule([status EXCEPT ![cur] = "BLOCKED"]) => cur' \in live
      BY CurFacts DEF schedule, switch_to
    <3> QED BY <3>1, <1>11, TopFacts, TopLinked DEF BlockSwitches, Doing
  <2>2. Switches(2)
    BY <2>1, SwitchingSwitches
  <2>3. /\ r[n].fn = "thread_block" /\ r[n].pc = 2 /\ r[n].arg = Top.arg /\ Len(r) = n
    BY <2>1, <2>2 DEF Switches, Resumed, Moved
  <2>4. Sane(cur, r[n]) /\ (n > 1 => On(r[n], Under))
    BY <2>1, <2>3 DEF Sane, On
  <2>5. Parked(r)
    BY <2>3 DEF Parked, Last
  <2> QED BY <2>2, <2>4, <2>5, SwitchKeepsLinks
<1>12. CASE BlockReturns \/ ReleaseReturns
  BY <1>12, <1>3, <1>6 DEF BlockReturns, ReleaseReturns
<1>13. CASE ReleaseTests
  <2>1. Doing("lock_release", 1) /\ cur' = cur
    BY <1>13, <1>3 DEF ReleaseTests
  <2>2. CASE sti_condition
    BY <2>1, <2>2, <1>6
  <2>3. CASE Call("sem_V", Top.arg, 2, NoTcb)
    <3>1. /\ q # <<>> /\ Top = q[n] /\ Top.fn = "lock_release" /\ Top.arg \in Lock
          /\ n > 1 => On(Top, Under)
      BY <2>1, TopFacts, TopLinked DEF Doing, LockCalls
    <3>2. Pushes(2, NoTcb, "sem_V", Top.arg)
      BY <2>1, <2>3, <3>1, <1>1, <1>2, LockCallPushes
    <3>3. /\ r[n].fn = "lock_release" /\ r[n].arg = Top.arg /\ r[n].pc = 2
          /\ r[n + 1].fn = "sem_V" /\ r[n + 1].arg = Top.arg
          /\ r[n + 1].pc = 1 /\ r[n + 1].node = NoTcb
      BY <1>1, <3>1, <3>2 DEF Pushes, Pushed, Moved
    <3>4. /\ Sane(cur, r[n]) /\ (n > 1 => On(r[n], Under)) /\ Sane(cur, r[n + 1])
          /\ On(r[n + 1], r[n])
      BY <3>1, <3>3 DEF Sane, On
    <3> QED BY <1>1, <3>1, <3>2, <3>4, PushKeepsLinks
  <2> QED BY <1>13, <2>2, <2>3 DEF ReleaseTests
<1>14. CASE SemVUnlinks
  <2> DEFINE u == Head(wait[Top.arg])
  <2>1. /\ Doing("sem_V", 1) /\ cur' = cur /\ Call("thread_wakeup", u, 2, u)
        /\ wait[Top.arg] # <<>>
    BY <1>14, <1>3 DEF SemVUnlinks, sync_tool_is_empty
  <2>2. /\ q # <<>> /\ Top = q[n] /\ Top.fn = "sem_V" /\ Top.arg \in Sem
        /\ n > 1 => On(Top, Under)
    BY <2>1, TopFacts, TopLinked DEF Doing, LockCalls
  <2>3. u \in Tcb
    <3>1. wait[Top.arg] \in Seq(Tcb)
      BY <2>2 DEF BaseInv, SyncTypeOK
    <3> QED BY <2>1, <3>1
  <2> HIDE DEF u
  <2>4. Frame("thread_wakeup", u, iflag[cur]) \in Frames
    BY <2>3, FrameTypes, StackFacts
  <2>5. Pushes(2, u, "thread_wakeup", u)
    BY <2>1, <2>3, <2>4, CallPushes
  <2>6. /\ r[n].fn = "sem_V" /\ r[n].arg = Top.arg /\ r[n].pc = 2 /\ r[n].node = u
        /\ r[n + 1].fn = "thread_wakeup" /\ r[n + 1].arg = u
    BY <1>1, <2>2, <2>5 DEF Pushes, Pushed, Moved
  <2>7. /\ Sane(cur, r[n]) /\ (n > 1 => On(r[n], Under)) /\ Sane(cur, r[n + 1])
        /\ On(r[n + 1], r[n])
    BY <2>2, <2>3, <2>6 DEF Sane, On
  <2> QED BY <1>1, <2>2, <2>5, <2>7, PushKeepsLinks
<1>15. CASE SemVRaises
  <2>1. sti_condition /\ cur' = cur /\ (Doing("sem_V", 1) \/ Doing("sem_V", 2))
    BY <1>15, <1>3 DEF SemVRaises
  <2> QED BY <2>1, <1>6
<1>16. CASE WakeupReadies
  BY <1>16, <1>6 DEF WakeupReadies
<1>17. CASE TimerHandler
  <2>1. /\ Doing("int", 1) /\ int_server_func_list[Top.arg] = "timer"
        /\ Switching(3) /\ iflag' = iflag /\ cur' \in live
        /\ q # <<>> /\ Top = q[n] /\ Top.fn = "int" /\ Sane(cur, Top)
        /\ n > 1 => On(Top, Under)
    <3>1. Tick \/ SliceOver => cur' \in live
      BY CurFacts DEF Tick, SliceOver, schedule, switch_to
    <3> QED BY <3>1, <1>17, TopFacts, TopLinked DEF TimerHandler, IntHandler, Doing
  <2>2. Top.arg = TimerVector
    BY <2>1 DEF Sane, int_server_func_list
  <2>3. Switches(3)
    BY <2>1, SwitchingSwitches
  <2>4. /\ r[n].fn = "int" /\ r[n].pc = 3 /\ r[n].arg = TimerVector /\ r[n].node = NoTcb /\ Len(r) = n
    BY <2>1, <2>2, <2>3 DEF Switches, Resumed, Moved
  <2>5. Sane(cur, r[n]) /\ (n > 1 => On(r[n], Under))
    BY <2>1, <2>2, <2>4 DEF Sane, On
  <2>6. Parked(r)
    BY <2>4 DEF Parked, Last
  <2> QED BY <2>3, <2>5, <2>6, SwitchKeepsLinks
<1>18. CASE PrintHandler
  <2>1. /\ cur' = cur /\ q # <<>> /\ Top = q[n] /\ Top.fn = "int" /\ Sane(cur, Top)
        /\ n > 1 => On(Top, Under)
    BY <1>18, <1>3, TopLinked DEF PrintHandler, IntHandler, Doing
  <2>2. CASE /\ IntHandler("print")
             /\ Call("lock_acquire", PrintkLock, 2, IF holder[PrintkLock] = cur THEN cur ELSE NoTcb)
    <3> DEFINE x == IF holder[PrintkLock] = cur THEN cur ELSE NoTcb
    <3>1. x \in Tcb \cup {NoTcb} /\ x \in {NoTcb, cur}
      BY <1>1
    <3> HIDE DEF x
    <3>2. Top.arg # TimerVector
      BY <2>2 DEF IntHandler, int_server_func_list, TimerVector
    <3>3. Pushes(2, x, "lock_acquire", PrintkLock)
      BY <2>1, <2>2, <3>1, <1>1, <1>2, LockCallPushes DEF x
    <3>4. /\ r[n].fn = "int" /\ r[n].arg = Top.arg /\ r[n].pc = 2 /\ r[n].node = x
          /\ r[n + 1].fn = "lock_acquire" /\ r[n + 1].arg = PrintkLock /\ r[n + 1].pc = 1
      BY <1>1, <2>1, <3>3 DEF Pushes, Pushed, Moved
    <3>5. /\ Sane(cur, r[n]) /\ (n > 1 => On(r[n], Under)) /\ Sane(cur, r[n + 1])
          /\ On(r[n + 1], r[n])
      BY <2>1, <3>1, <3>2, <3>4 DEF Sane, On, PrintFrame
    <3> QED BY <1>1, <2>1, <3>3, <3>5, PushKeepsLinks
  <2>3. CASE Doing("int", 2) /\ Call("lock_release", PrintkLock, 3, Top.node)
    <3>1. Top.node \in {NoTcb, cur} /\ Top.arg # TimerVector /\ Top.node \in Tcb \cup {NoTcb}
      BY <2>1, <2>3, <1>1 DEF Sane, Doing
    <3>2. Pushes(3, Top.node, "lock_release", PrintkLock)
      BY <2>1, <2>3, <3>1, <1>1, <1>2, LockCallPushes
    <3>3. /\ r[n].fn = "int" /\ r[n].arg = Top.arg /\ r[n].pc = 3 /\ r[n].node = Top.node
          /\ r[n + 1].fn = "lock_release" /\ r[n + 1].arg = PrintkLock /\ r[n + 1].pc = 1
      BY <1>1, <2>1, <3>2 DEF Pushes, Pushed, Moved
    <3>4. /\ Sane(cur, r[n]) /\ (n > 1 => On(r[n], Under)) /\ Sane(cur, r[n + 1])
          /\ On(r[n + 1], r[n])
      BY <2>1, <3>1, <3>3 DEF Sane, On, PrintFrame
    <3> QED BY <1>1, <2>1, <3>2, <3>4, PushKeepsLinks
  <2> QED BY <1>18, <2>2, <2>3 DEF PrintHandler
<1>19. CASE Iret
  <2>1. Doing("int", 3) /\ sti_condition /\ cur' = cur
    BY <1>19, <1>3 DEF Iret, sti_condition
  <2> QED BY <2>1, <1>6
<1>20. ASSUME NEW t \in Tcb, CreateThread(t) PROVE LinkInv'
  <2>1. /\ q = <<>> /\ stack' = stack /\ cur' = cur /\ t \notin created
        /\ iflag' = [iflag EXCEPT ![cur] = TRUE, ![t] = TRUE]
    BY <1>20 DEF CreateThread, AtBase, Create, create_thread
  <2>2. stack[t] = <<>> /\ iflag \in [Tcb -> BOOLEAN]
    BY <2>1, StackFacts DEF StackInv
  <2>3. \A u \in Tcb : Linked(u, <<>>, TRUE)
    BY DEF Linked, Open
  <2>4. ASSUME NEW u \in Tcb PROVE Linked(u, stack'[u], iflag'[u])
    <3>1. CASE u \in {cur, t}
      BY <3>1, <2>1, <2>2, <2>3
    <3>2. CASE u \notin {cur, t}
      BY <3>2, <2>1, <2>2 DEF LinkInv
    <3> QED BY <3>1, <3>2
  <2> QED BY <2>1, <2>4 DEF LinkInv
<1>21. ASSUME NEW m \in {PageFaultVector} \cup 32 .. 47, Gate(m), Open(q, n), cur' = cur
       PROVE  LinkInv'
  <2>1. m \in 0 .. 47
    BY DEF PageFaultVector
  <2>2. Pushes(Top.pc, Top.node, "int", m)
    BY <2>1, <1>21, GatePushes
  <2>3. (n = 0 \/ n = 1) /\ (n = 1 => q[n].fn = "switch_to") /\ ~(n > 1)
    <3>1. n = 0 \/ (n = 1 /\ q[1].fn = "switch_to")
      BY <1>21 DEF Open
    <3> HIDE DEF n
    <3> QED BY <3>1
  <2>4. /\ r[n + 1].fn = "int" /\ r[n + 1].arg = m /\ r[n + 1].pc = 1 /\ r[n + 1].node = NoTcb
        /\ n = 1 => r[n].fn = "switch_to"
    <3>1. Pushed(q, r, Top.pc, Top.node, "int", m, iflag[cur])
      BY <2>2 DEF Pushes
    <3>2. r[n + 1].fn = "int" /\ r[n + 1].arg = m /\ r[n + 1].pc = 1 /\ r[n + 1].node = NoTcb
      BY <3>1 DEF Pushed
    <3>3. n = 1 => r[n].fn = q[n].fn
      BY <3>1, <1>1 DEF Pushed, Moved
    <3> QED BY <2>3, <3>2, <3>3
  <2>5. /\ n > 0 => Sane(cur, r[n])
        /\ Sane(cur, r[n + 1])
        /\ IF n = 0 THEN Bottom(r[1]) ELSE On(r[n + 1], r[n])
    BY <1>1, <2>3, <2>4, <1>21 DEF Sane, On, Bottom
  <2> HIDE DEF q, r, n
  <2> QED BY <1>21, <2>2, <2>3, <2>5, PushKeepsLinks DEF q, r, n
<1>22. ASSUME NEW i \in Irq, Interrupt(i) PROVE LinkInv'
  <2>1. Gate(32 + i) /\ iflag[cur] /\ cur' = cur /\ 32 + i \in 32 .. 47
    BY <1>22, <1>3, IrqAssumption DEF Interrupt
  <2>2. Open(q, n)
    BY <2>1, <1>1 DEF LinkInv, Linked
  <2> QED BY <2>1, <2>2, <1>21
<1>23. CASE PageFault
  BY <1>23, <1>1, <1>3, <1>21 DEF PageFault, Open
<1>24. ASSUME UNCHANGED <<cur, iflag, stack>> PROVE LinkInv'
  BY <1>24 DEF LinkInv
<1>25. ASSUME NEW i \in Irq, Raise(i) PROVE LinkInv'
  BY <1>24, <1>25 DEF Raise, vars, tvars
<1>26. CASE UNCHANGED ivars
  BY <1>24, <1>26 DEF ivars, vars, tvars
<1> QED BY <1>4, <1>5, <1>7, <1>8, <1>9, <1>10, <1>11, <1>12, <1>13, <1>14, <1>15, <1>16,
           <1>17, <1>18, <1>19, <1>20, <1>22, <1>23, <1>25, <1>26 DEF IntNext, Proceed

-----------------------------------------------------------------------------
(***************************************************************************)
(* Where handlers, sem_V and the functions on locks can be on a stack.     *)
(***************************************************************************)
LEMMA Places ==
    ASSUME NEW t, NEW q \in Seq(Frames), NEW flag, Linked(t, q, flag)
    PROVE  /\ \A k \in 1 .. Len(q) : q[k].fn = "int" => k = 1 \/ (k = 2 /\ q[1].fn = "switch_to")
           /\ \A k \in 1 .. Len(q) :
                 q[k].fn = "sem_V" =>
                     k = Len(q) \/ (k = Len(q) - 1 /\ q[Len(q)].fn = "thread_wakeup")
           /\ \A k \in 1 .. Len(q) :
                 q[k].fn \in {"lock_acquire", "lock_release"} => k = 1 \/ PrintFrame(q[k - 1])
           /\ \A k \in 1 .. Len(q) : k = 1 \/ On(q[k], q[k - 1])
           /\ Len(q) > 0 => Bottom(q[1])
<1>1. Len(q) \in Nat
  OBVIOUS
<1>2. \A k \in 1 .. Len(q) : k = 1 \/ On(q[k], q[k - 1])
  BY DEF Linked
<1>3. \A k \in 1 .. Len(q) : q[k].fn = "int" => k = 1 \/ (k = 2 /\ q[1].fn = "switch_to")
  BY <1>1 DEF Linked, Open
<1>4. ASSUME NEW k \in 1 .. Len(q), q[k].fn = "sem_V"
      PROVE  k = Len(q) \/ (k = Len(q) - 1 /\ q[Len(q)].fn = "thread_wakeup")
  <2>1. ASSUME k < Len(q) PROVE k + 1 \in 1 .. Len(q) /\ q[k + 1].fn = "thread_wakeup"
    <3>1. k + 1 \in 1 .. Len(q) /\ k + 1 # 1 /\ (k + 1) - 1 = k
      BY <1>1, <2>1
    <3>2. On(q[k + 1], q[k])
      BY <3>1, <1>2
    <3> QED BY <3>1, <3>2, <1>4 DEF On, PrintFrame
  <2>2. ASSUME k + 1 < Len(q), q[k + 1].fn = "thread_wakeup" PROVE FALSE
    <3>1. k + 2 \in 1 .. Len(q) /\ k + 2 # 1 /\ (k + 2) - 1 = k + 1
      BY <1>1, <2>2
    <3>2. On(q[k + 2], q[k + 1])
      BY <3>1, <1>2
    <3> QED BY <3>1, <3>2, <2>2 DEF On, PrintFrame
  <2> QED BY <1>1, <2>1, <2>2
<1>5. \A k \in 1 .. Len(q) :
         q[k].fn \in {"lock_acquire", "lock_release"} => k = 1 \/ PrintFrame(q[k - 1])
  BY <1>2 DEF On
<1>6. Len(q) > 0 => Bottom(q[1])
  BY <1>1 DEF Linked
<1> QED BY <1>2, <1>3, <1>4, <1>5, <1>6

(***************************************************************************)
(* How deep the stack is tells whether a function was called in a handler. *)
(***************************************************************************)
HandlerDepth ==
    stack[cur] # <<>> =>
        /\ Top.fn \in {"lock_acquire", "lock_release"} =>
              (InHandler <=> Len(stack[cur]) > 1)
        /\ Top.fn \in {"sem_P", "sem_V"} =>
              Len(stack[cur]) > 1 /\ (InHandler <=> Len(stack[cur]) > 2)
        /\ Top.fn \in {"thread_block", "thread_wakeup"} =>
              Len(stack[cur]) > 2 /\ (InHandler <=> Len(stack[cur]) > 3)

(***************************************************************************)
(* Where the frames of a lock operation are shows whether a handler makes   *)
(* it.                                                                      *)
(***************************************************************************)
LEMMA DepthIs == BaseInv /\ StackInv /\ LinkInv => HandlerDepth
<1> SUFFICES ASSUME BaseInv, StackInv, LinkInv, stack[cur] # <<>>
             PROVE  /\ Top.fn \in {"lock_acquire", "lock_release"} =>
                          (InHandler <=> Len(stack[cur]) > 1)
                    /\ Top.fn \in {"sem_P", "sem_V"} =>
                          Len(stack[cur]) > 1 /\ (InHandler <=> Len(stack[cur]) > 2)
                    /\ Top.fn \in {"thread_block", "thread_wakeup"} =>
                          Len(stack[cur]) > 2 /\ (InHandler <=> Len(stack[cur]) > 3)
  BY DEF HandlerDepth
<1> DEFINE q == stack[cur]
           n == Len(q)
<1>1. /\ cur \in Tcb /\ n \in Nat \ {0} /\ Top = q[n] /\ q \in Seq(Frames)
      /\ InHandler <=> \E k \in 1 .. n : q[k].fn = "int"
      /\ Linked(cur, q, iflag[cur])
  BY StackFacts DEF InHandler, Handlers, LinkInv
<1> HIDE DEF q, n
<1>2. /\ \A k \in 1 .. n : q[k].fn = "int" => k = 1 \/ (k = 2 /\ q[1].fn = "switch_to")
      /\ \A k \in 1 .. n :
            q[k].fn \in {"lock_acquire", "lock_release"} => k = 1 \/ PrintFrame(q[k - 1])
      /\ \A k \in 1 .. n : k = 1 \/ On(q[k], q[k - 1])
      /\ Bottom(q[1])
  <2>1. n > 0
    BY <1>1
  <2> QED BY <1>1, <2>1, Places DEF n
<1>3. ASSUME NEW k \in 1 .. n, q[k].fn \in {"lock_acquire", "lock_release"}
      PROVE  (\E j \in 1 .. n : q[j].fn = "int") <=> k > 1
  <2>1. CASE k = 1
    <3>1. q[1].fn \notin {"int", "switch_to"}
      BY <2>1, <1>3
    <3> QED BY <2>1, <3>1, <1>2
  <2>2. CASE k > 1
    <3>1. k - 1 \in 1 .. n /\ q[k - 1].fn = "int"
      BY <2>2, <1>1, <1>2, <1>3, SMTT(30) DEF PrintFrame
    <3> QED BY <2>2, <3>1
  <2> QED BY <2>1, <2>2, <1>1
<1>4. ASSUME NEW k \in 1 .. n, q[k].fn \in {"sem_P", "sem_V"}
      PROVE  k > 1 /\ ((\E j \in 1 .. n : q[j].fn = "int") <=> k > 2)
  <2>1. k # 1
    BY <1>2, <1>4 DEF Bottom
  <2>2. k - 1 \in 1 .. n /\ q[k - 1].fn \in {"lock_acquire", "lock_release"}
    BY <1>1, <1>2, <1>4, <2>1 DEF On
  <2>3. (\E j \in 1 .. n : q[j].fn = "int") <=> k - 1 > 1
    BY <2>2, <1>3
  <2> QED BY <2>1, <2>3, <1>1
<1>5. ASSUME NEW k \in 1 .. n, q[k].fn \in {"thread_block", "thread_wakeup"}
      PROVE  k > 2 /\ ((\E j \in 1 .. n : q[j].fn = "int") <=> k > 3)
  <2>1. k # 1
    BY <1>2, <1>5 DEF Bottom
  <2>2. k - 1 \in 1 .. n /\ q[k - 1].fn \in {"sem_P", "sem_V"}
    BY <1>1, <1>2, <1>5, <2>1 DEF On
  <2>3. k - 1 > 1 /\ ((\E j \in 1 .. n : q[j].fn = "int") <=> k - 1 > 2)
    BY <2>2, <1>4
  <2> QED BY <2>1, <2>3, <1>1
<1>6. n \in 1 .. n
  BY <1>1
<1>7. /\ Top.fn \in {"lock_acquire", "lock_release"} => (InHandler <=> n > 1)
      /\ Top.fn \in {"sem_P", "sem_V"} => n > 1 /\ (InHandler <=> n > 2)
      /\ Top.fn \in {"thread_block", "thread_wakeup"} => n > 2 /\ (InHandler <=> n > 3)
  BY <1>1, <1>3, <1>4, <1>5, <1>6
<1> QED BY <1>7 DEF n, q

(***************************************************************************)
(* sem_V is on top, or just below thread_wakeup.                           *)
(***************************************************************************)
DroppingTop ==
    \A l \in Sem :
        /\ Dropping(l) <=> /\ stack[cur] # <<>>
                           /\ \/ Top.fn = "sem_V" /\ Top.arg = l
                              \/ Top.fn = "thread_wakeup" /\ Under.arg = l
        /\ stack[cur] = <<>> => PostFrames(l) = {}
        /\ stack[cur] # <<>> =>
              /\ Top.fn \notin {"sem_V", "thread_wakeup"} => PostFrames(l) = {}
              /\ Top.fn = "sem_V" =>
                    PostFrames(l) = IF Top.arg = l THEN {Len(stack[cur])} ELSE {}
              /\ Top.fn = "thread_wakeup" =>
                    PostFrames(l) = IF Under.arg = l THEN {Len(stack[cur]) - 1} ELSE {}

(***************************************************************************)
(* sem_V is at the top of the stack, or below thread_wakeup, and nowhere    *)
(* else.                                                                    *)
(***************************************************************************)
LEMMA DroppingIs == BaseInv /\ StackInv /\ LinkInv => DroppingTop
<1> SUFFICES ASSUME BaseInv, StackInv, LinkInv, NEW l \in Sem
             PROVE  /\ stack[cur] = <<>> => PostFrames(l) = {}
                    /\ stack[cur] # <<>> =>
                         /\ Top.fn \notin {"sem_V", "thread_wakeup"} => PostFrames(l) = {}
                         /\ Top.fn = "sem_V" =>
                               PostFrames(l) = IF Top.arg = l THEN {Len(stack[cur])} ELSE {}
                         /\ Top.fn = "thread_wakeup" =>
                               PostFrames(l) = IF Under.arg = l THEN {Len(stack[cur]) - 1} ELSE {}
  BY DEF DroppingTop, Dropping
<1> DEFINE q == stack[cur]
           n == Len(q)
<1>1. /\ cur \in Tcb /\ n \in Nat /\ (q = <<>> <=> n = 0) /\ Top = q[n] /\ q \in Seq(Frames)
      /\ PostFrames(l) = {k \in 1 .. n : q[k].fn = "sem_V" /\ q[k].arg = l}
      /\ Linked(cur, q, iflag[cur]) /\ Under = q[n - 1]
  BY StackFacts DEF PostFrames, LinkInv, Under
<1> HIDE DEF q, n
<1>2. /\ \A k \in 1 .. n :
            q[k].fn = "sem_V" => k = n \/ (k = n - 1 /\ q[n].fn = "thread_wakeup")
      /\ \A k \in 1 .. n : k = 1 \/ On(q[k], q[k - 1])
      /\ n > 0 => Bottom(q[1])
  BY <1>1, Places DEF n
<1>3. CASE n = 0
  BY <1>1, <1>3 DEF q
<1>4. CASE n # 0
  <2>1. Top.fn \notin {"sem_V", "thread_wakeup"} => PostFrames(l) = {}
    BY <1>1, <1>2
  <2>2. Top.fn = "sem_V" => PostFrames(l) = IF Top.arg = l THEN {n} ELSE {}
    BY <1>1, <1>2, <1>4
  <2>3. ASSUME Top.fn = "thread_wakeup"
        PROVE  PostFrames(l) = IF Under.arg = l THEN {n - 1} ELSE {}
    <3>1. n \in 1 .. n /\ n # 1
      BY <1>1, <1>2, <1>4, <2>3 DEF Bottom
    <3>2. n - 1 \in 1 .. n /\ q[n - 1].fn = "sem_V"
      BY <1>1, <1>2, <2>3, <3>1 DEF On
    <3> QED BY <1>1, <1>2, <1>4, <2>3, <3>2
  <2>4. q # <<>>
    BY <1>1, <1>4
  <2> QED BY <2>1, <2>2, <2>3, <2>4 DEF q, n
<1> QED BY <1>3, <1>4

-----------------------------------------------------------------------------
(***************************************************************************)
(* The frames on top after a call, and after a return.                     *)
(***************************************************************************)
LEMMA PushTop ==
    ASSUME BaseInv, StackInv, BaseInv', StackInv', NEW pc, NEW node, NEW fn, NEW arg,
           Pushes(pc, node, fn, arg)
    PROVE  /\ cur' = cur /\ stack'[cur] # <<>> /\ Len(stack'[cur]) = Len(stack[cur]) + 1
           /\ Top'.fn = fn /\ Top'.arg = arg /\ Top'.pc = 1 /\ Top'.node = NoTcb
           /\ stack[cur] # <<>> => Moved(Top, Under', pc, node)
<1> DEFINE q == stack[cur]
           r == stack'[cur]
<1>1. /\ cur \in Tcb /\ cur' = cur /\ q \in Seq(Frames) /\ r \in Seq(Frames)
      /\ Top = q[Len(q)] /\ Len(q) \in Nat /\ (q = <<>> <=> Len(q) = 0)
  BY StackFacts DEF Pushes, StackInv
<1>2. Top' = Last(r) /\ Under' = r[Len(r) - 1]
  BY <1>1 DEF Top, Under
<1>3. Pushed(q, r, pc, node, fn, arg, iflag[cur])
  BY DEF Pushes
<1> HIDE DEF q, r
<1>4. /\ Len(r) = Len(q) + 1
      /\ Len(q) > 0 => Moved(q[Len(q)], r[Len(q)], pc, node)
      /\ r[Len(q) + 1].fn = fn /\ r[Len(q) + 1].arg = arg
      /\ r[Len(q) + 1].pc = 1 /\ r[Len(q) + 1].node = NoTcb
  BY <1>3 DEF Pushed
<1>5. Last(r) = r[Len(q) + 1] /\ r[Len(r) - 1] = r[Len(q)] /\ r # <<>>
  BY <1>1, <1>4 DEF Last
<1>6. Top'.fn = fn /\ Top'.arg = arg /\ Top'.pc = 1 /\ Top'.node = NoTcb
  BY <1>2, <1>4, <1>5
<1>7. q # <<>> => Moved(Top, Under', pc, node)
  BY <1>1, <1>2, <1>4, <1>5
<1> QED BY <1>1, <1>4, <1>5, <1>6, <1>7 DEF q, r

(***************************************************************************)
(* What is at the top of the stack after a return.                          *)
(***************************************************************************)
LEMMA PopTop ==
    ASSUME BaseInv, StackInv, BaseInv', StackInv', stack[cur] # <<>>, NEW flag, Pops(flag)
    PROVE  /\ cur' = cur /\ Len(stack'[cur]) = Len(stack[cur]) - 1
           /\ Len(stack[cur]) \in Nat \ {0}
           /\ Len(stack[cur]) = 1 => stack'[cur] = <<>>
           /\ Len(stack[cur]) > 1 => stack'[cur] # <<>> /\ Top' = Under
           /\ Len(stack[cur]) > 2 => Under' = stack[cur][Len(stack[cur]) - 2]
<1> DEFINE q == stack[cur]
           r == stack'[cur]
<1>1. /\ cur \in Tcb /\ cur' = cur /\ q \in Seq(Frames) /\ r \in Seq(Frames)
      /\ Len(q) \in Nat \ {0} /\ Under = q[Len(q) - 1]
  BY StackFacts DEF Pops, StackInv, Under
<1>2. Top' = Last(r) /\ Under' = r[Len(r) - 1]
  BY <1>1 DEF Top, Under
<1>3. Popped(q, r)
  BY DEF Pops
<1> HIDE DEF q, r
<1>4. Len(r) = Len(q) - 1 /\ \A k \in 1 .. (Len(q) - 1) : r[k] = q[k]
  BY <1>3 DEF Popped
<1>5. Len(q) = 1 => r = <<>>
  BY <1>1, <1>4
<1>6. Len(q) > 1 => r # <<>> /\ Last(r) = q[Len(q) - 1]
  BY <1>1, <1>4 DEF Last
<1>7. Len(q) > 2 => r[Len(r) - 1] = q[Len(q) - 2]
  BY <1>1, <1>4
<1> QED BY <1>1, <1>2, <1>4, <1>5, <1>6, <1>7 DEF q, r

(***************************************************************************)
(* What a step leaves as it is for a thread that it does not concern.      *)
(***************************************************************************)
ThreadOK(t) == WaitsFor(t) /\ Base(t) /\ NotMine(t)

(***************************************************************************)
(* A thread whose stack, semaphore, critical sections and locks stay keeps  *)
(* what is said of it.                                                      *)
(***************************************************************************)
LEMMA OtherKept ==
    ASSUME BaseInv, StackInv, ThreadInv, NEW t \in Tcb, stack'[t] = stack[t],
           at'[t] = at[t], t \in irq' <=> t \in irq,
           \A l \in Lock : t \in cs'[l] <=> t \in cs[l],
           \A l \in Lock : holder'[l] = t => holder[l] = t
    PROVE  ThreadOK(t)'
<1>1. ThreadOK(t)
  BY DEF ThreadInv, ThreadOK
<1>2. /\ \A k \in 1 .. Len(stack[t]) : stack[t][k] \in Frames
      /\ Len(stack[t]) \in Nat /\ (stack[t] # <<>> => Len(stack[t]) > 0)
  BY StackFacts
<1>3. \A k \in 1 .. Len(stack[t]) :
         stack[t][k].fn \in {"lock_acquire", "lock_release"} => stack[t][k].arg \in Lock
  BY <1>2, FrameFields DEF LockCalls
<1>4. WaitsFor(t)'
  BY <1>1 DEF ThreadOK, WaitsFor
<1>5. Base(t)'
  <2>1. stack[t] # <<>> => 1 \in 1 .. Len(stack[t])
    BY <1>2
  <2> QED BY <1>1, <1>3, <2>1 DEF ThreadOK, Base
<1>6. NotMine(t)'
  BY <1>1, <1>3 DEF ThreadOK, NotMine
<1> QED BY <1>4, <1>5, <1>6 DEF ThreadOK

(***************************************************************************)
(* A call made by the running thread.                                      *)
(***************************************************************************)
LEMMA PushKeepsThread ==
    ASSUME BaseInv, StackInv, StackInv', LinkInv, ThreadInv,
           NEW pc, NEW node, NEW fn, NEW arg, Pushes(pc, node, fn, arg),
           UNCHANGED <<at, cs, irq>>, \A l \in Lock : holder'[l] = cur => holder[l] = cur,
           stack[cur] # <<>> =>
               /\ Printing(Top) => pc = 3 /\ node = NoTcb
               /\ Top.fn = "lock_acquire" => pc = 2 /\ holder[Top.arg] # cur
               /\ Top.fn = "lock_release" => Top.pc = 1,
           stack[cur] = <<>> =>
               /\ fn = "lock_acquire" => cur \notin UserTask /\ \A l \in Lock : cur \notin cs[l]
               /\ fn = "lock_release" => cur \notin UserTask /\ cur \in cs[arg]
    PROVE  ThreadOK(cur)'
<1> DEFINE q == stack[cur]
           r == stack'[cur]
           n == Len(q)
<1>1. /\ cur \in Tcb /\ cur' = cur /\ Top = q[n] /\ n \in Nat /\ (q = <<>> <=> n = 0)
      /\ \A k \in 1 .. n : q[k] \in Frames
      /\ WaitsFor(cur) /\ Base(cur) /\ NotMine(cur)
  BY StackFacts DEF Pushes, ThreadInv
<1>2. /\ Len(r) = n + 1 /\ (\A k \in 1 .. (n - 1) : r[k] = q[k])
      /\ n > 0 => Moved(q[n], r[n], pc, node)
      /\ r[n + 1].fn = fn /\ r[n + 1].arg = arg /\ r[n + 1].pc = 1 /\ r[n + 1].node = NoTcb
  BY DEF Pushes, Pushed
<1>3. \A k \in 1 .. n : q[k].fn = "lock_acquire" => q[k].arg \in Lock
  BY <1>1, FrameFields DEF LockCalls
<1>4. r # <<>>
  BY <1>1, <1>2
<1>5. WaitsFor(cur)'
  <2>1. ASSUME NEW k \in 1 .. n, Printing(q[k]) PROVE k \in 1 .. Len(r) /\ Printing(r[k])
    <3>1. CASE k = n
      <4>1. pc = 3 /\ node = NoTcb /\ n > 0
        BY <1>1, <2>1, <3>1
      <4> QED BY <1>1, <1>2, <2>1, <3>1, <4>1 DEF Printing, PrintFrame, Moved
    <3>2. CASE k # n
      BY <1>1, <1>2, <2>1, <3>2
    <3> QED BY <3>1, <3>2
  <2>2. CASE cur \in irq
    <3>1. at[cur] = PrintkLock /\ \E k \in 1 .. n : Printing(q[k])
      BY <2>2, <1>1 DEF WaitsFor
    <3>2. \E k \in 1 .. Len(r) : Printing(r[k])
      BY <3>1, <2>1
    <3> QED BY <2>2, <3>1, <3>2, <1>1 DEF WaitsFor
  <2>3. CASE cur \notin irq
    <3>1. ASSUME at[cur] # NoSem
          PROVE  r[1].fn = "lock_acquire" /\ r[1].pc = 2 /\ r[1].arg = at[cur]
      <4>1. q # <<>> /\ q[1].fn = "lock_acquire" /\ q[1].pc = 2 /\ q[1].arg = at[cur]
        BY <2>3, <3>1, <1>1 DEF WaitsFor
      <4>2. CASE n = 1
        BY <4>1, <4>2, <1>1, <1>2 DEF Moved
      <4>3. CASE n > 1
        BY <4>1, <4>3, <1>1, <1>2
      <4>4. n = 1 \/ n > 1
        <5>1. n \in Nat /\ n # 0
          BY <1>1, <4>1
        <5> HIDE DEF n
        <5> QED BY <5>1
      <4> QED BY <4>2, <4>3, <4>4
    <3> QED BY <2>3, <3>1, <1>1, <1>4 DEF WaitsFor
  <2> QED BY <2>2, <2>3
<1>6. Base(cur)'
  <2>1. CASE n = 0
    <3>1. r[1].fn = fn /\ r[1].arg = arg
      BY <2>1, <1>2
    <3> QED BY <2>1, <3>1, <1>1 DEF Base
  <2>2. CASE n > 0
    <3>1. r[1].fn = q[1].fn /\ r[1].arg = q[1].arg
      <4>1. CASE n = 1
        BY <4>1, <1>2 DEF Moved
      <4>2. CASE n > 1
        BY <4>2, <1>1, <1>2
      <4>3. n = 1 \/ n > 1
        <5>1. n \in Nat
          BY <1>1
        <5> HIDE DEF n
        <5> QED BY <2>2, <5>1
      <4> QED BY <4>1, <4>2, <4>3
    <3>2. q[1].fn = "lock_release" => q[1].pc = 1 \/ n > 1
      BY <2>2, <1>1
    <3> QED BY <2>2, <3>1, <3>2, <1>1 DEF Base
  <2> QED BY <2>1, <2>2, <1>1
<1>7. NotMine(cur)'
  <2>1. ASSUME NEW k \in 1 .. Len(r), r[k].fn = "lock_acquire", r[k].pc = 2
        PROVE  holder'[r[k].arg] # cur
    <3>1. CASE k = n + 1
      BY <3>1, <2>1, <1>2
    <3>2. CASE k = n
      <4>1. n > 0 /\ q[n].fn = "lock_acquire" /\ r[n].arg = q[n].arg
        BY <3>2, <2>1, <1>1, <1>2 DEF Moved
      <4>2. holder[q[n].arg] # cur /\ q[n].arg \in Lock
        BY <4>1, <1>1, <1>3
      <4> QED BY <3>2, <4>1, <4>2
    <3>3. CASE k < n
      <4>1. r[k] = q[k] /\ k \in 1 .. n
        BY <3>3, <1>1, <1>2
      <4>2. holder[q[k].arg] # cur /\ q[k].arg \in Lock
        BY <4>1, <2>1, <1>1, <1>3 DEF NotMine
      <4> QED BY <4>1, <4>2
    <3> QED BY <3>1, <3>2, <3>3, <1>1, <1>2
  <2> QED BY <2>1, <1>1 DEF NotMine
<1> QED BY <1>5, <1>6, <1>7 DEF ThreadOK

(***************************************************************************)
(* A return to a caller.                                                   *)
(***************************************************************************)
LEMMA PopKeepsThread ==
    ASSUME BaseInv, StackInv, StackInv', LinkInv, ThreadInv, stack[cur] # <<>>,
           NEW flag, Pops(flag),
           \/ /\ UNCHANGED <<at, irq>> /\ ~Printing(Top)
              /\ ~(Top.fn = "lock_acquire" /\ Top.pc = 2 /\ Len(stack[cur]) = 1)
           \/ at'[cur] = NoSem /\ cur \notin irq',
           \/ cs' = cs
           \/ Len(stack[cur]) = 1
           \/ Len(stack[cur]) = 2 /\ Under.fn = "lock_release" /\ Under.pc = 2,
           \A l \in Lock : holder'[l] = cur => \/ holder[l] = cur
                                               \/ Top.fn = "lock_acquire" /\ Top.arg = l
    PROVE  ThreadOK(cur)'
<1> DEFINE q == stack[cur]
           r == stack'[cur]
           n == Len(q)
<1>1. /\ cur \in Tcb /\ cur' = cur /\ Top = q[n] /\ n \in Nat \ {0} /\ q \in Seq(Frames)
      /\ \A k \in 1 .. n : q[k] \in Frames
      /\ WaitsFor(cur) /\ Base(cur) /\ NotMine(cur)
      /\ Under = q[n - 1]
  BY StackFacts DEF Pops, ThreadInv, Under
<1>2. Len(r) = n - 1 /\ (\A k \in 1 .. (n - 1) : r[k] = q[k])
  BY DEF Pops, Popped
<1>3. \A k \in 1 .. n : q[k].fn = "lock_acquire" => q[k].arg \in Lock
  BY <1>1, FrameFields DEF LockCalls
<1>4. r \in Seq(Frames) /\ (r = <<>> <=> n = 1)
  <2>1. r \in Seq(Frames)
    BY <1>1 DEF StackInv
  <2>2. n \in Nat \ {0} /\ Len(r) = n - 1
    BY <1>1, <1>2
  <2> HIDE DEF r, n
  <2> QED BY <2>1, <2>2
<1>5. WaitsFor(cur)'
  <2>1. CASE at'[cur] = NoSem /\ cur \notin irq'
    BY <2>1, <1>1 DEF WaitsFor
  <2>2. CASE /\ UNCHANGED <<at, irq>> /\ ~Printing(Top)
             /\ ~(Top.fn = "lock_acquire" /\ Top.pc = 2 /\ n = 1)
    <3>1. CASE cur \in irq
      <4>1. at[cur] = PrintkLock /\ \E k \in 1 .. n : Printing(q[k])
        BY <3>1, <1>1 DEF WaitsFor
      <4>2. PICK k \in 1 .. n : Printing(q[k])
        BY <4>1
      <4>3. k # n
        BY <4>2, <2>2, <1>1
      <4>4. k \in 1 .. Len(r) /\ r[k] = q[k]
        BY <4>3, <1>1, <1>2
      <4>5. \E j \in 1 .. Len(r) : Printing(r[j])
        BY <4>2, <4>4
      <4> QED BY <2>2, <3>1, <4>1, <4>5, <1>1 DEF WaitsFor
    <3>2. CASE cur \notin irq
      <4>1. ASSUME at[cur] # NoSem
            PROVE  r # <<>> /\ r[1].fn = "lock_acquire" /\ r[1].pc = 2 /\ r[1].arg = at[cur]
        <5>1. q[1].fn = "lock_acquire" /\ q[1].pc = 2 /\ q[1].arg = at[cur]
          BY <3>2, <4>1, <1>1 DEF WaitsFor
        <5>2. n # 1
          BY <5>1, <2>2, <1>1
        <5> QED BY <5>1, <5>2, <1>1, <1>2, <1>4
      <4> QED BY <2>2, <3>2, <4>1, <1>1 DEF WaitsFor
    <3> QED BY <3>1, <3>2
  <2> QED BY <2>1, <2>2
<1>6. Base(cur)'
  <2>1. CASE n = 1
    BY <2>1, <1>1, <1>4 DEF Base
  <2>2. CASE n > 1
    <3>1. r[1] = q[1] /\ q # <<>>
      BY <2>2, <1>1, <1>2
    <3>2. CASE cs' = cs
      BY <2>2, <3>1, <3>2, <1>1, <1>2 DEF Base
    <3>3. CASE n = 2 /\ Under.fn = "lock_release" /\ Under.pc = 2
      <4>1. Len(r) = 1 /\ r[1].fn = "lock_release" /\ r[1].pc = 2
        BY <3>1, <3>3, <1>1, <1>2
      <4>2. r[1].fn # "lock_acquire" /\ ~(r[1].pc = 1 \/ Len(r) > 1)
        BY <4>1
      <4> QED BY <4>2, <1>1 DEF Base
    <3>4. n # 1
      <4> HIDE DEF n
      <4> QED BY <2>2
    <3>5. \/ cs' = cs
          \/ n = 1
          \/ n = 2 /\ Under.fn = "lock_release" /\ Under.pc = 2
      OBVIOUS
    <3> QED BY <3>2, <3>3, <3>4, <3>5
  <2>3. n = 1 \/ n > 1
    <3>1. n \in Nat \ {0}
      BY <1>1
    <3> HIDE DEF n
    <3> QED BY <3>1
  <2> QED BY <2>1, <2>2, <2>3
<1>7. NotMine(cur)'
  <2>1. ASSUME NEW k \in 1 .. Len(r), r[k].fn = "lock_acquire", r[k].pc = 2
        PROVE  holder'[r[k].arg] # cur
    <3>1. r[k] = q[k] /\ k \in 1 .. n /\ k < n
      BY <1>1, <1>2
    <3>2. holder[q[k].arg] # cur /\ q[k].arg \in Lock
      BY <3>1, <2>1, <1>1, <1>3 DEF NotMine
    <3>3. Top.fn # "lock_acquire"
      <4> SUFFICES ASSUME Top.fn = "lock_acquire" PROVE FALSE
        OBVIOUS
      <4>1. Linked(cur, q, iflag[cur])
        BY <1>1 DEF LinkInv
      <4>2. /\ \A j \in 1 .. n : q[j].fn = "int" => j = 1 \/ (j = 2 /\ q[1].fn = "switch_to")
            /\ \A j \in 1 .. n :
                  q[j].fn \in {"lock_acquire", "lock_release"} => j = 1 \/ PrintFrame(q[j - 1])
        BY <4>1, <1>1, Places
      <4>3. n \in 1 .. n /\ n - 1 \in 1 .. n /\ q[n].fn = "lock_acquire"
        BY <3>1, <1>1
      <4>4. q[n - 1].fn = "int"
        BY <4>2, <4>3, <3>1, <1>1 DEF PrintFrame
      <4>5. n = 2 \/ (n = 3 /\ q[1].fn = "switch_to")
        <5>1. n - 1 = 1 \/ (n - 1 = 2 /\ q[1].fn = "switch_to")
          BY <4>2, <4>3, <4>4
        <5>2. n \in Nat
          BY <1>1
        <5> HIDE DEF n
        <5> QED BY <5>1, <5>2
      <4>6. k = 1 \/ k = 2
        BY <4>5, <3>1, <1>1
      <4>7. q[k].fn \in {"int", "switch_to"}
        BY <4>4, <4>5, <4>6, <3>1, <1>1
      <4> QED BY <4>7, <3>1, <2>1
    <3> QED BY <3>1, <3>2, <3>3
  <2> QED BY <2>1, <1>1 DEF NotMine
<1> QED BY <1>5, <1>6, <1>7 DEF ThreadOK

-----------------------------------------------------------------------------
(***************************************************************************)
(* The token of a lock is neither in the value nor with a holder while     *)
(* lock_acquire has it from sem_P and sem_V has not raised the value yet.  *)
(***************************************************************************)
Taken(l) == Granted(l) \/ Dropping(l)

TakenTop ==
    \A l \in Sem :
        Taken(l) <=> /\ stack[cur] # <<>>
                     /\ \/ Top.fn = "lock_acquire" /\ Top.pc = 2 /\ Top.arg = l
                        \/ Top.fn = "sem_V" /\ Top.arg = l
                        \/ Top.fn = "thread_wakeup" /\ Under.arg = l

(***************************************************************************)
(* The token of a lock is on its way exactly when the top of the stack      *)
(* says so.                                                                 *)
(***************************************************************************)
LEMMA TakenIs == BaseInv /\ StackInv /\ LinkInv => TakenTop
BY DroppingIs DEF TakenTop, Taken, DroppingTop, Granted, Doing

(***************************************************************************)
(* The ways in which the token of a lock moves: it stays, it goes to a      *)
(* holder, it leaves one, it is put back, it is taken.                      *)
(***************************************************************************)
LEMMA TokenStep ==
    ASSUME TokenInv, NEW l \in Lock,
           \/ (Taken(l)' <=> Taken(l)) /\ holder'[l] = holder[l] /\ val'[l] = val[l]
           \/ Taken(l) /\ ~Taken(l)' /\ holder'[l] \in Tcb /\ val'[l] = val[l]
           \/ ~Taken(l) /\ Taken(l)' /\ holder[l] \in Tcb /\ holder'[l] = NoTcb /\ val'[l] = val[l]
           \/ Taken(l) /\ ~Taken(l)' /\ holder'[l] = holder[l] /\ val'[l] = val[l] + 1
           \/ ~Taken(l) /\ Taken(l)' /\ holder'[l] = holder[l] /\ val[l] # 0 /\ val'[l] = val[l] - 1
    PROVE  /\ Taken(l)' => holder'[l] = NoTcb
           /\ val'[l] = IF holder'[l] = NoTcb /\ ~Taken(l)' THEN 1 ELSE 0
<1>1. /\ Taken(l) => holder[l] = NoTcb
      /\ val[l] = IF holder[l] = NoTcb /\ ~Taken(l) THEN 1 ELSE 0
  BY DEF TokenInv, Taken
<1>2. NoTcb \notin Tcb
  BY SyncAssumption
<1> QED BY <1>1, <1>2

(***************************************************************************)
(* Places where HandlerInv and QueueingInv claim nothing.                  *)
(***************************************************************************)
Idle ==
    \/ stack[cur] = <<>>
    \/ Top.fn \in {"sem_P", "switch_to"}
    \/ Top.fn = "thread_block" /\ Top.pc = 2
    \/ Top.fn = "int" /\ Top.pc # 2 /\ ~(Top.pc = 3 /\ Top.arg # TimerVector)
    \/ Len(stack[cur]) = 1 /\ Top.fn = "lock_acquire" /\ Top.pc = 1
    \/ Len(stack[cur]) = 1 /\ Top.fn = "lock_release"

IdleTakes == HandlerInv /\ QueueingInv /\ \A l \in Sem : ~Taken(l)

(***************************************************************************)
(* In an idle place nothing is claimed of the handler or the queues, and    *)
(* no token is on its way.                                                  *)
(***************************************************************************)
LEMMA IdleIs == BaseInv /\ StackInv /\ LinkInv /\ Idle => IdleTakes
<1> SUFFICES ASSUME BaseInv, StackInv, LinkInv, Idle PROVE IdleTakes
  OBVIOUS
<1>1. TakenTop
  BY TakenIs
<1>2. \A l \in Sem : ~Taken(l)
  BY <1>1 DEF Idle, TakenTop
<1>3. QueueingInv
  BY DEF Idle, QueueingInv, Doing
<1>4. HandlerInv
  <2>1. Len(stack[cur]) = 1 => ~(Len(stack[cur]) > 1)
    OBVIOUS
  <2>2. Len(stack[cur]) > 0 => stack[cur] # <<>>
    OBVIOUS
  <2> QED BY <2>1, <2>2 DEF Idle, HandlerInv, Doing, PrintFrame
<1> QED BY <1>2, <1>3, <1>4 DEF IdleTakes

(***************************************************************************)
(* Only the running thread's own state changes.                            *)
(***************************************************************************)
CurOnly ==
    /\ cur' = cur /\ Others
    /\ \A t \in Tcb \ {cur} :
          /\ at'[t] = at[t]
          /\ t \in irq' <=> t \in irq
          /\ \A l \in Lock : t \in cs'[l] <=> t \in cs[l]
          /\ \A l \in Lock : holder'[l] = t => holder[l] = t

(***************************************************************************)
(* A step that concerns the running thread only has to keep what is said    *)
(* of that thread.                                                          *)
(***************************************************************************)
LEMMA CurOnlyKeeps ==
    ASSUME BaseInv, StackInv, ThreadInv, CurOnly, ThreadOK(cur)'
    PROVE  ThreadInv'
<1>1. ASSUME NEW t \in Tcb PROVE ThreadOK(t)'
  <2>1. CASE t = cur
    BY <2>1 DEF CurOnly
  <2>2. CASE t # cur
    BY <2>2, OtherKept DEF CurOnly, Others
  <2> QED BY <2>1, <2>2
<1>2. (\A t \in Tcb : ThreadOK(t))'
  BY <1>1
<1> QED BY <1>2 DEF ThreadInv, ThreadOK

(***************************************************************************)
(* What the functions may do to the history variables, the holders and the *)
(* value and queue.                                                        *)
(***************************************************************************)
LEMMA CurOnlyWhen ==
    ASSUME BaseInv, Others, cur' = cur,
           at' = at \/ at' = [at EXCEPT ![cur] = NoSem],
           irq' = irq \/ irq' = irq \ {cur},
           cs' = cs \/ (\E l \in Lock : cs' = [cs EXCEPT ![l] = @ \cup {cur}])
                    \/ (\E l \in Lock : cs' = [cs EXCEPT ![l] = @ \ {cur}]),
           holder' = holder \/ (\E l \in Lock, x \in {cur, NoTcb} : holder' = [holder EXCEPT ![l] = x])
    PROVE  CurOnly
<1>1. /\ cur \in Tcb /\ NoTcb \notin Tcb
      /\ holder \in [Lock -> Tcb \cup {NoTcb}]
      /\ at \in [Tcb -> Sem \cup {NoSem}]
      /\ cs \in [Lock -> SUBSET Tcb]
  BY CurFacts, SyncAssumption DEF BaseInv, SyncTypeOK
<1>2. \A t \in Tcb \ {cur} : at'[t] = at[t] /\ (t \in irq' <=> t \in irq)
  BY <1>1
<1>3. \A t \in Tcb \ {cur}, l \in Lock : t \in cs'[l] <=> t \in cs[l]
  BY <1>1
<1>4. \A t \in Tcb \ {cur}, l \in Lock : holder'[l] = t => holder[l] = t
  BY <1>1
<1> QED BY <1>2, <1>3, <1>4 DEF CurOnly

-----------------------------------------------------------------------------
(***************************************************************************)
(* What holds between any two instructions, besides the invariants of Sync *)
(* in the coarse picture.                                                  *)
(***************************************************************************)
TopInv == HandlerInv /\ QueueingInv /\ TokenInv

CallInv == BaseInv /\ StackInv /\ LinkInv /\ ThreadInv /\ TopInv

(***************************************************************************)
(* Facts for the proofs about single steps.                                *)
(***************************************************************************)
LEMMA StepFacts ==
    ASSUME CallInv, BaseInv', StackInv', LinkInv'
    PROVE  /\ TakenTop /\ TakenTop' /\ HandlerDepth
           /\ Idle => IdleTakes
           /\ Idle' => IdleTakes'
           /\ cur \in Tcb /\ Lock \subseteq Sem /\ PrintkLock \in Lock /\ NoTcb \notin Tcb
           /\ NoSem \notin Sem
           /\ val \in [Sem -> Nat] /\ wait \in [Sem -> Seq(Tcb)]
           /\ holder \in [Lock -> Tcb \cup {NoTcb}]
           /\ at \in [Tcb -> Sem \cup {NoSem}]
           /\ cs \in [Lock -> SUBSET Tcb] /\ irq \subseteq Tcb
           /\ "lock_acquire" \in LockCalls /\ "lock_release" \in LockCalls
           /\ "sem_P" \in LockCalls /\ "sem_V" \in LockCalls /\ "thread_block" \in LockCalls
           /\ 0 \in 0 .. 3 /\ 1 \in 0 .. 3 /\ 2 \in 0 .. 3 /\ 3 \in 0 .. 3
           /\ NoTcb \in Tcb \cup {NoTcb}
<1>1. TakenTop /\ HandlerDepth /\ (Idle => IdleTakes)
  BY TakenIs, DepthIs, IdleIs DEF CallInv
<1>2. TakenTop'
  BY TakenIs, PTL
<1>3. Idle' => IdleTakes'
  BY IdleIs, PTL
<1> QED BY <1>1, <1>2, <1>3, CurFacts, SyncAssumption
        DEF CallInv, BaseInv, SyncTypeOK, Sem, LockCalls

(***************************************************************************)
(* TokenInv, lock by lock.                                                  *)
(***************************************************************************)
LEMMA TokenFrom ==
    ASSUME \A l \in Lock : /\ Taken(l)' => holder'[l] = NoTcb
                           /\ val'[l] = IF holder'[l] = NoTcb /\ ~Taken(l)' THEN 1 ELSE 0
    PROVE  TokenInv'
BY DEF TokenInv, Taken

(***************************************************************************)
(* A step into an idle place, with no token on its way, keeps what is said  *)
(* of the top of the stack.                                                 *)
(***************************************************************************)
LEMMA IdleKeepsTop ==
    ASSUME CallInv, BaseInv', StackInv', LinkInv', Idle', UNCHANGED <<val, holder>>,
           \A l \in Lock : ~Taken(l)
    PROVE  TopInv'
<1>1. IdleTakes' /\ Lock \subseteq Sem
  BY StepFacts
<1>2. HandlerInv' /\ QueueingInv' /\ \A l \in Lock : ~Taken(l)'
  BY <1>1 DEF IdleTakes
<1>3. TokenInv'
  <2>1. ASSUME NEW l \in Lock
        PROVE  /\ Taken(l)' => holder'[l] = NoTcb
               /\ val'[l] = IF holder'[l] = NoTcb /\ ~Taken(l)' THEN 1 ELSE 0
    BY <1>2, TokenStep DEF CallInv, TopInv
  <2> QED BY <2>1, TokenFrom
<1> QED BY <1>2, <1>3 DEF TopInv

(***************************************************************************)
(* One lemma for each step of the functions.                               *)
(***************************************************************************)
LEMMA SwitchEoiKeeps ==
    ASSUME CallInv, BaseInv', StackInv', LinkInv', SwitchEoi
    PROVE  ThreadInv' /\ TopInv'
<1>1. /\ Doing("switch_to", 1) /\ cur' = cur /\ stack' = [stack EXCEPT ![cur] = Front(@)]
      /\ iflag' = [iflag EXCEPT ![cur] = iflag[cur]]
      /\ UNCHANGED <<at, cs, irq, holder, val>>
  BY StackFacts DEF SwitchEoi, vars, tvars, svars, CallInv
<1>2. /\ stack[cur] # <<>> /\ Top.fn = "switch_to"
      /\ Len(stack[cur]) = 1 \/ Len(stack[cur]) > 1
      /\ Len(stack[cur]) > 1 => On(Top, Under)
  BY <1>1, TopLinked DEF CallInv, Doing
<1>3. Pops(iflag[cur])
  BY <1>1, <1>2, ReturnPops DEF CallInv
<1>4. Idle'
  <2>1. Len(stack[cur]) = 1 => stack'[cur'] = <<>>
    BY <1>2, <1>3, PopTop DEF CallInv
  <2>2. Len(stack[cur]) > 1 => Top' = Under
    BY <1>2, <1>3, PopTop DEF CallInv
  <2> QED BY <1>2, <2>1, <2>2 DEF Idle, On
<1>5. TopInv'
  <2>1. \A l \in Lock : ~Taken(l)
    BY <1>2, StepFacts DEF TakenTop
  <2> QED BY <1>1, <1>4, <2>1, IdleKeepsTop
<1>6. ThreadOK(cur)'
  BY <1>1, <1>2, <1>3, PopKeepsThread DEF CallInv, Printing, PrintFrame
<1>7. CurOnly
  BY <1>1, <1>3, CurOnlyWhen DEF CallInv, Pops
<1> QED BY <1>5, <1>6, <1>7, CurOnlyKeeps DEF CallInv

(***************************************************************************)
(* lock_acquire and lock_release are called outside all operations.         *)
(***************************************************************************)
LEMMA LockCallKeeps ==
    ASSUME CallInv, BaseInv', StackInv', LinkInv', NEW l \in Lock, CallAcquire(l) \/ CallRelease(l)
    PROVE  ThreadInv' /\ TopInv'
<1>1. /\ stack[cur] = <<>> /\ cur \notin UserTask /\ cur' = cur
      /\ UNCHANGED <<at, cs, irq, holder, val>>
  BY DEF CallAcquire, CallRelease, AtBase, threads, history
<1>2. PICK fn \in {"lock_acquire", "lock_release"} :
         /\ Call(fn, l, 0, NoTcb)
         /\ fn = "lock_acquire" => \A k \in Lock : cur \notin cs[k]
         /\ fn = "lock_release" => cur \in cs[l]
  BY DEF CallAcquire, CallRelease, InCriticalSection
<1>3. Pushes(0, NoTcb, fn, l)
  BY <1>1, <1>2, StepFacts, LockCallPushes DEF CallInv
<1>4. Idle'
  <2>1. Len(stack[cur]) = 0
    BY <1>1
  <2>2. Top'.fn = fn /\ Top'.pc = 1 /\ Len(stack'[cur']) = 1
    BY <1>3, <2>1, PushTop DEF CallInv
  <2> QED BY <1>2, <2>2 DEF Idle
<1>5. TopInv'
  <2>1. \A k \in Lock : ~Taken(k)
    BY <1>1, StepFacts DEF TakenTop
  <2> QED BY <1>1, <1>4, <2>1, IdleKeepsTop
<1>6. ThreadOK(cur)'
  BY <1>1, <1>2, <1>3, PushKeepsThread DEF CallInv
<1>7. CurOnly
  BY <1>1, <1>3, CurOnlyWhen DEF CallInv, Pushes
<1> QED BY <1>5, <1>6, <1>7, CurOnlyKeeps DEF CallInv

(***************************************************************************)
(* lock_acquire returns to the holder, and otherwise calls sem_P.           *)
(***************************************************************************)
LEMMA AcquireTestsKeeps ==
    ASSUME CallInv, BaseInv', StackInv', LinkInv', AcquireTests
    PROVE  ThreadInv' /\ TopInv'
<1> DEFINE n == Len(stack[cur])
<1>1. Doing("lock_acquire", 1) /\ cur' = cur /\ UNCHANGED <<at, cs, irq, holder, val>>
  BY DEF AcquireTests, threads, history
<1>2. /\ stack[cur] # <<>> /\ Top.fn = "lock_acquire" /\ Top.pc = 1 /\ (n = 1 \/ n > 1)
      /\ n > 1 => On(Top, Under)
      /\ Top.arg \in Lock
  BY <1>1, TopLinked, TopFacts DEF CallInv, Doing, LockCalls
<1>3. \A l \in Lock : ~Taken(l)
  BY <1>2, StepFacts DEF TakenTop
<1>4. CASE holder[Top.arg] = cur /\ sti_condition
  <2>1. Pops(Top.cond)
    BY <1>1, <1>2, <1>4, ReturnPops DEF CallInv, sti_condition
  <2>2. ThreadOK(cur)'
    BY <1>1, <1>2, <2>1, PopKeepsThread DEF CallInv, Printing, PrintFrame
  <2>3. CurOnly
    BY <1>1, <2>1, CurOnlyWhen DEF CallInv, Pops
  <2>4. CASE n = 1
    <3>1. Idle'
      BY <1>2, <2>1, <2>4, PopTop DEF CallInv, Idle
    <3>2. TopInv'
      BY <1>1, <1>3, <3>1, IdleKeepsTop
    <3> QED BY <2>2, <2>3, <3>2, CurOnlyKeeps DEF CallInv
  <2>5. CASE n > 1
    <3>1. /\ Top' = Under /\ stack'[cur'] # <<>>
      BY <1>2, <2>1, <2>5, PopTop DEF CallInv
    <3>2. Under.fn = "int" /\ Under.pc = 2 /\ Top.arg = PrintkLock
      BY <1>2, <2>5 DEF On, PrintFrame
    <3>3. HandlerInv' /\ QueueingInv'
      BY <1>1, <1>4, <3>1, <3>2 DEF HandlerInv, QueueingInv, Doing
    <3>4. \A l \in Lock : ~Taken(l)'
      BY <3>1, <3>2, StepFacts DEF TakenTop
    <3>5. TokenInv'
      BY <1>1, <1>3, <3>4, TokenStep, TokenFrom DEF CallInv, TopInv
    <3> QED BY <2>2, <2>3, <3>3, <3>5, CurOnlyKeeps DEF CallInv, TopInv
  <2> QED BY <1>2, <2>4, <2>5
<1>5. CASE holder[Top.arg] # cur /\ Call("sem_P", Top.arg, 2, NoTcb)
  <2>1. Pushes(2, NoTcb, "sem_P", Top.arg)
    BY <1>1, <1>2, <1>5, StepFacts, LockCallPushes DEF CallInv
  <2>2. ThreadOK(cur)'
    BY <1>1, <1>2, <1>5, <2>1, PushKeepsThread DEF CallInv, Printing, PrintFrame
  <2>3. CurOnly
    BY <1>1, <2>1, CurOnlyWhen DEF CallInv, Pushes
  <2>4. Idle'
    BY <2>1, PushTop DEF CallInv, Idle
  <2>5. TopInv'
    BY <1>1, <1>3, <2>4, IdleKeepsTop
  <2> QED BY <2>2, <2>3, <2>5, CurOnlyKeeps DEF CallInv
<1> QED BY <1>4, <1>5 DEF AcquireTests

(***************************************************************************)
(* The frame of the function that goes on.                                 *)
(***************************************************************************)
LEMMA DoingFacts ==
    ASSUME CallInv, NEW fn, NEW pc, Doing(fn, pc)
    PROVE  /\ stack[cur] # <<>> /\ Top.fn = fn /\ Top.pc = pc
           /\ Len(stack[cur]) = 1 \/ Len(stack[cur]) > 1
           /\ ~(Len(stack[cur]) = 1 /\ Len(stack[cur]) > 1)
           /\ Len(stack[cur]) = 1 => Bottom(Top)
           /\ Len(stack[cur]) > 1 => On(Top, Under)
           /\ Sane(cur, Top)
           /\ fn \in LockCalls => Top.arg \in Lock
           /\ fn = "thread_wakeup" => Top.arg \in Tcb
           /\ Top.node \in Tcb \cup {NoTcb}
<1>1. Len(stack[cur]) = 1 => ~(Len(stack[cur]) > 1)
  OBVIOUS
<1> QED BY <1>1, TopLinked, TopFacts DEF CallInv, Doing

(***************************************************************************)
(* lock_acquire sets the holder: the token arrives.                         *)
(***************************************************************************)
LEMMA AcquireOwnsKeeps ==
    ASSUME CallInv, BaseInv', StackInv', LinkInv', AcquireOwns
    PROVE  ThreadInv' /\ TopInv'
<1> DEFINE n == Len(stack[cur])
           l == Top.arg
<1>1. /\ Doing("lock_acquire", 2) /\ sti_condition /\ cur' = cur
      /\ UNCHANGED <<irq, val>> /\ holder' = [holder EXCEPT ![l] = cur]
  BY DEF AcquireOwns, threads
<1>2. /\ stack[cur] # <<>> /\ Top.fn = "lock_acquire" /\ Top.pc = 2 /\ (n = 1 \/ n > 1)
      /\ n > 1 => On(Top, Under)
      /\ l \in Lock /\ ~(n = 1 /\ n > 1)
  BY <1>1, DoingFacts DEF LockCalls
<1>3. Pops(Top.cond)
  BY <1>1, <1>2, ReturnPops DEF CallInv, sti_condition
<1>4. \A k \in Lock : Taken(k) <=> k = l
  BY <1>2, StepFacts DEF TakenTop
<1>5. InHandler <=> n > 1
  BY <1>2, StepFacts DEF HandlerDepth
<1>6. ASSUME \A k \in Lock : ~Taken(k)' PROVE TokenInv'
  <2>1. ASSUME NEW k \in Lock
        PROVE  /\ Taken(k)' => holder'[k] = NoTcb
               /\ val'[k] = IF holder'[k] = NoTcb /\ ~Taken(k)' THEN 1 ELSE 0
    <3>1. holder'[k] = IF k = l THEN cur ELSE holder[k]
      BY <1>1, <1>2, StepFacts
    <3> QED BY <3>1, <1>1, <1>4, <1>6, StepFacts, TokenStep DEF CallInv, TopInv
  <2> QED BY <2>1, TokenFrom
<1>7. CASE n = 1
  <2>1. at' = [at EXCEPT ![cur] = NoSem] /\ cs' = [cs EXCEPT ![l] = @ \cup {cur}]
    BY <1>2, <1>5, <1>7 DEF AcquireOwns
  <2>2. cur \notin irq
    <3> SUFFICES ASSUME cur \in irq PROVE FALSE
      OBVIOUS
    <3>1. PICK k \in 1 .. n : Printing(stack[cur][k])
      BY StepFacts DEF CallInv, ThreadInv, WaitsFor
    <3>2. Printing(Top)
      <4>1. k = n
        BY <3>1, <1>7
      <4> QED BY <3>1, <4>1, StackFacts DEF CallInv
    <3> QED BY <3>2, <1>2 DEF Printing, PrintFrame
  <2>3. at'[cur] = NoSem
    BY <2>1, StepFacts
  <2>4. ThreadOK(cur)'
    BY <1>1, <1>2, <1>3, <1>7, <2>2, <2>3, StepFacts, PopKeepsThread DEF CallInv
  <2>5. Others /\ cur' = cur
    BY <1>3 DEF Pops
  <2>6. CurOnly
    BY <1>1, <1>2, <2>1, <2>5, CurOnlyWhen DEF CallInv
  <2>7. Idle'
    BY <1>2, <1>3, <1>7, PopTop DEF CallInv, Idle
  <2>8. HandlerInv' /\ QueueingInv' /\ \A k \in Lock : ~Taken(k)'
    BY <2>7, StepFacts DEF IdleTakes
  <2> QED BY <1>6, <2>4, <2>6, <2>8, CurOnlyKeeps DEF CallInv, TopInv
<1>8. CASE n > 1
  <2>1. UNCHANGED <<at, cs>>
    BY <1>5, <1>8 DEF AcquireOwns
  <2>2. ThreadOK(cur)'
    BY <1>1, <1>2, <1>3, <1>8, <2>1, StepFacts, PopKeepsThread DEF CallInv, Printing, PrintFrame
  <2>3. Others /\ cur' = cur
    BY <1>3 DEF Pops
  <2>4. CurOnly
    BY <1>1, <1>2, <2>1, <2>3, CurOnlyWhen DEF CallInv
  <2>5. Top' = Under /\ stack'[cur'] # <<>>
    BY <1>2, <1>3, <1>8, PopTop DEF CallInv
  <2>6. Under.fn = "int" /\ Under.pc = 2 /\ l = PrintkLock
    BY <1>2, <1>8 DEF On, PrintFrame
  <2>7. holder'[PrintkLock] = cur'
    BY <1>1, <2>6, <1>2, StepFacts
  <2>8. HandlerInv' /\ QueueingInv'
    BY <2>5, <2>6, <2>7 DEF HandlerInv, QueueingInv, Doing
  <2>9. \A k \in Lock : ~Taken(k)'
    BY <2>5, <2>6, StepFacts DEF TakenTop
  <2> QED BY <1>6, <2>2, <2>4, <2>8, <2>9, CurOnlyKeeps DEF CallInv, TopInv
<1> QED BY <1>2, <1>7, <1>8

(***************************************************************************)
(* sem_P queues its thread and calls thread_block.                          *)
(***************************************************************************)
LEMMA SemPQueuesKeeps ==
    ASSUME CallInv, BaseInv', StackInv', LinkInv', SemPQueues
    PROVE  ThreadInv' /\ TopInv'
<1> DEFINE l == Top.arg
<1>1. /\ Doing("sem_P", 1) /\ cur' = cur /\ Call("thread_block", l, 1, NoTcb)
      /\ UNCHANGED <<at, cs, irq, holder, val>> /\ val[l] = 0
      /\ wait' = [wait EXCEPT ![l] = Append(@, cur)]
  BY DEF SemPQueues, Enqueue, threads, history
<1>2. stack[cur] # <<>> /\ Top.fn = "sem_P" /\ l \in Lock
  BY <1>1, DoingFacts DEF LockCalls
<1>3. Pushes(1, NoTcb, "thread_block", l)
  BY <1>1, <1>2, StepFacts, LockCallPushes DEF CallInv
<1>4. ThreadOK(cur)'
  BY <1>1, <1>2, <1>3, PushKeepsThread DEF CallInv, Printing, PrintFrame
<1>5. CurOnly
  BY <1>1, <1>3, CurOnlyWhen DEF CallInv, Pushes
<1>6. Top'.fn = "thread_block" /\ Top'.arg = l
  BY <1>3, PushTop DEF CallInv
<1>7. \A k \in Lock : ~Taken(k) /\ ~Taken(k)'
  BY <1>2, <1>6, StepFacts DEF TakenTop
<1>8. wait'[l] # <<>> /\ Last(wait'[l]) = cur
  <2>1. wait[l] \in Seq(Tcb) /\ cur \in Tcb /\ wait'[l] = Append(wait[l], cur)
    BY <1>1, <1>2, StepFacts
  <2> QED BY <2>1 DEF Last
<1>9. HandlerInv' /\ QueueingInv'
  BY <1>1, <1>6, <1>8 DEF HandlerInv, QueueingInv, Doing
<1>10. TokenInv'
  BY <1>1, <1>7, TokenStep, TokenFrom DEF CallInv, TopInv
<1> QED BY <1>4, <1>5, <1>9, <1>10, CurOnlyKeeps DEF CallInv, TopInv

(***************************************************************************)
(* sem_P takes the token and returns to lock_acquire.                       *)
(***************************************************************************)
LEMMA SemPTakesKeeps ==
    ASSUME CallInv, BaseInv', StackInv', LinkInv', SemPTakes
    PROVE  ThreadInv' /\ TopInv'
<1> DEFINE l == Top.arg
<1>1. /\ Doing("sem_P", 1) /\ sti_condition /\ cur' = cur
      /\ UNCHANGED <<at, cs, irq, holder>> /\ val[l] # 0 /\ val' = [val EXCEPT ![l] = @ - 1]
  BY DEF SemPTakes, Take, threads, history
<1>2. /\ stack[cur] # <<>> /\ Top.fn = "sem_P" /\ l \in Lock /\ Len(stack[cur]) > 1
      /\ On(Top, Under)
  BY <1>1, DoingFacts DEF LockCalls, Bottom
<1>3. Pops(Top.cond)
  BY <1>1, <1>2, ReturnPops DEF CallInv, sti_condition
<1>4. ThreadOK(cur)'
  BY <1>1, <1>2, <1>3, PopKeepsThread DEF CallInv, Printing, PrintFrame
<1>5. CurOnly
  BY <1>1, <1>3, CurOnlyWhen DEF CallInv, Pops
<1>6. Top'.fn = "lock_acquire" /\ Top'.pc = 2 /\ Top'.arg = l /\ stack'[cur'] # <<>>
  BY <1>2, <1>3, PopTop DEF CallInv, On
<1>7. \A k \in Lock : ~Taken(k) /\ (Taken(k)' <=> k = l)
  BY <1>2, <1>6, StepFacts DEF TakenTop
<1>8. HandlerInv' /\ QueueingInv'
  BY <1>6 DEF HandlerInv, QueueingInv, Doing
<1>9. TokenInv'
  <2>1. ASSUME NEW k \in Lock
        PROVE  /\ Taken(k)' => holder'[k] = NoTcb
               /\ val'[k] = IF holder'[k] = NoTcb /\ ~Taken(k)' THEN 1 ELSE 0
    <3>1. val'[k] = IF k = l THEN val[k] - 1 ELSE val[k]
      BY <1>1, <1>2, StepFacts
    <3> QED BY <3>1, <1>1, <1>7, TokenStep DEF CallInv, TopInv
  <2> QED BY <2>1, TokenFrom
<1> QED BY <1>4, <1>5, <1>8, <1>9, CurOnlyKeeps DEF CallInv, TopInv

(***************************************************************************)
(* thread_block returns to the loop of sem_P.                               *)
(***************************************************************************)
LEMMA BlockReturnsKeeps ==
    ASSUME CallInv, BaseInv', StackInv', LinkInv', BlockReturns
    PROVE  ThreadInv' /\ TopInv'
<1>1. /\ Doing("thread_block", 2) /\ sti_condition /\ cur' = cur
      /\ UNCHANGED <<at, cs, irq, holder, val>>
  BY DEF BlockReturns, threads, history
<1>2. stack[cur] # <<>> /\ Top.fn = "thread_block" /\ Len(stack[cur]) > 1 /\ On(Top, Under)
  BY <1>1, DoingFacts DEF Bottom
<1>3. Pops(Top.cond)
  BY <1>1, <1>2, ReturnPops DEF CallInv, sti_condition
<1>4. ThreadOK(cur)'
  BY <1>1, <1>2, <1>3, PopKeepsThread DEF CallInv, Printing, PrintFrame
<1>5. CurOnly
  BY <1>1, <1>3, CurOnlyWhen DEF CallInv, Pops
<1>6. Idle'
  BY <1>2, <1>3, PopTop DEF CallInv, On, Idle
<1>7. \A k \in Lock : ~Taken(k)
  BY <1>2, StepFacts DEF TakenTop
<1>8. TopInv'
  BY <1>1, <1>6, <1>7, IdleKeepsTop
<1> QED BY <1>4, <1>5, <1>8, CurOnlyKeeps DEF CallInv

(***************************************************************************)
(* lock_release returns, outside or to a handler.                           *)
(***************************************************************************)
LEMMA ReleaseReturnsKeeps ==
    ASSUME CallInv, BaseInv', StackInv', LinkInv', ReleaseReturns
    PROVE  ThreadInv' /\ TopInv'
<1> DEFINE n == Len(stack[cur])
<1>1. /\ Doing("lock_release", 2) /\ sti_condition /\ cur' = cur
      /\ UNCHANGED <<at, cs, irq, holder, val>>
  BY DEF ReleaseReturns, threads, history
<1>2. /\ stack[cur] # <<>> /\ Top.fn = "lock_release" /\ Top.pc = 2 /\ (n = 1 \/ n > 1)
      /\ n > 1 => On(Top, Under)
  BY <1>1, DoingFacts
<1>3. Pops(Top.cond)
  BY <1>1, <1>2, ReturnPops DEF CallInv, sti_condition
<1>4. ThreadOK(cur)'
  BY <1>1, <1>2, <1>3, PopKeepsThread DEF CallInv, Printing, PrintFrame
<1>5. CurOnly
  BY <1>1, <1>3, CurOnlyWhen DEF CallInv, Pops
<1>6. \A k \in Lock : ~Taken(k)
  BY <1>2, StepFacts DEF TakenTop
<1>7. TopInv'
  <2>1. CASE n = 1
    <3>1. Idle'
      BY <1>2, <1>3, <2>1, PopTop DEF CallInv, Idle
    <3> QED BY <1>1, <1>6, <3>1, IdleKeepsTop
  <2>2. CASE n > 1
    <3>1. Top' = Under /\ stack'[cur'] # <<>>
      BY <1>2, <1>3, <2>2, PopTop DEF CallInv
    <3>2. Under.fn = "int" /\ Under.pc = 3
      BY <1>2, <2>2 DEF On, PrintFrame
    <3>3. holder[PrintkLock] # cur /\ at[cur] = NoSem
      <4>1. Len(stack[cur]) > 0
        BY <2>2
      <4> QED BY <1>1, <2>2, <4>1 DEF CallInv, TopInv, HandlerInv
    <3>4. HandlerInv' /\ QueueingInv'
      BY <1>1, <3>1, <3>2, <3>3 DEF HandlerInv, QueueingInv, Doing
    <3>5. \A k \in Lock : ~Taken(k)'
      BY <3>1, <3>2, StepFacts DEF TakenTop
    <3>6. TokenInv'
      BY <1>1, <1>6, <3>5, TokenStep, TokenFrom DEF CallInv, TopInv
    <3> QED BY <3>4, <3>6 DEF TopInv
  <2> QED BY <1>2, <2>1, <2>2
<1> QED BY <1>4, <1>5, <1>7, CurOnlyKeeps DEF CallInv

(***************************************************************************)
(* lock_release returns to a thread that is not the holder, and otherwise   *)
(* clears the holder and calls sem_V.                                       *)
(***************************************************************************)
LEMMA ReleaseTestsKeeps ==
    ASSUME CallInv, BaseInv', StackInv', LinkInv', ReleaseTests
    PROVE  ThreadInv' /\ TopInv'
<1> DEFINE n == Len(stack[cur])
           l == Top.arg
<1>1. Doing("lock_release", 1) /\ cur' = cur /\ UNCHANGED <<val, at, irq>>
  BY DEF ReleaseTests, threads
<1>2. /\ stack[cur] # <<>> /\ Top.fn = "lock_release" /\ Top.pc = 1 /\ (n = 1 \/ n > 1)
      /\ n > 1 => On(Top, Under)
      /\ l \in Lock /\ ~(n = 1 /\ n > 1)
  BY <1>1, DoingFacts DEF LockCalls
<1>3. \A k \in Lock : ~Taken(k)
  BY <1>2, StepFacts DEF TakenTop
<1>4. InHandler <=> n > 1
  BY <1>2, StepFacts DEF HandlerDepth
<1>5. CASE /\ holder[l] # cur /\ sti_condition
           /\ cs' = IF InHandler THEN cs ELSE [cs EXCEPT ![l] = @ \ {cur}]
           /\ UNCHANGED holder
  <2>1. n = 1
    <3> SUFFICES ASSUME n > 1 PROVE FALSE
      BY <1>2
    <3>1. l = PrintkLock
      BY <1>2 DEF On
    <3>2. Len(stack[cur]) > 0
      OBVIOUS
    <3> QED BY <1>1, <1>5, <3>1, <3>2 DEF CallInv, TopInv, HandlerInv
  <2>2. Pops(Top.cond)
    BY <1>1, <1>2, <1>5, ReturnPops DEF CallInv, sti_condition
  <2>3. ThreadOK(cur)'
    BY <1>1, <1>2, <1>5, <2>1, <2>2, PopKeepsThread DEF CallInv, Printing, PrintFrame
  <2>4. Others /\ cur' = cur /\ cs' = [cs EXCEPT ![l] = @ \ {cur}]
    BY <2>2, <1>2, <1>4, <1>5, <2>1 DEF Pops
  <2>5. CurOnly
    BY <1>1, <1>2, <1>5, <2>4, CurOnlyWhen DEF CallInv
  <2>6. Idle'
    BY <1>2, <2>1, <2>2, PopTop DEF CallInv, Idle
  <2>7. TopInv'
    BY <1>1, <1>3, <1>5, <2>6, IdleKeepsTop
  <2> QED BY <2>3, <2>5, <2>7, CurOnlyKeeps DEF CallInv
<1>6. CASE /\ holder[l] = cur /\ holder' = [holder EXCEPT ![l] = NoTcb]
           /\ Call("sem_V", l, 2, NoTcb) /\ UNCHANGED cs
  <2>1. Pushes(2, NoTcb, "sem_V", l)
    BY <1>1, <1>2, <1>6, StepFacts, LockCallPushes DEF CallInv
  <2>2. \A k \in Lock : holder'[k] = IF k = l THEN NoTcb ELSE holder[k]
    BY <1>2, <1>6, StepFacts
  <2>3. ThreadOK(cur)'
    BY <1>1, <1>2, <1>6, <2>1, <2>2, StepFacts, PushKeepsThread DEF CallInv, Printing, PrintFrame
  <2>4. Others /\ cur' = cur
    BY <2>1 DEF Pushes
  <2>5. CurOnly
    BY <1>1, <1>2, <1>6, <2>4, CurOnlyWhen DEF CallInv
  <2>6. Top'.fn = "sem_V" /\ Top'.arg = l /\ Top'.pc = 1 /\ stack'[cur'] # <<>>
    BY <2>1, PushTop DEF CallInv
  <2>7. \A k \in Lock : Taken(k)' <=> k = l
    BY <2>6, StepFacts DEF TakenTop
  <2>8. HandlerInv' /\ QueueingInv'
    BY <2>6 DEF HandlerInv, QueueingInv, Doing
  <2>9. TokenInv'
    <3>1. ASSUME NEW k \in Lock
          PROVE  /\ Taken(k)' => holder'[k] = NoTcb
                 /\ val'[k] = IF holder'[k] = NoTcb /\ ~Taken(k)' THEN 1 ELSE 0
      BY <1>1, <1>3, <1>6, <2>2, <2>7, StepFacts, TokenStep DEF CallInv, TopInv
    <3> QED BY <3>1, TokenFrom
  <2> QED BY <2>3, <2>5, <2>8, <2>9, CurOnlyKeeps DEF CallInv, TopInv
<1> QED BY <1>5, <1>6 DEF ReleaseTests

(***************************************************************************)
(* sem_V unlinks the first thread and calls thread_wakeup.                  *)
(***************************************************************************)
LEMMA SemVUnlinksKeeps ==
    ASSUME CallInv, BaseInv', StackInv', LinkInv', SemVUnlinks
    PROVE  ThreadInv' /\ TopInv'
<1> DEFINE l == Top.arg
           u == Head(wait[l])
<1>1. /\ Doing("sem_V", 1) /\ cur' = cur /\ Call("thread_wakeup", u, 2, u)
      /\ wait[l] # <<>> /\ UNCHANGED <<at, cs, irq, holder, val>>
  BY DEF SemVUnlinks, sync_tool_is_empty, threads, history
<1>2. stack[cur] # <<>> /\ Top.fn = "sem_V" /\ l \in Lock
  BY <1>1, DoingFacts DEF LockCalls
<1>3. Pushes(2, u, "thread_wakeup", u)
  <2>1. u \in Tcb
    BY <1>1, <1>2, StepFacts
  <2> HIDE DEF u
  <2>2. Frame("thread_wakeup", u, iflag[cur]) \in Frames /\ u \in Tcb \cup {NoTcb}
    BY <2>1, FrameTypes, StackFacts DEF CallInv
  <2> QED BY <1>1, <2>2, StepFacts, CallPushes DEF CallInv
<1>4. ThreadOK(cur)'
  BY <1>1, <1>2, <1>3, PushKeepsThread DEF CallInv, Printing, PrintFrame
<1>5. CurOnly
  BY <1>1, <1>3, CurOnlyWhen DEF CallInv, Pushes
<1>6. Top'.fn = "thread_wakeup" /\ Under'.arg = l /\ stack'[cur'] # <<>>
  BY <1>2, <1>3, PushTop DEF CallInv, Moved
<1>7. \A k \in Lock : Taken(k)' <=> Taken(k)
  BY <1>2, <1>6, StepFacts DEF TakenTop
<1>8. HandlerInv' /\ QueueingInv'
  BY <1>6 DEF HandlerInv, QueueingInv, Doing
<1>9. TokenInv'
  BY <1>1, <1>7, TokenStep, TokenFrom DEF CallInv, TopInv
<1> QED BY <1>4, <1>5, <1>8, <1>9, CurOnlyKeeps DEF CallInv, TopInv

(***************************************************************************)
(* sem_V puts the token back and returns.                                   *)
(***************************************************************************)
LEMMA SemVRaisesKeeps ==
    ASSUME CallInv, BaseInv', StackInv', LinkInv', SemVRaises
    PROVE  ThreadInv' /\ TopInv'
<1> DEFINE n == Len(stack[cur])
           l == Top.arg
<1>1. /\ Doing("sem_V", 1) \/ Doing("sem_V", 2)
      /\ sti_condition /\ cur' = cur /\ UNCHANGED holder
      /\ val' = [val EXCEPT ![l] = @ + 1]
  BY DEF SemVRaises, threads
<1>2. /\ stack[cur] # <<>> /\ Top.fn = "sem_V" /\ n > 1 /\ On(Top, Under)
      /\ l \in Lock
  BY <1>1, DoingFacts DEF LockCalls, Bottom
<1>3. Pops(Top.cond)
  BY <1>1, <1>2, ReturnPops DEF CallInv, sti_condition
<1>4. \A k \in Lock : Taken(k) <=> k = l
  BY <1>2, StepFacts DEF TakenTop
<1>5. InHandler <=> n > 2
  BY <1>2, StepFacts DEF HandlerDepth
<1>6. /\ Top' = Under /\ stack'[cur'] # <<>> /\ Len(stack'[cur']) = n - 1
      /\ Top'.fn = "lock_release" /\ Top'.pc = 2 /\ Top'.arg = l
  BY <1>2, <1>3, PopTop DEF CallInv, On
<1>7. \A k \in Lock : ~Taken(k)'
  BY <1>6, StepFacts DEF TakenTop
<1>8. TokenInv'
  <2>1. ASSUME NEW k \in Lock
        PROVE  /\ Taken(k)' => holder'[k] = NoTcb
               /\ val'[k] = IF holder'[k] = NoTcb /\ ~Taken(k)' THEN 1 ELSE 0
    <3>1. val'[k] = IF k = l THEN val[k] + 1 ELSE val[k]
      BY <1>1, <1>2, StepFacts
    <3> QED BY <3>1, <1>1, <1>4, <1>7, TokenStep DEF CallInv, TopInv
  <2> QED BY <2>1, TokenFrom
<1>9. QueueingInv'
  BY <1>6 DEF QueueingInv, Doing
<1>10. n \in Nat
  BY StackFacts DEF CallInv
<1>11. CASE n = 2
  <2>1. ~(n > 2)
    BY <1>11
  <2>2. cs' = [cs EXCEPT ![l] = @ \ {cur}] /\ UNCHANGED <<at, irq>>
    BY <1>5, <2>1 DEF SemVRaises
  <2>3. ThreadOK(cur)'
    BY <1>1, <1>2, <1>3, <1>6, <1>11, <2>2, PopKeepsThread DEF CallInv, Printing, PrintFrame
  <2>4. Others /\ cur' = cur
    BY <1>3 DEF Pops
  <2>5. CurOnly
    BY <1>1, <1>2, <2>2, <2>4, CurOnlyWhen DEF CallInv
  <2>6. Idle'
    <3>1. Len(stack'[cur']) = 1
      BY <1>6, <1>11
    <3> QED BY <1>6, <3>1 DEF Idle
  <2>7. HandlerInv'
    BY <2>6, StepFacts DEF IdleTakes
  <2> QED BY <1>8, <1>9, <2>3, <2>5, <2>7, CurOnlyKeeps DEF CallInv, TopInv
<1>12. CASE n > 2
  <2>1. at' = [at EXCEPT ![cur] = NoSem] /\ irq' = irq \ {cur} /\ UNCHANGED cs
    BY <1>5, <1>12 DEF SemVRaises
  <2>2. at'[cur] = NoSem /\ cur \notin irq'
    BY <2>1, StepFacts
  <2>3. ThreadOK(cur)'
    BY <1>1, <1>2, <1>3, <2>1, <2>2, PopKeepsThread DEF CallInv
  <2>4. Others /\ cur' = cur
    BY <1>3 DEF Pops
  <2>5. CurOnly
    BY <1>1, <2>1, <2>4, CurOnlyWhen DEF CallInv
  <2>6. l = PrintkLock
    <3>1. Linked(cur, stack[cur], iflag[cur]) /\ stack[cur] \in Seq(Frames)
      BY StepFacts DEF CallInv, LinkInv, StackInv
    <3>2. n - 1 \in 1 .. n /\ n - 1 # 1 /\ Under = stack[cur][n - 1]
      <4>1. Under = stack[cur][n - 1]
        BY DEF Under
      <4> HIDE DEF n
      <4> QED BY <1>10, <1>12, <4>1
    <3>3. On(Under, stack[cur][n - 1 - 1])
      <4>1. \A k \in 1 .. n : k = 1 \/ On(stack[cur][k], stack[cur][k - 1])
        BY <3>1, Places
      <4> HIDE DEF n
      <4> QED BY <3>2, <4>1
    <3> QED BY <1>6, <3>3 DEF On
  <2>7. holder[PrintkLock] = NoTcb
    BY <1>2, <1>4, <2>6 DEF CallInv, TopInv, TokenInv, Taken
  <2>8. HandlerInv'
    BY <1>1, <1>6, <2>2, <2>7, StepFacts DEF HandlerInv, Doing
  <2> QED BY <1>8, <1>9, <2>3, <2>5, <2>8, CurOnlyKeeps DEF CallInv, TopInv
<1>13. n = 2 \/ n > 2
  <2> HIDE DEF n
  <2> QED BY <1>2, <1>10
<1> QED BY <1>11, <1>12, <1>13

(***************************************************************************)
(* thread_wakeup makes the thread READY and returns to sem_V.               *)
(***************************************************************************)
LEMMA WakeupReadiesKeeps ==
    ASSUME CallInv, BaseInv', StackInv', LinkInv', WakeupReadies
    PROVE  ThreadInv' /\ TopInv'
<1>1. /\ Doing("thread_wakeup", 1) /\ sti_condition /\ cur' = cur
      /\ UNCHANGED <<at, cs, irq, holder, val>>
      /\ status' = [status EXCEPT ![Top.arg] = "READY"]
  BY DEF WakeupReadies, history
<1>2. /\ stack[cur] # <<>> /\ Top.fn = "thread_wakeup" /\ Len(stack[cur]) > 1 /\ On(Top, Under)
      /\ Top.arg \in Tcb
  BY <1>1, DoingFacts DEF Bottom
<1>3. Pops(Top.cond)
  BY <1>1, <1>2, ReturnPops DEF CallInv, sti_condition
<1>4. ThreadOK(cur)'
  BY <1>1, <1>2, <1>3, PopKeepsThread DEF CallInv, Printing, PrintFrame
<1>5. CurOnly
  BY <1>1, <1>3, CurOnlyWhen DEF CallInv, Pops
<1>6. /\ Top'.fn = "sem_V" /\ Top'.pc = 2 /\ Top'.node = Top.arg /\ Top'.arg = Under.arg
      /\ stack'[cur'] # <<>>
  BY <1>2, <1>3, PopTop DEF CallInv, On
<1>7. \A k \in Lock : Taken(k)' <=> Taken(k)
  BY <1>2, <1>6, StepFacts DEF TakenTop
<1>8. DOMAIN status = Tcb
  BY DEF CallInv, BaseInv, RingInv, ThreadsTypeOK
<1>9. HandlerInv' /\ QueueingInv'
  BY <1>1, <1>2, <1>6, <1>8 DEF HandlerInv, QueueingInv, Doing
<1>10. TokenInv'
  BY <1>1, <1>7, TokenStep, TokenFrom DEF CallInv, TopInv
<1> QED BY <1>4, <1>5, <1>9, <1>10, CurOnlyKeeps DEF CallInv, TopInv

(***************************************************************************)
(* A switch leaves the frames of every thread as they are, but for where   *)
(* the one on top of the old thread's stack goes on.                       *)
(***************************************************************************)
LEMMA SwitchFrames ==
    ASSUME CallInv, StackInv', NEW pc, Switches(pc), NEW t \in Tcb
    PROVE  LET q == stack[t] r == stack'[t]
           IN  /\ Len(q) \in Nat /\ Len(r) \in Nat /\ Len(r) >= Len(q)
               /\ \A k \in 1 .. Len(q) :
                     /\ r[k].fn = q[k].fn /\ r[k].arg = q[k].arg
                     /\ (r[k].pc = q[k].pc /\ r[k].node = q[k].node) \/ (t = cur /\ k = Len(q))
               /\ \A k \in 1 .. Len(r) : k \in 1 .. Len(q) \/ r[k].fn = "switch_to"
               /\ Len(r) # Len(q) => Parked(q)
<1> DEFINE q == stack[t]
           r == stack'[t]
<1>1. q \in Seq(Frames) /\ r \in Seq(Frames) /\ Last(q) = q[Len(q)]
  BY StackFacts DEF CallInv, StackInv
<1>2. CASE t = cur
  <2>1. Resumed(q, r, pc)
    BY <1>2 DEF Switches
  <2> HIDE DEF q, r
  <2>2. Len(q) \in Nat /\ Len(r) = Len(q)
    BY <1>1, <2>1 DEF Resumed
  <2>3. \A k \in 1 .. Len(q) :
           /\ r[k].fn = q[k].fn /\ r[k].arg = q[k].arg
           /\ (r[k].pc = q[k].pc /\ r[k].node = q[k].node) \/ k = Len(q)
    <3> SUFFICES ASSUME NEW k \in 1 .. Len(q)
                 PROVE  /\ r[k].fn = q[k].fn /\ r[k].arg = q[k].arg
                        /\ (r[k].pc = q[k].pc /\ r[k].node = q[k].node) \/ k = Len(q)
      OBVIOUS
    <3>1. CASE k = Len(q)
      BY <3>1, <2>1 DEF Resumed, Moved
    <3>2. CASE k # Len(q)
      BY <3>2, <2>1, <2>2 DEF Resumed
    <3> QED BY <3>1, <3>2
  <2> QED BY <1>2, <2>2, <2>3 DEF q, r
<1>3. CASE t # cur /\ t = cur'
  <2>1. Pushed(q, r, Last(q).pc, Last(q).node, "switch_to", NoTcb, TRUE)
    BY <1>3 DEF Switches
  <2>2. Parked(q)
    BY <1>3 DEF CallInv, LinkInv
  <2> HIDE DEF q, r
  <2>3. Len(q) \in Nat /\ Len(r) = Len(q) + 1 /\ r[Len(q) + 1].fn = "switch_to"
    BY <1>1, <2>1 DEF Pushed
  <2>4. \A k \in 1 .. Len(q) :
           r[k].fn = q[k].fn /\ r[k].arg = q[k].arg /\ r[k].pc = q[k].pc /\ r[k].node = q[k].node
    <3> SUFFICES ASSUME NEW k \in 1 .. Len(q)
                 PROVE  /\ r[k].fn = q[k].fn /\ r[k].arg = q[k].arg
                        /\ r[k].pc = q[k].pc /\ r[k].node = q[k].node
      OBVIOUS
    <3>1. CASE k = Len(q)
      <4>1. Len(q) > 0
        BY <3>1, <2>3
      <4> QED BY <3>1, <4>1, <1>1, <2>1 DEF Pushed, Moved
    <3>2. CASE k # Len(q)
      BY <3>2, <2>1, <2>3 DEF Pushed
    <3> QED BY <3>1, <3>2
  <2>5. \A k \in 1 .. Len(r) : k \in 1 .. Len(q) \/ k = Len(q) + 1
    BY <2>3
  <2> QED BY <2>2, <2>3, <2>4, <2>5 DEF q, r
<1>4. CASE t # cur /\ t # cur'
  <2>1. r = q
    BY <1>4 DEF Switches
  <2> QED BY <1>1, <2>1
<1> QED BY <1>2, <1>3, <1>4

(***************************************************************************)
(* The frame on top after a switch.                                        *)
(***************************************************************************)
LEMMA SwitchTop ==
    ASSUME BaseInv, StackInv, BaseInv', StackInv', NEW pc, Switches(pc)
    PROVE  IF cur' = cur THEN Moved(Top, Top', pc, NoTcb) ELSE Top'.fn = "switch_to"
<1>1. cur \in Tcb /\ cur' \in Tcb /\ Top = stack[cur][Len(stack[cur])]
  BY StackFacts DEF Switches
<1>2. /\ Top' = stack'[cur'][Len(stack'[cur'])]
      /\ Len(stack[cur]) \in Nat /\ Len(stack[cur']) \in Nat
  BY <1>1, StackFacts DEF Top, Last, StackInv
<1>3. CASE cur' = cur
  BY <1>1, <1>2, <1>3 DEF Switches, Resumed
<1>4. CASE cur' # cur
  BY <1>1, <1>2, <1>4 DEF Switches, Pushed
<1> QED BY <1>3, <1>4

(***************************************************************************)
(* A switch by thread_block or by the timer's handler.                     *)
(***************************************************************************)
LEMMA SwitchKeepsThread ==
    ASSUME CallInv, StackInv', NEW pc, Switches(pc), stack[cur] # <<>>,
           Top.fn \notin {"lock_acquire", "lock_release"}, ~Printing(Top),
           UNCHANGED <<cs, holder>>, NEW t \in Tcb,
           WaitsFor(t)' \/ (at'[t] = at[t] /\ (t \in irq' <=> t \in irq))
    PROVE  ThreadOK(t)'
<1> DEFINE q == stack[t]
           r == stack'[t]
<1>1. /\ Len(q) \in Nat /\ Len(r) \in Nat /\ Len(r) >= Len(q)
      /\ \A k \in 1 .. Len(q) :
            /\ r[k].fn = q[k].fn /\ r[k].arg = q[k].arg
            /\ (r[k].pc = q[k].pc /\ r[k].node = q[k].node) \/ (t = cur /\ k = Len(q))
      /\ \A k \in 1 .. Len(r) : k \in 1 .. Len(q) \/ r[k].fn = "switch_to"
      /\ Len(r) # Len(q) => Parked(q)
  BY SwitchFrames
<1>2. WaitsFor(t) /\ Base(t) /\ NotMine(t)
  BY DEF CallInv, ThreadInv
<1>3. /\ q = <<>> <=> Len(q) = 0
      /\ t = cur => Top = q[Len(q)]
      /\ Last(q) = q[Len(q)]
  BY StackFacts DEF CallInv
<1>4. r = <<>> => Len(r) = 0
  OBVIOUS
<1>5. WaitsFor(t)'
  <2> SUFFICES ASSUME at'[t] = at[t], t \in irq' <=> t \in irq PROVE WaitsFor(t)'
    OBVIOUS
  <2>1. CASE t \in irq
    <3>1. PICK k \in 1 .. Len(q) : Printing(q[k])
      BY <2>1, <1>2 DEF WaitsFor
    <3>2. k \in 1 .. Len(r) /\ Printing(r[k])
      <4>1. ~(t = cur /\ k = Len(q))
        BY <1>3, <3>1
      <4> QED BY <1>1, <3>1, <4>1 DEF Printing, PrintFrame
    <3> QED BY <1>2, <2>1, <3>2 DEF WaitsFor
  <2>2. CASE t \notin irq /\ at[t] # NoSem
    <3>1. q # <<>> /\ q[1].fn = "lock_acquire" /\ q[1].pc = 2 /\ q[1].arg = at[t]
      BY <2>2, <1>2 DEF WaitsFor
    <3>2. 1 \in 1 .. Len(q) /\ ~(t = cur /\ 1 = Len(q))
      BY <1>1, <1>3, <3>1
    <3>3. r[1].fn = "lock_acquire" /\ r[1].pc = 2 /\ r[1].arg = at[t]
      BY <1>1, <3>1, <3>2
    <3>4. r # <<>>
      <4>1. Len(r) # 0
        BY <1>1, <3>2
      <4> QED BY <1>4, <4>1
    <3> QED BY <2>2, <3>3, <3>4 DEF WaitsFor
  <2>3. CASE t \notin irq /\ at[t] = NoSem
    BY <2>3 DEF WaitsFor
  <2> QED BY <2>1, <2>2, <2>3
<1>6. Base(t)'
  <2> SUFFICES ASSUME r # <<>>
               PROVE  /\ r[1].fn = "lock_acquire" => t \notin UserTask /\ \A l \in Lock : t \notin cs[l]
                      /\ r[1].fn = "lock_release" /\ (r[1].pc = 1 \/ Len(r) > 1) =>
                            t \notin UserTask /\ t \in cs[r[1].arg]
    BY DEF Base
  <2>1. CASE Len(q) = 0
    <3>1. r \in Seq(Frames)
      BY DEF StackInv
    <3>2. 1 \in 1 .. Len(r) /\ 1 \notin 1 .. Len(q)
      <4> HIDE DEF r, q
      <4> QED BY <2>1, <3>1
    <3>3. r[1].fn = "switch_to"
      BY <1>1, <3>2
    <3> QED BY <3>3
  <2>2. CASE Len(q) # 0
    <3>1. 1 \in 1 .. Len(q) /\ q # <<>>
      BY <1>1, <1>3, <2>2
    <3>2. r[1].fn = q[1].fn /\ r[1].arg = q[1].arg
      BY <1>1, <3>1
    <3>3. q[1].fn = "lock_release" /\ (r[1].pc = 1 \/ Len(r) > 1) => q[1].pc = 1 \/ Len(q) > 1
      <4> SUFFICES ASSUME q[1].fn = "lock_release", r[1].pc = 1 \/ Len(r) > 1, Len(q) = 1
                   PROVE  q[1].pc = 1
        <5>1. Len(q) = 1 \/ Len(q) > 1
          <6> DEFINE n == Len(q)
          <6>1. n \in Nat /\ n # 0
            BY <1>1, <2>2
          <6> HIDE DEF n
          <6>2. n = 1 \/ n > 1
            BY <6>1
          <6> QED BY <6>2 DEF n
        <5> QED BY <5>1
      <4>1. Len(r) = 1
        BY <1>1, <1>3, <3>1 DEF Parked
      <4>2. t # cur
        BY <1>3
      <4>3. r[1].pc = 1
        BY <4>1
      <4> QED BY <1>1, <3>1, <4>2, <4>3
    <3> QED BY <1>2, <3>1, <3>2, <3>3 DEF Base
  <2> QED BY <2>1, <2>2
<1>7. NotMine(t)'
  <2> SUFFICES ASSUME NEW k \in 1 .. Len(r), r[k].fn = "lock_acquire", r[k].pc = 2
               PROVE  holder[r[k].arg] # t
    BY DEF NotMine
  <2>1. k \in 1 .. Len(q)
    BY <1>1
  <2>2. ~(t = cur /\ k = Len(q))
    BY <1>1, <1>3, <2>1
  <2> QED BY <1>1, <1>2, <2>1, <2>2 DEF NotMine
<1> QED BY <1>5, <1>6, <1>7 DEF ThreadOK

(***************************************************************************)
(* The timer's handler, with or without a switch.                           *)
(***************************************************************************)
LEMMA TimerHandlerKeeps ==
    ASSUME CallInv, BaseInv', StackInv', LinkInv', TimerHandler
    PROVE  ThreadInv' /\ TopInv'
<1>1. /\ Doing("int", 1) /\ int_server_func_list[Top.arg] = "timer" /\ Switching(3)
      /\ iflag' = iflag /\ UNCHANGED <<at, cs, irq, holder, val>>
  BY DEF TimerHandler, IntHandler, svars
<1>2. cur' \in live
  <2>1. Tick \/ SliceOver => cur' \in live
    BY CurFacts DEF Tick, SliceOver, schedule, switch_to, CallInv
  <2> QED BY <2>1 DEF TimerHandler
<1>3. stack[cur] # <<>> /\ Top.fn = "int" /\ Top.pc = 1 /\ Sane(cur, Top)
  BY <1>1, DoingFacts
<1>4. Top.arg = TimerVector
  BY <1>1, <1>3 DEF Sane, int_server_func_list
<1>5. Switches(3)
  BY <1>1, <1>2, <1>3, StepFacts, SwitchingSwitches DEF CallInv
<1>6. ASSUME NEW t \in Tcb PROVE ThreadOK(t)'
  BY <1>1, <1>3, <1>5, SwitchKeepsThread DEF Printing
<1>7. ThreadInv'
  <2>1. (\A t \in Tcb : ThreadOK(t))'
    BY <1>6
  <2> QED BY <2>1 DEF ThreadInv, ThreadOK
<1>8. Idle'
  BY <1>3, <1>4, <1>5, SwitchTop DEF CallInv, Idle, Moved
<1>9. \A l \in Lock : ~Taken(l)
  BY <1>3, StepFacts DEF TakenTop
<1> QED BY <1>1, <1>7, <1>8, <1>9, IdleKeepsTop

(***************************************************************************)
(* thread_block switches: the thread is parked in the operation it waits    *)
(* in, which WaitsFor records.                                              *)
(***************************************************************************)
LEMMA BlockSwitchesKeeps ==
    ASSUME CallInv, BaseInv', StackInv', LinkInv', BlockSwitches
    PROVE  ThreadInv' /\ TopInv'
<1> DEFINE q == stack[cur]
           r == stack'[cur]
           n == Len(q)
<1>1. /\ Doing("thread_block", 1) /\ Switching(2) /\ iflag' = iflag
      /\ at' = [at EXCEPT ![cur] = Top.arg]
      /\ irq' = IF InHandler THEN irq \cup {cur} ELSE irq
      /\ UNCHANGED <<cs, holder, val>>
  BY DEF BlockSwitches
<1>2. cur' \in live
  BY CurFacts DEF BlockSwitches, schedule, switch_to, CallInv
<1>3. /\ q # <<>> /\ Top.fn = "thread_block" /\ Top.pc = 1 /\ Top.arg \in Lock /\ Top = q[n]
      /\ n \in Nat /\ q \in Seq(Frames)
  BY <1>1, DoingFacts, StackFacts DEF LockCalls, CallInv
<1>4. Switches(2)
  BY <1>1, <1>2, <1>3, StepFacts, SwitchingSwitches DEF CallInv
<1>5. n > 2 /\ (InHandler <=> n > 3)
  BY <1>3, StepFacts DEF HandlerDepth
<1>6. Len(r) = n /\ \A k \in 1 .. (n - 1) : r[k] = q[k]
  BY <1>4 DEF Switches, Resumed
<1>7. Linked(cur, q, iflag[cur])
  BY StepFacts DEF CallInv, LinkInv
<1>8. \A k \in 1 .. n : k = 1 \/ On(q[k], q[k - 1])
  BY <1>3, <1>7, Places
<1>9. at'[cur] = Top.arg
  BY <1>1, StepFacts
<1> HIDE DEF n, q
<1>10. /\ q[n - 1].fn = "sem_P" /\ q[n - 1].arg = Top.arg
       /\ q[n - 2].fn = "lock_acquire" /\ q[n - 2].pc = 2 /\ q[n - 2].arg = Top.arg
  <2>1. On(q[n], q[n - 1])
    BY <1>3, <1>5, <1>8
  <2>2. n - 1 \in 1 .. n /\ n - 1 # 1 /\ (n - 1) - 1 = n - 2
    BY <1>3, <1>5
  <2>3. On(q[n - 1], q[n - 2])
    BY <1>8, <2>2
  <2> QED BY <1>3, <2>1, <2>3 DEF On
<1>11. ASSUME NEW t \in Tcb, t = cur PROVE WaitsFor(t)'
  <2>1. CASE n > 3
    <3>1. n - 2 \in 1 .. n /\ n - 2 # 1 /\ (n - 2) - 1 = n - 3 /\ n - 3 \in 1 .. (n - 1)
      BY <1>3, <2>1
    <3>2. On(q[n - 2], q[n - 3])
      BY <1>8, <3>1
    <3>3. Top.arg = PrintkLock /\ Printing(q[n - 3])
      BY <1>10, <3>2 DEF On, Printing
    <3>4. n - 3 \in 1 .. Len(r) /\ Printing(r[n - 3])
      BY <1>3, <1>6, <3>1, <3>3
    <3>5. cur \in irq'
      BY <1>1, <1>5, <2>1
    <3> QED BY <1>9, <1>11, <3>3, <3>4, <3>5 DEF WaitsFor
  <2>2. CASE n = 3
    <3>1. ~InHandler
      BY <1>5, <2>2
    <3>2. cur \notin irq
      <4> SUFFICES ASSUME cur \in irq PROVE FALSE
        OBVIOUS
      <4>1. PICK k \in 1 .. n : Printing(q[k])
        BY StepFacts DEF CallInv, ThreadInv, WaitsFor, q, n
      <4>2. k \in Handlers(cur)
        <5>1. DOMAIN stack[cur] = 1 .. n
          BY <1>3 DEF n, q
        <5> QED BY <4>1, <5>1 DEF Handlers, Printing, PrintFrame, q
      <4> QED BY <3>1, <4>2 DEF InHandler
    <3>3. r[1] = q[1] /\ q[n - 2] = q[1]
      BY <1>6, <2>2
    <3>4. Len(r) = 3
      BY <1>6, <2>2
    <3>5. r # <<>>
      <4>1. r = <<>> => Len(r) = 0
        OBVIOUS
      <4> QED BY <3>4, <4>1
    <3> QED BY <1>1, <1>9, <1>10, <1>11, <3>1, <3>2, <3>3, <3>5 DEF WaitsFor
  <2> QED BY <1>3, <1>5, <2>1, <2>2
<1>12. ASSUME NEW t \in Tcb PROVE ThreadOK(t)'
  <2>1. t # cur => at'[t] = at[t] /\ (t \in irq' <=> t \in irq)
    BY <1>1, StepFacts
  <2>2. WaitsFor(t)' \/ (at'[t] = at[t] /\ (t \in irq' <=> t \in irq))
    BY <1>11, <2>1
  <2> QED BY <1>1, <1>3, <1>4, <2>2, SwitchKeepsThread DEF Printing, PrintFrame, q
<1>13. ThreadInv'
  <2>1. (\A t \in Tcb : ThreadOK(t))'
    BY <1>12
  <2> QED BY <2>1 DEF ThreadInv, ThreadOK
<1>14. Idle'
  BY <1>3, <1>4, SwitchTop DEF CallInv, Idle, Moved
<1>15. \A l \in Lock : ~Taken(l)
  BY <1>3, StepFacts DEF TakenTop
<1> QED BY <1>1, <1>13, <1>14, <1>15, IdleKeepsTop

(***************************************************************************)
(* The handlers that print call lock_acquire, and lock_release after it.    *)
(***************************************************************************)
LEMMA PrintHandlerKeeps ==
    ASSUME CallInv, BaseInv', StackInv', LinkInv', PrintHandler
    PROVE  ThreadInv' /\ TopInv'
<1>1. cur' = cur /\ UNCHANGED <<at, cs, irq, holder, val>>
  BY DEF PrintHandler, threads, svars
<1>2. /\ stack[cur] # <<>> /\ Top.fn = "int" /\ Sane(cur, Top)
      /\ Top.node \in Tcb \cup {NoTcb}
  BY DoingFacts DEF PrintHandler, IntHandler
<1>3. \A l \in Lock : ~Taken(l)
  BY <1>2, StepFacts DEF TakenTop
<1>4. ASSUME NEW fn, Top'.fn = fn, Top'.pc = 1, fn \in {"lock_acquire", "lock_release"}
      PROVE  QueueingInv' /\ TokenInv'
  <2>1. QueueingInv'
    BY <1>4 DEF QueueingInv, Doing
  <2>2. \A l \in Lock : ~Taken(l)'
    BY <1>4, StepFacts DEF TakenTop
  <2>3. TokenInv'
    BY <1>1, <1>3, <2>2, TokenStep, TokenFrom DEF CallInv, TopInv
  <2> QED BY <2>1, <2>3
<1>5. CASE /\ IntHandler("print")
           /\ Call("lock_acquire", PrintkLock, 2, IF holder[PrintkLock] = cur THEN cur ELSE NoTcb)
  <2> DEFINE x == IF holder[PrintkLock] = cur THEN cur ELSE NoTcb
  <2>1. x \in Tcb \cup {NoTcb} /\ Top.pc = 1
    BY <1>5, StepFacts DEF IntHandler, Doing
  <2> HIDE DEF x
  <2>2. Pushes(2, x, "lock_acquire", PrintkLock)
    BY <1>1, <1>2, <1>5, <2>1, StepFacts, LockCallPushes DEF CallInv, x
  <2>3. ThreadOK(cur)'
    BY <1>1, <1>2, <2>1, <2>2, PushKeepsThread DEF CallInv, Printing, PrintFrame
  <2>4. CurOnly
    BY <1>1, <2>2, CurOnlyWhen DEF CallInv, Pushes
  <2>5. Top'.fn = "lock_acquire" /\ Top'.pc = 1 /\ Under'.node = x
    BY <1>2, <2>2, PushTop DEF CallInv, Moved
  <2>6. HandlerInv'
    BY <1>1, <2>5 DEF HandlerInv, Doing, x
  <2> QED BY <1>4, <2>3, <2>4, <2>5, <2>6, CurOnlyKeeps DEF CallInv, TopInv
<1>6. CASE Doing("int", 2) /\ Call("lock_release", PrintkLock, 3, Top.node)
  <2>1. Pushes(3, Top.node, "lock_release", PrintkLock)
    BY <1>1, <1>2, <1>6, StepFacts, LockCallPushes DEF CallInv
  <2>2. ThreadOK(cur)'
    BY <1>1, <1>2, <2>1, PushKeepsThread DEF CallInv, Printing
  <2>3. CurOnly
    BY <1>1, <2>1, CurOnlyWhen DEF CallInv, Pushes
  <2>4. Top'.fn = "lock_release" /\ Top'.pc = 1
    BY <2>1, PushTop DEF CallInv
  <2>5. holder[PrintkLock] = cur
    <3>1. Len(stack[cur]) > 0
      BY <1>2, TopLinked DEF CallInv
    <3> QED BY <1>6, <3>1 DEF CallInv, TopInv, HandlerInv
  <2>6. HandlerInv'
    BY <1>1, <2>4, <2>5 DEF HandlerInv, Doing
  <2> QED BY <1>4, <2>2, <2>3, <2>4, <2>6, CurOnlyKeeps DEF CallInv, TopInv
<1> QED BY <1>5, <1>6 DEF PrintHandler

(***************************************************************************)
(* A handler returns: the thread is where it was interrupted.               *)
(***************************************************************************)
LEMMA IretKeeps ==
    ASSUME CallInv, BaseInv', StackInv', LinkInv', Iret
    PROVE  ThreadInv' /\ TopInv'
<1>1. Doing("int", 3) /\ cur' = cur /\ UNCHANGED <<at, cs, irq, holder, val>>
  BY DEF Iret, threads, svars
<1>2. /\ stack[cur] # <<>> /\ Top.fn = "int" /\ Top.pc = 3
      /\ Len(stack[cur]) = 1 \/ Len(stack[cur]) > 1
      /\ Len(stack[cur]) > 1 => On(Top, Under)
  BY <1>1, DoingFacts
<1>3. Pops(Top.cond)
  BY <1>1, <1>2, ReturnPops DEF CallInv, Iret
<1>4. Printing(Top) => at[cur] = NoSem /\ cur \notin irq
  <2> SUFFICES ASSUME Printing(Top) PROVE at[cur] = NoSem /\ cur \notin irq
    OBVIOUS
  <2>1. Len(stack[cur]) > 0
    BY <1>2, TopLinked DEF CallInv
  <2>2. at[cur] = NoSem
    BY <1>1, <2>1 DEF CallInv, TopInv, HandlerInv, Printing
  <2> QED BY <2>2, StepFacts DEF CallInv, ThreadInv, WaitsFor
<1>5. ThreadOK(cur)'
  BY <1>1, <1>2, <1>3, <1>4, PopKeepsThread DEF CallInv
<1>6. CurOnly
  BY <1>1, <1>3, CurOnlyWhen DEF CallInv, Pops
<1>7. Idle'
  BY <1>2, <1>3, PopTop DEF CallInv, On, Idle
<1>8. \A l \in Lock : ~Taken(l)
  BY <1>2, StepFacts DEF TakenTop
<1>9. TopInv'
  BY <1>1, <1>7, <1>8, IdleKeepsTop
<1> QED BY <1>5, <1>6, <1>9, CurOnlyKeeps DEF CallInv

(***************************************************************************)
(* An interrupt or a page fault.                                           *)
(***************************************************************************)
LEMMA GateKeeps ==
    ASSUME CallInv, BaseInv', StackInv', LinkInv', NEW m \in 0 .. 47, Gate(m), cur' = cur,
           UNCHANGED <<at, cs, irq, holder, val>>,
           stack[cur] = <<>> \/ Top.fn = "switch_to"
    PROVE  ThreadInv' /\ TopInv'
<1>1. Pushes(Top.pc, Top.node, "int", m)
  BY GatePushes DEF CallInv
<1>2. ThreadOK(cur)'
  BY <1>1, PushKeepsThread DEF CallInv, Printing, PrintFrame
<1>3. CurOnly
  BY <1>1, CurOnlyWhen DEF CallInv, Pushes
<1>4. Idle'
  BY <1>1, PushTop DEF CallInv, Idle
<1>5. \A l \in Lock : ~Taken(l)
  BY StepFacts DEF TakenTop
<1>6. TopInv'
  BY <1>4, <1>5, IdleKeepsTop
<1> QED BY <1>2, <1>3, <1>6, CurOnlyKeeps DEF CallInv

(***************************************************************************)
(* A thread is created outside all operations.                              *)
(***************************************************************************)
LEMMA CreateThreadKeeps ==
    ASSUME CallInv, BaseInv', StackInv', LinkInv', NEW t \in Tcb, CreateThread(t)
    PROVE  ThreadInv' /\ TopInv'
<1>1. /\ stack[cur] = <<>> /\ stack' = stack /\ cur' = cur
      /\ UNCHANGED <<at, cs, irq, holder, val>>
  BY DEF CreateThread, AtBase, Create, create_thread, svars
<1>2. ThreadInv'
  BY <1>1 DEF CallInv, ThreadInv, WaitsFor, Base, NotMine
<1>3. Idle'
  BY <1>1 DEF Idle
<1>4. \A l \in Lock : ~Taken(l)
  BY <1>1, StepFacts DEF TakenTop
<1> QED BY <1>1, <1>2, <1>3, <1>4, IdleKeepsTop

(***************************************************************************)
(* Steps of the controllers alone.                                         *)
(***************************************************************************)
LEMMA NothingKeeps ==
    ASSUME CallInv, UNCHANGED <<vars, stack>>
    PROVE  ThreadInv' /\ TopInv'
<1>1. UNCHANGED <<stack, cur, at, cs, irq, holder, val, wait, status>>
  BY DEF vars, tvars, svars
<1>2. ThreadInv'
  BY <1>1 DEF CallInv, ThreadInv, WaitsFor, Base, NotMine
<1>3. HandlerInv'
  BY <1>1 DEF CallInv, TopInv, HandlerInv, Doing, Top, Under
<1>4. QueueingInv'
  BY <1>1 DEF CallInv, TopInv, QueueingInv, Doing, Top
<1>5. TokenInv'
  BY <1>1 DEF CallInv, TopInv, TokenInv, Granted, Dropping, PostFrames, Doing, Top
<1> QED BY <1>2, <1>3, <1>4, <1>5 DEF TopInv

-----------------------------------------------------------------------------
(***************************************************************************)
(* Every step keeps the invariant.                                         *)
(***************************************************************************)
LEMMA CallInvInit == IntInit => CallInv
<1> SUFFICES ASSUME IntInit PROVE CallInv
  OBVIOUS
<1>1. BaseInv /\ StackInv
  BY StackInit
<1>2. /\ stack = [t \in Tcb |-> <<>>] /\ cur \in Tcb
      /\ \A t \in Tcb : at[t] = NoSem
      /\ \A l \in Lock : holder[l] = NoTcb /\ val[l] = 1
      /\ irq = {}
  BY <1>1, CurFacts, SyncAssumption DEF IntInit, SyncInit, Sem
<1>3. LinkInv
  BY <1>2 DEF LinkInv, Linked, Open, Parked
<1>4. ThreadInv
  BY <1>2 DEF ThreadInv, WaitsFor, Base, NotMine
<1>5. Idle
  BY <1>2 DEF Idle
<1>6. IdleTakes
  BY <1>1, <1>3, <1>5, IdleIs
<1>7. TokenInv
  BY <1>2, <1>6, SyncAssumption DEF TokenInv, IdleTakes, Taken, Sem
<1> QED BY <1>1, <1>3, <1>4, <1>6, <1>7 DEF CallInv, TopInv, IdleTakes

(***************************************************************************)
(* Every step keeps the invariant of the call stacks.                       *)
(***************************************************************************)
LEMMA CallInvStep == CallInv /\ [IntNext]_ivars => CallInv'
<1> SUFFICES ASSUME CallInv, [IntNext]_ivars
             PROVE  ThreadInv' /\ TopInv' /\ BaseInv' /\ StackInv' /\ LinkInv'
  BY DEF CallInv
<1>1. BaseInv' /\ StackInv'
  BY StackStep DEF CallInv
<1>2. LinkInv'
  BY <1>1, LinkStep DEF CallInv, TopInv
<1>3. ASSUME Proceed PROVE ThreadInv' /\ TopInv'
  BY <1>1, <1>2, <1>3, SwitchEoiKeeps, AcquireTestsKeeps, AcquireOwnsKeeps, SemPQueuesKeeps,
     SemPTakesKeeps, BlockSwitchesKeeps, BlockReturnsKeeps, ReleaseTestsKeeps,
     ReleaseReturnsKeeps, SemVUnlinksKeeps, SemVRaisesKeeps, WakeupReadiesKeeps,
     TimerHandlerKeeps, PrintHandlerKeeps, IretKeeps DEF Proceed
<1>4. ASSUME NEW l \in Lock, CallAcquire(l) \/ CallRelease(l) PROVE ThreadInv' /\ TopInv'
  BY <1>1, <1>2, <1>4, LockCallKeeps
<1>5. ASSUME NEW t \in Tcb, CreateThread(t) PROVE ThreadInv' /\ TopInv'
  BY <1>1, <1>2, <1>5, CreateThreadKeeps
<1>6. ASSUME NEW i \in Irq, Interrupt(i) PROVE ThreadInv' /\ TopInv'
  <2>1. /\ iflag[cur] /\ Gate(32 + i) /\ cur' = cur /\ UNCHANGED <<at, cs, irq, holder, val>>
    BY <1>6 DEF Interrupt, threads, svars
  <2>2. 32 + i \in 0 .. 47
    BY IrqAssumption
  <2>3. stack[cur] = <<>> \/ Top.fn = "switch_to"
    BY <2>1, TopLinked DEF CallInv
  <2> QED BY <1>1, <1>2, <2>1, <2>2, <2>3, GateKeeps
<1>7. ASSUME PageFault PROVE ThreadInv' /\ TopInv'
  <2>1. PageFaultVector \in 0 .. 47
    BY DEF PageFaultVector
  <2> QED BY <1>1, <1>2, <1>7, <2>1, GateKeeps DEF PageFault, threads, svars
<1>8. ASSUME NEW i \in Irq, Raise(i) PROVE ThreadInv' /\ TopInv'
  BY <1>8, NothingKeeps DEF Raise
<1>9. ASSUME UNCHANGED ivars PROVE ThreadInv' /\ TopInv'
  BY <1>9, NothingKeeps DEF ivars
<1> QED BY <1>1, <1>2, <1>3, <1>4, <1>5, <1>6, <1>7, <1>8, <1>9 DEF IntNext

(***************************************************************************)
(* An interrupt finds no operation half done: while the flag is set the    *)
(* running thread is outside every function that begins with cli_condition *)
(* and outside every handler, or is a new thread in switch_to before its   *)
(* EOI.  The inner sti_condition of a nested pair never sets the flag.     *)
(***************************************************************************)
THEOREM OperationsAreShielded ==
    IntSpec => [](iflag[cur] => stack[cur] = <<>> \/ (Len(stack[cur]) = 1 /\ Top.fn = "switch_to"))
<1>1. CallInv => (iflag[cur] => stack[cur] = <<>> \/ (Len(stack[cur]) = 1 /\ Top.fn = "switch_to"))
  BY TopLinked DEF CallInv
<1> QED BY <1>1, CallInvInit, CallInvStep, PTL DEF IntSpec

(***************************************************************************)
(* The token of a lock is never lost or doubled, at any step of            *)
(* lock_acquire, sem_P, lock_release and sem_V, with handlers that print   *)
(* in between: the value of the lock's semaphore is 1 exactly when there   *)
(* is no holder and the token is not on its way from sem_P to the holder   *)
(* field or from the holder field to sem_V.                                *)
(***************************************************************************)
THEOREM TokensAreKept ==
    IntSpec => [](\A l \in Lock :
                    val[l] = IF holder[l] = NoTcb /\ ~Granted(l) /\ ~Dropping(l) THEN 1 ELSE 0)
<1>1. CallInv => \A l \in Lock :
         val[l] = IF holder[l] = NoTcb /\ ~Granted(l) /\ ~Dropping(l) THEN 1 ELSE 0
  BY DEF CallInv, TopInv, TokenInv
<1> QED BY <1>1, CallInvInit, CallInvStep, PTL DEF IntSpec
=============================================================================
