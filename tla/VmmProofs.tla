----------------------------- MODULE VmmProofs ------------------------------
(***************************************************************************)
(* Proofs about the kernel's virtual memory, one thread at a time, for     *)
(* every size of the bitmap, of the page tables and of the memory: no page *)
(* is given out twice, the bitmap says who has what, and pages in use have *)
(* frames of their own.                                                    *)
(***************************************************************************)
EXTENDS Vmm, NumberProofs, FiniteSetTheorems

(***************************************************************************)
(* The local variables of a thread.                                        *)
(***************************************************************************)
Pcs == {"idle", "stopped", "alloc", "alloc_one_page", "load", "store", "frame", "map",
        "unmap", "user_alloc", "user_table", "user_frame"}

Local ==
    [pc : Pcs, op : {"none", "sub", "clean", "release"}, page : Nat, reg : Nat, left : Nat,
     first : Nat, n : Nat, use : {"none", "bitmap", "pdt", "tcb"}, frame : Int, table : BOOLEAN]

Holding == [first : Nat, n : Nat \ {0}, use : {"none", "bitmap", "pdt", "tcb"}]

\* The pages of what a caller may release.
Run(h) == h.first .. (h.first + h.n - 1)

\* Where a thread with locals r is: giving out pages, or taking them back.
Allocating(r) ==
    \/ r.pc \in {"alloc_one_page", "frame", "map"}
    \/ r.pc \in {"load", "store"} /\ r.op \in {"sub", "clean"}

Releasing(r) == r.pc = "unmap" \/ (r.pc \in {"load", "store"} /\ r.op = "release")

\* The pages of a run that it has got so far, and those it has still to release.
Got(r) == {v \in r.first .. (r.page - 1) : Allocating(r)}
ToRelease(r) == {v \in r.page .. (r.page + r.left - 1) : Releasing(r)}

(***************************************************************************)
(* The pages that are not free in the bitmap although nobody has them yet, *)
(* or any more.                                                            *)
(***************************************************************************)
Pending(r) ==
    {v \in {r.page} : r.pc \in {"frame", "map"} \/ (r.pc \in {"load", "store"} /\ r.op = "clean")}
        \cup {v \in ToRelease(r) : r.pc # "unmap" \/ v # r.page}

(***************************************************************************)
(* What is so of the locals of a thread, wherever it is.                   *)
(***************************************************************************)
LocalInv(r) ==
    /\ r.pc = "alloc" => r.left = r.n /\ r.n >= 1
    /\ r.pc \in {"load", "store", "frame", "map", "unmap", "user_table"} => r.page \in Page
    /\ r.pc \in {"load", "store"} => r.op # "none" /\ (r.op = "sub" => IsFree(r.page))
    /\ r.pc = "store" => r.reg = bits[ByteOf(r.page)]
    /\ r.pc = "unmap" => r.op = "release"
    /\ Allocating(r) \/ Releasing(r) => r.left >= 1
    /\ Allocating(r) => r.first <= r.page /\ r.page + r.left = r.first + r.n
    /\ \A v \in Got(r) : v \in Page \ Sys /\ alloc[v] = 1 /\ \A h \in held : v \notin Run(h)
    /\ \A v \in Pending(r) \cup ToRelease(r) : v \in Page \ Sys /\ alloc[v] = 0
    /\ r.pc = "user_table" =>
          r.page \notin Sys /\ alloc[r.page] = 1 /\ \A h \in held : r.page \notin Run(h)

(***************************************************************************)
(* The inductive invariant.                                                *)
(***************************************************************************)
VmmTypes ==
    /\ bits \in [0 .. (LENGTH - 1) -> 0 .. (Pow2[BITS] - 1)]
    /\ frames \in SUBSET ((KernPages + 1) .. (KernPages + NFrames))
    /\ alloc \in [Page -> 0 .. 1]
    /\ held \in SUBSET Holding
    /\ th \in [Thread -> Local]

BitmapInv ==
    \A v \in Page : IsFree(v) <=> alloc[v] = 0 /\ \A t \in Thread : v \notin Pending(th[t])

HeldInv ==
    /\ \A h \in held : \A v \in Run(h) : v \in Page \ Sys /\ alloc[v] = 1
    /\ \A h, g \in held : h # g => Run(h) \cap Run(g) = {}

SysInv == \A v \in Sys : alloc[v] = 1

PageInv ==
    /\ VmmTypes
    /\ BitmapInv
    /\ HeldInv
    /\ SysInv
    /\ \A t, u \in Thread : t # u => Resting(t) \/ Resting(u)
    /\ \A t \in Thread : LocalInv(th[t])

-----------------------------------------------------------------------------
(***************************************************************************)
(* The byte and the bit of a page; two pages of the same byte have         *)
(* different bits.                                                         *)
(***************************************************************************)
Bit(v) == BITS - 1 - (v % BITS)

LEMMA PagePlace ==
    /\ \A v \in Page : v \in Nat /\ ByteOf(v) \in 0 .. (LENGTH - 1) /\ Bit(v) \in 0 .. (BITS - 1)
    /\ \A u, v \in Page : ByteOf(u) = ByteOf(v) /\ Bit(u) = Bit(v) => u = v
<1>1. BITS \in Nat \ {0} /\ LENGTH \in Nat
  BY VmmAssumption
<1>2. ASSUME NEW v \in Page
      PROVE  /\ v \in Nat /\ ByteOf(v) \in 0 .. (LENGTH - 1) /\ Bit(v) \in 0 .. (BITS - 1)
             /\ v = BITS * ByteOf(v) + (BITS - 1 - Bit(v))
  <2>1. LENGTH * BITS \in Nat /\ v \in Nat /\ v < LENGTH * BITS
    BY <1>1 DEF Page
  <2>2. /\ v = BITS * (v \div BITS) + (v % BITS) /\ v % BITS \in 0 .. (BITS - 1)
        /\ v \div BITS \in Nat
    BY <1>1, <2>1
  <2>3. v \div BITS < LENGTH
    <3> DEFINE q == v \div BITS
    <3>1. q \in Nat /\ BITS * q < LENGTH * BITS
      BY <2>1, <2>2, <1>1
    <3> HIDE DEF q
    <3>2. q < LENGTH
      BY <1>1, <3>1
    <3> QED BY <3>2 DEF q
  <2> QED BY <1>1, <2>1, <2>2, <2>3 DEF ByteOf, Bit
<1>3. ASSUME NEW u \in Page, NEW v \in Page, ByteOf(u) = ByteOf(v), Bit(u) = Bit(v)
      PROVE  u = v
  BY <1>2, <1>3
<1> QED BY <1>2, <1>3

(***************************************************************************)
(* What the store of bitmap_alloc does to the bitmap if the bit is 1: it   *)
(* clears the page's bit and no other.                                     *)
(***************************************************************************)
LEMMA StoreSubtracts ==
    ASSUME VmmTypes, NEW v \in Page, IsFree(v),
           bits' = [bits EXCEPT ![ByteOf(v)] = Subtracted(bits[ByteOf(v)], Mask(v))]
    PROVE  /\ bits' \in [0 .. (LENGTH - 1) -> 0 .. (Pow2[BITS] - 1)]
           /\ \A u \in Page : IsFree(u)' <=> IsFree(u) /\ u # v
<1> DEFINE i == ByteOf(v)
           b == bits[i]
           c == Subtracted(b, Mask(v))
<1>1. BITS \in Nat \ {0} /\ Pow2[BITS] \in Nat \ {0}
  BY VmmAssumption, Pow2Steps
<1>2. i \in 0 .. (LENGTH - 1) /\ Bit(v) \in 0 .. (BITS - 1)
  BY PagePlace
<1>3. b \in Nat /\ b < Pow2[BITS]
  BY <1>1, <1>2 DEF VmmTypes
<1>4. \A u \in Page : Mask(u) = Pow2[Bit(u)] /\ (IsFree(u) <=> BitAt(bits[ByteOf(u)], Pow2[Bit(u)]))
  BY DEF Mask, Bit, IsFree, BitAt
<1>5. BitAt(b, Pow2[Bit(v)])
  BY <1>4
<1>6. /\ c \in Nat /\ c < Pow2[BITS]
      /\ \A j \in 0 .. (BITS - 1) : BitAt(c, Pow2[j]) <=> j # Bit(v) /\ BitAt(b, Pow2[j])
  <2>1. c = (b - Pow2[Bit(v)]) % Pow2[BITS]
    BY <1>4 DEF Subtracted
  <2> HIDE DEF b, c
  <2> QED BY <2>1, <1>1, <1>2, <1>3, <1>5, SubtractBit
<1> HIDE DEF b, c, i
<1>7. bits' = [bits EXCEPT ![i] = c]
  BY DEF b, c, i
<1>8. bits' \in [0 .. (LENGTH - 1) -> 0 .. (Pow2[BITS] - 1)]
  <2>1. c \in 0 .. (Pow2[BITS] - 1)
    BY <1>1, <1>6
  <2> QED BY <2>1, <1>7 DEF VmmTypes
<1>9. ASSUME NEW u \in Page PROVE IsFree(u)' <=> IsFree(u) /\ u # v
  <2>1. IsFree(u)' <=> BitAt(bits'[ByteOf(u)], Pow2[Bit(u)])
    BY DEF IsFree, BitAt, Mask, Bit
  <2>2. Bit(u) \in 0 .. (BITS - 1) /\ ByteOf(u) \in 0 .. (LENGTH - 1)
    BY PagePlace
  <2>3. CASE ByteOf(u) = i
    <3>1. bits'[ByteOf(u)] = c
      BY <2>3, <1>2, <1>7 DEF VmmTypes
    <3>2. Bit(u) = Bit(v) <=> u = v
      BY <2>3, PagePlace DEF i
    <3>3. IsFree(u) <=> BitAt(b, Pow2[Bit(u)])
      BY <2>3, <1>4 DEF b
    <3> QED BY <3>1, <3>2, <3>3, <2>1, <2>2, <1>6
  <2>4. CASE ByteOf(u) # i
    <3>1. bits'[ByteOf(u)] = bits[ByteOf(u)]
      BY <2>2, <2>4, <1>7 DEF VmmTypes
    <3>2. u # v
      BY <2>4 DEF i
    <3> QED BY <3>1, <3>2, <2>1, <1>4
  <2> QED BY <2>3, <2>4
<1> QED BY <1>8, <1>9

(***************************************************************************)
(* What the store of bitmap_release_one_page does: it sets the page's bit  *)
(* and no other, whatever the bit was.                                     *)
(***************************************************************************)
LEMMA StoreSets ==
    ASSUME VmmTypes, NEW v \in Page,
           bits' = [bits EXCEPT ![ByteOf(v)] = Set(bits[ByteOf(v)], Mask(v))]
    PROVE  /\ bits' \in [0 .. (LENGTH - 1) -> 0 .. (Pow2[BITS] - 1)]
           /\ \A u \in Page : IsFree(u)' <=> IsFree(u) \/ u = v
<1> DEFINE i == ByteOf(v)
           b == bits[i]
           c == Set(b, Mask(v))
<1>1. BITS \in Nat \ {0} /\ Pow2[BITS] \in Nat \ {0}
  BY VmmAssumption, Pow2Steps
<1>2. i \in 0 .. (LENGTH - 1) /\ Bit(v) \in 0 .. (BITS - 1) /\ Pow2[Bit(v)] \in Nat
  BY PagePlace, Pow2Steps
<1>3. b \in Nat /\ b < Pow2[BITS]
  BY <1>1, <1>2 DEF VmmTypes
<1>4. \A u \in Page : Mask(u) = Pow2[Bit(u)] /\ (IsFree(u) <=> BitAt(bits[ByteOf(u)], Pow2[Bit(u)]))
  BY DEF Mask, Bit, IsFree, BitAt
<1>5. /\ c \in Nat /\ c < Pow2[BITS]
      /\ \A j \in 0 .. (BITS - 1) : BitAt(c, Pow2[j]) <=> j = Bit(v) \/ BitAt(b, Pow2[j])
  <2>1. c = IF BitAt(b, Pow2[Bit(v)]) THEN b ELSE b + Pow2[Bit(v)]
    BY <1>4 DEF Set, BitAt
  <2> HIDE DEF b, c
  <2>2. CASE BitAt(b, Pow2[Bit(v)])
    BY <2>1, <2>2, <1>3
  <2>3. CASE ~BitAt(b, Pow2[Bit(v)])
    BY <2>1, <2>3, <1>1, <1>2, <1>3, AddBit
  <2> QED BY <2>2, <2>3
<1> HIDE DEF b, c, i
<1>7. bits' = [bits EXCEPT ![i] = c]
  BY DEF b, c, i
<1>8. bits' \in [0 .. (LENGTH - 1) -> 0 .. (Pow2[BITS] - 1)]
  <2>1. c \in 0 .. (Pow2[BITS] - 1)
    BY <1>1, <1>5
  <2> QED BY <2>1, <1>7 DEF VmmTypes
<1>9. ASSUME NEW u \in Page PROVE IsFree(u)' <=> IsFree(u) \/ u = v
  <2>1. IsFree(u)' <=> BitAt(bits'[ByteOf(u)], Pow2[Bit(u)])
    BY DEF IsFree, BitAt, Mask, Bit
  <2>2. Bit(u) \in 0 .. (BITS - 1) /\ ByteOf(u) \in 0 .. (LENGTH - 1)
    BY PagePlace
  <2>3. CASE ByteOf(u) = i
    <3>1. bits'[ByteOf(u)] = c
      BY <2>3, <1>2, <1>7 DEF VmmTypes
    <3>2. Bit(u) = Bit(v) <=> u = v
      BY <2>3, PagePlace DEF i
    <3>3. IsFree(u) <=> BitAt(b, Pow2[Bit(u)])
      BY <2>3, <1>4 DEF b
    <3> QED BY <3>1, <3>2, <3>3, <2>1, <2>2, <1>5
  <2>4. CASE ByteOf(u) # i
    <3>1. bits'[ByteOf(u)] = bits[ByteOf(u)]
      BY <2>2, <2>4, <1>7 DEF VmmTypes
    <3>2. u # v
      BY <2>4 DEF i
    <3> QED BY <3>1, <3>2, <2>1, <1>4
  <2> QED BY <2>3, <2>4
<1> QED BY <1>8, <1>9

-----------------------------------------------------------------------------
\* All threads but t are outside this code.
Alone(t) == \A u \in Thread \ {t} : Resting(u)

(***************************************************************************)
(* A thread that is outside this code has no page pending.                 *)
(***************************************************************************)
LEMMA RestingLocals ==
    ASSUME NEW r \in Local, r.pc \in {"idle", "stopped"}
    PROVE  Pending(r) = {} /\ Got(r) = {} /\ ToRelease(r) = {} /\ LocalInv(r)
<1>1. ~Allocating(r) /\ ~Releasing(r)
  BY DEF Allocating, Releasing
<1>2. Got(r) = {} /\ ToRelease(r) = {}
  BY <1>1 DEF Got, ToRelease
<1>3. Pending(r) = {}
  BY <1>2 DEF Pending
<1> QED BY <1>1, <1>2, <1>3 DEF LocalInv

(***************************************************************************)
(* What a thread that is alone in this code can rely on.                   *)
(***************************************************************************)
LEMMA AloneFacts ==
    ASSUME PageInv, NEW t \in Thread, Alone(t)
    PROVE  /\ th[t] \in Local /\ LocalInv(th[t])
           /\ \A v \in Page : IsFree(v) <=> alloc[v] = 0 /\ v \notin Pending(th[t])
<1>1. th \in [Thread -> Local]
  BY DEF PageInv, VmmTypes
<1>2. ASSUME NEW u \in Thread \ {t} PROVE Pending(th[u]) = {}
  BY <1>1, <1>2, RestingLocals DEF Alone, Resting
<1> QED BY <1>1, <1>2 DEF PageInv, BitmapInv

(***************************************************************************)
(* What has to be shown of a step of a thread that is alone: r are its     *)
(* locals after the step.                                                  *)
(***************************************************************************)
LEMMA StepKeepsPages ==
    ASSUME PageInv, NEW t \in Thread, Alone(t), NEW r \in Local, Goto(t, r),
           bits' \in [0 .. (LENGTH - 1) -> 0 .. (Pow2[BITS] - 1)],
           frames' \subseteq frames,
           alloc' \in [Page -> 0 .. 1],
           held' \in SUBSET Holding,
           \A v \in Page : IsFree(v)' <=> alloc'[v] = 0 /\ v \notin Pending(r),
           HeldInv', SysInv', LocalInv(r)'
    PROVE  PageInv'
<1>1. th \in [Thread -> Local] /\ th' = [th EXCEPT ![t] = r]
  BY DEF PageInv, VmmTypes, Goto
<1>2. th' \in [Thread -> Local] /\ th'[t] = r /\ \A u \in Thread \ {t} : th'[u] = th[u]
  BY <1>1
<1>3. ASSUME NEW u \in Thread \ {t}
      PROVE  /\ th[u].pc \in {"idle", "stopped"} /\ th[u] \in Local
             /\ Pending(th[u]) = {} /\ LocalInv(th[u])'
  <2>1. th[u].pc \in {"idle", "stopped"} /\ th[u] \in Local
    BY <1>1, <1>3 DEF Alone, Resting
  <2>2. PICK x \in Local : x = th[u]
    BY <2>1
  <2>3. ~Allocating(x) /\ ~Releasing(x) /\ Got(x) = {} /\ Pending(x) = {} /\ ToRelease(x) = {}
    BY <2>1, <2>2, RestingLocals DEF Allocating, Releasing
  <2>4. LocalInv(x)'
    BY <2>1, <2>2, <2>3 DEF LocalInv
  <2>5. th'[u] = x
    BY <2>2, <1>2
  <2>6. LocalInv(th[u])'
    BY <2>4, <2>5 DEF LocalInv, IsFree
  <2> QED BY <2>1, <2>2, <2>3, <2>6
<1>4. VmmTypes'
  BY <1>2 DEF VmmTypes, PageInv
<1>5. BitmapInv'
  <2> SUFFICES ASSUME NEW v \in Page
               PROVE  IsFree(v)' <=> alloc'[v] = 0 /\ \A u \in Thread : v \notin Pending(th'[u])
    BY DEF BitmapInv
  <2>1. (\A u \in Thread : v \notin Pending(th'[u])) <=> v \notin Pending(r)
    BY <1>2, <1>3
  <2> QED BY <2>1
<1>6. ASSUME NEW x \in Thread, NEW u \in Thread, x # u PROVE Resting(x)' \/ Resting(u)'
  BY <1>2, <1>3, <1>6 DEF Resting
<1>7. LocalInv(th[t])'
  BY <1>2 DEF LocalInv, IsFree
<1> QED BY <1>3, <1>4, <1>5, <1>6, <1>7 DEF PageInv

(***************************************************************************)
(* A step that changes neither the bitmap nor who has what.                *)
(***************************************************************************)
LEMMA QuietStep ==
    ASSUME PageInv, NEW t \in Thread, Alone(t), NEW r \in Local, Goto(t, r),
           UNCHANGED <<bits, alloc, held>>, frames' \subseteq frames,
           Pending(r) = Pending(th[t]), LocalInv(r)
    PROVE  PageInv'
<1>1. LocalInv(r)'
  BY DEF LocalInv, IsFree
<1>2. HeldInv' /\ SysInv'
  BY DEF PageInv, HeldInv, SysInv
<1>3. \A v \in Page : IsFree(v)' <=> alloc'[v] = 0 /\ v \notin Pending(r)
  BY AloneFacts DEF IsFree
<1>4. /\ bits' \in [0 .. (LENGTH - 1) -> 0 .. (Pow2[BITS] - 1)]
      /\ alloc' \in [Page -> 0 .. 1] /\ held' \in SUBSET Holding
  BY DEF PageInv, VmmTypes
<1> QED BY <1>1, <1>2, <1>3, <1>4, StepKeepsPages

\* A thread with nothing of its own in the bitmap.
Empty(r) == ~Allocating(r) /\ ~Releasing(r)

(***************************************************************************)
(* Such a thread has no page pending, and its locals are as they should be *)
(* unless it is about to allocate, or has got a page for a page table.     *)
(***************************************************************************)
LEMMA EmptyLocals ==
    ASSUME NEW r \in Local, Empty(r)
    PROVE  /\ Pending(r) = {} /\ Got(r) = {} /\ ToRelease(r) = {}
           /\ r.pc \in {"user_alloc", "user_frame"} => LocalInv(r)
           /\ r.pc = "alloc" /\ r.left = r.n /\ r.n >= 1 => LocalInv(r)
<1>1. Got(r) = {} /\ ToRelease(r) = {}
  BY DEF Empty, Got, ToRelease
<1>2. Pending(r) = {}
  BY <1>1 DEF Empty, Allocating, Pending
<1> QED BY <1>1, <1>2 DEF Empty, Allocating, LocalInv

(***************************************************************************)
(* The locals of a thread that begins or ends a call.                      *)
(***************************************************************************)
LEMMA IdleIsLocal ==
    /\ Idle \in Local /\ Idle.pc = "idle" /\ Empty(Idle)
    /\ [Idle EXCEPT !.pc = "user_alloc"] \in Local
    /\ \A n \in Nat, use \in {"bitmap", "pdt", "tcb"} :
          [Idle EXCEPT !.pc = "alloc", !.left = n, !.n = n, !.use = use] \in Local
<1>1. NoFrame \in Int
  BY DEF NoFrame
<1>2. Idle \in Local /\ Idle.pc = "idle"
  BY <1>1 DEF Idle, Local, Pcs
<1>3. Empty(Idle)
  BY <1>2 DEF Empty, Allocating, Releasing
<1>4. [Idle EXCEPT !.pc = "user_alloc"] \in Local
  BY <1>2 DEF Local, Pcs
<1>5. ASSUME NEW n \in Nat, NEW use \in {"bitmap", "pdt", "tcb"}
      PROVE  [Idle EXCEPT !.pc = "alloc", !.left = n, !.n = n, !.use = use] \in Local
  BY <1>2 DEF Local, Pcs
<1> QED BY <1>2, <1>3, <1>4, <1>5

(***************************************************************************)
(* The steps before and after the bitmap: a caller asks for pages, or a    *)
(* user task is started and its pages are mapped.                          *)
(***************************************************************************)
LEMMA CallsKeepPages ==
    ASSUME PageInv, NEW t \in Thread, Alone(t),
           \/ create_user_task_bitmap(t) \/ create_user_task_pdt(t) \/ create_kern_thread(t)
           \/ start_user_task(t) \/ vmm_user_alloc_one_page(t)
           \/ create_user_page_table(t) \/ MapUserPage(t)
    PROVE  PageInv'
<1>1. th[t] \in Local /\ LocalInv(th[t])
  BY AloneFacts
<1>2. ASSUME NEW r \in Local, Goto(t, r), UNCHANGED <<bits, alloc, held>>, frames' \subseteq frames,
             Empty(th[t]), Empty(r),
             \/ r.pc \in {"idle", "stopped", "user_alloc", "user_frame"}
             \/ r.pc = "alloc" /\ r.left = r.n /\ r.n >= 1
      PROVE  PageInv'
  <2>1. Pending(r) = Pending(th[t])
    BY <1>1, <1>2, EmptyLocals
  <2>2. LocalInv(r)
    BY <1>2, EmptyLocals, RestingLocals
  <2> QED BY <1>2, <2>1, <2>2, QuietStep
<1>3. ASSUME NEW n \in Nat \ {0}, NEW use \in {"bitmap", "pdt", "tcb"}, Request(t, n, use)
      PROVE  PageInv'
  <2>1. PICK r \in Local : r = [Idle EXCEPT !.pc = "alloc", !.left = n, !.n = n, !.use = use]
    BY IdleIsLocal
  <2>2. /\ Empty(th[t]) /\ Empty(r) /\ r.pc = "alloc" /\ r.left = r.n /\ r.n >= 1
    BY <1>3, <2>1 DEF Request, At, Empty, Allocating, Releasing, Idle
  <2> QED BY <1>2, <1>3, <2>1, <2>2 DEF Request
<1>4. CASE create_user_task_bitmap(t) \/ create_user_task_pdt(t) \/ create_kern_thread(t)
  BY <1>3, <1>4, VmmAssumption DEF create_user_task_bitmap, create_user_task_pdt, create_kern_thread
<1>5. CASE start_user_task(t)
  <2>1. PICK r \in Local : r = [Idle EXCEPT !.pc = "user_alloc"]
    BY IdleIsLocal
  <2>2. Empty(th[t]) /\ Empty(r) /\ r.pc = "user_alloc"
    BY <1>5, <2>1 DEF start_user_task, At, Empty, Allocating, Releasing, Idle
  <2> QED BY <1>2, <1>5, <2>1, <2>2 DEF start_user_task
<1>6. CASE vmm_user_alloc_one_page(t)
  <2>1. PICK r \in Local : r = IF vmm_user_check_pt_present(t)
               THEN [th[t] EXCEPT !.pc = "user_frame"]
               ELSE [th[t] EXCEPT !.pc = "alloc", !.left = 1, !.n = 1, !.table = TRUE]
    BY <1>1 DEF Local, Pcs
  <2>2. /\ Empty(th[t]) /\ Empty(r)
        /\ r.pc = "user_frame" \/ (r.pc = "alloc" /\ r.left = r.n /\ r.n >= 1)
    BY <1>1, <1>6, <2>1 DEF vmm_user_alloc_one_page, At, Empty, Allocating, Releasing, Local
  <2> QED BY <1>2, <1>6, <2>1, <2>2 DEF vmm_user_alloc_one_page
<1>7. CASE create_user_page_table(t)
  <2>1. PICK r \in Local : r = [th[t] EXCEPT !.pc = "user_frame"]
    BY <1>1 DEF Local, Pcs
  <2>2. Empty(th[t]) /\ Empty(r) /\ r.pc = "user_frame"
    BY <1>1, <1>7, <2>1 DEF create_user_page_table, At, Empty, Allocating, Releasing, Local
  <2> QED BY <1>2, <1>7, <2>1, <2>2 DEF create_user_page_table
<1>8. CASE MapUserPage(t)
  <2>1. \E r \in Local : /\ Goto(t, r) /\ Empty(r)
                          /\ r.pc \in {"idle", "stopped", "user_alloc"}
    <3>1. Idle \in Local /\ [Idle EXCEPT !.pc = "user_alloc"] \in Local /\ Stopped(t) \in Local
      <4>1. Idle \in Local
        BY IdleIsLocal
      <4>2. \A r \in Local : [r EXCEPT !.pc = "user_alloc"] \in Local /\ [r EXCEPT !.pc = "stopped"] \in Local
        BY DEF Local, Pcs
      <4> QED BY <1>1, <4>1, <4>2 DEF Stopped
    <3>2. /\ Idle.pc = "idle" /\ [Idle EXCEPT !.pc = "user_alloc"].pc = "user_alloc"
          /\ Stopped(t).pc = "stopped"
      BY <1>1 DEF Idle, Stopped, Local
    <3>3. Empty(Idle) /\ Empty([Idle EXCEPT !.pc = "user_alloc"]) /\ Empty(Stopped(t))
      BY <3>2 DEF Empty, Allocating, Releasing
    <3>4. \/ Goto(t, Idle) \/ Goto(t, [Idle EXCEPT !.pc = "user_alloc"]) \/ Goto(t, Stopped(t))
      BY <1>8 DEF MapUserPage
    <3> QED BY <3>1, <3>2, <3>3, <3>4
  <2>2. Empty(th[t]) /\ frames' \subseteq frames /\ UNCHANGED <<bits, alloc, held>>
    BY <1>8 DEF MapUserPage, At, Empty, Allocating, Releasing
  <2> QED BY <1>2, <2>1, <2>2
<1> QED BY <1>4, <1>5, <1>6, <1>7, <1>8

(***************************************************************************)
(* What is pending, got and to be released, by the place in the code.      *)
(***************************************************************************)
LEMMA Places ==
    ASSUME NEW r \in Local
    PROVE  /\ r.pc = "alloc" => Empty(r) /\ Pending(r) = {}
           /\ r.pc = "alloc_one_page" => Allocating(r) /\ ~Releasing(r) /\ Pending(r) = {}
           /\ r.pc \in {"frame", "map"} => Allocating(r) /\ ~Releasing(r) /\ Pending(r) = {r.page}
           /\ r.pc \in {"load", "store"} /\ r.op = "sub" =>
                 Allocating(r) /\ ~Releasing(r) /\ Pending(r) = {}
           /\ r.pc \in {"load", "store"} /\ r.op = "clean" =>
                 Allocating(r) /\ ~Releasing(r) /\ Pending(r) = {r.page}
           /\ r.pc \in {"load", "store"} /\ r.op = "release" =>
                 ~Allocating(r) /\ Releasing(r) /\ Pending(r) = r.page .. (r.page + r.left - 1)
           /\ r.pc = "unmap" =>
                 /\ ~Allocating(r) /\ Releasing(r)
                 /\ Pending(r) = (r.page .. (r.page + r.left - 1)) \ {r.page}
           /\ Allocating(r) => Got(r) = r.first .. (r.page - 1)
           /\ ~Allocating(r) => Got(r) = {}
           /\ Releasing(r) => ToRelease(r) = r.page .. (r.page + r.left - 1)
           /\ ~Releasing(r) => ToRelease(r) = {}
<1>1. /\ Allocating(r) => Got(r) = r.first .. (r.page - 1)
      /\ ~Allocating(r) => Got(r) = {}
  BY DEF Got
<1>2. /\ Releasing(r) => ToRelease(r) = r.page .. (r.page + r.left - 1)
      /\ ~Releasing(r) => ToRelease(r) = {}
  BY DEF ToRelease
<1>3. CASE r.pc \in {"alloc", "alloc_one_page", "frame", "map"}
  BY <1>1, <1>2, <1>3 DEF Allocating, Releasing, Pending, Empty
<1>4. CASE r.pc \in {"load", "store"}
  <2>1. CASE r.op \in {"sub", "clean"}
    BY <1>1, <1>2, <1>4, <2>1 DEF Allocating, Releasing, Pending
  <2>2. CASE r.op = "release"
    BY <1>1, <1>2, <1>4, <2>2 DEF Allocating, Releasing, Pending
  <2> QED BY <1>1, <1>2, <1>4, <2>1, <2>2
<1>5. CASE r.pc = "unmap"
  BY <1>1, <1>2, <1>5 DEF Allocating, Releasing, Pending
<1> QED BY <1>1, <1>2, <1>3, <1>4, <1>5

(***************************************************************************)
(* A bit is chosen, its byte loaded, and a frame taken for the page.       *)
(***************************************************************************)
LEMMA SearchKeepsPages ==
    ASSUME PageInv, NEW t \in Thread, Alone(t),
           bitmap_alloc(t) \/ bitmap_alloc_one_page(t) \/ LoadByte(t) \/ pmm_alloc_one_page(t)
    PROVE  PageInv'
<1>1. th[t] \in Local /\ LocalInv(th[t])
  BY AloneFacts
<1>2. PICK s \in Local : s = th[t]
  BY <1>1
<1>3. ASSUME Goto(t, Stopped(t)), UNCHANGED <<bits, alloc, held>>, frames' \subseteq frames,
             Pending(s) = {}
      PROVE  PageInv'
  <2>1. Stopped(t) \in Local /\ Stopped(t).pc = "stopped"
    BY <1>1 DEF Stopped, Local, Pcs
  <2>2. PICK r \in Local : r = Stopped(t) /\ r.pc = "stopped"
    BY <2>1
  <2> QED BY <1>2, <1>3, <2>2, RestingLocals, QuietStep
<1>4. CASE bitmap_alloc(t)
  <2>1. s.pc = "alloc" /\ s.left = s.n /\ s.n >= 1 /\ Pending(s) = {}
    BY <1>1, <1>2, <1>4, Places DEF bitmap_alloc, At, LocalInv
  <2>2. CASE Goto(t, Stopped(t))
    BY <1>3, <1>4, <2>1, <2>2 DEF bitmap_alloc
  <2>3. ASSUME NEW v \in Page, IsFree(v),
               Goto(t, [th[t] EXCEPT !.pc = "load", !.op = "sub", !.page = v, !.first = v])
        PROVE  PageInv'
    <3>0. v \in Nat
      BY PagePlace
    <3>1. PICK r \in Local : r = [s EXCEPT !.pc = "load", !.op = "sub", !.page = v, !.first = v]
      BY <3>0 DEF Local, Pcs
    <3>2. /\ r.pc = "load" /\ r.op = "sub" /\ r.page = v /\ r.first = v /\ r.left = s.left /\ r.n = s.n
      BY <3>1 DEF Local
    <3>3. Pending(r) = {} /\ ToRelease(r) = {} /\ Got(r) = {} /\ Allocating(r) /\ ~Releasing(r)
      BY <3>0, <3>2, Places
    <3>4. LocalInv(r)
      BY <2>1, <2>3, <3>0, <3>2, <3>3 DEF LocalInv, Local
    <3> QED BY <1>2, <1>4, <2>1, <2>3, <3>1, <3>3, <3>4, QuietStep DEF bitmap_alloc
  <2> QED BY <1>4, <2>2, <2>3 DEF bitmap_alloc
<1>5. CASE bitmap_alloc_one_page(t)
  <2>1. s.pc = "alloc_one_page" /\ Pending(s) = {} /\ Allocating(s) /\ Got(s) = s.first .. (s.page - 1)
    BY <1>1, <1>2, <1>5, Places DEF bitmap_alloc_one_page, At
  <2>2. CASE Goto(t, Stopped(t))
    BY <1>3, <1>5, <2>1, <2>2 DEF bitmap_alloc_one_page
  <2>3. CASE /\ s.page \in Page /\ IsFree(s.page)
             /\ Goto(t, [th[t] EXCEPT !.pc = "load", !.op = "sub"])
    <3>1. PICK r \in Local : r = [s EXCEPT !.pc = "load", !.op = "sub"]
      BY DEF Local, Pcs
    <3>2. /\ r.pc = "load" /\ r.op = "sub" /\ r.page = s.page /\ r.first = s.first
          /\ r.left = s.left /\ r.n = s.n
      BY <3>1 DEF Local
    <3>3. Pending(r) = {} /\ ToRelease(r) = {} /\ Got(r) = Got(s) /\ Allocating(r) /\ ~Releasing(r)
      BY <2>1, <3>2, Places
    <3>4. LocalInv(r)
      BY <1>1, <1>2, <2>1, <2>3, <3>2, <3>3 DEF LocalInv, Local
    <3> QED BY <1>2, <1>5, <2>1, <2>3, <3>1, <3>3, <3>4, QuietStep DEF bitmap_alloc_one_page
  <2> QED BY <1>2, <1>5, <2>2, <2>3 DEF bitmap_alloc_one_page
<1>6. CASE LoadByte(t)
  <2>1. s.pc = "load" /\ s.page \in Page /\ s.op # "none"
    BY <1>1, <1>2, <1>6 DEF LoadByte, At, LocalInv
  <2>2. bits[ByteOf(s.page)] \in Nat
    <3>1. ByteOf(s.page) \in 0 .. (LENGTH - 1) /\ BITS \in Nat
      BY <2>1, PagePlace, VmmAssumption
    <3>2. Pow2[BITS] \in Nat
      BY <3>1, Pow2Steps
    <3>3. bits[ByteOf(s.page)] \in 0 .. (Pow2[BITS] - 1)
      BY <3>1 DEF PageInv, VmmTypes
    <3> QED BY <3>2, <3>3
  <2>3. PICK r \in Local : r = [s EXCEPT !.pc = "store", !.reg = bits[ByteOf(s.page)]]
    BY <2>2 DEF Local, Pcs
  <2>4. /\ r.pc = "store" /\ r.op = s.op /\ r.page = s.page /\ r.first = s.first
        /\ r.left = s.left /\ r.n = s.n /\ r.reg = bits[ByteOf(s.page)]
    BY <2>3 DEF Local
  <2>5. /\ Pending(r) = Pending(s) /\ ToRelease(r) = ToRelease(s) /\ Got(r) = Got(s)
        /\ Allocating(r) <=> Allocating(s)
        /\ Releasing(r) <=> Releasing(s)
    <3>1. s.op \in {"sub", "clean", "release"}
      BY <2>1 DEF Local
    <3> QED BY <2>1, <2>4, <3>1, Places
  <2>6. LocalInv(r)
    BY <1>1, <1>2, <2>1, <2>4, <2>5 DEF LocalInv
  <2> QED BY <1>2, <1>6, <2>3, <2>5, <2>6, QuietStep DEF LoadByte
<1>7. CASE pmm_alloc_one_page(t)
  <2>1. s.pc = "frame" /\ s.page \in Page /\ Allocating(s) /\ ~Releasing(s) /\ Pending(s) = {s.page}
    BY <1>1, <1>2, <1>7, Places DEF pmm_alloc_one_page, At, LocalInv
  <2>2. ASSUME NEW r \in Local, Goto(t, r),
               r.page = s.page, r.first = s.first, r.left = s.left, r.n = s.n,
               r.pc = "map" \/ (r.pc = "load" /\ r.op = "clean")
        PROVE  PageInv'
    <3>1. Pending(r) = Pending(s) /\ ToRelease(r) = {} /\ Got(r) = Got(s) /\ Allocating(r) /\ ~Releasing(r)
      BY <2>1, <2>2, Places
    <3>2. LocalInv(r)
      BY <1>1, <1>2, <2>1, <2>2, <3>1 DEF LocalInv
    <3> QED BY <1>2, <1>7, <2>2, <3>1, <3>2, QuietStep DEF pmm_alloc_one_page
  <2>3. ASSUME NEW f \in frames, Goto(t, [th[t] EXCEPT !.pc = "map", !.frame = f]) PROVE PageInv'
    <3>1. f \in Int
      BY VmmAssumption DEF PageInv, VmmTypes
    <3>2. PICK r \in Local : r = [s EXCEPT !.pc = "map", !.frame = f]
      BY <3>1 DEF Local, Pcs
    <3>3. r.pc = "map" /\ r.page = s.page /\ r.first = s.first /\ r.left = s.left /\ r.n = s.n
      BY <3>2 DEF Local
    <3> QED BY <1>2, <2>2, <2>3, <3>2, <3>3
  <2>4. CASE Goto(t, [th[t] EXCEPT !.pc = "load", !.op = "clean"])
    <3>2. PICK r \in Local : r = [s EXCEPT !.pc = "load", !.op = "clean"]
      BY DEF Local, Pcs
    <3>3. /\ r.pc = "load" /\ r.op = "clean" /\ r.page = s.page /\ r.first = s.first
          /\ r.left = s.left /\ r.n = s.n
      BY <3>2 DEF Local
    <3> QED BY <1>2, <2>2, <2>4, <3>2, <3>3
  <2> QED BY <1>7, <2>3, <2>4 DEF pmm_alloc_one_page
<1> QED BY <1>4, <1>5, <1>6, <1>7

(***************************************************************************)
(* The byte is stored: a page that was free is pending now, or a page that *)
(* was pending is free again.                                              *)
(***************************************************************************)
LEMMA StoreKeepsPages ==
    ASSUME PageInv, NEW t \in Thread, Alone(t), StoreByte(t)
    PROVE  PageInv'
<1>1. th[t] \in Local /\ LocalInv(th[t])
  BY AloneFacts
<1>2. PICK s \in Local : s = th[t]
  BY <1>1
<1>3. /\ s.pc = "store" /\ s.page \in Page /\ s.op \in {"sub", "clean", "release"}
      /\ s.reg = bits[ByteOf(s.page)]
      /\ bits' = [bits EXCEPT ![ByteOf(s.page)] =
                      IF s.op = "sub" THEN Subtracted(s.reg, Mask(s.page)) ELSE Set(s.reg, Mask(s.page))]
      /\ Goto(t, CASE s.op = "sub"     -> [s EXCEPT !.pc = "frame"]
                   [] s.op = "clean"   -> Stopped(t)
                   [] s.op = "release" -> [s EXCEPT !.pc = "unmap"])
      /\ UNCHANGED <<frames, alloc, held>>
  BY <1>1, <1>2 DEF StoreByte, At, LocalInv, Local
<1>4. \A v \in Page : IsFree(v) <=> alloc[v] = 0 /\ v \notin Pending(s)
  BY <1>2, AloneFacts
<1>5. ASSUME NEW r \in Local, Goto(t, r), bits' \in [0 .. (LENGTH - 1) -> 0 .. (Pow2[BITS] - 1)],
             \A v \in Page : IsFree(v)' <=> alloc[v] = 0 /\ v \notin Pending(r),
             LocalInv(r)'
      PROVE  PageInv'
  <2>1. HeldInv' /\ SysInv'
    BY <1>3 DEF PageInv, HeldInv, SysInv
  <2>2. alloc' \in [Page -> 0 .. 1] /\ held' \in SUBSET Holding /\ frames' \subseteq frames
    BY <1>3 DEF PageInv, VmmTypes
  <2> QED BY <1>3, <1>5, <2>1, <2>2, StepKeepsPages
<1>6. CASE s.op = "sub"
  <2>1. IsFree(s.page) /\ Pending(s) = {} /\ Allocating(s) /\ Got(s) = s.first .. (s.page - 1)
    BY <1>1, <1>2, <1>3, <1>6, Places DEF LocalInv
  <2>2. /\ bits' \in [0 .. (LENGTH - 1) -> 0 .. (Pow2[BITS] - 1)]
        /\ \A u \in Page : IsFree(u)' <=> IsFree(u) /\ u # s.page
    BY <1>3, <1>6, <2>1, StoreSubtracts DEF PageInv
  <2>3. PICK r \in Local : r = [s EXCEPT !.pc = "frame"]
    BY DEF Local, Pcs
  <2>4. /\ r.pc = "frame" /\ r.page = s.page /\ r.first = s.first /\ r.left = s.left /\ r.n = s.n
    BY <2>3 DEF Local
  <2>5. /\ Pending(r) = {s.page} /\ ToRelease(r) = {} /\ Got(r) = Got(s)
        /\ Allocating(r) /\ ~Releasing(r)
    BY <2>1, <2>4, Places
  <2>6. s.page \in Page \ Sys /\ alloc[s.page] = 0
    BY <1>3, <1>4, <2>1 DEF PageInv, SysInv
  <2>7. LocalInv(r)'
    BY <1>1, <1>2, <1>3, <2>1, <2>4, <2>5, <2>6 DEF LocalInv
  <2>8. \A v \in Page : IsFree(v)' <=> alloc[v] = 0 /\ v \notin Pending(r)
    BY <1>4, <2>1, <2>2, <2>5
  <2> QED BY <1>3, <1>5, <1>6, <2>2, <2>3, <2>7, <2>8
<1>7. CASE s.op = "clean"
  <2>1. Pending(s) = {s.page}
    BY <1>3, <1>7, Places
  <2>2. alloc[s.page] = 0
    BY <1>1, <1>2, <2>1 DEF LocalInv
  <2>3. /\ bits' \in [0 .. (LENGTH - 1) -> 0 .. (Pow2[BITS] - 1)]
        /\ \A u \in Page : IsFree(u)' <=> IsFree(u) \/ u = s.page
    BY <1>3, <1>7, StoreSets DEF PageInv
  <2>4. Stopped(t) \in Local /\ Stopped(t).pc = "stopped"
    BY <1>1 DEF Stopped, Local, Pcs
  <2>5. PICK r \in Local : r = Stopped(t) /\ r.pc = "stopped"
    BY <2>4
  <2>6. Pending(r) = {} /\ ToRelease(r) = {} /\ Got(r) = {} /\ ~Allocating(r) /\ ~Releasing(r)
    BY <2>5, RestingLocals DEF Allocating, Releasing
  <2>7. LocalInv(r)'
    BY <2>5, <2>6 DEF LocalInv
  <2>8. \A v \in Page : IsFree(v)' <=> alloc[v] = 0 /\ v \notin Pending(r)
    BY <1>4, <2>1, <2>2, <2>3, <2>6
  <2> QED BY <1>3, <1>5, <1>7, <2>3, <2>5, <2>7, <2>8
<1>8. CASE s.op = "release"
  <2>1. /\ Pending(s) = s.page .. (s.page + s.left - 1) /\ ToRelease(s) = Pending(s)
        /\ ~Allocating(s) /\ Releasing(s)
    BY <1>3, <1>8, Places
  <2>2. s.left >= 1 /\ \A v \in Pending(s) : v \in Page \ Sys /\ alloc[v] = 0
    BY <1>1, <1>2, <2>1 DEF LocalInv
  <2>3. /\ bits' \in [0 .. (LENGTH - 1) -> 0 .. (Pow2[BITS] - 1)]
        /\ \A u \in Page : IsFree(u)' <=> IsFree(u) \/ u = s.page
    BY <1>3, <1>8, StoreSets DEF PageInv
  <2>4. PICK r \in Local : r = [s EXCEPT !.pc = "unmap"]
    BY DEF Local, Pcs
  <2>5. /\ r.pc = "unmap" /\ r.page = s.page /\ r.left = s.left /\ r.op = s.op
    BY <2>4 DEF Local
  <2>6. /\ Pending(r) = Pending(s) \ {s.page} /\ ToRelease(r) = ToRelease(s) /\ Got(r) = {}
        /\ ~Allocating(r) /\ Releasing(r)
    BY <2>1, <2>5, Places
  <2>7. LocalInv(r)'
    BY <1>3, <1>8, <2>1, <2>2, <2>5, <2>6 DEF LocalInv
  <2>8. s.page \in Pending(s)
    BY <2>1, <2>2 DEF Local
  <2>9. \A v \in Page : IsFree(v)' <=> alloc[v] = 0 /\ v \notin Pending(r)
    BY <1>4, <2>2, <2>3, <2>6, <2>8
  <2> QED BY <1>3, <1>5, <1>8, <2>3, <2>4, <2>7, <2>9
<1> QED BY <1>3, <1>6, <1>7, <1>8

(***************************************************************************)
(* A page is returned to the caller.  The last page of a run makes the run *)
(* one that may be released; no other run has a page of it.                *)
(***************************************************************************)
LEMMA MapKeepsPages ==
    ASSUME PageInv, NEW t \in Thread, Alone(t), MapPage(t)
    PROVE  PageInv'
<1>1. th[t] \in Local /\ LocalInv(th[t])
  BY AloneFacts
<1>2. PICK s \in Local : s = th[t]
  BY <1>1
<1>3. /\ s.pc = "map" /\ s.page \in Page /\ s.left >= 1
      /\ s.first <= s.page /\ s.page + s.left = s.first + s.n
      /\ Pending(s) = {s.page} /\ Got(s) = s.first .. (s.page - 1)
      /\ s.page \notin Sys /\ alloc[s.page] = 0
      /\ \A v \in Got(s) : v \in Page \ Sys /\ alloc[v] = 1 /\ \A h \in held : v \notin Run(h)
  <2>1. s.pc = "map" /\ Allocating(s) /\ Pending(s) = {s.page} /\ Got(s) = s.first .. (s.page - 1)
    BY <1>2, Places DEF MapPage, At
  <2> QED BY <1>1, <1>2, <2>1 DEF LocalInv
<1>4. s.page \in Nat /\ s.left \in Nat /\ s.first \in Nat /\ s.n \in Nat
  BY DEF Local
<1>5. /\ alloc' = [alloc EXCEPT ![s.page] = 1] /\ UNCHANGED <<bits, frames>>
      /\ alloc \in [Page -> 0 .. 1] /\ held \in SUBSET Holding
      /\ bits' \in [0 .. (LENGTH - 1) -> 0 .. (Pow2[BITS] - 1)]
  BY <1>2, <1>3 DEF MapPage, PageInv, VmmTypes
<1>6. /\ alloc' \in [Page -> 0 .. 1] /\ alloc'[s.page] = 1
      /\ \A v \in Page \ {s.page} : alloc'[v] = alloc[v]
  BY <1>3, <1>5
<1>7. SysInv'
  BY <1>3, <1>6 DEF PageInv, SysInv, Sys
<1>8. \A h \in held : s.page \notin Run(h)
  BY <1>3 DEF PageInv, HeldInv
<1>9. \A h \in held : \A v \in Run(h) : v \in Page \ Sys /\ alloc'[v] = 1
  BY <1>6, <1>8 DEF PageInv, HeldInv
<1>10. ASSUME NEW r \in Local, Pending(r) = {}
       PROVE  \A v \in Page : IsFree(v)' <=> alloc'[v] = 0 /\ v \notin Pending(r)
  <2>1. \A v \in Page : IsFree(v)' <=> alloc[v] = 0 /\ v # s.page
    BY <1>2, <1>3, <1>5, AloneFacts DEF IsFree
  <2> QED BY <1>6, <1>10, <2>1
<1>11. CASE s.left = 1 /\ ~s.table
  <2>1. PICK g : g = [first |-> s.first, n |-> s.n, use |-> s.use]
    OBVIOUS
  <2>2. held' = held \cup {g} /\ Goto(t, Idle)
    BY <1>2, <1>11, <2>1 DEF MapPage
  <2>3. g \in Holding /\ Run(g) = Got(s) \cup {s.page}
    <3>1. s.n = s.page + 1 - s.first
      BY <1>3, <1>4, <1>11
    <3>2. s.n \in Nat \ {0} /\ s.first + s.n - 1 = s.page
      BY <1>3, <1>4, <3>1
    <3>3. g \in Holding
      BY <2>1, <3>2 DEF Holding, Local
    <3>4. Run(g) = s.first .. s.page
      BY <2>1, <3>2 DEF Run
    <3> QED BY <1>3, <1>4, <3>3, <3>4
  <2>4. /\ \A v \in Run(g) : v \in Page \ Sys /\ alloc'[v] = 1
        /\ \A h \in held : Run(h) \cap Run(g) = {}
    BY <1>3, <1>6, <1>8, <2>3
  <2>5. HeldInv'
    BY <1>9, <2>2, <2>4 DEF PageInv, HeldInv
  <2>6. PICK r \in Local : r = Idle /\ r.pc = "idle"
    BY IdleIsLocal
  <2>7. Pending(r) = {} /\ ToRelease(r) = {} /\ Got(r) = {} /\ ~Allocating(r) /\ ~Releasing(r)
    BY <2>6, RestingLocals DEF Allocating, Releasing
  <2>8. LocalInv(r)'
    BY <2>6, <2>7 DEF LocalInv
  <2>9. held' \in SUBSET Holding /\ frames' \subseteq frames
    BY <1>5, <2>2, <2>3
  <2> QED BY <1>5, <1>6, <1>7, <1>10, <2>2, <2>5, <2>6, <2>7, <2>8, <2>9, StepKeepsPages
<1>12. ASSUME NEW r \in Local, Goto(t, r), UNCHANGED held, Pending(r) = {}, LocalInv(r)'
       PROVE  PageInv'
  <2>1. HeldInv'
    BY <1>9, <1>12 DEF PageInv, HeldInv
  <2>2. held' \in SUBSET Holding /\ frames' \subseteq frames
    BY <1>5, <1>12
  <2> QED BY <1>5, <1>6, <1>7, <1>10, <1>12, <2>1, <2>2, StepKeepsPages
<1>13. CASE s.left = 1 /\ s.table
  <2>1. PICK r \in Local : r = [s EXCEPT !.pc = "user_table"]
    BY DEF Local, Pcs
  <2>2. r.pc = "user_table" /\ r.page = s.page
    BY <2>1 DEF Local
  <2>3. Empty(r) /\ Pending(r) = {} /\ ToRelease(r) = {} /\ Got(r) = {} /\ ~Allocating(r) /\ ~Releasing(r)
    BY <2>2, EmptyLocals DEF Empty, Allocating, Releasing
  <2>4. Goto(t, r) /\ UNCHANGED held
    BY <1>2, <1>13, <2>1 DEF MapPage
  <2>5. LocalInv(r)'
    BY <1>3, <1>6, <1>8, <2>2, <2>3, <2>4 DEF LocalInv
  <2> QED BY <1>12, <2>3, <2>4, <2>5
<1>14. CASE s.left > 1
  <2>1. PICK r \in Local : r = [s EXCEPT !.pc = "alloc_one_page", !.page = s.page + 1, !.left = s.left - 1]
    <3>1. s.page + 1 \in Nat /\ s.left - 1 \in Nat
      BY <1>4, <1>14
    <3> QED BY <3>1 DEF Local, Pcs
  <2>2. /\ r.pc = "alloc_one_page" /\ r.page = s.page + 1 /\ r.left = s.left - 1
        /\ r.first = s.first /\ r.n = s.n
    BY <2>1 DEF Local
  <2>3. Pending(r) = {} /\ ToRelease(r) = {} /\ Allocating(r) /\ ~Releasing(r) /\ Got(r) = r.first .. (r.page - 1)
    BY <2>2, Places
  <2>4. Got(r) = Got(s) \cup {s.page}
    BY <1>3, <1>4, <2>2, <2>3
  <2>5. Goto(t, r) /\ UNCHANGED held
    BY <1>2, <1>14, <2>1 DEF MapPage
  <2>6. \A v \in Got(r) : v \in Page \ Sys /\ alloc'[v] = 1 /\ \A h \in held' : v \notin Run(h)
    BY <1>3, <1>6, <1>8, <2>4, <2>5
  <2>7. r.left >= 1 /\ r.first <= r.page /\ r.page + r.left = r.first + r.n
    BY <1>3, <1>4, <1>14, <2>2
  <2>8. LocalInv(r)'
    BY <2>2, <2>3, <2>6, <2>7 DEF LocalInv
  <2> QED BY <1>12, <2>3, <2>5, <2>8
<1> QED BY <1>2, <1>11, <1>13, <1>14 DEF MapPage

(***************************************************************************)
(* A run is to be released: its pages are nobody's from now on, but not    *)
(* free yet.                                                               *)
(***************************************************************************)
LEMMA ReleaseKeepsPages ==
    ASSUME PageInv, NEW t \in Thread, Alone(t), release_user_task_bitmap(t) \/ release_user_task_pdt(t)
    PROVE  PageInv'
<1>1. th[t] \in Local /\ LocalInv(th[t])
  BY AloneFacts
<1>2. PICK h \in held :
          /\ held' = held \ {h}
          /\ alloc' = [v \in Page |->
                          IF v \in h.first .. (h.first + h.n - 1) THEN alloc[v] - 1 ELSE alloc[v]]
          /\ Goto(t, [Idle EXCEPT !.pc = "load", !.op = "release",
                                  !.page = h.first, !.left = h.n])
  BY DEF release_user_task_bitmap, release_user_task_pdt, Release
<1>3. At(t, "idle") /\ UNCHANGED <<bits, frames>>
  BY DEF release_user_task_bitmap, release_user_task_pdt, Release
<1>4. alloc \in [Page -> 0 .. 1] /\ held \in SUBSET Holding
  BY DEF PageInv, VmmTypes
<1>5. \A v \in Run(h) : v \in Page \ Sys /\ alloc[v] = 1
  BY DEF PageInv, HeldInv
<1>6. /\ alloc' \in [Page -> 0 .. 1]
      /\ \A v \in Run(h) : alloc'[v] = 0
      /\ \A v \in Page \ Run(h) : alloc'[v] = alloc[v]
  <2>1. \A v \in Page : alloc'[v] = IF v \in Run(h) THEN alloc[v] - 1 ELSE alloc[v]
    BY <1>2 DEF Run
  <2>2. \A v \in Page : alloc'[v] = IF v \in Run(h) THEN 0 ELSE alloc[v]
    BY <1>5, <2>1
  <2>3. alloc' \in [Page -> 0 .. 1]
    <3>1. alloc' = [v \in Page |-> alloc'[v]]
      BY <1>2
    <3>2. \A v \in Page : alloc'[v] \in 0 .. 1
      BY <1>4, <2>2
    <3> QED BY <3>1, <3>2
  <2> QED BY <1>5, <2>2, <2>3
<1>7. SysInv'
  BY <1>5, <1>6 DEF PageInv, SysInv, Sys
<1>8. HeldInv'
  BY <1>2, <1>6 DEF PageInv, HeldInv
<1>9. h.first \in Nat /\ h.n \in Nat \ {0}
  BY <1>4 DEF Holding
<1>10. PICK r \in Local :
           /\ r = [Idle EXCEPT !.pc = "load", !.op = "release", !.page = h.first, !.left = h.n]
           /\ r.pc = "load" /\ r.op = "release" /\ r.page = h.first /\ r.left = h.n
  <2>1. Idle \in Local
    BY IdleIsLocal
  <2>2. PICK i \in Local : i = Idle
    BY <2>1
  <2>3. PICK r \in Local : r = [i EXCEPT !.pc = "load", !.op = "release", !.page = h.first, !.left = h.n]
    BY <1>9 DEF Local, Pcs
  <2>4. r.pc = "load" /\ r.op = "release" /\ r.page = h.first /\ r.left = h.n
    BY <2>3 DEF Local
  <2> QED BY <2>2, <2>3, <2>4
<1>11. r.pc = "load" /\ r.op = "release" /\ r.page = h.first /\ r.left = h.n
  BY <1>10
<1>12. /\ ~Allocating(r) /\ Releasing(r) /\ Pending(r) = Run(h) /\ ToRelease(r) = Run(h) /\ Got(r) = {}
  BY <1>11, Places DEF Run
<1>13. h.first \in Page
  BY <1>5, <1>9 DEF Run
<1>14. LocalInv(r)'
  BY <1>5, <1>6, <1>9, <1>11, <1>12, <1>13 DEF LocalInv
<1>15. \A v \in Page : IsFree(v)' <=> alloc'[v] = 0 /\ v \notin Pending(r)
  <2>1. Pending(th[t]) = {}
    BY <1>1, <1>3, RestingLocals DEF At
  <2>2. \A v \in Page : IsFree(v)' <=> alloc[v] = 0
    BY <1>3, <2>1, AloneFacts DEF IsFree
  <2> QED BY <1>5, <1>6, <1>12, <2>2
<1>16. /\ bits' \in [0 .. (LENGTH - 1) -> 0 .. (Pow2[BITS] - 1)]
       /\ held' \in SUBSET Holding /\ frames' \subseteq frames
  BY <1>2, <1>3, <1>4 DEF PageInv, VmmTypes
<1> QED BY <1>2, <1>6, <1>7, <1>8, <1>10, <1>14, <1>15, <1>16, StepKeepsPages

(***************************************************************************)
(* The next page of the run is taken, or the release ends.                 *)
(***************************************************************************)
LEMMA UnmapKeepsPages ==
    ASSUME PageInv, NEW t \in Thread, Alone(t), UnmapPage(t)
    PROVE  PageInv'
<1>1. th[t] \in Local /\ LocalInv(th[t])
  BY AloneFacts
<1>2. PICK s \in Local : s = th[t]
  BY <1>1
<1>3. /\ s.pc = "unmap" /\ ~Allocating(s) /\ Releasing(s)
      /\ ToRelease(s) = s.page .. (s.page + s.left - 1)
      /\ Pending(s) = ToRelease(s) \ {s.page}
  BY <1>2, Places DEF UnmapPage, At
<1>4. s.page \in Nat /\ s.left \in Nat /\ s.left >= 1 /\ s.op = "release"
  BY <1>1, <1>2, <1>3 DEF LocalInv, Local
<1>5. UNCHANGED <<bits, frames, alloc, held>>
  BY DEF UnmapPage
<1>6. CASE s.left = 1
  <2>1. Pending(s) = {} /\ Goto(t, Idle)
    BY <1>2, <1>3, <1>4, <1>6 DEF UnmapPage
  <2>2. PICK r \in Local : r = Idle /\ r.pc = "idle"
    BY IdleIsLocal
  <2> QED BY <1>2, <1>5, <2>1, <2>2, RestingLocals, QuietStep
<1>7. CASE s.left # 1
  <2>1. s.page + 1 \in Nat /\ s.left - 1 \in Nat /\ s.left - 1 >= 1
    BY <1>4, <1>7
  <2>2. PICK r \in Local : r = [s EXCEPT !.pc = "load", !.page = s.page + 1, !.left = s.left - 1]
    BY <2>1 DEF Local, Pcs
  <2>3. r.pc = "load" /\ r.op = "release" /\ r.page = s.page + 1 /\ r.left = s.left - 1
    BY <1>4, <2>2 DEF Local
  <2>4. /\ ~Allocating(r) /\ Releasing(r) /\ Got(r) = {} /\ ToRelease(r) = Pending(r)
        /\ Pending(r) = r.page .. (r.page + r.left - 1)
    BY <2>3, Places
  <2>5. Pending(r) = Pending(s) /\ r.page \in Pending(r) /\ Pending(s) \subseteq ToRelease(s)
    BY <1>3, <1>4, <2>1, <2>3, <2>4
  <2>6. LocalInv(r)
    BY <1>1, <1>2, <1>3, <2>1, <2>3, <2>4, <2>5 DEF LocalInv
  <2>7. Goto(t, r)
    BY <1>2, <1>7, <2>2 DEF UnmapPage
  <2> QED BY <1>2, <1>5, <2>5, <2>6, <2>7, QuietStep
<1> QED BY <1>6, <1>7

-----------------------------------------------------------------------------
(***************************************************************************)
(* The invariant holds when vmm_kern_init has run.                         *)
(***************************************************************************)
LEMMA PageInit == VmmInit => PageInv
<1> SUFFICES ASSUME VmmInit PROVE PageInv
  OBVIOUS
<1> DEFINE busy == (0 .. (KernPages - 1)) \cup Sys
<1>1. /\ bits \in [0 .. (LENGTH - 1) -> 0 .. (Pow2[BITS] - 1)]
      /\ \A v \in Page : IsFree(v) <=> v \notin busy
      /\ frames = (KernPages + 1) .. (KernPages + NFrames)
      /\ alloc = [v \in Page |-> IF v \in busy THEN 1 ELSE 0]
      /\ held = {}
      /\ th = [t \in Thread |-> Idle]
  BY DEF VmmInit
<1>2. \A t \in Thread : th[t] = Idle /\ Pending(th[t]) = {} /\ LocalInv(th[t]) /\ Resting(t)
  BY <1>1, IdleIsLocal, RestingLocals DEF Resting
<1>3. VmmTypes
  <2>1. alloc \in [Page -> 0 .. 1]
    BY <1>1
  <2>2. th \in [Thread -> Local]
    BY <1>1, IdleIsLocal
  <2> QED BY <1>1, <2>1, <2>2 DEF VmmTypes
<1>4. BitmapInv
  BY <1>1, <1>2 DEF BitmapInv
<1>5. HeldInv /\ SysInv
  BY <1>1 DEF HeldInv, SysInv, Sys
<1> QED BY <1>2, <1>3, <1>4, <1>5 DEF PageInv

(***************************************************************************)
(* Every step of a thread that is alone keeps the invariant.               *)
(***************************************************************************)
LEMMA PageStep == PageInv /\ [SoloNext]_vvars => PageInv'
<1> SUFFICES ASSUME PageInv, [SoloNext]_vvars PROVE PageInv'
  OBVIOUS
<1>1. CASE SoloNext
  <2>1. PICK t \in Thread : Alone(t) /\ Step(t)
    BY <1>1 DEF SoloNext, Alone
  <2> QED BY <2>1, CallsKeepPages, SearchKeepsPages, StoreKeepsPages, MapKeepsPages,
             ReleaseKeepsPages, UnmapKeepsPages DEF Step
<1>2. CASE UNCHANGED vvars
  BY <1>2 DEF vvars, PageInv, VmmTypes, BitmapInv, HeldInv, SysInv, LocalInv, IsFree, Resting
<1> QED BY <1>1, <1>2

(***************************************************************************)
(* The invariant always holds.                                             *)
(***************************************************************************)
LEMMA PagesSafe == SoloSpec => []PageInv
<1> QED BY PageInit, PageStep, PTL DEF SoloSpec

(***************************************************************************)
(* When the threads do not preempt each other here, vmm_kern_alloc and     *)
(* vmm_kern_alloc_one_page never give a page to two callers, nor one of    *)
(* the image or of the page table window, whatever the sizes.              *)
(***************************************************************************)
THEOREM PagesAreExclusive == SoloSpec => []PageExclusive
<1>1. PageInv => PageExclusive
  BY DEF PageInv, VmmTypes, PageExclusive
<1> QED BY <1>1, PagesSafe, PTL

(***************************************************************************)
(* Between two calls the bitmap is exact, whatever allocations, failures   *)
(* and releases there were: no page is lost and none is free that is used. *)
(***************************************************************************)
THEOREM BitmapIsAccurate == SoloSpec => []BitmapAccurate
<1>1. PageInv => BitmapAccurate
  <2> SUFFICES ASSUME PageInv, \A t \in Thread : Resting(t), NEW v \in Page
               PROVE  IsFree(v) <=> alloc[v] = 0
    BY DEF BitmapAccurate
  <2>1. \A t \in Thread : Pending(th[t]) = {}
    BY RestingLocals DEF PageInv, VmmTypes, Resting
  <2> QED BY <2>1 DEF PageInv, BitmapInv
<1> QED BY <1>1, PagesSafe, PTL

-----------------------------------------------------------------------------
(***************************************************************************)
(* How far the pages in use reach.  The bitmap gives out the first page    *)
(* that is free, and no frame comes back, so pages in use are below the    *)
(* image's pages and one for each frame that has been taken.               *)
(***************************************************************************)
Memory == (KernPages + 1) .. (KernPages + NFrames)

Top == KernPages + NFrames - Cardinality(frames)

InUse == {v \in Page \ Sys : alloc[v] = 1}

\* A page about to be taken is at most b, one that has its frame is below it.
Below(r, b) ==
    /\ r.pc \in {"alloc_one_page", "frame"} => r.page <= b
    /\ r.pc \in {"load", "store"} /\ r.op = "sub" => r.page <= b
    /\ r.pc = "map" => r.page < b
    /\ \A v \in ToRelease(r) : v < b

TopInv ==
    /\ \A v \in InUse : v < Top
    /\ \A t \in Thread : Below(th[t], Top)

(***************************************************************************)
(* The frames are finitely many, and one less when one is taken.           *)
(***************************************************************************)
LEMMA TopFacts ==
    ASSUME VmmTypes
    PROVE  /\ Top \in Nat /\ KernPages <= Top /\ Top <= KernPages + NFrames
           /\ Cardinality(frames) \in Nat
           /\ \A f \in frames : Cardinality(frames \ {f}) = Cardinality(frames) - 1
<1>1. KernPages \in Nat /\ NFrames \in Nat
  BY VmmAssumption
<1>2. /\ IsFiniteSet(Memory) /\ Cardinality(Memory) = NFrames
  <2>1. /\ IsFiniteSet((KernPages + 1) .. (KernPages + NFrames))
        /\ Cardinality((KernPages + 1) .. (KernPages + NFrames)) =
              IF KernPages + 1 > KernPages + NFrames THEN 0
              ELSE (KernPages + NFrames) - (KernPages + 1) + 1
    BY <1>1, FS_Interval
  <2> QED BY <1>1, <2>1 DEF Memory
<1>3. frames \subseteq Memory
  BY DEF VmmTypes, Memory
<1>4. IsFiniteSet(frames) /\ Cardinality(frames) \in Nat /\ Cardinality(frames) <= NFrames
  BY <1>2, <1>3, FS_Subset, FS_CardinalityType
<1>5. \A f \in frames : Cardinality(frames \ {f}) = Cardinality(frames) - 1
  BY <1>4, FS_RemoveElement
<1> QED BY <1>1, <1>4, <1>5 DEF Top

(***************************************************************************)
(* The bound stays, or grows by one.                                       *)
(***************************************************************************)
LEMMA TopSteps ==
    ASSUME VmmTypes
    PROVE  /\ frames' = frames => Top' = Top
           /\ \A f \in frames : frames' = frames \ {f} => Top' = Top + 1
<1>1. /\ Top \in Nat /\ Cardinality(frames) \in Nat
      /\ \A f \in frames : Cardinality(frames \ {f}) = Cardinality(frames) - 1
  BY TopFacts
<1>2. ASSUME NEW f \in frames, frames' = frames \ {f} PROVE Top' = Top + 1
  <2>1. Cardinality(frames') = Cardinality(frames) - 1
    BY <1>1, <1>2
  <2> QED BY <1>1, <2>1, VmmAssumption DEF Top
<1> QED BY <1>2 DEF Top

(***************************************************************************)
(* What has to be shown of a step for the bound.                           *)
(***************************************************************************)
LEMMA StepKeepsTop ==
    ASSUME PageInv, TopInv, NEW t \in Thread, Alone(t), NEW r \in Local, Goto(t, r),
           frames' = frames \/ \E f \in frames : frames' = frames \ {f},
           \A v \in Page \ Sys : alloc'[v] = 1 => alloc[v] = 1 \/ v < Top',
           Below(r, Top')
    PROVE  TopInv'
<1>1. Top \in Nat /\ Top' \in Nat /\ Top <= Top'
  <2>1. VmmTypes
    BY DEF PageInv
  <2> QED BY <2>1, TopFacts, TopSteps
<1>2. \A v \in InUse' : v < Top'
  <2> SUFFICES ASSUME NEW v \in Page \ Sys, alloc'[v] = 1 PROVE v < Top'
    BY DEF InUse
  <2>1. CASE alloc[v] = 1
    BY <1>1, <2>1, PagePlace DEF TopInv, InUse
  <2> QED BY <2>1
<1>3. ASSUME NEW u \in Thread PROVE Below(th'[u], Top')
  <2>1. th \in [Thread -> Local] /\ th' = [th EXCEPT ![t] = r]
    BY DEF PageInv, VmmTypes, Goto
  <2>2. CASE u = t
    BY <2>1, <2>2
  <2>3. CASE u # t
    <3>1. th'[u] = th[u] /\ th[u].pc \in {"idle", "stopped"} /\ ToRelease(th[u]) = {}
      BY <2>1, <2>3, RestingLocals DEF Alone, Resting
    <3> QED BY <3>1 DEF Below
  <2> QED BY <2>2, <2>3
<1> QED BY <1>2, <1>3 DEF TopInv

(***************************************************************************)
(* The thread that steps, after each of its steps, is below the bound.     *)
(***************************************************************************)
LEMMA SearchKeepsTop ==
    ASSUME PageInv, TopInv, NEW t \in Thread, Alone(t),
           \/ bitmap_alloc(t) \/ bitmap_alloc_one_page(t) \/ LoadByte(t) \/ StoreByte(t)
           \/ pmm_alloc_one_page(t)
    PROVE  TopInv'
<1>1. th[t] \in Local /\ LocalInv(th[t])
  BY AloneFacts
<1>2. PICK s \in Local : s = th[t]
  BY <1>1
<1>3. Below(s, Top) /\ VmmTypes /\ Top \in Nat /\ s.page \in Nat
  BY <1>2, TopFacts DEF TopInv, PageInv, Local
<1>4. Stopped(t) \in Local /\ \A b : Below(Stopped(t), b)
  <2>1. Stopped(t) \in Local /\ Stopped(t).pc = "stopped"
    BY <1>1 DEF Stopped, Local, Pcs
  <2> QED BY <2>1, RestingLocals DEF Below
<1>5. CASE bitmap_alloc(t)
  <2>1. frames' = frames /\ alloc' = alloc /\ Top' = Top
    BY <1>3, <1>5, TopSteps DEF bitmap_alloc
  <2>2. CASE Goto(t, Stopped(t))
    BY <1>4, <2>1, <2>2, StepKeepsTop
  <2>3. ASSUME NEW v \in Page, IsFree(v), \A u \in 0 .. (v - 1) : ~IsFree(u),
               Goto(t, [th[t] EXCEPT !.pc = "load", !.op = "sub", !.page = v, !.first = v])
        PROVE  TopInv'
    <3>1. v \in Nat
      BY PagePlace
    <3>2. \A u \in Page : IsFree(u) <=> alloc[u] = 0
      BY <1>1, <1>5, AloneFacts, Places DEF bitmap_alloc, At
    <3>3. v <= Top
      <4>1. CASE v = 0
        BY <1>3, <4>1
      <4>2. CASE v # 0
        <5>1. v - 1 \in Page /\ v - 1 \in 0 .. (v - 1)
          BY <3>1, <4>2, VmmAssumption DEF Page
        <5>2. alloc[v - 1] = 1
          BY <2>3, <3>2, <5>1, <1>3 DEF VmmTypes
        <5>3. v \notin Sys
          BY <2>3, <3>2 DEF PageInv, SysInv
        <5>4. v - 1 \notin Sys
          BY <3>1, <5>3, VmmAssumption DEF Sys
        <5>5. v - 1 < Top
          BY <5>1, <5>2, <5>4 DEF TopInv, InUse
        <5> QED BY <1>3, <3>1, <5>5
      <4> QED BY <4>1, <4>2
    <3>4. PICK r \in Local : r = [s EXCEPT !.pc = "load", !.op = "sub", !.page = v, !.first = v]
      BY <3>1 DEF Local, Pcs
    <3>5. r.pc = "load" /\ r.op = "sub" /\ r.page = v
      BY <3>4 DEF Local
    <3>6. Below(r, Top)
      BY <3>3, <3>5, Places DEF Below
    <3> QED BY <1>2, <2>1, <2>3, <3>4, <3>6, StepKeepsTop
  <2> QED BY <1>5, <2>2, <2>3 DEF bitmap_alloc
<1>6. CASE bitmap_alloc_one_page(t)
  <2>1. frames' = frames /\ alloc' = alloc /\ Top' = Top /\ s.pc = "alloc_one_page"
    BY <1>2, <1>3, <1>6, TopSteps DEF bitmap_alloc_one_page, At
  <2>2. CASE Goto(t, Stopped(t))
    BY <1>4, <2>1, <2>2, StepKeepsTop
  <2>3. CASE Goto(t, [th[t] EXCEPT !.pc = "load", !.op = "sub"])
    <3>1. PICK r \in Local : r = [s EXCEPT !.pc = "load", !.op = "sub"]
      BY DEF Local, Pcs
    <3>2. r.pc = "load" /\ r.op = "sub" /\ r.page = s.page
      BY <3>1 DEF Local
    <3>3. Below(r, Top)
      BY <1>3, <2>1, <3>2, Places DEF Below
    <3> QED BY <1>2, <2>1, <2>3, <3>1, <3>3, StepKeepsTop
  <2> QED BY <1>6, <2>2, <2>3 DEF bitmap_alloc_one_page
<1>7. CASE LoadByte(t)
  <2>1. frames' = frames /\ alloc' = alloc /\ Top' = Top /\ s.pc = "load"
    BY <1>2, <1>3, <1>7, TopSteps DEF LoadByte, At
  <2>2. th'[t] \in Local /\ th'[t] = [s EXCEPT !.pc = "store", !.reg = bits[ByteOf(s.page)]]
    <3>1. VmmTypes'
      BY <1>7, SearchKeepsPages DEF PageInv
    <3> QED BY <1>2, <1>3, <1>7, <3>1 DEF LoadByte, Goto, VmmTypes
  <2>3. PICK r \in Local : r = th'[t]
    BY <2>2
  <2>4. r.pc = "store" /\ r.op = s.op /\ r.page = s.page /\ r.left = s.left
    BY <2>2, <2>3 DEF Local
  <2>5. ToRelease(r) = ToRelease(s)
    BY <2>1, <2>4 DEF ToRelease, Releasing
  <2>6. Below(r, Top)
    BY <1>3, <2>1, <2>4, <2>5 DEF Below
  <2>7. Goto(t, r)
    BY <1>2, <1>7, <2>2, <2>3 DEF LoadByte
  <2> QED BY <2>1, <2>6, <2>7, StepKeepsTop
<1>8. CASE StoreByte(t)
  <2>1. frames' = frames /\ alloc' = alloc /\ Top' = Top /\ s.pc = "store"
    BY <1>2, <1>3, <1>8, TopSteps DEF StoreByte, At
  <2>2. s.op \in {"sub", "clean", "release"}
    BY <1>1, <1>2, <2>1 DEF LocalInv, Local
  <2>3. CASE s.op = "clean"
    <3>1. Goto(t, Stopped(t))
      BY <1>2, <1>8, <2>3 DEF StoreByte
    <3> QED BY <1>4, <2>1, <3>1, StepKeepsTop
  <2>4. CASE s.op = "sub"
    <3>1. PICK r \in Local : r = [s EXCEPT !.pc = "frame"]
      BY DEF Local, Pcs
    <3>2. r.pc = "frame" /\ r.page = s.page
      BY <3>1 DEF Local
    <3>3. Below(r, Top)
      BY <1>3, <2>1, <2>4, <3>2, Places DEF Below
    <3>4. Goto(t, r)
      BY <1>2, <1>8, <2>4, <3>1 DEF StoreByte
    <3> QED BY <2>1, <3>3, <3>4, StepKeepsTop
  <2>5. CASE s.op = "release"
    <3>1. PICK r \in Local : r = [s EXCEPT !.pc = "unmap"]
      BY DEF Local, Pcs
    <3>2. r.pc = "unmap" /\ r.page = s.page /\ r.left = s.left
      BY <3>1 DEF Local
    <3>3. ToRelease(r) = ToRelease(s)
      BY <2>1, <2>5, <3>2, Places
    <3>4. Below(r, Top)
      BY <1>3, <3>2, <3>3 DEF Below
    <3>5. Goto(t, r)
      BY <1>2, <1>8, <2>5, <3>1 DEF StoreByte
    <3> QED BY <2>1, <3>4, <3>5, StepKeepsTop
  <2> QED BY <2>2, <2>3, <2>4, <2>5
<1>9. CASE pmm_alloc_one_page(t)
  <2>1. alloc' = alloc /\ s.pc = "frame" /\ s.page <= Top
    BY <1>2, <1>3, <1>9 DEF pmm_alloc_one_page, At, Below
  <2>2. ASSUME NEW f \in frames, frames' = frames \ {f},
               Goto(t, [th[t] EXCEPT !.pc = "map", !.frame = f])
        PROVE  TopInv'
    <3>1. f \in Int
      BY <1>3, VmmAssumption DEF VmmTypes
    <3>2. PICK r \in Local : r = [s EXCEPT !.pc = "map", !.frame = f]
      BY <3>1 DEF Local, Pcs
    <3>3. r.pc = "map" /\ r.page = s.page
      BY <3>2 DEF Local
    <3>4. Top' = Top + 1
      BY <1>3, <2>2, TopSteps
    <3>5. Below(r, Top')
      BY <1>3, <2>1, <3>3, <3>4, Places DEF Below
    <3> QED BY <1>2, <2>1, <2>2, <3>2, <3>5, StepKeepsTop
  <2>3. CASE frames' = frames /\ Goto(t, [th[t] EXCEPT !.pc = "load", !.op = "clean"])
    <3>1. PICK r \in Local : r = [s EXCEPT !.pc = "load", !.op = "clean"]
      BY DEF Local, Pcs
    <3>2. r.pc = "load" /\ r.op = "clean"
      BY <3>1 DEF Local
    <3>3. Below(r, Top')
      BY <3>2, Places DEF Below
    <3> QED BY <1>2, <2>1, <2>3, <3>1, <3>3, StepKeepsTop
  <2> QED BY <1>9, <2>2, <2>3 DEF pmm_alloc_one_page
<1> QED BY <1>5, <1>6, <1>7, <1>8, <1>9

(***************************************************************************)
(* A thread outside the bitmap code is below every bound, and a step there *)
(* that takes a frame or none keeps the bound.                             *)
(***************************************************************************)
LEMMA CallsKeepTop ==
    ASSUME PageInv, PageInv', TopInv, NEW t \in Thread, Alone(t),
           \/ create_user_task_bitmap(t) \/ create_user_task_pdt(t) \/ create_kern_thread(t)
           \/ start_user_task(t) \/ vmm_user_alloc_one_page(t)
           \/ create_user_page_table(t) \/ MapUserPage(t)
    PROVE  TopInv'
<1>1. th \in [Thread -> Local] /\ th' \in [Thread -> Local] /\ th[t] \in Local
  BY DEF PageInv, VmmTypes
<1>2. PICK r \in Local : r = th'[t]
  BY <1>1
<1>3. Goto(t, r) /\ alloc' = alloc /\ (frames' = frames \/ \E f \in frames : frames' = frames \ {f})
  BY <1>1, <1>2 DEF create_user_task_bitmap, create_user_task_pdt, create_kern_thread, Request, start_user_task,
     vmm_user_alloc_one_page, create_user_page_table, MapUserPage, Goto
<1>4. r.pc \in {"idle", "stopped", "alloc", "user_alloc", "user_frame"}
  <2>1. Idle \in Local /\ Idle.pc = "idle"
    BY IdleIsLocal
  <2>2. PICK i \in Local : i = Idle /\ i.pc = "idle"
    BY <2>1
  <2>3. CASE create_user_task_bitmap(t) \/ create_user_task_pdt(t) \/ create_kern_thread(t)
    <3>1. PICK n, use : Request(t, n, use)
      BY <2>3 DEF create_user_task_bitmap, create_user_task_pdt, create_kern_thread
    <3>2. r = [i EXCEPT !.pc = "alloc", !.left = n, !.n = n, !.use = use]
      BY <1>1, <1>2, <2>2, <3>1 DEF Request, Goto
    <3> QED BY <3>2 DEF Local
  <2>4. CASE start_user_task(t)
    <3>1. r = [i EXCEPT !.pc = "user_alloc"]
      BY <1>1, <1>2, <2>2, <2>4 DEF start_user_task, Goto
    <3> QED BY <3>1 DEF Local
  <2>5. CASE vmm_user_alloc_one_page(t)
    BY <1>1, <1>2, <2>5 DEF vmm_user_alloc_one_page, Goto, Local
  <2>6. CASE create_user_page_table(t)
    BY <1>1, <1>2, <2>6 DEF create_user_page_table, Goto, Local
  <2>7. CASE MapUserPage(t)
    <3>1. \/ r = i \/ r = [i EXCEPT !.pc = "user_alloc"]
          \/ r = [th[t] EXCEPT !.pc = "stopped"]
      BY <1>1, <1>2, <2>2, <2>7 DEF MapUserPage, Goto, Stopped
    <3> QED BY <1>1, <2>2, <3>1 DEF Local
  <2> QED BY <2>3, <2>4, <2>5, <2>6, <2>7
<1>5. Empty(r)
  BY <1>4 DEF Empty, Allocating, Releasing
<1>6. Below(r, Top')
  BY <1>4, <1>5, EmptyLocals DEF Below
<1> QED BY <1>3, <1>6, StepKeepsTop

(***************************************************************************)
(* The steps that return a page and those that take pages back.            *)
(***************************************************************************)
LEMMA UseKeepsTop ==
    ASSUME PageInv, PageInv', TopInv, NEW t \in Thread, Alone(t),
           MapPage(t) \/ release_user_task_bitmap(t) \/ release_user_task_pdt(t) \/ UnmapPage(t)
    PROVE  TopInv'
<1>1. /\ th \in [Thread -> Local] /\ th' \in [Thread -> Local] /\ LocalInv(th[t]) /\ VmmTypes
  BY DEF PageInv, VmmTypes
<1>2. PICK s \in Local : s = th[t]
  BY <1>1
<1>3. PICK r \in Local : r = th'[t]
  BY <1>1
<1>4. PICK i \in Local : i = Idle /\ i.pc = "idle"
  BY IdleIsLocal
<1>5. Below(s, Top) /\ Top \in Nat /\ s.page \in Nat /\ s.left \in Nat
  BY <1>1, <1>2, TopFacts DEF TopInv, Local
<1>6. Below(i, Top)
  BY <1>4, RestingLocals DEF Below
<1>7. CASE MapPage(t)
  <2>1. /\ s.pc = "map" /\ s.page < Top /\ s.page \in Page /\ s.left >= 1
    BY <1>1, <1>2, <1>5, <1>7, Places DEF MapPage, At, Below, LocalInv
  <2>2. frames' = frames /\ Top' = Top /\ \A v \in Page \ {s.page} : alloc'[v] = alloc[v]
    BY <1>1, <1>2, <1>7, TopSteps DEF MapPage, VmmTypes
  <2>3. /\ Goto(t, r)
        /\ \/ r = i
           \/ r = [s EXCEPT !.pc = "user_table"]
           \/ r = [s EXCEPT !.pc = "alloc_one_page", !.page = s.page + 1, !.left = s.left - 1]
    BY <1>1, <1>2, <1>3, <1>4, <1>7 DEF MapPage, Goto
  <2>4. Below(r, Top)
    <3>1. CASE r = [s EXCEPT !.pc = "user_table"]
      <4>1. r.pc = "user_table"
        BY <3>1 DEF Local
      <4> QED BY <4>1, EmptyLocals DEF Below, Empty, Allocating, Releasing
    <3>2. CASE r = [s EXCEPT !.pc = "alloc_one_page", !.page = s.page + 1, !.left = s.left - 1]
      <4>1. r.pc = "alloc_one_page" /\ r.page = s.page + 1
        BY <3>2 DEF Local
      <4> QED BY <1>5, <2>1, <4>1, Places DEF Below
    <3> QED BY <1>6, <2>3, <3>1, <3>2
  <2> QED BY <2>1, <2>2, <2>3, <2>4, StepKeepsTop
<1>8. CASE release_user_task_bitmap(t) \/ release_user_task_pdt(t)
  <2>1. PICK h \in held :
            /\ alloc' = [v \in Page |->
                            IF v \in h.first .. (h.first + h.n - 1) THEN alloc[v] - 1 ELSE alloc[v]]
            /\ th' = [th EXCEPT ![t] = [i EXCEPT !.pc = "load", !.op = "release",
                                                 !.page = h.first, !.left = h.n]]
    BY <1>4, <1>8 DEF release_user_task_bitmap, release_user_task_pdt, Release, Goto
  <2>2. frames' = frames /\ Top' = Top
    BY <1>1, <1>8, TopSteps DEF release_user_task_bitmap, release_user_task_pdt, Release
  <2>3. \A v \in Run(h) : v \in InUse
    BY DEF PageInv, HeldInv, InUse
  <2>4. \A v \in Page : alloc'[v] = 1 => alloc[v] = 1
    <3>1. \A v \in Page : alloc'[v] = IF v \in Run(h) THEN alloc[v] - 1 ELSE alloc[v]
      BY <2>1 DEF Run
    <3> QED BY <2>3, <3>1 DEF InUse
  <2>5. r = [i EXCEPT !.pc = "load", !.op = "release", !.page = h.first, !.left = h.n] /\ Goto(t, r)
    BY <1>1, <1>3, <2>1 DEF Goto
  <2>6. r.pc = "load" /\ r.op = "release" /\ r.page = h.first /\ r.left = h.n
    BY <2>5 DEF Local
  <2>7. ToRelease(r) = Run(h)
    BY <2>6, Places DEF Run
  <2>8. Below(r, Top)
    BY <2>3, <2>6, <2>7 DEF Below, TopInv
  <2> QED BY <2>2, <2>4, <2>5, <2>8, StepKeepsTop
<1>9. CASE UnmapPage(t)
  <2>1. frames' = frames /\ alloc' = alloc /\ Top' = Top /\ s.pc = "unmap" /\ s.op = "release"
    BY <1>1, <1>2, <1>9, TopSteps DEF UnmapPage, At, LocalInv
  <2>2. Goto(t, r) /\ (r = i \/ r = [s EXCEPT !.pc = "load", !.page = s.page + 1, !.left = s.left - 1])
    BY <1>1, <1>2, <1>3, <1>4, <1>9 DEF UnmapPage, Goto
  <2>3. CASE r = [s EXCEPT !.pc = "load", !.page = s.page + 1, !.left = s.left - 1]
    <3>1. r.pc = "load" /\ r.op = "release" /\ r.page = s.page + 1 /\ r.left = s.left - 1
      BY <2>1, <2>3 DEF Local
    <3>2. ToRelease(r) \subseteq ToRelease(s)
      BY <1>5, <2>1, <3>1, Places
    <3>3. Below(r, Top)
      BY <1>5, <3>1, <3>2 DEF Below
    <3> QED BY <2>1, <2>2, <3>3, StepKeepsTop
  <2> QED BY <1>6, <2>1, <2>2, <2>3, StepKeepsTop
<1> QED BY <1>7, <1>8, <1>9

(***************************************************************************)
(* The pages in use are always below the bound.                            *)
(***************************************************************************)
LEMMA TopSafe == SoloSpec => []TopInv
<1>1. VmmInit => TopInv
  <2> SUFFICES ASSUME VmmInit PROVE TopInv
    OBVIOUS
  <2>1. PageInv /\ KernPages \in Nat
    BY PageInit, VmmAssumption
  <2>2. KernPages <= Top /\ Top \in Nat
    BY <2>1, TopFacts DEF PageInv
  <2>3. InUse \subseteq 0 .. (KernPages - 1)
    BY DEF VmmInit, InUse
  <2>4. \A t \in Thread : Below(th[t], Top)
    BY IdleIsLocal, RestingLocals DEF VmmInit, Below
  <2> QED BY <2>1, <2>2, <2>3, <2>4 DEF TopInv
<1>2. PageInv /\ PageInv' /\ TopInv /\ [SoloNext]_vvars => TopInv'
  <2> SUFFICES ASSUME PageInv, PageInv', TopInv, [SoloNext]_vvars PROVE TopInv'
    OBVIOUS
  <2>1. CASE SoloNext
    <3>1. PICK t \in Thread : Alone(t) /\ Step(t)
      BY <2>1 DEF SoloNext, Alone
    <3> QED BY <3>1, CallsKeepTop, SearchKeepsTop, UseKeepsTop DEF Step
  <2>2. CASE UNCHANGED vvars
    BY <2>2 DEF vvars, TopInv, Top, InUse
  <2> QED BY <2>1, <2>2
<1> QED BY <1>1, <1>2, PagesSafe, PTL DEF SoloSpec

-----------------------------------------------------------------------------
(***************************************************************************)
(* The frames.  As long as there are entries in the page tables for all    *)
(* pages that can be in use, a page in use has an entry of its own.        *)
(***************************************************************************)
TablesSuffice == KernPages + NFrames <= TABLES * PTES \/ LENGTH * BITS <= TABLES * PTES

\* A frame that is neither pmm's nor anybody else's.
Fresh(f) ==
    /\ f \in Memory \ frames
    /\ \A v \in InUse : vmm_v2p(v) # f
    /\ \A t \in Thread, k \in UserPages : user[t].table[k] # f

KernelFrames ==
    /\ pte \in [Pte -> [frame : Int, p : BOOLEAN]]
    /\ \A v \in InUse : Present(v) /\ vmm_v2p(v) \in Nat /\ vmm_v2p(v) \notin frames
    /\ \A u, v \in InUse : u # v => vmm_v2p(u) # vmm_v2p(v)
    /\ \A t \in Thread : th[t].pc = "map" => Fresh(th[t].frame)

\* A user task has the pages it was given, with frames of their own.
Task == [pde : Int, table : [UserPages -> Int], given : 0 .. 2]

TaskFrames ==
    /\ user \in [Thread -> Task]
    /\ \A t \in Thread, k \in UserPages : user[t].table[k] # NoFrame <=> k <= user[t].given
    /\ \A t \in Thread, k \in UserPages : k <= user[t].given =>
          /\ user[t].table[k] \in Memory \ frames
          /\ \A v \in InUse : vmm_v2p(v) # user[t].table[k]
    /\ \A t, u \in Thread : \A k, l \in UserPages :
          k <= user[t].given /\ user[t].table[k] = user[u].table[l] => t = u /\ k = l

\* A page that nobody is going to release.
Kept(v) == (\A h \in held : v \notin Run(h)) /\ (\A t \in Thread : v \notin Got(th[t]))

\* A page table is created when there is none, and before a page is mapped in it.
TaskLocal(r, u) ==
    /\ r.pc \notin {"user_frame", "stopped"} /\ r.table => u.pde = NoFrame
    /\ r.pc = "user_table" => r.table
    /\ r.pc = "user_frame" => u.pde # NoFrame
    /\ r.pc \in {"user_alloc", "user_frame"} => u.given <= 1

TaskTables ==
    \A t \in Thread :
        /\ user[t].given > 0 => user[t].pde # NoFrame
        /\ user[t].pde # NoFrame => \E v \in InUse : vmm_v2p(v) = user[t].pde /\ Kept(v)
        /\ TaskLocal(th[t], user[t])

ImageInv ==
    \A v \in 0 .. (KernPages - 1) :
        /\ pte[get_pte(v)] = [frame |-> v, p |-> TRUE]
        /\ v \in Page => alloc[v] = 1 /\ Kept(v)

ReleasedInv ==
    \A v \in Page \ Sys :
        v < TABLES * PTES /\ alloc[v] = 0 /\ Present(v) =>
            \/ pte[get_pte(v)] = BootPte(get_pte(v))
            \/ \E t \in Thread : v \in ToRelease(th[t])

FrameInv ==
    /\ KernelFrames
    /\ TaskFrames
    /\ TaskTables
    /\ ImageInv
    /\ ReleasedInv

(***************************************************************************)
(* get_pte finds an entry for every page, and a different one for each of  *)
(* the first TABLES * PTES pages.                                          *)
(***************************************************************************)
LEMMA EntryPlace ==
    /\ \A v \in Nat : get_pte(v) \in Pte
    /\ \A u, v \in Nat : u < TABLES * PTES /\ v < TABLES * PTES /\ get_pte(u) = get_pte(v) => u = v
    /\ \A v \in Nat : v < PTES => v < TABLES * PTES /\ get_pte(v) = <<0, v>>
<1>1. TABLES \in Nat \ {0} /\ PTES \in Nat \ {0} /\ TABLES * PTES \in Nat
  BY VmmAssumption
<1>2. ASSUME NEW v \in Nat
      PROVE  /\ v \div PTES \in Nat /\ v % PTES \in 0 .. (PTES - 1)
             /\ v = PTES * (v \div PTES) + (v % PTES)
  BY <1>1
<1>3. ASSUME NEW v \in Nat PROVE get_pte(v) \in Pte
  <2>1. (v \div PTES) % TABLES \in 0 .. (TABLES - 1)
    BY <1>1, <1>2
  <2> QED BY <1>2, <2>1 DEF get_pte, TableOf, Pte
<1>4. ASSUME NEW v \in Nat, v < TABLES * PTES PROVE (v \div PTES) % TABLES = v \div PTES
  <2> DEFINE q == v \div PTES
  <2>1. q \in Nat /\ PTES * q < TABLES * PTES
    BY <1>1, <1>2, <1>4
  <2> HIDE DEF q
  <2>2. q < TABLES
    BY <1>1, <2>1
  <2>3. q % TABLES = q
    BY <1>1, <2>1, <2>2
  <2> QED BY <2>3 DEF q
<1>5. ASSUME NEW u \in Nat, NEW v \in Nat, u < TABLES * PTES, v < TABLES * PTES, get_pte(u) = get_pte(v)
      PROVE  u = v
  <2>1. u \div PTES = v \div PTES /\ u % PTES = v % PTES
    BY <1>4, <1>5 DEF get_pte, TableOf
  <2> QED BY <1>2, <2>1
<1>6. ASSUME NEW v \in Nat, v < PTES PROVE v < TABLES * PTES /\ get_pte(v) = <<0, v>>
  <2>1. PTES <= TABLES * PTES
    BY <1>1
  <2>2. v \div PTES = 0 /\ v % PTES = v
    BY <1>1, <1>6
  <2>3. 0 % TABLES = 0
    BY <1>1
  <2> QED BY <1>1, <1>6, <2>1, <2>2, <2>3 DEF get_pte, TableOf
<1> QED BY <1>3, <1>5, <1>6

(***************************************************************************)
(* The pages in use, the page about to be mapped, those about to be        *)
(* released and those of the image have entries of their own.              *)
(***************************************************************************)
Own(v) == v \in Nat /\ v < TABLES * PTES

LEMMA OwnEntries ==
    ASSUME TablesSuffice, PageInv, TopInv
    PROVE  /\ \A v \in InUse : Own(v)
           /\ \A t \in Thread : th[t].pc = "map" => Own(th[t].page)
           /\ \A t \in Thread : \A v \in ToRelease(th[t]) : Own(v)
           /\ \A v \in 0 .. (KernPages - 1) : Own(v)
<1>1. KernPages + NFrames \in Nat /\ TABLES * PTES \in Nat /\ LENGTH * BITS \in Nat
  BY VmmAssumption
<1>2. Top \in Nat /\ Top <= KernPages + NFrames
  BY TopFacts DEF PageInv
<1>3. ASSUME NEW v \in Page, v < Top PROVE Own(v)
  <2>1. v \in Nat /\ v < LENGTH * BITS
    BY <1>1, PagePlace DEF Page
  <2> QED BY <1>1, <1>2, <1>3, <2>1 DEF TablesSuffice, Own
<1>4. ASSUME NEW t \in Thread PROVE LocalInv(th[t]) /\ Below(th[t], Top)
  BY DEF PageInv, TopInv
<1>5. \A v \in 0 .. (KernPages - 1) : Own(v)
  BY EntryPlace, VmmAssumption DEF Own
<1>6. ASSUME NEW t \in Thread, th[t].pc = "map" PROVE Own(th[t].page)
  BY <1>3, <1>4, <1>6 DEF LocalInv, Below
<1>7. ASSUME NEW t \in Thread, NEW v \in ToRelease(th[t]) PROVE Own(v)
  BY <1>3, <1>4 DEF LocalInv, Below
<1>8. \A v \in InUse : Own(v)
  BY <1>3 DEF InUse, TopInv
<1> QED BY <1>5, <1>6, <1>7, <1>8

(***************************************************************************)
(* A write to the entry of a page leaves those of the others alone.        *)
(***************************************************************************)
LEMMA OtherEntries ==
    ASSUME KernelFrames, NEW p, Own(p), NEW x, pte' = [pte EXCEPT ![get_pte(p)] = x]
    PROVE  /\ pte'[get_pte(p)] = x
           /\ \A v : Own(v) /\ v # p => pte'[get_pte(v)] = pte[get_pte(v)]
  BY EntryPlace DEF KernelFrames, Own

(***************************************************************************)
(* A step that changes locals only.                                        *)
(***************************************************************************)
LEMMA QuietFrames ==
    ASSUME PageInv, FrameInv, NEW t \in Thread, NEW r \in Local, Goto(t, r),
           UNCHANGED <<pte, frames, alloc, held, user>>, r.pc # "map",
           Got(r) \subseteq Got(th[t]), ToRelease(th[t]) \subseteq ToRelease(r),
           TaskLocal(r, user[t])
    PROVE  FrameInv'
<1>1. th' \in [Thread -> Local] /\ th'[t] = r /\ \A u \in Thread \ {t} : th'[u] = th[u]
  BY DEF PageInv, VmmTypes, Goto
<1>2. InUse' = InUse /\ \A v : vmm_v2p(v)' = vmm_v2p(v) /\ (Present(v)' <=> Present(v))
  BY DEF InUse, vmm_v2p, Present
<1>3. KernelFrames'
  <2>1. ASSUME NEW u \in Thread, th'[u].pc = "map" PROVE Fresh(th[u].frame)'
    <3>1. u # t /\ th'[u] = th[u]
      BY <1>1, <2>1
    <3>2. Fresh(th[u].frame)
      BY <2>1, <3>1 DEF FrameInv, KernelFrames
    <3> QED BY <1>2, <3>1, <3>2 DEF Fresh
  <2> QED BY <1>2, <2>1 DEF FrameInv, KernelFrames
<1>4. TaskFrames'
  BY <1>2 DEF FrameInv, TaskFrames
<1>5. ASSUME NEW v, Kept(v) PROVE Kept(v)'
  BY <1>1, <1>5 DEF Kept
<1>6. TaskTables'
  <2> SUFFICES ASSUME NEW u \in Thread
               PROVE  /\ user'[u].given > 0 => user'[u].pde # NoFrame
                      /\ user'[u].pde # NoFrame => \E v \in InUse' : vmm_v2p(v)' = user'[u].pde /\ Kept(v)'
                      /\ TaskLocal(th'[u], user'[u])
    BY DEF TaskTables
  <2>1. TaskLocal(th'[u], user'[u])
    BY <1>1 DEF FrameInv, TaskTables
  <2> QED BY <1>2, <1>5, <2>1 DEF FrameInv, TaskTables
<1>7. ImageInv'
  BY <1>5 DEF FrameInv, ImageInv
<1>8. ReleasedInv'
  <2>1. ASSUME NEW v, \E u \in Thread : v \in ToRelease(th[u]) PROVE \E u \in Thread : v \in ToRelease(th'[u])
    BY <1>1, <2>1
  <2> QED BY <1>2, <2>1 DEF FrameInv, ReleasedInv
<1> QED BY <1>3, <1>4, <1>6, <1>7, <1>8 DEF FrameInv

(***************************************************************************)
(* The steps that change locals, and at most the bitmap.                   *)
(***************************************************************************)
LEMMA CallsKeepFrames ==
    ASSUME PageInv, FrameInv, NEW t \in Thread, Alone(t),
           \/ create_user_task_bitmap(t) \/ create_user_task_pdt(t) \/ create_kern_thread(t)
           \/ start_user_task(t) \/ vmm_user_alloc_one_page(t)
    PROVE  FrameInv'
<1>1. th[t] \in Local /\ th \in [Thread -> Local] /\ TaskLocal(th[t], user[t])
  BY DEF PageInv, VmmTypes, FrameInv, TaskTables
<1>2. PICK i \in Local : i = Idle /\ i.pc = "idle" /\ ~i.table
  BY IdleIsLocal DEF Idle
<1>3. ASSUME NEW r \in Local, Goto(t, r), UNCHANGED <<pte, frames, alloc, held, user>>, Empty(r),
             Empty(th[t]), r.pc # "map", TaskLocal(r, user[t])
      PROVE  FrameInv'
  <2>1. Got(r) = {} /\ ToRelease(th[t]) = {}
    BY <1>1, <1>3, EmptyLocals
  <2> QED BY <1>3, <2>1, QuietFrames
<1>4. CASE create_user_task_bitmap(t) \/ create_user_task_pdt(t) \/ create_kern_thread(t)
  <2>1. PICK n \in Nat, use \in {"bitmap", "pdt", "tcb"} : Request(t, n, use)
    BY <1>4, VmmAssumption DEF create_user_task_bitmap, create_user_task_pdt, create_kern_thread
  <2>2. PICK r \in Local : r = [i EXCEPT !.pc = "alloc", !.left = n, !.n = n, !.use = use]
    BY DEF Local, Pcs
  <2>3. r.pc = "alloc" /\ ~r.table
    BY <1>2, <2>2 DEF Local
  <2>4. Empty(r) /\ Empty(th[t]) /\ TaskLocal(r, user[t])
    BY <2>1, <2>3 DEF Empty, Allocating, Releasing, TaskLocal, Request, At
  <2> QED BY <1>2, <1>3, <2>1, <2>2, <2>3, <2>4 DEF Request
<1>5. CASE start_user_task(t)
  <2>1. PICK r \in Local : r = [i EXCEPT !.pc = "user_alloc"]
    BY DEF Local, Pcs
  <2>2. r.pc = "user_alloc" /\ ~r.table
    BY <1>2, <2>1 DEF Local
  <2>3. Empty(r) /\ Empty(th[t]) /\ TaskLocal(r, user[t])
    BY <1>5, <2>2 DEF Empty, Allocating, Releasing, TaskLocal, start_user_task, At
  <2> QED BY <1>2, <1>3, <1>5, <2>1, <2>2, <2>3 DEF start_user_task
<1>6. CASE vmm_user_alloc_one_page(t)
  <2>1. PICK r \in Local : r = IF vmm_user_check_pt_present(t)
               THEN [th[t] EXCEPT !.pc = "user_frame"]
               ELSE [th[t] EXCEPT !.pc = "alloc", !.left = 1, !.n = 1, !.table = TRUE]
    BY <1>1 DEF Local, Pcs
  <2>2. \/ r.pc = "user_frame" /\ user[t].pde # NoFrame
        \/ r.pc = "alloc" /\ user[t].pde = NoFrame
    BY <1>1, <2>1 DEF Local, vmm_user_check_pt_present
  <2>3. Empty(r) /\ Empty(th[t]) /\ TaskLocal(r, user[t])
    BY <1>1, <1>6, <2>2 DEF Empty, Allocating, Releasing, TaskLocal, vmm_user_alloc_one_page, At
  <2> QED BY <1>3, <1>6, <2>1, <2>2, <2>3 DEF vmm_user_alloc_one_page
<1> QED BY <1>4, <1>5, <1>6

(***************************************************************************)
(* A thread that stops keeps what it has; nothing it was releasing is left *)
(* behind.                                                                 *)
(***************************************************************************)
LEMMA StopKeepsFrames ==
    ASSUME PageInv, FrameInv, NEW t \in Thread, Goto(t, Stopped(t)), ToRelease(th[t]) = {},
           UNCHANGED <<pte, frames, alloc, held, user>>
    PROVE  FrameInv'
<1>1. th[t] \in Local
  BY DEF PageInv, VmmTypes
<1>2. Stopped(t) \in Local /\ Stopped(t).pc = "stopped"
  BY <1>1 DEF Stopped, Local, Pcs
<1>3. PICK r \in Local : r = Stopped(t) /\ r.pc = "stopped"
  BY <1>2
<1>4. Got(r) = {} /\ TaskLocal(r, user[t])
  BY <1>3, RestingLocals DEF TaskLocal
<1> QED BY <1>3, <1>4, QuietFrames

(***************************************************************************)
(* The search of the bitmap, and the update of its byte.                   *)
(***************************************************************************)
LEMMA SearchKeepsFrames ==
    ASSUME PageInv, FrameInv, NEW t \in Thread, Alone(t),
           bitmap_alloc(t) \/ bitmap_alloc_one_page(t) \/ LoadByte(t) \/ StoreByte(t)
    PROVE  FrameInv'
<1>1. LocalInv(th[t]) /\ th[t] \in Local /\ th \in [Thread -> Local]
  BY DEF PageInv, VmmTypes
<1>2. PICK s \in Local : s = th[t]
  BY <1>1
<1>3. TaskLocal(s, user[t]) /\ LocalInv(s)
  BY <1>1, <1>2 DEF FrameInv, TaskTables
<1>4. ASSUME NEW r \in Local, Goto(t, r), UNCHANGED <<pte, frames, alloc, held, user>>,
             s.pc \in {"alloc", "alloc_one_page", "load", "store"},
             r.pc \in {"load", "store", "frame", "unmap"}, r.table = s.table,
             Got(r) \subseteq Got(s), ToRelease(s) \subseteq ToRelease(r)
      PROVE  FrameInv'
  <2>1. TaskLocal(r, user[t])
    BY <1>3, <1>4 DEF TaskLocal
  <2> QED BY <1>2, <1>4, <2>1, QuietFrames
<1>5. CASE bitmap_alloc(t)
  <2>1. s.pc = "alloc" /\ ToRelease(s) = {} /\ UNCHANGED <<pte, frames, alloc, held, user>>
    BY <1>2, <1>5, Places DEF bitmap_alloc, At, Empty
  <2>2. CASE Goto(t, Stopped(t))
    BY <1>2, <2>1, <2>2, StopKeepsFrames
  <2>3. ASSUME NEW v \in Page,
               Goto(t, [th[t] EXCEPT !.pc = "load", !.op = "sub", !.page = v, !.first = v])
        PROVE  FrameInv'
    <3>1. v \in Nat
      BY PagePlace
    <3>2. PICK r \in Local : r = [s EXCEPT !.pc = "load", !.op = "sub", !.page = v, !.first = v]
      BY <3>1 DEF Local, Pcs
    <3>3. r.pc = "load" /\ r.op = "sub" /\ r.page = v /\ r.first = v /\ r.table = s.table
      BY <3>2 DEF Local
    <3>4. Got(r) = {}
      BY <3>1, <3>3, Places
    <3> QED BY <1>2, <1>4, <2>1, <2>3, <3>2, <3>3, <3>4
  <2> QED BY <1>5, <2>2, <2>3 DEF bitmap_alloc
<1>6. CASE bitmap_alloc_one_page(t)
  <2>1. s.pc = "alloc_one_page" /\ ToRelease(s) = {} /\ UNCHANGED <<pte, frames, alloc, held, user>>
    BY <1>2, <1>6, Places DEF bitmap_alloc_one_page, At
  <2>2. CASE Goto(t, Stopped(t))
    BY <1>2, <2>1, <2>2, StopKeepsFrames
  <2>3. CASE Goto(t, [th[t] EXCEPT !.pc = "load", !.op = "sub"])
    <3>1. PICK r \in Local : r = [s EXCEPT !.pc = "load", !.op = "sub"]
      BY DEF Local, Pcs
    <3>2. r.pc = "load" /\ r.op = "sub" /\ r.page = s.page /\ r.first = s.first /\ r.table = s.table
      BY <3>1 DEF Local
    <3>3. Got(r) = Got(s)
      BY <2>1, <3>2, Places
    <3> QED BY <1>2, <1>4, <2>1, <2>3, <3>1, <3>2, <3>3
  <2> QED BY <1>6, <2>2, <2>3 DEF bitmap_alloc_one_page
<1>7. CASE LoadByte(t)
  <2>1. s.pc = "load" /\ UNCHANGED <<pte, frames, alloc, held, user>>
    BY <1>2, <1>7 DEF LoadByte, At
  <2>2. th'[t] \in Local /\ th'[t] = [s EXCEPT !.pc = "store", !.reg = bits[ByteOf(s.page)]]
    <3>1. VmmTypes'
      BY <1>7, SearchKeepsPages DEF PageInv
    <3> QED BY <1>1, <1>2, <1>7, <3>1 DEF LoadByte, Goto, VmmTypes
  <2>3. PICK r \in Local : r = th'[t]
    BY <2>2
  <2>4. /\ r.pc = "store" /\ r.op = s.op /\ r.page = s.page /\ r.first = s.first
        /\ r.left = s.left /\ r.table = s.table
    BY <2>2, <2>3 DEF Local
  <2>5. Got(r) = Got(s) /\ ToRelease(r) = ToRelease(s)
    BY <2>1, <2>4 DEF Got, ToRelease, Allocating, Releasing
  <2>6. Goto(t, r)
    BY <1>2, <1>7, <2>2, <2>3 DEF LoadByte
  <2> QED BY <1>4, <2>1, <2>4, <2>5, <2>6
<1>8. CASE StoreByte(t)
  <2>1. /\ s.pc = "store" /\ s.op \in {"sub", "clean", "release"}
        /\ UNCHANGED <<pte, frames, alloc, held, user>>
    BY <1>2, <1>3, <1>8 DEF StoreByte, At, LocalInv, Local
  <2>2. CASE s.op = "clean"
    <3>1. Goto(t, Stopped(t)) /\ ToRelease(s) = {}
      BY <1>2, <1>8, <2>1, <2>2, Places DEF StoreByte
    <3> QED BY <1>2, <2>1, <3>1, StopKeepsFrames
  <2>3. CASE s.op = "sub"
    <3>1. PICK r \in Local : r = [s EXCEPT !.pc = "frame"]
      BY DEF Local, Pcs
    <3>2. r.pc = "frame" /\ r.page = s.page /\ r.first = s.first /\ r.table = s.table
      BY <3>1 DEF Local
    <3>3. Goto(t, r) /\ Got(r) = Got(s) /\ ToRelease(s) = {}
      BY <1>2, <1>8, <2>1, <2>3, <3>1, <3>2, Places DEF StoreByte
    <3> QED BY <1>4, <2>1, <3>2, <3>3
  <2>4. CASE s.op = "release"
    <3>1. PICK r \in Local : r = [s EXCEPT !.pc = "unmap"]
      BY DEF Local, Pcs
    <3>2. r.pc = "unmap" /\ r.page = s.page /\ r.left = s.left /\ r.table = s.table
      BY <3>1 DEF Local
    <3>3. Got(r) = {} /\ ToRelease(s) = ToRelease(r)
      BY <2>1, <2>4, <3>2, Places
    <3>4. Goto(t, r)
      BY <1>2, <1>8, <2>4, <3>1 DEF StoreByte
    <3> QED BY <1>4, <2>1, <3>2, <3>3, <3>4
  <2> QED BY <2>1, <2>2, <2>3, <2>4
<1> QED BY <1>5, <1>6, <1>7, <1>8

(***************************************************************************)
(* What a step that leaves the entries and the bookkeeping of pages alone  *)
(* keeps, if it takes no frame but from pmm.                               *)
(***************************************************************************)
LEMMA SameEntries ==
    ASSUME PageInv, FrameInv, NEW t \in Thread, Alone(t), NEW r \in Local, Goto(t, r),
           UNCHANGED <<pte, alloc, held>>, frames' \subseteq frames,
           Got(r) \subseteq Got(th[t]), ToRelease(th[t]) \subseteq ToRelease(r),
           r.pc = "map" => Fresh(r.frame)'
    PROVE  /\ KernelFrames' /\ ImageInv' /\ ReleasedInv'
           /\ InUse' = InUse /\ \A v : vmm_v2p(v)' = vmm_v2p(v)
           /\ \A v : Kept(v) => Kept(v)'
<1>1. th' \in [Thread -> Local] /\ th'[t] = r /\ \A u \in Thread \ {t} : th'[u] = th[u]
  BY DEF PageInv, VmmTypes, Goto
<1>2. InUse' = InUse /\ \A v : vmm_v2p(v)' = vmm_v2p(v) /\ (Present(v)' <=> Present(v))
  BY DEF InUse, vmm_v2p, Present
<1>3. KernelFrames'
  <2>1. ASSUME NEW u \in Thread, th'[u].pc = "map" PROVE Fresh(th[u].frame)'
    <3>1. u = t
      BY <1>1, <2>1 DEF Alone, Resting
    <3> QED BY <1>1, <2>1, <3>1 DEF Fresh
  <2> QED BY <1>2, <2>1 DEF FrameInv, KernelFrames
<1>4. ASSUME NEW v, Kept(v) PROVE Kept(v)'
  BY <1>1, <1>4 DEF Kept
<1>5. ImageInv'
  BY <1>4 DEF FrameInv, ImageInv
<1>6. ReleasedInv'
  <2>1. ASSUME NEW v, \E u \in Thread : v \in ToRelease(th[u]) PROVE \E u \in Thread : v \in ToRelease(th'[u])
    BY <1>1, <2>1
  <2> QED BY <1>2, <2>1 DEF FrameInv, ReleasedInv
<1> QED BY <1>2, <1>3, <1>4, <1>5, <1>6

(***************************************************************************)
(* A frame of pmm's is nobody's.                                           *)
(***************************************************************************)
LEMMA PoolIsFresh ==
    ASSUME PageInv, FrameInv, NEW f \in frames
    PROVE  /\ f \in Memory /\ f \in Nat /\ f # NoFrame
           /\ \A v \in InUse : vmm_v2p(v) # f
           /\ \A t \in Thread, k \in UserPages : user[t].table[k] # f
<1>1. f \in Memory /\ f \in Nat /\ f # NoFrame
  BY VmmAssumption DEF PageInv, VmmTypes, Memory, NoFrame
<1>2. \A v \in InUse : vmm_v2p(v) # f
  BY DEF FrameInv, KernelFrames
<1>3. \A t \in Thread, k \in UserPages : user[t].table[k] # f
  BY <1>1 DEF FrameInv, TaskFrames
<1> QED BY <1>1, <1>2, <1>3

(***************************************************************************)
(* A frame is taken for a page of the kernel, or there is none.            *)
(***************************************************************************)
LEMMA FrameKeepsFrames ==
    ASSUME PageInv, FrameInv, NEW t \in Thread, Alone(t), pmm_alloc_one_page(t)
    PROVE  FrameInv'
<1>1. th[t] \in Local /\ th \in [Thread -> Local]
  BY DEF PageInv, VmmTypes
<1>2. PICK s \in Local : s = th[t]
  BY <1>1
<1>3. s.pc = "frame" /\ TaskLocal(s, user[t]) /\ UNCHANGED <<pte, alloc, held, user>> /\ ToRelease(s) = {}
  BY <1>2, Places DEF FrameInv, TaskTables, pmm_alloc_one_page, At
<1>4. ASSUME NEW r \in Local, Goto(t, r), frames' \subseteq frames, r.table = s.table,
             r.page = s.page, r.first = s.first,
             \/ r.pc = "map" /\ Fresh(r.frame)'
             \/ r.pc = "load" /\ r.op = "clean"
      PROVE  FrameInv'
  <2>1. Got(r) = Got(s) /\ TaskLocal(r, user[t])
    BY <1>3, <1>4, Places DEF TaskLocal
  <2>2. /\ KernelFrames' /\ ImageInv' /\ ReleasedInv'
        /\ InUse' = InUse /\ \A v : vmm_v2p(v)' = vmm_v2p(v)
        /\ \A v : Kept(v) => Kept(v)'
    BY <1>2, <1>3, <1>4, <2>1, SameEntries
  <2>3. TaskFrames'
    BY <1>3, <1>4, <2>2 DEF FrameInv, TaskFrames
  <2>4. TaskTables'
    <3> SUFFICES ASSUME NEW u \in Thread
                 PROVE  /\ user'[u].given > 0 => user'[u].pde # NoFrame
                        /\ user'[u].pde # NoFrame => \E v \in InUse' : vmm_v2p(v)' = user'[u].pde /\ Kept(v)'
                        /\ TaskLocal(th'[u], user'[u])
      BY DEF TaskTables
    <3>1. TaskLocal(th'[u], user'[u])
      BY <1>1, <1>3, <1>4, <2>1 DEF FrameInv, TaskTables, Goto
    <3> QED BY <1>3, <2>2, <3>1 DEF FrameInv, TaskTables
  <2> QED BY <2>2, <2>3, <2>4 DEF FrameInv
<1>5. ASSUME NEW f \in frames, frames' = frames \ {f}, Goto(t, [th[t] EXCEPT !.pc = "map", !.frame = f])
      PROVE  FrameInv'
  <2>1. f \in Int
    BY PoolIsFresh
  <2>2. PICK r \in Local : r = [s EXCEPT !.pc = "map", !.frame = f]
    BY <2>1 DEF Local, Pcs
  <2>3. r.pc = "map" /\ r.frame = f /\ r.page = s.page /\ r.first = s.first /\ r.table = s.table
    BY <2>2 DEF Local
  <2>4. Fresh(r.frame)'
    BY <1>3, <1>5, <2>3, PoolIsFresh DEF Fresh, InUse, vmm_v2p
  <2> QED BY <1>2, <1>4, <1>5, <2>2, <2>3, <2>4
<1>6. CASE frames' = frames /\ Goto(t, [th[t] EXCEPT !.pc = "load", !.op = "clean"])
  <2>1. PICK r \in Local : r = [s EXCEPT !.pc = "load", !.op = "clean"]
    BY DEF Local, Pcs
  <2>2. r.pc = "load" /\ r.op = "clean" /\ r.page = s.page /\ r.first = s.first /\ r.table = s.table
    BY <2>1 DEF Local
  <2> QED BY <1>2, <1>4, <1>6, <2>1, <2>2
<1> QED BY <1>5, <1>6 DEF pmm_alloc_one_page

(***************************************************************************)
(* A user task gets its page table.                                        *)
(***************************************************************************)
LEMMA TableKeepsFrames ==
    ASSUME PageInv, FrameInv, NEW t \in Thread, Alone(t), create_user_page_table(t)
    PROVE  FrameInv'
<1>1. /\ th[t] \in Local /\ th \in [Thread -> Local] /\ LocalInv(th[t]) /\ user \in [Thread -> Task]
  BY DEF PageInv, VmmTypes, FrameInv, TaskFrames
<1>2. PICK s \in Local : s = th[t]
  BY <1>1
<1>3. /\ s.pc = "user_table" /\ UNCHANGED <<pte, frames, alloc, held>>
      /\ user' = [user EXCEPT ![t].pde = vmm_v2p(s.page), ![t].table = EmptyTable]
  BY <1>2 DEF create_user_page_table, At
<1>4. user[t].pde = NoFrame /\ user[t].given = 0
  <2>1. user[t].pde = NoFrame /\ ~(user[t].given > 0)
    BY <1>2, <1>3 DEF FrameInv, TaskTables, TaskLocal
  <2>2. user[t].given \in 0 .. 2
    BY <1>1 DEF Task
  <2> QED BY <2>1, <2>2
<1>5. PICK r \in Local : r = [s EXCEPT !.pc = "user_frame"]
  BY DEF Local, Pcs
<1>6. r.pc = "user_frame" /\ Goto(t, r)
  BY <1>2, <1>5 DEF Local, create_user_page_table
<1>7. Empty(s) /\ Empty(r)
  BY <1>3, <1>6 DEF Empty, Allocating, Releasing
<1>8. Got(r) = {} /\ ToRelease(s) = {}
  BY <1>7, EmptyLocals
<1>9. /\ KernelFrames' /\ ImageInv' /\ ReleasedInv'
      /\ InUse' = InUse /\ \A v : vmm_v2p(v)' = vmm_v2p(v)
      /\ \A v : Kept(v) => Kept(v)'
  <2>1. r.pc # "map"
    BY <1>6
  <2> QED BY <1>2, <1>3, <1>6, <1>8, <2>1, SameEntries
<1>10. s.page \in InUse /\ Kept(s.page)' /\ vmm_v2p(s.page) \in Nat
  <2>1. s.page \in InUse /\ \A h \in held : s.page \notin Run(h)
    BY <1>1, <1>2, <1>3 DEF LocalInv, InUse
  <2>2. ASSUME NEW u \in Thread PROVE Got(th'[u]) = {}
    <3>1. CASE u = t
      BY <1>1, <1>6, <1>8, <3>1 DEF Goto
    <3>2. CASE u # t
      BY <1>1, <1>6, <3>2, RestingLocals DEF Goto, Alone, Resting
    <3> QED BY <3>1, <3>2
  <2> QED BY <1>3, <2>1, <2>2 DEF Kept, FrameInv, KernelFrames
<1>11. /\ user' \in [Thread -> Task]
       /\ user'[t].pde = vmm_v2p(s.page) /\ user'[t].given = user[t].given
       /\ \A k \in UserPages : user'[t].table[k] = user[t].table[k]
       /\ \A u \in Thread \ {t} : user'[u] = user[u]
  <2>1. EmptyTable \in [UserPages -> Int] /\ \A k \in UserPages : EmptyTable[k] = NoFrame
    BY DEF EmptyTable, NoFrame
  <2>2. \A k \in UserPages : user[t].table[k] = NoFrame
    BY <1>4 DEF FrameInv, TaskFrames, UserPages
  <2>3. PICK x \in Task : x = user[t]
    BY <1>1
  <2>4. PICK y \in Task : /\ y = [[x EXCEPT !.pde = vmm_v2p(s.page)] EXCEPT !.table = EmptyTable]
                          /\ y.pde = vmm_v2p(s.page) /\ y.given = x.given /\ y.table = EmptyTable
    <3>1. PICK d \in Int : d = vmm_v2p(s.page)
      BY <1>10
    <3>2. PICK w \in Task : w = [x EXCEPT !.pde = d]
      BY DEF Task
    <3>3. w.pde = d /\ w.given = x.given
      BY <3>2 DEF Task
    <3>4. PICK y \in Task : y = [w EXCEPT !.table = EmptyTable]
      BY <2>1 DEF Task
    <3>5. y.pde = w.pde /\ y.given = w.given /\ y.table = EmptyTable
      BY <3>4 DEF Task
    <3> QED BY <3>1, <3>2, <3>3, <3>4, <3>5
  <2>5. y.pde = vmm_v2p(s.page) /\ y.given = x.given /\ y.table = EmptyTable
    BY <2>4
  <2>6. user' = [user EXCEPT ![t] = y]
    BY <1>1, <1>3, <2>3, <2>4
  <2> QED BY <1>1, <2>1, <2>2, <2>3, <2>5, <2>6
<1>12. TaskFrames'
  <2>1. ASSUME NEW u \in Thread, NEW k \in UserPages
        PROVE  user'[u].table[k] = user[u].table[k] /\ user'[u].given = user[u].given
    BY <1>11
  <2> QED BY <1>3, <1>9, <1>11, <2>1 DEF FrameInv, TaskFrames
<1>13. TaskTables'
  <2> SUFFICES ASSUME NEW u \in Thread
               PROVE  /\ user'[u].given > 0 => user'[u].pde # NoFrame
                      /\ user'[u].pde # NoFrame => \E v \in InUse' : vmm_v2p(v)' = user'[u].pde /\ Kept(v)'
                      /\ TaskLocal(th'[u], user'[u])
    BY DEF TaskTables
  <2>1. CASE u = t
    <3>1. user'[t].pde # NoFrame
      BY <1>10, <1>11 DEF NoFrame
    <3>2. TaskLocal(r, user'[t])
      BY <1>4, <1>6, <1>11, <3>1 DEF TaskLocal
    <3>3. th'[t] = r
      BY <1>1, <1>6 DEF Goto
    <3> QED BY <1>9, <1>10, <1>11, <2>1, <3>1, <3>2, <3>3
  <2>2. CASE u # t
    <3>1. th'[u] = th[u] /\ user'[u] = user[u]
      BY <1>1, <1>6, <1>11, <2>2 DEF Goto
    <3> QED BY <1>9, <3>1 DEF FrameInv, TaskTables
  <2> QED BY <2>1, <2>2
<1> QED BY <1>9, <1>12, <1>13 DEF FrameInv

(***************************************************************************)
(* A page of a user task gets a frame, or the task stops.                  *)
(***************************************************************************)
LEMMA UserKeepsFrames ==
    ASSUME PageInv, FrameInv, NEW t \in Thread, Alone(t), MapUserPage(t)
    PROVE  FrameInv'
<1>1. /\ th[t] \in Local /\ th \in [Thread -> Local] /\ user \in [Thread -> Task]
  BY DEF PageInv, VmmTypes, FrameInv, TaskFrames
<1>2. PICK x \in Task : x = user[t]
  BY <1>1
<1>3. PICK k : k = x.given + 1
  OBVIOUS
<1>4. /\ At(t, "user_frame") /\ UNCHANGED <<bits, pte, alloc, held>>
      /\ \/ \E f \in frames :
               /\ frames' = frames \ {f}
               /\ user' = [user EXCEPT ![t].table[k] = f, ![t].given = k]
               /\ Goto(t, IF k + 1 \in UserPages THEN [Idle EXCEPT !.pc = "user_alloc"] ELSE Idle)
         \/ frames = {} /\ Goto(t, Stopped(t)) /\ UNCHANGED <<frames, user>>
  BY <1>2, <1>3 DEF MapUserPage
<1>5. Empty(th[t])
  BY <1>4 DEF At, Empty, Allocating, Releasing
<1>6. ToRelease(th[t]) = {}
  BY <1>1, <1>5, EmptyLocals
<1>7. CASE Goto(t, Stopped(t)) /\ UNCHANGED <<frames, user>>
  BY <1>4, <1>6, <1>7, StopKeepsFrames
<1>8. ASSUME NEW f \in frames, frames' = frames \ {f},
             user' = [user EXCEPT ![t].table[k] = f, ![t].given = k],
             Goto(t, IF k + 1 \in UserPages THEN [Idle EXCEPT !.pc = "user_alloc"] ELSE Idle)
      PROVE  FrameInv'
  <2>1. /\ f \in Memory \ frames' /\ f \in Int /\ f # NoFrame
        /\ \A v \in InUse : vmm_v2p(v) # f
        /\ \A u \in Thread, l \in UserPages : user[u].table[l] # f
    BY <1>8, PoolIsFresh
  <2>2. /\ x.pde # NoFrame /\ x.given \in 0 .. 1 /\ k \in UserPages /\ k \in 1 .. 2
        /\ x.table \in [UserPages -> Int]
    <3>1. x.pde # NoFrame /\ x.given <= 1
      BY <1>2, <1>4 DEF FrameInv, TaskTables, TaskLocal, At
    <3>2. x.given \in 0 .. 2 /\ x.table \in [UserPages -> Int]
      BY DEF Task
    <3> QED BY <1>3, <3>1, <3>2 DEF UserPages
  <2>3. PICK r \in Local : /\ Goto(t, r) /\ Got(r) = {} /\ r.pc # "map" /\ ~r.table
                           /\ r.pc = "idle" \/ (r.pc = "user_alloc" /\ k = 1)
    <3>1. PICK i \in Local : i = Idle /\ i.pc = "idle" /\ ~i.table
      BY IdleIsLocal DEF Idle
    <3>2. CASE k + 1 \in UserPages
      <4>1. PICK r \in Local : r = [i EXCEPT !.pc = "user_alloc"]
        BY DEF Local, Pcs
      <4>2. r.pc = "user_alloc" /\ ~r.table
        BY <3>1, <4>1 DEF Local
      <4>3. k = 1
        BY <2>2, <3>2 DEF UserPages
      <4>4. Got(r) = {}
        BY <4>2, EmptyLocals DEF Empty, Allocating, Releasing
      <4> QED BY <1>8, <3>1, <3>2, <4>1, <4>2, <4>3, <4>4
    <3>3. CASE k + 1 \notin UserPages
      BY <1>8, <3>1, <3>3, RestingLocals
    <3> QED BY <3>2, <3>3
  <2>4. /\ KernelFrames' /\ ImageInv' /\ ReleasedInv'
        /\ InUse' = InUse /\ \A v : vmm_v2p(v)' = vmm_v2p(v)
        /\ \A v : Kept(v) => Kept(v)'
    BY <1>4, <1>6, <1>8, <2>3, SameEntries
  <2>5. /\ user' \in [Thread -> Task]
        /\ user'[t].pde = x.pde /\ user'[t].given = k /\ user'[t].table[k] = f
        /\ \A l \in UserPages \ {k} : user'[t].table[l] = x.table[l]
        /\ \A u \in Thread \ {t} : user'[u] = user[u]
    <3>1. PICK z \in [UserPages -> Int] : z = [x.table EXCEPT ![k] = f]
      BY <2>1, <2>2
    <3>2. PICK y \in Task : /\ y = [[x EXCEPT !.table = z] EXCEPT !.given = k]
                            /\ y.pde = x.pde /\ y.given = k /\ y.table = z
      <4>1. PICK w \in Task : w = [x EXCEPT !.table = z]
        BY DEF Task
      <4>2. w.pde = x.pde /\ w.table = z
        BY <4>1 DEF Task
      <4>3. k \in 0 .. 2
        BY <2>2
      <4>4. PICK y \in Task : y = [w EXCEPT !.given = k]
        BY <4>3 DEF Task
      <4>5. y.pde = w.pde /\ y.given = k /\ y.table = w.table
        BY <4>4 DEF Task
      <4> QED BY <4>1, <4>2, <4>4, <4>5
    <3>3. y.pde = x.pde /\ y.given = k /\ y.table = z
      BY <3>2
    <3>4. user' = [user EXCEPT ![t] = y]
      BY <1>1, <1>2, <1>8, <3>1, <3>2
    <3>5. z[k] = f /\ \A l \in UserPages \ {k} : z[l] = x.table[l]
      BY <2>2, <3>1
    <3> QED BY <1>1, <3>3, <3>4, <3>5
  <2>6. ASSUME NEW u \in Thread, NEW l \in UserPages
        PROVE  /\ u = t /\ l = k => user'[u].table[l] = f /\ l <= user'[u].given
               /\ ~(u = t /\ l = k) => /\ user'[u].table[l] = user[u].table[l]
                                       /\ l <= user'[u].given <=> l <= user[u].given
    BY <1>2, <1>3, <2>2, <2>5 DEF UserPages
  <2>7. TaskFrames'
    <3>1. ASSUME NEW u \in Thread, NEW l \in UserPages
          PROVE  /\ user'[u].table[l] # NoFrame <=> l <= user'[u].given
                 /\ l <= user'[u].given => /\ user'[u].table[l] \in Memory \ frames'
                                           /\ \A v \in InUse' : vmm_v2p(v)' # user'[u].table[l]
      <4>1. CASE u = t /\ l = k
        BY <2>1, <2>4, <2>6, <4>1
      <4>2. CASE ~(u = t /\ l = k)
        <5>1. /\ user[u].table[l] # NoFrame <=> l <= user[u].given
              /\ l <= user[u].given => /\ user[u].table[l] \in Memory \ frames
                                       /\ \A v \in InUse : vmm_v2p(v) # user[u].table[l]
          BY DEF FrameInv, TaskFrames
        <5>2. /\ user'[u].table[l] = user[u].table[l]
              /\ l <= user'[u].given <=> l <= user[u].given
          BY <2>6, <4>2
        <5>3. \A y \in Memory \ frames : y \in Memory \ frames'
          BY <1>8
        <5>4. (\A v \in InUse : vmm_v2p(v) # user[u].table[l])
                  => \A v \in InUse' : vmm_v2p(v)' # user[u].table[l]
          BY <2>4
        <5> QED BY <5>1, <5>2, <5>3, <5>4
      <4> QED BY <4>1, <4>2
    <3>2. ASSUME NEW u \in Thread, NEW w \in Thread, NEW l \in UserPages, NEW m \in UserPages,
                 l <= user'[u].given, user'[u].table[l] = user'[w].table[m]
          PROVE  u = w /\ l = m
      <4>1. CASE u = t /\ l = k
        BY <2>1, <2>6, <3>2, <4>1
      <4>2. CASE ~(u = t /\ l = k) /\ w = t /\ m = k
        BY <2>1, <2>6, <3>2, <4>2
      <4>3. CASE ~(u = t /\ l = k) /\ ~(w = t /\ m = k)
        <5>1. l <= user[u].given /\ user[u].table[l] = user[w].table[m]
          BY <2>6, <3>2, <4>3
        <5> QED BY <5>1 DEF FrameInv, TaskFrames
      <4> QED BY <4>1, <4>2, <4>3
    <3> QED BY <2>5, <3>1, <3>2 DEF TaskFrames
  <2>8. TaskTables'
    <3> SUFFICES ASSUME NEW u \in Thread
                 PROVE  /\ user'[u].given > 0 => user'[u].pde # NoFrame
                        /\ user'[u].pde # NoFrame => \E v \in InUse' : vmm_v2p(v)' = user'[u].pde /\ Kept(v)'
                        /\ TaskLocal(th'[u], user'[u])
      BY DEF TaskTables
    <3>1. user'[u].pde = user[u].pde
      BY <1>2, <2>5
    <3>2. user'[u].given > 0 => user'[u].pde # NoFrame
      BY <1>2, <2>2, <2>5 DEF FrameInv, TaskTables
    <3>3. TaskLocal(th'[u], user'[u])
      <4>1. CASE u = t
        <5>1. TaskLocal(r, user'[t])
          BY <2>3, <2>5 DEF TaskLocal
        <5>2. th'[t] = r
          BY <1>1, <2>3 DEF Goto
        <5> QED BY <4>1, <5>1, <5>2
      <4>2. CASE u # t
        <5>1. th'[u] = th[u] /\ user'[u] = user[u]
          BY <1>1, <2>3, <2>5, <4>2 DEF Goto
        <5> QED BY <5>1 DEF FrameInv, TaskTables
      <4> QED BY <4>1, <4>2
    <3> QED BY <2>4, <3>1, <3>2, <3>3 DEF FrameInv, TaskTables
  <2> QED BY <2>4, <2>7, <2>8 DEF FrameInv
<1> QED BY <1>4, <1>7, <1>8

(***************************************************************************)
(* A page is mapped to its frame, and is in use.                           *)
(***************************************************************************)
LEMMA MapKeepsFrames ==
    ASSUME TablesSuffice, PageInv, TopInv, FrameInv, NEW t \in Thread, Alone(t), MapPage(t)
    PROVE  FrameInv'
<1>1. /\ th[t] \in Local /\ th \in [Thread -> Local] /\ LocalInv(th[t]) /\ alloc \in [Page -> 0 .. 1]
      /\ KernelFrames
  BY DEF PageInv, VmmTypes, FrameInv
<1>2. PICK s \in Local : s = th[t]
  BY <1>1
<1>3. PICK p \in Nat : p = s.page
  BY DEF Local
<1>4. PICK f \in Int : f = s.frame
  BY DEF Local
<1>5. /\ s.pc = "map" /\ UNCHANGED <<bits, frames, user>>
      /\ pte' = [pte EXCEPT ![get_pte(p)] = [frame |-> f, p |-> TRUE]]
      /\ alloc' = [alloc EXCEPT ![p] = @ + 1]
  BY <1>2, <1>3, <1>4 DEF MapPage, At
<1>6. Own(p) /\ Fresh(f)
  BY <1>2, <1>3, <1>4, <1>5, OwnEntries DEF FrameInv, KernelFrames
<1>7. p \in Page \ Sys /\ alloc[p] = 0
  BY <1>1, <1>2, <1>3, <1>5, Places DEF LocalInv
<1>8. /\ InUse' = InUse \cup {p} /\ p \notin InUse
      /\ \A v \in Page \ {p} : alloc'[v] = alloc[v]
      /\ alloc'[p] = 1
  BY <1>1, <1>5, <1>7 DEF InUse
<1>9. /\ Present(p)' /\ vmm_v2p(p)' = f
      /\ \A v : Own(v) /\ v # p => /\ vmm_v2p(v)' = vmm_v2p(v) /\ (Present(v)' <=> Present(v))
                                   /\ pte'[get_pte(v)] = pte[get_pte(v)]
  <2>1. /\ pte'[get_pte(p)] = [frame |-> f, p |-> TRUE]
        /\ \A v : Own(v) /\ v # p => pte'[get_pte(v)] = pte[get_pte(v)]
    BY <1>1, <1>5, <1>6, OtherEntries
  <2> QED BY <2>1 DEF Present, vmm_v2p
<1>10. \A v \in InUse : Own(v) /\ v # p
  BY <1>8, OwnEntries
<1>11. f \in Nat /\ f \in Memory \ frames
  BY <1>6, VmmAssumption DEF Fresh, Memory
<1>12. PICK r \in Local : Goto(t, r) /\ r = th'[t] /\ r.pc # "map" /\ TaskLocal(r, user[t])
                          /\ Got(r) \subseteq Got(s) \cup {p}
                          /\ \A h \in held' : h \in held \/ Run(h) \subseteq Got(s) \cup {p}
  <2>1. /\ s.left \in Nat /\ s.left >= 1 /\ s.first \in Nat /\ s.n \in Nat
        /\ s.first <= p /\ p + s.left = s.first + s.n /\ Got(s) = s.first .. (p - 1)
    BY <1>1, <1>2, <1>3, <1>5, Places DEF LocalInv, Local
  <2>2. TaskLocal(s, user[t])
    BY <1>2 DEF FrameInv, TaskTables
  <2>3. CASE s.left = 1 /\ ~s.table
    <3>1. PICK r \in Local : r = Idle /\ r.pc = "idle" /\ ~r.table
      BY IdleIsLocal DEF Idle
    <3>2. Goto(t, r) /\ held' = held \cup {[first |-> s.first, n |-> s.n, use |-> s.use]}
      BY <1>2, <2>3, <3>1 DEF MapPage
    <3>3. Got(r) = {} /\ TaskLocal(r, user[t])
      BY <3>1, RestingLocals DEF TaskLocal
    <3>4. s.first + s.n - 1 = p
      BY <2>1, <2>3
    <3>5. Run([first |-> s.first, n |-> s.n, use |-> s.use]) = s.first .. p
      BY <3>4 DEF Run
    <3>6. s.first .. p \subseteq Got(s) \cup {p}
      BY <2>1
    <3>7. r = th'[t]
      BY <1>1, <3>2 DEF Goto
    <3> QED BY <3>1, <3>2, <3>3, <3>5, <3>6, <3>7
  <2>4. CASE s.left = 1 /\ s.table
    <3>1. PICK r \in Local : r = [s EXCEPT !.pc = "user_table"]
      BY DEF Local, Pcs
    <3>2. r.pc = "user_table" /\ r.table = s.table
      BY <3>1 DEF Local
    <3>3. Goto(t, r) /\ held' = held
      BY <1>2, <2>4, <3>1 DEF MapPage
    <3>4. Got(r) = {}
      BY <3>2, EmptyLocals DEF Empty, Allocating, Releasing
    <3>5. TaskLocal(r, user[t])
      BY <1>5, <2>2, <2>4, <3>2 DEF TaskLocal
    <3>6. r = th'[t]
      BY <1>1, <3>3 DEF Goto
    <3> QED BY <3>2, <3>3, <3>4, <3>5, <3>6
  <2>5. CASE s.left > 1
    <3>1. s.page + 1 \in Nat /\ s.left - 1 \in Nat
      BY <1>3, <2>1, <2>5
    <3>2. PICK r \in Local : r = [s EXCEPT !.pc = "alloc_one_page", !.page = s.page + 1, !.left = s.left - 1]
      BY <3>1 DEF Local, Pcs
    <3>3. r.pc = "alloc_one_page" /\ r.page = p + 1 /\ r.first = s.first /\ r.table = s.table
      BY <1>3, <3>2 DEF Local
    <3>4. Goto(t, r) /\ held' = held
      BY <1>2, <2>5, <3>2 DEF MapPage
    <3>5. Got(r) = s.first .. ((p + 1) - 1)
      BY <3>3, Places
    <3>6. Got(r) \subseteq Got(s) \cup {p}
      BY <2>1, <3>5
    <3>7. TaskLocal(r, user[t])
      BY <1>5, <2>2, <3>3 DEF TaskLocal
    <3>8. r = th'[t]
      BY <1>1, <3>4 DEF Goto
    <3> QED BY <3>3, <3>4, <3>6, <3>7, <3>8
  <2> QED BY <1>2, <2>1, <2>3, <2>4, <2>5 DEF MapPage
<1>13. th' \in [Thread -> Local] /\ \A u \in Thread \ {t} : th'[u] = th[u]
  BY <1>1, <1>12 DEF Goto
<1>14. ASSUME NEW v, Kept(v), v # p PROVE Kept(v)'
  <2>1. \A h \in held' : v \notin Run(h)
    BY <1>2, <1>12, <1>14 DEF Kept
  <2>2. ASSUME NEW u \in Thread PROVE v \notin Got(th'[u])
    BY <1>2, <1>12, <1>13, <1>14 DEF Kept
  <2> QED BY <2>1, <2>2 DEF Kept
<1>15. KernelFrames'
  <2>1. pte' \in [Pte -> [frame : Int, p : BOOLEAN]]
    BY <1>1, <1>5 DEF KernelFrames
  <2>2. \A v \in InUse' : Present(v)' /\ vmm_v2p(v)' \in Nat /\ vmm_v2p(v)' \notin frames'
    BY <1>1, <1>5, <1>8, <1>9, <1>10, <1>11 DEF KernelFrames
  <2>3. ASSUME NEW u \in InUse', NEW v \in InUse', u # v PROVE vmm_v2p(u)' # vmm_v2p(v)'
    BY <1>1, <1>6, <1>8, <1>9, <1>10, <2>3 DEF KernelFrames, Fresh
  <2>4. \A u \in Thread : th'[u].pc # "map"
    BY <1>12, <1>13 DEF Alone, Resting
  <2> QED BY <2>1, <2>2, <2>3, <2>4 DEF KernelFrames
<1>16. TaskFrames'
  <2>1. ASSUME NEW u \in Thread, NEW k \in UserPages, k <= user[u].given, NEW v \in InUse'
        PROVE  vmm_v2p(v)' # user[u].table[k]
    BY <1>6, <1>8, <1>9, <1>10, <2>1 DEF Fresh, FrameInv, TaskFrames
  <2> QED BY <1>5, <2>1 DEF FrameInv, TaskFrames
<1>17. TaskTables'
  <2> SUFFICES ASSUME NEW u \in Thread
               PROVE  /\ user'[u].given > 0 => user'[u].pde # NoFrame
                      /\ user'[u].pde # NoFrame => \E v \in InUse' : vmm_v2p(v)' = user'[u].pde /\ Kept(v)'
                      /\ TaskLocal(th'[u], user'[u])
    BY DEF TaskTables
  <2>1. TaskLocal(th'[u], user'[u])
    BY <1>5, <1>12, <1>13 DEF FrameInv, TaskTables
  <2>2. ASSUME user[u].pde # NoFrame PROVE \E v \in InUse' : vmm_v2p(v)' = user[u].pde /\ Kept(v)'
    <3>1. PICK v \in InUse : vmm_v2p(v) = user[u].pde /\ Kept(v)
      BY <2>2 DEF FrameInv, TaskTables
    <3> QED BY <1>8, <1>9, <1>10, <1>14, <3>1
  <2> QED BY <1>5, <2>1, <2>2 DEF FrameInv, TaskTables
<1>18. ImageInv'
  <2> SUFFICES ASSUME NEW v \in 0 .. (KernPages - 1)
               PROVE  /\ pte'[get_pte(v)] = [frame |-> v, p |-> TRUE]
                      /\ v \in Page => alloc'[v] = 1 /\ Kept(v)'
    BY DEF ImageInv
  <2>1. /\ pte[get_pte(v)] = [frame |-> v, p |-> TRUE]
        /\ v \in Page => alloc[v] = 1 /\ Kept(v)
    BY DEF FrameInv, ImageInv
  <2>2. v # p /\ Own(v)
    BY <1>7, <2>1, OwnEntries
  <2> QED BY <1>8, <1>9, <1>14, <2>1, <2>2
<1>19. ReleasedInv'
  <2> SUFFICES ASSUME NEW v \in Page \ Sys, v < TABLES * PTES, alloc'[v] = 0, Present(v)'
               PROVE  \/ pte'[get_pte(v)] = BootPte(get_pte(v))
                      \/ \E u \in Thread : v \in ToRelease(th'[u])
    BY DEF ReleasedInv
  <2>1. v # p /\ Own(v) /\ alloc[v] = 0
    BY <1>8, PagePlace DEF Own
  <2>2. ToRelease(th[t]) = {}
    BY <1>2, <1>5, Places
  <2>3. \/ pte[get_pte(v)] = BootPte(get_pte(v))
        \/ \E u \in Thread : v \in ToRelease(th[u])
    BY <1>9, <2>1 DEF FrameInv, ReleasedInv
  <2> QED BY <1>9, <1>13, <2>1, <2>2, <2>3
<1> QED BY <1>15, <1>16, <1>17, <1>18, <1>19 DEF FrameInv

(***************************************************************************)
(* The pages of a run are not in use any more.                             *)
(***************************************************************************)
LEMMA ReleaseKeepsFrames ==
    ASSUME PageInv, FrameInv, NEW t \in Thread, Alone(t),
           release_user_task_bitmap(t) \/ release_user_task_pdt(t)
    PROVE  FrameInv'
<1>1. th[t] \in Local /\ th \in [Thread -> Local] /\ alloc \in [Page -> 0 .. 1] /\ held \in SUBSET Holding
  BY DEF PageInv, VmmTypes
<1>2. PICK i \in Local : i = Idle /\ i.pc = "idle" /\ ~i.table
  BY IdleIsLocal DEF Idle
<1>3. PICK h \in held :
          /\ held' = held \ {h}
          /\ alloc' = [v \in Page |->
                          IF v \in h.first .. (h.first + h.n - 1) THEN alloc[v] - 1 ELSE alloc[v]]
          /\ Goto(t, [i EXCEPT !.pc = "load", !.op = "release",
                                  !.page = h.first, !.left = h.n])
  BY <1>2 DEF release_user_task_bitmap, release_user_task_pdt, Release
<1>4. At(t, "idle") /\ UNCHANGED <<bits, pte, frames, user>>
  BY DEF release_user_task_bitmap, release_user_task_pdt, Release
<1>5. h.first \in Nat /\ h.n \in Nat
  BY <1>1 DEF Holding
<1>6. PICK r \in Local : r = [i EXCEPT !.pc = "load", !.op = "release", !.page = h.first, !.left = h.n]
  BY <1>5 DEF Local, Pcs
<1>7. r.pc = "load" /\ r.op = "release" /\ r.page = h.first /\ r.left = h.n /\ ~r.table /\ Goto(t, r)
  BY <1>2, <1>3, <1>6 DEF Local
<1>8. Got(r) = {} /\ ToRelease(r) = Run(h) /\ TaskLocal(r, user[t])
  BY <1>7, Places DEF Run, TaskLocal
<1>9. /\ th' \in [Thread -> Local] /\ th'[t] = r /\ \A u \in Thread \ {t} : th'[u] = th[u]
      /\ ToRelease(th[t]) = {}
  BY <1>1, <1>4, <1>7, RestingLocals DEF Goto, At
<1>10. \A v \in Page : alloc'[v] = IF v \in Run(h) THEN 0 ELSE alloc[v]
  <2>1. \A v \in Run(h) : alloc[v] = 1
    BY DEF PageInv, HeldInv
  <2>2. \A v \in Page : alloc'[v] = IF v \in Run(h) THEN alloc[v] - 1 ELSE alloc[v]
    BY <1>3 DEF Run
  <2> QED BY <2>1, <2>2
<1>11. InUse' = InUse \ Run(h)
  BY <1>10 DEF InUse
<1>12. \A v : vmm_v2p(v)' = vmm_v2p(v) /\ (Present(v)' <=> Present(v))
  BY <1>4 DEF vmm_v2p, Present
<1>13. ASSUME NEW v, Kept(v) PROVE Kept(v)' /\ v \notin Run(h)
  <2>1. ASSUME NEW u \in Thread PROVE v \notin Got(th'[u])
    BY <1>8, <1>9, <1>13 DEF Kept
  <2> QED BY <1>3, <1>13, <2>1 DEF Kept
<1>14. KernelFrames'
  <2>1. \A u \in Thread : th'[u].pc # "map"
    BY <1>7, <1>9 DEF Alone, Resting
  <2> QED BY <1>4, <1>11, <1>12, <2>1 DEF FrameInv, KernelFrames
<1>15. TaskFrames'
  BY <1>4, <1>11, <1>12 DEF FrameInv, TaskFrames
<1>16. TaskTables'
  <2> SUFFICES ASSUME NEW u \in Thread
               PROVE  /\ user'[u].given > 0 => user'[u].pde # NoFrame
                      /\ user'[u].pde # NoFrame => \E v \in InUse' : vmm_v2p(v)' = user'[u].pde /\ Kept(v)'
                      /\ TaskLocal(th'[u], user'[u])
    BY DEF TaskTables
  <2>1. TaskLocal(th'[u], user'[u])
    BY <1>4, <1>8, <1>9 DEF FrameInv, TaskTables
  <2>2. ASSUME user[u].pde # NoFrame PROVE \E v \in InUse' : vmm_v2p(v)' = user[u].pde /\ Kept(v)'
    <3>1. PICK v \in InUse : vmm_v2p(v) = user[u].pde /\ Kept(v)
      BY <2>2 DEF FrameInv, TaskTables
    <3> QED BY <1>11, <1>12, <1>13, <3>1
  <2> QED BY <1>4, <2>1, <2>2 DEF FrameInv, TaskTables
<1>17. ImageInv'
  BY <1>4, <1>10, <1>13 DEF FrameInv, ImageInv
<1>18. ReleasedInv'
  <2> SUFFICES ASSUME NEW v \in Page \ Sys, v < TABLES * PTES, alloc'[v] = 0, Present(v)'
               PROVE  \/ pte'[get_pte(v)] = BootPte(get_pte(v))
                      \/ \E u \in Thread : v \in ToRelease(th'[u])
    BY DEF ReleasedInv
  <2>1. CASE v \in Run(h)
    BY <1>8, <1>9, <2>1
  <2>2. CASE v \notin Run(h)
    <3>1. alloc[v] = 0 /\ Present(v)
      BY <1>10, <1>12, <2>2
    <3>2. \/ pte[get_pte(v)] = BootPte(get_pte(v))
          \/ \E u \in Thread : v \in ToRelease(th[u])
      BY <3>1 DEF FrameInv, ReleasedInv
    <3> QED BY <1>4, <1>9, <3>2
  <2> QED BY <2>1, <2>2
<1> QED BY <1>14, <1>15, <1>16, <1>17, <1>18 DEF FrameInv

(***************************************************************************)
(* A page that was released is not present any more.                       *)
(***************************************************************************)
LEMMA UnmapKeepsFrames ==
    ASSUME TablesSuffice, PageInv, TopInv, FrameInv, NEW t \in Thread, Alone(t), UnmapPage(t)
    PROVE  FrameInv'
<1>1. /\ th[t] \in Local /\ th \in [Thread -> Local] /\ LocalInv(th[t]) /\ KernelFrames
  BY DEF PageInv, VmmTypes, FrameInv
<1>2. PICK s \in Local : s = th[t]
  BY <1>1
<1>3. PICK p \in Nat : p = s.page
  BY DEF Local
<1>4. s.pc = "unmap" /\ s.op = "release" /\ s.left \in Nat /\ s.left >= 1 /\ ToRelease(s) = p .. (p + s.left - 1)
  <2>1. s.pc = "unmap"
    BY <1>2 DEF UnmapPage, At
  <2>2. Releasing(s) /\ ToRelease(s) = s.page .. (s.page + s.left - 1)
    BY <2>1, Places
  <2> QED BY <1>1, <1>2, <1>3, <2>1, <2>2 DEF LocalInv, Local
<1>5. p \in ToRelease(s)
  BY <1>4
<1>6. Own(p) /\ p \in Page \ Sys /\ alloc[p] = 0
  BY <1>1, <1>2, <1>5, OwnEntries DEF LocalInv
<1>7. UNCHANGED <<bits, frames, alloc, held, user>> /\ pte' = [pte EXCEPT ![get_pte(p)].p = FALSE]
  BY <1>2, <1>3 DEF UnmapPage, ClearP
<1>8. InUse' = InUse /\ p \notin InUse
  BY <1>6, <1>7 DEF InUse
<1>9. /\ pte' \in [Pte -> [frame : Int, p : BOOLEAN]] /\ ~Present(p)'
      /\ \A v : Own(v) /\ v # p => /\ vmm_v2p(v)' = vmm_v2p(v) /\ (Present(v)' <=> Present(v))
                                   /\ pte'[get_pte(v)] = pte[get_pte(v)]
  <2>1. PICK e \in Pte : e = get_pte(p)
    BY EntryPlace
  <2>2. PICK x \in [frame : Int, p : BOOLEAN] : x = [pte[e] EXCEPT !.p = FALSE] /\ x.p = FALSE
    <3>1. PICK y \in [frame : Int, p : BOOLEAN] : y = pte[e]
      BY <1>1 DEF KernelFrames
    <3>2. [y EXCEPT !.p = FALSE] \in [frame : Int, p : BOOLEAN] /\ [y EXCEPT !.p = FALSE].p = FALSE
      OBVIOUS
    <3> QED BY <3>1, <3>2
  <2>3. pte' = [pte EXCEPT ![e] = x]
    BY <1>7, <2>1, <2>2
  <2>4. pte' \in [Pte -> [frame : Int, p : BOOLEAN]]
    BY <1>1, <2>3 DEF KernelFrames
  <2>5. /\ pte'[get_pte(p)] = x
        /\ \A v : Own(v) /\ v # p => pte'[get_pte(v)] = pte[get_pte(v)]
    BY <1>1, <1>6, <2>1, <2>3, OtherEntries
  <2> QED BY <2>2, <2>4, <2>5 DEF Present, vmm_v2p
<1>10. \A v \in InUse : Own(v) /\ v # p
  BY <1>8, OwnEntries
<1>11. PICK r \in Local : /\ Goto(t, r) /\ r.pc # "map" /\ TaskLocal(r, user[t]) /\ Got(r) = {}
                          /\ \A v \in ToRelease(s) : v = p \/ v \in ToRelease(r)
  <2>1. CASE s.left = 1
    <3>1. PICK r \in Local : r = Idle /\ r.pc = "idle" /\ ~r.table
      BY IdleIsLocal DEF Idle
    <3>2. Goto(t, r)
      BY <1>2, <2>1, <3>1 DEF UnmapPage
    <3>3. Got(r) = {} /\ TaskLocal(r, user[t])
      BY <3>1, RestingLocals DEF TaskLocal
    <3>4. \A v \in ToRelease(s) : v = p
      BY <1>4, <2>1
    <3> QED BY <3>1, <3>2, <3>3, <3>4
  <2>2. CASE s.left # 1
    <3>1. s.page + 1 \in Nat /\ s.left - 1 \in Nat
      BY <1>3, <1>4
    <3>2. PICK r \in Local : r = [s EXCEPT !.pc = "load", !.page = s.page + 1, !.left = s.left - 1]
      BY <3>1 DEF Local, Pcs
    <3>3. r.pc = "load" /\ r.op = "release" /\ r.page = p + 1 /\ r.left = s.left - 1 /\ r.table = s.table
      BY <1>3, <1>4, <3>2 DEF Local
    <3>4. Goto(t, r)
      BY <1>2, <2>2, <3>2 DEF UnmapPage
    <3>5. Got(r) = {} /\ ToRelease(r) = (p + 1) .. ((p + 1) + (s.left - 1) - 1)
      BY <3>3, Places
    <3>6. \A v \in ToRelease(s) : v = p \/ v \in ToRelease(r)
      BY <1>4, <3>5
    <3>7. TaskLocal(s, user[t])
      BY <1>2 DEF FrameInv, TaskTables
    <3>8. TaskLocal(r, user[t])
      BY <1>4, <3>3, <3>7 DEF TaskLocal
    <3> QED BY <3>3, <3>4, <3>5, <3>6, <3>8
  <2> QED BY <2>1, <2>2
<1>12. th' \in [Thread -> Local] /\ th'[t] = r /\ \A u \in Thread \ {t} : th'[u] = th[u]
  BY <1>1, <1>11 DEF Goto
<1>13. ASSUME NEW v, Kept(v) PROVE Kept(v)'
  <2>1. ASSUME NEW u \in Thread PROVE v \notin Got(th'[u])
    BY <1>11, <1>12, <1>13 DEF Kept
  <2> QED BY <1>7, <1>13, <2>1 DEF Kept
<1>14. KernelFrames'
  <2>1. \A u \in Thread : th'[u].pc # "map"
    BY <1>11, <1>12 DEF Alone, Resting
  <2>2. \A v \in InUse' : Present(v)' /\ vmm_v2p(v)' \in Nat /\ vmm_v2p(v)' \notin frames'
    BY <1>1, <1>7, <1>8, <1>9, <1>10 DEF KernelFrames
  <2>3. ASSUME NEW u \in InUse', NEW v \in InUse', u # v PROVE vmm_v2p(u)' # vmm_v2p(v)'
    BY <1>1, <1>8, <1>9, <1>10, <2>3 DEF KernelFrames
  <2> QED BY <1>9, <2>1, <2>2, <2>3 DEF KernelFrames
<1>15. TaskFrames'
  <2>1. ASSUME NEW u \in Thread, NEW k \in UserPages, k <= user[u].given, NEW v \in InUse'
        PROVE  vmm_v2p(v)' # user[u].table[k]
    BY <1>8, <1>9, <1>10, <2>1 DEF FrameInv, TaskFrames
  <2> QED BY <1>7, <2>1 DEF FrameInv, TaskFrames
<1>16. TaskTables'
  <2> SUFFICES ASSUME NEW u \in Thread
               PROVE  /\ user'[u].given > 0 => user'[u].pde # NoFrame
                      /\ user'[u].pde # NoFrame => \E v \in InUse' : vmm_v2p(v)' = user'[u].pde /\ Kept(v)'
                      /\ TaskLocal(th'[u], user'[u])
    BY DEF TaskTables
  <2>1. TaskLocal(th'[u], user'[u])
    BY <1>7, <1>11, <1>12 DEF FrameInv, TaskTables
  <2>2. ASSUME user[u].pde # NoFrame PROVE \E v \in InUse' : vmm_v2p(v)' = user[u].pde /\ Kept(v)'
    <3>1. PICK v \in InUse : vmm_v2p(v) = user[u].pde /\ Kept(v)
      BY <2>2 DEF FrameInv, TaskTables
    <3> QED BY <1>8, <1>9, <1>10, <1>13, <3>1
  <2> QED BY <1>7, <2>1, <2>2 DEF FrameInv, TaskTables
<1>17. ImageInv'
  <2> SUFFICES ASSUME NEW v \in 0 .. (KernPages - 1)
               PROVE  /\ pte'[get_pte(v)] = [frame |-> v, p |-> TRUE]
                      /\ v \in Page => alloc'[v] = 1 /\ Kept(v)'
    BY DEF ImageInv
  <2>1. /\ pte[get_pte(v)] = [frame |-> v, p |-> TRUE]
        /\ v \in Page => alloc[v] = 1 /\ Kept(v)
    BY DEF FrameInv, ImageInv
  <2>2. v # p /\ Own(v)
    BY <1>6, <2>1, OwnEntries
  <2> QED BY <1>7, <1>9, <1>13, <2>1, <2>2
<1>18. ReleasedInv'
  <2> SUFFICES ASSUME NEW v \in Page \ Sys, v < TABLES * PTES, alloc'[v] = 0, Present(v)'
               PROVE  \/ pte'[get_pte(v)] = BootPte(get_pte(v))
                      \/ \E u \in Thread : v \in ToRelease(th'[u])
    BY DEF ReleasedInv
  <2>1. v # p /\ Own(v) /\ alloc[v] = 0
    BY <1>7, <1>9, PagePlace DEF Own
  <2>2. \/ pte[get_pte(v)] = BootPte(get_pte(v))
        \/ \E u \in Thread : v \in ToRelease(th[u])
    BY <1>9, <2>1 DEF FrameInv, ReleasedInv
  <2>3. ASSUME NEW u \in Thread, v \in ToRelease(th[u]) PROVE v \in ToRelease(th'[u])
    BY <1>2, <1>11, <1>12, <2>1, <2>3
  <2> QED BY <1>9, <2>1, <2>2, <2>3
<1> QED BY <1>14, <1>15, <1>16, <1>17, <1>18 DEF FrameInv

-----------------------------------------------------------------------------
(***************************************************************************)
(* The frames are right when boot.s and vmm_kern_init have run.            *)
(***************************************************************************)
LEMMA FrameInit == VmmInit => FrameInv
<1> SUFFICES ASSUME VmmInit PROVE FrameInv
  OBVIOUS
<1>1. /\ pte = [e \in Pte |-> BootPte(e)]
      /\ frames = (KernPages + 1) .. (KernPages + NFrames)
      /\ alloc = [v \in Page |-> IF v \in (0 .. (KernPages - 1)) \cup Sys THEN 1 ELSE 0]
      /\ held = {}
      /\ user = [t \in Thread |-> [pde |-> NoFrame, table |-> EmptyTable, given |-> 0]]
      /\ th = [t \in Thread |-> Idle]
  BY DEF VmmInit
<1>2. \A t \in Thread : th[t] = Idle /\ th[t].pc = "idle" /\ ~th[t].table /\ Got(th[t]) = {}
  <2>1. Idle.pc = "idle" /\ ~Idle.table /\ Got(Idle) = {}
    BY IdleIsLocal, RestingLocals DEF Idle
  <2> QED BY <1>1, <2>1
<1>3. \A v \in Nat : pte[get_pte(v)] = BootPte(get_pte(v))
  BY <1>1, EntryPlace
<1>4. ASSUME NEW v \in 0 .. (KernPages - 1)
      PROVE  /\ v \in Nat /\ pte[get_pte(v)] = [frame |-> v, p |-> TRUE] /\ v \notin frames
  <2>1. v \in Nat /\ v < PTES /\ KernPages \in Nat
    BY VmmAssumption
  <2>2. get_pte(v) = <<0, v>>
    BY <2>1, EntryPlace
  <2>3. pte[get_pte(v)] = [frame |-> v, p |-> TRUE]
    BY <1>3, <2>1, <2>2 DEF BootPte
  <2> QED BY <1>1, <2>1, <2>3, VmmAssumption
<1>5. \A v \in InUse : v \in 0 .. (KernPages - 1)
  BY <1>1 DEF InUse
<1>6. KernelFrames
  <2>1. pte \in [Pte -> [frame : Int, p : BOOLEAN]]
    <3>1. ASSUME NEW e \in Pte PROVE BootPte(e) \in [frame : Int, p : BOOLEAN]
      BY VmmAssumption DEF BootPte, Pte, NoFrame
    <3> QED BY <1>1, <3>1
  <2>2. \A v \in InUse : Present(v) /\ vmm_v2p(v) = v /\ v \in Nat /\ v \notin frames
    <3> SUFFICES ASSUME NEW v \in InUse
                 PROVE  Present(v) /\ vmm_v2p(v) = v /\ v \in Nat /\ v \notin frames
      OBVIOUS
    <3>1. v \in Nat /\ pte[get_pte(v)] = [frame |-> v, p |-> TRUE] /\ v \notin frames
      BY <1>4, <1>5
    <3> QED BY <3>1 DEF Present, vmm_v2p
  <2> QED BY <1>2, <2>1, <2>2 DEF KernelFrames
<1>7. \A t \in Thread : /\ user[t].pde = NoFrame /\ user[t].given = 0
                         /\ \A k \in UserPages : user[t].table[k] = NoFrame
  BY <1>1 DEF EmptyTable
<1>8. TaskFrames
  <2>1. user \in [Thread -> Task]
    <3>1. [pde |-> NoFrame, table |-> EmptyTable, given |-> 0] \in Task
      BY DEF Task, EmptyTable, NoFrame
    <3> QED BY <1>1, <3>1
  <2>2. \A k \in UserPages : ~(k <= 0)
    BY DEF UserPages
  <2> QED BY <1>7, <2>1, <2>2 DEF TaskFrames
<1>9. TaskTables
  BY <1>2, <1>7 DEF TaskTables, TaskLocal
<1>10. ImageInv
  BY <1>1, <1>2, <1>4 DEF ImageInv, Kept
<1>11. ReleasedInv
  BY <1>3, PagePlace DEF ReleasedInv
<1> QED BY <1>6, <1>8, <1>9, <1>10, <1>11 DEF FrameInv

(***************************************************************************)
(* Every step of a thread that is alone keeps the frames apart.            *)
(***************************************************************************)
LEMMA FrameStep ==
    ASSUME TablesSuffice PROVE PageInv /\ TopInv /\ FrameInv /\ [SoloNext]_vvars => FrameInv'
<1> SUFFICES ASSUME PageInv, TopInv, FrameInv, [SoloNext]_vvars PROVE FrameInv'
  OBVIOUS
<1>1. CASE SoloNext
  <2>1. PICK t \in Thread : Alone(t) /\ Step(t)
    BY <1>1 DEF SoloNext, Alone
  <2> QED BY <2>1, CallsKeepFrames, SearchKeepsFrames, FrameKeepsFrames, TableKeepsFrames, UserKeepsFrames,
             MapKeepsFrames, ReleaseKeepsFrames, UnmapKeepsFrames DEF Step
<1>2. CASE UNCHANGED vvars
  <2>1. InUse' = InUse /\ \A v : vmm_v2p(v)' = vmm_v2p(v) /\ (Present(v)' <=> Present(v)) /\ (Kept(v)' <=> Kept(v))
    BY <1>2 DEF vvars, InUse, vmm_v2p, Present, Kept
  <2>2. KernelFrames'
    BY <1>2, <2>1 DEF vvars, FrameInv, KernelFrames, Fresh
  <2>3. TaskFrames' /\ TaskTables'
    BY <1>2, <2>1 DEF vvars, FrameInv, TaskFrames, TaskTables
  <2>4. ImageInv' /\ ReleasedInv'
    BY <1>2, <2>1 DEF vvars, FrameInv, ImageInv, ReleasedInv
  <2> QED BY <2>2, <2>3, <2>4 DEF FrameInv
<1> QED BY <1>1, <1>2

(***************************************************************************)
(* The frames always are apart.                                            *)
(***************************************************************************)
LEMMA FramesSafe == ASSUME TablesSuffice PROVE SoloSpec => [](PageInv /\ TopInv /\ FrameInv)
<1> QED BY FrameInit, FrameStep, PagesSafe, TopSafe, PTL DEF SoloSpec

(***************************************************************************)
(* A page in use is mapped, and to a frame that no other page in use has,  *)
(* provided that the page tables have entries for all of the memory.       *)
(***************************************************************************)
THEOREM FramesAreExclusive == ASSUME TablesSuffice PROVE SoloSpec => []FrameExclusive
<1>1. PageInv /\ TopInv /\ FrameInv => FrameExclusive
  <2> SUFFICES ASSUME PageInv, FrameInv, NEW v \in Page \ Sys, alloc[v] > 0
               PROVE  /\ Present(v)
                      /\ \A u \in Page \ (Sys \cup {v}) : alloc[u] > 0 => vmm_v2p(u) # vmm_v2p(v)
    BY DEF FrameExclusive
  <2>1. \A u \in Page \ Sys : alloc[u] > 0 => u \in InUse
    BY DEF PageInv, VmmTypes, InUse
  <2> QED BY <2>1 DEF FrameInv, KernelFrames
<1> QED BY <1>1, FramesSafe, PTL

(***************************************************************************)
(* A user task keeps the pages it was given, in a page table that stays in *)
(* use, and shares them neither with another task nor with the kernel.     *)
(***************************************************************************)
THEOREM UserPagesArePrivate == ASSUME TablesSuffice PROVE SoloSpec => []UserPagesPrivate
<1>1. PageInv /\ TopInv /\ FrameInv => UserPagesPrivate
  <2> SUFFICES ASSUME PageInv, FrameInv PROVE UserPagesPrivate
    OBVIOUS
  <2> DEFINE kernel == {vmm_v2p(v) : v \in {u \in Page \ Sys : alloc[u] > 0}}
  <2>1. {u \in Page \ Sys : alloc[u] > 0} = InUse
    BY DEF PageInv, VmmTypes, InUse
  <2>2. kernel = {vmm_v2p(v) : v \in InUse}
    BY <2>1
  <2>3. ASSUME NEW t \in Thread, NEW x \in UserFrames(t)
        PROVE  \E k \in UserPages : x = user[t].table[k] /\ k <= user[t].given
    BY DEF UserFrames, FrameInv, TaskFrames
  <2>4. ASSUME NEW t \in Thread PROVE Cardinality(UserFrames(t)) = user[t].given
    <3>1. user[t].given \in 0 .. 2
      BY DEF FrameInv, TaskFrames, Task
    <3>2. PICK a, b : a = user[t].table[1] /\ b = user[t].table[2]
      OBVIOUS
    <3>3. UserFrames(t) = {a, b} \ {NoFrame}
      BY <3>2 DEF UserFrames, UserPages
    <3>4. (a # NoFrame <=> 1 <= user[t].given) /\ (b # NoFrame <=> 2 <= user[t].given)
      BY <3>2 DEF FrameInv, TaskFrames, UserPages
    <3>5. CASE user[t].given = 0
      <4>1. UserFrames(t) = {}
        BY <3>3, <3>4, <3>5
      <4> QED BY <3>5, <4>1, FS_EmptySet
    <3>6. CASE user[t].given = 1
      <4>1. UserFrames(t) = {a}
        BY <3>3, <3>4, <3>6
      <4> QED BY <3>6, <4>1, FS_Singleton
    <3>7. CASE user[t].given = 2
      <4>1. a # b /\ UserFrames(t) = {a} \cup {b}
        <5>1. a # b
          BY <3>2, <3>7 DEF FrameInv, TaskFrames, UserPages
        <5> QED BY <3>3, <3>4, <3>7, <5>1
      <4>2. IsFiniteSet({a}) /\ Cardinality({a}) = 1
        BY FS_Singleton
      <4>3. Cardinality({a} \cup {b}) = 2
        BY <4>1, <4>2, FS_AddElement
      <4> QED BY <3>7, <4>1, <4>3
    <3> QED BY <3>1, <3>5, <3>6, <3>7
  <2>5. ASSUME NEW t \in Thread, user[t].given > 0 PROVE user[t].pde \in kernel
    BY <2>2, <2>5 DEF FrameInv, TaskTables
  <2>6. ASSUME NEW t \in Thread PROVE UserFrames(t) \cap kernel = {}
    BY <2>2, <2>3 DEF FrameInv, TaskFrames
  <2>7. ASSUME NEW t \in Thread, NEW u \in Thread \ {t} PROVE UserFrames(t) \cap UserFrames(u) = {}
    BY <2>3 DEF FrameInv, TaskFrames
  <2> QED BY <2>4, <2>5, <2>6, <2>7 DEF UserPagesPrivate
<1> QED BY <1>1, FramesSafe, PTL

(***************************************************************************)
(* The pages of the kernel image stay mapped where boot.s has put them, if *)
(* the page tables have entries for all of the memory.                     *)
(***************************************************************************)
THEOREM ImageIsKept == ASSUME TablesSuffice PROVE SoloSpec => []ImageStays
<1>1. FrameInv => ImageStays
  <2> SUFFICES ASSUME FrameInv, NEW v \in 0 .. (KernPages - 1) PROVE Present(v) /\ vmm_v2p(v) = v
    BY DEF ImageStays
  <2>1. pte[get_pte(v)] = [frame |-> v, p |-> TRUE]
    BY DEF FrameInv, ImageInv
  <2> QED BY <2>1 DEF Present, vmm_v2p
<1> QED BY <1>1, FramesSafe, PTL

(***************************************************************************)
(* A released page that has an entry of its own is not accessible any more *)
(* (vmm_kern_release_one_page), whatever was mapped and released since,    *)
(* and also when the bitmap is larger than the page tables: it is enough   *)
(* that the tables have entries for all of the memory.                     *)
(***************************************************************************)
THEOREM ReleasedPagesAreGone == ASSUME TablesSuffice PROVE SoloSpec => []ReleasedGone
<1>1. PageInv /\ FrameInv => ReleasedGone
  <2> SUFFICES ASSUME PageInv, FrameInv, \A t \in Thread : Resting(t) PROVE ReleasedGone
    BY DEF ReleasedGone
  <2>1. \A t \in Thread : ToRelease(th[t]) = {}
    BY RestingLocals DEF PageInv, VmmTypes, Resting
  <2> QED BY <2>1 DEF FrameInv, ReleasedInv, ReleasedGone
<1> QED BY <1>1, FramesSafe, PTL
=============================================================================
