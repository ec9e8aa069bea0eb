-------------------------------- MODULE Vmm --------------------------------
(***************************************************************************)
(* The kernel's virtual memory (kernel/modules/vmm, kernel/modules/bitmap, *)
(* the page tables of boot/boot.s) and the code that asks it for pages:    *)
(* create_kern_thread and create_user_task_pdt (one page) and              *)
(* create_user_task_bitmap (a run of pages), with the matching releases,   *)
(* and start_user_task, which maps the first pages of a user task.         *)
(*                                                                         *)
(* All of this runs with interrupts enabled, so a thread may be preempted  *)
(* between any two accesses to the shared bitmap and page tables.  The     *)
(* build does not optimise: a byte of the bitmap is loaded for the test,   *)
(* loaded again for the update, and stored, in three instructions.         *)
(*                                                                         *)
(* Virtual pages are counted from 0xC0000000.  The code has bytes of 8     *)
(* bits, 0x8000 of them, and page tables of 1024 entries.                  *)
(***************************************************************************)
EXTENDS Integers, FiniteSets, Powers

CONSTANTS Thread,     \* the threads that allocate
          BITS,       \* bits of a byte (8)
          LENGTH,     \* bytes of the bitmap (0x8000)
          PTES,       \* entries of a page table (1024)
          TABLES,     \* different page tables in the kernel's page directory
          KernPages,  \* get_kern_used_page_count: pages of the kernel image
          SysBytes,   \* bytes of the bitmap for the last 1024 pages (128)
          RunPages,   \* pages of a user task's own bitmap (24)
          NFrames     \* frames pmm_alloc_one_page can give out

ASSUME VmmAssumption ==
    /\ BITS \in Nat \ {0} /\ LENGTH \in Nat /\ PTES \in Nat \ {0} /\ TABLES \in Nat \ {0}
    /\ KernPages \in 0 .. PTES
    /\ SysBytes \in 0 .. LENGTH
    /\ RunPages \in Nat \ {0}
    /\ NFrames \in Nat

VARIABLES bits,     \* the bitmap: the value of each byte; a bit is 1 when its page is free
          pte,      \* the entries of the page tables: the frame and the P bit
          frames,   \* the frames pmm has left
          alloc,    \* how many callers think a page is theirs (the kernel is one)
          held,     \* what the callers got and may release: first page, count and use
          user,     \* of a user task: the frame of its page table, that table, the pages given
          th        \* where each thread is in the code, and its local variables

vvars == <<bits, pte, frames, alloc, held, user, th>>

Page == 0 .. (LENGTH * BITS - 1)
Sys == {v \in Page : v >= (LENGTH - SysBytes) * BITS}

\* A page's byte, and its bit there: bit 0 is the leftmost one.
ByteOf(v) == v \div BITS
Mask(v) == Pow2[BITS - 1 - (v % BITS)]
IsFree(v) == (bits[ByteOf(v)] \div Mask(v)) % 2 = 1

(***************************************************************************)
(* set_page of boot.s points entry k of the kernel's part of the page      *)
(* directory to page table k, whose offset it computes with a 16 bit       *)
(* multiplication: 4096 * k, of which the low 16 bits are used.  There are *)
(* 16 different results.  get_pte finds a page's entry through the         *)
(* directory.                                                              *)
(***************************************************************************)
TableOf(k) == k % TABLES

get_pte(v) == <<TableOf(v \div PTES), v % PTES>>

Pte == (0 .. (TABLES - 1)) \X (0 .. (PTES - 1))
NoFrame == -1

\* boot.s maps the first 4 MB, frames 0 .. PTES - 1, through the first table.
BootPte(e) == IF e[1] = 0 THEN [frame |-> e[2], p |-> TRUE] ELSE [frame |-> NoFrame, p |-> FALSE]

Present(v) == pte[get_pte(v)].p

\* vmm_v2p: its test of the P bits is always true, so they do not matter.
vmm_v2p(v) == pte[get_pte(v)].frame

(***************************************************************************)
(* vmm_kern_init: all pages are free, then the image and the pages that    *)
(* show the page tables are marked.  pmm_init lets the frames begin behind *)
(* the image, so some of them are in the 4 MB that boot.s has mapped.      *)
(***************************************************************************)
Idle == [pc |-> "idle", op |-> "none", page |-> 0, reg |-> 0, left |-> 0, first |-> 0, n |-> 0, use |-> "none",
         frame |-> NoFrame, table |-> FALSE]

\* start_user_task maps one page for the arguments and one for the stack.
UserPages == 1 .. 2
EmptyTable == [k \in UserPages |-> NoFrame]

VmmInit ==
    LET busy == (0 .. (KernPages - 1)) \cup Sys
    IN  /\ bits \in [0 .. (LENGTH - 1) -> 0 .. (Pow2[BITS] - 1)]
        /\ \A v \in Page : IsFree(v) <=> v \notin busy
        /\ pte = [e \in Pte |-> BootPte(e)]
        /\ frames = (KernPages + 1) .. (KernPages + NFrames)
        /\ alloc = [v \in Page |-> IF v \in busy THEN 1 ELSE 0]
        /\ held = {}
        /\ user = [t \in Thread |-> [pde |-> NoFrame, table |-> EmptyTable, given |-> 0]]
        /\ th = [t \in Thread |-> Idle]

Goto(t, r) == th' = [th EXCEPT ![t] = r]
At(t, pc) == th[t].pc = pc

-----------------------------------------------------------------------------
(***************************************************************************)
(* A caller asks for n pages in a row: the first from vmm_kern_alloc, the  *)
(* others from vmm_kern_alloc_one_page.  A task's page directory gets the  *)
(* kernel's entries, which name the same page tables, so what is mapped    *)
(* later is seen in every address space.                                   *)
(***************************************************************************)
Request(t, n, use) ==
    /\ At(t, "idle")
    /\ Goto(t, [Idle EXCEPT !.pc = "alloc", !.left = n, !.n = n, !.use = use])
    /\ UNCHANGED <<bits, pte, frames, alloc, held, user>>

create_user_task_bitmap(t) == Request(t, RunPages, "bitmap")

create_user_task_pdt(t) == Request(t, 1, "pdt")

\* The page of a TCB, of create_kern_thread or create_user_task.
create_kern_thread(t) == Request(t, 1, "tcb")

\* A caller that gets no page stops for ever, with what it has.
Stopped(t) == [th[t] EXCEPT !.pc = "stopped"]

\* bitmap_alloc up to the choice of a bit: the first page that is free.  The scan is one
\* step; a preemption between its last load and the update is the one that matters.
bitmap_alloc(t) ==
    /\ At(t, "alloc")
    /\ \/ \E v \in Page :
             /\ IsFree(v)
             /\ \A u \in 0 .. (v - 1) : ~IsFree(u)
             /\ Goto(t, [th[t] EXCEPT !.pc = "load", !.op = "sub", !.page = v, !.first = v])
       \/ /\ \A v \in Page : ~IsFree(v)
          /\ Goto(t, Stopped(t))
    /\ UNCHANGED <<bits, pte, frames, alloc, held, user>>

\* bitmap_alloc_one_page up to the test of the bit.
\* Fault: the bit is not tested.
bitmap_alloc_one_page_untested(t) ==
    /\ At(t, "alloc_one_page")
    /\ Goto(t, IF th[t].page \in Page
               THEN [th[t] EXCEPT !.pc = "load", !.op = "sub"]
               ELSE Stopped(t))
    /\ UNCHANGED <<bits, pte, frames, alloc, held, user>>

bitmap_alloc_one_page(t) ==
    /\ At(t, "alloc_one_page")
    /\ Goto(t, IF th[t].page \in Page /\ IsFree(th[t].page)
               THEN [th[t] EXCEPT !.pc = "load", !.op = "sub"]
               ELSE Stopped(t))
    /\ UNCHANGED <<bits, pte, frames, alloc, held, user>>

(***************************************************************************)
(* The update of the byte: it is loaded, then stored with the page's bit   *)
(* subtracted, or set (bitmap_release_one_page).  The subtraction borrows  *)
(* from other bits if the bit is 0.                                        *)
(***************************************************************************)
LoadByte(t) ==
    /\ At(t, "load")
    /\ Goto(t, [th[t] EXCEPT !.pc = "store", !.reg = bits[ByteOf(th[t].page)]])
    /\ UNCHANGED <<bits, pte, frames, alloc, held, user>>

Subtracted(b, m) == (b - m) % Pow2[BITS]

Set(b, m) == IF (b \div m) % 2 = 1 THEN b ELSE b + m

StoreByte(t) ==
    LET r == th[t]
        m == Mask(r.page)
    IN  /\ At(t, "store")
        /\ bits' = [bits EXCEPT ![ByteOf(r.page)] =
                       IF r.op = "sub" THEN Subtracted(r.reg, m) ELSE Set(r.reg, m)]
        /\ Goto(t, CASE r.op = "sub"     -> [r EXCEPT !.pc = "frame"]
                     [] r.op = "clean"   -> Stopped(t)
                     [] r.op = "release" -> [r EXCEPT !.pc = "unmap"])
        /\ UNCHANGED <<pte, frames, alloc, held, user>>

-----------------------------------------------------------------------------
(***************************************************************************)
(* vmm_kern_alloc and vmm_kern_alloc_one_page after the bitmap: a frame is *)
(* taken (the test of the directory entry never fails), or, if there is    *)
(* none, the bit is set again and the caller gets an error.  pmm is taken  *)
(* at its word that its frames are different.                              *)
(***************************************************************************)
\* Fault: the bit is left as it is when there is no frame.
pmm_alloc_one_page_uncleaned(t) ==
    /\ At(t, "frame")
    /\ \/ \E f \in frames :
             /\ frames' = frames \ {f}
             /\ Goto(t, [th[t] EXCEPT !.pc = "map", !.frame = f])
       \/ /\ frames = {}
          /\ Goto(t, Stopped(t))
          /\ UNCHANGED frames
    /\ UNCHANGED <<bits, pte, alloc, held, user>>

pmm_alloc_one_page(t) ==
    /\ At(t, "frame")
    /\ \/ \E f \in frames :
             /\ frames' = frames \ {f}
             /\ Goto(t, [th[t] EXCEPT !.pc = "map", !.frame = f])
       \/ /\ frames = {}
          /\ Goto(t, [th[t] EXCEPT !.pc = "load", !.op = "clean"])
          /\ UNCHANGED frames
    /\ UNCHANGED <<bits, pte, alloc, held, user>>

\* The entry is written and the page returned; the caller goes on to the next page.
MapPage(t) ==
    LET r == th[t]
    IN  /\ At(t, "map")
        /\ pte' = [pte EXCEPT ![get_pte(r.page)] = [frame |-> r.frame, p |-> TRUE]]
        /\ alloc' = [alloc EXCEPT ![r.page] = @ + 1]
        /\ \/ /\ r.left = 1 /\ ~r.table
              /\ held' = held \cup {[first |-> r.first, n |-> r.n, use |-> r.use]}
              /\ Goto(t, Idle)
           \/ /\ r.left = 1 /\ r.table
              /\ Goto(t, [r EXCEPT !.pc = "user_table"])
              /\ UNCHANGED held
           \/ /\ r.left > 1
              /\ Goto(t, [r EXCEPT !.pc = "alloc_one_page", !.page = @ + 1, !.left = @ - 1])
              /\ UNCHANGED held
        /\ UNCHANGED <<bits, frames, user>>

-----------------------------------------------------------------------------
(***************************************************************************)
(* release_user_task_bitmap and release_user_task_pdt: each page of the    *)
(* run goes through vmm_kern_release_one_page, which sets the bit and then *)
(* clears P.  The frame is not given back (the call is commented out).     *)
(* The page of a TCB is never released.  The load and the store of the     *)
(* entry are one step: under preemption a load that is out of date would   *)
(* only add to what vmm_preempt already shows.                             *)
(***************************************************************************)
Release(t, use) ==
    /\ At(t, "idle")
    /\ \E h \in {x \in held : x.use = use} :
          /\ held' = held \ {h}
          /\ alloc' = [v \in Page |->
                          IF v \in h.first .. (h.first + h.n - 1) THEN alloc[v] - 1 ELSE alloc[v]]
          /\ Goto(t, [Idle EXCEPT !.pc = "load", !.op = "release",
                                  !.page = h.first, !.left = h.n])
    /\ UNCHANGED <<bits, pte, frames, user>>

release_user_task_bitmap(t) == Release(t, "bitmap")

release_user_task_pdt(t) == Release(t, "pdt")

\* Fault: the P bit stays set.
ClearP_never(v) == UNCHANGED pte

\* Fault: the entry of the next page is changed.
ClearP_next(v) == pte' = [pte EXCEPT ![get_pte(v + 1)].p = FALSE]

ClearP(v) == pte' = [pte EXCEPT ![get_pte(v)].p = FALSE]

UnmapPage(t) ==
    LET r == th[t]
    IN  /\ At(t, "unmap")
        /\ ClearP(r.page)
        /\ Goto(t, IF r.left = 1 THEN Idle
                   ELSE [r EXCEPT !.pc = "load", !.page = @ + 1, !.left = @ - 1])
        /\ UNCHANGED <<bits, frames, alloc, held, user>>

-----------------------------------------------------------------------------
(***************************************************************************)
(* start_user_task calls vmm_user_alloc_one_page for each of its pages.    *)
(* They have the same page table, which is created for the first one in a  *)
(* page of the kernel.  The task's own bitmap is new and nobody else uses  *)
(* it, so its bit is free.  On an error the task halts; what the error     *)
(* path releases is out of the range of the pool it names.                 *)
(***************************************************************************)
start_user_task(t) ==
    /\ At(t, "idle")
    /\ user[t].given = 0
    /\ Goto(t, [Idle EXCEPT !.pc = "user_alloc"])
    /\ UNCHANGED <<bits, pte, frames, alloc, held, user>>

\* Fault: a page table that is present is not recognised.
vmm_user_check_pt_present_never(t) == FALSE

vmm_user_check_pt_present(t) == user[t].pde # NoFrame

vmm_user_alloc_one_page(t) ==
    /\ At(t, "user_alloc")
    /\ Goto(t, IF vmm_user_check_pt_present(t)
               THEN [th[t] EXCEPT !.pc = "user_frame"]
               ELSE [th[t] EXCEPT !.pc = "alloc", !.left = 1, !.n = 1, !.table = TRUE])
    /\ UNCHANGED <<bits, pte, frames, alloc, held, user>>

create_user_page_table(t) ==
    /\ At(t, "user_table")
    /\ user' = [user EXCEPT ![t].pde = vmm_v2p(th[t].page), ![t].table = EmptyTable]
    /\ Goto(t, [th[t] EXCEPT !.pc = "user_frame"])
    /\ UNCHANGED <<bits, pte, frames, alloc, held>>

MapUserPage(t) ==
    LET k == user[t].given + 1
    IN  /\ At(t, "user_frame")
        /\ \/ \E f \in frames :
                 /\ frames' = frames \ {f}
                 /\ user' = [user EXCEPT ![t].table[k] = f, ![t].given = k]
                 /\ Goto(t, IF k + 1 \in UserPages
                            THEN [Idle EXCEPT !.pc = "user_alloc"] ELSE Idle)
           \/ /\ frames = {}
              /\ Goto(t, Stopped(t))
              /\ UNCHANGED <<frames, user>>
        /\ UNCHANGED <<bits, pte, alloc, held>>

Step(t) ==
    \/ create_user_task_bitmap(t)
    \/ create_user_task_pdt(t)
    \/ create_kern_thread(t)
    \/ bitmap_alloc(t)
    \/ bitmap_alloc_one_page(t)
    \/ LoadByte(t)
    \/ StoreByte(t)
    \/ pmm_alloc_one_page(t)
    \/ MapPage(t)
    \/ release_user_task_bitmap(t)
    \/ release_user_task_pdt(t)
    \/ UnmapPage(t)
    \/ start_user_task(t)
    \/ vmm_user_alloc_one_page(t)
    \/ create_user_page_table(t)
    \/ MapUserPage(t)

\* The threads preempt each other anywhere.
VmmSpec == VmmInit /\ [][\E t \in Thread : Step(t)]_vvars

\* One at a time: a thread that is in this code is not preempted by another that enters it.
Resting(t) == th[t].pc \in {"idle", "stopped"}

SoloNext == \E t \in Thread : (\A u \in Thread \ {t} : Resting(u)) /\ Step(t)

SoloSpec == VmmInit /\ [][SoloNext]_vvars

-----------------------------------------------------------------------------
(***************************************************************************)
(* No page is given to two callers: a page that create_kern_thread makes a *)
(* TCB and stack of is nobody else's, and no page of the kernel image or   *)
(* of the page table window is ever given out.                             *)
(***************************************************************************)
PageExclusive == \A v \in Page : alloc[v] <= 1

(***************************************************************************)
(* Between two calls the bitmap says what is so: a page is free in it      *)
(* exactly when nobody has it.  Allocations that failed half way, releases *)
(* and reallocations leave nothing behind.                                 *)
(***************************************************************************)
BitmapAccurate ==
    (\A t \in Thread : Resting(t)) => \A v \in Page : IsFree(v) <=> alloc[v] = 0

(***************************************************************************)
(* A page that somebody has is mapped, and to a frame of its own: no two   *)
(* pages in use share a frame, the pages of the image included, although   *)
(* pages are released, given out again and mapped to other frames.         *)
(***************************************************************************)
FrameExclusive ==
    \A v \in Page \ Sys :
        alloc[v] > 0 =>
            /\ Present(v)
            /\ \A u \in Page \ (Sys \cup {v}) : alloc[u] > 0 => vmm_v2p(u) # vmm_v2p(v)

(***************************************************************************)
(* A user task keeps the pages it was given: they are mapped in the page   *)
(* table its directory names, the table is the frame of a kernel page in   *)
(* use, and no frame of a user page is a page's of another task or of the  *)
(* kernel.                                                                 *)
(***************************************************************************)
UserFrames(t) == {user[t].table[k] : k \in UserPages} \ {NoFrame}

UserPagesPrivate ==
    LET kernel == {vmm_v2p(v) : v \in {u \in Page \ Sys : alloc[u] > 0}}
    IN  \A t \in Thread :
            /\ Cardinality(UserFrames(t)) = user[t].given
            /\ user[t].given > 0 => user[t].pde \in kernel
            /\ UserFrames(t) \cap kernel = {}
            /\ \A u \in Thread \ {t} : UserFrames(t) \cap UserFrames(u) = {}

(***************************************************************************)
(* A page that was released cannot be accessed any more: between two       *)
(* calls, a page that nobody has is not present, or is still mapped the    *)
(* way boot.s has left it.  This is about the pages below the first one    *)
(* that shares an entry with another: the bitmap has more pages than the   *)
(* tables have entries, and a free page beyond them shows whatever the     *)
(* page 16 tables below it has.                                            *)
(***************************************************************************)
ReleasedGone ==
    (\A t \in Thread : Resting(t)) =>
        \A v \in Page \ Sys :
            v < TABLES * PTES /\ alloc[v] = 0 /\ Present(v) => pte[get_pte(v)] = BootPte(get_pte(v))

(***************************************************************************)
(* The pages of the kernel image stay where boot.s has put them.           *)
(***************************************************************************)
ImageStays == \A v \in 0 .. (KernPages - 1) : Present(v) /\ vmm_v2p(v) = v
=============================================================================
