# A TLA+ verification project for BHOS

BHOS is a small 32-bit x86 kernel with one processor: kernel threads and user
tasks in a round-robin ring, semaphores and locks, a buddy allocator for
physical pages, a bitmap allocator for kernel virtual pages, and a keyboard and
a timer interrupt. This directory models its core in TLA+, checks it with TLC
on small instances, and proves the central invariants with TLAPS for all
values of the parameters.

## 1. The system

| Component | State | Operations | Interacts with |
|---|---|---|---|
| threads (`kernel/modules/threads`) | ring of TCBs, `cur_tcb`, status, time slice, saved context | `create_thread`, `schedule`, `thread_block`, `thread_wakeup`, `exit` | timer, sync, `active_task`, vmm for the TCB page |
| address spaces (`user_task.c`, `tss.c`) | `cr3`, `tss.esp0` | `active_task`, `tss_update` | called by `schedule` |
| sync (`kernel/modules/sync`) | value and queue of a semaphore, holder of a lock | `sem_P`, `sem_V`, `lock_acquire`, `lock_release` | blocks and wakes threads |
| printk (`libs/printk`, `libs/string`, `log`) | `printk_lock` | `printk`, `printk_color`, the log levels | everybody, the interrupt handlers too; locks, VGA |
| VGA (`kernel/drivers/vga`) | video memory, cursor | `kputs_color`, `screen_uproll_once`, `clear_screen`, `move_cursor_by_XY` | called by printk |
| interrupts (`kernel/modules/interrupt`, `drivers/_8259A`) | handler table, the IF bit, requests and services of the two controllers | gates, entry and exit, timer, page fault and default handlers, `cli_condition`, `sti_condition` | drive `schedule`; nested in every lock operation |
| keyboard (`kernel/drivers/keyboard`) | none | the handler | prints in the context of the interrupted thread |
| pmm (`kernel/modules/pmm`) | free lists by size, single page buffer | `pmm_alloc_pages`, `pmm_alloc_one_page`, `pmm_free_page` | called by vmm |
| bitmap (`kernel/modules/bitmap`) | a byte array | `bitmap_alloc`, `bitmap_alloc_one_page`, `bitmap_release_one_page` | called by vmm |
| vmm (`kernel/modules/vmm`, tables of `boot/boot.s`) | page tables, kernel bitmap | `vmm_kern_alloc`, `vmm_kern_alloc_one_page`, `vmm_kern_release_one_page`, `vmm_user_alloc_one_page` | bitmap, pmm; called by threads and user tasks |
| user tasks (`kernel/modules/user_task`) | a task's bitmap, page directory, first pages | `create_user_task`, `start_user_task`, releases | vmm, threads |
| lists, system calls | - | - | not modelled, see section 7 |

What is hard here: interrupts arrive anywhere the IF bit is set, and a handler
runs on the stack and with the identity of the thread it interrupts; a thread
resumed inside `sem_P` finds a changed world; the wait queue consists of local
variables of blocked threads; allocation runs without any protection; list
pointers survive in descriptors that change hands. `PROJECT.json` lists these
hazards at their lines with the properties aimed at them.

What makes the components correct: one ring on which every READY thread gets
its turn and a blocked one does not; the running thread in its own address
space; locks that admit one thread, lose no wake-up and are always held by
somebody who can release them; pages and frames with one owner, none lost.

## 2. The modules

- **Threads** - the ring, the scheduler, creation, blocking, waking, exit.
  Each action is a whole routine that the code runs with interrupts disabled.
  `next`, `status`, `time_left`, `cur` are the TCB fields and `cur_tcb`;
  `iflag` is the IF bit a thread runs with; `cr3` and `esp0` record whose page
  directory and kernel stack are loaded. The probe loop of `schedule` is the
  recursive function `probe` with `ScanEndsAt`.
- **Sync** (extends Threads) - semaphores, locks, printk's use of its lock and
  the keyboard handler. `sem_P` is split exactly where it blocks: `Sleep`
  leaves the thread inside its loop (`at`), and `Resume` goes on when the
  thread is given the processor, interrupts still disabled. `cs` records who is
  between acquire and release. `SyncSpec` is the system without the keyboard,
  `IrqSpec` with it.
- **Interrupts** (extends Sync) - the same operations step by step, with a call
  stack for each thread: `lock_acquire` calls `sem_P` calls `thread_block`, and
  each saves the IF bit with `cli_condition` and restores it with
  `sti_condition`, while an interrupt is a frame made by a gate and removed by
  `Iret`. `irr`, `isr`, `sisr` are the requests and services of the two 8259As,
  which the code uses with manual EOI. `switch_to` is a frame of its own on the
  stack of the thread that is resumed: `popf` has restored its flags, the EOI is
  still to be sent, and an interrupt may come in between. The chip itself is
  external: fixed priorities, an EOI ends the highest service. The refinement
  mapping (`SeenVal`, `SeenHolder`, `SeenWait`, `SeenStatus`) says what Sync
  sees of an operation that is half done: a grant counts from the moment the
  holder is set, a release when the value is raised, a block at the switch.
- **Console** - what a call of printk puts on the screen: the scan for
  conversions, the number formats of `libs/string`, then tabs, line ends, the
  end of a row and scrolling in the VGA driver. `tape`, `top` and `pos` are
  history: everything printed since the last clear on a tape that does not
  scroll, and where the screen and the cursor are on it. `call` and `line` are
  the last format and the text made of it. The text is put together in `staticArry`
  (`BUF`, 100 bytes in the code) without a check. A call that goes past its end
  joins `overran`, and its outcome is open: the line appears, or the caller is lost.
- **PageAllocator** - the promise of the physical page allocator: a set of free
  pages and a set of blocks handed out.
- **Pmm** - the buddy allocator, with the lists as pointers, since the code links
  descriptors where they do not belong. `append_block` with a size that has no
  list follows an uninitialised pointer: a set of outcomes. `stuck` marks a walk
  that does not end. `split` and `over` record that `alloc_helper` has put a
  block back, or that two largest blocks were merged. `PmmSpec` is all of it,
  `SoundSpec` stops at those events.
- **Vmm** - the bitmap, the kernel's page tables, allocation and release, and the
  first pages of user tasks. Here the steps are single accesses to shared
  memory: the build does not optimise, so a byte is loaded for the test, loaded
  for the update, and stored. `VmmInit` says which bits are set after
  `vmm_kern_init`; bytes are numbers below a power of two. `VmmSpec` lets threads preempt each other
  anywhere; in `SoloSpec` a thread inside this code is not joined by another.
- **MCThreads, MCSync, MCInterrupts, MCConsole, MCPmm, MCVmm** - symmetry and
  values for TLC.
- **Powers** - powers as recursive functions, for the sizes of the blocks, the bytes of
  the bitmap and the digits of a number.
- **ThreadsProofs, SyncProofs, InterruptsProofs, AtomicProofs, PmmProofs, VmmProofs,
  ConsoleProofs** - theorems (section 6). **NumberProofs** holds what they share: induction, recursive
  functions, powers of two and the bits of a number.

A definition marked "Fault:" (`Tick_unchecked` before `Tick`, and so on) is a
plausible mistake in the definition whose name it extends. No specification
uses it; each property is violated when one of them replaces its original.

## 3. What is checked

| Run | Property | Result |
|---|---|---|
| threads_ring | `ThreadsTypeOK`, `SingleRing`, `NoThreadLost`, `ReadyRuns` | hold, with exit and user tasks |
| threads_exit | `BlockedStaysOff` | **violated**: `exit` resumes a blocked thread (threads.c:209) |
| sync_locks | `MutualExclusion`, `NoLostWakeup`, `FirstComeFirstServed` | hold without the keyboard |
| sync_irq | `SyncTypeOK`, `LockConsistent`, `BlockedIsQueued`, `AddressSpaceActive`, `BlockedStaysOff` | hold with the keyboard and a user task |
| sync_mutex | `MutualExclusion` | **violated** with the keyboard (keyboard.c:16) |
| interrupts | `OneHandlerPerStack`, `PreemptionOn`, `AtomicView`, `EveryLineEnded`, `PrintkWaiterWoken` | hold with a timer, a device, page faults and a user task |
| console | `ScreenShowsText`, `FormatsArguments`, `OverrunsWhenTooLong` | hold, the first two until a line is too long for its buffer |
| pmm_sound | `Partition`, `ListsSound`, `HeldFits`, `MergesWithBuddy`, `ImplementsAllocator` | hold while no larger block is split |
| pmm_split | `HeldDisjoint` | **violated**: split blocks go to the wrong list (pmm.c:402) |
| vmm_solo | `PageExclusive`, `BitmapAccurate`, `FrameExclusive`, `UserPagesPrivate`, `ReleasedGone` | hold without preemption in the allocator |
| vmm_preempt | `PageExclusive` | **violated**: the bitmap update is not atomic (bitmap.c:83, threads.c:105) |
| vmm_tables | `ImageStays` | **violated**: page tables are shared (boot.s:57) |

Two of them are refinements. `AtomicView` says that Interrupts implements the
`IrqSpec` of Sync, so what is proved of Sync with its coarse steps is about the
code with its fine ones. `ImplementsAllocator` says that Pmm, up to its first
split or over-large merge, implements PageAllocator.

A remark on `EveryLineEnded`: a thread that is preempted and resumed sends two
EOIs, one in `switch_to` and one before `iret`. The spare ones are harmless:
with interrupts off nothing new can be in service, and they clean up after an
EOI of `switch_to` that was itself preempted.

Each property is stated in words above its definition. Deadlock is checked in
the Threads, Sync, Interrupts and Console runs. It is not in Pmm (memory may be used up and never
released) nor in Vmm (a caller that gets no page halts by design).

On the line buffer: no comment or test of the repository claims that lines fit, so
this is not one of the disagreements below, but some of the kernel's own lines do not.
`STOP` at threads.c:109 makes 102 bytes with the NUL and at user_task.c:219 makes 104,
and both write past `staticArry[100]`. `OverrunsWhenTooLong` says which calls do: the
length counts after each conversion, while the later ones still stand as `%s`. So a
line may run over although its format and its final text fit.

The five disagreements, each between the code and its own comment or header
(quoted in `PROJECT.json`, "findings"):

1. `exit` picks the next TCB whatever its status. It also skips `active_task`,
   so after it a user task may run in a foreign address space; this is why
   `AddressSpaceActive` is claimed only for systems without exit.
2. The keyboard handler's `printk` passes `lock_acquire` as the holder and then
   releases the holder's lock.
3. `alloc_helper` chooses the list by `pop_page_no-1` where `pop_ph-1` is meant.
   The compiled pmm.c shows the overlap with the real sizes too, after three
   pages and a pair have been allocated.
4. `vmm_kern_alloc` is called before interrupts are disabled.
5. `mul cx` keeps 16 bits of the page table offset, so there are 16 tables.

## 4. Bounds

- Threads: 4 TCBs, one a user task, two that exit, a slice of one tick. Three
  others besides the running thread are what insertion, removal and a probe that
  skips a blocked thread need; a longer slice only adds ticks. An exited TCB is
  not reused: the code does not reclaim its page.
- Sync: 3 or 4 threads, one semaphore and two locks: a holder, a waiter, and a
  thread that overtakes the woken waiter. A slice of 0 ticks makes every timer
  interrupt a switch. `MaxVal` bounds the semaphore in the guard of `sem_V`.
- Interrupts: 3 threads, one a user task that makes page faults; the printk
  lock; the timer and one device. The device is on the slave controller, so that
  both controllers take part; with the keyboard on the master TLC finds a state
  graph of the same size. All handlers but the timer's print and nothing else.
- Console: a screen of 3 x 2, tabs of 2, two hexadecimal digits (so -1 is 255),
  formats of two pieces or a log line, two calls (`MaxCalls`) and at most 12
  cells between two clears (`MaxPos`): every conversion after every other one,
  line ends and tabs in every column, and scrolling by several rows. The numbers
  are 0, the first with two decimal digits, and a negative one; the texts are
  empty or look like a conversion. The line buffer has 8 bytes: two hexadecimal
  numbers with `0x` miss it by the NUL, other pairs fit with nothing to spare, and a
  log line with a source of three characters is too long only in between. The level
  of a log line is one character.
- Pmm: 3 sizes, 14 pages: every size, several largest blocks, a buffer of
  several pages; pages 0-3 can be merged twice. pmm_split needs 9 pages only.
- Vmm: bytes of 3 bits, 3 bytes, tables of 4 entries, 2 image pages, runs of 2
  pages, 4 frames. Both frames and pages run out, runs meet a busy page, and a
  frame coincides with one that boot.s has mapped. In vmm_solo, as in the code, the
  bitmap has more pages (9) than the tables have entries (8), and the memory fits
  these (the first 64 MB of the real kernel space); the page that shares an entry is
  one of the page table window. A free page with a shared entry needs a bitmap in
  which pages never run out; that case is left to the proof. In vmm_tables the memory is
  larger than the tables. The scan of `bitmap_alloc` and the change of an entry on
  release are single steps; the accesses of the bitmap's bytes are not.

## 5. Fairness

`FairThreadsSpec`: the timer interrupt, when enabled by the IF bit, happens
eventually (weak fairness of `timer_server_func`). Nothing is assumed of the
threads. `FairIntSpec`: the timer chip raises its line again and again (it is
programmed for a periodic signal); code that runs with interrupts disabled goes
on (weak fairness of `Proceed` with the flag clear); a request is taken by the
processor if it can be again and again, since there are instructions between
two critical regions; and a thread that gets the processor again and again
executes its next instruction, the EOI of `switch_to`, and comes to the end of
its critical section (strong fairness of its release: printk formats and prints
one line, it does not wait). A woken waiter is not promised the lock; another thread may take it first.

## 6. What is proved

All from the named assumptions of the modules: finitely many TCBs, main is one of
them and no user task (`ThreadsAssumption`, `SyncAssumption`), at least two largest
blocks of physical memory (`PmmAssumption`, which the code asks for too), and the sizes
of the virtual memory (`VmmAssumption`). The inductive invariants were checked with TLC on
the instances of section 4 before they were proved.

**Threads.** `RingSafety`, `ThreadsTypes`: `SingleRing` and `ThreadsTypeOK`. The
inductive invariant `RingInv` adds that main is on the ring (`exit` never removes
it, so the ring is never empty). Insertion and removal are lemmas of their own
(`CreateKeepsRing`, `ExitKeepsRing`): for the absence of a closed proper part of
the ring, a closed set after the step is carried back to a closed set before it.
`ThreadsAreFound` is `NoThreadLost`, `SwitchesAreSound` is `AddressSpaceActive` and
`BlockedStaysOff` without exit, both from `ScheduleSwitches`, a description of what
`schedule` does to status and `cur`.

**The scheduler's loop.** `ScheduleEnds`: the probe of `schedule` always stops at a
thread of the ring. The walk along `next` is a recursive function, and the set of
the TCBs it visits is closed, so by `SingleRing` it is the whole ring; the walk
comes to a READY thread, to main, or back to where it began.

**Sync.** `SyncTypes`: types and ring for the whole of `IrqSpec`. `LocksExclude`:
`MutualExclusion` for `SyncSpec`; it is not inductive, and `MutexInv` adds that a
thread in a critical section is the holder and that the value is 0 then.
`LocksAreReleasable`: `LockConsistent` for `IrqSpec`, where exclusion fails;
`HolderInv` ties holder, value and the sections together and follows a holder into
the keyboard handler.

**The queues.** `BlockedThreadsAreQueued`, `WakeupsAreKept`, `RunnerIsNotQueued`,
`QueuesServeInOrder`, `SyncSwitchesAreSound`, `BlockedThreadsStayOff`, for `IrqSpec`.
The invariant `QueueInv` joins `BlockedIsQueued` and `NoLostWakeup` to where each
thread is in `sem_P`. Neither holds by itself: a wake-up is kept because the woken
thread was at the head of the queue, and a thread leaves the queue once because its
node is in it once. That main never waits is what makes `schedule` find a thread
that is not blocked, so that nobody runs on with its node still linked.

**Interrupts.** `HandlersDoNotNest`: `OneHandlerPerStack` for `IntSpec`. The invariant
`StackInv` says of every call stack that above a handler's frame each saved flag is
clear, so nothing that returns there can set the flag before the handler's `iret`.
`TimerIsNotHeldUp`: `PreemptionOn`, from the invariant that the timer's line is in
service only while its handler, or the EOI in `switch_to`, is on the running stack.
`InterruptsKeepTypes`: `SyncTypeOK` and `SingleRing` at the fine grain.
`OperationsAreShielded` and `TokensAreKept` come from `CallInv`, the invariant of the call
stacks, which says

- which frame may lie on which, with the place the lower one goes on at (`LinkInv`), and
  that a thread that does not run is outside or was switched out by `thread_block` or the
  timer;
- of every thread, which semaphore it waits for and in which frame, that it is not the
  holder of a lock it is acquiring, and that a `lock_release` is called in the critical
  section (`ThreadInv`);
- of the frame that is running, what a handler that prints has found and holds, who was
  queued or unlinked a moment ago, and where the token of every lock is (`TopInv`).

**The operations are atomic.** `OperationsAreAtomic`: `AtomicView`, that is, Interrupts
implements Sync. `SeesPhases` says what Sync sees in each phase of an operation: nothing
special in a quiet state; the value not yet decremented between `sem_P` and the
assignment of the holder; the thread not yet queued before `thread_block` switches; the
lock still held, and the thread `sem_V` has unlinked still queued and BLOCKED, until the
value is raised; a handler's use of the printk lock not at all until its end. There is
then one lemma for each action of Interrupts: it is a step of Sync (`AcquireOwnsSeen`,
`BlockSwitchesSeen`, `ReleaseTestsSeen`, `SemVRaisesSeen`, `TimerHandlerSeen`,
`CreateThreadSeen`) or it is not seen. One of them (`SemVUnlinksSeen`) needs to know that
a thread in a queue is BLOCKED, a fact about Sync that is not visible in the call stacks.
So SyncProofs is instantiated with what is seen (`Seen`), and its invariant `SyncInv`
is carried along with `CallInv`: each step is first shown to be one of Sync, and then
keeps `SyncInv`. `NodesAreUnlinked` turns the result back into a statement about the
queues as they are at each single step.

**The page allocator**, for every number of orders and pages.

- `CallersGetWhatTheyNeed`: `HeldFits`, for all of `PmmSpec`.
- `ListsStaySound`, `PagesAreShared`: `ListsSound` and `Partition`. Both follow from
  `PmmInv`, which describes a list by the sequence of its pages (`IsList`: distinct
  pages, each linked to the next one, the last one to NULL) and everything that is in a
  list or with a caller as a tile, a page and the list it belongs to. The tiles cover
  the pages and do not overlap. Three parts of it are not in the properties and are
  needed: a page number in the buffer's range is a tile of the buffer, since
  `pmm_free_page` decides by the number; a page of the buffer in a caller's hands has a
  NULL link, since `SingleFree` appends it without clearing the link; and below the
  largest order there are no blocks but the two at 0 and at the size itself (`Legal`),
  so that a buddy is never at the head of a list of several blocks, where
  `find_and_pop_block` misses it. Splitting would break the third.
- `BuddiesMerge`: `MergesWithBuddy`. The merging loop of `free_helper` is an iteration;
  `MergesEnd` shows that it has stopped when it has met every larger order.
- `AllocatorRefines`: `ImplementsAllocator`, the refinement of PageAllocator. The free
  pages of the abstract allocator are those of the lists, which are the pages of no
  caller (`FreePages`).

The last four are about the states before `alloc_helper` first puts a block back or two
largest blocks are merged; the run pmm_split shows that the condition is needed.

**Virtual memory**, for `SoloSpec` and every size:

- `PagesAreExclusive`, `BitmapIsAccurate`: `PageExclusive` and `BitmapAccurate`. The
  invariant `PageInv` says at each place in the code which pages are marked although
  nobody has them (`Pending`), which a run has got so far (`Got`) and which are still
  to be released (`ToRelease`), that a loaded byte is the one in memory, and that the
  runs held are disjoint. `StoreSubtracts` and `StoreSets` say what a store does to
  the bits of a byte of any width; they rest on `SubtractBit` and `AddBit`.
- `TopSafe`: pages in use are below the number of image pages plus the frames ever
  taken, because the first free page is given out and no frame comes back.
- `FramesAreExclusive`, `UserPagesArePrivate`, `ImageIsKept`, `ReleasedPagesAreGone`
  need `TablesSuffice`: the page tables have entries for all pages that can be in
  use. With the 16 different tables of boot.s that is 64 MB; the machine the
  repository configures has 32 (`src/bochsrc:2`). By `TopSafe` and the injectivity of
  `get_pte` (`EntryPlace`) a page in use then has an entry of its own, and `FrameInv`
  follows the frames from pmm to the entries of the kernel and of the tasks. The run
  vmm_tables is an instance where the condition fails, and the image with it.
- `ReleasedPagesAreGone` is `ReleasedGone`. It is about pages below `TABLES * PTES`: the
  code's bitmap has 262144 pages and its tables 16384 entries, so a free page beyond
  them shows what the page 64 MB below has, and no more can be said of it.

**Console.** The assumption says that texts are sequences of characters and numbers are
ints, and that the line buffer has at least a byte; its size, the screen, tabs, int
width, formats and texts are arbitrary. The invariant `ConsoleInv` claims the first two
until a call has gone past the buffer.

- `ScreenIsWindow` is `ScreenShowsText`. The inductive invariant `ScreenInv` gives the
  whole screen as a function of the history (`View`), and adds what scrolling needs:
  the cursor is in the window (`OnScreen`) and the tape is blank below it (`Ahead`),
  so the blank row of `screen_uproll_once` is the next row of the tape. `PutView` is
  one cell, with its three cases of the end of a row; the loops over cells and
  characters follow by induction (`RepeatedView`, `PutcView`, `StringView`).
- `PrintsMeaning` is `FormatsArguments`. `ScanIs` is the loop of printk: after k turns
  (`TurnState`) the text is what the first k pieces mean, followed by the rest of the
  format, and the next argument is the one of the next conversion; that no plain `%`
  comes before a conversion letter is used in `TurnPasses`. `HexIs` and `DecimalIs`
  are the conversions: `func` and `uintTostring` give the digits of a number in order,
  as many as it has, and `num2hexstr` pads them to the width of an int.
- `LongLinesOverrun` is `OverrunsWhenTooLong`. By `TurnLength` the text after k turns has
  the length `Grown`, which is stated by the pieces and not by the loop, so `Fits`, a
  statement about all turns, fails exactly for the formats that are `TooLong`.

Induction. The library's induction theorems cannot be used here, but a set of numbers
that contains 0 and is closed under the successor is all of them by the theorem on the
least element of a set; `SetInduction` in NumberProofs states it for sets, and
`IterationExists` gives recursive functions their equations. That is enough for
powers, bits, digits, walks along a ring and loops over texts.

Only model-checked: liveness (`ReadyRuns`, `PrintkWaiterWoken`, `EveryLineEnded`),
which needs fairness and ENABLED. Every invariant and every action property the runs
check is a theorem, some under the conditions named above.

## 7. Not modelled, and the plan

Left out: the contents of registers and descriptors; `STOP` on a stack
overflow; the messages printed by `schedule` when all threads are blocked (proved not
to occur) and by `exit` when the main thread calls it (it does not); the GDT and the TSS descriptor; the speed of the timer. `printk`
before the lock exists (boot) is sequential. `memset` and `strcmp` of the string
library (nothing calls `strcmp`; note that its third branch repeats the test of
the second one), the list utility (nothing calls it), system calls (empty
functions), and the test functions of the modules.

The frame of a released page is not given back to pmm (the call is commented
out and marked as a bug in vmm.c:201); Vmm follows the code.

The order of the work, most important behaviour first:

1. (done) Threads, Sync, their proofs; Pmm and Vmm with the boot page tables.
2. (done) Interrupts in steps and the refinement to Sync; the abstract page
   allocator; the console.
3. (done) Proofs about the queues, the interrupt stacks, the scheduler's loop, the
   virtual memory, and the page allocator with its refinement.
4. (done) The proof of `AtomicView`, one action of Interrupts at a time.
5. (done) The proofs about the console: the screen and the formatting.
