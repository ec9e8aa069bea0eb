-------------------------------- MODULE Pmm --------------------------------
(***************************************************************************)
(* The physical page allocator (kernel/modules/pmm): a buddy allocator     *)
(* whose free lists are linked through the page descriptors, and a buffer  *)
(* of single pages at the top of memory.                                   *)
(*                                                                         *)
(* The lists are modelled with their pointers, because some of the code's  *)
(* paths link a descriptor into a list where it does not belong.  The code *)
(* has 11 orders (_1 .. _1024) and thousands of pages; both are parameters *)
(* here, everything else is as in the code.  Each operation is one step:   *)
(* the module itself has no protection against being preempted.            *)
(***************************************************************************)
EXTENDS Integers, FiniteSets, Sequences, SequencesExt, Powers

CONSTANTS MaxOrder,   \* _1024 is 10 in the code; _erro is MaxOrder + 1
          NPages      \* pmm_max_page_no

ASSUME PmmAssumption ==
    /\ MaxOrder \in Nat \ {0}
    /\ NPages \in Nat
    /\ NPages >= Pow2[MaxOrder + 1]    \* "at least 2048 pages"

VARIABLES pm,     \* MULTI_LINK, SINGLE_LINK, the next fields, and whether a list walk got stuck
          held,   \* the blocks in the hands of the callers: page, size, and the pages asked for
          split,  \* alloc_helper has put back part of a larger block
          over    \* free_helper has merged two blocks of the largest size

pvars == <<pm, held, split, over>>

Page == 0 .. (NPages - 1)
Order == 0 .. MaxOrder
NULL == -1
ERRO_POP_BLOCK == -1

c_to_uint32(ph) == Pow2[ph]

\* singel_page_first_no: the first page of the single page buffer.
singel_page_first_no ==
    CHOOSE b \in Pow2[MaxOrder + 1] .. NPages :
        /\ b % Pow2[MaxOrder] = 0
        /\ b >= NPages - Pow2[MaxOrder]
        /\ \A a \in Pow2[MaxOrder + 1] .. (b - 1) :
              a % Pow2[MaxOrder] = 0 => a < NPages - Pow2[MaxOrder]

(***************************************************************************)
(* pmm_page_init: pages 0 and 1, one block of each other size, the rest in *)
(* largest blocks, and the remainder in the single page buffer.            *)
(***************************************************************************)
pmm_page_init ==
    [head   |-> [o \in Order |-> IF o = 0 THEN 0 ELSE Pow2[o]],
     next   |-> [p \in Page |->
                   IF p = 0 THEN 1
                   ELSE IF /\ p >= Pow2[MaxOrder] /\ p % Pow2[MaxOrder] = 0
                           /\ p + Pow2[MaxOrder] < singel_page_first_no
                        THEN p + Pow2[MaxOrder]
                   ELSE IF p >= singel_page_first_no /\ p + 1 < NPages THEN p + 1
                   ELSE NULL],
     single |-> IF singel_page_first_no < NPages THEN singel_page_first_no ELSE NULL,
     stuck  |-> FALSE]

PmmInit ==
    /\ pm = pmm_page_init
    /\ held = {}
    /\ split = FALSE
    /\ over = FALSE

-----------------------------------------------------------------------------
(***************************************************************************)
(* A walk along the next fields from descriptor h.  It visits no page      *)
(* twice unless it never ends.                                             *)
(***************************************************************************)
Walk(nx, h) ==
    LET w[k \in 0 .. NPages] ==
            IF k = 0 THEN h ELSE IF w[k - 1] = NULL THEN NULL ELSE nx[w[k - 1]]
    IN  w

Ends(nx, h) == Walk(nx, h)[NPages] = NULL

\* The pages of a list, first to last (the walk of counte_helper).
Chain(nx, h) ==
    LET w == Walk(nx, h)
        n == Cardinality({k \in DOMAIN w : w[k] # NULL})
    IN  [i \in 1 .. n |-> w[i - 1]]

Stuck(m) == [m EXCEPT !.stuck = TRUE]

\* Link page p behind the last descriptor of the list that starts at h.
LinkLast(m, h, p) ==
    IF Ends(m.next, h)
    THEN [m EXCEPT !.next[Last(Chain(m.next, h))] = p]
    ELSE Stuck(m)

(***************************************************************************)
(* append_block.  For a c that is not a size of the list array, header is  *)
(* never assigned: it may happen to be NULL, and the block is lost, or     *)
(* point to a descriptor, behind whose list the block is linked.           *)
(***************************************************************************)
append_block(m, p, c) ==
    LET n == [m EXCEPT !.next[p] = NULL]
    IN  IF p \notin Page THEN {Stuck(m)}
        ELSE IF c \in Order
        THEN {IF n.head[c] = NULL THEN [n EXCEPT !.head[c] = p] ELSE LinkLast(n, n.head[c], p)}
        ELSE {n} \cup {LinkLast(n, h, p) : h \in Page}

(***************************************************************************)
(* Taking the last page off a list, given its head.  The result is the     *)
(* list's new head, the next fields and the page.                          *)
(***************************************************************************)
\* Fault: the predecessor keeps its link to the page.
PopLast_linked(nx, h) ==
    LET c == Chain(nx, h)
    IN  IF Len(c) = 1
        THEN [head |-> NULL, next |-> nx, page |-> h]
        ELSE [head |-> h, next |-> nx, page |-> Last(c)]

PopLast(nx, h) ==
    LET c == Chain(nx, h)
    IN  IF Len(c) = 1
        THEN [head |-> NULL, next |-> nx, page |-> h]
        ELSE [head |-> h, next |-> [nx EXCEPT ![c[Len(c) - 1]] = NULL], page |-> Last(c)]

\* pop_block on a list that is not empty.
pop_block(m, c) ==
    IF Ends(m.next, m.head[c])
    THEN LET r == PopLast(m.next, m.head[c])
         IN  [pm |-> [m EXCEPT !.head[c] = r.head, !.next = r.next], page |-> r.page]
    ELSE [pm |-> Stuck(m), page |-> ERRO_POP_BLOCK]

-----------------------------------------------------------------------------
(***************************************************************************)
(* pmm_alloc_pages: the size asked for is rounded up to a power of two;    *)
(* the first list from there on that is not empty gives a block, and       *)
(* alloc_helper puts the upper halves of a larger block back (back[k]: the *)
(* lists it may have left after k of them).                                *)
(***************************************************************************)
\* The bits of n.
Bits(n) == CHOOSE k \in 0 .. n : Pow2[k] > n /\ \A j \in 0 .. (k - 1) : Pow2[j] <= n

\* Fault: an exact power of two is not recognised.
OrderFor_next(n) == Bits(n)

OrderFor(n) == IF n = Pow2[Bits(n) - 1] THEN Bits(n) - 1 ELSE Bits(n)

alloc_helper(m, target_ph, pop_ph, pop_page_no) ==
    LET back[k \in 0 .. (pop_ph - target_ph)] ==
            IF k = 0 THEN {m}
            ELSE UNION {append_block(x, pop_page_no + c_to_uint32(pop_ph - k + 1) \div 2,
                                     pop_page_no - 1) : x \in back[k - 1]}
    IN  back[pop_ph - target_ph]

pmm_alloc_pages(n) ==
    LET o == OrderFor(n)
    IN  \E ph \in o .. MaxOrder :
            /\ pm.head[ph] # NULL
            /\ \A q \in o .. (ph - 1) : pm.head[q] = NULL
            /\ LET r == pop_block(pm, ph)
               IN  IF r.pm.stuck
                   THEN pm' = r.pm /\ UNCHANGED <<held, split>>
                   ELSE /\ pm' \in alloc_helper(r.pm, o, ph, r.page)
                        /\ held' = held \cup {[page |-> r.page, size |-> o, want |-> n]}
                        /\ split' = (split \/ ph # o)
            /\ UNCHANGED over

\* pmm_alloc_one_page while the single page buffer has pages; otherwise it is
\* pmm_alloc_pages(1).
SingleAlloc ==
    /\ pm.single # NULL
    /\ IF Ends(pm.next, pm.single)
       THEN LET r == PopLast(pm.next, pm.single)
            IN  /\ pm' = [pm EXCEPT !.single = r.head, !.next = r.next]
                /\ held' = held \cup {[page |-> r.page, size |-> 0, want |-> 1]}
       ELSE pm' = Stuck(pm) /\ UNCHANGED held
    /\ UNCHANGED <<split, over>>

pmm_alloc_one_page ==
    \/ SingleAlloc
    \/ pm.single = NULL /\ pmm_alloc_pages(1)

-----------------------------------------------------------------------------
\* Fault: the block above is taken for the buddy of every block.
get_partner_page_no_above(page_no, type) == page_no + c_to_uint32(type)

get_partner_page_no(page_no, type) ==
    LET v1 == c_to_uint32(type)
    IN  IF (page_no - v1) % (2 * v1) = 0 THEN page_no - v1 ELSE page_no + v1

(***************************************************************************)
(* find_and_pop_block: the block is found if it is the only one of its     *)
(* list or has a predecessor there; at the head of a longer list it is     *)
(* not.                                                                    *)
(***************************************************************************)
Found(m, target, ph) ==
    /\ ph \in Order
    /\ m.head[ph] # NULL
    /\ \/ m.head[ph] = target /\ m.next[target] = NULL
       \/ \E p \in ToSet(Chain(m.next, m.head[ph])) : m.next[p] = target

\* Fault: the block stays in its list.
Unlink_kept(m, target, ph) == m

Unlink(m, target, ph) ==
    IF m.head[ph] = target /\ m.next[target] = NULL
    THEN [m EXCEPT !.head[ph] = NULL]
    ELSE LET p == CHOOSE q \in ToSet(Chain(m.next, m.head[ph])) : m.next[q] = target
         IN  [m EXCEPT !.next[p] = m.next[target]]

(***************************************************************************)
(* free_helper: the block is merged with its buddy as long as the buddy is *)
(* found, and then appended.  up[k] is the block after at most k merges.   *)
(***************************************************************************)
\* Fault: the merged block is said to start where the freed one does.
Merge_here(b) ==
    LET c == get_partner_page_no(b.page, b.size)
    IN  IF Found(b.pm, c, b.size)
        THEN [pm |-> Unlink(b.pm, c, b.size), page |-> b.page, size |-> b.size + 1]
        ELSE b

Merge(b) ==
    LET c == get_partner_page_no(b.page, b.size)
    IN  IF Found(b.pm, c, b.size)
        THEN [pm |-> Unlink(b.pm, c, b.size),
              page |-> IF c < b.page THEN c ELSE b.page,
              size |-> b.size + 1]
        ELSE b

free_helper(page_no, size) ==
    LET up[k \in Nat] ==
            IF k = 0 THEN [pm |-> pm, page |-> page_no, size |-> size]
            ELSE Merge(up[k - 1])
        b == up[MaxOrder + 1 - size]
    IN  /\ pm' \in IF b.size \in Order /\ ~Ends(b.pm.next, b.pm.head[b.size])
                  THEN {Stuck(b.pm)}
                  ELSE append_block(b.pm, b.page, b.size)
        /\ over' = (over \/ b.size > MaxOrder)

\* pmm_free_page: the page number tells which pool the block belongs to.
SingleFree(b) ==
    /\ b.page >= singel_page_first_no
    /\ pm' = IF pm.single = NULL THEN [pm EXCEPT !.single = b.page]
             ELSE LinkLast(pm, pm.single, b.page)
    /\ UNCHANGED over

pmm_free_page(b) ==
    /\ \/ SingleFree(b)
       \/ b.page < singel_page_first_no /\ free_helper(b.page, b.size)
    /\ held' = held \ {b}
    /\ UNCHANGED split

PmmNext ==
    /\ ~pm.stuck
    /\ \/ \E n \in 1 .. Pow2[MaxOrder] : pmm_alloc_pages(n)
       \/ pmm_alloc_one_page
       \/ \E b \in held : pmm_free_page(b)

PmmSpec == PmmInit /\ [][PmmNext]_pvars

\* The allocator up to the first block that is put back by alloc_helper or merged
\* beyond the largest size.
SoundNext == ~split /\ ~over /\ PmmNext

SoundSpec == PmmInit /\ [][SoundNext]_pvars

-----------------------------------------------------------------------------
Block(page, size) == page .. (page + c_to_uint32(size) - 1)

\* The blocks of the free lists, of the single page buffer, and of the callers.
Free == UNION {{<<p, o>> : p \in ToSet(Chain(pm.next, pm.head[o]))} : o \in Order}
Singles == {<<p, 0>> : p \in ToSet(Chain(pm.next, pm.single))}
Held == {<<b.page, b.size>> : b \in held}

(***************************************************************************)
(* Until alloc_helper or an over-large merge has run, the free lists, the  *)
(* buffer and the callers' blocks share the pages among them: no page is   *)
(* lost and none is in two places, whatever is allocated, freed, merged.   *)
(***************************************************************************)
Partition ==
    ~split /\ ~over =>
        LET blocks == Free \cup Singles \cup Held
        IN  \A p \in Page : Cardinality({b \in blocks : p \in Block(b[1], b[2])}) = 1

(***************************************************************************)
(* Until then every walk along a list ends, and every block of a free list *)
(* starts at a multiple of its size (what the buddy arithmetic needs).     *)
(***************************************************************************)
ListsSound ==
    ~split /\ ~over =>
        /\ ~pm.stuck
        /\ \A o \in Order : Ends(pm.next, pm.head[o])
        /\ Ends(pm.next, pm.single)
        /\ \A b \in Free : b[1] % c_to_uint32(b[2]) = 0

(***************************************************************************)
(* A caller gets the smallest block that has the pages it asked for.       *)
(***************************************************************************)
HeldFits ==
    \A b \in held : Pow2[b.size] >= b.want /\ (b.size = 0 \/ Pow2[b.size - 1] < b.want)

\* Two blocks of the same size that make up one of the next size.
AreBuddies(p, q, o) == p # q /\ p \div Pow2[o + 1] = q \div Pow2[o + 1]

(***************************************************************************)
(* Until then a freed block is merged with its buddy whenever the buddy is *)
(* free.  (free_helper does not find a buddy at the head of a list of      *)
(* several blocks, but below the largest size there are none such without  *)
(* splitting.)                                                             *)
(***************************************************************************)
MergesWithBuddy ==
    [][held' \subseteq held /\ ~over' =>
          \A b \in Free' \ Free, q \in Page :
              b[2] < MaxOrder /\ AreBuddies(b[1], q, b[2]) => <<q, b[2]>> \notin Free']_pvars

\* What the users of the allocator see.
PagesOf(blocks) == UNION {Block(b[1], b[2]) : b \in blocks}

View == INSTANCE PageAllocator
            WITH Pages <- Page, Sizes <- {Pow2[o] : o \in Order},
                 free <- PagesOf(Free \cup Singles),
                 owned <- {Block(b.page, b.size) : b \in held}

(***************************************************************************)
(* Until then the buddy lists and the buffer of single pages implement the *)
(* plain allocator of PageAllocator: an allocation takes its pages, and no *)
(* others, from the free ones, and a release gives the same pages back,    *)
(* whichever lists, merges or pool they go through.                        *)
(***************************************************************************)
ImplementsAllocator ==
    View!AllocInit /\ [][split' \/ over' \/ View!AllocNext]_pvars

(***************************************************************************)
(* No page is in two allocated blocks: the address and size of an          *)
(* allocation describe memory that is the caller's alone.                  *)
(***************************************************************************)
HeldDisjoint ==
    \A a, b \in Held : a # b => Block(a[1], a[2]) \cap Block(b[1], b[2]) = {}
=============================================================================
