--------------------------- MODULE PageAllocator ---------------------------
(***************************************************************************)
(* What the users of the physical page allocator rely on (include/pmm.h):  *)
(* an allocation hands out as many consecutive pages as it says, all of    *)
(* them free before; a release makes exactly these pages free again; what  *)
(* others hold is not touched.  How free pages are kept is not said.       *)
(***************************************************************************)
EXTENDS Integers, FiniteSets

CONSTANTS Pages,    \* the page numbers
          Sizes     \* the numbers of pages an allocation may have

VARIABLES free,     \* the pages that may be handed out
          owned     \* the blocks handed out: sets of pages

avars == <<free, owned>>

AllocInit == free = Pages /\ owned = {}

Consecutive(p, n) == p .. (p + n - 1)

AllocBlock ==
    \E p \in free, n \in Sizes :
        /\ Consecutive(p, n) \subseteq free
        /\ free' = free \ Consecutive(p, n)
        /\ owned' = owned \cup {Consecutive(p, n)}

FreeBlock ==
    \E b \in owned :
        /\ free' = free \cup b
        /\ owned' = owned \ {b}

AllocNext == AllocBlock \/ FreeBlock

AllocSpec == AllocInit /\ [][AllocNext]_avars
=============================================================================
