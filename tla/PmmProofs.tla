----------------------------- MODULE PmmProofs ------------------------------
(***************************************************************************)
(* What the physical page allocator of Pmm promises, for every number of   *)
(* orders and pages.                                                       *)
(*                                                                         *)
(* A list is described by the sequence of its pages.  The single page      *)
(* buffer is one more list, in slot MaxOrder + 1 behind the free lists of  *)
(* the orders.  A tile is a page and a slot: a block of that order, or one *)
(* page of the buffer.                                                     *)
(***************************************************************************)
EXTENDS Pmm, NumberProofs, FiniteSetTheorems, SequenceTheorems

(***************************************************************************)
(* The list that starts at h has the pages of c, in this order.            *)
(***************************************************************************)
IsList(nx, h, c) ==
    /\ c \in Seq(Page)
    /\ \A i, j \in 1 .. Len(c) : c[i] = c[j] => i = j
    /\ h = IF Len(c) = 0 THEN NULL ELSE c[1]
    /\ \A i \in 1 .. Len(c) : nx[c[i]] = IF i = Len(c) THEN NULL ELSE c[i + 1]

PmRecord == [head : [Order -> Page \cup {NULL}], next : [Page -> Page \cup {NULL}],
             single : Page \cup {NULL}, stuck : BOOLEAN]

Slot == 0 .. (MaxOrder + 1)
HeadOf(m, q) == IF q = MaxOrder + 1 THEN m.single ELSE m.head[q]
ListOf(m, q) == Chain(m.next, HeadOf(m, q))
In(m, q) == ToSet(ListOf(m, q))

ListsOK(m) ==
    /\ m \in PmRecord /\ ~m.stuck
    /\ \A q \in Slot : IsList(m.next, HeadOf(m, q), ListOf(m, q))

(***************************************************************************)
(* Without splitting, the blocks of an order below the largest are the two *)
(* that make up the first block of the next order.                         *)
(***************************************************************************)
Legal(p, q) ==
    \/ q = MaxOrder + 1 /\ p \in singel_page_first_no .. (NPages - 1)
    \/ q = MaxOrder /\ p % Pow2[MaxOrder] = 0 /\ p + Pow2[MaxOrder] <= singel_page_first_no
    \/ q < MaxOrder /\ p \in {0, Pow2[q]}

Cells(t) == IF t[2] = MaxOrder + 1 THEN {t[1]} ELSE Block(t[1], t[2])

Tiling(T) ==
    /\ \A t \in T : Legal(t[1], t[2])
    /\ \A x \in Page : \E t \in T : x \in Cells(t)
    /\ \A t, u \in T : t # u => Cells(t) \cap Cells(u) = {}

Tiles(m) == {t \in Page \X Slot : t[1] \in In(m, t[2])}

(***************************************************************************)
(* The lists of m and the tiles B outside them share the pages among them. *)
(***************************************************************************)
Good(m, B) ==
    /\ ListsOK(m)
    /\ B \subseteq Page \X Slot
    /\ Tiles(m) \cap B = {}
    /\ Tiling(Tiles(m) \cup B)
    /\ \A p \in Page : <<p, MaxOrder + 1>> \in B => m.next[p] = NULL

SlotOf(b) == IF b.page >= singel_page_first_no THEN MaxOrder + 1 ELSE b.size
TileOf(b) == <<b.page, SlotOf(b)>>

HeldOK(H) ==
    /\ \A b \in H : /\ b.page \in Page /\ b.size \in Order
                    /\ b.page >= singel_page_first_no => b.size = 0
    /\ \A a, b \in H : a.page = b.page => a = b

\* The inductive invariant.
PmmInv ==
    ~split /\ ~over => Good(pm, {TileOf(b) : b \in held}) /\ HeldOK(held)

-----------------------------------------------------------------------------
(***************************************************************************)
(* The size of an interval of numbers from 0 or 1.                         *)
(***************************************************************************)
LEMMA IntervalSize ==
    \A n \in Nat : Cardinality(0 .. (n - 1)) = n /\ Cardinality(1 .. n) = n
<1> TAKE n \in Nat
<1>1. CASE n = 0
  <2>1. 0 .. (n - 1) = {} /\ 1 .. n = {}
    BY <1>1
  <2> QED BY <2>1, <1>1, FS_EmptySet
<1>2. CASE n # 0
  <2>1. 0 \in Int /\ 1 \in Int /\ n - 1 \in Int /\ n \in Int /\ ~(0 > n - 1) /\ ~(1 > n)
    BY <1>2
  <2>2. Cardinality(0 .. (n - 1)) = (n - 1) - 0 + 1 /\ Cardinality(1 .. n) = n - 1 + 1
    BY <2>1, FS_Interval
  <2> QED BY <2>2
<1> QED BY <1>1, <1>2

(***************************************************************************)
(* A function on 1 .. n is a sequence of length n.                         *)
(***************************************************************************)
LEMMA FunctionIsSeq ==
    ASSUME NEW S, NEW n \in Nat, NEW f \in [1 .. n -> S]
    PROVE  f \in Seq(S) /\ Len(f) = n
<1>1. f \in Seq(S)
  BY SeqDef
<1> QED BY <1>1, LenProperties

(***************************************************************************)
(* A list is no longer than there are pages.                               *)
(***************************************************************************)
LEMMA ListLength ==
    ASSUME NEW nx, NEW h, NEW c, IsList(nx, h, c)
    PROVE  Len(c) \in Nat /\ Len(c) <= NPages
<1>1. c \in Seq(Page) /\ Len(c) \in Nat /\ c \in [1 .. Len(c) -> Page]
  BY LenProperties, SMTT(30) DEF IsList
<1>2. c \in Injection(1 .. Len(c), Page)
  BY <1>1 DEF IsList, Injection, IsInjective
<1>3. /\ IsFiniteSet(Page) /\ Cardinality(Page) = NPages
      /\ Cardinality(1 .. Len(c)) = Len(c)
  <2>1. \A n \in Nat : Cardinality(0 .. (n - 1)) = n /\ Cardinality(1 .. n) = n
    BY IntervalSize
  <2>2. IsFiniteSet(0 .. (NPages - 1)) /\ NPages \in Nat
    BY FS_Interval, PmmAssumption
  <2> QED BY <2>1, <2>2, <1>1 DEF Page
<1>4. Cardinality(1 .. Len(c)) <= Cardinality(Page)
  BY <1>2, <1>3, FS_Injection
<1> QED BY <1>1, <1>3, <1>4

(***************************************************************************)
(* The walk along a list meets its pages one after the other, and ends.    *)
(***************************************************************************)
LEMMA WalkIs ==
    ASSUME NEW nx, NEW h, NEW c, IsList(nx, h, c)
    PROVE  Walk(nx, h) = [k \in 0 .. NPages |-> IF k < Len(c) THEN c[k + 1] ELSE NULL]
<1> DEFINE K == 0 .. NPages
           W == [k \in K |-> IF k < Len(c) THEN c[k + 1] ELSE NULL]
           Step(w, k) == IF k = 0 THEN h ELSE IF w[k - 1] = NULL THEN NULL ELSE nx[w[k - 1]]
<1>0. Len(c) \in Nat /\ NPages \in Nat
  BY ListLength, PmmAssumption
<1>00. /\ \A i \in 1 .. Len(c) : c[i] # NULL
       /\ \A i \in 1 .. Len(c) : nx[c[i]] = IF i = Len(c) THEN NULL ELSE c[i + 1]
       /\ h = IF Len(c) = 0 THEN NULL ELSE c[1]
  <2>1. \A i \in 1 .. Len(c) : c[i] \in Page
    BY ElementOfSeq DEF IsList
  <2> QED BY <2>1, <1>0 DEF IsList, Page, NULL
<1>1. \A k \in K : W[k] = Step(W, k)
  <2> TAKE k \in K
  <2>1. CASE k = 0
    BY <2>1, <1>0, <1>00
  <2>2. CASE k # 0
    <3>1. k - 1 \in K /\ k - 1 + 1 = k
      BY <2>2, <1>0
    <3>2. CASE k < Len(c)
      <4>1. W[k - 1] = c[k] /\ k \in 1 .. Len(c)
        BY <3>1, <3>2, <1>0, <2>2
      <4> QED BY <4>1, <3>2, <2>2, <1>00
    <3>3. CASE k = Len(c)
      <4>1. W[k - 1] = c[k] /\ k \in 1 .. Len(c)
        BY <3>1, <3>3, <1>0, <2>2
      <4> QED BY <4>1, <3>3, <2>2, <1>00
    <3>4. CASE k > Len(c)
      <4>1. W[k - 1] = NULL
        BY <3>1, <3>4, <1>0, <2>2
      <4> QED BY <4>1, <3>4, <2>2, <1>0
    <3> QED BY <3>2, <3>3, <3>4, <1>0
  <2> QED BY <2>1, <2>2
<1>2. W = [k \in K |-> Step(W, k)]
  BY <1>1, SMTT(30)
<1>3. Walk(nx, h) = [k \in K |-> Step(Walk(nx, h), k)]
  <2>1. \E w : w = [k \in K |-> Step(w, k)]
    <3> HIDE DEF W
    <3> QED BY <1>2
  <2> QED BY <2>1 DEF Walk
<1> DEFINE V == Walk(nx, h)
<1> HIDE DEF V
<1>4. \A k \in K : V[k] = Step(V, k)
  BY <1>3 DEF V
<1> DEFINE S == {k \in Nat : k \in K => V[k] = W[k]}
<1>5. 0 \in S
  BY <1>4, <1>1, <1>0
<1>6. ASSUME NEW k \in S PROVE k + 1 \in S
  <2> HIDE DEF W
  <2>1. CASE k + 1 \in K
    <3>1. k \in K /\ V[k] = W[k] /\ k + 1 - 1 = k /\ k + 1 # 0
      BY <2>1, <1>0
    <3>2. V[k + 1] = Step(V, k + 1) /\ W[k + 1] = Step(W, k + 1)
      BY <2>1, <1>1, <1>4
    <3>3. Step(V, k + 1) = Step(W, k + 1)
      BY <3>1
    <3> QED BY <3>2, <3>3
  <2> QED BY <2>1
<1>7. S = Nat
  <2> HIDE DEF S
  <2> QED BY <1>5, <1>6, SetInduction DEF S
<1>8. V = [k \in K |-> V[k]]
  BY <1>3 DEF V
<1>9. \A k \in K : V[k] = W[k]
  <2> HIDE DEF W
  <2>1. \A k \in K : k \in Nat
    OBVIOUS
  <2> QED BY <2>1, <1>7
<1>10. V = W
  <2>1. W = [k \in K |-> W[k]]
    OBVIOUS
  <2> HIDE DEF W
  <2> QED BY <1>8, <1>9, <2>1
<1> QED BY <1>10 DEF V

(***************************************************************************)
(* The pages of a list are the ones Chain returns, and its walk ends.      *)
(***************************************************************************)
LEMMA ChainIs ==
    ASSUME NEW nx, NEW h, NEW c, IsList(nx, h, c)
    PROVE  Chain(nx, h) = c /\ Ends(nx, h)
<1> DEFINE w == Walk(nx, h)
           n == Cardinality({k \in DOMAIN w : w[k] # NULL})
<1>0. Len(c) \in Nat /\ NPages \in Nat /\ Len(c) <= NPages
  BY ListLength, PmmAssumption
<1>1. w = [k \in 0 .. NPages |-> IF k < Len(c) THEN c[k + 1] ELSE NULL]
  BY WalkIs
<1>2. \A i \in 1 .. Len(c) : c[i] # NULL
  <2>1. \A i \in 1 .. Len(c) : c[i] \in Page
    BY ElementOfSeq DEF IsList
  <2> QED BY <2>1, <1>0 DEF Page, NULL
<1>3. {k \in DOMAIN w : w[k] # NULL} = 0 .. (Len(c) - 1)
  <2>1. DOMAIN w = 0 .. NPages
    BY <1>1
  <2>2. ASSUME NEW k \in 0 .. NPages PROVE w[k] # NULL <=> k \in 0 .. (Len(c) - 1)
    <3>1. CASE k < Len(c)
      <4>1. w[k] = c[k + 1] /\ k + 1 \in 1 .. Len(c)
        BY <3>1, <1>0, <1>1
      <4> QED BY <4>1, <1>2, <3>1, <1>0
    <3>2. CASE ~(k < Len(c))
      BY <3>2, <1>0, <1>1
    <3> QED BY <3>1, <3>2
  <2> HIDE DEF w
  <2> QED BY <2>1, <2>2, <1>0
<1>4. n = Len(c)
  <2>1. Cardinality(0 .. (Len(c) - 1)) = Len(c)
    BY <1>0, IntervalSize
  <2> HIDE DEF w
  <2> QED BY <2>1, <1>3
<1>5. Chain(nx, h) = [i \in 1 .. n |-> w[i - 1]]
  BY DEF Chain
<1>6. \A i \in 1 .. Len(c) : w[i - 1] = c[i]
  BY <1>0, <1>1
<1>7. c = [i \in 1 .. Len(c) |-> c[i]]
  BY LenProperties DEF IsList
<1>8. Chain(nx, h) = c
  <2> HIDE DEF w, n
  <2> QED BY <1>4, <1>5, <1>6, <1>7
<1>9. Ends(nx, h)
  BY <1>0, <1>1 DEF Ends
<1> QED BY <1>8, <1>9

(***************************************************************************)
(* What a list has as its elements.                                        *)
(***************************************************************************)
LEMMA ListElements ==
    ASSUME NEW nx, NEW h, NEW c, IsList(nx, h, c)
    PROVE  /\ Len(c) \in Nat
           /\ c \in [1 .. Len(c) -> Page]
           /\ ToSet(c) = {c[i] : i \in 1 .. Len(c)}
           /\ ToSet(c) \subseteq Page
           /\ h = NULL <=> Len(c) = 0
           /\ h # NULL => h \in ToSet(c) /\ h = c[1]
           /\ \A p \in ToSet(c) : \E i \in 1 .. Len(c) : p = c[i]
           /\ \A i \in 1 .. Len(c) : c[i] \in ToSet(c)
<1>1. Len(c) \in Nat /\ c \in [1 .. Len(c) -> Page] /\ DOMAIN c = 1 .. Len(c)
  BY LenProperties DEF IsList
<1>2. ToSet(c) = {c[i] : i \in 1 .. Len(c)}
  BY <1>1 DEF ToSet
<1>3. h = IF Len(c) = 0 THEN NULL ELSE c[1]
  BY DEF IsList
<1>4. Len(c) # 0 => 1 \in 1 .. Len(c)
  BY <1>1
<1>5. \A i \in 1 .. Len(c) : c[i] # NULL
  <2>1. NULL \notin Page
    BY PmmAssumption DEF NULL, Page
  <2> QED BY <2>1, <1>1
<1>6. ToSet(c) \subseteq Page
  BY <1>1, <1>2
<1>7. /\ \A p \in ToSet(c) : \E i \in 1 .. Len(c) : p = c[i]
      /\ \A i \in 1 .. Len(c) : c[i] \in ToSet(c)
  BY <1>2
<1> QED BY <1>1, <1>2, <1>3, <1>4, <1>5, <1>6, <1>7

(***************************************************************************)
(* A list stays as it is when next fields of other pages change.           *)
(***************************************************************************)
LEMMA ListKept ==
    ASSUME NEW nx, NEW ny, NEW h, NEW c, IsList(nx, h, c),
           \A p \in ToSet(c) : ny[p] = nx[p]
    PROVE  IsList(ny, h, c)
<1>1. \A i \in 1 .. Len(c) : ny[c[i]] = nx[c[i]]
  BY ListElements
<1> QED BY <1>1 DEF IsList

(***************************************************************************)
(* A list of one page.                                                     *)
(***************************************************************************)
LEMMA ListOfOne ==
    ASSUME NEW nx, NEW p \in Page, nx[p] = NULL
    PROVE  IsList(nx, p, <<p>>) /\ ToSet(<<p>>) = {p}
<1>1. <<p>> \in Seq(Page) /\ Len(<<p>>) = 1 /\ <<p>>[1] = p
  OBVIOUS
<1>2. IsList(nx, p, <<p>>)
  <2> DEFINE c == <<p>>
  <2>1. \A i \in 1 .. Len(c) : i = 1
    BY <1>1
  <2> HIDE DEF c
  <2>2. c \in Seq(Page) /\ Len(c) = 1 /\ c[1] = p
    BY <1>1 DEF c
  <2>3. IsList(nx, p, c)
    BY <2>1, <2>2 DEF IsList
  <2> QED BY <2>3 DEF c
<1>3. ToSet(<<p>>) = {p}
  <2> DEFINE c == <<p>>
  <2>1. Len(c) = 1 /\ c[1] = p
    BY <1>1
  <2> HIDE DEF c
  <2>2. ToSet(c) = {c[i] : i \in 1 .. Len(c)}
    BY <1>2, ListElements DEF c
  <2>3. \A i \in 1 .. Len(c) : i = 1
    BY <2>1
  <2>4. ToSet(c) = {p}
    BY <2>1, <2>2, <2>3
  <2> QED BY <2>4 DEF c
<1> QED BY <1>2, <1>3

(***************************************************************************)
(* The list without pages.                                                 *)
(***************************************************************************)
LEMMA ListOfNone ==
    ASSUME NEW nx
    PROVE  IsList(nx, NULL, <<>>) /\ ToSet(<<>>) = {}
<1> DEFINE c == <<>>
<1>1. c \in Seq(Page) /\ Len(c) = 0
  OBVIOUS
<1> HIDE DEF c
<1>2. IsList(nx, NULL, c)
  BY <1>1 DEF IsList
<1>3. ToSet(c) = {}
  BY <1>1, <1>2, ListElements
<1> QED BY <1>2, <1>3 DEF c

(***************************************************************************)
(* Linking a page behind the last one of a list.                           *)
(***************************************************************************)
LEMMA ListAppend ==
    ASSUME NEW nx \in [Page -> Page \cup {NULL}], NEW h, NEW c, IsList(nx, h, c), h # NULL,
           NEW p \in Page, p \notin ToSet(c), nx[p] = NULL,
           NEW ny, ny[Last(c)] = p, \A x \in Page : x # Last(c) => ny[x] = nx[x]
    PROVE  /\ IsList(ny, h, Append(c, p))
           /\ ToSet(Append(c, p)) = ToSet(c) \cup {p}
<1> DEFINE n == Len(c)
           d == Append(c, p)
<1>1. /\ n \in Nat /\ n # 0 /\ c \in [1 .. n -> Page] /\ c \in Seq(Page)
      /\ \A i \in 1 .. n : c[i] # p
  BY ListElements DEF IsList
<1>2. /\ d \in Seq(Page) /\ Len(d) = n + 1 /\ d[n + 1] = p
      /\ \A i \in 1 .. n : d[i] = c[i]
  BY <1>1, AppendProperties
<1>3. Last(c) = c[n] /\ c[n] \in Page /\ n \in 1 .. n
  BY <1>1 DEF Last
<1>4. ny[c[n]] = p /\ \A x \in Page : x # c[n] => ny[x] = nx[x]
  BY <1>3
<1> HIDE DEF d
<1>5. \A i, j \in 1 .. n : c[i] = c[j] => i = j
  BY DEF IsList
<1>6. \A i \in 1 .. n : nx[c[i]] = IF i = n THEN NULL ELSE c[i + 1]
  BY DEF IsList
<1>7. h = c[1] /\ 1 \in 1 .. n
  BY <1>1, ListElements
<1>8. \A i \in 1 .. (n + 1) : i \in 1 .. n \/ i = n + 1
  BY <1>1
<1>9. IsList(ny, h, d)
  <2>1. \A i, j \in 1 .. Len(d) : d[i] = d[j] => i = j
    BY <1>1, <1>2, <1>5, <1>8
  <2>2. h = IF Len(d) = 0 THEN NULL ELSE d[1]
    BY <1>2, <1>7, <1>1
  <2>3. ASSUME NEW i \in 1 .. Len(d)
        PROVE  ny[d[i]] = IF i = Len(d) THEN NULL ELSE d[i + 1]
    <3>1. CASE i = n + 1
      <4>1. p # c[n]
        BY <1>1, <1>3
      <4> QED BY <3>1, <4>1, <1>2, <1>4
    <3>2. CASE i = n
      BY <3>2, <1>2, <1>3, <1>4, <1>1
    <3>3. CASE i \in 1 .. n /\ i # n
      <4>1. c[i] # c[n] /\ i + 1 \in 1 .. n /\ i # Len(d)
        <5> HIDE DEF n
        <5> QED BY <3>3, <1>5, <1>3, <1>2, <1>1
      <4>2. nx[c[i]] = c[i + 1] /\ c[i] \in Page
        BY <3>3, <1>6, <1>1
      <4> QED BY <4>1, <4>2, <1>4, <1>2, <3>3
    <3> QED BY <3>1, <3>2, <3>3, <1>8, <1>2
  <2> QED BY <1>2, <2>1, <2>2, <2>3 DEF IsList
<1>10. ToSet(d) = ToSet(c) \cup {p}
  <2>1. ToSet(d) = {d[i] : i \in 1 .. (n + 1)} /\ ToSet(c) = {c[i] : i \in 1 .. n}
    BY <1>9, <1>2, ListElements
  <2>2. n + 1 \in 1 .. (n + 1) /\ \A i \in 1 .. n : i \in 1 .. (n + 1)
    BY <1>1
  <2> HIDE DEF n
  <2> QED BY <2>1, <2>2, <1>8, <1>2
<1> QED BY <1>9, <1>10 DEF d

(***************************************************************************)
(* Unlinking the page behind the one in place k.                           *)
(***************************************************************************)
LEMMA ListUnlink ==
    ASSUME NEW nx \in [Page -> Page \cup {NULL}], NEW h, NEW c, IsList(nx, h, c),
           NEW k \in 1 .. (Len(c) - 1)
    PROVE  LET ny == [nx EXCEPT ![c[k]] = nx[c[k + 1]]]
               d == [i \in 1 .. (Len(c) - 1) |-> IF i <= k THEN c[i] ELSE c[i + 1]]
           IN  IsList(ny, h, d) /\ ToSet(d) = ToSet(c) \ {c[k + 1]}
<1> DEFINE n == Len(c)
           ny == [nx EXCEPT ![c[k]] = nx[c[k + 1]]]
           d == [i \in 1 .. (n - 1) |-> IF i <= k THEN c[i] ELSE c[i + 1]]
<1>1. /\ n \in Nat /\ c \in [1 .. n -> Page]
      /\ k \in 1 .. n /\ k + 1 \in 1 .. n /\ n - 1 \in Nat /\ n - 1 # 0
      /\ k \in 1 .. (n - 1) /\ k \in Nat /\ n # 0
  BY ListElements
<1>5. \A i, j \in 1 .. n : c[i] = c[j] => i = j
  BY DEF IsList
<1>6. \A i \in 1 .. n : nx[c[i]] = IF i = n THEN NULL ELSE c[i + 1]
  BY DEF IsList
<1>7. h = c[1] /\ 1 \in 1 .. n
  <2>1. h = IF n = 0 THEN NULL ELSE c[1]
    BY DEF IsList
  <2> QED BY <2>1, <1>1
<1>2. d \in Seq(Page) /\ Len(d) = n - 1
  <2>1. \A i \in 1 .. (n - 1) : i \in 1 .. n /\ i + 1 \in 1 .. n
    BY <1>1
  <2>2. d \in [1 .. (n - 1) -> Page]
    BY <2>1, <1>1
  <2> HIDE DEF d, n
  <2> QED BY <1>1, <2>2, FunctionIsSeq
<1>3. \A i \in 1 .. (n - 1) : d[i] = IF i <= k THEN c[i] ELSE c[i + 1]
  OBVIOUS
<1>4. ny[c[k]] = nx[c[k + 1]] /\ \A x \in Page : x # c[k] => ny[x] = nx[x]
  BY <1>1
<1> HIDE DEF d, ny
<1>8. \A i \in 1 .. (n - 1) : i \in 1 .. n /\ i + 1 \in 1 .. n
  BY <1>1
<1>9. IsList(ny, h, d)
  <2>1. ASSUME NEW i \in 1 .. (n - 1), NEW j \in 1 .. (n - 1), d[i] = d[j] PROVE i = j
    <3> DEFINE a == IF i <= k THEN i ELSE i + 1
               b == IF j <= k THEN j ELSE j + 1
    <3>1. a \in 1 .. n /\ b \in 1 .. n /\ d[i] = c[a] /\ d[j] = c[b]
      BY <1>3, <1>8
    <3>2. a = b
      <4> HIDE DEF a, b
      <4> QED BY <3>1, <2>1, <1>5
    <3> QED BY <3>2, <1>1
  <2>2. h = IF Len(d) = 0 THEN NULL ELSE d[1]
    BY <1>1, <1>2, <1>3, <1>7
  <2>3. ASSUME NEW i \in 1 .. (n - 1)
        PROVE  ny[d[i]] = IF i = n - 1 THEN NULL ELSE d[i + 1]
    <3>0. i \in 1 .. n /\ i + 1 \in 1 .. n /\ i \in Nat /\ k \in Nat /\ i # n
      <4> HIDE DEF n
      <4> QED BY <1>8, <1>1
    <3>1. CASE i = k
      <4>1. ny[d[i]] = nx[c[k + 1]]
        BY <3>1, <1>3, <1>4
      <4>2. CASE k + 1 = n
        BY <4>1, <4>2, <3>1, <1>6, <1>1
      <4>3. CASE k + 1 # n
        <5>1. nx[c[k + 1]] = c[k + 1 + 1] /\ k + 1 \in 1 .. (n - 1) /\ ~(k + 1 <= k) /\ i # n - 1
          BY <4>3, <1>6, <1>1, <3>1
        <5> QED BY <5>1, <4>1, <3>1, <1>3
      <4> QED BY <4>2, <4>3
    <3>2. CASE i < k
      <4>1. d[i] = c[i] /\ c[i] # c[k] /\ c[i] \in Page
        <5>1. i <= k /\ i # k
          BY <3>2, <3>0
        <5> QED BY <5>1, <1>3, <1>5, <1>1, <3>0
      <4>2. ny[d[i]] = nx[c[i]] /\ nx[c[i]] = c[i + 1]
        BY <4>1, <1>4, <1>6, <3>0, SMTT(30)
      <4>3. i + 1 \in 1 .. (n - 1) /\ i + 1 <= k /\ i # n - 1
        <5> HIDE DEF n
        <5> QED BY <3>2, <1>1, <3>0
      <4> QED BY <4>2, <4>3, <1>3, SMTT(30)
    <3>3. CASE i > k
      <4>1. d[i] = c[i + 1] /\ c[i + 1] # c[k] /\ c[i + 1] \in Page
        <5>1. ~(i <= k) /\ i + 1 # k
          BY <3>3, <3>0
        <5> QED BY <5>1, <1>3, <1>5, <1>1, <3>0
      <4>2. ny[d[i]] = nx[c[i + 1]]
        BY <4>1, <1>4
      <4>3. CASE i = n - 1
        <5>1. i + 1 = n
          BY <4>3, <1>1
        <5> QED BY <4>2, <4>3, <5>1, <1>6, <3>0
      <4>4. CASE i # n - 1
        <5>1. i + 1 # n /\ i + 1 \in 1 .. (n - 1) /\ ~(i + 1 <= k)
          <6> HIDE DEF n
          <6> QED BY <4>4, <3>0, <1>1, <3>3
        <5> QED BY <4>2, <4>4, <5>1, <1>6, <3>0, <1>3
      <4> QED BY <4>3, <4>4
    <3> QED BY <3>1, <3>2, <3>3, <3>0
  <2> QED BY <1>2, <2>1, <2>2, <2>3 DEF IsList
<1>10. ToSet(d) = ToSet(c) \ {c[k + 1]}
  <2>1. ToSet(d) = {d[i] : i \in 1 .. (n - 1)} /\ ToSet(c) = {c[i] : i \in 1 .. n}
    BY <1>9, <1>2, ListElements
  <2>2. ASSUME NEW i \in 1 .. (n - 1)
        PROVE  d[i] \in ToSet(c) /\ d[i] # c[k + 1]
    <3>1. CASE i <= k
      <4>1. i \in 1 .. n /\ i # k + 1
        BY <3>1, <1>8, <1>1
      <4> QED BY <3>1, <4>1, <1>3, <1>5, <1>1, <2>1
    <3>2. CASE ~(i <= k)
      <4>1. i + 1 \in 1 .. n /\ i + 1 # k + 1
        BY <3>2, <1>8, <1>1
      <4> QED BY <3>2, <4>1, <1>3, <1>5, <1>1, <2>1
    <3> QED BY <3>1, <3>2
  <2>3. ASSUME NEW i \in 1 .. n, i # k + 1
        PROVE  c[i] \in ToSet(d)
    <3>1. CASE i <= k
      <4>1. i \in 1 .. (n - 1) /\ d[i] = c[i]
        BY <3>1, <1>1, <1>3
      <4> QED BY <4>1, <2>1
    <3>2. CASE ~(i <= k)
      <4>1. i - 1 \in 1 .. (n - 1) /\ ~(i - 1 <= k) /\ i - 1 + 1 = i
        BY <3>2, <1>1, <2>3
      <4>2. d[i - 1] = c[i]
        BY <4>1, <1>3
      <4> QED BY <4>1, <4>2, <2>1
    <3> QED BY <3>1, <3>2
  <2> QED BY <2>1, <2>2, <2>3
<1> QED BY <1>9, <1>10 DEF d, ny

-----------------------------------------------------------------------------
(***************************************************************************)
(* A power of two is at least twice every smaller one.                     *)
(***************************************************************************)
LEMMA Pow2Grows ==
    \A i, j \in Nat : i < j => 2 * Pow2[i] <= Pow2[j]
<1> TAKE i \in Nat
<1> DEFINE S == {d \in Nat : 2 * Pow2[i] <= Pow2[i + 1 + d]}
<1>1. 0 \in S
  BY Pow2Steps
<1>2. ASSUME NEW d \in S PROVE d + 1 \in S
  <2>1. d \in Nat /\ i + 1 + d \in Nat /\ i + 1 + (d + 1) = (i + 1 + d) + 1
    OBVIOUS
  <2>2. Pow2[(i + 1 + d) + 1] = 2 * Pow2[i + 1 + d] /\ Pow2[i + 1 + d] \in Nat /\ Pow2[i] \in Nat
    BY <2>1, Pow2Steps
  <2>3. 2 * Pow2[i] <= Pow2[i + 1 + d]
    OBVIOUS
  <2> QED BY <2>1, <2>2, <2>3
<1>3. S = Nat
  <2> HIDE DEF S
  <2> QED BY <1>1, <1>2, SetInduction DEF S
<1> TAKE j \in Nat
<1> HAVE i < j
<1>4. j - i - 1 \in Nat /\ i + 1 + (j - i - 1) = j
  OBVIOUS
<1>5. j - i - 1 \in S
  BY <1>3, <1>4
<1> QED BY <1>4, <1>5

(***************************************************************************)
(* A number without a remainder is a multiple.                             *)
(***************************************************************************)
LEMMA MultipleOf ==
    ASSUME NEW a \in Nat, NEW d \in Nat \ {0}, a % d = 0
    PROVE  \E k \in Nat : a = k * d
<1>1. PICK q \in Nat, r \in Nat : r < d /\ a = q * d + r /\ a \div d = q
  BY Quotient
<1>2. a % d = a - d * (a \div d)
  OBVIOUS
<1> QED BY <1>1, <1>2

(***************************************************************************)
(* The buffer of single pages begins at a multiple of the largest size,    *)
(* behind the blocks that pmm_page_init always makes.                      *)
(***************************************************************************)
LEMMA FirstSingle ==
    /\ singel_page_first_no \in Nat
    /\ Pow2[MaxOrder + 1] <= singel_page_first_no /\ singel_page_first_no <= NPages
    /\ singel_page_first_no % Pow2[MaxOrder] = 0
<1> DEFINE z == Pow2[MaxOrder]
           y == Pow2[MaxOrder + 1]
           P(b) == /\ b % z = 0
                   /\ b >= NPages - z
                   /\ \A a \in y .. (b - 1) : a % z = 0 => a < NPages - z
           S == {b \in Nat : b >= y /\ b % z = 0 /\ b >= NPages - z}
<1>1. z \in Nat \ {0} /\ y \in Nat /\ y = 2 * z /\ NPages \in Nat /\ NPages >= y
  BY Pow2Steps, PmmAssumption
<1>2. singel_page_first_no = CHOOSE b \in y .. NPages : P(b)
  BY DEF singel_page_first_no
<1> HIDE DEF z, y
<1>3. \A k \in Nat : k * z \in Nat /\ (k * z) % z = 0
  BY <1>1
<1>4. S # {}
  <2>1. (NPages + 2) * z \in Nat /\ ((NPages + 2) * z) % z = 0
    BY <1>3, <1>1
  <2>2. (NPages + 2) * z = NPages * z + 2 * z /\ NPages * z >= NPages
    BY <1>1
  <2>3. (NPages + 2) * z \in S
    BY <2>1, <2>2, <1>1
  <2> QED BY <2>3
<1>5. PICK b \in S : \A a \in S : b <= a
  <2> HIDE DEF S
  <2> QED BY <1>4, LeastNumber DEF S
<1>6. b <= NPages
  <2>1. CASE b = y
    BY <2>1, <1>1
  <2>2. CASE b # y
    <3>1. PICK k \in Nat : b = k * z
      BY <1>1, <1>5, MultipleOf
    <3>2. k > 2
      BY <3>1, <2>2, <1>1, <1>5
    <3>3. k - 1 \in Nat /\ b - z = (k - 1) * z /\ k - 1 >= 2
      BY <3>1, <3>2, <1>1
    <3>4. (k - 1) * z \in Nat /\ ((k - 1) * z) % z = 0 /\ (k - 1) * z >= 2 * z
      BY <3>3, <1>1, <1>3
    <3>5. b - z \notin S
      BY <1>5, <1>1
    <3> QED BY <3>3, <3>4, <3>5, <1>1, <1>5
  <2> QED BY <2>1, <2>2
<1>7. b \in y .. NPages /\ P(b)
  <2>1. ASSUME NEW a \in y .. (b - 1), a % z = 0 PROVE a < NPages - z
    <3>1. a \in Nat /\ a >= y /\ a < b
      BY <1>1, <1>5
    <3>2. a \notin S
      BY <3>1, <1>5
    <3> QED BY <3>1, <3>2, <2>1, <1>1
  <2> QED BY <2>1, <1>5, <1>6, <1>1
<1>8. singel_page_first_no \in y .. NPages /\ P(singel_page_first_no)
  <2> HIDE DEF P
  <2> QED BY <1>2, <1>7
<1> QED BY <1>8, <1>1 DEF z, y

(***************************************************************************)
(* A tile is made of pages, its first one among them.                      *)
(***************************************************************************)
LEMMA CellsArePages ==
    ASSUME NEW p \in Page, NEW q \in Slot, Legal(p, q)
    PROVE  p \in Cells(<<p, q>>) /\ Cells(<<p, q>>) \subseteq Page
<1> DEFINE f == singel_page_first_no
<1>1. /\ f \in Nat /\ f <= NPages /\ Pow2[MaxOrder + 1] <= f /\ NPages \in Nat /\ p \in Nat
      /\ MaxOrder \in Nat
  BY FirstSingle, PmmAssumption DEF Page
<1>2. /\ Pow2[MaxOrder] \in Nat \ {0} /\ Pow2[MaxOrder + 1] = 2 * Pow2[MaxOrder]
      /\ q \in Nat /\ Pow2[q] \in Nat \ {0}
  BY <1>1, Pow2Steps DEF Slot
<1>3. CASE q = MaxOrder + 1
  BY <1>3 DEF Cells
<1>4. CASE q # MaxOrder + 1
  <2>1. Cells(<<p, q>>) = p .. (p + Pow2[q] - 1)
    BY <1>4 DEF Cells, Block, c_to_uint32
  <2>2. p + Pow2[q] <= f
    <3>1. CASE q = MaxOrder
      BY <3>1, <1>1, <1>4 DEF Legal
    <3>2. CASE q < MaxOrder
      <4>1. p <= Pow2[q] /\ 2 * Pow2[q] <= Pow2[MaxOrder]
        BY <3>2, <1>1, <1>2, <1>4, Pow2Grows DEF Legal
      <4> HIDE DEF f
      <4> QED BY <4>1, <1>1, <1>2
    <3> QED BY <3>1, <3>2, <1>4 DEF Legal
  <2> HIDE DEF f
  <2> QED BY <2>1, <2>2, <1>1, <1>2, SMTT(30) DEF Page
<1> QED BY <1>3, <1>4

-----------------------------------------------------------------------------
(***************************************************************************)
(* No page begins two tiles.                                               *)
(***************************************************************************)
LEMMA OwnTile ==
    ASSUME NEW m, NEW B, Good(m, B), NEW p \in Page, NEW q \in Slot, p \in In(m, q)
    PROVE  /\ \A r \in Slot : p \in In(m, r) => r = q
           /\ \A r \in Slot : <<p, r>> \notin B
<1> DEFINE T == Tiles(m) \cup B
<1>1. <<p, q>> \in Tiles(m)
  BY DEF Tiles
<1>2. ASSUME NEW r \in Slot, <<p, r>> \in T PROVE r = q
  <2>1. Legal(p, r) /\ Legal(p, q)
    BY <1>1, <1>2 DEF Good, Tiling
  <2>2. p \in Cells(<<p, r>>) \cap Cells(<<p, q>>)
    BY <2>1, CellsArePages
  <2>3. <<p, r>> = <<p, q>>
    BY <1>1, <1>2, <2>2 DEF Good, Tiling
  <2> QED BY <2>3
<1>3. ASSUME NEW r \in Slot, p \in In(m, r) PROVE r = q
  <2>1. <<p, r>> \in Tiles(m)
    BY <1>3 DEF Tiles
  <2> QED BY <1>2, <2>1
<1>4. ASSUME NEW r \in Slot, <<p, r>> \in B PROVE FALSE
  <2>1. r = q
    BY <1>2, <1>4
  <2> QED BY <2>1, <1>1, <1>4 DEF Good
<1> QED BY <1>3, <1>4

(***************************************************************************)
(* What a change to one list leaves of the lists.                          *)
(***************************************************************************)
LEMMA ListChange ==
    ASSUME NEW m, ListsOK(m), NEW n \in PmRecord, ~n.stuck, NEW q \in Slot,
           \A r \in Slot : r # q => HeadOf(n, r) = HeadOf(m, r),
           \A r \in Slot : r # q => \A x \in In(m, r) : n.next[x] = m.next[x],
           NEW d, IsList(n.next, HeadOf(n, q), d)
    PROVE  /\ ListsOK(n)
           /\ In(n, q) = ToSet(d)
           /\ \A r \in Slot : r # q => In(n, r) = In(m, r)
<1>1. ListOf(n, q) = d
  BY ChainIs DEF ListOf
<1>2. ASSUME NEW r \in Slot, r # q
      PROVE  ListOf(n, r) = ListOf(m, r) /\ IsList(n.next, HeadOf(n, r), ListOf(n, r))
  <2>1. IsList(m.next, HeadOf(m, r), ListOf(m, r))
    BY DEF ListsOK
  <2>2. IsList(n.next, HeadOf(m, r), ListOf(m, r))
    BY <1>2, <2>1, ListKept DEF In
  <2>3. IsList(n.next, HeadOf(n, r), ListOf(m, r))
    BY <1>2, <2>2
  <2>4. ListOf(n, r) = ListOf(m, r)
    BY <2>3, ChainIs DEF ListOf
  <2> QED BY <2>3, <2>4
<1>3. \A r \in Slot : IsList(n.next, HeadOf(n, r), ListOf(n, r))
  BY <1>1, <1>2
<1> QED BY <1>1, <1>2, <1>3 DEF ListsOK, In

(***************************************************************************)
(* A page that leaves its list becomes a tile outside the lists.           *)
(***************************************************************************)
LEMMA TakeOut ==
    ASSUME NEW m, NEW B, Good(m, B), NEW n \in PmRecord, ~n.stuck, NEW q \in Slot,
           NEW p \in Page, p \in In(m, q),
           \A r \in Slot : r # q => HeadOf(n, r) = HeadOf(m, r),
           \A x \in Page : x \notin In(m, q) => n.next[x] = m.next[x],
           NEW d, IsList(n.next, HeadOf(n, q), d), ToSet(d) = In(m, q) \ {p},
           q = MaxOrder + 1 => n.next[p] = NULL
    PROVE  Good(n, B \cup {<<p, q>>}) /\ Tiles(n) = Tiles(m) \ {<<p, q>>}
<1>0. \A r \in Slot : In(m, r) \subseteq Page
  BY ListElements DEF Good, ListsOK, In
<1>1. ASSUME NEW r \in Slot, r # q, NEW x \in In(m, r) PROVE n.next[x] = m.next[x]
  <2>1. x \in Page
    BY <1>0, <1>1
  <2>2. x \notin In(m, q)
    BY <1>1, <2>1, OwnTile
  <2> QED BY <2>1, <2>2
<1>2. ListsOK(m)
  BY DEF Good
<1>3. /\ ListsOK(n)
      /\ In(n, q) = In(m, q) \ {p}
      /\ \A r \in Slot : r # q => In(n, r) = In(m, r)
  BY <1>1, <1>2, ListChange
<1>4. Tiles(n) = Tiles(m) \ {<<p, q>>}
  <2>1. ASSUME NEW x \in Page, NEW r \in Slot
        PROVE  x \in In(n, r) <=> x \in In(m, r) /\ <<x, r>> # <<p, q>>
    BY <1>3
  <2> QED BY <2>1 DEF Tiles
<1>5. <<p, q>> \in Tiles(m)
  BY DEF Tiles
<1>6. Tiles(n) \cup (B \cup {<<p, q>>}) = Tiles(m) \cup B
  BY <1>4, <1>5
<1>7. Tiles(n) \cap (B \cup {<<p, q>>}) = {}
  BY <1>4 DEF Good
<1>8. ASSUME NEW x \in Page, <<x, MaxOrder + 1>> \in B \cup {<<p, q>>}
      PROVE  n.next[x] = NULL
  <2>1. CASE <<x, MaxOrder + 1>> = <<p, q>>
    BY <2>1
  <2>2. CASE <<x, MaxOrder + 1>> \in B
    <3>1. MaxOrder + 1 \in Slot
      BY PmmAssumption DEF Slot
    <3>2. x \notin In(m, q)
      BY <3>1, <2>2, OwnTile
    <3> QED BY <3>2, <2>2 DEF Good
  <2> QED BY <1>8, <2>1, <2>2
<1>9. B \cup {<<p, q>>} \subseteq Page \X Slot
  BY DEF Good
<1>10. Tiling(Tiles(n) \cup (B \cup {<<p, q>>}))
  BY <1>6 DEF Good
<1> QED BY <1>3, <1>4, <1>7, <1>8, <1>9, <1>10 DEF Good

(***************************************************************************)
(* A tile outside the lists becomes part of one.                           *)
(***************************************************************************)
LEMMA PutIn ==
    ASSUME NEW m, NEW B, Good(m, B), NEW n \in PmRecord, ~n.stuck, NEW q \in Slot,
           NEW p \in Page, <<p, q>> \in B,
           \A r \in Slot : r # q => HeadOf(n, r) = HeadOf(m, r),
           \A x \in Page : x \notin In(m, q) /\ x # p => n.next[x] = m.next[x],
           NEW d, IsList(n.next, HeadOf(n, q), d), ToSet(d) = In(m, q) \cup {p}
    PROVE  Good(n, B \ {<<p, q>>}) /\ Tiles(n) = Tiles(m) \cup {<<p, q>>}
<1>0. \A r \in Slot : In(m, r) \subseteq Page
  BY ListElements DEF Good, ListsOK, In
<1>1. ASSUME NEW r \in Slot, r # q, NEW x \in In(m, r) PROVE n.next[x] = m.next[x]
  <2>1. x \in Page
    BY <1>0, <1>1
  <2>2. x \notin In(m, q) /\ x # p
    BY <1>1, <2>1, OwnTile
  <2> QED BY <2>1, <2>2
<1>2. ListsOK(m)
  BY DEF Good
<1>3. /\ ListsOK(n)
      /\ In(n, q) = In(m, q) \cup {p}
      /\ \A r \in Slot : r # q => In(n, r) = In(m, r)
  BY <1>1, <1>2, ListChange
<1>4. Tiles(n) = Tiles(m) \cup {<<p, q>>}
  <2>1. ASSUME NEW x \in Page, NEW r \in Slot
        PROVE  x \in In(n, r) <=> x \in In(m, r) \/ <<x, r>> = <<p, q>>
    BY <1>3
  <2> QED BY <2>1 DEF Tiles
<1>6. Tiles(n) \cup (B \ {<<p, q>>}) = Tiles(m) \cup B
  BY <1>4
<1>7. Tiles(n) \cap (B \ {<<p, q>>}) = {}
  BY <1>4 DEF Good
<1>8. ASSUME NEW x \in Page, <<x, MaxOrder + 1>> \in B \ {<<p, q>>}
      PROVE  n.next[x] = NULL
  <2>1. MaxOrder + 1 \in Slot
    BY PmmAssumption DEF Slot
  <2>2. x \notin In(m, q)
    BY <1>8, <2>1, OwnTile
  <2>3. x # p
    <3>1. SUFFICES ASSUME x = p PROVE FALSE
      OBVIOUS
    <3>2. q # MaxOrder + 1
      BY <3>1, <1>8
    <3>3. Legal(p, q) /\ Legal(p, MaxOrder + 1)
      BY <3>1, <1>8 DEF Good, Tiling
    <3>4. p \in Cells(<<p, q>>) \cap Cells(<<p, MaxOrder + 1>>)
      BY <3>3, <2>1, CellsArePages
    <3>5. <<p, q>> = <<p, MaxOrder + 1>>
      BY <3>1, <3>4, <1>8 DEF Good, Tiling
    <3> QED BY <3>5, <3>2
  <2> QED BY <1>8, <2>2, <2>3 DEF Good
<1>9. B \ {<<p, q>>} \subseteq Page \X Slot
  BY DEF Good
<1>10. Tiling(Tiles(n) \cup (B \ {<<p, q>>}))
  BY <1>6 DEF Good
<1> QED BY <1>3, <1>4, <1>7, <1>8, <1>9, <1>10 DEF Good

-----------------------------------------------------------------------------
(***************************************************************************)
(* PopLast takes the last page off a list; its next field is NULL.         *)
(***************************************************************************)
LEMMA PopLastIs ==
    ASSUME NEW nx \in [Page -> Page \cup {NULL}], NEW h, NEW c, IsList(nx, h, c), h # NULL
    PROVE  LET r == PopLast(nx, h)
           IN  /\ r.page \in ToSet(c)
               /\ r.head \in Page \cup {NULL}
               /\ r.next \in [Page -> Page \cup {NULL}]
               /\ r.next[r.page] = NULL
               /\ \A x \in Page : x \notin ToSet(c) => r.next[x] = nx[x]
               /\ \E d : IsList(r.next, r.head, d) /\ ToSet(d) = ToSet(c) \ {r.page}
<1> DEFINE r == PopLast(nx, h)
<1>1. /\ Len(c) \in Nat /\ Len(c) # 0 /\ c \in [1 .. Len(c) -> Page] /\ h = c[1]
      /\ ToSet(c) = {c[i] : i \in 1 .. Len(c)} /\ h \in ToSet(c) /\ ToSet(c) \subseteq Page
  BY ListElements
<1>2. Chain(nx, h) = c
  BY ChainIs
<1>3. \A i \in 1 .. Len(c) : nx[c[i]] = IF i = Len(c) THEN NULL ELSE c[i + 1]
  BY DEF IsList
<1>4. CASE Len(c) = 1
  <2>1. r = [head |-> NULL, next |-> nx, page |-> h]
    BY <1>2, <1>4 DEF PopLast
  <2>2. r.page = h /\ r.next = nx /\ r.head = NULL
    BY <2>1
  <2>3. ToSet(c) = {h}
    <3>1. \A i \in 1 .. Len(c) : i = 1
      BY <1>4
    <3> QED BY <3>1, <1>1
  <2>4. nx[h] = NULL
    BY <1>1, <1>3, <1>4
  <2>5. IsList(nx, NULL, <<>>) /\ ToSet(<<>>) = {}
    BY ListOfNone
  <2>6. \E d : IsList(r.next, r.head, d) /\ ToSet(d) = ToSet(c) \ {r.page}
    <3> HIDE DEF r
    <3> QED BY <2>2, <2>3, <2>5
  <2> HIDE DEF r
  <2> QED BY <1>1, <2>2, <2>4, <2>6 DEF r
<1>5. CASE Len(c) # 1
  <2> DEFINE k == Len(c) - 1
             ny == [nx EXCEPT ![c[k]] = nx[c[k + 1]]]
             d == [i \in 1 .. (Len(c) - 1) |-> IF i <= k THEN c[i] ELSE c[i + 1]]
  <2>1. k \in 1 .. (Len(c) - 1) /\ k + 1 = Len(c) /\ k + 1 \in 1 .. Len(c) /\ k \in 1 .. Len(c)
    BY <1>1, <1>5
  <2>2. nx[c[k + 1]] = NULL
    BY <2>1, <1>3
  <2>3. r = [head |-> h, next |-> [nx EXCEPT ![c[Len(c) - 1]] = NULL], page |-> c[Len(c)]]
    BY <1>2, <1>5 DEF PopLast, Last
  <2>4. r.head = h /\ r.next = ny /\ r.page = c[k + 1]
    BY <2>1, <2>2, <2>3
  <2>5. IsList(ny, h, d) /\ ToSet(d) = ToSet(c) \ {c[k + 1]}
    <3> HIDE DEF k
    <3> QED BY <2>1, ListUnlink
  <2>6. c[k] \in Page /\ c[k] \in ToSet(c) /\ c[k + 1] \in ToSet(c)
    BY <2>1, <1>1
  <2>7. ny \in [Page -> Page \cup {NULL}] /\ \A x \in Page : x # c[k] => ny[x] = nx[x]
    BY <2>2, <2>6
  <2>8. ny[c[k + 1]] = NULL
    BY <2>2, <2>6
  <2> HIDE DEF r, ny, d, k
  <2>9. \E e : IsList(r.next, r.head, e) /\ ToSet(e) = ToSet(c) \ {r.page}
    BY <2>4, <2>5
  <2> QED BY <1>1, <2>4, <2>6, <2>7, <2>8, <2>9, SMTT(30) DEF r
<1> QED BY <1>4, <1>5

(***************************************************************************)
(* The slots are the orders and the one of the buffer.                     *)
(***************************************************************************)
LEMMA SlotFacts ==
    /\ MaxOrder \in Nat /\ MaxOrder # 0 /\ MaxOrder + 1 \in Slot
    /\ \A o \in Order : o \in Slot /\ o # MaxOrder + 1 /\ o \in Nat
    /\ \A q \in Slot : q \in Nat /\ (q # MaxOrder + 1 => q \in Order)
BY PmmAssumption DEF Slot, Order

(***************************************************************************)
(* pop_block on a list that is not empty does not get stuck and hands out  *)
(* a block of the list.                                                    *)
(***************************************************************************)
LEMMA PopBlock ==
    ASSUME NEW m, NEW B, Good(m, B), NEW o \in Order, m.head[o] # NULL
    PROVE  LET r == pop_block(m, o)
           IN  /\ ~r.pm.stuck
               /\ r.page \in Page /\ r.page \in In(m, o)
               /\ Good(r.pm, B \cup {<<r.page, o>>})
               /\ Tiles(r.pm) = Tiles(m) \ {<<r.page, o>>}
<1> DEFINE s == PopLast(m.next, m.head[o])
           n == [m EXCEPT !.head[o] = s.head, !.next = s.next]
           c == ListOf(m, o)
<1>1. o \in Slot /\ o # MaxOrder + 1 /\ HeadOf(m, o) = m.head[o]
  BY SlotFacts DEF HeadOf
<1>2. /\ m \in PmRecord /\ ~m.stuck /\ IsList(m.next, m.head[o], c)
      /\ m.next \in [Page -> Page \cup {NULL}]
  BY <1>1 DEF Good, ListsOK, PmRecord
<1>3. pop_block(m, o) = [pm |-> n, page |-> s.page]
  <2>1. Ends(m.next, m.head[o])
    BY <1>2, ChainIs
  <2> QED BY <2>1 DEF pop_block
<1>4. /\ s.page \in ToSet(c)
      /\ s.head \in Page \cup {NULL}
      /\ s.next \in [Page -> Page \cup {NULL}]
      /\ s.next[s.page] = NULL
      /\ \A x \in Page : x \notin ToSet(c) => s.next[x] = m.next[x]
      /\ \E d : IsList(s.next, s.head, d) /\ ToSet(d) = ToSet(c) \ {s.page}
  <2> HIDE DEF c
  <2> QED BY <1>2, PopLastIs
<1> HIDE DEF s
<1>5. /\ n \in PmRecord /\ ~n.stuck /\ n.next = s.next /\ n.single = m.single
      /\ n.head[o] = s.head /\ \A r \in Order : r # o => n.head[r] = m.head[r]
  BY <1>2, <1>4 DEF PmRecord
<1>6. /\ HeadOf(n, o) = s.head
      /\ \A r \in Slot : r # o => HeadOf(n, r) = HeadOf(m, r)
  <2> HIDE DEF n
  <2> QED BY <1>1, <1>5, SlotFacts DEF HeadOf
<1>7. In(m, o) = ToSet(c) /\ ToSet(c) \subseteq Page
  BY <1>2, ListElements DEF In
<1> HIDE DEF n, c
<1>8. PICK d : IsList(n.next, HeadOf(n, o), d) /\ ToSet(d) = In(m, o) \ {s.page}
  BY <1>4, <1>5, <1>6, <1>7
<1>9. s.page \in Page /\ s.page \in In(m, o)
  BY <1>4, <1>7
<1>10. \A x \in Page : x \notin In(m, o) => n.next[x] = m.next[x]
  BY <1>4, <1>5, <1>7
<1>11. Good(n, B \cup {<<s.page, o>>}) /\ Tiles(n) = Tiles(m) \ {<<s.page, o>>}
  <2> DEFINE p == s.page
  <2>1. p \in Page /\ p \in In(m, o) /\ ToSet(d) = In(m, o) \ {p}
    BY <1>8, <1>9
  <2> HIDE DEF p
  <2>2. Good(n, B \cup {<<p, o>>}) /\ Tiles(n) = Tiles(m) \ {<<p, o>>}
    BY <1>1, <1>5, <1>6, <1>8, <1>10, <2>1, TakeOut
  <2> QED BY <2>2 DEF p
<1> QED BY <1>3, <1>5, <1>9, <1>11

(***************************************************************************)
(* So does taking a page from the buffer of single pages.                  *)
(***************************************************************************)
LEMMA PopSingle ==
    ASSUME NEW m, NEW B, Good(m, B), m.single # NULL
    PROVE  LET r == PopLast(m.next, m.single)
               n == [m EXCEPT !.single = r.head, !.next = r.next]
           IN  /\ Ends(m.next, m.single)
               /\ r.page \in Page /\ r.page \in In(m, MaxOrder + 1)
               /\ Good(n, B \cup {<<r.page, MaxOrder + 1>>})
               /\ Tiles(n) = Tiles(m) \ {<<r.page, MaxOrder + 1>>}
<1> DEFINE o == MaxOrder + 1
           s == PopLast(m.next, m.single)
           n == [m EXCEPT !.single = s.head, !.next = s.next]
           c == ListOf(m, o)
<1>1. o \in Slot /\ HeadOf(m, o) = m.single
  BY SlotFacts DEF HeadOf
<1>2. /\ m \in PmRecord /\ ~m.stuck /\ IsList(m.next, m.single, c)
      /\ m.next \in [Page -> Page \cup {NULL}]
  BY <1>1 DEF Good, ListsOK, PmRecord
<1>3. Ends(m.next, m.single)
  BY <1>2, ChainIs
<1>4. /\ s.page \in ToSet(c)
      /\ s.head \in Page \cup {NULL}
      /\ s.next \in [Page -> Page \cup {NULL}]
      /\ s.next[s.page] = NULL
      /\ \A x \in Page : x \notin ToSet(c) => s.next[x] = m.next[x]
      /\ \E d : IsList(s.next, s.head, d) /\ ToSet(d) = ToSet(c) \ {s.page}
  <2> HIDE DEF c
  <2> QED BY <1>2, PopLastIs
<1> HIDE DEF s
<1>5. n \in PmRecord /\ ~n.stuck /\ n.next = s.next /\ n.single = s.head /\ n.head = m.head
  BY <1>2, <1>4 DEF PmRecord
<1>6. /\ HeadOf(n, o) = s.head
      /\ \A r \in Slot : r # o => HeadOf(n, r) = HeadOf(m, r)
  <2> HIDE DEF n
  <2> QED BY <1>1, <1>5, SlotFacts DEF HeadOf
<1>7. In(m, o) = ToSet(c) /\ ToSet(c) \subseteq Page
  BY <1>2, ListElements DEF In
<1> HIDE DEF n, c, o
<1>8. PICK d : IsList(n.next, HeadOf(n, o), d) /\ ToSet(d) = In(m, o) \ {s.page}
  BY <1>4, <1>5, <1>6, <1>7
<1>9. s.page \in Page /\ s.page \in In(m, o)
  BY <1>4, <1>7
<1>10. \A x \in Page : x \notin In(m, o) => n.next[x] = m.next[x]
  BY <1>4, <1>5, <1>7
<1>12. n.next[s.page] = NULL
  BY <1>4, <1>5
<1>11. Good(n, B \cup {<<s.page, o>>}) /\ Tiles(n) = Tiles(m) \ {<<s.page, o>>}
  <2> DEFINE p == s.page
  <2>1. p \in Page /\ p \in In(m, o) /\ ToSet(d) = In(m, o) \ {p} /\ n.next[p] = NULL
    BY <1>8, <1>9, <1>12
  <2> HIDE DEF p
  <2>2. Good(n, B \cup {<<p, o>>}) /\ Tiles(n) = Tiles(m) \ {<<p, o>>}
    BY <1>1, <1>5, <1>6, <1>8, <1>10, <2>1, TakeOut
  <2> QED BY <2>2 DEF p
<1> QED BY <1>3, <1>9, <1>11 DEF s, n, o

(***************************************************************************)
(* LinkLast appends a page that is in no list and whose next field is NULL. *)
(***************************************************************************)
LEMMA LinkLastIs ==
    ASSUME NEW m \in PmRecord, NEW h, NEW c, IsList(m.next, h, c), h # NULL,
           NEW p \in Page, p \notin ToSet(c), m.next[p] = NULL,
           NEW n, n = LinkLast(m, h, p)
    PROVE  /\ n \in PmRecord
           /\ n.head = m.head /\ n.single = m.single /\ n.stuck = m.stuck
           /\ \A x \in Page : x \notin ToSet(c) => n.next[x] = m.next[x]
           /\ \E d : IsList(n.next, h, d) /\ ToSet(d) = ToSet(c) \cup {p}
<1> DEFINE l == Last(c)
<1>1. Ends(m.next, h) /\ Chain(m.next, h) = c
  BY ChainIs
<1>2. n = [m EXCEPT !.next[l] = p]
  BY <1>1 DEF LinkLast
<1>3. m.next \in [Page -> Page \cup {NULL}]
  BY DEF PmRecord
<1>4. l \in ToSet(c) /\ l \in Page
  <2>1. Len(c) \in 1 .. Len(c)
    BY ListElements
  <2> QED BY <2>1, ListElements DEF Last
<1>6. /\ n \in PmRecord /\ n.head = m.head /\ n.single = m.single /\ n.stuck = m.stuck
      /\ n.next = [m.next EXCEPT ![l] = p]
  <2> HIDE DEF l
  <2> QED BY <1>2, <1>4 DEF PmRecord
<1>5. n.next[l] = p /\ \A x \in Page : x # l => n.next[x] = m.next[x]
  <2> HIDE DEF l
  <2> QED BY <1>3, <1>4, <1>6
<1>7. \A x \in Page : x \notin ToSet(c) => n.next[x] = m.next[x]
  <2> HIDE DEF l
  <2> QED BY <1>5, <1>4
<1>8. IsList(n.next, h, Append(c, p)) /\ ToSet(Append(c, p)) = ToSet(c) \cup {p}
  BY <1>3, <1>5, ListAppend
<1> QED BY <1>6, <1>7, <1>8

(***************************************************************************)
(* append_block puts a block into its list.                                *)
(***************************************************************************)
LEMMA AppendBlock ==
    ASSUME NEW m, NEW B, Good(m, B), NEW o \in Order, NEW p \in Page, <<p, o>> \in B,
           NEW x \in append_block(m, p, o)
    PROVE  Good(x, B \ {<<p, o>>}) /\ Tiles(x) = Tiles(m) \cup {<<p, o>>}
<1> DEFINE n == [m EXCEPT !.next[p] = NULL]
           c == ListOf(m, o)
           h == m.head[o]
<1>1. o \in Slot /\ o # MaxOrder + 1 /\ HeadOf(m, o) = h
  BY SlotFacts DEF HeadOf
<1>2. /\ m \in PmRecord /\ ~m.stuck /\ IsList(m.next, h, c)
      /\ m.next \in [Page -> Page \cup {NULL}]
  BY <1>1 DEF Good, ListsOK, PmRecord
<1>3. p \notin In(m, o)
  BY <1>1, OwnTile
<1>4. In(m, o) = ToSet(c) /\ ToSet(c) \subseteq Page
  BY <1>2, ListElements DEF In
<1>5. /\ n \in PmRecord /\ n.head = m.head /\ n.single = m.single /\ n.stuck = m.stuck
      /\ n.next[p] = NULL /\ \A y \in Page : y # p => n.next[y] = m.next[y]
  BY <1>2 DEF PmRecord
<1>6. x = IF n.head[o] = NULL THEN [n EXCEPT !.head[o] = p] ELSE LinkLast(n, n.head[o], p)
  BY DEF append_block
<1> HIDE DEF n, c, h
<1>7. IsList(n.next, h, c)
  <2>1. \A y \in ToSet(c) : n.next[y] = m.next[y]
    BY <1>3, <1>4, <1>5
  <2> QED BY <1>2, <2>1, ListKept
<1>8. n.head[o] = h
  BY <1>5 DEF h
<1>9. /\ x \in PmRecord /\ ~x.stuck
      /\ \A r \in Slot : r # o => HeadOf(x, r) = HeadOf(m, r)
      /\ \A y \in Page : y \notin In(m, o) /\ y # p => x.next[y] = m.next[y]
      /\ \E d : IsList(x.next, HeadOf(x, o), d) /\ ToSet(d) = In(m, o) \cup {p}
  <2>1. CASE h = NULL
    <3>1. x = [n EXCEPT !.head[o] = p]
      BY <2>1, <1>6, <1>8
    <3>2. /\ x \in PmRecord /\ ~x.stuck /\ x.next = n.next /\ x.single = m.single
          /\ x.head[o] = p /\ \A r \in Order : r # o => x.head[r] = m.head[r]
      BY <3>1, <1>2, <1>5 DEF PmRecord
    <3>3. HeadOf(x, o) = p /\ \A r \in Slot : r # o => HeadOf(x, r) = HeadOf(m, r)
      BY <3>2, <1>1, SlotFacts DEF HeadOf
    <3>4. IsList(n.next, p, <<p>>) /\ ToSet(<<p>>) = {p}
      BY <1>5, ListOfOne
    <3>5. ToSet(c) = {}
      BY <2>1, <1>7, ListElements
    <3>6. \E d : IsList(x.next, HeadOf(x, o), d) /\ ToSet(d) = In(m, o) \cup {p}
      BY <3>2, <3>3, <3>4, <3>5, <1>4
    <3> QED BY <3>2, <3>3, <3>6, <1>5
  <2>2. CASE h # NULL
    <3>1. x = LinkLast(n, h, p)
      BY <2>2, <1>6, <1>8
    <3>2. /\ x \in PmRecord
          /\ x.head = n.head /\ x.single = n.single /\ x.stuck = n.stuck
          /\ \A y \in Page : y \notin ToSet(c) => x.next[y] = n.next[y]
          /\ \E d : IsList(x.next, h, d) /\ ToSet(d) = ToSet(c) \cup {p}
      BY <2>2, <3>1, <1>3, <1>4, <1>5, <1>7, LinkLastIs, SMTT(30)
    <3>3. HeadOf(x, o) = h /\ \A r \in Slot : r # o => HeadOf(x, r) = HeadOf(m, r)
      BY <3>2, <1>1, <1>5, <1>8, SlotFacts DEF HeadOf
    <3>4. \E d : IsList(x.next, HeadOf(x, o), d) /\ ToSet(d) = In(m, o) \cup {p}
      BY <3>2, <3>3, <1>4
    <3> QED BY <3>2, <3>3, <3>4, <1>2, <1>4, <1>5
  <2> QED BY <2>1, <2>2
<1>10. PICK d : IsList(x.next, HeadOf(x, o), d) /\ ToSet(d) = In(m, o) \cup {p}
  BY <1>9
<1> QED BY <1>1, <1>9, <1>10, PutIn

(***************************************************************************)
(* SingleFree puts the page of a caller behind the last one of the buffer. *)
(***************************************************************************)
LEMMA AppendSingle ==
    ASSUME NEW m, NEW B, Good(m, B), NEW p \in Page, <<p, MaxOrder + 1>> \in B,
           NEW x,
           m.single = NULL => x = [m EXCEPT !.single = p],
           m.single # NULL => x = LinkLast(m, m.single, p)
    PROVE  /\ Good(x, B \ {<<p, MaxOrder + 1>>})
           /\ Tiles(x) = Tiles(m) \cup {<<p, MaxOrder + 1>>}
<1> DEFINE o == MaxOrder + 1
           c == ListOf(m, o)
           h == m.single
<1>1. o \in Slot /\ HeadOf(m, o) = h
  BY SlotFacts DEF HeadOf
<1>2. /\ m \in PmRecord /\ ~m.stuck /\ IsList(m.next, h, c)
      /\ m.next \in [Page -> Page \cup {NULL}] /\ m.next[p] = NULL
  BY <1>1 DEF Good, ListsOK, PmRecord
<1>3. p \notin In(m, o)
  BY <1>1, OwnTile
<1>4. In(m, o) = ToSet(c) /\ ToSet(c) \subseteq Page
  BY <1>2, ListElements DEF In
<1> HIDE DEF c, h, o
<1>9. /\ x \in PmRecord /\ ~x.stuck
      /\ \A r \in Slot : r # o => HeadOf(x, r) = HeadOf(m, r)
      /\ \A y \in Page : y \notin In(m, o) /\ y # p => x.next[y] = m.next[y]
      /\ \E d : IsList(x.next, HeadOf(x, o), d) /\ ToSet(d) = In(m, o) \cup {p}
  <2>1. CASE h = NULL
    <3>1. x = [m EXCEPT !.single = p]
      BY <2>1 DEF h
    <3>2. /\ x \in PmRecord /\ ~x.stuck /\ x.next = m.next /\ x.single = p /\ x.head = m.head
      BY <3>1, <1>2 DEF PmRecord
    <3>3. HeadOf(x, o) = p /\ \A r \in Slot : r # o => HeadOf(x, r) = HeadOf(m, r)
      BY <3>2 DEF HeadOf, o
    <3>4. IsList(m.next, p, <<p>>) /\ ToSet(<<p>>) = {p}
      BY <1>2, ListOfOne
    <3>5. ToSet(c) = {}
      BY <2>1, <1>2, ListElements
    <3>6. \E d : IsList(x.next, HeadOf(x, o), d) /\ ToSet(d) = In(m, o) \cup {p}
      BY <3>2, <3>3, <3>4, <3>5, <1>4
    <3> QED BY <3>2, <3>3, <3>6
  <2>2. CASE h # NULL
    <3>1. x = LinkLast(m, h, p)
      BY <2>2 DEF h
    <3>2. /\ x \in PmRecord
          /\ x.head = m.head /\ x.single = m.single /\ x.stuck = m.stuck
          /\ \A y \in Page : y \notin ToSet(c) => x.next[y] = m.next[y]
          /\ \E d : IsList(x.next, h, d) /\ ToSet(d) = ToSet(c) \cup {p}
      <4>1. p \notin ToSet(c) /\ m.next[p] = NULL /\ IsList(m.next, h, c) /\ m \in PmRecord
        BY <1>2, <1>3, <1>4
      <4> QED BY <2>2, <3>1, <4>1, LinkLastIs, SMTT(60)
    <3>3. HeadOf(x, o) = h /\ \A r \in Slot : r # o => HeadOf(x, r) = HeadOf(m, r)
      BY <3>2 DEF HeadOf, o, h
    <3>4. \E d : IsList(x.next, HeadOf(x, o), d) /\ ToSet(d) = In(m, o) \cup {p}
      BY <3>2, <3>3, <1>4
    <3> QED BY <3>2, <3>3, <3>4, <1>2, <1>4
  <2> QED BY <2>1, <2>2
<1>10. PICK d : IsList(x.next, HeadOf(x, o), d) /\ ToSet(d) = In(m, o) \cup {p}
  BY <1>9
<1>11. <<p, o>> \in B
  BY DEF o
<1>12. Good(x, B \ {<<p, o>>}) /\ Tiles(x) = Tiles(m) \cup {<<p, o>>}
  BY <1>1, <1>9, <1>10, <1>11, PutIn
<1> QED BY <1>12 DEF o

(***************************************************************************)
(* A block that find_and_pop_block finds is in the list, and Unlink takes  *)
(* it out.                                                                 *)
(***************************************************************************)
LEMMA UnlinkFound ==
    ASSUME NEW m, NEW B, Good(m, B), NEW o \in Order, NEW t \in Nat, Found(m, t, o)
    PROVE  /\ t \in Page /\ t \in In(m, o)
           /\ Good(Unlink(m, t, o), B \cup {<<t, o>>})
           /\ Tiles(Unlink(m, t, o)) = Tiles(m) \ {<<t, o>>}
<1> DEFINE x == Unlink(m, t, o)
           c == ListOf(m, o)
           h == m.head[o]
<1>1. o \in Slot /\ o # MaxOrder + 1 /\ HeadOf(m, o) = h
  BY SlotFacts DEF HeadOf
<1>2. /\ m \in PmRecord /\ ~m.stuck /\ IsList(m.next, h, c) /\ h # NULL
      /\ m.next \in [Page -> Page \cup {NULL}] /\ Chain(m.next, h) = c
  BY <1>1 DEF Good, ListsOK, PmRecord, Found, ListOf
<1>3. In(m, o) = ToSet(c) /\ ToSet(c) \subseteq Page
  BY <1>2, ListElements DEF In
<1>4. \A i \in 1 .. Len(c) : m.next[c[i]] = IF i = Len(c) THEN NULL ELSE c[i + 1]
  BY <1>2 DEF IsList
<1>5. /\ Len(c) \in Nat /\ Len(c) # 0 /\ c \in [1 .. Len(c) -> Page] /\ h = c[1]
      /\ ToSet(c) = {c[i] : i \in 1 .. Len(c)} /\ h \in ToSet(c)
  <2> HIDE DEF c, h
  <2> QED BY <1>2, ListElements
<1>6. t # NULL
  BY DEF NULL
<1>7. /\ t \in In(m, o)
      /\ x \in PmRecord /\ ~x.stuck
      /\ \A r \in Slot : r # o => HeadOf(x, r) = HeadOf(m, r)
      /\ \A y \in Page : y \notin In(m, o) => x.next[y] = m.next[y]
      /\ \E d : IsList(x.next, HeadOf(x, o), d) /\ ToSet(d) = In(m, o) \ {t}
  <2>1. CASE h = t /\ m.next[t] = NULL
    <3>1. x = [m EXCEPT !.head[o] = NULL]
      BY <2>1 DEF Unlink
    <3> HIDE DEF x
    <3>2. /\ x \in PmRecord /\ ~x.stuck /\ x.next = m.next /\ x.single = m.single
          /\ x.head[o] = NULL /\ \A r \in Order : r # o => x.head[r] = m.head[r]
      BY <3>1, <1>2 DEF PmRecord
    <3>3. HeadOf(x, o) = NULL /\ \A r \in Slot : r # o => HeadOf(x, r) = HeadOf(m, r)
      BY <3>2, <1>1, SlotFacts, SMTT(30) DEF HeadOf
    <3>4. Len(c) = 1
      <4>1. 1 \in 1 .. Len(c) /\ (Len(c) # 1 => 2 \in 1 .. Len(c) /\ 1 + 1 = 2)
        BY <1>5
      <4>2. NULL \notin Page
        BY PmmAssumption DEF NULL, Page
      <4> HIDE DEF c, h
      <4> QED BY <2>1, <4>1, <4>2, <1>4, <1>5
    <3>5. ToSet(c) = {t}
      <4>1. \A i \in 1 .. Len(c) : i = 1
        BY <3>4
      <4> HIDE DEF c, h
      <4> QED BY <4>1, <2>1, <1>5
    <3>6. IsList(x.next, NULL, <<>>) /\ ToSet(<<>>) = {}
      BY ListOfNone
    <3>7. \E d : IsList(x.next, HeadOf(x, o), d) /\ ToSet(d) = In(m, o) \ {t}
      BY <3>3, <3>5, <3>6, <1>3
    <3> QED BY <3>2, <3>3, <3>5, <3>7, <1>3
  <2>2. CASE ~(h = t /\ m.next[t] = NULL)
    <3> DEFINE u == CHOOSE u \in ToSet(c) : m.next[u] = t
    <3>1. u \in ToSet(c) /\ m.next[u] = t
      <4>1. \E u_1 \in ToSet(c) : m.next[u_1] = t
        BY <2>2, <1>2 DEF Found
      <4> HIDE DEF c
      <4> QED BY <4>1
    <3>2. x = [m EXCEPT !.next[u] = m.next[t]]
      BY <2>2, <1>2 DEF Unlink
    <3> HIDE DEF x, u, c, h
    <3>3. PICK k \in 1 .. Len(c) : u = c[k]
      BY <3>1, <1>5
    <3>4. k # Len(c) /\ t = c[k + 1] /\ k \in 1 .. (Len(c) - 1) /\ k + 1 \in 1 .. Len(c)
      BY <3>1, <3>3, <1>4, <1>5, <1>6
    <3>5. t \in ToSet(c) /\ t \in Page /\ u \in Page
      BY <3>1, <3>4, <1>5, <1>3
    <3>6. /\ x \in PmRecord /\ ~x.stuck /\ x.next = [m.next EXCEPT ![u] = m.next[t]]
          /\ x.single = m.single /\ x.head = m.head
      BY <3>2, <3>5, <1>2 DEF PmRecord
    <3>7. HeadOf(x, o) = h /\ \A r \in Slot : r # o => HeadOf(x, r) = HeadOf(m, r)
      BY <3>6, <1>1 DEF HeadOf, h
    <3>8. \E d : IsList(x.next, h, d) /\ ToSet(d) = ToSet(c) \ {t}
      <4> DEFINE nx == m.next
                 ny == [nx EXCEPT ![c[k]] = nx[c[k + 1]]]
                 d == [i \in 1 .. (Len(c) - 1) |-> IF i <= k THEN c[i] ELSE c[i + 1]]
      <4>1. IsList(nx, h, c) /\ nx \in [Page -> Page \cup {NULL}]
        BY <1>2
      <4>2. x.next = ny
        BY <3>3, <3>4, <3>6
      <4>3. IsList(ny, h, d) /\ ToSet(d) = ToSet(c) \ {c[k + 1]}
        <5> HIDE DEF nx
        <5> QED BY <4>1, <3>4, ListUnlink
      <4> HIDE DEF ny, d
      <4> QED BY <4>2, <4>3, <3>4
    <3>9. \A y \in Page : y \notin In(m, o) => x.next[y] = m.next[y]
      BY <3>1, <3>6, <1>2, <1>3
    <3> QED BY <3>5, <3>6, <3>7, <3>8, <3>9, <1>3
  <2> QED BY <2>1, <2>2
<1> HIDE DEF x
<1>8. t \in Page
  BY <1>3, <1>7
<1>9. PICK d : IsList(x.next, HeadOf(x, o), d) /\ ToSet(d) = In(m, o) \ {t}
  BY <1>7
<1>10. Good(x, B \cup {<<t, o>>}) /\ Tiles(x) = Tiles(m) \ {<<t, o>>}
  BY <1>1, <1>7, <1>8, <1>9, TakeOut, SMTT(30)
<1> QED BY <1>7, <1>8, <1>10 DEF x

-----------------------------------------------------------------------------
(***************************************************************************)
(* The buddy of a block: of the two blocks that make up the first block of *)
(* the next order, each is the buddy of the other.                         *)
(***************************************************************************)
LEMMA PartnerIs ==
    ASSUME NEW s \in Nat
    PROVE  /\ get_partner_page_no(0, s) = Pow2[s]
           /\ get_partner_page_no(Pow2[s], s) = 0
           /\ \A p \in Nat : get_partner_page_no(p, s) \in Nat
<1> DEFINE v == Pow2[s]
<1>1. v \in Nat \ {0}
  BY Pow2Steps
<1>2. \A p : get_partner_page_no(p, s) = IF (p - v) % (2 * v) = 0 THEN p - v ELSE p + v
  BY DEF get_partner_page_no, c_to_uint32
<1> HIDE DEF v
<1>3. ASSUME NEW p \in Nat, p < v PROVE (p - v) % (2 * v) # 0
  <2>1. p - v = (-1) * (2 * v) + (p + v) /\ p + v \in 0 .. (2 * v - 1) /\ p + v # 0
    BY <1>1, <1>3
  <2>2. 2 * v \in Nat \ {0} /\ p - v \in Int
    BY <1>1
  <2>3. ASSUME NEW d \in Nat \ {0}, NEW r \in 0 .. (d - 1), NEW a \in Int, a = (-1) * d + r
        PROVE  a % d = r
    BY <2>3
  <2>4. (p - v) % (2 * v) = p + v
    BY <2>1, <2>2, <2>3
  <2> QED BY <2>1, <2>4
<1>4. (v - v) % (2 * v) = 0
  <2>1. 2 * v \in Nat \ {0} /\ v - v = 0
    BY <1>1
  <2>2. ASSUME NEW d \in Nat \ {0} PROVE 0 % d = 0
    OBVIOUS
  <2> QED BY <2>1, <2>2
<1>5. get_partner_page_no(0, s) = v
  <2>1. (0 - v) % (2 * v) # 0
    BY <1>1, <1>3
  <2>2. get_partner_page_no(0, s) = 0 + v
    BY <2>1, <1>2
  <2> QED BY <2>2, <1>1
<1>6. get_partner_page_no(v, s) = 0
  <2>1. get_partner_page_no(v, s) = v - v
    BY <1>2, <1>4
  <2> QED BY <2>1, <1>1
<1>7. ASSUME NEW p \in Nat PROVE get_partner_page_no(p, s) \in Nat
  <2>1. CASE (p - v) % (2 * v) = 0
    <3>1. ~(p < v)
      BY <1>3, <2>1
    <3> QED BY <3>1, <2>1, <1>1, <1>2
  <2>2. CASE (p - v) % (2 * v) # 0
    <3>1. get_partner_page_no(p, s) = p + v
      BY <2>2, <1>2
    <3> QED BY <3>1, <1>1
  <2> QED BY <2>1, <2>2
<1> QED BY <1>5, <1>6, <1>7 DEF v

(***************************************************************************)
(* Two buddies are as good as the block they make up.                      *)
(***************************************************************************)
LEMMA Combine ==
    ASSUME NEW m, NEW B, NEW s \in Nat, s < MaxOrder,
           <<0, s>> \notin B, <<Pow2[s], s>> \notin B,
           Good(m, (B \cup {<<0, s>>}) \cup {<<Pow2[s], s>>})
    PROVE  <<0, s + 1>> \notin B /\ Good(m, B \cup {<<0, s + 1>>})
<1> DEFINE v == Pow2[s]
           C == (B \cup {<<0, s>>}) \cup {<<v, s>>}
           D == B \cup {<<0, s + 1>>}
<1>1. /\ v \in Nat \ {0} /\ Pow2[s + 1] = 2 * v /\ MaxOrder \in Nat
      /\ 2 * v <= Pow2[MaxOrder] /\ Pow2[MaxOrder + 1] = 2 * Pow2[MaxOrder]
      /\ Pow2[MaxOrder] \in Nat
  BY Pow2Steps, Pow2Grows, SlotFacts
<1>2. s \in Slot /\ s + 1 \in Slot /\ s # MaxOrder + 1 /\ s + 1 # MaxOrder + 1
  BY <1>1 DEF Slot
<1>3. /\ singel_page_first_no \in Nat /\ NPages \in Nat
      /\ Pow2[MaxOrder + 1] <= singel_page_first_no /\ singel_page_first_no <= NPages
  BY FirstSingle, PmmAssumption
<1>4. 0 \in Page
  BY <1>1, <1>3 DEF Page
<1>5. Legal(0, s + 1)
  <2>1. CASE s + 1 = MaxOrder
    <3>1. 0 % Pow2[MaxOrder] = 0
      <4>1. ASSUME NEW d \in Nat \ {0} PROVE 0 % d = 0
        OBVIOUS
      <4> QED BY <4>1, <1>1
    <3> QED BY <2>1, <3>1, <1>1, <1>3 DEF Legal
  <2>2. CASE s + 1 < MaxOrder
    BY <2>2 DEF Legal
  <2> QED BY <2>1, <2>2, <1>1
<1>6. /\ Cells(<<0, s>>) = 0 .. (v - 1)
      /\ Cells(<<v, s>>) = v .. (2 * v - 1)
      /\ Cells(<<0, s + 1>>) = 0 .. (2 * v - 1)
  BY <1>1, <1>2 DEF Cells, Block, c_to_uint32
<1>7. Cells(<<0, s + 1>>) = Cells(<<0, s>>) \cup Cells(<<v, s>>)
  BY <1>1, <1>6
<1>8. 0 \in Cells(<<0, s>>) /\ 0 \in Cells(<<0, s + 1>>) /\ s # s + 1
  BY <1>1, <1>6
<1> HIDE DEF v
<1>9. Good(m, C)
  BY DEF v
<1>10. <<0, s>> \in C /\ <<v, s>> \in C /\ B \subseteq C
  OBVIOUS
<1>11. <<0, s + 1>> \notin Tiles(m) \cup C
  <2>1. <<0, s + 1>> # <<0, s>>
    BY <1>8
  <2> HIDE DEF C
  <2> QED BY <2>1, <1>8, <1>9, <1>10 DEF Good, Tiling
<1>12. D \subseteq Page \X Slot
  <2>1. C \subseteq Page \X Slot
    BY <1>9 DEF Good
  <2> QED BY <2>1, <1>2, <1>4
<1>13. Tiles(m) \cap D = {}
  <2>1. Tiles(m) \cap C = {}
    BY <1>9 DEF Good
  <2> QED BY <2>1, <1>11
<1>14. <<0, s>> \notin B /\ <<v, s>> \notin B
  BY DEF v
<1>15. Tiling(Tiles(m) \cup D)
  <2> DEFINE T == Tiles(m) \cup C
             U == Tiles(m) \cup D
  <2>1. Tiling(T)
    BY <1>9 DEF Good
  <2>2. \A t \in U : t = <<0, s + 1>> \/ t \in T
    OBVIOUS
  <2>3. \A t \in T : t \in U \/ t = <<0, s>> \/ t = <<v, s>>
    OBVIOUS
  <2>4. <<0, s>> \in T /\ <<v, s>> \in T /\ <<0, s + 1>> \in U
    OBVIOUS
  <2>5. <<0, s>> \notin U /\ <<v, s>> \notin U
    <3>1. <<0, s>> \notin Tiles(m) /\ <<v, s>> \notin Tiles(m)
      BY <1>9, <1>10 DEF Good
    <3>2. <<0, s>> # <<0, s + 1>> /\ <<v, s>> # <<0, s + 1>>
      BY <1>8
    <3> QED BY <3>1, <3>2, <1>14
  <2> HIDE DEF T, U
  <2>6. \A t \in U : Legal(t[1], t[2])
    <3>1. Legal(<<0, s + 1>>[1], <<0, s + 1>>[2])
      BY <1>5
    <3> QED BY <3>1, <2>1, <2>2 DEF Tiling
  <2>7. \A x \in Page : \E t \in U : x \in Cells(t)
    BY <2>1, <2>3, <2>4, <1>7 DEF Tiling
  <2>8. ASSUME NEW t \in U, t # <<0, s + 1>>
        PROVE  Cells(t) \cap Cells(<<0, s + 1>>) = {}
    <3>1. t \in T /\ t # <<0, s>> /\ t # <<v, s>>
      BY <2>8, <2>2, <2>5
    <3>2. Cells(t) \cap Cells(<<0, s>>) = {} /\ Cells(t) \cap Cells(<<v, s>>) = {}
      BY <3>1, <2>1, <2>4 DEF Tiling
    <3> QED BY <3>2, <1>7
  <2>9. \A t, u \in U : t # u => Cells(t) \cap Cells(u) = {}
    <3> TAKE t, u \in U
    <3> HAVE t # u
    <3>1. CASE t = <<0, s + 1>>
      BY <3>1, <2>8
    <3>2. CASE u = <<0, s + 1>>
      BY <3>2, <2>8
    <3>3. CASE t \in T /\ u \in T
      BY <3>3, <2>1 DEF Tiling
    <3> QED BY <3>1, <3>2, <3>3, <2>2
  <2>10. Tiling(U)
    BY <2>6, <2>7, <2>9 DEF Tiling
  <2> QED BY <2>10 DEF U
<1>16. \A p \in Page : <<p, MaxOrder + 1>> \in D => m.next[p] = NULL
  <2>1. \A p \in Page : <<p, MaxOrder + 1>> # <<0, s + 1>>
    BY <1>2
  <2> QED BY <2>1, <1>9 DEF Good
<1>17. ListsOK(m)
  BY <1>9 DEF Good
<1>18. Good(m, D)
  <2> HIDE DEF D
  <2> QED BY <1>12, <1>13, <1>15, <1>16, <1>17 DEF Good
<1> QED BY <1>11, <1>18

(***************************************************************************)
(* What free_helper works on: a block outside the lists, or, once it has   *)
(* merged two of the largest blocks, anything.                             *)
(***************************************************************************)
MergeStates(m, B) ==
    {b \in [pm : PmRecord, page : Page, size : Slot] :
        \/ b.size = MaxOrder + 1
        \/ /\ b.size \in Order
           /\ <<b.page, b.size>> \notin B
           /\ Good(b.pm, B \cup {<<b.page, b.size>>})
           /\ Tiles(b.pm) \subseteq Tiles(m)}

MergeEnds(b) == ~Found(b.pm, get_partner_page_no(b.page, b.size), b.size)

(***************************************************************************)
(* A merge makes a block of the next order, or there is none.              *)
(***************************************************************************)
LEMMA MergeStep ==
    ASSUME NEW m, NEW B, NEW b \in MergeStates(m, B)
    PROVE  /\ Merge(b) \in MergeStates(m, B)
           /\ \/ Merge(b) = b /\ MergeEnds(b)
              \/ b.size \in Order /\ Merge(b).size = b.size + 1
<1> DEFINE p == b.page
           s == b.size
           c == get_partner_page_no(p, s)
           x == Unlink(b.pm, c, s)
           r == [pm |-> x, page |-> IF c < p THEN c ELSE p, size |-> s + 1]
<1>1. CASE ~Found(b.pm, c, s)
  <2>1. Merge(b) = b
    BY <1>1 DEF Merge
  <2> QED BY <2>1, <1>1 DEF MergeEnds
<1>2. CASE Found(b.pm, c, s)
  <2>1. Merge(b) = r
    BY <1>2 DEF Merge
  <2>2. b \in [pm : PmRecord, page : Page, size : Slot] /\ s \in Order
    BY <1>2 DEF Found, MergeStates
  <2>3. /\ p \in Page /\ p \in Nat /\ s \in Nat /\ s \in Slot /\ s # MaxOrder + 1
        /\ MaxOrder \in Nat /\ s <= MaxOrder
    BY <2>2, SlotFacts DEF Page, Order
  <2>4. /\ <<p, s>> \notin B
        /\ Good(b.pm, B \cup {<<p, s>>})
        /\ Tiles(b.pm) \subseteq Tiles(m)
    BY <2>3 DEF MergeStates
  <2>5. c \in Nat
    <3> HIDE DEF p, s
    <3> QED BY <2>3, PartnerIs
  <2>6. /\ c \in Page /\ c \in In(b.pm, s)
        /\ Good(x, (B \cup {<<p, s>>}) \cup {<<c, s>>})
        /\ Tiles(x) = Tiles(b.pm) \ {<<c, s>>}
    <3> DEFINE n == b.pm
               A == B \cup {<<p, s>>}
    <3>1. Good(n, A) /\ Found(n, c, s)
      BY <2>4, <1>2
    <3> HIDE DEF n, A, c, s, p
    <3>2. /\ c \in Page /\ c \in In(n, s)
          /\ Good(Unlink(n, c, s), A \cup {<<c, s>>})
          /\ Tiles(Unlink(n, c, s)) = Tiles(n) \ {<<c, s>>}
      BY <3>1, <2>2, <2>5, UnlinkFound
    <3> QED BY <3>2 DEF n, A
  <2>7. x \in PmRecord
    BY <2>6 DEF Good, ListsOK
  <2>8. r \in [pm : PmRecord, page : Page, size : Slot]
    <3>1. s + 1 \in Slot
      BY <2>3 DEF Slot
    <3>2. (IF c < p THEN c ELSE p) \in Page
      BY <2>3, <2>6
    <3> HIDE DEF x, p, s, c
    <3> QED BY <3>1, <3>2, <2>7
  <2>9. r \in MergeStates(m, B)
    <3>1. CASE s = MaxOrder
      <4>1. r.size = MaxOrder + 1
        BY <3>1
      <4> HIDE DEF r
      <4> QED BY <2>8, <4>1 DEF MergeStates
    <3>2. CASE s < MaxOrder
      <4>0. Pow2[s] \in Nat \ {0}
        BY <2>3, Pow2Steps
      <4>1. p \in {0, Pow2[s]}
        <5>1. Legal(p, s)
          BY <2>4 DEF Good, Tiling
        <5> HIDE DEF p, s
        <5> QED BY <5>1, <3>2, <2>3 DEF Legal
      <4>2. \/ p = 0 /\ c = Pow2[s]
            \/ p = Pow2[s] /\ c = 0
        <5> HIDE DEF p, s
        <5> QED BY <4>1, <2>3, PartnerIs
      <4>3. <<c, s>> \notin B
        <5>1. <<c, s>> \notin B \cup {<<p, s>>}
          BY <2>3, <2>4, <2>6, OwnTile
        <5> QED BY <5>1
      <4>4. /\ <<0, s>> \notin B /\ <<Pow2[s], s>> \notin B
            /\ Good(x, (B \cup {<<0, s>>}) \cup {<<Pow2[s], s>>})
        <5>1. (B \cup {<<p, s>>}) \cup {<<c, s>>} = (B \cup {<<0, s>>}) \cup {<<Pow2[s], s>>}
          <6> HIDE DEF p, s, c
          <6> QED BY <4>2
        <5> HIDE DEF x, p, s, c
        <5> QED BY <4>2, <4>3, <2>4, <2>6, <5>1
      <4>5. <<0, s + 1>> \notin B /\ Good(x, B \cup {<<0, s + 1>>})
        <5> HIDE DEF x, s
        <5> QED BY <4>4, <3>2, <2>3, Combine
      <4>6. r.page = 0 /\ r.size = s + 1 /\ r.pm = x
        <5>1. (IF c < p THEN c ELSE p) = 0
          BY <4>0, <4>2
        <5> QED BY <5>1
      <4>7. Tiles(x) \subseteq Tiles(m)
        BY <2>4, <2>6
      <4>8. s + 1 \in Order
        BY <3>2, <2>3 DEF Order
      <4> HIDE DEF r, x
      <4> QED BY <2>8, <4>5, <4>6, <4>7, <4>8 DEF MergeStates
    <3> QED BY <3>1, <3>2, <2>3
  <2>10. Merge(b).size = s + 1
    BY <2>1
  <2> QED BY <2>1, <2>2, <2>9, <2>10
<1> QED BY <1>1, <1>2

(***************************************************************************)
(* G iterates f from c on.                                                 *)
(***************************************************************************)
Iterates(f, c, G) == G = [k \in Nat |-> IF k = 0 THEN c ELSE f[G[k - 1]]]

(***************************************************************************)
(* A function from a set to itself can be iterated.                        *)
(***************************************************************************)
LEMMA IteratesExists ==
    ASSUME NEW D, NEW f \in [D -> D], NEW c \in D
    PROVE  \E G : Iterates(f, c, G)
BY IterationExists DEF Iterates

\* The merging of free_helper: a sequence of merges from the freed block on.
Merges(m, p, s, up) ==
    up = [k \in Nat |-> IF k = 0 THEN [pm |-> m, page |-> p, size |-> s] ELSE Merge(up[k - 1])]

(***************************************************************************)
(* The merging has ended when there were as many merges as larger orders.  *)
(***************************************************************************)
LEMMA MergesEnd ==
    ASSUME NEW m, NEW B, NEW p \in Page, NEW s \in Order,
           <<p, s>> \notin B, Good(m, B \cup {<<p, s>>})
    PROVE  /\ \E up : Merges(m, p, s, up)
           /\ \A up : Merges(m, p, s, up) =>
                 LET b == up[MaxOrder + 1 - s]
                 IN  b \in MergeStates(m, B) /\ (b.size = MaxOrder + 1 \/ MergeEnds(b))
<1> DEFINE D == MergeStates(m, B)
           f == [b \in D |-> Merge(b)]
           b0 == [pm |-> m, page |-> p, size |-> s]
<1>1. b0 \in D
  <2>1. m \in PmRecord /\ s \in Slot
    BY SlotFacts DEF Good, ListsOK
  <2>2. b0 \in [pm : PmRecord, page : Page, size : Slot] /\ b0.pm = m /\ b0.page = p /\ b0.size = s
    BY <2>1
  <2> HIDE DEF b0
  <2> QED BY <2>2 DEF MergeStates
<1>2. f \in [D -> D]
  BY MergeStep
<1>3. ASSUME NEW up PROVE Merges(m, p, s, up) <=>
          up = [k \in Nat |-> IF k = 0 THEN b0 ELSE Merge(up[k - 1])]
  BY DEF Merges
<1> HIDE DEF D, b0
<1>40. \E G : Iterates(f, b0, G)
  <2> HIDE DEF f
  <2> QED BY <1>1, <1>2, IteratesExists
<1>4. PICK G : G = [k \in Nat |-> IF k = 0 THEN b0 ELSE f[G[k - 1]]]
  <2> HIDE DEF f
  <2> QED BY <1>40 DEF Iterates
<1>5. /\ G[0] = b0
      /\ \A k \in Nat : G[k + 1] = f[G[k]]
      /\ \A k \in Nat : G[k] \in D
  <2> HIDE DEF f
  <2> QED BY <1>1, <1>2, <1>4, IterationSteps
<1>6. Merges(m, p, s, G)
  <2>1. \A k \in Nat : (IF k = 0 THEN b0 ELSE f[G[k - 1]]) = (IF k = 0 THEN b0 ELSE Merge(G[k - 1]))
    <3> TAKE k \in Nat
    <3>1. CASE k = 0
      BY <3>1
    <3>2. CASE k # 0
      <4>1. k - 1 \in Nat
        BY <3>2
      <4>2. G[k - 1] \in D
        BY <4>1, <1>5
      <4> QED BY <4>2, <3>2
    <3> QED BY <3>1, <3>2
  <2>2. G = [k \in Nat |-> IF k = 0 THEN b0 ELSE Merge(G[k - 1])]
    <3> HIDE DEF f
    <3> QED BY <2>1, <1>4
  <2> QED BY <2>2, <1>3
<1>7. ASSUME NEW up, Merges(m, p, s, up)
      PROVE  LET b == up[MaxOrder + 1 - s]
             IN  b \in D /\ (b.size = MaxOrder + 1 \/ MergeEnds(b))
  <2>1. up = [k \in Nat |-> IF k = 0 THEN b0 ELSE Merge(up[k - 1])]
    BY <1>3, <1>7
  <2>2. up[0] = b0 /\ \A k \in Nat : up[k + 1] = Merge(up[k])
    <3>1. \A k \in Nat : k + 1 \in Nat /\ k + 1 # 0 /\ (k + 1) - 1 = k
      OBVIOUS
    <3> QED BY <2>1, <3>1
  <2> DEFINE S == {k \in Nat : up[k] \in D /\ (up[k].size = s + k \/ MergeEnds(up[k]))}
  <2>3. 0 \in S
    <3>1. b0.size = s + 0
      BY SlotFacts DEF b0
    <3> QED BY <2>2, <3>1, <1>1
  <2>4. ASSUME NEW k \in S PROVE k + 1 \in S
    <3> DEFINE b == up[k]
    <3>1. k \in Nat /\ b \in D /\ up[k + 1] = Merge(b) /\ s \in Nat
      BY <2>2, SlotFacts
    <3>2. /\ Merge(b) \in D
          /\ \/ Merge(b) = b /\ MergeEnds(b)
             \/ b.size \in Order /\ Merge(b).size = b.size + 1
      <4> HIDE DEF b
      <4> QED BY <3>1, MergeStep DEF D
    <3>3. b.size = s + k \/ MergeEnds(b)
      OBVIOUS
    <3>4. MergeEnds(b) => Merge(b) = b
      BY DEF MergeEnds, Merge
    <3>5. Merge(b).size = s + (k + 1) \/ MergeEnds(Merge(b))
      <4> HIDE DEF b
      <4>1. CASE MergeEnds(b)
        BY <4>1, <3>4
      <4>2. CASE ~MergeEnds(b)
        BY <4>2, <3>1, <3>2, <3>3
      <4> QED BY <4>1, <4>2
    <3> QED BY <3>1, <3>2, <3>5
  <2>5. S = Nat
    <3> HIDE DEF S
    <3> QED BY <2>3, <2>4, SetInduction DEF S
  <2>6. MaxOrder + 1 - s \in Nat /\ s + (MaxOrder + 1 - s) = MaxOrder + 1
    BY SlotFacts DEF Order
  <2>7. MaxOrder + 1 - s \in S
    BY <2>5, <2>6
  <2> QED BY <2>6, <2>7
<1> QED BY <1>6, <1>7 DEF D

(***************************************************************************)
(* A block of an order below the largest one whose buddy was not found has *)
(* no buddy in the list.                                                   *)
(***************************************************************************)
LEMMA NoBuddyLeft ==
    ASSUME NEW m, NEW B, NEW b \in MergeStates(m, B), MergeEnds(b), b.size < MaxOrder,
           NEW q \in In(b.pm, b.size)
    PROVE  FALSE
<1> DEFINE n == b.pm
           p == b.page
           s == b.size
           c == ListOf(n, s)
<1>0. MaxOrder \in Nat /\ MaxOrder + 1 \in Slot
  BY SlotFacts
<1>1. /\ p \in Page /\ s \in Order
      /\ <<p, s>> \notin B
      /\ Good(n, B \cup {<<p, s>>})
  BY <1>0 DEF MergeStates
<1>2. s \in Slot /\ s \in Nat /\ s # MaxOrder + 1 /\ HeadOf(n, s) = n.head[s]
  BY <1>1, SlotFacts DEF HeadOf
<1>3. IsList(n.next, n.head[s], c)
  BY <1>1, <1>2 DEF Good, ListsOK
<1>4. /\ Len(c) \in Nat /\ c \in [1 .. Len(c) -> Page]
      /\ ToSet(c) = {c[i] : i \in 1 .. Len(c)} /\ ToSet(c) \subseteq Page
      /\ n.head[s] = NULL <=> Len(c) = 0
      /\ n.head[s] # NULL => n.head[s] = c[1]
  <2> HIDE DEF c
  <2> QED BY <1>3, ListElements
<1>5. \A x \in ToSet(c) : x \in {0, Pow2[s]} /\ x # p
  <2> TAKE x \in ToSet(c)
  <2>1. x \in Page /\ x \in In(n, s)
    BY <1>4 DEF In
  <2>2. <<x, s>> \in Tiles(n)
    BY <2>1, <1>2 DEF Tiles
  <2>3. Legal(x, s)
    BY <2>2, <1>1 DEF Good, Tiling
  <2>4. x # p
    <3>1. <<x, s>> \notin B \cup {<<p, s>>}
      BY <2>1, <1>1, <1>2, OwnTile
    <3> QED BY <3>1
  <2> HIDE DEF s, n, p, c
  <2>5. s < MaxOrder
    BY DEF s
  <2> QED BY <2>3, <2>4, <2>5, <1>0, <1>2 DEF Legal
<1>6. p \in {0, Pow2[s]}
  <2>1. Legal(p, s)
    BY <1>1 DEF Good, Tiling
  <2>2. s < MaxOrder
    OBVIOUS
  <2> HIDE DEF s, n, p
  <2> QED BY <2>1, <2>2, <1>0, <1>2 DEF Legal
<1>7. Pow2[s] # 0
  BY <1>2, Pow2Steps
<1> DEFINE t == get_partner_page_no(p, s)
<1>8. t = IF p = 0 THEN Pow2[s] ELSE 0
  <2> HIDE DEF p, s
  <2> QED BY <1>6, <1>7, <1>2, PartnerIs
<1>9. \A x \in ToSet(c) : x = t
  <2> HIDE DEF p, s, t, c
  <2> QED BY <1>5, <1>6, <1>8
<1>10. q \in ToSet(c)
  BY DEF In
<1> HIDE DEF c, t
<1>11. Len(c) # 0
  BY <1>4, <1>10
<1>12. Len(c) = 1
  <2>1. \A i, j \in 1 .. Len(c) : c[i] = c[j] => i = j
    BY <1>3 DEF IsList
  <2>2. \A i, j \in 1 .. Len(c) : i = j
    <3>1. \A i \in 1 .. Len(c) : c[i] \in ToSet(c)
      BY <1>4
    <3>2. \A i \in 1 .. Len(c) : c[i] = t
      BY <3>1, <1>9
    <3> QED BY <2>1, <3>2
  <2>3. 1 \in 1 .. Len(c) /\ Len(c) \in 1 .. Len(c)
    BY <1>4, <1>11
  <2> QED BY <2>2, <2>3
<1>13. 1 \in 1 .. Len(c)
  BY <1>12
<1>14. n.head[s] = t /\ n.head[s] # NULL
  BY <1>4, <1>9, <1>12, <1>13
<1>15. n.next[t] = NULL
  <2>1. n.next[c[1]] = NULL
    BY <1>3, <1>12, <1>13 DEF IsList
  <2> QED BY <2>1, <1>4, <1>14
<1>16. Found(n, t, s)
  BY <1>1, <1>14, <1>15 DEF Found
<1> QED BY <1>16 DEF MergeEnds, t

(***************************************************************************)
(* free_helper puts the block of a caller back, merged with its buddies as *)
(* long as there are any.                                                  *)
(***************************************************************************)
LEMMA FreeHelper ==
    ASSUME NEW B, NEW p \in Page, NEW s \in Order,
           <<p, s>> \notin B, Good(pm, B \cup {<<p, s>>}),
           free_helper(p, s), ~over'
    PROVE  /\ Good(pm', B)
           /\ \E t \in Page \X Order :
                 /\ Tiles(pm') \subseteq Tiles(pm) \cup {t}
                 /\ t \in Tiles(pm')
                 /\ t[2] < MaxOrder => \A q \in In(pm', t[2]) : q = t[1]
<1> DEFINE N(up) == up[MaxOrder + 1 - s]
           After(b) ==
               /\ pm' \in IF b.size \in Order /\ ~Ends(b.pm.next, b.pm.head[b.size])
                         THEN {Stuck(b.pm)}
                         ELSE append_block(b.pm, b.page, b.size)
               /\ over' = (over \/ b.size > MaxOrder)
<1>0. \E up : Merges(pm, p, s, up)
  BY MergesEnd
<1>1. PICK up : Merges(pm, p, s, up) /\ After(N(up))
  BY <1>0 DEF free_helper, Merges
<1> DEFINE b == up[MaxOrder + 1 - s]
<1>2. b \in MergeStates(pm, B) /\ (b.size = MaxOrder + 1 \/ MergeEnds(b)) /\ After(b)
  <2> HIDE DEF After
  <2> QED BY <1>1, MergesEnd
<1> HIDE DEF b, N
<1>3. MaxOrder \in Nat /\ b.size # MaxOrder + 1
  <2>1. ~(b.size > MaxOrder)
    BY <1>2, Zenon
  <2>2. MaxOrder \in Nat
    BY SlotFacts
  <2> HIDE DEF After
  <2> QED BY <2>1, <2>2
<1> DEFINE n == b.pm
           c == b.page
           o == b.size
<1>4. /\ o \in Order /\ c \in Page
      /\ <<c, o>> \notin B
      /\ Good(n, B \cup {<<c, o>>})
      /\ Tiles(n) \subseteq Tiles(pm)
      /\ MergeEnds(b)
  BY <1>2, <1>3 DEF MergeStates
<1>5. o \in Slot /\ o # MaxOrder + 1 /\ HeadOf(n, o) = n.head[o]
  BY <1>4, SlotFacts DEF HeadOf
<1>6. Ends(n.next, n.head[o])
  <2>1. IsList(n.next, n.head[o], ListOf(n, o))
    BY <1>4, <1>5 DEF Good, ListsOK
  <2> QED BY <2>1, ChainIs
<1>7. pm' \in append_block(n, c, o)
  BY <1>2, <1>6
<1>8. Good(pm', (B \cup {<<c, o>>}) \ {<<c, o>>}) /\ Tiles(pm') = Tiles(n) \cup {<<c, o>>}
  <2> DEFINE A == B \cup {<<c, o>>}
  <2>1. Good(n, A) /\ <<c, o>> \in A
    BY <1>4
  <2> HIDE DEF A, n, c, o
  <2>2. Good(pm', A \ {<<c, o>>}) /\ Tiles(pm') = Tiles(n) \cup {<<c, o>>}
    BY <2>1, <1>4, <1>7, AppendBlock
  <2> QED BY <2>2 DEF A
<1>9. (B \cup {<<c, o>>}) \ {<<c, o>>} = B
  BY <1>4
<1>10. Good(pm', B)
  BY <1>8, <1>9
<1>11. ASSUME o < MaxOrder, NEW q \in In(pm', o) PROVE q = c
  <2>1. q \in Page
    <3>1. IsList(pm'.next, HeadOf(pm', o), ListOf(pm', o))
      BY <1>5, <1>10 DEF Good, ListsOK
    <3> QED BY <3>1, ListElements DEF In
  <2>2. <<q, o>> \in Tiles(pm')
    BY <1>5, <2>1 DEF Tiles
  <2>3. <<q, o>> \notin Tiles(n)
    <3>1. q \notin In(n, o)
      BY <1>2, <1>4, <1>11, NoBuddyLeft
    <3> QED BY <3>1 DEF Tiles
  <2>4. <<q, o>> = <<c, o>>
    BY <2>2, <2>3, <1>8
  <2> QED BY <2>4
<1> HIDE DEF n, c, o
<1>12. /\ <<c, o>> \in Page \X Order
       /\ Tiles(pm') \subseteq Tiles(pm) \cup {<<c, o>>}
       /\ <<c, o>> \in Tiles(pm')
  BY <1>4, <1>8
<1> QED BY <1>10, <1>11, <1>12

-----------------------------------------------------------------------------
(***************************************************************************)
(* The lists that pmm_page_init makes, page by page.                       *)
(***************************************************************************)
InitIn(q) ==
    IF q = 0 THEN {0, 1}
    ELSE IF q < MaxOrder THEN {Pow2[q]}
    ELSE IF q = MaxOrder
    THEN {p \in Nat : p % Pow2[MaxOrder] = 0 /\ p >= Pow2[MaxOrder] /\ p < singel_page_first_no}
    ELSE singel_page_first_no .. (NPages - 1)

(***************************************************************************)
(* The numbers pmm_page_init works with.                                   *)
(***************************************************************************)
LEMMA InitNumbers ==
    /\ Pow2[MaxOrder] \in Nat /\ Pow2[MaxOrder] >= 2
    /\ \E k \in Nat : k >= 1 /\ singel_page_first_no = (k + 1) * Pow2[MaxOrder]
    /\ singel_page_first_no \in Nat /\ singel_page_first_no >= 2 * Pow2[MaxOrder]
    /\ NPages \in Nat /\ singel_page_first_no <= NPages
    /\ \A o \in Order : o # 0 => Pow2[o] \in Nat /\ Pow2[o] >= 2
    /\ \A o \in Order : o < MaxOrder => 2 * Pow2[o] <= Pow2[MaxOrder]
<1> DEFINE z == Pow2[MaxOrder]
           f == singel_page_first_no
<1>1. MaxOrder \in Nat /\ MaxOrder # 0 /\ NPages \in Nat
  BY PmmAssumption
<1>2. \A o \in Nat : o # 0 => Pow2[o] \in Nat /\ Pow2[o] >= 2
  <2> TAKE o \in Nat
  <2> HAVE o # 0
  <2>1. 0 < o /\ Pow2[0] = 1 /\ Pow2[o] \in Nat /\ 2 * Pow2[0] <= Pow2[o]
    BY Pow2Steps, Pow2Grows
  <2> QED BY <2>1
<1>3. z \in Nat /\ z >= 2
  BY <1>1, <1>2
<1>4. f \in Nat /\ f >= 2 * z /\ f <= NPages /\ f % z = 0
  <2>1. Pow2[MaxOrder + 1] = 2 * z
    BY <1>1, Pow2Steps
  <2> QED BY <2>1, <1>3, FirstSingle
<1> HIDE DEF z, f
<1>5. PICK l \in Nat : f = l * z
  BY <1>3, <1>4, MultipleOf
<1>6. l >= 2
  BY <1>3, <1>4, <1>5
<1>7. l - 1 \in Nat /\ l - 1 >= 1 /\ f = ((l - 1) + 1) * z
  BY <1>5, <1>6
<1>8. \A o \in Order : o \in Nat
  BY SlotFacts
<1> QED BY <1>1, <1>2, <1>3, <1>4, <1>7, <1>8, Pow2Grows DEF z, f

(***************************************************************************)
(* The free list of the largest order after pmm_page_init.                 *)
(***************************************************************************)
LEMMA InitLargest ==
    LET m == pmm_page_init
    IN  \E c : IsList(m.next, m.head[MaxOrder], c) /\ ToSet(c) = InitIn(MaxOrder)
<1> DEFINE m == pmm_page_init
           z == Pow2[MaxOrder]
           f == singel_page_first_no
<1>1. /\ z \in Nat /\ z >= 2 /\ f \in Nat /\ NPages \in Nat /\ f <= NPages
      /\ MaxOrder \in Nat /\ MaxOrder # 0
  BY InitNumbers, SlotFacts
<1>2. PICK k \in Nat : k >= 1 /\ f = (k + 1) * z
  BY InitNumbers
<1>3. m.head[MaxOrder] = z
  BY <1>1 DEF pmm_page_init, Order
<1>4. \A p \in Page : p >= z /\ p % z = 0 /\ p < f =>
          m.next[p] = IF p + z < f THEN p + z ELSE NULL
  <2>1. \A p \in Page : m.next[p] =
                   IF p = 0 THEN 1
                   ELSE IF /\ p >= z /\ p % z = 0
                           /\ p + z < f
                        THEN p + z
                   ELSE IF p >= f /\ p + 1 < NPages THEN p + 1
                   ELSE NULL
    BY DEF pmm_page_init
  <2> HIDE DEF m, z, f
  <2> QED BY <2>1, <1>1, SMTT(30) DEF Page
<1> DEFINE c == [i \in 1 .. k |-> i * z]
<1> HIDE DEF m, z, f
<1>5. \A i \in 1 .. k : /\ i * z \in Nat /\ i * z >= z /\ (i * z) % z = 0
                        /\ i * z + z <= f /\ i * z < f /\ i * z \in Page
                        /\ i * z + z = (i + 1) * z
  <2> TAKE i \in 1 .. k
  <2>1. i * z \in Nat /\ i * z >= z /\ (i * z) % z = 0 /\ i * z + z = (i + 1) * z
    BY <1>1
  <2>2. (i + 1) * z <= (k + 1) * z
    <3>1. k - i \in Nat /\ (k + 1) * z = (i + 1) * z + (k - i) * z /\ (k - i) * z \in Nat
      BY <1>1
    <3>2. (i + 1) * z \in Nat
      BY <1>1
    <3> QED BY <3>1, <3>2
  <2> QED BY <2>1, <2>2, <1>1, <1>2 DEF Page
<1>6. c \in Seq(Page) /\ Len(c) = k
  <2>1. c \in [1 .. k -> Page]
    BY <1>5
  <2> HIDE DEF c
  <2> QED BY <2>1, FunctionIsSeq
<1>7. \A i \in 1 .. k : c[i] = i * z
  OBVIOUS
<1> HIDE DEF c
<1>8. IsList(m.next, z, c)
  <2>1. ASSUME NEW i \in 1 .. k, NEW j \in 1 .. k, i * z = j * z PROVE i = j
    BY <2>1, <1>1
  <2>2. c[1] = z /\ k # 0
    <3>1. 1 \in 1 .. k /\ 1 * z = z
      BY <1>1, <1>2
    <3> QED BY <3>1, <1>7, <1>2
  <2>3. ASSUME NEW i \in 1 .. k PROVE m.next[c[i]] = IF i = k THEN NULL ELSE c[i + 1]
    <3>1. m.next[i * z] = IF i * z + z < f THEN i * z + z ELSE NULL
      BY <1>4, <1>5
    <3>2. CASE i = k
      <4>1. i * z + z = f
        BY <3>2, <1>2, <1>5
      <4>2. ~(i * z + z < f)
        BY <4>1, <1>1
      <4> QED BY <3>1, <3>2, <4>2, <1>7
    <3>3. CASE i # k
      <4>1. i + 1 \in 1 .. k
        BY <3>3
      <4>2. i * z + z < f
        <5>1. (i + 1) * z < f
          BY <4>1, <1>5
        <5> QED BY <5>1, <1>5
      <4> QED BY <4>1, <4>2, <3>1, <3>3, <1>5, <1>7
    <3> QED BY <3>2, <3>3
  <2> QED BY <1>6, <1>7, <2>1, <2>2, <2>3 DEF IsList
<1>9. ToSet(c) = {c[i] : i \in 1 .. k}
  BY <1>6, <1>8, ListElements
<1>10. InitIn(MaxOrder) = {p \in Nat : p % z = 0 /\ p >= z /\ p < f}
  BY <1>1 DEF InitIn, z, f
<1>11. ASSUME NEW p \in Nat, p % z = 0, p >= z, p < f PROVE p \in ToSet(c)
  <2>0. z \in Nat \ {0}
    BY <1>1
  <2>1. PICK i \in Nat : p = i * z
    BY <2>0, <1>11, MultipleOf
  <2>2. i >= 1
    BY <2>1, <1>11, <1>1
  <2>3. i <= k
    <3>1. SUFFICES ASSUME i >= k + 1 PROVE FALSE
      BY <1>2
    <3>2. i - (k + 1) \in Nat /\ i * z = (k + 1) * z + (i - (k + 1)) * z
          /\ (i - (k + 1)) * z \in Nat
      BY <3>1, <1>1
    <3> QED BY <3>2, <2>1, <1>2, <1>11, <1>1
  <2>4. i \in 1 .. k
    BY <2>2, <2>3
  <2> QED BY <2>1, <2>4, <1>7, <1>9
<1>12. \A p \in ToSet(c) : p \in Nat /\ p % z = 0 /\ p >= z /\ p < f
  BY <1>5, <1>7, <1>9
<1>13. ToSet(c) = InitIn(MaxOrder)
  BY <1>10, <1>11, <1>12
<1> QED BY <1>3, <1>8, <1>13 DEF m

(***************************************************************************)
(* The buffer of single pages after pmm_page_init.                         *)
(***************************************************************************)
LEMMA InitSingles ==
    LET m == pmm_page_init
    IN  \E c : IsList(m.next, m.single, c) /\ ToSet(c) = InitIn(MaxOrder + 1)
<1> DEFINE m == pmm_page_init
           f == singel_page_first_no
           n == NPages - f
           c == [i \in 1 .. n |-> f + i - 1]
<1>1. /\ f \in Nat /\ NPages \in Nat /\ f <= NPages /\ n \in Nat /\ MaxOrder \in Nat
      /\ Pow2[MaxOrder] \in Nat /\ f # 0
  BY InitNumbers, SlotFacts
<1>2. m.single = IF n # 0 THEN f ELSE NULL
  <2>1. m.single = IF f < NPages THEN f ELSE NULL
    BY DEF pmm_page_init
  <2> HIDE DEF f, m
  <2> QED BY <2>1, <1>1
<1>3. \A p \in f .. (NPages - 1) : m.next[p] = IF p + 1 < NPages THEN p + 1 ELSE NULL
  <2>1. \A p \in Page : m.next[p] =
                   IF p = 0 THEN 1
                   ELSE IF /\ p >= Pow2[MaxOrder] /\ p % Pow2[MaxOrder] = 0
                           /\ p + Pow2[MaxOrder] < f
                        THEN p + Pow2[MaxOrder]
                   ELSE IF p >= f /\ p + 1 < NPages THEN p + 1
                   ELSE NULL
    BY DEF pmm_page_init
  <2> HIDE DEF m, f
  <2> QED BY <2>1, <1>1 DEF Page
<1>4. InitIn(MaxOrder + 1) = f .. (NPages - 1)
  BY <1>1 DEF InitIn
<1> HIDE DEF m, f
<1>5. \A i \in 1 .. n : f + i - 1 \in f .. (NPages - 1) /\ f + i - 1 \in Page
  BY <1>1 DEF Page
<1>6. c \in Seq(Page) /\ Len(c) = n
  <2>1. c \in [1 .. n -> Page]
    BY <1>5
  <2> HIDE DEF c, n
  <2> QED BY <2>1, <1>1, FunctionIsSeq
<1>7. \A i \in 1 .. n : c[i] = f + i - 1
  OBVIOUS
<1> HIDE DEF c
<1>8. IsList(m.next, m.single, c)
  <2>1. \A i, j \in 1 .. n : f + i - 1 = f + j - 1 => i = j
    BY <1>1
  <2>2. m.single = IF n = 0 THEN NULL ELSE c[1]
    <3>1. n # 0 => 1 \in 1 .. n /\ f + 1 - 1 = f
      BY <1>1
    <3> QED BY <3>1, <1>2, <1>7
  <2>3. ASSUME NEW i \in 1 .. n PROVE m.next[c[i]] = IF i = n THEN NULL ELSE c[i + 1]
    <3>1. m.next[c[i]] = IF f + i - 1 + 1 < NPages THEN f + i - 1 + 1 ELSE NULL
      BY <1>3, <1>5, <1>7
    <3>2. CASE i = n
      BY <3>1, <3>2, <1>1
    <3>3. CASE i # n
      <4>1. i + 1 \in 1 .. n /\ f + i - 1 + 1 < NPages /\ f + (i + 1) - 1 = f + i - 1 + 1
        BY <3>3, <1>1
      <4> QED BY <3>1, <3>3, <4>1, <1>7
    <3> QED BY <3>2, <3>3
  <2> HIDE DEF n
  <2> QED BY <1>6, <1>7, <2>1, <2>2, <2>3 DEF IsList
<1>9. ToSet(c) = {c[i] : i \in 1 .. n}
  <2> HIDE DEF n
  <2> QED BY <1>6, <1>8, ListElements
<1>10. ToSet(c) = f .. (NPages - 1)
  <2>1. ASSUME NEW p \in f .. (NPages - 1) PROVE p \in ToSet(c)
    <3>1. p - f + 1 \in 1 .. n /\ f + (p - f + 1) - 1 = p
      BY <1>1
    <3> QED BY <3>1, <1>7, <1>9
  <2> QED BY <2>1, <1>5, <1>7, <1>9
<1> QED BY <1>4, <1>8, <1>10 DEF m

(***************************************************************************)
(* The other free lists after pmm_page_init.                               *)
(***************************************************************************)
LEMMA InitSmall ==
    ASSUME NEW o \in Order, o # MaxOrder
    PROVE  LET m == pmm_page_init
           IN  \E c : IsList(m.next, m.head[o], c) /\ ToSet(c) = InitIn(o)
<1> DEFINE m == pmm_page_init
           z == Pow2[MaxOrder]
           f == singel_page_first_no
<1>1. /\ z \in Nat /\ z >= 2 /\ f \in Nat /\ NPages \in Nat /\ f <= NPages /\ f >= 2 * z
      /\ MaxOrder \in Nat /\ o \in Nat /\ o < MaxOrder /\ 2 * Pow2[o] <= z
      /\ o # 0 => Pow2[o] \in Nat /\ Pow2[o] >= 2
  BY InitNumbers, SlotFacts DEF Order
<1>2. m.head[o] = IF o = 0 THEN 0 ELSE Pow2[o]
  BY DEF pmm_page_init
<1>3. \A p \in Page : p # 0 /\ p < z => m.next[p] = NULL
  <2>1. \A p \in Page : m.next[p] =
                   IF p = 0 THEN 1
                   ELSE IF /\ p >= z /\ p % z = 0
                           /\ p + z < f
                        THEN p + z
                   ELSE IF p >= f /\ p + 1 < NPages THEN p + 1
                   ELSE NULL
    BY DEF pmm_page_init
  <2> HIDE DEF m, z, f
  <2> QED BY <2>1, <1>1 DEF Page
<1>4. m.next[0] = 1 /\ 0 \in Page
  <2>1. 0 \in Page
    BY <1>1 DEF Page
  <2> QED BY <2>1 DEF pmm_page_init
<1> HIDE DEF m, z, f
<1>5. CASE o # 0
  <2>1. Pow2[o] \in Page /\ Pow2[o] # 0 /\ Pow2[o] < z
    BY <1>1, <1>5 DEF Page
  <2>2. IsList(m.next, Pow2[o], <<Pow2[o]>>) /\ ToSet(<<Pow2[o]>>) = {Pow2[o]}
    <3> DEFINE p == Pow2[o]
    <3>1. p \in Page /\ m.next[p] = NULL
      BY <2>1, <1>3
    <3> HIDE DEF p
    <3>2. IsList(m.next, p, <<p>>) /\ ToSet(<<p>>) = {p}
      BY <3>1, ListOfOne
    <3> QED BY <3>2 DEF p
  <2>3. InitIn(o) = {Pow2[o]}
    BY <1>1, <1>5 DEF InitIn
  <2> QED BY <2>2, <2>3, <1>2, <1>5 DEF m
<1>6. CASE o = 0
  <2> DEFINE c == <<0, 1>>
  <2>1. c \in Seq(Page) /\ Len(c) = 2 /\ c[1] = 0 /\ c[2] = 1
    <3>1. 1 \in Page
      BY <1>1 DEF Page
    <3> QED BY <3>1, <1>4
  <2>2. m.next[1] = NULL
    <3>1. 1 \in Page /\ 1 < z /\ 1 # 0
      BY <1>1 DEF Page
    <3> QED BY <3>1, <1>3
  <2> HIDE DEF c
  <2>3. \A i \in 1 .. Len(c) : i = 1 \/ i = 2
    BY <2>1
  <2>4. IsList(m.next, 0, c)
    BY <2>1, <2>2, <2>3, <1>4 DEF IsList
  <2>5. ToSet(c) = {c[i] : i \in 1 .. Len(c)}
    BY <2>4, ListElements
  <2>6. ToSet(c) = {0, 1}
    <3>1. 1 \in 1 .. Len(c) /\ 2 \in 1 .. Len(c)
      BY <2>1
    <3> QED BY <3>1, <2>1, <2>3, <2>5
  <2>7. InitIn(o) = {0, 1}
    BY <1>6 DEF InitIn
  <2> QED BY <2>4, <2>6, <2>7, <1>2, <1>6 DEF m
<1> QED BY <1>5, <1>6

(***************************************************************************)
(* All the lists after pmm_page_init.                                      *)
(***************************************************************************)
LEMMA InitLists ==
    /\ ListsOK(pmm_page_init)
    /\ \A q \in Slot : In(pmm_page_init, q) = InitIn(q)
<1> DEFINE m == pmm_page_init
<1>1. m \in PmRecord /\ m.stuck = FALSE
  <2>1. \A o \in Order : (IF o = 0 THEN 0 ELSE Pow2[o]) \in Page
    <3> TAKE o \in Order
    <3>1. /\ Pow2[MaxOrder] \in Nat /\ Pow2[MaxOrder] >= 2 /\ NPages \in Nat
          /\ 2 * Pow2[MaxOrder] <= NPages
          /\ o # 0 => Pow2[o] \in Nat /\ Pow2[o] >= 2
          /\ o < MaxOrder => 2 * Pow2[o] <= Pow2[MaxOrder]
      BY InitNumbers
    <3>2. o < MaxOrder \/ o = MaxOrder
      BY SlotFacts DEF Order
    <3> QED BY <3>1, <3>2 DEF Page
  <2>2. \A p \in Page : m.next[p] \in Page \cup {NULL}
    <3> DEFINE z == Pow2[MaxOrder]
               f == singel_page_first_no
    <3>0. z \in Nat /\ f \in Nat /\ f <= NPages /\ f >= 2 * z /\ z >= 2 /\ NPages \in Nat
      BY InitNumbers
    <3>1. \A p \in Page : m.next[p] =
                   IF p = 0 THEN 1
                   ELSE IF /\ p >= z /\ p % z = 0
                           /\ p + z < f
                        THEN p + z
                   ELSE IF p >= f /\ p + 1 < NPages THEN p + 1
                   ELSE NULL
      BY DEF pmm_page_init
    <3> HIDE DEF m, z, f
    <3> QED BY <3>0, <3>1 DEF Page
  <2>3. m.single \in Page \cup {NULL}
    <3>1. m.single = IF singel_page_first_no < NPages THEN singel_page_first_no ELSE NULL
      BY DEF pmm_page_init
    <3> QED BY <3>1, InitNumbers DEF Page
  <2>4. m = [head |-> [o \in Order |-> IF o = 0 THEN 0 ELSE Pow2[o]],
             next |-> m.next, single |-> m.single, stuck |-> FALSE]
    BY DEF pmm_page_init
  <2>5. m.next \in [Page -> Page \cup {NULL}]
    <3>1. m.next = [p \in Page |-> m.next[p]]
      BY DEF pmm_page_init
    <3> HIDE DEF m
    <3> QED BY <3>1, <2>2
  <2> DEFINE hd == [o \in Order |-> IF o = 0 THEN 0 ELSE Pow2[o]]
  <2>6. hd \in [Order -> Page \cup {NULL}]
    BY <2>1
  <2> DEFINE nx == m.next
             sg == m.single
  <2>7. m = [head |-> hd, next |-> nx, single |-> sg, stuck |-> FALSE]
    BY <2>4
  <2>8. nx \in [Page -> Page \cup {NULL}] /\ sg \in Page \cup {NULL}
    BY <2>3, <2>5
  <2> HIDE DEF m, hd, nx, sg
  <2> QED BY <2>6, <2>7, <2>8 DEF PmRecord
<1>2. ASSUME NEW q \in Slot
      PROVE  \E c : IsList(m.next, HeadOf(m, q), c) /\ ToSet(c) = InitIn(q)
  <2>1. CASE q = MaxOrder + 1
    BY <2>1, InitSingles DEF HeadOf
  <2>2. CASE q = MaxOrder
    <3>1. MaxOrder # MaxOrder + 1
      BY SlotFacts
    <3> QED BY <2>2, <3>1, InitLargest DEF HeadOf
  <2>3. CASE q # MaxOrder + 1 /\ q # MaxOrder
    <3>1. q \in Order
      BY <2>3, SlotFacts
    <3> QED BY <2>3, <3>1, InitSmall DEF HeadOf
  <2> QED BY <2>1, <2>2, <2>3
<1> HIDE DEF m
<1>3. ASSUME NEW q \in Slot
      PROVE  IsList(m.next, HeadOf(m, q), ListOf(m, q)) /\ In(m, q) = InitIn(q)
  <2>1. PICK c : IsList(m.next, HeadOf(m, q), c) /\ ToSet(c) = InitIn(q)
    BY <1>2
  <2>2. ListOf(m, q) = c
    BY <2>1, ChainIs DEF ListOf
  <2> QED BY <2>1, <2>2 DEF In
<1> QED BY <1>1, <1>3 DEF ListsOK, m

(***************************************************************************)
(* Every page below the largest size is in one of the smaller blocks.      *)
(***************************************************************************)
LEMMA OrderOf ==
    ASSUME NEW x \in Nat, x >= 2, x < Pow2[MaxOrder]
    PROVE  \E o \in Order : o # 0 /\ o < MaxOrder /\ Pow2[o] <= x /\ x < 2 * Pow2[o]
<1> DEFINE S == {k \in Nat : Pow2[k] > x}
<1>1. MaxOrder \in S
  BY SlotFacts
<1>2. PICK k \in S : \A j \in S : k <= j
  <2>1. S # {} /\ S \in SUBSET Nat
    BY <1>1
  <2> HIDE DEF S
  <2> QED BY <2>1, LeastNumber
<1>3. k \in Nat /\ k <= MaxOrder /\ Pow2[k] > x
  BY <1>1, <1>2
<1>4. Pow2[0] = 1 /\ Pow2[1] = 2
  <2>1. Pow2[0 + 1] = 2 * Pow2[0] /\ Pow2[0] = 1
    BY Pow2Steps
  <2> QED BY <2>1
<1>5. k # 0 /\ k # 1
  BY <1>3, <1>4
<1>6. k - 1 \in Nat /\ k - 1 # 0 /\ (k - 1) + 1 = k /\ k - 1 < k
  BY <1>3, <1>5
<1>7. k - 1 \notin S
  BY <1>2, <1>6
<1>8. Pow2[k - 1] \in Nat /\ Pow2[k] = 2 * Pow2[k - 1]
  <2>1. Pow2[(k - 1) + 1] = 2 * Pow2[k - 1] /\ Pow2[k - 1] \in Nat
    BY <1>6, Pow2Steps
  <2> QED BY <2>1, <1>6
<1>9. Pow2[k - 1] <= x /\ x < 2 * Pow2[k - 1]
  BY <1>3, <1>6, <1>7, <1>8
<1>10. k - 1 \in Order /\ k - 1 < MaxOrder
  BY <1>3, <1>6, SlotFacts DEF Order
<1> QED BY <1>6, <1>9, <1>10

\* Where the pages of a slot's tiles are after pmm_page_init.
Lowest(q) == IF q = 0 THEN 0 ELSE IF q = MaxOrder + 1 THEN singel_page_first_no ELSE Pow2[q]
Beyond(q) == IF q = 0 THEN 2 ELSE IF q = MaxOrder + 1 THEN NPages
             ELSE IF q = MaxOrder THEN singel_page_first_no ELSE 2 * Pow2[q]

(***************************************************************************)
(* The slots have their pages one behind the other.                        *)
(***************************************************************************)
LEMMA SlotsInOrder ==
    /\ \A q \in Slot : Lowest(q) \in Nat /\ Beyond(q) \in Nat
    /\ \A q, r \in Slot : q < r => Beyond(q) <= Lowest(r)
<1>1. /\ MaxOrder \in Nat /\ MaxOrder # 0
      /\ Pow2[MaxOrder] \in Nat /\ Pow2[MaxOrder] >= 2
      /\ singel_page_first_no \in Nat /\ singel_page_first_no >= 2 * Pow2[MaxOrder]
      /\ NPages \in Nat /\ singel_page_first_no <= NPages
      /\ \A o \in Order : o # 0 => Pow2[o] \in Nat /\ Pow2[o] >= 2
      /\ \A o \in Order : o < MaxOrder => 2 * Pow2[o] <= Pow2[MaxOrder]
  BY InitNumbers, SlotFacts
<1>2. ASSUME NEW q \in Slot PROVE Lowest(q) \in Nat /\ Beyond(q) \in Nat
  <2>1. q = 0 \/ q = MaxOrder + 1 \/ (q \in Order /\ q # 0)
    BY SlotFacts
  <2> QED BY <2>1, <1>1 DEF Lowest, Beyond
<1>3. ASSUME NEW q \in Slot, NEW r \in Slot, q < r PROVE Beyond(q) <= Lowest(r)
  <2>1. q \in Nat /\ r \in Nat /\ r # 0 /\ q < MaxOrder + 1 /\ q # MaxOrder + 1 /\ q \in Order
    BY <1>3, <1>1, SlotFacts DEF Slot
  <2>2. CASE r = MaxOrder + 1
    <3>1. Lowest(r) = singel_page_first_no
      BY <2>1, <2>2 DEF Lowest
    <3>2. CASE q = 0
      <4>1. Beyond(q) = 2
        BY <3>2 DEF Beyond
      <4> QED BY <3>1, <4>1, <1>1
    <3>3. CASE q = MaxOrder
      <4>1. Beyond(q) = singel_page_first_no
        BY <3>3, <1>1 DEF Beyond
      <4> QED BY <3>1, <4>1, <1>1
    <3>4. CASE q # 0 /\ q # MaxOrder
      <4>1. Beyond(q) = 2 * Pow2[q] /\ q < MaxOrder
        BY <3>4, <2>1, <1>1 DEF Beyond
      <4>2. 2 * Pow2[q] <= Pow2[MaxOrder] /\ Pow2[q] \in Nat
        BY <4>1, <2>1, <3>4, <1>1
      <4> QED BY <3>1, <4>1, <4>2, <1>1
    <3> QED BY <3>2, <3>3, <3>4
  <2>3. CASE r # MaxOrder + 1
    <3>0. r \in Order /\ r <= MaxOrder /\ q < MaxOrder /\ q # MaxOrder
      BY <2>1, <2>3, <1>3, <1>1, SlotFacts DEF Slot
    <3>1. Lowest(r) = Pow2[r] /\ Pow2[r] \in Nat /\ Pow2[r] >= 2
      BY <2>1, <2>3, <3>0, <1>1 DEF Lowest
    <3>2. CASE q = 0
      <4>1. Beyond(q) = 2
        BY <3>2 DEF Beyond
      <4> QED BY <3>1, <4>1
    <3>3. CASE q # 0
      <4>1. Beyond(q) = 2 * Pow2[q]
        BY <3>0, <3>3, <2>1 DEF Beyond
      <4>2. 2 * Pow2[q] <= Pow2[r]
        BY <2>1, <1>3, Pow2Grows
      <4> QED BY <3>1, <4>1, <4>2
    <3> QED BY <3>2, <3>3
  <2> QED BY <2>2, <2>3
<1> QED BY <1>2, <1>3

(***************************************************************************)
(* The tiles of a slot after pmm_page_init are legal, are in the slot's    *)
(* pages, and have no page in common.                                      *)
(***************************************************************************)
LEMMA InitSlot ==
    ASSUME NEW q \in Slot, NEW p \in InitIn(q)
    PROVE  /\ p \in Page
           /\ Legal(p, q)
           /\ \A x \in Cells(<<p, q>>) : x \in Nat /\ Lowest(q) <= x /\ x < Beyond(q)
           /\ \A r \in InitIn(q) : r # p => Cells(<<p, q>>) \cap Cells(<<r, q>>) = {}
<1> DEFINE z == Pow2[MaxOrder]
           f == singel_page_first_no
<1>1. /\ MaxOrder \in Nat /\ MaxOrder # 0 /\ q \in Nat
      /\ z \in Nat /\ z >= 2 /\ f \in Nat /\ f >= 2 * z
      /\ NPages \in Nat /\ f <= NPages
      /\ \A o \in Order : o # 0 => Pow2[o] \in Nat /\ Pow2[o] >= 2
      /\ \A o \in Order : o < MaxOrder => 2 * Pow2[o] <= z
      /\ q # MaxOrder + 1 => q \in Order
  BY InitNumbers, SlotFacts
<1>2. CASE q = MaxOrder + 1
  <2>1. InitIn(q) = f .. (NPages - 1)
    BY <1>1, <1>2 DEF InitIn
  <2>2. Lowest(q) = f /\ Beyond(q) = NPages
    BY <1>1, <1>2 DEF Lowest, Beyond
  <2>3. \A r : Cells(<<r, q>>) = {r}
    BY <1>2 DEF Cells
  <2>4. Legal(p, q)
    BY <1>2, <2>1 DEF Legal
  <2> HIDE DEF f, z
  <2>5. p \in Page
    BY <2>1, <1>1 DEF Page
  <2> QED BY <2>1, <2>2, <2>3, <2>4, <2>5, <1>1
<1>3. CASE q = MaxOrder
  <2>1. InitIn(q) = {r \in Nat : r % z = 0 /\ r >= z /\ r < f}
    BY <1>1, <1>3 DEF InitIn
  <2>2. Lowest(q) = z /\ Beyond(q) = f
    BY <1>1, <1>3 DEF Lowest, Beyond
  <2>3. \A r : Cells(<<r, q>>) = r .. (r + z - 1)
    BY <1>1, <1>3 DEF Cells, Block, c_to_uint32
  <2>4. PICK k \in Nat : k >= 1 /\ f = (k + 1) * z
    BY InitNumbers
  <2>0. z \in Nat \ {0}
    BY <1>1
  <2> HIDE DEF f, z
  <2>5. \A r \in InitIn(q) : r \in Nat /\ r >= z /\ r < f /\ \E i \in Nat : r = i * z
    <3> TAKE r \in InitIn(q)
    <3>1. r \in Nat /\ r >= z /\ r < f /\ r % z = 0
      BY <2>1
    <3> QED BY <3>1, <2>0, MultipleOf
  <2>6. PICK i \in Nat : p = i * z
    BY <2>5
  <2>7. p + z <= f
    <3>1. i < k + 1
      <4>1. SUFFICES ASSUME i >= k + 1 PROVE FALSE
        BY <2>4
      <4>2. i - (k + 1) \in Nat /\ i * z = (k + 1) * z + (i - (k + 1)) * z
            /\ (i - (k + 1)) * z \in Nat
        BY <4>1, <1>1
      <4> QED BY <4>2, <2>6, <2>5, <2>4, <1>1
    <3>2. k - i \in Nat /\ (k + 1) * z = (i * z + z) + (k - i) * z /\ (k - i) * z \in Nat
          /\ i * z \in Nat
      BY <3>1, <1>1
    <3> QED BY <3>2, <2>4, <2>6, <1>1
  <2>8. p \in Page /\ p \in Nat /\ p >= z
    BY <2>5, <1>1 DEF Page
  <2>9. Legal(p, q)
    BY <1>3, <2>1, <2>7 DEF Legal, z, f
  <2>10. \A x \in Cells(<<p, q>>) : x \in Nat /\ Lowest(q) <= x /\ x < Beyond(q)
    BY <2>2, <2>3, <2>7, <2>8, <1>1
  <2>11. ASSUME NEW r \in InitIn(q), r # p PROVE Cells(<<p, q>>) \cap Cells(<<r, q>>) = {}
    <3>1. PICK j \in Nat : r = j * z
      BY <2>5
    <3>2. i # j
      BY <2>6, <2>11, <3>1
    <3>3. CASE i < j
      <4>1. j - i - 1 \in Nat /\ j * z = (i * z + z) + (j - i - 1) * z /\ (j - i - 1) * z \in Nat
            /\ i * z \in Nat
        BY <3>3, <1>1
      <4>2. r >= p + z /\ r \in Nat
        BY <4>1, <3>1, <2>6, <2>5, <1>1
      <4> QED BY <4>2, <2>3, <2>8, <1>1
    <3>4. CASE j < i
      <4>1. i - j - 1 \in Nat /\ i * z = (j * z + z) + (i - j - 1) * z /\ (i - j - 1) * z \in Nat
            /\ j * z \in Nat
        BY <3>4, <1>1
      <4>2. p >= r + z /\ r \in Nat
        BY <4>1, <3>1, <2>6, <2>5, <1>1
      <4> QED BY <4>2, <2>3, <2>8, <1>1
    <3> QED BY <3>2, <3>3, <3>4
  <2> QED BY <2>8, <2>9, <2>10, <2>11
<1>4. CASE q < MaxOrder /\ q # 0
  <2>1. InitIn(q) = {Pow2[q]} /\ p = Pow2[q]
    BY <1>1, <1>4 DEF InitIn
  <2>2. q # MaxOrder + 1 /\ q # MaxOrder /\ q \in Order
    BY <1>1, <1>4
  <2>3. Lowest(q) = Pow2[q] /\ Beyond(q) = 2 * Pow2[q]
    BY <2>2, <1>4 DEF Lowest, Beyond
  <2>4. Cells(<<p, q>>) = p .. (p + Pow2[q] - 1)
    BY <2>2 DEF Cells, Block, c_to_uint32
  <2>5. Pow2[q] \in Nat /\ Pow2[q] >= 2 /\ 2 * Pow2[q] <= z
    BY <2>2, <1>1, <1>4
  <2>6. Legal(p, q)
    BY <2>1, <1>4 DEF Legal
  <2>7. p \in Page
    BY <2>1, <2>5, <1>1 DEF Page
  <2>8. \A x \in Cells(<<p, q>>) : x \in Nat /\ Lowest(q) <= x /\ x < Beyond(q)
    BY <2>1, <2>3, <2>4, <2>5
  <2> QED BY <2>1, <2>6, <2>7, <2>8
<1>5. CASE q = 0
  <2>1. InitIn(q) = {0, 1} /\ Lowest(q) = 0 /\ Beyond(q) = 2
    BY <1>5 DEF InitIn, Lowest, Beyond
  <2>2. q # MaxOrder + 1 /\ q < MaxOrder /\ Pow2[q] = 1
    BY <1>1, <1>5, Pow2Steps
  <2>3. \A r : Cells(<<r, q>>) = r .. (r + 1 - 1)
    BY <2>2 DEF Cells, Block, c_to_uint32
  <2>4. Legal(p, q)
    BY <2>1, <2>2 DEF Legal
  <2>5. p \in Page
    BY <2>1, <1>1 DEF Page
  <2>6. Cells(<<0, q>>) = {0} /\ Cells(<<1, q>>) = {1}
    BY <2>3
  <2> QED BY <2>1, <2>4, <2>5, <2>6
<1> QED BY <1>1, <1>2, <1>3, <1>4, <1>5 DEF Order

(***************************************************************************)
(* pmm_page_init shares all the pages among the lists.                     *)
(***************************************************************************)
LEMMA InitGood == Good(pmm_page_init, {})
<1> DEFINE m == pmm_page_init
           T == Tiles(m)
           z == Pow2[MaxOrder]
           f == singel_page_first_no
<1>1. /\ MaxOrder \in Nat /\ MaxOrder # 0
      /\ z \in Nat /\ z >= 2 /\ f \in Nat /\ f >= 2 * z
      /\ NPages \in Nat /\ f <= NPages
  BY InitNumbers, SlotFacts
<1>2. \A p \in Page, q \in Slot : <<p, q>> \in T <=> p \in InitIn(q)
  BY InitLists DEF Tiles
<1>3. \A t \in T : \E p \in Page, q \in Slot : t = <<p, q>> /\ p \in InitIn(q)
  BY InitLists DEF Tiles
<1> HIDE DEF m, T
<1>4. \A t \in T : Legal(t[1], t[2])
  <2> TAKE t \in T
  <2>1. PICK p \in Page, q \in Slot : t = <<p, q>> /\ p \in InitIn(q)
    BY <1>3
  <2>2. Legal(p, q)
    BY <2>1, InitSlot
  <2> QED BY <2>1, <2>2
<1>5. ASSUME NEW x \in Page PROVE \E t \in T : x \in Cells(t)
  <2>0. x \in Nat /\ x < NPages
    BY <1>1 DEF Page
  <2>1. CASE x >= f
    <3>1. MaxOrder + 1 \in Slot /\ x \in InitIn(MaxOrder + 1)
      <4>1. InitIn(MaxOrder + 1) = f .. (NPages - 1)
        BY <1>1 DEF InitIn
      <4> HIDE DEF f
      <4> QED BY <4>1, <2>0, <2>1, <1>1, SlotFacts
    <3>2. x \in Cells(<<x, MaxOrder + 1>>)
      BY DEF Cells
    <3> QED BY <3>1, <3>2, <1>2
  <2>2. CASE z <= x /\ x < f
    <3>0. z \in Nat \ {0}
      BY <1>1
    <3>1. PICK i \in Nat, r \in Nat : r < z /\ x = i * z + r /\ x \div z = i
      BY <2>0, <3>0, Quotient
    <3>2. i >= 1
      BY <3>1, <2>2, <1>1
    <3>3. i * z \in Nat /\ (i * z) % z = 0 /\ i * z >= z
      <4> HIDE DEF z
      <4>1. i * z \in Nat /\ (i * z) % z = 0
        BY <3>0
      <4>2. i * z = (i - 1) * z + z /\ (i - 1) * z \in Nat
        BY <3>2, <3>0
      <4> QED BY <4>1, <4>2, <1>1
    <3>4. i * z \in InitIn(MaxOrder) /\ MaxOrder \in Slot /\ MaxOrder # MaxOrder + 1
      <4>1. InitIn(MaxOrder) = {p \in Nat : p % z = 0 /\ p >= z /\ p < f}
        BY <1>1 DEF InitIn
      <4> HIDE DEF z, f
      <4> QED BY <4>1, <3>1, <3>3, <2>2, <1>1 DEF Slot
    <3>5. i * z \in Page
      BY <3>4, InitSlot
    <3>6. Cells(<<i * z, MaxOrder>>) = (i * z) .. (i * z + z - 1)
      BY <3>4 DEF Cells, Block, c_to_uint32
    <3>7. x \in Cells(<<i * z, MaxOrder>>)
      <4> HIDE DEF z
      <4> QED BY <3>6, <3>1, <3>3, <1>1
    <3> QED BY <3>4, <3>5, <3>7, <1>2
  <2>3. CASE 2 <= x /\ x < z
    <3>1. PICK o \in Order : o # 0 /\ o < MaxOrder /\ Pow2[o] <= x /\ x < 2 * Pow2[o]
      BY <2>0, <2>3, OrderOf
    <3>2. o \in Slot /\ o # MaxOrder + 1 /\ o \in Nat /\ Pow2[o] \in Nat
      BY SlotFacts, Pow2Steps
    <3>3. Pow2[o] \in InitIn(o)
      BY <3>1 DEF InitIn
    <3>4. Cells(<<Pow2[o], o>>) = Pow2[o] .. (Pow2[o] + Pow2[o] - 1)
      BY <3>2 DEF Cells, Block, c_to_uint32
    <3>5. x \in Cells(<<Pow2[o], o>>)
      BY <3>1, <3>2, <3>4, <2>0
    <3>6. Pow2[o] \in Page
      BY <3>2, <3>3, InitSlot
    <3> QED BY <3>2, <3>3, <3>5, <3>6, <1>2
  <2>4. CASE x < 2
    <3>1. 0 \in Slot /\ 0 # MaxOrder + 1 /\ x \in InitIn(0) /\ Pow2[0] = 1
      BY <2>0, <2>4, <1>1, Pow2Steps DEF Slot, InitIn
    <3>2. Cells(<<x, 0>>) = x .. (x + 1 - 1)
      BY <3>1 DEF Cells, Block, c_to_uint32
    <3>3. x \in Cells(<<x, 0>>)
      BY <3>2, <2>0
    <3> QED BY <3>1, <3>3, <1>2
  <2> HIDE DEF z, f
  <2> QED BY <2>0, <2>1, <2>2, <2>3, <2>4, <1>1
<1>6. ASSUME NEW t \in T, NEW u \in T, t # u, NEW x \in Cells(t), x \in Cells(u) PROVE FALSE
  <2>1. PICK p \in Page, q \in Slot : t = <<p, q>> /\ p \in InitIn(q)
    BY <1>3
  <2>2. PICK r \in Page, s \in Slot : u = <<r, s>> /\ r \in InitIn(s)
    BY <1>3
  <2>3. /\ x \in Nat
        /\ Lowest(q) <= x /\ x < Beyond(q)
        /\ Lowest(s) <= x /\ x < Beyond(s)
    BY <1>6, <2>1, <2>2, InitSlot
  <2>4. /\ Lowest(q) \in Nat /\ Beyond(q) \in Nat /\ Lowest(s) \in Nat /\ Beyond(s) \in Nat
        /\ q < s => Beyond(q) <= Lowest(s)
        /\ s < q => Beyond(s) <= Lowest(q)
    BY SlotsInOrder
  <2>5. ~(q < s) /\ ~(s < q)
    BY <2>3, <2>4
  <2>6. q = s
    BY <2>5, SlotFacts
  <2>7. p # r
    BY <1>6, <2>1, <2>2, <2>6
  <2>8. Cells(<<p, q>>) \cap Cells(<<r, q>>) = {}
    BY <2>1, <2>2, <2>6, <2>7, InitSlot
  <2> QED BY <1>6, <2>1, <2>2, <2>6, <2>8
<1>7. Tiling(T)
  BY <1>4, <1>5, <1>6 DEF Tiling
<1>8. ListsOK(m) /\ T \cup {} = T
  BY InitLists DEF m
<1> QED BY <1>7, <1>8 DEF Good, m, T

-----------------------------------------------------------------------------
(***************************************************************************)
(* The tiles of the callers.                                               *)
(***************************************************************************)
HeldTiles == {TileOf(b) : b \in held}

(***************************************************************************)
(* An allocation: the block was in a list, and nobody held it.             *)
(***************************************************************************)
LEMMA HeldGrows ==
    ASSUME Good(pm, HeldTiles), HeldOK(held),
           NEW q \in Slot, NEW p \in Page, p \in In(pm, q),
           NEW s \in Order, q # MaxOrder + 1 => q = s, q = MaxOrder + 1 => s = 0,
           NEW w,
           held' = held \cup {[page |-> p, size |-> s, want |-> w]}
    PROVE  /\ HeldTiles' = HeldTiles \cup {<<p, q>>}
           /\ HeldOK(held')
           /\ \A b \in held : b.page # p
           /\ TileOf([page |-> p, size |-> s, want |-> w]) = <<p, q>>
<1> DEFINE a == [page |-> p, size |-> s, want |-> w]
<1>1. Legal(p, q)
  <2>1. <<p, q>> \in Tiles(pm)
    BY DEF Tiles
  <2> QED BY <2>1 DEF Good, Tiling
<1>2. a.page = p /\ a.size = s
  OBVIOUS
<1>3. TileOf(a) = <<p, q>>
  <2>1. /\ singel_page_first_no \in Nat /\ Pow2[q] \in Nat \ {0} /\ p \in Nat /\ q \in Nat
        /\ MaxOrder \in Nat /\ Pow2[MaxOrder] \in Nat \ {0} /\ NPages \in Nat
    BY FirstSingle, SlotFacts, Pow2Steps, PmmAssumption DEF Page
  <2>2. CASE q = MaxOrder + 1
    <3>1. p >= singel_page_first_no
      BY <1>1, <2>1, <2>2 DEF Legal
    <3> QED BY <2>2, <3>1, <1>2 DEF TileOf, SlotOf
  <2>3. CASE q # MaxOrder + 1
    <3>1. p + Pow2[q] <= singel_page_first_no
      <4>1. CASE q = MaxOrder
        BY <1>1, <2>1, <4>1, <2>3 DEF Legal
      <4>2. CASE q < MaxOrder
        <5>1. p <= Pow2[q] /\ 2 * Pow2[q] <= Pow2[MaxOrder]
          BY <1>1, <2>1, <2>3, <4>2, Pow2Grows DEF Legal
        <5>2. 2 * Pow2[MaxOrder] <= singel_page_first_no
          BY InitNumbers
        <5> QED BY <5>1, <5>2, <2>1
      <4> QED BY <4>1, <4>2, <2>3, <1>1 DEF Legal
    <3>2. ~(p >= singel_page_first_no)
      BY <3>1, <2>1
    <3>3. q = s
      BY <2>3
    <3> QED BY <3>2, <3>3, <1>2 DEF TileOf, SlotOf
  <2> QED BY <2>2, <2>3
<1>4. ASSUME NEW b \in held, b.page = p PROVE FALSE
  <2>1. SlotOf(b) \in Slot
    BY SlotFacts DEF SlotOf, HeldOK
  <2>2. <<p, SlotOf(b)>> \in HeldTiles
    BY <1>4 DEF HeldTiles, TileOf
  <2> QED BY <2>1, <2>2, OwnTile
<1>5. p >= singel_page_first_no => s = 0
  <2>1. TileOf(a)[2] = q
    BY <1>3
  <2>2. p >= singel_page_first_no => q = MaxOrder + 1
    BY <2>1, <1>2 DEF TileOf, SlotOf
  <2> QED BY <2>2
<1> HIDE DEF a
<1>6. held' = held \cup {a}
  BY DEF a
<1>7. HeldTiles' = HeldTiles \cup {<<p, q>>}
  BY <1>3, <1>6 DEF HeldTiles
<1>8. HeldOK(held')
  BY <1>2, <1>4, <1>5, <1>6 DEF HeldOK
<1> QED BY <1>3, <1>4, <1>7, <1>8 DEF a

(***************************************************************************)
(* A release: what the other callers hold stays as it is.                  *)
(***************************************************************************)
LEMMA HeldShrinks ==
    ASSUME HeldOK(held), NEW b \in held, held' = held \ {b}
    PROVE  /\ HeldTiles' = HeldTiles \ {TileOf(b)}
           /\ HeldOK(held')
           /\ TileOf(b) \in HeldTiles
<1>1. \A a \in held : a # b => TileOf(a) # TileOf(b)
  <2> TAKE a \in held
  <2> HAVE a # b
  <2>1. a.page # b.page
    BY DEF HeldOK
  <2> QED BY <2>1 DEF TileOf
<1>2. HeldTiles' = HeldTiles \ {TileOf(b)}
  BY <1>1 DEF HeldTiles
<1>3. HeldOK(held')
  BY DEF HeldOK
<1> QED BY <1>2, <1>3 DEF HeldTiles

-----------------------------------------------------------------------------
(***************************************************************************)
(* A number is less than the power of two it is the exponent of.           *)
(***************************************************************************)
LEMMA Pow2Above == \A n \in Nat : Pow2[n] > n
<1> DEFINE S == {n \in Nat : Pow2[n] > n}
<1>1. 0 \in S
  BY Pow2Steps
<1>2. ASSUME NEW n \in S PROVE n + 1 \in S
  <2>1. Pow2[n + 1] = 2 * Pow2[n] /\ Pow2[n] \in Nat /\ Pow2[n] > n /\ n \in Nat
    BY Pow2Steps
  <2>2. Pow2[n + 1] > n + 1
    BY <2>1
  <2> QED BY <2>2
<1>3. S = Nat
  <2> HIDE DEF S
  <2> QED BY <1>1, <1>2, SetInduction DEF S
<1> QED BY <1>3

(***************************************************************************)
(* pmm_alloc_pages counts the bits of the number of pages asked for.       *)
(***************************************************************************)
LEMMA BitsIs ==
    ASSUME NEW n \in Nat, n # 0
    PROVE  /\ Bits(n) \in Nat /\ Bits(n) # 0
           /\ Pow2[Bits(n)] > n /\ Pow2[Bits(n) - 1] <= n
<1> DEFINE S == {k \in Nat : Pow2[k] > n}
           P(k) == Pow2[k] > n /\ \A j \in 0 .. (k - 1) : Pow2[j] <= n
<1>1. n \in S
  BY Pow2Above
<1>2. PICK k \in S : \A j \in S : k <= j
  <2>1. S # {} /\ S \in SUBSET Nat
    BY <1>1
  <2> HIDE DEF S
  <2> QED BY <2>1, LeastNumber
<1>3. k \in 0 .. n /\ P(k)
  <2>1. k \in Nat /\ k <= n /\ Pow2[k] > n
    BY <1>1, <1>2
  <2>2. ASSUME NEW j \in 0 .. (k - 1) PROVE Pow2[j] <= n
    <3>1. j \in Nat /\ j < k
      BY <2>1
    <3>2. j \notin S /\ Pow2[j] \in Nat
      BY <3>1, <2>1, <1>2, Pow2Steps
    <3> QED BY <3>1, <3>2
  <2> QED BY <2>1, <2>2
<1>4. Bits(n) \in 0 .. n /\ P(Bits(n))
  <2>1. Bits(n) = CHOOSE j \in 0 .. n : P(j)
    BY DEF Bits
  <2> HIDE DEF P
  <2> QED BY <2>1, <1>3
<1>5. Bits(n) # 0
  BY <1>4, Pow2Steps
<1>6. Bits(n) \in Nat /\ Bits(n) - 1 \in 0 .. (Bits(n) - 1)
  BY <1>4, <1>5
<1> QED BY <1>4, <1>5, <1>6

(***************************************************************************)
(* OrderFor is the smallest order whose blocks have n pages.               *)
(***************************************************************************)
LEMMA OrderForIs ==
    ASSUME NEW n \in Nat, n # 0
    PROVE  LET o == OrderFor(n)
           IN  o \in Nat /\ Pow2[o] >= n /\ (o = 0 \/ Pow2[o - 1] < n)
<1> DEFINE k == Bits(n)
<1>1. k \in Nat /\ k # 0 /\ Pow2[k] > n /\ Pow2[k - 1] <= n
  BY BitsIs
<1>2. OrderFor(n) = IF n = Pow2[k - 1] THEN k - 1 ELSE k
  BY DEF OrderFor
<1> HIDE DEF k
<1>3. k - 1 \in Nat /\ Pow2[k - 1] \in Nat /\ Pow2[k] \in Nat
  BY <1>1, Pow2Steps
<1>4. CASE n = Pow2[k - 1]
  <2> DEFINE o == k - 1
  <2>1. OrderFor(n) = o /\ o \in Nat /\ Pow2[o] = n
    BY <1>2, <1>3, <1>4
  <2> HIDE DEF o
  <2>2. ASSUME o # 0 PROVE Pow2[o - 1] < n
    <3>1. o - 1 \in Nat /\ o - 1 < o
      BY <2>1, <2>2
    <3>2. 2 * Pow2[o - 1] <= Pow2[o] /\ Pow2[o - 1] \in Nat \ {0}
      BY <3>1, <2>1, Pow2Grows, Pow2Steps
    <3> QED BY <3>2, <2>1
  <2> QED BY <2>1, <2>2
<1>5. CASE n # Pow2[k - 1]
  <2>1. OrderFor(n) = k
    BY <1>2, <1>5
  <2> QED BY <2>1, <1>1, <1>3, <1>5
<1> QED BY <1>4, <1>5

(***************************************************************************)
(* HeldFits: pmm_alloc_pages gives a caller the smallest block that has    *)
(* the pages asked for, whatever happened to the lists before.             *)
(***************************************************************************)
THEOREM CallersGetWhatTheyNeed == PmmSpec => []HeldFits
<1>1. PmmInit => HeldFits
  BY DEF PmmInit, HeldFits
<1>2. HeldFits /\ [PmmNext]_pvars => HeldFits'
  <2> SUFFICES ASSUME HeldFits, [PmmNext]_pvars PROVE HeldFits'
    OBVIOUS
  <2> DEFINE Fits(b) == Pow2[b.size] >= b.want /\ (b.size = 0 \/ Pow2[b.size - 1] < b.want)
             Grows == \E b : held' = held \cup {b} /\ Fits(b)
  <2>0. Pow2[MaxOrder] \in Nat /\ Pow2[0] = 1
    BY Pow2Steps, PmmAssumption
  <2>1. ASSUME NEW n \in Nat, n # 0, pmm_alloc_pages(n) PROVE held' = held \/ Grows
    <3> DEFINE o == OrderFor(n)
    <3>1. o \in Nat /\ Pow2[o] >= n /\ (o = 0 \/ Pow2[o - 1] < n)
      BY <2>1, OrderForIs
    <3>2. PICK ph \in o .. MaxOrder :
             LET r == pop_block(pm, ph)
             IN  held' = held \/ held' = held \cup {[page |-> r.page, size |-> o, want |-> n]}
      BY <2>1 DEF pmm_alloc_pages
    <3> DEFINE b == [page |-> pop_block(pm, ph).page, size |-> o, want |-> n]
    <3>3. b.size = o /\ b.want = n
      OBVIOUS
    <3>4. held' = held \/ held' = held \cup {b}
      BY <3>2
    <3> HIDE DEF b, o
    <3>5. Fits(b)
      BY <3>1, <3>3
    <3> HIDE DEF Fits
    <3> QED BY <3>4, <3>5
  <2>2. ASSUME NEW n \in 1 .. Pow2[MaxOrder], pmm_alloc_pages(n) PROVE held' = held \/ Grows
    <3>1. n \in Nat /\ n # 0
      BY <2>0
    <3> HIDE DEF Grows
    <3> QED BY <3>1, <2>2, <2>1
  <2>3. ASSUME SingleAlloc PROVE held' = held \/ Grows
    <3> DEFINE b == [page |-> PopLast(pm.next, pm.single).page, size |-> 0, want |-> 1]
    <3>1. held' = held \/ held' = held \cup {b}
      BY <2>3 DEF SingleAlloc
    <3>2. b.size = 0 /\ b.want = 1
      OBVIOUS
    <3> HIDE DEF b
    <3>3. Fits(b)
      BY <3>2, <2>0
    <3> HIDE DEF Fits
    <3> QED BY <3>1, <3>3
  <2>4. ASSUME pmm_alloc_one_page PROVE held' = held \/ Grows
    <3> HIDE DEF Grows
    <3>1. 1 \in Nat /\ 1 # 0
      OBVIOUS
    <3> QED BY <2>1, <2>3, <2>4, <3>1 DEF pmm_alloc_one_page
  <2>5. ASSUME NEW b \in held, pmm_free_page(b) PROVE held' \subseteq held
    BY <2>5 DEF pmm_free_page
  <2>6. CASE UNCHANGED pvars
    BY <2>6 DEF pvars, HeldFits
  <2>7. CASE PmmNext
    <3>1. held' \subseteq held \/ Grows
      <4> HIDE DEF Grows
      <4> QED BY <2>7, <2>2, <2>4, <2>5 DEF PmmNext
    <3>2. CASE held' \subseteq held
      BY <3>2 DEF HeldFits
    <3>3. CASE Grows
      <4>1. PICK b : held' = held \cup {b} /\ Fits(b)
        BY <3>3
      <4> QED BY <4>1 DEF HeldFits
    <3> QED BY <3>1, <3>2, <3>3
  <2> QED BY <2>6, <2>7
<1> QED BY <1>1, <1>2, PTL DEF PmmSpec

-----------------------------------------------------------------------------
GoodState == Good(pm, HeldTiles) /\ HeldOK(held)

\* A step that gives the tile <<p, q>> to a caller.
Allocates(p, q, a) ==
    /\ p \in In(pm, q)
    /\ a \notin held
    /\ held' = held \cup {a}
    /\ a.page = p /\ a.size \in Order /\ TileOf(a) = <<p, q>>
    /\ HeldTiles' = HeldTiles \cup {<<p, q>>}
    /\ Tiles(pm') = Tiles(pm) \ {<<p, q>>}
    /\ GoodState'

\* A step that takes the block of a caller back, perhaps merged into the tile t.
Releases(b, t) ==
    /\ held' = held \ {b}
    /\ Tiles(pm') \subseteq Tiles(pm) \cup {t}
    /\ t[2] < MaxOrder => \A q \in In(pm', t[2]) : q = t[1]
    /\ GoodState'

(***************************************************************************)
(* alloc_helper does nothing when the block has the size asked for.        *)
(***************************************************************************)
LEMMA NothingPutBack ==
    ASSUME NEW m, NEW o \in Nat, NEW p, NEW x \in alloc_helper(m, o, o, p)
    PROVE  x = m
<1> DEFINE Step(back, k) ==
               IF k = 0 THEN {m}
               ELSE UNION {append_block(y, p + c_to_uint32(o - k + 1) \div 2, p - 1)
                               : y \in back[k - 1]}
           F(back) == back = [k \in 0 .. (o - o) |-> Step(back, k)]
           G == CHOOSE back : F(back)
<1>1. o - o = 0 /\ \A k \in 0 .. 0 : k = 0
  OBVIOUS
<1>2. F([k \in 0 .. (o - o) |-> {m}])
  BY <1>1
<1>3. F(G)
  <2>1. \E back : F(back)
    <3> HIDE DEF F
    <3> QED BY <1>2
  <2> HIDE DEF F
  <2> QED BY <2>1
<1>4. G[0] = {m}
  <2>1. 0 \in 0 .. (o - o)
    BY <1>1
  <2> HIDE DEF G
  <2> QED BY <1>3, <2>1
<1>5. alloc_helper(m, o, o, p) = G[o - o]
  BY DEF alloc_helper
<1> QED BY <1>1, <1>4, <1>5

(***************************************************************************)
(* pmm_alloc_pages without splitting.                                      *)
(***************************************************************************)
LEMMA AllocStep ==
    ASSUME GoodState, NEW n \in Nat, n # 0, pmm_alloc_pages(n), ~split'
    PROVE  \E p \in Page, q \in Slot : \E a : Allocates(p, q, a)
<1> DEFINE o == OrderFor(n)
<1>1. o \in Nat
  BY OrderForIs
<1> DEFINE R(ph) == pop_block(pm, ph)
           A(ph) == [page |-> R(ph).page, size |-> o, want |-> n]
           Step(ph) == /\ pm.head[ph] # NULL
                       /\ IF R(ph).pm.stuck
                          THEN pm' = R(ph).pm /\ UNCHANGED <<held, split>>
                          ELSE /\ pm' \in alloc_helper(R(ph).pm, o, ph, R(ph).page)
                               /\ held' = held \cup {A(ph)}
                               /\ split' = (split \/ ph # o)
<1>2. PICK ph \in o .. MaxOrder : Step(ph)
  BY DEF pmm_alloc_pages
<1>3. ph \in Order
  BY <1>1, PmmAssumption DEF Order
<1> DEFINE r == R(ph)
           p == r.page
           a == A(ph)
<1>4. /\ ~r.pm.stuck
      /\ p \in Page /\ p \in In(pm, ph)
      /\ Good(r.pm, HeldTiles \cup {<<p, ph>>})
      /\ Tiles(r.pm) = Tiles(pm) \ {<<p, ph>>}
  BY <1>2, <1>3, PopBlock DEF GoodState
<1>5. /\ pm' \in alloc_helper(r.pm, o, ph, p)
      /\ held' = held \cup {a}
      /\ split' = (split \/ ph # o)
  BY <1>2, <1>4
<1>6. ph = o
  BY <1>5, Zenon
<1>7. pm' = r.pm
  <2> DEFINE m == r.pm
  <2>1. pm' \in alloc_helper(m, o, o, p)
    BY <1>5, <1>6
  <2> HIDE DEF m, p, o
  <2>2. pm' = m
    BY <1>1, <2>1, NothingPutBack
  <2> QED BY <2>2 DEF m
<1>8. ph \in Slot /\ ph # MaxOrder + 1
  BY <1>3, SlotFacts
<1> HIDE DEF r, p, o
<1>9. a = [page |-> p, size |-> ph, want |-> n]
  BY <1>6 DEF p, r
<1> HIDE DEF a
<1>10. /\ HeldTiles' = HeldTiles \cup {<<p, ph>>}
       /\ HeldOK(held')
       /\ \A b \in held : b.page # p
       /\ TileOf([page |-> p, size |-> ph, want |-> n]) = <<p, ph>>
  BY <1>3, <1>4, <1>5, <1>8, <1>9, HeldGrows DEF GoodState
<1>11. TileOf(a) = <<p, ph>> /\ a.page = p /\ a.size = ph
  BY <1>9, <1>10
<1>12. GoodState'
  BY <1>4, <1>7, <1>10 DEF GoodState
<1>13. Allocates(p, ph, a)
  BY <1>3, <1>4, <1>5, <1>7, <1>10, <1>11, <1>12 DEF Allocates
<1> QED BY <1>4, <1>8, <1>13

(***************************************************************************)
(* pmm_alloc_one_page from the buffer.                                     *)
(***************************************************************************)
LEMMA SingleAllocStep ==
    ASSUME GoodState, SingleAlloc
    PROVE  \E p \in Page, q \in Slot : \E a : Allocates(p, q, a)
<1> DEFINE r == PopLast(pm.next, pm.single)
           n == [pm EXCEPT !.single = r.head, !.next = r.next]
           p == r.page
           q == MaxOrder + 1
           a == [page |-> p, size |-> 0, want |-> 1]
<1>1. /\ Ends(pm.next, pm.single)
      /\ p \in Page /\ p \in In(pm, q)
      /\ Good(n, HeldTiles \cup {<<p, q>>})
      /\ Tiles(n) = Tiles(pm) \ {<<p, q>>}
  BY PopSingle DEF SingleAlloc, GoodState
<1>2. pm' = n /\ held' = held \cup {a}
  BY <1>1 DEF SingleAlloc
<1>3. q \in Slot /\ 0 \in Order
  BY SlotFacts, PmmAssumption DEF Order
<1> HIDE DEF r, n, p, q
<1>4. /\ HeldTiles' = HeldTiles \cup {<<p, q>>}
      /\ HeldOK(held')
      /\ \A b \in held : b.page # p
      /\ TileOf(a) = <<p, q>>
  <2>1. q = MaxOrder + 1
    BY DEF q
  <2> QED BY <1>1, <1>2, <1>3, <2>1, HeldGrows DEF GoodState
<1>5. a.page = p /\ a.size = 0
  OBVIOUS
<1> HIDE DEF a
<1>6. GoodState'
  BY <1>1, <1>2, <1>4 DEF GoodState
<1>7. Allocates(p, q, a)
  BY <1>1, <1>2, <1>3, <1>4, <1>5, <1>6 DEF Allocates
<1> QED BY <1>1, <1>3, <1>7

(***************************************************************************)
(* pmm_free_page without a merge beyond the largest size.                  *)
(***************************************************************************)
LEMMA FreeStep ==
    ASSUME GoodState, NEW b \in held, pmm_free_page(b), ~over'
    PROVE  \E t \in Page \X Slot : Releases(b, t)
<1> DEFINE u == TileOf(b)
           B == HeldTiles \ {u}
<1>1. held' = held \ {b}
  BY DEF pmm_free_page
<1>2. HeldTiles' = B /\ HeldOK(held') /\ u \in HeldTiles
  BY <1>1, HeldShrinks DEF GoodState
<1>3. Good(pm, B \cup {u}) /\ u \notin B
  <2>1. B \cup {u} = HeldTiles
    BY <1>2
  <2> QED BY <2>1 DEF GoodState
<1>4. b.page \in Page /\ b.size \in Order
  BY DEF GoodState, HeldOK
<1>5. CASE SingleFree(b)
  <2> DEFINE q == MaxOrder + 1
             p == b.page
  <2>1. p >= singel_page_first_no /\ pm' = IF pm.single = NULL THEN [pm EXCEPT !.single = p]
                                            ELSE LinkLast(pm, pm.single, p)
    BY <1>5 DEF SingleFree
  <2>2. u = <<p, q>> /\ q \in Slot /\ MaxOrder \in Nat
    BY <2>1, SlotFacts DEF TileOf, SlotOf
  <2>3. Good(pm', HeldTiles \ {<<p, q>>}) /\ Tiles(pm') = Tiles(pm) \cup {<<p, q>>}
    <3>1. /\ pm.single = NULL => pm' = [pm EXCEPT !.single = p]
          /\ pm.single # NULL => pm' = LinkLast(pm, pm.single, p)
      BY <2>1
    <3>2. Good(pm, HeldTiles) /\ <<p, q>> \in HeldTiles /\ p \in Page
      BY <1>2, <1>4, <2>2 DEF GoodState
    <3> HIDE DEF p
    <3> QED BY <3>1, <3>2, AppendSingle
  <2>4. GoodState'
    BY <1>2, <2>2, <2>3 DEF GoodState
  <2>5. u \in Page \X Slot /\ ~(u[2] < MaxOrder)
    BY <2>2, <1>4
  <2> HIDE DEF u, p, q
  <2>6. Releases(b, u)
    BY <1>1, <2>2, <2>3, <2>4, <2>5 DEF Releases
  <2> QED BY <2>5, <2>6
<1>6. CASE b.page < singel_page_first_no /\ free_helper(b.page, b.size)
  <2> DEFINE p == b.page
             s == b.size
  <2>1. u = <<p, s>>
    <3>1. ~(p >= singel_page_first_no)
      <4>1. p \in Nat /\ singel_page_first_no \in Nat /\ p < singel_page_first_no
        BY <1>4, <1>6, FirstSingle DEF Page
      <4> QED BY <4>1
    <3> QED BY <3>1 DEF TileOf, SlotOf
  <2>2. <<p, s>> \notin B /\ Good(pm, B \cup {<<p, s>>}) /\ free_helper(p, s)
        /\ p \in Page /\ s \in Order
    BY <1>3, <1>4, <1>6, <2>1
  <2> HIDE DEF p, s, B, u
  <2>3. /\ Good(pm', B)
        /\ \E t \in Page \X Order :
              /\ Tiles(pm') \subseteq Tiles(pm) \cup {t}
              /\ t \in Tiles(pm')
              /\ t[2] < MaxOrder => \A q \in In(pm', t[2]) : q = t[1]
    BY <2>2, FreeHelper
  <2>4. GoodState'
    BY <1>2, <2>3 DEF GoodState
  <2>5. Page \X Order \subseteq Page \X Slot
    BY SlotFacts
  <2> QED BY <1>1, <2>3, <2>4, <2>5 DEF Releases
<1> QED BY <1>5, <1>6 DEF pmm_free_page

-----------------------------------------------------------------------------
(***************************************************************************)
(* Every step of the allocator before the first split or over-large merge  *)
(* is an allocation or a release.                                          *)
(***************************************************************************)
LEMMA StepKinds ==
    ASSUME GoodState, PmmNext, ~split', ~over'
    PROVE  \/ \E p \in Page, q \in Slot : \E a : Allocates(p, q, a)
           \/ \E b \in held : \E t \in Page \X Slot : Releases(b, t)
<1> DEFINE Goal == \E p \in Page, q \in Slot : \E a : Allocates(p, q, a)
<1>1. ASSUME NEW n \in 1 .. Pow2[MaxOrder], pmm_alloc_pages(n) PROVE Goal
  <2>1. n \in Nat /\ n # 0
    BY Pow2Steps, PmmAssumption
  <2> QED BY <1>1, <2>1, AllocStep
<1>2. ASSUME pmm_alloc_one_page PROVE Goal
  <2>1. CASE SingleAlloc
    BY <2>1, SingleAllocStep
  <2>2. CASE pmm_alloc_pages(1)
    <3>1. 1 \in Nat /\ 1 # 0
      OBVIOUS
    <3> QED BY <2>2, <3>1, AllocStep
  <2> QED BY <1>2, <2>1, <2>2 DEF pmm_alloc_one_page
<1> HIDE DEF Goal
<1>3. ASSUME NEW b \in held, pmm_free_page(b) PROVE \E t \in Page \X Slot : Releases(b, t)
  BY <1>3, FreeStep
<1>4. Goal \/ \E b \in held : pmm_free_page(b)
  BY <1>1, <1>2 DEF PmmNext
<1> QED BY <1>3, <1>4 DEF Goal

(***************************************************************************)
(* A step never clears split or over.                                      *)
(***************************************************************************)
LEMMA FaultsStay ==
    ASSUME [PmmNext]_pvars, ~split', ~over'
    PROVE  ~split /\ ~over
<1>1. ASSUME NEW n, pmm_alloc_pages(n) PROVE ~split /\ ~over
  <2>1. over' = over /\ (split' = split \/ \E x, y : split' = (split \/ x # y))
    BY <1>1 DEF pmm_alloc_pages
  <2>2. ASSUME NEW x, NEW y, split' = (split \/ x # y) PROVE ~split
    BY <2>2, Zenon
  <2>3. over' = over => ~over
    OBVIOUS
  <2>4. split' = split => ~split
    OBVIOUS
  <2> QED BY <2>1, <2>2, <2>3, <2>4
<1>2. ASSUME pmm_alloc_one_page PROVE ~split /\ ~over
  BY <1>1, <1>2 DEF pmm_alloc_one_page, SingleAlloc
<1>3. ASSUME NEW b, pmm_free_page(b) PROVE ~split /\ ~over
  <2>1. split' = split /\ (over' = over \/ \E x : over' = (over \/ x > MaxOrder))
    BY <1>3 DEF pmm_free_page, SingleFree, free_helper
  <2>2. ASSUME NEW x, over' = (over \/ x > MaxOrder) PROVE ~over
    BY <2>2, Zenon
  <2>3. over' = over => ~over
    OBVIOUS
  <2>4. split' = split => ~split
    OBVIOUS
  <2> QED BY <2>1, <2>2, <2>3, <2>4, SMTT(30)
<1> QED BY <1>1, <1>2, <1>3 DEF PmmNext, pvars

(***************************************************************************)
(* The inductive invariant holds: as long as no larger block was split and *)
(* no two largest ones were merged, the lists are sequences of pages that  *)
(* share the pages with the callers.                                       *)
(***************************************************************************)
LEMMA PmmInvHolds == PmmSpec => []PmmInv
<1>0. PmmInv <=> (~split /\ ~over => GoodState)
  BY DEF PmmInv, GoodState, HeldTiles
<1>1. PmmInit => PmmInv
  <2> SUFFICES ASSUME PmmInit PROVE GoodState
    BY <1>0
  <2>1. pm = pmm_page_init /\ held = {}
    BY DEF PmmInit
  <2>2. HeldTiles = {} /\ HeldOK(held)
    BY <2>1 DEF HeldTiles, HeldOK
  <2> QED BY <2>1, <2>2, InitGood DEF GoodState
<1>2. PmmInv /\ [PmmNext]_pvars => PmmInv'
  <2> SUFFICES ASSUME PmmInv, [PmmNext]_pvars, ~split', ~over' PROVE GoodState'
    BY DEF PmmInv, GoodState, HeldTiles
  <2>1. GoodState
    BY <1>0, FaultsStay
  <2>2. CASE UNCHANGED pvars
    BY <2>1, <2>2 DEF pvars, GoodState, HeldTiles
  <2>3. CASE PmmNext
    BY <2>1, <2>3, StepKinds DEF Allocates, Releases
  <2> QED BY <2>2, <2>3
<1> QED BY <1>1, <1>2, PTL DEF PmmSpec

-----------------------------------------------------------------------------
\* The block of a tile, as Free, Singles and Held have it.
BlockOf(t) == IF t[2] = MaxOrder + 1 THEN <<t[1], 0>> ELSE t

\* The tiles of the callers with the blocks of H.
TilesOf(H) == {TileOf(b) : b \in H}

(***************************************************************************)
(* Free and Singles list the tiles of the lists.                           *)
(***************************************************************************)
LEMMA FreeIs ==
    ASSUME NEW m, ListsOK(m)
    PROVE  LET F == UNION {{<<p, o>> : p \in ToSet(Chain(m.next, m.head[o]))} : o \in Order}
               S == {<<p, 0>> : p \in ToSet(Chain(m.next, m.single))}
           IN  /\ F = {t \in Tiles(m) : t[2] \in Order}
               /\ S = {BlockOf(t) : t \in {u \in Tiles(m) : u[2] = MaxOrder + 1}}
               /\ F \cup S = {BlockOf(t) : t \in Tiles(m)}
<1> DEFINE F == UNION {{<<p, o>> : p \in ToSet(Chain(m.next, m.head[o]))} : o \in Order}
           S == {<<p, 0>> : p \in ToSet(Chain(m.next, m.single))}
           X == MaxOrder + 1
<1>1. \A q \in Slot : In(m, q) \subseteq Page
  BY ListElements DEF ListsOK, In
<1>2. /\ \A o \in Order : ToSet(Chain(m.next, m.head[o])) = In(m, o)
      /\ ToSet(Chain(m.next, m.single)) = In(m, X)
  BY SlotFacts DEF In, ListOf, HeadOf
<1>3. F = UNION {{<<p, o>> : p \in In(m, o)} : o \in Order}
  BY <1>2
<1>4. S = {<<p, 0>> : p \in In(m, X)}
  BY <1>2
<1>5. \A t : t \in Tiles(m) <=> \E p \in Page, q \in Slot : t = <<p, q>> /\ p \in In(m, q)
  BY DEF Tiles
<1>6. X \in Slot /\ X \notin Order /\ Order \subseteq Slot /\ \A q \in Slot : q # X => q \in Order
  BY SlotFacts
<1> HIDE DEF F, S, X
<1>7. F = {t \in Tiles(m) : t[2] \in Order}
  <2>1. ASSUME NEW t \in F PROVE t \in Tiles(m) /\ t[2] \in Order
    <3>1. PICK o \in Order : \E p \in In(m, o) : t = <<p, o>>
      BY <1>3
    <3>2. PICK p \in In(m, o) : t = <<p, o>>
      BY <3>1
    <3> QED BY <3>2, <1>1, <1>5, <1>6
  <2>2. ASSUME NEW t \in Tiles(m), t[2] \in Order PROVE t \in F
    <3>1. PICK p \in Page, q \in Slot : t = <<p, q>> /\ p \in In(m, q)
      BY <1>5
    <3>2. q \in Order
      BY <2>2, <3>1
    <3> QED BY <3>1, <3>2, <1>3
  <2> QED BY <2>1, <2>2
<1>8. ASSUME NEW p \in Page, NEW q \in Slot
      PROVE  BlockOf(<<p, q>>) = IF q = X THEN <<p, 0>> ELSE <<p, q>>
  BY DEF BlockOf, X
<1>9. S = {BlockOf(t) : t \in {u \in Tiles(m) : u[2] = X}}
  <2>1. ASSUME NEW s \in S PROVE \E t \in Tiles(m) : t[2] = X /\ s = BlockOf(t)
    <3>1. PICK p \in In(m, X) : s = <<p, 0>>
      BY <1>4
    <3>2. p \in Page /\ <<p, X>> \in Tiles(m) /\ BlockOf(<<p, X>>) = s /\ <<p, X>>[2] = X
      BY <3>1, <1>1, <1>5, <1>6, <1>8
    <3> QED BY <3>2
  <2>2. ASSUME NEW t \in Tiles(m), t[2] = X PROVE BlockOf(t) \in S
    <3>1. PICK p \in Page, q \in Slot : t = <<p, q>> /\ p \in In(m, q)
      BY <1>5
    <3>2. q = X /\ BlockOf(t) = <<p, 0>>
      BY <2>2, <3>1, <1>8
    <3> QED BY <3>1, <3>2, <1>4
  <2> QED BY <2>1, <2>2
<1>10. \A t \in Tiles(m) : (t[2] = X \/ t[2] \in Order) /\ (t[2] \in Order => BlockOf(t) = t)
  <2> TAKE t \in Tiles(m)
  <2>1. PICK p \in Page, q \in Slot : t = <<p, q>> /\ p \in In(m, q)
    BY <1>5
  <2> QED BY <2>1, <1>6, <1>8
<1>11. F \cup S = {BlockOf(t) : t \in Tiles(m)}
  BY <1>7, <1>9, <1>10
<1> QED BY <1>7, <1>9, <1>11 DEF F, S, X

(***************************************************************************)
(* Held lists the tiles of the callers, and every tile has the pages of    *)
(* its block.                                                              *)
(***************************************************************************)
LEMMA HeldIs ==
    ASSUME NEW H, HeldOK(H)
    PROVE  /\ {<<b.page, b.size>> : b \in H} = {BlockOf(t) : t \in TilesOf(H)}
           /\ \A b \in H : Cells(TileOf(b)) = Block(b.page, b.size)
<1>1. ASSUME NEW b \in H
      PROVE  BlockOf(TileOf(b)) = <<b.page, b.size>> /\ Cells(TileOf(b)) = Block(b.page, b.size)
  <2>1. /\ b.page \in Page /\ b.size \in Order /\ b.size # MaxOrder + 1
        /\ b.page >= singel_page_first_no => b.size = 0
    BY SlotFacts DEF HeldOK
  <2>2. CASE b.page >= singel_page_first_no
    <3>1. TileOf(b) = <<b.page, MaxOrder + 1>> /\ b.size = 0
      BY <2>1, <2>2 DEF TileOf, SlotOf
    <3>2. Block(b.page, 0) = {b.page}
      <4>1. Pow2[0] = 1 /\ b.page \in Int
        BY <2>1, Pow2Steps DEF Page
      <4> QED BY <4>1 DEF Block, c_to_uint32
    <3> QED BY <3>1, <3>2 DEF BlockOf, Cells
  <2>3. CASE ~(b.page >= singel_page_first_no)
    <3>1. TileOf(b) = <<b.page, b.size>>
      BY <2>3 DEF TileOf, SlotOf
    <3> QED BY <3>1, <2>1 DEF BlockOf, Cells
  <2> QED BY <2>2, <2>3
<1> QED BY <1>1 DEF TilesOf

(***************************************************************************)
(* A tile has the pages of its block.                                      *)
(***************************************************************************)
LEMMA CellsOfBlock ==
    ASSUME NEW t \in Page \X Slot
    PROVE  Block(BlockOf(t)[1], BlockOf(t)[2]) = Cells(t)
<1>1. PICK p \in Page, q \in Slot : t = <<p, q>>
  OBVIOUS
<1>2. CASE q = MaxOrder + 1
  <2>1. Block(p, 0) = {p}
    <3>1. Pow2[0] = 1 /\ p \in Int
      BY Pow2Steps DEF Page
    <3> QED BY <3>1 DEF Block, c_to_uint32
  <2> QED BY <1>1, <1>2, <2>1 DEF BlockOf, Cells
<1>3. CASE q # MaxOrder + 1
  BY <1>1, <1>3 DEF BlockOf, Cells
<1> QED BY <1>2, <1>3

(***************************************************************************)
(* ListsSound: before the first split or over-large merge every walk of    *)
(* the allocator along a list ends, and every free block starts at a       *)
(* multiple of its size.                                                   *)
(***************************************************************************)
THEOREM ListsStaySound == PmmSpec => []ListsSound
<1>1. PmmInv => ListsSound
  <2> SUFFICES ASSUME PmmInv, ~split, ~over
               PROVE  /\ ~pm.stuck
                      /\ \A o \in Order : Ends(pm.next, pm.head[o])
                      /\ Ends(pm.next, pm.single)
                      /\ \A b \in Free : b[1] % c_to_uint32(b[2]) = 0
    BY DEF ListsSound
  <2>1. ListsOK(pm) /\ \A t \in Tiles(pm) : Legal(t[1], t[2])
    BY DEF PmmInv, Good, Tiling
  <2>2. \A q \in Slot : Ends(pm.next, HeadOf(pm, q))
    BY <2>1, ChainIs DEF ListsOK
  <2>3. (\A o \in Order : Ends(pm.next, pm.head[o])) /\ Ends(pm.next, pm.single)
    BY <2>2, SlotFacts DEF HeadOf
  <2>4. Free = {t \in Tiles(pm) : t[2] \in Order}
    BY <2>1, FreeIs DEF Free
  <2>5. ASSUME NEW b \in Free PROVE b[1] % c_to_uint32(b[2]) = 0
    <3>1. PICK p \in Page, o \in Order : b = <<p, o>> /\ Legal(p, o)
      BY <2>1, <2>4, <2>5 DEF Tiles
    <3>2. o # MaxOrder + 1 /\ o \in Nat /\ Pow2[o] \in Nat \ {0}
      BY SlotFacts, Pow2Steps
    <3>3. p % Pow2[o] = 0
      <4>1. 0 % Pow2[o] = 0 /\ Pow2[o] % Pow2[o] = 0
        BY <3>2
      <4> QED BY <3>1, <3>2, <4>1 DEF Legal
    <3> QED BY <3>1, <3>3 DEF c_to_uint32
  <2> QED BY <2>1, <2>3, <2>5 DEF ListsOK
<1> QED BY <1>1, PmmInvHolds, PTL

(***************************************************************************)
(* Partition: before the first split or over-large merge every page is in  *)
(* exactly one place, a free list, the buffer of single pages or a block   *)
(* of a caller.                                                            *)
(***************************************************************************)
THEOREM PagesAreShared == PmmSpec => []Partition
<1>1. PmmInv => Partition
  <2> DEFINE blocks == Free \cup Singles \cup Held
             S(x) == {b \in blocks : x \in Block(b[1], b[2])}
  <2> SUFFICES ASSUME PmmInv, ~split, ~over, NEW x \in Page PROVE Cardinality(S(x)) = 1
    BY DEF Partition
  <2> DEFINE T == Tiles(pm) \cup TilesOf(held)
  <2>1. Good(pm, TilesOf(held)) /\ HeldOK(held)
    BY DEF PmmInv, TilesOf
  <2>2. Tiling(T) /\ ListsOK(pm) /\ T \subseteq Page \X Slot
    BY <2>1 DEF Good, Tiles
  <2>3. Free \cup Singles = {BlockOf(t) : t \in Tiles(pm)}
    BY <2>2, FreeIs DEF Free, Singles
  <2>4. Held = {BlockOf(t) : t \in TilesOf(held)}
    BY <2>1, HeldIs DEF Held
  <2>5. blocks = {BlockOf(t) : t \in T}
    BY <2>3, <2>4
  <2>6. \A t \in T : Block(BlockOf(t)[1], BlockOf(t)[2]) = Cells(t)
    BY <2>2, CellsOfBlock
  <2> HIDE DEF T, blocks
  <2>7. PICK t \in T : x \in Cells(t)
    BY <2>2 DEF Tiling
  <2>8. \A u \in T : x \in Cells(u) => u = t
    BY <2>2, <2>7 DEF Tiling
  <2>9. S(x) = {BlockOf(t)}
    <3>1. BlockOf(t) \in S(x)
      BY <2>5, <2>6, <2>7
    <3>2. ASSUME NEW b \in S(x) PROVE b = BlockOf(t)
      <4>1. PICK u \in T : b = BlockOf(u)
        BY <2>5
      <4>2. x \in Cells(u)
        BY <4>1, <2>6
      <4> QED BY <4>1, <4>2, <2>8
    <3> HIDE DEF S
    <3> QED BY <3>1, <3>2
  <2> HIDE DEF S
  <2> QED BY <2>9, FS_Singleton
<1> QED BY <1>1, PmmInvHolds, PTL

-----------------------------------------------------------------------------
(***************************************************************************)
(* pmm_alloc_pages hands out a block that nobody holds, whether or not it  *)
(* splits one.                                                             *)
(***************************************************************************)
LEMMA AllocGrows ==
    ASSUME GoodState, NEW n, pmm_alloc_pages(n), OrderFor(n) \in Nat
    PROVE  ~(held' \subseteq held)
<1> DEFINE o == OrderFor(n)
           R(ph) == pop_block(pm, ph)
           A(ph) == [page |-> R(ph).page, size |-> o, want |-> n]
<1>1. PICK ph \in o .. MaxOrder :
         /\ pm.head[ph] # NULL
         /\ ~R(ph).pm.stuck => held' = held \cup {A(ph)}
  BY DEF pmm_alloc_pages
<1>2. ph \in Order /\ ph \in Slot
  BY <1>1, SlotFacts, PmmAssumption DEF Order
<1>3. ~R(ph).pm.stuck /\ R(ph).page \in Page /\ R(ph).page \in In(pm, ph)
  BY <1>1, <1>2, PopBlock DEF GoodState
<1>4. A(ph) \in held' /\ A(ph).page = R(ph).page
  BY <1>1, <1>3
<1> HIDE DEF R, A, o
<1>5. ASSUME A(ph) \in held PROVE FALSE
  <2>1. SlotOf(A(ph)) \in Slot
    BY <1>5, SlotFacts DEF SlotOf, GoodState, HeldOK
  <2>2. <<R(ph).page, SlotOf(A(ph))>> \in HeldTiles
    BY <1>4, <1>5 DEF HeldTiles, TileOf
  <2> QED BY <1>2, <1>3, <2>1, <2>2, OwnTile DEF GoodState
<1> QED BY <1>4, <1>5

(***************************************************************************)
(* MergesWithBuddy: a release leaves no free buddy beside the block that   *)
(* it puts into a list, below the largest size.                            *)
(***************************************************************************)
THEOREM BuddiesMerge == SoundSpec => MergesWithBuddy
<1> DEFINE A == held' \subseteq held /\ ~over' =>
                    \A b \in Free' \ Free, q \in Page :
                        b[2] < MaxOrder /\ AreBuddies(b[1], q, b[2]) => <<q, b[2]>> \notin Free'
<1>1. [SoundNext]_pvars => [PmmNext]_pvars
  BY DEF SoundNext
<1>2. PmmInv /\ [SoundNext]_pvars => [A]_pvars
  <2> SUFFICES ASSUME PmmInv, SoundNext, held' \subseteq held, ~over',
                      NEW b \in Free' \ Free, NEW q \in Page,
                      b[2] < MaxOrder, AreBuddies(b[1], q, b[2]), <<q, b[2]>> \in Free'
               PROVE  FALSE
    OBVIOUS
  <2>1. GoodState /\ PmmNext
    BY DEF SoundNext, PmmInv, GoodState, HeldTiles
  <2>2. PICK h \in held : pmm_free_page(h)
    <3>1. ASSUME NEW n \in Nat, n # 0, pmm_alloc_pages(n) PROVE FALSE
      BY <2>1, <3>1, AllocGrows, OrderForIs
    <3>2. ASSUME SingleAlloc PROVE FALSE
      BY <2>1, <3>2, SingleAllocStep DEF Allocates
    <3>3. ASSUME NEW n \in 1 .. Pow2[MaxOrder], pmm_alloc_pages(n) PROVE FALSE
      <4>1. n \in Nat /\ n # 0
        BY Pow2Steps, PmmAssumption
      <4> QED BY <3>1, <3>3, <4>1
    <3>4. ASSUME pmm_alloc_one_page PROVE FALSE
      <4>1. 1 \in Nat /\ 1 # 0
        OBVIOUS
      <4> QED BY <3>1, <3>2, <3>4, <4>1 DEF pmm_alloc_one_page
    <3> QED BY <2>1, <3>3, <3>4 DEF PmmNext
  <2>3. PICK t \in Page \X Slot : Releases(h, t)
    BY <2>1, <2>2, FreeStep
  <2>4. ListsOK(pm) /\ ListsOK(pm')
    BY <2>1, <2>3 DEF Releases, GoodState, Good
  <2>5. Free = {u \in Tiles(pm) : u[2] \in Order}
    BY <2>4, FreeIs DEF Free
  <2>6. Free' = {u \in Tiles(pm') : u[2] \in Order}
    BY <2>4, FreeIs DEF Free
  <2>7. b \in Tiles(pm') /\ b \notin Tiles(pm)
    BY <2>5, <2>6
  <2>8. b = t
    BY <2>3, <2>7 DEF Releases
  <2>9. q \in In(pm', b[2])
    BY <2>6, <2>7, <2>8 DEF Tiles
  <2>10. q = b[1]
    BY <2>3, <2>8, <2>9 DEF Releases
  <2> QED BY <2>10 DEF AreBuddies
<1>3. SoundSpec => []PmmInv
  BY <1>1, PmmInvHolds, PTL DEF SoundSpec, PmmSpec
<1>4. MergesWithBuddy <=> [][A]_pvars
  BY DEF MergesWithBuddy
<1> QED BY <1>2, <1>3, <1>4, PTL DEF SoundSpec

-----------------------------------------------------------------------------
(***************************************************************************)
(* The pages of the lists are the ones no caller holds; a caller's pages   *)
(* are pages, and no other caller's.                                       *)
(***************************************************************************)
LEMMA FreePages ==
    ASSUME NEW m, NEW H, Good(m, TilesOf(H)), HeldOK(H)
    PROVE  /\ UNION {Cells(t) : t \in Tiles(m)} =
                  {x \in Page : \A b \in H : x \notin Block(b.page, b.size)}
           /\ \A b \in H : b.page \in Block(b.page, b.size) /\ Block(b.page, b.size) \subseteq Page
           /\ \A a, b \in H : a # b => Block(a.page, a.size) \cap Block(b.page, b.size) = {}
<1> DEFINE B == TilesOf(H)
           T == Tiles(m) \cup B
           C(b) == Block(b.page, b.size)
<1>1. /\ Tiling(T) /\ T \subseteq Page \X Slot /\ Tiles(m) \cap B = {}
  BY DEF Good, Tiles
<1>2. \A b \in H : Cells(TileOf(b)) = C(b) /\ TileOf(b) \in B /\ TileOf(b)[1] = b.page
  BY HeldIs DEF TilesOf, TileOf
<1>3. \A t \in B : \E b \in H : t = TileOf(b)
  BY DEF TilesOf
<1> HIDE DEF B
<1>4. \A t \in T : t[1] \in Cells(t) /\ Cells(t) \subseteq Page
  <2> TAKE t \in T
  <2>1. PICK p \in Page, q \in Slot : t = <<p, q>> /\ Legal(p, q)
    BY <1>1 DEF Tiling
  <2> QED BY <2>1, CellsArePages
<1>5. \A b \in H : b.page \in C(b) /\ C(b) \subseteq Page
  <2> TAKE b \in H
  <2> QED BY <1>2, <1>4
<1>6. \A a, b \in H : a # b => C(a) \cap C(b) = {}
  <2> SUFFICES ASSUME NEW a \in H, NEW b \in H, a # b PROVE C(a) \cap C(b) = {}
    OBVIOUS
  <2>1. a.page # b.page
    BY DEF HeldOK
  <2>2. TileOf(a) # TileOf(b)
    BY <2>1, <1>2
  <2>3. TileOf(a) \in T /\ TileOf(b) \in T
    BY <1>2
  <2>4. Cells(TileOf(a)) \cap Cells(TileOf(b)) = {}
    BY <2>2, <2>3, <1>1 DEF Tiling
  <2> QED BY <2>4, <1>2
<1>7. ASSUME NEW t \in Tiles(m), NEW x \in Cells(t), NEW b \in H PROVE x \notin C(b)
  <2>1. TileOf(b) # t /\ TileOf(b) \in T /\ t \in T
    BY <1>1, <1>2
  <2>2. Cells(TileOf(b)) \cap Cells(t) = {}
    BY <2>1, <1>1 DEF Tiling
  <2> QED BY <2>2, <1>2
<1>8. ASSUME NEW x \in Page, \A b \in H : x \notin C(b) PROVE \E t \in Tiles(m) : x \in Cells(t)
  <2>1. PICK t \in T : x \in Cells(t)
    BY <1>1 DEF Tiling
  <2>2. t \notin B
    BY <2>1, <1>2, <1>3, <1>8
  <2> QED BY <2>1, <2>2
<1>9. UNION {Cells(t) : t \in Tiles(m)} = {x \in Page : \A b \in H : x \notin C(b)}
  <2>1. \A x : (\E t \in Tiles(m) : x \in Cells(t)) <=> (x \in Page /\ \A b \in H : x \notin C(b))
    <3> TAKE x
    <3>1. ASSUME NEW t \in Tiles(m), x \in Cells(t) PROVE x \in Page /\ \A b \in H : x \notin C(b)
      BY <3>1, <1>4, <1>7
    <3> QED BY <3>1, <1>8
  <2> HIDE DEF C
  <2> QED BY <2>1
<1> QED BY <1>5, <1>6, <1>9

\* The pages that View takes for free, in terms of the lists.
FreeIn(m) == UNION {Cells(t) : t \in Tiles(m)}

(***************************************************************************)
(* The pages of Free and Singles are those of the tiles in the lists.      *)
(***************************************************************************)
LEMMA PagesOfLists ==
    ASSUME NEW m, ListsOK(m)
    PROVE  LET F == UNION {{<<p, o>> : p \in ToSet(Chain(m.next, m.head[o]))} : o \in Order}
               S == {<<p, 0>> : p \in ToSet(Chain(m.next, m.single))}
           IN  PagesOf(F \cup S) = FreeIn(m)
<1> DEFINE F == UNION {{<<p, o>> : p \in ToSet(Chain(m.next, m.head[o]))} : o \in Order}
           S == {<<p, 0>> : p \in ToSet(Chain(m.next, m.single))}
<1>1. F \cup S = {BlockOf(t) : t \in Tiles(m)}
  BY FreeIs
<1>2. \A t \in Tiles(m) : Block(BlockOf(t)[1], BlockOf(t)[2]) = Cells(t)
  BY CellsOfBlock DEF Tiles
<1> HIDE DEF F, S
<1>3. PagesOf(F \cup S) = UNION {Block(b[1], b[2]) : b \in {BlockOf(t) : t \in Tiles(m)}}
  BY <1>1 DEF PagesOf
<1>4. {Block(b[1], b[2]) : b \in {BlockOf(t) : t \in Tiles(m)}} = {Cells(t) : t \in Tiles(m)}
  BY <1>2
<1> QED BY <1>3, <1>4 DEF F, S, FreeIn

(***************************************************************************)
(* ImplementsAllocator: before the first split or over-large merge the     *)
(* buddy lists and the buffer implement the plain page allocator; an       *)
(* allocation takes free pages, and a release gives the same pages back.   *)
(***************************************************************************)
THEOREM AllocatorRefines == PmmSpec => ImplementsAllocator
<1> DEFINE F == PagesOf(Free \cup Singles)
           O == {Block(b.page, b.size) : b \in held}
           N == split' \/ over' \/ View!AllocNext
<1>1. GoodState => F = FreeIn(pm)
  BY PagesOfLists DEF Free, Singles, GoodState, Good
<1>2. GoodState' => F' = FreeIn(pm')
  BY PagesOfLists DEF Free, Singles, GoodState, Good
<1>3. GoodState => Good(pm, TilesOf(held)) /\ HeldOK(held)
  BY DEF GoodState, HeldTiles, TilesOf
<1>4. GoodState' => Good(pm', TilesOf(held')) /\ HeldOK(held')
  BY DEF GoodState, HeldTiles, TilesOf
<1>5. PmmInit => View!AllocInit
  <2> SUFFICES ASSUME PmmInit PROVE View!AllocInit
    OBVIOUS
  <2>1. pm = pmm_page_init /\ held = {}
    BY DEF PmmInit
  <2>2. GoodState
    <3>1. HeldTiles = {} /\ HeldOK(held)
      BY <2>1 DEF HeldTiles, HeldOK
    <3> QED BY <2>1, <3>1, InitGood DEF GoodState
  <2>3. F = {x \in Page : \A b \in held : x \notin Block(b.page, b.size)}
    BY <1>1, <1>3, <2>2, FreePages DEF FreeIn
  <2>4. F = Page /\ O = {}
    BY <2>1, <2>3
  <2> QED BY <2>4 DEF View!AllocInit
<1>6. ASSUME GoodState, NEW p \in Page, NEW q \in Slot, NEW a, Allocates(p, q, a)
      PROVE  View!AllocBlock
  <2> DEFINE n == Pow2[a.size]
             C(b) == Block(b.page, b.size)
  <2>1. /\ a \notin held /\ held' = held \cup {a} /\ a.page = p /\ a.size \in Order
        /\ TileOf(a) = <<p, q>> /\ p \in In(pm, q) /\ GoodState'
    BY <1>6 DEF Allocates
  <2>2. n \in {Pow2[o] : o \in Order} /\ View!Consecutive(p, n) = C(a)
    BY <2>1 DEF View!Consecutive, Block, c_to_uint32
  <2>3. /\ F = {x \in Page : \A b \in held : x \notin C(b)}
        /\ F' = {x \in Page : \A b \in held' : x \notin C(b)}
    <3>1. FreeIn(pm) = {x \in Page : \A b \in held : x \notin C(b)}
      BY <1>3, <1>6, FreePages DEF FreeIn
    <3>2. FreeIn(pm') = {x \in Page : \A b \in held' : x \notin C(b)}
      BY <1>4, <2>1, FreePages DEF FreeIn
    <3> HIDE DEF F, C
    <3> QED BY <1>1, <1>2, <1>6, <2>1, <3>1, <3>2
  <2>4. /\ \A b \in held' : b.page \in C(b) /\ C(b) \subseteq Page
        /\ \A c, b \in held' : c # b => C(c) \cap C(b) = {}
    BY <1>4, <2>1, FreePages
  <2> HIDE DEF C
  <2>5. C(a) \subseteq F /\ p \in F
    BY <2>1, <2>3, <2>4
  <2>6. F' = F \ C(a)
    BY <2>1, <2>3
  <2>7. O' = O \cup {C(a)}
    BY <2>1 DEF C
  <2> HIDE DEF F, O, n
  <2>8. /\ View!Consecutive(p, n) \subseteq F
        /\ F' = F \ View!Consecutive(p, n)
        /\ O' = O \cup {View!Consecutive(p, n)}
    BY <2>2, <2>5, <2>6, <2>7
  <2> QED BY <2>2, <2>5, <2>8 DEF View!AllocBlock, F, O
<1>7. ASSUME GoodState, NEW b \in held, NEW t, Releases(b, t)
      PROVE  View!FreeBlock
  <2> DEFINE C(c) == Block(c.page, c.size)
  <2>1. held' = held \ {b} /\ GoodState'
    BY <1>7 DEF Releases
  <2>2. /\ F = {x \in Page : \A c \in held : x \notin C(c)}
        /\ F' = {x \in Page : \A c \in held' : x \notin C(c)}
    <3>1. FreeIn(pm) = {x \in Page : \A c \in held : x \notin C(c)}
      BY <1>3, <1>7, FreePages DEF FreeIn
    <3>2. FreeIn(pm') = {x \in Page : \A c \in held' : x \notin C(c)}
      BY <1>4, <2>1, FreePages DEF FreeIn
    <3> HIDE DEF F, C
    <3> QED BY <1>1, <1>2, <1>7, <2>1, <3>1, <3>2
  <2>3. /\ \A c \in held : c.page \in C(c) /\ C(c) \subseteq Page
        /\ \A c, d \in held : c # d => C(c) \cap C(d) = {}
    BY <1>3, <1>7, FreePages
  <2>4. O = {C(c) : c \in held} /\ O' = {C(c) : c \in held'}
    OBVIOUS
  <2> HIDE DEF C, F, O
  <2>5. F' = F \cup C(b)
    <3>1. \A x \in Page :
             (\A c \in held' : x \notin C(c)) <=> (\A c \in held : x \notin C(c)) \/ x \in C(b)
      BY <2>1, <2>3
    <3> QED BY <2>2, <2>3, <3>1
  <2>6. O' = O \ {C(b)}
    <3>1. \A c \in held : c # b => C(c) # C(b)
      BY <2>3
    <3> QED BY <2>1, <2>4, <3>1
  <2>7. C(b) \in O
    BY <2>4
  <2> QED BY <2>5, <2>6, <2>7 DEF View!FreeBlock, F, O
<1>8. PmmInv /\ [PmmNext]_pvars => [N]_pvars
  <2> SUFFICES ASSUME PmmInv, PmmNext, ~split', ~over' PROVE View!AllocNext
    BY DEF pvars
  <2>1. GoodState
    BY FaultsStay DEF PmmInv, GoodState, HeldTiles
  <2> QED BY <2>1, StepKinds, <1>6, <1>7 DEF View!AllocNext
<1>9. ImplementsAllocator <=> View!AllocInit /\ [][N]_pvars
  BY DEF ImplementsAllocator
<1> QED BY <1>5, <1>8, <1>9, PmmInvHolds, PTL DEF PmmSpec
=============================================================================
