--------------------------- MODULE ConsoleProofs ----------------------------
(***************************************************************************)
(* Proofs about the console: what is on the screen, and what printk makes  *)
(* of its format.                                                          *)
(***************************************************************************)
EXTENDS Console, NumberProofs, TLAPS

-----------------------------------------------------------------------------
(***************************************************************************)
(* Rows do not overlap.                                                    *)
(***************************************************************************)
LEMMA RowsApart ==
    ASSUME NEW a \in Int, NEW b \in Int, a < b
    PROVE  a * W + W <= b * W
<1>1. W \in Nat
  BY ConsoleAssumption
<1>2. PICK d \in Nat : b = a + 1 + d
  <2>1. b - a - 1 \in Nat /\ b = a + 1 + (b - a - 1)
    OBVIOUS
  <2> QED BY <2>1
<1>3. (a + 1 + d) * W = a * W + W + d * W
  BY <1>1
<1>4. d * W >= 0
  BY <1>1
<1>5. a * W \in Int /\ d * W \in Int
  BY <1>1
<1> QED BY <1>1, <1>2, <1>3, <1>4, <1>5

(***************************************************************************)
(* A position has one row and one column.                                  *)
(***************************************************************************)
LEMMA OneRow ==
    ASSUME NEW a \in Int, NEW b \in Int,
           NEW i \in 0 .. (W - 1), NEW k \in 0 .. (W - 1), a * W + i = b * W + k
    PROVE  a = b /\ i = k
<1>1. W \in Nat /\ a * W \in Int /\ b * W \in Int
  BY ConsoleAssumption
<1>2. ~(a < b)
  <2> SUFFICES ASSUME a < b PROVE FALSE
    OBVIOUS
  <2>1. a * W + W <= b * W
    BY RowsApart
  <2> QED BY <1>1, <2>1
<1>3. ~(b < a)
  <2> SUFFICES ASSUME b < a PROVE FALSE
    OBVIOUS
  <2>1. b * W + W <= a * W
    BY RowsApart
  <2> QED BY <1>1, <2>1
<1> QED BY <1>1, <1>2, <1>3

(***************************************************************************)
(* Quotient and remainder.                                                 *)
(***************************************************************************)
LEMMA DivMod ==
    ASSUME NEW a \in Nat, NEW d \in Nat \ {0}
    PROVE  a \div d \in Nat /\ a % d \in 0 .. (d - 1) /\ a = (a \div d) * d + (a % d)
<1>1. a = d * (a \div d) + (a % d) /\ a % d \in 0 .. (d - 1) /\ a \div d \in Nat
  OBVIOUS
<1> DEFINE q == a \div d
           r == a % d
<1>2. q \in Nat /\ r \in 0 .. (d - 1) /\ a = d * q + r
  BY <1>1
<1> HIDE DEF q, r
<1>3. a = q * d + r
  BY <1>2
<1> QED BY <1>2, <1>3 DEF q, r

(***************************************************************************)
(* The row and the column of a position.                                   *)
(***************************************************************************)
LEMMA RowColumn ==
    ASSUME NEW p \in Nat
    PROVE  /\ p \div W \in Nat /\ p % W \in 0 .. (W - 1)
           /\ p = (p \div W) * W + (p % W)
<1>1. W \in Nat \ {0}
  BY ConsoleAssumption
<1> QED BY <1>1, DivMod

(***************************************************************************)
(* The row and the column of a position given by both.                     *)
(***************************************************************************)
LEMMA RowColumnIs ==
    ASSUME NEW a \in Nat, NEW i \in 0 .. (W - 1), NEW p \in Nat, p = a * W + i
    PROVE  p \div W = a /\ p % W = i
<1>1. /\ p \div W \in Nat /\ p % W \in 0 .. (W - 1)
      /\ p = (p \div W) * W + (p % W)
  BY RowColumn
<1>2. p \div W \in Int /\ a \in Int /\ a * W + i = (p \div W) * W + (p % W)
  BY <1>1
<1> QED BY <1>1, <1>2, OneRow

(***************************************************************************)
(* Changing the fields of a screen.                                        *)
(***************************************************************************)
Shown(v, x, y, h) == [video |-> v, x |-> x, y |-> y, hw |-> h]

(***************************************************************************)
(* The fields of a screen.                                                 *)
(***************************************************************************)
LEMMA ScreenFields ==
    ASSUME NEW v, NEW x, NEW y, NEW h, NEW m, m = Shown(v, x, y, h)
    PROVE  m.video = v /\ m.x = x /\ m.y = y /\ m.hw = h
BY DEF Shown

(***************************************************************************)
(* Another video memory.                                                   *)
(***************************************************************************)
LEMMA SetVideo ==
    ASSUME NEW v, NEW x, NEW y, NEW h, NEW e, NEW m, m = Shown(v, x, y, h)
    PROVE  [m EXCEPT !.video = e] = Shown(e, x, y, h)
BY DEF Shown

(***************************************************************************)
(* Another row for the cursor.                                             *)
(***************************************************************************)
LEMMA SetY ==
    ASSUME NEW v, NEW x, NEW y, NEW h, NEW e, NEW m, m = Shown(v, x, y, h)
    PROVE  [m EXCEPT !.y = e] = Shown(v, x, e, h)
BY DEF Shown

(***************************************************************************)
(* move_cursor tells the hardware where the cursor is.                     *)
(***************************************************************************)
LEMMA CursorMoved ==
    ASSUME NEW v, NEW x, NEW y, NEW h, NEW m, m = Shown(v, x, y, h)
    PROVE  move_cursor(m) = Shown(v, x, y, y * W + x)
<1>1. m.y = y /\ m.x = x
  BY ScreenFields
<1>2. \A e : [m EXCEPT !.hw = e] = Shown(v, x, y, e)
  BY DEF Shown
<1> QED BY <1>1, <1>2 DEF move_cursor

(***************************************************************************)
(* What vga_putc does to the fields of a screen.                           *)
(***************************************************************************)
LEMMA RollFields ==
    ASSUME NEW v, NEW x, NEW y, NEW h, NEW m, m = Shown(v, x, y, h)
    PROVE  screen_uproll_once(m) = IF y # 0 THEN Shown(Rolled(v), x, y - 1, (y - 1) * W + x)
                                   ELSE Shown(Rolled(v), x, y, h)
<1> DEFINE w == Rolled(v)
           r == [m EXCEPT !.video = w]
<1>1. m.video = v /\ m.y = y
  BY ScreenFields
<1>2. screen_uproll_once(m) = IF y # 0 THEN move_cursor([r EXCEPT !.y = y - 1]) ELSE r
  BY <1>1 DEF screen_uproll_once
<1> HIDE DEF w
<1>3. r = Shown(w, x, y, h)
  BY SetVideo
<1> HIDE DEF r
<1>4. PICK z : z = y - 1
  OBVIOUS
<1>5. [r EXCEPT !.y = z] = Shown(w, x, z, h)
  BY <1>3, SetY
<1>6. move_cursor([r EXCEPT !.y = z]) = Shown(w, x, z, z * W + x)
  BY <1>5, CursorMoved
<1>7. screen_uproll_once(m) = IF y # 0 THEN Shown(w, x, z, z * W + x) ELSE Shown(w, x, y, h)
  BY <1>2, <1>3, <1>4, <1>6
<1> QED BY <1>4, <1>7 DEF w

MovedTo(m, x, y) == move_cursor([m EXCEPT !.x = x, !.y = y])

(***************************************************************************)
(* The cursor at a place of its own.                                       *)
(***************************************************************************)
LEMMA SetXY ==
    ASSUME NEW v, NEW x, NEW y, NEW h, NEW e, NEW f
    PROVE  MovedTo(Shown(v, x, y, h), e, f) = Shown(v, e, f, f * W + e)
<1> DEFINE m == Shown(v, x, y, h)
           n == [m EXCEPT !.x = e]
<1>1. n = Shown(v, e, y, h)
  BY DEF Shown
<1>2. [m EXCEPT !.x = e, !.y = f] = [n EXCEPT !.y = f]
  OBVIOUS
<1> HIDE DEF n
<1>3. [m EXCEPT !.x = e, !.y = f] = Shown(v, e, f, h)
  BY <1>1, <1>2, SetY
<1> QED BY <1>3, CursorMoved DEF MovedTo

PutIn(u, y, x, cell) == [u EXCEPT ![y][x] = cell]

(***************************************************************************)
(* What vga_putc makes of each field.                                      *)
(***************************************************************************)
LEMMA PutFields ==
    ASSUME NEW u, NEW x, NEW y, NEW h, NEW cell, NEW v, v = PutIn(u, y, x, cell)
    PROVE  vga_putc(Shown(u, x, y, h), cell) =
              IF x # W - 1 THEN Shown(v, x + 1, y, y * W + (x + 1))
              ELSE IF y = H - 1 THEN Shown(Rolled(v), 0, H - 1, (H - 1) * W + 0)
              ELSE Shown(v, 0, y + 1, (y + 1) * W + 0)
<1>0. PICK s : s = Shown(u, x, y, h)
  OBVIOUS
<1>1. s.x = x /\ s.y = y /\ s.video = u
  BY <1>0, ScreenFields
<1>2. PICK m : m = [s EXCEPT !.video[s.y][s.x] = cell]
  OBVIOUS
<1>3. m = [s EXCEPT !.video = v]
  BY <1>1, <1>2 DEF PutIn
<1>4. m = Shown(v, x, y, h)
  BY <1>0, <1>3 DEF Shown
<1>5. PICK z, a, b, c, l : z = 0 /\ a = x + 1 /\ b = y + 1 /\ c = W - 1 /\ l = H - 1
  OBVIOUS
<1>6. vga_putc(s, cell) =
        move_cursor(
          IF x # c THEN [m EXCEPT !.x = a]
          ELSE IF y = l THEN [screen_uproll_once(m) EXCEPT !.x = z, !.y = l]
          ELSE [m EXCEPT !.x = z, !.y = b])
  BY <1>1, <1>2, <1>5 DEF vga_putc
<1>7. move_cursor([m EXCEPT !.x = a]) = Shown(v, a, y, y * W + a)
  <2>1. [m EXCEPT !.x = a] = Shown(v, a, y, h)
    BY <1>4 DEF Shown
  <2> QED BY <2>1, CursorMoved
<1>8. move_cursor([screen_uproll_once(m) EXCEPT !.x = z, !.y = l]) = Shown(Rolled(v), z, l, l * W + z)
  <2>1. PICK d, e : screen_uproll_once(m) = Shown(Rolled(v), x, d, e)
    <3> DEFINE w == Rolled(v)
    <3>1. screen_uproll_once(m) = IF y # 0 THEN Shown(w, x, y - 1, (y - 1) * W + x) ELSE Shown(w, x, y, h)
      BY <1>4, RollFields
    <3> HIDE DEF w
    <3> QED BY <3>1 DEF w
  <2>2. MovedTo(screen_uproll_once(m), z, l) = Shown(Rolled(v), z, l, l * W + z)
    BY <2>1, SetXY
  <2> QED BY <2>2 DEF MovedTo
<1>9. move_cursor([m EXCEPT !.x = z, !.y = b]) = Shown(v, z, b, b * W + z)
  <2>1. MovedTo(m, z, b) = Shown(v, z, b, b * W + z)
    BY <1>4, SetXY
  <2> QED BY <2>1 DEF MovedTo
<1>10. vga_putc(s, cell) =
          IF x # c THEN Shown(v, a, y, y * W + a)
          ELSE IF y = l THEN Shown(Rolled(v), z, l, l * W + z)
          ELSE Shown(v, z, b, b * W + z)
  BY <1>6, <1>7, <1>8, <1>9
<1> QED BY <1>0, <1>5, <1>10

(***************************************************************************)
(* vga_putc does not look at where the hardware cursor was.                *)
(***************************************************************************)
LEMMA PutIgnoresHw ==
    ASSUME NEW u, NEW x, NEW y, NEW h, NEW k, NEW cell
    PROVE  vga_putc(Shown(u, x, y, h), cell) = vga_putc(Shown(u, x, y, k), cell)
<1>1. PICK v : v = PutIn(u, y, x, cell)
  OBVIOUS
<1>2. vga_putc(Shown(u, x, y, h), cell) =
          IF x # W - 1 THEN Shown(v, x + 1, y, y * W + (x + 1))
          ELSE IF y = H - 1 THEN Shown(Rolled(v), 0, H - 1, (H - 1) * W + 0)
          ELSE Shown(v, 0, y + 1, (y + 1) * W + 0)
  BY <1>1, PutFields
<1>3. vga_putc(Shown(u, x, y, k), cell) =
          IF x # W - 1 THEN Shown(v, x + 1, y, y * W + (x + 1))
          ELSE IF y = H - 1 THEN Shown(Rolled(v), 0, H - 1, (H - 1) * W + 0)
          ELSE Shown(v, 0, y + 1, (y + 1) * W + 0)
  BY <1>1, PutFields
<1> QED BY <1>2, <1>3

Homed(m) == [m EXCEPT !.x = 0, !.y = 0]

(***************************************************************************)
(* The cursor in the first column of the first row.                        *)
(***************************************************************************)
LEMMA HomedIs ==
    ASSUME NEW v, NEW x, NEW y, NEW h
    PROVE  Homed(Shown(v, x, y, h)) = Shown(v, 0, 0, h)
<1> DEFINE m == Shown(v, x, y, h)
           n == [m EXCEPT !.x = 0]
<1>1. n = Shown(v, 0, y, h)
  BY DEF Shown
<1>2. [m EXCEPT !.x = 0, !.y = 0] = [n EXCEPT !.y = 0]
  OBVIOUS
<1> HIDE DEF n
<1>3. [n EXCEPT !.y = 0] = Shown(v, 0, 0, h)
  BY <1>1 DEF Shown
<1> QED BY <1>2, <1>3 DEF Homed

(***************************************************************************)
(* The screen that shows the rows of a tape from row t on, with the cursor *)
(* in row y and column x.                                                  *)
(***************************************************************************)
Picture(tp, t, y, x) ==
    Shown([j \in 0 .. (H - 1) |-> [i \in 0 .. (W - 1) |-> tp[(t + j) * W + i]]], x, y, y * W + x)

At(t, y, x) == (t + y) * W + x

NextPicture(tp, t, y, x) ==
    IF x # W - 1 THEN Picture(tp, t, y, x + 1)
    ELSE IF y = H - 1 THEN Picture(tp, t + 1, H - 1, 0)
    ELSE Picture(tp, t, y + 1, 0)

\* The tape reaches one row behind the screen, and that row is blank.
Follows(tp, t) ==
    /\ \A j \in 0 .. H, i \in 0 .. (W - 1) : (t + j) * W + i \in DOMAIN tp
    /\ \A i \in 0 .. (W - 1) : tp[(t + H) * W + i] = Blank(std)

(***************************************************************************)
(* Moving up shows the rows of the tape from the next row on.              *)
(***************************************************************************)
Rows(tp, t) == [j \in 0 .. (H - 1) |-> [i \in 0 .. (W - 1) |-> tp[(t + j) * W + i]]]

(***************************************************************************)
(* Rolling the rows from t on gives those from t + 1 on.                   *)
(***************************************************************************)
LEMMA RolledRows ==
    ASSUME NEW tp, NEW t \in Nat, \A i \in 0 .. (W - 1) : tp[(t + H) * W + i] = Blank(std)
    PROVE  Rolled(Rows(tp, t)) = Rows(tp, t + 1)
<1> DEFINE v == Rows(tp, t)
<1>1. W \in Nat \ {0} /\ H \in Nat \ {0}
  BY ConsoleAssumption
<1>2. DOMAIN v = 0 .. (H - 1)
  BY DEF Rows
<1>3. ASSUME NEW j \in 0 .. (H - 1)
      PROVE  (IF j < H - 1 THEN v[j + 1] ELSE [i \in 0 .. (W - 1) |-> Blank(std)]) = Rows(tp, t + 1)[j]
  <2>1. \A i \in 0 .. (W - 1) : (t + (j + 1)) * W + i = ((t + 1) + j) * W + i
    BY <1>1
  <2>2. Rows(tp, t + 1)[j] = [i \in 0 .. (W - 1) |-> tp[((t + 1) + j) * W + i]]
    BY DEF Rows
  <2>3. CASE j < H - 1
    <3>1. j + 1 \in 0 .. (H - 1)
      BY <2>3, <1>1
    <3>2. v[j + 1] = [i \in 0 .. (W - 1) |-> tp[(t + (j + 1)) * W + i]]
      BY <3>1 DEF Rows
    <3> HIDE DEF v
    <3> QED BY <2>1, <2>2, <2>3, <3>2
  <2>4. CASE ~(j < H - 1)
    <3>1. (t + 1) + j = t + H
      BY <1>1, <2>4
    <3>2. \A i \in 0 .. (W - 1) : tp[((t + 1) + j) * W + i] = Blank(std)
      BY <3>1
    <3>3. Rows(tp, t + 1)[j] = [i \in 0 .. (W - 1) |-> Blank(std)]
      BY <2>2, <3>2
    <3> QED BY <2>4, <3>3
  <2> QED BY <2>3, <2>4
<1>4. Rows(tp, t + 1) = [j \in 0 .. (H - 1) |-> Rows(tp, t + 1)[j]]
  BY DEF Rows
<1> HIDE DEF v
<1>5. Rolled(v) = [j \in 0 .. (H - 1) |-> Rows(tp, t + 1)[j]]
  BY <1>2, <1>3 DEF Rolled
<1> QED BY <1>4, <1>5 DEF v

(***************************************************************************)
(* A character is put where the cursor is and the cursor goes on: at the   *)
(* end of the last row the rows move up, and a blank one appears.          *)
(***************************************************************************)
LEMMA PutPicture ==
    ASSUME NEW tp, NEW t \in Nat, NEW y \in 0 .. (H - 1), NEW x \in 0 .. (W - 1),
           NEW cell, NEW p \in Nat, p = At(t, y, x),
           Follows(tp, t)
    PROVE  vga_putc(Picture(tp, t, y, x), cell) = NextPicture(Fill(tp, p, p + 1, cell), t, y, x)
<1> DEFINE s == Picture(tp, t, y, x)
           tq == Fill(tp, p, p + 1, cell)
           v == [s.video EXCEPT ![y][x] = cell]
           R(u) == [j \in 0 .. (H - 1) |-> [i \in 0 .. (W - 1) |-> tq[(u + j) * W + i]]]
<1>1. W \in Nat \ {0} /\ H \in Nat \ {0} /\ 0 \in 0 .. (W - 1)
  BY ConsoleAssumption
<1> USE DEF Follows, At
<1>2. ASSUME NEW j \in 0 .. H, NEW i \in 0 .. (W - 1)
      PROVE  tq[(t + j) * W + i] = IF j = y /\ i = x THEN cell ELSE tp[(t + j) * W + i]
  <2> DEFINE k == (t + j) * W + i
  <2>1. k \in DOMAIN tp /\ k \in Int /\ t + j \in Int /\ t + y \in Int
    BY <1>1
  <2>2. k \in p .. (p + 1 - 1) <=> k = p
    BY <2>1
  <2>3. k = p => j = y /\ i = x
    BY <2>1, OneRow
  <2>4. j = y /\ i = x => k = p
    OBVIOUS
  <2> HIDE DEF k
  <2>5. tq[k] = IF k \in p .. (p + 1 - 1) THEN cell ELSE tp[k]
    BY <2>1 DEF Fill
  <2>6. tq[k] = IF j = y /\ i = x THEN cell ELSE tp[k]
    BY <2>2, <2>3, <2>4, <2>5
  <2> QED BY <2>6 DEF k
<1> HIDE DEF tq
<1>3. v = R(t)
  <2>1. s.video = [j \in 0 .. (H - 1) |-> [i \in 0 .. (W - 1) |-> tp[(t + j) * W + i]]]
    BY ScreenFields DEF Picture
  <2>2. v \in [0 .. (H - 1) -> {v[j] : j \in 0 .. (H - 1)}]
    BY <2>1
  <2>3. ASSUME NEW j \in 0 .. (H - 1) PROVE v[j] = R(t)[j]
    <3>1. j \in 0 .. H
      BY <1>1
    <3>2. s.video[j] = [i \in 0 .. (W - 1) |-> tp[(t + j) * W + i]]
      BY <2>1
    <3>3. v[j] = IF j = y THEN [s.video[j] EXCEPT ![x] = cell] ELSE s.video[j]
      BY <2>1
    <3>4. v[j] = [i \in 0 .. (W - 1) |-> IF j = y /\ i = x THEN cell ELSE tp[(t + j) * W + i]]
      BY <3>2, <3>3
    <3>5. \A i \in 0 .. (W - 1) :
             tq[(t + j) * W + i] = IF j = y /\ i = x THEN cell ELSE tp[(t + j) * W + i]
      BY <1>2, <3>1
    <3> HIDE DEF v
    <3>6. v[j] = [i \in 0 .. (W - 1) |-> tq[(t + j) * W + i]]
      BY <3>4, <3>5
    <3> QED BY <3>6
  <2> HIDE DEF v
  <2>4. v = [j \in 0 .. (H - 1) |-> v[j]]
    BY <2>2
  <2> QED BY <2>3, <2>4
<1> HIDE DEF v
<1>4. vga_putc(s, cell) =
         IF x # W - 1 THEN Shown(v, x + 1, y, y * W + (x + 1))
         ELSE IF y = H - 1 THEN Shown(Rolled(v), 0, H - 1, (H - 1) * W + 0)
         ELSE Shown(v, 0, y + 1, (y + 1) * W + 0)
  <2> DEFINE u == [j \in 0 .. (H - 1) |-> [i \in 0 .. (W - 1) |-> tp[(t + j) * W + i]]]
             h == y * W + x
  <2>1. s = Shown(u, x, y, h) /\ s.video = u
    BY ScreenFields DEF Picture
  <2>2. v = PutIn(u, y, x, cell)
    BY <2>1 DEF v, PutIn
  <2> HIDE DEF s, u, h, v
  <2>3. vga_putc(Shown(u, x, y, h), cell) =
           IF x # W - 1 THEN Shown(v, x + 1, y, y * W + (x + 1))
           ELSE IF y = H - 1 THEN Shown(Rolled(v), 0, H - 1, (H - 1) * W + 0)
           ELSE Shown(v, 0, y + 1, (y + 1) * W + 0)
    BY <2>2, PutFields
  <2> QED BY <2>1, <2>3
<1> HIDE DEF s
<1>7. CASE x # W - 1
  BY <1>3, <1>4, <1>7 DEF NextPicture, Picture, s, tq
<1>8. CASE x = W - 1 /\ y = H - 1
  <2>1. Rolled(v) = R(t + 1)
    <3>1. \A i \in 0 .. (W - 1) : tq[(t + H) * W + i] = Blank(std)
      <4>1. H \in 0 .. H /\ H # y
        BY <1>1
      <4> QED BY <1>2, <4>1
    <3>2. R(t) = Rows(tq, t) /\ R(t + 1) = Rows(tq, t + 1)
      BY DEF Rows
    <3> HIDE DEF R
    <3> QED BY <1>3, <3>1, <3>2, RolledRows
  <2> QED BY <1>1, <1>4, <1>8, <2>1 DEF NextPicture, Picture, s, tq
<1>9. CASE x = W - 1 /\ y # H - 1
  BY <1>3, <1>4, <1>9 DEF NextPicture, Picture, s, tq
<1> QED BY <1>7, <1>8, <1>9

(***************************************************************************)
(* The same by positions on the tape: the screen shows the tape from row t *)
(* on, and the next character goes to position p.                          *)
(***************************************************************************)
View(tp, t, p) == Picture(tp, t, p \div W - t, p % W)

TopRow(t, p) == Later(t, p \div W - (H - 1))

OnScreen(t, p) == t \in Nat /\ p \in Nat /\ t <= p \div W /\ p \div W <= t + (H - 1)

\* The tape is blank behind the screen.
Ahead(tp, t, M) ==
    /\ tp = [i \in 0 .. M |-> tp[i]]
    /\ \A i \in 0 .. M : i >= (t + H) * W => tp[i] = Blank(std)

\* The tape reaches beyond the row behind the screen.
Room(t, M) == (t + H + 1) * W <= M

(***************************************************************************)
(* Row and column of the next position.                                    *)
(***************************************************************************)
LEMMA NextRow ==
    ASSUME NEW p \in Nat
    PROVE  /\ p % W # W - 1 => (p + 1) \div W = p \div W /\ (p + 1) % W = (p % W) + 1
           /\ p % W = W - 1 => (p + 1) \div W = (p \div W) + 1 /\ (p + 1) % W = 0
<1> DEFINE a == p \div W
           x == p % W
<1>1. a \in Nat /\ x \in 0 .. (W - 1) /\ p = a * W + x
  BY RowColumn
<1>2. W \in Nat \ {0} /\ a * W \in Nat
  BY <1>1, ConsoleAssumption
<1> HIDE DEF a, x
<1>3. CASE x # W - 1
  <2>1. x + 1 \in 0 .. (W - 1) /\ p + 1 = a * W + (x + 1) /\ p + 1 \in Nat
    BY <1>1, <1>2, <1>3
  <2>2. (p + 1) \div W = a /\ (p + 1) % W = x + 1
    BY <1>1, <2>1, RowColumnIs
  <2> QED BY <1>3, <2>2 DEF a, x
<1>4. CASE x = W - 1
  <2>1. (a + 1) * W = a * W + W
    BY <1>1, <1>2
  <2>2. 0 \in 0 .. (W - 1) /\ p + 1 = (a + 1) * W + 0 /\ p + 1 \in Nat /\ a + 1 \in Nat
    BY <1>1, <1>2, <1>4, <2>1
  <2>3. (p + 1) \div W = a + 1 /\ (p + 1) % W = 0
    BY <2>2, RowColumnIs
  <2> QED BY <1>4, <1>2, <2>3 DEF a, x
<1> QED BY <1>3, <1>4 DEF a, x

(***************************************************************************)
(* A tape stays blank behind the screen when a part on it is filled.       *)
(***************************************************************************)
LEMMA FillAhead ==
    ASSUME NEW M \in Nat, NEW tp, NEW t \in Nat, Ahead(tp, t, M), NEW u \in Nat, t <= u,
           NEW p \in Nat, NEW q \in Nat, q <= (u + H) * W, NEW cell
    PROVE  Ahead(Fill(tp, p, q, cell), u, M)
<1>1. W \in Nat /\ H \in Nat
  BY ConsoleAssumption
<1>2. (t + H) * W <= (u + H) * W
  <2>1. CASE t = u
    BY <1>1, <2>1
  <2>2. CASE t < u
    <3>1. (t + H) * W + W <= (u + H) * W
      BY <1>1, <2>2, RowsApart
    <3> QED BY <1>1, <3>1
  <2> QED BY <2>1, <2>2
<1>3. DOMAIN tp = 0 .. M
  BY DEF Ahead
<1>4. ASSUME NEW i \in 0 .. M, i >= (u + H) * W PROVE Fill(tp, p, q, cell)[i] = Blank(std)
  <2>1. i \notin p .. (q - 1) /\ i >= (t + H) * W
    <3> DEFINE e == (u + H) * W
               d == (t + H) * W
    <3>1. e \in Int /\ d \in Int /\ d <= e /\ q <= e /\ i >= e
      BY <1>1, <1>2, <1>4
    <3> HIDE DEF e, d
    <3>2. i \notin p .. (q - 1) /\ i >= d
      BY <3>1
    <3> QED BY <3>2 DEF d
  <2> QED BY <2>1, <1>3 DEF Ahead, Fill
<1>5. Fill(tp, p, q, cell) = [i \in 0 .. M |-> Fill(tp, p, q, cell)[i]]
  BY <1>3 DEF Fill
<1> QED BY <1>4, <1>5 DEF Ahead

(***************************************************************************)
(* vga_putc writes the next cell of the tape, and the window follows it.   *)
(***************************************************************************)
LEMMA PutView ==
    ASSUME NEW M \in Nat, NEW tp, NEW t, NEW p, NEW cell, OnScreen(t, p),
           Ahead(tp, t, M), Room(t, M)
    PROVE  /\ vga_putc(View(tp, t, p), cell) = View(Fill(tp, p, p + 1, cell), TopRow(t, p + 1), p + 1)
           /\ OnScreen(TopRow(t, p + 1), p + 1)
           /\ Ahead(Fill(tp, p, p + 1, cell), TopRow(t, p + 1), M)
<1> DEFINE a == p \div W
           x == p % W
           y == a - t
           tq == Fill(tp, p, p + 1, cell)
<1>1. t \in Nat /\ p \in Nat /\ t <= a /\ a <= t + (H - 1)
  BY DEF OnScreen
<1>2. a \in Nat /\ x \in 0 .. (W - 1) /\ p = a * W + x
  BY <1>1, RowColumn
<1>3. W \in Nat \ {0} /\ H \in Nat \ {0}
  BY ConsoleAssumption
<1>4. y \in 0 .. (H - 1) /\ t + y = a
  BY <1>1, <1>2, <1>3
<1>5. \A j \in 0 .. H, i \in 0 .. (W - 1) : (t + j) * W + i \in DOMAIN tp
  <2> TAKE j \in 0 .. H, i \in 0 .. (W - 1)
  <2>1. DOMAIN tp = 0 .. M
    BY DEF Ahead
  <2>2. (t + j) * W + W <= (t + H + 1) * W
    BY <1>1, <1>3, RowsApart
  <2>3. (t + j) * W \in Nat /\ (t + H + 1) * W \in Nat
    BY <1>1, <1>3
  <2> QED BY <1>3, <2>1, <2>2, <2>3 DEF Room
<1>6. \A i \in 0 .. (W - 1) : tp[(t + H) * W + i] = Blank(std)
  <2> TAKE i \in 0 .. (W - 1)
  <2>1. (t + H) * W + i \in DOMAIN tp
    BY <1>3, <1>5
  <2>2. (t + H) * W \in Nat
    BY <1>1, <1>3
  <2>3. (t + H) * W + i >= (t + H) * W
    BY <2>2
  <2> QED BY <2>1, <2>3 DEF Ahead
<1>7. p + 1 <= (TopRow(t, p + 1) + H) * W
  <2> DEFINE b == (p + 1) \div W
  <2>1. b \in Nat /\ (p + 1) % W \in 0 .. (W - 1) /\ p + 1 = b * W + ((p + 1) % W)
    BY <1>1, RowColumn
  <2>2. TopRow(t, p + 1) \in Nat /\ b < TopRow(t, p + 1) + H
    BY <1>1, <1>3, <2>1 DEF TopRow, Later
  <2> DEFINE c == TopRow(t, p + 1) + H
  <2>3. b \in Int /\ c \in Int /\ b < c
    BY <1>3, <2>1, <2>2
  <2> HIDE DEF b, c
  <2>4. b * W + W <= c * W
    BY <2>3, RowsApart
  <2>5. b * W \in Int /\ c * W \in Int
    BY <1>3, <2>3
  <2>6. p + 1 <= c * W
    BY <1>3, <2>1, <2>4, <2>5
  <2> QED BY <2>6 DEF c
<1>8. TopRow(t, p + 1) \in Nat /\ t <= TopRow(t, p + 1)
  <2>1. (p + 1) \div W \in Nat
    BY <1>1, RowColumn
  <2> QED BY <1>1, <1>3, <2>1 DEF TopRow, Later
<1>9. Ahead(tq, TopRow(t, p + 1), M)
  <2>1. p + 1 \in Nat
    BY <1>1
  <2> QED BY <1>1, <1>7, <1>8, <2>1, FillAhead
<1>10. p = (t + y) * W + x
  BY <1>2, <1>4
<1>11. vga_putc(Picture(tp, t, y, x), cell) =
              IF x # W - 1 THEN Picture(tq, t, y, x + 1)
              ELSE IF y = H - 1 THEN Picture(tq, t + 1, H - 1, 0)
              ELSE Picture(tq, t, y + 1, 0)
  <2>1. t \in Nat /\ y \in 0 .. (H - 1) /\ x \in 0 .. (W - 1) /\ p \in Nat
    BY <1>1, <1>2, <1>4
  <2>2. Follows(tp, t)
    BY <1>5, <1>6 DEF Follows
  <2> HIDE DEF x, y, a
  <2>3. vga_putc(Picture(tp, t, y, x), cell) = NextPicture(tq, t, y, x)
    BY <2>1, <2>2, <1>10, PutPicture DEF At
  <2> HIDE DEF tq
  <2> QED BY <2>3 DEF NextPicture
<1>12. /\ x # W - 1 => (p + 1) \div W = a /\ (p + 1) % W = x + 1
       /\ x = W - 1 => (p + 1) \div W = a + 1 /\ (p + 1) % W = 0
  BY <1>1, NextRow
<1>13. View(tp, t, p) = Picture(tp, t, y, x)
  BY DEF View
<1> HIDE DEF tq, x, a
<1>14. CASE x # W - 1
  <2>1. TopRow(t, p + 1) = t
    BY <1>1, <1>2, <1>3, <1>12, <1>14 DEF TopRow, Later
  <2>2. View(tq, t, p + 1) = Picture(tq, t, y, x + 1)
    BY <1>12, <1>14 DEF View
  <2>3. OnScreen(t, p + 1)
    BY <1>1, <1>12, <1>14 DEF OnScreen
  <2> QED BY <1>9, <1>11, <1>13, <1>14, <2>1, <2>2, <2>3 DEF tq
<1>15. CASE x = W - 1 /\ y = H - 1
  <2>1. TopRow(t, p + 1) = t + 1
    BY <1>1, <1>2, <1>3, <1>12, <1>15 DEF TopRow, Later
  <2>2. View(tq, t + 1, p + 1) = Picture(tq, t + 1, H - 1, 0)
    <3>1. (a + 1) - (t + 1) = H - 1
      BY <1>1, <1>2, <1>3, <1>15
    <3> QED BY <1>12, <1>15, <3>1 DEF View
  <2>3. OnScreen(t + 1, p + 1)
    BY <1>1, <1>2, <1>3, <1>12, <1>15 DEF OnScreen
  <2> QED BY <1>9, <1>11, <1>13, <1>15, <2>1, <2>2, <2>3 DEF tq
<1>16. CASE x = W - 1 /\ y # H - 1
  <2>1. TopRow(t, p + 1) = t
    BY <1>1, <1>2, <1>3, <1>12, <1>16 DEF TopRow, Later
  <2>2. View(tq, t, p + 1) = Picture(tq, t, y + 1, 0)
    <3>1. (a + 1) - t = y + 1
      BY <1>1, <1>2
    <3> QED BY <1>12, <1>16, <3>1 DEF View
  <2>3. OnScreen(t, p + 1)
    BY <1>1, <1>2, <1>3, <1>12, <1>16 DEF OnScreen
  <2> QED BY <1>9, <1>11, <1>13, <1>16, <2>1, <2>2, <2>3 DEF tq
<1> QED BY <1>14, <1>15, <1>16

(***************************************************************************)
(* Later positions are in later rows.                                      *)
(***************************************************************************)
LEMMA RowsGrow ==
    ASSUME NEW p \in Nat, NEW q \in Nat, p <= q
    PROVE  p \div W <= q \div W
<1> DEFINE a == p \div W
           b == q \div W
<1>1. a \in Nat /\ p % W \in 0 .. (W - 1) /\ p = a * W + (p % W)
  BY RowColumn
<1>2. b \in Nat /\ q % W \in 0 .. (W - 1) /\ q = b * W + (q % W)
  BY RowColumn
<1>3. W \in Nat
  BY ConsoleAssumption
<1> HIDE DEF a, b
<1> SUFFICES ASSUME b < a PROVE FALSE
  BY <1>1, <1>2 DEF a, b
<1>4. b * W + W <= a * W
  BY <1>1, <1>2, RowsApart
<1>5. a * W \in Nat /\ b * W \in Nat
  BY <1>1, <1>2, <1>3
<1> QED BY <1>1, <1>2, <1>3, <1>4, <1>5

(***************************************************************************)
(* Writing further moves the window further, in one go or in two.          *)
(***************************************************************************)
LEMMA TopRowGrows ==
    ASSUME NEW t \in Nat, NEW p \in Nat, NEW q \in Nat, p <= q
    PROVE  /\ TopRow(t, p) \in Nat /\ t <= TopRow(t, p)
           /\ TopRow(t, p) <= TopRow(t, q)
           /\ TopRow(TopRow(t, p), q) = TopRow(t, q)
<1>1. p \div W \in Nat /\ q \div W \in Nat /\ p \div W <= q \div W
  BY RowsGrow, RowColumn
<1>2. H \in Nat \ {0}
  BY ConsoleAssumption
<1> QED BY <1>1, <1>2 DEF TopRow, Later

(***************************************************************************)
(* The window stays where the cursor is in it.                             *)
(***************************************************************************)
LEMMA TopRowSame ==
    ASSUME NEW t, NEW p, OnScreen(t, p)
    PROVE  TopRow(t, p) = t
<1>1. H \in Nat \ {0} /\ t \in Nat /\ p \div W \in Nat /\ p \div W <= t + (H - 1)
  BY RowColumn, ConsoleAssumption DEF OnScreen
<1> QED BY <1>1 DEF TopRow, Later

(***************************************************************************)
(* There is room for every window above one there is room for.             *)
(***************************************************************************)
LEMMA RoomBelow ==
    ASSUME NEW t \in Nat, NEW u \in Nat, t <= u, NEW M \in Nat, Room(u, M)
    PROVE  Room(t, M)
<1>1. W \in Nat /\ H \in Nat
  BY ConsoleAssumption
<1>2. CASE t = u
  BY <1>2
<1>3. CASE t < u
  <2>1. t + H + 1 \in Int /\ u + H + 1 \in Int /\ t + H + 1 < u + H + 1
    BY <1>1, <1>3
  <2>2. (t + H + 1) * W + W <= (u + H + 1) * W
    BY <2>1, RowsApart
  <2>3. (t + H + 1) * W \in Int /\ (u + H + 1) * W \in Int
    BY <1>1
  <2> QED BY <1>1, <2>2, <2>3 DEF Room
<1> QED BY <1>2, <1>3

(***************************************************************************)
(* Two loops that start alike and go on alike end alike.                   *)
(***************************************************************************)
LEMMA LoopsAgree ==
    ASSUME NEW n \in Nat, NEW f, NEW g, f[0] = g[0],
           \A k \in 0 .. (n - 1) : f[k] = g[k] => f[k + 1] = g[k + 1]
    PROVE  f[n] = g[n]
<1> DEFINE S == {k \in Nat : k <= n => f[k] = g[k]}
<1>1. 0 \in S
  OBVIOUS
<1>2. ASSUME NEW k \in S PROVE k + 1 \in S
  OBVIOUS
<1>3. S = Nat
  <2> HIDE DEF S
  <2>1. S \in SUBSET Nat
    BY DEF S
  <2> QED BY <1>1, <1>2, <2>1, SetInduction
<1> QED BY <1>3

(***************************************************************************)
(* Filling cell by cell.                                                   *)
(***************************************************************************)
LEMMA FillNone ==
    ASSUME NEW tp, NEW M \in Nat, NEW t, Ahead(tp, t, M), NEW cell, NEW p \in Nat
    PROVE  Fill(tp, p, p, cell) = tp
<1>1. DOMAIN tp = 0 .. M /\ tp = [i \in 0 .. M |-> tp[i]]
  BY DEF Ahead
<1>2. \A i \in 0 .. M : i \notin p .. (p - 1)
  OBVIOUS
<1>3. Fill(tp, p, p, cell) = [i \in 0 .. M |-> tp[i]]
  BY <1>1, <1>2 DEF Fill
<1> QED BY <1>1, <1>3

(***************************************************************************)
(* One cell more.                                                          *)
(***************************************************************************)
LEMMA FillMore ==
    ASSUME NEW tp, NEW M \in Nat, NEW t, Ahead(tp, t, M), NEW cell, NEW p \in Nat, NEW q \in Nat, p <= q
    PROVE  Fill(Fill(tp, p, q, cell), q, q + 1, cell) = Fill(tp, p, q + 1, cell)
<1>1. DOMAIN tp = 0 .. M
  BY DEF Ahead
<1>3. DOMAIN Fill(tp, p, q, cell) = 0 .. M
  BY <1>1 DEF Fill
<1>4. ASSUME NEW i \in 0 .. M
      PROVE  Fill(Fill(tp, p, q, cell), q, q + 1, cell)[i] = Fill(tp, p, q + 1, cell)[i]
  <2>1. i \in p .. (q + 1 - 1) <=> i \in q .. (q + 1 - 1) \/ i \in p .. (q - 1)
    OBVIOUS
  <2>2. Fill(Fill(tp, p, q, cell), q, q + 1, cell)[i] =
           IF i \in q .. (q + 1 - 1) THEN cell ELSE Fill(tp, p, q, cell)[i]
    BY <1>3 DEF Fill
  <2>3. Fill(tp, p, q, cell)[i] = IF i \in p .. (q - 1) THEN cell ELSE tp[i]
    BY <1>1 DEF Fill
  <2>4. Fill(tp, p, q + 1, cell)[i] = IF i \in p .. (q + 1 - 1) THEN cell ELSE tp[i]
    BY <1>1 DEF Fill
  <2> QED BY <2>1, <2>2, <2>3, <2>4
<1>5. /\ Fill(Fill(tp, p, q, cell), q, q + 1, cell) =
            [i \in 0 .. M |-> Fill(Fill(tp, p, q, cell), q, q + 1, cell)[i]]
      /\ Fill(tp, p, q + 1, cell) = [i \in 0 .. M |-> Fill(tp, p, q + 1, cell)[i]]
  BY <1>1, <1>3 DEF Fill
<1> QED BY <1>4, <1>5

(***************************************************************************)
(* The same cell many times: the screen follows the tape.  What the        *)
(* hardware was told before does not matter.                               *)
(***************************************************************************)
LEMMA RepeatedFrom ==
    ASSUME NEW M \in Nat, NEW tp, NEW t, NEW p, NEW cell, NEW n \in Nat, OnScreen(t, p),
           Ahead(tp, t, M), Room(TopRow(t, p + n), M),
           NEW s, vga_putc(s, cell) = vga_putc(View(tp, t, p), cell), n # 0 \/ s = View(tp, t, p)
    PROVE  /\ Repeated(s, cell, n) = View(Fill(tp, p, p + n, cell), TopRow(t, p + n), p + n)
           /\ OnScreen(TopRow(t, p + n), p + n)
           /\ Ahead(Fill(tp, p, p + n, cell), TopRow(t, p + n), M)
<1> DEFINE T(k) == TopRow(t, p + k)
           F(k) == Fill(tp, p, p + k, cell)
           Holds(k) == OnScreen(T(k), p + k) /\ Ahead(F(k), T(k), M)
           V(k) == View(F(k), T(k), p + k)
<1>1. t \in Nat /\ p \in Nat /\ p <= p
  BY DEF OnScreen
<1>2. p + 0 = p /\ T(0) = t /\ F(0) = tp
  <2>1. p + 0 = p
    BY <1>1
  <2> QED BY <1>1, <2>1, TopRowSame, FillNone
<1>3. Holds(0) /\ V(0) = View(tp, t, p)
  BY <1>2
<1>4. ASSUME NEW k \in 0 .. (n - 1), Holds(k)
      PROVE  Holds(k + 1) /\ V(k + 1) = vga_putc(V(k), cell)
  <2>1. p + k \in Nat /\ p + n \in Nat /\ p + k <= p + n /\ p <= p + k /\ p + (k + 1) = (p + k) + 1
    BY <1>1
  <2>2. T(k) \in Nat /\ T(k) <= T(n) /\ T(n) \in Nat
    <3>1. p + n <= p + n
      BY <2>1
    <3> QED BY <1>1, <2>1, <3>1, TopRowGrows
  <2>3. Room(T(k), M)
    BY <2>2, RoomBelow
  <2> DEFINE q == p + k
  <2>4. Fill(F(k), q, q + 1, cell) = F(k + 1)
    <3>1. q \in Nat /\ p <= q /\ p + (k + 1) = q + 1 /\ F(k) = Fill(tp, p, q, cell)
      BY <2>1
    <3> HIDE DEF q
    <3>2. Fill(Fill(tp, p, q, cell), q, q + 1, cell) = Fill(tp, p, q + 1, cell)
      BY <1>1, <3>1, FillMore
    <3> QED BY <3>1, <3>2
  <2>5. TopRow(T(k), q + 1) = T(k + 1)
    <3>1. q \in Nat /\ q + 1 \in Nat /\ q <= q + 1
      BY <2>1
    <3>2. TopRow(TopRow(t, q), q + 1) = TopRow(t, q + 1)
      BY <1>1, <3>1, TopRowGrows
    <3> QED BY <2>1, <3>2
  <2> HIDE DEF F, T
  <2>6. OnScreen(T(k), q) /\ Ahead(F(k), T(k), M)
    BY <1>4
  <2> HIDE DEF q
  <2>7. /\ vga_putc(View(F(k), T(k), q), cell) = View(Fill(F(k), q, q + 1, cell), TopRow(T(k), q + 1), q + 1)
        /\ OnScreen(TopRow(T(k), q + 1), q + 1)
        /\ Ahead(Fill(F(k), q, q + 1, cell), TopRow(T(k), q + 1), M)
    BY <2>3, <2>6, PutView
  <2>8. q + 1 = p + (k + 1) /\ q = p + k
    BY <2>1 DEF q
  <2> QED BY <2>4, <2>5, <2>7, <2>8
<1>5. \A k \in 0 .. n : Holds(k)
  <2> DEFINE S == {k \in Nat : k <= n => Holds(k)}
  <2> HIDE DEF Holds
  <2>1. 0 \in S
    BY <1>3
  <2>2. ASSUME NEW k \in S PROVE k + 1 \in S
    BY <1>4
  <2>3. S = Nat
    <3>1. S \in SUBSET Nat
      OBVIOUS
    <3> HIDE DEF S
    <3> QED BY <2>1, <2>2, <3>1, SetInduction
  <2> QED BY <2>3
<1> DEFINE E == [i \in 0 .. n |-> IF i = 0 THEN s ELSE V(i)]
           put == CHOOSE f : f = [i \in 0 .. n |-> IF i = 0 THEN s ELSE vga_putc(f[i - 1], cell)]
<1>6. \A k \in 0 .. (n - 1) : V(k + 1) = vga_putc(V(k), cell)
  <2> HIDE DEF Holds, V
  <2>1. \A k \in 0 .. (n - 1) : k \in 0 .. n
    OBVIOUS
  <2> QED BY <1>4, <1>5, <2>1
<1> HIDE DEF V, Holds
<1>7. E = [i \in 0 .. n |-> IF i = 0 THEN s ELSE vga_putc(E[i - 1], cell)]
  <2>1. ASSUME NEW i \in 0 .. n PROVE E[i] = IF i = 0 THEN s ELSE vga_putc(E[i - 1], cell)
    <3>1. CASE i = 0
      BY <3>1
    <3>2. CASE i # 0
      <4>1. i - 1 \in 0 .. (n - 1) /\ i - 1 \in 0 .. n /\ (i - 1) + 1 = i
        BY <3>2
      <4>2. E[i] = vga_putc(V(i - 1), cell)
        BY <3>2, <4>1, <1>6
      <4>3. CASE i - 1 = 0
        <5>1. E[i - 1] = s /\ V(i - 1) = View(tp, t, p)
          BY <4>1, <4>3, <1>3
        <5> HIDE DEF E
        <5> QED BY <3>2, <4>2, <5>1
      <4>4. CASE i - 1 # 0
        <5>1. E[i - 1] = V(i - 1)
          BY <4>1, <4>4
        <5> HIDE DEF E
        <5> QED BY <3>2, <4>2, <5>1
      <4> QED BY <4>3, <4>4
    <3> QED BY <3>1, <3>2
  <2> QED BY <2>1
<1> HIDE DEF E
<1>8. put = [i \in 0 .. n |-> IF i = 0 THEN s ELSE vga_putc(put[i - 1], cell)]
  BY <1>7
<1> HIDE DEF put
<1>9. put[n] = E[n]
  <2>1. put[0] = E[0]
    BY <1>7, <1>8
  <2>2. ASSUME NEW k \in 0 .. (n - 1), put[k] = E[k] PROVE put[k + 1] = E[k + 1]
    <3>1. k + 1 \in 0 .. n /\ k + 1 # 0 /\ (k + 1) - 1 = k
      OBVIOUS
    <3>2. put[k + 1] = vga_putc(put[k], cell)
      BY <1>8, <3>1
    <3>3. E[k + 1] = vga_putc(E[k], cell)
      BY <1>7, <3>1
    <3> QED BY <2>2, <3>2, <3>3
  <2> QED BY <2>1, <2>2, LoopsAgree
<1>10. Repeated(s, cell, n) = put[n]
  BY DEF Repeated, put
<1>11. E[n] = V(n)
  BY <1>3 DEF E
<1>12. Holds(n)
  BY <1>5
<1> QED BY <1>9, <1>10, <1>11, <1>12 DEF V, Holds

(***************************************************************************)
(* The same for a screen given as a window of the tape.                    *)
(***************************************************************************)
LEMMA RepeatedView ==
    ASSUME NEW M \in Nat, NEW tp, NEW t, NEW p, NEW cell, NEW n \in Nat, OnScreen(t, p),
           Ahead(tp, t, M), Room(TopRow(t, p + n), M)
    PROVE  /\ Repeated(View(tp, t, p), cell, n) = View(Fill(tp, p, p + n, cell), TopRow(t, p + n), p + n)
           /\ OnScreen(TopRow(t, p + n), p + n)
           /\ Ahead(Fill(tp, p, p + n, cell), TopRow(t, p + n), M)
<1>1. PICK s : s = View(tp, t, p)
  OBVIOUS
<1>2. Repeated(s, cell, n) = View(Fill(tp, p, p + n, cell), TopRow(t, p + n), p + n)
      /\ OnScreen(TopRow(t, p + n), p + n)
      /\ Ahead(Fill(tp, p, p + n, cell), TopRow(t, p + n), M)
  BY <1>1, RepeatedFrom
<1> QED BY <1>1, <1>2

(***************************************************************************)
(* Where the next character goes, and what a character does to the screen. *)
(***************************************************************************)
LEMMA NextPosGrows ==
    ASSUME NEW p \in Nat, NEW c
    PROVE  NextPos(p, c) \in Nat /\ p <= NextPos(p, c)
<1>1. p \div W \in Nat /\ p % W \in 0 .. (W - 1) /\ p = (p \div W) * W + (p % W)
  BY RowColumn
<1>2. W \in Nat /\ tab_length \in Nat
  BY ConsoleAssumption
<1> DEFINE a == p \div W
<1>3. (a + 1) * W = a * W + W /\ a * W \in Nat
  BY <1>1, <1>2
<1>4. (a + 1) * W \in Nat /\ p <= (a + 1) * W
  <2> HIDE DEF a
  <2>1. p = a * W + (p % W)
    BY <1>1 DEF a
  <2> QED BY <1>1, <1>2, <1>3, <2>1
<1> QED BY <1>2, <1>4 DEF NextPos

(***************************************************************************)
(* A character, a tab or a line end.                                       *)
(***************************************************************************)
LEMMA PutcView ==
    ASSUME NEW M \in Nat, NEW tp, NEW t, NEW p, NEW c, NEW colour, OnScreen(t, p), Ahead(tp, t, M),
           NEW q, q = NextPos(p, c), Room(TopRow(t, q), M)
    PROVE  /\ kputc_color(View(tp, t, p), c, colour) = View(Fill(tp, p, q, Cell(c, colour)), TopRow(t, q), q)
           /\ OnScreen(TopRow(t, q), q)
           /\ Ahead(Fill(tp, p, q, Cell(c, colour)), TopRow(t, q), M)
<1>1. t \in Nat /\ p \in Nat /\ q \in Nat /\ p <= q
  BY NextPosGrows DEF OnScreen
<1>2. W \in Nat \ {0} /\ tab_length \in Nat
  BY ConsoleAssumption
<1> DEFINE s == View(tp, t, p)
<1>3. CASE c = "tab"
  <2>1. q = p + tab_length /\ Cell(c, colour) = Blank(colour)
    BY <1>3 DEF NextPos, Cell
  <2>2. kputc_color(s, c, colour) = Repeated(s, Blank(colour), tab_length)
    BY <1>3 DEF kputc_color
  <2> QED BY <1>2, <2>1, <2>2, RepeatedView
<1>4. CASE c = "nl"
  <2> DEFINE a == p \div W
             x == p % W
  <2>1. a \in Nat /\ x \in 0 .. (W - 1) /\ p = a * W + x
    BY <1>1, RowColumn
  <2>2. s.x = x
    BY ScreenFields DEF View, Picture
  <2> HIDE DEF a, x, s
  <2>3. (a + 1) * W = a * W + W /\ a * W \in Nat
    BY <1>2, <2>1
  <2>4. q = (a + 1) * W /\ Cell(c, colour) = Blank(colour)
    BY <1>4 DEF NextPos, Cell, a
  <2>5. W - x \in Nat /\ W - x # 0
    BY <1>2, <2>1
  <2>6. kputc_color(s, c, colour) = Repeated(s, Blank(colour), W - x)
    BY <1>4, <2>2, <2>5 DEF kputc_color
  <2>7. q = p + (W - x)
    BY <1>1, <1>2, <2>1, <2>3, <2>4
  <2> QED BY <2>4, <2>5, <2>6, <2>7, RepeatedView DEF s
<1>5. CASE c # "tab" /\ c # "nl"
  <2> DEFINE cell == [ch |-> c, colour |-> colour]
  <2>1. q = p + 1 /\ Cell(c, colour) = cell
    BY <1>5 DEF NextPos, Cell
  <2>2. kputc_color(s, c, colour) = vga_putc(s, cell)
    BY <1>5 DEF kputc_color
  <2>3. Room(t, M)
    <3>1. TopRow(t, q) \in Nat /\ t <= TopRow(t, q)
      BY <1>1, TopRowGrows
    <3> QED BY <1>1, <3>1, RoomBelow
  <2> HIDE DEF cell
  <2> QED BY <2>1, <2>2, <2>3, PutView
<1> QED BY <1>3, <1>4, <1>5

(***************************************************************************)
(* The loop that writes a text on the tape.                                *)
(***************************************************************************)
WriteLoop(w, tp, p, str, colour, n) ==
    w = [k \in 0 .. n |-> IF k = 0 THEN [tape |-> tp, pos |-> p] ELSE WriteChar(w[k - 1], str[k], colour)]

(***************************************************************************)
(* The loop over a line has a value for every length.                      *)
(***************************************************************************)
LEMMA WriteLoopExists ==
    ASSUME NEW tp, NEW p, NEW str, NEW colour
    PROVE  \A n \in Nat : \E w : WriteLoop(w, tp, p, str, colour, n)
<1> DEFINE c == [tape |-> tp, pos |-> p]
           S == {n \in Nat : \E w : WriteLoop(w, tp, p, str, colour, n)}
<1>1. 0 \in S
  <2> DEFINE w == [k \in 0 .. 0 |-> c]
  <2>1. w = [k \in 0 .. 0 |-> IF k = 0 THEN c ELSE WriteChar(w[k - 1], str[k], colour)]
    OBVIOUS
  <2>2. WriteLoop(w, tp, p, str, colour, 0)
    BY <2>1 DEF WriteLoop
  <2> QED BY <2>2
<1>2. ASSUME NEW n \in S PROVE n + 1 \in S
  <2>1. PICK w : WriteLoop(w, tp, p, str, colour, n)
    OBVIOUS
  <2> HIDE DEF c
  <2>2. w = [k \in 0 .. n |-> IF k = 0 THEN c ELSE WriteChar(w[k - 1], str[k], colour)]
    BY <2>1 DEF WriteLoop, c
  <2> DEFINE v == [k \in 0 .. (n + 1) |-> IF k = n + 1 THEN WriteChar(w[n], str[k], colour) ELSE w[k]]
  <2>3. ASSUME NEW k \in 0 .. (n + 1)
        PROVE  v[k] = IF k = 0 THEN c ELSE WriteChar(v[k - 1], str[k], colour)
    <3>1. n \in Nat
      OBVIOUS
    <3>2. CASE k = n + 1
      <4>1. k - 1 = n /\ n \in 0 .. (n + 1) /\ n # n + 1 /\ k # 0
        BY <3>1, <3>2
      <4>2. v[n] = w[n] /\ v[k] = WriteChar(w[n], str[k], colour)
        BY <3>2, <4>1
      <4> HIDE DEF v
      <4> QED BY <4>1, <4>2
    <3>3. CASE k # n + 1 /\ k # 0
      <4>1. k \in 0 .. n /\ k - 1 \in 0 .. (n + 1) /\ k - 1 # n + 1
        BY <3>1, <3>3
      <4>2. v[k] = w[k] /\ v[k - 1] = w[k - 1]
        BY <3>3, <4>1
      <4>3. w[k] = WriteChar(w[k - 1], str[k], colour)
        BY <2>2, <3>3, <4>1
      <4> HIDE DEF v
      <4> QED BY <3>3, <4>2, <4>3
    <3>4. CASE k # n + 1 /\ k = 0
      <4>1. k \in 0 .. n
        BY <3>1, <3>4
      <4>2. w[k] = c
        BY <2>2, <3>4, <4>1
      <4>3. v[k] = w[k]
        BY <3>4
      <4> HIDE DEF v
      <4> QED BY <3>4, <4>2, <4>3
    <3> QED BY <3>2, <3>3, <3>4
  <2>4. v = [k \in 0 .. (n + 1) |-> v[k]]
    OBVIOUS
  <2> HIDE DEF v
  <2>5. v = [k \in 0 .. (n + 1) |-> IF k = 0 THEN c ELSE WriteChar(v[k - 1], str[k], colour)]
    BY <2>3, <2>4
  <2>6. WriteLoop(v, tp, p, str, colour, n + 1)
    BY <2>5 DEF WriteLoop, c
  <2> QED BY <2>6
<1>3. S = Nat
  <2>1. S \in SUBSET Nat
    OBVIOUS
  <2> HIDE DEF S
  <2> QED BY <1>1, <1>2, <2>1, SetInduction
<1> QED BY <1>3

(***************************************************************************)
(* The positions the characters of a line go to, one after the other.      *)
(***************************************************************************)
LEMMA WrittenIs ==
    ASSUME NEW tp, NEW p \in Nat, NEW str, NEW colour, Len(str) \in Nat
    PROVE  \E w : /\ w[0] = [tape |-> tp, pos |-> p]
                  /\ \A k \in 0 .. (Len(str) - 1) : w[k + 1] = WriteChar(w[k], str[k + 1], colour)
                  /\ \A k \in 0 .. Len(str) : w[k].pos \in Nat /\ w[k].pos <= w[Len(str)].pos
                  /\ Written(tp, p, str, colour) = w[Len(str)]
<1> DEFINE n == Len(str)
           c == [tape |-> tp, pos |-> p]
           w == CHOOSE f : f = [k \in 0 .. n |-> IF k = 0 THEN c ELSE WriteChar(f[k - 1], str[k], colour)]
<1>0. n \in Nat
  OBVIOUS
<1>1. \E f : f = [k \in 0 .. n |-> IF k = 0 THEN c ELSE WriteChar(f[k - 1], str[k], colour)]
  <2>1. PICK f : WriteLoop(f, tp, p, str, colour, n)
    BY <1>0, WriteLoopExists
  <2> QED BY <2>1 DEF WriteLoop
<1>2. w = [k \in 0 .. n |-> IF k = 0 THEN c ELSE WriteChar(w[k - 1], str[k], colour)]
  BY <1>1
<1>3. Written(tp, p, str, colour) = w[n]
  BY DEF Written
<1> HIDE DEF w, n
<1>4. w[0] = c
  BY <1>0, <1>2
<1>5. ASSUME NEW k \in 0 .. (n - 1) PROVE w[k + 1] = WriteChar(w[k], str[k + 1], colour)
  <2>1. k + 1 \in 0 .. n /\ k + 1 # 0 /\ (k + 1) - 1 = k
    BY <1>0
  <2> QED BY <1>2, <2>1
<1>6. ASSUME NEW k \in 0 .. (n - 1), w[k].pos \in Nat
      PROVE  w[k + 1].pos \in Nat /\ w[k].pos <= w[k + 1].pos
  <2>1. w[k + 1].pos = NextPos(w[k].pos, str[k + 1])
    <3> DEFINE t == w[k]
    <3>1. w[k + 1] = WriteChar(t, str[k + 1], colour)
      BY <1>5
    <3> HIDE DEF t
    <3>2. WriteChar(t, str[k + 1], colour).pos = NextPos(t.pos, str[k + 1])
      BY DEF WriteChar
    <3> QED BY <3>1, <3>2 DEF t
  <2> QED BY <1>6, <2>1, NextPosGrows
<1> DEFINE P == {j \in Nat : j <= n => \A k \in 0 .. j : w[k].pos \in Nat /\ w[k].pos <= w[j].pos}
<1>7. 0 \in P
  <2>1. w[0].pos = p
    BY <1>4
  <2> QED BY <2>1
<1>8. ASSUME NEW j \in P PROVE j + 1 \in P
  <2> SUFFICES ASSUME j + 1 <= n, NEW k \in 0 .. (j + 1)
               PROVE  w[k].pos \in Nat /\ w[k].pos <= w[j + 1].pos
    OBVIOUS
  <2>1. j \in 0 .. (n - 1) /\ j <= n /\ j \in 0 .. j
    BY <1>0
  <2>2. \A i \in 0 .. j : w[i].pos \in Nat /\ w[i].pos <= w[j].pos
    BY <2>1
  <2>3. w[j].pos \in Nat
    BY <2>1, <2>2
  <2>4. w[j + 1].pos \in Nat /\ w[j].pos <= w[j + 1].pos
    BY <1>6, <2>1, <2>3
  <2>5. k \in 0 .. j \/ k = j + 1
    OBVIOUS
  <2> QED BY <2>2, <2>3, <2>4, <2>5
<1>9. P = Nat
  <2>1. P \in SUBSET Nat
    OBVIOUS
  <2> HIDE DEF P
  <2> QED BY <1>7, <1>8, <2>1, SetInduction
<1>10. \A k \in 0 .. n : w[k].pos \in Nat /\ w[k].pos <= w[n].pos
  BY <1>0, <1>9
<1> QED BY <1>3, <1>4, <1>5, <1>10 DEF n

(***************************************************************************)
(* A text: the screen shows the tape on which the text was written.        *)
(***************************************************************************)
LEMMA StringView ==
    ASSUME NEW M \in Nat, NEW tp, NEW t, NEW p, NEW str, NEW colour, Len(str) \in Nat,
           OnScreen(t, p), Ahead(tp, t, M),
           NEW r, r = Written(tp, p, str, colour), Room(TopRow(t, r.pos), M)
    PROVE  /\ kputs_color(View(tp, t, p), str, colour) = View(r.tape, TopRow(t, r.pos), r.pos)
           /\ OnScreen(TopRow(t, r.pos), r.pos)
           /\ Ahead(r.tape, TopRow(t, r.pos), M)
<1> DEFINE n == Len(str)
<1>1. t \in Nat /\ p \in Nat /\ n \in Nat
  BY DEF OnScreen
<1>2. PICK w : /\ w[0] = [tape |-> tp, pos |-> p]
               /\ \A k \in 0 .. (Len(str) - 1) : w[k + 1] = WriteChar(w[k], str[k + 1], colour)
               /\ \A k \in 0 .. Len(str) : w[k].pos \in Nat /\ w[k].pos <= w[Len(str)].pos
               /\ Written(tp, p, str, colour) = w[Len(str)]
  BY <1>1, WrittenIs
<1>3. r = w[n]
  BY <1>2
<1> DEFINE T(k) == TopRow(t, w[k].pos)
           V(k) == View(w[k].tape, T(k), w[k].pos)
           Holds(k) == OnScreen(T(k), w[k].pos) /\ Ahead(w[k].tape, T(k), M)
<1>4. Holds(0) /\ V(0) = View(tp, t, p)
  <2>1. w[0].tape = tp /\ w[0].pos = p
    BY <1>2
  <2>2. T(0) = t
    BY <2>1, TopRowSame
  <2> HIDE DEF T
  <2> QED BY <2>1, <2>2
<1>5. ASSUME NEW k \in 0 .. (n - 1), Holds(k)
      PROVE  Holds(k + 1) /\ V(k + 1) = kputc_color(V(k), str[k + 1], colour)
  <2>1. k \in 0 .. n /\ k + 1 \in 0 .. n /\ n \in 0 .. n
    BY <1>1
  <2> DEFINE a == w[k].pos
             b == w[k].tape
             q == NextPos(a, str[k + 1])
  <2>2. w[k + 1].pos = q /\ w[k + 1].tape = Fill(b, a, q, Cell(str[k + 1], colour))
    <3>1. w[k + 1] = WriteChar(w[k], str[k + 1], colour)
      BY <1>2
    <3>2. PICK z : z = w[k]
      OBVIOUS
    <3>3. /\ WriteChar(z, str[k + 1], colour).pos = NextPos(z.pos, str[k + 1])
          /\ WriteChar(z, str[k + 1], colour).tape =
                Fill(z.tape, z.pos, NextPos(z.pos, str[k + 1]), Cell(str[k + 1], colour))
      BY DEF WriteChar
    <3> QED BY <3>1, <3>2, <3>3
  <2>3. a \in Nat /\ q \in Nat /\ a <= q /\ r.pos \in Nat /\ q <= r.pos
    <3>1. a \in Nat
      BY <1>2, <2>1
    <3>2. w[k + 1].pos <= w[n].pos /\ w[n].pos \in Nat
      BY <1>2, <2>1
    <3> HIDE DEF a
    <3>3. q \in Nat /\ a <= q
      BY <3>1, NextPosGrows
    <3> QED BY <1>3, <2>2, <3>1, <3>2, <3>3
  <2>4. T(k) \in Nat /\ TopRow(T(k), q) = T(k + 1)
    <3> HIDE DEF q, a
    <3>0. PICK x, y : x = a /\ y = q
      OBVIOUS
    <3>3. t \in Nat /\ x \in Nat /\ y \in Nat /\ x <= y
      BY <1>1, <2>3, <3>0
    <3>4. TopRow(t, x) \in Nat /\ TopRow(TopRow(t, x), y) = TopRow(t, y)
      BY <3>3, TopRowGrows
    <3>1. TopRow(t, a) \in Nat /\ TopRow(TopRow(t, a), q) = TopRow(t, q)
      BY <3>0, <3>4
    <3>2. T(k) = TopRow(t, a) /\ T(k + 1) = TopRow(t, w[k + 1].pos)
      BY DEF a
    <3> HIDE DEF T
    <3> QED BY <2>2, <3>1, <3>2
  <2>5. Room(TopRow(t, q), M)
    <3> HIDE DEF q
    <3>1. TopRow(t, q) \in Nat /\ TopRow(t, q) <= TopRow(t, r.pos)
      BY <1>1, <2>3, TopRowGrows
    <3>2. TopRow(t, r.pos) \in Nat
      <4>1. r.pos <= r.pos
        BY <2>3
      <4> QED BY <1>1, <2>3, <4>1, TopRowGrows
    <3> QED BY <3>1, <3>2, RoomBelow
  <2>6. T(k + 1) = TopRow(t, q)
    BY <2>2
  <2>7. OnScreen(T(k), a) /\ Ahead(b, T(k), M)
    BY <1>5
  <2> DEFINE u == T(k)
             d == str[k + 1]
  <2>8. Room(TopRow(u, q), M)
    BY <2>4, <2>5, <2>6
  <2>9. V(k) = View(b, u, a)
    OBVIOUS
  <2>10. OnScreen(u, a) /\ Ahead(b, u, M) /\ q = NextPos(a, d)
    BY <2>7
  <2> HIDE DEF a, b, u, d, q
  <2>11. /\ kputc_color(View(b, u, a), d, colour) = View(Fill(b, a, q, Cell(d, colour)), TopRow(u, q), q)
         /\ OnScreen(TopRow(u, q), q)
         /\ Ahead(Fill(b, a, q, Cell(d, colour)), TopRow(u, q), M)
    BY <2>8, <2>10, PutcView
  <2>12. TopRow(u, q) = T(k + 1)
    BY <2>4 DEF u
  <2> HIDE DEF T
  <2> QED BY <2>2, <2>9, <2>11, <2>12 DEF d
<1> HIDE DEF T
<1>6. \A k \in 0 .. n : Holds(k)
  <2> DEFINE S == {k \in Nat : k <= n => Holds(k)}
  <2> HIDE DEF Holds
  <2>1. 0 \in S
    BY <1>4
  <2>2. ASSUME NEW k \in S PROVE k + 1 \in S
    BY <1>1, <1>5
  <2>3. S = Nat
    <3>1. S \in SUBSET Nat
      OBVIOUS
    <3> HIDE DEF S
    <3> QED BY <2>1, <2>2, <3>1, SetInduction
  <2> QED BY <2>3
<1>7. \A k \in 0 .. (n - 1) : V(k + 1) = kputc_color(V(k), str[k + 1], colour)
  <2> HIDE DEF Holds, V
  <2>1. \A k \in 0 .. (n - 1) : k \in 0 .. n
    BY <1>1
  <2> QED BY <1>5, <1>6, <2>1
<1> DEFINE s == View(tp, t, p)
           E == [i \in 0 .. n |-> V(i)]
           put == CHOOSE f : f = [i \in 0 .. n |-> IF i = 0 THEN s ELSE kputc_color(f[i - 1], str[i], colour)]
<1>8. kputs_color(s, str, colour) = put[n]
  BY DEF kputs_color
<1> HIDE DEF V, Holds, s, n
<1>9. E = [i \in 0 .. n |-> IF i = 0 THEN s ELSE kputc_color(E[i - 1], str[i], colour)]
  <2>1. ASSUME NEW i \in 0 .. n PROVE E[i] = IF i = 0 THEN s ELSE kputc_color(E[i - 1], str[i], colour)
    <3>1. CASE i = 0
      BY <3>1, <1>4 DEF s
    <3>2. CASE i # 0
      <4>1. i - 1 \in 0 .. (n - 1) /\ i - 1 \in 0 .. n /\ (i - 1) + 1 = i
        BY <1>1, <3>2
      <4> QED BY <3>2, <4>1, <1>7
    <3> QED BY <3>1, <3>2
  <2> QED BY <2>1
<1> HIDE DEF E
<1>10. put = [i \in 0 .. n |-> IF i = 0 THEN s ELSE kputc_color(put[i - 1], str[i], colour)]
  BY <1>9
<1> HIDE DEF put
<1>11. put[n] = E[n]
  <2>1. put[0] = E[0]
    BY <1>1, <1>9, <1>10
  <2>2. ASSUME NEW k \in 0 .. (n - 1), put[k] = E[k] PROVE put[k + 1] = E[k + 1]
    <3>1. k + 1 \in 0 .. n /\ k + 1 # 0 /\ (k + 1) - 1 = k
      BY <1>1
    <3>2. put[k + 1] = kputc_color(put[k], str[k + 1], colour)
      BY <1>10, <3>1
    <3>3. E[k + 1] = kputc_color(E[k], str[k + 1], colour)
      BY <1>9, <3>1
    <3> QED BY <2>2, <3>2, <3>3
  <2> QED BY <1>1, <2>1, <2>2, LoopsAgree
<1>12. E[n] = V(n) /\ Holds(n)
  BY <1>1, <1>6 DEF E
<1> QED BY <1>3, <1>8, <1>11, <1>12 DEF s, V, Holds, T

(***************************************************************************)
(* clear_screen leaves a blank screen with the cursor in the corner.       *)
(***************************************************************************)
LEMMA ClearView ==
    ASSUME NEW v, NEW x, NEW y, NEW h, v = [j \in 0 .. (H - 1) |-> [i \in 0 .. (W - 1) |-> v[j][i]]]
    PROVE  clear_screen(Shown(v, x, y, h)) = View(BlankTape, 0, 0)
<1> DEFINE n == W * H
           M == (H + 2) * W
           b == Blank(std)
           tp == [i \in 0 .. M |-> IF i < n THEN v[i \div W][i % W] ELSE b]
           s == Shown(v, 0, 0, h)
           R(tape_, t) == [j \in 0 .. (H - 1) |-> [i \in 0 .. (W - 1) |-> tape_[(t + j) * W + i]]]
<1>1. W \in Nat \ {0} /\ H \in Nat \ {0}
  BY ConsoleAssumption
<1>2. n \in Nat /\ n # 0 /\ M \in Nat /\ n = H * W /\ M = n + 2 * W
  <2>1. n \in Nat /\ n = H * W /\ M = H * W + 2 * W
    BY <1>1
  <2>2. 0 < H
    BY <1>1
  <2>3. 0 * W + W <= H * W
    BY <1>1, <2>2, RowsApart
  <2>4. 0 * W = 0
    BY <1>1
  <2> HIDE DEF n
  <2> QED BY <1>1, <2>1, <2>3, <2>4
<1>3. 0 \div W = 0 /\ 0 % W = 0 /\ 0 \in 0 .. (W - 1) /\ 0 = 0 * W + 0
  BY <1>1, RowColumnIs
<1>4. n \div W = H /\ n % W = 0
  <2>1. n = H * W + 0
    BY <1>2
  <2> QED BY <1>1, <1>2, <1>3, <2>1, RowColumnIs
<1> HIDE DEF n, M
<1>5. OnScreen(0, 0)
  BY <1>1, <1>3 DEF OnScreen
<1>6. TopRow(0, 0 + n) = 1 /\ 0 + n = n
  <2>1. 0 + n = n
    BY <1>2
  <2> QED BY <1>1, <1>4, <2>1 DEF TopRow, Later
<1>7. Room(1, M)
  BY <1>1 DEF Room, M
<1>8. Ahead(tp, 0, M)
  <2>1. (0 + H) * W = n
    BY <1>1, <1>2
  <2>2. tp = [i \in 0 .. M |-> tp[i]]
    OBVIOUS
  <2>3. \A i \in 0 .. M : i >= n => tp[i] = b
    BY <1>2
  <2> HIDE DEF tp
  <2> QED BY <2>1, <2>2, <2>3 DEF Ahead
<1>9. ASSUME NEW j \in 0 .. H, NEW i \in 0 .. (W - 1)
      PROVE  /\ (0 + j) * W + i \in 0 .. M /\ (1 + j) * W + i \in 0 .. M
             /\ j < H => (0 + j) * W + i < n
             /\ ((0 + j) * W + i) \div W = j /\ ((0 + j) * W + i) % W = i
  <2>1. 0 + j = j /\ (1 + j) * W = j * W + W /\ j * W \in Nat /\ j * W <= H * W
    <3>1. CASE j = H
      BY <1>1, <3>1
    <3>2. CASE j < H
      <4>1. j * W + W <= H * W
        BY <1>1, <3>2, RowsApart
      <4>2. j * W \in Nat /\ H * W \in Nat
        BY <1>1
      <4> QED BY <1>1, <4>1, <4>2
    <3> QED BY <1>1, <3>1, <3>2
  <2>2. j < H => j * W + W <= H * W
    BY <1>1, RowsApart
  <2>3. j * W + i \in Nat
    BY <2>1
  <2>4. (j * W + i) \div W = j /\ (j * W + i) % W = i
    BY <2>3, RowColumnIs
  <2> DEFINE a == j * W
             d == H * W
  <2>5. a \in Nat /\ a <= d /\ n = d /\ M = d + 2 * W /\ (j < H => a + W <= d)
    BY <1>2, <2>1, <2>2
  <2>8. d \in Nat /\ W \in Nat /\ W >= 1
    BY <1>1
  <2>6. (0 + j) * W + i = a + i /\ (1 + j) * W + i = a + W + i
    BY <2>1
  <2> HIDE DEF a, d
  <2>7. a + i \in 0 .. M /\ a + W + i \in 0 .. M /\ (j < H => a + i < n)
    <3>1. M = d + W + W
      BY <2>5, <2>8
    <3> HIDE DEF n, M
    <3>2. i \in Nat /\ i <= W - 1
      BY <2>8
    <3> QED BY <2>5, <2>8, <3>1, <3>2
  <2> QED BY <2>4, <2>6, <2>7 DEF a
<1>10. R(tp, 0) = v
  <2>1. ASSUME NEW j \in 0 .. (H - 1), NEW i \in 0 .. (W - 1) PROVE tp[(0 + j) * W + i] = v[j][i]
    <3> DEFINE k == (0 + j) * W + i
    <3>1. j \in 0 .. H /\ j < H
      BY <1>1
    <3>2. k \in 0 .. M /\ k < n /\ k \div W = j /\ k % W = i
      BY <1>9, <3>1
    <3> HIDE DEF k
    <3>3. tp[k] = v[j][i]
      BY <3>2
    <3> QED BY <3>3 DEF k
  <2> HIDE DEF tp
  <2>2. R(tp, 0) = [j \in 0 .. (H - 1) |-> [i \in 0 .. (W - 1) |-> v[j][i]]]
    BY <2>1
  <2> HIDE DEF R
  <2> QED BY <2>2
<1> HIDE DEF tp
<1>11. View(tp, 0, 0) = Shown(v, 0, 0, 0 * W + 0)
  <2>1. View(tp, 0, 0) = Picture(tp, 0, 0 - 0, 0)
    BY <1>3 DEF View
  <2>2. 0 - 0 = 0
    OBVIOUS
  <2> QED BY <1>10, <2>1, <2>2 DEF Picture
<1>12. vga_putc(s, b) = vga_putc(View(tp, 0, 0), b)
  <2> HIDE DEF b
  <2> QED BY <1>11, PutIgnoresHw
<1> DEFINE tq == Fill(tp, 0, n, b)
<1>13. Repeated(s, b, n) = View(tq, 1, n)
  <2> HIDE DEF s, b
  <2>1. 0 \in Nat /\ n \in Nat /\ M \in Nat /\ n # 0 /\ Room(TopRow(0, 0 + n), M)
    BY <1>2, <1>6, <1>7
  <2>2. Repeated(s, b, n) = View(Fill(tp, 0, 0 + n, b), TopRow(0, 0 + n), 0 + n)
    BY <2>1, <1>5, <1>8, <1>12, RepeatedFrom
  <2> QED BY <1>6, <2>2
<1>14. R(tq, 1) = R(BlankTape, 0)
  <2>1. ASSUME NEW j \in 0 .. (H - 1), NEW i \in 0 .. (W - 1)
        PROVE  tq[(1 + j) * W + i] = b /\ BlankTape[(0 + j) * W + i] = b
    <3>1. j \in 0 .. H
      BY <1>1
    <3>2. (1 + j) * W + i \in 0 .. M /\ (0 + j) * W + i \in 0 .. M /\ (0 + j) * W + i < n
      BY <1>1, <1>9, <3>1
    <3>3. (0 + j) * W + i \in 0 .. (MaxPos + (H + 1) * W)
      <4> DEFINE k == (0 + j) * W + i
                 e == (H + 1) * W
      <4>1. e = n + W /\ k \in 0 .. M /\ k < n
        BY <1>1, <1>2, <3>2
      <4> HIDE DEF k, e
      <4>2. k \in 0 .. (MaxPos + e)
        <5>1. MaxPos \in Nat
          BY ConsoleAssumption
        <5>2. k \in Nat /\ k <= n /\ n \in Nat /\ e \in Nat /\ n <= e
          BY <1>1, <1>2, <4>1
        <5> HIDE DEF n, M
        <5> QED BY <5>1, <5>2
      <4> QED BY <4>2 DEF k, e
    <3> DEFINE k == (1 + j) * W + i
    <3>4. k \in 0 .. M
      BY <3>2
    <3> HIDE DEF k
    <3>5. DOMAIN tp = 0 .. M
      BY DEF tp
    <3>6. tq[k] = b
      <4>1. k \notin 0 .. (n - 1) => tp[k] = b
        BY <1>2, <3>4 DEF tp
      <4> QED BY <3>4, <3>5, <4>1 DEF Fill
    <3>7. BlankTape[(0 + j) * W + i] = b
      BY <3>3 DEF BlankTape
    <3> QED BY <3>6, <3>7 DEF k
  <2> HIDE DEF tq
  <2> QED BY <2>1
<1>15. View(tq, 1, n) = Shown(R(BlankTape, 0), n % W, n \div W - 1, (n \div W - 1) * W + (n % W))
  BY <1>14 DEF View, Picture
<1>16. MovedTo(View(tq, 1, n), 0, 0) = Shown(R(BlankTape, 0), 0, 0, 0 * W + 0)
  <2> HIDE DEF R, tq
  <2> QED BY <1>15, SetXY
<1>17. View(BlankTape, 0, 0) = Shown(R(BlankTape, 0), 0, 0, 0 * W + 0)
  <2>1. View(BlankTape, 0, 0) = Picture(BlankTape, 0, 0 - 0, 0)
    BY <1>3 DEF View
  <2>2. 0 - 0 = 0
    OBVIOUS
  <2> QED BY <2>1, <2>2 DEF Picture
<1>18. clear_screen(Shown(v, x, y, h)) = MovedTo(Repeated(s, b, n), 0, 0)
  <2>1. PICK m : m = Shown(v, x, y, h)
    OBVIOUS
  <2>2. [m EXCEPT !.x = 0, !.y = 0] = s
    <3>1. Homed(m) = s
      BY <2>1, HomedIs
    <3> HIDE DEF s
    <3> QED BY <3>1 DEF Homed
  <2> HIDE DEF s
  <2> QED BY <2>1, <2>2 DEF clear_screen, MovedTo, n
<1> QED BY <1>13, <1>16, <1>17, <1>18

-----------------------------------------------------------------------------
(***************************************************************************)
(* The inductive invariant: the screen shows the tape from row top on, the *)
(* cursor is on it, and nothing was written behind it.                     *)
(***************************************************************************)
LastPos == MaxPos + (H + 1) * W

ScreenInv ==
    /\ OnScreen(top, pos)
    /\ Ahead(tape, top, LastPos)
    /\ Room(top, LastPos)
    /\ screen = View(tape, top, pos)

(***************************************************************************)
(* The end of the tape.                                                    *)
(***************************************************************************)
LEMMA LastPosType == LastPos \in Nat
<1>1. W \in Nat /\ H \in Nat /\ MaxPos \in Nat
  BY ConsoleAssumption
<1>2. (H + 1) * W \in Nat
  BY <1>1
<1> QED BY <1>1, <1>2 DEF LastPos

(***************************************************************************)
(* There is room as long as the top row is within the bound.               *)
(***************************************************************************)
LEMMA RoomIs ==
    ASSUME NEW t \in Nat, t * W <= MaxPos
    PROVE  Room(t, LastPos)
<1>1. W \in Nat /\ H \in Nat /\ MaxPos \in Nat
  BY ConsoleAssumption
<1> DEFINE a == t * W
           b == (H + 1) * W
<1>2. (t + H + 1) * W = a + b /\ a \in Nat /\ b \in Nat /\ a <= MaxPos
  BY <1>1
<1> HIDE DEF a, b
<1>3. a + b <= MaxPos + b
  BY <1>1, <1>2
<1> QED BY <1>2, <1>3 DEF Room, LastPos, b

(***************************************************************************)
(* There is room for the window after a line that ends before MaxPos.      *)
(***************************************************************************)
LEMMA RoomAfter ==
    ASSUME NEW t \in Nat, Room(t, LastPos), NEW p \in Nat, p <= MaxPos
    PROVE  Room(TopRow(t, p), LastPos)
<1>1. W \in Nat \ {0} /\ H \in Nat \ {0} /\ MaxPos \in Nat
  BY ConsoleAssumption
<1> DEFINE a == p \div W
           u == TopRow(t, p)
<1>2. a \in Nat /\ p % W \in 0 .. (W - 1) /\ p = a * W + (p % W)
  BY RowColumn
<1>3. u = t \/ (u \in Nat /\ u <= a)
  <2>1. t < a - (H - 1) => a - (H - 1) \in Nat /\ a - (H - 1) <= a
    BY <1>1, <1>2
  <2>2. u = IF t < a - (H - 1) THEN a - (H - 1) ELSE t
    BY DEF TopRow, Later
  <2> HIDE DEF a, u
  <2> QED BY <2>1, <2>2
<1> HIDE DEF a, u
<1>4. CASE u = t
  BY <1>4 DEF u
<1>5. CASE u \in Nat /\ u <= a
  <2>1. u * W <= a * W
    <3>1. CASE u = a
      BY <1>1, <1>2, <3>1
    <3>2. CASE u < a
      <4>1. u * W + W <= a * W
        BY <1>2, <1>5, <3>2, RowsApart
      <4>2. u * W \in Nat /\ a * W \in Nat
        BY <1>1, <1>2, <1>5
      <4> QED BY <1>1, <4>1, <4>2
    <3> QED BY <1>2, <1>5, <3>1, <3>2
  <2>2. u * W <= MaxPos
    <3>1. u * W \in Nat /\ a * W \in Nat
      BY <1>1, <1>2, <1>5
    <3> QED BY <1>1, <1>2, <2>1, <3>1
  <2>3. Room(u, LastPos)
    BY <1>5, <2>2, RoomIs
  <2> QED BY <2>3 DEF u
<1> QED BY <1>3, <1>4, <1>5

(***************************************************************************)
(* A line that is put on the screen keeps the invariant.                   *)
(***************************************************************************)
LEMMA PrintShows ==
    ASSUME ScreenInv, NEW l, NEW colour, PutLine(l, colour), Len(l) \in Nat
    PROVE  ScreenInv'
<1>1. PICK str : str = l
  OBVIOUS
<1>2. PICK r : r = Written(tape, pos, str, colour)
  OBVIOUS
<1>3. /\ r.pos <= MaxPos /\ screen' = kputs_color(screen, str, colour)
      /\ tape' = r.tape /\ pos' = r.pos /\ top' = TopRow(top, r.pos)
  BY <1>1, <1>2 DEF PutLine, TopRow
<1>4. PICK tp, t, p : tp = tape /\ t = top /\ p = pos
  OBVIOUS
<1>5. /\ OnScreen(t, p) /\ Ahead(tp, t, LastPos) /\ Room(t, LastPos) /\ screen = View(tp, t, p)
      /\ t \in Nat /\ p \in Nat /\ Len(str) \in Nat /\ r = Written(tp, p, str, colour)
  BY <1>1, <1>2, <1>4 DEF ScreenInv, OnScreen
<1>6. r.pos \in Nat
  <2>1. PICK w : /\ w[0] = [tape |-> tp, pos |-> p]
                 /\ \A k \in 0 .. (Len(str) - 1) : w[k + 1] = WriteChar(w[k], str[k + 1], colour)
                 /\ \A k \in 0 .. Len(str) : w[k].pos \in Nat /\ w[k].pos <= w[Len(str)].pos
                 /\ Written(tp, p, str, colour) = w[Len(str)]
    BY <1>5, WrittenIs
  <2> QED BY <1>5, <2>1
<1>7. Room(TopRow(t, r.pos), LastPos)
  BY <1>3, <1>5, <1>6, RoomAfter
<1>8. /\ kputs_color(View(tp, t, p), str, colour) = View(r.tape, TopRow(t, r.pos), r.pos)
      /\ OnScreen(TopRow(t, r.pos), r.pos)
      /\ Ahead(r.tape, TopRow(t, r.pos), LastPos)
  BY <1>5, <1>7, LastPosType, StringView
<1> QED BY <1>3, <1>4, <1>5, <1>7, <1>8 DEF ScreenInv

(***************************************************************************)
(* The cleared tape.                                                       *)
(***************************************************************************)
LEMMA BlankAhead == OnScreen(0, 0) /\ Ahead(BlankTape, 0, LastPos) /\ Room(0, LastPos)
<1>1. W \in Nat \ {0} /\ H \in Nat \ {0} /\ MaxPos \in Nat
  BY ConsoleAssumption
<1>2. 0 \div W = 0
  <2>1. 0 \in 0 .. (W - 1) /\ 0 = 0 * W + 0
    BY <1>1
  <2> QED BY <2>1, RowColumnIs
<1>3. OnScreen(0, 0)
  BY <1>1, <1>2 DEF OnScreen
<1>4. Ahead(BlankTape, 0, LastPos)
  BY DEF Ahead, BlankTape, LastPos
<1>5. Room(0, LastPos)
  <2>1. 0 * W <= MaxPos
    BY <1>1
  <2> QED BY <2>1, RoomIs
<1> QED BY <1>3, <1>4, <1>5

(***************************************************************************)
(* clear_screen keeps the invariant, although it scrolls once.             *)
(***************************************************************************)
LEMMA ClearShows ==
    ASSUME ScreenInv, ClearScreen
    PROVE  ScreenInv'
<1>1. PICK tp, t, p : tp = tape /\ t = top /\ p = pos
  OBVIOUS
<1>2. PICK s : s = screen
  OBVIOUS
<1>3. s = View(tp, t, p)
  BY <1>1, <1>2 DEF ScreenInv
<1> DEFINE v == [j \in 0 .. (H - 1) |-> [i \in 0 .. (W - 1) |-> tp[(t + j) * W + i]]]
           y == p \div W - t
           x == p % W
           h == y * W + x
<1>4. s = Shown(v, x, y, h)
  BY <1>3 DEF View, Picture
<1>5. v = [j \in 0 .. (H - 1) |-> [i \in 0 .. (W - 1) |-> v[j][i]]]
  OBVIOUS
<1> HIDE DEF v, x, y, h
<1>6. clear_screen(s) = View(BlankTape, 0, 0)
  BY <1>4, <1>5, ClearView
<1>7. screen' = clear_screen(s) /\ tape' = BlankTape /\ top' = 0 /\ pos' = 0
  BY <1>2 DEF ClearScreen
<1> QED BY <1>6, <1>7, BlankAhead DEF ScreenInv

(***************************************************************************)
(* move_cursor_by_XY keeps the invariant, places off the screen included.  *)
(***************************************************************************)
LEMMA MoveShows ==
    ASSUME ScreenInv, NEW x \in 0 .. W, NEW y \in 0 .. H, MoveCursor(x, y)
    PROVE  ScreenInv'
<1>1. W \in Nat \ {0} /\ H \in Nat \ {0}
  BY ConsoleAssumption
<1>2. UNCHANGED <<tape, top>> /\ screen' = move_cursor_by_XY(screen, x, y)
      /\ pos' = IF x < W /\ y < H THEN (top + y) * W + x ELSE pos
  BY DEF MoveCursor
<1>3. CASE ~(x < W /\ y < H)
  <2>1. x > W - 1 \/ y > H - 1
    BY <1>1, <1>3
  <2>2. screen' = screen /\ pos' = pos
    BY <1>2, <1>3, <2>1 DEF move_cursor_by_XY
  <2> QED BY <1>2, <2>2 DEF ScreenInv
<1>4. CASE x < W /\ y < H
  <2>1. PICK tp, t, p, s, q : tp = tape /\ t = top /\ p = pos /\ s = screen /\ q = (t + y) * W + x
    OBVIOUS
  <2>2. s = View(tp, t, p) /\ OnScreen(t, p) /\ t \in Nat
    BY <2>1 DEF ScreenInv, OnScreen
  <2>3. ~(x > W - 1 \/ y > H - 1) /\ x \in 0 .. (W - 1) /\ y \in 0 .. (H - 1)
    BY <1>1, <1>4
  <2>4. screen' = MovedTo(s, x, y) /\ pos' = q
    BY <1>2, <1>4, <2>1, <2>3 DEF move_cursor_by_XY, MovedTo
  <2> DEFINE v == [j \in 0 .. (H - 1) |-> [i \in 0 .. (W - 1) |-> tp[(t + j) * W + i]]]
  <2>5. s = Shown(v, p % W, p \div W - t, (p \div W - t) * W + (p % W))
    BY <2>2 DEF View, Picture
  <2>6. q \in Nat /\ q \div W = t + y /\ q % W = x
    <3>1. t + y \in Nat /\ q \in Nat
      BY <1>1, <2>1, <2>2, <2>3
    <3> QED BY <2>1, <2>3, <3>1, RowColumnIs
  <2>7. View(tp, t, q) = Shown(v, x, y, y * W + x)
    <3>1. (t + y) - t = y
      BY <2>2, <2>3
    <3> QED BY <2>6, <3>1 DEF View, Picture
  <2>8. MovedTo(s, x, y) = Shown(v, x, y, y * W + x)
    <3> HIDE DEF v
    <3> QED BY <2>5, SetXY
  <2>9. OnScreen(t, q)
    BY <1>1, <2>2, <2>3, <2>6 DEF OnScreen
  <2> QED BY <1>2, <2>1, <2>4, <2>7, <2>8, <2>9 DEF ScreenInv
<1> QED BY <1>3, <1>4

(***************************************************************************)
(* screen_uproll_once keeps the invariant, in the first row too.           *)
(***************************************************************************)
LEMMA RollShows ==
    ASSUME ScreenInv, RollUp
    PROVE  ScreenInv'
<1>1. W \in Nat \ {0} /\ H \in Nat \ {0} /\ MaxPos \in Nat
  BY ConsoleAssumption
<1>2. PICK tp, t, p, s : tp = tape /\ t = top /\ p = pos /\ s = screen
  OBVIOUS
<1>3. /\ OnScreen(t, p) /\ Ahead(tp, t, LastPos) /\ Room(t, LastPos) /\ s = View(tp, t, p)
      /\ t \in Nat /\ p \in Nat /\ t <= p \div W /\ p \div W <= t + (H - 1)
  BY <1>2 DEF ScreenInv, OnScreen
<1>4. /\ (t + 2) * W <= MaxPos /\ tape' = tp /\ top' = t + 1 /\ screen' = screen_uproll_once(s)
      /\ pos' = IF p \div W = t THEN p + W ELSE p
  BY <1>2 DEF RollUp
<1> DEFINE a == p \div W
           x == p % W
           y == a - t
           q == IF a = t THEN p + W ELSE p
<1>5. a \in Nat /\ x \in 0 .. (W - 1) /\ p = a * W + x
  BY <1>3, RowColumn
<1>6. q \in Nat /\ q % W = x /\ q \div W = IF a = t THEN a + 1 ELSE a
  <2>1. CASE a # t
    BY <1>3, <2>1
  <2>2. CASE a = t
    <3> HIDE DEF a, x
    <3>1. (a + 1) * W = a * W + W /\ a * W \in Nat
      BY <1>1, <1>5
    <3>2. q \in Nat /\ a + 1 \in Nat /\ q = (a + 1) * W + x
      BY <1>1, <1>3, <1>5, <2>2, <3>1
    <3> HIDE DEF q
    <3>3. q \div W = a + 1 /\ q % W = x
      BY <1>5, <3>2, RowColumnIs
    <3> QED BY <2>2, <3>2, <3>3
  <2> QED BY <2>1, <2>2
<1>7. OnScreen(t + 1, q)
  <2>1. t + 1 \in Nat /\ t + 1 <= q \div W /\ q \div W <= (t + 1) + (H - 1)
    <3>1. t <= a /\ a <= t + (H - 1)
      BY <1>3
    <3> HIDE DEF a, q
    <3> QED BY <1>1, <1>3, <1>5, <1>6, <3>1
  <2> QED BY <1>6, <2>1 DEF OnScreen
<1>8. Room(t + 1, LastPos)
  <2>1. (t + 2) * W = t * W + 2 * W /\ (t + 1) * W = t * W + W /\ t * W \in Nat
    BY <1>1, <1>3
  <2>2. (t + 1) * W <= MaxPos
    BY <1>1, <1>4, <2>1
  <2> QED BY <1>3, <2>2, RoomIs
<1>9. Ahead(tp, t + 1, LastPos)
  <2>1. (t + 1 + H) * W = (t + H) * W + W /\ (t + H) * W \in Nat
    BY <1>1, <1>3
  <2> DEFINE b == (t + H) * W
             c == (t + 1 + H) * W
  <2>2. b \in Nat /\ c = b + W
    BY <2>1
  <2>3. /\ tp = [i \in 0 .. LastPos |-> tp[i]]
        /\ \A i \in 0 .. LastPos : i >= b => tp[i] = Blank(std)
    BY <1>3 DEF Ahead
  <2> HIDE DEF b, c
  <2>4. \A i \in 0 .. LastPos : i >= c => tp[i] = Blank(std)
    BY <1>1, <2>2, <2>3, LastPosType
  <2> QED BY <2>3, <2>4 DEF Ahead, c
<1>10. \A i \in 0 .. (W - 1) : tp[(t + H) * W + i] = Blank(std)
  <2> TAKE i \in 0 .. (W - 1)
  <2> DEFINE b == (t + H) * W
             c == (t + H + 1) * W
  <2>1. b \in Nat /\ c = b + W /\ c <= LastPos
    BY <1>1, <1>3 DEF Room
  <2>2. \A k \in 0 .. LastPos : k >= b => tp[k] = Blank(std)
    BY <1>3 DEF Ahead
  <2> HIDE DEF b, c
  <2>3. b + i \in 0 .. LastPos /\ b + i >= b
    BY <1>1, <2>1, LastPosType
  <2>4. tp[b + i] = Blank(std)
    BY <2>2, <2>3
  <2> QED BY <2>4 DEF b
<1>11. Rolled(Rows(tp, t)) = Rows(tp, t + 1)
  BY <1>3, <1>10, RolledRows
<1> DEFINE v == Rows(tp, t)
           h == y * W + x
<1>12. s = Shown(v, x, y, h)
  BY <1>3 DEF View, Picture, Rows
<1>13. screen_uproll_once(s) = IF y # 0 THEN Shown(Rolled(v), x, y - 1, (y - 1) * W + x)
                               ELSE Shown(Rolled(v), x, y, h)
  <2> HIDE DEF v, x, y, h
  <2> QED BY <1>12, RollFields
<1>14. View(tp, t + 1, q) = Shown(Rows(tp, t + 1), q % W, q \div W - (t + 1),
                                  (q \div W - (t + 1)) * W + (q % W))
  BY DEF View, Picture, Rows
<1>15. q % W = x /\ q \div W - (t + 1) = IF y # 0 THEN y - 1 ELSE y
  <2>1. a \in Nat /\ t \in Nat /\ q \div W = IF a = t THEN a + 1 ELSE a
    BY <1>3, <1>5, <1>6
  <2> HIDE DEF a, q, x
  <2> QED BY <1>6, <2>1
<1>16. screen_uproll_once(s) = View(tp, t + 1, q)
  <2> HIDE DEF v, x, y, q
  <2>1. CASE y # 0
    BY <1>11, <1>13, <1>14, <1>15, <2>1 DEF v
  <2>2. CASE y = 0
    BY <1>11, <1>13, <1>14, <1>15, <2>2 DEF v
  <2> QED BY <2>1, <2>2
<1> QED BY <1>4, <1>7, <1>8, <1>9, <1>16 DEF ScreenInv

(***************************************************************************)
(* vga_init makes the invariant true, whatever the video memory holds.     *)
(***************************************************************************)
LEMMA InitShows ==
    ASSUME ConsoleInit
    PROVE  ScreenInv
<1>1. PICK c : screen = clear_screen([video |-> [j \in 0 .. (H - 1) |-> [i \in 0 .. (W - 1) |->
                                               [ch |-> c, colour |-> std]]],
                                      x |-> 0, y |-> 0, hw |-> 0])
  BY DEF ConsoleInit
<1> DEFINE v == [j \in 0 .. (H - 1) |-> [i \in 0 .. (W - 1) |-> [ch |-> c, colour |-> std]]]
<1>2. screen = clear_screen(Shown(v, 0, 0, 0))
  BY <1>1 DEF Shown
<1>3. v = [j \in 0 .. (H - 1) |-> [i \in 0 .. (W - 1) |-> v[j][i]]]
  OBVIOUS
<1> HIDE DEF v
<1>4. clear_screen(Shown(v, 0, 0, 0)) = View(BlankTape, 0, 0)
  BY <1>3, ClearView
<1>5. tape = BlankTape /\ top = 0 /\ pos = 0
  BY DEF ConsoleInit
<1> QED BY <1>2, <1>4, <1>5, BlankAhead DEF ScreenInv

(***************************************************************************)
(* The invariant says what is shown.                                       *)
(***************************************************************************)
LEMMA ScreenInvShows ==
    ASSUME ScreenInv
    PROVE  ScreenShowsText
<1>1. PICK tp, t, p, s : tp = tape /\ t = top /\ p = pos /\ s = screen
  OBVIOUS
<1> DEFINE a == p \div W
           x == p % W
           y == a - t
<1>2. s = View(tp, t, p) /\ t \in Nat /\ p \in Nat /\ t <= a
  BY <1>1 DEF ScreenInv, OnScreen
<1>3. a \in Nat /\ x \in 0 .. (W - 1) /\ p = a * W + x
  BY <1>2, RowColumn
<1>4. s = Shown(Rows(tp, t), x, y, y * W + x)
  BY <1>2 DEF View, Picture, Rows
<1> HIDE DEF x, y
<1>5. s.video = Rows(tp, t) /\ s.x = x /\ s.y = y /\ s.hw = y * W + x
  <2> DEFINE h == y * W + x
  <2> HIDE DEF h
  <2> QED BY <1>4, ScreenFields DEF h
<1>6. \A r \in 0 .. (H - 1), c \in 0 .. (W - 1) : s.video[r][c] = tp[(t + r) * W + c]
  BY <1>5 DEF Rows
<1>7. t + y = a
  BY <1>2, <1>3 DEF y
<1>8. p = (t + s.y) * W + s.x
  BY <1>3, <1>5, <1>7
<1> QED BY <1>1, <1>5, <1>6, <1>8 DEF ScreenShowsText

(***************************************************************************)
(* Powers.                                                                 *)
(***************************************************************************)
LEMMA PowSteps ==
    ASSUME NEW b \in Nat \ {0}
    PROVE  /\ Pow(b, 0) = 1
           /\ \A k \in Nat : Pow(b, k) \in Nat \ {0} /\ Pow(b, k + 1) = b * Pow(b, k)
<1> DEFINE D == Nat \ {0}
           f == [n \in D |-> b * n]
           p == CHOOSE g : g = [k \in Nat |-> IF k = 0 THEN 1 ELSE b * g[k - 1]]
<1>1. f \in [D -> D] /\ 1 \in D
  OBVIOUS
<1>2. \E G : G = [k \in Nat |-> IF k = 0 THEN 1 ELSE f[G[k - 1]]]
  <2> HIDE DEF D, f
  <2> QED BY <1>1, IterationExists
<1>3. PICK G : G = [k \in Nat |-> IF k = 0 THEN 1 ELSE f[G[k - 1]]]
  BY <1>2
<1>4. /\ G[0] = 1
      /\ \A k \in Nat : G[k + 1] = f[G[k]]
      /\ \A k \in Nat : G[k] \in D
  <2> HIDE DEF D, f
  <2> QED BY <1>1, <1>3, IterationSteps
<1>5. G = [k \in Nat |-> IF k = 0 THEN 1 ELSE b * G[k - 1]]
  <2>1. ASSUME NEW k \in Nat, k # 0 PROVE f[G[k - 1]] = b * G[k - 1]
    <3>1. k - 1 \in Nat
      BY <2>1
    <3>2. G[k - 1] \in D
      BY <1>4, <3>1
    <3> QED BY <3>2
  <2> QED BY <1>3, <2>1
<1>6. p = [k \in Nat |-> IF k = 0 THEN 1 ELSE b * p[k - 1]]
  BY <1>5
<1>7. \A k \in Nat : Pow(b, k) = p[k]
  BY DEF Pow
<1> HIDE DEF p
<1>8. p[0] = 1
  BY <1>6
<1>9. ASSUME NEW k \in Nat PROVE p[k + 1] = b * p[k]
  <2>1. k + 1 \in Nat /\ k + 1 # 0 /\ (k + 1) - 1 = k
    OBVIOUS
  <2> QED BY <1>6, <2>1
<1> DEFINE S == {k \in Nat : p[k] \in Nat \ {0}}
<1>10. S = Nat
  <2>1. 0 \in S
    BY <1>8
  <2>2. ASSUME NEW k \in S PROVE k + 1 \in S
    <3>1. p[k + 1] = b * p[k] /\ p[k] \in Nat \ {0}
      BY <1>9
    <3> QED BY <3>1
  <2>3. S \in SUBSET Nat
    OBVIOUS
  <2> HIDE DEF S
  <2> QED BY <2>1, <2>2, <2>3, SetInduction
<1>11. \A k \in Nat : Pow(b, k + 1) = p[k + 1]
  <2>1. \A k \in Nat : k + 1 \in Nat
    OBVIOUS
  <2> QED BY <1>7, <2>1
<1>12. \A k \in Nat : p[k] \in Nat \ {0}
  BY <1>10
<1>13. Pow(b, 0) = 1
  BY <1>7, <1>8
<1>14. ASSUME NEW k \in Nat PROVE Pow(b, k) \in Nat \ {0} /\ Pow(b, k + 1) = b * Pow(b, k)
  <2>1. Pow(b, k) = p[k] /\ Pow(b, k + 1) = p[k + 1]
    BY <1>7, <1>11
  <2> QED BY <1>9, <1>12, <2>1
<1> QED BY <1>13, <1>14

(***************************************************************************)
(* Larger exponents give larger powers, and a power is larger than its     *)
(* exponent.                                                               *)
(***************************************************************************)
LEMMA PowGrows ==
    ASSUME NEW b \in Nat, b >= 2, NEW i \in Nat, NEW j \in Nat, i <= j
    PROVE  Pow(b, i) <= Pow(b, j)
<1> DEFINE S == {d \in Nat : Pow(b, i) <= Pow(b, i + d)}
<1>1. 0 \in S
  <2>1. i + 0 = i /\ Pow(b, i) \in Nat
    BY PowSteps
  <2> QED BY <2>1
<1>2. ASSUME NEW d \in S PROVE d + 1 \in S
  <2> DEFINE m == Pow(b, i + d)
  <2>1. i + d \in Nat /\ i + (d + 1) = (i + d) + 1
    OBVIOUS
  <2>2. m \in Nat /\ Pow(b, i + (d + 1)) = b * m /\ Pow(b, i) <= m /\ Pow(b, i) \in Nat
    BY <2>1, PowSteps
  <2> HIDE DEF m
  <2>3. m <= b * m
    BY <2>2
  <2>4. b * m \in Nat
    BY <2>2
  <2> QED BY <2>2, <2>3, <2>4
<1>3. S = Nat
  <2>1. S \in SUBSET Nat
    OBVIOUS
  <2> HIDE DEF S
  <2> QED BY <1>1, <1>2, <2>1, SetInduction
<1>4. j - i \in Nat /\ i + (j - i) = j
  OBVIOUS
<1>5. j - i \in S
  <2> HIDE DEF S
  <2> QED BY <1>3, <1>4
<1> QED BY <1>4, <1>5

(***************************************************************************)
(* A power is larger than its exponent.                                    *)
(***************************************************************************)
LEMMA PowLarge ==
    ASSUME NEW b \in Nat, b >= 2
    PROVE  \A k \in Nat : k < Pow(b, k)
<1> DEFINE S == {k \in Nat : k < Pow(b, k)}
<1>1. 0 \in S
  BY PowSteps
<1>2. ASSUME NEW k \in S PROVE k + 1 \in S
  <2> DEFINE m == Pow(b, k)
  <2>1. m \in Nat /\ k < m /\ Pow(b, k + 1) = b * m
    <3>1. b \in Nat \ {0} /\ k \in Nat /\ k < Pow(b, k)
      OBVIOUS
    <3> QED BY <3>1, PowSteps
  <2> HIDE DEF m
  <2>2. m + m <= b * m /\ b * m \in Nat
    BY <2>1
  <2> QED BY <2>1, <2>2
<1>3. S = Nat
  <2>1. S \in SUBSET Nat
    OBVIOUS
  <2> HIDE DEF S
  <2> QED BY <1>1, <1>2, <2>1, SetInduction
<1> QED BY <1>3

(***************************************************************************)
(* A number has L digits in base b, or is 0 and has none.                  *)
(***************************************************************************)
HasDigits(n, b, L) == L \in Nat /\ n < Pow(b, L) /\ (L = 0 \/ Pow(b, L - 1) <= n)

\* The L lowest digits of n, the highest first.
Fixed(n, b, L) == [j \in 1 .. L |-> Digit((n \div Pow(b, L - j)) % b)]

(***************************************************************************)
(* Every number has a number of digits.                                    *)
(***************************************************************************)
LEMMA DigitsExist ==
    ASSUME NEW b \in Nat, b >= 2, NEW n \in Nat
    PROVE  \E L \in Nat : HasDigits(n, b, L)
<1> DEFINE S == {k \in Nat : n < Pow(b, k)}
<1>1. n \in S
  BY PowLarge
<1>2. PICK L \in S : \A m \in S : L <= m
  <2>1. S \in SUBSET Nat /\ S # {}
    BY <1>1
  <2> HIDE DEF S
  <2> QED BY <2>1, LeastNumber
<1>3. L = 0 \/ Pow(b, L - 1) <= n
  <2> SUFFICES ASSUME L # 0 PROVE Pow(b, L - 1) <= n
    OBVIOUS
  <2>1. L - 1 \in Nat /\ ~(L <= L - 1)
    OBVIOUS
  <2>2. L - 1 \notin S
    BY <1>2, <2>1
  <2>3. Pow(b, L - 1) \in Nat
    <3>1. b \in Nat \ {0}
      OBVIOUS
    <3> QED BY <2>1, <3>1, PowSteps
  <2> QED BY <2>1, <2>2, <2>3
<1> QED BY <1>2, <1>3 DEF HasDigits

(***************************************************************************)
(* It has only one.                                                        *)
(***************************************************************************)
LEMMA DigitsUnique ==
    ASSUME NEW b \in Nat, b >= 2, NEW n \in Nat, NEW L, NEW K, HasDigits(n, b, L), HasDigits(n, b, K)
    PROVE  L <= K
<1>1. L \in Nat /\ K \in Nat /\ n < Pow(b, K) /\ (L = 0 \/ Pow(b, L - 1) <= n)
  BY DEF HasDigits
<1> SUFFICES ASSUME K < L PROVE FALSE
  BY <1>1
<1>2. L - 1 \in Nat /\ K <= L - 1 /\ L # 0
  BY <1>1
<1>3. Pow(b, K) <= Pow(b, L - 1) /\ Pow(b, K) \in Nat /\ Pow(b, L - 1) \in Nat
  BY <1>1, <1>2, PowGrows, PowSteps
<1> QED BY <1>1, <1>2, <1>3

(***************************************************************************)
(* Dividing by the base drops the lowest digit.                            *)
(***************************************************************************)
LEMMA DropDigit ==
    ASSUME NEW b \in Nat, b >= 2, NEW n \in Nat
    PROVE  /\ n \div b \in Nat /\ n % b \in 0 .. (b - 1)
           /\ n > 0 => n \div b < n
           /\ \A m \in Nat : (n \div b) \div Pow(b, m) = n \div Pow(b, m + 1)
           /\ \A m \in Nat : n \div b < Pow(b, m) <=> n < Pow(b, m + 1)
<1>0. b \in Nat \ {0}
  OBVIOUS
<1> DEFINE q == n \div b
           r == n % b
<1>1. q \in Nat /\ r \in 0 .. (b - 1) /\ n = q * b + r
  BY <1>0, DivMod
<1> HIDE DEF q, r
<1>2. n > 0 => q < n
  <2>1. CASE q = 0
    BY <1>1, <2>1
  <2>2. CASE q > 0
    <3>1. q + q <= q * b /\ q * b \in Nat
      BY <1>1
    <3> QED BY <1>1, <2>2, <3>1
  <2> QED BY <1>1, <2>1, <2>2
<1>3. ASSUME NEW m \in Nat
      PROVE  /\ q \div Pow(b, m) = n \div Pow(b, m + 1)
             /\ q < Pow(b, m) <=> n < Pow(b, m + 1)
  <2> DEFINE c == Pow(b, m)
  <2>1. c \in Nat \ {0} /\ Pow(b, m + 1) = b * c
    BY <1>0, PowSteps
  <2> HIDE DEF c
  <2>2. b * c = c * b /\ c * b \in Nat
    BY <2>1
  <2>3. (q * b + r) \div (c * b) = q \div c
    <3>1. r \in Nat /\ r < b
      BY <1>1
    <3> QED BY <1>0, <1>1, <2>1, <3>1, SameQuotient
  <2>4. q < c => n < c * b
    <3>1. q < c => q * b + b <= c * b
      <4> SUFFICES ASSUME q < c PROVE q * b + b <= c * b
        OBVIOUS
      <4>1. PICK d \in Nat : c = q + 1 + d
        <5>1. c - q - 1 \in Nat /\ c = q + 1 + (c - q - 1)
          BY <1>1, <2>1
        <5> QED BY <5>1
      <4>2. (q + 1 + d) * b = q * b + b + d * b /\ d * b \in Nat /\ q * b \in Nat
        BY <1>1
      <4> QED BY <4>1, <4>2
    <3> QED BY <1>1, <2>2, <3>1
  <2>5. ~(q < c) => ~(n < c * b)
    <3> SUFFICES ASSUME ~(q < c) PROVE n >= c * b
      BY <1>1, <2>2
    <3>1. PICK d \in Nat : q = c + d
      <4>1. q - c \in Nat /\ q = c + (q - c)
        BY <1>1, <2>1
      <4> QED BY <4>1
    <3>2. (c + d) * b = c * b + d * b /\ d * b \in Nat
      BY <2>1
    <3> QED BY <1>1, <2>2, <3>1, <3>2
  <2> QED BY <1>1, <2>1, <2>2, <2>3, <2>4, <2>5 DEF c
<1> QED BY <1>1, <1>2, <1>3 DEF q, r
(***************************************************************************)
(* Sequences are functions, and Append is one with one argument more.      *)
(***************************************************************************)
LEMMA SeqIsFunction ==
    ASSUME NEW X, NEW s \in Seq(X)
    PROVE  s = [j \in 1 .. Len(s) |-> s[j]]
  OBVIOUS

(***************************************************************************)
(* Append as a function.                                                   *)
(***************************************************************************)
LEMMA AppendIs ==
    ASSUME NEW X, NEW s \in Seq(X), NEW e \in X
    PROVE  Append(s, e) = [j \in 1 .. (Len(s) + 1) |-> IF j = Len(s) + 1 THEN e ELSE s[j]]
<1>1. Append(s, e) \in Seq(X) /\ Len(Append(s, e)) = Len(s) + 1
  OBVIOUS
<1>2. \A j \in 1 .. Len(s) : Append(s, e)[j] = s[j]
  OBVIOUS
<1>3. Append(s, e)[Len(s) + 1] = e
  OBVIOUS
<1> DEFINE a == Append(s, e)
<1> HIDE DEF a
<1>4. a = [j \in 1 .. (Len(s) + 1) |-> a[j]]
  BY <1>1, SeqIsFunction DEF a
<1>5. Len(s) \in Nat
  OBVIOUS
<1>6. ASSUME NEW j \in 1 .. (Len(s) + 1) PROVE a[j] = IF j = Len(s) + 1 THEN e ELSE s[j]
  <2>1. j = Len(s) + 1 \/ j \in 1 .. Len(s)
    BY <1>5
  <2> QED BY <1>2, <1>3, <2>1, <1>5 DEF a
<1> QED BY <1>4, <1>6 DEF a
(***************************************************************************)
(* The characters: any string, and the ones the code itself writes.        *)
(***************************************************************************)
Char == STRING \cup {"0", "1", "2", "3", "4", "5", "6", "7", "8", "9", "A", "B", "C", "D", "E", "F",
                     "x", "%", "s", "d", "h", "H", "[", "]", "nl"}

(***************************************************************************)
(* Digits are characters.                                                  *)
(***************************************************************************)
LEMMA DigitType == \A d \in 0 .. 15 : Digit(d) \in Char
<1> DEFINE t == <<"0", "1", "2", "3", "4", "5", "6", "7", "8", "9", "A", "B", "C", "D", "E", "F">>
<1>1. \A d : Digit(d) = t[d + 1]
  BY DEF Digit
<1>2. \A i \in 1 .. 16 : t[i] \in Char
  <2>1. /\ t[1] = "0" /\ t[2] = "1" /\ t[3] = "2" /\ t[4] = "3"
        /\ t[5] = "4" /\ t[6] = "5" /\ t[7] = "6" /\ t[8] = "7"
        /\ t[9] = "8" /\ t[10] = "9" /\ t[11] = "A" /\ t[12] = "B"
        /\ t[13] = "C" /\ t[14] = "D" /\ t[15] = "E" /\ t[16] = "F"
    OBVIOUS
  <2>2. {"0", "1", "2", "3", "4", "5", "6", "7", "8", "9", "A", "B", "C", "D", "E", "F"} \subseteq Char
    BY DEF Char
  <2> HIDE DEF t
  <2> TAKE i \in 1 .. 16
  <2>3. \/ i = 1 \/ i = 2 \/ i = 3 \/ i = 4 \/ i = 5 \/ i = 6 \/ i = 7 \/ i = 8
        \/ i = 9 \/ i = 10 \/ i = 11 \/ i = 12 \/ i = 13 \/ i = 14 \/ i = 15 \/ i = 16
    OBVIOUS
  <2> QED BY <2>1, <2>2, <2>3
<1> HIDE DEF t
<1>3. \A d \in 0 .. 15 : d + 1 \in 1 .. 16
  OBVIOUS
<1> QED BY <1>1, <1>2, <1>3

(***************************************************************************)
(* Digits make a text.                                                     *)
(***************************************************************************)
LEMMA FixedType ==
    ASSUME NEW b \in 2 .. 16, NEW n \in Nat, NEW L \in Nat
    PROVE  Fixed(n, b, L) \in Seq(Char) /\ Len(Fixed(n, b, L)) = L
<1>1. ASSUME NEW j \in 1 .. L PROVE Digit((n \div Pow(b, L - j)) % b) \in Char
  <2>1. L - j \in Nat /\ b \in Nat \ {0}
    OBVIOUS
  <2>2. Pow(b, L - j) \in Nat \ {0}
    BY <2>1, PowSteps
  <2> DEFINE c == Pow(b, L - j)
             q == n \div c
  <2>3. q \in Nat
    BY <2>2, DivMod
  <2> HIDE DEF q
  <2>4. q % b \in 0 .. (b - 1)
    BY <2>1, <2>3, DivMod
  <2>5. q % b \in 0 .. 15
    BY <2>4
  <2> QED BY <2>5, DigitType DEF q
<1>2. Fixed(n, b, L) \in [1 .. L -> Char]
  BY <1>1 DEF Fixed
<1> QED BY <1>2

(***************************************************************************)
(* One digit more is the lowest one, behind those of the quotient.         *)
(***************************************************************************)
LEMMA FixedShift ==
    ASSUME NEW b \in 2 .. 16, NEW n \in Nat, NEW L \in Nat
    PROVE  Fixed(n, b, L + 1) = Append(Fixed(n \div b, b, L), Digit(n % b))
<1> DEFINE q == n \div b
           s == Fixed(q, b, L)
           e == Digit(n % b)
<1>1. b \in Nat /\ b >= 2 /\ b \in Nat \ {0}
  OBVIOUS
<1>2. q \in Nat
  BY <1>1, DivMod
<1>3. s \in Seq(Char) /\ Len(s) = L
  BY <1>2, FixedType
<1>4. n % b \in 0 .. 15
  <2>1. n % b \in 0 .. (b - 1)
    BY <1>1, DivMod
  <2> QED BY <2>1
<1>5. e \in Char
  BY <1>4, DigitType
<1>6. ASSUME NEW j \in 1 .. (L + 1) PROVE Fixed(n, b, L + 1)[j] = IF j = L + 1 THEN e ELSE s[j]
  <2>1. CASE j = L + 1
    <3>1. (L + 1) - j = 0 /\ Pow(b, 0) = 1 /\ n \div 1 = n
      BY <1>1, <2>1, PowSteps
    <3> QED BY <2>1, <3>1 DEF Fixed
  <2>2. CASE j # L + 1
    <3>1. j \in 1 .. L /\ L - j \in Nat /\ (L + 1) - j = (L - j) + 1
      BY <2>2
    <3>2. q \div Pow(b, L - j) = n \div Pow(b, (L - j) + 1)
      <4>1. PICK m \in Nat : m = L - j
        BY <3>1
      <4>2. \A i \in Nat : (n \div b) \div Pow(b, i) = n \div Pow(b, i + 1)
        BY <1>1, DropDigit
      <4>3. q \div Pow(b, m) = n \div Pow(b, m + 1)
        BY <4>2
      <4> QED BY <4>1, <4>3
    <3>3. s[j] = Digit((q \div Pow(b, L - j)) % b)
      BY <3>1 DEF Fixed
    <3>4. Fixed(n, b, L + 1)[j] = Digit((n \div Pow(b, (L + 1) - j)) % b)
      BY DEF Fixed
    <3> QED BY <2>2, <3>1, <3>2, <3>3, <3>4
  <2> QED BY <2>1, <2>2
<1> HIDE DEF s, e
<1>7. Fixed(n, b, L + 1) = [j \in 1 .. (L + 1) |-> IF j = L + 1 THEN e ELSE s[j]]
  <2>1. Fixed(n, b, L + 1) = [j \in 1 .. (L + 1) |-> Fixed(n, b, L + 1)[j]]
    BY DEF Fixed
  <2> QED BY <1>6, <2>1
<1>8. Append(s, e) = [j \in 1 .. (L + 1) |-> IF j = L + 1 THEN e ELSE s[j]]
  BY <1>3, <1>5, AppendIs
<1> QED BY <1>7, <1>8 DEF s, e

(***************************************************************************)
(* A number has one digit more than its quotient.                          *)
(***************************************************************************)
LEMMA OneDigitMore ==
    ASSUME NEW b \in Nat, b >= 2, NEW n \in Nat, n > 0, NEW L, HasDigits(n \div b, b, L)
    PROVE  HasDigits(n, b, L + 1)
<1> DEFINE q == n \div b
<1>1. L \in Nat /\ q < Pow(b, L) /\ (L = 0 \/ Pow(b, L - 1) <= q)
  BY DEF HasDigits
<1>2. /\ q \in Nat
      /\ \A m \in Nat : q < Pow(b, m) <=> n < Pow(b, m + 1)
  BY DropDigit
<1>3. n < Pow(b, L + 1)
  BY <1>1, <1>2
<1>4. Pow(b, L) <= n
  <2>0. b \in Nat \ {0}
    OBVIOUS
  <2>1. CASE L = 0
    BY <2>0, <2>1, PowSteps
  <2>2. CASE L # 0
    <3>1. L - 1 \in Nat /\ (L - 1) + 1 = L
      BY <1>1, <2>2
    <3>2. Pow(b, L - 1) \in Nat /\ Pow(b, L) \in Nat
      BY <2>0, <1>1, <3>1, PowSteps
    <3>3. ~(q < Pow(b, L - 1))
      BY <1>1, <1>2, <2>2, <3>2
    <3>4. ~(n < Pow(b, L))
      BY <1>2, <3>1, <3>3
    <3> QED BY <3>2, <3>4
  <2> QED BY <2>1, <2>2
<1>5. L + 1 \in Nat /\ (L + 1) - 1 = L
  BY <1>1
<1> QED BY <1>3, <1>4, <1>5 DEF HasDigits

(***************************************************************************)
(* Two recursive functions that go on alike from smaller arguments agree.  *)
(***************************************************************************)
LEMMA RecursionsAgree ==
    ASSUME NEW n \in Nat, NEW f, NEW g,
           \A k \in 0 .. n : (\A i \in 0 .. (k - 1) : f[i] = g[i]) => f[k] = g[k]
    PROVE  f[n] = g[n]
<1> DEFINE S == {k \in Nat : k <= n => \A i \in 0 .. k : f[i] = g[i]}
<1>1. 0 \in S
  <2>1. \A i \in 0 .. (0 - 1) : f[i] = g[i]
    OBVIOUS
  <2>2. f[0] = g[0]
    BY <2>1
  <2> QED BY <2>2
<1>2. ASSUME NEW k \in S PROVE k + 1 \in S
  <2> SUFFICES ASSUME k + 1 <= n PROVE \A i \in 0 .. (k + 1) : f[i] = g[i]
    OBVIOUS
  <2>1. k \in Nat /\ k <= n /\ k + 1 \in 0 .. n
    OBVIOUS
  <2>2. \A i \in 0 .. k : f[i] = g[i]
    BY <2>1
  <2>3. \A i \in 0 .. ((k + 1) - 1) : f[i] = g[i]
    BY <2>1, <2>2
  <2>4. f[k + 1] = g[k + 1]
    BY <2>1, <2>3
  <2> QED BY <2>1, <2>2, <2>4
<1>3. S = Nat
  <2>1. S \in SUBSET Nat
    OBVIOUS
  <2> HIDE DEF S
  <2> QED BY <1>1, <1>2, <2>1, SetInduction
<1>4. n \in S
  <2> HIDE DEF S
  <2> QED BY <1>3
<1> QED BY <1>4

(***************************************************************************)
(* func gives the digits of its argument, the highest first and none that  *)
(* is not needed.                                                          *)
(***************************************************************************)
LEMMA FuncIs ==
    ASSUME NEW b \in 2 .. 16, NEW n \in Nat
    PROVE  \E L \in Nat : HasDigits(n, b, L) /\ func(n, b) = Fixed(n, b, L)
<1> DEFINE D(k) == CHOOSE L : HasDigits(k, b, L)
           E == [k \in 0 .. n |-> Fixed(k, b, D(k))]
           f == CHOOSE g : g = [k \in 0 .. n |-> IF k = 0 THEN <<>> ELSE Append(g[k \div b], Digit(k % b))]
<1>1. b \in Nat /\ b >= 2 /\ b \in Nat \ {0}
  OBVIOUS
<1>2. \A k \in Nat : HasDigits(k, b, D(k))
  BY <1>1, DigitsExist
<1>3. \A k \in Nat : D(k) \in Nat
  BY <1>2 DEF HasDigits
<1>4. func(n, b) = f[n]
  BY DEF func
<1> HIDE DEF D
<1>5. \A k \in Nat : \A L : HasDigits(k, b, L) => D(k) = L
  <2> TAKE k \in Nat
  <2> TAKE L
  <2> HAVE HasDigits(k, b, L)
  <2>1. HasDigits(k, b, D(k)) /\ D(k) \in Nat /\ L \in Nat
    BY <1>2, <1>3 DEF HasDigits
  <2>2. D(k) <= L /\ L <= D(k)
    BY <1>1, <2>1, DigitsUnique
  <2> QED BY <2>1, <2>2
<1>6. ASSUME NEW k \in Nat, k # 0
      PROVE  k \div b \in 0 .. (k - 1) /\ Fixed(k, b, D(k)) = Append(Fixed(k \div b, b, D(k \div b)), Digit(k % b))
  <2> DEFINE q == k \div b
  <2>1. q \in Nat /\ q < k /\ k > 0
    BY <1>1, <1>6, DropDigit
  <2>2. HasDigits(k, b, D(q) + 1)
    BY <1>1, <1>2, <2>1, OneDigitMore
  <2>3. D(k) = D(q) + 1 /\ D(q) \in Nat
    BY <1>3, <1>5, <2>1, <2>2
  <2>4. Fixed(k, b, D(q) + 1) = Append(Fixed(q, b, D(q)), Digit(k % b))
    BY <2>3, FixedShift
  <2> QED BY <2>1, <2>3, <2>4
<1>7. Fixed(0, b, D(0)) = <<>>
  <2>1. HasDigits(0, b, 0)
    BY <1>1, PowSteps DEF HasDigits
  <2>2. D(0) = 0
    BY <1>5, <2>1
  <2>3. Fixed(0, b, 0) \in Seq(Char) /\ Len(Fixed(0, b, 0)) = 0
    <3>1. PICK z \in Nat : z = 0
      OBVIOUS
    <3>2. Fixed(z, b, z) \in Seq(Char) /\ Len(Fixed(z, b, z)) = z
      BY FixedType
    <3> QED BY <3>1, <3>2
  <2> QED BY <2>2, <2>3
<1>8. E = [k \in 0 .. n |-> IF k = 0 THEN <<>> ELSE Append(E[k \div b], Digit(k % b))]
  <2>1. ASSUME NEW k \in 0 .. n PROVE E[k] = IF k = 0 THEN <<>> ELSE Append(E[k \div b], Digit(k % b))
    <3>1. CASE k = 0
      BY <1>7, <3>1
    <3>2. CASE k # 0
      <4>1. k \in Nat
        OBVIOUS
      <4>2. k \div b \in 0 .. (k - 1) /\ Fixed(k, b, D(k)) = Append(Fixed(k \div b, b, D(k \div b)), Digit(k % b))
        BY <1>6, <3>2, <4>1
      <4>3. k \div b \in 0 .. n
        BY <4>2
      <4>4. E[k] = Fixed(k, b, D(k)) /\ E[k \div b] = Fixed(k \div b, b, D(k \div b))
        BY <4>3
      <4> HIDE DEF E
      <4> QED BY <3>2, <4>2, <4>4
    <3> QED BY <3>1, <3>2
  <2>2. E = [k \in 0 .. n |-> E[k]]
    OBVIOUS
  <2> HIDE DEF E
  <2> QED BY <2>1, <2>2
<1>9. E[n] = Fixed(n, b, D(n))
  OBVIOUS
<1> HIDE DEF E
<1>10. f = [k \in 0 .. n |-> IF k = 0 THEN <<>> ELSE Append(f[k \div b], Digit(k % b))]
  BY <1>8, Zenon
<1> HIDE DEF f
<1>11. f[n] = E[n]
  <2>1. ASSUME NEW k \in 0 .. n, \A i \in 0 .. (k - 1) : f[i] = E[i] PROVE f[k] = E[k]
    <3>1. CASE k = 0
      BY <1>8, <1>10, <3>1
    <3>2. CASE k # 0
      <4>1. k \in Nat /\ k \div b \in 0 .. (k - 1)
        BY <1>6, <3>2
      <4>2. f[k \div b] = E[k \div b]
        BY <2>1, <4>1
      <4>3. f[k] = Append(f[k \div b], Digit(k % b)) /\ E[k] = Append(E[k \div b], Digit(k % b))
        BY <1>8, <1>10, <3>2
      <4> QED BY <4>2, <4>3
    <3> QED BY <3>1, <3>2
  <2> QED BY <2>1, RecursionsAgree
<1> QED BY <1>2, <1>3, <1>4, <1>9, <1>11

(***************************************************************************)
(* Concatenation as a function.                                            *)
(***************************************************************************)
LEMMA ConcatIs ==
    ASSUME NEW X, NEW s \in Seq(X), NEW t \in Seq(X)
    PROVE  /\ s \o t \in Seq(X) /\ Len(s \o t) = Len(s) + Len(t)
           /\ s \o t = [j \in 1 .. (Len(s) + Len(t)) |-> IF j <= Len(s) THEN s[j] ELSE t[j - Len(s)]]
<1>1. s \o t \in Seq(X) /\ Len(s \o t) = Len(s) + Len(t) /\ Len(s) \in Nat /\ Len(t) \in Nat
  OBVIOUS
<1>2. \A j \in 1 .. (Len(s) + Len(t)) : (s \o t)[j] = IF j <= Len(s) THEN s[j] ELSE t[j - Len(s)]
  OBVIOUS
<1> DEFINE a == s \o t
<1> HIDE DEF a
<1>3. a = [j \in 1 .. (Len(s) + Len(t)) |-> a[j]]
  BY <1>1, SeqIsFunction DEF a
<1>4. a = [j \in 1 .. (Len(s) + Len(t)) |-> IF j <= Len(s) THEN s[j] ELSE t[j - Len(s)]]
  BY <1>2, <1>3 DEF a
<1> QED BY <1>1, <1>4 DEF a

(***************************************************************************)
(* Two sequences of the same length and the same elements are the same.    *)
(***************************************************************************)
LEMMA SameSeq ==
    ASSUME NEW X, NEW s \in Seq(X), NEW t \in Seq(X), Len(s) = Len(t),
           \A j \in 1 .. Len(s) : s[j] = t[j]
    PROVE  s = t
<1>1. s = [j \in 1 .. Len(s) |-> s[j]] /\ t = [j \in 1 .. Len(s) |-> t[j]]
  BY SeqIsFunction
<1> QED BY <1>1

(***************************************************************************)
(* num2hexstr writes all the digits of an int, leading zeros included.     *)
(***************************************************************************)
LEMMA HexIs ==
    ASSUME NEW n \in Nat, n < Pow(16, WORD)
    PROVE  num2hexstr(n, FALSE) = Fixed(n, 16, WORD) /\ num2hexstr(n, TRUE) = <<"0", "x">> \o Fixed(n, 16, WORD)
<1> DEFINE s == func(n, 16)
           z == [i \in 1 .. (WORD - Len(s)) |-> "0"]
           F == Fixed(n, 16, WORD)
<1>1. PICK L \in Nat : HasDigits(n, 16, L) /\ s = Fixed(n, 16, L)
  <2>1. 16 \in 2 .. 16
    OBVIOUS
  <2> QED BY <2>1, FuncIs
<1>2. WORD \in Nat \ {0} /\ WORD \in Nat /\ 16 \in Nat \ {0} /\ 16 \in Nat /\ 16 >= 2
  BY ConsoleAssumption
<1>3. L <= WORD
  <2> SUFFICES ASSUME WORD < L PROVE FALSE
    BY <1>2
  <2>1. L - 1 \in Nat /\ WORD <= L - 1 /\ L # 0
    BY <1>2
  <2>2. Pow(16, L - 1) <= n
    BY <1>1, <2>1 DEF HasDigits
  <2>3. Pow(16, WORD) <= Pow(16, L - 1) /\ Pow(16, WORD) \in Nat /\ Pow(16, L - 1) \in Nat
    BY <1>2, <2>1, PowGrows, PowSteps
  <2> QED BY <2>2, <2>3
<1>4. s \in Seq(Char) /\ Len(s) = L
  <2>1. 16 \in 2 .. 16
    OBVIOUS
  <2> QED BY <1>1, <2>1, FixedType
<1>5. F \in Seq(Char) /\ Len(F) = WORD
  <2>1. 16 \in 2 .. 16 /\ WORD \in Nat
    BY <1>2
  <2> QED BY <2>1, FixedType
<1>6. z \in Seq(Char) /\ Len(z) = WORD - L /\ (\A i \in 1 .. (WORD - L) : z[i] = "0")
  <2>1. WORD - Len(s) = WORD - L /\ WORD - L \in Nat
    BY <1>2, <1>3, <1>4
  <2> HIDE DEF s
  <2>2. z \in [1 .. (WORD - L) -> Char]
    BY <2>1 DEF Char
  <2> QED BY <2>1, <2>2
<1>7. n < Pow(16, L)
  BY <1>1 DEF HasDigits
<1>8. ASSUME NEW j \in 1 .. WORD PROVE F[j] = IF j <= WORD - L THEN z[j] ELSE s[j - (WORD - L)]
  <2>1. F[j] = Digit((n \div Pow(16, WORD - j)) % 16)
    BY DEF Fixed
  <2>2. CASE j <= WORD - L
    <3> DEFINE c == Pow(16, WORD - j)
    <3>1. WORD - j \in Nat /\ L <= WORD - j
      BY <1>2, <2>2
    <3>2. Pow(16, L) <= c /\ c \in Nat \ {0} /\ Pow(16, L) \in Nat
      BY <1>2, <3>1, PowGrows, PowSteps
    <3> HIDE DEF c
    <3>3. n \div c = 0
      BY <1>7, <3>2
    <3>4. 0 % 16 = 0 /\ Digit(0) = "0"
      BY DEF Digit
    <3>5. j \in 1 .. (WORD - L)
      BY <1>2, <2>2
    <3>6. z[j] = "0"
      BY <1>6, <3>5
    <3> HIDE DEF z, F
    <3> QED BY <2>1, <2>2, <3>3, <3>4, <3>6 DEF c
  <2>3. CASE ~(j <= WORD - L)
    <3>1. j - (WORD - L) \in 1 .. L /\ L - (j - (WORD - L)) = WORD - j
      BY <1>2, <1>3, <2>3
    <3>2. Fixed(n, 16, L)[j - (WORD - L)] = Digit((n \div Pow(16, WORD - j)) % 16)
      BY <3>1 DEF Fixed
    <3> HIDE DEF s, F
    <3> QED BY <1>1, <2>1, <2>3, <3>2
  <2> QED BY <2>2, <2>3
<1>9. num2hexstr(n, FALSE) = <<>> \o z \o s /\ num2hexstr(n, TRUE) = <<"0", "x">> \o z \o s
  BY DEF num2hexstr
<1>10. <<"0", "x">> \in Seq(Char)
  BY DEF Char
<1> HIDE DEF z, s, F
<1>11. z \o s = F
  <2>1. z \o s = [j \in 1 .. (Len(z) + Len(s)) |-> IF j <= Len(z) THEN z[j] ELSE s[j - Len(z)]]
    BY <1>4, <1>6, ConcatIs
  <2>2. (WORD - L) + L = WORD
    BY <1>2
  <2>3. z \o s = [j \in 1 .. ((WORD - L) + L) |-> IF j <= WORD - L THEN z[j] ELSE s[j - (WORD - L)]]
    BY <1>4, <1>6, <2>1
  <2>4. F = [j \in 1 .. WORD |-> F[j]]
    BY <1>5, SeqIsFunction
  <2> QED BY <1>8, <2>2, <2>3, <2>4
<1>12. (<<>> \o z) \o s = z \o s /\ (<<"0", "x">> \o z) \o s = <<"0", "x">> \o (z \o s)
  BY <1>4, <1>6, <1>10
<1> QED BY <1>9, <1>11, <1>12 DEF F

(***************************************************************************)
(* A decimal number has L digits, at least one and no leading zero unless  *)
(* it is 0.                                                                *)
(***************************************************************************)
HasDecimals(n, L) == L \in Nat \ {0} /\ n < Pow(10, L) /\ (L = 1 \/ Pow(10, L - 1) <= n)

\* The L lowest decimal digits of n, the lowest first.
Low(n, L) == [j \in 1 .. L |-> Digit((n \div Pow(10, j - 1)) % 10)]

(***************************************************************************)
(* There is one such length, which NumDigits finds.                        *)
(***************************************************************************)
LEMMA NumDigitsIs ==
    ASSUME NEW n \in Nat
    PROVE  /\ HasDecimals(n, NumDigits(n))
           /\ \A L : HasDecimals(n, L) => NumDigits(n) = L
<1>1. 10 \in Nat /\ 10 >= 2 /\ 10 \in Nat \ {0}
  OBVIOUS
<1>2. PICK L : HasDecimals(n, L)
  <2>1. PICK L \in Nat : HasDigits(n, 10, L)
    BY <1>1, DigitsExist
  <2>2. CASE L = 0
    <3>1. n < 1
      BY <1>1, <2>1, <2>2, PowSteps DEF HasDigits
    <3>2. Pow(10, 0 + 1) = 10 * Pow(10, 0) /\ Pow(10, 0) = 1
      BY <1>1, PowSteps
    <3>3. Pow(10, 1) = 10
      BY <3>2
    <3>4. HasDecimals(n, 1)
      BY <3>1, <3>3 DEF HasDecimals
    <3> QED BY <3>4
  <2>3. CASE L # 0
    <3>1. HasDecimals(n, L)
      BY <2>1, <2>3 DEF HasDigits, HasDecimals
    <3> QED BY <3>1
  <2> QED BY <2>2, <2>3
<1>3. \A K, M : HasDecimals(n, K) /\ HasDecimals(n, M) => M <= K
  <2> TAKE K, M
  <2> HAVE HasDecimals(n, K) /\ HasDecimals(n, M)
  <2>1. K \in Nat /\ M \in Nat /\ n < Pow(10, K) /\ (M = 1 \/ Pow(10, M - 1) <= n) /\ K # 0
    BY DEF HasDecimals
  <2> SUFFICES ASSUME K < M PROVE FALSE
    BY <2>1
  <2>2. M - 1 \in Nat /\ K <= M - 1 /\ M # 1
    BY <2>1
  <2>3. Pow(10, K) <= Pow(10, M - 1) /\ Pow(10, K) \in Nat /\ Pow(10, M - 1) \in Nat
    BY <1>1, <2>1, <2>2, PowGrows, PowSteps
  <2> QED BY <2>1, <2>2, <2>3
<1>4. \A K : HasDecimals(n, K) => K \in 1 .. (n + 1)
  <2> TAKE K
  <2> HAVE HasDecimals(n, K)
  <2>1. K \in Nat \ {0} /\ (K = 1 \/ Pow(10, K - 1) <= n)
    BY DEF HasDecimals
  <2>2. CASE K = 1
    BY <2>2
  <2>3. CASE K # 1
    <3>1. K - 1 \in Nat
      BY <2>1
    <3>2. K - 1 < Pow(10, K - 1) /\ Pow(10, K - 1) \in Nat
      BY <1>1, <3>1, PowLarge, PowSteps
    <3> QED BY <2>1, <2>3, <3>2
  <2> QED BY <2>2, <2>3
<1>5. ASSUME NEW K \in 1 .. (n + 1)
      PROVE  HasDecimals(n, K) <=> n < Pow(10, K) /\ (K = 1 \/ n >= Pow(10, K - 1))
  <2>1. K \in Nat \ {0} /\ K - 1 \in Nat
    OBVIOUS
  <2>2. Pow(10, K - 1) \in Nat
    BY <1>1, <2>1, PowSteps
  <2> QED BY <2>1, <2>2 DEF HasDecimals
<1>6. \E K \in 1 .. (n + 1) : n < Pow(10, K) /\ (K = 1 \/ n >= Pow(10, K - 1))
  BY <1>2, <1>4, <1>5
<1>7. NumDigits(n) \in 1 .. (n + 1) /\ HasDecimals(n, NumDigits(n))
  <2> DEFINE K == NumDigits(n)
  <2>1. K \in 1 .. (n + 1) /\ n < Pow(10, K) /\ (K = 1 \/ n >= Pow(10, K - 1))
    BY <1>6 DEF NumDigits
  <2> HIDE DEF K
  <2>2. HasDecimals(n, K)
    BY <1>5, <2>1
  <2> QED BY <2>1, <2>2 DEF K
<1>8. ASSUME NEW K, HasDecimals(n, K) PROVE NumDigits(n) = K
  <2>1. NumDigits(n) <= K /\ K <= NumDigits(n) /\ K \in Nat /\ NumDigits(n) \in Nat
    BY <1>3, <1>7, <1>8 DEF HasDecimals
  <2> QED BY <2>1
<1> QED BY <1>7, <1>8

(***************************************************************************)
(* The digits, lowest first, of a number and of its quotient.              *)
(***************************************************************************)
LEMMA LowType ==
    ASSUME NEW n \in Nat, NEW L \in Nat
    PROVE  Low(n, L) \in Seq(Char) /\ Len(Low(n, L)) = L
<1>1. ASSUME NEW j \in 1 .. L PROVE Digit((n \div Pow(10, j - 1)) % 10) \in Char
  <2>1. j - 1 \in Nat /\ 10 \in Nat \ {0}
    OBVIOUS
  <2>2. Pow(10, j - 1) \in Nat \ {0}
    BY <2>1, PowSteps
  <2> DEFINE c == Pow(10, j - 1)
             q == n \div c
  <2>3. q \in Nat
    BY <2>2, DivMod
  <2> HIDE DEF q
  <2>4. q % 10 \in 0 .. 15
    BY <2>3
  <2> QED BY <2>4, DigitType DEF q
<1>2. Low(n, L) \in [1 .. L -> Char]
  BY <1>1 DEF Low
<1> QED BY <1>2

(***************************************************************************)
(* The lowest digit comes before those of the quotient.                    *)
(***************************************************************************)
LEMMA LowShift ==
    ASSUME NEW n \in Nat, NEW L \in Nat
    PROVE  Low(n, L + 1) = <<Digit(n % 10)>> \o Low(n \div 10, L)
<1> DEFINE q == n \div 10
           s == Low(q, L)
           e == Digit(n % 10)
           h == <<e>>
<1>1. 10 \in Nat /\ 10 >= 2 /\ 10 \in Nat \ {0}
  OBVIOUS
<1>2. q \in Nat /\ \A m \in Nat : q \div Pow(10, m) = n \div Pow(10, m + 1)
  BY <1>1, DropDigit
<1>3. s \in Seq(Char) /\ Len(s) = L
  BY <1>2, LowType
<1>4. n % 10 \in 0 .. 15
  OBVIOUS
<1>5. e \in Char
  BY <1>4, DigitType
<1>6. h \in Seq(Char) /\ Len(h) = 1 /\ h[1] = e
  BY <1>5
<1>7. ASSUME NEW j \in 1 .. (L + 1) PROVE Low(n, L + 1)[j] = IF j <= 1 THEN h[j] ELSE s[j - 1]
  <2>0. Low(n, L + 1)[j] = Digit((n \div Pow(10, j - 1)) % 10)
    BY DEF Low
  <2>1. CASE j = 1
    <3>1. j - 1 = 0 /\ Pow(10, 0) = 1 /\ n \div 1 = n
      BY <1>1, <2>1, PowSteps
    <3> QED BY <1>6, <2>0, <2>1, <3>1
  <2>2. CASE j # 1
    <3>1. j - 1 \in 1 .. L /\ (j - 1) - 1 \in Nat /\ ((j - 1) - 1) + 1 = j - 1 /\ ~(j <= 1)
      BY <2>2
    <3>2. q \div Pow(10, (j - 1) - 1) = n \div Pow(10, j - 1)
      <4> DEFINE m == (j - 1) - 1
      <4>1. m \in Nat /\ m + 1 = j - 1
        BY <3>1
      <4> HIDE DEF m
      <4>2. q \div Pow(10, m) = n \div Pow(10, m + 1)
        BY <1>2, <4>1
      <4> QED BY <4>1, <4>2 DEF m
    <3>3. s[j - 1] = Digit((q \div Pow(10, (j - 1) - 1)) % 10)
      BY <3>1 DEF Low
    <3> HIDE DEF s, h
    <3> QED BY <2>0, <3>1, <3>2, <3>3
  <2> QED BY <2>1, <2>2
<1> HIDE DEF s, h
<1>8. h \o s = [j \in 1 .. (Len(h) + Len(s)) |-> IF j <= Len(h) THEN h[j] ELSE s[j - Len(h)]]
  BY <1>3, <1>6, ConcatIs
<1>9. h \o s = [j \in 1 .. (L + 1) |-> IF j <= 1 THEN h[j] ELSE s[j - 1]]
  <2>1. 1 + L = L + 1
    OBVIOUS
  <2> QED BY <1>3, <1>6, <1>8, <2>1
<1>10. Low(n, L + 1) = [j \in 1 .. (L + 1) |-> Low(n, L + 1)[j]]
  BY DEF Low
<1>11. Low(n, L + 1) = h \o s
  BY <1>7, <1>9, <1>10
<1> QED BY <1>11 DEF h, s

(***************************************************************************)
(* The loop of uintTostring finds the digits from the lowest.              *)
(***************************************************************************)
LEMMA LowFirstIs ==
    ASSUME NEW n \in Nat
    PROVE  LowFirst(n) = Low(n, NumDigits(n))
<1> DEFINE E == [k \in 0 .. n |-> Low(k, NumDigits(k))]
           OneMore(k) == <<Digit(k % 10)>> \o Low(k \div 10, NumDigits(k \div 10))
           f == CHOOSE g :
                  g = [k \in 0 .. n |-> IF k >= 10 THEN <<Digit(k % 10)>> \o g[k \div 10] ELSE <<Digit(k)>>]
<1>1. 10 \in Nat /\ 10 >= 2 /\ 10 \in Nat \ {0}
  OBVIOUS
<1>2. LowFirst(n) = f[n]
  BY DEF LowFirst
<1>3. ASSUME NEW k \in Nat, k >= 10
      PROVE  k \div 10 \in 0 .. (k - 1) /\ Low(k, NumDigits(k)) = OneMore(k)
  <2> DEFINE q == k \div 10
             L == NumDigits(q)
  <2>1. q \in Nat /\ q < k
    BY <1>1, <1>3, DropDigit
  <2>2. \A m \in Nat : q < Pow(10, m) <=> k < Pow(10, m + 1)
    BY <1>1, DropDigit
  <2>3. HasDecimals(q, L)
    BY <2>1, NumDigitsIs
  <2> HIDE DEF L, q
  <2>4. L \in Nat \ {0} /\ q < Pow(10, L) /\ (L = 1 \/ Pow(10, L - 1) <= q)
    BY <2>3 DEF HasDecimals
  <2>5. HasDecimals(k, L + 1)
    <3>1. k < Pow(10, L + 1)
      BY <2>2, <2>4
    <3>2. Pow(10, L) <= k
      <4>1. CASE L = 1
        <5>1. Pow(10, 0 + 1) = 10 * Pow(10, 0) /\ Pow(10, 0) = 1
          BY <1>1, PowSteps
        <5>2. Pow(10, 1) = 10
          BY <5>1
        <5> QED BY <1>3, <4>1, <5>2
      <4>2. CASE L # 1
        <5>1. L - 1 \in Nat /\ (L - 1) + 1 = L /\ L \in Nat
          BY <2>4
        <5>2. Pow(10, L - 1) \in Nat /\ Pow(10, L) \in Nat
          BY <1>1, <5>1, PowSteps
        <5>3. ~(q < Pow(10, L - 1))
          BY <2>1, <2>4, <4>2, <5>2
        <5>4. ~(k < Pow(10, L))
          BY <2>2, <5>1, <5>3
        <5> QED BY <5>2, <5>4
      <4> QED BY <4>1, <4>2
    <3>3. L + 1 \in Nat \ {0} /\ (L + 1) - 1 = L
      BY <2>4
    <3> QED BY <3>1, <3>2, <3>3 DEF HasDecimals
  <2>6. NumDigits(k) = L + 1
    BY <2>5, NumDigitsIs
  <2>7. Low(k, L + 1) = <<Digit(k % 10)>> \o Low(k \div 10, L)
    BY <2>4, LowShift
  <2> QED BY <2>1, <2>6, <2>7 DEF L, q
<1>4. ASSUME NEW k \in Nat, ~(k >= 10) PROVE Low(k, NumDigits(k)) = <<Digit(k)>>
  <2>1. Pow(10, 0 + 1) = 10 * Pow(10, 0) /\ Pow(10, 0) = 1
    BY <1>1, PowSteps
  <2>2. Pow(10, 1) = 10
    BY <2>1
  <2>3. HasDecimals(k, 1)
    BY <1>4, <2>2 DEF HasDecimals
  <2>4. NumDigits(k) = 1
    BY <2>3, NumDigitsIs
  <2>5. k \div 1 = k /\ k % 10 = k /\ 1 - 1 = 0
    BY <1>4
  <2> DEFINE e == Digit(k)
  <2>6. Low(k, 1) = [j \in 1 .. 1 |-> e]
    <3>1. ASSUME NEW j \in 1 .. 1 PROVE Digit((k \div Pow(10, j - 1)) % 10) = e
      <4>1. j - 1 = 0
        OBVIOUS
      <4> QED BY <2>1, <2>5, <4>1
    <3> HIDE DEF e
    <3> QED BY <3>1 DEF Low
  <2> HIDE DEF e
  <2>7. <<e>> = [j \in 1 .. 1 |-> e]
    OBVIOUS
  <2> QED BY <2>4, <2>6, <2>7 DEF e
<1>5. E = [k \in 0 .. n |-> IF k >= 10 THEN <<Digit(k % 10)>> \o E[k \div 10] ELSE <<Digit(k)>>]
  <2>1. ASSUME NEW k \in 0 .. n PROVE E[k] = IF k >= 10 THEN <<Digit(k % 10)>> \o E[k \div 10] ELSE <<Digit(k)>>
    <3>1. k \in Nat /\ E[k] = Low(k, NumDigits(k))
      OBVIOUS
    <3>2. CASE k >= 10
      <4>1. k \div 10 \in 0 .. (k - 1) /\ Low(k, NumDigits(k)) = OneMore(k)
        BY <1>3, <3>1, <3>2
      <4>2. k \div 10 \in 0 .. n
        BY <4>1
      <4>3. E[k \div 10] = Low(k \div 10, NumDigits(k \div 10))
        BY <4>2
      <4> HIDE DEF E
      <4> QED BY <3>1, <3>2, <4>1, <4>3
    <3>3. CASE ~(k >= 10)
      BY <1>4, <3>1, <3>3
    <3> QED BY <3>2, <3>3
  <2>2. E = [k \in 0 .. n |-> E[k]]
    OBVIOUS
  <2> HIDE DEF E
  <2> QED BY <2>1, <2>2
<1> HIDE DEF f
<1>6. E[n] = Low(n, NumDigits(n))
  <2>1. n \in 0 .. n
    OBVIOUS
  <2> QED BY <2>1
<1> HIDE DEF E
<1>7. f = [k \in 0 .. n |-> IF k >= 10 THEN <<Digit(k % 10)>> \o f[k \div 10] ELSE <<Digit(k)>>]
  BY <1>5, Zenon DEF f
<1> HIDE DEF f
<1>8. f[n] = E[n]
  <2>1. ASSUME NEW k \in 0 .. n, \A i \in 0 .. (k - 1) : f[i] = E[i] PROVE f[k] = E[k]
    <3>1. CASE ~(k >= 10)
      <4>1. f[k] = <<Digit(k)>> /\ E[k] = <<Digit(k)>>
        BY <1>5, <1>7, <3>1
      <4> QED BY <4>1
    <3>2. CASE k >= 10
      <4>1. k \in Nat /\ k \div 10 \in 0 .. (k - 1)
        BY <1>3, <3>2
      <4>2. f[k \div 10] = E[k \div 10]
        BY <2>1, <4>1
      <4>3. f[k] = <<Digit(k % 10)>> \o f[k \div 10] /\ E[k] = <<Digit(k % 10)>> \o E[k \div 10]
        BY <1>5, <1>7, <3>2
      <4> QED BY <4>2, <4>3
    <3> QED BY <3>1, <3>2
  <2> QED BY <2>1, RecursionsAgree
<1> QED BY <1>2, <1>6, <1>8

(***************************************************************************)
(* uintTostring writes the digits in order, with no leading zero.          *)
(***************************************************************************)
LEMMA DecimalIs ==
    ASSUME NEW n \in Nat
    PROVE  uintTostring(n) = Fixed(n, 10, NumDigits(n)) /\ NumDigits(n) \in Nat
<1> DEFINE L == NumDigits(n)
           s == Low(n, L)
<1>1. L \in Nat
  BY NumDigitsIs DEF HasDecimals
<1>2. Len(s) = L
  BY <1>1, LowType
<1>3. uintTostring(n) = [i \in 1 .. L |-> s[(L - i) + 1]]
  BY <1>2, LowFirstIs DEF uintTostring, strrevers, Reverse
<1> HIDE DEF L
<1>4. ASSUME NEW i \in 1 .. L PROVE s[(L - i) + 1] = Digit((n \div Pow(10, L - i)) % 10)
  <2>1. (L - i) + 1 \in 1 .. L /\ ((L - i) + 1) - 1 = L - i
    BY <1>1
  <2> QED BY <2>1 DEF Low
<1> HIDE DEF s
<1>5. uintTostring(n) = Fixed(n, 10, L)
  BY <1>3, <1>4 DEF Fixed
<1> QED BY <1>1, <1>5 DEF L

(***************************************************************************)
(* The pieces of the formats: those of the callers and of the log.         *)
(***************************************************************************)
Plain == {"plain"} \X Char
TextPiece == {"s"} \X Seq(Char)
NumberPiece == {"d", "h", "H"} \X Int
AnyPiece == Plain \cup TextPiece \cup NumberPiece

(***************************************************************************)
(* An int as an unsigned one.                                              *)
(***************************************************************************)
LEMMA UnsignedType ==
    ASSUME NEW n \in Int
    PROVE  Unsigned(n) \in Nat /\ Unsigned(n) < Pow(16, WORD)
<1> DEFINE c == Pow(16, WORD)
<1>1. 16 \in Nat \ {0} /\ WORD \in Nat
  BY ConsoleAssumption
<1>2. c \in Nat \ {0}
  BY <1>1, PowSteps
<1> HIDE DEF c
<1>3. n % c \in 0 .. (c - 1)
  BY <1>2
<1>4. n % c \in Nat /\ n % c < c
  BY <1>2, <1>3
<1> QED BY <1>4 DEF c, Unsigned

(***************************************************************************)
(* What a conversion puts in is what its piece means.                      *)
(***************************************************************************)
LEMMA ConvertedIs ==
    ASSUME NEW p \in TextPiece \cup NumberPiece
    PROVE  Converted(p[1], p[2]) = Meaning(p) /\ Meaning(p) \in Seq(Char)
<1>1. CASE p \in TextPiece
  <2>1. p[1] = "s" /\ p[2] \in Seq(Char)
    BY <1>1 DEF TextPiece
  <2>2. Converted(p[1], p[2]) = p[2] /\ Meaning(p) = p[2]
    BY <2>1 DEF Converted, Meaning
  <2> QED BY <2>1, <2>2
<1>2. CASE p \in NumberPiece
  <2>1. p[2] \in Int /\ (p[1] = "d" \/ p[1] = "h" \/ p[1] = "H")
    BY <1>2 DEF NumberPiece
  <2> DEFINE n == Unsigned(p[2])
             hex == [i \in 1 .. WORD |-> Digit((n \div Pow(16, WORD - i)) % 16)]
             dec == [i \in 1 .. NumDigits(n) |-> Digit((n \div Pow(10, NumDigits(n) - i)) % 10)]
  <2>2. n \in Nat /\ n < Pow(16, WORD)
    BY <2>1, UnsignedType
  <2>3. hex = Fixed(n, 16, WORD) /\ dec = Fixed(n, 10, NumDigits(n))
    BY DEF Fixed
  <2>4. hex \in Seq(Char)
    <3>1. 16 \in 2 .. 16 /\ WORD \in Nat
      BY ConsoleAssumption
    <3> HIDE DEF hex, n
    <3> QED BY <2>2, <2>3, <3>1, FixedType
  <2>5. dec \in Seq(Char) /\ uintTostring(n) = dec
    <3>1. 10 \in 2 .. 16
      OBVIOUS
    <3> HIDE DEF dec, n
    <3>2. NumDigits(n) \in Nat /\ uintTostring(n) = Fixed(n, 10, NumDigits(n))
      BY <2>2, DecimalIs
    <3> QED BY <2>2, <2>3, <3>1, <3>2, FixedType
  <2>6. num2hexstr(n, FALSE) = hex /\ num2hexstr(n, TRUE) = <<"0", "x">> \o hex
    <3> HIDE DEF hex, n
    <3> QED BY <2>2, <2>3, HexIs
  <2>7. CASE p[1] = "d"
    <3>1. Converted(p[1], p[2]) = uintTostring(n)
      BY <2>7 DEF Converted
    <3>2. Meaning(p) = dec
      BY <2>7 DEF Meaning
    <3> HIDE DEF dec, n
    <3> QED BY <2>5, <3>1, <3>2
  <2>8. CASE p[1] = "h"
    <3>1. Converted(p[1], p[2]) = num2hexstr(n, FALSE)
      BY <2>8 DEF Converted
    <3>2. Meaning(p) = hex
      BY <2>8 DEF Meaning
    <3> HIDE DEF hex, n
    <3> QED BY <2>4, <2>6, <3>1, <3>2
  <2>9. CASE p[1] = "H"
    <3>1. Converted(p[1], p[2]) = num2hexstr(n, TRUE)
      BY <2>9 DEF Converted
    <3>2. Meaning(p) = <<"0", "x">> \o hex
      BY <2>9 DEF Meaning
    <3>3. <<"0", "x">> \in Seq(Char)
      BY DEF Char
    <3> HIDE DEF hex, n
    <3>4. <<"0", "x">> \o hex \in Seq(Char)
      BY <2>4, <3>3
    <3> QED BY <2>6, <3>1, <3>2, <3>4
  <2> QED BY <2>1, <2>7, <2>8, <2>9
<1> QED BY <1>1, <1>2

(***************************************************************************)
(* What a piece is in the format, what it takes of the arguments, and what *)
(* it means.                                                               *)
(***************************************************************************)
Spelt(p) == IF p[1] = "plain" THEN <<p[2]>> ELSE <<"%", p[1]>>
Taken(p) == IF p[1] = "plain" THEN <<>> ELSE <<p[2]>>

(***************************************************************************)
(* What is known of a piece.                                               *)
(***************************************************************************)
LEMMA PieceType ==
    ASSUME NEW p \in AnyPiece
    PROVE  /\ Spelt(p) \in Seq(Char) /\ Len(Spelt(p)) \in {1, 2} /\ Spelt(p)[1] \in Char
           /\ Meaning(p) \in Seq(Char)
           /\ p[1] = "plain" => /\ p[2] \in Char /\ Spelt(p) = <<p[2]>> /\ Len(Spelt(p)) = 1
                                /\ Taken(p) = <<>> /\ Meaning(p) = <<p[2]>>
           /\ p[1] # "plain" => /\ Spelt(p) = <<"%", p[1]>> /\ Len(Spelt(p)) = 2 /\ Taken(p) = <<p[2]>>
                                /\ p[1] \in {"s", "d", "H", "h"} /\ Converted(p[1], p[2]) = Meaning(p)
<1>1. CASE p \in Plain
  <2>1. p[1] = "plain" /\ p[2] \in Char
    BY <1>1 DEF Plain
  <2>2. Meaning(p) = <<p[2]>> /\ Spelt(p) = <<p[2]>> /\ Taken(p) = <<>>
    BY <2>1 DEF Meaning, Spelt, Taken
  <2>3. <<p[2]>> \in Seq(Char) /\ Len(<<p[2]>>) = 1 /\ <<p[2]>>[1] = p[2]
    BY <2>1
  <2> QED BY <2>1, <2>2, <2>3
<1>2. CASE p \in TextPiece \cup NumberPiece
  <2>1. p[1] # "plain" /\ p[1] \in {"s", "d", "H", "h"}
    BY <1>2 DEF TextPiece, NumberPiece
  <2>2. Spelt(p) = <<"%", p[1]>> /\ Taken(p) = <<p[2]>>
    BY <2>1 DEF Spelt, Taken
  <2>3. "%" \in Char /\ p[1] \in Char
    BY <2>1 DEF Char
  <2>4. <<"%", p[1]>> \in Seq(Char) /\ Len(<<"%", p[1]>>) = 2 /\ <<"%", p[1]>>[1] = "%"
    BY <2>3
  <2>5. Converted(p[1], p[2]) = Meaning(p) /\ Meaning(p) \in Seq(Char)
    BY <1>2, ConvertedIs
  <2> QED BY <2>1, <2>2, <2>3, <2>4, <2>5
<1> QED BY <1>1, <1>2 DEF AnyPiece

(***************************************************************************)
(* P[k] is what the first k pieces of q make, put together.                *)
(***************************************************************************)
Joins(P, q, X, n) ==
    /\ P \in [0 .. n -> Seq(X)] /\ P[0] = <<>>
    /\ \A k \in 0 .. (n - 1) : P[k + 1] = P[k] \o q[k + 1]

Joined(P, q, X, n) == n \in Nat /\ q \in [1 .. n -> Seq(X)] /\ Joins(P, q, X, n)

(***************************************************************************)
(* There is such a P.                                                      *)
(***************************************************************************)
LEMMA JoinsExist ==
    ASSUME NEW X, NEW N \in Nat, NEW q \in [1 .. N -> Seq(X)]
    PROVE  \E P : Joins(P, q, X, N)
<1> DEFINE S == {n \in Nat : n <= N => \E P : Joins(P, q, X, n)}
<1>1. 0 \in S
  <2> DEFINE P == [k \in 0 .. 0 |-> <<>>]
  <2>1. <<>> \in Seq(X)
    OBVIOUS
  <2>2. P \in [0 .. 0 -> Seq(X)] /\ P[0] = <<>>
    BY <2>1
  <2>3. \A k \in 0 .. (0 - 1) : FALSE
    OBVIOUS
  <2> HIDE DEF P
  <2>4. Joins(P, q, X, 0)
    BY <2>2, <2>3 DEF Joins
  <2> QED BY <2>4
<1>2. ASSUME NEW n \in S PROVE n + 1 \in S
  <2> SUFFICES ASSUME n + 1 <= N PROVE \E P : Joins(P, q, X, n + 1)
    OBVIOUS
  <2>1. n \in Nat /\ n <= N /\ n + 1 \in 1 .. N
    OBVIOUS
  <2>2. PICK P : Joins(P, q, X, n)
    BY <2>1
  <2> DEFINE e == P[n] \o q[n + 1]
             v == [k \in 0 .. (n + 1) |-> IF k = n + 1 THEN e ELSE P[k]]
  <2>3. P \in [0 .. n -> Seq(X)] /\ P[0] = <<>> /\ \A k \in 0 .. (n - 1) : P[k + 1] = P[k] \o q[k + 1]
    BY <2>2 DEF Joins
  <2>4. P[n] \in Seq(X) /\ q[n + 1] \in Seq(X)
    BY <2>1, <2>3
  <2>5. e \in Seq(X)
    BY <2>4
  <2>6. v[n] = P[n] /\ v[n + 1] = e /\ \A k \in 0 .. n : v[k] = P[k]
    <3> HIDE DEF e
    <3>1. n \in 0 .. (n + 1) /\ n + 1 \in 0 .. (n + 1) /\ n # n + 1
      BY <2>1
    <3>2. \A k \in 0 .. n : k \in 0 .. (n + 1) /\ k # n + 1
      BY <2>1
    <3> QED BY <3>1, <3>2
  <2>7. ASSUME NEW k \in 0 .. ((n + 1) - 1) PROVE v[k + 1] = v[k] \o q[k + 1]
    <3>1. CASE k = n
      <4> HIDE DEF v
      <4> QED BY <2>6, <3>1
    <3>2. CASE k # n
      <4>1. k \in 0 .. (n - 1) /\ k \in 0 .. n /\ k + 1 \in 0 .. n
        BY <2>1, <3>2
      <4> HIDE DEF v
      <4> QED BY <2>3, <2>6, <4>1
    <3> QED BY <3>1, <3>2
  <2>8. v \in [0 .. (n + 1) -> Seq(X)]
    <3>1. ASSUME NEW k \in 0 .. (n + 1) PROVE (IF k = n + 1 THEN e ELSE P[k]) \in Seq(X)
      <4>1. k = n + 1 \/ k \in 0 .. n
        BY <2>1
      <4> HIDE DEF e
      <4> QED BY <2>3, <2>5, <4>1
    <3> HIDE DEF e
    <3> QED BY <3>1
  <2>9. v[0] = <<>>
    <3>1. 0 \in 0 .. n
      BY <2>1
    <3> HIDE DEF v
    <3> QED BY <2>3, <2>6, <3>1
  <2> HIDE DEF v
  <2>10. Joins(v, q, X, n + 1)
    BY <2>7, <2>8, <2>9 DEF Joins
  <2> QED BY <2>10
<1>3. S = Nat
  <2>1. S \in SUBSET Nat
    OBVIOUS
  <2> HIDE DEF S
  <2> QED BY <1>1, <1>2, <2>1, SetInduction
<1>4. N \in S
  <2> HIDE DEF S
  <2> QED BY <1>3
<1> QED BY <1>4

(***************************************************************************)
(* FlattenSeq puts all pieces together.                                    *)
(***************************************************************************)
LEMMA FlattenIs ==
    ASSUME NEW X, NEW N \in Nat, NEW q \in [1 .. N -> Seq(X)], NEW P, Joins(P, q, X, N)
    PROVE  FlattenSeq(q) = P[N]
<1>1. P \in [0 .. N -> Seq(X)] /\ P[0] = <<>> /\ \A k \in 0 .. (N - 1) : P[k + 1] = P[k] \o q[k + 1]
  BY DEF Joins
<1>2. Len(q) = N /\ q \in Seq(Seq(X))
  OBVIOUS
<1>3. CASE N = 0
  <2>1. q = <<>>
    BY <1>2, <1>3
  <2>2. FlattenSeq(q) = q
    BY <1>2, <1>3 DEF FlattenSeq
  <2> QED BY <1>1, <1>3, <2>1, <2>2
<1>4. CASE N # 0
  <2> DEFINE g == CHOOSE h : h = [i \in 1 .. N |-> IF i = 1 THEN q[i] ELSE h[i - 1] \o q[i]]
             E == [i \in 1 .. N |-> P[i]]
  <2>1. FlattenSeq(q) = g[N]
    BY <1>2, <1>4 DEF FlattenSeq
  <2>2. E = [i \in 1 .. N |-> IF i = 1 THEN q[i] ELSE E[i - 1] \o q[i]]
    <3>1. ASSUME NEW i \in 1 .. N PROVE E[i] = IF i = 1 THEN q[i] ELSE E[i - 1] \o q[i]
      <4>1. i - 1 \in 0 .. (N - 1) /\ (i - 1) + 1 = i /\ E[i] = P[i] /\ q[i] \in Seq(X)
        OBVIOUS
      <4>2. P[i] = P[i - 1] \o q[i]
        BY <1>1, <4>1
      <4>3. CASE i = 1
        <5>1. i - 1 = 0
          BY <4>3
        <5>2. P[i] = <<>> \o q[i]
          BY <1>1, <4>2, <5>1
        <5>3. <<>> \o q[i] = q[i]
          BY <4>1
        <5> HIDE DEF E
        <5> QED BY <4>1, <4>3, <5>2, <5>3
      <4>4. CASE i # 1
        <5>1. i - 1 \in 1 .. N
          BY <4>4
        <5>2. E[i - 1] = P[i - 1]
          BY <5>1
        <5> HIDE DEF E
        <5>3. E[i] = E[i - 1] \o q[i]
          BY <4>1, <4>2, <5>2
        <5> QED BY <4>4, <5>3
      <4> QED BY <4>3, <4>4
    <3>2. E = [i \in 1 .. N |-> E[i]]
      OBVIOUS
    <3> HIDE DEF E
    <3> QED BY <3>1, <3>2
  <2>3. g = [i \in 1 .. N |-> IF i = 1 THEN q[i] ELSE g[i - 1] \o q[i]]
    <3> HIDE DEF E
    <3> QED BY <2>2, Zenon
  <2> HIDE DEF g
  <2> DEFINE f == [k \in 0 .. N |-> IF k = 0 THEN <<>> ELSE g[k]]
  <2>4. f[0] = P[0]
    BY <1>1
  <2>5. ASSUME NEW k \in 0 .. (N - 1), f[k] = P[k] PROVE f[k + 1] = P[k + 1]
    <3>0. k + 1 \in 1 .. N /\ k + 1 \in 0 .. N /\ k + 1 # 0 /\ (k + 1) - 1 = k
      OBVIOUS
    <3>1. k + 1 \in 1 .. N /\ (k + 1) - 1 = k /\ f[k + 1] = g[k + 1] /\ q[k + 1] \in Seq(X)
      BY <3>0
    <3>2. P[k + 1] = P[k] \o q[k + 1]
      BY <1>1
    <3>3. CASE k = 0
      <4>1. g[k + 1] = q[k + 1]
        BY <2>3, <3>1, <3>3
      <4>2. P[k + 1] = <<>> \o q[k + 1]
        BY <1>1, <3>2, <3>3
      <4>3. <<>> \o q[k + 1] = q[k + 1]
        BY <3>1
      <4> HIDE DEF f
      <4> QED BY <3>1, <4>1, <4>2, <4>3
    <3>4. CASE k # 0
      <4>0. k + 1 # 1
        BY <3>4
      <4>1. g[k + 1] = g[k] \o q[k + 1]
        <5> HIDE DEF f
        <5>1. PICK i : i = k + 1
          OBVIOUS
        <5>2. i \in 1 .. N /\ i # 1 /\ i - 1 = k
          BY <3>0, <4>0, <5>1
        <5>3. g[i] = g[i - 1] \o q[i]
          BY <2>3, <5>2
        <5> QED BY <5>1, <5>2, <5>3
      <4>2. f[k] = g[k]
        BY <3>4
      <4> HIDE DEF f
      <4> QED BY <2>5, <3>1, <3>2, <4>1, <4>2
    <3> QED BY <3>3, <3>4
  <2>6. f[N] = g[N]
    BY <1>4
  <2> HIDE DEF f
  <2>7. f[N] = P[N]
    BY <2>4, <2>5, LoopsAgree
  <2> QED BY <2>1, <2>6, <2>7
<1> QED BY <1>3, <1>4

(***************************************************************************)
(* What some pieces make is the beginning of what all make.                *)
(***************************************************************************)
LEMMA JoinsPrefix ==
    ASSUME NEW X, NEW N, NEW q, NEW P, Joined(P, q, X, N)
    PROVE  \A k \in 0 .. N : Len(P[k]) <= Len(P[N]) /\ \A j \in 1 .. Len(P[k]) : P[N][j] = P[k][j]
<1>0. N \in Nat /\ q \in [1 .. N -> Seq(X)] /\ Joins(P, q, X, N)
  BY DEF Joined
<1> USE <1>0
<1> TAKE k \in 0 .. N
<1>1. P \in [0 .. N -> Seq(X)] /\ \A i \in 0 .. (N - 1) : P[i + 1] = P[i] \o q[i + 1]
  BY DEF Joins
<1> DEFINE S == {d \in Nat : k + d <= N =>
                    Len(P[k]) <= Len(P[k + d]) /\ \A j \in 1 .. Len(P[k]) : P[k + d][j] = P[k][j]}
<1>2. 0 \in S
  <2>1. k + 0 = k /\ P[k] \in Seq(X)
    BY <1>1
  <2>2. Len(P[k]) \in Nat
    BY <2>1
  <2> QED BY <2>1, <2>2
<1>3. ASSUME NEW d \in S PROVE d + 1 \in S
  <2> SUFFICES ASSUME k + (d + 1) <= N
               PROVE  Len(P[k]) <= Len(P[k + (d + 1)]) /\ \A j \in 1 .. Len(P[k]) : P[k + (d + 1)][j] = P[k][j]
    OBVIOUS
  <2>1. /\ d \in Nat /\ k + d \in 0 .. (N - 1) /\ k + d \in 0 .. N /\ k + (d + 1) = (k + d) + 1
        /\ (k + d) + 1 \in 1 .. N /\ k + d <= N
    OBVIOUS
  <2>2. Len(P[k]) <= Len(P[k + d]) /\ \A j \in 1 .. Len(P[k]) : P[k + d][j] = P[k][j]
    BY <2>1
  <2> HIDE DEF S
  <2>3. PICK a : a = P[k + d]
    OBVIOUS
  <2>4. PICK b : b = q[(k + d) + 1]
    OBVIOUS
  <2>5. PICK c : c = P[k]
    OBVIOUS
  <2>6. a \in Seq(X) /\ b \in Seq(X) /\ c \in Seq(X)
    BY <1>1, <2>1, <2>3, <2>4, <2>5
  <2>7. P[k + (d + 1)] = a \o b
    BY <1>1, <2>1, <2>3, <2>4
  <2>8. Len(c) <= Len(a) /\ \A j \in 1 .. Len(c) : a[j] = c[j]
    BY <2>2, <2>3, <2>5
  <2>9. Len(c) <= Len(a \o b) /\ \A j \in 1 .. Len(c) : (a \o b)[j] = c[j]
    BY <2>6, <2>8
  <2> QED BY <2>5, <2>7, <2>9
<1>4. S = Nat
  <2>1. S \in SUBSET Nat
    OBVIOUS
  <2> HIDE DEF S
  <2> QED BY <1>2, <1>3, <2>1, SetInduction
<1>5. N - k \in Nat /\ k + (N - k) = N /\ N <= N
  OBVIOUS
<1>6. N - k \in S
  <2> HIDE DEF S
  <2> QED BY <1>4, <1>5
<1> QED BY <1>5, <1>6

(***************************************************************************)
(* Pieces that are not empty make at least a character each.               *)
(***************************************************************************)
LEMMA JoinsLong ==
    ASSUME NEW X, NEW N, NEW q, NEW P, Joined(P, q, X, N),
           \A i \in 1 .. N : Len(q[i]) >= 1
    PROVE  N <= Len(P[N])
<1>0. N \in Nat /\ q \in [1 .. N -> Seq(X)] /\ Joins(P, q, X, N)
  BY DEF Joined
<1> USE <1>0
<1>1. P \in [0 .. N -> Seq(X)] /\ \A i \in 0 .. (N - 1) : P[i + 1] = P[i] \o q[i + 1]
  BY DEF Joins
<1> DEFINE S == {d \in Nat : d <= N => d <= Len(P[d])}
<1>2. 0 \in S
  <2>1. P[0] \in Seq(X)
    BY <1>1
  <2>2. Len(P[0]) \in Nat
    BY <2>1
  <2> QED BY <2>2
<1>3. ASSUME NEW d \in S PROVE d + 1 \in S
  <2> SUFFICES ASSUME d + 1 <= N PROVE d + 1 <= Len(P[d + 1])
    OBVIOUS
  <2>1. d \in Nat /\ d \in 0 .. (N - 1) /\ d \in 0 .. N /\ d + 1 \in 1 .. N /\ d <= Len(P[d])
    OBVIOUS
  <2> HIDE DEF S
  <2>2. P[d] \in Seq(X) /\ q[d + 1] \in Seq(X) /\ P[d + 1] = P[d] \o q[d + 1] /\ Len(q[d + 1]) >= 1
    BY <1>1, <2>1
  <2>3. Len(P[d + 1]) = Len(P[d]) + Len(q[d + 1])
    BY <2>2
  <2>4. Len(P[d]) \in Nat /\ Len(q[d + 1]) \in Nat
    BY <2>2
  <2>5. PICK x, y : x = Len(P[d]) /\ y = Len(q[d + 1])
    OBVIOUS
  <2>6. x \in Nat /\ y \in Nat /\ d <= x /\ y >= 1 /\ Len(P[d + 1]) = x + y
    BY <2>1, <2>2, <2>3, <2>4, <2>5
  <2> QED BY <2>1, <2>6
<1>4. S = Nat
  <2>1. S \in SUBSET Nat
    OBVIOUS
  <2> HIDE DEF S
  <2> QED BY <1>2, <1>3, <2>1, SetInduction
<1>5. N \in S
  <2> HIDE DEF S
  <2> QED BY <1>4
<1> QED BY <1>5

\* What is left of s behind its first n elements.
Behind(s, n) == SubSeq(s, n + 1, Len(s))

(***************************************************************************)
(* What is left behind k pieces starts with the next piece.                *)
(***************************************************************************)
LEMMA JoinsRest ==
    ASSUME NEW X, NEW N, NEW q, NEW P, Joined(P, q, X, N)
    PROVE  \A k \in 0 .. (N - 1) :
              /\ Behind(P[N], Len(P[k])) = q[k + 1] \o Behind(P[N], Len(P[k + 1]))
              /\ Behind(P[N], Len(P[k])) \in Seq(X) /\ Behind(P[N], Len(P[k + 1])) \in Seq(X)
<1>0. N \in Nat /\ q \in [1 .. N -> Seq(X)] /\ Joins(P, q, X, N)
  BY DEF Joined
<1> USE <1>0
<1> TAKE k \in 0 .. (N - 1)
<1>1. P \in [0 .. N -> Seq(X)] /\ P[k + 1] = P[k] \o q[k + 1]
  BY DEF Joins
<1>2. k \in 0 .. N /\ k + 1 \in 0 .. N /\ k + 1 \in 1 .. N /\ N \in 0 .. N
  OBVIOUS
<1>3. PICK a : a = P[k]
  OBVIOUS
<1>4. PICK b : b = q[k + 1]
  OBVIOUS
<1>5. PICK c : c = P[N]
  OBVIOUS
<1>6. a \in Seq(X) /\ b \in Seq(X) /\ c \in Seq(X) /\ P[k + 1] = a \o b
  BY <1>1, <1>2, <1>3, <1>4, <1>5
<1>7. Len(a \o b) <= Len(c) /\ \A j \in 1 .. Len(a \o b) : c[j] = (a \o b)[j]
  <2>1. PICK m : m = k + 1
    OBVIOUS
  <2>2. m \in 0 .. N
    BY <1>2, <2>1
  <2>3. Len(P[m]) <= Len(P[N]) /\ \A j \in 1 .. Len(P[m]) : P[N][j] = P[m][j]
    BY <2>2, JoinsPrefix
  <2>4. P[m] = a \o b
    BY <1>6, <2>1
  <2> QED BY <1>5, <2>3, <2>4
<1> DEFINE u == Behind(c, Len(a))
           v == Behind(c, Len(a \o b))
<1>8. Len(a \o b) = Len(a) + Len(b) /\ Len(a) \in Nat /\ Len(b) \in Nat /\ Len(c) \in Nat
  BY <1>6
<1>9. u \in Seq(X) /\ Len(u) = Len(c) - Len(a) /\ \A j \in 1 .. (Len(c) - Len(a)) : u[j] = c[Len(a) + j]
  BY <1>6, <1>7, <1>8 DEF Behind
<1>10. /\ v \in Seq(X) /\ Len(v) = Len(c) - (Len(a) + Len(b))
       /\ \A j \in 1 .. (Len(c) - (Len(a) + Len(b))) : v[j] = c[(Len(a) + Len(b)) + j]
  BY <1>6, <1>7, <1>8 DEF Behind
<1> HIDE DEF u, v
<1>11. \A j \in 1 .. Len(b) : c[Len(a) + j] = b[j]
  <2> TAKE j \in 1 .. Len(b)
  <2>1. Len(a) + j \in 1 .. Len(a \o b)
    BY <1>8
  <2>2. (a \o b)[Len(a) + j] = b[j]
    BY <1>6, <1>8
  <2> QED BY <1>7, <2>1, <2>2
<1>12. u = b \o v
  <2>1. b \o v \in Seq(X) /\ Len(b \o v) = Len(u)
    <3>1. b \o v \in Seq(X) /\ Len(b \o v) = Len(b) + Len(v)
      BY <1>6, <1>10
    <3>2. Len(b) + Len(v) = Len(u)
      BY <1>8, <1>9, <1>10
    <3> QED BY <3>1, <3>2
  <2>2. ASSUME NEW j \in 1 .. Len(u) PROVE u[j] = (b \o v)[j]
    <3>1. u[j] = c[Len(a) + j]
      BY <1>8, <1>9
    <3>2. CASE j \in 1 .. Len(b)
      <4>1. (b \o v)[j] = b[j]
        BY <1>6, <1>10, <3>2
      <4> QED BY <1>11, <3>1, <3>2, <4>1
    <3>3. CASE j \notin 1 .. Len(b)
      <4>1. j - Len(b) \in 1 .. Len(v) /\ (Len(a) + Len(b)) + (j - Len(b)) = Len(a) + j
        BY <1>8, <1>9, <1>10, <3>3
      <4>2. (b \o v)[j] = v[j - Len(b)]
        BY <1>6, <1>8, <1>9, <1>10, <3>3
      <4>3. v[j - Len(b)] = c[(Len(a) + Len(b)) + (j - Len(b))]
        BY <1>10, <4>1
      <4> QED BY <3>1, <4>1, <4>2, <4>3
    <3> QED BY <3>2, <3>3
  <2> QED BY <1>9, <2>1, <2>2, SameSeq
<1> QED BY <1>3, <1>4, <1>5, <1>6, <1>9, <1>10, <1>12 DEF u, v

(***************************************************************************)
(* The elements of a concatenation.                                        *)
(***************************************************************************)
LEMMA ConcatAt ==
    ASSUME NEW X, NEW s \in Seq(X), NEW t \in Seq(X)
    PROVE  /\ s \o t \in Seq(X) /\ Len(s \o t) = Len(s) + Len(t)
           /\ \A j \in 1 .. Len(s) : (s \o t)[j] = s[j]
           /\ \A j \in 1 .. Len(t) : (s \o t)[Len(s) + j] = t[j]
  OBVIOUS

(***************************************************************************)
(* The loop of printk with o behind it, the rest r of the format before it *)
(* and the argument number a next.                                         *)
(***************************************************************************)
LoopAt(o, r, a) == [s |-> o \o r, offset |-> Len(o) + 1, arg |-> a]

(***************************************************************************)
(* A conversion is replaced by what its piece means.                       *)
(***************************************************************************)
LEMMA TurnConverts ==
    ASSUME NEW p \in AnyPiece, p[1] # "plain", NEW o \in Seq(Char), NEW r \in Seq(Char),
           NEW a \in Nat, NEW args, args[a] = p[2]
    PROVE  Turn(LoopAt(o, Spelt(p) \o r, a), args) = LoopAt(o \o Meaning(p), r, a + 1)
<1>1. PICK t : t = Meaning(p)
  OBVIOUS
<1>2. PICK c : c = p[1]
  OBVIOUS
<1>3. t \in Seq(Char) /\ Converted(c, args[a]) = t /\ c \in {"s", "d", "H", "h"} /\ Spelt(p) = <<"%", c>>
  BY <1>1, <1>2, PieceType
<1>4. "%" \in Char /\ c \in Char
  BY <1>3 DEF Char
<1>5. PICK h : h = <<"%", c>>
  OBVIOUS
<1>6. h \in Seq(Char) /\ Len(h) = 2 /\ h[1] = "%" /\ h[2] = c
  BY <1>4, <1>5
<1>16. /\ h \o r \in Seq(Char) /\ Len(h \o r) = 2 + Len(r) /\ Len(r) \in Nat
       /\ \A j \in 1 .. 2 : (h \o r)[j] = h[j]
       /\ \A j \in 1 .. Len(r) : (h \o r)[2 + j] = r[j]
  <2>0. h \in Seq(Char)
    BY <1>6
  <2>1. /\ h \o r \in Seq(Char) /\ Len(h \o r) = Len(h) + Len(r)
        /\ \A j \in 1 .. Len(h) : (h \o r)[j] = h[j]
        /\ \A j \in 1 .. Len(r) : (h \o r)[Len(h) + j] = r[j]
    BY <2>0, ConcatAt
  <2>2. Len(r) \in Nat
    OBVIOUS
  <2> QED BY <1>6, <2>1, <2>2
<1> DEFINE s == o \o (h \o r)
           n == Len(o) + 1
<1>7. s \in Seq(Char) /\ Len(s) = Len(o) + 2 + Len(r) /\ Len(o) \in Nat /\ Len(r) \in Nat
  <2>1. h \o r \in Seq(Char) /\ Len(h \o r) = 2 + Len(r)
    BY <1>16
  <2> QED BY <2>1
<1>8. s[n] = "%" /\ s[n + 1] = c
  <2>1. (h \o r)[1] = "%" /\ (h \o r)[2] = c /\ h \o r \in Seq(Char) /\ Len(h \o r) = 2 + Len(r) /\ Len(r) \in Nat
    <3>1. /\ h \o r \in Seq(Char) /\ Len(h \o r) = 2 + Len(r) /\ Len(r) \in Nat
          /\ \A j \in 1 .. 2 : (h \o r)[j] = h[j]
      BY <1>16
    <3>2. 1 \in 1 .. 2 /\ 2 \in 1 .. 2
      OBVIOUS
    <3> QED BY <1>6, <3>1, <3>2
  <2>2. PICK g : g = h \o r
    OBVIOUS
  <2>3. g \in Seq(Char) /\ Len(g) >= 2 /\ Len(g) \in Nat /\ g[1] = "%" /\ g[2] = c
    BY <2>1, <2>2
  <2>4. (o \o g)[Len(o) + 1] = g[1] /\ (o \o g)[(Len(o) + 1) + 1] = g[2]
    BY <2>3
  <2> QED BY <2>2, <2>3, <2>4
<1>9. SubSeq(s, 1, n - 1) = o
  <2>1. PICK g : g = h \o r
    OBVIOUS
  <2>2. g \in Seq(Char) /\ n - 1 = Len(o)
    BY <1>6, <1>7, <2>1
  <2>3. SubSeq(o \o g, 1, Len(o)) \in Seq(Char) /\ Len(SubSeq(o \o g, 1, Len(o))) = Len(o)
    BY <2>2
  <2>4. \A j \in 1 .. Len(o) : SubSeq(o \o g, 1, Len(o))[j] = o[j]
    BY <2>2
  <2>5. SubSeq(o \o g, 1, Len(o)) = o
    BY <2>3, <2>4, SameSeq
  <2> QED BY <2>1, <2>2, <2>5
<1>10. SubSeq(s, n + 2, Len(s)) = r
  <2> DEFINE b == SubSeq(s, n + 2, Len(s))
  <2>1. n + 2 = Len(o) + 3
    BY <1>7
  <2>2. \A j \in 1 .. Len(r) : s[(Len(o) + 2) + j] = r[j]
    <3> TAKE j \in 1 .. Len(r)
    <3>1. (h \o r)[2 + j] = r[j] /\ h \o r \in Seq(Char) /\ Len(h \o r) = 2 + Len(r)
      BY <1>16
    <3>2. PICK g : g = h \o r
      OBVIOUS
    <3>3. (o \o g)[Len(o) + (2 + j)] = g[2 + j]
      BY <1>7, <3>1, <3>2
    <3>4. Len(o) + (2 + j) = (Len(o) + 2) + j
      BY <1>7
    <3> QED BY <3>1, <3>2, <3>3, <3>4
  <2> HIDE DEF s
  <2>3. b \in Seq(Char) /\ Len(b) = Len(r)
    BY <1>7, <2>1
  <2>4. \A j \in 1 .. Len(r) : b[j] = s[(Len(o) + 2) + j]
    BY <1>7, <2>1
  <2> HIDE DEF b
  <2>5. b = r
    <3>1. \A j \in 1 .. Len(b) : b[j] = r[j]
      BY <2>2, <2>3, <2>4
    <3> QED BY <2>3, <3>1, SameSeq
  <2> QED BY <2>5 DEF b
<1> HIDE DEF s, n
<1>11. LoopAt(o, Spelt(p) \o r, a) = [s |-> s, offset |-> n, arg |-> a]
  BY <1>3, <1>5 DEF LoopAt, s, n
<1>12. n <= Len(s) /\ n < Len(s) /\ n \in Nat
  BY <1>7 DEF n
<1>13. insert_str(s, t, n) = (o \o t) \o r
  BY <1>9, <1>10 DEF insert_str
<1>14. Turn([s |-> s, offset |-> n, arg |-> a], args) =
          [s |-> insert_str(s, t, n), offset |-> n + Len(t), arg |-> a + 1]
  <2>1. PICK l : l = [s |-> s, offset |-> n, arg |-> a]
    OBVIOUS
  <2>2. l.s = s /\ l.offset = n /\ l.arg = a
    BY <2>1
  <2>3. ~(l.offset > Len(l.s)) /\ l.s[l.offset] = "%" /\ l.offset < Len(l.s) /\ l.s[l.offset + 1] = c
    BY <1>7, <1>8, <1>12, <2>2
  <2>4. Converted(l.s[l.offset + 1], args[l.arg]) = t
    BY <1>3, <2>2, <2>3
  <2>5. Turn(l, args) = [s |-> insert_str(l.s, t, l.offset), offset |-> l.offset + Len(t), arg |-> l.arg + 1]
    BY <1>3, <2>3, <2>4 DEF Turn
  <2> QED BY <2>1, <2>2, <2>5
<1>15. n + Len(t) = Len(o \o t) + 1
  BY <1>3, <1>7 DEF n
<1> QED BY <1>1, <1>11, <1>13, <1>14, <1>15 DEF LoopAt

(***************************************************************************)
(* A plain character is passed over.                                       *)
(***************************************************************************)
LEMMA TurnPasses ==
    ASSUME NEW p \in AnyPiece, p[1] = "plain", NEW o \in Seq(Char), NEW r \in Seq(Char), NEW a \in Nat, NEW args,
           p[2] = "%" => r = <<>> \/ r[1] \notin {"s", "d", "H", "h"}
    PROVE  Turn(LoopAt(o, Spelt(p) \o r, a), args) = LoopAt(o \o Meaning(p), r, a)
<1>1. PICK c : c = p[2]
  OBVIOUS
<1>2. PICK h : h = <<c>>
  OBVIOUS
<1>3. c \in Char /\ Spelt(p) = h /\ Meaning(p) = h
  BY <1>1, <1>2, PieceType
<1>4. h \in Seq(Char) /\ Len(h) = 1 /\ h[1] = c
  BY <1>2, <1>3
<1>17. /\ h \o r \in Seq(Char) /\ Len(h \o r) = 1 + Len(r) /\ Len(r) \in Nat
       /\ \A j \in 1 .. 1 : (h \o r)[j] = h[j]
       /\ \A j \in 1 .. Len(r) : (h \o r)[1 + j] = r[j]
  <2>0. h \in Seq(Char)
    BY <1>4
  <2>1. /\ h \o r \in Seq(Char) /\ Len(h \o r) = Len(h) + Len(r)
        /\ \A j \in 1 .. Len(h) : (h \o r)[j] = h[j]
        /\ \A j \in 1 .. Len(r) : (h \o r)[Len(h) + j] = r[j]
    BY <2>0, ConcatAt
  <2>2. Len(r) \in Nat
    OBVIOUS
  <2> QED BY <1>4, <2>1, <2>2
<1> DEFINE s == o \o (h \o r)
           n == Len(o) + 1
<1>5. s = (o \o h) \o r
  BY <1>4
<1>6. s \in Seq(Char) /\ Len(s) = Len(o) + 1 + Len(r) /\ Len(o) \in Nat /\ Len(r) \in Nat
  <2>1. h \o r \in Seq(Char) /\ Len(h \o r) = 1 + Len(r)
    BY <1>17
  <2> QED BY <2>1
<1>7. s[n] = c /\ (Len(r) >= 1 => s[n + 1] = r[1])
  <2>1. (h \o r)[1] = c /\ (Len(r) >= 1 => (h \o r)[2] = r[1]) /\ h \o r \in Seq(Char) /\ Len(h \o r) = 1 + Len(r)
    <3>1. /\ h \o r \in Seq(Char) /\ Len(h \o r) = 1 + Len(r) /\ Len(r) \in Nat
          /\ \A j \in 1 .. 1 : (h \o r)[j] = h[j]
          /\ \A j \in 1 .. Len(r) : (h \o r)[1 + j] = r[j]
      BY <1>17
    <3>2. 1 \in 1 .. 1 /\ 1 + 1 = 2 /\ (Len(r) >= 1 => 1 \in 1 .. Len(r))
      BY <1>6
    <3> QED BY <1>4, <3>1, <3>2
  <2>2. PICK g : g = h \o r
    OBVIOUS
  <2>3. g \in Seq(Char) /\ Len(g) = 1 + Len(r) /\ g[1] = c /\ (Len(r) >= 1 => g[2] = r[1])
    BY <2>1, <2>2
  <2>4. (o \o g)[Len(o) + 1] = g[1] /\ (Len(r) >= 1 => (o \o g)[(Len(o) + 1) + 1] = g[2])
    BY <1>6, <2>3
  <2> QED BY <2>2, <2>3, <2>4
<1> HIDE DEF s, n
<1>8. n \in Nat /\ n <= Len(s) /\ (n < Len(s) => Len(r) >= 1)
  BY <1>6 DEF n
<1>9. ~(s[n] = "%" /\ n < Len(s) /\ s[n + 1] \in {"s", "d", "H", "h"})
  <2>1. Len(r) >= 1 => r # <<>>
    OBVIOUS
  <2> QED BY <1>1, <1>7, <1>8, <2>1
<1>10. PICK l : l = [s |-> s, offset |-> n, arg |-> a]
  OBVIOUS
<1>11. l.s = s /\ l.offset = n /\ l.arg = a
  BY <1>10
<1>12. /\ ~(l.offset > Len(l.s))
       /\ ~(l.s[l.offset] = "%" /\ l.offset < Len(l.s) /\ l.s[l.offset + 1] \in {"s", "d", "H", "h"})
  BY <1>6, <1>8, <1>9, <1>11
<1>13. Turn(l, args) = [l EXCEPT !.offset = l.offset + 1]
  BY <1>12 DEF Turn
<1>14. [l EXCEPT !.offset = l.offset + 1] = [s |-> s, offset |-> n + 1, arg |-> a]
  BY <1>10
<1>15. n + 1 = Len(o \o h) + 1
  <2>1. Len(o \o h) = Len(o) + Len(h)
    BY <1>4, ConcatAt
  <2> QED BY <1>4, <2>1 DEF n
<1>16. LoopAt(o, Spelt(p) \o r, a) = l
  BY <1>3, <1>10 DEF LoopAt, s, n
<1> QED BY <1>3, <1>5, <1>13, <1>14, <1>15, <1>16 DEF LoopAt

(***************************************************************************)
(* A format without a plain % before a plain conversion letter.            *)
(***************************************************************************)
Readable(f) ==
    /\ f \in Seq(AnyPiece)
    /\ \A i \in 1 .. (Len(f) - 1) :
          ~(f[i] = <<"plain", "%">> /\ f[i + 1][1] = "plain" /\ f[i + 1][2] \in {"s", "d", "h", "H"})

Argument == Seq(Char) \cup Int
SpeltAll(f) == [i \in 1 .. Len(f) |-> Spelt(f[i])]
TakenAll(f) == [i \in 1 .. Len(f) |-> Taken(f[i])]
MeantAll(f) == [i \in 1 .. Len(f) |-> Meaning(f[i])]

(***************************************************************************)
(* The format, the arguments and the meaning as pieces put together.       *)
(***************************************************************************)
LEMMA PiecesType ==
    ASSUME NEW f, Readable(f)
    PROVE  /\ Len(f) \in Nat /\ \A i \in 1 .. Len(f) : f[i] \in AnyPiece
           /\ SpeltAll(f) \in [1 .. Len(f) -> Seq(Char)]
           /\ TakenAll(f) \in [1 .. Len(f) -> Seq(Argument)]
           /\ MeantAll(f) \in [1 .. Len(f) -> Seq(Char)]
           /\ \A i \in 1 .. Len(f) : Len(SpeltAll(f)[i]) >= 1
           /\ FormatString(f) = FlattenSeq(SpeltAll(f)) /\ Arguments(f) = FlattenSeq(TakenAll(f))
           /\ FlattenSeq([i \in DOMAIN f |-> Meaning(f[i])]) = FlattenSeq(MeantAll(f))
<1>1. f \in Seq(AnyPiece)
  BY DEF Readable
<1>2. Len(f) \in Nat /\ DOMAIN f = 1 .. Len(f) /\ \A i \in 1 .. Len(f) : f[i] \in AnyPiece
  BY <1>1
<1>3. ASSUME NEW i \in 1 .. Len(f)
      PROVE  /\ Spelt(f[i]) \in Seq(Char) /\ Len(Spelt(f[i])) >= 1 /\ Meaning(f[i]) \in Seq(Char)
             /\ Taken(f[i]) \in Seq(Argument)
  <2>1. PICK p : p = f[i]
    OBVIOUS
  <2>2. p \in AnyPiece
    BY <1>2, <2>1
  <2>3. Spelt(p) \in Seq(Char) /\ Len(Spelt(p)) \in {1, 2} /\ Meaning(p) \in Seq(Char)
    BY <2>2, PieceType
  <2>4. Taken(p) \in Seq(Argument)
    <3>1. CASE p[1] = "plain"
      <4>1. Taken(p) = <<>>
        BY <3>1 DEF Taken
      <4> QED BY <4>1
    <3>2. CASE p[1] # "plain"
      <4>1. p[2] \in Argument
        BY <2>2, <3>2 DEF AnyPiece, Plain, TextPiece, NumberPiece, Argument
      <4>2. Taken(p) = <<p[2]>>
        BY <3>2 DEF Taken
      <4> QED BY <4>1, <4>2
    <3> QED BY <3>1, <3>2
  <2>5. Len(Spelt(p)) >= 1
    BY <2>3
  <2> QED BY <2>1, <2>3, <2>4, <2>5
<1>4. /\ SpeltAll(f) \in [1 .. Len(f) -> Seq(Char)]
      /\ TakenAll(f) \in [1 .. Len(f) -> Seq(Argument)]
      /\ MeantAll(f) \in [1 .. Len(f) -> Seq(Char)]
  BY <1>3 DEF SpeltAll, TakenAll, MeantAll
<1>5. \A i \in 1 .. Len(f) : Len(SpeltAll(f)[i]) >= 1
  BY <1>3 DEF SpeltAll
<1>6. FormatString(f) = FlattenSeq(SpeltAll(f)) /\ Arguments(f) = FlattenSeq(TakenAll(f))
  BY <1>2 DEF FormatString, Arguments, SpeltAll, TakenAll, Spelt, Taken
<1>7. FlattenSeq([i \in DOMAIN f |-> Meaning(f[i])]) = FlattenSeq(MeantAll(f))
  BY <1>2 DEF MeantAll
<1> QED BY <1>2, <1>4, <1>5, <1>6, <1>7

(***************************************************************************)
(* The k-th turn deals with the k-th piece.                                *)
(***************************************************************************)
AllJoined(f, P, A, O) ==
    /\ Joins(P, SpeltAll(f), Char, Len(f))
    /\ Joins(A, TakenAll(f), Argument, Len(f))
    /\ Joins(O, MeantAll(f), Char, Len(f))

TurnState(f, P, A, O, k) == LoopAt(O[k], Behind(P[Len(f)], Len(P[k])), Len(A[k]) + 1)

(***************************************************************************)
(* A turn with the first k pieces behind it deals with the next.           *)
(***************************************************************************)
LEMMA TurnPiece ==
    ASSUME NEW f, Readable(f), NEW P, NEW A, NEW O, AllJoined(f, P, A, O), NEW k \in 0 .. (Len(f) - 1)
    PROVE  Turn(TurnState(f, P, A, O, k), A[Len(f)]) = TurnState(f, P, A, O, k + 1)
<1>1. PICK N : N = Len(f)
  OBVIOUS
<1>2. N \in Nat /\ (\A i \in 1 .. N : f[i] \in AnyPiece)
  BY <1>1, PiecesType
<1>3. k \in 0 .. (N - 1) /\ k + 1 \in 1 .. N /\ k + 1 \in 0 .. N /\ k \in 0 .. N
  BY <1>1, <1>2
<1>4. PICK p : p = f[k + 1]
  OBVIOUS
<1>5. PICK o : o = O[k]
  OBVIOUS
<1>6. PICK r : r = Behind(P[N], Len(P[k + 1]))
  OBVIOUS
<1>7. /\ p \in AnyPiece /\ SpeltAll(f)[k + 1] = Spelt(p)
      /\ TakenAll(f)[k + 1] = Taken(p) /\ MeantAll(f)[k + 1] = Meaning(p)
  BY <1>1, <1>2, <1>3, <1>4 DEF SpeltAll, TakenAll, MeantAll
<1>8. Behind(P[N], Len(P[k])) = Spelt(p) \o r /\ r \in Seq(Char)
  <2>1. SpeltAll(f) \in [1 .. N -> Seq(Char)] /\ Joins(P, SpeltAll(f), Char, N)
    BY <1>1, PiecesType DEF AllJoined
  <2>2. PICK q : q = SpeltAll(f)
    OBVIOUS
  <2>3. Joined(P, q, Char, N)
    BY <1>2, <2>1, <2>2 DEF Joined
  <2>5. \A i \in 0 .. (N - 1) :
           /\ Behind(P[N], Len(P[i])) = q[i + 1] \o Behind(P[N], Len(P[i + 1]))
           /\ Behind(P[N], Len(P[i])) \in Seq(Char) /\ Behind(P[N], Len(P[i + 1])) \in Seq(Char)
    BY <2>3, JoinsRest
  <2>4. /\ Behind(P[N], Len(P[k])) = q[k + 1] \o Behind(P[N], Len(P[k + 1]))
        /\ Behind(P[N], Len(P[k + 1])) \in Seq(Char)
    BY <1>3, <2>5
  <2> QED BY <1>6, <1>7, <2>2, <2>4
<1>9. o \in Seq(Char) /\ O[k + 1] = o \o Meaning(p)
  <2>1. O \in [0 .. N -> Seq(Char)] /\ \A i \in 0 .. (N - 1) : O[i + 1] = O[i] \o MeantAll(f)[i + 1]
    BY <1>1 DEF AllJoined, Joins
  <2> QED BY <1>3, <1>5, <1>7, <2>1
<1>10. A[k] \in Seq(Argument) /\ A[k + 1] \in Seq(Argument) /\ A[k + 1] = A[k] \o Taken(p)
  <2>1. A \in [0 .. N -> Seq(Argument)] /\ \A i \in 0 .. (N - 1) : A[i + 1] = A[i] \o TakenAll(f)[i + 1]
    BY <1>1 DEF AllJoined, Joins
  <2> QED BY <1>3, <1>7, <2>1
<1>11. PICK a : a = Len(A[k]) + 1
  OBVIOUS
<1>12. a \in Nat /\ TurnState(f, P, A, O, k) = LoopAt(o, Spelt(p) \o r, a)
  <2>1. Len(A[k]) \in Nat
    BY <1>10
  <2> QED BY <1>1, <1>5, <1>8, <1>11, <2>1 DEF TurnState
<1>13. TurnState(f, P, A, O, k + 1) = LoopAt(o \o Meaning(p), r, Len(A[k + 1]) + 1)
  BY <1>1, <1>6, <1>9 DEF TurnState
<1>14. CASE p[1] # "plain"
  <2>1. Taken(p) = <<p[2]>> /\ p[2] \in Argument
    BY <1>7, <1>14 DEF Taken, AnyPiece, Plain, TextPiece, NumberPiece, Argument
  <2>2. PICK b : b = A[k]
    OBVIOUS
  <2>3. PICK e : e = p[2]
    OBVIOUS
  <2>4. b \in Seq(Argument) /\ A[k + 1] = b \o <<e>> /\ e \in Argument /\ a = Len(b) + 1
    BY <1>10, <1>11, <2>1, <2>2, <2>3
  <2>5. Len(b \o <<e>>) = Len(b) + 1 /\ (b \o <<e>>)[Len(b) + 1] = e /\ Len(b) \in Nat
    BY <2>4
  <2>6. Len(A[k + 1]) = a /\ A[k + 1][a] = e
    BY <2>4, <2>5
  <2>7. A[N][a] = e
    <3>1. TakenAll(f) \in [1 .. N -> Seq(Argument)] /\ Joins(A, TakenAll(f), Argument, N)
      BY <1>1, PiecesType DEF AllJoined
    <3>2. PICK q : q = TakenAll(f)
      OBVIOUS
    <3>3. Joined(A, q, Argument, N)
      BY <1>2, <3>1, <3>2 DEF Joined
    <3>4. \A i \in 0 .. N : Len(A[i]) <= Len(A[N]) /\ \A j \in 1 .. Len(A[i]) : A[N][j] = A[i][j]
      BY <1>2, <3>3, JoinsPrefix
    <3>5. \A j \in 1 .. Len(A[k + 1]) : A[N][j] = A[k + 1][j]
      BY <1>3, <3>4
    <3>6. a \in 1 .. Len(A[k + 1])
      BY <2>4, <2>5, <2>6
    <3> QED BY <2>6, <3>5, <3>6
  <2>8. Turn(LoopAt(o, Spelt(p) \o r, a), A[N]) = LoopAt(o \o Meaning(p), r, a + 1)
    BY <1>7, <1>8, <1>9, <1>12, <1>14, <2>3, <2>7, TurnConverts
  <2> QED BY <1>1, <1>12, <1>13, <2>6, <2>8
<1>15. CASE p[1] = "plain"
  <2>1. Taken(p) = <<>>
    BY <1>15 DEF Taken
  <2>2. A[k + 1] = A[k]
    BY <1>10, <2>1
  <2>3. p[2] = "%" => r = <<>> \/ r[1] \notin {"s", "d", "H", "h"}
    <3> SUFFICES ASSUME p[2] = "%" PROVE r = <<>> \/ r[1] \notin {"s", "d", "H", "h"}
      OBVIOUS
    <3>1. p = <<"plain", "%">>
      BY <1>7, <1>15 DEF AnyPiece, Plain, TextPiece, NumberPiece
    <3>2. CASE k + 1 = N
      <4>1. P \in [0 .. N -> Seq(Char)]
        BY <1>1 DEF AllJoined, Joins
      <4>2. P[N] \in Seq(Char)
        BY <1>2, <4>1
      <4>3. SubSeq(P[N], Len(P[N]) + 1, Len(P[N])) = <<>>
        BY <4>2
      <4> QED BY <1>6, <3>2, <4>3 DEF Behind
    <3>3. CASE k + 1 # N
      <4>1. PICK m : m = k + 1
        OBVIOUS
      <4>2. m \in 0 .. (N - 1) /\ m \in 1 .. (N - 1) /\ m + 1 \in 1 .. N
        BY <1>2, <1>3, <3>3, <4>1
      <4>3. SpeltAll(f) \in [1 .. N -> Seq(Char)] /\ Joins(P, SpeltAll(f), Char, N)
        BY <1>1, PiecesType DEF AllJoined
      <4>4. PICK q : q = SpeltAll(f)
        OBVIOUS
      <4>5. Joined(P, q, Char, N)
        BY <1>2, <4>3, <4>4 DEF Joined
      <4>6. PICK u : u = Behind(P[N], Len(P[m + 1]))
        OBVIOUS
      <4>16. \A i \in 0 .. (N - 1) :
                 /\ Behind(P[N], Len(P[i])) = q[i + 1] \o Behind(P[N], Len(P[i + 1]))
                 /\ Behind(P[N], Len(P[i])) \in Seq(Char) /\ Behind(P[N], Len(P[i + 1])) \in Seq(Char)
        BY <4>5, JoinsRest
      <4>7. Behind(P[N], Len(P[m])) = q[m + 1] \o u /\ u \in Seq(Char)
        BY <4>2, <4>6, <4>16
      <4>8. PICK n : n = f[m + 1]
        OBVIOUS
      <4>9. n \in AnyPiece /\ q[m + 1] = Spelt(n)
        BY <1>1, <1>2, <4>2, <4>4, <4>8 DEF SpeltAll
      <4>10. r = Spelt(n) \o u
        BY <1>6, <4>1, <4>7, <4>9
      <4>11. Spelt(n) \in Seq(Char) /\ Len(Spelt(n)) \in {1, 2}
        BY <4>9, PieceType
      <4>12. r[1] = Spelt(n)[1]
        <5>1. PICK g : g = Spelt(n)
          OBVIOUS
        <5>2. g \in Seq(Char) /\ 1 \in 1 .. Len(g)
          BY <4>11, <5>1
        <5>3. (g \o u)[1] = g[1]
          BY <4>7, <5>2
        <5> QED BY <4>10, <5>1, <5>3
      <4>13. ~(n[1] = "plain" /\ n[2] \in {"s", "d", "h", "H"})
        <5>1. \A i \in 1 .. (N - 1) :
                 ~(f[i] = <<"plain", "%">> /\ f[i + 1][1] = "plain" /\ f[i + 1][2] \in {"s", "d", "h", "H"})
          BY <1>1 DEF Readable
        <5>2. f[m] = <<"plain", "%">>
          BY <1>4, <3>1, <4>1
        <5> QED BY <4>2, <4>8, <5>1, <5>2
      <4>14. CASE n[1] = "plain"
        <5>1. Spelt(n)[1] = n[2]
          BY <4>14 DEF Spelt
        <5> QED BY <4>12, <4>13, <4>14, <5>1
      <4>15. CASE n[1] # "plain"
        <5>1. Spelt(n)[1] = "%"
          BY <4>15 DEF Spelt
        <5> QED BY <4>12, <5>1
      <4> QED BY <4>14, <4>15
    <3> QED BY <3>2, <3>3
  <2>4. Turn(LoopAt(o, Spelt(p) \o r, a), A[N]) = LoopAt(o \o Meaning(p), r, a)
    BY <1>7, <1>8, <1>9, <1>12, <1>15, <2>3, TurnPasses
  <2> QED BY <1>1, <1>11, <1>12, <1>13, <2>2, <2>4
<1> QED BY <1>14, <1>15

(***************************************************************************)
(* The first k pieces of a format as pieces put together.                  *)
(***************************************************************************)
LEMMA PrefixIs ==
    ASSUME NEW f, Readable(f), NEW P, NEW A, NEW O, AllJoined(f, P, A, O), NEW k \in 0 .. Len(f)
    PROVE  FormatString(SubSeq(f, 1, k)) = P[k] /\ Meant(SubSeq(f, 1, k)) = O[k]
<1>1. PICK N, g : N = Len(f) /\ g = SubSeq(f, 1, k)
  OBVIOUS
<1>2. N \in Nat /\ f \in Seq(AnyPiece)
  BY <1>1, PiecesType DEF Readable
<1>3. k \in Nat /\ k <= N
  BY <1>1, <1>2
<1>4. g \in Seq(AnyPiece) /\ Len(g) = k /\ \A i \in 1 .. k : g[i] = f[i]
  BY <1>1, <1>2, <1>3
<1>5. Readable(g)
  <2>1. \A i \in 1 .. (k - 1) : i \in 1 .. (N - 1) /\ i \in 1 .. k /\ i + 1 \in 1 .. k
    BY <1>2, <1>3
  <2>2. \A i \in 1 .. (N - 1) :
           ~(f[i] = <<"plain", "%">> /\ f[i + 1][1] = "plain" /\ f[i + 1][2] \in {"s", "d", "h", "H"})
    BY <1>1 DEF Readable
  <2>3. \A i \in 1 .. (k - 1) :
           ~(g[i] = <<"plain", "%">> /\ g[i + 1][1] = "plain" /\ g[i + 1][2] \in {"s", "d", "h", "H"})
    BY <1>4, <2>1, <2>2
  <2> QED BY <1>4, <2>3 DEF Readable
<1>6. /\ SpeltAll(g) \in [1 .. k -> Seq(Char)] /\ MeantAll(g) \in [1 .. k -> Seq(Char)]
      /\ FormatString(g) = FlattenSeq(SpeltAll(g)) /\ Meant(g) = FlattenSeq(MeantAll(g))
  BY <1>4, <1>5, PiecesType DEF Meant
<1>7. ASSUME NEW q, NEW h, NEW J, Joins(J, q, Char, N), h \in [1 .. k -> Seq(Char)],
             \A i \in 1 .. k : h[i] = q[i]
      PROVE  FlattenSeq(h) = J[k]
  <2> DEFINE I == [j \in 0 .. k |-> J[j]]
  <2>1. J \in [0 .. N -> Seq(Char)] /\ J[0] = <<>> /\ \A i \in 0 .. (N - 1) : J[i + 1] = J[i] \o q[i + 1]
    BY <1>7 DEF Joins
  <2>2. /\ \A j \in 0 .. k : j \in 0 .. N
        /\ \A i \in 0 .. (k - 1) : i \in 0 .. (N - 1) /\ i \in 0 .. k /\ i + 1 \in 0 .. k /\ i + 1 \in 1 .. k
        /\ 0 \in 0 .. k /\ k \in 0 .. k
    BY <1>2, <1>3
  <2>3. I \in [0 .. k -> Seq(Char)] /\ I[0] = <<>> /\ I[k] = J[k]
    BY <2>1, <2>2
  <2>4. \A i \in 0 .. (k - 1) : I[i] = J[i] /\ I[i + 1] = J[i + 1]
    BY <2>2
  <2> HIDE DEF I
  <2>5. \A i \in 0 .. (k - 1) : I[i + 1] = I[i] \o h[i + 1]
    BY <1>7, <2>1, <2>2, <2>4
  <2>6. Joins(I, h, Char, k)
    BY <2>3, <2>5 DEF Joins
  <2> QED BY <1>3, <1>7, <2>3, <2>6, FlattenIs
<1>8. \A i \in 1 .. k : SpeltAll(g)[i] = SpeltAll(f)[i] /\ MeantAll(g)[i] = MeantAll(f)[i]
  <2>1. \A i \in 1 .. k : i \in 1 .. N
    BY <1>2, <1>3
  <2> QED BY <1>1, <1>4, <2>1 DEF SpeltAll, MeantAll
<1>9. Joins(P, SpeltAll(f), Char, N) /\ Joins(O, MeantAll(f), Char, N)
  BY <1>1 DEF AllJoined
<1>10. FlattenSeq(SpeltAll(g)) = P[k]
  <2>1. PICK q, h : q = SpeltAll(f) /\ h = SpeltAll(g)
    OBVIOUS
  <2>2. Joins(P, q, Char, N) /\ h \in [1 .. k -> Seq(Char)] /\ \A i \in 1 .. k : h[i] = q[i]
    BY <1>6, <1>8, <1>9, <2>1
  <2>3. FlattenSeq(h) = P[k]
    BY <1>7, <2>2
  <2> QED BY <2>1, <2>3
<1>11. FlattenSeq(MeantAll(g)) = O[k]
  <2>1. PICK q, h : q = MeantAll(f) /\ h = MeantAll(g)
    OBVIOUS
  <2>2. Joins(O, q, Char, N) /\ h \in [1 .. k -> Seq(Char)] /\ \A i \in 1 .. k : h[i] = q[i]
    BY <1>6, <1>8, <1>9, <2>1
  <2>3. FlattenSeq(h) = O[k]
    BY <1>7, <2>2
  <2> QED BY <2>1, <2>3
<1> QED BY <1>1, <1>6, <1>10, <1>11

(***************************************************************************)
(* When the first k pieces are converted, the text has the length Grown.   *)
(***************************************************************************)
LEMMA TurnLength ==
    ASSUME NEW f, Readable(f), NEW P, NEW A, NEW O, AllJoined(f, P, A, O), NEW k \in 0 .. Len(f)
    PROVE  Len(TurnState(f, P, A, O, k).s) = Grown(f, k)
<1>1. PICK N : N = Len(f)
  OBVIOUS
<1>2. N \in Nat /\ k \in 0 .. N /\ N \in 0 .. N
  BY <1>1, PiecesType
<1>3. /\ Joined(P, SpeltAll(f), Char, N)
      /\ P \in [0 .. N -> Seq(Char)] /\ O \in [0 .. N -> Seq(Char)]
  BY <1>1, <1>2, PiecesType DEF AllJoined, Joined, Joins
<1>4. PICK q : q = SpeltAll(f)
  OBVIOUS
<1>5. Len(P[k]) <= Len(P[N])
  BY <1>2, <1>3, <1>4, JoinsPrefix
<1>6. PICK w, o, n : w = P[N] /\ o = O[k] /\ n = Len(P[k])
  OBVIOUS
<1>7. w \in Seq(Char) /\ o \in Seq(Char) /\ n \in Nat /\ n <= Len(w) /\ Len(w) \in Nat
  BY <1>2, <1>3, <1>5, <1>6
<1>8. SubSeq(w, n + 1, Len(w)) \in Seq(Char) /\ Len(SubSeq(w, n + 1, Len(w))) = Len(w) - n
  BY <1>7
<1>9. TurnState(f, P, A, O, k).s = o \o SubSeq(w, n + 1, Len(w))
  BY <1>1, <1>6 DEF TurnState, LoopAt, Behind
<1>10. Len(TurnState(f, P, A, O, k).s) = Len(o) + (Len(w) - n)
  <2>1. PICK v : v = SubSeq(w, n + 1, Len(w))
    OBVIOUS
  <2>2. Len(o \o v) = Len(o) + Len(v)
    BY <1>7, <1>8, <2>1
  <2> QED BY <1>8, <1>9, <2>1, <2>2
<1>11. FormatString(SubSeq(f, 1, k)) = P[k] /\ Meant(SubSeq(f, 1, k)) = o
  BY <1>6, PrefixIs
<1>12. FormatString(f) = w
  <2>1. /\ SpeltAll(f) \in [1 .. N -> Seq(Char)] /\ Joins(P, SpeltAll(f), Char, N)
        /\ FormatString(f) = FlattenSeq(SpeltAll(f))
    BY <1>1, PiecesType DEF AllJoined
  <2> QED BY <1>2, <1>6, <2>1, FlattenIs
<1>13. Grown(f, k) = Len(w) - n + Len(o)
  BY <1>6, <1>11, <1>12 DEF Grown
<1>14. Len(o) \in Nat
  BY <1>7
<1> QED BY <1>7, <1>10, <1>13, <1>14

(***************************************************************************)
(* printk's loop writes what the pieces of a format mean, and stays within *)
(* the buffer exactly if the text is never too long.                       *)
(***************************************************************************)
LEMMA ScanIs ==
    ASSUME NEW f, Readable(f)
    PROVE  /\ Scan(FormatString(f), Arguments(f)) = Meant(f)
           /\ Scan(FormatString(f), Arguments(f)) \in Seq(Char)
           /\ Fits(FormatString(f), Arguments(f)) <=> ~TooLong(f)
<1>1. PICK N : N = Len(f)
  OBVIOUS
<1>2. PICK qP, qA, qO : qP = SpeltAll(f) /\ qA = TakenAll(f) /\ qO = MeantAll(f)
  OBVIOUS
<1>3. /\ N \in Nat /\ qP \in [1 .. N -> Seq(Char)]
      /\ qA \in [1 .. N -> Seq(Argument)] /\ qO \in [1 .. N -> Seq(Char)]
      /\ \A i \in 1 .. N : Len(qP[i]) >= 1
  BY <1>1, <1>2, PiecesType
<1>4. PICK P : Joins(P, qP, Char, N)
  BY <1>3, JoinsExist
<1>5. PICK A : Joins(A, qA, Argument, N)
  BY <1>3, JoinsExist
<1>6. PICK O : Joins(O, qO, Char, N)
  BY <1>3, JoinsExist
<1>7. FlattenSeq(qP) = P[N]
  BY <1>3, <1>4, FlattenIs
<1>8. FlattenSeq(qA) = A[N]
  BY <1>3, <1>5, FlattenIs
<1>9. FlattenSeq(qO) = O[N]
  BY <1>3, <1>6, FlattenIs
<1>10. /\ FormatString(f) = P[N] /\ Arguments(f) = A[N]
       /\ Meant(f) = O[N]
  BY <1>2, <1>7, <1>8, <1>9, PiecesType DEF Meant
<1>11. P \in [0 .. N -> Seq(Char)] /\ A \in [0 .. N -> Seq(Argument)] /\ O \in [0 .. N -> Seq(Char)]
       /\ P[0] = <<>> /\ A[0] = <<>> /\ O[0] = <<>>
  BY <1>4, <1>5, <1>6 DEF Joins
<1>12. PICK s, args, o : s = P[N] /\ args = A[N] /\ o = O[N]
  OBVIOUS
<1>13. s \in Seq(Char) /\ o \in Seq(Char)
  BY <1>3, <1>11, <1>12
<1>14. PICK M : M = Len(s)
  OBVIOUS
<1>15. M \in Nat /\ N <= M
  <2>1. Joined(P, qP, Char, N)
    BY <1>3, <1>4 DEF Joined
  <2>2. N <= Len(P[N])
    BY <1>3, <2>1, JoinsLong
  <2> QED BY <1>12, <1>13, <1>14, <2>2
<1> DEFINE St(k) == TurnState(f, P, A, O, k)
           c == [s |-> s, offset |-> 1, arg |-> 1]
           E == [k \in 0 .. M |-> IF k <= N THEN St(k) ELSE St(N)]
<1>16. \A k \in 0 .. (N - 1) : Turn(St(k), args) = St(k + 1)
  <2>1. AllJoined(f, P, A, O)
    BY <1>1, <1>2, <1>4, <1>5, <1>6 DEF AllJoined
  <2>2. \A k \in 0 .. (Len(f) - 1) : Turn(TurnState(f, P, A, O, k), A[Len(f)]) = TurnState(f, P, A, O, k + 1)
    BY <2>1, TurnPiece
  <2> QED BY <1>1, <1>12, <2>2
<1>17. St(0) = c
  <2>1. Len(O[0]) + 1 = 1 /\ Len(A[0]) + 1 = 1 /\ Len(P[0]) = 0
    BY <1>11
  <2>2. Behind(s, 0) = s
    <3>1. SubSeq(s, 0 + 1, Len(s)) \in Seq(Char) /\ Len(SubSeq(s, 0 + 1, Len(s))) = Len(s)
      BY <1>13
    <3>2. \A j \in 1 .. Len(s) : SubSeq(s, 0 + 1, Len(s))[j] = s[j]
      BY <1>13
    <3>3. SubSeq(s, 0 + 1, Len(s)) = s
      BY <1>13, <3>1, <3>2, SameSeq
    <3> QED BY <3>3 DEF Behind
  <2>3. O[0] \o s = s
    BY <1>11, <1>13
  <2>4. St(0) = LoopAt(O[0], s, 1)
    BY <1>1, <1>12, <2>1, <2>2 DEF TurnState
  <2> QED BY <2>1, <2>3, <2>4 DEF LoopAt
<1>18. St(N).s = o /\ Turn(St(N), args) = St(N)
  <2>1. SubSeq(s, Len(s) + 1, Len(s)) = <<>>
    BY <1>13
  <2>2. o \o <<>> = o
    BY <1>13
  <2>3. St(N) = [s |-> o, offset |-> Len(o) + 1, arg |-> Len(A[N]) + 1]
    BY <1>1, <1>12, <2>1, <2>2 DEF TurnState, Behind, LoopAt
  <2> HIDE DEF St
  <2>4. St(N).s = o /\ St(N).offset = Len(o) + 1
    BY <2>3
  <2>5. Len(o) \in Nat
    BY <1>13
  <2>6. St(N).offset > Len(St(N).s)
    BY <2>4, <2>5
  <2> QED BY <2>4, <2>6 DEF Turn
<1> HIDE DEF St, c
<1>19. \A k \in 0 .. M : E[k] = IF k = 0 THEN c ELSE Turn(E[k - 1], args)
  <2> TAKE k \in 0 .. M
  <2>1. CASE k = 0
    <3>1. 0 <= N
      BY <1>3
    <3> QED BY <1>17, <2>1, <3>1
  <2>2. CASE k # 0
    <3>1. k - 1 \in 0 .. M /\ k - 1 \in Nat
      BY <1>15, <2>2
    <3>2. CASE k <= N
      <4>1. k - 1 \in 0 .. (N - 1) /\ (k - 1) + 1 = k /\ k - 1 <= N
        BY <1>3, <1>15, <2>2, <3>2
      <4>2. E[k] = St(k) /\ E[k - 1] = St(k - 1)
        BY <3>1, <3>2, <4>1
      <4>3. Turn(St(k - 1), args) = St((k - 1) + 1)
        BY <1>16, <4>1
      <4> HIDE DEF E
      <4> QED BY <2>2, <4>1, <4>2, <4>3
    <3>3. CASE ~(k <= N)
      <4>1. k - 1 = N \/ ~(k - 1 <= N)
        BY <1>3, <1>15, <3>3
      <4>2. E[k] = St(N)
        BY <3>3
      <4>3. E[k - 1] = St(N)
        BY <3>1, <4>1
      <4> HIDE DEF E
      <4> QED BY <1>18, <2>2, <4>2, <4>3
    <3> QED BY <3>2, <3>3
  <2> QED BY <2>1, <2>2
<1>20. E[M].s = o
  <2>1. E[M] = St(N)
    <3>1. M \in 0 .. M /\ (M <= N => M = N)
      BY <1>3, <1>15
    <3> QED BY <3>1
  <2> HIDE DEF E
  <2> QED BY <1>18, <2>1
<1>21. E = [k \in 0 .. M |-> IF k = 0 THEN c ELSE Turn(E[k - 1], args)]
  <2>1. E = [k \in 0 .. M |-> E[k]]
    OBVIOUS
  <2> HIDE DEF E
  <2> QED BY <1>19, <2>1
<1> HIDE DEF E
<1> DEFINE loop == CHOOSE g : g = [k \in 0 .. M |-> IF k = 0 THEN c ELSE Turn(g[k - 1], args)]
<1>22. loop = [k \in 0 .. M |-> IF k = 0 THEN c ELSE Turn(loop[k - 1], args)]
  BY <1>21
<1>23. Loop(s, args) = loop
  BY <1>14 DEF Loop, c
<1> HIDE DEF loop
<1>24. \A j \in 0 .. M : loop[j] = E[j]
  <2> TAKE j \in 0 .. M
  <2>1. loop[0] = E[0]
    <3>1. 0 \in 0 .. M
      BY <1>15
    <3> QED BY <1>21, <1>22, <3>1
  <2>2. ASSUME NEW k \in 0 .. (j - 1), loop[k] = E[k] PROVE loop[k + 1] = E[k + 1]
    <3>1. PICK m : m = k + 1
      OBVIOUS
    <3>2. m \in 0 .. M /\ m # 0 /\ m - 1 = k
      BY <1>15, <3>1
    <3>3. loop[m] = Turn(loop[m - 1], args) /\ E[m] = Turn(E[m - 1], args)
      BY <1>21, <1>22, <3>2
    <3> QED BY <2>2, <3>1, <3>2, <3>3
  <2>3. j \in Nat
    BY <1>15
  <2> QED BY <2>1, <2>2, <2>3, LoopsAgree
<1>25. Scan(s, args) = o
  <2>1. M \in 0 .. M
    BY <1>15
  <2> QED BY <1>14, <1>20, <1>23, <1>24, <2>1 DEF Scan
<1>26. Fits(s, args) <=> ~TooLong(f)
  <2>1. Fits(s, args) <=> \A k \in 0 .. M : Len(E[k].s) < BUF
    BY <1>14, <1>23, <1>24 DEF Fits
  <2>2. /\ \A k \in 0 .. N : k \in 0 .. M /\ E[k] = St(k)
        /\ \A k \in 0 .. M : \E i \in 0 .. N : E[k] = St(i)
    BY <1>3, <1>15 DEF E
  <2>3. \A k \in 0 .. N : Len(St(k).s) = Grown(f, k)
    <3>1. AllJoined(f, P, A, O)
      BY <1>1, <1>2, <1>4, <1>5, <1>6 DEF AllJoined
    <3> QED BY <1>1, <3>1, TurnLength DEF St
  <2>4. \A k \in 0 .. N : Grown(f, k) \in Int
    <3> TAKE k \in 0 .. N
    <3>1. AllJoined(f, P, A, O)
      BY <1>1, <1>2, <1>4, <1>5, <1>6 DEF AllJoined
    <3>2. FormatString(SubSeq(f, 1, k)) = P[k] /\ Meant(SubSeq(f, 1, k)) = O[k] /\ FormatString(f) = s
      BY <1>1, <1>10, <1>12, <3>1, PrefixIs
    <3>3. Len(P[k]) \in Nat /\ Len(O[k]) \in Nat /\ Len(s) \in Nat
      BY <1>11, <1>13
    <3> QED BY <3>2, <3>3 DEF Grown
  <2>5. BUF \in Nat
    BY ConsoleAssumption
  <2>6. Fits(s, args) <=> \A k \in 0 .. N : Grown(f, k) < BUF
    BY <2>1, <2>2, <2>3
  <2>7. TooLong(f) <=> \E k \in 0 .. N : Grown(f, k) >= BUF
    BY <1>1 DEF TooLong
  <2> QED BY <2>4, <2>5, <2>6, <2>7
<1> QED BY <1>10, <1>12, <1>13, <1>25, <1>26

(***************************************************************************)
(* The formats of printk's callers and of the log are readable.            *)
(***************************************************************************)
LEMMA TextType == \A t \in Text : t \in Seq(Char)
<1> TAKE t \in Text
<1>1. t \in Seq(STRING)
  BY ConsoleAssumption
<1>2. \A i \in 1 .. Len(t) : t[i] \in Char
  BY <1>1 DEF Char
<1>3. t = [i \in 1 .. Len(t) |-> t[i]] /\ Len(t) \in Nat
  BY <1>1
<1>4. t \in [1 .. Len(t) -> Char]
  BY <1>2, <1>3
<1> QED BY <1>3, <1>4

(***************************************************************************)
(* The callers' formats.                                                   *)
(***************************************************************************)
LEMMA FormatReadable ==
    ASSUME NEW f \in Format
    PROVE  Readable(f)
<1>1. ASSUME NEW p \in Piece PROVE p \in AnyPiece
  <2>1. CASE p \in {"plain"} \X Literal
    <3>1. PICK c \in Literal : p = <<"plain", c>>
      BY <2>1
    <3>2. c \in Char
      BY ConsoleAssumption DEF Char
    <3> QED BY <3>1, <3>2 DEF AnyPiece, Plain
  <2>2. CASE p \in {"s"} \X Text
    <3>1. p[2] \in Seq(Char) /\ p = <<"s", p[2]>>
      BY <2>2, TextType
    <3> QED BY <3>1 DEF AnyPiece, TextPiece
  <2>3. CASE p \in {"d", "h", "H"} \X Number
    <3>1. PICK c \in {"d", "h", "H"}, n \in Number : p = <<c, n>>
      BY <2>3
    <3>2. n \in Int
      BY ConsoleAssumption
    <3> QED BY <3>1, <3>2 DEF AnyPiece, NumberPiece
  <2> QED BY <2>1, <2>2, <2>3 DEF Piece, Conversion
<1>2. f \in BoundedSeq(Piece, Pieces)
  BY DEF Format
<1>3. PICK m \in 0 .. Pieces : f \in [1 .. m -> Piece]
  BY <1>2 DEF BoundedSeq, SeqOf
<1>4. m \in Nat
  BY <1>3, ConsoleAssumption
<1>5. f \in [1 .. m -> AnyPiece]
  BY <1>1, <1>3
<1>6. f \in Seq(AnyPiece)
  BY <1>4, <1>5
<1> QED BY <1>6 DEF Readable, Format

(***************************************************************************)
(* The formats of the log.                                                 *)
(***************************************************************************)
LEMMA LogReadable ==
    ASSUME NEW src \in Text, NEW text \in Text
    PROVE  Readable(LogFormat(src, text))
<1>1. PICK a, b, c, d, e : /\ a = <<"plain", "[">> /\ b = <<"s", src>> /\ c = <<"plain", "]">>
                           /\ d = <<"s", text>> /\ e = <<"plain", "nl">>
  OBVIOUS
<1>2. src \in Seq(Char) /\ text \in Seq(Char) /\ "[" \in Char /\ "]" \in Char /\ "nl" \in Char
  BY TextType DEF Char
<1>3. a \in AnyPiece /\ b \in AnyPiece /\ c \in AnyPiece /\ d \in AnyPiece /\ e \in AnyPiece
  BY <1>1, <1>2 DEF AnyPiece, Plain, TextPiece
<1>4. PICK f : f = <<a, b, c, d, e>>
  OBVIOUS
<1>5. LogFormat(src, text) = f
  BY <1>1, <1>4 DEF LogFormat
<1>6. f \in Seq(AnyPiece) /\ Len(f) = 5 /\ f[1] = a /\ f[2] = b /\ f[3] = c /\ f[4] = d /\ f[5] = e
  BY <1>3, <1>4
<1>7. \A i \in 1 .. 4 : f[i] # <<"plain", "%">>
  <2>1. <<"plain", "[">> # <<"plain", "%">> /\ <<"plain", "]">> # <<"plain", "%">>
    OBVIOUS
  <2>2. \A t : <<"s", t>> # <<"plain", "%">>
    OBVIOUS
  <2> TAKE i \in 1 .. 4
  <2>3. i = 1 \/ i = 2 \/ i = 3 \/ i = 4
    OBVIOUS
  <2> QED BY <1>1, <1>6, <2>1, <2>2, <2>3
<1>8. 5 - 1 = 4
  OBVIOUS
<1>9. Readable(f)
  BY <1>6, <1>7, <1>8 DEF Readable
<1> QED BY <1>5, <1>9

(***************************************************************************)
(* What the console keeps: until a line is too long the screen shows the   *)
(* tape and the last line is what its call means, and the calls that went  *)
(* past the end of the buffer are those that are too long.                 *)
(***************************************************************************)
ConsoleInv ==
    /\ overran = {} => ScreenInv
    /\ FormatsArguments
    /\ OverrunsWhenTooLong

(***************************************************************************)
(* A call of printk with a readable format.                                *)
(***************************************************************************)
LEMMA PrintKeeps ==
    ASSUME ConsoleInv, NEW f, Readable(f), NEW colour, printk_color(f, colour)
    PROVE  ConsoleInv'
<1>1. PICK s, args : s = FormatString(f) /\ args = Arguments(f)
  OBVIOUS
<1>2. /\ call' = f /\ overran' = IF Fits(s, args) THEN overran ELSE overran \cup {f}
      /\ PutLine(Scan(s, args), colour) \/ ~Fits(s, args)
  BY <1>1 DEF printk_color
<1>3. Scan(s, args) = Meant(f) /\ Scan(s, args) \in Seq(Char) /\ (Fits(s, args) <=> ~TooLong(f))
  BY <1>1, ScanIs
<1>4. CASE Fits(s, args)
  <2>1. PutLine(Scan(s, args), colour) /\ overran' = overran /\ ~TooLong(f)
    BY <1>2, <1>3, <1>4
  <2>2. line' = Meant(f)
    BY <1>3, <2>1 DEF PutLine
  <2>3. overran' = {} => ScreenInv'
    <3>1. Len(Scan(s, args)) \in Nat
      BY <1>3
    <3> QED BY <2>1, <3>1, PrintShows DEF ConsoleInv
  <2>4. FormatsArguments'
    BY <1>2, <2>2 DEF FormatsArguments
  <2>5. OverrunsWhenTooLong'
    BY <1>2, <2>1 DEF ConsoleInv, OverrunsWhenTooLong, TooLong, Grown, Meant
  <2> QED BY <2>3, <2>4, <2>5 DEF ConsoleInv
<1>5. CASE ~Fits(s, args)
  <2>1. overran' = overran \cup {f} /\ TooLong(f)
    BY <1>2, <1>3, <1>5
  <2>2. overran' # {}
    BY <2>1
  <2>3. OverrunsWhenTooLong'
    BY <2>1, <2>2 DEF ConsoleInv, OverrunsWhenTooLong, TooLong, Grown, Meant
  <2> QED BY <2>2, <2>3 DEF ConsoleInv, FormatsArguments
<1> QED BY <1>4, <1>5

(***************************************************************************)
(* The other calls of the driver leave the last call alone.                *)
(***************************************************************************)
LEMMA OthersKeep ==
    ASSUME ConsoleInv, UNCHANGED <<call, line, overran>>, overran = {} => ScreenInv'
    PROVE  ConsoleInv'
<1>1. FormatsArguments'
  BY DEF ConsoleInv, FormatsArguments
<1>2. OverrunsWhenTooLong'
  BY DEF ConsoleInv, OverrunsWhenTooLong
<1> QED BY <1>1, <1>2 DEF ConsoleInv

(***************************************************************************)
(* The start, with nothing printed: the array holds at least a NUL.        *)
(***************************************************************************)
LEMMA NothingFormatted ==
    ASSUME ConsoleInit
    PROVE  FormatsArguments /\ OverrunsWhenTooLong
<1>1. call = <<>> /\ line = <<>> /\ overran = {}
  BY DEF ConsoleInit
<1>2. Readable(<<>>)
  <2>1. <<>> \in Seq(AnyPiece) /\ Len(<<>>) = 0
    OBVIOUS
  <2>2. \A i : i \notin 1 .. (0 - 1)
    OBVIOUS
  <2> QED BY <2>1, <2>2 DEF Readable
<1>3. Meant(<<>>) = <<>> /\ FormatString(<<>>) = <<>>
  <2>1. PICK q, g : q = [i \in DOMAIN <<>> |-> Meaning(<<>>[i])] /\ g = SpeltAll(<<>>)
    OBVIOUS
  <2>2. q = <<>> /\ g = <<>>
    <3>1. DOMAIN <<>> = 1 .. 0 /\ Len(<<>>) = 0
      OBVIOUS
    <3>2. \A i : i \notin 1 .. 0
      OBVIOUS
    <3>3. q \in [1 .. 0 -> Seq(Char)] /\ g \in [1 .. 0 -> Seq(Char)]
      BY <2>1, <3>1, <3>2 DEF SpeltAll
    <3>4. q \in Seq(Seq(Char)) /\ Len(q) = 0 /\ g \in Seq(Seq(Char)) /\ Len(g) = 0
      BY <3>3
    <3> QED BY <3>4
  <2>3. FlattenSeq(<<>>) = <<>>
    BY DEF FlattenSeq
  <2>4. FormatString(<<>>) = FlattenSeq(g)
    BY <1>2, <2>1, PiecesType
  <2> QED BY <2>1, <2>2, <2>3, <2>4 DEF Meant
<1>4. ~TooLong(<<>>)
  <2>1. SubSeq(<<>>, 1, 0) = <<>> /\ Len(<<>>) = 0 /\ \A k \in 0 .. 0 : k = 0
    OBVIOUS
  <2>2. Grown(<<>>, 0) = 0
    <3>1. PICK e : e = <<>>
      OBVIOUS
    <3>2. SubSeq(e, 1, 0) = e /\ Len(e) = 0 /\ FormatString(e) = e /\ Meant(e) = e
      BY <1>3, <2>1, <3>1
    <3>3. Grown(e, 0) = Len(e) - Len(e) + Len(e)
      BY <3>2 DEF Grown
    <3>4. Grown(e, 0) = 0
      BY <3>2, <3>3
    <3> QED BY <3>1, <3>4
  <2>3. 0 < BUF /\ BUF \in Nat
    BY ConsoleAssumption
  <2> QED BY <2>1, <2>2, <2>3 DEF TooLong
<1> QED BY <1>1, <1>3, <1>4 DEF FormatsArguments, OverrunsWhenTooLong

(***************************************************************************)
(* Every step of the console keeps the picture and what was printed.       *)
(***************************************************************************)
LEMMA ConsoleStep ==
    ASSUME ConsoleInv, [ConsoleNext]_cvars
    PROVE  ConsoleInv'
<1>1. ASSUME NEW f \in Format, printk(f) PROVE ConsoleInv'
  <2>1. Readable(f) /\ printk_color(f, std)
    BY <1>1, FormatReadable DEF printk
  <2> QED BY <2>1, PrintKeeps
<1>2. ASSUME NEW f \in Format, printk_color(f, "red on black") PROVE ConsoleInv'
  <2>1. Readable(f)
    BY FormatReadable
  <2> QED BY <1>2, <2>1, PrintKeeps
<1>3. ASSUME NEW src \in Text, NEW text \in Text, NEW colour, printk_color(LogFormat(src, text), colour)
      PROVE  ConsoleInv'
  <2>1. Readable(LogFormat(src, text))
    BY LogReadable
  <2> QED BY <1>3, <2>1, PrintKeeps
<1>4. CASE ClearScreen
  <2>1. UNCHANGED <<call, line, overran>>
    BY <1>4 DEF ClearScreen
  <2>2. overran = {} => ScreenInv'
    BY <1>4, ClearShows DEF ConsoleInv
  <2> QED BY <2>1, <2>2, OthersKeep
<1>5. ASSUME NEW x \in 0 .. W, NEW y \in 0 .. H, MoveCursor(x, y) PROVE ConsoleInv'
  <2>1. UNCHANGED <<call, line, overran>>
    BY <1>5 DEF MoveCursor
  <2>2. overran = {} => ScreenInv'
    BY <1>5, MoveShows DEF ConsoleInv
  <2> QED BY <2>1, <2>2, OthersKeep
<1>6. CASE RollUp
  <2>1. UNCHANGED <<call, line, overran>>
    BY <1>6 DEF RollUp
  <2>2. overran = {} => ScreenInv'
    BY <1>6, RollShows DEF ConsoleInv
  <2> QED BY <2>1, <2>2, OthersKeep
<1>7. CASE UNCHANGED cvars
  <2>1. UNCHANGED <<call, line, overran>>
    BY <1>7 DEF cvars
  <2>2. overran = {} => ScreenInv'
    BY <1>7 DEF cvars, ConsoleInv, ScreenInv
  <2> QED BY <2>1, <2>2, OthersKeep
<1>8. CASE \E src, text \in Text : \/ info_kern(src, text) \/ error_kern(src, text)
                                   \/ warning_kern(src, text) \/ stop_kern(src, text)
  <2>1. PICK src \in Text, text \in Text : \/ info_kern(src, text) \/ error_kern(src, text)
                                           \/ warning_kern(src, text) \/ stop_kern(src, text)
    BY <1>8
  <2>2. \E colour : printk_color(LogFormat(src, text), colour)
    BY <2>1 DEF info_kern, error_kern, warning_kern, stop_kern, printk
  <2> QED BY <1>3, <2>2
<1> QED BY <1>1, <1>2, <1>4, <1>5, <1>6, <1>7, <1>8 DEF ConsoleNext

(***************************************************************************)
(* The inductive invariant holds: until a line is too long, after every    *)
(* call the video memory is the window of the tape that starts at row top. *)
(***************************************************************************)
LEMMA ConsoleInvariant == ConsoleSpec => []ConsoleInv
<1>1. ConsoleInit => ConsoleInv
  BY InitShows, NothingFormatted DEF ConsoleInv
<1>2. ConsoleInv /\ [ConsoleNext]_cvars => ConsoleInv'
  BY ConsoleStep
<1> QED BY <1>1, <1>2, PTL DEF ConsoleSpec

(***************************************************************************)
(* Whatever is printed, cleared, rolled and wherever the cursor is moved,  *)
(* as long as no line went past its buffer, the screen of any size shows   *)
(* consecutive rows of what was printed and the hardware cursor is where   *)
(* the next character goes (vga.c).                                        *)
(***************************************************************************)
THEOREM ScreenIsWindow == ConsoleSpec => []ScreenShowsText
<1>1. ConsoleInv => ScreenShowsText
  <2>1. CASE overran = {}
    BY <2>1, ScreenInvShows DEF ConsoleInv
  <2>2. CASE overran # {}
    BY <2>2 DEF ScreenShowsText
  <2> QED BY <2>1, <2>2
<1> QED BY <1>1, ConsoleInvariant, PTL

(***************************************************************************)
(* For every int width, every size of the line buffer and every format     *)
(* whose text stays within it, printk prints each piece as it stands or    *)
(* converted, its arguments in order (printk.c, insert_str, uintTostring,  *)
(* num2hexstr).                                                            *)
(***************************************************************************)
THEOREM PrintsMeaning == ConsoleSpec => []FormatsArguments
<1>1. ConsoleInv => FormatsArguments
  BY DEF ConsoleInv
<1> QED BY <1>1, ConsoleInvariant, PTL

(***************************************************************************)
(* A call of printk writes past the end of staticArry exactly if its text  *)
(* is too long at some moment of the conversion (printk.c, insert_str).    *)
(***************************************************************************)
THEOREM LongLinesOverrun == ConsoleSpec => []OverrunsWhenTooLong
<1>1. ConsoleInv => OverrunsWhenTooLong
  BY DEF ConsoleInv
<1> QED BY <1>1, ConsoleInvariant, PTL
=============================================================================
