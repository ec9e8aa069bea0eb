------------------------------ MODULE Console -------------------------------
(***************************************************************************)
(* What printk shows: the formatting of libs/printk and libs/string, and   *)
(* the VGA text screen of drivers/vga with its cursor, line ends and       *)
(* scrolling.  A call of printk is one step: its lock keeps other threads  *)
(* out (see Sync for the one case where it does not).                      *)
(*                                                                         *)
(* Characters are strings of length 1, "nl" and "tab"; a C string is a     *)
(* sequence of them without its NUL.  A screen cell is a character with    *)
(* its colours.  The screen is 80 x 25, a tab is 4 wide and an int has 8   *)
(* hexadecimal digits in the code; these are parameters here, as are the   *)
(* 100 bytes in which a line is put together.  Nothing keeps a line within *)
(* them, and some of the kernel's own lines are longer.                    *)
(***************************************************************************)
EXTENDS Integers, Sequences, SequencesExt, Powers

CONSTANTS W, H,        \* columns and rows of the screen
          tab_length,  \* blanks of a tab
          WORD,        \* hexadecimal digits of an int
          BUF,         \* bytes of staticArry, in which a line is put together
          Literal,     \* plain text pieces of a format
          Number,      \* int arguments
          Text,        \* string arguments
          Pieces,      \* the most pieces of a format
          MaxPos,      \* bound on the cells written since the screen was cleared
          MaxCalls     \* bound on the calls

ASSUME ConsoleAssumption ==
    /\ W \in Nat \ {0} /\ H \in Nat \ {0} /\ tab_length \in Nat
    /\ WORD \in Nat \ {0} /\ BUF \in Nat \ {0} /\ Pieces \in Nat /\ MaxPos \in Nat /\ MaxCalls \in Nat
    /\ Literal \subseteq STRING /\ Number \subseteq Int /\ Text \subseteq Seq(STRING)

VARIABLES screen,   \* video memory, cursor_x, cursor_y and the position the hardware was told
          call,     \* the last call: its format, argument by argument
          line,     \* what it passed on to kputs
          overran,  \* the calls that have written past the end of staticArry
          tape,     \* every cell written since the screen was cleared, by position
          top,      \* the position of the screen's first row on the tape
          pos,      \* the next position
          calls     \* how many calls there were, for the bound

cvars == <<screen, call, line, overran, tape, top, pos, calls>>

-----------------------------------------------------------------------------
(***************************************************************************)
(* The screen.                                                             *)
(***************************************************************************)
std == "white on black"
Blank(colour) == [ch |-> "", colour |-> colour]

move_cursor(s) == [s EXCEPT !.hw = s.y * W + s.x]

\* Rows move up by one, and the cursor with them.
\* Fault: the last row is left as it is.
Rolled_kept(v) == [j \in DOMAIN v |-> IF j < H - 1 THEN v[j + 1] ELSE v[j]]

Rolled(v) ==
    [j \in DOMAIN v |-> IF j < H - 1 THEN v[j + 1] ELSE [i \in 0 .. (W - 1) |-> Blank(std)]]

screen_uproll_once(s) ==
    LET r == [s EXCEPT !.video = Rolled(s.video)]
    IN  IF s.y # 0 THEN move_cursor([r EXCEPT !.y = s.y - 1]) ELSE r

vga_putc(s, cell) ==
    LET p == [s EXCEPT !.video[s.y][s.x] = cell]
    IN  move_cursor(
          IF s.x # W - 1 THEN [p EXCEPT !.x = s.x + 1]
          ELSE IF s.y = H - 1 THEN [screen_uproll_once(p) EXCEPT !.x = 0, !.y = H - 1]
          ELSE [p EXCEPT !.x = 0, !.y = s.y + 1])

\* The same cell n times.
Repeated(s, cell, n) ==
    LET put[i \in 0 .. n] == IF i = 0 THEN s ELSE vga_putc(put[i - 1], cell) IN put[n]

kputc_color(s, c, colour) ==
    CASE c = "tab" -> Repeated(s, Blank(colour), tab_length)
      [] c = "nl"  -> Repeated(s, Blank(colour), IF W - s.x = 0 THEN W ELSE W - s.x)
      [] OTHER     -> vga_putc(s, [ch |-> c, colour |-> colour])

kputs_color(s, str, colour) ==
    LET put[i \in 0 .. Len(str)] == IF i = 0 THEN s ELSE kputc_color(put[i - 1], str[i], colour)
    IN  put[Len(str)]

move_cursor_by_XY(s, x, y) ==
    IF x > W - 1 \/ y > H - 1 THEN s ELSE move_cursor([s EXCEPT !.x = x, !.y = y])

\* Every cell is overwritten, which scrolls once at the end.
clear_screen(s) ==
    move_cursor([Repeated([s EXCEPT !.x = 0, !.y = 0], Blank(std), W * H) EXCEPT !.x = 0, !.y = 0])

-----------------------------------------------------------------------------
(***************************************************************************)
(* Numbers.  Digits are 0 .. 15, written with the characters of the code's *)
(* tables.                                                                 *)
(***************************************************************************)
Digit(d) == <<"0", "1", "2", "3", "4", "5", "6", "7", "8", "9",
              "A", "B", "C", "D", "E", "F">>[d + 1]

Unsigned(n) == n % Pow(16, WORD)

\* The digits of num from the lowest; there is at least one.
LowFirst(num) ==
    LET low[k \in 0 .. num] ==
            IF k >= 10 THEN <<Digit(k % 10)>> \o low[k \div 10] ELSE <<Digit(k)>>
    IN  low[num]

strrevers(str) == Reverse(str)

uintTostring(num) == strrevers(LowFirst(num))

\* func: the digits of n in base i, none for 0.
func(n, i) ==
    LET f[k \in 0 .. n] == IF k = 0 THEN <<>> ELSE Append(f[k \div i], Digit(k % i)) IN f[n]

\* num2hexstr pads with zeros on the left.  Fault: it does not.
num2hexstr_unpadded(number, need0x) ==
    (IF need0x THEN <<"0", "x">> ELSE <<>>) \o func(number, 16)

num2hexstr(number, need0x) ==
    LET s == func(number, 16)
    IN  (IF need0x THEN <<"0", "x">> ELSE <<>>) \o [i \in 1 .. (WORD - Len(s)) |-> "0"] \o s

(***************************************************************************)
(* printk looks for conversions from left to right and goes on behind the  *)
(* text it has put in.  A %c is left as it is and takes no argument.       *)
(***************************************************************************)
insert_str(s, t, offset) == SubSeq(s, 1, offset - 1) \o t \o SubSeq(s, offset + 2, Len(s))

Converted(c, arg) ==
    CASE c = "s" -> arg
      [] c = "d" -> uintTostring(Unsigned(arg))
      [] c = "H" -> num2hexstr(Unsigned(arg), TRUE)
      [] c = "h" -> num2hexstr(Unsigned(arg), FALSE)

\* The next turn of the loop: the text so far, where it stands, and the next argument.
Turn(l, args) ==
    IF l.offset > Len(l.s) THEN l
    ELSE IF /\ l.s[l.offset] = "%" /\ l.offset < Len(l.s)
            /\ l.s[l.offset + 1] \in {"s", "d", "H", "h"}
    THEN LET t == Converted(l.s[l.offset + 1], args[l.arg])
         IN  [s |-> insert_str(l.s, t, l.offset), offset |-> l.offset + Len(t), arg |-> l.arg + 1]
    ELSE [l EXCEPT !.offset = l.offset + 1]

\* A turn passes at least one character of the format: Len(s) turns reach the end.
Loop(s, args) ==
    LET loop[k \in 0 .. Len(s)] ==
            IF k = 0 THEN [s |-> s, offset |-> 1, arg |-> 1] ELSE Turn(loop[k - 1], args)
    IN  loop

Scan(s, args) == Loop(s, args)[Len(s)].s

(***************************************************************************)
(* strcpy of the format, then each insert_str, writes the whole text and   *)
(* its NUL into staticArry.  The text behind the conversion, which         *)
(* insert_str sets aside in an array of the same size, is shorter.         *)
(***************************************************************************)
\* Fault: the NUL is forgotten.
Fits_withoutNul(s, args) == \A k \in 0 .. Len(s) : Len(Loop(s, args)[k].s) <= BUF

Fits(s, args) == \A k \in 0 .. Len(s) : Len(Loop(s, args)[k].s) < BUF

-----------------------------------------------------------------------------
(***************************************************************************)
(* A format, piece by piece: plain text, or a conversion with its          *)
(* argument.  The programmer writes no plain % before a conversion letter. *)
(***************************************************************************)
Conversion == {"s"} \X Text \cup {"d", "h", "H"} \X Number
Piece == {"plain"} \X Literal \cup Conversion

Format ==
    {f \in BoundedSeq(Piece, Pieces) :
        \A i \in 1 .. (Len(f) - 1) :
            ~(f[i] = <<"plain", "%">> /\ f[i + 1][1] = "plain" /\ f[i + 1][2] \in {"s", "d", "h", "H"})}

FormatString(f) ==
    FlattenSeq([i \in DOMAIN f |-> IF f[i][1] = "plain" THEN <<f[i][2]>> ELSE <<"%", f[i][1]>>])

Arguments(f) ==
    FlattenSeq([i \in DOMAIN f |-> IF f[i][1] = "plain" THEN <<>> ELSE <<f[i][2]>>])

(***************************************************************************)
(* The history: where the characters of a line go on a tape of rows that   *)
(* is never scrolled.                                                      *)
(***************************************************************************)
Cell(c, colour) == IF c \in {"nl", "tab"} THEN Blank(colour) ELSE [ch |-> c, colour |-> colour]

NextPos(p, c) ==
    CASE c = "nl"  -> (p \div W + 1) * W
      [] c = "tab" -> p + tab_length
      [] OTHER     -> p + 1

Fill(tp, p, q, cell) == [i \in DOMAIN tp |-> IF i \in p .. (q - 1) THEN cell ELSE tp[i]]

WriteChar(t, c, colour) ==
    [tape |-> Fill(t.tape, t.pos, NextPos(t.pos, c), Cell(c, colour)), pos |-> NextPos(t.pos, c)]

Written(tp, p, str, colour) ==
    LET w[k \in 0 .. Len(str)] ==
            IF k = 0 THEN [tape |-> tp, pos |-> p] ELSE WriteChar(w[k - 1], str[k], colour)
    IN  w[Len(str)]

Later(a, b) == IF a < b THEN b ELSE a

BlankTape == [i \in 0 .. (MaxPos + (H + 1) * W) |-> Blank(std)]

-----------------------------------------------------------------------------
\* vga_init, on whatever the video memory holds.
ConsoleInit ==
    /\ \E c \in {"", "?"} :
          screen = clear_screen([video |-> [j \in 0 .. (H - 1) |-> [i \in 0 .. (W - 1) |->
                                               [ch |-> c, colour |-> std]]],
                                 x |-> 0, y |-> 0, hw |-> 0])
    /\ call = <<>> /\ line = <<>> /\ overran = {}
    /\ tape = BlankTape /\ top = 0 /\ pos = 0 /\ calls = 0

Counted == calls < MaxCalls /\ calls' = calls + 1

PutLine(str, colour) ==
    LET w == Written(tape, pos, str, colour)
    IN  /\ w.pos <= MaxPos
        /\ line' = str
        /\ screen' = kputs_color(screen, str, colour)
        /\ tape' = w.tape /\ pos' = w.pos
        /\ top' = Later(top, w.pos \div W - (H - 1))

(***************************************************************************)
(* A text that is too long overwrites what the build has put behind the    *)
(* array: nothing that matters, and the line appears, or a local variable  *)
(* or the return address, and the caller goes astray.                      *)
(***************************************************************************)
printk_color(f, colour) ==
    LET s == FormatString(f)
        args == Arguments(f)
    IN  /\ Counted
        /\ call' = f
        /\ overran' = IF Fits(s, args) THEN overran ELSE overran \cup {f}
        /\ \/ PutLine(Scan(s, args), colour)
           \/ /\ ~Fits(s, args)
              /\ UNCHANGED <<screen, line, tape, top, pos>>

printk(f) == printk_color(f, std)

(***************************************************************************)
(* The kernel log: a level in brackets (one character here), the source in *)
(* brackets, the text and a line end.  stop_kern then keeps its thread in  *)
(* a loop; the others print on.                                            *)
(***************************************************************************)
LogFormat(src, text) ==
    << <<"plain", "[">>, <<"s", src>>, <<"plain", "]">>, <<"s", text>>, <<"plain", "nl">> >>

info_kern(src, text) == printk(LogFormat(src, text))
error_kern(src, text) == printk_color(LogFormat(src, text), "red on black")
warning_kern(src, text) == printk_color(LogFormat(src, text), "yellow on black")
stop_kern(src, text) == printk_color(LogFormat(src, text), "black on white")

\* The other calls of the driver.
ClearScreen ==
    /\ screen' = clear_screen(screen)
    /\ tape' = BlankTape /\ top' = 0 /\ pos' = 0
    /\ UNCHANGED <<call, line, overran, calls>>

MoveCursor(x, y) ==
    /\ Counted
    /\ screen' = move_cursor_by_XY(screen, x, y)
    /\ pos' = IF x < W /\ y < H THEN (top + y) * W + x ELSE pos
    /\ UNCHANGED <<call, line, overran, tape, top>>

RollUp ==
    /\ Counted
    /\ (top + 2) * W <= MaxPos
    /\ screen' = screen_uproll_once(screen)
    /\ top' = top + 1
    /\ pos' = IF pos \div W = top THEN pos + W ELSE pos
    /\ UNCHANGED <<call, line, overran, tape>>

ConsoleNext ==
    \/ \E f \in Format : printk(f) \/ printk_color(f, "red on black")
    \/ \E src, text \in Text :
          \/ info_kern(src, text) \/ error_kern(src, text)
          \/ warning_kern(src, text) \/ stop_kern(src, text)
    \/ ClearScreen
    \/ \E x \in 0 .. W, y \in 0 .. H : MoveCursor(x, y)
    \/ RollUp

ConsoleSpec == ConsoleInit /\ [][ConsoleNext]_cvars

-----------------------------------------------------------------------------
(***************************************************************************)
(* The screen is the part of the text that fits: its rows are consecutive  *)
(* rows of what was printed, the last one has the cursor unless it was     *)
(* moved, text behind the end of a row goes on in the next one, a line end *)
(* goes to the next row, and the hardware cursor is where the next         *)
(* character will go.  After a line that was too long nothing is known.    *)
(***************************************************************************)
ScreenShowsText ==
    overran = {} =>
        /\ \A r \in 0 .. (H - 1), c \in 0 .. (W - 1) :
              screen.video[r][c] = tape[(top + r) * W + c]
        /\ pos = (top + screen.y) * W + screen.x
        /\ screen.hw = screen.y * W + screen.x

\* What a piece of a format stands for, without looking for conversions in it.
NumDigits(n) == CHOOSE k \in 1 .. (n + 1) : n < Pow(10, k) /\ (k = 1 \/ n >= Pow(10, k - 1))

Meaning(p) ==
    LET n == Unsigned(p[2])
        hex == [i \in 1 .. WORD |-> Digit((n \div Pow(16, WORD - i)) % 16)]
    IN  CASE p[1] = "plain" -> <<p[2]>>
          [] p[1] = "s"     -> p[2]
          [] p[1] = "d"     -> [i \in 1 .. NumDigits(n) |->
                                   Digit((n \div Pow(10, NumDigits(n) - i)) % 10)]
          [] p[1] = "h"     -> hex
          [] p[1] = "H"     -> <<"0", "x">> \o hex

Meant(f) == FlattenSeq([i \in DOMAIN f |-> Meaning(f[i])])

(***************************************************************************)
(* printk prints each piece of its format as it stands or converted: text  *)
(* put in is not taken for a conversion, arguments are used in order,      *)
(* decimal numbers have no leading zeros and hexadecimal ones all digits,  *)
(* negative ones in two's complement.  This is claimed as long as every    *)
(* call so far stayed within the 100 bytes of staticArry.                  *)
(***************************************************************************)
FormatsArguments == overran = {} => line = Meant(call)

\* The length of the text when the first k pieces have been converted.
Grown(f, k) ==
    Len(FormatString(f)) - Len(FormatString(SubSeq(f, 1, k))) + Len(Meant(SubSeq(f, 1, k)))

TooLong(f) == \E k \in 0 .. Len(f) : Grown(f, k) >= BUF

(***************************************************************************)
(* Which calls write past the end of staticArry: exactly those whose text, *)
(* at some moment between the copy of the format and the last conversion,  *)
(* has as many characters as the array has bytes.  It does not matter that *)
(* the text that is printed in the end would fit, and it is not enough     *)
(* that the format and the texts put in do.                                *)
(***************************************************************************)
OverrunsWhenTooLong ==
    /\ \A f \in overran : TooLong(f)
    /\ overran = {} => ~TooLong(call)
=============================================================================
