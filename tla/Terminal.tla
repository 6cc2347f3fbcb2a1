------------------------------ MODULE Terminal ------------------------------
(***************************************************************************)
(* The console window and those who print to it: the cursor and the        *)
(* scrolling of src/src/gui/wm.c, reached through term_print and           *)
(* term_clear.  A system call prints with interrupts disabled: the line    *)
(* editor of the shell (ShellLine), which is a kernel thread but prints by *)
(* `int 0x80', and the programs.  What a command prints, it prints in the  *)
(* shell by a plain call of term_print: a tick may come between any two of *)
(* its accesses to the window, and a program may print.                    *)
(*                                                                         *)
(* Everything is a multiple of the 8 pixels of a glyph, so that positions  *)
(* count glyphs and the buffer holds one per cell; a glyph is drawn in one *)
(* step, at the position read at its start or at the one read at its end.  *)
(* Left out: the literals of the line editor (what erases a character, the *)
(* end of a line, the first prompt), which lie below 128 MB and which      *)
(* SYS_PRINT therefore drops.                                              *)
(***************************************************************************)
EXTENDS ShellLine

CONSTANTS
    Cols, Rows,         \* width and height of the window, in glyphs
    Outputs             \* what a command may print before the prompt

(* With two rows only, a program that scrolls while the shell is about to  *)
(* would leave it a cursor in the first row to move up.                    *)
ASSUME TerminalAssumption == Cols \in Nat \ {0, 1} /\ Rows \in Nat \ {0, 1, 2}

VARIABLES
    win,        \* the window, and whether something was written outside it
    at,         \* where the shell is: in the editor, or in a command
    out,        \* what is still to be printed by it
    reg,        \* the registers of wm_putc and wm_scroll_window
    lines,      \* the lines printed, as many as the window can show
    mixed,      \* a program has printed while the shell was about a character
    cleared     \* ... or cleared the window then

window == <<win, at, out, reg, lines, mixed, cleared>>
allVars == <<vars, window>>

\* The glyph of what the shell prints, that of the programs, and of no one.
Shell == "x"
Program == "p"
Space == " "
Backspace == "BS"
BlankRow == [c \in 0..Cols - 1 |-> Space]
NoRegisters == [x |-> 0, y |-> 0, row |-> 0]

ASSUME OutputAssumption == Outputs \subseteq Seq({Shell, "\n", Backspace})

WindowOK ==
    /\ win.cursor_x \in 0..Cols /\ win.cursor_y \in -1..Rows
    /\ win.buffer \in [0..Rows - 1 -> [0..Cols - 1 -> {Space, Shell, Program}]]
    /\ reg.x \in 0..Cols /\ reg.y \in -1..Rows /\ reg.row \in 0..Rows
    /\ at \in {"editor", "putc", "carriage", "feed", "back", "erase", "wrap", "wrapped",
               "draw", "advance", "check", "scroll", "decrement", "clamp", "clamped", "clear"}
-----------------------------------------------------------------------------
(* wm_putc and what it calls, on a window.  *)

(* A glyph drawn at x and y.  Only the end of the buffer is looked at ... *)
Cell(w, x, y, glyph) ==
    IF y \in 0..Rows - 1 /\ x \in 0..Cols - 1 THEN [w EXCEPT !.buffer[y][x] = glyph]
    ELSE [w EXCEPT !.outside = TRUE]
Drawn(w, x, y, glyph) == IF y >= Rows THEN w ELSE Cell(w, x, y, glyph)

(* ... and to erase one, nothing is. *)
Erased(w) == Cell(w, w.cursor_x, w.cursor_y, Space)

(* A row of glyphs is moved up, or, if it is the last, cleared. *)
MovedUp(w, row) ==
    [w EXCEPT !.buffer[row] = IF row = Rows - 1 THEN BlankRow ELSE w.buffer[row + 1]]

(* Seeded fault: the last row is kept. *)
ScrolledOnly(w) ==
    [w EXCEPT !.buffer = [r \in 0..Rows - 1 |->
                             IF r = Rows - 1 THEN w.buffer[r] ELSE w.buffer[r + 1]],
              !.cursor_y = IF @ - 1 < 0 THEN 0 ELSE @ - 1]

wm_scroll_window(w) ==
    [w EXCEPT !.buffer = [r \in 0..Rows - 1 |->
                             IF r = Rows - 1 THEN BlankRow ELSE w.buffer[r + 1]],
              !.cursor_y = IF @ - 1 < 0 THEN 0 ELSE @ - 1]

NewLine(w) == [w EXCEPT !.cursor_x = 0, !.cursor_y = @ + 1]
Full(y) == y + 1 >= Rows
Wraps(x) == x + 1 >= Cols

(* Seeded faults: a backspace is not stopped at the left edge; the window  *)
(* is scrolled only when a line ends.                                      *)
BackAnywhere(w, c) ==
    LET back == [w EXCEPT !.cursor_x = @ - 1]
        wrapped == IF Wraps(w.cursor_x) THEN NewLine(w) ELSE w
        put == CASE c = "\n" -> NewLine(w)
                 [] c = Backspace -> Erased(back)
                 [] OTHER -> [Drawn(wrapped, wrapped.cursor_x, wrapped.cursor_y, c)
                                 EXCEPT !.cursor_x = @ + 1]
    IN  IF Full(put.cursor_y) THEN wm_scroll_window(put) ELSE put
ScrollsAtLineEnd(w, c) ==
    LET back == [w EXCEPT !.cursor_x = @ - 1]
        wrapped == IF Wraps(w.cursor_x) THEN NewLine(w) ELSE w
    IN  CASE c = "\n" -> IF Full(w.cursor_y + 1) THEN wm_scroll_window(NewLine(w)) ELSE NewLine(w)
          [] c = Backspace -> IF w.cursor_x >= 1 THEN Erased(back) ELSE w
          [] OTHER -> [Drawn(wrapped, wrapped.cursor_x, wrapped.cursor_y, c)
                          EXCEPT !.cursor_x = @ + 1]

(* wm_putc, with nothing in between. *)
wm_putc(w, c) ==
    LET back == [w EXCEPT !.cursor_x = @ - 1]
        wrapped == IF Wraps(w.cursor_x) THEN NewLine(w) ELSE w
        put == CASE c = "\n" -> NewLine(w)
                 [] c = Backspace -> IF w.cursor_x >= 1 THEN Erased(back) ELSE w
                 [] OTHER -> [Drawn(wrapped, wrapped.cursor_x, wrapped.cursor_y, c)
                                 EXCEPT !.cursor_x = @ + 1]
    IN  IF Full(put.cursor_y) THEN wm_scroll_window(put) ELSE put

term_clear(w) ==
    [w EXCEPT !.buffer = [r \in 0..Rows - 1 |-> BlankRow], !.cursor_x = 0, !.cursor_y = 0]

(* The window of kmain. *)
create_window ==
    [buffer |-> [r \in 0..Rows - 1 |-> BlankRow], cursor_x |-> 0, cursor_y |-> 0,
     outside |-> FALSE]
-----------------------------------------------------------------------------
(* What a terminal is for: a list of lines, each one short of the width;   *)
(* of lines that are full nothing is ever taken back.                      *)
Printed(ls, c) ==
    LET line_ == Last(ls)
        long == CASE c = "\n" -> Append(ls, <<>>)
                  [] c = Backspace -> IF line_ = <<>> THEN ls ELSE Append(Front(ls), Front(line_))
                  [] OTHER -> IF Len(line_) = Cols - 1 THEN Append(ls, <<c>>)
                              ELSE Append(Front(ls), Append(line_, c))
    IN  IF Len(long) < Rows THEN long ELSE Tail(long)

(* The shell is between two characters. *)
AtRest == at \in {"editor", "putc"}

(* What a print or a clear by a program means for the lines.  *)
Overtake(ls) ==
    /\ mixed' = (mixed \/ ~AtRest)
    /\ lines' = IF mixed' THEN <<>> ELSE ls

(* The message of the boot, a glyph and the end of the line, is there. *)
TermInit ==
    /\ Init
    /\ win = wm_putc(wm_putc(create_window, Shell), "\n")
    /\ lines = Printed(Printed(<<<<>>>>, Shell), "\n")
    /\ at = "editor" /\ out = <<>> /\ reg = NoRegisters
    /\ mixed = FALSE /\ cleared = FALSE
-----------------------------------------------------------------------------
(* n glyphs of the shell printed in one system call. *)
WindowAfter(n) ==
    LET w[k \in 0..n] == IF k = 0 THEN win ELSE wm_putc(w[k - 1], Shell) IN w[n]
LinesAfter(n) ==
    LET ls[k \in 0..n] == IF k = 0 THEN lines ELSE Printed(ls[k - 1], Shell) IN ls[n]

(* The editor prints what is typed, and the line an arrow key brings back. *)
Echo(s) ==
    /\ win' = WindowAfter(Len(s))
    /\ lines' = IF mixed THEN lines ELSE LinesAfter(Len(s))
    /\ UNCHANGED <<at, out, reg, mixed, cleared>>

edit ==
    /\ at = "editor"
    /\ \/ (up_arrow \/ down_arrow) /\ Echo(line')
       \/ \E c \in Chars : typed(c) /\ Echo(<<c>>)
       \/ backspace /\ UNCHANGED window

(* execute_command returns at once for an empty line.  Any other command   *)
(* prints, or clears the window, and then prints the prompt.               *)
command ==
    /\ at = "editor" /\ enter
    /\ \/ line = <<>> /\ UNCHANGED <<at, out>>
       \/ /\ line # <<>>
          /\ \/ at' = "putc" /\ out' \in {o \o <<Shell>> : o \in Outputs}
             \/ at' = "clear" /\ out' = <<Shell>>
    /\ UNCHANGED <<win, reg, lines, mixed, cleared>>

InShell(label) == at = label /\ UNCHANGED <<vars, mixed, cleared>>

(* wm_putc in the shell: the character is looked at and registers loaded;  *)
(* the labels say what is to be done next.                                 *)
putc ==
    /\ InShell("putc")
    /\ IF out = <<>>
       THEN at' = "editor" /\ reg' = NoRegisters /\ UNCHANGED lines
       ELSE /\ reg' = [x |-> win.cursor_x, y |-> win.cursor_y, row |-> 0]
            /\ at' = CASE Head(out) = "\n" -> "carriage"
                       [] Head(out) = Backspace -> IF win.cursor_x >= 1 THEN "back" ELSE "check"
                       [] OTHER -> IF Wraps(win.cursor_x) THEN "wrap" ELSE "draw"
            /\ lines' = IF mixed THEN lines ELSE Printed(lines, Head(out))
    /\ UNCHANGED <<win, out>>

Store(label, w, r, next) ==
    /\ InShell(label)
    /\ win' = w /\ reg' = r /\ at' = next
    /\ UNCHANGED <<out, lines>>

(* The end of a line.  The position is read again, or not.  *)
carriage == Store("carriage", [win EXCEPT !.cursor_x = 0], reg, "feed")
feed ==
    \E y \in {reg.y, win.cursor_y} :
        Store("feed", [win EXCEPT !.cursor_y = y + 1], [reg EXCEPT !.y = y + 1], "check")

back == Store("back", [win EXCEPT !.cursor_x = reg.x - 1], reg, "erase")
erase == Store("erase", Erased(win), [reg EXCEPT !.y = win.cursor_y], "check")

(* The wrap: as compiled, the two stores come in this order.  *)
wrap == Store("wrap", [win EXCEPT !.cursor_y = @ + 1], reg, "wrapped")
wrapped == Store("wrapped", [win EXCEPT !.cursor_x = 0], [reg EXCEPT !.x = 0], "draw")

draw ==
    \E x \in {reg.x, win.cursor_x} :
        Store("draw", Drawn(win, x, win.cursor_y, Head(out)),
              [reg EXCEPT !.x = x, !.y = win.cursor_y], "advance")
advance == Store("advance", [win EXCEPT !.cursor_x = reg.x + 1], reg, "check")

(* The next character. *)
Done(label, w) ==
    /\ InShell(label)
    /\ win' = w /\ out' = Tail(out) /\ at' = "putc" /\ reg' = NoRegisters
    /\ UNCHANGED lines

check ==
    \E y \in {reg.y, win.cursor_y} :
        \/ Full(y) /\ Store("check", win, NoRegisters, "scroll")
        \/ ~Full(y) /\ Done("check", win)

scroll == Store("scroll", MovedUp(win, reg.row), [reg EXCEPT !.row = @ + 1],
                IF reg.row + 1 = Rows THEN "decrement" ELSE "scroll")
decrement == Store("decrement", [win EXCEPT !.cursor_y = @ - 1], reg, "clamp")
clamp == Store("clamp", win, [reg EXCEPT !.y = IF win.cursor_y < 0 THEN 0 ELSE win.cursor_y],
               "clamped")
clamped == Done("clamped", [win EXCEPT !.cursor_y = reg.y])

(* term_clear in the shell, row by row and then the cursor. *)
clear ==
    /\ InShell("clear")
    /\ \/ /\ reg.row < Rows
          /\ win' = [win EXCEPT !.buffer[reg.row] = BlankRow]
          /\ reg' = [reg EXCEPT !.row = @ + 1]
          /\ UNCHANGED <<at, lines>>
       \/ /\ reg.row = Rows
          /\ win' = [win EXCEPT !.cursor_x = 0, !.cursor_y = 0]
          /\ reg' = NoRegisters /\ at' = "putc"
          /\ lines' = IF mixed THEN lines ELSE <<<<>>>>
    /\ UNCHANGED out

(* A program's system calls. *)
SYS_PRINT(c) ==
    /\ win' = wm_putc(win, c)
    /\ Overtake(IF mixed THEN lines ELSE Printed(lines, c))
    /\ UNCHANGED <<vars, at, out, reg, cleared>>

SYS_CLEAR ==
    /\ win' = term_clear(win)
    /\ Overtake(<<<<>>>>)
    /\ cleared' = (cleared \/ ~AtRest)
    /\ UNCHANGED <<vars, at, out, reg>>

TermNext ==
    \/ edit \/ command
    \/ putc \/ carriage \/ feed \/ back \/ erase \/ wrap \/ wrapped \/ draw \/ advance
    \/ check \/ scroll \/ decrement \/ clamp \/ clamped \/ clear
    \/ \E c \in {Program, "\n", Backspace} : SYS_PRINT(c)
    \/ SYS_CLEAR

TermSpec == TermInit /\ [][TermNext]_allVars
-----------------------------------------------------------------------------
(* Properties.                                                             *)

(* While nobody prints in the middle of another's character, the window    *)
(* shows the last lines printed, wrapped, erased and scrolled as a list of *)
(* lines would be, with the cursor behind them (wm.c:183).                 *)
ShowsLines ==
    AtRest /\ ~mixed =>
        /\ win.cursor_y = Len(lines) - 1
        /\ win.cursor_x = Len(Last(lines))
        /\ win.buffer = [r \in 0..Rows - 1 |-> [c \in 0..Cols - 1 |->
              IF r < Len(lines) /\ c < Len(lines[r + 1]) THEN lines[r + 1][c + 1] ELSE Space]]

(* However prints overtake one another, nothing is written outside the     *)
(* window, though an erase is not checked and a glyph only at the end      *)
(* (wm.c:196, wm.c:212), unless a program cleared it while the shell was   *)
(* in the middle of a character: if it then scrolls, the cursor is above   *)
(* the window for an instant.                                              *)
InsideUnlessCleared == win.outside => cleared
=============================================================================
