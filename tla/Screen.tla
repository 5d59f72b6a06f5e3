------------------------------- MODULE Screen -------------------------------
(***************************************************************************)
(* drivers/screen.c as operators on a screen: the two buffers, the cursor   *)
(* all processes share, and the terminal behind the serial port with its    *)
(* own cursor.  Lines and columns count from 0.                             *)
(***************************************************************************)
EXTENDS Integers, Sequences, FiniteSets, SequencesExt

CONSTANTS
    SCREEN_WIDTH, SCREEN_HEIGHT,   \* screen.h has 80 and 30
    SHELL_START_LINE,              \* the dividing line: 18
    TERMINAL_HEIGHT                \* lines of the terminal; not in the code

ASSUME ScreenAssumption ==
    /\ SCREEN_WIDTH \in Nat \ {0} /\ SCREEN_HEIGHT \in Nat \ {0}
    \* the shell's lines are among those that scroll
    /\ SHELL_START_LINE \in (SCREEN_HEIGHT \div 2 + 1)..(SCREEN_HEIGHT - 2)
    \* the screen is at the terminal's top and fits on it
    /\ TERMINAL_HEIGHT \in Nat /\ TERMINAL_HEIGHT >= SCREEN_HEIGHT

Lines == 0..(SCREEN_HEIGHT - 1)
Columns == 0..(SCREEN_WIDTH - 1)
Cells == 0..(SCREEN_HEIGHT * SCREEN_WIDTH - 1)

At(x, y) == y * SCREEN_WIDTH + x
LineOf(c) == c \div SCREEN_WIDTH

\* Characters: printable ones are strings of their own.
SP == "SP"
NUL == "NUL"
NL == "NL"
BS == "BS"
CR == "CR"

\* What printk() puts on the terminal, or moves there, past the buffers.
Raw == "RAW"

\* The lines that scroll.
ScrollFirst == SCREEN_HEIGHT \div 2 + 1
ScrollRange == ScrollFirst..(SCREEN_HEIGHT - 1)

\* Mutant of scroll_old: the old buffer is moved up like the new one, as if the
\* terminal scrolled by itself.
scroll_old_moved(s, rows) ==
    [s EXCEPT !.old = [c \in Cells |->
        IF LineOf(c) \notin rows THEN @[c]
        ELSE IF LineOf(c) = SCREEN_HEIGHT - 1 THEN SP ELSE @[c + SCREEN_WIDTH]]]

\* screen_scroll in its two loops: what either does for the given rows.  A row
\* takes the one below it, which a loop that goes down has not moved yet.
scroll_old(s, rows) ==
    [s EXCEPT !.old = [c \in Cells |-> IF LineOf(c) \in rows THEN NUL ELSE @[c]]]
scroll_new(s, rows) ==
    [s EXCEPT !.new = [c \in Cells |->
        IF LineOf(c) \notin rows THEN @[c]
        ELSE IF LineOf(c) = SCREEN_HEIGHT - 1 THEN SP ELSE @[c + SCREEN_WIDTH]]]

\* Both loops without an interruption.
screen_scroll(s) == scroll_new(scroll_old(s, ScrollRange), ScrollRange)

\* The store to new_screen[at].  Nothing keeps it in the array; old_screen lies
\* right behind it (in src/main: 0xa0808140 and 0xa0808aa0, 2400 bytes apart).
Stored(s, at, ch) ==
    IF at \in Cells THEN [s EXCEPT !.new[at] = ch]
    ELSE [s EXCEPT !.old[at - SCREEN_HEIGHT * SCREEN_WIDTH] = ch]

\* Mutant of PutCh: a line is full one column too late.
put_ch_wide(s, ch) ==
    LET s1 == CASE ch \in {NL, CR} -> [s EXCEPT !.x = 0, !.y = @ + 1]
                [] ch = BS -> IF s.x = 0 THEN s
                              ELSE [Stored(s, At(s.x - 1, s.y), SP) EXCEPT !.x = @ - 1]
                [] OTHER -> [Stored(s, At(s.x, s.y), ch) EXCEPT !.x = @ + 1]
    IN  IF s1.x > SCREEN_WIDTH THEN [s1 EXCEPT !.x = 0, !.y = @ + 1] ELSE s1

\* screen_write_ch up to its last test: the character is stored, or moves the
\* cursor, and a full line goes on in the next one.
PutCh(s, ch) ==
    LET s1 == CASE ch \in {NL, CR} -> [s EXCEPT !.x = 0, !.y = @ + 1]
                [] ch = BS -> IF s.x = 0 THEN s
                              ELSE [Stored(s, At(s.x - 1, s.y), SP) EXCEPT !.x = @ - 1]
                [] OTHER -> [Stored(s, At(s.x, s.y), ch) EXCEPT !.x = @ + 1]
    IN  IF s1.x >= SCREEN_WIDTH THEN [s1 EXCEPT !.x = 0, !.y = @ + 1] ELSE s1

PastBottom(s) == s.y >= SCREEN_HEIGHT
BottomLine(s) == [s EXCEPT !.x = 0, !.y = SCREEN_HEIGHT - 1]

screen_write_ch(s, ch) ==
    LET s1 == PutCh(s, ch)
    IN  IF PastBottom(s1) THEN BottomLine(screen_scroll(s1)) ELSE s1

screen_write(s, buff) == FoldLeft(screen_write_ch, s, buff)

screen_move_cursor(s, x, y) == [s EXCEPT !.x = x, !.y = y]

\* vt100_move_cursor: the terminal counts its lines from 1.
TerminalLine(y) ==
    CASE y < 1 -> 1
      [] y > TERMINAL_HEIGHT -> TERMINAL_HEIGHT
      [] OTHER -> y

\* What differs from the last refresh goes to the terminal, and then the
\* terminal's cursor to where the screen's is.
screen_reflush(s) ==
    [s EXCEPT !.term = [c \in Cells |-> IF s.new[c] # s.old[c] THEN s.new[c] ELSE @[c]],
              !.old = s.new,
              !.tx = s.x, !.ty = TerminalLine(s.y)]

screen_clear(s, line1, line2) ==
    LET cleared == {c \in Cells : LineOf(c) \in line1..line2}
    IN  screen_reflush(
          [s EXCEPT !.new = [c \in Cells |-> IF c \in cleared THEN SP ELSE @[c]],
                    !.old = [c \in Cells |-> IF c \in cleared THEN NUL ELSE @[c]],
                    !.x = 0, !.y = 0])

\* The buffers were filled with '0' by _start; vt100_clear empties the terminal.
init_screen ==
    screen_clear([new |-> [c \in Cells |-> "0"], old |-> [c \in Cells |-> "0"],
                  term |-> [c \in Cells |-> SP], x |-> 0, y |-> 0, tx |-> 0, ty |-> 0],
                 0, SCREEN_HEIGHT - 1)
=============================================================================
