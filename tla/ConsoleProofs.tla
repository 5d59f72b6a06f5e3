---------------------------- MODULE ConsoleProofs ----------------------------
(***************************************************************************)
(* Proofs about the screen, the shell and the programs, for any size of the  *)
(* screen, any number of programs and anything that may be typed.            *)
(*                                                                           *)
(* The first part says what each operation of drivers/screen.c does to the   *)
(* buffers and the cursor; the second has the inductive invariant: Types,    *)
(* where every process writes next (Writers), what the terminal shows        *)
(* (Shown), and how the command buffer and the shell's place follow from     *)
(* the line it read (Typed).                                                 *)
(***************************************************************************)
EXTENDS Console, FiniteSetTheorems, WellFoundedInduction, TLAPS

\* What may be in a buffer: what is typed, what the shell and the programs print,
\* and what the screen is filled with.
Chars == Keys \cup {SP, NUL, NL, BS, CR, Raw, "0", Divider, Prompt, "e", "k", "!", "h", "?",
                    ".", "a", "b"}
Buffers == [Cells -> Chars]
Screens == [new : Buffers, old : Buffers, term : Buffers, x : Int, y : Int, tx : Int, ty : Int]

\* The cursor is on the screen.
Inside(s) == s.x \in Columns /\ s.y \in Lines

\* Below the screen, as far as the table of ps takes the cursor.
Beneath(s) == s.x = 0 /\ s.y \in SCREEN_HEIGHT..(SCREEN_HEIGHT + NUM_MAX_TASK - 1)

\* What old_screen remembers is on the terminal, but for the prompt after ps.
Faithful(s) ==
    \A c \in Cells : s.old[c] # NUL =>
        s.term[c] \in {s.old[c], Raw} \/ Overwritten(c, s.old[c])

\* From s to t the buffer has changed on these lines only.
ChangesOn(s, t, lines) == \A c \in Cells : t.new[c] # s.new[c] => LineOf(c) \in lines

-----------------------------------------------------------------------------
(***************************************************************************)
(* The operations of drivers/screen.c.                                      *)
(***************************************************************************)

\* The index y * SCREEN_WIDTH + x of the code is a cell of line y.
LEMMA CellOnLine ==
    ASSUME NEW x \in Columns, NEW y \in Int
    PROVE  At(x, y) \in Int /\ LineOf(At(x, y)) = y
<1>1. SCREEN_WIDTH \in Nat \ {0}
  BY ScreenAssumption
<1>2. At(x, y) \in Int /\ x \in 0..(SCREEN_WIDTH - 1)
  BY <1>1 DEF At, Columns
<1>3. (y * SCREEN_WIDTH + x) \div SCREEN_WIDTH = y
  BY <1>1, <1>2, SMTT(60)
<1>4. QED
  BY <1>2, <1>3 DEF At, LineOf

\* A place of the screen has a cell.
LEMMA CellAt ==
    ASSUME NEW x \in Columns, NEW y \in Lines
    PROVE  At(x, y) \in Cells
<1>1. SCREEN_WIDTH \in Nat /\ SCREEN_HEIGHT \in Nat
  BY ScreenAssumption
<1>2. x \in Nat /\ x < SCREEN_WIDTH /\ y \in Nat /\ y + 1 <= SCREEN_HEIGHT
  BY <1>1 DEF Columns, Lines
<1>3. PICK d \in Nat : SCREEN_HEIGHT = (y + 1) + d
  <2>1. SCREEN_HEIGHT - (y + 1) \in Nat /\ SCREEN_HEIGHT = (y + 1) + (SCREEN_HEIGHT - (y + 1))
    BY <1>1, <1>2
  <2>2. QED
    BY <2>1
<1>4. d * SCREEN_WIDTH \in Nat /\ y * SCREEN_WIDTH \in Nat
  BY <1>1, <1>2, <1>3, SMTT(60)
<1>5. SCREEN_HEIGHT * SCREEN_WIDTH = y * SCREEN_WIDTH + SCREEN_WIDTH + d * SCREEN_WIDTH
  BY <1>1, <1>2, <1>3, SMTT(60)
<1>6. QED
  BY <1>1, <1>2, <1>4, <1>5 DEF At, Cells

\* The line of a cell is a line of the screen.
LEMMA LineOfCell ==
    ASSUME NEW c \in Cells
    PROVE  LineOf(c) \in Lines
<1>1. SCREEN_WIDTH \in Nat \ {0} /\ SCREEN_HEIGHT \in Nat \ {0}
  BY ScreenAssumption
<1>2. c \in Nat /\ c < SCREEN_HEIGHT * SCREEN_WIDTH
  BY <1>1 DEF Cells
<1>3. c \div SCREEN_WIDTH \in Int /\ c \div SCREEN_WIDTH >= 0 /\ c \div SCREEN_WIDTH < SCREEN_HEIGHT
  BY <1>1, <1>2, SMTT(60)
<1>4. QED
  BY <1>1, <1>3 DEF LineOf, Lines

\* The sizes: the lines of the programs are above the ones that scroll, and
\* the shell's among them.
LEMMA Sizes ==
    /\ SCREEN_WIDTH \in Nat /\ SCREEN_WIDTH >= 2
    /\ SCREEN_HEIGHT \in Nat /\ ScrollFirst \in Nat /\ SHELL_START_LINE \in Nat
    /\ 3 <= ScrollFirst /\ ScrollFirst <= SHELL_START_LINE /\ SHELL_START_LINE <= SCREEN_HEIGHT - 2
BY ScreenAssumption, ConsoleAssumption DEF ScrollFirst

\* An update of the buffer and the cursor.
Updated(s, n, x, y) == [s EXCEPT !.new = n, !.x = x, !.y = y]

\* Its fields.
LEMMA UpdateFields ==
    ASSUME NEW s \in Screens, NEW n \in Buffers, NEW x \in Int, NEW y \in Int
    PROVE  LET t == Updated(s, n, x, y)
           IN  /\ t \in Screens /\ t.new = n /\ t.x = x /\ t.y = y
               /\ t.old = s.old /\ t.term = s.term /\ t.tx = s.tx /\ t.ty = s.ty
<1> DEFINE t == Updated(s, n, x, y)
<1>1. /\ t.new = n /\ t.x = x /\ t.y = y
      /\ t.old = s.old /\ t.term = s.term /\ t.tx = s.tx /\ t.ty = s.ty
  BY DEF Screens, Updated
<1>2. t \in Screens
  BY DEF Screens, Updated
<1>3. QED
  BY <1>1, <1>2

\* A character stored at the cursor changes the cursor's line.
LEMMA StoreOnLine ==
    ASSUME NEW s \in Screens, NEW x \in Columns, s.y \in Int, NEW ch \in Chars, NEW t,
           t.new = [s.new EXCEPT ![At(x, s.y)] = ch]
    PROVE  t.new \in Buffers /\ ChangesOn(s, t, {s.y})
<1>1. s.new \in Buffers
  BY DEF Screens
<1>2. t.new \in Buffers
  BY <1>1 DEF Buffers
<1>3. ASSUME NEW c \in Cells, t.new[c] # s.new[c] PROVE LineOf(c) = s.y
  <2>1. c = At(x, s.y)
    BY <1>1, <1>3 DEF Buffers
  <2>2. QED
    BY <2>1, CellOnLine
<1>4. QED
  BY <1>2, <1>3 DEF ChangesOn

\* A store at a place of the screen is one in new_screen.
LEMMA StoredInside ==
    ASSUME NEW s \in Screens, NEW x \in Columns, s.y \in Lines, NEW ch
    PROVE  Stored(s, At(x, s.y), ch) = [s EXCEPT !.new[At(x, s.y)] = ch]
BY CellAt DEF Stored

\* What screen_write_ch does before it looks at the line: it stores on the line
\* of the cursor, and the cursor stays within the columns and goes down by one
\* line at most.
LEMMA PutChDoes ==
    ASSUME NEW s \in Screens, Inside(s), NEW ch \in Chars, NEW t, t = PutCh(s, ch)
    PROVE  /\ t \in Screens
           /\ t.old = s.old /\ t.term = s.term /\ t.tx = s.tx /\ t.ty = s.ty
           /\ t.x \in Columns /\ t.y \in s.y..(s.y + 1)
           /\ ch = CR => t.x = 0
           /\ ChangesOn(s, t, {s.y})
<1> USE Sizes
<1>1. s.x \in Int /\ 0 <= s.x /\ s.x < SCREEN_WIDTH /\ s.y \in Int /\ s.new \in Buffers
  BY DEF Inside, Columns, Lines, Screens
<1> DEFINE down == [s EXCEPT !.x = 0, !.y = @ + 1]
           back == [s EXCEPT !.x = @ - 1, !.new[At(s.x - 1, s.y)] = SP]
           put  == [s EXCEPT !.x = @ + 1, !.new[At(s.x, s.y)] = ch]
           wrap == [put EXCEPT !.x = 0, !.y = @ + 1]
<1>2. CASE ch \in {NL, CR}
  <2>1. t = IF down.x >= SCREEN_WIDTH THEN [down EXCEPT !.x = 0, !.y = @ + 1] ELSE down
    BY <1>2 DEF PutCh, NL, CR, BS
  <2>2. down = Updated(s, s.new, 0, s.y + 1)
    BY DEF Screens, Updated
  <2>3. down.x = 0
    BY DEF Screens
  <2>4. t = down
    BY <2>1, <2>3
  <2> HIDE DEF down
  <2>5. QED
    BY <1>1, <2>2, <2>4, UpdateFields DEF Columns, ChangesOn
<1>3. CASE ch = BS /\ s.x = 0
  <2>1. t = IF s.x >= SCREEN_WIDTH THEN [s EXCEPT !.x = 0, !.y = @ + 1] ELSE s
    BY <1>3 DEF PutCh, NL, CR, BS
  <2>2. t = s
    BY <1>1, <2>1
  <2>3. QED
    BY <1>1, <1>3, <2>2 DEF Inside, ChangesOn
<1>4. CASE ch = BS /\ s.x # 0
  <2>1. s.x - 1 \in Columns
    BY <1>1, <1>4 DEF Columns
  <2>2. t = IF back.x >= SCREEN_WIDTH THEN [back EXCEPT !.x = 0, !.y = @ + 1] ELSE back
    <3>1. Stored(s, At(s.x - 1, s.y), SP) = [s EXCEPT !.new[At(s.x - 1, s.y)] = SP]
      BY <2>1, StoredInside DEF Inside
    <3>2. back = [[s EXCEPT !.new[At(s.x - 1, s.y)] = SP] EXCEPT !.x = @ - 1]
      BY DEF Screens
    <3> HIDE DEF back
    <3>3. QED
      BY <1>4, <3>1, <3>2 DEF PutCh, NL, CR, BS
  <2> DEFINE n == [s.new EXCEPT ![At(s.x - 1, s.y)] = SP]
  <2>3. n \in Buffers
    BY <1>1 DEF Buffers, Chars
  <2>4. back = Updated(s, n, s.x - 1, s.y)
    BY DEF Screens, Updated
  <2> HIDE DEF n, back
  <2>5. /\ back \in Screens /\ back.new = n /\ back.old = s.old /\ back.term = s.term
        /\ back.tx = s.tx /\ back.ty = s.ty /\ back.x = s.x - 1 /\ back.y = s.y
    BY <1>1, <2>3, <2>4, UpdateFields
  <2>6. ChangesOn(s, back, {s.y})
    <3>1. SP \in Chars
      BY DEF Chars
    <3> USE DEF n
    <3>2. QED
      BY <1>1, <2>1, <2>5, <3>1, StoreOnLine
  <2>7. t = back
    BY <1>1, <2>2, <2>5
  <2>8. ch # CR
    BY <1>4 DEF BS, CR
  <2>9. QED
    BY <1>1, <2>1, <2>5, <2>6, <2>7, <2>8
<1>5. CASE ch \notin {NL, CR, BS}
  <2>1. t = IF put.x >= SCREEN_WIDTH THEN wrap ELSE put
    <3>1. Stored(s, At(s.x, s.y), ch) = [s EXCEPT !.new[At(s.x, s.y)] = ch]
      BY StoredInside DEF Inside
    <3>2. put = [[s EXCEPT !.new[At(s.x, s.y)] = ch] EXCEPT !.x = @ + 1]
      BY DEF Screens
    <3> HIDE DEF put
    <3>3. QED
      BY <1>5, <3>1, <3>2 DEF PutCh
  <2> DEFINE n == [s.new EXCEPT ![At(s.x, s.y)] = ch]
  <2>2. n \in Buffers
    BY <1>1 DEF Buffers
  <2>3. put = Updated(s, n, s.x + 1, s.y)
    BY DEF Screens, Updated
  <2> HIDE DEF n, put
  <2>4. /\ put \in Screens /\ put.new = n /\ put.old = s.old /\ put.term = s.term
        /\ put.tx = s.tx /\ put.ty = s.ty /\ put.x = s.x + 1 /\ put.y = s.y
    BY <1>1, <2>2, <2>3, UpdateFields
  <2>5. wrap = Updated(put, put.new, 0, put.y + 1)
    BY <2>4 DEF Screens, Updated
  <2> HIDE DEF wrap
  <2>6. /\ wrap \in Screens /\ wrap.new = n /\ wrap.old = s.old /\ wrap.term = s.term
        /\ wrap.tx = s.tx /\ wrap.ty = s.ty /\ wrap.x = 0 /\ wrap.y = s.y + 1
    BY <1>1, <2>2, <2>4, <2>5, UpdateFields
  <2>7. t \in {put, wrap} /\ t.new = n
    BY <2>1, <2>4, <2>6
  <2>8. s.x \in Columns
    BY DEF Inside
  <2>9. ChangesOn(s, t, {s.y})
    <3> USE DEF n
    <3> QED BY <1>1, <2>7, <2>8, StoreOnLine
  <2>10. t.x \in Columns
    BY <1>1, <2>1, <2>4, <2>6 DEF Columns
  <2>11. QED
    BY <1>1, <1>5, <2>4, <2>6, <2>7, <2>9, <2>10
<1>6. QED
  BY <1>2, <1>3, <1>4, <1>5

\* A character that is printed where there is room on the line.
LEMMA PutChPrints ==
    ASSUME NEW s \in Screens, NEW ch, ch \notin {NL, CR, BS}, s.x + 1 < SCREEN_WIDTH, NEW t,
           t = PutCh(s, ch)
    PROVE  /\ t = [Stored(s, At(s.x, s.y), ch) EXCEPT !.x = s.x + 1]
           /\ t.x = s.x + 1 /\ t.y = s.y
<1> DEFINE u == Stored(s, At(s.x, s.y), ch)
           v == [u EXCEPT !.x = s.x + 1]
<1>1. u.x = s.x /\ v.x = s.x + 1 /\ v.y = s.y
  BY DEF Stored, Screens
<1>2. t = IF v.x >= SCREEN_WIDTH THEN [v EXCEPT !.x = 0, !.y = @ + 1] ELSE v
  <2>1. v = [u EXCEPT !.x = @ + 1]
    BY <1>1
  <2> HIDE DEF u, v
  <2>2. QED
    BY <2>1 DEF PutCh, u
<1>3. s.x \in Int /\ SCREEN_WIDTH \in Int
  BY Sizes DEF Screens
<1> HIDE DEF v
<1>4. t = v
  BY <1>1, <1>2, <1>3
<1>5. QED
  BY <1>1, <1>4 DEF v

\* Below a cell that is not on the last line there is another one.
LEMMA CellBelow ==
    ASSUME NEW c \in Cells, LineOf(c) # SCREEN_HEIGHT - 1
    PROVE  c + SCREEN_WIDTH \in Cells
<1>1. SCREEN_WIDTH \in Nat \ {0} /\ SCREEN_HEIGHT \in Nat \ {0}
  BY ScreenAssumption
<1>2. c \in Nat /\ c < SCREEN_HEIGHT * SCREEN_WIDTH
  BY <1>1 DEF Cells
<1>3. c \div SCREEN_WIDTH \in Int /\ c \div SCREEN_WIDTH < SCREEN_HEIGHT - 1
  BY <1>1, LineOfCell DEF LineOf, Lines
<1>4. c < (SCREEN_HEIGHT - 1) * SCREEN_WIDTH
  BY <1>1, <1>2, <1>3, SMTT(60)
<1>5. c + SCREEN_WIDTH < SCREEN_HEIGHT * SCREEN_WIDTH
  BY <1>1, <1>2, <1>4, SMTT(60)
<1>6. SCREEN_HEIGHT * SCREEN_WIDTH \in Int
  BY <1>1
<1>7. QED
  BY <1>1, <1>2, <1>5, <1>6 DEF Cells

\* The first loop of screen_scroll: old_screen forgets these rows.
LEMMA ScrollOldDoes ==
    ASSUME NEW s \in Screens, NEW rows
    PROVE  LET t == scroll_old(s, rows)
           IN  /\ t \in Screens
               /\ t.new = s.new /\ t.term = s.term /\ t.x = s.x /\ t.y = s.y
               /\ t.tx = s.tx /\ t.ty = s.ty
               /\ Faithful(s) => Faithful(t)
<1> DEFINE t == scroll_old(s, rows)
           o == [c \in Cells |-> IF LineOf(c) \in rows THEN NUL ELSE s.old[c]]
<1>1. t = [s EXCEPT !.old = o]
  BY DEF scroll_old
<1>2. o \in Buffers
  BY DEF Screens, Buffers, Chars
<1>3. \A c \in Cells : o[c] \in {NUL, s.old[c]}
  OBVIOUS
<1> HIDE DEF t, o
<1>4. /\ t.old = o
      /\ t.new = s.new /\ t.term = s.term /\ t.x = s.x /\ t.y = s.y /\ t.tx = s.tx /\ t.ty = s.ty
  BY <1>1 DEF Screens
<1>5. t \in Screens
  BY <1>1, <1>2 DEF Screens
<1>6. Faithful(s) => Faithful(t)
  BY <1>3, <1>4 DEF Faithful
<1>7. QED
  BY <1>4, <1>5, <1>6 DEF t

\* The second loop: these rows change, and old_screen does not.
LEMMA ScrollNewDoes ==
    ASSUME NEW s \in Screens, NEW rows
    PROVE  LET t == scroll_new(s, rows)
           IN  /\ t \in Screens
               /\ t.old = s.old /\ t.term = s.term /\ t.x = s.x /\ t.y = s.y
               /\ t.tx = s.tx /\ t.ty = s.ty
               /\ ChangesOn(s, t, rows)
<1> DEFINE t == scroll_new(s, rows)
           n == [c \in Cells |-> IF LineOf(c) \notin rows THEN s.new[c]
                                 ELSE IF LineOf(c) = SCREEN_HEIGHT - 1 THEN SP
                                 ELSE s.new[c + SCREEN_WIDTH]]
<1>1. t = [s EXCEPT !.new = n]
  BY DEF scroll_new
<1>2. n \in Buffers
  <2>1. ASSUME NEW c \in Cells PROVE n[c] \in Chars
    <3>1. s.new \in Buffers /\ SP \in Chars
      BY DEF Screens, Chars
    <3>2. LineOf(c) # SCREEN_HEIGHT - 1 => c + SCREEN_WIDTH \in Cells
      BY CellBelow
    <3>3. QED
      BY <3>1, <3>2 DEF Buffers
  <2> HIDE DEF n
  <2>2. QED
    <3>1. n = [c \in Cells |-> n[c]]
      BY DEF n
    <3>2. QED
      BY <2>1, <3>1 DEF Buffers
<1>3. \A c \in Cells : n[c] # s.new[c] => LineOf(c) \in rows
  OBVIOUS
<1> HIDE DEF t, n
<1>4. /\ t.new = n
      /\ t.old = s.old /\ t.term = s.term /\ t.x = s.x /\ t.y = s.y /\ t.tx = s.tx /\ t.ty = s.ty
  BY <1>1 DEF Screens
<1>5. t \in Screens
  BY <1>1, <1>2 DEF Screens
<1>6. QED
  BY <1>3, <1>4, <1>5 DEF t, ChangesOn

\* The terminal's cursor goes to the line of the screen's, if there is one.
LEMMA TerminalLines ==
    ASSUME NEW y \in Int
    PROVE  /\ TerminalLine(y) \in Int
           /\ y \in 1..(SCREEN_HEIGHT - 1) => TerminalLine(y) = y
<1>1. SCREEN_HEIGHT \in Nat /\ TERMINAL_HEIGHT \in Nat /\ TERMINAL_HEIGHT >= SCREEN_HEIGHT
  BY ScreenAssumption
<1>2. QED
  BY <1>1 DEF TerminalLine

\* A refresh: the terminal shows the buffer, its cursor is the screen's, and the
\* buffer and the cursor stay.
LEMMA ReflushDoes ==
    ASSUME NEW s \in Screens
    PROVE  LET t == screen_reflush(s)
           IN  /\ t \in Screens /\ t.new = s.new /\ t.x = s.x /\ t.y = s.y
               /\ t.tx = s.x /\ t.ty = TerminalLine(s.y)
               /\ Faithful(s) => Faithful(t)
<1> DEFINE t == screen_reflush(s)
           m == [c \in Cells |-> IF s.new[c] # s.old[c] THEN s.new[c] ELSE s.term[c]]
<1>1. t = [s EXCEPT !.term = m, !.old = s.new, !.tx = s.x, !.ty = TerminalLine(s.y)]
  BY DEF screen_reflush
<1>2. m \in Buffers
  BY DEF Screens, Buffers
<1>3. \A c \in Cells : IF s.new[c] # s.old[c] THEN m[c] = s.new[c] ELSE m[c] = s.term[c]
  OBVIOUS
<1> HIDE DEF t, m
<1>4. /\ t.term = m /\ t.old = s.new /\ t.tx = s.x /\ t.ty = TerminalLine(s.y)
      /\ t.new = s.new /\ t.x = s.x /\ t.y = s.y
  BY <1>1 DEF Screens
<1>5. t \in Screens
  <2>1. s.y \in Int
    BY DEF Screens
  <2>2. TerminalLine(s.y) \in Int
    BY <2>1, TerminalLines
  <2>3. QED
    BY <1>1, <1>2, <2>2 DEF Screens
<1>6. Faithful(s) => Faithful(t)
  BY <1>3, <1>4 DEF Faithful
<1>7. QED
  BY <1>4, <1>5, <1>6 DEF t

\* The move of the cursor.
LEMMA MoveDoes ==
    ASSUME NEW s \in Screens, NEW x \in Int, NEW y \in Int
    PROVE  LET t == screen_move_cursor(s, x, y)
           IN  /\ t \in Screens /\ t.x = x /\ t.y = y
               /\ t.new = s.new /\ t.old = s.old /\ t.term = s.term /\ t.tx = s.tx /\ t.ty = s.ty
               /\ Faithful(s) => Faithful(t)
<1> DEFINE t == screen_move_cursor(s, x, y)
<1>1. /\ t.x = x /\ t.y = y
      /\ t.new = s.new /\ t.old = s.old /\ t.term = s.term /\ t.tx = s.tx /\ t.ty = s.ty
  BY DEF screen_move_cursor, Screens
<1>2. t \in Screens
  BY DEF screen_move_cursor, Screens
<1> HIDE DEF t
<1>3. QED
  BY <1>1, <1>2 DEF t, Faithful

\* A clear changes the lines it is given, and nothing that it leaves in
\* old_screen is wrong.
LEMMA ClearDoes ==
    ASSUME NEW s \in Screens, NEW line1 \in Int, NEW line2 \in Int
    PROVE  LET t == screen_clear(s, line1, line2)
           IN  /\ t \in Screens /\ t.x = 0 /\ t.y = 0
               /\ ChangesOn(s, t, line1..line2)
               /\ Faithful(s) \/ Lines \subseteq line1..line2 => Faithful(t)
<1> DEFINE cleared == {c \in Cells : LineOf(c) \in line1..line2}
           n == [c \in Cells |-> IF c \in cleared THEN SP ELSE s.new[c]]
           o == [c \in Cells |-> IF c \in cleared THEN NUL ELSE s.old[c]]
           r == [s EXCEPT !.new = n, !.old = o, !.x = 0, !.y = 0]
<1>1. screen_clear(s, line1, line2) = screen_reflush(r)
  BY DEF screen_clear
<1>2. n \in Buffers /\ o \in Buffers
  BY DEF Screens, Buffers, Chars
<1>3. \A c \in Cells : /\ n[c] # s.new[c] => LineOf(c) \in line1..line2
                       /\ o[c] \in {NUL, s.old[c]}
  OBVIOUS
<1> HIDE DEF n, o
<1>4. r.new = n /\ r.old = o /\ r.x = 0 /\ r.y = 0 /\ r.term = s.term
  BY DEF Screens
<1>5. r \in Screens
  <2> DEFINE u == [s EXCEPT !.old = o]
  <2>1. u \in Screens
    BY <1>2 DEF Screens
  <2>2. r = Updated(u, n, 0, 0)
    BY DEF Updated, Screens
  <2> HIDE DEF r, u
  <2>3. QED
    BY <1>2, <2>1, <2>2, UpdateFields
<1> HIDE DEF r
<1>6. Faithful(s) => Faithful(r)
  BY <1>3, <1>4 DEF Faithful
<1>7. Lines \subseteq line1..line2 => Faithful(r)
  <2>1. Lines \subseteq line1..line2 => \A c \in Cells : o[c] = NUL
    BY LineOfCell DEF o
  <2>2. QED
    BY <1>4, <2>1 DEF Faithful
<1>8. QED
  BY <1>1, <1>3, <1>4, <1>5, <1>6, <1>7, ReflushDoes DEF ChangesOn

\* The greatest index of a text of one or two characters, and of its parts.
LEMMA MaxIndex == Max({1}) = 1 /\ Max({2}) = 2 /\ Max({1, 2}) = 2
<1>1. Max({1}) = 1
  BY DEF Max
<1>2. Max({2}) = 2
  BY DEF Max
<1>3. Max({1, 2}) = 2
  BY DEF Max
<1>4. QED
  BY <1>1, <1>2, <1>3

\* screen_write for a text of one character.
LEMMA WriteOne ==
    ASSUME NEW s, NEW a
    PROVE  screen_write(s, <<a>>) = screen_write_ch(s, a)
<1> DEFINE D == DOMAIN <<a>>
           Rec(f) == [t \in SUBSET D |->
                        IF t = {} THEN s
                        ELSE screen_write_ch(f[t \ {Max(t)}], <<a>>[Max(t)])]
           Fold == CHOOSE f : f = Rec(f)
<1>1. screen_write(s, <<a>>) = Fold[D]
  BY DEF screen_write, FoldLeft, MapThenFoldSet
<1>2. D = {1}
  OBVIOUS
<1>3. Fold = Rec(Fold)
  <2> DEFINE F == [t \in SUBSET D |-> IF t = {} THEN s ELSE screen_write_ch(s, a)]
  <2>1. F = Rec(F)
    <3>1. ASSUME NEW t \in SUBSET D PROVE F[t] = Rec(F)[t]
      <4>1. t = {} \/ t = {1}
        BY <1>2
      <4>2. CASE t = {}
        BY <4>2
      <4>3. CASE t = {1}
        <5>1. t \ {Max(t)} = {}
          BY <4>3, MaxIndex
        <5>2. F[{}] = s /\ <<a>>[Max(t)] = a
          BY <4>3, MaxIndex
        <5>3. QED
          BY <4>3, <5>1, <5>2
      <4>4. QED
        BY <4>1, <4>2, <4>3
    <3>2. QED
      BY <3>1
  <2> HIDE DEF F, Rec
  <2>2. \E f : f = Rec(f)
    BY <2>1
  <2>3. QED
    BY <2>2
<1> HIDE DEF Fold
<1>4. Fold[{}] = s
  BY <1>3
<1>5. Fold[{1}] = screen_write_ch(Fold[{}], a)
  <2>1. {1} \in SUBSET D /\ {1} # {}
    BY <1>2
  <2>2. Fold[{1}] = screen_write_ch(Fold[{1} \ {Max({1})}], <<a>>[Max({1})])
    BY <1>3, <2>1
  <2>3. {1} \ {Max({1})} = {} /\ <<a>>[Max({1})] = a
    BY MaxIndex
  <2>4. QED
    BY <2>2, <2>3
<1>6. QED
  BY <1>1, <1>2, <1>4, <1>5

\* screen_write for a text of two characters.
LEMMA WriteTwo ==
    ASSUME NEW s, NEW a, NEW b
    PROVE  screen_write(s, <<a, b>>) = screen_write_ch(screen_write_ch(s, a), b)
<1> DEFINE D == DOMAIN <<a, b>>
           Rec(f) == [t \in SUBSET D |->
                        IF t = {} THEN s
                        ELSE screen_write_ch(f[t \ {Max(t)}], <<a, b>>[Max(t)])]
           Fold == CHOOSE f : f = Rec(f)
<1>1. screen_write(s, <<a, b>>) = Fold[D]
  BY DEF screen_write, FoldLeft, MapThenFoldSet
<1>2. D = {1, 2}
  OBVIOUS
<1>3. Fold = Rec(Fold)
  <2> DEFINE F == [t \in SUBSET D |->
                     IF t = {} THEN s
                     ELSE IF t = {1} THEN screen_write_ch(s, a)
                     ELSE IF t = {2} THEN screen_write_ch(s, b)
                     ELSE screen_write_ch(screen_write_ch(s, a), b)]
  <2>1. F = Rec(F)
    <3>1. ASSUME NEW t \in SUBSET D PROVE F[t] = Rec(F)[t]
      <4>1. t = {} \/ t = {1} \/ t = {2} \/ t = {1, 2}
        BY <1>2
      <4>2. CASE t = {}
        BY <4>2
      <4>3. CASE t = {1}
        <5>1. t \ {Max(t)} = {} /\ {1} # {}
          BY <4>3, MaxIndex
        <5>2. F[{}] = s /\ <<a, b>>[Max(t)] = a
          BY <4>3, MaxIndex
        <5>3. QED
          BY <4>3, <5>1, <5>2
      <4>4. CASE t = {2}
        <5>1. t \ {Max(t)} = {} /\ {2} # {} /\ {2} # {1}
          BY <4>4, MaxIndex
        <5>2. F[{}] = s /\ <<a, b>>[Max(t)] = b
          BY <4>4, MaxIndex
        <5>3. QED
          BY <4>4, <5>1, <5>2
      <4>5. CASE t = {1, 2}
        <5>1. t \ {Max(t)} = {1} /\ {1, 2} # {} /\ {1, 2} # {1} /\ {1, 2} # {2} /\ {1} # {}
          BY <4>5, MaxIndex
        <5>2. {1} \in SUBSET D
          BY <1>2
        <5>3. F[{1}] = screen_write_ch(s, a) /\ <<a, b>>[Max(t)] = b
          BY <4>5, <5>1, <5>2, MaxIndex
        <5>4. QED
          BY <4>5, <5>1, <5>3
      <4>6. QED
        BY <4>1, <4>2, <4>3, <4>4, <4>5
    <3>2. QED
      BY <3>1
  <2> HIDE DEF F, Rec
  <2>2. \E f : f = Rec(f)
    BY <2>1
  <2>3. QED
    BY <2>2
<1> HIDE DEF Fold
<1>4. Fold[{}] = s
  BY <1>3
<1>5. Fold[{1}] = screen_write_ch(Fold[{}], a)
  <2>1. {1} \in SUBSET D /\ {1} # {}
    BY <1>2
  <2>2. Fold[{1}] = screen_write_ch(Fold[{1} \ {Max({1})}], <<a, b>>[Max({1})])
    BY <1>3, <2>1
  <2>3. {1} \ {Max({1})} = {} /\ <<a, b>>[Max({1})] = a
    BY MaxIndex
  <2>4. QED
    BY <2>2, <2>3
<1>6. Fold[{1, 2}] = screen_write_ch(Fold[{1}], b)
  <2>1. {1, 2} \in SUBSET D /\ {1, 2} # {} /\ {1, 2} \ {2} = {1} /\ Max({1, 2}) = 2 /\ <<a, b>>[2] = b
    BY <1>2, MaxIndex
  <2> HIDE DEF D
  <2>2. QED
    BY <1>3, <2>1
<1>7. QED
  BY <1>1, <1>2, <1>4, <1>5, <1>6

\* A scroll, and the cursor at the beginning of the last line.
LEMMA ScrollDoes ==
    ASSUME NEW u \in Screens
    PROVE  LET t == BottomLine(screen_scroll(u))
           IN  /\ t \in Screens /\ Inside(t) /\ t.y >= ScrollFirst
               /\ Faithful(u) => Faithful(t)
               /\ ChangesOn(u, t, ScrollRange)
<1> USE Sizes
<1> DEFINE v == scroll_old(u, ScrollRange)
           w == scroll_new(v, ScrollRange)
           t == BottomLine(screen_scroll(u))
<1>1. t = BottomLine(w)
  BY DEF screen_scroll
<1> HIDE DEF t
<1>2. v \in Screens /\ v.new = u.new /\ (Faithful(u) => Faithful(v))
  BY ScrollOldDoes
<1> HIDE DEF v
<1>3. w \in Screens /\ w.old = v.old /\ w.term = v.term /\ ChangesOn(v, w, ScrollRange)
  BY <1>2, ScrollNewDoes
<1> HIDE DEF w
<1>4. w.new \in Buffers
  BY <1>3 DEF Screens
<1>5. t = Updated(w, w.new, 0, SCREEN_HEIGHT - 1)
  BY <1>1, <1>3 DEF BottomLine, Updated, Screens
<1>6. t \in Screens /\ t.new = w.new /\ t.x = 0 /\ t.y = SCREEN_HEIGHT - 1 /\ t.old = w.old /\ t.term = w.term
  BY <1>3, <1>4, <1>5, UpdateFields
<1>7. Faithful(u) => Faithful(t)
  BY <1>2, <1>3, <1>6 DEF Faithful
<1>8. ChangesOn(u, t, ScrollRange)
  BY <1>2, <1>3, <1>6 DEF ChangesOn
<1>9. QED
  BY <1>6, <1>7, <1>8 DEF Inside, Lines, Columns, t

\* What screen_write_ch does: the cursor stays on the screen, and on the lines
\* that scroll once it is there; a scroll leaves nothing wrong in old_screen.
LEMMA WriteChDoes ==
    ASSUME NEW s \in Screens, Inside(s), NEW ch \in Chars
    PROVE  LET t == screen_write_ch(s, ch)
           IN  /\ t \in Screens /\ Inside(t)
               /\ Faithful(s) => Faithful(t)
               /\ s.y >= ScrollFirst => t.y >= ScrollFirst /\ ChangesOn(s, t, ScrollRange)
<1> USE Sizes
<1> DEFINE u == PutCh(s, ch)
           w == BottomLine(screen_scroll(u))
           t == screen_write_ch(s, ch)
<1>1. /\ u \in Screens /\ u.old = s.old /\ u.term = s.term /\ u.x \in Columns /\ u.y \in s.y..(s.y + 1)
      /\ ChangesOn(s, u, {s.y})
  <2> HIDE DEF u
  <2>1. u = PutCh(s, ch)
    BY DEF u
  <2>2. QED
    BY <2>1, PutChDoes
<1>2. t = IF u.y >= SCREEN_HEIGHT THEN w ELSE u
  BY DEF screen_write_ch, PastBottom
<1> HIDE DEF u, t
<1>3. s.y \in Int /\ s.y < SCREEN_HEIGHT /\ 0 <= s.y
  BY DEF Inside, Lines
<1>4. Faithful(s) => Faithful(u)
  BY <1>1 DEF Faithful
<1>5. s.y >= ScrollFirst => ChangesOn(s, u, ScrollRange)
  BY <1>1, <1>3 DEF ChangesOn, ScrollRange
<1>6. CASE ~(u.y >= SCREEN_HEIGHT)
  BY <1>1, <1>2, <1>3, <1>4, <1>5, <1>6 DEF Inside, Lines, t
<1>7. CASE u.y >= SCREEN_HEIGHT
  <2>1. /\ w \in Screens /\ Inside(w) /\ w.y >= ScrollFirst
        /\ Faithful(u) => Faithful(w)
        /\ ChangesOn(u, w, ScrollRange)
    BY <1>1, ScrollDoes
  <2> HIDE DEF w
  <2>2. s.y >= ScrollFirst => ChangesOn(s, w, ScrollRange)
    BY <1>5, <2>1 DEF ChangesOn
  <2>3. QED
    BY <1>2, <1>4, <1>7, <2>1, <2>2 DEF t
<1>8. QED
  BY <1>6, <1>7 DEF t

\* The sign of the prompt after a table of ps that reaches below the screen: it is
\* stored in old_screen, in a cell of PromptCells, and the screen scrolls.
LEMMA PromptWritten ==
    ASSUME NEW s \in Screens, Beneath(s)
    PROVE  LET t == screen_write_ch(s, Prompt)
           IN  /\ t \in Screens /\ Inside(t) /\ t.y >= ScrollFirst
               /\ Faithful(s) => Faithful(t)
               /\ ChangesOn(s, t, ScrollRange)
<1> USE Sizes
<1> DEFINE d == s.y - SCREEN_HEIGHT
           o == [s.old EXCEPT ![At(0, d)] = Prompt]
           u == PutCh(s, Prompt)
           t == screen_write_ch(s, Prompt)
<1>1. /\ s.x = 0 /\ s.y \in Int /\ s.y >= SCREEN_HEIGHT /\ NUM_MAX_TASK \in Nat
      /\ d \in Nat /\ d \in 0..(NUM_MAX_TASK - 1) /\ d \in Lines
  BY ConsoleAssumption DEF Beneath, Lines
<1>2. At(0, s.y) = At(0, d) + SCREEN_HEIGHT * SCREEN_WIDTH
  <2>1. s.y = d + SCREEN_HEIGHT
    BY <1>1
  <2> HIDE DEF d
  <2>2. (d + SCREEN_HEIGHT) * SCREEN_WIDTH = d * SCREEN_WIDTH + SCREEN_HEIGHT * SCREEN_WIDTH
    BY <1>1, SMTT(60)
  <2>3. d * SCREEN_WIDTH \in Int /\ SCREEN_HEIGHT * SCREEN_WIDTH \in Int
    BY <1>1
  <2>4. QED
    BY <2>1, <2>2, <2>3 DEF At
<1> HIDE DEF d
<1>3. At(0, d) \in Cells /\ At(0, d) \in PromptCells
  <2>1. 0 \in Columns
    BY DEF Columns
  <2>2. QED
    BY <1>1, <2>1, CellAt DEF PromptCells
<1>4. /\ At(0, d) \in Int /\ At(0, d) >= 0 /\ SCREEN_HEIGHT * SCREEN_WIDTH \in Int
      /\ At(0, s.y) \notin Cells /\ At(0, s.y) - SCREEN_HEIGHT * SCREEN_WIDTH = At(0, d)
  <2>1. SCREEN_HEIGHT * SCREEN_WIDTH \in Int
    OBVIOUS
  <2>2. QED
    BY <1>2, <1>3, <2>1 DEF Cells
<1>5. Stored(s, At(s.x, s.y), Prompt) = [s EXCEPT !.old = o]
  BY <1>1, <1>4 DEF Stored
<1>6. o \in Buffers /\ \A c \in Cells : o[c] = s.old[c] \/ Overwritten(c, o[c])
  <2>1. s.old \in Buffers /\ Prompt \in Chars
    BY DEF Screens, Chars
  <2>2. QED
    BY <1>3, <2>1 DEF Buffers, Overwritten
<1> HIDE DEF o
<1>7. u = [[s EXCEPT !.old = o] EXCEPT !.x = s.x + 1] /\ u.y = s.y
  <2>1. Prompt \notin {NL, CR, BS}
    BY DEF Prompt, NL, CR, BS
  <2>2. s.x + 1 < SCREEN_WIDTH
    BY <1>1
  <2>3. u = PutCh(s, Prompt)
    OBVIOUS
  <2> HIDE DEF u
  <2>4. u = [Stored(s, At(s.x, s.y), Prompt) EXCEPT !.x = s.x + 1] /\ u.y = s.y
    BY <2>1, <2>2, <2>3, PutChPrints
  <2>5. QED
    BY <1>5, <2>4
<1> HIDE DEF u
<1>8. u.new = s.new /\ u.old = o /\ u.term = s.term
  BY <1>7 DEF Screens
<1>9. u \in Screens
  <2> DEFINE one == s.x + 1
  <2>1. one \in Int
    BY <1>1
  <2> HIDE DEF one
  <2>2. u = [[s EXCEPT !.old = o] EXCEPT !.x = one]
    BY <1>7 DEF one
  <2>3. QED
    BY <1>6, <2>1, <2>2 DEF Screens
<1>10. Faithful(s) => Faithful(u)
  BY <1>6, <1>8 DEF Faithful
<1>11. t = BottomLine(screen_scroll(u))
  BY <1>1, <1>7 DEF screen_write_ch, PastBottom, u
<1> HIDE DEF t
<1>12. /\ t \in Screens /\ Inside(t) /\ t.y >= ScrollFirst
       /\ Faithful(u) => Faithful(t)
       /\ ChangesOn(u, t, ScrollRange)
  BY <1>9, <1>11, ScrollDoes
<1>13. ChangesOn(s, t, ScrollRange)
  BY <1>8, <1>12 DEF ChangesOn
<1>14. QED
  BY <1>10, <1>12, <1>13 DEF t

\* printf of the shell: one or two characters.
LEMMA ShellWrites ==
    ASSUME NEW s \in Screens, Inside(s), NEW a \in Chars, NEW b \in Chars,
           NEW text \in {<<a>>, <<a, b>>}
    PROVE  LET t == screen_write(s, text)
           IN  /\ t \in Screens /\ Inside(t)
               /\ Faithful(s) => Faithful(t)
               /\ s.y >= ScrollFirst => t.y >= ScrollFirst /\ ChangesOn(s, t, ScrollRange)
<1> DEFINE u == screen_write_ch(s, a)
           t == screen_write_ch(u, b)
<1>1. /\ u \in Screens /\ Inside(u)
      /\ Faithful(s) => Faithful(u)
      /\ s.y >= ScrollFirst => u.y >= ScrollFirst /\ ChangesOn(s, u, ScrollRange)
  BY WriteChDoes
<1>2. CASE text = <<a>>
  BY <1>1, <1>2, WriteOne
<1>3. CASE text = <<a, b>>
  <2> HIDE DEF u
  <2>1. /\ t \in Screens /\ Inside(t)
        /\ Faithful(u) => Faithful(t)
        /\ u.y >= ScrollFirst => t.y >= ScrollFirst /\ ChangesOn(u, t, ScrollRange)
    BY <1>1, WriteChDoes
  <2>2. screen_write(s, text) = t
    BY <1>3, WriteTwo DEF u
  <2> HIDE DEF t
  <2>3. s.y >= ScrollFirst => ChangesOn(s, t, ScrollRange)
    BY <1>1, <2>1 DEF ChangesOn
  <2>4. QED
    BY <1>1, <2>1, <2>2, <2>3
<1>4. QED
  BY <1>2, <1>3

\* printf of a program at the beginning of its line, for which there is room: no
\* other line changes, and the cursor stays on the screen.
LEMMA ProgramWrites ==
    ASSUME NEW s \in Screens, s.x = 0, s.y \in 0..(ScrollFirst - 1), NEW text \in {"a", "b"}
    PROVE  LET t == screen_write(s, <<Prompt, text>>)
           IN  /\ t \in Screens /\ Inside(t)
               /\ Faithful(s) => Faithful(t)
               /\ ChangesOn(s, t, {s.y})
<1> USE Sizes
<1> DEFINE u == PutCh(s, Prompt)
           t == PutCh(u, text)
<1>1. Prompt \in Chars /\ Prompt \notin {NL, CR, BS} /\ text \in Chars /\ text \notin {NL, CR, BS}
  BY DEF Chars, Prompt, NL, CR, BS
<1>2. Inside(s)
  BY DEF Inside, Columns, Lines
<1>3. /\ u \in Screens /\ u.old = s.old /\ u.term = s.term /\ ChangesOn(s, u, {s.y})
      /\ u.x = 1 /\ u.y = s.y
  <2>1. u = PutCh(s, Prompt)
    OBVIOUS
  <2> HIDE DEF u
  <2>2. u \in Screens /\ u.old = s.old /\ u.term = s.term /\ ChangesOn(s, u, {s.y})
    BY <1>1, <1>2, <2>1, PutChDoes
  <2>3. u.x = 1 /\ u.y = s.y
    BY <1>1, <2>1, PutChPrints
  <2>4. QED
    BY <2>2, <2>3
<1>4. screen_write_ch(s, Prompt) = u
  BY <1>3 DEF screen_write_ch, PastBottom
<1> HIDE DEF u
<1>5. Inside(u)
  BY <1>3 DEF Inside, Columns, Lines
<1>6. /\ t \in Screens /\ t.old = u.old /\ t.term = u.term /\ ChangesOn(u, t, {u.y})
      /\ t.x \in Columns /\ t.y \in u.y..(u.y + 1)
  <2>1. t = PutCh(u, text)
    OBVIOUS
  <2> HIDE DEF t
  <2>2. QED
    BY <1>1, <1>3, <1>5, <2>1, PutChDoes
<1>7. t.y \in Int /\ t.y < SCREEN_HEIGHT /\ t.y >= 0
  BY <1>3, <1>6
<1>8. screen_write_ch(u, text) = t
  BY <1>7 DEF screen_write_ch, PastBottom
<1>9. screen_write(s, <<Prompt, text>>) = t
  BY <1>4, <1>8, WriteTwo
<1> HIDE DEF t
<1>10. Inside(t)
  BY <1>6, <1>7 DEF Inside, Lines
<1>11. Faithful(s) => Faithful(t)
  BY <1>3, <1>6 DEF Faithful
<1>12. ChangesOn(s, t, {s.y})
  BY <1>3, <1>6 DEF ChangesOn
<1>13. QED
  BY <1>6, <1>9, <1>10, <1>11, <1>12

-----------------------------------------------------------------------------
(***************************************************************************)
(* The invariant.                                                           *)
(***************************************************************************)

\* The places of the shell: before and while it reads, within an echo, and
\* within a command.
Reading == {"start", "divider", "first_prompt", "read", "echo", "reflush", "command",
            "prompt", "prompt_reflush", "stopped"}
ScrollPlaces == {"scroll_old", "scroll_new", "scroll_end"}
Commands == {"ps", "clear", "clear_move", "exec", "spawn", "kill", "kill_call", "invalid",
             "help", "help_more", "unknown"}
Places == Reading \cup ScrollPlaces \cup Commands
Shells == [pc : Places, ch : Chars, buffer : [1..COMMAND_MAX_LEN -> Chars], p : Nat, para : Int,
           row : Int]
Progs == [lines : SUBSET (0..(ScrollFirst - 1)), pc : {"move", "print", "hello"}, text : {"a", "b"}]

Types ==
    /\ current_running \in Procs
    /\ alive \subseteq Procs /\ Shell \in alive
    /\ context \in [Procs -> {"user", "timer"}]
    /\ cursor \in [Procs -> Int \X Int]
    /\ screen \in Screens
    /\ keys \in Seq(Keys) /\ fifo \in Seq(Keys) /\ line \in Seq(Keys)
    /\ sh \in Shells
    /\ prog \in [Programs -> Progs]

\* Where everybody writes next: on the screen, but for a shell that is to
\* scroll or has shown the table; the shell on the lines that scroll once it has
\* moved there, and at the margin after an Enter; a program that is to print at
\* the beginning of one of its lines.
AfterEnter == sh.pc \in {"command", "ps"} \/ (sh.pc = "reflush" /\ sh.ch = CR)
AtHome(p) ==
    p = Shell => /\ sh.pc \notin {"start", "clear_move"} => Position(p)[2] >= ScrollFirst
                 /\ AfterEnter => Position(p)[1] = 0
AtLine(p) ==
    p \in Programs /\ prog[p].pc = "print" =>
        Position(p)[1] = 0 /\ Position(p)[2] \in prog[p].lines
Writers ==
    /\ CursorInside
    /\ \A p \in Procs : AtHome(p) /\ AtLine(p)
    /\ sh.pc \in ScrollPlaces => sh.row \in ScrollRange

\* What the terminal shows, and where its cursor is when the shell is about to
\* interpret a command: a shell that waits for the CPU then was interrupted, so
\* that it refreshes the screen as it comes back.
Shown ==
    /\ RefreshFaithful
    /\ sh.pc \in {"command", "ps"} =>
         IF Runs(Shell) THEN <<screen.tx, screen.ty>> = <<screen.x, screen.y>>
         ELSE context[Shell] = "timer"

\* The command buffer holds the line and nothing else, there is room for what
\* is still to come, and the place of the shell within a command says what
\* the line is.
Padded(s) == [n \in 1..COMMAND_MAX_LEN |-> IF n <= Len(s) THEN s[n] ELSE NUL]
HasParameter(name) ==
    line # <<>> /\ line[1] = name /\ sh.para >= 0 /\ Spells(Tail(line), sh.para)
Typed ==
    /\ Len(line) + Len(fifo) + Len(keys) < COMMAND_MAX_LEN
    /\ sh.p = Len(line) + 1 /\ sh.buffer = Padded(line)
    /\ sh.pc \in {"exec", "spawn"} => HasParameter("exec")
    /\ sh.pc \in {"kill", "kill_call"} => HasParameter("kill")
    /\ sh.pc \in {"ps", "clear", "help"} => line = <<sh.pc>>

Inv == Types /\ Writers /\ Shown /\ Typed

-----------------------------------------------------------------------------
(***************************************************************************)
(* The kernel's part.                                                       *)
(***************************************************************************)

\* An update of the terminal.
TerminalUpdated(s, m, x, y) == [s EXCEPT !.term = m, !.tx = x, !.ty = y]

\* It is a screen again.
LEMMA TerminalUpdate ==
    ASSUME NEW s \in Screens, NEW m \in Buffers, NEW x \in Int, NEW y \in Int
    PROVE  TerminalUpdated(s, m, x, y) \in Screens
BY DEF Screens, TerminalUpdated

\* printk() changes the terminal only.
LEMMA PrintkDoes ==
    ASSUME screen \in Screens, NEW lines, NEW down \in Int
    PROVE  LET t == printk(lines, down)
           IN  /\ t \in Screens /\ t.new = screen.new /\ t.x = screen.x /\ t.y = screen.y
               /\ Faithful(screen) => Faithful(t)
<1> DEFINE t == printk(lines, down)
           fits == screen.ty + down <= TERMINAL_HEIGHT
           m == [c \in Cells |-> IF ~fits \/ LineOf(c) \in lines THEN Raw ELSE screen.term[c]]
           y == IF fits THEN screen.ty + down ELSE TERMINAL_HEIGHT
<1>1. t = [screen EXCEPT !.term = m, !.tx = 0, !.ty = y]
  BY DEF printk
<1>2. m \in Buffers /\ y \in Int
  <2> HIDE DEF fits
  <2>1. m \in Buffers
    BY DEF Screens, Buffers, Chars
  <2>2. screen.ty + down \in Int /\ TERMINAL_HEIGHT \in Int
    BY ScreenAssumption DEF Screens
  <2>3. QED
    BY <2>1, <2>2
<1>3. \A c \in Cells : m[c] \in {Raw, screen.term[c]}
  <2> HIDE DEF fits
  <2> QED OBVIOUS
<1> HIDE DEF t, m, y
<1>4. t.term = m /\ t.old = screen.old /\ t.new = screen.new /\ t.x = screen.x /\ t.y = screen.y
  BY <1>1 DEF Screens
<1>5. t \in Screens
  <2>1. t = TerminalUpdated(screen, m, 0, y)
    BY <1>1 DEF TerminalUpdated
  <2>2. QED
    BY <1>2, <2>1, TerminalUpdate
<1>6. Faithful(screen) => Faithful(t)
  BY <1>3, <1>4 DEF Faithful
<1>7. QED
  BY <1>4, <1>5, <1>6 DEF t

\* There are finitely many processes.
LEMMA ProcessCount ==
    ASSUME alive \subseteq Procs
    PROVE  Cardinality(alive) \in Nat /\ Cardinality(alive) <= NUM_MAX_TASK - 1
<1>1. NUM_MAX_TASK \in Nat /\ NUM_MAX_TASK >= 2
  BY ConsoleAssumption
<1>2. Procs = 1..(NUM_MAX_TASK - 1)
  BY <1>1 DEF Procs, Programs, Shell
<1>3. IsFiniteSet(Procs) /\ Cardinality(Procs) = NUM_MAX_TASK - 1
  BY <1>1, <1>2, FS_Interval
<1>4. QED
  BY <1>3, FS_Subset, FS_CardinalityType

\* ps moves the screen's cursor down and leaves the buffers.
LEMMA ProcessShowDoes ==
    ASSUME screen \in Screens, alive \subseteq Procs
    PROVE  LET t == process_show
           IN  /\ t \in Screens /\ t.new = screen.new /\ t.x = screen.x
               /\ t.y = screen.y + Cardinality(alive) + 1
               /\ Faithful(screen) => Faithful(t)
<1> DEFINE n == Cardinality(alive)
           u == printk((screen.ty + 1)..(screen.ty + 1 + n), n + 3)
           t == process_show
<1>1. n \in Nat
  BY ProcessCount
<1>2. t = [u EXCEPT !.y = u.y + n + 1]
  BY DEF process_show
<1>3. /\ u \in Screens /\ u.new = screen.new /\ u.x = screen.x /\ u.y = screen.y
      /\ Faithful(screen) => Faithful(u)
  <2> HIDE DEF n
  <2> QED BY <1>1, PrintkDoes
<1> HIDE DEF n, u, t
<1>4. t.new = u.new /\ t.old = u.old /\ t.term = u.term /\ t.x = u.x /\ t.y = u.y + n + 1
  BY <1>2, <1>3 DEF Screens
<1>5. t \in Screens
  BY <1>1, <1>2, <1>3 DEF Screens
<1>6. Faithful(u) => Faithful(t)
  BY <1>4 DEF Faithful
<1>7. QED
  BY <1>3, <1>4, <1>5, <1>6 DEF t, n

\* A process that comes has its own cursor; if it was interrupted, the
\* terminal's cursor is its own, too.
LEMMA ComeBackDoes ==
    ASSUME NEW s \in Screens, NEW q, cursor'[q] \in Int \X Int
    PROVE  LET t == ComeBack(q, s)
           IN  /\ t \in Screens /\ t.new = s.new
               /\ <<t.x, t.y>> = cursor'[q]
               /\ context'[q] = "timer" => <<t.tx, t.ty>> = <<t.x, TerminalLine(t.y)>>
               /\ Faithful(s) => Faithful(t)
<1> DEFINE x == cursor'[q][1]
           y == cursor'[q][2]
           own == screen_move_cursor(s, x, y)
           new == screen_reflush(own)
<1>1. x \in Int /\ y \in Int /\ cursor'[q] = <<x, y>>
  OBVIOUS
<1>2. ComeBack(q, s) = IF context'[q] = "timer" THEN new ELSE own
  BY DEF ComeBack
<1> HIDE DEF x, y
<1>3. /\ own \in Screens /\ own.x = x /\ own.y = y /\ own.new = s.new
      /\ Faithful(s) => Faithful(own)
  BY <1>1, MoveDoes
<1> HIDE DEF own
<1>4. /\ new \in Screens /\ new.new = own.new /\ new.x = own.x /\ new.y = own.y
      /\ new.tx = own.x /\ new.ty = TerminalLine(own.y)
      /\ Faithful(own) => Faithful(new)
  BY <1>3, ReflushDoes
<1> HIDE DEF new
<1>5. QED
  BY <1>1, <1>2, <1>3, <1>4

\* What do_scheduler leaves to a process that is off the CPU.
LEMMA SwitchDoes ==
    ASSUME Types, alive' \subseteq Procs, NEW how \in {"user", "timer"}, NEW s \in Screens,
           s.x = screen.x, s.y = screen.y, do_scheduler(how, s)
    PROVE  /\ current_running' \in Procs
           /\ context'[Shell] = IF Runs(Shell) THEN how ELSE context[Shell]
           /\ context' \in [Procs -> {"user", "timer"}]
           /\ cursor' \in [Procs -> Int \X Int]
           /\ screen' \in Screens /\ screen'.new = s.new
           /\ Faithful(s) => Faithful(screen')
           /\ \A p \in Procs : Position(p)' = Position(p)
           /\ Runs(Shell)' /\ context'[Shell] = "timer" =>
                <<screen'.tx, screen'.ty>> = <<screen'.x, TerminalLine(screen'.y)>>
<1>1. /\ current_running \in Procs /\ context \in [Procs -> {"user", "timer"}]
      /\ cursor \in [Procs -> Int \X Int] /\ screen \in Screens /\ Shell \in alive /\ Shell \in Procs
  BY DEF Types, Procs
<1>2. /\ context' = NextContext(how)
      /\ cursor' = [cursor EXCEPT ![current_running] = <<screen.x, screen.y>>]
  BY DEF do_scheduler, LeaveCPU
<1>3. screen.x \in Int /\ screen.y \in Int
  BY <1>1 DEF Screens
<1>4. /\ context' \in [Procs -> {"user", "timer"}] /\ cursor' \in [Procs -> Int \X Int]
      /\ context'[Shell] = IF Runs(Shell) THEN how ELSE context[Shell]
  <2>1. cursor' \in [Procs -> Int \X Int]
    BY <1>1, <1>2, <1>3
  <2>2. context' \in [Procs -> {"user", "timer"}]
    BY <1>1, <1>2 DEF NextContext
  <2>3. context'[Shell] = IF Runs(Shell) THEN how ELSE context[Shell]
    BY <1>1, <1>2 DEF NextContext, Runs
  <2>4. QED
    BY <2>1, <2>2, <2>3
<1>5. PICK q \in alive' : current_running' = q /\ screen' = ComeBack(q, s)
  BY DEF do_scheduler
<1>6. q \in Procs /\ cursor'[q] \in Int \X Int
  BY <1>4, <1>5
<1>7. /\ screen' \in Screens /\ screen'.new = s.new
      /\ <<screen'.x, screen'.y>> = cursor'[q]
      /\ context'[q] = "timer" => <<screen'.tx, screen'.ty>> = <<screen'.x, TerminalLine(screen'.y)>>
      /\ Faithful(s) => Faithful(screen')
  BY <1>5, <1>6, ComeBackDoes
<1>8. ASSUME NEW p \in Procs PROVE Position(p)' = Position(p)
  <2>1. Position(p)' = cursor'[p]
    BY <1>5, <1>7 DEF Position, Runs
  <2>2. Position(p) = cursor'[p]
    BY <1>1, <1>2 DEF Position, Runs
  <2>3. QED
    BY <2>1, <2>2
<1>9. Runs(Shell)' => q = Shell
  BY <1>5 DEF Runs
<1>10. QED
  BY <1>2, <1>4, <1>5, <1>6, <1>7, <1>8, <1>9

-----------------------------------------------------------------------------
(***************************************************************************)
(* The command line.                                                        *)
(***************************************************************************)

\* A set of natural numbers has a least one: the shortest of the intervals
\* 0..n, in the well-founded order of the finite sets.
LEMMA Least ==
    ASSUME NEW S \in SUBSET Nat, S # {}
    PROVE  \E n \in S : \A m \in S : n <= m
<1> DEFINE T == {0..n : n \in S}
           R == StrictSubsetOrdering(Nat)
<1>1. T \subseteq FiniteSubsetsOf(Nat)
  <2>1. \A n \in S : IsFiniteSet(0..n)
    BY FS_Interval
  <2>2. QED
    BY <2>1 DEF FiniteSubsetsOf
<1>2. T # {}
  OBVIOUS
<1>3. IsWellFoundedOn(R, FiniteSubsetsOf(Nat))
  BY FS_StrictSubsetOrderingWellFounded
<1> HIDE DEF R
<1>4. PICK x \in T : \A y \in T : ~(<<y, x>> \in R)
  <2> HIDE DEF T
  <2> QED BY <1>1, <1>2, <1>3, WFMin
<1>5. PICK n \in S : x = 0..n
  OBVIOUS
<1>6. ASSUME NEW m \in S, m < n PROVE FALSE
  <2>1. ~(<<0..m, 0..n>> \in R)
    BY <1>4, <1>5
  <2>2. 0..m \subseteq 0..n /\ n \in 0..n /\ n \notin 0..m
    BY <1>6
  <2>3. 0..m \in SUBSET Nat /\ 0..n \in SUBSET Nat
    OBVIOUS
  <2>4. QED
    BY <2>1, <2>2, <2>3 DEF R, StrictSubsetOrdering
<1>7. \A m \in S : n <= m
  BY <1>6
<1>8. QED
  BY <1>7

\* A digit and its value.
LEMMA DigitValue ==
    ASSUME NEW ch, IsDigit(ch)
    PROVE  DigitOf(ch) \in 0..9 /\ ch = Digits[DigitOf(ch) + 1]
<1> DEFINE d == CHOOSE d \in 1..10 : Digits[d] = ch
<1>1. d \in 1..10 /\ Digits[d] = ch
  BY DEF IsDigit
<1>2. DigitOf(ch) = d - 1
  BY DEF DigitOf
<1> HIDE DEF d
<1>3. DigitOf(ch) \in 0..9 /\ DigitOf(ch) + 1 = d
  BY <1>1, <1>2
<1>4. QED
  BY <1>1, <1>3

\* The loop of get_para: after n characters there is a value, to which the next
\* character adds a digit.
LEMMA LoopValues ==
    ASSUME NEW str \in Seq(Keys), \A n \in 1..Len(str) : IsDigit(str[n])
    PROVE  \E v \in [0..Len(str) -> Nat] :
             /\ get_para(str) = v[Len(str)]
             /\ v[0] = 0
             /\ \A n \in 1..Len(str) : v[n] = v[n - 1] * 10 + DigitOf(str[n])
<1> DEFINE N == Len(str)
           Rec(f) == [n \in 0..N |-> IF n = 0 THEN 0 ELSE f[n - 1] * 10 + DigitOf(str[n])]
           Value == CHOOSE f : f = Rec(f)
           Upto(k, f) == /\ f \in [0..k -> Nat] /\ f[0] = 0
                         /\ \A n \in 1..k : f[n] = f[n - 1] * 10 + DigitOf(str[n])
           Bad == {k \in 0..N : ~\E f : Upto(k, f)}
<1>1. N \in Nat /\ DOMAIN str = 1..N
  OBVIOUS
<1>2. \A n \in 1..N : DigitOf(str[n]) \in Nat
  BY DigitValue
<1>3. get_para(str) = Value[N]
  BY <1>1 DEF get_para
<1> HIDE DEF N
<1>4. Upto(0, [n \in 0..0 |-> 0])
  OBVIOUS
<1>5. ASSUME NEW k \in 0..N, k + 1 \in 0..N, NEW f, Upto(k, f)
      PROVE  \E g : Upto(k + 1, g)
  <2> DEFINE g == [n \in 0..(k + 1) |-> IF n <= k THEN f[n] ELSE f[k] * 10 + DigitOf(str[k + 1])]
  <2>1. f[k] \in Nat /\ DigitOf(str[k + 1]) \in Nat
    BY <1>1, <1>2, <1>5
  <2>2. g \in [0..(k + 1) -> Nat] /\ g[0] = 0
    BY <1>1, <1>5, <2>1
  <2>3. ASSUME NEW n \in 1..(k + 1) PROVE g[n] = g[n - 1] * 10 + DigitOf(str[n])
    <3>1. CASE n <= k
      BY <1>1, <1>5, <3>1
    <3>2. CASE n = k + 1
      BY <1>1, <1>5, <3>2
    <3>3. QED
      BY <1>1, <3>1, <3>2
  <2>4. QED
    BY <2>2, <2>3
<1>6. \E f : Upto(N, f)
  <2>1. SUFFICES ASSUME N \in Bad PROVE FALSE
    BY <1>1
  <2>2. Bad \in SUBSET Nat
    BY <1>1
  <2>3. PICK k \in Bad : \A m \in Bad : k <= m
    <3> HIDE DEF Bad
    <3> QED BY <2>1, <2>2, Least
  <2>4. k # 0
    BY <1>4
  <2>5. k - 1 \in 0..N /\ k - 1 \notin Bad
    <3>1. k \in 0..N
      OBVIOUS
    <3>2. k - 1 \in 0..N /\ k - 1 < k
      BY <1>1, <2>4, <3>1
    <3> HIDE DEF Bad
    <3>3. QED
      BY <1>1, <2>3, <3>1, <3>2
  <2>6. PICK f : Upto(k - 1, f)
    BY <2>5
  <2>7. \E g : Upto((k - 1) + 1, g)
    <3> HIDE DEF Upto, Bad
    <3>1. (k - 1) + 1 \in 0..N
      BY <1>1, <2>3 DEF Bad
    <3>2. QED
      BY <1>5, <2>5, <2>6, <3>1
  <2>8. (k - 1) + 1 = k
    BY <1>1
  <2>9. QED
    BY <2>3, <2>7, <2>8
<1>7. PICK v : Upto(N, v)
  BY <1>6
<1>8. v = Rec(v)
  BY <1>1, <1>7
<1>9. Value = Rec(Value)
  <2> HIDE DEF Rec
  <2> QED BY <1>8
<1> HIDE DEF Value
<1>10. Value[0] = 0 /\ \A n \in 1..N : Value[n] = Value[n - 1] * 10 + DigitOf(str[n])
  BY <1>1, <1>9
<1>11. Value \in [0..N -> Nat]
  <2> DEFINE Odd == {n \in 0..N : Value[n] \notin Nat}
  <2>1. Value = [n \in 0..N |-> Value[n]]
    BY <1>9
  <2>2. SUFFICES ASSUME Odd # {} PROVE FALSE
    BY <2>1
  <2>3. Odd \in SUBSET Nat
    BY <1>1
  <2>4. PICK n \in Odd : \A m \in Odd : n <= m
    <3> HIDE DEF Odd
    <3> QED BY <2>2, <2>3, Least
  <2>5. n # 0
    BY <1>10
  <2>6. n \in 1..N /\ n - 1 \in 0..N /\ n - 1 \notin Odd
    BY <1>1, <2>4, <2>5
  <2>7. Value[n - 1] \in Nat /\ DigitOf(str[n]) \in Nat
    BY <1>2, <2>6
  <2>8. Value[n] \in Nat
    BY <1>10, <2>6, <2>7
  <2>9. QED
    BY <2>8
<1>12. QED
  BY <1>3, <1>10, <1>11 DEF N

\* The arithmetic of one digit.
LEMMA DigitAdded ==
    ASSUME NEW a \in Nat, NEW d \in 0..9
    PROVE  (a * 10 + d) \div 10 = a /\ (a * 10 + d) % 10 = d
OBVIOUS

\* get_para inverts the conversion to decimal: written out again, its result is
\* the text it read.
LEMMA ParaSpelled ==
    ASSUME NEW str \in Seq(Keys)
    PROVE  /\ get_para(str) \in Int
           /\ get_para(str) # -1 => get_para(str) >= 0 /\ Spells(str, get_para(str))
<1>1. Len(str) \in Nat /\ DOMAIN str = 1..Len(str)
  OBVIOUS
<1>2. CASE \E n \in 1..Len(str) : ~IsDigit(str[n])
  BY <1>1, <1>2 DEF get_para
<1>3. CASE \A n \in 1..Len(str) : IsDigit(str[n])
  <2>1. PICK v \in [0..Len(str) -> Nat] :
             /\ get_para(str) = v[Len(str)]
             /\ v[0] = 0
             /\ \A n \in 1..Len(str) : v[n] = v[n - 1] * 10 + DigitOf(str[n])
    BY <1>3, LoopValues
  <2> DEFINE N == Len(str)
             p == get_para(str)
             Rec(f) == [k \in 0..N |-> IF k = 0 THEN p ELSE f[k - 1] \div 10]
             Rest == CHOOSE f : f = Rec(f)
             Back == [k \in 0..N |-> v[N - k]]
  <2>2. Spells(str, p) <=> /\ Rest[N] = 0
                           /\ \A k \in 1..N : str[k] = Digits[(Rest[N - k] % 10) + 1]
    BY DEF Spells
  <2> HIDE DEF N, p
  <2>3. N \in Nat /\ p = v[N] /\ v \in [0..N -> Nat] /\ v[0] = 0
    BY <2>1, <1>1 DEF N, p
  <2>4. ASSUME NEW n \in 1..N
        PROVE  /\ v[n] \div 10 = v[n - 1]
               /\ str[n] = Digits[(v[n] % 10) + 1]
    <3>1. v[n] = v[n - 1] * 10 + DigitOf(str[n])
      BY <2>1 DEF N
    <3>2. DigitOf(str[n]) \in 0..9 /\ str[n] = Digits[DigitOf(str[n]) + 1]
      BY <1>3, DigitValue DEF N
    <3>3. v[n - 1] \in Nat
      BY <2>3
    <3>4. v[n] \div 10 = v[n - 1] /\ v[n] % 10 = DigitOf(str[n])
      BY <3>1, <3>2, <3>3, DigitAdded
    <3>5. QED
      BY <3>2, <3>4
  <2>5. Back = Rec(Back)
    <3>1. ASSUME NEW k \in 0..N PROVE Back[k] = Rec(Back)[k]
      <4>1. CASE k = 0
        BY <2>3, <4>1
      <4>2. CASE k # 0
        <5>1. N - k + 1 \in 1..N /\ (N - k + 1) - 1 = N - k /\ k - 1 \in 0..N /\ N - (k - 1) = N - k + 1
          BY <2>3, <4>2
        <5>2. v[N - k + 1] \div 10 = v[N - k]
          BY <2>4, <5>1
        <5>3. QED
          BY <4>2, <5>1, <5>2
      <4>3. QED
        BY <4>1, <4>2
    <3>2. QED
      BY <3>1
  <2>6. Rest = Rec(Rest)
    <3> HIDE DEF Rec, Back
    <3> QED BY <2>5
  <2> HIDE DEF Rest
  <2>7. \A k \in 0..N : Rest[k] = Back[k]
    <3> DEFINE Odd == {k \in 0..N : Rest[k] # Back[k]}
    <3>1. SUFFICES ASSUME Odd # {} PROVE FALSE
      OBVIOUS
    <3>2. Odd \in SUBSET Nat
      BY <2>3
    <3>3. PICK k \in Odd : \A m \in Odd : k <= m
      <4> HIDE DEF Odd
      <4> QED BY <3>1, <3>2, Least
    <3>4. k \in 0..N /\ Rest[k] # Back[k]
      OBVIOUS
    <3>5. k # 0
      <4>1. Rest[0] = p /\ Back[0] = p
        BY <2>3, <2>5, <2>6
      <4>2. QED
        BY <3>4, <4>1
    <3>6. k - 1 \in 0..N /\ k - 1 < k
      BY <2>3, <3>4, <3>5
    <3>7. k - 1 \notin Odd
      <4> HIDE DEF Odd
      <4> QED BY <3>3, <3>4, <3>6
    <3>8. Rest[k - 1] = Back[k - 1]
      BY <3>6, <3>7
    <3>9. Rest[k] = Rest[k - 1] \div 10
      <4> HIDE DEF Back
      <4> QED BY <2>6, <3>4, <3>5
    <3>10. Back[k] = Back[k - 1] \div 10
      <4> HIDE DEF Back
      <4> QED BY <2>5, <3>4, <3>5
    <3>11. QED
      BY <3>4, <3>8, <3>9, <3>10
  <2>8. Rest[N] = 0
    BY <2>3, <2>7
  <2>9. ASSUME NEW k \in 1..N PROVE str[k] = Digits[(Rest[N - k] % 10) + 1]
    <3>1. N - k \in 0..N /\ N - (N - k) = k
      BY <2>3
    <3>2. Rest[N - k] = v[k]
      BY <2>7, <3>1
    <3>3. QED
      BY <2>4, <3>2
  <2>10. p \in Int /\ p >= 0
    BY <2>3
  <2>11. QED
    BY <2>2, <2>8, <2>9, <2>10 DEF p
<1>4. QED
  BY <1>2, <1>3

\* The strings in a buffer that holds a line and zeros behind it.
LEMMA BufferStrings ==
    ASSUME line \in Seq(Keys), Len(line) < COMMAND_MAX_LEN, sh.buffer = Padded(line),
           NEW i \in 1..(Len(line) + 1)
    PROVE  StringAt(i) = SubSeq(line, i, Len(line))
<1> DEFINE ends == {n \in i..COMMAND_MAX_LEN : sh.buffer[n] = NUL}
           last == CHOOSE n \in ends : \A m \in ends : n <= m
           N == Len(line)
<1>1. N \in Nat /\ COMMAND_MAX_LEN \in Nat /\ NUL \notin Keys /\ N < COMMAND_MAX_LEN
  BY ConsoleAssumption
<1>2. \A n \in 1..COMMAND_MAX_LEN : sh.buffer[n] = IF n <= N THEN line[n] ELSE NUL
  BY DEF Padded
<1>3. \A n \in 1..N : line[n] # NUL
  BY <1>1
<1> HIDE DEF N
<1>4. i \in 1..(N + 1)
  BY DEF N
<1>5. ends = (N + 1)..COMMAND_MAX_LEN
  BY <1>1, <1>2, <1>3, <1>4
<1>6. last = N + 1
  <2>1. N + 1 \in ends /\ \A m \in ends : N + 1 <= m
    BY <1>1, <1>5
  <2>2. \A n \in ends : n \in Int
    BY <1>1, <1>5
  <2> HIDE DEF ends
  <2>3. last \in ends /\ \A m \in ends : last <= m
    BY <2>1
  <2>4. QED
    BY <1>1, <2>1, <2>2, <2>3
<1>7. StringAt(i) = SubSeq(sh.buffer, i, last - 1)
  BY DEF StringAt
<1> HIDE DEF last
<1>8. StringAt(i) = SubSeq(sh.buffer, i, N)
  BY <1>1, <1>6, <1>7
<1>9. SubSeq(sh.buffer, i, N) = [n \in 1..(N - i + 1) |-> sh.buffer[i + n - 1]]
  BY <1>1, <1>4 DEF SubSeq
<1>10. SubSeq(line, i, N) = [n \in 1..(N - i + 1) |-> line[i + n - 1]]
  BY <1>1, <1>4 DEF SubSeq
<1>11. \A n \in 1..(N - i + 1) : sh.buffer[i + n - 1] = line[i + n - 1]
  BY <1>1, <1>2, <1>4
<1>12. QED
  BY <1>8, <1>9, <1>10, <1>11 DEF N

\* The strings that cmd_inter looks at are the line and what follows its name.
LEMMA StringsRead ==
    ASSUME Types, Typed
    PROVE  /\ StringAt(1) = line
           /\ line = <<>> => sh.buffer[1] = NUL
           /\ line # <<>> => /\ sh.buffer[1] = line[1]
                             /\ StringAt(2) = Tail(line) /\ Tail(line) \in Seq(Keys)
<1>1. line \in Seq(Keys) /\ fifo \in Seq(Keys) /\ keys \in Seq(Keys)
  BY DEF Types
<1>2. Len(line) \in Nat /\ Len(fifo) \in Nat /\ Len(keys) \in Nat
  BY <1>1
<1>3. Len(line) < COMMAND_MAX_LEN /\ sh.buffer = Padded(line) /\ COMMAND_MAX_LEN \in Nat
  BY <1>2, ConsoleAssumption DEF Typed
<1>4. StringAt(1) = SubSeq(line, 1, Len(line))
  BY <1>1, <1>2, <1>3, BufferStrings
<1>5. SubSeq(line, 1, Len(line)) = line
  BY <1>1, <1>2
<1>6. sh.buffer[1] = IF 1 <= Len(line) THEN line[1] ELSE NUL
  BY <1>2, <1>3 DEF Padded
<1>7. line = <<>> => sh.buffer[1] = NUL
  BY <1>6
<1>8. ASSUME line # <<>>
      PROVE  sh.buffer[1] = line[1] /\ StringAt(2) = Tail(line) /\ Tail(line) \in Seq(Keys)
  <2>1. Len(line) >= 1
    BY <1>1, <1>8
  <2>2. StringAt(2) = SubSeq(line, 2, Len(line))
    BY <1>1, <1>2, <1>3, <2>1, BufferStrings
  <2>3. Tail(line) = SubSeq(line, 2, Len(line))
    BY <1>1, <1>8
  <2>4. Tail(line) \in Seq(Keys)
    BY <1>1, <1>8
  <2>5. sh.buffer[1] = line[1]
    BY <1>6, <2>1
  <2>6. QED
    BY <2>2, <2>3, <2>4, <2>5
<1>9. QED
  BY <1>4, <1>5, <1>7, <1>8

\* What cmd_inter makes of the line.
LEMMA Interpreted ==
    ASSUME Types, Typed
    PROVE  \/ \E c \in {"ps", "clear", "help"} : cmd_inter = <<c, 0>> /\ line = <<c>>
           \/ \E c \in {"prompt", "unknown"} : cmd_inter = <<c, 0>>
           \/ cmd_inter = <<"invalid", -1>>
           \/ /\ line # <<>> /\ line[1] \in {"exec", "kill"}
              /\ cmd_inter = <<line[1], get_para(Tail(line))>>
              /\ get_para(Tail(line)) \in Int /\ get_para(Tail(line)) >= 0
              /\ Spells(Tail(line), get_para(Tail(line)))
<1> DEFINE name == sh.buffer[1]
           para == get_para(StringAt(2))
<1>1. StringAt(1) = line
  BY StringsRead
<1>2. cmd_inter = CASE line = <<"ps">> -> <<"ps", 0>>
                    [] line = <<"clear">> -> <<"clear", 0>>
                    [] name \in {"exec", "kill"} -> <<IF para = -1 THEN "invalid" ELSE name, para>>
                    [] line = <<"help">> -> <<"help", 0>>
                    [] line = <<>> -> <<"prompt", 0>>
                    [] OTHER -> <<"unknown", 0>>
  BY <1>1 DEF cmd_inter
<1>3. line = <<>> \/ name = line[1]
  BY StringsRead
<1>4. line = <<>> => name = "NUL"
  BY StringsRead DEF NUL
<1>5. CASE name \in {"exec", "kill"}
  <2>1. line # <<>> /\ line[1] = name
    BY <1>3, <1>4, <1>5
  <2>2. para = get_para(Tail(line)) /\ Tail(line) \in Seq(Keys)
    BY <2>1, StringsRead
  <2>3. /\ get_para(Tail(line)) \in Int
        /\ get_para(Tail(line)) # -1 =>
             get_para(Tail(line)) >= 0 /\ Spells(Tail(line), get_para(Tail(line)))
    BY <2>2, ParaSpelled
  <2>4. line # <<"ps">> /\ line # <<"clear">> /\ line # <<"help">>
    BY <1>5, <2>1
  <2> HIDE DEF name, para
  <2>5. cmd_inter = <<IF para = -1 THEN "invalid" ELSE name, para>>
    BY <1>2, <1>5, <2>1, <2>4
  <2>6. CASE para = -1
    BY <2>5, <2>6
  <2>7. CASE para # -1
    <3>1. cmd_inter = <<line[1], get_para(Tail(line))>> /\ line[1] \in {"exec", "kill"}
      BY <1>5, <2>1, <2>2, <2>5, <2>7
    <3>2. get_para(Tail(line)) >= 0 /\ Spells(Tail(line), get_para(Tail(line)))
      BY <2>2, <2>3, <2>7
    <3>3. QED
      BY <2>1, <2>3, <3>1, <3>2
  <2>8. QED
    BY <2>6, <2>7
<1>6. CASE name \notin {"exec", "kill"}
  <2> HIDE DEF name, para
  <2>1. CASE line = <<"ps">>
    BY <1>2, <1>6, <2>1
  <2>2. CASE line = <<"clear">>
    BY <1>2, <1>6, <2>2
  <2>3. CASE line = <<"help">>
    BY <1>2, <1>6, <2>3
  <2>4. CASE line = <<>>
    BY <1>2, <1>6, <2>4
  <2>5. CASE line \notin {<<"ps">>, <<"clear">>, <<"help">>, <<>>}
    BY <1>2, <1>6, <2>5
  <2>6. QED
    BY <2>1, <2>2, <2>3, <2>4, <2>5
<1>7. QED
  BY <1>5, <1>6

-----------------------------------------------------------------------------
(***************************************************************************)
(* The invariant holds at the start.                                        *)
(***************************************************************************)

\* Every line is cleared at boot, so that old_screen is empty and then a copy
\* of what the terminal shows.
LEMMA InitialScreen ==
    init_screen \in Screens /\ init_screen.x = 0 /\ init_screen.y = 0 /\ Faithful(init_screen)
<1> DEFINE n == [c \in Cells |-> "0"]
           m == [c \in Cells |-> SP]
           s == [new |-> n, old |-> n, term |-> m, x |-> 0, y |-> 0, tx |-> 0, ty |-> 0]
<1>1. init_screen = screen_clear(s, 0, SCREEN_HEIGHT - 1)
  BY DEF init_screen
<1>2. n \in Buffers /\ m \in Buffers
  BY DEF Buffers, Chars
<1> HIDE DEF n, m
<1>3. s \in Screens
  BY <1>2 DEF Screens
<1> HIDE DEF s
<1>4. 0 \in Int /\ SCREEN_HEIGHT - 1 \in Int /\ Lines \subseteq 0..(SCREEN_HEIGHT - 1)
  BY Sizes DEF Lines
<1>5. QED
  BY <1>1, <1>3, <1>4, ClearDoes

\* The first state.
LEMMA InitInv == Init => Inv
<1> SUFFICES ASSUME Init PROVE Inv
  OBVIOUS
<1> USE Sizes
<1>1. Shell \in Procs /\ Shell \notin Programs /\ Procs = {Shell} \cup Programs
  BY DEF Procs, Programs, Shell
<1>2. screen \in Screens /\ screen.x = 0 /\ screen.y = 0 /\ Faithful(screen)
  BY InitialScreen DEF Init
<1>3. keys \in Seq(Keys) /\ Len(keys) < COMMAND_MAX_LEN /\ COMMAND_MAX_LEN \in Nat
  BY ConsoleAssumption DEF Init
<1>4. /\ sh.pc = "start" /\ sh.p = 1 /\ sh.buffer = EmptyBuffer /\ line = <<>> /\ fifo = <<>>
      /\ sh = [pc |-> "start", ch |-> NUL, buffer |-> EmptyBuffer, p |-> 1, para |-> 0, row |-> 0]
  BY DEF Init
<1>5. sh \in Shells
  <2>1. EmptyBuffer \in [1..COMMAND_MAX_LEN -> Chars] /\ NUL \in Chars /\ "start" \in Places
    BY DEF EmptyBuffer, Chars, Places, Reading
  <2> HIDE DEF EmptyBuffer
  <2>2. QED
    BY <1>4, <2>1 DEF Shells
<1>6. Types
  <2>1. current_running \in Procs /\ alive \subseteq Procs /\ Shell \in alive
    BY <1>1 DEF Init
  <2>2. context \in [Procs -> {"user", "timer"}] /\ cursor \in [Procs -> Int \X Int]
    BY DEF Init
  <2>3. prog \in [Programs -> Progs]
    <3>1. {0} \in SUBSET (0..(ScrollFirst - 1))
      OBVIOUS
    <3>2. QED
      BY <3>1 DEF Init, Progs
  <2>4. line \in Seq(Keys) /\ fifo \in Seq(Keys)
    BY <1>4
  <2>5. QED
    BY <1>2, <1>3, <1>5, <2>1, <2>2, <2>3, <2>4 DEF Types
<1>7. Writers
  <2>1. ASSUME NEW p \in Procs PROVE Position(p) = <<0, 0>>
    BY <1>2 DEF Position, Runs, Init
  <2>2. CursorInside
    BY <2>1 DEF CursorInside, Columns, Lines
  <2>3. \A p \in Programs : prog[p].pc = "move"
    BY DEF Init
  <2>4. \A p \in Procs : AtHome(p) /\ AtLine(p)
    BY <1>4, <2>1, <2>3 DEF AtHome, AtLine
  <2>5. sh.pc \notin ScrollPlaces
    BY <1>4 DEF ScrollPlaces
  <2>6. QED
    BY <2>2, <2>4, <2>5 DEF Writers
<1>8. Shown
  BY <1>2, <1>4 DEF Shown, RefreshFaithful, Faithful
<1>9. Typed
  <2>1. Len(line) = 0 /\ Len(fifo) = 0 /\ Len(keys) \in Nat
    BY <1>3, <1>4
  <2>2. EmptyBuffer = Padded(line)
    BY <1>3, <2>1 DEF EmptyBuffer, Padded
  <2>3. QED
    BY <1>3, <1>4, <2>1, <2>2 DEF Typed
<1>10. QED
  BY <1>6, <1>7, <1>8, <1>9 DEF Inv

-----------------------------------------------------------------------------
(***************************************************************************)
(* What a step has to show: of the shell, of a program, of do_scheduler.     *)
(***************************************************************************)

\* A process that keeps the CPU leaves the cursors of the others.
LEMMA KeepsCPU ==
    ASSUME UNCHANGED <<current_running, cursor>>
    PROVE  /\ \A p : ~Runs(p) => Position(p)' = Position(p)
           /\ \A p : Runs(p) => Position(p)' = <<screen'.x, screen'.y>>
BY DEF Position, Runs

\* Where the shell writes.
LEMMA ShellHere ==
    ASSUME Inv, Runs(Shell)
    PROVE  /\ screen \in Screens /\ Faithful(screen) /\ sh \in Shells
           /\ sh.pc \notin ScrollPlaces \cup {"prompt"} => Inside(screen)
           /\ sh.pc = "prompt" => Inside(screen) \/ Beneath(screen)
           /\ sh.pc \notin {"start", "clear_move"} => screen.y >= ScrollFirst
           /\ AfterEnter => screen.x = 0
<1>1. Position(Shell) = <<screen.x, screen.y>> /\ Shell \in Procs
  BY DEF Position, Procs
<1>2. screen \in Screens /\ Faithful(screen) /\ sh \in Shells
  BY DEF Inv, Types, Shown, RefreshFaithful, Faithful
<1>3. /\ sh.pc \notin ScrollPlaces \cup {"prompt"} => Inside(screen)
      /\ sh.pc = "prompt" => Inside(screen) \/ Beneath(screen)
  BY <1>1 DEF Inv, Writers, CursorInside, Scrolling, BelowTable, ScrollPlaces, Inside, Beneath
<1>4. /\ sh.pc \notin {"start", "clear_move"} => screen.y >= ScrollFirst
      /\ AfterEnter => screen.x = 0
  BY <1>1 DEF Inv, Writers, AtHome
<1>5. QED
  BY <1>2, <1>3, <1>4

\* A step of the shell.
LEMMA ShellKeeps ==
    ASSUME Inv, Runs(Shell), UNCHANGED <<current_running, alive, context, cursor, prog>>,
           screen' \in Screens, Faithful(screen'), sh' \in Shells,
           keys' \in Seq(Keys), fifo' \in Seq(Keys), line' \in Seq(Keys),
           sh'.pc \notin ScrollPlaces =>
             Inside(screen') \/ (sh'.pc = "prompt" /\ line' = <<"ps">> /\ Beneath(screen')),
           sh'.pc \notin {"start", "clear_move"} => screen'.y >= ScrollFirst,
           sh'.pc \in {"reflush", "command", "ps"} =>
             (sh'.pc = "reflush" /\ sh'.ch # CR) \/ screen'.x = 0,
           sh'.pc \in ScrollPlaces => sh'.row \in ScrollRange,
           sh'.pc \in {"command", "ps"} => <<screen'.tx, screen'.ty>> = <<screen'.x, screen'.y>>,
           Typed'
    PROVE  Inv'
<1>1. /\ \A p \in Procs \ {Shell} : Position(p)' = Position(p)
      /\ Position(Shell)' = <<screen'.x, screen'.y>>
      /\ Runs(Shell)'
  BY KeepsCPU DEF Runs
<1>2. Types'
  BY DEF Inv, Types
<1>3. CursorInside'
  <2>1. ASSUME NEW p \in Procs \ {Shell} PROVE Position(p)' \in Columns \X Lines
    BY <1>1, <2>1 DEF Inv, Writers, CursorInside, Scrolling, BelowTable
  <2>2. sh'.pc \notin ScrollPlaces =>
          \/ Position(Shell)' \in Columns \X Lines
          \/ /\ sh'.pc = "prompt" /\ line' = <<"ps">>
             /\ Position(Shell)' \in {0} \X (SCREEN_HEIGHT..(SCREEN_HEIGHT + NUM_MAX_TASK - 1))
    BY <1>1 DEF Inside, Beneath
  <2>3. QED
    BY <2>1, <2>2 DEF CursorInside, Scrolling, BelowTable, ScrollPlaces
<1>4. \A p \in Procs : AtHome(p)' /\ AtLine(p)'
  <2>1. Shell \notin Programs
    BY DEF Shell, Programs
  <2>2. AtHome(Shell)' /\ AtLine(Shell)'
    BY <1>1, <2>1 DEF AtHome, AfterEnter, AtLine
  <2>3. ASSUME NEW p \in Procs \ {Shell} PROVE AtHome(p)' /\ AtLine(p)'
    BY <1>1 DEF Inv, Writers, AtHome, AtLine
  <2>4. QED
    BY <2>2, <2>3
<1>5. Writers'
  BY <1>3, <1>4 DEF Writers
<1>6. Shown'
  BY <1>1 DEF Shown, RefreshFaithful, Faithful
<1>7. QED
  BY <1>2, <1>5, <1>6 DEF Inv

\* A step of a program.
LEMMA ProgramKeeps ==
    ASSUME Inv, NEW p \in Programs, Runs(p),
           UNCHANGED <<current_running, alive, context, cursor, keys, fifo, sh, line>>,
           screen' \in Screens, Faithful(screen'), Inside(screen'),
           prog' \in [Programs -> Progs],
           \A q \in Programs \ {p} : prog'[q] = prog[q],
           prog'[p].pc = "print" => screen'.x = 0 /\ screen'.y \in prog'[p].lines
    PROVE  Inv'
<1>1. p # Shell /\ p \in Procs
  BY DEF Programs, Procs, Shell
<1>2. /\ \A q \in Procs \ {p} : Position(q)' = Position(q)
      /\ Position(p)' = <<screen'.x, screen'.y>>
      /\ ~Runs(Shell) /\ ~Runs(Shell)'
  BY <1>1, KeepsCPU DEF Runs
<1>3. Types'
  BY DEF Inv, Types
<1>4. CursorInside'
  BY <1>2 DEF Inv, Writers, CursorInside, Scrolling, BelowTable, Inside
<1>5. \A q \in Procs : AtHome(q)' /\ AtLine(q)'
  <2>1. AtHome(p)' /\ AtLine(p)'
    BY <1>1, <1>2 DEF AtHome, AtLine
  <2>2. ASSUME NEW q \in Procs \ {p} PROVE AtHome(q)' /\ AtLine(q)'
    BY <1>2 DEF Inv, Writers, AtHome, AfterEnter, AtLine
  <2>3. QED
    BY <2>1, <2>2
<1>6. Writers'
  BY <1>4, <1>5 DEF Inv, Writers
<1>7. Shown'
  BY <1>2 DEF Inv, Shown, RefreshFaithful, Faithful
<1>8. Typed'
  BY DEF Inv, Typed, HasParameter
<1>9. QED
  BY <1>3, <1>6, <1>7, <1>8 DEF Inv

\* A step that goes through do_scheduler: a timer interrupt, or the end of a
\* program, which leave the shell where it is, or a call of the shell.
LEMMA SwitchKeeps ==
    ASSUME Inv, alive' \subseteq Procs, Shell \in alive', NEW how \in {"user", "timer"}, NEW s \in Screens,
           s.x = screen.x, s.y = screen.y, Faithful(s), do_scheduler(how, s),
           UNCHANGED <<keys, fifo, line>>, sh' \in Shells, Typed',
           prog' \in [Programs -> Progs],
           \A q \in Programs : prog'[q].pc = "print" => prog'[q] = prog[q],
           \/ sh' = sh /\ (Runs(Shell) => how = "timer")
           \/ sh'.pc = "prompt" /\ sh.pc \notin {"start", "clear_move", "prompt"} \cup ScrollPlaces
    PROVE  Inv'
<1>1. /\ current_running' \in Procs
      /\ context'[Shell] = IF Runs(Shell) THEN how ELSE context[Shell]
      /\ context' \in [Procs -> {"user", "timer"}]
      /\ cursor' \in [Procs -> Int \X Int]
      /\ screen' \in Screens /\ screen'.new = s.new
      /\ Faithful(s) => Faithful(screen')
      /\ \A p \in Procs : Position(p)' = Position(p)
      /\ Runs(Shell)' /\ context'[Shell] = "timer" =>
           <<screen'.tx, screen'.ty>> = <<screen'.x, TerminalLine(screen'.y)>>
  BY SwitchDoes DEF Inv
<1>2. Types'
  BY <1>1 DEF Inv, Types
<1>3. CursorInside'
  <2>1. \A p \in Procs : ~Scrolling(p) =>
          \/ Position(p)' \in Columns \X Lines
          \/ /\ BelowTable(p)
             /\ Position(p)' \in {0} \X (SCREEN_HEIGHT..(SCREEN_HEIGHT + NUM_MAX_TASK - 1))
    BY <1>1 DEF Inv, Writers, CursorInside
  <2>2. CASE sh' = sh
    BY <2>1, <2>2 DEF CursorInside, Scrolling, BelowTable
  <2>3. CASE sh'.pc = "prompt" /\ sh.pc \notin {"start", "clear_move", "prompt"} \cup ScrollPlaces
    BY <2>1, <2>3 DEF CursorInside, Scrolling, BelowTable, ScrollPlaces
  <2>4. QED
    BY <2>2, <2>3
<1>4. ASSUME NEW p \in Procs PROVE AtHome(p)' /\ AtLine(p)'
  <2>1. AtHome(p)'
    BY <1>1, <1>4 DEF Inv, Writers, AtHome, AfterEnter
  <2>2. AtLine(p)'
    BY <1>1, <1>4 DEF Inv, Writers, AtLine
  <2>3. QED
    BY <2>1, <2>2
<1>5. Writers'
  BY <1>3, <1>4 DEF Inv, Writers, ScrollPlaces
<1>6. Shown'
  <2>1. RefreshFaithful'
    BY <1>1 DEF RefreshFaithful, Faithful
  <2>2. CASE sh'.pc = "prompt"
    BY <2>1, <2>2 DEF Shown
  <2>3. CASE sh' = sh /\ (Runs(Shell) => how = "timer")
    <3>1. context[Shell] \in {"user", "timer"} /\ Shell \in Procs /\ context \in [Procs -> {"user", "timer"}]
      BY DEF Inv, Types, Procs
    <3>2. sh.pc \in {"command", "ps"} => context'[Shell] = "timer"
      BY <1>1, <2>3, <3>1 DEF Inv, Shown, Runs
    <3>3. ASSUME Runs(Shell)', sh.pc \in {"command", "ps"}
          PROVE  screen'.y \in Int /\ TerminalLine(screen'.y) = screen'.y
      <4>1. Position(Shell)' = <<screen'.x, screen'.y>>
        BY <3>3 DEF Position, Runs
      <4>2. ~Scrolling(Shell) /\ ~BelowTable(Shell) /\ sh.pc \notin {"start", "clear_move"}
        BY <3>3 DEF Scrolling, BelowTable
      <4>3. Position(Shell) \in Columns \X Lines /\ Position(Shell)[2] >= ScrollFirst
        BY <3>1, <4>2 DEF Inv, Writers, CursorInside, AtHome
      <4>4. screen'.y \in Lines /\ screen'.y >= ScrollFirst
        BY <1>1, <3>1, <4>1, <4>3
      <4>5. screen'.y \in Int /\ screen'.y \in 1..(SCREEN_HEIGHT - 1)
        BY <4>4, Sizes DEF Lines
      <4>6. QED
        BY <4>5, TerminalLines
    <3>4. QED
      BY <1>1, <2>1, <2>3, <3>2, <3>3 DEF Shown
  <2>4. QED
    BY <2>2, <2>3
<1>7. QED
  BY <1>2, <1>5, <1>6 DEF Inv

\* The line and the buffer stay: what the new place of the shell needs.
LEMMA SameLine ==
    ASSUME Typed, UNCHANGED <<keys, fifo, line>>,
           sh'.p = sh.p, sh'.buffer = sh.buffer,
           sh'.pc \notin {"exec", "kill", "ps", "clear", "help"},
           sh'.pc = "spawn" => sh.pc = "exec" /\ sh'.para = sh.para,
           sh'.pc = "kill_call" => sh.pc = "kill" /\ sh'.para = sh.para
    PROVE  Typed'
BY DEF Typed, HasParameter, Padded

-----------------------------------------------------------------------------
(***************************************************************************)
(* The steps, one by one.                                                   *)
(***************************************************************************)

\* The shell goes on at another place.
LEMMA GotoFields ==
    ASSUME sh \in Shells, NEW next \in Places, sh' = [sh EXCEPT !.pc = next]
    PROVE  /\ sh' \in Shells /\ sh'.pc = next /\ sh'.ch = sh.ch
           /\ sh'.p = sh.p /\ sh'.buffer = sh.buffer /\ sh'.para = sh.para /\ sh'.row = sh.row
<1>1. /\ sh'.pc = next /\ sh'.p = sh.p /\ sh'.buffer = sh.buffer /\ sh'.para = sh.para
      /\ sh'.row = sh.row /\ sh'.ch = sh.ch
  BY DEF Shells
<1>2. sh' \in Shells
  BY DEF Shells
<1>3. QED
  BY <1>1, <1>2

\* ... with another row.
LEMMA RowFields ==
    ASSUME sh \in Shells, NEW next \in Places, NEW row \in Int,
           sh' = [sh EXCEPT !.pc = next, !.row = row]
    PROVE  /\ sh' \in Shells /\ sh'.pc = next /\ sh'.row = row /\ sh'.ch = sh.ch
           /\ sh'.p = sh.p /\ sh'.buffer = sh.buffer /\ sh'.para = sh.para
<1>1. /\ sh'.pc = next /\ sh'.p = sh.p /\ sh'.buffer = sh.buffer /\ sh'.para = sh.para
      /\ sh'.row = row /\ sh'.ch = sh.ch
  BY DEF Shells
<1>2. sh' \in Shells
  BY DEF Shells
<1>3. QED
  BY <1>1, <1>2

\* The keyboard's side of a step that reads nothing.
LEMMA LinesKept ==
    ASSUME Inv, UNCHANGED <<keys, fifo, line>>
    PROVE  keys' \in Seq(Keys) /\ fifo' \in Seq(Keys) /\ line' \in Seq(Keys)
BY DEF Inv, Types

\* The shell moves the cursor to one of its lines.
LEMMA MoveInv ==
    ASSUME Inv, NEW place, NEW y \in ScrollFirst..(SCREEN_HEIGHT - 1),
           NEW next \in {"divider", "prompt"}, Move(place, y, next)
    PROVE  Inv'
<1> USE Sizes
<1>1. /\ Runs(Shell) /\ screen' = screen_move_cursor(screen, 0, y) /\ sh' = [sh EXCEPT !.pc = next]
      /\ UNCHANGED <<current_running, alive, context, cursor, keys, fifo, prog, line>>
  BY DEF Move, Here, Goto, Others, table
<1>2. screen \in Screens /\ Faithful(screen) /\ sh \in Shells
  BY <1>1, ShellHere
<1>3. screen' \in Screens /\ screen'.x = 0 /\ screen'.y = y /\ Faithful(screen')
  <2>1. y \in Int /\ 0 \in Int
    OBVIOUS
  <2>2. QED
    BY <1>1, <1>2, <2>1, MoveDoes
<1>4. next \in Places
  BY DEF Places, Reading
<1>5. sh' \in Shells /\ sh'.pc = next /\ sh'.p = sh.p /\ sh'.buffer = sh.buffer
  BY <1>1, <1>2, <1>4, GotoFields
<1>6. Inside(screen')
  BY <1>3 DEF Inside, Columns, Lines
<1>7. Typed'
  BY <1>1, <1>5, SameLine DEF Inv
<1>8. next \notin ScrollPlaces
  BY DEF ScrollPlaces
<1>9. QED
  BY <1>1, <1>3, <1>5, <1>6, <1>7, <1>8, LinesKept, ShellKeeps

\* The places where the shell prints.
Printing == {"divider", "first_prompt", "exec", "kill", "invalid", "help", "help_more", "unknown"}

\* The places it goes to next.
Nexts == {"first_prompt", "read", "spawn", "kill_call", "prompt", "help_more"}

\* The shell prints.
LEMMA WriteInv ==
    ASSUME Inv, NEW place \in Printing, NEW a \in Chars, NEW b \in Chars,
           NEW text \in {<<a>>, <<a, b>>},
           NEW next \in Nexts, next = "spawn" => place = "exec", next = "kill_call" => place = "kill",
           Write(place, text, next)
    PROVE  Inv'
<1> USE Sizes DEF Nexts
<1>1. /\ Runs(Shell) /\ screen' = screen_write(screen, text) /\ sh' = [sh EXCEPT !.pc = next]
      /\ sh.pc = place
      /\ UNCHANGED <<current_running, alive, context, cursor, keys, fifo, prog, line>>
  BY DEF Write, Here, Goto, Others, table
<1>2. /\ screen \in Screens /\ Faithful(screen) /\ sh \in Shells
      /\ Inside(screen) /\ screen.y >= ScrollFirst
  BY <1>1, ShellHere DEF Printing, ScrollPlaces
<1>3. screen' \in Screens /\ Inside(screen') /\ Faithful(screen') /\ screen'.y >= ScrollFirst
  BY <1>1, <1>2, ShellWrites
<1>4. next \in Places /\ next \notin ScrollPlaces
  BY DEF Places, Reading, Commands, ScrollPlaces
<1>5. sh' \in Shells /\ sh'.pc = next /\ sh'.p = sh.p /\ sh'.buffer = sh.buffer /\ sh'.para = sh.para
  BY <1>1, <1>2, <1>4, GotoFields
<1>6. Typed'
  BY <1>1, <1>5, SameLine DEF Inv
<1>7. QED
  BY <1>1, <1>3, <1>4, <1>5, <1>6, LinesKept, ShellKeeps

\* The shell asks for a refresh: the terminal's cursor is its own.
LEMMA RefreshInv ==
    ASSUME Inv, NEW place \in {"reflush", "prompt_reflush"}, NEW next \in {"command", "read"},
           next = "command" => place = "reflush" /\ sh.ch = CR, Refresh(place, next)
    PROVE  Inv'
<1> USE Sizes
<1>1. /\ Runs(Shell) /\ screen' = screen_reflush(screen) /\ sh' = [sh EXCEPT !.pc = next]
      /\ sh.pc = place
      /\ UNCHANGED <<current_running, alive, context, cursor, keys, fifo, prog, line>>
  BY DEF Refresh, Here, Goto, Others, table
<1>2. /\ screen \in Screens /\ Faithful(screen) /\ sh \in Shells
      /\ Inside(screen) /\ screen.y >= ScrollFirst
  BY <1>1, ShellHere DEF ScrollPlaces
<1>3. /\ screen' \in Screens /\ Faithful(screen') /\ screen'.x = screen.x /\ screen'.y = screen.y
      /\ screen'.tx = screen.x /\ screen'.ty = screen.y
  <2>1. screen.y \in Int /\ screen.y \in 1..(SCREEN_HEIGHT - 1)
    BY <1>2 DEF Inside, Lines
  <2>2. TerminalLine(screen.y) = screen.y
    BY <2>1, TerminalLines
  <2>3. QED
    BY <1>1, <1>2, <2>2, ReflushDoes
<1>4. Inside(screen') /\ screen'.y >= ScrollFirst
  BY <1>2, <1>3 DEF Inside
<1>5. next \in Places /\ next \notin ScrollPlaces
  BY DEF Places, Reading, ScrollPlaces
<1>6. sh' \in Shells /\ sh'.pc = next /\ sh'.p = sh.p /\ sh'.buffer = sh.buffer
  BY <1>1, <1>2, <1>5, GotoFields
<1>7. Typed'
  BY <1>1, <1>6, SameLine DEF Inv
<1>8. next = "command" => screen'.x = 0
  BY <1>1, <1>3, ShellHere DEF AfterEnter
<1>9. QED
  BY <1>1, <1>3, <1>4, <1>5, <1>6, <1>7, <1>8, LinesKept, ShellKeeps

\* The echo stores on the shell's line; past the bottom the scroll begins.
LEMMA EchoInv == Inv /\ Echo => Inv'
<1> SUFFICES ASSUME Inv, Echo PROVE Inv'
  OBVIOUS
<1> USE Sizes
<1> DEFINE next == IF PastBottom(screen') THEN "scroll_old" ELSE "reflush"
<1>1. /\ Runs(Shell) /\ screen' = PutCh(screen, sh.ch) /\ sh.pc = "echo"
      /\ sh' = [sh EXCEPT !.pc = next, !.row = ScrollFirst]
      /\ UNCHANGED <<current_running, alive, context, cursor, keys, fifo, prog, line>>
  BY DEF Echo, Here, Others, table
<1>2. /\ screen \in Screens /\ Faithful(screen) /\ sh \in Shells
      /\ Inside(screen) /\ screen.y >= ScrollFirst
  BY <1>1, ShellHere DEF ScrollPlaces
<1>3. sh.ch \in Chars
  BY <1>2 DEF Shells
<1>4. /\ screen' \in Screens /\ screen'.old = screen.old /\ screen'.term = screen.term
      /\ screen'.x \in Columns /\ screen'.y \in screen.y..(screen.y + 1)
      /\ sh.ch = CR => screen'.x = 0
  BY <1>1, <1>2, <1>3, PutChDoes
<1>5. Faithful(screen')
  BY <1>2, <1>4 DEF Faithful
<1>6. screen.y \in Int /\ screen.y >= 0
  BY <1>2 DEF Inside, Lines
<1>7. screen'.y >= ScrollFirst /\ (~PastBottom(screen') => Inside(screen'))
  BY <1>2, <1>4, <1>6 DEF PastBottom, Inside, Lines
<1>8. next \in {"scroll_old", "reflush"} /\ (next \notin ScrollPlaces => ~PastBottom(screen'))
  BY DEF ScrollPlaces
<1> HIDE DEF next
<1>9. next \in Places
  BY <1>8 DEF Places, Reading, ScrollPlaces
<1>10. /\ sh' \in Shells /\ sh'.pc = next /\ sh'.row = ScrollFirst /\ sh'.ch = sh.ch
       /\ sh'.p = sh.p /\ sh'.buffer = sh.buffer
  <2>1. ScrollFirst \in Int
    OBVIOUS
  <2>2. QED
    BY <1>1, <1>2, <1>9, <2>1, RowFields
<1>11. Typed'
  BY <1>1, <1>8, <1>10, SameLine DEF Inv
<1>12. sh'.row \in ScrollRange
  BY <1>10 DEF ScrollRange
<1>13. QED
  BY <1>1, <1>4, <1>5, <1>7, <1>8, <1>10, <1>11, <1>12, LinesKept, ShellKeeps

\* A round of a loop of the scroll.
LEMMA RoundFields ==
    ASSUME sh \in Shells, sh.row \in ScrollRange, sh.pc \in {"scroll_old", "scroll_new"},
           NEW next \in {"scroll_new", "scroll_end"}, RoundDone(next)
    PROVE  /\ sh' \in Shells /\ sh'.pc \in ScrollPlaces /\ sh'.row \in ScrollRange
           /\ sh'.p = sh.p /\ sh'.buffer = sh.buffer
<1> USE Sizes
<1>1. sh.row \in Int /\ sh.row >= ScrollFirst
  BY DEF ScrollRange
<1>2. sh.pc \in Places /\ next \in Places
  BY DEF Places, ScrollPlaces
<1>3. CASE sh.row < SCREEN_HEIGHT - 1
  <2>1. sh' = [sh EXCEPT !.pc = sh.pc, !.row = sh.row + 1]
    BY <1>3 DEF RoundDone, Shells
  <2>2. /\ sh' \in Shells /\ sh'.pc = sh.pc /\ sh'.row = sh.row + 1
        /\ sh'.p = sh.p /\ sh'.buffer = sh.buffer
    <3>1. sh.row + 1 \in Int
      BY <1>1
    <3>2. QED
      BY <1>2, <2>1, <3>1, RowFields
  <2>3. QED
    BY <1>1, <1>3, <2>2 DEF ScrollRange, ScrollPlaces
<1>4. CASE ~(sh.row < SCREEN_HEIGHT - 1)
  <2>1. sh' = [sh EXCEPT !.pc = next, !.row = ScrollFirst]
    BY <1>4 DEF RoundDone
  <2>2. /\ sh' \in Shells /\ sh'.pc = next /\ sh'.row = ScrollFirst
        /\ sh'.p = sh.p /\ sh'.buffer = sh.buffer
    <3>1. ScrollFirst \in Int
      OBVIOUS
    <3>2. QED
      BY <1>2, <2>1, <3>1, RowFields
  <2>3. QED
    BY <2>2 DEF ScrollRange, ScrollPlaces
<1>5. QED
  BY <1>3, <1>4

\* A row of the first loop: old_screen forgets it.
LEMMA ScrollOldInv == Inv /\ ScrollOld => Inv'
<1> SUFFICES ASSUME Inv, ScrollOld PROVE Inv'
  OBVIOUS
<1>1. /\ Runs(Shell) /\ screen' = scroll_old(screen, {sh.row}) /\ sh.pc = "scroll_old"
      /\ RoundDone("scroll_new")
      /\ UNCHANGED <<current_running, alive, context, cursor, keys, fifo, prog, line>>
  BY DEF ScrollOld, Here, Others, table
<1>2. screen \in Screens /\ Faithful(screen) /\ sh \in Shells /\ screen.y >= ScrollFirst
  BY <1>1, ShellHere
<1>3. screen' \in Screens /\ Faithful(screen') /\ screen'.y = screen.y
  BY <1>1, <1>2, ScrollOldDoes
<1>4. /\ sh' \in Shells /\ sh'.pc \in ScrollPlaces /\ sh'.row \in ScrollRange
      /\ sh'.p = sh.p /\ sh'.buffer = sh.buffer
  BY <1>1, <1>2, RoundFields DEF Inv, Writers, ScrollPlaces
<1>5. Typed'
  BY <1>1, <1>4, SameLine DEF Inv, ScrollPlaces
<1>6. sh'.pc \notin {"reflush", "command", "ps"}
  BY <1>4 DEF ScrollPlaces
<1>7. QED
  BY <1>1, <1>2, <1>3, <1>4, <1>5, <1>6, LinesKept, ShellKeeps

\* A row of the second loop: it takes the row below.
LEMMA ScrollNewInv == Inv /\ ScrollNew => Inv'
<1> SUFFICES ASSUME Inv, ScrollNew PROVE Inv'
  OBVIOUS
<1>1. /\ Runs(Shell) /\ screen' = scroll_new(screen, {sh.row}) /\ sh.pc = "scroll_new"
      /\ RoundDone("scroll_end")
      /\ UNCHANGED <<current_running, alive, context, cursor, keys, fifo, prog, line>>
  BY DEF ScrollNew, Here, Others, table
<1>2. screen \in Screens /\ Faithful(screen) /\ sh \in Shells /\ screen.y >= ScrollFirst
  BY <1>1, ShellHere
<1>3. /\ screen' \in Screens /\ screen'.y = screen.y
      /\ screen'.old = screen.old /\ screen'.term = screen.term
  BY <1>1, <1>2, ScrollNewDoes
<1>4. /\ sh' \in Shells /\ sh'.pc \in ScrollPlaces /\ sh'.row \in ScrollRange
      /\ sh'.p = sh.p /\ sh'.buffer = sh.buffer
  BY <1>1, <1>2, RoundFields DEF Inv, Writers, ScrollPlaces
<1>5. Typed'
  BY <1>1, <1>4, SameLine DEF Inv, ScrollPlaces
<1>6. sh'.pc \notin {"reflush", "command", "ps"} /\ Faithful(screen')
  BY <1>2, <1>3, <1>4 DEF ScrollPlaces, Faithful
<1>7. QED
  BY <1>1, <1>2, <1>3, <1>4, <1>5, <1>6, LinesKept, ShellKeeps

\* The end of the scroll: the cursor is at the beginning of the last line.
LEMMA ScrollEndInv == Inv /\ ScrollEnd => Inv'
<1> SUFFICES ASSUME Inv, ScrollEnd PROVE Inv'
  OBVIOUS
<1> USE Sizes
<1>1. /\ Runs(Shell) /\ screen' = screen_move_cursor(screen, 0, SCREEN_HEIGHT - 1)
      /\ sh' = [sh EXCEPT !.pc = "reflush"]
      /\ UNCHANGED <<current_running, alive, context, cursor, keys, fifo, prog, line>>
  BY DEF ScrollEnd, BottomLine, screen_move_cursor, Here, Goto, Others, table
<1>2. screen \in Screens /\ Faithful(screen) /\ sh \in Shells
  BY <1>1, ShellHere
<1>3. screen' \in Screens /\ screen'.x = 0 /\ screen'.y = SCREEN_HEIGHT - 1 /\ Faithful(screen')
  <2>1. SCREEN_HEIGHT - 1 \in Int /\ 0 \in Int
    OBVIOUS
  <2>2. QED
    BY <1>1, <1>2, <2>1, MoveDoes
<1>4. "reflush" \in Places /\ "reflush" \notin ScrollPlaces
  BY DEF Places, Reading, ScrollPlaces
<1>5. sh' \in Shells /\ sh'.pc = "reflush" /\ sh'.p = sh.p /\ sh'.buffer = sh.buffer
  BY <1>1, <1>2, <1>4, GotoFields
<1>6. Inside(screen') /\ screen'.y >= ScrollFirst
  BY <1>3 DEF Inside, Columns, Lines
<1>7. Typed'
  BY <1>1, <1>5, SameLine DEF Inv
<1>8. QED
  BY <1>1, <1>3, <1>4, <1>5, <1>6, <1>7, LinesKept, ShellKeeps

\* The command is interpreted: nothing is printed yet.
LEMMA InterpretInv == Inv /\ Interpret => Inv'
<1> SUFFICES ASSUME Inv, Interpret PROVE Inv'
  OBVIOUS
<1>1. /\ Runs(Shell) /\ screen' = screen /\ sh.pc = "command"
      /\ sh' = [sh EXCEPT !.pc = cmd_inter[1], !.para = cmd_inter[2]]
      /\ UNCHANGED <<current_running, alive, context, cursor, keys, fifo, prog, line>>
  BY DEF Interpret, Here, Others, table
<1>2. /\ screen \in Screens /\ Faithful(screen) /\ sh \in Shells
      /\ Inside(screen) /\ screen.y >= ScrollFirst
  BY <1>1, ShellHere DEF ScrollPlaces
<1>3. <<screen.tx, screen.ty>> = <<screen.x, screen.y>> /\ screen.x = 0
  BY <1>1, ShellHere DEF Inv, Shown, AfterEnter
<1>4. PICK c, n : cmd_inter = <<c, n>> /\ n \in Int
             /\ \/ c \in {"ps", "clear", "help"} /\ line = <<c>>
                \/ c \in {"prompt", "unknown", "invalid"}
                \/ /\ c \in {"exec", "kill"} /\ line # <<>> /\ line[1] = c
                   /\ n >= 0 /\ Spells(Tail(line), n)
  <2>1. Types /\ Typed
    BY DEF Inv
  <2>2. 0 \in Int /\ -1 \in Int
    OBVIOUS
  <2>3. QED
    BY <2>1, <2>2, Interpreted
<1>5. c \in {"ps", "clear", "help", "prompt", "unknown", "invalid", "exec", "kill"}
  BY <1>4
<1>6. c \in Places /\ c \notin ScrollPlaces /\ c \notin {"spawn", "kill_call"}
  BY <1>5 DEF Places, Reading, Commands, ScrollPlaces
<1>7. sh' = [sh EXCEPT !.pc = c, !.para = n]
  BY <1>1, <1>4
<1>8. sh'.pc = c /\ sh'.para = n /\ sh'.p = sh.p /\ sh'.buffer = sh.buffer
  BY <1>2, <1>7 DEF Shells
<1>9. sh' \in Shells
  BY <1>2, <1>4, <1>6, <1>7 DEF Shells
<1>10. Typed'
  <2>1. /\ Len(line) + Len(fifo) + Len(keys) < COMMAND_MAX_LEN
        /\ sh.p = Len(line) + 1 /\ sh.buffer = Padded(line)
    BY DEF Inv, Typed
  <2>2. Padded(line)' = Padded(line)
    BY <1>1 DEF Padded
  <2>3. /\ c = "exec" => HasParameter("exec")'
        /\ c = "kill" => HasParameter("kill")'
    BY <1>1, <1>4, <1>8 DEF HasParameter
  <2>4. c \in {"ps", "clear", "help"} => line' = <<c>>
    BY <1>1, <1>4
  <2>5. QED
    BY <1>1, <1>6, <1>8, <2>1, <2>2, <2>3, <2>4 DEF Typed
<1>11. QED
  BY <1>1, <1>2, <1>3, <1>6, <1>8, <1>9, <1>10, LinesKept, ShellKeeps

\* ps: the cursor goes down, below the screen by as many lines as there may be
\* processes.
LEMMA ShowProcessesInv == Inv /\ ShowProcesses => Inv'
<1> SUFFICES ASSUME Inv, ShowProcesses PROVE Inv'
  OBVIOUS
<1> USE Sizes
<1>1. /\ Runs(Shell) /\ screen' = process_show /\ sh.pc = "ps"
      /\ sh' = [sh EXCEPT !.pc = "prompt"]
      /\ UNCHANGED <<current_running, alive, context, cursor, keys, fifo, prog, line>>
  BY DEF ShowProcesses, Here, Goto, Others, table
<1>2. /\ screen \in Screens /\ Faithful(screen) /\ sh \in Shells
      /\ Inside(screen) /\ screen.y >= ScrollFirst
  BY <1>1, ShellHere DEF ScrollPlaces
<1>3. alive \subseteq Procs
  BY DEF Inv, Types
<1>4. /\ Cardinality(alive) \in Nat /\ Cardinality(alive) <= NUM_MAX_TASK - 1
      /\ NUM_MAX_TASK \in Nat
  BY <1>3, ProcessCount, ConsoleAssumption
<1>5. /\ screen' \in Screens /\ Faithful(screen') /\ screen'.x = screen.x
      /\ screen'.y = screen.y + Cardinality(alive) + 1
  BY <1>1, <1>2, <1>3, ProcessShowDoes
<1>6. screen.x = 0 /\ line' = <<"ps">>
  BY <1>1, ShellHere DEF AfterEnter, Inv, Typed
<1>7. screen'.y >= ScrollFirst /\ (Inside(screen') \/ Beneath(screen'))
  <2>1. screen.y \in Int /\ screen.y < SCREEN_HEIGHT /\ screen.y >= 0
    BY <1>2 DEF Inside, Lines
  <2>2. /\ screen'.y \in Int /\ screen'.y >= 0 /\ screen'.y >= ScrollFirst
        /\ screen'.y <= SCREEN_HEIGHT + NUM_MAX_TASK - 1
    BY <1>2, <1>4, <1>5, <2>1
  <2>3. CASE screen'.y < SCREEN_HEIGHT
    BY <1>2, <1>5, <2>2, <2>3 DEF Inside, Lines
  <2>4. CASE screen'.y >= SCREEN_HEIGHT
    BY <1>4, <1>5, <1>6, <2>2, <2>4 DEF Beneath
  <2>5. QED
    BY <2>2, <2>3, <2>4
<1>8. "prompt" \in Places /\ "prompt" \notin ScrollPlaces
  BY DEF Places, Reading, ScrollPlaces
<1>9. sh' \in Shells /\ sh'.pc = "prompt" /\ sh'.p = sh.p /\ sh'.buffer = sh.buffer
  BY <1>1, <1>2, <1>8, GotoFields
<1>10. Typed'
  BY <1>1, <1>9, SameLine DEF Inv
<1>11. QED
  BY <1>1, <1>5, <1>6, <1>7, <1>8, <1>9, <1>10, LinesKept, ShellKeeps

\* clear leaves the cursor in the corner; the shell moves it next.
LEMMA ClearInv == Inv /\ Clear => Inv'
<1> SUFFICES ASSUME Inv, Clear PROVE Inv'
  OBVIOUS
<1> USE Sizes
<1>1. /\ Runs(Shell) /\ screen' = screen_clear(screen, SHELL_START_LINE + 1, SCREEN_HEIGHT - 1)
      /\ sh' = [sh EXCEPT !.pc = "clear_move"]
      /\ UNCHANGED <<current_running, alive, context, cursor, keys, fifo, prog, line>>
  BY DEF Clear, Here, Goto, Others, table
<1>2. screen \in Screens /\ Faithful(screen) /\ sh \in Shells
  BY <1>1, ShellHere
<1>3. SHELL_START_LINE + 1 \in Int /\ SCREEN_HEIGHT - 1 \in Int
  OBVIOUS
<1>4. screen' \in Screens /\ Faithful(screen') /\ screen'.x = 0 /\ screen'.y = 0
  BY <1>1, <1>2, <1>3, ClearDoes
<1>5. Inside(screen')
  BY <1>4 DEF Inside, Columns, Lines
<1>6. "clear_move" \in Places /\ "clear_move" \notin ScrollPlaces
  BY DEF Places, Commands, ScrollPlaces
<1>7. sh' \in Shells /\ sh'.pc = "clear_move" /\ sh'.p = sh.p /\ sh'.buffer = sh.buffer
  BY <1>1, <1>2, <1>6, GotoFields
<1>8. Typed'
  BY <1>1, <1>7, SameLine DEF Inv
<1>9. QED
  BY <1>1, <1>4, <1>5, <1>6, <1>7, <1>8, LinesKept, ShellKeeps

\* A new command: line and buffer are empty.
LEMMA NextCommandInv == Inv /\ NextCommand => Inv'
<1> SUFFICES ASSUME Inv, NextCommand PROVE Inv'
  OBVIOUS
<1>1. /\ Runs(Shell) /\ screen' = screen_write(screen, <<Prompt>>) /\ sh.pc = "prompt"
      /\ sh' = [sh EXCEPT !.pc = "prompt_reflush", !.buffer = EmptyBuffer, !.p = 1, !.para = 0]
      /\ line' = <<>>
      /\ UNCHANGED <<current_running, alive, context, cursor, keys, fifo, prog>>
  BY DEF NextCommand, Here, table
<1>2. /\ screen \in Screens /\ Faithful(screen) /\ sh \in Shells
      /\ Inside(screen) \/ Beneath(screen)
      /\ screen.y >= ScrollFirst
  BY <1>1, ShellHere DEF ScrollPlaces
<1>3. Prompt \in Chars
  BY DEF Chars
<1>4. screen' \in Screens /\ Inside(screen') /\ Faithful(screen') /\ screen'.y >= ScrollFirst
  <2>1. CASE Inside(screen)
    BY <1>1, <1>2, <1>3, <2>1, ShellWrites
  <2>2. CASE Beneath(screen)
    BY <1>1, <1>2, <2>2, WriteOne, PromptWritten
  <2>3. QED
    BY <1>2, <2>1, <2>2
<1>5. "prompt_reflush" \in Places /\ "prompt_reflush" \notin ScrollPlaces
  BY DEF Places, Reading, ScrollPlaces
<1>6. sh'.pc = "prompt_reflush" /\ sh'.buffer = EmptyBuffer /\ sh'.p = 1
  BY <1>1, <1>2 DEF Shells
<1>7. sh' \in Shells
  <2>1. EmptyBuffer \in [1..COMMAND_MAX_LEN -> Chars]
    BY DEF EmptyBuffer, Chars
  <2> DEFINE one == 1
             zero == 0
  <2>2. one \in Nat /\ zero \in Int
    OBVIOUS
  <2>3. sh' = [sh EXCEPT !.pc = "prompt_reflush", !.buffer = EmptyBuffer, !.p = one, !.para = zero]
    BY <1>1
  <2> HIDE DEF EmptyBuffer, one, zero
  <2>4. QED
    BY <1>2, <1>5, <2>1, <2>2, <2>3 DEF Shells
<1>8. keys' \in Seq(Keys) /\ fifo' \in Seq(Keys) /\ line' \in Seq(Keys)
  BY <1>1 DEF Inv, Types
<1>9. Typed'
  <2>1. Len(line') = 0 /\ Len(fifo') = Len(fifo) /\ Len(keys') = Len(keys)
    BY <1>1
  <2>2. Len(line) \in Nat /\ Len(fifo) \in Nat /\ Len(keys) \in Nat /\ COMMAND_MAX_LEN \in Nat
    BY ConsoleAssumption DEF Inv, Types
  <2>3. Len(line') + Len(fifo') + Len(keys') < COMMAND_MAX_LEN
    BY <2>1, <2>2 DEF Inv, Typed
  <2>4. EmptyBuffer = Padded(line')
    BY <2>1, <2>2 DEF EmptyBuffer, Padded
  <2>5. QED
    BY <1>6, <2>1, <2>3, <2>4 DEF Typed, Padded
<1>10. QED
  BY <1>1, <1>4, <1>5, <1>6, <1>7, <1>8, <1>9, ShellKeeps

\* A key arrives.
LEMMA TypeInv == Inv /\ Type => Inv'
<1> SUFFICES ASSUME Inv, Type PROVE Inv'
  OBVIOUS
<1>1. /\ keys # <<>> /\ fifo' = Append(fifo, Head(keys)) /\ keys' = Tail(keys)
      /\ UNCHANGED <<current_running, alive, context, cursor, screen, sh, prog, line>>
  BY DEF Type, table
<1>2. keys \in Seq(Keys) /\ fifo \in Seq(Keys) /\ line \in Seq(Keys)
  BY DEF Inv, Types
<1>3. /\ keys' \in Seq(Keys) /\ fifo' \in Seq(Keys)
      /\ Len(keys') = Len(keys) - 1 /\ Len(fifo') = Len(fifo) + 1
      /\ Len(keys) \in Nat /\ Len(fifo) \in Nat /\ Len(line) \in Nat
  BY <1>1, <1>2
<1>4. Types'
  BY <1>1, <1>3 DEF Inv, Types
<1>5. Writers'
  BY <1>1 DEF Inv, Writers, CursorInside, Scrolling, BelowTable, AtHome, AfterEnter, AtLine,
     Position, Runs
<1>6. Shown'
  BY <1>1 DEF Inv, Shown, RefreshFaithful, Runs
<1>7. Typed'
  BY <1>1, <1>3 DEF Inv, Typed, HasParameter, Padded
<1>8. QED
  BY <1>4, <1>5, <1>6, <1>7 DEF Inv

\* The buffer and the line after a key: the buffer holds the line again.
LEMMA EditKeeps ==
    ASSUME sh \in Shells, line \in Seq(Keys), Len(line) + 1 < COMMAND_MAX_LEN,
           sh.p = Len(line) + 1, sh.buffer = Padded(line), NEW ch \in Keys, NEW l,
           l = CASE ch = BS -> IF line = <<>> THEN line ELSE Front(line)
                 [] ch = CR -> line
                 [] OTHER   -> Append(line, ch)
    PROVE  /\ l \in Seq(Keys) /\ Len(l) <= Len(line) + 1
           /\ LET e == EditBuffer(ch)
              IN  e \in Shells /\ e.p = Len(l) + 1 /\ e.buffer = Padded(l)
<1> DEFINE e == EditBuffer(ch)
           N == Len(line)
<1>1. N \in Nat /\ COMMAND_MAX_LEN \in Nat /\ (line = <<>> <=> N = 0)
  BY ConsoleAssumption
<1>2. CASE ch = CR \/ (ch = BS /\ line = <<>>)
  <2>1. e = sh /\ l = line
    BY <1>1, <1>2 DEF EditBuffer, BS, CR
  <2>2. QED
    BY <1>1, <2>1
<1>3. CASE ch = BS /\ line # <<>>
  <2> DEFINE b == [sh.buffer EXCEPT ![sh.p - 1] = NUL]
             q == sh.p - 1
  <2>1. e = [sh EXCEPT !.buffer = b, !.p = q]
    BY <1>1, <1>3 DEF EditBuffer, Shells, BS, CR
  <2>2. l = SubSeq(line, 1, N - 1)
    BY <1>3 DEF Front, BS, CR
  <2>3. l \in Seq(Keys) /\ Len(l) = N - 1 /\ \A n \in 1..(N - 1) : l[n] = line[n]
    BY <1>1, <1>3, <2>2
  <2>4. q = N /\ q \in Nat
    BY <1>1
  <2>5. b = Padded(l)
    <3>1. b = [n \in 1..COMMAND_MAX_LEN |-> IF n = N THEN NUL ELSE sh.buffer[n]]
      BY <1>1, <2>4 DEF Padded
    <3>2. ASSUME NEW n \in 1..COMMAND_MAX_LEN
          PROVE  (IF n = N THEN NUL ELSE sh.buffer[n]) = IF n <= Len(l) THEN l[n] ELSE NUL
      <4>1. sh.buffer[n] = IF n <= N THEN line[n] ELSE NUL
        BY DEF Padded
      <4>2. QED
        BY <1>1, <1>3, <2>3, <4>1
    <3>3. QED
      BY <3>1, <3>2 DEF Padded
  <2>6. b \in [1..COMMAND_MAX_LEN -> Chars]
    <3>1. sh.buffer \in [1..COMMAND_MAX_LEN -> Chars] /\ NUL \in Chars
      BY DEF Shells, Chars
    <3>2. QED
      BY <3>1
  <2> HIDE DEF b, q
  <2>7. e.buffer = b /\ e.p = q
    BY <2>1 DEF Shells
  <2>8. e \in Shells
    BY <2>1, <2>4, <2>6 DEF Shells
  <2>9. QED
    BY <1>1, <2>3, <2>4, <2>5, <2>7, <2>8
<1>4. CASE ch \notin {BS, CR}
  <2> DEFINE b == [sh.buffer EXCEPT ![sh.p] = ch]
             q == sh.p + 1
  <2>1. e = [sh EXCEPT !.buffer = b, !.p = q]
    BY <1>4 DEF EditBuffer, Shells
  <2>2. l = Append(line, ch)
    BY <1>4
  <2>3. l \in Seq(Keys) /\ Len(l) = N + 1 /\ l[N + 1] = ch /\ \A n \in 1..N : l[n] = line[n]
    BY <1>1, <2>2
  <2>4. q = N + 2 /\ q \in Nat
    BY <1>1
  <2>5. b = Padded(l)
    <3>1. b = [n \in 1..COMMAND_MAX_LEN |-> IF n = N + 1 THEN ch ELSE sh.buffer[n]]
      BY <1>1 DEF Padded
    <3>2. ASSUME NEW n \in 1..COMMAND_MAX_LEN
          PROVE  (IF n = N + 1 THEN ch ELSE sh.buffer[n]) = IF n <= Len(l) THEN l[n] ELSE NUL
      <4>1. sh.buffer[n] = IF n <= N THEN line[n] ELSE NUL
        BY DEF Padded
      <4>2. QED
        BY <1>1, <2>3, <4>1
    <3>3. QED
      BY <3>1, <3>2 DEF Padded
  <2>6. b \in [1..COMMAND_MAX_LEN -> Chars]
    <3>1. sh.buffer \in [1..COMMAND_MAX_LEN -> Chars] /\ ch \in Chars
      BY DEF Shells, Chars
    <3>2. QED
      BY <3>1
  <2> HIDE DEF b, q
  <2>7. e.buffer = b /\ e.p = q
    BY <2>1 DEF Shells
  <2>8. e \in Shells
    BY <2>1, <2>4, <2>6 DEF Shells
  <2>9. QED
    BY <1>1, <2>3, <2>4, <2>5, <2>7, <2>8
<1>5. QED
  BY <1>2, <1>3, <1>4

\* The shell reads: the last key in the port, the others are lost.
LEMMA ReadInv == Inv /\ Read => Inv'
<1> SUFFICES ASSUME Inv, Read PROVE Inv'
  OBVIOUS
<1> DEFINE ch == Last(fifo)
           e == EditBuffer(ch)
           next == IF ch = BS /\ sh.p = 1 THEN "read" ELSE "echo"
<1>1. /\ Runs(Shell) /\ sh.pc = "read" /\ fifo # <<>> /\ fifo' = <<>>
      /\ sh' = [e EXCEPT !.pc = next, !.ch = ch]
      /\ line' = CASE ch = BS -> IF line = <<>> THEN line ELSE Front(line)
                   [] ch = CR -> line
                   [] OTHER   -> Append(line, ch)
      /\ UNCHANGED <<current_running, alive, context, cursor, screen, keys, prog>>
  BY DEF Read, Here, table
<1>2. /\ screen \in Screens /\ Faithful(screen) /\ sh \in Shells
      /\ Inside(screen) /\ screen.y >= ScrollFirst
  BY <1>1, ShellHere DEF ScrollPlaces
<1>3. keys \in Seq(Keys) /\ fifo \in Seq(Keys) /\ line \in Seq(Keys)
  BY DEF Inv, Types
<1>4. /\ Len(keys) \in Nat /\ Len(fifo) \in Nat /\ Len(line) \in Nat /\ Len(fifo) >= 1
      /\ COMMAND_MAX_LEN \in Nat
  BY <1>1, <1>3, ConsoleAssumption
<1>5. ch \in Keys
  BY <1>3, <1>4 DEF Last
<1>6. next \in {"read", "echo"}
  OBVIOUS
<1> HIDE DEF ch, next
<1>7. /\ Len(line) + Len(fifo) + Len(keys) < COMMAND_MAX_LEN
      /\ sh.p = Len(line) + 1 /\ sh.buffer = Padded(line)
  BY DEF Inv, Typed
<1>8. Len(line) + 1 < COMMAND_MAX_LEN
  BY <1>4, <1>7
<1>9. /\ line' \in Seq(Keys) /\ Len(line') <= Len(line) + 1
      /\ e \in Shells /\ e.p = Len(line') + 1 /\ e.buffer = Padded(line')
  BY <1>1, <1>2, <1>3, <1>5, <1>7, <1>8, EditKeeps
<1> HIDE DEF e
<1>10. sh'.pc = next /\ sh'.p = e.p /\ sh'.buffer = e.buffer
  BY <1>1, <1>9 DEF Shells
<1>11. sh' \in Shells
  <2>1. next \in Places /\ ch \in Chars
    BY <1>5, <1>6 DEF Places, Reading, Chars
  <2>2. QED
    BY <1>1, <1>9, <2>1 DEF Shells
<1>12. Typed'
  <2>1. Len(line') \in Nat /\ Len(fifo') = 0 /\ keys' = keys /\ fifo' \in Seq(Keys)
    BY <1>1, <1>9
  <2>2. Len(line') + Len(fifo') + Len(keys') < COMMAND_MAX_LEN
    BY <1>4, <1>7, <1>9, <2>1
  <2>3. QED
    BY <1>6, <1>9, <1>10, <2>2 DEF Typed, Padded
<1>13. next \notin ScrollPlaces
  BY <1>6 DEF ScrollPlaces
<1>14. fifo' \in Seq(Keys) /\ keys' \in Seq(Keys)
  BY <1>1, <1>3
<1>15. QED
  BY <1>1, <1>2, <1>6, <1>9, <1>10, <1>11, <1>12, <1>13, <1>14, ShellKeeps

\* A timer interrupt.
LEMMA TimerInv == Inv /\ Timer => Inv'
<1> SUFFICES ASSUME Inv, Timer PROVE Inv'
  OBVIOUS
<1>1. do_scheduler("timer", screen) /\ UNCHANGED <<alive, keys, fifo, sh, prog, line>>
  BY DEF Timer, table
<1>2. /\ screen \in Screens /\ Faithful(screen) /\ sh' \in Shells /\ alive' \subseteq Procs
      /\ Shell \in alive'
      /\ prog' \in [Programs -> Progs]
  BY <1>1 DEF Inv, Types, Shown, RefreshFaithful, Faithful
<1>3. Typed'
  BY <1>1 DEF Inv, Typed, HasParameter, Padded
<1>4. QED
  BY <1>1, <1>2, <1>3, SwitchKeeps

\* exec: the new program takes the first free slot and is to move first.
LEMMA SpawnInv == Inv /\ Spawn => Inv'
<1> SUFFICES ASSUME Inv, Spawn PROVE Inv'
  OBVIOUS
<1>1. Runs(Shell) /\ sh.pc = "spawn" /\ UNCHANGED <<keys, fifo, line>>
  BY DEF Spawn, Here
<1>2. /\ screen \in Screens /\ Faithful(screen) /\ sh \in Shells
      /\ Inside(screen) /\ screen.y >= ScrollFirst
  BY <1>1, ShellHere DEF ScrollPlaces
<1>3. {"prompt", "stopped"} \subseteq Places \ ScrollPlaces
  BY DEF Places, Reading, ScrollPlaces
<1>4. CASE sh.para < num_test_tasks /\ Programs \ alive # {}
  <2>1. do_spawn(sh.para) /\ sh' = [sh EXCEPT !.pc = "prompt"] /\ do_scheduler("user", screen)
    BY <1>4 DEF Spawn, Goto
  <2> DEFINE Free == Programs \ alive
             slot == CHOOSE q \in Free : \A r \in Free : q <= r
             started == [lines |-> TaskLines[sh.para], text |-> "a",
                         pc |-> IF sh.para = SunQuan THEN "hello" ELSE "move"]
  <2>2. alive' = alive \cup {slot} /\ prog' = [prog EXCEPT ![slot] = started]
    BY <2>1 DEF do_spawn
  <2>3. slot \in Programs
    <3>1. Free \in SUBSET Nat /\ Free # {}
      BY <1>4, ConsoleAssumption DEF Programs
    <3> HIDE DEF Free
    <3>2. \E q \in Free : \A r \in Free : q <= r
      BY <3>1, Least
    <3>3. slot \in Free
      BY <3>2
    <3>4. QED
      BY <3>3 DEF Free
  <2> HIDE DEF slot
  <2>4. alive' \subseteq Procs /\ Shell \in alive'
    BY <2>2, <2>3 DEF Inv, Types, Procs
  <2>5. started \in Progs /\ started.pc # "print"
    <3>1. sh.para \in Int /\ sh.para >= 0
      BY <1>1, <1>2 DEF Shells, Inv, Typed, HasParameter
    <3>2. sh.para \in 0..(num_test_tasks - 1)
      BY <1>4, <3>1 DEF num_test_tasks
    <3>3. TaskLines[sh.para] \in SUBSET (0..(ScrollFirst - 1))
      BY <3>2, ConsoleAssumption
    <3>4. QED
      BY <3>3 DEF Progs
  <2> HIDE DEF started
  <2>6. prog \in [Programs -> Progs]
    BY DEF Inv, Types
  <2>7. prog' \in [Programs -> Progs]
    BY <2>2, <2>5, <2>6
  <2>8. \A q \in Programs : prog'[q].pc = "print" => prog'[q] = prog[q]
    BY <2>2, <2>5, <2>6
  <2>9. sh' \in Shells /\ sh'.pc = "prompt" /\ sh'.p = sh.p /\ sh'.buffer = sh.buffer
    BY <1>2, <1>3, <2>1, GotoFields
  <2>10. Typed'
    BY <1>1, <2>9, SameLine DEF Inv
  <2>11. sh.pc \notin {"start", "clear_move", "prompt"} \cup ScrollPlaces
    BY <1>1 DEF ScrollPlaces
  <2>12. QED
    BY <1>1, <1>2, <2>1, <2>4, <2>7, <2>8, <2>9, <2>10, <2>11, SwitchKeeps
<1>5. CASE ~(sh.para < num_test_tasks /\ Programs \ alive # {})
  <2>1. /\ sh' = [sh EXCEPT !.pc = "stopped"]
        /\ UNCHANGED <<current_running, alive, context, cursor, screen, prog>>
    BY <1>5 DEF Spawn, Goto, table
  <2>2. sh' \in Shells /\ sh'.pc = "stopped" /\ sh'.p = sh.p /\ sh'.buffer = sh.buffer
    BY <1>2, <1>3, <2>1, GotoFields
  <2>3. Typed'
    BY <1>1, <2>2, SameLine DEF Inv
  <2>4. QED
    BY <1>1, <1>2, <1>3, <2>1, <2>2, <2>3, LinesKept, ShellKeeps
<1>6. QED
  BY <1>4, <1>5

\* kill.
LEMMA KillInv == Inv /\ Kill => Inv'
<1> SUFFICES ASSUME Inv, Kill PROVE Inv'
  OBVIOUS
<1> DEFINE found == {q \in Programs : pid[q] = sh.para}
           s == IF found = {} THEN printk({screen.ty - 1}, 1) ELSE screen
<1>1. /\ Runs(Shell) /\ sh.pc = "kill_call" /\ UNCHANGED <<keys, fifo, line, prog>>
      /\ alive' = alive \ found /\ do_scheduler("user", s) /\ sh' = [sh EXCEPT !.pc = "prompt"]
  BY DEF Kill, Here, do_kill, Goto
<1>2. screen \in Screens /\ Faithful(screen) /\ sh \in Shells
  BY <1>1, ShellHere
<1>3. s \in Screens /\ s.x = screen.x /\ s.y = screen.y /\ Faithful(s)
  <2>1. 1 \in Int
    OBVIOUS
  <2>2. QED
    BY <1>2, <2>1, PrintkDoes
<1>4. /\ alive' \subseteq Procs /\ Shell \in alive'
      /\ prog' \in [Programs -> Progs]
  BY <1>1 DEF Inv, Types, Shell, Programs
<1>5. "prompt" \in Places
  BY DEF Places, Reading
<1>6. sh' \in Shells /\ sh'.pc = "prompt" /\ sh'.p = sh.p /\ sh'.buffer = sh.buffer
  BY <1>1, <1>2, <1>5, GotoFields
<1>7. Typed'
  BY <1>1, <1>6, SameLine DEF Inv
<1>8. sh.pc \notin {"start", "clear_move", "prompt"} \cup ScrollPlaces
  BY <1>1 DEF ScrollPlaces
<1> HIDE DEF s
<1>9. QED
  BY <1>1, <1>3, <1>4, <1>6, <1>7, <1>8, SwitchKeeps

\* The next call of a program.
LEMMA ProgramFields ==
    ASSUME prog \in [Programs -> Progs], NEW p \in Programs, NEW next \in {"move", "print", "hello"},
           prog' = [prog EXCEPT ![p].pc = next]
    PROVE  /\ prog' \in [Programs -> Progs]
           /\ \A q \in Programs \ {p} : prog'[q] = prog[q]
           /\ prog'[p].lines = prog[p].lines /\ prog'[p].pc = next
BY DEF Progs

\* A program moves to one of its lines.
LEMMA ProgMoveInv ==
    ASSUME Inv, NEW p \in Programs, ProgMove(p)
    PROVE  Inv'
<1> USE Sizes
<1>1. /\ Runs(p) /\ prog' = [prog EXCEPT ![p].pc = "print"]
      /\ UNCHANGED <<current_running, alive, context, cursor, keys, fifo, sh, line>>
  BY DEF ProgMove, table
<1>2. PICK y \in prog[p].lines : screen' = screen_move_cursor(screen, 0, y)
  BY DEF ProgMove
<1>3. screen \in Screens /\ Faithful(screen) /\ prog \in [Programs -> Progs]
  BY DEF Inv, Types, Shown, RefreshFaithful, Faithful
<1>4. y \in 0..(ScrollFirst - 1) /\ y \in Int /\ 0 \in Int
  BY <1>3 DEF Progs
<1>5. screen' \in Screens /\ screen'.x = 0 /\ screen'.y = y /\ Faithful(screen')
  BY ONLY <1>2, <1>3, <1>4, MoveDoes
<1>6. Inside(screen')
  BY <1>4, <1>5 DEF Inside, Columns, Lines
<1>7. /\ prog' \in [Programs -> Progs]
      /\ \A q \in Programs \ {p} : prog'[q] = prog[q]
      /\ prog'[p].lines = prog[p].lines
  BY <1>1, <1>3, ProgramFields
<1>8. QED
  BY <1>1, <1>5, <1>6, <1>7, ProgramKeeps

\* The cursor of a program that is to print.
LEMMA ProgramHere ==
    ASSUME Inv, NEW p \in Programs, Runs(p), prog[p].pc = "print"
    PROVE  /\ screen \in Screens /\ Faithful(screen)
           /\ screen.x = 0 /\ screen.y \in prog[p].lines /\ screen.y \in 0..(ScrollFirst - 1)
           /\ prog[p].text \in {"a", "b"}
<1>1. screen \in Screens /\ Faithful(screen) /\ prog \in [Programs -> Progs]
  BY DEF Inv, Types, Shown, RefreshFaithful, Faithful
<1>2. p \in Procs /\ AtLine(p)
  BY DEF Inv, Writers, Procs
<1>3. Position(p) = <<screen.x, screen.y>>
  BY DEF Position
<1>4. screen.x = 0 /\ screen.y \in prog[p].lines
  BY <1>2, <1>3 DEF AtLine
<1>5. QED
  BY <1>1, <1>4 DEF Progs

\* A program prints on its line.
LEMMA ProgPrintInv ==
    ASSUME Inv, NEW p \in Programs, ProgPrint(p)
    PROVE  Inv'
<1>1. /\ Runs(p) /\ prog[p].pc = "print" /\ screen' = screen_write(screen, <<Prompt, prog[p].text>>)
      /\ prog' = [prog EXCEPT ![p].pc = "move",
                              ![p].text = IF prog[p].text = "a" THEN "b" ELSE "a"]
      /\ UNCHANGED <<current_running, alive, context, cursor, keys, fifo, sh, line>>
  BY DEF ProgPrint, table
<1>2. /\ screen \in Screens /\ Faithful(screen)
      /\ screen.x = 0 /\ screen.y \in 0..(ScrollFirst - 1) /\ prog[p].text \in {"a", "b"}
  BY <1>1, ProgramHere
<1>3. screen' \in Screens /\ Inside(screen') /\ Faithful(screen')
  BY <1>1, <1>2, ProgramWrites
<1>4. /\ prog' \in [Programs -> Progs]
      /\ \A q \in Programs \ {p} : prog'[q] = prog[q]
      /\ prog'[p].pc = "move"
  BY <1>1 DEF Inv, Types, Progs
<1>5. QED
  BY <1>1, <1>3, <1>4, ProgramKeeps

\* What SunQuan prints first is stored wherever its cursor is, on the screen.
LEMMA ProgHelloInv ==
    ASSUME Inv, NEW p \in Programs, ProgHello(p)
    PROVE  Inv'
<1>1. /\ Runs(p) /\ screen' = screen_write(screen, <<".">>)
      /\ prog' = [prog EXCEPT ![p].pc = "move"]
      /\ UNCHANGED <<current_running, alive, context, cursor, keys, fifo, sh, line>>
  BY DEF ProgHello, table
<1>2. screen \in Screens /\ Faithful(screen) /\ prog \in [Programs -> Progs]
  BY DEF Inv, Types, Shown, RefreshFaithful, Faithful
<1>3. Inside(screen)
  <2>1. p \in Procs /\ p # Shell /\ Position(p) = <<screen.x, screen.y>>
    BY <1>1 DEF Procs, Programs, Shell, Position
  <2>2. QED
    BY <2>1 DEF Inv, Writers, CursorInside, Scrolling, BelowTable, Inside
<1>4. screen' \in Screens /\ Inside(screen') /\ Faithful(screen')
  <2>1. "." \in Chars
    BY DEF Chars
  <2>2. QED
    BY <1>1, <1>2, <1>3, <2>1, WriteOne, WriteChDoes
<1>5. /\ prog' \in [Programs -> Progs]
      /\ \A q \in Programs \ {p} : prog'[q] = prog[q]
      /\ prog'[p].pc = "move"
  BY <1>1, <1>2, ProgramFields
<1>6. QED
  BY <1>1, <1>4, <1>5, ProgramKeeps

\* A program comes to its end.
LEMMA ProgExitInv ==
    ASSUME Inv, NEW p \in Programs, ProgExit(p)
    PROVE  Inv'
<1>1. /\ Runs(p) /\ alive' = alive \ {p} /\ do_scheduler("user", screen)
      /\ UNCHANGED <<keys, fifo, sh, prog, line>>
  BY DEF ProgExit
<1>2. /\ screen \in Screens /\ Faithful(screen) /\ sh' \in Shells /\ alive' \subseteq Procs
      /\ Shell \in alive'
      /\ prog' \in [Programs -> Progs]
  BY <1>1 DEF Inv, Types, Shown, RefreshFaithful, Faithful, Shell, Programs
<1>3. Typed'
  BY <1>1 DEF Inv, Typed, HasParameter, Padded
<1>4. ~Runs(Shell)
  BY <1>1 DEF Runs, Shell, Programs
<1>5. QED
  BY <1>1, <1>2, <1>3, <1>4, SwitchKeeps

-----------------------------------------------------------------------------
(***************************************************************************)
(* The theorems.                                                            *)
(***************************************************************************)

\* The shell's calls that move the cursor, print a text and refresh.
ShellMoves ==
    \E y \in {SHELL_START_LINE, SHELL_START_LINE + 1}, place \in {"start", "clear_move"},
       next \in {"divider", "prompt"} :
        Move(place, y, next)
ShellPrints ==
    \E place \in Printing, a, b \in Chars : \E text \in {<<a>>, <<a, b>>}, next \in Nexts :
        /\ next = "spawn" => place = "exec"
        /\ next = "kill_call" => place = "kill"
        /\ Write(place, text, next)
ShellRefreshes ==
    \E place \in {"reflush", "prompt_reflush"}, next \in {"command", "read"} :
        /\ next = "command" => place = "reflush" /\ sh.ch = CR
        /\ Refresh(place, next)

\* Every step of the shell is one of these.
LEMMA ShellStepCases ==
    ASSUME ShellStep
    PROVE  \/ ShellMoves \/ ShellPrints \/ ShellRefreshes
           \/ Echo \/ ScrollOld \/ ScrollNew \/ ScrollEnd \/ Interpret \/ ShowProcesses \/ Clear
           \/ Spawn \/ Kill \/ NextCommand
<1>1. {Divider, Prompt, NL, "e", "k", "!", "h", "?"} \subseteq Chars
  BY DEF Chars
<1>2. ASSUME NEW place \in Printing, NEW a \in Chars, NEW b \in Chars,
             NEW text \in {<<a>>, <<a, b>>}, NEW next \in Nexts,
             next = "spawn" => place = "exec", next = "kill_call" => place = "kill",
             Write(place, text, next)
      PROVE  ShellPrints
  BY <1>2 DEF ShellPrints
<1> USE DEF Printing, Nexts
<1>3. Write("divider", <<Divider, NL>>, "first_prompt") => ShellPrints
  BY <1>1, <1>2
<1>4. Write("first_prompt", <<Prompt>>, "read") => ShellPrints
  BY <1>1, <1>2
<1>5. Write("exec", <<"e", NL>>, "spawn") => ShellPrints
  BY <1>1, <1>2
<1>6. Write("kill", <<"k", NL>>, "kill_call") => ShellPrints
  BY <1>1, <1>2
<1>7. Write("invalid", <<"!", NL>>, "prompt") => ShellPrints
  BY <1>1, <1>2
<1>8. Write("help", <<"h", NL>>, "help_more") => ShellPrints
  BY <1>1, <1>2
<1>9. Write("help_more", <<"h", NL>>, "prompt") => ShellPrints
  BY <1>1, <1>2
<1>10. Write("unknown", <<"?", NL>>, "prompt") => ShellPrints
  BY <1>1, <1>2
<1>11. Move("start", SHELL_START_LINE, "divider") => ShellMoves
  BY DEF ShellMoves
<1>12. Move("clear_move", SHELL_START_LINE + 1, "prompt") => ShellMoves
  BY DEF ShellMoves
<1>13. Refresh("reflush", IF sh.ch = CR THEN "command" ELSE "read") => ShellRefreshes
  BY DEF ShellRefreshes
<1>14. Refresh("prompt_reflush", "read") => ShellRefreshes
  BY DEF ShellRefreshes
<1>15. QED
  BY <1>3, <1>4, <1>5, <1>6, <1>7, <1>8, <1>9, <1>10, <1>11, <1>12, <1>13, <1>14 DEF ShellStep

\* Every step keeps the invariant.
LEMMA NextInv == Inv /\ [Next]_vars => Inv'
<1> SUFFICES ASSUME Inv, [Next]_vars PROVE Inv'
  OBVIOUS
<1>1. CASE UNCHANGED vars
  <2>1. Types'
    BY <1>1 DEF vars, table, Inv, Types
  <2>2. Writers'
    BY <1>1 DEF vars, table, Inv, Writers, CursorInside, Scrolling, BelowTable, AtHome,
       AfterEnter, AtLine, Position, Runs
  <2>3. Shown'
    BY <1>1 DEF vars, table, Inv, Shown, RefreshFaithful, Runs
  <2>4. Typed'
    BY <1>1 DEF vars, table, Inv, Typed, HasParameter, Padded
  <2>5. QED
    BY <2>1, <2>2, <2>3, <2>4 DEF Inv
<1>2. CASE Timer
  BY <1>2, TimerInv
<1>3. CASE Type
  BY <1>3, TypeInv
<1>4. CASE Read
  BY <1>4, ReadInv
<1>5. CASE ShellStep
  <2>1. {SHELL_START_LINE, SHELL_START_LINE + 1} \subseteq ScrollFirst..(SCREEN_HEIGHT - 1)
    BY Sizes
  <2>2. ASSUME ShellMoves PROVE Inv'
    <3>1. PICK y \in {SHELL_START_LINE, SHELL_START_LINE + 1}, place \in {"start", "clear_move"},
               next \in {"divider", "prompt"} : Move(place, y, next)
      BY <2>2 DEF ShellMoves
    <3>2. y \in ScrollFirst..(SCREEN_HEIGHT - 1)
      BY <2>1
    <3>3. QED
      BY ONLY Inv, <3>1, <3>2, MoveInv
  <2>3. ASSUME ShellPrints PROVE Inv'
    <3>1. PICK place \in Printing, a \in Chars, b \in Chars :
            \E text \in {<<a>>, <<a, b>>}, next \in Nexts :
              /\ next = "spawn" => place = "exec"
              /\ next = "kill_call" => place = "kill"
              /\ Write(place, text, next)
      BY <2>3 DEF ShellPrints
    <3>2. PICK text \in {<<a>>, <<a, b>>}, next \in Nexts :
              /\ next = "spawn" => place = "exec"
              /\ next = "kill_call" => place = "kill"
              /\ Write(place, text, next)
      BY <3>1
    <3>3. QED
      BY ONLY Inv, <3>2, WriteInv
  <2>4. ASSUME ShellRefreshes PROVE Inv'
    <3>1. PICK place \in {"reflush", "prompt_reflush"}, next \in {"command", "read"} :
            /\ next = "command" => place = "reflush" /\ sh.ch = CR
            /\ Refresh(place, next)
      BY <2>4 DEF ShellRefreshes
    <3>2. QED
      BY ONLY Inv, <3>1, RefreshInv
  <2>5. QED
    BY <1>5, <2>2, <2>3, <2>4, ShellStepCases, EchoInv, ScrollOldInv, ScrollNewInv, ScrollEndInv,
       InterpretInv, ShowProcessesInv, ClearInv, SpawnInv, KillInv, NextCommandInv
<1>6. CASE \E p \in Programs : ProgMove(p) \/ ProgPrint(p) \/ ProgHello(p) \/ ProgExit(p)
  BY <1>6, ProgMoveInv, ProgPrintInv, ProgHelloInv, ProgExitInv
<1>7. QED
  BY <1>1, <1>2, <1>3, <1>4, <1>5, <1>6 DEF Next

\* The invariant holds in every state.
LEMMA Invariance == Spec => []Inv
BY InitInv, NextInv, PTL DEF Spec

\* Nobody stores outside new_screen but the shell after ps, and that in old_screen
\* only: screen_write_ch stores before it tests, and still the cursor is on the
\* screen for every process that is not within a scroll, except that a table of ps
\* takes the shell's below it, by fewer lines than there may be processes, for any
\* size of the screen and any number of processes.
THEOREM CursorsOnScreen == Spec => []CursorInside
<1>1. Inv => CursorInside
  BY DEF Inv, Writers
<1>2. QED
  BY <1>1, Invariance, PTL

\* The refresh prints differences only, and what it leaves out is on the
\* terminal, also when it comes in the middle of the shell's scroll; except in the
\* cells that the sign of the prompt after ps may be stored over in old_screen.
THEOREM RefreshLeavesOutTheKnown == Spec => []RefreshFaithful
<1>1. Inv => RefreshFaithful
  BY DEF Inv, Shown
<1>2. QED
  BY <1>1, Invariance, PTL

\* The table of ps is printed below the command line, whatever was scheduled
\* between the refresh after the Enter and the call.
THEOREM TableAtCommand == Spec => []TableBelowCommand
<1>1. Inv => TableBelowCommand
  BY DEF Inv, Shown, TableBelowCommand, Here
<1>2. QED
  BY <1>1, Invariance, PTL

\* exec and kill get the number that was typed, and ps, clear and help are run
\* for these lines only, for any line that fits the buffer.
THEOREM CommandsAsTyped == Spec => []CommandAsTyped
<1>1. Inv => CommandAsTyped
  BY DEF Inv, Typed, HasParameter, CommandAsTyped
<1>2. QED
  BY <1>1, Invariance, PTL

-----------------------------------------------------------------------------
(***************************************************************************)
(* What a step may do: give the CPU away, or write where its process may.   *)
(***************************************************************************)
Own == /\ UNCHANGED <<current_running, cursor>>
       /\ ChangesOn(screen, screen', Area(current_running)) \/ SaysHello(current_running)
Switch == \E how \in {"user", "timer"}, s \in Screens :
            /\ s.x = screen.x /\ s.y = screen.y /\ s.new = screen.new
            /\ do_scheduler(how, s)

\* A step that leaves new_screen as it is.
LEMMA NothingStored ==
    ASSUME UNCHANGED <<current_running, cursor>>, screen'.new = screen.new
    PROVE  Own
BY DEF Own, ChangesOn

\* A step of the shell that writes on the lines that scroll.
LEMMA StoredAtHome ==
    ASSUME Runs(Shell), UNCHANGED <<current_running, cursor>>,
           NEW lines \in SUBSET ScrollRange, ChangesOn(screen, screen', lines)
    PROVE  Own
<1>1. Area(current_running) = ScrollRange
  BY DEF Area, ScrollRange, Runs
<1>2. QED
  BY <1>1 DEF Own, ChangesOn

\* A step that gives the CPU away.
LEMMA Switched ==
    ASSUME NEW how \in {"user", "timer"}, NEW s \in Screens,
           s.x = screen.x, s.y = screen.y, s.new = screen.new, do_scheduler(how, s)
    PROVE  Switch
BY DEF Switch

\* The shell's calls that print a text or move the cursor or refresh, and the
\* one that prints the prompt of the next command.
LEMMA ShellCallKinds ==
    ASSUME Inv, ShellMoves \/ ShellPrints \/ ShellRefreshes \/ NextCommand
    PROVE  Own
<1> USE Sizes
<1>1. /\ Runs(Shell) /\ UNCHANGED <<current_running, cursor>>
      /\ screen \in Screens
      /\ sh.pc \notin ScrollPlaces \cup {"prompt"} => Inside(screen)
      /\ sh.pc = "prompt" => Inside(screen) \/ Beneath(screen)
      /\ sh.pc \notin {"start", "clear_move"} => screen.y >= ScrollFirst
  <2>1. Runs(Shell) /\ UNCHANGED <<current_running, cursor>>
    BY DEF ShellMoves, ShellPrints, ShellRefreshes, NextCommand, Move, Write, Refresh, Here, Others
  <2>2. QED
    BY <2>1, ShellHere
<1>2. CASE ShellMoves
  <2>1. PICK y \in {SHELL_START_LINE, SHELL_START_LINE + 1} : screen' = screen_move_cursor(screen, 0, y)
    BY <1>2 DEF ShellMoves, Move
  <2>2. y \in Int /\ 0 \in Int
    OBVIOUS
  <2>3. screen'.new = screen.new
    BY <1>1, <2>1, <2>2, MoveDoes
  <2>4. QED
    BY <1>1, <2>3, NothingStored
<1>3. CASE ShellPrints
  <2>1. PICK place \in Printing, a \in Chars, b \in Chars : \E text \in {<<a>>, <<a, b>>} :
          sh.pc = place /\ screen' = screen_write(screen, text)
    BY <1>3 DEF ShellPrints, Write, Here
  <2>2. Inside(screen) /\ screen.y >= ScrollFirst
    BY <1>1, <2>1 DEF Printing, ScrollPlaces
  <2>3. ChangesOn(screen, screen', ScrollRange)
    BY <1>1, <2>1, <2>2, ShellWrites
  <2>4. QED
    BY <1>1, <2>3, StoredAtHome
<1>4. CASE ShellRefreshes
  <2>1. screen' = screen_reflush(screen)
    BY <1>4 DEF ShellRefreshes, Refresh
  <2>2. screen'.new = screen.new
    BY <1>1, <2>1, ReflushDoes
  <2>3. QED
    BY <1>1, <2>2, NothingStored
<1>5. CASE NextCommand
  <2>1. sh.pc = "prompt" /\ screen' = screen_write(screen, <<Prompt>>) /\ Prompt \in Chars
    BY <1>5 DEF NextCommand, Here, Chars
  <2>2. (Inside(screen) \/ Beneath(screen)) /\ screen.y >= ScrollFirst
    BY <1>1, <2>1
  <2>3. ChangesOn(screen, screen', ScrollRange)
    <3>1. CASE Inside(screen)
      BY <1>1, <2>1, <2>2, <3>1, ShellWrites
    <3>2. CASE Beneath(screen)
      BY <1>1, <2>1, <3>2, WriteOne, PromptWritten
    <3>3. QED
      BY <2>2, <3>1, <3>2
  <2>4. QED
    BY <1>1, <2>3, StoredAtHome
<1>6. QED
  BY <1>2, <1>3, <1>4, <1>5

\* The shell's echo and its scroll, round by round.
LEMMA EchoKinds ==
    ASSUME Inv, Echo \/ ScrollOld \/ ScrollNew \/ ScrollEnd
    PROVE  Own
<1> USE Sizes
<1>1. Runs(Shell) /\ UNCHANGED <<current_running, cursor>>
  BY DEF Echo, ScrollOld, ScrollNew, ScrollEnd, Here, Others
<1>2. /\ screen \in Screens /\ sh \in Shells
      /\ sh.pc \notin ScrollPlaces \cup {"prompt"} => Inside(screen)
      /\ sh.pc \notin {"start", "clear_move"} => screen.y >= ScrollFirst
  BY <1>1, ShellHere
<1>3. sh.pc \in ScrollPlaces => sh.row \in ScrollRange
  BY DEF Inv, Writers
<1>4. CASE Echo
  <2>1. sh.pc = "echo" /\ screen' = PutCh(screen, sh.ch) /\ sh.ch \in Chars
    BY <1>2, <1>4 DEF Echo, Here, Shells
  <2>2. Inside(screen) /\ screen.y >= ScrollFirst
    BY <1>2, <2>1 DEF ScrollPlaces
  <2>3. ChangesOn(screen, screen', {screen.y})
    BY <1>2, <2>1, <2>2, PutChDoes
  <2>4. {screen.y} \in SUBSET ScrollRange
    BY <2>2 DEF Inside, Lines, ScrollRange
  <2>5. QED
    BY <1>1, <2>3, <2>4, StoredAtHome
<1>5. CASE ScrollOld
  <2>1. screen'.new = screen.new
    BY <1>2, <1>5, ScrollOldDoes DEF ScrollOld
  <2>2. QED
    BY <1>1, <2>1, NothingStored
<1>6. CASE ScrollNew
  <2>1. sh.row \in ScrollRange
    BY <1>3, <1>6 DEF ScrollNew, Here, ScrollPlaces
  <2>2. ChangesOn(screen, screen', {sh.row})
    BY <1>2, <1>6, ScrollNewDoes DEF ScrollNew
  <2>3. {sh.row} \in SUBSET ScrollRange
    BY <2>1
  <2>4. QED
    BY <1>1, <2>2, <2>3, StoredAtHome
<1>7. CASE ScrollEnd
  <2>1. screen'.new = screen.new
    BY <1>2, <1>7 DEF ScrollEnd, BottomLine, Screens
  <2>2. QED
    BY <1>1, <2>1, NothingStored
<1>8. QED
  BY <1>4, <1>5, <1>6, <1>7

\* The shell's commands.
LEMMA CommandKinds ==
    ASSUME Inv, Interpret \/ ShowProcesses \/ Clear \/ Spawn \/ Kill
    PROVE  Own \/ Switch
<1> USE Sizes
<1>1. screen \in Screens /\ alive \subseteq Procs
  BY DEF Inv, Types
<1>2. CASE Interpret
  BY <1>2, NothingStored DEF Interpret, Others
<1>3. CASE ShowProcesses
  <2>1. UNCHANGED <<current_running, cursor>> /\ screen' = process_show
    BY <1>3 DEF ShowProcesses, Others
  <2>2. screen'.new = screen.new
    BY <1>1, <2>1, ProcessShowDoes
  <2>3. QED
    BY <2>1, <2>2, NothingStored
<1>4. CASE Clear
  <2>1. /\ Runs(Shell) /\ UNCHANGED <<current_running, cursor>>
        /\ screen' = screen_clear(screen, SHELL_START_LINE + 1, SCREEN_HEIGHT - 1)
    BY <1>4 DEF Clear, Here, Others
  <2>2. SHELL_START_LINE + 1 \in Int /\ SCREEN_HEIGHT - 1 \in Int
    OBVIOUS
  <2>3. ChangesOn(screen, screen', (SHELL_START_LINE + 1)..(SCREEN_HEIGHT - 1))
    BY <1>1, <2>1, <2>2, ClearDoes
  <2>4. (SHELL_START_LINE + 1)..(SCREEN_HEIGHT - 1) \in SUBSET ScrollRange
    BY DEF ScrollRange
  <2>5. QED
    BY <2>1, <2>3, <2>4, StoredAtHome
<1>5. CASE Spawn
  <2>1. CASE do_scheduler("user", screen)
    BY <1>1, <2>1, Switched
  <2>2. CASE UNCHANGED <<current_running, cursor, screen>>
    BY <2>2, NothingStored
  <2>3. QED
    BY <1>5, <2>1, <2>2 DEF Spawn
<1>6. CASE Kill
  <2>1. PICK s \in {printk({screen.ty - 1}, 1), screen} : do_scheduler("user", s)
    BY <1>6 DEF Kill, do_kill
  <2>2. s \in Screens /\ s.x = screen.x /\ s.y = screen.y /\ s.new = screen.new
    BY <1>1, <2>1, PrintkDoes
  <2>3. QED
    BY <2>1, <2>2, Switched
<1>7. QED
  BY <1>2, <1>3, <1>4, <1>5, <1>6

\* A program's calls.
LEMMA ProgramKinds ==
    ASSUME Inv, NEW p \in Programs, ProgMove(p) \/ ProgPrint(p) \/ ProgHello(p) \/ ProgExit(p)
    PROVE  Own \/ Switch
<1>1. screen \in Screens /\ 0 \in Int /\ prog \in [Programs -> Progs]
  BY DEF Inv, Types
<1>2. p # Shell
  BY DEF Shell, Programs
<1>3. CASE ProgMove(p)
  <2>1. PICK y \in prog[p].lines : screen' = screen_move_cursor(screen, 0, y)
    BY <1>3 DEF ProgMove
  <2>2. y \in Int
    BY <1>1, Sizes DEF Progs
  <2>3. screen'.new = screen.new
    BY <1>1, <2>1, <2>2, MoveDoes
  <2>4. QED
    BY <1>3, <2>3, NothingStored DEF ProgMove
<1>4. CASE ProgPrint(p)
  <2>1. /\ Runs(p) /\ prog[p].pc = "print" /\ UNCHANGED <<current_running, cursor>>
        /\ screen' = screen_write(screen, <<Prompt, prog[p].text>>)
    BY <1>4 DEF ProgPrint
  <2>2. /\ screen.x = 0 /\ screen.y \in prog[p].lines /\ screen.y \in 0..(ScrollFirst - 1)
        /\ prog[p].text \in {"a", "b"}
    BY <2>1, ProgramHere
  <2>3. ChangesOn(screen, screen', {screen.y})
    BY <1>1, <2>1, <2>2, ProgramWrites
  <2>4. Area(current_running) = prog[p].lines
    BY <1>2, <2>1 DEF Area, Runs
  <2>5. QED
    BY <2>1, <2>2, <2>3, <2>4 DEF Own, ChangesOn
<1>5. CASE ProgHello(p)
  BY <1>2, <1>5 DEF ProgHello, Runs, Own, SaysHello
<1>6. CASE ProgExit(p)
  BY <1>1, <1>6, Switched DEF ProgExit
<1>7. QED
  BY <1>3, <1>4, <1>5, <1>6

\* Every step is of one of the two kinds.
LEMMA StepKinds ==
    ASSUME Inv, Next
    PROVE  Own \/ Switch
<1>1. CASE Timer
  <2>1. screen \in Screens /\ do_scheduler("timer", screen)
    BY <1>1 DEF Timer, Inv, Types
  <2>2. QED
    BY <2>1, Switched
<1>2. CASE Type \/ Read \/ UNCHANGED vars
  BY <1>2, NothingStored DEF Type, Read, vars
<1>3. CASE ShellStep
  BY <1>3, ShellStepCases, ShellCallKinds, EchoKinds, CommandKinds
<1>4. CASE \E p \in Programs : ProgMove(p) \/ ProgPrint(p) \/ ProgHello(p) \/ ProgExit(p)
  BY <1>4, ProgramKinds
<1>5. QED
  BY <1>1, <1>2, <1>3, <1>4 DEF Next

\* What a switch does, whoever leaves and whoever comes.
LEMMA SwitchStep ==
    ASSUME Inv, Next, Switch
    PROVE  screen'.new = screen.new /\ \A p \in Procs : Position(p)' = Position(p)
<1>1. alive' \subseteq Procs
  BY NextInv DEF Inv, Types
<1>2. PICK how \in {"user", "timer"}, s \in Screens :
        /\ s.x = screen.x /\ s.y = screen.y /\ s.new = screen.new
        /\ do_scheduler(how, s)
  BY DEF Switch
<1>3. QED
  BY <1>1, <1>2, SwitchDoes DEF Inv

\* The cursor is one pair of globals and yet private to each process: the
\* scheduler saves and restores it, and irq_timer's refresh, printk() and the
\* table of ps do not move it for anybody who is off the CPU.
THEOREM CursorsAreApart == Spec => CursorsPrivate
<1>1. ASSUME Inv, [Next]_vars
      PROVE  [\A p \in Procs : ~Runs(p) \/ ~Runs(p)' => Position(p)' = Position(p)]_vars
  <2>1. CASE UNCHANGED vars
    BY <2>1
  <2>2. CASE Next /\ Own
    <3>1. UNCHANGED <<current_running, cursor>>
      BY <2>2 DEF Own
    <3>2. QED
      BY <3>1, KeepsCPU DEF Runs
  <2>3. CASE Next /\ Switch
    BY <1>1, <2>3, SwitchStep
  <2>4. QED
    BY <1>1, <2>1, <2>2, <2>3, StepKinds
<1>2. QED
  BY <1>1, Invariance, PTL DEF Spec, CursorsPrivate

\* A process changes only its part of new_screen, for any sizes of the screen: a
\* program its lines, the shell, with its echo, its scroll and clear, the lines that
\* scroll.  Only what SunQuan prints before it moves the cursor is left out.
THEOREM AreasAreApart == Spec => AreasPrivate
<1>1. ASSUME Inv, [Next]_vars
      PROVE  [\A c \in Cells :
                screen'.new[c] # screen.new[c] =>
                  LineOf(c) \in Area(current_running) \/ SaysHello(current_running)]_vars
  <2>1. CASE UNCHANGED vars
    BY <2>1
  <2>2. CASE Next /\ Own
    BY <2>2 DEF Own, ChangesOn
  <2>3. CASE Next /\ Switch
    BY <1>1, <2>3, SwitchStep
  <2>4. QED
    BY <1>1, <2>1, <2>2, <2>3, StepKinds
<1>2. QED
  BY <1>1, Invariance, PTL DEF Spec, AreasPrivate

=============================================================================
