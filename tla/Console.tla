------------------------------- MODULE Console ------------------------------
(***************************************************************************)
(* The shell (test_shell.c), the programs it starts, and the screen they    *)
(* share.  The shell is user code: it edits its command line, echoes each   *)
(* key into the screen buffer itself, with interrupts open, and makes       *)
(* system calls; a program moves the cursor to a line of its own and prints,*)
(* one system call each.  A timer interrupt can come between any two steps.     *)
(*                                                                         *)
(* The process table is reduced to which slots are alive and to their pids, *)
(* and the scheduler's choice is open; Kernel has both in full.             *)
(***************************************************************************)
EXTENDS Screen

CONSTANTS
    NUM_MAX_TASK,       \* size of pcb[]
    COMMAND_MAX_LEN,    \* size of command_buffer, in keys
    Keys,               \* the characters that may be typed
    Scripts,            \* what is typed, as sequences of keys
    TaskLines,          \* the lines a task prints on: CaoCao 2 to 6, the others one
    MaxFifo             \* bound: so many keys wait in the serial port

num_test_tasks == 15

ASSUME ConsoleAssumption ==
    /\ NUM_MAX_TASK \in Nat /\ NUM_MAX_TASK >= 2
    /\ COMMAND_MAX_LEN \in Nat /\ MaxFifo \in Nat \ {0}
    /\ NUL \notin Keys /\ Scripts \subseteq Seq(Keys)
    \* nothing bounds the command line in the code
    /\ \A s \in Scripts : Len(s) < COMMAND_MAX_LEN
    \* what a program prints fits on its line, above those that scroll
    /\ SCREEN_WIDTH >= 2
    /\ TaskLines \in [0..(num_test_tasks - 1) -> (SUBSET (0..(ScrollFirst - 1))) \ {{}}]
    \* a table of all processes is not higher than the screen
    /\ NUM_MAX_TASK <= SCREEN_HEIGHT

Shell == 1
Programs == 2..(NUM_MAX_TASK - 1)
Procs == {Shell} \cup Programs

VARIABLES
    current_running,
    alive, pid, next_pid,   \* the process table
    context,                \* where a process goes on: user code, a call or irq_timer
    cursor,                 \* cursor_x and cursor_y of each PCB
    screen,
    keys, fifo,             \* keys still to be typed, and those in the serial port
    sh,                     \* the shell: place, key, command_buffer, p, argument, row
    prog,                   \* a program: its lines, next call and text
    line                    \* history: the line the shell read, edited

table == <<alive, pid, next_pid>>
vars == <<current_running, table, context, cursor, screen, keys, fifo, sh, prog, line>>

\* A key is one character; a command's name counts as one.
Digits == <<"0", "1", "2", "3", "4", "5", "6", "7", "8", "9">>
IsDigit(ch) == \E d \in 1..10 : Digits[d] = ch
DigitOf(ch) == (CHOOSE d \in 1..10 : Digits[d] = ch) - 1

EmptyBuffer == [i \in 1..COMMAND_MAX_LEN |-> NUL]

Init ==
    /\ current_running = Shell
    /\ alive = {Shell}
    /\ pid = [p \in Procs |-> IF p = Shell THEN 1 ELSE 0]
    /\ next_pid = 2
    /\ context = [p \in Procs |-> "user"]
    /\ cursor = [p \in Procs |-> <<0, 0>>]
    /\ screen = init_screen
    /\ keys \in Scripts /\ fifo = <<>>
    /\ sh = [pc |-> "start", ch |-> NUL, buffer |-> EmptyBuffer, p |-> 1, para |-> 0,
             row |-> 0]
    /\ prog = [p \in Programs |-> [lines |-> {0}, pc |-> "move", text |-> "a"]]
    /\ line = <<>>

-----------------------------------------------------------------------------
(***************************************************************************)
(* The kernel                                                               *)
(***************************************************************************)

\* The process that leaves goes on at "how" when it comes back, and a new one
\* in user code, whatever the slot's last process did.
NextContext(how) ==
    [p \in Procs |-> CASE p = current_running -> how
                       [] p \in alive' \ alive -> "user"
                       [] OTHER -> context[p]]

\* Mutant of LeaveCPU: the scheduler does not save the cursor.
leave_cpu_no_save(how) == context' = NextContext(how) /\ UNCHANGED cursor

\* The process that leaves keeps its cursor in its PCB.
LeaveCPU(how) ==
    /\ context' = NextContext(how)
    /\ cursor' = [cursor EXCEPT ![current_running] = <<screen.x, screen.y>>]

\* Mutants of ComeBack: the screen is refreshed before the switch; not at all;
\* the cursor is not restored.
come_back_refresh_first(q, s) == screen_move_cursor(screen_reflush(s), cursor'[q][1], cursor'[q][2])
come_back_no_refresh(q, s) == screen_move_cursor(s, cursor'[q][1], cursor'[q][2])
come_back_no_restore(q, s) == IF context'[q] = "timer" THEN screen_reflush(s) ELSE s

\* The process that comes has its own cursor; irq_timer refreshes the screen
\* if that is where it left.
ComeBack(q, s) ==
    LET own == screen_move_cursor(s, cursor'[q][1], cursor'[q][2])
    IN  IF context'[q] = "timer" THEN screen_reflush(own) ELSE own

\* do_scheduler, with what the next process does before it is in user code.
do_scheduler(how, s) ==
    /\ LeaveCPU(how)
    /\ \E q \in alive' : current_running' = q /\ screen' = ComeBack(q, s)

Timer ==
    /\ UNCHANGED <<table, keys, fifo, sh, prog, line>>
    /\ do_scheduler("timer", screen)

\* The task that prints once before it moves the cursor.
SunQuan == 12

\* do_spawn in the first free slot; the caller has seen to it that there is
\* one.  The slot keeps the cursor of the process that had it before.
do_spawn(task) ==
    LET q == CHOOSE q \in Programs \ alive : \A r \in Programs \ alive : q <= r
    IN  /\ alive' = alive \cup {q}
        /\ pid' = [pid EXCEPT ![q] = next_pid]
        /\ next_pid' = next_pid + 1
        /\ prog' = [prog EXCEPT ![q] = [lines |-> TaskLines[task], text |-> "a",
                                        pc |-> IF task = SunQuan THEN "hello" ELSE "move"]]

\* What printk() writes on the terminal, lines counted from 0; "down" is the
\* number of its newlines.  Past its last line the terminal scrolls, and shows
\* everything in another place than the buffers say.
printk(lines, down) ==
    LET fits == screen.ty + down <= TERMINAL_HEIGHT
    IN  [screen EXCEPT !.term = [c \in Cells |-> IF ~fits \/ LineOf(c) \in lines THEN Raw ELSE @[c]],
                       !.tx = 0,
                       !.ty = IF fits THEN @ + down ELSE TERMINAL_HEIGHT]

\* do_kill finds the slot of a pid, also of a process that is gone; without
\* one it says so where the terminal's cursor is (vt100 counts lines from 1).
do_kill(p) ==
    LET found == {q \in Programs : pid[q] = p}
    IN  /\ alive' = alive \ found
        /\ do_scheduler("user", IF found = {} THEN printk({screen.ty - 1}, 1) ELSE screen)
        /\ UNCHANGED <<pid, next_pid, prog>>

\* The table, a title and a line for each live process, goes to the terminal
\* two lines below its cursor, and the screen's cursor moves down, also past
\* the bottom.
process_show ==
    LET n == Cardinality(alive)
    IN  [printk((screen.ty + 1)..(screen.ty + 1 + n), n + 3) EXCEPT !.y = @ + n + 1]

-----------------------------------------------------------------------------
(***************************************************************************)
(* The shell                                                                *)
(***************************************************************************)
Runs(p) == current_running = p
Here(place) == Runs(Shell) /\ sh.pc = place
Goto(place) == sh' = [sh EXCEPT !.pc = place]
Others == <<current_running, table, context, cursor, keys, fifo, prog, line>>

\* A call that moves the cursor, or prints, or refreshes, and the next place.
Move(place, y, next) ==
    Here(place) /\ screen' = screen_move_cursor(screen, 0, y) /\ Goto(next) /\ UNCHANGED Others
Write(place, text, next) ==
    Here(place) /\ screen' = screen_write(screen, text) /\ Goto(next) /\ UNCHANGED Others
Refresh(place, next) ==
    Here(place) /\ screen' = screen_reflush(screen) /\ Goto(next) /\ UNCHANGED Others

Divider == "-"
Prompt == ">"

\* Somebody types.
Type ==
    /\ keys # <<>> /\ Len(fifo) < MaxFifo
    /\ fifo' = Append(fifo, Head(keys)) /\ keys' = Tail(keys)
    /\ UNCHANGED <<current_running, table, context, cursor, screen, sh, prog, line>>

\* Mutant of EditBuffer: a backspace leaves the character in the buffer.
edit_buffer_stale(ch) ==
    CASE ch = BS -> [sh EXCEPT !.p = IF @ > 1 THEN @ - 1 ELSE @]
      [] ch = CR -> sh
      [] OTHER   -> [sh EXCEPT !.buffer[sh.p] = ch, !.p = @ + 1]

EditBuffer(ch) ==
    CASE ch = BS -> IF sh.p = 1 THEN sh ELSE [sh EXCEPT !.buffer[sh.p - 1] = NUL, !.p = @ - 1]
      [] ch = CR -> sh
      [] OTHER   -> [sh EXCEPT !.buffer[sh.p] = ch, !.p = @ + 1]

\* read_uart_ch empties the serial port and returns the last key in it; then
\* the command buffer, which only the shell sees, is brought up to date.
Read ==
    LET ch == Last(fifo)
    IN  /\ Here("read") /\ fifo # <<>>
        /\ fifo' = <<>>
        /\ sh' = [EditBuffer(ch) EXCEPT !.pc = IF ch = BS /\ sh.p = 1 THEN "read" ELSE "echo", !.ch = ch]
        /\ line' = CASE ch = BS -> IF line = <<>> THEN line ELSE Front(line)
                     [] ch = CR -> line
                     [] OTHER   -> Append(line, ch)
        /\ UNCHANGED <<current_running, table, context, cursor, screen, keys, prog>>

\* screen_write_ch called from the shell: a scroll can be interrupted.
Echo ==
    /\ Here("echo")
    /\ screen' = PutCh(screen, sh.ch)
    /\ sh' = [sh EXCEPT !.pc = IF PastBottom(screen') THEN "scroll_old" ELSE "reflush",
                        !.row = ScrollFirst]
    /\ UNCHANGED Others

\* One round of a loop over the rows of the region.
RoundDone(next) ==
    sh' = IF sh.row < SCREEN_HEIGHT - 1 THEN [sh EXCEPT !.row = @ + 1]
          ELSE [sh EXCEPT !.pc = next, !.row = ScrollFirst]

ScrollOld ==
    /\ Here("scroll_old")
    /\ screen' = scroll_old(screen, {sh.row})
    /\ RoundDone("scroll_new")
    /\ UNCHANGED Others

ScrollNew ==
    /\ Here("scroll_new")
    /\ screen' = scroll_new(screen, {sh.row})
    /\ RoundDone("scroll_end")
    /\ UNCHANGED Others

ScrollEnd == Here("scroll_end") /\ screen' = BottomLine(screen) /\ Goto("reflush") /\ UNCHANGED Others

\* The string that starts at the i-th place of the buffer.
StringAt(i) ==
    LET ends == {n \in i..COMMAND_MAX_LEN : sh.buffer[n] = NUL}
    IN  SubSeq(sh.buffer, i, (CHOOSE n \in ends : \A m \in ends : n <= m) - 1)

\* result[n] is the value after n characters.
get_para(str) ==
    LET result[n \in 0..Len(str)] ==
          IF n = 0 THEN 0 ELSE result[n - 1] * 10 + DigitOf(str[n])
    IN  IF \E n \in DOMAIN str : ~IsDigit(str[n]) THEN -1 ELSE result[Len(str)]

\* cmd_inter up to its first call.
cmd_inter ==
    LET str  == StringAt(1)
        name == sh.buffer[1]
        para == get_para(StringAt(2))
    IN  CASE str = <<"ps">> -> <<"ps", 0>>
          [] str = <<"clear">> -> <<"clear", 0>>
          [] name \in {"exec", "kill"} -> <<IF para = -1 THEN "invalid" ELSE name, para>>
          [] str = <<"help">> -> <<"help", 0>>
          [] str = <<>> -> <<"prompt", 0>>
          [] OTHER -> <<"unknown", 0>>

Interpret ==
    /\ Here("command")
    /\ sh' = [sh EXCEPT !.pc = cmd_inter[1], !.para = cmd_inter[2]]
    /\ UNCHANGED <<screen, Others>>

ShowProcesses ==
    /\ Here("ps")
    /\ screen' = process_show
    /\ Goto("prompt")
    /\ UNCHANGED Others

Clear ==
    /\ Here("clear")
    /\ screen' = screen_clear(screen, SHELL_START_LINE + 1, SCREEN_HEIGHT - 1)
    /\ Goto("clear_move")
    /\ UNCHANGED Others

\* Without a free slot, or with a number that is no task, the system stops.
Spawn ==
    /\ Here("spawn")
    /\ IF sh.para < num_test_tasks /\ Programs \ alive # {}
       THEN do_spawn(sh.para) /\ Goto("prompt") /\ do_scheduler("user", screen)
       ELSE Goto("stopped") /\ UNCHANGED <<current_running, table, context, cursor, screen, prog>>
    /\ UNCHANGED <<keys, fifo, line>>

Kill ==
    /\ Here("kill_call")
    /\ do_kill(sh.para) /\ Goto("prompt")
    /\ UNCHANGED <<keys, fifo, line>>

\* The buffer is cleared and the prompt printed.
NextCommand ==
    /\ Here("prompt")
    /\ screen' = screen_write(screen, <<Prompt>>)
    /\ sh' = [sh EXCEPT !.pc = "prompt_reflush", !.buffer = EmptyBuffer, !.p = 1, !.para = 0]
    /\ line' = <<>>
    /\ UNCHANGED <<current_running, table, context, cursor, keys, fifo, prog>>

ShellStep ==
    \/ Move("start", SHELL_START_LINE, "divider")
    \/ Write("divider", <<Divider, NL>>, "first_prompt")
    \/ Write("first_prompt", <<Prompt>>, "read")
    \/ Echo
    \/ ScrollOld \/ ScrollNew \/ ScrollEnd
    \/ Refresh("reflush", IF sh.ch = CR THEN "command" ELSE "read")
    \/ Interpret
    \/ ShowProcesses
    \/ Clear \/ Move("clear_move", SHELL_START_LINE + 1, "prompt")
    \/ Write("exec", <<"e", NL>>, "spawn") \/ Spawn
    \/ Write("kill", <<"k", NL>>, "kill_call") \/ Kill
    \/ Write("invalid", <<"!", NL>>, "prompt")
    \/ Write("help", <<"h", NL>>, "help_more") \/ Write("help_more", <<"h", NL>>, "prompt")
    \/ Write("unknown", <<"?", NL>>, "prompt")
    \/ NextCommand
    \/ Refresh("prompt_reflush", "read")

-----------------------------------------------------------------------------
(***************************************************************************)
(* The programs: a task prints on its lines, something new each time, in     *)
(* front of which most of them put the sign of the prompt, and may come to  *)
(* its end.                                                                 *)
(***************************************************************************)
ProgMove(p) ==
    /\ Runs(p) /\ prog[p].pc = "move"
    /\ \E y \in prog[p].lines : screen' = screen_move_cursor(screen, 0, y)
    /\ prog' = [prog EXCEPT ![p].pc = "print"]
    /\ UNCHANGED <<current_running, table, context, cursor, keys, fifo, sh, line>>

ProgPrint(p) ==
    /\ Runs(p) /\ prog[p].pc = "print"
    /\ screen' = screen_write(screen, <<Prompt, prog[p].text>>)
    /\ prog' = [prog EXCEPT ![p].pc = "move", ![p].text = IF @ = "a" THEN "b" ELSE "a"]
    /\ UNCHANGED <<current_running, table, context, cursor, keys, fifo, sh, line>>

\* What SunQuan prints first goes where the slot's last process left its cursor.
ProgHello(p) ==
    /\ Runs(p) /\ prog[p].pc = "hello"
    /\ screen' = screen_write(screen, <<".">>)
    /\ prog' = [prog EXCEPT ![p].pc = "move"]
    /\ UNCHANGED <<current_running, table, context, cursor, keys, fifo, sh, line>>

ProgExit(p) ==
    /\ Runs(p)
    /\ alive' = alive \ {p}
    /\ do_scheduler("user", screen)
    /\ UNCHANGED <<pid, next_pid, keys, fifo, sh, prog, line>>

Stopped == sh.pc = "stopped"
Next ==
    \/ ~Stopped /\ \/ Timer \/ Type \/ Read \/ ShellStep
                   \/ \E p \in Programs : ProgMove(p) \/ ProgPrint(p) \/ ProgHello(p) \/ ProgExit(p)
    \/ Stopped /\ UNCHANGED vars

Spec == Init /\ [][Next]_vars

\* Timer interrupts come again and again, and the shell, which is ready
\* whenever it does not run, is chosen again and again: ReadyRuns of Kernel, if
\* the programs do not unblock each other for ever, and else an assumption that
\* they leave the shell a turn.
BackToShell == Timer /\ current_running' = Shell
FairSpec == Spec /\ WF_vars(~Stopped /\ Timer) /\ SF_vars(~Stopped /\ BackToShell)

-----------------------------------------------------------------------------
(***************************************************************************)
(* Properties                                                               *)
(***************************************************************************)

\* Where a process writes next.
Position(p) == IF Runs(p) THEN <<screen.x, screen.y>> ELSE cursor[p]

\* The cursor is one pair of globals, and yet private to each process: a
\* process that leaves the CPU, or is off it, or comes back to it, goes on
\* writing where it was, whatever the others do meanwhile.
CursorsPrivate ==
    [][\A p \in Procs : ~Runs(p) \/ ~Runs(p)' => Position(p)' = Position(p)]_vars

\* A process changes only its part of the screen: a program its lines, the shell
\* the lines that scroll.  Only what SunQuan prints before it moves the cursor
\* goes anywhere.
Area(p) == IF p = Shell THEN ScrollRange ELSE prog[p].lines
SaysHello(p) == p # Shell /\ prog[p].pc = "hello"
AreasPrivate ==
    [][\A c \in Cells : screen'.new[c] # screen.new[c] =>
          LineOf(c) \in Area(current_running) \/ SaysHello(current_running)]_vars

\* Where a process stores next is in new_screen: the cursor of every process is
\* on the screen, after a full line, a backspace at the margin and a scroll
\* (which the shell may be in the middle of).  Only the table of ps takes the
\* shell's below it, by fewer lines than there are processes, so that the sign
\* of the prompt is stored in old_screen and in no other memory.
Scrolling(p) == p = Shell /\ sh.pc \in {"scroll_old", "scroll_new", "scroll_end"}
BelowTable(p) == p = Shell /\ sh.pc = "prompt" /\ line = <<"ps">>
CursorInside ==
    \A p \in Procs : ~Scrolling(p) =>
        \/ Position(p) \in Columns \X Lines
        \/ BelowTable(p) /\ Position(p) \in {0} \X (SCREEN_HEIGHT..(SCREEN_HEIGHT + NUM_MAX_TASK - 1))

\* A refresh may leave out what old_screen says the terminal shows: it does show
\* it, also after a scroll or a refresh in the middle of one, except where the
\* prompt after ps was stored into old_screen.
PromptCells == {At(0, y) : y \in 0..(NUM_MAX_TASK - 1)}
Overwritten(c, ch) == c \in PromptCells /\ ch = Prompt
RefreshFaithful ==
    \A c \in Cells : screen.old[c] # NUL =>
        screen.term[c] \in {screen.old[c], Raw} \/ Overwritten(c, screen.old[c])

\* The table of ps is printed below the shell's command line: whoever
\* refreshed the screen meanwhile, the terminal's cursor is the shell's again.
TableBelowCommand ==
    Here("ps") => <<screen.tx, screen.ty>> = <<screen.x, screen.y>>

\* The shell does what the line it read says, after the backspaces: no byte of
\* an earlier command or of an erased key takes part, and the number it passes
\* on is the one that was typed (in decimal, zeros in front allowed).
Spells(s, n) ==
    LET rest[k \in 0..Len(s)] == IF k = 0 THEN n ELSE rest[k - 1] \div 10
    IN  /\ rest[Len(s)] = 0
        /\ \A k \in 1..Len(s) : s[k] = Digits[(rest[Len(s) - k] % 10) + 1]
CommandAsTyped ==
    /\ sh.pc \in {"spawn", "kill_call"} =>
         /\ line # <<>> /\ line[1] = IF sh.pc = "spawn" THEN "exec" ELSE "kill"
         /\ Spells(Tail(line), sh.para)
    /\ sh.pc \in {"ps", "clear", "help"} => line = <<sh.pc>>

\* What is in the buffer comes to the terminal, whoever wrote it, except for a
\* sign in a cell that the prompt after ps was stored over in old_screen.
Displayed ==
    []<>(Stopped \/ \A c \in Cells :
            screen.term[c] \in {screen.new[c], Raw} \/ Overwritten(c, screen.new[c]))
=============================================================================
