----------------------------- MODULE MCConsole ------------------------------
(***************************************************************************)
(* What is typed in the run of Console.  A key may also get lost, so that   *)
(* each script stands for every selection of its keys.                      *)
(***************************************************************************)
EXTENDS Console

\* A program is started and killed, with a key erased; a slot is used twice, the
\* second time by SunQuan, who prints where the first one's cursor was.
\* The lines fill up and scroll.
StartAndKill == <<"exec", "0", CR, "kill", "1", BS, "2", CR>>
StartTwice == <<"exec", "1", CR, "exec", "1", "2", CR>>

\* The table is shown while a program runs; what is not a command.
OtherCommands == <<"exec", "0", CR, "clear", CR, "ps", CR>>
Mistakes == <<BS, "help", CR, CR, "kill", "help", CR, "x", CR>>

\* The table is shown until the cursor is below the screen's last line, while a
\* program runs on the line that the prompt after it hits.
Tables == <<"exec", "1", CR, "ps", CR, "ps", CR>>

\* A program of two lines.
TwoLines == <<"exec", "4", CR>>

MCScripts == {StartAndKill, StartTwice, OtherCommands, Mistakes, Tables, TwoLines}
MCKeys == UNION {Range(s) : s \in MCScripts}

\* One task has two lines, as CaoCao has five.
MCTaskLines == [t \in 0..(num_test_tasks - 1) |-> IF t = 4 THEN {0, 2} ELSE {t % 3}]
=============================================================================
