# A TLA+ verification of the OS_prj3 kernel

OS_prj3 is a small MIPS kernel: a preemptive multi-level scheduler with 16
process slots, sleep, mutexes, condition variables, semaphores, barriers, and
`spawn`, `kill`, `waitpid` and `exit`, under a shell that starts and kills test
programs. There is one CPU, and the kernel runs with interrupts closed: a
handler is atomic up to the point where it calls `do_scheduler()`. What is hard
is what other processes do between the switch away from a process and its
return, and how the fields of a PCB (status, priority, `lock_waiting`,
`waiting_pcb`, `lock_owned`, the queue links) are kept consistent by functions
in six files that all write them. User code, with interrupts open, shares more
than it seems to: one cursor, one screen buffer, the mailboxes' counters.

## Inventory

| Component | State | Operations | Hard because |
|---|---|---|---|
| PCB queues (`kernel/sched/queue.c`) | `head`, `tail`; `prev`, `next` in each PCB | init, is_empty, push, dequeue, remove | one pair of links per PCB, shared by all queues |
| Scheduler, sleep (`kernel/sched/sched.c`, `time.c`) | three ready queues, sleep queue, `current_running`, status, priority, alarm, `time_elapsed` | scheduler, do_sleep, do_block, do_unblock_one/all | queues walked while they change; a clock that wraps; starvation |
| Timer interrupt (`kernel/irq/irq.c`, `entry.S`) | pending tick of the interrupted process | irq_timer | the tick is counted only when the interrupted process runs again |
| Mutexes (`kernel/locking/lock.c`) | `status`, `owner`, block queue; `lock_owned`, `lock_waiting` in the PCB | init, acquire, release | wake-up and re-test in different steps; owners die |
| Conditions, semaphores, barriers (`cond.c`, `sem.c`, `barrier.c`) | a counter and a queue each | init, wait/signal/broadcast, up/down, wait | counter and queue are changed separately |
| Process calls (`init/main.c`) | pid, `next_pid`, `waiting_queue`, `waiting_pcb` | spawn, wait, kill, exit | kill in any state; slots reused, pids looked up in stale slots |
| System call dispatch (`syscall.c`, `entry.S`) | table of handlers | one wrapper per call | - |
| Context switch (`entry.S`, `syscall.S`) | the CPU's registers and CP0; two saved contexts per PCB; the stacks | trap, save, restore, switch, STI, eret | the kernel runs on the stack of whoever trapped; a first run takes another way out than a return; a slot keeps what its last process left |
| Mailboxes (`libs/mailbox.c`, user code) | buffer, counters, one lock, two conditions | init, open, close, send, recv | user counters without a lock; a buffer used as a stack |
| Screen (`drivers/screen.c`) | cursor, two buffers, the terminal | write, clear, scroll, refresh | one cursor for all; the shell scrolls in user code and is interrupted in the middle; the refresh prints differences only |
| Shell (`test/test_shell.c`) | command buffer, serial port | read, edit, echo, ps, clear, exec, kill, help | keys get lost; stale bytes in the buffer |
| Test programs (`test/`) | - | move the cursor, print, make calls | - |

The components meet in the PCB. A blocking call links the caller on the queue
of an object and switches; another process's call (or the death of one)
dequeues it, makes it ready with priority 1, and the scheduler runs it again.
`kill` must find the victim on whichever queue that is, using only `status`,
`priority`, `lock_waiting` and `waiting_pcb`.

What makes them correct: queues are lists and no PCB is on two of them; a
process is on the queue its status names; the dead do not run; waiters are
woken, once, when what they wait for happened and not before; counters agree
with queues; locks belong to the living; the clock wakes sleepers; ready
processes run; a process does not notice that it was interrupted or switched;
everybody writes where it meant to on the screen, and what is written is shown;
the shell does what was typed. `PROJECT.json` lists under "hazards" where in the code each of
these could go wrong.

## Modules

| Module | Models |
|---|---|
| `FIFO` | the promise of queue.c: sequences, with the result of each call |
| `Queue` | queue.c with its pointers; `content` is a history variable, the refinement mapping to `FIFO` |
| `KernelState` | constants, the kernel's memory as one record (`KernelMemory`), `init_pcb`, the pid lookup |
| `Sched` | sched.c, time.c, irq.c: one operator per C function, memory to memory |
| `Locking` | lock.c, cond.c, sem.c, barrier.c |
| `Proc` | do_spawn, do_wait, do_kill, do_exit of main.c |
| `Kernel` | the composed system: variable `k`, one action per system call, the timer, the two resumption points; all properties |
| `MCKernel` | `Kernel` for TLC |
| `Mailbox` | mailbox.c: user code, statement by statement where it is not under the lock |
| `MCMailbox` | programs of calls for the mailboxes |
| `ContextSwitch` | entry.S and syscall.S with the parts of syscall.c, irq.c and main.c they run through |
| `Screen` | screen.c as operators on a record: two buffers, the cursor, the terminal |
| `Console` | the shell, step by step, and the programs it starts, over `Screen` |
| `MCConsole` | what is typed |
| `QueueProofs`, `ContextProofs`, `MailboxProofs`, `ConsoleProofs` | theorems about `Queue`, `ContextSwitch`, `Mailbox`, `Console` |
| `KernelProofs`, `LockProofs`, `LinkProofs`, `ProcessProofs` | theorems about `Kernel`, each over the one before: types; locks; the lemmas on queues, fields and releases; the invariant and the theorems on processes |

### How state and steps correspond to the code

* `k` is the kernel's memory at a moment when it is not executing. Each C
  function is an operator of the same name from memory to memory. A step of
  `Kernel` is one pass through the kernel, from a trap (or the return of
  `do_scheduler()` into a process that was switched out inside the kernel) to
  the return to user code or the next switch.
* `k.context[p]` is where process `p` goes on when it gets the CPU: in user
  code, after `do_scheduler()` in `irq_timer` (the tick is still to be counted),
  or at the test in the loop of `do_mutex_lock_acquire`. `do_condition_wait`
  also goes on there. All other calls only return to user code. A process that
  was just spawned starts in user code (its kernel `ra` is `handle_int+0x14`).
* Queues are sequences of slots. `Queue` justifies this at pointer level.
  Outside this abstraction is the removal of an inner item, which faults in the
  code and stops the model (`fault = "interior"`).
* Slot 0 is the boot context. Slot `NUM_MAX_TASK` (`Phantom`) is the memory
  behind the table: every pid lookup that fails ends there and the handlers go
  on with it. It is unused, zeroed memory, so its pid is 0, its status 0
  (BLOCKED), `lock_waiting` NULL and `waiting_pcb` 0.
* `fault` records how the kernel stopped: a `while(1)` with interrupts closed
  ("hang"), a dequeue from an empty queue ("null"), an inner removal
  ("interior"), a PCB pushed while linked ("relinked"). The only step from such
  a state is the stutter `Halted`. Properties speak of a kernel that works.
* The loops of kill and exit over `lock_owned` are unrolled to the five entries
  the code has (`Bury`), because a recursive operator would be out of the
  prover's reach.

### Mailboxes

`Mailbox` is a specification of its own, with the kernel reduced to what its
calls promise: a lock that one process holds, and two queues of waiters per
mailbox. It does not fix the order in which ready processes run, so it allows
every schedule of `Kernel` and more. A process makes the calls of its
`Program`. `mbox_open` and `mbox_close` are not under the lock and are split at
every access to shared data: the search, the choice of a spare mailbox, the
copy of the name, the load and the store of `num_users` (the kernel is built
with -O0), its second reading in `mbox_close`, and the reset. `mbox_send` and
`mbox_recv` hold the lock and move one byte per step; a byte is named by its
sender, call and position, so that a received message says where each of its
bytes came from. With `Overlap = FALSE` one process at a time is in open or
close, as when programs are started by hand from the shell.

### Context switch

`ContextSwitch` has the CPU in full and the kernel in outline. Its variables are
the registers, IE and EXL, EPC, the exception code, the interrupt line, the
program counter of user code, both contexts of every PCB, and on every stack
what the frames there return to. `pc` is the place in the kernel, one for each
stretch of entry.S between two jumps. Which process runs next is left open, so
every schedule of `Kernel` is covered.

* Registers are grouped by their fate: `v` (v0), `t` (v1, the arguments, t0-t8),
  `s` (s0-s8, gp), sp, ra, and those `SAVE_CONTEXT` leaves out (`at`, `t9`, and
  hi and lo, for which CP0_TAGHI and CP0_TAGLO are stored). A value says what it
  is: data of process p, a call's number or result, a return address, a stack.
* A trap saves the user context and `do_scheduler` the kernel context. There is
  no switch to a kernel stack on a trap: the kernel's frames lie on the stack of
  the process that trapped (`frame`). Stacks are numbered by `historical_num`,
  which only grows; `do_spawn` gives a reused slot a new one.
* A process that runs for the first time "returns" to `handle_int+0x14`
  (`handle_int_back`). Its saved status has EXL clear, so `STI` opens interrupts
  inside the kernel, before `eret`; the `RESET_TIMER` just before is what keeps an
  interrupt from being taken there. The return from a system call has
  no `RESET_TIMER`, but EXL set.
* `expect` is a history variable: the instruction, stack and registers the code
  of a process may rely on. After a call these are the registers a C function
  preserves and v0; for a new process only its stack.

Calls are reduced to their effect on contexts: return at once with a result
(`getpid`), block, exit, kill any process or none, spawn. The shell neither
blocks nor exits, and closes interrupts around its reading of the serial port.
The other branch of `interrupt_helper`, for an event that is not the timer's, is
left out: main.c:127 opens the timer's interrupt only, and nothing in the kernel
tells a device to raise another.

### Screen and shell

`Console` is user code and so is interrupted between any two of its steps; only
system calls are atomic. The shell echoes a key by calling `screen_write_ch`
directly, not through the kernel: `Echo`, every row of the two loops of
`screen_scroll`, and the final move of the cursor are separate steps. The
scheduler saves and restores `cursor_x` and `cursor_y` with a process, and
`irq_timer` refreshes the screen after it comes back from `do_scheduler`, that
is, for the process that runs next if that was interrupted by the timer.

* The terminal has its own cursor and content. `printk` (the table of `ps`, the
  message of a kill that found nothing) goes there past the buffers (`Raw`).
* The serial port holds up to `MaxFifo` keys; `read_uart_ch` empties it and
  keeps the last, so keys get lost. A key is a character; the name of a command
  counts as one key and one byte of `command_buffer`.
* The region that scrolls begins at `SCREEN_HEIGHT/2 + 1` = 16, two lines above
  the dividing line 18, so that scrolling takes the divider with it. That is
  what the code does and the model too.
* `process_show` adds to the cursor's line without a test. At the bottom of the
  screen the '>' of the next prompt is stored behind `new_screen` before
  `screen_write_ch` looks at the line. `old_screen` lies there (`Stored`; in the
  image `src/main` at 0xa0808aa0, right behind the 2400 bytes at 0xa0808140), so
  that a cell of column 0 near the top now counts as showing '>'. The table has
  at most a line per slot, hence `PromptCells`.
* The terminal has `TERMINAL_HEIGHT` lines and scrolls when the table goes past
  its last one. What it shows is then in another place than the buffers say, and
  every cell is `Raw`. A move of its cursor to a line it has not ends on its
  first or last (`TerminalLine`).
* That a command fits its 15 bytes is `ConsoleAssumption`. Five of them are
  "exec " or "kill ", so that a number has at most nine digits and stays below
  2^31.
* `scroll_old` and `scroll_new` give what a loop of `screen_scroll` does for a
  set of rows: one row for the shell, which is interrupted between rows, all of
  them for a system call. The two agree because a row takes the one below it,
  which the loop, going down, has not moved yet.
* A task moves to one of its lines (`TaskLines`: one for most, five for CaoCao)
  and prints, over and over, or exits. Most texts begin with the sign of the
  prompt, and so do these. SunQuan prints once before he moves (`ProgHello`),
  which is where the slot's last process left its cursor: `do_spawn` does not
  reset it. It does reset where the slot goes on (`NextContext`).

### The environment

In `Kernel`, the shell spawns and kills; every other process makes any call with any
argument of the constant sets at any time, and the timer interrupts user code
anywhere. Restrictions, with their reasons: `waitpid` is called with a pid that
was given out before; an object is initialised while nobody holds or waits on
it (the init calls drop the queue without waking anyone; the test programs
initialise first); `sys_block` and `sys_unblock_*` are in the table but no
program calls them. The bounds `MaxPid`, `MaxSem` and `MaxNow` stop counters
that grow without bound in the code.

## Runs

All constants are in the `.cfg` files. Code values: 16 slots, 5 locks per
process, `TICK` 100000, `TIMER_UNIT` 10000000, `WORD` 2^32.

| Run | Question | Instance | States |
|---|---|---|---|
| `queue` | `QueuesRepresent`, `ImplementsFIFO` | 2 queues, 4 PCBs | 2,265 |
| `processes` | `TypeOK`, `LinkedOnce`, `StatusNamesQueue`, `DeadStaysDead`, `WaitReturnsAfterDeath` | 3 user slots, 4 pids (one slot is reused), kill also of pids that are not there and of sleepers | 492,556 |
| `mutexes` | `LockTable`, `NoLostLockWakeup`, `KillCanFind` | 2 locks, a semaphore, waitpid, 3 processes, kill and exit | 1,653,109 |
| `sync` | `CountersMatchQueues`, `CondWaiterGaveUpLock`, `NeverNull`, `BarrierRound` | one object of each kind, 3 processes, goals 2 and 3 | 1,111,085 |
| `sleepers` | `SleepersWakeOnTime`, `SleeperWakes`, `ReadyRuns` | 2 processes, a mutex, a condition, clock of 5 ticks, 2 ticks to the unit, fair timer | 86,430 |
| `context` | `UserContextKept`, `ReturnsOwnPid`, `KernelNotInterrupted`, `UserInterruptible`, `KernelFramesOwn`, `TimerAcknowledged` | the shell and one slot that is used twice, 3 stacks | 176,503 |
| `screen` | `CursorInside`, `RefreshFaithful`, `TableBelowCommand`, `CommandAsTyped`, `CursorsPrivate`, `AreasPrivate`, `Displayed` | 13 lines of 4 columns, a terminal of 16 lines, the shell and one program at a time, 6 scripts of up to 9 keys, 2 keys in the port | 147,926 |
| `mailbox` | `MessagesWhole`, `UsersCounted`, `SameNameSameBox`, `RestoredWhenClosed`, `AllComplete` | 2 senders, 1 receiver, 3 messages of 2 bytes, room for 1; 3 names, 3 mailboxes, one of them closed and reused | 32,840 |

Three user processes and the shell are the smallest number for which a queue
has an inner item, a woken waiter can lose a race to a third process, and a
victim, a killer and a waiter are different. One pid more than slots makes one
slot be reused. The clock of 5 ticks wraps within a run, which takes the code
42,949 ticks; two ticks to the unit keep "same unit, later tick" apart, and the
last unit is cut short by the wrap as in the code. In `sleepers` two processes
are enough: a walk of the sleep queue that changes it needs two sleepers, and two
that signal each other starve a third, the shell. The
other runs use `WORD = 1`, a clock that stands: in `processes` who sleeps stays
asleep, to be killed there. Deadlock is checked in every passing run: some
process of the kernel, at least the shell, can always go on, and the processes
of `mailbox` end; `context` and `screen` stutter where the system has stopped
(an exception that is no interrupt or call, no free slot). In `mailbox_twice` it
is not checked, because that run asks the same question as a liveness property.

In `context`, one slot that is used twice makes every stale content matter (the
frames of the dead process on its stack, its contexts in the slot); two
instructions are enough to see a step too many or too few. The same run with two
slots has 1.47 million states and passes too. In `screen` the five lines of the
command area fill up and scroll in all scripts but one, also while the program prints;
four columns make lines wrap. A lost key turns each script into all its
subsequences, so that wrong commands, empty lines and missing digits occur. Two
tables take the cursor below the last line, with a program on the line that the
prompt is then stored over, and the terminal, three lines higher than the
screen, scrolls.

The messages of `mailbox` have a length that divides the capacity, like the
4-byte messages of the programs in a buffer of 100. For another length
`MessagesWhole` does not hold: the sender waits for room in the middle of a
message, and the buffer is a stack.

Each property has a mutant in `PROJECT.json`: a variant of one handler with a
plausible mistake, which TLC must find. The variants stand before the
definitions they change, with the comment "Mutant of".

### Runs that find a disagreement

| Run | Comment or test | What the code does |
|---|---|---|
| `queue_remove` | queue.c:61 "remove this item and return next item" | line 85 uses `pcb->next` for `_item->next`: removing an inner item faults |
| `context_regs` | sched.h:39 "used to save register infomation" | SAVE_CONTEXT stores neither at nor t9, and CP0_TAGHI/TAGLO in the fields for hi and lo (entry.S:93): an interrupt changes four registers of the program |
| `mailbox_users` | mailbox.h:15 "also locked by the lock" | `num_users` is changed without the lock; an update is lost |
| `mailbox_twice` | test_sanguo.c:21 "once for LiuBei, and once for the CaoCao" | only the first byte in an empty mailbox signals: one of two waiting receivers is not woken |

Five more limits of the code are part of the model, and properties are stated
around them. `get_timer()` never exceeds 429, so a sleeper whose alarm is at or
past that never wakes: `SleeperWakes` is about alarms below `LastTimer`.
`do_wait` for a process that is gone waits on a queue nobody wakes:
`WaitReturnsAfterDeath` is about a process that was alive at the call. `kill` of
a process blocked on a condition, a semaphore or a barrier spins, because
main.c:355 knows only "two possible situation resulting into being blocked":
`KillCanFind` says which blocked processes kill can find. The ready queues have
no ageing, and who is unblocked comes back on the first level: two processes
that signal each other for ever keep the shell, on the third, from running.
`ReadyRuns` promises the CPU unless processes are unblocked for ever. The run
`sleepers` has a mutex and a condition, so that both cases occur in it; without
the exception `ReadyRuns` does not hold there. It takes a call like signal, which
unblocks and goes on; `up` calls the scheduler, which takes the caller a level
down.

`ps` at the bottom of the screen stores the next prompt into `old_screen`
(main.c:265, screen.c:86). A program that then prints a '>' in the cell that was
hit, as the test programs do at the start of their line, has modified that cell,
and the refresh leaves it out. `RefreshFaithful` and `Displayed` except a '>' in
these cells (`Overwritten`), and nothing else.

### Fairness

`FairSpec` assumes that user code that runs again and again is interrupted again
and again (`TimerFires`: strong fairness of the timer), because the interrupt
comes from the CPU counter, stays pending while the kernel runs and is taken on
the return to user mode; the compare register is rewritten on the way out of
`handle_int`. It assumes weak fairness of the two resumption points: kernel code
with interrupts closed goes on. Nothing is assumed of the processes: they may
loop for ever or never call the kernel again. `Mailbox!FairSpec` assumes that
every process that can go on does. That is what `ReadyRuns` gives it: a program
is a finite sequence of calls, and each call unblocks finitely many, so that
nobody is unblocked for ever.
`ContextSwitch!FairSpec` assumes that the CPU goes on in the kernel, takes an
interrupt that is open and pending, and that the shell comes to the end of its
read of the serial port; nothing is assumed of ticks or of user code.
`Console!FairSpec` assumes that the timer keeps interrupting (weak fairness) and
that the shell, which is always ready or running, is chosen again and again
(strong fairness of `BackToShell`); nothing is assumed of the shell's own steps,
the programs or the typing. For programs that unblock each other finitely often
`BackToShell` is what `ReadyRuns` gives the shell. For others it is an
assumption about them, that they leave the shell a turn, and `Displayed` rests on
it. The shell's tasks that unblock each other for ever are written so: those of
the barrier test, the producer and the three kingdoms sleep a second or more in
each round, and the consumers block until the producer has produced again.

## Proofs

Checked by TLAPS for every value of the constants that satisfies the
assumptions (`SizeAssumption`: at least two slots, one to five entries in
`lock_owned`; `ClockAssumption`; `NullAssumption`; `ArgumentAssumption`: the
arguments are numbers; `ContextAssumption`: at least three slots and one stack;
`MailboxAssumption`: finitely many processes and names, a capacity above zero,
any programs of calls; `ScreenAssumption` and `ConsoleAssumption`: any size of
the screen with the shell's lines among those that scroll, a terminal at least as
high, not more slots than lines, tasks that print above the lines that scroll and
whose text fits on a line, what is typed fits the command buffer).

* `QueueProofs!Representation` (`Spec => []QueuesRepresent`) and
  `QueueProofs!Refinement` (`Spec => ImplementsFIFO`), for any number of queues
  and PCBs. The inductive invariant adds to the representation that no item is
  on two queues or twice on one (`OnOneQueue`): without it a store through
  `tail->next` could change another list. `QueueTypes` is the type part.
* `KernelProofs!TypeCorrect` (`Spec => []TypeOK`). `TypeOK` alone is not
  inductive: `do_kill` indexes the ready queues by the victim's priority, which
  is 0 in a slot that was never used, and a resumed acquire notes the lock in
  the table of whoever resumes. `MemInv` adds that a ready process of a working
  kernel has a level of 1 to 3 (`ReadyLevels`) and that only user slots resume
  in the acquire loop (`Resumes`). Inside the scheduler the current process is
  an exception for a moment (`MidInv`). There is one lemma per C function, then
  one step per action. The lemmas take the set of slots that may be linked as a
  parameter, so that the lock proof can use them with a smaller set.
* `LockProofs!LocksOwned` (`Spec => []LockTable`): no lock is orphaned. The
  invariant (`WorkInv`, while `fault = "none"`) consists of the types with only
  the slots that were given a pid on queues or running (`Spawned`), `LockInv`
  and that the running process is alive (`Runs`). `LockInv` says that non-zero
  pids of user slots are distinct and below `next_pid` (`Pids`), that every lock
  in a `lock_owned` table is taken, owned by the pid of that slot and in the
  table once (`Entries`), and that every taken lock is in some table (`Held`).
  Distinct pids are needed because release finds the owner by pid, also among
  the slots of dead processes. Kill and exit mark the slot dead before they give
  its locks back: `LockInv(m, X)` allows entries in the dead slots `X`, and
  `BuryInv` shows that the walk over the table leaves none.
* `ProcessProofs`, over the lemmas of `LinkProofs`: every other invariant and
  action property of `Kernel`. `NoDoubleLink` (`LinkedOnce`), `StatusTrue`
  (`StatusNamesQueue`), `KillFinds` (`KillCanFind`), `FreeLockFreesAll`
  (`NoLostLockWakeup`), `CountersTrue` (`CountersMatchQueues`), `CondGivesUp`
  (`CondWaiterGaveUpLock`), `NoNullDequeue` (`NeverNull`), `DeadDoNotReturn`
  (`DeadStaysDead`), `WaitsForDeath` (`WaitReturnsAfterDeath`),
  `BarrierOpensOnce` (`BarrierRound`) and `SleepersOnTime`
  (`SleepersWakeOnTime`). None of them is inductive by itself. Kill unlinks its
  victim from the queue its status, priority and `waiting_*` fields name, so that
  "no process is linked twice" and "the fields are true" can only be proved
  together; a waiter is found by pid, so that both need the distinct pids of
  `LockInv`; signal, up and the last arrival at a barrier dequeue without a test,
  which is no null dereference only because the counter matches the queue. The invariant
  `SafeInv` is `WorkInv` and, while `fault = "none"`, `Good`:
  - `Core`: `Linked` (no queue has a repetition, who is on a queue has the
    status and priority that name it, one process is marked as running), `Waits`
    (the fields `lock_waiting` and `waiting_pcb` of a blocked process name the
    queue it is on, and it is on it, unless the process it waits for is gone:
    `LockWait`, `PidWait`, `ObjectWait`, `NotedOnly`, `Found`), `Shell1` (the shell
    is never blocked), `Loops` (who is noted as waiting for a mutex goes on in
    the acquire loop for it), `NoneLost` (nobody waits for a free mutex),
    `GaveUpLock`;
  - `Counts`: conditions, semaphores and barriers against their queues;
  - `Rest`: whoever has the CPU is marked so.

  Inside a handler some slots are on no queue for a moment: the lemmas on queues
  carry the set `E` of slots "in hand", which is empty again at the end, and
  `Poised` describes memory at the call of `do_scheduler()`. Each handler has one
  lemma that concludes `Fine`: `Good` of the memory it leaves, and its `Effects`
  (who died, whose wait or sleep ended, what became of a barrier), from which the
  action properties follow.

* `ContextProofs!ContextKept`, `OwnResult`, `KernelClosed`, `UserOpen` and
  `OwnFrames`: the five invariants of `context`, for any number of slots and
  stacks. The inductive invariant has four layers. `Types` holds the types and
  that a live process resumes at one of three places. `Bits` says what IE, EXL
  and the interrupt line are at each place of the kernel: IE is clear in every
  saved context, a process that resumes in a system call has EXL set in its user
  context, and between `RESET_TIMER` and `eret` nothing is pending. `Holds` says
  where the data of each process is at each place: in the registers, in the
  user context with EPC at the call or at the next instruction, and which of the
  two is told by the return address of the kernel half. `Frames` says that the
  stacks of live processes are distinct and that a suspended process has its
  frames on its own. `Holds` needs `Bits` (an interrupt inside the kernel would
  overwrite the user context), `Frames` needs `Holds` (the stack pointer a trap
  brings into the kernel).

* `MailboxProofs!UsersAreCounted` (`UsersCounted`), `NamesMeet`
  (`SameNameSameBox`), `ClosedIsNew` (`RestoredWhenClosed`) and
  `MessagesAreWhole` (`MessagesWhole`), for any number of processes, names and
  mailboxes, any capacity and any programs that are `Orderly`: their calls of
  open and close do not overlap (where they do, `mailbox_users` shows that an
  update is lost), and no process opens a name it has open. `MessagesAreWhole`
  also supposes `EvenLengths`: the messages of a name have one length, which
  divides the capacity, as the 4 bytes of the programs divide 100. The programs
  of the run `mailbox` satisfy all of this. The invariant has three layers.
  `Control` says in which call each process is, that queues of conditions hold
  those who wait there, each once, and that a mailbox that is open was opened
  and not closed since. `Counts` says what `num_users` is also while a process is
  within open or close: it counts those who have the mailbox open but for one
  that has subtracted itself and is still to test for zero, and what a process
  has loaded or found is still so. A mailbox without users is as new, so that the
  new name it gets disturbs nobody. `Messages` says that a buffer is a row of
  complete messages below the one that the holder of the lock moves (`BoxOk`,
  `Transit`), that processes wait only between two messages (`Rested`; here
  divisibility is needed: full and empty are multiples of the length), and, for
  "received once", that every byte is in one place, a buffer, a receiver or an
  inbox (`Unique`), and was sent before (`AllPast`), so that the next byte a
  sender adds is new.

* `ConsoleProofs`: every invariant and action property of `Console`, for any size
  of the screen, any number of programs and any typing. `CursorsOnScreen`
  (`CursorInside`), `RefreshLeavesOutTheKnown` (`RefreshFaithful`),
  `TableAtCommand` (`TableBelowCommand`), `CommandsAsTyped` (`CommandAsTyped`),
  `CursorsAreApart` (`CursorsPrivate`) and `AreasAreApart` (`AreasPrivate`). The
  first lemmas say what each operation of screen.c does to the buffers, the
  cursor and the terminal. The invariant has four parts.
  - `Types`.
  - `Writers`: where every process writes next, in the globals if it runs and in
    its PCB if not. The shell is on the lines that scroll (`AtHome`) but before
    its first move, between `sys_clear` and the move after it, where the cursor
    is at the top, and between `ps` and the prompt, where it is below the table
    (`Beneath`): at the left margin, because the Enter took it there, and lower
    than the screen by fewer lines than there are slots. From there one '>' can
    only hit a cell of column 0 of `old_screen`, and the scroll that follows takes
    the shell home. A program that is about to print is at the beginning of
    one of its lines (`AtLine`). `AreasPrivate` needs this, kept through every
    switch: a program that printed where the shell is, or at the bottom, where it
    would scroll, would store on lines that are not its own. SunQuan's first print
    may do so; that it leaves the cursor on the screen is all that holds.
  - `Shown`: `RefreshFaithful`, for which a scroll of the terminal makes
    everything `Raw`, and that a shell which is off the CPU when it is
    about to interpret a command, or to print the table, was interrupted by the
    timer, so that `irq_timer` refreshes as it comes back. `TableBelowCommand`
    speaks of the running shell only and needs this for the time between.
  - `Typed`: the command buffer is the line read so far and NUL behind it
    (`Padded`), so that neither an erased key nor the command before is in it;
    there is room for the keys to come; at each place of a command the shell's
    parameter is the number the line spells.

  `get_para` multiplies from the left; `Spells` takes the digits off from the
  right, so that `ParaSpelled` compares two computations. This needs no induction
  over strings: if the two differ, they differ at a first place, which exists as
  a minimal element of a set of numbers (`Least`), and at a first place they
  cannot differ. Both action properties follow from one classification of steps
  (`StepKinds`): a step either keeps the CPU and stores in the area of its
  process, or gives the CPU away and stores nothing.

Only model-checked: liveness (`SleeperWakes`, `ReadyRuns`, `AllComplete`,
`TimerAcknowledged`, `Displayed`), because fairness and ENABLED are beyond the
prover. Every invariant and action property of a passing run has a theorem.

## Not modelled

* The spin lock of lock.c: no program and no kernel code uses it.
* The boot block, the image tool and PMON: loading and serial output, before and
  below the kernel. The copy of the exception vector in main.c likewise.
* `vsnprintf` and the string library beyond comparison and `strrev`: formatting.
* The numbering of the system call table, and `sys_block`, `sys_unblock_*` and
  `sys_write_ch`, which no program calls.
* The memory behind `command_buffer` and the table of tasks. The model stops, or
  is bounded, where the code would go there; `pcb[16]` (`Phantom`) and the memory
  behind `new_screen`, which is `old_screen`, are modelled, because the code goes
  on with them regularly.
* Stack overflow: a stack is one place, whatever its depth.

## Plan

* `Mailbox` over `Kernel`'s own mutex and conditions, with processes that are
  killed while they send or receive (the rest of the three-kingdoms test).
