--------------------------- MODULE ContextSwitch ---------------------------
(***************************************************************************)
(* Exception entry, context switch and return (entry.S, syscall.S), with    *)
(* the parts of syscall.c, irq.c and main.c they run through.  The kernel   *)
(* has one register file and two saved contexts per PCB: a trap saves the   *)
(* user context, do_scheduler() the kernel context.  It runs on the stack   *)
(* of the process that trapped.                                             *)
(*                                                                         *)
(* A value in a register says what it is: data of a process, an argument or *)
(* a result of a call, a return address, a stack, or a leftover of kernel   *)
(* code.  Which process runs next is left open here: scheduler() is the     *)
(* subject of Sched.                                                        *)
(***************************************************************************)
EXTENDS Naturals, FiniteSets

CONSTANTS
    NUM_MAX_TASK,   \* size of pcb[]
    MaxStacks       \* bound: no more processes than this are ever created

ASSUME ContextAssumption == NUM_MAX_TASK \in Nat /\ NUM_MAX_TASK >= 3 /\ MaxStacks \in Nat \ {0}

VARIABLES
    current_running,
    alive,            \* slots whose status is not NOT_EXIST
    historical_num,   \* processes created so far
    reg,              \* the CPU's registers
    ie, exl,          \* bits of CP0_STATUS
    epc, cause,       \* CP0_EPC and the exception code of CP0_CAUSE
    pending,          \* the timer's interrupt line: COUNT reached COMPARE
    pc,               \* where the CPU is: "user" or a place in the kernel
    upc,              \* the next instruction, while pc = "user"
    kernel_context, user_context,
    frame,            \* on each stack, what the kernel's frames return to
    expect            \* history: what the code of each process may rely on

cpu == <<reg, ie, exl, epc, cause, upc>>
vars == <<current_running, alive, historical_num, cpu, pending, pc,
          kernel_context, user_context, frame, expect>>

Slots == 0..(NUM_MAX_TASK - 1)
Procs == 1..(NUM_MAX_TASK - 1)

-----------------------------------------------------------------------------
(***************************************************************************)
(* Registers                                                                *)
(***************************************************************************)

\* The registers by what the calling convention does with them: v0; v1, the
\* arguments and t0-t8; s0-s8 and gp; and those SAVE_CONTEXT leaves out.
Caller == {"v", "t"}
Callee == {"s"}
Saved == Caller \cup Callee \cup {"sp", "ra"}
Lost == {"at", "t9", "hilo"}
Regs == Saved \cup Lost

Zero == <<"zero", 0, 0>>
Kernel == <<"kernel", 0, 0>>
Data(p, n) == <<"data", p, n>>
Pid(p) == <<"pid", p, 0>>
Label(l) == <<l, 0, 0>>

\* Stack pointers in units of 0x1000 above 0xa0f00000, for the h-th process.
KernelTop(h) == <<"sp", 16 * h, 0>>
UserTop(h) == <<"sp", 16 * h - h, 0>>
BootStack == <<"sp", 0, 0>>
Stacks == {BootStack} \cup {UserTop(h) : h \in 1..MaxStacks}

\* Two instructions, one after the other, are enough to tell whether a process
\* goes on where it left.
Instr(p, n) == <<p, n>>
After(i) == <<i[1], 1 - i[2]>>

\* CP0_CAUSE is left out: software cannot write its exception code back.
SAVE_CONTEXT == [reg |-> [r \in Saved |-> reg[r]], ie |-> ie, exl |-> exl, epc |-> epc]

RESTORE_CONTEXT(c) ==
    /\ reg' = [r \in Regs |-> IF r \in Saved THEN c.reg[r] ELSE reg[r]]
    /\ ie' = c.ie /\ exl' = c.exl /\ epc' = c.epc /\ UNCHANGED cause

\* The registers after kernel code that was called with this return address.
Used(ra) == [r \in Regs |-> CASE r \in Caller \cup Lost -> Kernel
                              [] r = "ra" -> Label(ra)
                              [] OTHER -> reg[r]]

\* A context as init_pcb and do_spawn set it up, over what was in the slot:
\* CP0_STATUS has neither IE nor EXL, and the kernel half returns into
\* handle_int behind its call of interrupt_helper.
NewKernelContext(c, i, h) ==
    [c EXCEPT !.reg["sp"] = KernelTop(h), !.reg["ra"] = Label("handle_int_back"),
              !.ie = FALSE, !.exl = FALSE, !.epc = Instr(i, 0)]
NewUserContext(c, i, h) ==
    [c EXCEPT !.reg["sp"] = UserTop(h),
              !.ie = FALSE, !.exl = FALSE, !.epc = Instr(i, 0)]

NoContext == [reg |-> [r \in Saved |-> Zero], ie |-> FALSE, exl |-> FALSE, epc |-> Instr(0, 0)]

\* What a process may rely on when its code runs: the instruction that is
\* next, the stack, and which registers hold the data it computed last ("all",
\* or after a call only those a call preserves, and v0 if it asked for its pid;
\* a new process relies on its stack only).
Expect(n, h, what) == [at |-> n, stack |-> h, regs |-> what]

Init ==
    /\ current_running = 0
    /\ alive = {1}
    /\ historical_num = 1
    /\ reg = [r \in Regs |-> IF r = "sp" THEN BootStack ELSE Data(0, 0)]
    /\ ie = TRUE /\ exl = FALSE
    /\ epc = Instr(0, 0) /\ cause = "int" /\ pending = FALSE
    /\ pc = "user" /\ upc = Instr(0, 0)
    /\ kernel_context = [i \in Slots |-> IF i = 1 THEN NewKernelContext(NoContext, 1, 1)
                                         ELSE NoContext]
    /\ user_context = [i \in Slots |-> IF i = 1 THEN NewUserContext(NoContext, 1, 1)
                                       ELSE NoContext]
    /\ frame = [s \in Stacks |-> <<0, "none">>]
    /\ expect = [i \in Slots |-> Expect(0, 1, "new")]

-----------------------------------------------------------------------------
(***************************************************************************)
(* User code.  An interrupt that is pending and open is taken before the    *)
(* next instruction.                                                        *)
(***************************************************************************)
InUser == pc = "user"
Open == ie /\ ~exl
Runs(p) == InUser /\ current_running = p /\ ~(Open /\ pending)

\* An instruction stands for code that puts new data in every register.
Computed == [r \in Regs |-> IF r = "sp" THEN reg[r] ELSE Data(upc[1], After(upc)[2])]

Compute(p) ==
    /\ Runs(p)
    /\ upc' = After(upc)
    /\ reg' = Computed
    /\ expect' = [expect EXCEPT ![p].at = 1 - @, ![p].regs = "all"]
    /\ UNCHANGED <<current_running, alive, historical_num, ie, exl, epc, cause, pending, pc,
                   kernel_context, user_context, frame>>

\* The CPU enters the exception vector.
Trap(code, next) ==
    /\ exl' = TRUE /\ cause' = code /\ epc' = next
    /\ pc' = "exception"
    /\ UNCHANGED <<current_running, alive, historical_num, ie, pending, upc,
                   kernel_context, user_context, frame>>

\* invoke_syscall: v0 is the number of the call.  getpid stands for the calls
\* that return at once.  The shell neither blocks nor exits.
Calls == {"getpid", "spawn", "kill", "block", "exit"}
ShellCalls == {"getpid", "spawn", "kill"}

Syscall(p, call) ==
    /\ Runs(p) /\ ie
    /\ p = 1 => call \in ShellCalls
    /\ call = "spawn" => historical_num < MaxStacks
    /\ reg' = [Computed EXCEPT !.v = Label(call)]
    /\ expect' = [expect EXCEPT ![p].at = 1 - @,
                                ![p].regs = IF call = "getpid" THEN "pid" ELSE "call"]
    /\ Trap("sys", upc)

\* An instruction that faults: show_error() prints and stops.
UserFault(p) == Runs(p) /\ ie /\ Trap("other", upc) /\ UNCHANGED <<reg, expect>>

\* disable_interrupt and enable_interrupt of the shell, around its reading of
\* the serial port.
UartBegin == Runs(1) /\ ie /\ ie' = FALSE
             /\ UNCHANGED <<current_running, alive, historical_num, reg, exl, epc, cause, upc,
                            pending, pc, kernel_context, user_context, frame, expect>>
UartEnd == Runs(1) /\ ~ie /\ ie' = TRUE
           /\ UNCHANGED <<current_running, alive, historical_num, reg, exl, epc, cause, upc,
                          pending, pc, kernel_context, user_context, frame, expect>>

\* COUNT reaches COMPARE, at any time but in the few instructions between
\* RESET_TIMER and eret: an interval is 150000 cycles.
Tick ==
    /\ ~pending /\ pc \notin {"sti_int", "eret_int"}
    /\ pending' = TRUE
    /\ UNCHANGED <<current_running, alive, historical_num, cpu, pc,
                   kernel_context, user_context, frame, expect>>

\* The interrupt is taken wherever the CPU is, if it is open.
Interrupt ==
    /\ pending /\ Open
    /\ Trap("int", IF InUser THEN upc ELSE Instr(0, 0))
    /\ UNCHANGED <<reg, expect>>

-----------------------------------------------------------------------------
(***************************************************************************)
(* The kernel                                                               *)
(***************************************************************************)

\* CLI (whose mask goes through the register at), SAVE_CONTEXT(USER), and the
\* choice of the handler by the exception code.
exception_handler_entry ==
    /\ pc = "exception"
    /\ ie' = FALSE
    /\ reg' = [reg EXCEPT !["at"] = Kernel]
    /\ user_context' = [user_context EXCEPT ![current_running] = [SAVE_CONTEXT EXCEPT !.ie = FALSE]]
    /\ pc' = CASE cause = "int" -> "handle_int"
               [] cause = "sys" -> "handle_syscall"
               [] OTHER -> "stopped"
    /\ UNCHANGED <<current_running, alive, historical_num, exl, epc, cause, upc, pending,
                   kernel_context, frame, expect>>

\* do_scheduler up to its call of scheduler(): the frames of the callers are
\* on the stack in use, and the kernel context is saved with the registers as
\* the callers left them.
EnterScheduler(from, contexts, next) ==
    /\ frame' = [frame EXCEPT ![reg["sp"]] = <<current_running, from>>]
    /\ reg' = Used(from)
    /\ kernel_context' = [contexts EXCEPT ![current_running] =
                             [SAVE_CONTEXT EXCEPT !.reg = [r \in Saved |-> Used(from)[r]]]]
    /\ pc' = next
    /\ UNCHANGED <<ie, exl, epc, cause, upc, pending, current_running>>

\* handle_int, interrupt_helper and irq_timer up to do_scheduler().  The timer is
\* the only interrupt that is switched on, and no device is told to raise another,
\* so that interrupt_helper's message for an unknown one is never printed.
handle_int ==
    /\ pc = "handle_int"
    /\ EnterScheduler("irq_timer", kernel_context, "scheduler")
    /\ UNCHANGED <<alive, historical_num, user_context, expect>>

\* handle_syscall and system_call_helper: the handler is chosen by v0, which
\* nothing has changed since the trap.
Called(call) == pc = "handle_syscall" /\ reg["v"] = Label(call)

\* A call that returns without a switch, with a result.
CallReturns ==
    /\ Called("getpid")
    /\ reg' = [Used("syscall") EXCEPT !.v = Pid(current_running)]
    /\ frame' = [frame EXCEPT ![reg["sp"]] = <<current_running, "syscall">>]
    /\ pc' = "syscall"
    /\ UNCHANGED <<current_running, alive, historical_num, ie, exl, epc, cause, upc, pending,
                   kernel_context, user_context, expect>>

\* A call that queues its caller somewhere.
CallBlocks ==
    /\ Called("block")
    /\ EnterScheduler("syscall", kernel_context, "scheduler_away")
    /\ UNCHANGED <<alive, historical_num, user_context, expect>>

CallExits ==
    /\ Called("exit")
    /\ alive' = alive \ {current_running}
    /\ EnterScheduler("syscall", kernel_context, "scheduler_away")
    /\ UNCHANGED <<historical_num, user_context, expect>>

\* The victim keeps its contexts and its stack, wherever it was; 0 stands for a
\* pid that nobody has (the search starts behind the shell).
CallKills ==
    /\ Called("kill")
    /\ \E q \in (alive \ {1}) \cup {0} :
          /\ alive' = alive \ {q}
          /\ EnterScheduler("syscall", kernel_context,
                            IF q = current_running THEN "scheduler_away" ELSE "scheduler")
    /\ UNCHANGED <<historical_num, user_context, expect>>

\* Mutant of SpawnStack: the number of processes created is not advanced.
spawn_same_stack == historical_num
SpawnStack == historical_num + 1

\* Mutant of SpawnContext: the kernel half of a slot that was used before is
\* taken over as it is.
spawn_context_used(i, h) ==
    IF kernel_context[i] = NoContext THEN NewKernelContext(kernel_context[i], i, h)
    ELSE kernel_context[i]
SpawnContext(i, h) == NewKernelContext(kernel_context[i], i, h)

\* do_spawn looks for a free slot behind the shell's.
Free == Procs \ (alive \cup {1})
FirstFree == CHOOSE n \in Free : \A m \in Free : n <= m

\* The first free slot gets two contexts and a stack that nobody had before.
\* Without a free slot the kernel spins.
CallSpawns ==
    LET i == FirstFree
        h == SpawnStack
    IN  /\ Called("spawn")
        /\ \/ /\ Free = {}
              /\ pc' = "stopped"
              /\ UNCHANGED <<current_running, alive, historical_num, cpu, pending,
                             kernel_context, user_context, frame, expect>>
           \/ /\ Free # {}
              /\ alive' = alive \cup {i}
              /\ historical_num' = historical_num + 1
              /\ user_context' = [user_context EXCEPT ![i] = NewUserContext(@, i, h)]
              /\ EnterScheduler("syscall", [kernel_context EXCEPT ![i] = SpawnContext(i, h)],
                                "scheduler")
              /\ expect' = [expect EXCEPT ![i] = Expect(0, h, "new")]

\* scheduler() chooses, RESTORE_CONTEXT(KERNEL), jr ra.
scheduler ==
    /\ pc \in {"scheduler", "scheduler_away"}
    /\ \E q \in alive :
          /\ pc = "scheduler_away" => q # current_running
          /\ current_running' = q
          /\ RESTORE_CONTEXT(kernel_context[q])
          /\ pc' = kernel_context[q].reg["ra"][1]
    /\ UNCHANGED <<alive, historical_num, upc, pending, kernel_context, user_context,
                   frame, expect>>

\* irq_timer counts the tick and refreshes the screen, and returns.
irq_timer ==
    /\ pc = "irq_timer"
    /\ reg' = Used("irq_timer")
    /\ pc' = "handle_int_back"
    /\ UNCHANGED <<current_running, alive, historical_num, ie, exl, epc, cause, upc, pending,
                   kernel_context, user_context, frame, expect>>

\* Mutant of system_call_helper: the result stays in the register.
helper_result_in_register ==
    /\ pc = "syscall"
    /\ pc' = "handle_syscall_back"
    /\ UNCHANGED <<current_running, alive, historical_num, cpu, pending, user_context,
                   kernel_context, frame, expect>>

\* system_call_helper stores the result for the process that runs now.
system_call_helper ==
    /\ pc = "syscall"
    /\ user_context' = [user_context EXCEPT ![current_running].reg["v"] = reg["v"]]
    /\ pc' = "handle_syscall_back"
    /\ UNCHANGED <<current_running, alive, historical_num, cpu, pending,
                   kernel_context, frame, expect>>

\* Mutant of handle_int_back: RESET_TIMER is left out.
int_back_no_reset ==
    /\ pc = "handle_int_back"
    /\ RESTORE_CONTEXT(user_context[current_running])
    /\ pc' = "sti_int"
    /\ UNCHANGED <<current_running, alive, historical_num, upc, pending, kernel_context,
                   user_context, frame, expect>>

\* The rest of handle_int: RESTORE_CONTEXT(USER), RESET_TIMER.
handle_int_back ==
    /\ pc = "handle_int_back"
    /\ RESTORE_CONTEXT(user_context[current_running])
    /\ pending' = FALSE
    /\ pc' = "sti_int"
    /\ UNCHANGED <<current_running, alive, historical_num, upc, kernel_context,
                   user_context, frame, expect>>

\* Mutant of handle_syscall_back: EPC is not moved behind the instruction.
syscall_back_same_epc ==
    /\ pc = "handle_syscall_back"
    /\ RESTORE_CONTEXT(user_context[current_running])
    /\ pc' = "sti_sys"
    /\ UNCHANGED <<current_running, alive, historical_num, upc, pending, kernel_context,
                   user_context, frame, expect>>

\* The rest of handle_syscall: RESTORE_CONTEXT(USER), EPC + 4, and no
\* RESET_TIMER.
handle_syscall_back ==
    LET c == user_context[current_running]
    IN  /\ pc = "handle_syscall_back"
        /\ RESTORE_CONTEXT([c EXCEPT !.epc = After(@)])
        /\ pc' = "sti_sys"
        /\ UNCHANGED <<current_running, alive, historical_num, upc, pending, kernel_context,
                       user_context, frame, expect>>

\* Mutant of STI: only the interrupt handler opens interrupts.
sti_int_only ==
    /\ pc \in {"sti_int", "sti_sys"}
    /\ ie' = (ie \/ pc = "sti_int")
    /\ pc' = IF pc = "sti_int" THEN "eret_int" ELSE "eret_sys"
    /\ UNCHANGED <<current_running, alive, historical_num, reg, exl, epc, cause, upc, pending,
                   kernel_context, user_context, frame, expect>>

STI ==
    /\ pc \in {"sti_int", "sti_sys"}
    /\ ie' = TRUE
    /\ pc' = IF pc = "sti_int" THEN "eret_int" ELSE "eret_sys"
    /\ UNCHANGED <<current_running, alive, historical_num, reg, exl, epc, cause, upc, pending,
                   kernel_context, user_context, frame, expect>>

eret ==
    /\ pc \in {"eret_int", "eret_sys"}
    /\ ~(pending /\ Open)
    /\ exl' = FALSE
    /\ pc' = "user" /\ upc' = epc
    /\ UNCHANGED <<current_running, alive, historical_num, reg, ie, epc, cause, pending,
                   kernel_context, user_context, frame, expect>>

\* The kernel spins for ever, with interrupts closed.
Stopped == pc = "stopped" /\ UNCHANGED vars

KernelStep ==
    \/ exception_handler_entry \/ handle_int
    \/ CallReturns \/ CallBlocks \/ CallExits \/ CallKills \/ CallSpawns
    \/ scheduler \/ irq_timer \/ system_call_helper
    \/ handle_int_back \/ handle_syscall_back \/ STI \/ eret

Next ==
    \/ \E p \in Procs : Compute(p) \/ UserFault(p) \/ \E call \in Calls : Syscall(p, call)
    \/ UartBegin \/ UartEnd
    \/ Tick \/ Interrupt
    \/ KernelStep
    \/ Stopped

Spec == Init /\ [][Next]_vars

\* The CPU goes on in the kernel, takes an interrupt that is open, and the
\* shell comes to the end of its reading.
FairSpec == Spec /\ WF_vars(KernelStep) /\ WF_vars(Interrupt) /\ WF_vars(UartEnd)

-----------------------------------------------------------------------------
(***************************************************************************)
(* Properties                                                               *)
(***************************************************************************)

\* A process does not notice that it was interrupted, made a call or was
\* switched out: its code goes on at the right instruction (behind the
\* instruction of a call, at the one an interrupt came before), on its own
\* stack, and with its data in every register SAVE_CONTEXT keeps (after a call,
\* in those a C function preserves).
UserContextKept ==
    InUser /\ current_running # 0 =>
      LET p == current_running
          e == expect[p]
      IN  /\ upc = Instr(p, e.at)
          /\ reg["sp"] = UserTop(e.stack)
          /\ e.regs = "all" => \A r \in Saved \ {"sp"} : reg[r] = Data(p, e.at)
          /\ e.regs \in {"call", "pid"} => \A r \in Callee \cup {"ra"} : reg[r] = Data(p, e.at)

\* sys_getpid returns the caller's own pid, whatever ran in between.
ReturnsOwnPid ==
    InUser /\ expect[current_running].regs = "pid" => reg["v"] = Pid(current_running)

\* The kernel is not interrupted: a process that runs for the first time has
\* EXL clear, so that between STI and eret only RESET_TIMER keeps the interrupt
\* that brought it in from being taken again.
KernelNotInterrupted == ~InUser => ~(pending /\ Open)

\* Every process runs with interrupts open (the shell closes them itself):
\* code that ran with interrupts closed could not be preempted.
UserInterruptible == InUser => ~exl /\ (current_running # 1 => ie)

\* When a process goes on in the kernel after a switch, the frames on the stack
\* are its own and return where it was: nobody else used its stack meanwhile,
\* and a slot that is used again does not go on in the calls of the process
\* that had it before.
KernelFramesOwn ==
    pc \in {"irq_timer", "syscall"} => frame[reg["sp"]] = <<current_running, pc>>

\* A pending timer interrupt is acknowledged, although the return from a system
\* call does not reset the timer and a process that comes back that way is
\* interrupted again before its first instruction.
TimerAcknowledged == pending ~> ~pending \/ pc = "stopped"

\* regs_context_t is "used to save register infomation" (sched.h), hi and lo
\* included: an interrupt changes no register.
AllRegistersKept ==
    InUser /\ current_running # 0 /\ expect[current_running].regs = "all"
      => \A r \in Regs \ {"sp"} : reg[r] = Data(current_running, expect[current_running].at)
=============================================================================
