---------------------------- MODULE ContextProofs ---------------------------
(***************************************************************************)
(* What a process may rely on across traps and switches, for any number of  *)
(* processes and stacks (the invariants of ContextSwitch.tla).              *)
(*                                                                         *)
(* The invariant has four layers, each inductive over those before it: the  *)
(* types, with the places a saved kernel context returns to (Types); the    *)
(* two interrupt bits at every place of the kernel and in every saved       *)
(* context (Bits); that the user context of every process that is off the   *)
(* CPU, or the registers of the one on it, hold what its code relies on     *)
(* (Holds); and that stacks are private and a suspended process finds its   *)
(* frames on its own (Frames).                                              *)
(***************************************************************************)
EXTENDS ContextSwitch, FiniteSetTheorems, TLAPS

-----------------------------------------------------------------------------
(***************************************************************************)
(* The free slot                                                            *)
(***************************************************************************)

\* A set of numbers that is not empty has a least element.
LEMMA LeastOf ==
  ASSUME NEW S \in SUBSET Nat, S # {}
  PROVE  \E n \in S : \A m \in S : n <= m
<1> DEFINE T == {0..n : n \in S}
           R == StrictSubsetOrdering(Nat)
<1>1. \A n \in S : IsFiniteSet(0..n)
  BY FS_Interval
<1>2. T \subseteq FiniteSubsetsOf(Nat)
  BY <1>1 DEF FiniteSubsetsOf
<1>3. T # {}
  OBVIOUS
<1>4. IsWellFoundedOn(R, FiniteSubsetsOf(Nat))
  BY FS_StrictSubsetOrderingWellFounded
<1> HIDE DEF R
<1>5. PICK x \in T : \A y \in T : ~(<<y, x>> \in R)
  <2> HIDE DEF T
  <2> QED BY <1>2, <1>3, <1>4, WFMin
<1>6. PICK n \in S : x = 0..n
  OBVIOUS
<1>7. ASSUME NEW m \in S PROVE n <= m
  <2>1. ~(<<0..m, 0..n>> \in R)
    BY <1>5, <1>6
  <2>2. ~(0..m \subseteq 0..n /\ 0..m # 0..n)
    BY <2>1 DEF R, StrictSubsetOrdering
  <2>3. CASE m < n
    <3>1. 0..m \subseteq 0..n
      BY <2>3
    <3>2. n \in 0..n /\ ~(n \in 0..m)
      BY <2>3
    <3> QED BY <2>2, <3>1, <3>2
  <2> QED BY <2>3
<1> QED BY <1>7

LEMMA FirstFreeIn ==
  ASSUME Free # {}
  PROVE  FirstFree \in Procs \ (alive \cup {1})
<1>1. Free \in SUBSET Nat
  BY ContextAssumption DEF Free, Procs
<1>2. \E n \in Free : \A m \in Free : n <= m
  BY <1>1, LeastOf
<1>3. FirstFree \in Free
  BY <1>2 DEF FirstFree
<1> QED BY <1>3 DEF Free

-----------------------------------------------------------------------------
(***************************************************************************)
(* Types                                                                    *)
(***************************************************************************)

\* Where do_scheduler returns to in a process.
Resumes == {"handle_int_back", "irq_timer", "syscall"}

Labels == Resumes \cup Calls
Values == ({"zero", "kernel", "data", "pid", "sp"} \cup Labels) \X Nat \X Nat
Places == Slots \X {0, 1}
Contexts == [reg : [Saved -> Values], ie : BOOLEAN, exl : BOOLEAN, epc : Places]
Expectations == [at : {0, 1}, stack : Nat, regs : {"all", "call", "pid", "new"}]

Points == {"user", "exception", "handle_int", "handle_syscall", "scheduler", "scheduler_away",
           "handle_syscall_back", "sti_int", "sti_sys", "eret_int", "eret_sys", "stopped"}
          \cup Resumes

Types ==
    /\ current_running \in Slots
    /\ alive \in SUBSET Procs
    /\ historical_num \in Nat \ {0}
    /\ reg \in [Regs -> Values]
    /\ ie \in BOOLEAN /\ exl \in BOOLEAN /\ pending \in BOOLEAN
    /\ epc \in Places /\ upc \in Places
    /\ cause \in {"int", "sys", "other"}
    /\ pc \in Points
    /\ kernel_context \in [Slots -> Contexts]
    /\ user_context \in [Slots -> Contexts]
    /\ expect \in [Slots -> Expectations]
    /\ \A q \in alive : kernel_context[q].reg["ra"][1] \in Resumes

LEMMA SlotsAre == Procs \subseteq Slots /\ 0 \in Slots /\ 1 \in Procs /\ Slots \subseteq Nat
BY ContextAssumption DEF Slots, Procs

LEMMA ValuesAre ==
  /\ Zero \in Values /\ Kernel \in Values /\ BootStack \in Values
  /\ \A p \in Nat : Pid(p) \in Values /\ KernelTop(p) \in Values /\ UserTop(p) \in Values
  /\ \A p \in Nat : \A n \in {0, 1} : Data(p, n) \in Values
  /\ \A l \in Labels : Label(l) \in Values
BY DEF Values, Zero, Kernel, Data, Pid, Label, KernelTop, UserTop, BootStack, Labels

\* The kernel keeps the callee's registers and the stack pointer.
LEMMA UsedIs ==
  ASSUME Types, NEW l \in Labels
  PROVE  /\ Used(l) \in [Regs -> Values]
         /\ Used(l)["ra"] = Label(l)
         /\ Used(l)["sp"] = reg["sp"]
BY ValuesAre DEF Types, Used, Regs, Saved, Caller, Callee, Lost

LEMMA SavedIs ==
  ASSUME Types
  PROVE  SAVE_CONTEXT \in Contexts
BY DEF Types, SAVE_CONTEXT, Contexts, Regs

LEMMA AfterIs ==
  ASSUME NEW p \in Slots, NEW n \in {0, 1}
  PROVE  /\ Instr(p, n) \in Places
         /\ After(Instr(p, n)) = Instr(p, 1 - n)
         /\ After(Instr(p, n)) \in Places
         /\ 1 - n \in {0, 1} /\ 1 - (1 - n) = n
BY DEF Places, Instr, After

LEMMA AfterPlace ==
  ASSUME NEW i \in Places
  PROVE  After(i) \in Places /\ i[1] \in Slots /\ After(i)[2] \in {0, 1}
BY DEF Places, After

LEMMA ComputedIs ==
  ASSUME Types
  PROVE  Computed \in [Regs -> Values]
BY ValuesAre, SlotsAre, AfterPlace DEF Types, Computed

\* do_scheduler saves a context that returns where it was called.
LEMMA EnterTypes ==
  ASSUME Types, NEW from \in {"irq_timer", "syscall"}, NEW next \in {"scheduler", "scheduler_away"},
         NEW contexts \in [Slots -> Contexts],
         EnterScheduler(from, contexts, next)
  PROVE  /\ current_running' \in Slots
         /\ reg' \in [Regs -> Values]
         /\ ie' \in BOOLEAN /\ exl' \in BOOLEAN /\ pending' \in BOOLEAN
         /\ epc' \in Places /\ upc' \in Places
         /\ cause' \in {"int", "sys", "other"}
         /\ pc' = next /\ pc' \in Points
         /\ kernel_context' \in [Slots -> Contexts]
         /\ kernel_context'[current_running].reg["ra"][1] = from
         /\ \A q \in Slots \ {current_running} : kernel_context'[q] = contexts[q]
<1> DEFINE c == [SAVE_CONTEXT EXCEPT !.reg = [r \in Saved |-> Used(from)[r]]]
<1>1. Used(from) \in [Regs -> Values] /\ Used(from)["ra"] = Label(from)
  BY UsedIs DEF Labels, Resumes
<1>2. c \in Contexts
  BY <1>1, SavedIs DEF Contexts, Regs
<1>3. c.reg["ra"][1] = from
  BY <1>1, SavedIs DEF Contexts, Saved, Label
<1>4. kernel_context' = [contexts EXCEPT ![current_running] = c]
  BY DEF EnterScheduler
<1>5. reg' = Used(from) /\ pc' = next
      /\ UNCHANGED <<ie, exl, epc, cause, upc, pending, current_running>>
  BY DEF EnterScheduler
<1> HIDE DEF c
<1> QED BY <1>1, <1>2, <1>3, <1>4, <1>5 DEF Types, Points

LEMMA NewTypes ==
  ASSUME Types, NEW c \in Contexts, NEW i \in Slots, NEW h \in Nat
  PROVE  /\ NewKernelContext(c, i, h) \in Contexts
         /\ NewKernelContext(c, i, h).reg["ra"] = Label("handle_int_back")
         /\ NewUserContext(c, i, h) \in Contexts
<1>1. Instr(i, 0) \in Places
  BY AfterIs
<1>2. KernelTop(h) \in Values /\ UserTop(h) \in Values /\ Label("handle_int_back") \in Values
  BY ValuesAre DEF Labels, Resumes
<1> QED BY <1>1, <1>2 DEF NewKernelContext, NewUserContext, Contexts, Saved

LEMMA NoContextIs == NoContext \in Contexts
<1>1. Instr(0, 0) \in Places
  BY AfterIs, SlotsAre
<1> QED BY <1>1, ValuesAre DEF NoContext, Contexts

LEMMA InitTypes == Init => Types
<1> SUFFICES ASSUME Init PROVE Types
  OBVIOUS
<1>1. NoContext \in Contexts /\ Instr(0, 0) \in Places
  BY NoContextIs, AfterIs, SlotsAre
<1>2. /\ NewKernelContext(NoContext, 1, 1) \in Contexts
      /\ NewKernelContext(NoContext, 1, 1).reg["ra"] = Label("handle_int_back")
      /\ NewUserContext(NoContext, 1, 1) \in Contexts
  <2>1. Instr(1, 0) \in Places
    BY AfterIs, SlotsAre
  <2>2. KernelTop(1) \in Values /\ UserTop(1) \in Values /\ Label("handle_int_back") \in Values
    BY ValuesAre DEF Labels, Resumes
  <2> QED BY <1>1, <2>1, <2>2 DEF NewKernelContext, NewUserContext, Contexts, Saved
<1>3. reg \in [Regs -> Values]
  BY ValuesAre DEF Init
<1>4. kernel_context \in [Slots -> Contexts] /\ user_context \in [Slots -> Contexts]
  BY <1>1, <1>2 DEF Init
<1>5. \A q \in alive : kernel_context[q].reg["ra"][1] \in Resumes
  BY <1>2, SlotsAre DEF Init, Label, Resumes
<1>6. expect \in [Slots -> Expectations]
  BY DEF Init, Expect, Expectations
<1>7. ie \in BOOLEAN /\ exl \in BOOLEAN /\ pending \in BOOLEAN
  BY DEF Init
<1>9. /\ current_running \in Slots /\ alive \in SUBSET Procs /\ historical_num \in Nat \ {0}
      /\ current_running \in alive \cup {0}
  <2>1. current_running = 0 /\ alive = {1} /\ historical_num = 1
    BY DEF Init
  <2> QED BY <2>1, SlotsAre
<1>8. /\ epc \in Places /\ upc \in Places /\ cause \in {"int", "sys", "other"}
      /\ pc \in Points
  BY <1>1 DEF Init, Points
<1> QED BY <1>3, <1>4, <1>5, <1>6, <1>7, <1>8, <1>9 DEF Types

LEMMA SchedulerTypes == Types /\ scheduler => Types'
<1> SUFFICES ASSUME Types, scheduler PROVE Types'
  OBVIOUS
<1>1. PICK q \in alive : /\ current_running' = q
                         /\ RESTORE_CONTEXT(kernel_context[q])
                         /\ pc' = kernel_context[q].reg["ra"][1]
  BY DEF scheduler
<1>2. q \in Slots /\ kernel_context[q] \in Contexts
  BY SlotsAre DEF Types
<1>3. /\ reg' \in [Regs -> Values] /\ ie' \in BOOLEAN /\ exl' \in BOOLEAN /\ epc' \in Places
      /\ cause' = cause
  BY <1>1, <1>2 DEF RESTORE_CONTEXT, Contexts, Regs, Types
<1>4. pc' \in Points
  BY <1>1 DEF Types, Points
<1>5. UNCHANGED <<alive, historical_num, upc, pending, kernel_context, user_context, expect>>
  BY DEF scheduler
<1> QED BY <1>1, <1>2, <1>3, <1>4, <1>5 DEF Types

\* A return to the user context of the running process.
LEMMA RestoreTypes ==
  ASSUME Types, NEW c \in Contexts, RESTORE_CONTEXT(c)
  PROVE  /\ reg' \in [Regs -> Values] /\ ie' \in BOOLEAN /\ exl' \in BOOLEAN
         /\ epc' \in Places /\ cause' \in {"int", "sys", "other"}
BY DEF RESTORE_CONTEXT, Contexts, Regs, Types

LEMMA SpawnTypes == Types /\ CallSpawns => Types'
<1> SUFFICES ASSUME Types, CallSpawns PROVE Types'
  OBVIOUS
<1> DEFINE i == FirstFree
           h == SpawnStack
           contexts == [kernel_context EXCEPT ![i] = SpawnContext(i, h)]
<1>1. CASE Free = {}
  BY <1>1 DEF CallSpawns, Types, Points, cpu
<1>2. CASE Free # {}
  <2>1. i \in Procs /\ i \in Slots
    BY <1>2, FirstFreeIn, SlotsAre
  <2>2. h \in Nat
    BY DEF SpawnStack, Types
  <2>3. /\ alive' = alive \cup {i}
        /\ historical_num' = historical_num + 1
        /\ user_context' = [user_context EXCEPT ![i] = NewUserContext(@, i, h)]
        /\ EnterScheduler("syscall", contexts, "scheduler")
        /\ expect' = [expect EXCEPT ![i] = Expect(0, h, "new")]
    BY <1>2 DEF CallSpawns
  <2> HIDE DEF i, h
  <2>4. /\ SpawnContext(i, h) \in Contexts
        /\ SpawnContext(i, h).reg["ra"] = Label("handle_int_back")
        /\ NewUserContext(user_context[i], i, h) \in Contexts
    BY <2>1, <2>2, NewTypes DEF SpawnContext, Types
  <2>5. contexts \in [Slots -> Contexts] /\ contexts[i].reg["ra"][1] \in Resumes
        /\ \A q \in Slots \ {i} : contexts[q] = kernel_context[q]
    BY <2>1, <2>4 DEF Types, Label, Resumes
  <2>6. user_context' \in [Slots -> Contexts]
    BY <2>1, <2>3, <2>4 DEF Types
  <2>7. expect' \in [Slots -> Expectations]
    BY <2>1, <2>2, <2>3 DEF Types, Expect, Expectations
  <2> HIDE DEF contexts
  <2>8. /\ current_running' \in Slots
        /\ reg' \in [Regs -> Values]
        /\ ie' \in BOOLEAN /\ exl' \in BOOLEAN /\ pending' \in BOOLEAN
        /\ epc' \in Places /\ upc' \in Places
        /\ cause' \in {"int", "sys", "other"}
        /\ pc' = "scheduler" /\ pc' \in Points
        /\ kernel_context' \in [Slots -> Contexts]
        /\ kernel_context'[current_running].reg["ra"][1] = "syscall"
        /\ \A q \in Slots \ {current_running} : kernel_context'[q] = contexts[q]
    BY <2>3, <2>5, EnterTypes
  <2>9. \A q \in alive' : kernel_context'[q].reg["ra"][1] \in Resumes
    BY <2>1, <2>3, <2>5, <2>8, SlotsAre DEF Types, Resumes
  <2>10. alive' \in SUBSET Procs /\ historical_num' \in Nat \ {0}
    BY <2>1, <2>3 DEF Types
  <2> QED BY <2>6, <2>7, <2>8, <2>9, <2>10 DEF Types
<1> QED BY <1>1, <1>2

\* The other calls that switch change only the set of the living.
LEMMA SwitchTypes ==
  ASSUME Types, NEW from \in {"irq_timer", "syscall"}, NEW next \in {"scheduler", "scheduler_away"},
         EnterScheduler(from, kernel_context, next), alive' \subseteq alive,
         UNCHANGED <<historical_num, user_context, expect>>
  PROVE  Types'
<1>1. kernel_context \in [Slots -> Contexts]
  BY DEF Types
<1>2. /\ current_running' \in Slots
      /\ reg' \in [Regs -> Values]
      /\ ie' \in BOOLEAN /\ exl' \in BOOLEAN /\ pending' \in BOOLEAN
      /\ epc' \in Places /\ upc' \in Places
      /\ cause' \in {"int", "sys", "other"}
      /\ pc' = next /\ pc' \in Points
      /\ kernel_context' \in [Slots -> Contexts]
      /\ kernel_context'[current_running].reg["ra"][1] = from
      /\ \A q \in Slots \ {current_running} : kernel_context'[q] = kernel_context[q]
  BY <1>1, EnterTypes
<1>3. \A q \in alive' : kernel_context'[q].reg["ra"][1] \in Resumes
  BY <1>2, SlotsAre DEF Types, Resumes
<1> QED BY <1>2, <1>3 DEF Types

LEMMA NextTypes == Types /\ [Next]_vars => Types'
<1> SUFFICES ASSUME Types, [Next]_vars PROVE Types'
  OBVIOUS
<1>1. ASSUME NEW p \in Procs, Compute(p) PROVE Types'
  <2>1. reg' \in [Regs -> Values] /\ upc' \in Places
    BY <1>1, ComputedIs, AfterPlace DEF Compute, Types
  <2>2. expect' \in [Slots -> Expectations]
    BY <1>1, SlotsAre, SMTT(40) DEF Compute, Types, Expectations
  <2> QED BY <1>1, <2>1, <2>2 DEF Compute, Types
<1>2. ASSUME NEW p \in Procs, UserFault(p) PROVE Types'
  BY <1>2 DEF UserFault, Trap, Types, Points
<1>3. ASSUME NEW p \in Procs, NEW call \in Calls, Syscall(p, call) PROVE Types'
  <2>1. reg' \in [Regs -> Values]
    BY <1>3, ComputedIs, ValuesAre DEF Syscall, Labels
  <2>2. expect' \in [Slots -> Expectations]
    BY <1>3, SlotsAre, SMTT(40) DEF Syscall, Types, Expectations
  <2> QED BY <1>3, <2>1, <2>2 DEF Syscall, Trap, Types, Points
<1>4. ASSUME UartBegin \/ UartEnd \/ Tick PROVE Types'
  BY <1>4 DEF UartBegin, UartEnd, Tick, Types, cpu
<1>5. ASSUME Interrupt PROVE Types'
  <2>1. Instr(0, 0) \in Places
    BY AfterIs, SlotsAre
  <2> QED BY <1>5, <2>1 DEF Interrupt, Trap, Types, Points
<1>6. ASSUME exception_handler_entry PROVE Types'
  <2>1. [SAVE_CONTEXT EXCEPT !.ie = FALSE] \in Contexts
    BY SavedIs DEF Contexts
  <2>2. user_context' \in [Slots -> Contexts]
    BY <1>6, <2>1 DEF exception_handler_entry, Types
  <2>3. reg' \in [Regs -> Values]
    BY <1>6, ValuesAre DEF exception_handler_entry, Types
  <2>4. pc' \in Points
    BY <1>6 DEF exception_handler_entry, Points
  <2> QED BY <1>6, <2>2, <2>3, <2>4 DEF exception_handler_entry, Types
<1>7. ASSUME handle_int PROVE Types'
  BY <1>7, SwitchTypes DEF handle_int
<1>8. ASSUME CallReturns PROVE Types'
  <2>1. Used("syscall") \in [Regs -> Values]
    BY UsedIs DEF Labels, Resumes
  <2>2. reg' \in [Regs -> Values]
    BY <1>8, <2>1, ValuesAre, SlotsAre DEF CallReturns, Types
  <2> QED BY <1>8, <2>2 DEF CallReturns, Types, Points, Resumes
<1>9. ASSUME CallBlocks PROVE Types'
  BY <1>9, SwitchTypes DEF CallBlocks
<1>10. ASSUME CallExits PROVE Types'
  BY <1>10, SwitchTypes DEF CallExits
<1>11. ASSUME CallKills PROVE Types'
  BY <1>11, SwitchTypes DEF CallKills
<1>12. ASSUME irq_timer PROVE Types'
  <2>1. reg' \in [Regs -> Values]
    BY <1>12, UsedIs DEF irq_timer, Labels, Resumes
  <2> QED BY <1>12, <2>1 DEF irq_timer, Types, Points, Resumes
<1>13. ASSUME system_call_helper PROVE Types'
  <2>1. reg["v"] \in Values
    BY DEF Types, Regs, Saved, Caller
  <2>2. [user_context[current_running] EXCEPT !.reg["v"] = reg["v"]] \in Contexts
    BY <2>1 DEF Types, Contexts
  <2>3. user_context' \in [Slots -> Contexts]
    BY <1>13, <2>2 DEF system_call_helper, Types
  <2> QED BY <1>13, <2>3 DEF system_call_helper, Types, Points, cpu
<1>14. ASSUME handle_int_back PROVE Types'
  <2>1. user_context[current_running] \in Contexts
    BY DEF Types
  <2>2. /\ reg' \in [Regs -> Values] /\ ie' \in BOOLEAN /\ exl' \in BOOLEAN
        /\ epc' \in Places /\ cause' \in {"int", "sys", "other"}
    BY <1>14, <2>1, RestoreTypes DEF handle_int_back
  <2> QED BY <1>14, <2>2 DEF handle_int_back, Types, Points
<1>15. ASSUME handle_syscall_back PROVE Types'
  <2> DEFINE c == [user_context[current_running] EXCEPT !.epc = After(@)]
  <2>1. c \in Contexts
    <3>1. user_context[current_running] \in Contexts
      BY DEF Types
    <3>2. After(user_context[current_running].epc) \in Places
      BY <3>1, AfterPlace DEF Contexts
    <3> QED BY <3>1, <3>2 DEF Contexts
  <2>2. RESTORE_CONTEXT(c)
    BY <1>15 DEF handle_syscall_back
  <2> HIDE DEF c
  <2>3. /\ reg' \in [Regs -> Values] /\ ie' \in BOOLEAN /\ exl' \in BOOLEAN
        /\ epc' \in Places /\ cause' \in {"int", "sys", "other"}
    BY <2>1, <2>2, RestoreTypes
  <2> QED BY <1>15, <2>3 DEF handle_syscall_back, Types, Points
<1>16. ASSUME STI \/ eret PROVE Types'
  BY <1>16 DEF STI, eret, Types, Points
<1>17. ASSUME UNCHANGED vars PROVE Types'
  BY <1>17 DEF vars, cpu, Types
<1> QED BY <1>1, <1>2, <1>3, <1>4, <1>5, <1>6, <1>7, <1>8, <1>9, <1>10, <1>11, <1>12, <1>13,
           <1>14, <1>15, <1>16, <1>17, SpawnTypes, SchedulerTypes
        DEF Next, KernelStep, Stopped

-----------------------------------------------------------------------------
(***************************************************************************)
(* The interrupt bits                                                       *)
(***************************************************************************)

\* Where the kernel runs with IE clear.
Closed == {"handle_int", "handle_syscall", "scheduler", "scheduler_away", "handle_syscall_back",
           "sti_int", "sti_sys", "stopped"} \cup Resumes

Bits ==
    /\ InUser => exl = FALSE /\ (current_running # 1 => ie = TRUE)
    /\ pc = "exception" => exl = TRUE
    /\ pc \in Closed => ie = FALSE
    /\ pc \in {"sti_sys", "eret_sys"} => exl = TRUE
    /\ pc \in {"eret_int", "eret_sys"} => ie = TRUE
    /\ pc \in {"sti_int", "eret_int"} => pending = FALSE
    /\ pc \in {"handle_syscall", "syscall", "handle_syscall_back"} =>
         user_context[current_running].exl = TRUE
    /\ \A q \in Slots : kernel_context[q].ie = FALSE /\ user_context[q].ie = FALSE
    /\ \A q \in alive : kernel_context[q].reg["ra"][1] = "syscall" => user_context[q].exl = TRUE
    /\ pc \in {"scheduler", "scheduler_away"} \/ current_running \in alive \cup {0}

\* The two invariants of the run follow.
LEMMA BitsImply == Types /\ Bits => KernelNotInterrupted /\ UserInterruptible
BY DEF Types, Bits, Points, Closed, Resumes, KernelNotInterrupted, UserInterruptible, InUser, Open

LEMMA EnterIs ==
  ASSUME Types, NEW from \in {"irq_timer", "syscall"}, NEW next \in {"scheduler", "scheduler_away"},
         NEW contexts \in [Slots -> Contexts],
         EnterScheduler(from, contexts, next)
  PROVE  /\ kernel_context'[current_running].ie = ie
         /\ kernel_context'[current_running].reg["sp"] = reg["sp"]
<1> DEFINE c == [SAVE_CONTEXT EXCEPT !.reg = [r \in Saved |-> Used(from)[r]]]
<1>1. Used(from) \in [Regs -> Values] /\ Used(from)["sp"] = reg["sp"]
  BY UsedIs DEF Labels, Resumes
<1>2. kernel_context' = [contexts EXCEPT ![current_running] = c]
  BY DEF EnterScheduler
<1>3. c.ie = ie
  BY DEF SAVE_CONTEXT
<1>4. c.reg["sp"] = reg["sp"]
  BY <1>1 DEF SAVE_CONTEXT, Saved
<1> HIDE DEF c
<1> QED BY <1>2, <1>3, <1>4 DEF Types

\* What a switch out of the kernel leaves behind.
LEMMA SwitchIs ==
  ASSUME Types, NEW from \in {"irq_timer", "syscall"}, NEW next \in {"scheduler", "scheduler_away"},
         NEW contexts \in [Slots -> Contexts],
         EnterScheduler(from, contexts, next)
  PROVE  /\ kernel_context'[current_running].ie = ie
         /\ kernel_context'[current_running].reg["sp"] = reg["sp"]
         /\ kernel_context'[current_running].reg["ra"][1] = from
         /\ \A q \in Slots \ {current_running} : kernel_context'[q] = contexts[q]
         /\ pc' = next
         /\ UNCHANGED <<ie, exl, epc, cause, upc, pending, current_running>>
<1>1. pc' = next /\ UNCHANGED <<ie, exl, epc, cause, upc, pending, current_running>>
  BY DEF EnterScheduler
<1>2. /\ kernel_context'[current_running].reg["ra"][1] = from
      /\ \A q \in Slots \ {current_running} : kernel_context'[q] = contexts[q]
  BY EnterTypes
<1> QED BY <1>1, <1>2, EnterIs

LEMMA SwitchBits ==
  ASSUME Types, Bits, NEW from \in {"irq_timer", "syscall"},
         NEW next \in {"scheduler", "scheduler_away"},
         EnterScheduler(from, kernel_context, next), alive' \subseteq alive,
         UNCHANGED user_context,
         pc = IF from = "syscall" THEN "handle_syscall" ELSE "handle_int"
  PROVE  Bits'
<1>1. kernel_context \in [Slots -> Contexts]
  BY DEF Types
<1>2. /\ kernel_context'[current_running].ie = ie
      /\ kernel_context'[current_running].reg["ra"][1] = from
      /\ \A q \in Slots \ {current_running} : kernel_context'[q] = kernel_context[q]
      /\ pc' = next
      /\ UNCHANGED <<ie, exl, pending, current_running>>
  BY <1>1, SwitchIs
<1>3. ie = FALSE
  BY DEF Bits, Closed
<1>4. \A q \in Slots : kernel_context'[q].ie = FALSE /\ user_context'[q].ie = FALSE
  BY <1>2, <1>3 DEF Bits
<1>5. \A q \in alive' : kernel_context'[q].reg["ra"][1] = "syscall" => user_context'[q].exl = TRUE
  BY <1>2, SlotsAre DEF Bits, Types
<1> QED BY <1>2, <1>3, <1>4, <1>5 DEF Bits, InUser, Closed, Resumes

LEMMA SpawnBits == Types /\ Bits /\ CallSpawns => Bits'
<1> SUFFICES ASSUME Types, Bits, CallSpawns PROVE Bits'
  OBVIOUS
<1> DEFINE i == FirstFree
           h == SpawnStack
           contexts == [kernel_context EXCEPT ![i] = SpawnContext(i, h)]
<1>0. pc = "handle_syscall" /\ ie = FALSE /\ user_context[current_running].exl = TRUE
  BY DEF CallSpawns, Called, Bits, Closed
<1>1. CASE Free = {}
  BY <1>0, <1>1 DEF CallSpawns, Bits, cpu, InUser, Closed, Resumes
<1>2. CASE Free # {}
  <2>1. i \in Slots /\ i \notin alive
    BY <1>2, FirstFreeIn, SlotsAre
  <2>2. h \in Nat
    BY DEF SpawnStack, Types
  <2>3. /\ alive' = alive \cup {i}
        /\ user_context' = [user_context EXCEPT ![i] = NewUserContext(@, i, h)]
        /\ EnterScheduler("syscall", contexts, "scheduler")
    BY <1>2 DEF CallSpawns
  <2> HIDE DEF i, h
  <2>4. /\ SpawnContext(i, h) \in Contexts
        /\ SpawnContext(i, h).reg["ra"] = Label("handle_int_back")
    BY <2>1, <2>2, NewTypes DEF SpawnContext, Types
  <2>5. SpawnContext(i, h).ie = FALSE /\ NewUserContext(user_context[i], i, h).ie = FALSE
    BY <2>1 DEF SpawnContext, NewKernelContext, NewUserContext, Types, Contexts
  <2>6. /\ contexts \in [Slots -> Contexts] /\ contexts[i].ie = FALSE
        /\ contexts[i].reg["ra"][1] = "handle_int_back"
        /\ \A q \in Slots \ {i} : contexts[q] = kernel_context[q]
    BY <2>1, <2>4, <2>5 DEF Types, Label
  <2>7. user_context'[i].ie = FALSE /\ \A q \in Slots \ {i} : user_context'[q] = user_context[q]
    BY <2>1, <2>3, <2>5 DEF Types
  <2> HIDE DEF contexts
  <2>8. /\ kernel_context'[current_running].ie = ie
        /\ kernel_context'[current_running].reg["ra"][1] = "syscall"
        /\ \A q \in Slots \ {current_running} : kernel_context'[q] = contexts[q]
        /\ pc' = "scheduler"
        /\ UNCHANGED <<ie, exl, pending, current_running>>
    BY <2>3, <2>6, SwitchIs
  <2>9. \A q \in Slots : kernel_context'[q].ie = FALSE /\ user_context'[q].ie = FALSE
    BY <1>0, <2>6, <2>7, <2>8 DEF Bits
  <2>10. ASSUME NEW q \in alive', kernel_context'[q].reg["ra"][1] = "syscall"
         PROVE  user_context'[q].exl = TRUE
    <3>1. CASE q = i /\ q # current_running
      BY <2>1, <2>6, <2>8, <2>10, <3>1
    <3>2. CASE q # i
      <4>1. q \in alive /\ q \in Slots
        BY <2>3, <2>10, <3>2, SlotsAre DEF Types
      <4> QED BY <1>0, <2>6, <2>7, <2>8, <2>10, <3>2, <4>1 DEF Bits
    <3>3. i # current_running
      BY <1>0, <1>2, FirstFreeIn DEF Bits, i, Procs
    <3> QED BY <3>1, <3>2, <3>3
  <2> QED BY <1>0, <2>8, <2>9, <2>10 DEF Bits, InUser, Closed, Resumes
<1> QED BY <1>1, <1>2

LEMMA InitBits == Init => Bits
<1> SUFFICES ASSUME Init PROVE Bits
  OBVIOUS
<1>1. /\ NoContext.ie = FALSE
      /\ NewKernelContext(NoContext, 1, 1).ie = FALSE
      /\ NewUserContext(NoContext, 1, 1).ie = FALSE
      /\ NewKernelContext(NoContext, 1, 1).reg["ra"] = Label("handle_int_back")
  BY DEF NoContext, NewKernelContext, NewUserContext, Saved
<1>2. \A q \in Slots : kernel_context[q].ie = FALSE /\ user_context[q].ie = FALSE
  BY <1>1 DEF Init
<1>3. \A q \in alive : kernel_context[q].reg["ra"][1] # "syscall"
  BY <1>1, SlotsAre DEF Init, Label
<1>4. pc = "user" /\ exl = FALSE /\ ie = TRUE /\ current_running = 0
  BY DEF Init
<1> QED BY <1>2, <1>3, <1>4 DEF Bits, InUser, Closed, Resumes

LEMMA SchedulerBits == Types /\ Bits /\ scheduler => Bits'
<1> SUFFICES ASSUME Types, Bits, scheduler PROVE Bits'
  OBVIOUS
<1>1. PICK q \in alive : /\ current_running' = q
                         /\ RESTORE_CONTEXT(kernel_context[q])
                         /\ pc' = kernel_context[q].reg["ra"][1]
  BY DEF scheduler
<1>2. q \in Slots /\ pc' \in Resumes
  BY <1>1, SlotsAre DEF Types
<1>3. UNCHANGED <<alive, pending, kernel_context, user_context>>
  BY DEF scheduler
<1>4. ie' = FALSE
  BY <1>1, <1>2 DEF RESTORE_CONTEXT, Bits
<1>5. pc' = "syscall" => user_context'[current_running'].exl = TRUE
  BY <1>1, <1>3 DEF Bits
<1>6. /\ \A r \in Slots : kernel_context'[r].ie = FALSE /\ user_context'[r].ie = FALSE
      /\ \A r \in alive' : kernel_context'[r].reg["ra"][1] = "syscall" => user_context'[r].exl = TRUE
  BY <1>3 DEF Bits
<1> QED BY <1>1, <1>2, <1>3, <1>4, <1>5, <1>6 DEF Bits, InUser, Closed, Resumes

LEMMA NextBits == Types /\ Bits /\ [Next]_vars => Bits'
<1> SUFFICES ASSUME Types, Bits, [Next]_vars PROVE Bits'
  OBVIOUS
<1> USE DEF InUser, Closed, Resumes
<1>1. ASSUME NEW p \in Procs, Compute(p) PROVE Bits'
  BY <1>1 DEF Compute, Bits
<1>2. ASSUME NEW code, NEW next, Trap(code, next), current_running \in alive \cup {0} PROVE Bits'
  BY <1>2 DEF Trap, Bits
<1>3. ASSUME NEW p \in Procs, UserFault(p) \/ \E call \in Calls : Syscall(p, call) PROVE Bits'
  <2>1. current_running \in alive \cup {0}
    BY <1>3 DEF Syscall, UserFault, Runs, Bits
  <2> QED BY <1>2, <1>3, <2>1 DEF Syscall, UserFault
<1>4. ASSUME UartBegin \/ UartEnd PROVE Bits'
  BY <1>4 DEF UartBegin, UartEnd, Runs, Bits
<1>5. ASSUME Tick PROVE Bits'
  BY <1>5 DEF Tick, Bits, cpu
<1>6. ASSUME Interrupt PROVE Bits'
  <2>1. current_running \in alive \cup {0}
    BY <1>6 DEF Interrupt, Open, Bits
  <2> QED BY <1>2, <1>6, <2>1 DEF Interrupt
<1>7. ASSUME exception_handler_entry PROVE Bits'
  <2> DEFINE c == [SAVE_CONTEXT EXCEPT !.ie = FALSE]
  <2>1. exl = TRUE
    BY <1>7 DEF exception_handler_entry, Bits
  <2>2. c.ie = FALSE /\ c.exl = TRUE
    BY <2>1 DEF SAVE_CONTEXT
  <2>3. user_context' = [user_context EXCEPT ![current_running] = c]
    BY <1>7 DEF exception_handler_entry
  <2> HIDE DEF c
  <2>4. user_context'[current_running].exl = TRUE
    BY <2>2, <2>3 DEF Types
  <2>5. ie' = FALSE /\ pc' \in {"handle_int", "handle_syscall", "stopped"}
        /\ UNCHANGED <<current_running, alive, kernel_context>>
        /\ current_running \in alive \cup {0}
    BY <1>7 DEF exception_handler_entry, Bits
  <2>6. \A q \in Slots : kernel_context'[q].ie = FALSE /\ user_context'[q].ie = FALSE
    BY <2>2, <2>3, <2>5 DEF Bits, Types
  <2>7. \A q \in alive' : kernel_context'[q].reg["ra"][1] = "syscall" => user_context'[q].exl = TRUE
    BY <2>2, <2>3, <2>5, SlotsAre DEF Bits, Types
  <2> QED BY <2>4, <2>5, <2>6, <2>7 DEF Bits
<1>8. ASSUME handle_int PROVE Bits'
  BY <1>8, SwitchBits DEF handle_int
<1>9. ASSUME CallReturns PROVE Bits'
  BY <1>9 DEF CallReturns, Called, Bits
<1>10. ASSUME CallBlocks PROVE Bits'
  BY <1>10, SwitchBits DEF CallBlocks, Called
<1>11. ASSUME CallExits PROVE Bits'
  BY <1>11, SwitchBits DEF CallExits, Called
<1>12. ASSUME CallKills PROVE Bits'
  BY <1>12, SwitchBits DEF CallKills, Called
<1>13. ASSUME irq_timer PROVE Bits'
  BY <1>13 DEF irq_timer, Bits
<1>14. ASSUME system_call_helper PROVE Bits'
  <2>1. \A q \in Slots : user_context'[q].ie = user_context[q].ie
                         /\ user_context'[q].exl = user_context[q].exl
    BY <1>14 DEF system_call_helper, Types, Contexts
  <2>2. pc = "syscall" /\ pc' = "handle_syscall_back"
        /\ UNCHANGED <<current_running, alive, ie, exl, pending, kernel_context>>
    BY <1>14 DEF system_call_helper, cpu
  <2> QED BY <2>1, <2>2, SlotsAre DEF Bits, Types
<1>15. ASSUME handle_int_back PROVE Bits'
  <2>1. ie' = FALSE
    BY <1>15 DEF handle_int_back, RESTORE_CONTEXT, Bits, Types
  <2> QED BY <1>15, <2>1 DEF handle_int_back, Bits
<1>16. ASSUME handle_syscall_back PROVE Bits'
  <2> DEFINE c == [user_context[current_running] EXCEPT !.epc = After(@)]
  <2>1. c.ie = FALSE /\ c.exl = TRUE
    BY <1>16 DEF handle_syscall_back, Bits, Types, Contexts
  <2>2. ie' = FALSE /\ exl' = TRUE
    BY <1>16, <2>1 DEF handle_syscall_back, RESTORE_CONTEXT
  <2> QED BY <1>16, <2>2 DEF handle_syscall_back, Bits
<1>17. ASSUME STI PROVE Bits'
  BY <1>17 DEF STI, Bits
<1>18. ASSUME eret PROVE Bits'
  BY <1>18 DEF eret, Bits
<1>19. ASSUME UNCHANGED vars PROVE Bits'
  BY <1>19 DEF vars, cpu, Bits
<1> QED BY <1>1, <1>3, <1>4, <1>5, <1>6, <1>7, <1>8, <1>9, <1>10, <1>11, <1>12, <1>13,
           <1>14, <1>15, <1>16, <1>17, <1>18, <1>19, SpawnBits, SchedulerBits
        DEF Next, KernelStep, Stopped

-----------------------------------------------------------------------------
(***************************************************************************)
(* What a process relies on, from one trap to the return from it.  e is an  *)
(* entry of expect, r registers, k and u a kernel and a user context.       *)
(***************************************************************************)
Fits(e, p, r) ==
    /\ r["sp"] = UserTop(e.stack)
    /\ e.regs = "all" => \A n \in Saved \ {"sp"} : r[n] = Data(p, e.at)
    /\ e.regs \in {"call", "pid"} => \A n \in Callee \cup {"ra"} : r[n] = Data(p, e.at)

Result(e, p, r) == e.regs = "pid" => r["v"] = Pid(p)

\* Saved by an interrupt (or for a first run), and by a system call.
IntSaved(e, p, u) == Fits(e, p, u.reg) /\ Result(e, p, u.reg) /\ u.epc = Instr(p, e.at)
SysSaved(e, p, u) ==
    Fits(e, p, u.reg) /\ e.regs \in {"call", "pid"} /\ u.epc = Instr(p, 1 - e.at)

\* Which of them is told by where the kernel half returns to.
OffCPU(e, p, k, u) ==
    IF k.reg["ra"][1] = "syscall" THEN SysSaved(e, p, u) /\ e.regs = "call" ELSE IntSaved(e, p, u)

OnCPU ==
    LET p == current_running
        e == expect[p]
        u == user_context[p]
    IN  /\ InUser => Fits(e, p, reg) /\ Result(e, p, reg) /\ upc = Instr(p, e.at)
        /\ pc = "exception" => Fits(e, p, reg)
        /\ pc = "exception" /\ cause # "sys" => Result(e, p, reg) /\ epc = Instr(p, e.at)
        /\ pc = "exception" /\ cause = "sys" =>
             /\ e.regs \in {"call", "pid"} /\ epc = Instr(p, 1 - e.at)
             /\ e.regs = "pid" => reg["v"] = Label("getpid")
        /\ pc \in {"handle_int", "irq_timer", "handle_int_back"} => IntSaved(e, p, u)
        /\ pc \in {"handle_syscall", "syscall", "handle_syscall_back"} => SysSaved(e, p, u)
        /\ pc = "handle_syscall" => (e.regs = "pid" => reg["v"] = Label("getpid"))
        /\ pc = "syscall" => Result(e, p, reg)
        /\ pc = "handle_syscall_back" => Result(e, p, u.reg)
        /\ pc \in {"sti_int", "sti_sys", "eret_int", "eret_sys"} =>
             Fits(e, p, reg) /\ Result(e, p, reg) /\ epc = Instr(p, e.at)
        /\ pc \in {"scheduler", "scheduler_away"} /\ p \in alive =>
             OffCPU(e, p, kernel_context[p], u)

Holds ==
    /\ \A p \in alive \ {current_running} :
          OffCPU(expect[p], p, kernel_context[p], user_context[p])
    /\ current_running # 0 => OnCPU
    /\ expect[0].regs = "new"

LEMMA HoldsImply == Types /\ Holds => UserContextKept /\ ReturnsOwnPid
BY DEF Types, Holds, OnCPU, Fits, Result, UserContextKept, ReturnsOwnPid, InUser

\* Only the saved registers matter.
LEMMA FitsSaved ==
  ASSUME NEW e, NEW p, NEW r, NEW s, \A n \in Saved : s[n] = r[n]
  PROVE  /\ Fits(e, p, r) => Fits(e, p, s)
         /\ Result(e, p, r) => Result(e, p, s)
BY DEF Fits, Result, Saved, Caller, Callee

LEMMA InitHolds == Init => Holds
<1> SUFFICES ASSUME Init PROVE Holds
  OBVIOUS
<1>1. alive = {1} /\ current_running = 0 /\ expect[0].regs = "new"
      /\ expect[1] = Expect(0, 1, "new")
      /\ kernel_context[1] = NewKernelContext(NoContext, 1, 1)
      /\ user_context[1] = NewUserContext(NoContext, 1, 1)
  BY SlotsAre DEF Init, Expect
<1>2. kernel_context[1].reg["ra"][1] = "handle_int_back"
  BY <1>1 DEF NewKernelContext, NoContext, Saved, Label
<1>3. user_context[1].reg["sp"] = UserTop(1) /\ user_context[1].epc = Instr(1, 0)
  BY <1>1 DEF NewUserContext, NoContext, Saved
<1>4. IntSaved(expect[1], 1, user_context[1])
  BY <1>1, <1>3 DEF IntSaved, Fits, Result, Expect
<1> QED BY <1>1, <1>2, <1>4 DEF Holds, OffCPU

\* A call, or the timer, that leads to scheduler().
LEMMA SwitchHolds ==
  ASSUME Types, Bits, Holds, NEW from \in {"irq_timer", "syscall"},
         NEW next \in {"scheduler", "scheduler_away"},
         EnterScheduler(from, kernel_context, next), alive' \subseteq alive,
         UNCHANGED <<user_context, expect>>,
         pc = IF from = "syscall" THEN "handle_syscall" ELSE "handle_int",
         from = "syscall" => reg["v"] # Label("getpid")
  PROVE  Holds'
<1>1. kernel_context \in [Slots -> Contexts]
  BY DEF Types
<1>2. /\ kernel_context'[current_running].reg["ra"][1] = from
      /\ \A q \in Slots \ {current_running} : kernel_context'[q] = kernel_context[q]
      /\ pc' = next /\ UNCHANGED current_running
  BY <1>1, SwitchIs
<1>3. ASSUME NEW q \in alive' \ {current_running'}
      PROVE  OffCPU(expect[q], q, kernel_context[q], user_context[q])' 
  <2>1. q \in alive \ {current_running} /\ kernel_context'[q] = kernel_context[q]
    BY <1>2, SlotsAre DEF Types
  <2> QED BY <2>1 DEF Holds
<1>4. ASSUME current_running # 0
      PROVE  OffCPU(expect[current_running], current_running, kernel_context'[current_running],
                    user_context[current_running])
  BY <1>2, <1>4 DEF Holds, OnCPU, OffCPU, SysSaved
<1>5. current_running' # 0 => OnCPU'
  BY <1>2, <1>4 DEF OnCPU, InUser
<1> QED BY <1>3, <1>5 DEF Holds

LEMMA SpawnHolds == Types /\ Bits /\ Holds /\ CallSpawns => Holds'
<1> SUFFICES ASSUME Types, Bits, Holds, CallSpawns PROVE Holds'
  OBVIOUS
<1> DEFINE i == FirstFree
           h == SpawnStack
           contexts == [kernel_context EXCEPT ![i] = SpawnContext(i, h)]
<1>0. pc = "handle_syscall" /\ reg["v"] # Label("getpid")
  BY DEF CallSpawns, Called, Label
<1>1. CASE Free = {}
  <2>1. pc' = "stopped" /\ UNCHANGED <<alive, expect, current_running, kernel_context, user_context>>
    BY <1>1 DEF CallSpawns
  <2> QED BY <2>1 DEF Holds, OnCPU, InUser
<1>2. CASE Free # {}
  <2>1. i \in Slots /\ i \notin alive /\ i # 0 /\ i # current_running
    BY <1>0, <1>2, FirstFreeIn, SlotsAre DEF Bits, Procs
  <2>2. h \in Nat
    BY DEF SpawnStack, Types
  <2>3. /\ alive' = alive \cup {i}
        /\ user_context' = [user_context EXCEPT ![i] = NewUserContext(@, i, h)]
        /\ EnterScheduler("syscall", contexts, "scheduler")
        /\ expect' = [expect EXCEPT ![i] = Expect(0, h, "new")]
    BY <1>2 DEF CallSpawns
  <2> HIDE DEF i, h
  <2>4. /\ SpawnContext(i, h) \in Contexts
        /\ SpawnContext(i, h).reg["ra"] = Label("handle_int_back")
    BY <2>1, <2>2, NewTypes DEF SpawnContext, Types
  <2>5. /\ NewUserContext(user_context[i], i, h).reg["sp"] = UserTop(h)
        /\ NewUserContext(user_context[i], i, h).epc = Instr(i, 0)
    BY <2>1 DEF NewUserContext, Types, Contexts, Saved
  <2>6. /\ contexts \in [Slots -> Contexts] /\ contexts[i].reg["ra"][1] = "handle_int_back"
        /\ \A q \in Slots \ {i} : contexts[q] = kernel_context[q]
    BY <2>1, <2>4 DEF Types, Label
  <2>7. /\ user_context'[i] = NewUserContext(user_context[i], i, h)
        /\ expect'[i] = Expect(0, h, "new")
        /\ \A q \in Slots \ {i} : user_context'[q] = user_context[q] /\ expect'[q] = expect[q]
    BY <2>1, <2>3 DEF Types
  <2> HIDE DEF contexts
  <2>8. /\ kernel_context'[current_running].reg["ra"][1] = "syscall"
        /\ \A q \in Slots \ {current_running} : kernel_context'[q] = contexts[q]
        /\ pc' = "scheduler" /\ UNCHANGED current_running
    BY <2>3, <2>6, SwitchIs
  <2>9. IntSaved(expect'[i], i, user_context'[i])
    BY <2>5, <2>7 DEF IntSaved, Fits, Result, Expect
  <2>10. OffCPU(expect'[i], i, kernel_context'[i], user_context'[i])
    BY <2>1, <2>6, <2>8, <2>9 DEF OffCPU
  <2>11. ASSUME NEW q \in alive' \ {current_running'}
         PROVE  OffCPU(expect[q], q, kernel_context[q], user_context[q])'
    <3>1. CASE q = i
      BY <2>10, <3>1
    <3>2. CASE q # i
      <4>1. /\ q \in alive \ {current_running} /\ q \in Slots
            /\ kernel_context'[q] = kernel_context[q] /\ user_context'[q] = user_context[q]
            /\ expect'[q] = expect[q]
        BY <2>3, <2>6, <2>7, <2>8, <2>11, <3>2, SlotsAre DEF Types
      <4> QED BY <4>1 DEF Holds
    <3> QED BY <3>1, <3>2
  <2>12. /\ expect'[current_running] = expect[current_running]
         /\ user_context'[current_running] = user_context[current_running]
         /\ expect'[0] = expect[0]
    BY <2>1, <2>7, SlotsAre DEF Types
  <2>13. ASSUME current_running # 0
         PROVE  OffCPU(expect[current_running], current_running, kernel_context[current_running],
                       user_context[current_running])'
    BY <1>0, <2>8, <2>12, <2>13 DEF Holds, OnCPU, OffCPU, SysSaved
  <2>14. current_running' # 0 => OnCPU'
    BY <2>8, <2>13 DEF OnCPU, InUser
  <2> QED BY <2>11, <2>12, <2>14 DEF Holds
<1> QED BY <1>1, <1>2

LEMMA SchedulerHolds == Types /\ Holds /\ scheduler => Holds'
<1> SUFFICES ASSUME Types, Holds, scheduler PROVE Holds'
  OBVIOUS
<1>1. PICK q \in alive : /\ current_running' = q
                         /\ pc' = kernel_context[q].reg["ra"][1]
  BY DEF scheduler
<1>2. UNCHANGED <<alive, kernel_context, user_context, expect>>
  BY DEF scheduler
<1>3. \A p \in alive : OffCPU(expect[p], p, kernel_context[p], user_context[p])
  BY DEF scheduler, Holds, OnCPU, Types, Procs
<1>4. pc' \in Resumes
  BY <1>1 DEF Types
<1>5. OffCPU(expect[q], q, kernel_context[q], user_context[q])
  BY <1>3
<1>6. OnCPU'
  BY <1>1, <1>2, <1>4, <1>5 DEF OnCPU, OffCPU, InUser, Resumes, Result
<1> QED BY <1>2, <1>3, <1>6 DEF Holds

\* A step of the process on the CPU that leaves the others alone.
LEMMA OthersHold ==
  ASSUME Types, Holds, UNCHANGED <<alive, current_running, kernel_context>>,
         \A q \in Slots \ {current_running} :
            user_context'[q] = user_context[q] /\ expect'[q] = expect[q],
         current_running = 0 => expect'[0] = expect[0],
         current_running # 0 => OnCPU'
  PROVE  Holds'
<1>1. \A p \in alive' \ {current_running'} :
        OffCPU(expect'[p], p, kernel_context'[p], user_context'[p])
  BY SlotsAre DEF Holds, Types
<1>2. expect'[0] = expect[0]
  BY SlotsAre DEF Types
<1> QED BY <1>1, <1>2 DEF Holds

LEMMA ComputeHolds ==
  ASSUME Types, Holds, NEW p \in Procs, Compute(p)
  PROVE  Holds'
<1> DEFINE e == expect[p]
<1>1. p = current_running /\ p \in Slots /\ p # 0 /\ InUser
  BY SlotsAre DEF Compute, Runs, Procs
<1>2. Fits(e, p, reg) /\ upc = Instr(p, e.at) /\ e.at \in {0, 1}
  BY <1>1 DEF Holds, OnCPU, Types, Expectations
<1>3. expect'[p].at = 1 - e.at /\ expect'[p].regs = "all" /\ expect'[p].stack = e.stack
      /\ \A q \in Slots \ {p} : expect'[q] = expect[q]
  BY <1>1 DEF Compute, Types, Expectations
<1>4. upc' = Instr(p, 1 - e.at) /\ upc[1] = p /\ After(upc)[2] = 1 - e.at
  BY <1>1, <1>2, AfterIs DEF Compute, Instr, After
<1>5. reg' = [r \in Regs |-> IF r = "sp" THEN reg[r] ELSE Data(p, 1 - e.at)]
  BY <1>4 DEF Compute, Computed
<1>6. Fits(expect'[p], p, reg') /\ Result(expect'[p], p, reg')
  BY <1>2, <1>3, <1>5 DEF Fits, Result, Regs, Saved, Callee
<1>7. UNCHANGED <<alive, current_running, kernel_context, user_context, pc>>
  BY DEF Compute
<1>8. OnCPU'
  BY <1>1, <1>3, <1>4, <1>6, <1>7 DEF OnCPU, InUser
<1> QED BY <1>1, <1>3, <1>7, <1>8, OthersHold

LEMMA SyscallHolds ==
  ASSUME Types, Holds, NEW p \in Procs, NEW call \in Calls, Syscall(p, call)
  PROVE  Holds'
<1> DEFINE e == expect[p]
<1>1. p = current_running /\ p \in Slots /\ p # 0 /\ InUser
  BY SlotsAre DEF Syscall, Runs, Procs
<1>2. Fits(e, p, reg) /\ upc = Instr(p, e.at) /\ e.at \in {0, 1}
  BY <1>1 DEF Holds, OnCPU, Types, Expectations
<1>3. /\ expect'[p].at = 1 - e.at /\ expect'[p].stack = e.stack
      /\ expect'[p].regs = IF call = "getpid" THEN "pid" ELSE "call"
      /\ \A q \in Slots \ {p} : expect'[q] = expect[q]
  BY <1>1 DEF Syscall, Types, Expectations
<1>4. upc[1] = p /\ After(upc)[2] = 1 - e.at /\ 1 - (1 - e.at) = e.at
  BY <1>1, <1>2, AfterIs DEF Instr, After
<1>5. /\ reg' = [Computed EXCEPT !.v = Label(call)]
      /\ Computed = [r \in Regs |-> IF r = "sp" THEN reg[r] ELSE Data(p, 1 - e.at)]
  BY <1>4 DEF Syscall, Computed
<1>6. /\ reg'["sp"] = reg["sp"] /\ reg'["v"] = Label(call)
      /\ \A n \in Callee \cup {"ra"} : reg'[n] = Data(p, 1 - e.at)
  BY <1>5 DEF Regs, Saved, Caller, Callee
<1>7. Fits(expect'[p], p, reg')
  BY <1>2, <1>3, <1>6 DEF Fits
<1>8. /\ pc' = "exception" /\ cause' = "sys" /\ epc' = upc
      /\ UNCHANGED <<alive, current_running, kernel_context, user_context>>
  BY DEF Syscall, Trap
<1>9. OnCPU'
  BY <1>1, <1>2, <1>3, <1>4, <1>6, <1>7, <1>8 DEF OnCPU, InUser
<1> QED BY <1>1, <1>3, <1>8, <1>9, OthersHold

\* An interrupt or a fault, of user code.
LEMMA TrapHolds ==
  ASSUME Types, Holds, InUser, NEW code \in {"int", "other"}, Trap(code, upc),
         UNCHANGED <<reg, expect>>
  PROVE  Holds'
<1>1. /\ pc' = "exception" /\ cause' = code /\ epc' = upc
      /\ UNCHANGED <<alive, current_running, kernel_context, user_context>>
  BY DEF Trap
<1>2. current_running # 0 => OnCPU'
  BY <1>1 DEF Holds, OnCPU, InUser
<1> QED BY <1>1, <1>2, OthersHold

LEMMA EntryHolds == Types /\ Holds /\ exception_handler_entry => Holds'
<1> SUFFICES ASSUME Types, Holds, exception_handler_entry PROVE Holds'
  OBVIOUS
<1> DEFINE p == current_running
           e == expect[p]
           c == [SAVE_CONTEXT EXCEPT !.ie = FALSE]
<1>1. pc = "exception"
      /\ UNCHANGED <<alive, current_running, kernel_context, expect>>
  BY DEF exception_handler_entry
<1>2. user_context' = [user_context EXCEPT ![p] = c]
  BY DEF exception_handler_entry
<1>3. c.epc = epc /\ c.reg = [r \in Saved |-> reg[r]]
  BY DEF SAVE_CONTEXT
<1> HIDE DEF c
<1>4. user_context'[p] = c /\ \A q \in Slots \ {p} : user_context'[q] = user_context[q]
  BY <1>2 DEF Types
<1>5. \A n \in Saved : c.reg[n] = reg[n]
  BY <1>3
<1>6. (Fits(e, p, reg) => Fits(e, p, c.reg)) /\ (Result(e, p, reg) => Result(e, p, c.reg))
  BY <1>5, FitsSaved
<1>7. reg'["v"] = reg["v"]
  BY DEF exception_handler_entry, Types, Regs, Saved, Caller
<1>8. /\ cause = "sys" => pc' = "handle_syscall"
      /\ cause # "sys" => pc' \in {"handle_int", "stopped"}
  BY DEF exception_handler_entry
<1>9. ASSUME p # 0 PROVE OnCPU'
  <2>1. Fits(e, p, c.reg)
    BY <1>1, <1>6, <1>9 DEF Holds, OnCPU
  <2>2. CASE cause = "sys"
    <3>1. SysSaved(e, p, c) /\ (e.regs = "pid" => reg["v"] = Label("getpid"))
      BY <1>1, <1>3, <1>9, <2>1, <2>2 DEF Holds, OnCPU, SysSaved
    <3> QED BY <1>1, <1>4, <1>7, <1>8, <2>2, <3>1 DEF OnCPU, InUser
  <2>3. CASE cause # "sys"
    <3>1. IntSaved(e, p, c)
      BY <1>1, <1>3, <1>6, <1>9, <2>1, <2>3 DEF Holds, OnCPU, IntSaved
    <3> QED BY <1>1, <1>4, <1>8, <2>3, <3>1 DEF OnCPU, InUser
  <2> QED BY <2>2, <2>3
<1> QED BY <1>1, <1>4, <1>9, OthersHold

\* RESTORE_CONTEXT brings back what was saved.
LEMMA RestoreFits ==
  ASSUME Types, NEW c \in Contexts, RESTORE_CONTEXT(c), NEW e, NEW p
  PROVE  /\ Fits(e, p, c.reg) => Fits(e, p, reg')
         /\ Result(e, p, c.reg) => Result(e, p, reg')
         /\ epc' = c.epc
<1>1. \A n \in Saved : reg'[n] = c.reg[n]
  BY DEF RESTORE_CONTEXT, Regs
<1>2. epc' = c.epc
  BY DEF RESTORE_CONTEXT
<1> QED BY <1>1, <1>2, FitsSaved

LEMMA IntBackHolds == Types /\ Holds /\ handle_int_back => Holds'
<1> SUFFICES ASSUME Types, Holds, handle_int_back PROVE Holds'
  OBVIOUS
<1> DEFINE p == current_running
           e == expect[p]
           c == user_context[p]
<1>1. /\ pc = "handle_int_back" /\ pc' = "sti_int" /\ RESTORE_CONTEXT(c)
      /\ UNCHANGED <<alive, current_running, kernel_context, user_context, expect>>
  BY DEF handle_int_back
<1>2. c \in Contexts
  BY DEF Types
<1>3. ASSUME p # 0 PROVE OnCPU'
  <2>1. Fits(e, p, c.reg) /\ Result(e, p, c.reg) /\ c.epc = Instr(p, e.at)
    BY <1>1, <1>3 DEF Holds, OnCPU, IntSaved
  <2>2. Fits(e, p, reg') /\ Result(e, p, reg') /\ epc' = Instr(p, e.at)
    BY <1>1, <1>2, <2>1, RestoreFits
  <2> QED BY <1>1, <2>2 DEF OnCPU, InUser
<1> QED BY <1>1, <1>3, OthersHold

LEMMA SyscallBackHolds == Types /\ Holds /\ handle_syscall_back => Holds'
<1> SUFFICES ASSUME Types, Holds, handle_syscall_back PROVE Holds'
  OBVIOUS
<1> DEFINE p == current_running
           e == expect[p]
           u == user_context[p]
           c == [u EXCEPT !.epc = After(@)]
<1>1. /\ pc = "handle_syscall_back" /\ pc' = "sti_sys" /\ RESTORE_CONTEXT(c)
      /\ UNCHANGED <<alive, current_running, kernel_context, user_context, expect>>
  BY DEF handle_syscall_back
<1>2. u \in Contexts /\ p \in Slots /\ e.at \in {0, 1}
  BY DEF Types, Expectations
<1>3. c \in Contexts /\ c.reg = u.reg /\ c.epc = After(u.epc)
  BY <1>2, AfterPlace DEF Contexts
<1> HIDE DEF c
<1>4. ASSUME p # 0 PROVE OnCPU'
  <2>1. Fits(e, p, u.reg) /\ Result(e, p, u.reg) /\ u.epc = Instr(p, 1 - e.at)
    BY <1>1, <1>4 DEF Holds, OnCPU, SysSaved
  <2>2. After(u.epc) = Instr(p, e.at)
    <3>1. 1 - e.at \in {0, 1} /\ 1 - (1 - e.at) = e.at
      BY <1>2
    <3> QED BY <1>2, <2>1, <3>1, AfterIs
  <2>3. Fits(e, p, reg') /\ Result(e, p, reg') /\ epc' = Instr(p, e.at)
    BY <1>1, <1>3, <2>1, <2>2, RestoreFits
  <2> QED BY <1>1, <2>3 DEF OnCPU, InUser
<1> QED BY <1>1, <1>4, OthersHold

LEMMA HelperHolds == Types /\ Holds /\ system_call_helper => Holds'
<1> SUFFICES ASSUME Types, Holds, system_call_helper PROVE Holds'
  OBVIOUS
<1> DEFINE p == current_running
           e == expect[p]
           u == user_context[p]
           c == [u EXCEPT !.reg["v"] = reg["v"]]
<1>1. /\ pc = "syscall" /\ pc' = "handle_syscall_back"
      /\ user_context' = [user_context EXCEPT ![p].reg["v"] = reg["v"]]
      /\ UNCHANGED <<alive, current_running, kernel_context, expect>>
  BY DEF system_call_helper
<1>2. u \in Contexts /\ p \in Slots
  BY DEF Types
<1>3. user_context'[p] = c /\ \A q \in Slots \ {p} : user_context'[q] = user_context[q]
  BY <1>1 DEF Types
<1>4. c.epc = u.epc /\ c.reg["v"] = reg["v"] /\ \A n \in Saved \ {"v"} : c.reg[n] = u.reg[n]
  BY <1>2 DEF Contexts, Saved, Caller
<1> HIDE DEF c
<1>5. ASSUME p # 0 PROVE OnCPU'
  <2>1. SysSaved(e, p, u) /\ Result(e, p, reg)
    BY <1>1, <1>5 DEF Holds, OnCPU
  <2>2. SysSaved(e, p, c)
    BY <1>4, <2>1 DEF SysSaved, Fits, Saved, Callee
  <2>3. Result(e, p, c.reg)
    BY <1>4, <2>1 DEF Result
  <2> QED BY <1>1, <1>3, <2>2, <2>3 DEF OnCPU, InUser
<1> QED BY <1>1, <1>3, <1>5, OthersHold

LEMMA NextHolds == Types /\ Bits /\ Holds /\ [Next]_vars => Holds'
<1> SUFFICES ASSUME Types, Bits, Holds, [Next]_vars PROVE Holds'
  OBVIOUS
<1>1. ASSUME NEW p \in Procs, UserFault(p) PROVE Holds'
  BY <1>1, TrapHolds DEF UserFault, Runs
<1>2. ASSUME Interrupt PROVE Holds'
  <2>1. InUser
    BY <1>2, BitsImply DEF Interrupt, KernelNotInterrupted
  <2> QED BY <1>2, <2>1, TrapHolds DEF Interrupt
<1>3. ASSUME UartBegin \/ UartEnd PROVE Holds'
  <2>1. UNCHANGED <<current_running, alive, reg, epc, cause, upc, pc, kernel_context, user_context,
                    expect>>
    BY <1>3 DEF UartBegin, UartEnd
  <2> QED BY <2>1 DEF Holds, OnCPU, InUser
<1>4. ASSUME Tick PROVE Holds'
  BY <1>4 DEF Tick, Holds, OnCPU, InUser, cpu
<1>5. ASSUME handle_int PROVE Holds'
  BY <1>5, SwitchHolds DEF handle_int
<1>6. ASSUME CallReturns PROVE Holds'
  <2>1. /\ pc = "handle_syscall" /\ pc' = "syscall"
        /\ UNCHANGED <<current_running, alive, kernel_context, user_context, expect>>
    BY <1>6 DEF CallReturns, Called
  <2>2. reg'["v"] = Pid(current_running)
    <3>1. Used("syscall") \in [Regs -> Values]
      BY UsedIs DEF Labels, Resumes
    <3> QED BY <1>6, <3>1 DEF CallReturns, Regs, Saved, Caller
  <2>3. current_running # 0 => OnCPU'
    BY <2>1, <2>2 DEF Holds, OnCPU, Result, InUser
  <2> QED BY <2>1, <2>3, OthersHold
<1>7. ASSUME CallBlocks PROVE Holds'
  BY <1>7, SwitchHolds DEF CallBlocks, Called, Label
<1>8. ASSUME CallExits PROVE Holds'
  BY <1>8, SwitchHolds DEF CallExits, Called, Label
<1>9. ASSUME CallKills PROVE Holds'
  BY <1>9, SwitchHolds DEF CallKills, Called, Label
<1>10. ASSUME irq_timer PROVE Holds'
  BY <1>10 DEF irq_timer, Holds, OnCPU, InUser
<1>11. ASSUME STI PROVE Holds'
  BY <1>11 DEF STI, Holds, OnCPU, InUser
<1>12. ASSUME eret PROVE Holds'
  BY <1>12 DEF eret, Holds, OnCPU, InUser
<1>13. ASSUME UNCHANGED vars PROVE Holds'
  BY <1>13 DEF vars, cpu, Holds, OnCPU, InUser
<1> QED BY <1>1, <1>2, <1>3, <1>4, <1>5, <1>6, <1>7, <1>8, <1>9, <1>10, <1>11, <1>12, <1>13,
           ComputeHolds, SyscallHolds, EntryHolds, SpawnHolds, SchedulerHolds, HelperHolds,
           IntBackHolds, SyscallBackHolds
        DEF Next, KernelStep, Stopped

-----------------------------------------------------------------------------
(***************************************************************************)
(* Stacks.  f is the content of the stacks.                                 *)
(***************************************************************************)

\* A process that is off the CPU inside the kernel finds its frames again.
Suspended(h, p, k, f) ==
    k.reg["ra"][1] \in {"irq_timer", "syscall"} =>
      k.reg["sp"] = UserTop(h) /\ f[UserTop(h)] = <<p, k.reg["ra"][1]>>

Private ==
    /\ DOMAIN frame = Stacks
    /\ historical_num \in 1..MaxStacks
    /\ \A p \in alive : expect[p].stack \in 1..historical_num
    /\ \A p, q \in alive : expect[p].stack = expect[q].stack => p = q
    /\ \A p \in alive \ {current_running} :
          Suspended(expect[p].stack, p, kernel_context[p], frame)

InUse ==
    /\ pc \in {"scheduler", "scheduler_away"} /\ current_running \in alive =>
         Suspended(expect[current_running].stack, current_running,
                   kernel_context[current_running], frame)
    /\ pc \in {"handle_int", "handle_syscall"} /\ current_running # 0 =>
         reg["sp"] = UserTop(expect[current_running].stack)
    /\ current_running = 0 =>
         /\ pc \in {"user", "exception", "handle_int", "scheduler", "stopped"}
         /\ pc = "exception" => cause = "int"
         /\ reg["sp"] = BootStack
    /\ (pc = "exception" /\ cause = "sys") \/ pc = "handle_syscall" =>
         (reg["v"] = Label("spawn") => historical_num < MaxStacks)
    /\ KernelFramesOwn

Frames == Private /\ InUse

\* Stacks of different processes are different, and in the memory for stacks.
LEMMA TopsDiffer ==
  ASSUME NEW h \in 1..MaxStacks
  PROVE  /\ UserTop(h) \in Stacks /\ UserTop(h) # BootStack /\ BootStack \in Stacks
         /\ \A g \in 1..MaxStacks : UserTop(h) = UserTop(g) => h = g
<1>1. h \in Nat /\ h > 0 /\ 16 * h - h # 0
  BY ContextAssumption
<1>2. UserTop(h) # BootStack
  BY <1>1 DEF UserTop, BootStack
<1>3. ASSUME NEW g \in 1..MaxStacks, UserTop(h) = UserTop(g) PROVE h = g
  <2>1. 16 * h - h = 16 * g - g
    BY <1>3 DEF UserTop
  <2> QED BY <1>1, <2>1, ContextAssumption
<1> QED BY <1>2, <1>3 DEF Stacks

LEMMA InitFrames == Init => Frames
<1> SUFFICES ASSUME Init PROVE Frames
  OBVIOUS
<1>1. alive = {1} /\ current_running = 0 /\ historical_num = 1 /\ DOMAIN frame = Stacks
      /\ expect[1].stack = 1 /\ pc = "user"
      /\ kernel_context[1] = NewKernelContext(NoContext, 1, 1)
  BY SlotsAre DEF Init, Expect
<1>2. kernel_context[1].reg["ra"][1] = "handle_int_back"
  BY <1>1 DEF NewKernelContext, NoContext, Saved, Label
<1>3. reg["sp"] = BootStack
  BY DEF Init, Regs, Saved
<1>4. 1 \in 1..MaxStacks
  BY ContextAssumption
<1>5. Private
  BY <1>1, <1>2, <1>4 DEF Private, Suspended
<1>6. InUse
  BY <1>1, <1>3 DEF InUse, KernelFramesOwn
<1> QED BY <1>5, <1>6 DEF Frames

\* A step that neither switches nor pushes a frame.
LEMMA QuietFrames ==
  ASSUME Types, Frames,
         UNCHANGED <<frame, alive, current_running, kernel_context, historical_num>>,
         \A q \in Slots : expect'[q].stack = expect[q].stack
  PROVE  Private'
<1>1. \A q \in alive : q \in Slots
  BY SlotsAre DEF Types
<1> QED BY <1>1 DEF Frames, Private

\* A frame on the stack in use disturbs nobody else's.
LEMMA PushPrivate ==
  ASSUME Types, Bits, Frames, pc \in {"handle_int", "handle_syscall"}, NEW from,
         frame' = [frame EXCEPT ![reg["sp"]] = <<current_running, from>>]
  PROVE  /\ DOMAIN frame' = Stacks
         /\ frame'[reg["sp"]] = <<current_running, from>>
         /\ \A q \in alive \ {current_running} :
               frame'[UserTop(expect[q].stack)] = frame[UserTop(expect[q].stack)]
<1>1. current_running \in alive \cup {0}
  BY DEF Bits
<1>2. \A q \in alive : expect[q].stack \in 1..MaxStacks
  BY ContextAssumption DEF Frames, Private
<1>3. CASE current_running = 0
  <2>1. reg["sp"] = BootStack /\ BootStack \in Stacks
    BY <1>3 DEF Frames, InUse, Stacks
  <2> QED BY <1>2, <2>1, TopsDiffer DEF Frames, Private
<1>4. CASE current_running # 0
  <2> DEFINE h == expect[current_running].stack
  <2>1. current_running \in alive /\ reg["sp"] = UserTop(h)
    BY <1>1, <1>4 DEF Frames, InUse
  <2>2. h \in 1..MaxStacks
    BY <1>2, <2>1
  <2>3. \A q \in alive \ {current_running} : expect[q].stack # h
    BY <2>1 DEF Frames, Private
  <2> HIDE DEF h
  <2> QED BY <1>2, <2>1, <2>2, <2>3, TopsDiffer DEF Frames, Private
<1> QED BY <1>3, <1>4

LEMMA EnterFrame ==
  ASSUME NEW from, NEW next, NEW contexts, EnterScheduler(from, contexts, next)
  PROVE  frame' = [frame EXCEPT ![reg["sp"]] = <<current_running, from>>] /\ reg' = Used(from)
BY DEF EnterScheduler

LEMMA SwitchFrames ==
  ASSUME Types, Bits, Frames, NEW from \in {"irq_timer", "syscall"},
         NEW next \in {"scheduler", "scheduler_away"},
         EnterScheduler(from, kernel_context, next), alive' \subseteq alive,
         UNCHANGED <<historical_num, expect>>,
         pc = IF from = "syscall" THEN "handle_syscall" ELSE "handle_int",
         from = "irq_timer" => next = "scheduler"
  PROVE  Frames'
<1>1. kernel_context \in [Slots -> Contexts] /\ pc \in {"handle_int", "handle_syscall"}
  BY DEF Types
<1>2. /\ kernel_context'[current_running].reg["sp"] = reg["sp"]
      /\ kernel_context'[current_running].reg["ra"][1] = from
      /\ \A q \in Slots \ {current_running} : kernel_context'[q] = kernel_context[q]
      /\ pc' = next /\ UNCHANGED current_running
  BY <1>1, SwitchIs
<1>3. frame' = [frame EXCEPT ![reg["sp"]] = <<current_running, from>>] /\ reg'["sp"] = reg["sp"]
  BY EnterFrame, UsedIs DEF Labels, Resumes
<1>4. /\ DOMAIN frame' = Stacks
      /\ frame'[reg["sp"]] = <<current_running, from>>
      /\ \A q \in alive \ {current_running} :
            frame'[UserTop(expect[q].stack)] = frame[UserTop(expect[q].stack)]
  BY <1>1, <1>3, PushPrivate
<1>5. ASSUME NEW q \in alive' \ {current_running'}
      PROVE  Suspended(expect[q].stack, q, kernel_context[q], frame)'
  <2>1. q \in alive \ {current_running} /\ kernel_context'[q] = kernel_context[q]
    BY <1>2, SlotsAre DEF Types
  <2>2. Suspended(expect[q].stack, q, kernel_context[q], frame)
    BY <2>1 DEF Frames, Private
  <2> QED BY <1>4, <2>1, <2>2 DEF Suspended
<1>6. Private'
  BY <1>4, <1>5 DEF Frames, Private
<1>7. ASSUME current_running \in alive
      PROVE  Suspended(expect[current_running].stack, current_running,
                       kernel_context'[current_running], frame')
  <2>1. reg["sp"] = UserTop(expect[current_running].stack)
    BY <1>1, <1>7, SlotsAre DEF Frames, InUse, Types, Procs
  <2> QED BY <1>2, <1>4, <2>1 DEF Suspended
<1>8. current_running = 0 => from = "irq_timer" /\ reg["sp"] = BootStack
  BY DEF Frames, InUse
<1>9. InUse'
  BY <1>2, <1>3, <1>7, <1>8 DEF InUse, KernelFramesOwn
<1> QED BY <1>6, <1>9 DEF Frames

LEMMA SpawnFrames == Types /\ Bits /\ Frames /\ CallSpawns => Frames'
<1> SUFFICES ASSUME Types, Bits, Frames, CallSpawns PROVE Frames'
  OBVIOUS
<1> DEFINE i == FirstFree
           h == SpawnStack
           contexts == [kernel_context EXCEPT ![i] = SpawnContext(i, h)]
<1>0. pc = "handle_syscall" /\ reg["v"] = Label("spawn") /\ current_running # 0
  BY DEF CallSpawns, Called, Frames, InUse
<1>1. CASE Free = {}
  <2>1. pc' = "stopped"
        /\ UNCHANGED <<alive, expect, current_running, kernel_context, frame, historical_num>>
    BY <1>1 DEF CallSpawns
  <2>2. Private'
    BY <2>1, QuietFrames
  <2> QED BY <1>0, <2>1, <2>2 DEF Frames, InUse, KernelFramesOwn
<1>2. CASE Free # {}
  <2>1. i \in Slots /\ i \notin alive /\ i # current_running
    BY <1>0, <1>2, FirstFreeIn, SlotsAre DEF Bits, Procs
  <2>2. h = historical_num + 1 /\ h \in Nat /\ h \in 1..MaxStacks
    BY <1>0, ContextAssumption DEF SpawnStack, Frames, Private, InUse
  <2>3. /\ alive' = alive \cup {i}
        /\ historical_num' = historical_num + 1
        /\ EnterScheduler("syscall", contexts, "scheduler")
        /\ expect' = [expect EXCEPT ![i] = Expect(0, h, "new")]
    BY <1>2 DEF CallSpawns
  <2> HIDE DEF i, h
  <2>4. /\ SpawnContext(i, h) \in Contexts
        /\ SpawnContext(i, h).reg["ra"] = Label("handle_int_back")
    BY <2>1, <2>2, NewTypes DEF SpawnContext, Types
  <2>5. /\ contexts \in [Slots -> Contexts] /\ contexts[i].reg["ra"][1] = "handle_int_back"
        /\ \A q \in Slots \ {i} : contexts[q] = kernel_context[q]
    BY <2>1, <2>4 DEF Types, Label
  <2>6. expect'[i].stack = h /\ \A q \in Slots \ {i} : expect'[q] = expect[q]
    BY <2>1, <2>3 DEF Types, Expect
  <2> HIDE DEF contexts
  <2>7. /\ kernel_context'[current_running].reg["sp"] = reg["sp"]
        /\ kernel_context'[current_running].reg["ra"][1] = "syscall"
        /\ \A q \in Slots \ {current_running} : kernel_context'[q] = contexts[q]
        /\ pc' = "scheduler" /\ UNCHANGED current_running
    BY <2>3, <2>5, SwitchIs
  <2>8. frame' = [frame EXCEPT ![reg["sp"]] = <<current_running, "syscall">>]
    BY <2>3, EnterFrame
  <2>9. /\ DOMAIN frame' = Stacks
        /\ frame'[reg["sp"]] = <<current_running, "syscall">>
        /\ \A q \in alive \ {current_running} :
              frame'[UserTop(expect[q].stack)] = frame[UserTop(expect[q].stack)]
    BY <1>0, <2>8, PushPrivate
  <2>10. ASSUME NEW q \in alive' \ {current_running'}
         PROVE  Suspended(expect[q].stack, q, kernel_context[q], frame)'
    <3>1. CASE q = i
      BY <2>1, <2>5, <2>7, <3>1 DEF Suspended
    <3>2. CASE q # i
      <4>1. /\ q \in alive \ {current_running}
            /\ kernel_context'[q] = kernel_context[q] /\ expect'[q] = expect[q]
        BY <2>3, <2>5, <2>6, <2>7, <2>10, <3>2, SlotsAre DEF Types
      <4>2. Suspended(expect[q].stack, q, kernel_context[q], frame)
        BY <4>1 DEF Frames, Private
      <4> QED BY <2>9, <4>1, <4>2 DEF Suspended
    <3> QED BY <3>1, <3>2
  <2>11. \A q \in alive : expect'[q] = expect[q] /\ expect[q].stack \in 1..historical_num
    BY <2>1, <2>6, SlotsAre DEF Types, Frames, Private
  <2>12. historical_num' = h /\ historical_num \in Nat
    BY <2>2, <2>3 DEF Types
  <2>13. \A q \in alive' : expect'[q].stack \in 1..historical_num'
    BY <2>2, <2>3, <2>6, <2>11, <2>12
  <2>14. ASSUME NEW q \in alive', NEW r \in alive', expect'[q].stack = expect'[r].stack
         PROVE  q = r
    <3>1. \A s \in alive : expect'[s].stack # h
      BY <2>2, <2>11, <2>12
    <3>2. (q = i \/ q \in alive) /\ (r = i \/ r \in alive)
      BY <2>3
    <3>3. q \in alive /\ r \in alive => q = r
      BY <2>11, <2>14 DEF Frames, Private
    <3> QED BY <2>6, <2>14, <3>1, <3>2, <3>3
  <2>15. Private'
    BY <2>2, <2>9, <2>10, <2>12, <2>13, <2>14 DEF Private
  <2>16. reg["sp"] = UserTop(expect[current_running].stack)
         /\ expect'[current_running] = expect[current_running]
    BY <1>0, <2>1, <2>6 DEF Frames, InUse, Types
  <2>17. Suspended(expect[current_running].stack, current_running,
                   kernel_context[current_running], frame)'
    BY <2>7, <2>9, <2>16 DEF Suspended
  <2>18. InUse'
    BY <1>0, <2>7, <2>17 DEF InUse, KernelFramesOwn
  <2> QED BY <2>15, <2>18 DEF Frames
<1> QED BY <1>1, <1>2

LEMMA SchedulerFrames == Types /\ Frames /\ scheduler => Frames'
<1> SUFFICES ASSUME Types, Frames, scheduler PROVE Frames'
  OBVIOUS
<1>1. PICK q \in alive : /\ current_running' = q
                         /\ RESTORE_CONTEXT(kernel_context[q])
                         /\ pc' = kernel_context[q].reg["ra"][1]
  BY DEF scheduler
<1>2. UNCHANGED <<alive, historical_num, kernel_context, frame, expect>>
  BY DEF scheduler
<1>3. \A p \in alive : Suspended(expect[p].stack, p, kernel_context[p], frame)
  BY DEF scheduler, Frames, Private, InUse
<1>4. pc' \in Resumes /\ q # 0
  BY <1>1 DEF Types, Procs
<1>5. reg'["sp"] = kernel_context[q].reg["sp"]
  BY <1>1 DEF RESTORE_CONTEXT, Regs, Saved
<1>6. Private'
  BY <1>2, <1>3 DEF Frames, Private
<1>7. Suspended(expect[q].stack, q, kernel_context[q], frame)
  BY <1>3
<1>8. KernelFramesOwn'
  BY <1>1, <1>2, <1>5, <1>7 DEF KernelFramesOwn, Suspended
<1>9. InUse'
  BY <1>1, <1>4, <1>8 DEF InUse, Resumes
<1> QED BY <1>6, <1>9 DEF Frames

LEMMA NextFrames == Types /\ Bits /\ Holds /\ Frames /\ [Next]_vars => Frames'
<1> SUFFICES ASSUME Types, Bits, Holds, Frames, [Next]_vars PROVE Frames'
  OBVIOUS
<1>1. ASSUME NEW p \in Procs, Compute(p) PROVE Frames'
  <2>1. p # 0 /\ p = current_running /\ pc = "user"
        /\ UNCHANGED <<frame, alive, current_running, kernel_context, historical_num, pc>>
    BY <1>1 DEF Compute, Runs, InUser, Procs
  <2>2. \A q \in Slots : expect'[q].stack = expect[q].stack
    BY <1>1 DEF Compute, Types, Expectations
  <2>3. Private'
    BY <2>1, <2>2, QuietFrames
  <2> QED BY <2>1, <2>3 DEF Frames, InUse, KernelFramesOwn
<1>2. ASSUME NEW p \in Procs, NEW call \in Calls, Syscall(p, call) PROVE Frames'
  <2>1. p # 0 /\ p = current_running /\ pc' = "exception"
        /\ UNCHANGED <<frame, alive, current_running, kernel_context, historical_num>>
    BY <1>2 DEF Syscall, Trap, Runs, Procs
  <2>2. \A q \in Slots : expect'[q].stack = expect[q].stack
    BY <1>2 DEF Syscall, Types, Expectations
  <2>3. Private'
    BY <2>1, <2>2, QuietFrames
  <2>4. reg'["v"] = Label(call)
    BY <1>2 DEF Syscall, Computed, Regs, Saved, Caller
  <2>5. reg'["v"] = Label("spawn") => historical_num < MaxStacks
    BY <1>2, <2>4 DEF Syscall, Label
  <2> QED BY <2>1, <2>3, <2>5 DEF Frames, InUse, KernelFramesOwn
<1>3. ASSUME NEW p \in Procs, UserFault(p) PROVE Frames'
  <2>1. p # 0 /\ p = current_running /\ pc' = "exception" /\ cause' = "other"
        /\ UNCHANGED <<frame, alive, current_running, kernel_context, historical_num, expect>>
    BY <1>3 DEF UserFault, Trap, Runs, Procs
  <2>2. Private'
    BY <2>1, QuietFrames
  <2> QED BY <2>1, <2>2 DEF Frames, InUse, KernelFramesOwn
<1>4. ASSUME Interrupt PROVE Frames'
  <2>1. pc' = "exception" /\ cause' = "int" /\ reg' = reg
        /\ UNCHANGED <<frame, alive, current_running, kernel_context, historical_num, expect>>
    BY <1>4 DEF Interrupt, Trap
  <2>2. Private'
    BY <2>1, QuietFrames
  <2> QED BY <2>1, <2>2 DEF Frames, InUse, KernelFramesOwn
<1>5. ASSUME UartBegin \/ UartEnd \/ Tick \/ UNCHANGED vars PROVE Frames'
  <2>1. UNCHANGED <<frame, alive, current_running, kernel_context, historical_num, expect, reg,
                    pc, cause>>
    BY <1>5 DEF UartBegin, UartEnd, Tick, vars, cpu
  <2>2. Private'
    BY <2>1, QuietFrames
  <2> QED BY <2>1, <2>2 DEF Frames, InUse, KernelFramesOwn
<1>6. ASSUME exception_handler_entry PROVE Frames'
  <2>1. pc = "exception"
        /\ UNCHANGED <<frame, alive, current_running, kernel_context, historical_num, expect>>
    BY <1>6 DEF exception_handler_entry
  <2>2. Private'
    BY <2>1, QuietFrames
  <2>3. reg'["sp"] = reg["sp"] /\ reg'["v"] = reg["v"]
    BY <1>6 DEF exception_handler_entry, Types, Regs, Saved, Caller
  <2>4. /\ cause = "int" => pc' = "handle_int"
        /\ cause = "sys" => pc' = "handle_syscall"
        /\ cause = "other" => pc' = "stopped"
    BY <1>6 DEF exception_handler_entry
  <2>5. current_running # 0 => reg["sp"] = UserTop(expect[current_running].stack)
    BY <2>1 DEF Holds, OnCPU, Fits
  <2> QED BY <2>1, <2>2, <2>3, <2>4, <2>5 DEF Frames, InUse, KernelFramesOwn, Types
<1>7. ASSUME handle_int PROVE Frames'
  BY <1>7, SwitchFrames DEF handle_int
<1>8. ASSUME CallReturns PROVE Frames'
  <2>1. /\ pc = "handle_syscall" /\ pc' = "syscall" /\ current_running # 0
        /\ frame' = [frame EXCEPT ![reg["sp"]] = <<current_running, "syscall">>]
        /\ UNCHANGED <<alive, current_running, kernel_context, historical_num, expect>>
    BY <1>8 DEF CallReturns, Called, Frames, InUse
  <2>2. /\ DOMAIN frame' = Stacks
        /\ frame'[reg["sp"]] = <<current_running, "syscall">>
        /\ \A q \in alive \ {current_running} :
              frame'[UserTop(expect[q].stack)] = frame[UserTop(expect[q].stack)]
    BY <2>1, PushPrivate
  <2>3. Private'
    BY <2>1, <2>2 DEF Frames, Private, Suspended
  <2>4. reg'["sp"] = reg["sp"]
    <3>1. Used("syscall") \in [Regs -> Values] /\ Used("syscall")["sp"] = reg["sp"]
      BY UsedIs DEF Labels, Resumes
    <3> QED BY <1>8, <3>1 DEF CallReturns, Regs, Saved
  <2> QED BY <2>1, <2>2, <2>3, <2>4 DEF Frames, InUse, KernelFramesOwn
<1>9. ASSUME CallBlocks PROVE Frames'
  BY <1>9, SwitchFrames DEF CallBlocks, Called
<1>10. ASSUME CallExits PROVE Frames'
  BY <1>10, SwitchFrames DEF CallExits, Called
<1>11. ASSUME CallKills PROVE Frames'
  BY <1>11, SwitchFrames DEF CallKills, Called
<1>12. ASSUME irq_timer \/ handle_int_back \/ handle_syscall_back \/ STI \/ eret \/ system_call_helper
       PROVE Frames'
  <2>1. /\ UNCHANGED <<frame, alive, current_running, kernel_context, historical_num, expect>>
        /\ pc \notin {"user", "exception", "handle_int", "scheduler", "stopped"}
        /\ pc' \notin {"exception", "handle_int", "handle_syscall", "scheduler", "scheduler_away",
                       "irq_timer", "syscall"}
    BY <1>12 DEF irq_timer, handle_int_back, handle_syscall_back, STI, eret, system_call_helper
  <2>2. Private'
    BY <2>1, QuietFrames
  <2>3. current_running # 0
    BY <2>1 DEF Frames, InUse
  <2> QED BY <2>1, <2>2, <2>3 DEF Frames, InUse, KernelFramesOwn
<1> QED BY <1>1, <1>2, <1>3, <1>4, <1>5, <1>6, <1>7, <1>8, <1>9, <1>10, <1>11, <1>12,
           SpawnFrames, SchedulerFrames
        DEF Next, KernelStep, Stopped

-----------------------------------------------------------------------------
(***************************************************************************)
(* The theorems                                                             *)
(***************************************************************************)
ContextInv == Types /\ Bits /\ Holds /\ Frames

LEMMA ContextInvariant == Spec => []ContextInv
<1>1. Init => ContextInv
  BY InitTypes, InitBits, InitHolds, InitFrames DEF ContextInv
<1>2. ContextInv /\ [Next]_vars => ContextInv'
  BY NextTypes, NextBits, NextHolds, NextFrames DEF ContextInv
<1> QED BY <1>1, <1>2, PTL DEF Spec

\* With any number of processes, a process finds its next instruction, its
\* stack and its data as they were, whatever traps and switches came between.
THEOREM ContextKept == Spec => []UserContextKept
<1>1. ContextInv => UserContextKept
  BY HoldsImply DEF ContextInv
<1> QED BY <1>1, ContextInvariant, PTL

\* sys_getpid returns the caller's own pid, whatever ran before it came back.
THEOREM OwnResult == Spec => []ReturnsOwnPid
<1>1. ContextInv => ReturnsOwnPid
  BY HoldsImply DEF ContextInv
<1> QED BY <1>1, ContextInvariant, PTL

\* No interrupt is taken inside the kernel, the first run of a process included.
THEOREM KernelClosed == Spec => []KernelNotInterrupted
<1>1. ContextInv => KernelNotInterrupted
  BY BitsImply DEF ContextInv
<1> QED BY <1>1, ContextInvariant, PTL

\* User code is never left with interrupts closed by the kernel.
THEOREM UserOpen == Spec => []UserInterruptible
<1>1. ContextInv => UserInterruptible
  BY BitsImply DEF ContextInv
<1> QED BY <1>1, ContextInvariant, PTL

\* A process that goes on in the kernel after a switch finds its own frames on
\* its own stack, also when its slot had other processes before.
THEOREM OwnFrames == Spec => []KernelFramesOwn
<1>1. ContextInv => KernelFramesOwn
  BY DEF ContextInv, Frames, InUse
<1> QED BY <1>1, ContextInvariant, PTL
=============================================================================
