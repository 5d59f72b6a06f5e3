---------------------------- MODULE ProcessProofs ----------------------------
(***************************************************************************)
(* The safety of the running kernel (Kernel.tla), for any size of the       *)
(* process table and any sets of locks, conditions, semaphores and          *)
(* barriers: no PCB is linked twice, the status and the fields of a process *)
(* name the queue it is on, counters agree with queues, no wakeup is lost   *)
(* and no empty queue is dequeued; and what a step never does to the dead,  *)
(* to sleepers, to those that wait for a process and to those at a barrier. *)
(*                                                                         *)
(* None of these is inductive alone.  Kill finds a process by its status    *)
(* and its fields, so that it takes it off the right queue only if these    *)
(* tell the truth; a counter agrees with its queue only if nothing but its  *)
(* own functions touches the queue, which for kill and the scheduler again  *)
(* follows from the links.  Sound is the conjunction; there is one lemma    *)
(* per handler, which says that the memory the handler leaves is sound and  *)
(* what it did to the processes (Effects).  A handler that gives up the CPU *)
(* is followed to the point where it calls do_scheduler (Poised), and the   *)
(* switch is added by LeaveCPU.                                             *)
(***************************************************************************)
EXTENDS LinkProofs

\* Who is noted as waiting for a mutex goes on in the acquire loop for it.
\* The contexts are a parameter: a call that is about to leave the CPU is
\* judged by the context it will leave behind.
Loops(m, c) ==
    \A p \in Procs : m.status[p] # "NOT_EXIST" /\ m.lock_waiting[p] # NULL =>
        c[p] = <<"acquire", m.lock_waiting[p]>>

\* Nobody waits for a free mutex.
NoneLost(m) == \A l \in Locks : ~m.locked[l] => m.waiting[LockQ(l)] = <<>>

\* Who waits on a condition goes on to take a mutex that it does not hold.
GaveUpLock(m, c) ==
    \A x \in Conds, p \in Slots : p \in Members(m.waiting[CondQ(x)]) =>
        \E l \in Locks : /\ c[p] = <<"acquire", l>>
                         /\ \A j \in 1..MAX_MUTEX_OWN : m.lock_owned[p][j] # l

\* All but the counters.
Core(m, c) ==
    /\ Linked(m, {}) /\ Waits(m, {}) /\ Shell1(m)
    /\ Loops(m, c) /\ NoneLost(m) /\ GaveUpLock(m, c)

\* The counters.
CondCount(m) == \A c \in Conds : m.num_waiting[c] = Len(m.waiting[CondQ(c)])
\* A semaphore below zero counts its waiters.
SemCount(m) ==
    \A s \in Sems : Len(m.waiting[SemQ(s)]) = IF m.sem[s] < 0 THEN -m.sem[s] ELSE 0
\* A barrier with a goal counts them too, and never reaches the goal.
BarrierCount(m) ==
    \A b \in Barriers : m.num_expected[b] > 0 =>
        /\ m.num_now[b] = Len(m.waiting[BarrierQ(b)])
        /\ m.num_now[b] < m.num_expected[b]
\* All counters.
Counts(m) == CondCount(m) /\ SemCount(m) /\ BarrierCount(m)

\* Whoever has the CPU is marked so; the boot context has no mark.
Rest(m) == m.status[m.current_running] = IF m.current_running = 0 THEN "BLOCKED" ELSE "RUNNING"

\* Between two steps.
Good(m) == Core(m, m.context) /\ Counts(m) /\ Rest(m)

\* With the types (KernelProofs) and the lock tables (LockProofs).
Sound(m) == MemInv(m, Spawned(m)) /\ m.fault = "none" /\ LockInv(m, {}) /\ Good(m)

\* The contexts after a switch that leaves the process at "after".
Left(m, after) == [m.context EXCEPT ![m.current_running] = after]

\* The memory at the call of do_scheduler.
Poised(m, after) ==
    /\ m.fault = "none" /\ Core(m, Left(m, after)) /\ Counts(m)
    /\ m.status[m.current_running] # "READY"

-----------------------------------------------------------------------------
(***************************************************************************)
(* What a step does to the processes.                                       *)
(***************************************************************************)

\* Blocked in do_wait.
Awaits(m, p) == m.status[p] = "BLOCKED" /\ m.lock_waiting[p] = NULL /\ m.waiting_pcb[p] # -1

\* Slots come to life only under a new pid (DeadStaysDead).
DeadStay(m, n) ==
    \A p \in UserSlots :
        /\ m.status[p] = "NOT_EXIST" /\ n.status[p] # "NOT_EXIST" => n.pid[p] = m.next_pid
        /\ m.status[p] # "NOT_EXIST" /\ n.status[p] # "NOT_EXIST" => n.pid[p] = m.pid[p]

\* do_wait ends with the death of the process (WaitReturnsAfterDeath).
WaitEnds(m, n) ==
    \A p \in UserSlots : Awaits(m, p) =>
        /\ n.status[p] \in {"READY", "RUNNING"} => Gone(n, m.waiting_pcb[p])
        /\ ~Gone(m, m.waiting_pcb[p]) /\ Gone(n, m.waiting_pcb[p]) /\ n.fault = "none"
              => n.status[p] # "BLOCKED"

\* Alarms (SleepersWakeOnTime).
SleepEnds(m, n) ==
    \A p \in UserSlots : m.status[p] = "SLEEPING" /\ n.fault = "none" =>
        /\ n.status[p] \in {"READY", "RUNNING"} => Due(m, p)
        /\ n.current_running # m.current_running /\ Due(m, p) => n.status[p] # "SLEEPING"

\* Barriers open for everybody (BarrierRound).
Round(m, n) ==
    \A b \in Barriers :
        n.waiting[BarrierQ(b)] # m.waiting[BarrierQ(b)] /\ Len(n.waiting[BarrierQ(b)]) <= Len(m.waiting[BarrierQ(b)])
        => n.waiting[BarrierQ(b)] = <<>> /\ Len(m.waiting[BarrierQ(b)]) + 1 = m.num_expected[b]

\* All of them.
Effects(m, n) ==
    /\ DeadStay(m, n) /\ WaitEnds(m, n) /\ SleepEnds(m, n) /\ Round(m, n) /\ n.fault # "null"

\* A handler's conclusion.
Fine(m, n) == Effects(m, n) /\ (n.fault = "none" => Good(n))

\* The body of a call that ends no process and starts none: nobody blocked in
\* do_wait is woken, nobody who sleeps either.
Calm(m, n) ==
    /\ n.pid = m.pid /\ n.next_pid = m.next_pid /\ n.current_running = m.current_running
    /\ n.time_elapsed = m.time_elapsed
    /\ \A p \in Slots :
          /\ n.status[p] = "NOT_EXIST" <=> m.status[p] = "NOT_EXIST"
          /\ Awaits(m, p) => n.status[p] = "BLOCKED"
          /\ m.status[p] = "SLEEPING" => n.status[p] = "SLEEPING" /\ n.alarm_time[p] = m.alarm_time[p]

\* A sleeper whose alarm is read in both memories.
LEMMA DueSame ==
  ASSUME NEW m, NEW n, NEW p, n.time_elapsed = m.time_elapsed, n.alarm_time[p] = m.alarm_time[p]
  PROVE  Due(n, p) <=> Due(m, p)
BY DEF Due, get_timer

\* Whether a pid is gone is read from pids and deaths alone.
LEMMA GoneSame ==
  ASSUME NEW m, NEW n, n.pid = m.pid, NEW x,
         \A p \in Slots : n.status[p] = "NOT_EXIST" <=> m.status[p] = "NOT_EXIST"
  PROVE  Gone(n, x) <=> Gone(m, x)
BY SlotSets DEF Gone

\* A calm body and no switch.
LEMMA CalmEffects ==
  ASSUME NEW m, NEW n, Calm(m, n), Round(m, n), n.fault # "null"
  PROVE  Effects(m, n)
<1>1. DeadStay(m, n)
  BY SlotSets DEF DeadStay, Calm
<1>2. WaitEnds(m, n)
  <2> SUFFICES ASSUME NEW p \in UserSlots, Awaits(m, p)
               PROVE  /\ n.status[p] = "BLOCKED"
                      /\ Gone(n, m.waiting_pcb[p]) <=> Gone(m, m.waiting_pcb[p])
    BY DEF WaitEnds
  <2>1. n.status[p] = "BLOCKED"
    BY SlotSets DEF Calm
  <2>2. Gone(n, m.waiting_pcb[p]) <=> Gone(m, m.waiting_pcb[p])
    BY GoneSame DEF Calm
  <2> QED BY <2>1, <2>2
<1>3. SleepEnds(m, n)
  BY SlotSets DEF SleepEnds, Calm
<1> QED BY <1>1, <1>2, <1>3 DEF Effects

\* A calm body and a switch.
LEMMA CalmMoves ==
  ASSUME NEW m, NEW b, NEW n, NEW after, Calm(m, b), Round(m, b), Moved(b, n, after)
  PROVE  Effects(m, n)
<1>0. /\ n.pid = b.pid /\ n.waiting = b.waiting /\ Marks(b, n) /\ Switched(b, n) /\ n.pid = m.pid
      /\ \A p \in Slots : n.status[p] = "NOT_EXIST" <=> m.status[p] = "NOT_EXIST"
  BY DEF Moved, Marks, Calm
<1>1. DeadStay(m, n)
  BY <1>0, SlotSets DEF DeadStay
<1>2. WaitEnds(m, n)
  <2> SUFFICES ASSUME NEW p \in UserSlots, Awaits(m, p)
               PROVE  /\ n.status[p] = "BLOCKED"
                      /\ Gone(n, m.waiting_pcb[p]) <=> Gone(m, m.waiting_pcb[p])
    BY DEF WaitEnds
  <2>1. n.status[p] = "BLOCKED"
    BY <1>0, SlotSets DEF Calm, Marks
  <2>2. Gone(n, m.waiting_pcb[p]) <=> Gone(m, m.waiting_pcb[p])
    BY <1>0, GoneSame
  <2> QED BY <2>1, <2>2
<1>3. SleepEnds(m, n)
  <2> SUFFICES ASSUME NEW p \in UserSlots, m.status[p] = "SLEEPING", n.fault = "none"
               PROVE  /\ n.status[p] \in {"READY", "RUNNING"} => Due(m, p)
                      /\ Due(m, p) => n.status[p] # "SLEEPING"
    BY DEF SleepEnds
  <2>1. p \in Slots /\ b.status[p] = "SLEEPING" /\ b.alarm_time[p] = m.alarm_time[p] /\ b.time_elapsed = m.time_elapsed
    BY SlotSets DEF Calm
  <2>2. Due(b, p) <=> Due(m, p)
    BY <2>1, DueSame
  <2> QED BY <1>0, <2>1, <2>2 DEF Marks, Switched
<1>4. Round(m, n) /\ n.fault # "null"
  BY <1>0 DEF Round, Switched
<1> QED BY <1>1, <1>2, <1>3, <1>4 DEF Effects

\* The switch.
LEMMA LeaveCPU ==
  ASSUME NEW S \in SUBSET Procs, NEW m, MemInv(m, S), NEW after \in Contexts,
         after \in {"acquire"} \X Locks => m.current_running \in UserSlots,
         Poised(m, after), NEW n, n = do_scheduler(m, after)
  PROVE  Moved(m, n, after) /\ (n.fault = "none" => Good(n))
<1>1. Moved(m, n, after)
  BY SwitchLinked DEF Poised, Core, Shell1
<1>2. ASSUME n.fault = "none" PROVE Good(n)
  <2>1. /\ Linked(n, {}) /\ Waits(n, {}) /\ Rest(n) /\ n.waiting = m.waiting
        /\ n.context = Left(m, after) /\ n.pid = m.pid /\ n.next_pid = m.next_pid
        /\ n.lock_waiting = m.lock_waiting /\ n.lock_owned = m.lock_owned /\ n.locked = m.locked
        /\ n.num_waiting = m.num_waiting /\ n.sem = m.sem /\ n.num_now = m.num_now /\ n.num_expected = m.num_expected
        /\ \A p \in Slots : n.status[p] = "NOT_EXIST" <=> m.status[p] = "NOT_EXIST"
        /\ n.status[1] \in {"READY", "RUNNING"}
    BY <1>1, <1>2 DEF Moved, Switched, Marks, Left, Rest
  <2>2. Shell1(n)
    BY <2>1 DEF Poised, Core, Shell1
  <2>3. Loops(n, n.context)
    BY <2>1, SlotSets DEF Poised, Core, Loops
  <2>4. NoneLost(n) /\ GaveUpLock(n, n.context)
    BY <2>1 DEF Poised, Core, NoneLost, GaveUpLock
  <2>5. Counts(n)
    BY <2>1 DEF Poised, Counts, CondCount, SemCount, BarrierCount
  <2> QED BY <2>1, <2>2, <2>3, <2>4, <2>5 DEF Good, Core
<1> QED BY <1>1, <1>2

-----------------------------------------------------------------------------
(***************************************************************************)
(* The running process, and memories that differ only in counters.          *)
(***************************************************************************)

\* The process that has the CPU is on no queue and waits for nobody; in user
\* code it is not noted as waiting for a mutex either.
LEMMA Caller ==
  ASSUME NEW m, Sound(m), m.current_running # 0
  PROVE  /\ Spawned(m) \in SUBSET Procs /\ KernelMemory(m, Spawned(m))
         /\ m.current_running \in Slots /\ m.current_running \in Procs /\ m.pid[m.current_running] # 0
         /\ m.status[m.current_running] = "RUNNING" /\ m.waiting_pcb[m.current_running] = -1
         /\ m.lock_waiting[m.current_running] # NULL =>
               m.context[m.current_running] = <<"acquire", m.lock_waiting[m.current_running]>>
         /\ m.context[m.current_running] \in {User, <<"timer", NULL>>} => m.lock_waiting[m.current_running] = NULL
         /\ \A q \in WaitQueues : m.current_running \notin Members(m.waiting[q])
<1>1. Spawned(m) \in SUBSET Procs /\ KernelMemory(m, Spawned(m))
  BY DEF Spawned, Sound, MemInv
<1>2. m.current_running \in Slots /\ m.current_running \in Spawned(m)
  BY <1>1, CurrentType
<1>3. m.current_running \in Procs /\ m.pid[m.current_running] # 0
  BY <1>2 DEF Spawned
<1>4. m.status[m.current_running] = "RUNNING"
  BY DEF Sound, Good, Rest
<1>5. m.waiting_pcb[m.current_running] = -1
  BY <1>3, <1>4 DEF Sound, Good, Core, Waits, NotedOnly
<1>6. m.lock_waiting[m.current_running] # NULL =>
               m.context[m.current_running] = <<"acquire", m.lock_waiting[m.current_running]>>
  BY <1>3, <1>4 DEF Sound, Good, Core, Loops
<1>7. \A l : <<"acquire", l>> # User /\ <<"acquire", l>> # <<"timer", NULL>>
  BY DEF User
<1>8. \A q \in WaitQueues : m.current_running \notin Members(m.waiting[q])
  BY <1>2, <1>4 DEF Sound, Good, Core, Linked, OnWait
<1> QED BY <1>1, <1>2, <1>3, <1>4, <1>5, <1>6, <1>7, <1>8

\* Only counters differ.
Same(m, n) ==
    /\ n.pid = m.pid /\ n.next_pid = m.next_pid /\ n.current_running = m.current_running
    /\ n.status = m.status /\ n.priority = m.priority /\ n.context = m.context
    /\ n.ready = m.ready /\ n.sleep = m.sleep /\ n.waiting = m.waiting
    /\ n.waiting_pcb = m.waiting_pcb /\ n.lock_waiting = m.lock_waiting
    /\ n.lock_owned = m.lock_owned /\ n.locked = m.locked
    /\ n.time_elapsed = m.time_elapsed /\ n.alarm_time = m.alarm_time /\ n.fault = m.fault

\* Core does not read the counters.
LEMMA SameCore ==
  ASSUME NEW m, NEW n, NEW c, Same(m, n), Core(m, c)
  PROVE  Core(n, c)
<1>1. Linked(n, {})
  BY LinkedSame DEF Same, Core
<1>2. Waits(n, {})
  BY WaitsSame DEF Same, Core
<1>3. Shell1(n) /\ Loops(n, c) /\ NoneLost(n) /\ GaveUpLock(n, c)
  BY DEF Same, Core, Shell1, Loops, NoneLost, GaveUpLock
<1> QED BY <1>1, <1>2, <1>3 DEF Core

\* A change of counters wakes nobody.
LEMMA SameCalm ==
  ASSUME NEW m, NEW n, Same(m, n)
  PROVE  /\ Calm(m, n) /\ Round(m, n)
         /\ \A o : Calm(n, o) => Calm(m, o)
         /\ \A o : Calm(o, m) => Calm(o, n)
BY DEF Same, Calm, Round, Awaits

\* The assignments to a counter.
LEMMA CounterSame ==
  ASSUME NEW S \in SUBSET Procs, NEW m, KernelMemory(m, S), NEW x, NEW y
  PROVE  /\ Same(m, [m EXCEPT !.num_waiting[y] = x])
         /\ Same(m, [m EXCEPT !.sem[y] = x])
         /\ Same(m, [m EXCEPT !.num_now[y] = x])
BY DEF Same, KernelMemory, Fields

\* Another context for the running process, which is on no queue.
LEMMA LeftCore ==
  ASSUME NEW m, Sound(m), NEW after, m.current_running # 0 => m.lock_waiting[m.current_running] = NULL
  PROVE  Core(m, Left(m, after))
<1>1. KernelMemory(m, Spawned(m)) /\ Spawned(m) \in SUBSET Procs /\ m.context \in [Slots -> Contexts]
      /\ m.current_running \in Slots
  BY CurrentType DEF Sound, MemInv, KernelMemory, Spawned
<1>2. \A p \in Slots : p # m.current_running => Left(m, after)[p] = m.context[p]
  BY <1>1 DEF Left
<1>3. Loops(m, Left(m, after))
  BY <1>2, SlotSets DEF Sound, Good, Core, Loops
<1>4. \A q \in WaitQueues : m.current_running \notin Members(m.waiting[q])
  <2>1. CASE m.current_running = 0
    BY <1>1, <2>1, QueueSlots, SlotSets
  <2>2. CASE m.current_running # 0
    BY <2>2, Caller
  <2> QED BY <2>1, <2>2
<1>5. GaveUpLock(m, Left(m, after))
  BY <1>2, <1>4, QueueNames DEF Sound, Good, Core, GaveUpLock
<1> QED BY <1>3, <1>5 DEF Sound, Good, Core

-----------------------------------------------------------------------------
(***************************************************************************)
(* The timer.                                                               *)
(***************************************************************************)

\* irq_timer up to the call of do_scheduler, and the switch.
LEMMA TimerFine ==
  ASSUME NEW m, Sound(m), m.context[m.current_running] = User, NEW n, n = irq_timer_enter(m)
  PROVE  Fine(m, n)
<1> DEFINE after == <<"timer", NULL>>
<1>1. m.current_running # 0 => m.lock_waiting[m.current_running] = NULL
  BY Caller
<1>2. m.status[m.current_running] # "READY"
  BY DEF Sound, Good, Rest
<1>3. Core(m, Left(m, after))
  BY <1>1, LeftCore
<1>4. Poised(m, after)
  BY <1>2, <1>3 DEF Poised, Sound, Good
<1>5. Spawned(m) \in SUBSET Procs /\ after \in Contexts /\ after \notin {"acquire"} \X Locks
  BY UserContext DEF Spawned
<1>6. n = do_scheduler(m, after)
  BY DEF irq_timer_enter
<1> HIDE DEF after
<1>7. Moved(m, n, after) /\ (n.fault = "none" => Good(n))
  BY <1>4, <1>5, <1>6, LeaveCPU DEF Sound
<1>8. Calm(m, m) /\ Round(m, m)
  BY DEF Calm, Round, Awaits
<1>9. Effects(m, n)
  BY <1>7, <1>8, CalmMoves
<1> QED BY <1>7, <1>9 DEF Fine

\* irq_timer after it: the clock is advanced.
LEMMA ReturnFine ==
  ASSUME NEW m, Sound(m), m.context[m.current_running] = <<"timer", NULL>>, NEW n, n = irq_timer_return(m)
  PROVE  Fine(m, n)
<1>1. KernelMemory(m, Spawned(m))
  BY DEF Sound, MemInv
<1>2. /\ n.pid = m.pid /\ n.next_pid = m.next_pid /\ n.current_running = m.current_running
      /\ n.status = m.status /\ n.priority = m.priority /\ n.context = Left(m, User)
      /\ n.ready = m.ready /\ n.sleep = m.sleep /\ n.waiting = m.waiting
      /\ n.waiting_pcb = m.waiting_pcb /\ n.lock_waiting = m.lock_waiting
      /\ n.lock_owned = m.lock_owned /\ n.locked = m.locked
      /\ n.num_waiting = m.num_waiting /\ n.sem = m.sem /\ n.num_now = m.num_now /\ n.num_expected = m.num_expected
      /\ n.alarm_time = m.alarm_time /\ n.fault = m.fault
  BY <1>1 DEF irq_timer_return, KernelMemory, Fields, Left
<1>3. Core(m, Left(m, User))
  BY Caller, LeftCore
<1>4. Core(n, n.context)
  <2>1. Linked(n, {})
    BY <1>2, <1>3, LinkedSame DEF Core
  <2>2. Waits(n, {})
    BY <1>2, <1>3, WaitsSame DEF Core
  <2>3. Shell1(n) /\ Loops(n, n.context) /\ NoneLost(n) /\ GaveUpLock(n, n.context)
    BY <1>2, <1>3 DEF Core, Shell1, Loops, NoneLost, GaveUpLock
  <2> QED BY <2>1, <2>2, <2>3 DEF Core
<1>5. Counts(n) /\ Rest(n)
  BY <1>2 DEF Sound, Good, Counts, CondCount, SemCount, BarrierCount, Rest
<1>6. DeadStay(m, n) /\ SleepEnds(m, n) /\ Round(m, n) /\ n.fault # "null"
  BY <1>2 DEF DeadStay, SleepEnds, Round, Sound
<1>7. WaitEnds(m, n)
  <2>1. \A x : Gone(n, x) <=> Gone(m, x)
    BY <1>2 DEF Gone
  <2> QED BY <1>2, <2>1 DEF WaitEnds, Awaits
<1> QED BY <1>4, <1>5, <1>6, <1>7 DEF Fine, Effects, Good

-----------------------------------------------------------------------------
(***************************************************************************)
(* Conditions, semaphores and barriers.                                     *)
(***************************************************************************)

\* A user process makes a call: it runs, is on no queue and waits for nothing.
Calling(m) ==
    /\ m.fault = "none" /\ Core(m, m.context) /\ m.current_running \in UserSlots
    /\ m.status[m.current_running] = "RUNNING" /\ m.waiting_pcb[m.current_running] = -1
    /\ m.lock_waiting[m.current_running] = NULL
    /\ \A q \in WaitQueues : m.current_running \notin Members(m.waiting[q])

\* That is what a process in user code is.
LEMMA CallerCalls ==
  ASSUME NEW m, Sound(m), m.context[m.current_running] = User, m.current_running \in UserSlots
  PROVE  Calling(m)
BY Caller, SlotSets DEF Calling, Sound, Good

\* And it stays so when counters change.
LEMMA SameCalling ==
  ASSUME NEW m, NEW n, Same(m, n), Calling(m)
  PROVE  Calling(n)
<1>1. Core(n, m.context)
  BY SameCore DEF Calling
<1> QED BY <1>1 DEF Calling, Same

\* The process queues up on such an object.
LEMMA BlockObject ==
  ASSUME NEW S \in SUBSET Procs, NEW m, MemInv(m, S), Calling(m), NEW q \in ObjectQueues,
         NEW n, n = do_block(m, q)
  PROVE  /\ Linked(n, {}) /\ Waits(n, {}) /\ Shell1(n) /\ NoneLost(n) /\ Calm(m, n) /\ Frame(m, n)
         /\ \A after : Loops(n, Left(n, after))
         /\ n.status[n.current_running] = "BLOCKED" /\ n.fault = m.fault /\ Queued(m, n, q)
<1>0. /\ KernelMemory(m, S) /\ q \in WaitQueues /\ m.current_running \in Slots /\ m.current_running # 1
      /\ m.status \in [Slots -> Status] /\ m.waiting \in [WaitQueues -> Seq(S)] /\ m.context \in [Slots -> Contexts]
      /\ 1 \in Slots
  BY SlotSets DEF MemInv, KernelMemory, ObjectQueues, Calling
<1>1. /\ Frame(m, n) /\ n.fault = m.fault /\ n.current_running = m.current_running
      /\ n.status = [m.status EXCEPT ![m.current_running] = "BLOCKED"]
      /\ n.waiting = [m.waiting EXCEPT ![q] = Append(m.waiting[q], m.current_running)]
      /\ n.priority = m.priority /\ n.ready = m.ready /\ n.sleep = m.sleep
  BY <1>0 DEF do_block, KernelMemory, Fields, Frame
<1>2. Queued(m, n, q)
  BY <1>1 DEF Queued, Frame
<1>3. Linked(n, {})
  BY <1>0, <1>2, BlockLinked DEF Calling, Core
<1>4. Waits(n, {})
  <2>1. n.lock_waiting = m.lock_waiting /\ n.waiting_pcb = m.waiting_pcb
    BY <1>1 DEF Frame
  <2> QED BY <1>0, <1>2, <2>1, BlockWaits DEF Calling, Core
<1>5. Shell1(n)
  BY <1>0, <1>1 DEF Calling, Core, Shell1, Frame
<1>6. NoneLost(n)
  <2>1. \A l \in Locks : LockQ(l) \in WaitQueues /\ LockQ(l) # q
    BY QueueNames, DistinctQueues
  <2> QED BY <1>0, <1>1, <2>1 DEF Calling, Core, NoneLost, Frame
<1>7. Calm(m, n)
  BY <1>0, <1>1 DEF Calm, Calling, Frame, Awaits
<1>8. ASSUME NEW after PROVE Loops(n, Left(n, after))
  BY <1>0, <1>1, SlotSets DEF Loops, Left, Calling, Core, Frame
<1>9. n.status[n.current_running] = "BLOCKED"
  BY <1>0, <1>1
<1> QED BY <1>1, <1>2, <1>3, <1>4, <1>5, <1>6, <1>7, <1>8, <1>9

\* On the queue of a condition only the members of that queue are asked to
\* have given up a lock.
LEMMA BlockKeepsGiven ==
  ASSUME NEW S \in SUBSET Procs, NEW m, MemInv(m, S), Calling(m), NEW q \in ObjectQueues,
         NEW n, n = do_block(m, q), NEW after, \A c \in Conds : CondQ(c) # q
  PROVE  GaveUpLock(n, Left(n, after))
<1>0. Frame(m, n) /\ Queued(m, n, q)
  BY BlockObject
<1>1. /\ Frame(m, n) /\ n.current_running = m.current_running
      /\ n.waiting = [m.waiting EXCEPT ![q] = Append(m.waiting[q], m.current_running)]
  BY <1>0 DEF Queued
<1>2. m.waiting \in [WaitQueues -> Seq(S)] /\ m.context \in [Slots -> Contexts]
  BY DEF MemInv, KernelMemory
<1>3. \A c \in Conds : CondQ(c) \in WaitQueues /\ n.waiting[CondQ(c)] = m.waiting[CondQ(c)]
                       /\ m.current_running \notin Members(m.waiting[CondQ(c)])
  BY <1>1, <1>2, QueueNames DEF Calling
<1>4. \A p \in Slots : p # m.current_running => Left(n, after)[p] = m.context[p]
  BY <1>1, <1>2 DEF Left, Frame
<1> QED BY <1>1, <1>3, <1>4 DEF GaveUpLock, Calling, Core, Frame

\* Processes are woken from such an object.
LEMMA WakeObject ==
  ASSUME NEW S \in SUBSET Procs, NEW m, KernelMemory(m, S), NEW c, Core(m, c), NEW q \in ObjectQueues,
         NEW U \in SUBSET Members(m.waiting[q]), NEW n, NEW x, Woken(m, n, U), Frame(m, n),
         n.waiting = [m.waiting EXCEPT ![q] = x]
  PROVE  Core(n, c) /\ Calm(m, n)
<1>0. /\ q \in WaitQueues /\ m.waiting \in [WaitQueues -> Seq(S)] /\ Linked(m, {}) /\ Waits(m, {})
      /\ m.status \in [Slots -> Status]
  BY DEF ObjectQueues, Core, KernelMemory
<1>1. /\ Members(m.waiting[q]) \in SUBSET Slots
      /\ \A p \in Members(m.waiting[q]) : m.status[p] = "BLOCKED" /\ m.lock_waiting[p] = NULL /\ m.waiting_pcb[p] = -1
  <2>1. /\ Members(m.waiting[q]) \in SUBSET Slots
        /\ \A p \in Members(m.waiting[q]) : m.status[p] = "BLOCKED"
    BY <1>0, WaitersBlocked
  <2> QED BY <1>0, <2>1 DEF Waits, ObjectWait
<1>2. /\ U \in SUBSET Slots
      /\ \A p \in U : m.status[p] \in {"BLOCKED", "SLEEPING"} /\ m.lock_waiting[p] = NULL /\ m.waiting_pcb[p] = -1
  BY <1>1
<1>3. Linked(n, {})
  BY <1>0, <1>2, WakeLinked
<1>4. Waits(n, {})
  <2>1. n.pid = m.pid /\ n.next_pid = m.next_pid /\ n.lock_waiting = m.lock_waiting
        /\ n.waiting_pcb = m.waiting_pcb
    BY DEF Frame
  <2>2. \A p \in Slots : n.waiting_pcb[p] = IF p \in U THEN -1 ELSE m.waiting_pcb[p]
    BY <1>2, <2>1
  <2> QED BY <1>0, <1>2, <2>1, <2>2, WakeWaits
<1>5. /\ \A p \in Slots : n.status[p] = IF p \in U THEN "READY" ELSE m.status[p]
      /\ n.current_running = m.current_running
  BY DEF Woken
<1>6. Shell1(n)
  BY <1>5, SlotSets DEF Core, Shell1, Frame
<1>7. Loops(n, c)
  BY <1>2, <1>5, SlotSets DEF Core, Loops, Frame
<1>8. NoneLost(n)
  <2>1. \A l \in Locks : LockQ(l) \in WaitQueues /\ LockQ(l) # q
    BY QueueNames, DistinctQueues
  <2> QED BY <1>0, <2>1 DEF Core, NoneLost, Frame
<1>9. GaveUpLock(n, c)
  <2>1. \A y \in Conds : CondQ(y) \in WaitQueues /\ Members(n.waiting[CondQ(y)]) \subseteq Members(m.waiting[CondQ(y)])
    BY QueueNames DEF Woken
  <2> QED BY <2>1 DEF Core, GaveUpLock, Frame
<1>10. Calm(m, n)
  BY <1>1, <1>5 DEF Calm, Frame, Awaits
<1> QED BY <1>3, <1>4, <1>6, <1>7, <1>8, <1>9, <1>10 DEF Core

\* The queues of the objects are told apart by their names.
LEMMA ObjectNames ==
  /\ \A c, d \in Conds : CondQ(c) = CondQ(d) => c = d
  /\ \A s, t \in Sems : SemQ(s) = SemQ(t) => s = t
  /\ \A a, b \in Barriers : BarrierQ(a) = BarrierQ(b) => a = b
  /\ \A c \in Conds, s \in Sems : CondQ(c) # SemQ(s)
  /\ \A c \in Conds, b \in Barriers : CondQ(c) # BarrierQ(b)
  /\ \A s \in Sems, b \in Barriers : SemQ(s) # BarrierQ(b)
BY DEF CondQ, SemQ, BarrierQ

\* A calm body, then the switch.
LEMMA ThenLeave ==
  ASSUME NEW S \in SUBSET Procs, NEW m, NEW b, MemInv(b, S), NEW after \in Contexts,
         after \in {"acquire"} \X Locks => b.current_running \in UserSlots,
         Poised(b, after), Calm(m, b), Round(m, b), NEW n, n = do_scheduler(b, after)
  PROVE  Fine(m, n)
<1>1. Moved(b, n, after) /\ (n.fault = "none" => Good(n))
  BY LeaveCPU
<1>2. Effects(m, n)
  BY <1>1, CalmMoves
<1> QED BY <1>1, <1>2 DEF Fine

\* A calm body after which the process goes on.
LEMMA GoesOn ==
  ASSUME NEW m, NEW n, Calm(m, n), Round(m, n), Core(n, n.context), Counts(n), Rest(m),
         n.fault = "none", n.status[n.current_running] = m.status[m.current_running]
  PROVE  Fine(m, n)
<1>1. Effects(m, n)
  BY CalmEffects
<1>2. Rest(n)
  BY DEF Rest, Calm
<1> QED BY <1>1, <1>2 DEF Fine, Good

\* The kernel stops before it changed anything that matters.
LEMMA StopsFine ==
  ASSUME NEW m, NEW n, Calm(m, n), Round(m, n), n.fault \notin {"none", "null"}
  PROVE  Fine(m, n)
BY CalmEffects DEF Fine

\* The caller goes back to user code.
LEMMA CallerLeft ==
  ASSUME NEW m, Sound(m), m.context[m.current_running] = User, m.current_running \in UserSlots,
         NEW n, Same(m, n)
  PROVE  Core(n, Left(n, User)) /\ Core(n, n.context) /\ n.status[n.current_running] = "RUNNING"
<1>1. Calling(m)
  BY CallerCalls
<1>2. Core(m, Left(m, User))
  BY <1>1, LeftCore DEF Calling
<1>3. Left(n, User) = Left(m, User) /\ n.context = m.context /\ n.status[n.current_running] = "RUNNING"
  BY <1>1 DEF Same, Left, Calling
<1>4. Core(n, Left(m, User)) /\ Core(n, m.context)
  BY <1>1, <1>2, SameCore DEF Calling
<1> QED BY <1>3, <1>4

\* semaphore_init on a queue that is empty.
LEMMA SemInitFine ==
  ASSUME NEW m, Sound(m), m.context[m.current_running] = User, m.current_running \in UserSlots,
         NEW s \in Sems, NEW v \in Int, m.waiting[SemQ(s)] = <<>>, NEW n, n = do_semaphore_init(m, s, v)
  PROVE  Fine(m, n)
<1>1. KernelMemory(m, Spawned(m)) /\ m.waiting \in [WaitQueues -> Seq(Spawned(m))] /\ m.sem \in [Sems -> Int]
      /\ Good(m) /\ m.fault = "none" /\ SemQ(s) \in WaitQueues
  BY QueueNames DEF Sound, MemInv, KernelMemory
<1>2. CASE v < 0
  <2>1. n = m
    BY <1>2 DEF do_semaphore_init
  <2>2. Calm(m, m) /\ Round(m, m)
    BY DEF Calm, Round, Awaits
  <2> QED BY <1>1, <2>1, <2>2, GoesOn DEF Good
<1>3. CASE v >= 0
  <2>1. n = [m EXCEPT !.sem[s] = v, !.waiting[SemQ(s)] = <<>>]
    BY <1>3 DEF do_semaphore_init
  <2>2. n.waiting = [m.waiting EXCEPT ![SemQ(s)] = <<>>] /\ n.sem = [m.sem EXCEPT ![s] = v]
        /\ n.num_waiting = m.num_waiting /\ n.num_now = m.num_now /\ n.num_expected = m.num_expected
    BY <1>1, <2>1 DEF KernelMemory, Fields
  <2>3. n.waiting = m.waiting
    BY <1>1, <2>2
  <2>4. Same(m, n)
    BY <1>1, <2>1, <2>3 DEF Same, KernelMemory, Fields
  <2>5. Counts(n)
    <3>1. SemCount(n)
      <4> SUFFICES ASSUME NEW t \in Sems PROVE Len(n.waiting[SemQ(t)]) = IF n.sem[t] < 0 THEN -n.sem[t] ELSE 0
        BY DEF SemCount
      <4>1. CASE t = s
        BY <1>1, <1>3, <2>2, <2>3, <4>1
      <4>2. CASE t # s
        BY <1>1, <2>2, <2>3, <4>2 DEF Good, Counts, SemCount
      <4> QED BY <4>1, <4>2
    <3> QED BY <1>1, <2>2, <2>3, <3>1 DEF Good, Counts, CondCount, BarrierCount
  <2>6. Core(n, n.context)
    BY <2>4, CallerLeft
  <2>7. Calm(m, n) /\ Round(m, n) /\ n.fault = "none" /\ n.status[n.current_running] = m.status[m.current_running]
    BY <1>1, <2>4, SameCalm DEF Same
  <2> QED BY <1>1, <2>5, <2>6, <2>7, GoesOn DEF Good
<1> QED BY <1>2, <1>3

\* What a caller that queues up on an object has to leave behind.
LEMMA BlockedPoised ==
  ASSUME NEW S \in SUBSET Procs, NEW m, MemInv(m, S), Calling(m), NEW q \in ObjectQueues,
         \A c \in Conds : CondQ(c) # q, NEW b, b = do_block(m, q), Counts(b)
  PROVE  Poised(b, User) /\ Calm(m, b) /\ MemInv(b, S)
<1>1. /\ Linked(b, {}) /\ Waits(b, {}) /\ Shell1(b) /\ NoneLost(b) /\ Calm(m, b)
      /\ b.status[b.current_running] = "BLOCKED" /\ b.fault = m.fault
      /\ Loops(b, Left(b, User))
  BY BlockObject
<1>2. GaveUpLock(b, Left(b, User))
  BY BlockKeepsGiven
<1>3. MemInv(b, S)
  BY BlockType, SlotSets DEF Calling, ObjectQueues
<1> QED BY <1>1, <1>2, <1>3 DEF Poised, Core, Calling

\* semaphore_down: the counter goes below zero with the caller on the queue.
LEMMA SemDownFine ==
  ASSUME NEW m, Sound(m), m.context[m.current_running] = User, m.current_running \in UserSlots,
         NEW s \in Sems, NEW n, n = do_semaphore_down(m, s)
  PROVE  Fine(m, n)
<1> DEFINE d == [m EXCEPT !.sem[s] = @ - 1]
           b == IF d.sem[s] < 0 THEN do_block(d, SemQ(s)) ELSE d
           S == Spawned(m)
<1>1. /\ KernelMemory(m, S) /\ m.waiting \in [WaitQueues -> Seq(S)] /\ m.sem \in [Sems -> Int]
      /\ Good(m) /\ m.fault = "none" /\ SemQ(s) \in WaitQueues /\ SemQ(s) \in ObjectQueues /\ S \in SUBSET Procs
      /\ MemInv(m, S) /\ User \in Contexts /\ User \notin {"acquire"} \X Locks /\ m.sem[s] \in Int
  BY QueueNames, DistinctQueues, UserContext DEF Sound, MemInv, KernelMemory, Spawned
<1>2. n = do_scheduler(b, User)
  BY DEF do_semaphore_down
<1>3. d.sem = [m.sem EXCEPT ![s] = m.sem[s] - 1] /\ d.num_waiting = m.num_waiting
      /\ d.num_now = m.num_now /\ d.num_expected = m.num_expected
  BY <1>1 DEF KernelMemory, Fields
<1>4. Same(m, d)
  BY <1>1, CounterSame
<1>5. MemInv(d, S)
  <2>1. m.sem[s] - 1 \in Int
    BY <1>1
  <2> QED BY <1>1, <2>1, CounterType
<1>6. Calling(d) /\ d.waiting = m.waiting
  BY <1>4, CallerCalls, SameCalling DEF Same
<1> HIDE DEF d
<1>7. CASE d.sem[s] < 0
  <2>1. b = do_block(d, SemQ(s))
    BY <1>7
  <2> HIDE DEF b
  <2>2. Frame(d, b) /\ Queued(d, b, SemQ(s))
    BY <1>1, <1>5, <1>6, <2>1, BlockObject
  <2>3. /\ \A q \in WaitQueues : q # SemQ(s) => b.waiting[q] = m.waiting[q]
        /\ Len(b.waiting[SemQ(s)]) = Len(m.waiting[SemQ(s)]) + 1
    <3>1. b.waiting = [m.waiting EXCEPT ![SemQ(s)] = Append(m.waiting[SemQ(s)], d.current_running)]
      BY <1>6, <2>2 DEF Queued
    <3>2. Len(Append(m.waiting[SemQ(s)], d.current_running)) = Len(m.waiting[SemQ(s)]) + 1
      BY <1>1, AppendQueue
    <3> QED BY <1>1, <3>1, <3>2
  <2>4. Counts(b)
    <3>1. CondCount(b) /\ BarrierCount(b)
      BY <1>1, <1>3, <2>2, <2>3, QueueNames, ObjectNames DEF Good, Counts, CondCount, BarrierCount, Frame
    <3>2. SemCount(b)
      <4> SUFFICES ASSUME NEW t \in Sems PROVE Len(b.waiting[SemQ(t)]) = IF b.sem[t] < 0 THEN -b.sem[t] ELSE 0
        BY DEF SemCount
      <4>1. CASE t = s
        <5>1. b.sem[s] = m.sem[s] - 1 /\ m.sem[s] - 1 < 0
          BY <1>1, <1>3, <1>7, <2>2 DEF Frame
        <5>2. Len(m.waiting[SemQ(s)]) = IF m.sem[s] < 0 THEN -m.sem[s] ELSE 0
          BY <1>1 DEF Good, Counts, SemCount
        <5> QED BY <1>1, <2>3, <4>1, <5>1, <5>2
      <4>2. CASE t # s
        BY <1>1, <1>3, <2>2, <2>3, <4>2, QueueNames, ObjectNames DEF Good, Counts, SemCount, Frame
      <4> QED BY <4>1, <4>2
    <3> QED BY <3>1, <3>2 DEF Counts
  <2>5. \A c \in Conds : CondQ(c) # SemQ(s)
    BY ObjectNames
  <2>6. Poised(b, User) /\ Calm(d, b) /\ MemInv(b, S)
    BY <1>1, <1>5, <1>6, <2>1, <2>4, <2>5, BlockedPoised
  <2>7. Calm(m, b) /\ Round(m, b)
    <3>1. Round(m, b)
      BY <2>3, QueueNames, ObjectNames DEF Round
    <3> QED BY <1>4, <2>6, <3>1, SameCalm
  <2> QED BY <1>1, <1>2, <2>6, <2>7, ThenLeave
<1>8. CASE ~(d.sem[s] < 0)
  <2>1. b = d
    BY <1>8
  <2> HIDE DEF b
  <2>2. Counts(d)
    <3>1. CondCount(d) /\ BarrierCount(d)
      BY <1>1, <1>3, <1>6 DEF Good, Counts, CondCount, BarrierCount
    <3>2. SemCount(d)
      <4> SUFFICES ASSUME NEW t \in Sems PROVE Len(d.waiting[SemQ(t)]) = IF d.sem[t] < 0 THEN -d.sem[t] ELSE 0
        BY DEF SemCount
      <4>0. Len(m.waiting[SemQ(t)]) = IF m.sem[t] < 0 THEN -m.sem[t] ELSE 0
        BY <1>1 DEF Good, Counts, SemCount
      <4> QED BY <1>1, <1>3, <1>6, <1>8, <4>0
    <3> QED BY <3>1, <3>2 DEF Counts
  <2>3. Core(d, Left(d, User)) /\ d.status[d.current_running] = "RUNNING"
    BY <1>4, CallerLeft
  <2>4. Poised(d, User)
    BY <1>6, <2>2, <2>3 DEF Poised, Calling
  <2>5. Calm(m, d) /\ Round(m, d)
    BY <1>4, SameCalm
  <2> QED BY <1>1, <1>2, <1>5, <2>1, <2>4, <2>5, ThenLeave
<1> QED BY <1>7, <1>8

\* Of the waiting queues only q has changed, and who runs goes on.
OnlyQueue(m, n, q, x) ==
    /\ n.waiting[q] = x
    /\ \A r \in WaitQueues : r # q => n.waiting[r] = m.waiting[r]
    /\ \A p \in Slots : m.status[p] = "RUNNING" => n.status[p] = "RUNNING"

\* The first process, or every process, is woken from an object.
LEMMA WakeOneObject ==
  ASSUME NEW S \in SUBSET Procs, NEW m, MemInv(m, S), NEW c, Core(m, c), NEW q \in ObjectQueues,
         m.waiting[q] # <<>>, NEW n, n = do_unblock_one(m, q)
  PROVE  /\ Core(n, c) /\ Calm(m, n) /\ Frame(m, n) /\ MemInv(n, S) /\ n.fault = m.fault
         /\ OnlyQueue(m, n, q, Tail(m.waiting[q]))
<1>0. KernelMemory(m, S) /\ q \in WaitQueues /\ Linked(m, {}) /\ m.waiting \in [WaitQueues -> Seq(S)]
  BY DEF MemInv, ObjectQueues, Core, KernelMemory
<1>0a. Popped(m, n, q) /\ Frame(m, n) /\ n.fault = m.fault
  BY <1>0, UnblockOneWakes
<1>1. /\ Woken(m, n, {Head(m.waiting[q])})
      /\ Head(m.waiting[q]) \in Members(m.waiting[q])
      /\ n.waiting = [m.waiting EXCEPT ![q] = Tail(m.waiting[q])]
  BY <1>0a DEF Popped
<1>2. {Head(m.waiting[q])} \in SUBSET Members(m.waiting[q])
  BY <1>1
<1>3. Core(n, c) /\ Calm(m, n)
  BY <1>0, <1>0a, <1>1, <1>2, WakeObject
<1>4. MemInv(n, S)
  BY <1>0, UnblockOneType
<1>5. m.status[Head(m.waiting[q])] = "BLOCKED"
  <2>1. \A p \in Members(m.waiting[q]) : m.status[p] = "BLOCKED"
    BY <1>0, WaitersBlocked
  <2> QED BY <1>1, <2>1
<1>6. \A p \in Slots : m.status[p] = "RUNNING" => n.status[p] = "RUNNING"
  BY <1>1, <1>5 DEF Woken
<1>7. /\ n.waiting[q] = Tail(m.waiting[q])
      /\ \A r \in WaitQueues : r # q => n.waiting[r] = m.waiting[r]
  BY <1>0, <1>1
<1> QED BY <1>0a, <1>3, <1>4, <1>6, <1>7 DEF OnlyQueue

\* The same for all.
LEMMA WakeAllObject ==
  ASSUME NEW S \in SUBSET Procs, NEW m, MemInv(m, S), NEW c, Core(m, c), NEW q \in ObjectQueues,
         NEW n, n = do_unblock_all(m, q)
  PROVE  /\ Core(n, c) /\ Calm(m, n) /\ Frame(m, n) /\ MemInv(n, S) /\ n.fault = m.fault
         /\ OnlyQueue(m, n, q, <<>>)
<1>0. KernelMemory(m, S) /\ q \in WaitQueues /\ Linked(m, {}) /\ m.waiting \in [WaitQueues -> Seq(S)]
  BY DEF MemInv, ObjectQueues, Core, KernelMemory
<1>1. /\ Woken(m, n, Members(m.waiting[q])) /\ Frame(m, n) /\ n.fault = m.fault
      /\ n.waiting = [m.waiting EXCEPT ![q] = <<>>] /\ n.sleep = m.sleep
      /\ n.current_running = m.current_running
  BY <1>0, UnblockAllWakes
<1>2. Members(m.waiting[q]) \in SUBSET Members(m.waiting[q])
  OBVIOUS
<1>3. Core(n, c) /\ Calm(m, n)
  BY <1>0, <1>1, <1>2, WakeObject
<1>4. MemInv(n, S)
  BY <1>0, UnblockAllType
<1>5. \A p \in Members(m.waiting[q]) : m.status[p] = "BLOCKED"
  BY <1>0, WaitersBlocked
<1>6. \A p \in Slots : m.status[p] = "RUNNING" => n.status[p] = "RUNNING"
  BY <1>1, <1>5 DEF Woken
<1>7. /\ n.waiting[q] = <<>>
      /\ \A r \in WaitQueues : r # q => n.waiting[r] = m.waiting[r]
  BY <1>0, <1>1
<1> QED BY <1>1, <1>3, <1>4, <1>6, <1>7 DEF OnlyQueue

\* semaphore_up: the counter was below zero, so somebody is on the queue.
LEMMA SemUpFine ==
  ASSUME NEW m, Sound(m), m.context[m.current_running] = User, m.current_running \in UserSlots,
         NEW s \in Sems, NEW n, n = do_semaphore_up(m, s)
  PROVE  Fine(m, n)
<1> DEFINE d == [m EXCEPT !.sem[s] = @ + 1]
           b == IF d.sem[s] <= 0 THEN do_unblock_one(d, SemQ(s)) ELSE d
           S == Spawned(m)
<1>1. /\ KernelMemory(m, S) /\ m.waiting \in [WaitQueues -> Seq(S)] /\ m.sem \in [Sems -> Int]
      /\ Good(m) /\ m.fault = "none" /\ SemQ(s) \in WaitQueues /\ SemQ(s) \in ObjectQueues /\ S \in SUBSET Procs
      /\ MemInv(m, S) /\ User \in Contexts /\ User \notin {"acquire"} \X Locks /\ m.sem[s] \in Int
  BY QueueNames, DistinctQueues, UserContext DEF Sound, MemInv, KernelMemory, Spawned
<1>2. n = do_scheduler(b, User)
  BY DEF do_semaphore_up
<1>3. d.sem = [m.sem EXCEPT ![s] = m.sem[s] + 1] /\ d.num_waiting = m.num_waiting
      /\ d.num_now = m.num_now /\ d.num_expected = m.num_expected
  BY <1>1 DEF KernelMemory, Fields
<1>4. Same(m, d)
  BY <1>1, CounterSame
<1>5. MemInv(d, S)
  <2>1. m.sem[s] + 1 \in Int
    BY <1>1
  <2> QED BY <1>1, <2>1, CounterType
<1>6. d.waiting = m.waiting /\ d.current_running \in Slots /\ d.fault = "none"
  BY <1>1, <1>4, SlotSets DEF Same
<1>6a. Core(d, Left(d, User)) /\ d.status[d.current_running] = "RUNNING"
  BY <1>4, CallerLeft
<1>6b. Calm(m, d) /\ Round(m, d)
  BY <1>4, SameCalm
<1> HIDE DEF d, S
<1>7. CASE d.sem[s] <= 0
  <2>0. Len(m.waiting[SemQ(s)]) = -m.sem[s] /\ m.sem[s] < 0
    <3>1. Len(m.waiting[SemQ(s)]) = IF m.sem[s] < 0 THEN -m.sem[s] ELSE 0
      BY <1>1 DEF Good, Counts, SemCount
    <3>2. m.sem[s] + 1 <= 0
      BY <1>1, <1>3, <1>7
    <3> QED BY <1>1, <3>1, <3>2
  <2>1. b = do_unblock_one(d, SemQ(s))
    BY <1>7
  <2>1a. m.waiting[SemQ(s)] # <<>> /\ d.waiting[SemQ(s)] # <<>>
    BY <1>1, <1>6, <2>0
  <2> HIDE DEF b
  <2>2. /\ Core(b, Left(d, User)) /\ Calm(d, b) /\ Frame(d, b) /\ MemInv(b, S) /\ b.fault = d.fault
        /\ OnlyQueue(d, b, SemQ(s), Tail(d.waiting[SemQ(s)]))
    <3>1. SemQ(s) \in ObjectQueues /\ S \in SUBSET Procs /\ d.waiting[SemQ(s)] # <<>>
      BY <1>1, <2>1a
    <3>2. Core(d, Left(d, User))
      BY <1>6a
    <3> QED BY <1>5, <2>1, <3>1, <3>2, WakeOneObject
  <2>3. /\ \A q \in WaitQueues : q # SemQ(s) => b.waiting[q] = m.waiting[q]
        /\ Len(b.waiting[SemQ(s)]) = Len(m.waiting[SemQ(s)]) - 1
    <3>1. Len(Tail(m.waiting[SemQ(s)])) = Len(m.waiting[SemQ(s)]) - 1
      BY <1>1, <2>1a, TailQueue
    <3> QED BY <1>6, <2>2, <3>1 DEF OnlyQueue
  <2>4. Counts(b)
    <3>1. CondCount(b) /\ BarrierCount(b)
      BY <1>1, <1>3, <2>2, <2>3, QueueNames, ObjectNames DEF Good, Counts, CondCount, BarrierCount, Frame
    <3>2. SemCount(b)
      <4> SUFFICES ASSUME NEW t \in Sems PROVE Len(b.waiting[SemQ(t)]) = IF b.sem[t] < 0 THEN -b.sem[t] ELSE 0
        BY DEF SemCount
      <4>1. CASE t = s
        <5>1. b.sem[s] = m.sem[s] + 1
          BY <1>1, <1>3, <2>2 DEF Frame
        <5> QED BY <1>1, <2>0, <2>3, <4>1, <5>1
      <4>2. CASE t # s
        BY <1>1, <1>3, <2>2, <2>3, <4>2, QueueNames, ObjectNames DEF Good, Counts, SemCount, Frame
      <4> QED BY <4>1, <4>2
    <3> QED BY <3>1, <3>2 DEF Counts
  <2>5. Left(b, User) = Left(d, User) /\ b.status[b.current_running] = "RUNNING"
    BY <1>6, <1>6a, <2>2 DEF Left, Frame, Calm, OnlyQueue
  <2>6. Poised(b, User)
    BY <1>6, <2>2, <2>4, <2>5 DEF Poised
  <2>7. Calm(m, b) /\ Round(m, b)
    <3>1. Round(m, b)
      BY <2>3, QueueNames, ObjectNames DEF Round
    <3> QED BY <1>4, <2>2, <3>1, SameCalm
  <2> QED BY <1>1, <1>2, <2>2, <2>6, <2>7, ThenLeave
<1>8. CASE ~(d.sem[s] <= 0)
  <2>1. b = d
    BY <1>8
  <2> HIDE DEF b
  <2>2. Counts(d)
    <3>1. CondCount(d) /\ BarrierCount(d)
      BY <1>1, <1>3, <1>6 DEF Good, Counts, CondCount, BarrierCount
    <3>2. SemCount(d)
      <4> SUFFICES ASSUME NEW t \in Sems PROVE Len(d.waiting[SemQ(t)]) = IF d.sem[t] < 0 THEN -d.sem[t] ELSE 0
        BY DEF SemCount
      <4>0. Len(m.waiting[SemQ(t)]) = IF m.sem[t] < 0 THEN -m.sem[t] ELSE 0
        BY <1>1 DEF Good, Counts, SemCount
      <4> QED BY <1>1, <1>3, <1>6, <1>8, <4>0
    <3> QED BY <3>1, <3>2 DEF Counts
  <2>4. Poised(d, User)
    BY <1>6, <1>6a, <2>2 DEF Poised
  <2> QED BY <1>1, <1>2, <1>5, <1>6b, <2>1, <2>4, ThenLeave
<1> QED BY <1>7, <1>8

\* condition_init on a queue that is empty.
LEMMA CondInitFine ==
  ASSUME NEW m, Sound(m), m.context[m.current_running] = User, m.current_running \in UserSlots,
         NEW c \in Conds, m.waiting[CondQ(c)] = <<>>, NEW n, n = do_condition_init(m, c)
  PROVE  Fine(m, n)
<1>1. KernelMemory(m, Spawned(m)) /\ m.waiting \in [WaitQueues -> Seq(Spawned(m))] /\ m.num_waiting \in [Conds -> Int]
      /\ Good(m) /\ m.fault = "none" /\ CondQ(c) \in WaitQueues
  BY QueueNames DEF Sound, MemInv, KernelMemory
<1>2. n.waiting = [m.waiting EXCEPT ![CondQ(c)] = <<>>] /\ n.num_waiting = [m.num_waiting EXCEPT ![c] = 0]
      /\ n.sem = m.sem /\ n.num_now = m.num_now /\ n.num_expected = m.num_expected
  BY <1>1 DEF do_condition_init, KernelMemory, Fields
<1>3. n.waiting = m.waiting
  BY <1>1, <1>2
<1>4. Same(m, n)
  BY <1>1, <1>3 DEF Same, do_condition_init, KernelMemory, Fields
<1>5. Counts(n)
  <2>1. CondCount(n)
    BY <1>1, <1>2, <1>3 DEF Good, Counts, CondCount
  <2> QED BY <1>1, <1>2, <1>3, <2>1 DEF Good, Counts, SemCount, BarrierCount
<1>6. Core(n, n.context)
  BY <1>4, CallerLeft
<1>7. Calm(m, n) /\ Round(m, n) /\ n.fault = "none" /\ n.status[n.current_running] = m.status[m.current_running]
  BY <1>1, <1>4, SameCalm DEF Same
<1> QED BY <1>1, <1>5, <1>6, <1>7, GoesOn DEF Good

\* condition_signal: the counter is positive, so somebody is on the queue.
LEMMA CondSignalFine ==
  ASSUME NEW m, Sound(m), m.context[m.current_running] = User, m.current_running \in UserSlots,
         NEW c \in Conds, NEW n, n = do_condition_signal(m, c)
  PROVE  Fine(m, n)
<1> DEFINE S == Spawned(m)
           q == CondQ(c)
           d == do_unblock_one(m, q)
<1>1. /\ KernelMemory(m, S) /\ m.waiting \in [WaitQueues -> Seq(S)] /\ m.num_waiting \in [Conds -> Int]
      /\ Good(m) /\ m.fault = "none" /\ q \in WaitQueues /\ q \in ObjectQueues /\ S \in SUBSET Procs
      /\ MemInv(m, S) /\ m.num_waiting[c] \in Int /\ m.num_waiting[c] = Len(m.waiting[q])
      /\ m.current_running \in Slots /\ m.status[m.current_running] = "RUNNING" /\ Core(m, m.context)
  BY QueueNames, DistinctQueues, Caller, SlotSets
     DEF Sound, MemInv, KernelMemory, Spawned, Good, Counts, CondCount
<1> HIDE DEF S
<1>2. CASE m.num_waiting[c] <= 0
  <2>1. n = m
    BY <1>2 DEF do_condition_signal
  <2>2. Calm(m, m) /\ Round(m, m)
    BY DEF Calm, Round, Awaits
  <2> QED BY <1>1, <2>1, <2>2, GoesOn DEF Good
<1>3. CASE ~(m.num_waiting[c] <= 0)
  <2>1. m.waiting[q] # <<>>
    BY <1>1, <1>3
  <2>2. d = do_unblock_one(m, q)
    OBVIOUS
  <2>2a. n = IF d.fault # "none" THEN d ELSE [d EXCEPT !.num_waiting[c] = @ - 1]
    BY <1>3 DEF do_condition_signal
  <2> HIDE DEF d, q
  <2>3. /\ Core(d, m.context) /\ Calm(m, d) /\ Frame(m, d) /\ MemInv(d, S) /\ d.fault = m.fault
        /\ OnlyQueue(m, d, q, Tail(m.waiting[q]))
    <3>1. q \in ObjectQueues /\ S \in SUBSET Procs /\ MemInv(m, S) /\ Core(m, m.context)
      BY <1>1
    <3> QED BY <2>1, <2>2, <3>1, WakeOneObject
  <2>4. n = [d EXCEPT !.num_waiting[c] = @ - 1] /\ KernelMemory(d, S) /\ d.num_waiting = m.num_waiting
    BY <1>1, <2>2a, <2>3 DEF Frame, MemInv
  <2>5. Same(d, n)
    BY <2>4 DEF Same, KernelMemory, Fields
  <2>6. n.num_waiting = [m.num_waiting EXCEPT ![c] = m.num_waiting[c] - 1]
        /\ n.sem = m.sem /\ n.num_now = m.num_now /\ n.num_expected = m.num_expected
    BY <2>3, <2>4 DEF KernelMemory, Fields, Frame
  <2>7. /\ \A r \in WaitQueues : r # q => n.waiting[r] = m.waiting[r]
        /\ Len(n.waiting[q]) = Len(m.waiting[q]) - 1
    <3>1. Len(Tail(m.waiting[q])) = Len(m.waiting[q]) - 1
      BY <1>1, <2>1, TailQueue
    <3> QED BY <2>3, <2>5, <3>1 DEF OnlyQueue, Same
  <2>8. Counts(n)
    <3>1. CondCount(n)
      <4> SUFFICES ASSUME NEW x \in Conds PROVE n.num_waiting[x] = Len(n.waiting[CondQ(x)])
        BY DEF CondCount
      <4>1. CASE x = c
        BY <1>1, <2>6, <2>7, <4>1 DEF q
      <4>2. CASE x # c
        BY <1>1, <2>6, <2>7, <4>2, QueueNames, ObjectNames DEF Good, Counts, CondCount, q
      <4> QED BY <4>1, <4>2
    <3> QED BY <1>1, <2>6, <2>7, <3>1, QueueNames, ObjectNames DEF Good, Counts, SemCount, BarrierCount, q
  <2>9. Core(n, n.context)
    <3>1. Core(n, m.context) /\ n.context = m.context
      BY <2>3, <2>5, SameCore DEF Same, Frame
    <3> QED BY <3>1
  <2>10. Calm(m, n) /\ Round(m, n)
    <3>1. Round(m, n)
      BY <2>7, QueueNames, ObjectNames DEF Round, q
    <3> QED BY <2>3, <2>5, <3>1, SameCalm
  <2>11. n.fault = "none" /\ n.status[n.current_running] = m.status[m.current_running]
    BY <1>1, <2>3, <2>5 DEF Same, OnlyQueue, Calm
  <2> QED BY <1>1, <2>8, <2>9, <2>10, <2>11, GoesOn DEF Good
<1> QED BY <1>2, <1>3

\* condition_broadcast.
LEMMA CondBroadcastFine ==
  ASSUME NEW m, Sound(m), m.context[m.current_running] = User, m.current_running \in UserSlots,
         NEW c \in Conds, NEW n, n = do_condition_broadcast(m, c)
  PROVE  Fine(m, n)
<1> DEFINE S == Spawned(m)
           q == CondQ(c)
           d == do_unblock_all(m, q)
<1>1. /\ KernelMemory(m, S) /\ m.waiting \in [WaitQueues -> Seq(S)] /\ m.num_waiting \in [Conds -> Int]
      /\ Good(m) /\ m.fault = "none" /\ q \in WaitQueues /\ q \in ObjectQueues /\ S \in SUBSET Procs
      /\ MemInv(m, S) /\ m.current_running \in Slots /\ m.status[m.current_running] = "RUNNING" /\ Core(m, m.context)
  BY QueueNames, DistinctQueues, Caller, SlotSets
     DEF Sound, MemInv, KernelMemory, Spawned, Good
<1> HIDE DEF S
<1>2. CASE m.num_waiting[c] <= 0
  <2>1. n = m
    BY <1>2 DEF do_condition_broadcast
  <2>2. Calm(m, m) /\ Round(m, m)
    BY DEF Calm, Round, Awaits
  <2> QED BY <1>1, <2>1, <2>2, GoesOn DEF Good
<1>3. CASE ~(m.num_waiting[c] <= 0)
  <2>2. d = do_unblock_all(m, q)
    OBVIOUS
  <2>2a. n = [d EXCEPT !.num_waiting[c] = 0]
    BY <1>3 DEF do_condition_broadcast
  <2> HIDE DEF d, q
  <2>3. /\ Core(d, m.context) /\ Calm(m, d) /\ Frame(m, d) /\ MemInv(d, S) /\ d.fault = m.fault
        /\ OnlyQueue(m, d, q, <<>>)
    <3>1. q \in ObjectQueues /\ S \in SUBSET Procs /\ MemInv(m, S) /\ Core(m, m.context)
      BY <1>1
    <3> QED BY <2>2, <3>1, WakeAllObject
  <2>4. KernelMemory(d, S) /\ d.num_waiting = m.num_waiting
    BY <1>1, <2>3 DEF Frame, MemInv
  <2>5. Same(d, n)
    BY <2>2a, <2>4 DEF Same, KernelMemory, Fields
  <2>6. n.num_waiting = [m.num_waiting EXCEPT ![c] = 0]
        /\ n.sem = m.sem /\ n.num_now = m.num_now /\ n.num_expected = m.num_expected
    BY <2>2a, <2>3, <2>4 DEF KernelMemory, Fields, Frame
  <2>7. /\ \A r \in WaitQueues : r # q => n.waiting[r] = m.waiting[r]
        /\ n.waiting[q] = <<>>
    BY <2>3, <2>5 DEF OnlyQueue, Same
  <2>8. Counts(n)
    <3>1. CondCount(n)
      <4> SUFFICES ASSUME NEW x \in Conds PROVE n.num_waiting[x] = Len(n.waiting[CondQ(x)])
        BY DEF CondCount
      <4>1. CASE x = c
        BY <1>1, <2>6, <2>7, <4>1 DEF q
      <4>2. CASE x # c
        BY <1>1, <2>6, <2>7, <4>2, QueueNames, ObjectNames DEF Good, Counts, CondCount, q
      <4> QED BY <4>1, <4>2
    <3> QED BY <1>1, <2>6, <2>7, <3>1, QueueNames, ObjectNames DEF Good, Counts, SemCount, BarrierCount, q
  <2>9. Core(n, n.context)
    <3>1. Core(n, m.context) /\ n.context = m.context
      BY <2>3, <2>5, SameCore DEF Same, Frame
    <3> QED BY <3>1
  <2>10. Calm(m, n) /\ Round(m, n)
    <3>1. Round(m, n)
      BY <2>7, QueueNames, ObjectNames DEF Round, q
    <3> QED BY <2>3, <2>5, <3>1, SameCalm
  <2>11. n.fault = "none" /\ n.status[n.current_running] = m.status[m.current_running]
    BY <1>1, <2>3, <2>5 DEF Same, OnlyQueue, Calm
  <2> QED BY <1>1, <2>8, <2>9, <2>10, <2>11, GoesOn DEF Good
<1> QED BY <1>2, <1>3

\* barrier_init on a queue that is empty.
LEMMA BarrierInitFine ==
  ASSUME NEW m, Sound(m), m.context[m.current_running] = User, m.current_running \in UserSlots,
         NEW b \in Barriers, NEW g \in Int, m.waiting[BarrierQ(b)] = <<>>, NEW n, n = do_barrier_init(m, b, g)
  PROVE  Fine(m, n)
<1>1. KernelMemory(m, Spawned(m)) /\ m.waiting \in [WaitQueues -> Seq(Spawned(m))] /\ m.num_now \in [Barriers -> Nat]
      /\ m.num_expected \in [Barriers -> Int] /\ Good(m) /\ m.fault = "none" /\ BarrierQ(b) \in WaitQueues
  BY QueueNames DEF Sound, MemInv, KernelMemory
<1>2. n.waiting = [m.waiting EXCEPT ![BarrierQ(b)] = <<>>] /\ n.num_now = [m.num_now EXCEPT ![b] = 0]
      /\ n.num_expected = [m.num_expected EXCEPT ![b] = g] /\ n.sem = m.sem /\ n.num_waiting = m.num_waiting
  BY <1>1 DEF do_barrier_init, KernelMemory, Fields
<1>3. n.waiting = m.waiting
  <2>1. BarrierQ(b) \in WaitQueues /\ m.waiting \in [WaitQueues -> Seq(Spawned(m))]
    BY <1>1
  <2>2. n.waiting = [m.waiting EXCEPT ![BarrierQ(b)] = <<>>]
    BY <1>2
  <2> QED BY <2>1, <2>2
<1>4. Same(m, n)
  BY <1>1, <1>3 DEF Same, do_barrier_init, KernelMemory, Fields
<1>5. Counts(n)
  <2>1. BarrierCount(n)
    <3> SUFFICES ASSUME NEW x \in Barriers, n.num_expected[x] > 0
                 PROVE  n.num_now[x] = Len(n.waiting[BarrierQ(x)]) /\ n.num_now[x] < n.num_expected[x]
      BY DEF BarrierCount
    <3>1. CASE x = b
      BY <1>1, <1>2, <1>3, <3>1
    <3>2. CASE x # b
      BY <1>1, <1>2, <1>3, <3>2 DEF Good, Counts, BarrierCount
    <3> QED BY <3>1, <3>2
  <2> QED BY <1>1, <1>2, <1>3, <2>1 DEF Good, Counts, SemCount, CondCount
<1>6. Core(n, n.context)
  BY <1>4, CallerLeft
<1>7. Calm(m, n) /\ Round(m, n) /\ n.fault = "none" /\ n.status[n.current_running] = m.status[m.current_running]
  BY <1>1, <1>4, SameCalm DEF Same
<1> QED BY <1>1, <1>5, <1>6, <1>7, GoesOn DEF Good

\* barrier_wait: the last to arrive wakes the others, and does not queue up.
LEMMA BarrierWaitFine ==
  ASSUME NEW m, Sound(m), m.context[m.current_running] = User, m.current_running \in UserSlots,
         NEW b \in Barriers, NEW n, n = do_barrier_wait(m, b)
  PROVE  Fine(m, n)
<1> DEFINE d == [m EXCEPT !.num_now[b] = @ + 1]
           q == BarrierQ(b)
           S == Spawned(m)
<1>1. /\ KernelMemory(m, S) /\ m.waiting \in [WaitQueues -> Seq(S)] /\ m.num_now \in [Barriers -> Nat]
      /\ m.num_expected \in [Barriers -> Int]
      /\ Good(m) /\ m.fault = "none" /\ q \in WaitQueues /\ q \in ObjectQueues /\ S \in SUBSET Procs
      /\ MemInv(m, S) /\ User \in Contexts /\ User \notin {"acquire"} \X Locks
      /\ m.num_now[b] \in Nat /\ m.num_expected[b] \in Int
  BY QueueNames, DistinctQueues, UserContext DEF Sound, MemInv, KernelMemory, Spawned
<1>2. /\ d.num_now = [m.num_now EXCEPT ![b] = m.num_now[b] + 1] /\ d.num_waiting = m.num_waiting
      /\ d.sem = m.sem /\ d.num_expected = m.num_expected
  BY <1>1 DEF KernelMemory, Fields
<1>3. Same(m, d)
  BY <1>1, CounterSame
<1>4. MemInv(d, S) /\ KernelMemory(d, S)
  <2>1. m.num_now[b] + 1 \in Int /\ m.num_now[b] + 1 >= 0
    BY <1>1
  <2> QED BY <1>1, <2>1, CounterType DEF MemInv
<1>5. Calling(d) /\ d.waiting = m.waiting
  BY <1>3, CallerCalls, SameCalling DEF Same
<1>6. Core(d, Left(d, User)) /\ Core(d, d.context) /\ d.status[d.current_running] = "RUNNING" /\ d.fault = "none"
  BY <1>1, <1>3, CallerLeft DEF Same
<1>7. Calm(m, d) /\ Round(m, d)
  BY <1>3, SameCalm
<1>8. d.num_now[b] = m.num_now[b] + 1
  BY <1>1, <1>2
<1>9. n = IF d.num_now[b] < m.num_expected[b] THEN do_scheduler(do_block(d, q), User)
          ELSE IF d.num_now[b] = m.num_expected[b]
          THEN do_scheduler([do_unblock_all(d, q) EXCEPT !.num_now[b] = 0], User)
          ELSE d
  BY DEF do_barrier_wait
<1>10. /\ \A c \in Conds : CondQ(c) # q
       /\ \A s \in Sems : SemQ(s) # q
       /\ \A x \in Barriers : x # b => BarrierQ(x) # q
  BY ObjectNames
<1>11. m.num_expected[b] > 0 => m.num_now[b] = Len(m.waiting[q])
  BY <1>1 DEF Good, Counts, BarrierCount
<1>12. BarrierQ(b) = q
  OBVIOUS
<1> HIDE DEF d, S, q
<1>13. CASE d.num_now[b] < m.num_expected[b]
  <2> DEFINE e == do_block(d, q)
  <2>1. e = do_block(d, q) /\ n = do_scheduler(e, User)
    BY <1>9, <1>13
  <2> HIDE DEF e
  <2>2. Frame(d, e) /\ Queued(d, e, q)
    BY <1>1, <1>4, <1>5, <2>1, BlockObject
  <2>3. /\ \A r \in WaitQueues : r # q => e.waiting[r] = m.waiting[r]
        /\ Len(e.waiting[q]) = Len(m.waiting[q]) + 1
    <3>1. e.waiting = [m.waiting EXCEPT ![q] = Append(m.waiting[q], d.current_running)]
      BY <1>5, <2>2 DEF Queued
    <3>2. Len(Append(m.waiting[q], d.current_running)) = Len(m.waiting[q]) + 1
      BY <1>1, AppendQueue
    <3> QED BY <1>1, <3>1, <3>2
  <2>4. Counts(e)
    <3>1. CondCount(e) /\ SemCount(e)
      BY <1>1, <1>2, <1>10, <2>2, <2>3, QueueNames DEF Good, Counts, CondCount, SemCount, Frame
    <3>2. BarrierCount(e)
      <4> SUFFICES ASSUME NEW x \in Barriers, e.num_expected[x] > 0
                   PROVE  e.num_now[x] = Len(e.waiting[BarrierQ(x)]) /\ e.num_now[x] < e.num_expected[x]
        BY DEF BarrierCount
      <4>0. e.num_expected = m.num_expected /\ e.num_now = d.num_now
        BY <1>2, <2>2 DEF Frame
      <4>1. CASE x = b
        BY <1>1, <1>8, <1>11, <1>12, <1>13, <2>3, <4>0, <4>1
      <4>2. CASE x # b
        BY <1>1, <1>2, <1>10, <2>3, <4>0, <4>2, QueueNames DEF Good, Counts, BarrierCount
      <4> QED BY <4>1, <4>2
    <3> QED BY <3>1, <3>2 DEF Counts
  <2>5. Poised(e, User) /\ Calm(d, e) /\ MemInv(e, S)
    BY <1>1, <1>4, <1>5, <1>10, <2>1, <2>4, BlockedPoised
  <2>6. Calm(m, e) /\ Round(m, e)
    <3>1. Round(m, e)
      <4> SUFFICES ASSUME NEW x \in Barriers, e.waiting[BarrierQ(x)] # m.waiting[BarrierQ(x)]
                   PROVE  ~(Len(e.waiting[BarrierQ(x)]) <= Len(m.waiting[BarrierQ(x)]))
        BY DEF Round
      <4>1. x = b
        BY <1>10, <2>3, QueueNames
      <4>2. Len(m.waiting[q]) \in Nat
        BY <1>1
      <4> QED BY <1>12, <2>3, <4>1, <4>2
    <3> QED BY <1>3, <2>5, <3>1, SameCalm
  <2> QED BY <1>1, <2>1, <2>5, <2>6, ThenLeave
<1>14. CASE ~(d.num_now[b] < m.num_expected[b]) /\ d.num_now[b] = m.num_expected[b]
  <2> DEFINE w == do_unblock_all(d, q)
             e == [w EXCEPT !.num_now[b] = 0]
  <2>1. w = do_unblock_all(d, q) /\ n = do_scheduler(e, User) /\ e = [w EXCEPT !.num_now[b] = 0]
    BY <1>9, <1>14
  <2> HIDE DEF w, e
  <2>2. /\ Core(w, Left(d, User)) /\ Calm(d, w) /\ Frame(d, w) /\ MemInv(w, S) /\ w.fault = d.fault
        /\ OnlyQueue(d, w, q, <<>>)
    <3>1. q \in ObjectQueues /\ S \in SUBSET Procs /\ MemInv(d, S) /\ Core(d, Left(d, User))
      BY <1>1, <1>4, <1>6
    <3> QED BY <2>1, <3>1, WakeAllObject
  <2>3. KernelMemory(w, S) /\ w.num_now = d.num_now
    BY <2>2 DEF MemInv, Frame
  <2>4. Same(w, e) /\ MemInv(e, S)
    <3>1. Same(w, e)
      BY <2>1, <2>3 DEF Same, KernelMemory, Fields
    <3>2. MemInv(e, S)
      <4>1. MemInv([w EXCEPT !.num_now[b] = 0], S)
        <5>1. 0 \in Int /\ 0 >= 0
          OBVIOUS
        <5> QED BY <1>1, <2>2, <5>1, CounterType
      <4> QED BY <2>1, <4>1
    <3> QED BY <3>1, <3>2
  <2>5. /\ e.num_now = [d.num_now EXCEPT ![b] = 0] /\ e.num_waiting = m.num_waiting
        /\ e.sem = m.sem /\ e.num_expected = m.num_expected
    BY <1>2, <2>1, <2>2, <2>3 DEF KernelMemory, Fields, Frame
  <2>6. /\ \A r \in WaitQueues : r # q => e.waiting[r] = m.waiting[r]
        /\ e.waiting[q] = <<>>
    BY <1>5, <2>2, <2>4 DEF OnlyQueue, Same
  <2>7. Counts(e)
    <3>1. CondCount(e) /\ SemCount(e)
      BY <1>1, <1>10, <2>5, <2>6, QueueNames DEF Good, Counts, CondCount, SemCount
    <3>2. BarrierCount(e)
      <4> SUFFICES ASSUME NEW x \in Barriers, e.num_expected[x] > 0
                   PROVE  e.num_now[x] = Len(e.waiting[BarrierQ(x)]) /\ e.num_now[x] < e.num_expected[x]
        BY DEF BarrierCount
      <4>1. CASE x = b
        <5>1. e.num_now[b] = 0
          BY <1>1, <1>2, <2>5
        <5> QED BY <1>12, <2>6, <4>1, <5>1
      <4>2. CASE x # b
        BY <1>1, <1>2, <1>10, <2>5, <2>6, <4>2, QueueNames DEF Good, Counts, BarrierCount
      <4> QED BY <4>1, <4>2
    <3> QED BY <3>1, <3>2 DEF Counts
  <2>8. Left(e, User) = Left(d, User) /\ e.status[e.current_running] = "RUNNING" /\ e.fault = "none"
    <3>1. e.context = d.context /\ e.current_running = d.current_running /\ e.status = w.status /\ e.fault = d.fault
      BY <2>2, <2>4 DEF Same, Frame, Calm
    <3>2. d.current_running \in Slots
      BY <1>5, SlotSets DEF Calling
    <3> QED BY <1>6, <2>2, <3>1, <3>2 DEF Left, OnlyQueue
  <2>9. Poised(e, User)
    <3>1. Core(e, Left(d, User))
      BY <2>2, <2>4, SameCore
    <3> QED BY <2>7, <2>8, <3>1 DEF Poised
  <2>10. Calm(m, e)
    BY <1>3, <2>2, <2>4, SameCalm
  <2>11. Round(m, e)
    <3> SUFFICES ASSUME NEW x \in Barriers, e.waiting[BarrierQ(x)] # m.waiting[BarrierQ(x)]
                 PROVE  e.waiting[BarrierQ(x)] = <<>> /\ Len(m.waiting[BarrierQ(x)]) + 1 = m.num_expected[x]
      BY DEF Round
    <3>1. x = b
      BY <1>10, <2>6, QueueNames
    <3> QED BY <1>1, <1>8, <1>11, <1>12, <1>14, <2>6, <3>1
  <2> QED BY <1>1, <2>1, <2>4, <2>9, <2>10, <2>11, ThenLeave
<1>15. CASE ~(d.num_now[b] < m.num_expected[b]) /\ d.num_now[b] # m.num_expected[b]
  <2>1. n = d
    BY <1>9, <1>15
  <2>2. Counts(d)
    <3>1. CondCount(d) /\ SemCount(d)
      BY <1>1, <1>2, <1>5 DEF Good, Counts, CondCount, SemCount
    <3>2. BarrierCount(d)
      <4> SUFFICES ASSUME NEW x \in Barriers, d.num_expected[x] > 0
                   PROVE  d.num_now[x] = Len(d.waiting[BarrierQ(x)]) /\ d.num_now[x] < d.num_expected[x]
        BY DEF BarrierCount
      <4>0. m.num_expected[x] > 0 /\ m.num_now[x] < m.num_expected[x] /\ m.num_now[x] = Len(m.waiting[BarrierQ(x)])
        BY <1>1, <1>2 DEF Good, Counts, BarrierCount
      <4>1. CASE x = b
        BY <1>1, <1>8, <1>15, <4>0, <4>1
      <4>2. CASE x # b
        BY <1>1, <1>2, <1>5, <4>0, <4>2
      <4> QED BY <4>1, <4>2
    <3> QED BY <3>1, <3>2 DEF Counts
  <2>3. Rest(m) /\ d.status[d.current_running] = m.status[m.current_running]
    BY <1>1, <1>3 DEF Good, Same
  <2> QED BY <1>6, <1>7, <2>1, <2>2, <2>3, GoesOn
<1> QED BY <1>13, <1>14, <1>15

-----------------------------------------------------------------------------
(***************************************************************************)
(* Calls that put only the caller aside: sleep, wait, and a mutex that is   *)
(* taken.                                                                   *)
(***************************************************************************)
Aside(m, b) ==
    /\ b.pid = m.pid /\ b.next_pid = m.next_pid /\ b.current_running = m.current_running
    /\ b.fault = m.fault /\ b.time_elapsed = m.time_elapsed /\ b.context = m.context
    /\ b.locked = m.locked /\ b.lock_owned = m.lock_owned
    /\ b.num_waiting = m.num_waiting /\ b.sem = m.sem
    /\ b.num_now = m.num_now /\ b.num_expected = m.num_expected
    /\ \A p \in Slots : p # m.current_running =>
          b.status[p] = m.status[p] /\ b.alarm_time[p] = m.alarm_time[p] /\ b.lock_waiting[p] = m.lock_waiting[p]
    /\ \A q \in ObjectQueues : b.waiting[q] = m.waiting[q]
    /\ b.status[b.current_running] \in {"BLOCKED", "SLEEPING"}

\* What such a call has to leave behind.
LEMMA AsidePoised ==
  ASSUME NEW m, Sound(m), m.current_running \in UserSlots, NEW b, Aside(m, b),
         Linked(b, {}), Waits(b, {}), NoneLost(b), NEW after,
         b.lock_waiting[b.current_running] # NULL => after = <<"acquire", b.lock_waiting[b.current_running]>>
  PROVE  Poised(b, after) /\ Calm(m, b) /\ Round(m, b)
<1>1. /\ m.current_running \in Slots /\ m.current_running # 0 /\ m.current_running # 1 /\ 1 \in Slots
      /\ m.status[m.current_running] = "RUNNING" /\ m.waiting_pcb[m.current_running] = -1
      /\ \A q \in WaitQueues : m.current_running \notin Members(m.waiting[q])
      /\ m.context \in [Slots -> Contexts] /\ Good(m) /\ m.fault = "none"
  <2>1. m.current_running # 0
    BY SlotSets
  <2> QED BY <2>1, Caller, SlotSets DEF Sound, MemInv, KernelMemory
<1>2. /\ Left(b, after)[m.current_running] = after
      /\ \A p \in Slots : p # m.current_running => Left(b, after)[p] = m.context[p]
  BY <1>1 DEF Left, Aside
<1>3. Shell1(b)
  BY <1>1 DEF Shell1, Good, Core, Aside
<1>4. Loops(b, Left(b, after))
  <2> SUFFICES ASSUME NEW p \in Procs, b.status[p] # "NOT_EXIST", b.lock_waiting[p] # NULL
               PROVE  Left(b, after)[p] = <<"acquire", b.lock_waiting[p]>>
    BY DEF Loops
  <2>1. CASE p = m.current_running
    BY <1>2, <2>1 DEF Aside
  <2>2. CASE p # m.current_running
    BY <1>1, <1>2, <2>2, SlotSets DEF Aside, Good, Core, Loops
  <2> QED BY <2>1, <2>2
<1>5. GaveUpLock(b, Left(b, after))
  <2>1. \A c \in Conds : CondQ(c) \in WaitQueues /\ b.waiting[CondQ(c)] = m.waiting[CondQ(c)]
    BY QueueNames, DistinctQueues DEF Aside
  <2>2. b.lock_owned = m.lock_owned
    BY DEF Aside
  <2> QED BY <1>1, <1>2, <2>1, <2>2 DEF GaveUpLock, Good, Core
<1>6. Counts(b)
  BY <1>1, DistinctQueues DEF Aside, Good, Counts, CondCount, SemCount, BarrierCount
<1>7. Poised(b, after)
  BY <1>1, <1>3, <1>4, <1>5, <1>6 DEF Poised, Core, Aside
<1>8. Calm(m, b)
  <2>1. \A p \in Slots :
          /\ b.status[p] = "NOT_EXIST" <=> m.status[p] = "NOT_EXIST"
          /\ Awaits(m, p) => b.status[p] = "BLOCKED"
          /\ m.status[p] = "SLEEPING" => b.status[p] = "SLEEPING" /\ b.alarm_time[p] = m.alarm_time[p]
    <3> SUFFICES ASSUME NEW p \in Slots
                 PROVE  /\ b.status[p] = "NOT_EXIST" <=> m.status[p] = "NOT_EXIST"
                        /\ Awaits(m, p) => b.status[p] = "BLOCKED"
                        /\ m.status[p] = "SLEEPING" => b.status[p] = "SLEEPING" /\ b.alarm_time[p] = m.alarm_time[p]
      OBVIOUS
    <3>1. CASE p = m.current_running
      BY <1>1, <3>1 DEF Aside, Awaits
    <3>2. CASE p # m.current_running
      BY <3>2 DEF Aside, Awaits
    <3> QED BY <3>1, <3>2
  <2> QED BY <2>1 DEF Calm, Aside
<1>9. Round(m, b)
  BY DistinctQueues DEF Round, Aside
<1> QED BY <1>7, <1>8, <1>9

\* do_sleep.
LEMMA SleepFine ==
  ASSUME NEW m, Sound(m), m.context[m.current_running] = User, m.current_running \in UserSlots,
         NEW t \in Nat, NEW n, n = do_sleep(m, t)
  PROVE  Fine(m, n)
<1> DEFINE S == Spawned(m)
           cur == m.current_running
           b == [m EXCEPT !.status[cur] = "SLEEPING",
                          !.alarm_time[cur] = (t + get_timer(m)) % WORD,
                          !.sleep = Append(@, cur)]
<1>1. /\ KernelMemory(m, S) /\ MemInv(m, S) /\ S \in SUBSET Procs /\ Calling(m) /\ cur \in Slots /\ cur # 0
      /\ m.status \in [Slots -> Status] /\ m.alarm_time \in [Slots -> 0..(WORD - 1)]
  BY CallerCalls, SlotSets DEF Sound, MemInv, Spawned, KernelMemory
<1>2. n = do_scheduler(b, User)
  BY DEF do_sleep
<1>3. MemInv(b, S)
  BY <1>1, AlarmType
<1>4. /\ b.status = [m.status EXCEPT ![cur] = "SLEEPING"] /\ b.sleep = Append(m.sleep, cur)
      /\ b.priority = m.priority /\ b.ready = m.ready /\ b.waiting = m.waiting /\ b.fault = m.fault
      /\ b.current_running = m.current_running /\ b.pid = m.pid /\ b.next_pid = m.next_pid
      /\ b.waiting_pcb = m.waiting_pcb /\ b.lock_waiting = m.lock_waiting /\ b.time_elapsed = m.time_elapsed
      /\ b.context = m.context /\ b.locked = m.locked /\ b.lock_owned = m.lock_owned
      /\ b.num_waiting = m.num_waiting /\ b.sem = m.sem
      /\ b.num_now = m.num_now /\ b.num_expected = m.num_expected
      /\ \A p \in Slots : p # cur => b.alarm_time[p] = m.alarm_time[p]
  BY <1>1 DEF KernelMemory, Fields
<1> HIDE DEF b, S
<1>5. Linked(b, {}) /\ Waits(b, {})
  BY <1>1, <1>4, SleepLinked DEF Calling, Core
<1>6. Aside(m, b) /\ b.lock_waiting[cur] = NULL
  BY <1>1, <1>4 DEF Aside, Calling
<1>7. NoneLost(b)
  BY <1>1, <1>4 DEF NoneLost, Calling, Core
<1>8. Poised(b, User) /\ Calm(m, b) /\ Round(m, b)
  BY <1>4, <1>5, <1>6, <1>7, AsidePoised
<1> QED BY <1>1, <1>2, <1>3, <1>8, ThenLeave, UserContext

\* do_wait for a pid that was given out.
LEMMA WaitFine ==
  ASSUME NEW m, Sound(m), m.context[m.current_running] = User, m.current_running \in UserSlots,
         NEW pid \in 2..(m.next_pid - 1), NEW n, n = do_wait(m, pid)
  PROVE  Fine(m, n)
<1> DEFINE S == Spawned(m)
           cur == m.current_running
           i == FindPid(m, pid)
           q == WaitQ(i)
           b == [do_block(m, q) EXCEPT !.waiting_pcb[cur] = pid]
<1>1. /\ KernelMemory(m, S) /\ MemInv(m, S) /\ S \in SUBSET Procs /\ Calling(m) /\ cur \in Slots /\ cur # 0
      /\ m.status \in [Slots -> Status] /\ m.waiting \in [WaitQueues -> Seq(S)] /\ m.waiting_pcb \in [Slots -> Int]
      /\ m.next_pid \in Nat
  BY CallerCalls, SlotSets DEF Sound, MemInv, Spawned, KernelMemory
<1>1a. pid \in Nat /\ pid \in 1..(m.next_pid - 1)
  BY <1>1
<1>2. n = do_scheduler(b, User)
  BY DEF do_wait
<1>3. MemInv(b, S)
  BY <1>1, <1>1a, WaitBlockType
<1>4. i \in Slots /\ q \in WaitQueues
  BY <1>1, FindPidIn, QueueNames
<1> HIDE DEF i
<1>5. /\ b.status = [m.status EXCEPT ![cur] = "BLOCKED"] /\ b.sleep = m.sleep
      /\ b.waiting = [m.waiting EXCEPT ![q] = Append(m.waiting[q], cur)]
      /\ b.priority = m.priority /\ b.ready = m.ready /\ b.fault = m.fault
      /\ b.current_running = m.current_running /\ b.pid = m.pid /\ b.next_pid = m.next_pid
      /\ b.waiting_pcb = [m.waiting_pcb EXCEPT ![cur] = pid] /\ b.lock_waiting = m.lock_waiting
      /\ b.time_elapsed = m.time_elapsed /\ b.alarm_time = m.alarm_time
      /\ b.context = m.context /\ b.locked = m.locked /\ b.lock_owned = m.lock_owned
      /\ b.num_waiting = m.num_waiting /\ b.sem = m.sem
      /\ b.num_now = m.num_now /\ b.num_expected = m.num_expected
  BY <1>1 DEF KernelMemory, Fields, do_block
<1>6. q = WaitQ(i) /\ i = FindPid(m, pid)
  BY DEF i
<1> HIDE DEF b, S, q
<1>7. Queued(m, b, q)
  BY <1>5 DEF Queued
<1>8. Linked(b, {})
  BY <1>1, <1>4, <1>7, BlockLinked DEF Calling, Core
<1>9. Waits(b, {})
  <2>1. /\ b.lock_waiting[cur] = NULL /\ b.waiting_pcb[cur] = pid
        /\ \A p \in Slots : p # cur => b.lock_waiting[p] = m.lock_waiting[p] /\ b.waiting_pcb[p] = m.waiting_pcb[p]
    BY <1>1, <1>5 DEF Calling
  <2>2. \E j \in Slots : /\ q = WaitQ(j) /\ b.lock_waiting[cur] = NULL
                         /\ b.waiting_pcb[cur] \in 1..(m.next_pid - 1)
                         /\ FindPid(m, b.waiting_pcb[cur]) = j
    BY <1>1a, <1>4, <1>6, <2>1
  <2> QED BY <1>1, <1>4, <1>7, <2>1, <2>2, BlockWaits DEF Calling, Core
<1>10. \A r \in WaitQueues : r # q => b.waiting[r] = m.waiting[r]
  BY <1>1, <1>5
<1>11. Aside(m, b) /\ b.lock_waiting[cur] = NULL
  <2>1. \A r \in ObjectQueues : r \in WaitQueues /\ r # q
    BY <1>4, <1>6, DistinctQueues DEF ObjectQueues
  <2> QED BY <1>1, <1>5, <1>10, <2>1 DEF Aside, Calling
<1>12. NoneLost(b)
  <2>1. \A l \in Locks : LockQ(l) \in WaitQueues /\ LockQ(l) # q
    BY <1>4, <1>6, DistinctQueues, QueueNames
  <2> QED BY <1>1, <1>5, <1>10, <2>1 DEF NoneLost, Calling, Core
<1>13. Poised(b, User) /\ Calm(m, b) /\ Round(m, b)
  BY <1>5, <1>8, <1>9, <1>11, <1>12, AsidePoised
<1> QED BY <1>1, <1>2, <1>3, <1>13, ThenLeave, UserContext

-----------------------------------------------------------------------------
(***************************************************************************)
(* Mutexes.                                                                 *)
(***************************************************************************)

\* The running process is not asked what it waits for.
LEMMA WaitsAside ==
  ASSUME NEW m, NEW n, NEW i, Linked(m, {}), Waits(m, {}), m.status[i] = "RUNNING",
         n.status = m.status, n.waiting = m.waiting, n.pid = m.pid, n.next_pid = m.next_pid,
         n.waiting_pcb = m.waiting_pcb,
         \A p \in Slots : p # i => n.lock_waiting[p] = m.lock_waiting[p]
  PROVE  Waits(n, {})
<1>0. \A q \in WaitQueues : i \in Slots => i \notin Members(m.waiting[q])
  BY DEF Linked, OnWait
<1>1. LockWait(n, {})
  <2> SUFFICES ASSUME NEW l \in Locks, NEW p \in Slots
               PROVE  /\ p \in Members(n.waiting[LockQ(l)]) <=>
                            n.status[p] = "BLOCKED" /\ n.lock_waiting[p] = l /\ p \notin {}
                      /\ p \in Members(n.waiting[LockQ(l)]) => n.waiting_pcb[p] = -1
    BY DEF LockWait
  <2>1. CASE p = i
    BY <1>0, <2>1, QueueNames
  <2>2. CASE p # i
    BY <2>2 DEF Waits, LockWait
  <2> QED BY <2>1, <2>2
<1>2. PidWait(n)
  <2> SUFFICES ASSUME NEW j \in Slots, NEW p \in Slots, p \in Members(m.waiting[WaitQ(j)])
               PROVE  /\ n.lock_waiting[p] = NULL
                      /\ m.waiting_pcb[p] \in 1..(m.next_pid - 1)
                      /\ FindPid(n, m.waiting_pcb[p]) = j
    BY DEF PidWait
  <2>1. p # i
    BY <1>0, QueueNames
  <2> QED BY <2>1, FindSame DEF Waits, PidWait
<1>3. ObjectWait(n)
  <2> SUFFICES ASSUME NEW q \in ObjectQueues, NEW p \in Slots, p \in Members(m.waiting[q])
               PROVE  n.lock_waiting[p] = NULL /\ m.waiting_pcb[p] = -1
    BY DEF ObjectWait
  <2>1. p # i
    BY <1>0 DEF ObjectQueues
  <2> QED BY <2>1 DEF Waits, ObjectWait
<1>4. NotedOnly(n)
  BY DEF Waits, NotedOnly
<1>5. Found(n, {})
  <2> SUFFICES ASSUME NEW p \in Procs, m.status[p] = "BLOCKED", n.lock_waiting[p] = NULL, m.waiting_pcb[p] # -1,
                      ~Gone(n, m.waiting_pcb[p])
               PROVE  p \in Members(m.waiting[WaitQ(FindPid(n, m.waiting_pcb[p]))])
    BY DEF Found
  <2>1. p # i /\ p \in Slots
    BY SlotSets
  <2>2. FindPid(n, m.waiting_pcb[p]) = FindPid(m, m.waiting_pcb[p]) /\ ~Gone(m, m.waiting_pcb[p])
    BY FindSame DEF Gone
  <2> QED BY <2>1, <2>2 DEF Waits, Found
<1> QED BY <1>1, <1>2, <1>3, <1>4, <1>5 DEF Waits

\* mutex_lock_acquire: the mutex is taken, or the caller queues up and will
\* try again.
LEMMA AcquireFine ==
  ASSUME NEW m, Sound(m), m.current_running \in UserSlots, NEW l \in Locks,
         NEW n, n = do_mutex_lock_acquire(m, l)
  PROVE  Fine(m, n)
<1> DEFINE S == Spawned(m)
           cur == m.current_running
           q == LockQ(l)
           free == {j \in 1..MAX_MUTEX_OWN : m.lock_owned[cur][j] = NULL}
           wait == [do_block(m, q) EXCEPT !.lock_waiting[cur] = l]
           take == [m EXCEPT !.locked[l] = TRUE, !.owner[l] = m.pid[cur],
                             !.lock_waiting[cur] = NULL, !.context[cur] = User]
<1>1. /\ KernelMemory(m, S) /\ MemInv(m, S) /\ S \in SUBSET Procs /\ cur \in Slots /\ cur \in Procs /\ cur # 0
      /\ m.status \in [Slots -> Status] /\ m.waiting \in [WaitQueues -> Seq(S)]
      /\ m.lock_waiting \in [Slots -> Locks \cup {NULL}] /\ m.locked \in [Locks -> BOOLEAN]
      /\ m.context \in [Slots -> Contexts] /\ q \in WaitQueues
      /\ m.lock_owned \in [Slots -> [1..MAX_MUTEX_OWN -> Locks \cup {NULL}]]
      /\ Good(m) /\ m.fault = "none" /\ Linked(m, {}) /\ Waits(m, {})
  BY SlotSets, QueueNames DEF Sound, MemInv, Spawned, KernelMemory, Good, Core
<1>2. /\ m.status[cur] = "RUNNING" /\ m.waiting_pcb[cur] = -1
      /\ \A r \in WaitQueues : cur \notin Members(m.waiting[r])
  BY <1>1, Caller
<1>3. n = IF m.locked[l] THEN do_scheduler(wait, <<"acquire", l>>)
          ELSE IF free = {} THEN Stop(take, "hang")
          ELSE [take EXCEPT !.lock_owned[cur][Least(free)] = l]
  BY DEF do_mutex_lock_acquire
<1>4. CASE m.locked[l]
  <2>1. n = do_scheduler(wait, <<"acquire", l>>)
    BY <1>3, <1>4
  <2>2. MemInv(wait, S)
    BY <1>1, AcquireWaitType
  <2>3. /\ wait.status = [m.status EXCEPT ![cur] = "BLOCKED"] /\ wait.sleep = m.sleep
        /\ wait.waiting = [m.waiting EXCEPT ![q] = Append(m.waiting[q], cur)]
        /\ wait.priority = m.priority /\ wait.ready = m.ready /\ wait.fault = m.fault
        /\ wait.current_running = m.current_running /\ wait.pid = m.pid /\ wait.next_pid = m.next_pid
        /\ wait.waiting_pcb = m.waiting_pcb /\ wait.lock_waiting = [m.lock_waiting EXCEPT ![cur] = l]
        /\ wait.time_elapsed = m.time_elapsed /\ wait.alarm_time = m.alarm_time
        /\ wait.context = m.context /\ wait.locked = m.locked /\ wait.lock_owned = m.lock_owned
        /\ wait.num_waiting = m.num_waiting /\ wait.sem = m.sem
        /\ wait.num_now = m.num_now /\ wait.num_expected = m.num_expected
    BY <1>1 DEF KernelMemory, Fields, do_block
  <2>4. q = LockQ(l)
    OBVIOUS
  <2> HIDE DEF wait, S, q
  <2>5. Queued(m, wait, q)
    BY <2>3 DEF Queued
  <2>6. Linked(wait, {})
    BY <1>1, <1>2, <2>5, BlockLinked
  <2>7. /\ wait.lock_waiting[cur] = l /\ wait.waiting_pcb[cur] = -1
        /\ \A p \in Slots : p # cur => wait.lock_waiting[p] = m.lock_waiting[p] /\ wait.waiting_pcb[p] = m.waiting_pcb[p]
    BY <1>1, <1>2, <2>3
  <2>8. Waits(wait, {})
    BY <1>1, <1>2, <2>4, <2>5, <2>7, BlockWaits
  <2>9. \A r \in WaitQueues : r # q => wait.waiting[r] = m.waiting[r]
    BY <1>1, <2>3
  <2>10. Aside(m, wait)
    <3>1. \A r \in ObjectQueues : r \in WaitQueues /\ r # q
      BY <2>4, DistinctQueues DEF ObjectQueues
    <3> QED BY <1>1, <2>3, <2>7, <2>9, <3>1 DEF Aside
  <2>11. NoneLost(wait)
    <3>1. \A h \in Locks : h # l => LockQ(h) \in WaitQueues /\ LockQ(h) # q
      BY <2>4, DistinctQueues, QueueNames
    <3> QED BY <1>1, <1>4, <2>3, <2>9, <3>1 DEF NoneLost, Good, Core
  <2>12. Poised(wait, <<"acquire", l>>) /\ Calm(m, wait) /\ Round(m, wait)
    <3>1. wait.lock_waiting[wait.current_running] = l
      BY <2>3, <2>7
    <3> QED BY <2>6, <2>8, <2>10, <2>11, <3>1, AsidePoised
  <2>13. <<"acquire", l>> \in Contexts /\ wait.current_running \in UserSlots
    BY <2>3, UserContext
  <2> QED BY <1>1, <2>1, <2>2, <2>12, <2>13, ThenLeave
<1>5. ASSUME ~m.locked[l] PROVE
      /\ take.pid = m.pid /\ take.next_pid = m.next_pid /\ take.current_running = m.current_running
      /\ take.status = m.status /\ take.priority = m.priority /\ take.context = Left(m, User)
      /\ take.ready = m.ready /\ take.sleep = m.sleep /\ take.waiting = m.waiting
      /\ take.waiting_pcb = m.waiting_pcb /\ take.lock_waiting = [m.lock_waiting EXCEPT ![cur] = NULL]
      /\ take.lock_owned = m.lock_owned /\ take.locked = [m.locked EXCEPT ![l] = TRUE]
      /\ take.time_elapsed = m.time_elapsed /\ take.alarm_time = m.alarm_time /\ take.fault = m.fault
      /\ take.num_waiting = m.num_waiting /\ take.sem = m.sem
      /\ take.num_now = m.num_now /\ take.num_expected = m.num_expected /\ DOMAIN take = Fields
  BY <1>1 DEF KernelMemory, Fields, Left
<1> HIDE DEF take
<1>6. CASE ~m.locked[l] /\ free = {}
  <2>1. n = Stop(take, "hang")
    BY <1>3, <1>6
  <2>2. /\ n.pid = m.pid /\ n.next_pid = m.next_pid /\ n.current_running = m.current_running
        /\ n.status = m.status /\ n.waiting = m.waiting /\ n.time_elapsed = m.time_elapsed
        /\ n.alarm_time = m.alarm_time /\ n.fault = "hang"
    BY <1>5, <1>6, <2>1 DEF Stop, Fields
  <2>3. Calm(m, n) /\ Round(m, n)
    BY <2>2 DEF Calm, Round, Awaits
  <2> QED BY <2>2, <2>3, StopsFine
<1>7. CASE ~m.locked[l] /\ free # {}
  <2> DEFINE f == Least(free)
  <2>1. n = [take EXCEPT !.lock_owned[cur][f] = l]
    BY <1>3, <1>7
  <2> HIDE DEF f, free
  <2>2. /\ n.pid = m.pid /\ n.next_pid = m.next_pid /\ n.current_running = m.current_running
        /\ n.status = m.status /\ n.priority = m.priority /\ n.context = Left(m, User)
        /\ n.ready = m.ready /\ n.sleep = m.sleep /\ n.waiting = m.waiting
        /\ n.waiting_pcb = m.waiting_pcb /\ n.lock_waiting = [m.lock_waiting EXCEPT ![cur] = NULL]
        /\ n.locked = [m.locked EXCEPT ![l] = TRUE]
        /\ n.lock_owned = [m.lock_owned EXCEPT ![cur][f] = l]
        /\ n.time_elapsed = m.time_elapsed /\ n.alarm_time = m.alarm_time /\ n.fault = m.fault
        /\ n.num_waiting = m.num_waiting /\ n.sem = m.sem
        /\ n.num_now = m.num_now /\ n.num_expected = m.num_expected
    BY <1>5, <1>7, <2>1 DEF Fields
  <2>3. /\ \A p \in Slots : p # cur => /\ n.lock_waiting[p] = m.lock_waiting[p] /\ n.context[p] = m.context[p]
                                       /\ n.lock_owned[p] = m.lock_owned[p]
        /\ n.lock_waiting[cur] = NULL
    BY <1>1, <2>2 DEF Left
  <2>4. Linked(n, {})
    BY <1>1, <2>2, LinkedSame
  <2>5. Waits(n, {})
    <3>1. /\ n.status = m.status /\ n.waiting = m.waiting /\ n.pid = m.pid /\ n.next_pid = m.next_pid
          /\ n.waiting_pcb = m.waiting_pcb
      BY <2>2
    <3>2. \A p \in Slots : p # cur => n.lock_waiting[p] = m.lock_waiting[p]
      BY <2>3
    <3>3. Linked(m, {}) /\ Waits(m, {}) /\ m.status[cur] = "RUNNING"
      BY <1>1, <1>2
    <3> QED BY <3>1, <3>2, <3>3, WaitsAside
  <2>6. Shell1(n)
    BY <1>1, <2>2 DEF Good, Core, Shell1
  <2>7. Loops(n, n.context)
    BY <1>1, <2>2, <2>3, SlotSets DEF Good, Core, Loops
  <2>8. NoneLost(n)
    BY <1>1, <2>2 DEF Good, Core, NoneLost
  <2>9. GaveUpLock(n, n.context)
    <3> SUFFICES ASSUME NEW x \in Conds, NEW p \in Slots, p \in Members(m.waiting[CondQ(x)])
                 PROVE  \E h \in Locks : /\ n.context[p] = <<"acquire", h>>
                                         /\ \A j \in 1..MAX_MUTEX_OWN : n.lock_owned[p][j] # h
      BY <2>2 DEF GaveUpLock
    <3>1. p # cur
      BY <1>2, QueueNames
    <3> QED BY <1>1, <2>3, <3>1 DEF Good, Core, GaveUpLock
  <2>10. Counts(n)
    BY <1>1, <2>2 DEF Good, Counts, CondCount, SemCount, BarrierCount
  <2>11. Calm(m, n) /\ Round(m, n)
    BY <2>2 DEF Calm, Round, Awaits
  <2>12. Core(n, n.context)
    BY <2>4, <2>5, <2>6, <2>7, <2>8, <2>9 DEF Core
  <2>13. n.fault = "none" /\ n.status[n.current_running] = m.status[m.current_running] /\ Rest(m)
    BY <1>1, <2>2 DEF Good
  <2> QED BY <2>10, <2>11, <2>12, <2>13, GoesOn
<1> QED BY <1>4, <1>6, <1>7

\* What the release of mutexes leaves true.
LEMMA FreedSync ==
  ASSUME NEW m, NEW n, Freed(m, n)
  PROVE  /\ Calm(m, n) /\ Round(m, n)
         /\ NoneLost(m) => NoneLost(n)
         /\ Counts(m) => Counts(n)
         /\ Shell1(m) => Shell1(n)
         /\ \A c : Loops(m, c) => Loops(n, c)
         /\ \A c : GaveUpLock(m, c) => GaveUpLock(n, c)
         /\ \A p \in Slots : m.status[p] # "BLOCKED" => n.status[p] = m.status[p]
         /\ \A q \in ObjectQueues : n.waiting[q] = m.waiting[q]
<1>1. \A q \in ObjectQueues : n.waiting[q] = m.waiting[q]
  <2>1. \A q \in ObjectQueues : q \in WaitQueues /\ \A l \in Locks : q # LockQ(l)
    BY DistinctQueues DEF ObjectQueues
  <2> QED BY <2>1 DEF Freed
<1>2. \A p \in Slots : m.status[p] # "BLOCKED" => n.status[p] = m.status[p]
  BY DEF Freed
<1>3. Calm(m, n)
  BY DEF Calm, Freed, Awaits
<1>4. Round(m, n)
  BY <1>1, DistinctQueues DEF Round
<1>5. NoneLost(m) => NoneLost(n)
  BY DEF Freed, NoneLost
<1>6. Counts(m) => Counts(n)
  BY <1>1, DistinctQueues DEF Freed, Counts, CondCount, SemCount, BarrierCount
<1>7. Shell1(m) => Shell1(n)
  BY <1>2, SlotSets DEF Shell1, Freed
<1>8. \A c : Loops(m, c) => Loops(n, c)
  BY SlotSets DEF Loops, Freed
<1>9. ASSUME NEW c, GaveUpLock(m, c) PROVE GaveUpLock(n, c)
  <2> SUFFICES ASSUME NEW x \in Conds, NEW p \in Slots, p \in Members(n.waiting[CondQ(x)])
               PROVE  \E l \in Locks : /\ c[p] = <<"acquire", l>>
                                       /\ \A j \in 1..MAX_MUTEX_OWN : n.lock_owned[p][j] # l
    BY DEF GaveUpLock
  <2>1. p \in Members(m.waiting[CondQ(x)])
    BY <1>1, DistinctQueues
  <2>2. PICK l \in Locks : /\ c[p] = <<"acquire", l>>
                           /\ \A j \in 1..MAX_MUTEX_OWN : m.lock_owned[p][j] # l
    BY <1>9, <2>1 DEF GaveUpLock
  <2>3. \A j \in 1..MAX_MUTEX_OWN : n.lock_owned[p][j] # l
    BY <2>2, NullAssumption DEF Freed, Fewer
  <2> QED BY <2>2, <2>3
<1> QED BY <1>1, <1>2, <1>3, <1>4, <1>5, <1>6, <1>7, <1>8, <1>9

\* mutex_lock_release.
LEMMA ReleaseFine ==
  ASSUME NEW m, Sound(m), m.current_running \in UserSlots, NEW l \in Locks,
         NEW n, n = do_mutex_lock_release(m, l)
  PROVE  Fine(m, n)
<1>1. Spawned(m) \in SUBSET Procs /\ MemInv(m, Spawned(m)) /\ LockInv(m, {}) /\ Linked(m, {}) /\ Waits(m, {})
      /\ Good(m) /\ m.fault = "none"
  BY DEF Spawned, Sound, Good, Core
<1>2. Linked(n, {}) /\ Waits(n, {}) /\ Freed(m, n)
  BY <1>1, ReleaseLinked
<1>3. /\ Calm(m, n) /\ Round(m, n)
      /\ NoneLost(m) => NoneLost(n)
      /\ Counts(m) => Counts(n)
      /\ Shell1(m) => Shell1(n)
      /\ \A c : Loops(m, c) => Loops(n, c)
      /\ \A c : GaveUpLock(m, c) => GaveUpLock(n, c)
      /\ \A p \in Slots : m.status[p] # "BLOCKED" => n.status[p] = m.status[p]
  BY <1>2, FreedSync
<1>4. n.context = m.context /\ n.current_running = m.current_running /\ n.fault = m.fault
  BY <1>2 DEF Freed
<1>5. Core(n, n.context) /\ Counts(n) /\ Rest(m)
  BY <1>1, <1>2, <1>3, <1>4 DEF Good, Core
<1>6. n.status[n.current_running] = m.status[m.current_running]
  <2>1. m.current_running \in Slots /\ m.status[m.current_running] = "RUNNING"
    BY Caller, SlotSets
  <2> QED BY <1>3, <1>4, <2>1
<1> QED BY <1>1, <1>3, <1>4, <1>5, <1>6, GoesOn

\* mutex_lock_init of a mutex nobody holds or waits for.
LEMMA LockInitFine ==
  ASSUME NEW m, Sound(m), m.context[m.current_running] = User, m.current_running \in UserSlots,
         NEW l \in Locks, ~m.locked[l], m.waiting[LockQ(l)] = <<>>, NEW n, n = do_mutex_lock_init(m, l)
  PROVE  Fine(m, n)
<1>1. KernelMemory(m, Spawned(m)) /\ m.waiting \in [WaitQueues -> Seq(Spawned(m))] /\ m.locked \in [Locks -> BOOLEAN]
      /\ Good(m) /\ m.fault = "none" /\ LockQ(l) \in WaitQueues
  BY QueueNames DEF Sound, MemInv, KernelMemory
<1>2. n.waiting = [m.waiting EXCEPT ![LockQ(l)] = <<>>] /\ n.locked = [m.locked EXCEPT ![l] = FALSE]
      /\ n.sem = m.sem /\ n.num_now = m.num_now /\ n.num_expected = m.num_expected /\ n.num_waiting = m.num_waiting
  BY <1>1 DEF do_mutex_lock_init, KernelMemory, Fields
<1>3. n.waiting = m.waiting
  <2>1. LockQ(l) \in WaitQueues /\ m.waiting \in [WaitQueues -> Seq(Spawned(m))]
    BY <1>1
  <2>2. n.waiting = [m.waiting EXCEPT ![LockQ(l)] = <<>>]
    BY <1>2
  <2> QED BY <2>1, <2>2
<1>3a. n.locked = m.locked
  <2>1. m.locked \in [Locks -> BOOLEAN] /\ m.locked[l] = FALSE
    BY <1>1
  <2>2. n.locked = [m.locked EXCEPT ![l] = FALSE]
    BY <1>2
  <2> QED BY <2>1, <2>2
<1>4. Same(m, n)
  BY <1>1, <1>3, <1>3a DEF Same, do_mutex_lock_init, KernelMemory, Fields
<1>5. Counts(n)
  BY <1>1, <1>2, <1>3 DEF Good, Counts, CondCount, SemCount, BarrierCount
<1>6. Core(n, n.context)
  BY <1>4, CallerLeft
<1>7. Calm(m, n) /\ Round(m, n) /\ n.fault = "none" /\ n.status[n.current_running] = m.status[m.current_running]
  BY <1>1, <1>4, SameCalm DEF Same
<1> QED BY <1>1, <1>5, <1>6, <1>7, GoesOn DEF Good

\* The caller queues up on the condition before it gives up the mutex; when it
\* leaves the CPU the mutex is not in its table.
LEMMA CondWaitFine ==
  ASSUME NEW m, Sound(m), m.context[m.current_running] = User, m.current_running \in UserSlots,
         NEW l \in Locks, NEW c \in Conds, NEW n, n = do_condition_wait(m, l, c)
  PROVE  Fine(m, n)
<1> DEFINE d == [m EXCEPT !.num_waiting[c] = @ + 1]
           q == CondQ(c)
           e == do_block(d, q)
           f == do_mutex_lock_release(e, l)
           S == Spawned(m)
           cur == m.current_running
           after == <<"acquire", l>>
<1>1. /\ KernelMemory(m, S) /\ m.waiting \in [WaitQueues -> Seq(S)] /\ m.num_waiting \in [Conds -> Int]
      /\ m.context \in [Slots -> Contexts]
      /\ Good(m) /\ m.fault = "none" /\ q \in WaitQueues /\ q \in ObjectQueues /\ S \in SUBSET Procs
      /\ MemInv(m, S) /\ LockInv(m, {}) /\ after \in Contexts /\ m.num_waiting[c] \in Int
      /\ cur \in Slots /\ cur # 0 /\ m.status[cur] = "RUNNING"
  BY QueueNames, DistinctQueues, UserContext, SlotSets, Caller DEF Sound, MemInv, KernelMemory, Spawned
<1>2. n = do_scheduler(f, after) /\ e = do_block(d, q) /\ f = do_mutex_lock_release(e, l) /\ q = CondQ(c)
      /\ after = <<"acquire", l>>
  BY DEF do_condition_wait
<1>3. d.num_waiting = [m.num_waiting EXCEPT ![c] = m.num_waiting[c] + 1] /\ d.sem = m.sem
      /\ d.num_now = m.num_now /\ d.num_expected = m.num_expected
  BY <1>1 DEF KernelMemory, Fields
<1>4. Same(m, d)
  BY <1>1, CounterSame
<1>5. MemInv(d, S)
  <2>1. m.num_waiting[c] + 1 \in Int
    BY <1>1
  <2> QED BY <1>1, <2>1, CounterType
<1>6. Calling(d) /\ d.waiting = m.waiting /\ d.current_running = cur
  BY <1>4, CallerCalls, SameCalling DEF Same
<1>7. Keeps(m, d)
  BY <1>1, CounterKeeps
<1> HIDE DEF d, q, e, f, S, after
<1>8. Frame(d, e) /\ Queued(d, e, q) /\ Linked(e, {}) /\ Waits(e, {}) /\ Shell1(e) /\ NoneLost(e) /\ Calm(d, e)
  BY ONLY <1>1, <1>2, <1>5, <1>6, BlockObject
<1>9. Loops(e, Left(e, after)) /\ e.status[e.current_running] = "BLOCKED" /\ e.fault = d.fault
  <2>1. \A x : Loops(e, Left(e, x))
    BY ONLY <1>1, <1>2, <1>5, <1>6, BlockObject
  <2>2. q \in ObjectQueues /\ S \in SUBSET Procs /\ e = do_block(d, q)
    BY ONLY <1>1, <1>2
  <2>3. e.status[e.current_running] = "BLOCKED" /\ e.fault = d.fault
    BY ONLY <1>5, <1>6, <2>2, BlockObject
  <2> QED BY ONLY <2>1, <2>3
<1>10. MemInv(e, S) /\ LockInv(e, {})
  <2>1. MemInv(e, S)
    BY <1>1, <1>2, <1>5, <1>6, BlockType
  <2>2. Keeps(d, e)
    BY <1>1, <1>2, <1>5, BlockKeeps DEF MemInv
  <2>3. LockInv(e, {})
    BY <1>1, <1>7, <2>2, KeepsInv
  <2> QED BY <2>1, <2>3
<1>11. Linked(f, {}) /\ Waits(f, {}) /\ Freed(e, f) /\ InNoTable(f, l)
  BY <1>1, <1>2, <1>8, <1>10, ReleaseLinked
<1>12. MemInv(f, S)
  BY <1>1, <1>2, <1>10, ReleaseType
<1>13. /\ Calm(e, f) /\ Round(e, f)
       /\ NoneLost(e) => NoneLost(f)
       /\ Shell1(e) => Shell1(f)
       /\ \A x : Loops(e, x) => Loops(f, x)
       /\ \A r \in ObjectQueues : f.waiting[r] = e.waiting[r]
  BY <1>11, FreedSync
<1>14. /\ f.context = m.context /\ f.current_running = cur /\ e.current_running = cur /\ e.context = m.context
       /\ f.fault = "none" /\ f.num_waiting = d.num_waiting /\ f.sem = m.sem
       /\ f.num_now = m.num_now /\ f.num_expected = m.num_expected
       /\ f.pid = m.pid /\ f.next_pid = m.next_pid /\ f.time_elapsed = m.time_elapsed /\ f.alarm_time = m.alarm_time
       /\ e.lock_waiting = m.lock_waiting /\ e.lock_owned = m.lock_owned
       /\ Left(f, after) = Left(e, after)
  <2>1. /\ d.context = m.context /\ d.pid = m.pid /\ d.next_pid = m.next_pid /\ d.time_elapsed = m.time_elapsed
        /\ d.alarm_time = m.alarm_time /\ d.fault = m.fault /\ d.lock_waiting = m.lock_waiting
        /\ d.lock_owned = m.lock_owned
    BY <1>4 DEF Same
  <2>2. /\ f.context = m.context /\ f.current_running = cur /\ e.current_running = cur /\ e.context = m.context
        /\ f.fault = "none" /\ f.num_waiting = d.num_waiting /\ f.sem = m.sem
        /\ f.num_now = m.num_now /\ f.num_expected = m.num_expected
        /\ f.pid = m.pid /\ f.next_pid = m.next_pid /\ f.time_elapsed = m.time_elapsed /\ f.alarm_time = m.alarm_time
        /\ e.lock_waiting = m.lock_waiting /\ e.lock_owned = m.lock_owned
    BY <1>1, <1>3, <1>6, <1>8, <1>9, <1>11, <2>1 DEF Freed, Frame, Queued
  <2> QED BY <2>2 DEF Left
<1>15. /\ \A r \in ObjectQueues : r # q => f.waiting[r] = m.waiting[r]
       /\ Len(f.waiting[q]) = Len(m.waiting[q]) + 1
       /\ Members(f.waiting[q]) = Members(m.waiting[q]) \cup {cur}
  <2>1. e.waiting = [m.waiting EXCEPT ![q] = Append(m.waiting[q], cur)]
    BY <1>6, <1>8 DEF Queued
  <2>2. /\ Len(Append(m.waiting[q], cur)) = Len(m.waiting[q]) + 1
        /\ Members(Append(m.waiting[q], cur)) = Members(m.waiting[q]) \cup {cur}
    BY <1>1, AppendQueue
  <2>3. e.waiting[q] = Append(m.waiting[q], cur) /\ \A r \in WaitQueues : r # q => e.waiting[r] = m.waiting[r]
    BY <1>1, <2>1
  <2>4. f.waiting[q] = Append(m.waiting[q], cur)
    BY <1>1, <1>13, <2>3
  <2>5. \A r \in ObjectQueues : r # q => f.waiting[r] = m.waiting[r]
    BY <1>13, <2>3 DEF ObjectQueues
  <2> QED BY <2>2, <2>4, <2>5
<1>16. Counts(f)
  <2>1. CondCount(f)
    <3> SUFFICES ASSUME NEW x \in Conds PROVE f.num_waiting[x] = Len(f.waiting[CondQ(x)])
      BY DEF CondCount
    <3>1. m.num_waiting[x] = Len(m.waiting[CondQ(x)])
      BY <1>1 DEF Good, Counts, CondCount
    <3>2. CASE x = c
      BY <1>1, <1>2, <1>3, <1>14, <1>15, <3>1, <3>2
    <3>3. CASE x # c
      <4>1. f.waiting[CondQ(x)] = m.waiting[CondQ(x)]
        BY <1>2, <1>15, <3>3, ObjectNames, DistinctQueues
      <4> QED BY <1>1, <1>3, <1>14, <3>1, <3>3, <4>1
    <3> QED BY <3>2, <3>3
  <2>2. /\ \A s \in Sems : f.waiting[SemQ(s)] = m.waiting[SemQ(s)]
        /\ \A b \in Barriers : f.waiting[BarrierQ(b)] = m.waiting[BarrierQ(b)]
    BY <1>2, <1>15, ObjectNames, DistinctQueues
  <2>3. SemCount(f) /\ BarrierCount(f)
    BY <1>1, <1>14, <2>2 DEF Good, Counts, SemCount, BarrierCount
  <2> QED BY <2>1, <2>3 DEF Counts
<1>17. GaveUpLock(f, Left(f, after))
  <2> SUFFICES ASSUME NEW x \in Conds, NEW p \in Slots, p \in Members(f.waiting[CondQ(x)])
               PROVE  \E h \in Locks : /\ Left(f, after)[p] = <<"acquire", h>>
                                       /\ \A j \in 1..MAX_MUTEX_OWN : f.lock_owned[p][j] # h
    BY DEF GaveUpLock
  <2>0. Left(f, after)[cur] = after /\ (p # cur => Left(f, after)[p] = m.context[p])
    BY <1>1, <1>14 DEF Left
  <2>1. CASE p = cur
    <3>1. \A j \in 1..MAX_MUTEX_OWN : f.lock_owned[p][j] # l
      BY <1>11 DEF InNoTable
    <3> QED BY <1>2, <2>0, <2>1, <3>1
  <2>2. CASE p # cur
    <3>1. p \in Members(m.waiting[CondQ(x)])
      BY <1>2, <1>15, <2>2, ObjectNames, DistinctQueues
    <3>2. PICK h \in Locks : /\ m.context[p] = <<"acquire", h>>
                             /\ \A j \in 1..MAX_MUTEX_OWN : m.lock_owned[p][j] # h
      BY <1>1, <3>1 DEF Good, Core, GaveUpLock
    <3>3. \A j \in 1..MAX_MUTEX_OWN : f.lock_owned[p][j] # h
      BY <1>11, <1>14, <3>2, NullAssumption DEF Freed, Fewer
    <3> QED BY <2>0, <2>2, <3>2, <3>3
  <2> QED BY <2>1, <2>2
<1>18. f.status[cur] # "READY"
  <2>1. e.lock_waiting[cur] = NULL
    BY <1>4, <1>6, <1>14 DEF Calling, Same
  <2> QED BY <1>1, <1>9, <1>11, <1>14, <2>1 DEF Freed
<1>19. Poised(f, after)
  <2>1. Loops(f, Left(f, after))
    BY <1>9, <1>13, <1>14
  <2> QED BY <1>8, <1>11, <1>13, <1>14, <1>16, <1>17, <1>18, <2>1 DEF Poised, Core
<1>20. Calm(m, f)
  <2>1. Calm(m, e)
    BY <1>4, <1>8, SameCalm
  <2>2. ASSUME NEW p \in Slots
        PROVE  /\ f.status[p] = "NOT_EXIST" <=> m.status[p] = "NOT_EXIST"
               /\ Awaits(m, p) => f.status[p] = "BLOCKED"
               /\ m.status[p] = "SLEEPING" => f.status[p] = "SLEEPING" /\ f.alarm_time[p] = m.alarm_time[p]
    BY <1>11, <1>14, <2>1 DEF Calm, Freed, Awaits
  <2> QED BY <1>14, <2>2 DEF Calm
<1>21. Round(m, f)
  <2>1. \A b \in Barriers : f.waiting[BarrierQ(b)] = m.waiting[BarrierQ(b)]
    BY <1>2, <1>15, ObjectNames, DistinctQueues
  <2> QED BY <2>1 DEF Round
<1> QED BY <1>1, <1>2, <1>12, <1>14, <1>19, <1>20, <1>21, ThenLeave

-----------------------------------------------------------------------------
(***************************************************************************)
(* The birth of a process.                                                  *)
(***************************************************************************)

\* A slot that was given up is set up, and the CPU is left.
LEMMA SpawnFine ==
  ASSUME NEW m, Sound(m), m.context[m.current_running] = User, m.current_running # 0,
         NEW n, n = do_spawn(m)
  PROVE  Fine(m, n)
<1> DEFINE free == {p \in UserSlots : m.status[p] = "NOT_EXIST"}
           i == Least(free)
           S == Spawned(m)
           T == S \cup {i}
           cur == m.current_running
           b == NewProcess(m, i)
<1>1. /\ KernelMemory(m, S) /\ MemInv(m, S) /\ S \in SUBSET Procs /\ Good(m) /\ m.fault = "none" /\ Pids(m)
      /\ m.lock_waiting[cur] = NULL /\ m.status[cur] = "RUNNING" /\ cur \in Slots /\ cur \in Procs
      /\ m.status \in [Slots -> Status] /\ m.waiting \in [WaitQueues -> Seq(S)]
      /\ m.pid \in [Slots -> Nat] /\ m.next_pid \in Nat
      /\ m.lock_waiting \in [Slots -> Locks \cup {NULL}] /\ m.context \in [Slots -> Contexts]
      /\ m.lock_owned \in [Slots -> [1..MAX_MUTEX_OWN -> Locks \cup {NULL}]]
      /\ Linked(m, {}) /\ Waits(m, {}) /\ DOMAIN m = Fields
  <2>1. /\ m.lock_waiting[cur] = NULL /\ m.status[cur] = "RUNNING" /\ cur \in Slots /\ cur \in Procs
    BY Caller
  <2> QED BY <2>1 DEF Sound, MemInv, Spawned, KernelMemory, Good, Core, LockInv
<1>2. CASE free = {}
  <2>1. n = Stop(m, "hang")
    BY <1>2 DEF do_spawn
  <2>2. Frame(m, n) /\ Marks(m, n) /\ n.fault = "hang" /\ n.current_running = m.current_running
    BY <1>1, <2>1, StopFrame
  <2>3. n.status = m.status
    BY <1>1, <2>1 DEF Stop, Fields
  <2>4. Calm(m, n) /\ Round(m, n)
    BY <2>2, <2>3 DEF Calm, Round, Frame, Marks, Awaits
  <2> QED BY <2>2, <2>4, StopsFine
<1>3. CASE free # {}
  <2>1. n = do_scheduler(b, User)
    BY <1>3 DEF do_spawn
  <2>2. i \in UserSlots /\ i \in Procs /\ i \in Slots /\ m.status[i] = "NOT_EXIST" /\ i # 1 /\ i # cur /\ i # 0
    <3>1. i \in UserSlots /\ i \in Procs /\ i \in Slots /\ m.status[i] = "NOT_EXIST"
      BY <1>3, FreeSlot
    <3> HIDE DEF i
    <3> QED BY <1>1, <3>1, SlotSets
  <2> HIDE DEF free, i
  <2>3. MemInv(b, T) /\ T \in SUBSET Procs /\ KernelMemory(b, T)
    <3>1. MemInv(b, T)
      BY <1>1, <2>2, NewProcessType, SMTT(40)
    <3> QED BY <1>1, <2>2, <3>1 DEF MemInv
  <2> HIDE DEF S
  <2>4. /\ b.status = [m.status EXCEPT ![i] = "READY"] /\ b.priority = [m.priority EXCEPT ![i] = 1]
        /\ b.ready = [m.ready EXCEPT ![1] = Append(m.ready[1], i)]
        /\ b.waiting = [m.waiting EXCEPT ![WaitQ(i)] = <<>>]
        /\ b.sleep = m.sleep /\ b.current_running = m.current_running
        /\ b.pid = [m.pid EXCEPT ![i] = m.next_pid] /\ b.next_pid = m.next_pid + 1
        /\ b.lock_waiting = [m.lock_waiting EXCEPT ![i] = NULL]
        /\ b.waiting_pcb = [m.waiting_pcb EXCEPT ![i] = -1]
        /\ b.context = [m.context EXCEPT ![i] = User]
        /\ b.lock_owned = [m.lock_owned EXCEPT ![i] = [j \in 1..MAX_MUTEX_OWN |-> NULL]]
        /\ b.locked = m.locked /\ b.num_waiting = m.num_waiting /\ b.sem = m.sem
        /\ b.num_now = m.num_now /\ b.num_expected = m.num_expected
        /\ b.time_elapsed = m.time_elapsed /\ b.alarm_time = m.alarm_time /\ b.fault = m.fault
    BY <1>1, ZenonT(60) DEF NewProcess, Fields
  <2> HIDE DEF b, T
  <2>5. Renewed(m, b, i)
    BY <2>4 DEF Renewed
  <2>6. Linked(b, {}) /\ Waits(b, {})
    BY <1>1, <2>2, <2>3, <2>5, NewLinked
  <2>7. /\ \A p \in Slots : p # i => /\ b.status[p] = m.status[p] /\ b.pid[p] = m.pid[p]
                                     /\ b.lock_waiting[p] = m.lock_waiting[p]
                                     /\ b.context[p] = m.context[p] /\ b.lock_owned[p] = m.lock_owned[p]
        /\ b.pid[i] = m.next_pid /\ b.lock_waiting[i] = NULL /\ b.status[i] = "READY"
        /\ \A q \in WaitQueues : q # WaitQ(i) => b.waiting[q] = m.waiting[q]
    <3>1. \A q \in WaitQueues : q # WaitQ(i) => b.waiting[q] = m.waiting[q]
      BY <1>1, <2>4
    <3> QED BY <1>1, <2>2, <2>4, <3>1
  <2>8. /\ \A q \in ObjectQueues : b.waiting[q] = m.waiting[q]
        /\ \A l \in Locks : b.waiting[LockQ(l)] = m.waiting[LockQ(l)]
    BY <2>2, <2>7, DistinctQueues, QueueNames DEF ObjectQueues
  <2>9. \A q \in ObjectQueues : i \notin Members(m.waiting[q])
    BY <1>1, <2>2 DEF Linked, OnWait, ObjectQueues
  <2>10. /\ Left(b, User)[cur] = User
         /\ \A p \in Slots : p # cur /\ p # i => Left(b, User)[p] = m.context[p]
    BY <1>1, <2>4 DEF Left
  <2>11. Shell1(b)
    <3>1. Shell1(m) /\ 1 \in Slots
      BY <1>1, SlotSets DEF Good, Core
    <3>2. \A p \in UserSlots : b.pid[p] # 1
      BY <1>1, <2>2, <2>7, <3>1, SlotSets DEF Shell1
    <3> QED BY <1>1, <2>2, <2>4, <2>7, <3>1, <3>2 DEF Shell1
  <2>12. Loops(b, Left(b, User))
    BY <1>1, <2>7, <2>10, SlotSets DEF Good, Core, Loops
  <2>13. NoneLost(b)
    BY <1>1, <2>4, <2>8 DEF Good, Core, NoneLost
  <2>14. GaveUpLock(b, Left(b, User))
    <3> SUFFICES ASSUME NEW x \in Conds, NEW p \in Slots, p \in Members(b.waiting[CondQ(x)])
                 PROVE  \E h \in Locks : /\ Left(b, User)[p] = <<"acquire", h>>
                                         /\ \A j \in 1..MAX_MUTEX_OWN : b.lock_owned[p][j] # h
      BY DEF GaveUpLock
    <3>1. p \in Members(m.waiting[CondQ(x)]) /\ p # i
      BY <2>8, <2>9, DistinctQueues
    <3>2. p # cur
      BY <3>1, Caller, QueueNames
    <3> QED BY <1>1, <2>7, <2>10, <3>1, <3>2 DEF Good, Core, GaveUpLock
  <2>15. Counts(b)
    BY <1>1, <2>4, <2>8, DistinctQueues DEF Good, Counts, CondCount, SemCount, BarrierCount
  <2>16. b.fault = "none" /\ b.current_running = cur /\ b.status[cur] = "RUNNING"
    BY <1>1, <2>2, <2>4, <2>7
  <2>17. Poised(b, User)
    BY <2>6, <2>11, <2>12, <2>13, <2>14, <2>15, <2>16 DEF Poised, Core
  <2>18. Moved(b, n, User) /\ (n.fault = "none" => Good(n))
    BY <2>1, <2>3, <2>17, LeaveCPU, UserContext
  <2>19. /\ n.pid = b.pid /\ n.waiting = b.waiting /\ Marks(b, n) /\ Switched(b, n)
         /\ \A p \in Slots : n.status[p] = "NOT_EXIST" <=> b.status[p] = "NOT_EXIST"
    BY <2>18 DEF Moved, Marks
  <2>20. DeadStay(m, n)
    BY <2>2, <2>7, <2>19, SlotSets DEF DeadStay
  <2>21. WaitEnds(m, n)
    <3> SUFFICES ASSUME NEW p \in UserSlots, Awaits(m, p)
                 PROVE  n.status[p] = "BLOCKED" /\ (Gone(n, m.waiting_pcb[p]) => Gone(m, m.waiting_pcb[p]))
      BY DEF WaitEnds
    <3>1. p \in Slots /\ p # i
      BY <2>2, SlotSets DEF Awaits
    <3>2. n.status[p] = "BLOCKED"
      BY <2>7, <2>19, <3>1 DEF Marks, Awaits
    <3>3. ASSUME Gone(n, m.waiting_pcb[p]), NEW j \in UserSlots, m.pid[j] = m.waiting_pcb[p]
          PROVE  m.status[j] = "NOT_EXIST"
      <4>1. CASE j = i
        BY <2>2, <4>1
      <4>2. CASE j # i
        BY <2>7, <2>19, <3>3, <4>2, SlotSets DEF Gone
      <4> QED BY <4>1, <4>2
    <3> QED BY <3>2, <3>3 DEF Gone
  <2>22. SleepEnds(m, n)
    <3> SUFFICES ASSUME NEW p \in UserSlots, m.status[p] = "SLEEPING", n.fault = "none"
                 PROVE  /\ n.status[p] \in {"READY", "RUNNING"} => Due(m, p)
                        /\ Due(m, p) => n.status[p] # "SLEEPING"
      BY DEF SleepEnds
    <3>1. p \in Slots /\ p # i
      BY <2>2, SlotSets
    <3>2. b.status[p] = "SLEEPING" /\ b.alarm_time[p] = m.alarm_time[p] /\ b.time_elapsed = m.time_elapsed
      BY <2>4, <2>7, <3>1
    <3>3. Due(b, p) <=> Due(m, p)
      BY <3>2, DueSame
    <3> QED BY <2>19, <3>1, <3>2, <3>3 DEF Marks, Switched
  <2>23. Round(m, n) /\ n.fault # "null"
    BY <2>8, <2>19, DistinctQueues DEF Round, Switched
  <2> QED BY <2>18, <2>20, <2>21, <2>22, <2>23 DEF Fine, Effects
<1> QED BY <1>2, <1>3

-----------------------------------------------------------------------------
(***************************************************************************)
(* The death of a process.                                                  *)
(***************************************************************************)

\* The search of do_kill fails only on an item in the middle of a queue.
LEMMA SearchFaults ==
  ASSUME NEW m, NEW q, NEW pid
  PROVE  SearchRemove(m, q, pid).fault \in {"none", "interior"}
BY DEF SearchRemove

\* What do_kill does before the process is given up: a queue that is not the
\* queue of a condition, a semaphore or a barrier may become shorter.
LEMMA UnlinkFrame ==
  ASSUME NEW S \in SUBSET Procs, NEW m, MemInv(m, S), m.fault = "none", NEW i \in Slots, NEW pid,
         NEW u, u = Unlink(m, i, pid)
  PROVE  /\ Frame(m, u) /\ u.status = m.status /\ u.current_running = m.current_running
         /\ u.fault # "null"
         /\ \A q \in ObjectQueues : u.waiting[q] = m.waiting[q]
<1> DEFINE prio  == m.priority[i]
           lockq == LockQ(m.lock_waiting[i])
           waitq == WaitQ(FindPid(m, m.waiting_pcb[i]))
           ready == SearchRemove(m, m.ready[prio], pid)
           sleep == SearchRemove(m, m.sleep, pid)
           inl == SearchRemove(m, m.waiting[lockq], pid)
           inw == SearchRemove(m, m.waiting[waitq], pid)
<1>1. /\ \A q \in ObjectQueues : q # waitq /\ q \in WaitQueues
      /\ m.lock_waiting[i] # NULL => \A q \in ObjectQueues : q # lockq
  <2>1. FindPid(m, m.waiting_pcb[i]) \in Slots
    BY FindPidIn DEF MemInv
  <2>2. m.lock_waiting[i] # NULL => m.lock_waiting[i] \in Locks
    BY DEF MemInv, KernelMemory
  <2>3. ObjectQueues \subseteq WaitQueues
    BY DEF ObjectQueues
  <2> QED BY <2>1, <2>2, <2>3, DistinctQueues
<1>2. ready.fault \in {"none", "interior"} /\ sleep.fault \in {"none", "interior"}
      /\ inl.fault \in {"none", "interior"} /\ inw.fault \in {"none", "interior"}
  BY SearchFaults
<1>3. DOMAIN m = Fields /\ m.waiting \in [WaitQueues -> Seq(S)]
  BY DEF MemInv, KernelMemory
<1>4. \/ u = [m EXCEPT !.ready[prio] = ready.queue, !.fault = ready.fault]
      \/ u = [m EXCEPT !.sleep = sleep.queue, !.fault = sleep.fault]
      \/ m.lock_waiting[i] # NULL /\ u = [m EXCEPT !.waiting[lockq] = inl.queue, !.fault = inl.fault]
      \/ u = [m EXCEPT !.waiting[waitq] = inw.queue, !.fault = inw.fault]
      \/ u = Stop(m, "hang") \/ u = m
  BY DEF Unlink
<1> HIDE DEF prio, lockq, waitq, ready, sleep, inl, inw
<1>5. CASE u = [m EXCEPT !.ready[prio] = ready.queue, !.fault = ready.fault]
  BY <1>2, <1>3, <1>5 DEF Frame, Fields
<1>6. CASE u = [m EXCEPT !.sleep = sleep.queue, !.fault = sleep.fault]
  BY <1>2, <1>3, <1>6 DEF Frame, Fields
<1>7. ASSUME NEW w, NEW y, NEW f \in {"none", "interior"}, \A q \in ObjectQueues : q # w,
             u = [m EXCEPT !.waiting[w] = y, !.fault = f]
      PROVE  /\ Frame(m, u) /\ u.status = m.status /\ u.current_running = m.current_running
             /\ u.fault # "null"
             /\ \A q \in ObjectQueues : u.waiting[q] = m.waiting[q]
  <2>1. u.waiting = [m.waiting EXCEPT ![w] = y] /\ u.fault = f
    BY <1>3, <1>7 DEF Fields
  <2>2. \A q \in ObjectQueues : u.waiting[q] = m.waiting[q]
    BY <1>1, <1>3, <1>7, <2>1
  <2>3. Frame(m, u) /\ u.status = m.status /\ u.current_running = m.current_running
    BY <1>3, <1>7 DEF Frame, Fields
  <2> QED BY <1>7, <2>1, <2>2, <2>3
<1>8. CASE u = Stop(m, "hang")
  BY <1>3, <1>8 DEF Frame, Fields, Stop
<1>9. CASE u = m
  BY <1>9 DEF Frame
<1>10. CASE m.lock_waiting[i] # NULL /\ u = [m EXCEPT !.waiting[lockq] = inl.queue, !.fault = inl.fault]
  <2>1. /\ inl.fault \in {"none", "interior"} /\ \A q \in ObjectQueues : q # lockq
        /\ u = [m EXCEPT !.waiting[lockq] = inl.queue, !.fault = inl.fault]
    BY <1>1, <1>2, <1>10
  <2> QED BY <1>7, <2>1, Zenon
<1>11. CASE u = [m EXCEPT !.waiting[waitq] = inw.queue, !.fault = inw.fault]
  <2>1. inw.fault \in {"none", "interior"} /\ \A q \in ObjectQueues : q # waitq
    BY <1>1, <1>2
  <2> QED BY <1>7, <1>11, <2>1, Zenon
<1> QED BY <1>4, <1>5, <1>6, <1>8, <1>9, <1>10, <1>11

\* Slot i is dead and its waiters are ready; nobody else who waits for a
\* process and nobody who sleeps is concerned.
Death(m, b, i) ==
    /\ b.pid = m.pid /\ b.next_pid = m.next_pid /\ b.current_running = m.current_running
    /\ b.time_elapsed = m.time_elapsed
    /\ \A p \in Slots :
          /\ b.status[p] = "NOT_EXIST" <=> m.status[p] = "NOT_EXIST" \/ p = i
          /\ p # i /\ Awaits(m, p) =>
                b.status[p] = IF p \in Members(m.waiting[WaitQ(i)]) THEN "READY" ELSE "BLOCKED"
          /\ p # i /\ m.status[p] = "SLEEPING" =>
                b.status[p] = "SLEEPING" /\ b.alarm_time[p] = m.alarm_time[p]

\* Pids are unique, so the waiters of a slot are those of its process.
LEMMA DeathEffects ==
  ASSUME NEW m, Sound(m), NEW i \in Slots, NEW b, Death(m, b, i), Round(m, b),
         NEW n, Moved(b, n, User)
  PROVE  Effects(m, n)
<1>1. /\ Spawned(m) \in SUBSET Procs /\ KernelMemory(m, Spawned(m)) /\ Pids(m)
      /\ PidWait(m) /\ NotedOnly(m) /\ Found(m, {})
  BY DEF Sound, Spawned, MemInv, LockInv, Good, Core, Waits
<1>2. /\ n.pid = m.pid /\ n.waiting = b.waiting /\ Marks(b, n) /\ Switched(b, n)
      /\ \A p \in Slots : n.status[p] = "NOT_EXIST" <=> m.status[p] = "NOT_EXIST" \/ p = i
  BY DEF Moved, Marks, Death
<1>3. DeadStay(m, n)
  BY <1>2, SlotSets DEF DeadStay
<1>4. WaitEnds(m, n)
  <2> SUFFICES ASSUME NEW p \in UserSlots, Awaits(m, p)
               PROVE  /\ n.status[p] \in {"READY", "RUNNING"} => Gone(n, m.waiting_pcb[p])
                      /\ ~Gone(m, m.waiting_pcb[p]) /\ Gone(n, m.waiting_pcb[p]) => n.status[p] # "BLOCKED"
    BY DEF WaitEnds
  <2> DEFINE t == m.waiting_pcb[p]
  <2>1. p \in Slots /\ p \in Procs /\ t # 0 /\ m.status[p] = "BLOCKED" /\ m.lock_waiting[p] = NULL /\ t # -1
    BY <1>1, SlotSets DEF NotedOnly, Awaits
  <2>2. \A j \in UserSlots : m.pid[j] = t => FindPid(m, t) = j
    BY <1>1, <2>1, FindUnique
  <2>3. n.status[p] = "BLOCKED" <=> b.status[p] = "BLOCKED"
    BY <1>2, <2>1 DEF Marks
  <2>4. ASSUME n.status[p] \in {"READY", "RUNNING"} PROVE Gone(n, t)
    <3>1. p # i
      BY <1>2, <2>1, <2>4
    <3>2. p \in Members(m.waiting[WaitQ(i)])
      BY <2>1, <2>3, <2>4, <3>1 DEF Death
    <3>3. FindPid(m, t) = i
      BY <1>1, <2>1, <3>2 DEF PidWait
    <3> QED BY <1>2, <2>2, <3>3, SlotSets DEF Gone
  <2>5. ASSUME ~Gone(m, t), Gone(n, t) PROVE n.status[p] # "BLOCKED"
    <3>1. PICK j \in UserSlots : m.pid[j] = t /\ m.status[j] # "NOT_EXIST"
      BY <2>5 DEF Gone
    <3>2. j = i
      BY <1>2, <2>5, <3>1, SlotSets DEF Gone
    <3>3. p \in Members(m.waiting[WaitQ(FindPid(m, t))])
      BY <1>1, <2>1, <2>5 DEF Found
    <3>4. p \in Members(m.waiting[WaitQ(i)])
      BY <2>2, <3>1, <3>2, <3>3
    <3>5. CASE p = i
      BY <1>2, <2>1, <3>5
    <3>6. CASE p # i
      BY <2>1, <2>3, <3>4, <3>6 DEF Death
    <3> QED BY <3>5, <3>6
  <2> QED BY <2>4, <2>5
<1>5. SleepEnds(m, n)
  <2> SUFFICES ASSUME NEW p \in UserSlots, m.status[p] = "SLEEPING", n.fault = "none"
               PROVE  /\ n.status[p] \in {"READY", "RUNNING"} => Due(m, p)
                      /\ Due(m, p) => n.status[p] # "SLEEPING"
    BY DEF SleepEnds
  <2>1. p \in Slots
    BY SlotSets
  <2>2. CASE p = i
    BY <1>2, <2>1, <2>2
  <2>3. CASE p # i
    <3>1. b.status[p] = "SLEEPING" /\ b.alarm_time[p] = m.alarm_time[p] /\ b.time_elapsed = m.time_elapsed
      BY <2>1, <2>3 DEF Death
    <3>2. Due(b, p) <=> Due(m, p)
      BY <3>1, DueSame
    <3> QED BY <1>2, <2>1, <3>1, <3>2 DEF Marks, Switched
  <2> QED BY <2>2, <2>3
<1>6. Round(m, n) /\ n.fault # "null"
  <2>1. \A x \in Barriers : n.waiting[BarrierQ(x)] = b.waiting[BarrierQ(x)]
    BY <1>2
  <2> QED BY <1>2, <2>1 DEF Round, Switched
<1> QED BY <1>3, <1>4, <1>5, <1>6 DEF Effects

\* The memory in which slot i is off the queues.
Aparted(m, u, i) ==
    /\ Frame(m, u) /\ u.status = m.status /\ u.current_running = m.current_running /\ u.fault = "none"
    /\ Linked(u, {i}) /\ Waits(u, {i}) /\ LockInv(u, {}) /\ NoneLost(u)
    /\ Members(u.waiting[WaitQ(i)]) = Members(m.waiting[WaitQ(i)]) \ {i}
    /\ \A q \in ObjectQueues : u.waiting[q] = m.waiting[q]

\* From there on kill and exit are the same.
LEMMA EndProcess ==
  ASSUME NEW m, Sound(m), m.context[m.current_running] = User, m.current_running # 0,
         NEW i \in Slots, i # 1, NEW u, Aparted(m, u, i), MemInv(u, Spawned(m)),
         NEW b, b = Bury(u, i)
  PROVE  Poised(b, User) /\ Death(m, b, i) /\ Round(m, b) /\ MemInv(b, Spawned(m))
<1> DEFINE S == Spawned(m)
           cur == m.current_running
<1>1. /\ S \in SUBSET Procs /\ KernelMemory(m, S) /\ Good(m) /\ m.fault = "none"
      /\ cur \in Slots /\ m.status[cur] = "RUNNING" /\ m.lock_waiting[cur] = NULL
      /\ \A q \in WaitQueues : cur \notin Members(m.waiting[q])
  BY Caller DEF Sound, Good
<1>2. MemInv(b, S)
  BY <1>1, BuryType
<1> HIDE DEF S
<1>3. /\ Frame(m, u) /\ u.status = m.status /\ u.current_running = m.current_running /\ u.fault = "none"
      /\ Linked(u, {i}) /\ Waits(u, {i}) /\ LockInv(u, {}) /\ NoneLost(u)
      /\ Members(u.waiting[WaitQ(i)]) = Members(m.waiting[WaitQ(i)]) \ {i}
      /\ \A q \in ObjectQueues : u.waiting[q] = m.waiting[q]
  BY DEF Aparted
<1>4. Linked(b, {}) /\ Waits(b, {}) /\ \E g : Given(u, g, i) /\ Freed(g, b)
  <2>1. MemInv(u, S)
    BY DEF S
  <2> QED BY <1>1, <1>3, <2>1, BuryLinked
<1>5. PICK g : Given(u, g, i) /\ Freed(g, b)
  BY <1>4
<1>6. /\ Calm(g, b)
      /\ NoneLost(g) => NoneLost(b)
      /\ Counts(g) => Counts(b)
      /\ Shell1(g) => Shell1(b)
      /\ \A c : Loops(g, c) => Loops(b, c)
      /\ \A c : GaveUpLock(g, c) => GaveUpLock(b, c)
      /\ \A p \in Slots : g.status[p] # "BLOCKED" => b.status[p] = g.status[p]
      /\ \A q \in ObjectQueues : b.waiting[q] = g.waiting[q]
  BY <1>5, FreedSync
<1> DEFINE W == Members(m.waiting[WaitQ(i)])
<1>7. /\ g.pid = m.pid /\ g.next_pid = m.next_pid /\ g.current_running = cur
      /\ g.time_elapsed = m.time_elapsed /\ g.alarm_time = m.alarm_time /\ g.context = m.context
      /\ g.lock_waiting = m.lock_waiting /\ g.lock_owned = m.lock_owned /\ g.locked = m.locked
      /\ g.num_waiting = m.num_waiting /\ g.sem = m.sem
      /\ g.num_now = m.num_now /\ g.num_expected = m.num_expected /\ g.fault = "none"
  BY <1>3, <1>5 DEF Given, Frame
<1>8. \A p \in Slots : g.status[p] = IF p = i THEN "NOT_EXIST" ELSE IF p \in W THEN "READY" ELSE m.status[p]
  BY <1>3, <1>5 DEF Given
<1>9. \A p \in W : m.status[p] = "BLOCKED"
  <2>1. WaitQ(i) \in WaitQueues
    BY QueueNames
  <2>2. W \subseteq Slots
    BY <1>1, <2>1, QueueSlots
  <2>3. OnWait(m, {})
    BY <1>1 DEF Good, Core, Linked
  <2> QED BY <2>1, <2>2, <2>3 DEF OnWait
<1>10. /\ \A q \in ObjectQueues : g.waiting[q] = m.waiting[q]
       /\ \A l \in Locks : g.waiting[LockQ(l)] = u.waiting[LockQ(l)]
  <2>1. \A q \in WaitQueues : q # WaitQ(i) => g.waiting[q] = u.waiting[q]
    <3>1. g.waiting = [u.waiting EXCEPT ![WaitQ(i)] = <<>>] /\ DOMAIN u.waiting = WaitQueues
      BY <1>5 DEF Given, MemInv, KernelMemory
    <3> QED BY <3>1
  <2>2. ObjectQueues \subseteq WaitQueues
    BY DEF ObjectQueues
  <2> QED BY <1>3, <2>1, <2>2, DistinctQueues, QueueNames
<1> HIDE DEF W
<1>11. NoneLost(b)
  BY <1>3, <1>6, <1>7, <1>10 DEF NoneLost, Frame
<1>12. Counts(b)
  <2>1. Counts(g)
    BY <1>1, <1>7, <1>10, DistinctQueues DEF Good, Counts, CondCount, SemCount, BarrierCount
  <2> QED BY <1>6, <2>1
<1>13. Shell1(b)
  <2>1. Shell1(m) /\ 1 \in Slots
    BY <1>1, SlotSets DEF Good, Core
  <2>2. g.status[1] = m.status[1]
    BY <1>8, <1>9, <2>1 DEF Shell1
  <2>3. Shell1(g)
    BY <1>7, <2>1, <2>2 DEF Shell1
  <2> QED BY <1>6, <2>3
<1>14. b.current_running = cur /\ b.context = m.context /\ b.fault = "none" /\ b.pid = m.pid
       /\ b.next_pid = m.next_pid /\ b.time_elapsed = m.time_elapsed /\ b.alarm_time = m.alarm_time
  BY <1>5, <1>7 DEF Freed
<1>15. Left(b, User) = Left(m, User) /\ Core(m, Left(m, User))
  BY <1>1, <1>14, LeftCore DEF Left
<1>16. Loops(b, Left(b, User))
  <2>1. Loops(g, Left(m, User))
    BY <1>7, <1>8, <1>9, <1>15, SlotSets DEF Core, Loops
  <2> QED BY <1>6, <1>15, <2>1
<1>17. GaveUpLock(b, Left(b, User))
  <2>1. GaveUpLock(g, Left(m, User))
    BY <1>7, <1>10, <1>15, DistinctQueues DEF Core, GaveUpLock
  <2> QED BY <1>6, <1>15, <2>1
<1>18. b.status[cur] # "READY"
  <2>1. cur \notin W
    BY <1>1, <1>9
  <2>2. g.status[cur] \in {"NOT_EXIST", "RUNNING"}
    BY <1>1, <1>8, <2>1
  <2> QED BY <1>1, <1>6, <2>2
<1>19. Poised(b, User)
  BY <1>4, <1>11, <1>12, <1>13, <1>14, <1>16, <1>17, <1>18 DEF Poised, Core
<1>20. Death(m, b, i)
  <2> SUFFICES ASSUME NEW p \in Slots
               PROVE  /\ b.status[p] = "NOT_EXIST" <=> m.status[p] = "NOT_EXIST" \/ p = i
                      /\ p # i /\ Awaits(m, p) => b.status[p] = IF p \in W THEN "READY" ELSE "BLOCKED"
                      /\ p # i /\ m.status[p] = "SLEEPING" => b.status[p] = "SLEEPING"
    BY <1>14 DEF Death, W
  <2>1. b.status[p] = "NOT_EXIST" <=> g.status[p] = "NOT_EXIST"
    BY <1>6 DEF Calm
  <2>2. b.status[p] = "NOT_EXIST" <=> m.status[p] = "NOT_EXIST" \/ p = i
    BY <1>8, <1>9, <2>1
  <2>3. ASSUME p # i, Awaits(m, p) PROVE b.status[p] = IF p \in W THEN "READY" ELSE "BLOCKED"
    <3>1. m.status[p] = "BLOCKED" /\ m.lock_waiting[p] = NULL
      BY <2>3 DEF Awaits
    <3>2. CASE p \in W
      BY <1>6, <1>8, <2>3, <3>2
    <3>3. CASE p \notin W
      BY <1>5, <1>7, <1>8, <2>3, <3>1, <3>3 DEF Freed
    <3> QED BY <3>2, <3>3
  <2>4. ASSUME p # i, m.status[p] = "SLEEPING" PROVE b.status[p] = "SLEEPING"
    BY <1>6, <1>8, <1>9, <2>4
  <2> QED BY <2>2, <2>3, <2>4
<1>21. Round(m, b)
  BY <1>6, <1>10, DistinctQueues DEF Round
<1> QED BY <1>2, <1>19, <1>20, <1>21 DEF S

\* A slot that is off the queues is given up, its mutexes are released, and the
\* CPU is left.
LEMMA EndFine ==
  ASSUME NEW m, Sound(m), m.context[m.current_running] = User, m.current_running # 0,
         NEW i \in Slots, i # 1, NEW u, Aparted(m, u, i), MemInv(u, Spawned(m)),
         NEW n, n = do_scheduler(Bury(u, i), User)
  PROVE  Fine(m, n)
<1> DEFINE b == Bury(u, i)
<1>1. Poised(b, User) /\ Death(m, b, i) /\ Round(m, b) /\ MemInv(b, Spawned(m))
  BY EndProcess
<1>2. n = do_scheduler(b, User) /\ Spawned(m) \in SUBSET Procs
  BY DEF Spawned
<1> HIDE DEF b
<1>3. Moved(b, n, User) /\ (n.fault = "none" => Good(n))
  BY <1>1, <1>2, LeaveCPU, UserContext
<1> QED BY <1>1, <1>3, DeathEffects DEF Fine

\* do_exit: the running process is on no queue.
LEMMA ExitFine ==
  ASSUME NEW m, Sound(m), m.context[m.current_running] = User, m.current_running \in UserSlots,
         NEW n, n = do_exit(m)
  PROVE  Fine(m, n)
<1> DEFINE i == m.current_running
<1>1. i \in Slots /\ i # 1 /\ i # 0
  BY SlotSets
<1>2. /\ m.status[i] = "RUNNING" /\ \A q \in WaitQueues : i \notin Members(m.waiting[q])
  BY <1>1, Caller
<1>3. /\ MemInv(m, Spawned(m)) /\ LockInv(m, {}) /\ Linked(m, {}) /\ Waits(m, {}) /\ NoneLost(m)
      /\ m.fault = "none"
  BY DEF Sound, Good, Core
<1>4. Linked(m, {i}) /\ Waits(m, {i})
  BY <1>2, <1>3, InHand
<1>5. Members(m.waiting[WaitQ(i)]) = Members(m.waiting[WaitQ(i)]) \ {i}
  BY <1>1, <1>2, QueueNames
<1>6. Aparted(m, m, i)
  BY <1>3, <1>4, <1>5, FrameSelf DEF Aparted
<1>7. n = do_scheduler(Bury(m, i), User)
  BY DEF do_exit
<1> QED BY <1>1, <1>3, <1>6, <1>7, EndFine

\* The slot do_kill looks up is taken off the queue its status and fields name,
\* which is the one it is on; or the kernel stops on an item in the middle of a
\* queue, or spins because the fields name none.
LEMMA KillFine ==
  ASSUME NEW m, Sound(m), m.context[m.current_running] = User, m.current_running # 0,
         NEW pid, NEW n, n = do_kill(m, pid)
  PROVE  Fine(m, n)
<1> DEFINE i == FindPid(m, pid)
           u == Unlink(m, i, pid)
           S == Spawned(m)
<1>1. /\ S \in SUBSET Procs /\ MemInv(m, S) /\ KernelMemory(m, S) /\ LockInv(m, {}) /\ Pids(m) /\ m.fault = "none"
      /\ Linked(m, {}) /\ Waits(m, {}) /\ Shell1(m) /\ NoneLost(m)
  BY DEF Sound, Spawned, Good, Core, MemInv, LockInv
<1>2. i \in Slots /\ i # 1
  BY <1>1, FindPidIn, SlotSets
<1>3. n = IF u.fault # "none" THEN u ELSE do_scheduler(Bury(u, i), User)
  BY DEF do_kill
<1>4. u.fault = "none" => TakenOut(m, u, i)
  BY <1>1, UnlinkTakesOut
<1> HIDE DEF i
<1>5. MemInv(u, S) /\ Keeps(m, u)
  BY <1>1, <1>2, UnlinkType, UnlinkKeeps
<1>6. /\ Frame(m, u) /\ u.status = m.status /\ u.current_running = m.current_running
      /\ u.fault # "null"
      /\ \A q \in ObjectQueues : u.waiting[q] = m.waiting[q]
  BY <1>1, <1>2, UnlinkFrame
<1>7. LockInv(u, {})
  BY <1>1, <1>5, KeepsInv
<1> HIDE DEF u, S
<1>8. CASE u.fault # "none"
  <2>1. Calm(m, u)
    BY <1>6 DEF Calm, Frame, Awaits
  <2>2. Round(m, u)
    BY <1>6, DistinctQueues DEF Round
  <2> QED BY <1>3, <1>6, <1>8, <2>1, <2>2, StopsFine
<1>9. CASE u.fault = "none"
  <2>1. Linked(u, {i}) /\ Waits(u, {i})
    BY <1>1, <1>4, <1>9, RemoveLinked
  <2>2. NoneLost(u)
    <3> SUFFICES ASSUME NEW l \in Locks, ~u.locked[l], u.waiting[LockQ(l)] # <<>> PROVE FALSE
      BY DEF NoneLost
    <3>1. LockQ(l) \in WaitQueues
      BY QueueNames
    <3>2. m.waiting[LockQ(l)] = <<>>
      BY <1>1, <1>6 DEF NoneLost, Frame
    <3>3. Members(u.waiting[LockQ(l)]) = Members(m.waiting[LockQ(l)]) \ {i}
      BY <1>4, <1>9, <3>1 DEF TakenOut
    <3>4. Members(u.waiting[LockQ(l)]) = {}
      BY <3>2, <3>3, EmptyQueue
    <3>5. u.waiting[LockQ(l)] \in Seq(S)
      BY <1>5, <3>1 DEF MemInv, KernelMemory
    <3> QED BY <3>4, <3>5, TailQueue
  <2>3. Members(u.waiting[WaitQ(i)]) = Members(m.waiting[WaitQ(i)]) \ {i}
    BY <1>2, <1>4, <1>9, QueueNames DEF TakenOut
  <2>4. Aparted(m, u, i)
    BY <1>6, <1>7, <1>9, <2>1, <2>2, <2>3 DEF Aparted
  <2>5. n = do_scheduler(Bury(u, i), User) /\ MemInv(u, Spawned(m))
    BY <1>3, <1>5, <1>9 DEF S
  <2> QED BY <1>2, <2>4, <2>5, EndFine
<1> QED BY <1>8, <1>9

-----------------------------------------------------------------------------
(***************************************************************************)
(* The theorems.                                                            *)
(***************************************************************************)

\* The inductive invariant.
SafeInv(m) == WorkInv(m) /\ (m.fault = "none" => Good(m)) /\ m.fault # "null"

\* After init_pcb only the shell exists, on the third ready queue.
LEMMA InitSafe == ASSUME Init PROVE SafeInv(k)
<1> DEFINE m == init_pcb
<1>1. /\ m.current_running = 0 /\ m.fault = "none" /\ m.next_pid = 2 /\ m.sleep = <<>>
      /\ m.ready[1] = <<>> /\ m.ready[2] = <<>> /\ m.ready[3] = <<1>>
      /\ \A q \in WaitQueues : m.waiting[q] = <<>>
      /\ \A i \in Slots : /\ m.status[i] = IF i = 1 THEN "READY" ELSE IF i \in UserSlots THEN "NOT_EXIST" ELSE "BLOCKED"
                          /\ m.priority[i] = (IF i = 1 THEN 3 ELSE 0) /\ m.pid[i] = (IF i = 1 THEN 1 ELSE 0)
                          /\ m.waiting_pcb[i] = (IF i = 1 THEN -1 ELSE 0) /\ m.lock_waiting[i] = NULL
      /\ \A c \in Conds : m.num_waiting[c] = 0
      /\ \A s \in Sems : m.sem[s] = 0
      /\ \A b \in Barriers : m.num_expected[b] = 0
  BY DEF init_pcb
<1>2. Members(<<1>>) = {1} /\ NoDup(<<1>>)
  BY DEF Members, NoDup
<1>3. Linked(m, {})
  <2>1. NoRepeats(m)
    BY <1>1, <1>2, EmptyQueue DEF NoRepeats
  <2>2. OnReady(m, {})
    <3> SUFFICES ASSUME NEW p \in Slots, NEW n \in 1..3
                 PROVE  p \in Members(m.ready[n]) <=> m.status[p] = "READY" /\ m.priority[p] = n
      BY DEF OnReady
    <3>1. p \in Members(m.ready[n]) <=> p = 1 /\ n = 3
      BY <1>1, <1>2, EmptyQueue
    <3> QED BY <1>1, <3>1
  <2>3. OnSleep(m, {}) /\ OnWait(m, {}) /\ OneRuns(m)
    BY <1>1, EmptyQueue DEF OnSleep, OnWait, OneRuns
  <2> QED BY <2>1, <2>2, <2>3 DEF Linked
<1>4. Waits(m, {})
  <2>1. \A q \in WaitQueues : Members(m.waiting[q]) = {}
    BY <1>1, EmptyQueue
  <2>2. LockWait(m, {})
    BY <1>1, <2>1, QueueNames, NullAssumption DEF LockWait
  <2>3. PidWait(m) /\ ObjectWait(m)
    BY <2>1, QueueNames DEF PidWait, ObjectWait, ObjectQueues
  <2>4. NotedOnly(m) /\ Found(m, {})
    BY <1>1, SlotSets DEF NotedOnly, Found
  <2> QED BY <2>2, <2>3, <2>4 DEF Waits
<1>5. Shell1(m)
  BY <1>1, SlotSets DEF Shell1
<1>6. Loops(m, m.context) /\ NoneLost(m) /\ GaveUpLock(m, m.context)
  BY <1>1, EmptyQueue, SlotSets, QueueNames DEF Loops, NoneLost, GaveUpLock
<1>7. Counts(m)
  <2>1. Len(<<>>) = 0
    OBVIOUS
  <2> QED BY <1>1, <2>1, QueueNames DEF Counts, CondCount, SemCount, BarrierCount
<1>8. Rest(m)
  BY <1>1, SlotSets DEF Rest
<1>9. Good(m)
  BY <1>3, <1>4, <1>5, <1>6, <1>7, <1>8 DEF Good, Core
<1> QED BY <1>1, <1>9, InitWork DEF SafeInv, Init

\* Every step of a kernel at work, by its handler.
LEMMA NextFine ==
  ASSUME Sound(k), Next
  PROVE  Fine(k, k')
<1> DEFINE cur == k.current_running
<1>1. k.fault = "none" /\ MemInv(k, Spawned(k)) /\ Spawned(k) \in SUBSET Procs
  BY DEF Sound, Spawned
<1>2. Shell \/ Process => k.context[cur] = User /\ cur # 0
  <2>1. cur \in Slots
    BY <1>1, CurrentType DEF MemInv
  <2>2. cur \in Nat
    BY <2>1, SizeAssumption DEF Slots
  <2> QED BY <2>2 DEF Shell, Process, InUser, current
<1>3. Process => k.context[cur] = User /\ cur \in UserSlots
  BY <1>1, CurrentType DEF Process, MemInv, InUser, current
<1> HIDE DEF cur
<1>4. CASE Timer
  BY <1>4, TimerFine DEF Timer, InUser, current
<1>5. CASE ResumeTimer
  BY <1>5, ReturnFine DEF ResumeTimer, current
<1>6. CASE ResumeAcquire
  <2>1. PICK l \in Locks : k.context[current] = <<"acquire", l>> /\ k' = do_mutex_lock_acquire(k, l)
    BY <1>6 DEF ResumeAcquire
  <2>2. k.current_running \in UserSlots
    <3>1. k.current_running \in Slots
      BY <1>1, CurrentType DEF MemInv
    <3>2. <<"acquire", l>> \in {"acquire"} \X Locks
      OBVIOUS
    <3> QED BY <1>1, <2>1, <3>1, <3>2 DEF MemInv, Resumes, current
  <2> QED BY <2>1, <2>2, AcquireFine
<1>7. CASE Spawn
  BY <1>2, <1>7, SpawnFine DEF Spawn, cur
<1>8. CASE Kill
  BY <1>2, <1>8, KillFine DEF Kill, cur
<1>9. CASE Wait
  BY <1>3, <1>9, WaitFine DEF Wait, cur
<1>10. CASE Exit
  BY <1>3, <1>10, ExitFine DEF Exit, cur
<1>11. CASE Sleep
  BY <1>3, <1>11, SleepFine, ArgumentAssumption DEF Sleep, cur
<1>12. CASE Acquire
  BY <1>3, <1>12, AcquireFine DEF Acquire, cur
<1>13. CASE Release
  BY <1>3, <1>13, ReleaseFine DEF Release, cur
<1>14. CASE LockInit
  BY <1>3, <1>14, LockInitFine DEF LockInit, cur
<1>15. CASE CondWait
  BY <1>3, <1>15, CondWaitFine DEF CondWait, cur
<1>16. CASE CondSignal
  BY <1>3, <1>16, CondSignalFine DEF CondSignal, cur
<1>17. CASE CondBroadcast
  BY <1>3, <1>17, CondBroadcastFine DEF CondBroadcast, cur
<1>18. CASE CondInit
  BY <1>3, <1>18, CondInitFine DEF CondInit, cur
<1>19. CASE SemUp
  BY <1>3, <1>19, SemUpFine DEF SemUp, cur
<1>20. CASE SemDown
  BY <1>3, <1>20, SemDownFine DEF SemDown, cur
<1>21. CASE SemInit
  BY <1>3, <1>21, SemInitFine, ArgumentAssumption DEF SemInit, cur
<1>22. CASE BarrierWait
  BY <1>3, <1>22, BarrierWaitFine DEF BarrierWait, cur
<1>23. CASE BarrierInit
  BY <1>3, <1>23, BarrierInitFine, ArgumentAssumption DEF BarrierInit, cur
<1>24. CASE Halted
  BY <1>1, <1>24 DEF Halted
<1> QED BY <1>4, <1>5, <1>6, <1>7, <1>8, <1>9, <1>10, <1>11, <1>12, <1>13, <1>14, <1>15, <1>16, <1>17,
           <1>18, <1>19, <1>20, <1>21, <1>22, <1>23, <1>24 DEF Next

\* A kernel that stopped takes no step.
LEMMA StoppedStays == ASSUME k.fault # "none", Next PROVE k' = k
BY DEF Next, Timer, ResumeTimer, ResumeAcquire, Spawn, Kill, Wait, Exit, Sleep, Acquire,
       Release, LockInit, CondWait, CondSignal, CondBroadcast, CondInit, SemUp, SemDown,
       SemInit, BarrierWait, BarrierInit, Halted, Shell, Process, InUser

\* Every step that changes something.
LEMMA StepFine == ASSUME SafeInv(k), Next, k' # k PROVE Fine(k, k')
<1>1. k.fault = "none"
  BY StoppedStays
<1>2. Sound(k)
  BY <1>1 DEF SafeInv, WorkInv, Sound
<1> QED BY <1>2, NextFine

\* The invariant is inductive,
LEMMA NextSafe == ASSUME SafeInv(k), [Next]_k PROVE SafeInv(k')
<1>1. CASE k' = k
  BY <1>1
<1>2. CASE Next /\ k' # k
  <2>1. WorkInv(k')
    BY <1>2, NextWork DEF SafeInv
  <2>2. Fine(k, k')
    BY <1>2, StepFine
  <2> QED BY <2>1, <2>2 DEF SafeInv, Fine, Effects
<1> QED BY <1>1, <1>2

\* and so holds always.
LEMMA AlwaysSafe == Spec => []SafeInv(k)
<1>1. Init => SafeInv(k)
  BY InitSafe
<1>2. SafeInv(k) /\ [Next]_k => SafeInv(k)'
  BY NextSafe
<1> QED BY <1>1, <1>2, PTL DEF Spec

\* The kernel never dequeues from an empty queue: the shell is never blocked
\* and never dies, so a ready queue is never dry, and signal and semaphore_up
\* read a counter that is the length of the queue.
THEOREM NoNullDequeue == Spec => []NeverNull
<1>1. SafeInv(k) => NeverNull
  BY DEF SafeInv, NeverNull
<1> QED BY <1>1, AlwaysSafe, PTL

\* The status of a process names the queue it is on, whatever order processes
\* block, sleep, are woken, are killed and are born in.
THEOREM StatusTrue == Spec => []StatusNamesQueue
<1>1. ASSUME SafeInv(k) PROVE StatusNamesQueue
  <2> SUFFICES ASSUME k.fault = "none" PROVE StatusNamesQueue
    BY DEF StatusNamesQueue, Working
  <2>1. Linked(k, {}) /\ Rest(k) /\ KernelMemory(k, Spawned(k)) /\ Spawned(k) \in SUBSET Procs
    BY <1>1 DEF SafeInv, WorkInv, MemInv, Good, Core, Spawned
  <2>2. \A q \in WaitQueues : \A p \in Members(k.waiting[q]) : k.status[p] = "BLOCKED"
    BY <2>1, QueueSlots DEF Linked, OnWait
  <2>3. \A p \in Slots : k.status[p] = "RUNNING" <=> p = current /\ p # 0
    BY <2>1 DEF Linked, OneRuns, Rest, current
  <2> QED BY <2>1, <2>2, <2>3 DEF StatusNamesQueue, Linked, OnReady, OnSleep
<1> QED BY <1>1, AlwaysSafe, PTL

\* No PCB is linked twice.
THEOREM NoDoubleLink == Spec => []LinkedOnce
<1>1. ASSUME SafeInv(k) PROVE LinkedOnce
  <2> SUFFICES ASSUME k.fault = "none",
                      NEW x \in Places, NEW y \in Places,
                      NEW n \in DOMAIN QueueAt(x), NEW m \in DOMAIN QueueAt(y),
                      QueueAt(x)[n] = QueueAt(y)[m]
               PROVE  x = y /\ n = m
    BY DEF LinkedOnce, Working
  <2> DEFINE p == QueueAt(x)[n]
  <2>1. /\ NoRepeats(k) /\ OnReady(k, {}) /\ OnSleep(k, {}) /\ OnWait(k, {})
        /\ KernelMemory(k, Spawned(k)) /\ Spawned(k) \in SUBSET Procs
    BY <1>1 DEF SafeInv, WorkInv, MemInv, Good, Core, Spawned, Linked
  <2>2. p \in Members(QueueAt(x)) /\ p \in Members(QueueAt(y))
    BY DEF Members
  <2>3. ASSUME NEW z \in Places
        PROVE  \/ \E h \in 1..3 : z = <<"ready", h>> /\ QueueAt(z) = k.ready[h]
               \/ z = <<"sleep", 0>> /\ QueueAt(z) = k.sleep
               \/ z \in WaitQueues /\ QueueAt(z) = k.waiting[z]
    <3>1. CASE z \in {"ready"} \X (1..3)
      <4>1. z[1] = "ready" /\ z[2] \in 1..3 /\ z = <<"ready", z[2]>>
        BY <3>1
      <4> QED BY <4>1 DEF QueueAt
    <3>2. CASE z = <<"sleep", 0>>
      BY <3>2 DEF QueueAt
    <3>3. CASE z \in WaitQueues
      <4>1. z[1] # "ready" /\ z[1] # "sleep"
        BY <3>3 DEF WaitQueues
      <4> QED BY <3>3, <4>1 DEF QueueAt
    <3> QED BY <3>1, <3>2, <3>3 DEF Places
  <2>4. ASSUME NEW z \in Places
        PROVE  NoDup(QueueAt(z)) /\ Members(QueueAt(z)) \subseteq Slots
    <3>1. /\ \A h \in 1..3 : Members(k.ready[h]) \subseteq Slots
          /\ Members(k.sleep) \subseteq Slots
          /\ \A q \in WaitQueues : Members(k.waiting[q]) \subseteq Slots
      <4> DEFINE S == Spawned(k)
      <4>1. S \in SUBSET Procs /\ KernelMemory(k, S)
        BY <2>1
      <4> HIDE DEF S
      <4> QED BY <4>1, QueueSlots
    <3>2. CASE \E h \in 1..3 : QueueAt(z) = k.ready[h]
      BY <2>1, <3>1, <3>2 DEF NoRepeats
    <3>3. CASE QueueAt(z) = k.sleep
      BY <2>1, <3>1, <3>3 DEF NoRepeats
    <3>4. CASE z \in WaitQueues /\ QueueAt(z) = k.waiting[z]
      BY <2>1, <3>1, <3>4 DEF NoRepeats
    <3> QED BY <2>3, <3>2, <3>3, <3>4
  <2>5. p \in Slots
    BY <2>2, <2>4
  <2>6. x = y
    BY <2>1, <2>2, <2>3, <2>5 DEF OnReady, OnSleep, OnWait
  <2>7. n = m
    BY <2>4, <2>6 DEF NoDup
  <2> QED BY <2>6, <2>7
<1> QED BY <1>1, AlwaysSafe, PTL

\* The fields do_kill searches by tell the truth.
THEOREM KillFinds == Spec => []KillCanFind
<1>1. ASSUME SafeInv(k) PROVE KillCanFind
  <2> SUFFICES ASSUME k.fault = "none" PROVE KillCanFind
    BY DEF KillCanFind, Working
  <2>1. /\ LockWait(k, {}) /\ PidWait(k) /\ ObjectWait(k)
        /\ KernelMemory(k, Spawned(k)) /\ Spawned(k) \in SUBSET Procs
    BY <1>1 DEF SafeInv, WorkInv, MemInv, Good, Core, Spawned, Waits
  <2>2. \A q \in WaitQueues : Members(k.waiting[q]) \subseteq Slots
    BY <2>1, QueueSlots
  <2>3. \A i \in Slots : \A p \in Members(k.waiting[WaitQ(i)]) :
            k.lock_waiting[p] = NULL /\ k.waiting_pcb[p] # -1 /\ FindPid(k, k.waiting_pcb[p]) = i
    BY <2>1, <2>2, QueueNames DEF PidWait
  <2>4. \A q \in WaitQueues : q[1] \in {"cond", "sem", "barrier"} =>
            \A p \in Members(k.waiting[q]) : k.lock_waiting[p] = NULL /\ k.waiting_pcb[p] = -1
    BY <2>1, <2>2 DEF ObjectWait, ObjectQueues
  <2>5. \A l \in Locks, p \in Slots :
            p \in Members(k.waiting[LockQ(l)]) <=> k.status[p] = "BLOCKED" /\ k.lock_waiting[p] = l
    BY <2>1 DEF LockWait
  <2> QED BY <2>3, <2>4, <2>5 DEF KillCanFind
<1> QED BY <1>1, AlwaysSafe, PTL

\* Nobody sleeps on a free mutex.
THEOREM FreeLockFreesAll == Spec => []NoLostLockWakeup
<1>1. SafeInv(k) => NoLostLockWakeup
  BY DEF SafeInv, Good, Core, NoneLost, NoLostLockWakeup, Working
<1> QED BY <1>1, AlwaysSafe, PTL

\* The counters of conditions, semaphores and barriers are the lengths of their
\* queues.
THEOREM CountersTrue == Spec => []CountersMatchQueues
<1>1. SafeInv(k) => CountersMatchQueues
  BY DEF SafeInv, Good, Counts, CondCount, SemCount, BarrierCount, CountersMatchQueues, Working
<1> QED BY <1>1, AlwaysSafe, PTL

\* A process on the queue of a condition has given up the mutex it will take
\* again.
THEOREM CondGivesUp == Spec => []CondWaiterGaveUpLock
<1>1. ASSUME SafeInv(k) PROVE CondWaiterGaveUpLock
  <2> SUFFICES ASSUME k.fault = "none" PROVE CondWaiterGaveUpLock
    BY DEF CondWaiterGaveUpLock, Working
  <2>1. GaveUpLock(k, k.context) /\ KernelMemory(k, Spawned(k)) /\ Spawned(k) \in SUBSET Procs
    BY <1>1 DEF SafeInv, WorkInv, MemInv, Good, Core, Spawned
  <2>2. \A c \in Conds : Members(k.waiting[CondQ(c)]) \subseteq Slots
    BY <2>1, QueueSlots, QueueNames
  <2> QED BY <2>1, <2>2 DEF CondWaiterGaveUpLock, GaveUpLock
<1> QED BY <1>1, AlwaysSafe, PTL

\* A killed process never runs again.
THEOREM DeadDoNotReturn == Spec => DeadStaysDead
<1>1. SafeInv(k) /\ [Next]_k => [\A p \in UserSlots :
          /\ ~Live(p) /\ Live(p)' => k'.pid[p] = k.next_pid
          /\ Live(p) /\ Live(p)' => k'.pid[p] = k.pid[p]]_k
  BY StepFine DEF Fine, Effects, DeadStay, Live
<1> QED BY <1>1, AlwaysSafe, PTL DEF Spec, DeadStaysDead

\* waitpid returns when the process dies, and not before.
THEOREM WaitsForDeath == Spec => WaitReturnsAfterDeath
<1>1. SafeInv(k) /\ [Next]_k => [\A p \in UserSlots :
          k.status[p] = "BLOCKED" /\ k.lock_waiting[p] = NULL /\ k.waiting_pcb[p] # -1 =>
            LET target == k.waiting_pcb[p]
            IN  /\ k'.status[p] \in {"READY", "RUNNING"} => Gone(k', target)
                /\ ~Gone(k, target) /\ Gone(k', target) /\ k'.fault = "none"
                     => k'.status[p] # "BLOCKED"]_k
  BY StepFine DEF Fine, Effects, WaitEnds, Awaits
<1> QED BY <1>1, AlwaysSafe, PTL DEF Spec, WaitReturnsAfterDeath

\* A barrier opens for everybody at once.
THEOREM BarrierOpensOnce == Spec => BarrierRound
<1>1. SafeInv(k) /\ [Next]_k => [\A b \in Barriers :
          LET q == k.waiting[BarrierQ(b)]
          IN  k'.waiting[BarrierQ(b)] # q /\ Len(k'.waiting[BarrierQ(b)]) <= Len(q)
              => k'.waiting[BarrierQ(b)] = <<>> /\ Len(q) + 1 = k.num_expected[b]]_k
  BY StepFine DEF Fine, Effects, Round
<1> QED BY <1>1, AlwaysSafe, PTL DEF Spec, BarrierRound

\* Sleepers wake when their alarm is over, and not before.
THEOREM SleepersOnTime == Spec => SleepersWakeOnTime
<1>1. SafeInv(k) /\ [Next]_k => [\A p \in UserSlots :
          k.status[p] = "SLEEPING" /\ k'.fault = "none" =>
             /\ k'.status[p] \in {"READY", "RUNNING"} => Due(k, p)
             /\ k'.current_running # current /\ Due(k, p) => k'.status[p] # "SLEEPING"]_k
  BY StepFine DEF Fine, Effects, SleepEnds, current
<1> QED BY <1>1, AlwaysSafe, PTL DEF Spec, SleepersWakeOnTime
=============================================================================
