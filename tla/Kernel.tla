------------------------------- MODULE Kernel -------------------------------
(***************************************************************************)
(* The running system: the boot context, the shell and the processes it     *)
(* spawns, each making any system call with any argument, preempted by the  *)
(* timer between any two of them.  A step is one pass through the kernel    *)
(* from its entry (a trap, or the return of do_scheduler into a process     *)
(* that was switched out in the kernel) to the point where it leaves for    *)
(* user code or switches process.                                           *)
(***************************************************************************)
EXTENDS Proc

CONSTANTS
    KillPids,    \* arguments of kill: the shell passes any number
    WaitPids,    \* arguments of waitpid
    SleepTimes,  \* arguments of sleep
    SemValues,   \* arguments of semaphore_init
    Goals,       \* arguments of barrier_init
    MaxPid,      \* bound: no pid beyond it is given out
    MaxSem,      \* bound: semaphore_up is not called on a larger value
    MaxNow       \* bound: barrier_wait is not called with more arrivals counted

ASSUME ArgumentAssumption ==
    /\ KillPids \subseteq Nat /\ WaitPids \subseteq Nat
    /\ SleepTimes \subseteq Nat
    /\ SemValues \subseteq Int /\ Goals \subseteq Int
    /\ MaxPid \in Nat /\ MaxSem \in Int /\ MaxNow \in Nat

VARIABLE k

current == k.current_running

\* User code of a process is running; the kernel is entered by a trap.
InUser == k.fault = "none" /\ k.context[current] = User

\* The callers: the shell (test_shell.c) spawns and kills, the boot context
\* only loops, every other process may make any call.
Shell == InUser /\ current = 1
Process == InUser /\ current >= 2

Init == k = init_pcb

-----------------------------------------------------------------------------
(***************************************************************************)
(* The timer, and the two places in the kernel where a process goes on      *)
(* after do_scheduler().                                                    *)
(***************************************************************************)

Timer == InUser /\ k' = irq_timer_enter(k)

ResumeTimer ==
    /\ k.fault = "none" /\ k.context[current] = <<"timer", NULL>>
    /\ k' = irq_timer_return(k)

ResumeAcquire ==
    /\ k.fault = "none"
    /\ \E l \in Locks : /\ k.context[current] = <<"acquire", l>>
                        /\ k' = do_mutex_lock_acquire(k, l)

-----------------------------------------------------------------------------
(***************************************************************************)
(* System calls                                                             *)
(***************************************************************************)

Spawn == (Shell \/ Process) /\ k.next_pid <= MaxPid /\ k' = do_spawn(k)
Kill == (Shell \/ Process) /\ \E pid \in KillPids : k' = do_kill(k, pid)

\* A process waits for a pid it was told of, so for one given out before.
Wait == Process /\ \E pid \in WaitPids : pid \in 2..(k.next_pid - 1) /\ k' = do_wait(k, pid)
Exit == Process /\ k' = do_exit(k)
Sleep == Process /\ \E t \in SleepTimes : k' = do_sleep(k, t)

Acquire == Process /\ \E l \in Locks : k' = do_mutex_lock_acquire(k, l)
Release == Process /\ \E l \in Locks : k' = do_mutex_lock_release(k, l)
CondWait == Process /\ \E l \in Locks, c \in Conds : k' = do_condition_wait(k, l, c)
CondSignal == Process /\ \E c \in Conds : k' = do_condition_signal(k, c)
CondBroadcast == Process /\ \E c \in Conds : k' = do_condition_broadcast(k, c)
SemUp == Process /\ \E s \in Sems : k.sem[s] < MaxSem /\ k' = do_semaphore_up(k, s)
SemDown == Process /\ \E s \in Sems : k' = do_semaphore_down(k, s)
BarrierWait == Process /\ \E b \in Barriers : k.num_now[b] < MaxNow /\ k' = do_barrier_wait(k, b)

\* An object is initialised while nobody holds or waits on it: the init calls
\* empty the queue without waking anyone, and the tests run the task that
\* initialises before the others.
LockInit == Process /\ \E l \in Locks : /\ ~k.locked[l] /\ k.waiting[LockQ(l)] = <<>>
                                        /\ k' = do_mutex_lock_init(k, l)
CondInit == Process /\ \E c \in Conds : /\ k.waiting[CondQ(c)] = <<>>
                                        /\ k' = do_condition_init(k, c)
SemInit == Process /\ \E s \in Sems, v \in SemValues : /\ k.waiting[SemQ(s)] = <<>>
                                                       /\ k' = do_semaphore_init(k, s, v)
BarrierInit == Process /\ \E b \in Barriers, g \in Goals : /\ k.waiting[BarrierQ(b)] = <<>>
                                                           /\ k' = do_barrier_init(k, b, g)

\* A stopped kernel takes no interrupt and no trap.
Halted == k.fault # "none" /\ UNCHANGED k

Next ==
    \/ Timer \/ ResumeTimer \/ ResumeAcquire
    \/ Spawn \/ Kill \/ Wait \/ Exit \/ Sleep
    \/ Acquire \/ Release \/ LockInit
    \/ CondWait \/ CondSignal \/ CondBroadcast \/ CondInit
    \/ SemUp \/ SemDown \/ SemInit
    \/ BarrierWait \/ BarrierInit
    \/ Halted

Spec == Init /\ [][Next]_k

-----------------------------------------------------------------------------
(***************************************************************************)
(* Safety.  The properties speak of a kernel that has not stopped.          *)
(***************************************************************************)

\* The memory keeps its shape: every link and every index the handlers compute
\* stays in the tables (a level of 1 to 3, a slot that is a process).
TypeOK == KernelMemory(k, Procs)

Working == k.fault = "none"
Live(p) == k.status[p] # "NOT_EXIST"

\* All queues, as one function.
Places == ({"ready"} \X (1..3)) \cup {<<"sleep", 0>>} \cup WaitQueues
QueueAt(x) == CASE x[1] = "ready" -> k.ready[x[2]]
                [] x[1] = "sleep" -> k.sleep
                [] OTHER -> k.waiting[x]

\* No PCB is linked twice: the prev and next pointers of a PCB serve one queue
\* at a time, so a process that a wakeup, a kill or a switch leaves on a second
\* queue (or twice on one) destroys both.
LinkedOnce ==
    Working => \A x, y \in Places : \A n \in DOMAIN QueueAt(x), m \in DOMAIN QueueAt(y) :
                   QueueAt(x)[n] = QueueAt(y)[m] => x = y /\ n = m

\* A process is on the queue its status names: do_kill relies on this to find
\* it (status and priority choose the queue that is searched), and a READY or
\* SLEEPING process that is on no queue would never run again.  The running
\* process is on none.
StatusNamesQueue ==
    Working =>
      /\ \A p \in Slots, n \in 1..3 :
            p \in Members(k.ready[n]) <=> k.status[p] = "READY" /\ k.priority[p] = n
      /\ \A p \in Slots : p \in Members(k.sleep) <=> k.status[p] = "SLEEPING"
      /\ \A q \in WaitQueues : \A p \in Members(k.waiting[q]) : k.status[p] = "BLOCKED"
      /\ \A p \in Slots : k.status[p] = "RUNNING" <=> p = current /\ p # 0

\* The fields do_kill searches by name the queue a blocked process is on:
\* lock_waiting for a mutex, else waiting_pcb for a process, and neither for a
\* process on the queue of a condition, semaphore or barrier.
KillCanFind ==
    Working =>
      /\ \A l \in Locks, p \in Slots :
            p \in Members(k.waiting[LockQ(l)]) <=>
                k.status[p] = "BLOCKED" /\ k.lock_waiting[p] = l
      /\ \A i \in Slots : \A p \in Members(k.waiting[WaitQ(i)]) :
            /\ k.lock_waiting[p] = NULL
            /\ k.waiting_pcb[p] # -1
            /\ FindPid(k, k.waiting_pcb[p]) = i
      /\ \A q \in WaitQueues : q[1] \in {"cond", "sem", "barrier"} =>
            \A p \in Members(k.waiting[q]) : k.lock_waiting[p] = NULL /\ k.waiting_pcb[p] = -1

\* No lock is orphaned: a locked mutex belongs to a live process that has it
\* in lock_owned (so that exit and kill give it back), exactly once, and
\* nothing is in the table of a process that does not own it.
LockTable ==
    Working =>
      /\ \A l \in Locks : k.locked[l] =>
            \E p \in UserSlots : Live(p) /\ k.pid[p] = k.owner[l]
      /\ \A p \in Slots, j \in 1..MAX_MUTEX_OWN :
            LET l == k.lock_owned[p][j]
            IN  l # NULL => /\ k.locked[l] /\ k.owner[l] = k.pid[p] /\ p \in UserSlots /\ Live(p)
                            /\ \A i \in 1..MAX_MUTEX_OWN : k.lock_owned[p][i] = l => i = j
      /\ \A l \in Locks, p \in UserSlots :
            k.locked[l] /\ Live(p) /\ k.pid[p] = k.owner[l] =>
                \E j \in 1..MAX_MUTEX_OWN : k.lock_owned[p][j] = l

\* Nobody sleeps on a free lock: release wakes every waiter, and a waiter that
\* finds the lock taken again by somebody else queues up again.
NoLostLockWakeup ==
    Working => \A l \in Locks : ~k.locked[l] => k.waiting[LockQ(l)] = <<>>

\* The counters of the other objects agree with their queues, although the
\* queue is changed by one function and the counter by another.  A barrier that
\* was never initialised has the goal 0 and counts without blocking.
CountersMatchQueues ==
    Working =>
      /\ \A c \in Conds : k.num_waiting[c] = Len(k.waiting[CondQ(c)])
      /\ \A s \in Sems : Len(k.waiting[SemQ(s)]) = IF k.sem[s] < 0 THEN -k.sem[s] ELSE 0
      /\ \A b \in Barriers : k.num_expected[b] > 0 =>
            /\ k.num_now[b] = Len(k.waiting[BarrierQ(b)])
            /\ k.num_now[b] < k.num_expected[b]

\* The kernel never dequeues from an empty queue: the shell keeps the ready
\* queues from running dry, and a semaphore or condition whose counter says
\* that somebody waits has a process to wake.
NeverNull == k.fault # "null"

\* A process on the queue of a condition has given up the lock it will take
\* again: it cannot hold the lock against the process that is to signal it.
CondWaiterGaveUpLock ==
    Working => \A c \in Conds : \A p \in Members(k.waiting[CondQ(c)]) :
        \E l \in Locks : /\ k.context[p] = <<"acquire", l>>
                         /\ \A j \in 1..MAX_MUTEX_OWN : k.lock_owned[p][j] # l

-----------------------------------------------------------------------------
(***************************************************************************)
(* Action properties: what no step does.                                    *)
(***************************************************************************)

\* A killed process never runs again: a slot comes back to life only under a
\* new pid, and the pid of a live process does not change.
DeadStaysDead ==
    [][\A p \in UserSlots :
          /\ ~Live(p) /\ Live(p)' => k'.pid[p] = k.next_pid
          /\ Live(p) /\ Live(p)' => k'.pid[p] = k.pid[p]]_k

\* waitpid returns when the process it waits for dies, and not before: a
\* process blocked in do_wait is made ready only when no live process has the
\* pid it waits for, and is made ready by the kill or the exit that takes the
\* last such process away.  (Waiting for a process that is gone already never
\* returns.)
Gone(m, pid) == \A i \in UserSlots : m.pid[i] = pid => m.status[i] = "NOT_EXIST"
WaitReturnsAfterDeath ==
    [][\A p \in UserSlots :
          k.status[p] = "BLOCKED" /\ k.lock_waiting[p] = NULL /\ k.waiting_pcb[p] # -1 =>
            LET target == k.waiting_pcb[p]
            IN  /\ k'.status[p] \in {"READY", "RUNNING"} => Gone(k', target)
                /\ ~Gone(k, target) /\ Gone(k', target) /\ k'.fault = "none"
                     => k'.status[p] # "BLOCKED"]_k

\* A barrier opens for everybody at once: no process leaves its queue before
\* the goal is reached, and none is left behind when it is.
BarrierRound ==
    [][\A b \in Barriers :
          LET q == k.waiting[BarrierQ(b)]
          IN  k'.waiting[BarrierQ(b)] # q /\ Len(k'.waiting[BarrierQ(b)]) <= Len(q)
              => k'.waiting[BarrierQ(b)] = <<>> /\ Len(q) + 1 = k.num_expected[b]]_k

\* A sleeper wakes when its alarm is over and not before: a step that makes it
\* ready finds the alarm passed, and no switch leaves a sleeper asleep whose
\* alarm passed, wherever it is in the queue.
SleepersWakeOnTime ==
    [][\A p \in UserSlots :
          k.status[p] = "SLEEPING" /\ k'.fault = "none" =>
             /\ k'.status[p] \in {"READY", "RUNNING"} => Due(k, p)
             /\ k'.current_running # current /\ Due(k, p) => k'.status[p] # "SLEEPING"]_k

-----------------------------------------------------------------------------
(***************************************************************************)
(* Liveness.  The timer interrupts user code again and again, whatever the  *)
(* processes do: the interrupt is raised by the CPU's counter, stays        *)
(* pending while the kernel runs and is taken on the return to user code.   *)
(* What the kernel has to finish with interrupts closed it finishes.        *)
(***************************************************************************)

\* Strong fairness of Timer, with its enabling condition written out.
TimerFires == []<>InUser => []<><<Timer>>_k

FairSpec == Spec /\ TimerFires /\ WF_k(ResumeTimer) /\ WF_k(ResumeAcquire)

\* The largest value get_timer() returns before time_elapsed wraps around:
\* 429 in the code.
LastTimer == (WORD - 1) \div TIMER_UNIT

\* Nobody sleeps for ever: a sleeper wakes up (or is killed, or the kernel stops)
\* if the clock can pass its alarm at all.
SleeperWakes ==
    \A p \in UserSlots :
        []<>(~Working \/ k.status[p] # "SLEEPING" \/ k.alarm_time[p] >= LastTimer)

\* A blocked process is made ready: by a signal, a release, a death.
Unblock == \E q \in Slots : k.status[q] = "BLOCKED" /\ k'.status[q] \in {"READY", "RUNNING"}

\* Nobody is ready for ever: a ready process gets the CPU, on whatever level it
\* is queued, while the others sleep and wake, block, exit and start.  The levels have no ageing, so
\* that this is promised only if processes are not unblocked for ever: two that
\* signal each other always come back on the first level.
ReadyRuns ==
    \/ \A p \in Procs : []<>(~Working \/ k.status[p] # "READY")
    \/ []<><<Unblock>>_k
=============================================================================
