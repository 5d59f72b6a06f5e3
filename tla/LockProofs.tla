----------------------------- MODULE LockProofs -----------------------------
(***************************************************************************)
(* No mutex is ever orphaned (LockTable of Kernel.tla), for any number of   *)
(* processes and locks.                                                     *)
(*                                                                         *)
(* The inductive invariant LockInv says of a kernel at work that pids are   *)
(* unique and below the next one, that every entry of a lock_owned table    *)
(* belongs to a locked mutex whose owner is the slot's process, and that    *)
(* every locked mutex is in a table.  do_kill and do_exit break its last    *)
(* demand, that the owner lives, and repair it entry by entry; the set X of *)
(* slots that are exempt follows them through.  Everything that only        *)
(* blocks, wakes, queues or switches keeps the fields LockInv is about      *)
(* (Keeps).                                                                 *)
(***************************************************************************)
EXTENDS KernelProofs

Spawned(m) == {p \in Procs : m.pid[p] # 0}

Pids(m) ==
    /\ m.next_pid # 0
    /\ \A p \in Slots : m.pid[p] < m.next_pid
    /\ \A p, q \in UserSlots : m.pid[p] = m.pid[q] /\ m.pid[p] # 0 => p = q

\* The mutex in entry j of slot p.
Entry(m, X, p, j, l) ==
    /\ l \in Locks /\ m.locked[l] /\ m.owner[l] = m.pid[p]
    /\ p \in UserSlots /\ m.pid[p] # 0
    /\ p \in X \/ m.status[p] # "NOT_EXIST"
    /\ \A i \in 1..MAX_MUTEX_OWN : m.lock_owned[p][i] = l => i = j

Entries(m, X) ==
    \A p \in Slots, j \in 1..MAX_MUTEX_OWN :
        m.lock_owned[p][j] # NULL => Entry(m, X, p, j, m.lock_owned[p][j])

Held(m) ==
    \A l \in Locks : m.locked[l] =>
        \E p \in UserSlots, j \in 1..MAX_MUTEX_OWN : m.lock_owned[p][j] = l

LockInv(m, X) == Pids(m) /\ Entries(m, X) /\ Held(m)

\* The running process is alive.
Runs(m) == m.fault = "none" => m.status[m.current_running] # "NOT_EXIST"

-----------------------------------------------------------------------------
(***************************************************************************)
(* What scheduling, blocking and waking leave alone.                        *)
(***************************************************************************)
Lives(m, n) == \A p \in Slots : m.status[p] # "NOT_EXIST" => n.status[p] # "NOT_EXIST"

Keeps(m, n) ==
    /\ n.pid = m.pid /\ n.next_pid = m.next_pid
    /\ n.lock_owned = m.lock_owned /\ n.locked = m.locked /\ n.owner = m.owner
    /\ Lives(m, n)

LEMMA KeepsInv ==
  ASSUME NEW m, NEW n, NEW X, Keeps(m, n), LockInv(m, X)
  PROVE  LockInv(n, X)
<1>1. Pids(n)
  BY DEF Keeps, LockInv, Pids
<1>2. Entries(n, X)
  BY DEF Keeps, Lives, LockInv, Entries, Entry
<1>3. Held(n)
  BY DEF Keeps, LockInv, Held
<1> QED BY <1>1, <1>2, <1>3 DEF LockInv

LEMMA KeepsTrans ==
  ASSUME NEW m, NEW n, NEW o, Keeps(m, n), Keeps(n, o)
  PROVE  Keeps(m, o)
  BY DEF Keeps, Lives

LEMMA KeepsSelf == ASSUME NEW m PROVE Keeps(m, m)
  BY DEF Keeps, Lives

LEMMA StopKeeps ==
  ASSUME NEW S \in SUBSET Procs, NEW m, KernelMemory(m, S), NEW f
  PROVE  Keeps(m, Stop(m, f)) /\ Stop(m, f).current_running = m.current_running
         /\ Stop(m, f).fault = f
  BY DEF Keeps, Lives, Stop, KernelMemory, Fields

LEMMA BlockKeeps ==
  ASSUME NEW S \in SUBSET Procs, NEW m, KernelMemory(m, S), NEW q
  PROVE  Keeps(m, do_block(m, q))
  BY DEF Keeps, Lives, do_block, KernelMemory, Fields

LEMMA UnblockAllKeeps ==
  ASSUME NEW S \in SUBSET Procs, NEW m, KernelMemory(m, S), NEW q
  PROVE  /\ Keeps(m, do_unblock_all(m, q))
         /\ do_unblock_all(m, q).current_running = m.current_running
  BY DEF Keeps, Lives, do_unblock_all, KernelMemory, Fields

LEMMA UnblockOneKeeps ==
  ASSUME NEW S \in SUBSET Procs, NEW m, KernelMemory(m, S), NEW q
  PROVE  /\ Keeps(m, do_unblock_one(m, q))
         /\ do_unblock_one(m, q).current_running = m.current_running
<1> DEFINE p == Head(m.waiting[q])
           n1 == [m EXCEPT !.waiting[q] = Tail(@), !.status[p] = "READY",
                           !.priority[p] = 1, !.ready[1] = Append(@, p)]
<1>1. do_unblock_one(m, q) \in {Stop(m, "null"), n1}
  BY DEF do_unblock_one
<1>2. Keeps(m, n1) /\ n1.current_running = m.current_running
  <2> HIDE DEF p
  <2> QED BY DEF Keeps, Lives, KernelMemory, Fields
<1> HIDE DEF n1
<1> QED BY <1>1, <1>2, StopKeeps

LEMMA CheckSleepingKeeps ==
  ASSUME NEW S \in SUBSET Procs, NEW m, KernelMemory(m, S)
  PROVE  Keeps(m, check_sleeping(m))
<1>1. PICK sl, up, woken : check_sleeping(m) \in
         {Stop(m, "interior"),
          [m EXCEPT !.sleep    = sl,
                    !.status   = [p \in Slots |-> IF p \in up THEN "READY" ELSE m.status[p]],
                    !.priority = [p \in Slots |-> IF p \in up THEN 1 ELSE m.priority[p]],
                    !.ready[1] = m.ready[1] \o woken]}
  BY ZenonT(60) DEF check_sleeping
<1> DEFINE n1 == [m EXCEPT !.sleep    = sl,
                    !.status   = [p \in Slots |-> IF p \in up THEN "READY" ELSE m.status[p]],
                    !.priority = [p \in Slots |-> IF p \in up THEN 1 ELSE m.priority[p]],
                    !.ready[1] = m.ready[1] \o woken]
<1>2. Keeps(m, n1)
  BY DEF Keeps, Lives, KernelMemory, Fields
<1>3. check_sleeping(m) \in {Stop(m, "interior"), n1}
  BY <1>1, Zenon
<1> HIDE DEF n1
<1> QED BY <1>2, <1>3, StopKeeps

LEMMA PutBackKeeps ==
  ASSUME NEW S \in SUBSET Procs, NEW m, KernelMemory(m, S)
  PROVE  Keeps(m, PutBack(m))
<1>1. PICK prio : PutBack(m) \in
         {[m EXCEPT !.priority[m.current_running] = prio],
          Stop([m EXCEPT !.priority[m.current_running] = prio], "relinked"),
          [[m EXCEPT !.priority[m.current_running] = prio] EXCEPT
              !.ready[prio] = Append(@, m.current_running)]}
  BY DEF PutBack
<1> DEFINE m1 == [m EXCEPT !.priority[m.current_running] = prio]
           m2 == [m1 EXCEPT !.ready[prio] = Append(@, m.current_running)]
<1>2. Keeps(m, m1) /\ DOMAIN m1 = Fields
  BY DEF Keeps, Lives, KernelMemory, Fields
<1>3. Keeps(m1, m2)
  <2> HIDE DEF m1
  <2> QED BY <1>2 DEF Keeps, Lives, Fields
<1>4. Keeps(m1, Stop(m1, "relinked"))
  <2> HIDE DEF m1
  <2> QED BY <1>2 DEF Keeps, Lives, Fields, Stop
<1>5. PutBack(m) \in {m1, m2, Stop(m1, "relinked")}
  BY <1>1
<1> HIDE DEF m1, m2
<1> QED BY <1>2, <1>3, <1>4, <1>5, KeepsTrans

LEMMA PickNextKeeps ==
  ASSUME NEW S \in SUBSET Procs, NEW m, KernelMemory(m, S)
  PROVE  Keeps(m, PickNext(m)) /\ Runs(PickNext(m))
<1> DEFINE n == IF m.ready[1] # <<>> THEN 1 ELSE IF m.ready[2] # <<>> THEN 2 ELSE 3
           p == Head(m.ready[n])
           n1 == [m EXCEPT !.ready[n] = Tail(@), !.status[p] = "RUNNING", !.current_running = p]
<1>1. \/ PickNext(m) = Stop(m, "null")
      \/ m.ready[n] # <<>> /\ PickNext(m) = n1
  BY DEF PickNext
<1>2. CASE m.ready[n] # <<>> /\ PickNext(m) = n1
  <2>0. n \in 1..3
    OBVIOUS
  <2>1. m.ready[n] \in Seq(S)
    BY <2>0 DEF KernelMemory
  <2>2. p \in S
    BY <1>2, <2>1
  <2>3. p \in Slots
    BY <2>2, CurrentType
  <2> HIDE DEF p, n
  <2>4. Keeps(m, n1) /\ Runs(n1)
    BY <2>3 DEF Keeps, Lives, Runs, KernelMemory, Fields
  <2> HIDE DEF n1
  <2> QED BY <1>2, <2>4
<1>3. CASE PickNext(m) = Stop(m, "null")
  BY <1>3, StopKeeps DEF Runs
<1> HIDE DEF n1, n
<1> QED BY <1>1, <1>2, <1>3

LEMMA SchedulerKeeps ==
  ASSUME NEW S \in SUBSET Procs, NEW m, MemInv(m, S)
  PROVE  Keeps(m, scheduler(m)) /\ Runs(scheduler(m))
<1> DEFINE cur == m.current_running
           k1 == IF m.status[cur] = "RUNNING" THEN [m EXCEPT !.status[cur] = "READY"] ELSE m
           k2 == check_sleeping(k1)
           k3 == IF k2.fault = "none" THEN PutBack(k2) ELSE k2
           k4 == IF k3.fault = "none" THEN PickNext(k3) ELSE k3
<1>1. scheduler(m) = k4
  BY DEF scheduler
<1>2. MidInv(k1, S) /\ Keeps(m, k1)
  <2>1. MidInv(k1, S)
    BY Demotion
  <2>2. Keeps(m, k1)
    BY DEF Keeps, Lives, MemInv, KernelMemory, Fields
  <2> QED BY <2>1, <2>2
<1> HIDE DEF k1
<1>3. MidInv(k2, S) /\ Keeps(k1, k2) /\ (k2.fault # "none" => MemInv(k2, S))
  BY <1>2, CheckSleepingType, CheckSleepingKeeps DEF MidInv
<1> HIDE DEF k2
<1>4. MemInv(k3, S) /\ Keeps(k2, k3)
  BY <1>3, PutBackType, PutBackKeeps, KeepsSelf DEF MidInv
<1> HIDE DEF k3
<1>5. Keeps(k3, k4) /\ Runs(k4)
  BY <1>4, PickNextKeeps, KeepsSelf DEF MemInv, Runs
<1> HIDE DEF k4
<1>6. Keeps(m, k2)
  BY <1>2, <1>3, KeepsTrans
<1>7. Keeps(m, k3)
  BY <1>4, <1>6, KeepsTrans
<1> QED BY <1>1, <1>5, <1>7, KeepsTrans

\* A switch of process ends with a live process on the CPU, or the kernel has
\* stopped.
LEMMA SwitchKeeps ==
  ASSUME NEW S \in SUBSET Procs, NEW m, MemInv(m, S), NEW after \in Contexts,
         after \in {"acquire"} \X Locks => m.current_running \in UserSlots
  PROVE  Keeps(m, do_scheduler(m, after)) /\ Runs(do_scheduler(m, after))
<1> DEFINE n1 == [m EXCEPT !.context[m.current_running] = after]
<1>1. CASE m.fault # "none"
  BY <1>1, KeepsSelf DEF do_scheduler, Runs
<1>2. CASE m.fault = "none"
  <2>1. MemInv(n1, S)
    BY ContextType
  <2>2. Keeps(m, n1)
    BY DEF Keeps, Lives, MemInv, KernelMemory, Fields
  <2>3. do_scheduler(m, after) = scheduler(n1)
    BY <1>2 DEF do_scheduler
  <2> HIDE DEF n1
  <2>4. Keeps(n1, scheduler(n1)) /\ Runs(scheduler(n1))
    BY <2>1, SchedulerKeeps
  <2> QED BY <2>2, <2>3, <2>4, KeepsTrans
<1> QED BY <1>1, <1>2

\* What a call that ends in a switch leaves behind, by what it did before.
LEMMA ThenSwitch ==
  ASSUME NEW S \in SUBSET Procs, NEW m, NEW n, Keeps(m, n), MemInv(n, S)
  PROVE  Keeps(m, do_scheduler(n, User)) /\ Runs(do_scheduler(n, User))
  BY SwitchKeeps, UserContext, KeepsTrans

-----------------------------------------------------------------------------
(***************************************************************************)
(* The calls that concern no mutex.                                         *)
(***************************************************************************)

\* What every step but spawn does to the part of the memory LockInv is about.
After(m, n) ==
    /\ n.pid = m.pid
    /\ n.fault = "none" => LockInv(n, {})
    /\ Runs(n)

LEMMA KeepsAfter ==
  ASSUME NEW m, NEW n, Keeps(m, n), Runs(n), LockInv(m, {})
  PROVE  After(m, n)
  BY KeepsInv DEF After, Keeps

\* A step that leaves the running process where it is.
LEMMA RunsOn ==
  ASSUME NEW S \in SUBSET Procs, NEW m, NEW n, KernelMemory(m, S), Lives(m, n), Runs(m),
         m.fault = "none", n.current_running = m.current_running
  PROVE  Runs(n)
  BY CurrentType DEF Runs, Lives

LEMMA CounterKeeps ==
  ASSUME NEW S \in SUBSET Procs, NEW m, KernelMemory(m, S), NEW x, NEW y
  PROVE  /\ Keeps(m, [m EXCEPT !.num_waiting[y] = x])
         /\ Keeps(m, [m EXCEPT !.sem[y] = x])
         /\ Keeps(m, [m EXCEPT !.num_now[y] = x])
<1>1. Keeps(m, [m EXCEPT !.num_waiting[y] = x])
  BY DEF Keeps, Lives, KernelMemory, Fields
<1>2. Keeps(m, [m EXCEPT !.sem[y] = x])
  BY DEF Keeps, Lives, KernelMemory, Fields
<1>3. Keeps(m, [m EXCEPT !.num_now[y] = x])
  BY DEF Keeps, Lives, KernelMemory, Fields
<1> QED BY <1>1, <1>2, <1>3

LEMMA TimerKeeps ==
  ASSUME NEW S \in SUBSET Procs, NEW m, MemInv(m, S), m.fault = "none", Runs(m)
  PROVE  /\ Keeps(m, irq_timer_enter(m)) /\ Runs(irq_timer_enter(m))
         /\ Keeps(m, irq_timer_return(m)) /\ Runs(irq_timer_return(m))
<1>1. Keeps(m, irq_timer_enter(m)) /\ Runs(irq_timer_enter(m))
  BY SwitchKeeps, UserContext DEF irq_timer_enter
<1>2. Keeps(m, irq_timer_return(m)) /\ irq_timer_return(m).current_running = m.current_running
  BY DEF irq_timer_return, Keeps, Lives, MemInv, KernelMemory, Fields
<1>3. Runs(irq_timer_return(m))
  BY <1>2, RunsOn DEF Keeps, MemInv
<1> QED BY <1>1, <1>2, <1>3

LEMMA SleepKeeps ==
  ASSUME NEW S \in SUBSET Procs, NEW m, MemInv(m, S), m.current_running # 0, NEW t \in Nat
  PROVE  Keeps(m, do_sleep(m, t)) /\ Runs(do_sleep(m, t))
<1> DEFINE cur == m.current_running
           n1 == [m EXCEPT !.status[cur] = "SLEEPING",
                           !.alarm_time[cur] = (t + get_timer(m)) % WORD,
                           !.sleep = Append(@, cur)]
<1>1. do_sleep(m, t) = do_scheduler(n1, User)
  BY DEF do_sleep
<1>2. MemInv(n1, S)
  BY AlarmType
<1>3. Keeps(m, n1)
  <2> DEFINE al == (t + get_timer(m)) % WORD
  <2> HIDE DEF al, cur
  <2> SUFFICES Keeps(m, [m EXCEPT !.status[cur] = "SLEEPING", !.alarm_time[cur] = al,
                                  !.sleep = Append(@, cur)])
    BY DEF al
  <2> QED BY DEF Keeps, Lives, MemInv, KernelMemory, Fields
<1> HIDE DEF n1
<1> QED BY <1>1, <1>2, <1>3, ThenSwitch

LEMMA WaitKeeps ==
  ASSUME NEW S \in SUBSET Procs, NEW m, MemInv(m, S), m.current_running # 0, NEW pid \in Nat
  PROVE  Keeps(m, do_wait(m, pid)) /\ Runs(do_wait(m, pid))
<1> DEFINE b == do_block(m, WaitQ(FindPid(m, pid)))
           n1 == [b EXCEPT !.waiting_pcb[m.current_running] = pid]
<1>1. do_wait(m, pid) = do_scheduler(n1, User)
  BY DEF do_wait
<1>2. MemInv(n1, S) /\ DOMAIN b = Fields
  <2>1. MemInv(n1, S) /\ MemInv(b, S)
    BY WaitBlockType
  <2> HIDE DEF b, n1
  <2> QED BY <2>1 DEF MemInv, KernelMemory
<1>3. Keeps(m, b)
  BY BlockKeeps DEF MemInv
<1> HIDE DEF b
<1>4. Keeps(b, n1)
  BY <1>2 DEF Keeps, Lives, Fields
<1> HIDE DEF n1
<1>5. Keeps(m, n1)
  BY <1>3, <1>4, KeepsTrans
<1> QED BY <1>1, <1>2, <1>5, ThenSwitch

LEMMA CondKeeps ==
  ASSUME NEW S \in SUBSET Procs, NEW m, MemInv(m, S), m.fault = "none", Runs(m), NEW c \in Conds
  PROVE  /\ Keeps(m, do_condition_init(m, c)) /\ Runs(do_condition_init(m, c))
         /\ Keeps(m, do_condition_signal(m, c)) /\ Runs(do_condition_signal(m, c))
         /\ Keeps(m, do_condition_broadcast(m, c)) /\ Runs(do_condition_broadcast(m, c))
<1>1. Keeps(m, do_condition_init(m, c)) /\ Runs(do_condition_init(m, c))
  <2>1. Keeps(m, do_condition_init(m, c))
        /\ do_condition_init(m, c).current_running = m.current_running
    BY DEF do_condition_init, Keeps, Lives, MemInv, KernelMemory, Fields
  <2> QED BY <2>1, RunsOn DEF Keeps, MemInv
<1>2. Keeps(m, do_condition_signal(m, c)) /\ Runs(do_condition_signal(m, c))
  <2> DEFINE k1 == do_unblock_one(m, CondQ(c))
             k2 == [k1 EXCEPT !.num_waiting[c] = k1.num_waiting[c] - 1]
  <2>1. do_condition_signal(m, c) \in {m, k1, k2}
    BY DEF do_condition_signal
  <2>2. Keeps(m, k1) /\ k1.current_running = m.current_running
    BY UnblockOneKeeps DEF MemInv
  <2>3. MemInv(k1, S)
    BY UnblockOneType, QueueNames
  <2> HIDE DEF k1
  <2>4. Keeps(k1, k2) /\ k2.current_running = m.current_running
    <3>1. KernelMemory(k1, S)
      BY <2>3 DEF MemInv
    <3>2. Keeps(k1, k2)
      BY <3>1, CounterKeeps
    <3>3. k2.current_running = k1.current_running
      BY <3>1, SameCurrent
    <3> QED BY <2>2, <3>2, <3>3
  <2> HIDE DEF k2
  <2>5. Keeps(m, k2)
    BY <2>2, <2>4, KeepsTrans
  <2>6. Runs(k1) /\ Runs(k2)
    BY <2>2, <2>4, <2>5, RunsOn DEF Keeps, MemInv
  <2> QED BY <2>1, <2>2, <2>5, <2>6, KeepsSelf
<1>3. Keeps(m, do_condition_broadcast(m, c)) /\ Runs(do_condition_broadcast(m, c))
  <2> DEFINE k1 == do_unblock_all(m, CondQ(c))
             k2 == [k1 EXCEPT !.num_waiting[c] = 0]
  <2>1. do_condition_broadcast(m, c) \in {m, k2}
    BY DEF do_condition_broadcast
  <2>2. Keeps(m, k1) /\ k1.current_running = m.current_running
    BY UnblockAllKeeps DEF MemInv
  <2>3. MemInv(k1, S)
    BY UnblockAllType, QueueNames
  <2> HIDE DEF k1
  <2>4. Keeps(k1, k2) /\ k2.current_running = m.current_running
    <3>1. KernelMemory(k1, S)
      BY <2>3 DEF MemInv
    <3>2. Keeps(k1, k2)
      BY <3>1, CounterKeeps
    <3>3. k2.current_running = k1.current_running
      BY <3>1, SameCurrent
    <3> QED BY <2>2, <3>2, <3>3
  <2> HIDE DEF k2
  <2>5. Keeps(m, k2)
    BY <2>2, <2>4, KeepsTrans
  <2>6. Runs(k2)
    BY <2>4, <2>5, RunsOn DEF Keeps, MemInv
  <2> QED BY <2>1, <2>5, <2>6, KeepsSelf
<1> QED BY <1>1, <1>2, <1>3

LEMMA SemKeeps ==
  ASSUME NEW S \in SUBSET Procs, NEW m, MemInv(m, S), m.current_running # 0,
         m.fault = "none", Runs(m), NEW s \in Sems, NEW v \in Int
  PROVE  /\ Keeps(m, do_semaphore_init(m, s, v)) /\ Runs(do_semaphore_init(m, s, v))
         /\ Keeps(m, do_semaphore_up(m, s)) /\ Runs(do_semaphore_up(m, s))
         /\ Keeps(m, do_semaphore_down(m, s)) /\ Runs(do_semaphore_down(m, s))
<1>1. Keeps(m, do_semaphore_init(m, s, v)) /\ Runs(do_semaphore_init(m, s, v))
  <2>1. Keeps(m, do_semaphore_init(m, s, v))
        /\ do_semaphore_init(m, s, v).current_running = m.current_running
    BY DEF do_semaphore_init, Keeps, Lives, MemInv, KernelMemory, Fields
  <2> QED BY <2>1, RunsOn DEF Keeps, MemInv
<1> DEFINE up == [m EXCEPT !.sem[s] = m.sem[s] + 1]
           down == [m EXCEPT !.sem[s] = m.sem[s] - 1]
           one == do_unblock_one(up, SemQ(s))
           blk == do_block(down, SemQ(s))
<1>2. do_semaphore_up(m, s) \in {do_scheduler(one, User), do_scheduler(up, User)}
  BY DEF do_semaphore_up
<1>3. do_semaphore_down(m, s) \in {do_scheduler(blk, User), do_scheduler(down, User)}
  BY DEF do_semaphore_down
<1>4. /\ MemInv(up, S) /\ MemInv(down, S) /\ down.current_running = m.current_running
      /\ Keeps(m, up) /\ Keeps(m, down)
  <2> DEFINE x == m.sem[s] + 1
             y == m.sem[s] - 1
  <2>1. x \in Int /\ y \in Int
    BY DEF MemInv, KernelMemory
  <2> HIDE DEF x, y
  <2>2. MemInv([m EXCEPT !.sem[s] = x], S) /\ MemInv([m EXCEPT !.sem[s] = y], S)
    BY <2>1, CounterType
  <2>3. [m EXCEPT !.sem[s] = y].current_running = m.current_running
    BY SameCurrent DEF MemInv
  <2>4. Keeps(m, [m EXCEPT !.sem[s] = x]) /\ Keeps(m, [m EXCEPT !.sem[s] = y])
    BY CounterKeeps DEF MemInv
  <2> QED BY <2>2, <2>3, <2>4 DEF x, y
<1> HIDE DEF up, down
<1>5. MemInv(one, S) /\ Keeps(up, one)
  BY <1>4, UnblockOneType, UnblockOneKeeps, QueueNames DEF MemInv
<1>6. MemInv(blk, S) /\ Keeps(down, blk)
  <2>1. MemInv(blk, S)
    BY <1>4, BlockType, QueueNames
  <2> QED BY <1>4, <2>1, BlockKeeps DEF MemInv
<1> HIDE DEF one, blk
<1>7. Keeps(m, one) /\ Keeps(m, blk)
  BY <1>4, <1>5, <1>6, KeepsTrans
<1> QED BY <1>1, <1>2, <1>3, <1>4, <1>5, <1>6, <1>7, ThenSwitch

LEMMA BarrierKeeps ==
  ASSUME NEW S \in SUBSET Procs, NEW m, MemInv(m, S), m.current_running # 0,
         m.fault = "none", Runs(m), NEW b \in Barriers, NEW g \in Int
  PROVE  /\ Keeps(m, do_barrier_init(m, b, g)) /\ Runs(do_barrier_init(m, b, g))
         /\ Keeps(m, do_barrier_wait(m, b)) /\ Runs(do_barrier_wait(m, b))
<1>1. Keeps(m, do_barrier_init(m, b, g)) /\ Runs(do_barrier_init(m, b, g))
  <2>1. Keeps(m, do_barrier_init(m, b, g))
        /\ do_barrier_init(m, b, g).current_running = m.current_running
    BY DEF do_barrier_init, Keeps, Lives, MemInv, KernelMemory, Fields
  <2> QED BY <2>1, RunsOn DEF Keeps, MemInv
<1> DEFINE k1 == [m EXCEPT !.num_now[b] = m.num_now[b] + 1]
           blk == do_block(k1, BarrierQ(b))
           all == do_unblock_all(k1, BarrierQ(b))
           open == [all EXCEPT !.num_now[b] = 0]
<1>2. do_barrier_wait(m, b) \in {do_scheduler(blk, User), do_scheduler(open, User), k1}
  BY DEF do_barrier_wait
<1>3. MemInv(k1, S) /\ k1.current_running = m.current_running /\ Keeps(m, k1)
  <2> DEFINE x == m.num_now[b] + 1
  <2>1. x \in Int /\ x >= 0
    BY DEF MemInv, KernelMemory
  <2> HIDE DEF x
  <2>2. MemInv([m EXCEPT !.num_now[b] = x], S)
    BY <2>1, CounterType
  <2>3. [m EXCEPT !.num_now[b] = x].current_running = m.current_running
    BY SameCurrent DEF MemInv
  <2>4. Keeps(m, [m EXCEPT !.num_now[b] = x])
    BY CounterKeeps DEF MemInv
  <2> QED BY <2>2, <2>3, <2>4 DEF x
<1> HIDE DEF k1
<1>4. MemInv(blk, S) /\ Keeps(k1, blk)
  <2>1. MemInv(blk, S)
    BY <1>3, BlockType, QueueNames
  <2> QED BY <1>3, <2>1, BlockKeeps DEF MemInv
<1>5. MemInv(all, S) /\ Keeps(k1, all)
  BY <1>3, UnblockAllType, UnblockAllKeeps, QueueNames DEF MemInv
<1> HIDE DEF all
<1>6. MemInv(open, S) /\ Keeps(all, open)
  <2>1. MemInv(open, S)
    <3>1. 0 \in Int /\ 0 >= 0
      OBVIOUS
    <3> QED BY <1>5, <3>1, CounterType
  <2>2. Keeps(all, open)
    BY <1>5, CounterKeeps DEF MemInv
  <2> QED BY <2>1, <2>2
<1> HIDE DEF blk, open
<1>7. Keeps(m, blk) /\ Keeps(m, all)
  BY <1>3, <1>4, <1>5, KeepsTrans
<1>8. Keeps(m, open)
  BY <1>6, <1>7, KeepsTrans
<1>9. Runs(k1)
  BY <1>3, RunsOn DEF Keeps, MemInv
<1> QED BY <1>1, <1>2, <1>3, <1>4, <1>6, <1>7, <1>8, <1>9, ThenSwitch

-----------------------------------------------------------------------------
(***************************************************************************)
(* Mutexes.                                                                 *)
(***************************************************************************)

\* The part of a lock_owned table that a release of l leaves.
Without(t, l) == [j \in 1..MAX_MUTEX_OWN |-> IF t[j] = l THEN NULL ELSE t[j]]

\* Only the slot that do_mutex_lock_release looks up has the lock in its table.
LEMMA OnlyOwner ==
  ASSUME NEW S \in SUBSET Procs, NEW m, KernelMemory(m, S), NEW X, LockInv(m, X),
         NEW l \in Locks, NEW p \in Slots, NEW j \in 1..MAX_MUTEX_OWN, m.lock_owned[p][j] = l
  PROVE  p = FindPid(m, m.owner[l])
<1> DEFINE o == FindPid(m, m.owner[l])
<1>1. m.lock_owned[p][j] # NULL
  BY NullAssumption
<1>2. Entry(m, X, p, j, l)
  BY <1>1 DEF LockInv, Entries
<1>3. p \in UserSlots /\ m.pid[p] = m.owner[l] /\ m.pid[p] # 0
  BY <1>2 DEF Entry
<1>4. o \in UserSlots /\ m.pid[o] = m.owner[l]
  BY <1>3, FindPidIn
<1> HIDE DEF o
<1>5. p = o
  BY <1>3, <1>4 DEF LockInv, Pids
<1> QED BY <1>5 DEF o

LEMMA ReleaseInv ==
  ASSUME NEW S \in SUBSET Procs, NEW m, MemInv(m, S), NEW X, LockInv(m, X), NEW l \in Locks
  PROVE  LET n == do_mutex_lock_release(m, l)
         IN  /\ LockInv(n, X)
             /\ n.pid = m.pid /\ n.fault = m.fault /\ Lives(m, n)
             /\ \A p \in Slots, j \in 1..MAX_MUTEX_OWN :
                   n.lock_owned[p][j] = IF m.lock_owned[p][j] = l THEN NULL ELSE m.lock_owned[p][j]
<1> DEFINE o  == FindPid(m, m.owner[l])
           t  == Without(m.lock_owned[o], l)
           k1 == [m EXCEPT !.lock_owned[o] = t, !.locked[l] = FALSE]
           k2 == do_unblock_all(k1, LockQ(l))
           n  == [k2 EXCEPT !.owner[l] = -1]
<1>1. do_mutex_lock_release(m, l) = n
  BY Zenon DEF do_mutex_lock_release, Disown, Without
<1>2. o \in Slots
  BY FindPidIn DEF MemInv
<1>3. \A p \in Slots, j \in 1..MAX_MUTEX_OWN : m.lock_owned[p][j] = l => p = o
  BY OnlyOwner DEF MemInv
<1> HIDE DEF o
<1>4. /\ DOMAIN k1 = Fields /\ k1.fault = m.fault
      /\ k1.pid = m.pid /\ k1.next_pid = m.next_pid /\ k1.status = m.status
      /\ k1.lock_owned = [m.lock_owned EXCEPT ![o] = t]
      /\ k1.locked = [m.locked EXCEPT ![l] = FALSE] /\ k1.owner = m.owner
  BY DEF MemInv, KernelMemory, Fields
<1> HIDE DEF k1
<1>5. /\ DOMAIN k2 = Fields /\ k2.fault = k1.fault
      /\ k2.pid = k1.pid /\ k2.next_pid = k1.next_pid /\ Lives(k1, k2)
      /\ k2.lock_owned = k1.lock_owned /\ k2.locked = k1.locked /\ k2.owner = k1.owner
  BY <1>4 DEF do_unblock_all, Fields, Lives
<1> HIDE DEF k2
<1>6. /\ n.fault = m.fault /\ n.pid = m.pid /\ n.next_pid = m.next_pid /\ Lives(m, n)
      /\ n.lock_owned = [m.lock_owned EXCEPT ![o] = t]
      /\ n.locked = [m.locked EXCEPT ![l] = FALSE] /\ n.owner = [m.owner EXCEPT ![l] = -1]
  <2>1. /\ n.fault = k2.fault /\ n.pid = k2.pid /\ n.next_pid = k2.next_pid
        /\ n.status = k2.status /\ n.lock_owned = k2.lock_owned /\ n.locked = k2.locked
        /\ n.owner = [k2.owner EXCEPT ![l] = -1]
    BY <1>5 DEF Fields
  <2> HIDE DEF n
  <2> QED BY <1>4, <1>5, <2>1 DEF Lives
<1> HIDE DEF n
<1>7. /\ m.lock_owned \in [Slots -> [1..MAX_MUTEX_OWN -> Locks \cup {NULL}]]
      /\ m.locked \in [Locks -> BOOLEAN] /\ m.owner \in [Locks -> Int]
  BY DEF MemInv, KernelMemory
<1>8. \A p \in Slots, j \in 1..MAX_MUTEX_OWN :
         n.lock_owned[p][j] = IF m.lock_owned[p][j] = l THEN NULL ELSE m.lock_owned[p][j]
  <2> SUFFICES ASSUME NEW p \in Slots, NEW j \in 1..MAX_MUTEX_OWN
               PROVE  n.lock_owned[p][j] = IF m.lock_owned[p][j] = l THEN NULL
                                           ELSE m.lock_owned[p][j]
    OBVIOUS
  <2>1. CASE p = o
    BY <1>2, <1>6, <1>7, <2>1 DEF Without
  <2>2. CASE p # o
    BY <1>2, <1>3, <1>6, <1>7, <2>2
  <2> QED BY <2>1, <2>2
<1>9. Pids(n)
  BY <1>6 DEF LockInv, Pids
<1> HIDE DEF t
<1>10. Entries(n, X)
  <2> SUFFICES ASSUME NEW p \in Slots, NEW j \in 1..MAX_MUTEX_OWN, n.lock_owned[p][j] # NULL
               PROVE  Entry(n, X, p, j, n.lock_owned[p][j])
    BY DEF Entries
  <2> DEFINE h == m.lock_owned[p][j]
  <2>1. h # l /\ n.lock_owned[p][j] = h /\ h # NULL
    BY <1>8
  <2>2. Entry(m, X, p, j, h)
    BY <2>1 DEF LockInv, Entries
  <2>3. \A i \in 1..MAX_MUTEX_OWN : n.lock_owned[p][i] = h => m.lock_owned[p][i] = h
    BY <1>8, <2>1
  <2> HIDE DEF h
  <2>4. n.locked[h] /\ n.owner[h] = m.owner[h]
    BY <1>6, <1>7, <2>1, <2>2 DEF Entry
  <2>5. Entry(n, X, p, j, h)
    BY <1>6, <2>2, <2>3, <2>4 DEF Entry, Lives
  <2> QED BY <2>1, <2>5
<1>11. Held(n)
  <2> SUFFICES ASSUME NEW h \in Locks, n.locked[h]
               PROVE  \E p \in UserSlots, j \in 1..MAX_MUTEX_OWN : n.lock_owned[p][j] = h
    BY DEF Held
  <2>1. h # l /\ m.locked[h]
    BY <1>6, <1>7
  <2>2. PICK p \in UserSlots, j \in 1..MAX_MUTEX_OWN : m.lock_owned[p][j] = h
    BY <2>1 DEF LockInv, Held
  <2>3. p \in Slots
    BY SizeAssumption DEF UserSlots, Slots
  <2> QED BY <1>8, <2>1, <2>2, <2>3
<1> QED BY <1>1, <1>6, <1>8, <1>9, <1>10, <1>11 DEF LockInv

LEMMA LockInitInv ==
  ASSUME NEW S \in SUBSET Procs, NEW m, MemInv(m, S), LockInv(m, {}), m.fault = "none", Runs(m),
         NEW l \in Locks, ~m.locked[l]
  PROVE  After(m, do_mutex_lock_init(m, l))
<1> DEFINE n == do_mutex_lock_init(m, l)
<1>1. /\ n.pid = m.pid /\ n.next_pid = m.next_pid /\ n.status = m.status
      /\ n.lock_owned = m.lock_owned /\ n.current_running = m.current_running
      /\ n.locked = [m.locked EXCEPT ![l] = FALSE] /\ n.owner = [m.owner EXCEPT ![l] = -1]
  BY DEF do_mutex_lock_init, MemInv, KernelMemory, Fields
<1>2. m.locked \in [Locks -> BOOLEAN] /\ m.owner \in [Locks -> Int]
  BY DEF MemInv, KernelMemory
<1> HIDE DEF n
<1>3. Pids(n)
  BY <1>1 DEF LockInv, Pids
<1>4. Entries(n, {})
  <2> SUFFICES ASSUME NEW p \in Slots, NEW j \in 1..MAX_MUTEX_OWN, m.lock_owned[p][j] # NULL
               PROVE  Entry(n, {}, p, j, m.lock_owned[p][j])
    BY <1>1 DEF Entries
  <2> DEFINE h == m.lock_owned[p][j]
  <2>1. Entry(m, {}, p, j, h)
    BY DEF LockInv, Entries
  <2> HIDE DEF h
  <2>2. h # l /\ n.locked[h] /\ n.owner[h] = m.owner[h]
    BY <1>1, <1>2, <2>1 DEF Entry
  <2>3. Entry(n, {}, p, j, h)
    BY <1>1, <2>1, <2>2 DEF Entry
  <2> QED BY <2>3 DEF h
<1>5. Held(n)
  BY <1>1, <1>2 DEF LockInv, Held
<1>6. Runs(n)
  BY <1>1 DEF Runs
<1> QED BY <1>1, <1>3, <1>4, <1>5, <1>6 DEF After, LockInv, n

\* The running process takes a free mutex: it is in no table yet, and goes to
\* the first free entry of a live process.
LEMMA TakeInv ==
  ASSUME NEW S \in SUBSET Procs, NEW m, NEW n, MemInv(m, S), LockInv(m, {}), NEW l \in Locks,
         ~m.locked[l], NEW cur \in UserSlots, NEW f \in 1..MAX_MUTEX_OWN,
         m.lock_owned[cur][f] = NULL, m.status[cur] # "NOT_EXIST", m.pid[cur] # 0,
         n.pid = m.pid, n.next_pid = m.next_pid, n.status = m.status,
         n.locked = [m.locked EXCEPT ![l] = TRUE],
         n.owner = [m.owner EXCEPT ![l] = m.pid[cur]],
         \A p \in Slots, j \in 1..MAX_MUTEX_OWN :
             n.lock_owned[p][j] = IF p = cur /\ j = f THEN l ELSE m.lock_owned[p][j]
  PROVE  LockInv(n, {})
<1>0. cur \in Slots
  BY SizeAssumption DEF UserSlots, Slots
<1>1. /\ m.lock_owned \in [Slots -> [1..MAX_MUTEX_OWN -> Locks \cup {NULL}]]
      /\ m.locked \in [Locks -> BOOLEAN] /\ m.owner \in [Locks -> Int]
  BY DEF MemInv, KernelMemory
<1>2. \A p \in Slots, j \in 1..MAX_MUTEX_OWN :
         n.lock_owned[p][j] = IF p = cur /\ j = f THEN l ELSE m.lock_owned[p][j]
  OBVIOUS
<1>3. \A p \in Slots, j \in 1..MAX_MUTEX_OWN : m.lock_owned[p][j] # l
  BY NullAssumption DEF LockInv, Entries, Entry
<1>4. n.locked[l] /\ n.owner[l] = m.pid[cur]
  BY <1>1
<1>5. \A h \in Locks : h # l => n.locked[h] = m.locked[h] /\ n.owner[h] = m.owner[h]
  BY <1>1
<1>6. Pids(n)
  BY DEF LockInv, Pids
<1>7. Entries(n, {})
  <2> SUFFICES ASSUME NEW p \in Slots, NEW j \in 1..MAX_MUTEX_OWN, n.lock_owned[p][j] # NULL
               PROVE  Entry(n, {}, p, j, n.lock_owned[p][j])
    BY DEF Entries
  <2>1. CASE p = cur /\ j = f
    <3>1. n.lock_owned[p][j] = l
      BY <1>2, <2>1
    <3>2. \A i \in 1..MAX_MUTEX_OWN : n.lock_owned[p][i] = l => i = j
      BY <1>2, <1>3, <2>1
    <3>3. Entry(n, {}, p, j, l)
      BY <1>4, <2>1, <3>2 DEF Entry
    <3> QED BY <3>1, <3>3
  <2>2. CASE ~(p = cur /\ j = f)
    <3> DEFINE h == m.lock_owned[p][j]
    <3>1. n.lock_owned[p][j] = h /\ h # NULL /\ h # l
      BY <1>2, <1>3, <2>2
    <3>2. Entry(m, {}, p, j, h)
      BY <3>1 DEF LockInv, Entries
    <3> HIDE DEF h
    <3>3. \A i \in 1..MAX_MUTEX_OWN : n.lock_owned[p][i] = h => m.lock_owned[p][i] = h
      BY <1>2, <3>1
    <3>4. Entry(n, {}, p, j, h)
      BY <1>5, <3>1, <3>2, <3>3 DEF Entry
    <3> QED BY <3>1, <3>4
  <2> QED BY <2>1, <2>2
<1>8. Held(n)
  <2> SUFFICES ASSUME NEW h \in Locks, n.locked[h]
               PROVE  \E p \in UserSlots, j \in 1..MAX_MUTEX_OWN : n.lock_owned[p][j] = h
    BY DEF Held
  <2>1. CASE h = l
    BY <1>0, <1>2, <2>1
  <2>2. CASE h # l
    <3>1. PICK p \in UserSlots, j \in 1..MAX_MUTEX_OWN : m.lock_owned[p][j] = h
      BY <1>5, <2>2 DEF LockInv, Held
    <3>2. p \in Slots /\ h # NULL
      BY SizeAssumption, NullAssumption DEF UserSlots, Slots
    <3> QED BY <1>2, <3>1, <3>2
  <2> QED BY <2>1, <2>2
<1> QED BY <1>6, <1>7, <1>8 DEF LockInv

LEMMA AcquireInv ==
  ASSUME NEW S \in SUBSET Procs, NEW m, MemInv(m, S), LockInv(m, {}), m.fault = "none", Runs(m),
         m.current_running \in UserSlots, m.pid[m.current_running] # 0, NEW l \in Locks
  PROVE  After(m, do_mutex_lock_acquire(m, l))
<1> DEFINE cur == m.current_running
           free == {j \in 1..MAX_MUTEX_OWN : m.lock_owned[cur][j] = NULL}
           wait == [do_block(m, LockQ(l)) EXCEPT !.lock_waiting[cur] = l]
           take == [m EXCEPT !.locked[l] = TRUE,
                             !.owner[l] = m.pid[cur],
                             !.lock_waiting[cur] = NULL,
                             !.context[cur] = User]
           note == [take EXCEPT !.lock_owned[cur][Least(free)] = l]
<1>1. do_mutex_lock_acquire(m, l) =
        IF m.locked[l] THEN do_scheduler(wait, <<"acquire", l>>)
        ELSE IF free = {} THEN Stop(take, "hang") ELSE note
  BY DEF do_mutex_lock_acquire
<1>2. After(m, do_scheduler(wait, <<"acquire", l>>))
  <2>1. MemInv(wait, S) /\ wait.current_running = cur
    BY AcquireWaitType
  <2> DEFINE b == do_block(m, LockQ(l))
  <2>2. Keeps(m, b) /\ DOMAIN b = Fields
    <3>1. MemInv(b, S)
      BY BlockType, QueueNames, SizeAssumption DEF UserSlots
    <3>2. DOMAIN b = Fields
      <4> HIDE DEF b
      <4> QED BY <3>1 DEF MemInv, KernelMemory
    <3> QED BY <3>2, BlockKeeps DEF MemInv
  <2>3. Keeps(b, wait)
    <3> HIDE DEF b
    <3>1. Keeps(b, [b EXCEPT !.lock_waiting[cur] = l])
      BY <2>2 DEF Keeps, Lives, Fields
    <3> QED BY <3>1 DEF b
  <2>4. Keeps(m, wait)
    <3> HIDE DEF b, wait
    <3> QED BY <2>2, <2>3, KeepsTrans
  <2> HIDE DEF wait
  <2>5. Keeps(wait, do_scheduler(wait, <<"acquire", l>>)) /\ Runs(do_scheduler(wait, <<"acquire", l>>))
    BY <2>1, SwitchKeeps, UserContext
  <2>6. Keeps(m, do_scheduler(wait, <<"acquire", l>>))
    BY <2>4, <2>5, KeepsTrans
  <2> QED BY <2>5, <2>6, KeepsAfter
<1> HIDE DEF wait
<1>3. /\ DOMAIN take = Fields /\ take.fault = m.fault /\ take.current_running = cur
      /\ take.pid = m.pid /\ take.next_pid = m.next_pid /\ take.status = m.status
      /\ take.locked = [m.locked EXCEPT ![l] = TRUE]
      /\ take.owner = [m.owner EXCEPT ![l] = m.pid[cur]]
      /\ take.lock_owned = m.lock_owned
  BY DEF MemInv, KernelMemory, Fields
<1> HIDE DEF take
<1>4. After(m, Stop(take, "hang"))
  BY <1>3 DEF After, Runs, Stop, Fields
<1>5. CASE ~m.locked[l] /\ free # {}
  <2>1. Least(free) \in free
    <3>1. free \in SUBSET Nat
      OBVIOUS
    <3> HIDE DEF free
    <3> QED BY <1>5, <3>1, LeastIn
  <2> DEFINE f == Least(free)
  <2>2. f \in 1..MAX_MUTEX_OWN /\ m.lock_owned[cur][f] = NULL
    BY <2>1
  <2>3. /\ note.pid = m.pid /\ note.next_pid = m.next_pid /\ note.status = m.status
        /\ note.locked = take.locked /\ note.owner = take.owner
        /\ note.lock_owned = [m.lock_owned EXCEPT ![cur][f] = l]
        /\ note.current_running = cur /\ note.fault = m.fault
    <3> HIDE DEF f
    <3>1. note = [take EXCEPT !.lock_owned[cur][f] = l]
      BY DEF f
    <3> HIDE DEF note
    <3> QED BY <1>3, <3>1 DEF Fields
  <2> HIDE DEF f, note, free
  <2>4. m.status[cur] # "NOT_EXIST"
    BY DEF Runs
  <2>5. LockInv(note, {})
    <3> DEFINE row == [m.lock_owned[cur] EXCEPT ![f] = l]
    <3>1. m.lock_owned \in [Slots -> [1..MAX_MUTEX_OWN -> Locks \cup {NULL}]] /\ cur \in Slots
      BY CurrentType DEF MemInv, KernelMemory
    <3>2. note.lock_owned = [m.lock_owned EXCEPT ![cur] = row]
      BY <2>3
    <3>3. m.lock_owned[cur] \in [1..MAX_MUTEX_OWN -> Locks \cup {NULL}]
      BY <3>1
    <3>4. \A j \in 1..MAX_MUTEX_OWN : row[j] = IF j = f THEN l ELSE m.lock_owned[cur][j]
      BY <2>2, <3>3
    <3> HIDE DEF row
    <3>5. ASSUME NEW p \in Slots, NEW j \in 1..MAX_MUTEX_OWN
          PROVE  note.lock_owned[p][j] = IF p = cur /\ j = f THEN l ELSE m.lock_owned[p][j]
      <4>1. note.lock_owned[p] = IF p = cur THEN row ELSE m.lock_owned[p]
        BY <3>1, <3>2
      <4> QED BY <3>4, <4>1
    <3>6. /\ note.locked = [m.locked EXCEPT ![l] = TRUE]
          /\ note.owner = [m.owner EXCEPT ![l] = m.pid[cur]]
      BY <1>3, <2>3
    <3>7. note.pid = m.pid /\ note.next_pid = m.next_pid /\ note.status = m.status
      BY <2>3
    <3>8. ~m.locked[l]
      BY <1>5
    <3>9. f \in 1..MAX_MUTEX_OWN /\ m.lock_owned[cur][f] = NULL
      BY <2>2
    <3> HIDE DEF cur
    <3>10. cur \in UserSlots /\ m.pid[cur] # 0
      BY DEF cur
    <3>11. \A p \in Slots, j \in 1..MAX_MUTEX_OWN :
              note.lock_owned[p][j] = IF p = cur /\ j = f THEN l ELSE m.lock_owned[p][j]
      BY <3>5
    <3>12. m.status[cur] # "NOT_EXIST"
      BY <2>4
    <3> HIDE DEF note, cur, f
    <3> QED BY <3>6, <3>7, <3>8, <3>9, <3>10, <3>11, <3>12, TakeInv
  <2>6. After(m, note)
    BY <2>3, <2>4, <2>5 DEF After, Runs
  <2> QED BY <1>1, <1>5, <2>6
<1> HIDE DEF note, free
<1> QED BY <1>1, <1>2, <1>4, <1>5

-----------------------------------------------------------------------------
(***************************************************************************)
(* The end of a process, and the birth of one.                              *)
(***************************************************************************)
LEMMA GiveUpInv ==
  ASSUME NEW S \in SUBSET Procs, NEW m, MemInv(m, S), LockInv(m, {}), NEW i \in Slots
  PROVE  LET n == GiveUp(m, i)
         IN  LockInv(n, {i}) /\ n.pid = m.pid /\ n.fault = m.fault
<1> DEFINE W == Members(m.waiting[WaitQ(i)])
           w == [p \in Slots |-> IF p \in W THEN -1 ELSE m.waiting_pcb[p]]
           k1 == [m EXCEPT !.status[i] = "NOT_EXIST", !.waiting_pcb = w]
           n == do_unblock_all(k1, WaitQ(i))
<1>1. GiveUp(m, i) = n
  BY DEF GiveUp
<1> HIDE DEF w
<1>2. /\ DOMAIN k1 = Fields /\ k1.fault = m.fault
      /\ k1.pid = m.pid /\ k1.next_pid = m.next_pid /\ k1.locked = m.locked
      /\ k1.owner = m.owner /\ k1.lock_owned = m.lock_owned
      /\ \A p \in Slots : p # i => k1.status[p] = m.status[p]
  BY DEF MemInv, KernelMemory, Fields
<1> HIDE DEF k1
<1>3. Keeps(k1, n) /\ n.fault = k1.fault
  BY <1>2 DEF Keeps, Lives, do_unblock_all, Fields
<1> HIDE DEF n
<1>4. Pids(k1)
  BY <1>2 DEF LockInv, Pids
<1>5. Entries(k1, {i})
  BY <1>2 DEF LockInv, Entries, Entry
<1>6. Held(k1)
  BY <1>2 DEF LockInv, Held
<1>7. LockInv(n, {i})
  BY <1>3, <1>4, <1>5, <1>6, KeepsInv DEF LockInv
<1> QED BY <1>1, <1>2, <1>3, <1>7 DEF Keeps

\* Tables only lose entries.
Fewer(m, n) ==
    \A p \in Slots, j \in 1..MAX_MUTEX_OWN : n.lock_owned[p][j] \in {NULL, m.lock_owned[p][j]}

LEMMA ReleaseEntryInv ==
  ASSUME NEW S \in SUBSET Procs, NEW m, MemInv(m, S), NEW X, LockInv(m, X),
         NEW i \in Slots, NEW j \in 1..5
  PROVE  LET n == ReleaseEntry(m, i, j)
         IN  /\ LockInv(n, X) /\ n.pid = m.pid /\ n.fault = m.fault /\ Fewer(m, n)
             /\ j <= MAX_MUTEX_OWN => n.lock_owned[i][j] = NULL
<1> DEFINE l == m.lock_owned[i][j]
           n == do_mutex_lock_release(m, l)
<1>1. j <= MAX_MUTEX_OWN => j \in 1..MAX_MUTEX_OWN
  BY SizeAssumption
<1>2. CASE j <= MAX_MUTEX_OWN /\ l # NULL
  <2>1. l \in Locks
    BY <1>1, <1>2 DEF LockInv, Entries, Entry
  <2>2. /\ LockInv(n, X) /\ n.pid = m.pid /\ n.fault = m.fault
        /\ \A p \in Slots, h \in 1..MAX_MUTEX_OWN :
              n.lock_owned[p][h] = IF m.lock_owned[p][h] = l THEN NULL ELSE m.lock_owned[p][h]
    <3> HIDE DEF l
    <3> QED BY <2>1, ReleaseInv
  <2>3. ReleaseEntry(m, i, j) = n
    BY <1>2 DEF ReleaseEntry
  <2> HIDE DEF n
  <2>4. n.lock_owned[i][j] = NULL /\ Fewer(m, n)
    BY <1>1, <1>2, <2>2 DEF Fewer
  <2> QED BY <2>2, <2>3, <2>4
<1>3. CASE ~(j <= MAX_MUTEX_OWN /\ l # NULL)
  <2>1. ReleaseEntry(m, i, j) = m
    BY <1>3 DEF ReleaseEntry
  <2> QED BY <1>3, <2>1 DEF Fewer
<1> QED BY <1>2, <1>3

\* The five turns of the release loop empty the table of the slot.
LEMMA BuryInv ==
  ASSUME NEW S \in SUBSET Procs, NEW m, MemInv(m, S), LockInv(m, {}), NEW i \in Slots
  PROVE  LockInv(Bury(m, i), {}) /\ Bury(m, i).pid = m.pid /\ Bury(m, i).fault = m.fault
<1> DEFINE r0 == GiveUp(m, i)
           r1 == ReleaseEntry(r0, i, 1)
           r2 == ReleaseEntry(r1, i, 2)
           r3 == ReleaseEntry(r2, i, 3)
           r4 == ReleaseEntry(r3, i, 4)
           r5 == ReleaseEntry(r4, i, 5)
           good(r) == MemInv(r, S) /\ LockInv(r, {i}) /\ r.pid = m.pid /\ r.fault = m.fault
           none(r, j) == j <= MAX_MUTEX_OWN => r.lock_owned[i][j] = NULL
<1>0. Bury(m, i) = r5
  BY DEF Bury
<1>a. ASSUME NEW r, good(r), NEW j \in 1..5
      PROVE  LET n == ReleaseEntry(r, i, j)
             IN  good(n) /\ none(n, j) /\ \A h \in 1..5 : none(r, h) => none(n, h)
  <2> DEFINE n == ReleaseEntry(r, i, j)
  <2>1. MemInv(n, S)
    BY <1>a, ReleaseEntryType
  <2>2. LockInv(n, {i}) /\ n.pid = r.pid /\ n.fault = r.fault /\ Fewer(r, n) /\ none(n, j)
    BY <1>a, ReleaseEntryInv
  <2> HIDE DEF n
  <2>3. ASSUME NEW h \in 1..5, none(r, h) PROVE none(n, h)
    <3>1. h <= MAX_MUTEX_OWN => h \in 1..MAX_MUTEX_OWN
      BY SizeAssumption
    <3> QED BY <2>2, <2>3, <3>1 DEF Fewer
  <2>4. good(n)
    BY <1>a, <2>1, <2>2
  <2> HIDE DEF good, none
  <2> QED BY <2>2, <2>3, <2>4 DEF n
<1>1. good(r0)
  BY GiveUpType, GiveUpInv
<1>b. \A j \in {1, 2, 3, 4, 5} : j \in 1..5
  OBVIOUS
<1> HIDE DEF r0, good, none
<1>2. good(r1) /\ none(r1, 1)
  BY <1>1, <1>a, <1>b
<1> HIDE DEF r1
<1>3. good(r2) /\ none(r2, 1) /\ none(r2, 2)
  BY <1>2, <1>a, <1>b
<1> HIDE DEF r2
<1>4. good(r3) /\ none(r3, 1) /\ none(r3, 2) /\ none(r3, 3)
  BY <1>3, <1>a, <1>b
<1> HIDE DEF r3
<1>5. good(r4) /\ none(r4, 1) /\ none(r4, 2) /\ none(r4, 3) /\ none(r4, 4)
  BY <1>4, <1>a, <1>b
<1> HIDE DEF r4
<1>6. good(r5) /\ none(r5, 1) /\ none(r5, 2) /\ none(r5, 3) /\ none(r5, 4) /\ none(r5, 5)
  BY <1>5, <1>a, <1>b
<1> HIDE DEF r5
<1>7. \A j \in 1..MAX_MUTEX_OWN : r5.lock_owned[i][j] = NULL
  <2> SUFFICES ASSUME NEW j \in 1..MAX_MUTEX_OWN PROVE r5.lock_owned[i][j] = NULL
    OBVIOUS
  <2>1. j = 1 \/ j = 2 \/ j = 3 \/ j = 4 \/ j = 5
    BY SizeAssumption
  <2>2. j <= MAX_MUTEX_OWN
    BY SizeAssumption
  <2> QED BY <1>6, <2>1, <2>2 DEF none
<1>8. LockInv(r5, {i})
  BY <1>6 DEF good
<1>9. LockInv(r5, {})
  BY <1>7, <1>8 DEF LockInv, Entries, Entry
<1> QED BY <1>0, <1>6, <1>9 DEF good

LEMMA UnlinkKeeps ==
  ASSUME NEW S \in SUBSET Procs, NEW m, MemInv(m, S), NEW i \in Slots, NEW pid
  PROVE  Keeps(m, Unlink(m, i, pid))
<1>1. PICK x, y, f : Unlink(m, i, pid) \in
         {[m EXCEPT !.ready[x] = y, !.fault = f], [m EXCEPT !.sleep = y, !.fault = f],
          [m EXCEPT !.waiting[x] = y, !.fault = f], Stop(m, "hang"), m}
  BY DEF Unlink
<1>2. Keeps(m, [m EXCEPT !.ready[x] = y, !.fault = f])
  BY DEF Keeps, Lives, MemInv, KernelMemory, Fields
<1>3. Keeps(m, [m EXCEPT !.sleep = y, !.fault = f])
  BY DEF Keeps, Lives, MemInv, KernelMemory, Fields
<1>4. Keeps(m, [m EXCEPT !.waiting[x] = y, !.fault = f])
  BY DEF Keeps, Lives, MemInv, KernelMemory, Fields
<1> QED BY <1>1, <1>2, <1>3, <1>4, StopKeeps, KeepsSelf, SMTT(40) DEF MemInv

LEMMA BurySwitch ==
  ASSUME NEW S \in SUBSET Procs, NEW m, MemInv(m, S), LockInv(m, {}), NEW i \in Slots
  PROVE  After(m, do_scheduler(Bury(m, i), User))
<1> DEFINE b == Bury(m, i)
<1>1. MemInv(b, S) /\ LockInv(b, {}) /\ b.pid = m.pid
  BY BuryType, BuryInv
<1> HIDE DEF b
<1>2. Keeps(b, do_scheduler(b, User)) /\ Runs(do_scheduler(b, User))
  BY <1>1, SwitchKeeps, UserContext
<1>3. After(b, do_scheduler(b, User))
  BY <1>1, <1>2, KeepsAfter
<1> QED BY <1>1, <1>3 DEF After, b

LEMMA KillInv ==
  ASSUME NEW S \in SUBSET Procs, NEW m, MemInv(m, S), m.fault = "none", LockInv(m, {}), NEW pid
  PROVE  After(m, do_kill(m, pid))
<1> DEFINE i == FindPid(m, pid)
           k1 == Unlink(m, i, pid)
<1>1. do_kill(m, pid) = IF k1.fault # "none" THEN k1 ELSE do_scheduler(Bury(k1, i), User)
  BY DEF do_kill
<1>2. i \in Slots
  BY FindPidIn DEF MemInv
<1> HIDE DEF i
<1>3. MemInv(k1, S) /\ Keeps(m, k1)
  BY <1>2, UnlinkType, UnlinkKeeps
<1> HIDE DEF k1
<1>4. LockInv(k1, {}) /\ k1.pid = m.pid
  BY <1>3, KeepsInv DEF Keeps
<1>5. CASE k1.fault # "none"
  BY <1>1, <1>4, <1>5 DEF After, Runs
<1>6. CASE k1.fault = "none"
  <2>1. After(k1, do_scheduler(Bury(k1, i), User))
    BY <1>2, <1>3, <1>4, BurySwitch
  <2> QED BY <1>1, <1>4, <1>6, <2>1 DEF After
<1> QED BY <1>5, <1>6

LEMMA ExitInv ==
  ASSUME NEW S \in SUBSET Procs, NEW m, MemInv(m, S), LockInv(m, {})
  PROVE  After(m, do_exit(m))
<1>1. m.current_running \in Slots
  BY CurrentType DEF MemInv
<1> QED BY <1>1, BurySwitch DEF do_exit

LEMMA ReleaseAfter ==
  ASSUME NEW S \in SUBSET Procs, NEW m, MemInv(m, S), m.fault = "none", LockInv(m, {}), Runs(m),
         NEW l \in Locks
  PROVE  After(m, do_mutex_lock_release(m, l))
<1> DEFINE n == do_mutex_lock_release(m, l)
<1>1. LockInv(n, {}) /\ n.pid = m.pid /\ Lives(m, n)
  BY ReleaseInv
<1>2. n.current_running = m.current_running
  BY ReleaseType
<1> HIDE DEF n
<1>3. Runs(n)
  BY <1>1, <1>2, RunsOn DEF MemInv
<1> QED BY <1>1, <1>3 DEF After, n

LEMMA CondWaitInv ==
  ASSUME NEW S \in SUBSET Procs, NEW m, MemInv(m, S), LockInv(m, {}),
         m.current_running \in UserSlots, NEW l \in Locks, NEW c \in Conds
  PROVE  After(m, do_condition_wait(m, l, c))
<1> DEFINE k1 == [m EXCEPT !.num_waiting[c] = m.num_waiting[c] + 1]
           k2 == do_block(k1, CondQ(c))
           k3 == do_mutex_lock_release(k2, l)
           k4 == do_scheduler(k3, <<"acquire", l>>)
<1>1. do_condition_wait(m, l, c) = k4
  BY DEF do_condition_wait
<1>2. MemInv(k1, S) /\ k1.current_running = m.current_running /\ Keeps(m, k1)
  <2> DEFINE x == m.num_waiting[c] + 1
  <2>1. x \in Int
    BY DEF MemInv, KernelMemory
  <2> HIDE DEF x
  <2>2. MemInv([m EXCEPT !.num_waiting[c] = x], S)
    BY <2>1, CounterType
  <2>3. [m EXCEPT !.num_waiting[c] = x].current_running = m.current_running
    BY SameCurrent DEF MemInv
  <2>4. Keeps(m, [m EXCEPT !.num_waiting[c] = x])
    BY CounterKeeps DEF MemInv
  <2> QED BY <2>2, <2>3, <2>4 DEF x
<1> HIDE DEF k1
<1>3. m.current_running # 0
  BY SizeAssumption DEF UserSlots
<1>4. MemInv(k2, S) /\ k2.current_running = m.current_running /\ Keeps(k1, k2)
  <2>1. MemInv(k2, S)
    BY <1>2, <1>3, BlockType, QueueNames
  <2>2. k2.current_running = m.current_running
    BY <1>2, SameCurrent DEF MemInv
  <2>3. Keeps(k1, k2)
    BY <1>2, BlockKeeps DEF MemInv
  <2> QED BY <2>1, <2>2, <2>3
<1> HIDE DEF k2
<1>5. LockInv(k2, {}) /\ k2.pid = m.pid
  <2>1. Keeps(m, k2)
    BY <1>2, <1>4, KeepsTrans
  <2> QED BY <2>1, KeepsInv DEF Keeps
<1>6. MemInv(k3, S) /\ k3.current_running = m.current_running
  BY <1>4, ReleaseType
<1>7. LockInv(k3, {}) /\ k3.pid = k2.pid
  BY <1>4, <1>5, ReleaseInv
<1> HIDE DEF k3
<1>8. Keeps(k3, k4) /\ Runs(k4)
  BY <1>6, SwitchKeeps, UserContext
<1> HIDE DEF k4
<1>9. After(k3, k4)
  BY <1>7, <1>8, KeepsAfter
<1> QED BY <1>1, <1>5, <1>7, <1>9 DEF After

\* A slot that is set up anew holds no lock, and its pid was never given out.
LEMMA SpawnInv ==
  ASSUME NEW S \in SUBSET Procs, NEW m, MemInv(m, S), LockInv(m, {}),
         NEW i, i = Least({p \in UserSlots : m.status[p] = "NOT_EXIST"}),
         {p \in UserSlots : m.status[p] = "NOT_EXIST"} # {}
  PROVE  LET n == do_spawn(m)
         IN  LockInv(n, {}) /\ Runs(n) /\ n.pid = [m.pid EXCEPT ![i] = m.next_pid]
<1> DEFINE none == [j \in 1..MAX_MUTEX_OWN |-> NULL]
           n1 == NewProcess(m, i)
<1>1. do_spawn(m) = do_scheduler(n1, User)
  BY Zenon DEF do_spawn
<1>2. i \in UserSlots /\ i \in Slots /\ i \in Procs /\ m.status[i] = "NOT_EXIST"
  BY FreeSlot
<1>3. MemInv(n1, S \cup {i})
  BY <1>2, NewProcessType
<1>4. /\ n1.pid = [m.pid EXCEPT ![i] = m.next_pid] /\ n1.next_pid = m.next_pid + 1
      /\ n1.lock_owned = [m.lock_owned EXCEPT ![i] = none]
      /\ n1.locked = m.locked /\ n1.owner = m.owner
      /\ \A p \in Slots : p # i => n1.status[p] = m.status[p]
  BY ZenonT(60) DEF NewProcess, MemInv, KernelMemory, Fields
<1> HIDE DEF n1
<1>5. /\ m.pid \in [Slots -> Nat] /\ m.next_pid \in Nat
      /\ m.lock_owned \in [Slots -> [1..MAX_MUTEX_OWN -> Locks \cup {NULL}]]
  BY DEF MemInv, KernelMemory
<1>6. \A p \in Slots : n1.pid[p] = IF p = i THEN m.next_pid ELSE m.pid[p]
  BY <1>2, <1>4, <1>5
<1>7. \A p \in Slots, j \in 1..MAX_MUTEX_OWN :
         n1.lock_owned[p][j] = IF p = i THEN NULL ELSE m.lock_owned[p][j]
  BY <1>2, <1>4, <1>5
<1>8. \A j \in 1..MAX_MUTEX_OWN : m.lock_owned[i][j] = NULL
  BY <1>2 DEF LockInv, Entries, Entry
<1>9. UserSlots \subseteq Slots
  BY SizeAssumption DEF UserSlots, Slots
<1>10. Pids(n1)
  <2>1. \A p \in Slots : m.pid[p] \in Nat /\ m.pid[p] < m.next_pid
    BY <1>5 DEF LockInv, Pids
  <2>2. n1.next_pid # 0 /\ \A p \in Slots : n1.pid[p] < n1.next_pid
    BY <1>4, <1>5, <1>6, <2>1
  <2>3. ASSUME NEW p \in UserSlots, NEW q \in UserSlots,
               n1.pid[p] = n1.pid[q], n1.pid[p] # 0
        PROVE  p = q
    <3>1. p \in Slots /\ q \in Slots
      BY <1>9
    <3>2. CASE p # i /\ q # i
      BY <1>6, <2>3, <3>1, <3>2 DEF LockInv, Pids
    <3>3. CASE p = i \/ q = i
      BY <1>5, <1>6, <2>1, <2>3, <3>1, <3>3
    <3> QED BY <3>2, <3>3
  <2> QED BY <2>2, <2>3 DEF Pids
<1>11. Entries(n1, {})
  <2> SUFFICES ASSUME NEW p \in Slots, NEW j \in 1..MAX_MUTEX_OWN, n1.lock_owned[p][j] # NULL
               PROVE  Entry(n1, {}, p, j, n1.lock_owned[p][j])
    BY DEF Entries
  <2> DEFINE h == m.lock_owned[p][j]
  <2>1. p # i /\ n1.lock_owned[p][j] = h /\ h # NULL
    BY <1>7
  <2>2. Entry(m, {}, p, j, h)
    BY <2>1 DEF LockInv, Entries
  <2> HIDE DEF h
  <2>3. Entry(n1, {}, p, j, h)
    BY <1>4, <1>6, <1>7, <2>1, <2>2 DEF Entry
  <2> QED BY <2>1, <2>3
<1>12. Held(n1)
  <2> SUFFICES ASSUME NEW h \in Locks, m.locked[h]
               PROVE  \E p \in UserSlots, j \in 1..MAX_MUTEX_OWN : n1.lock_owned[p][j] = h
    BY <1>4 DEF Held
  <2>1. PICK p \in UserSlots, j \in 1..MAX_MUTEX_OWN : m.lock_owned[p][j] = h
    BY DEF LockInv, Held
  <2>2. p # i
    BY <1>8, <2>1, NullAssumption
  <2> QED BY <1>7, <1>9, <2>1, <2>2
<1>13. LockInv(n1, {})
  BY <1>10, <1>11, <1>12 DEF LockInv
<1>14. S \cup {i} \in SUBSET Procs
  BY <1>2
<1>15. Keeps(n1, do_scheduler(n1, User)) /\ Runs(do_scheduler(n1, User))
  BY <1>3, <1>14, SwitchKeeps, UserContext
<1>16. LockInv(do_scheduler(n1, User), {}) /\ do_scheduler(n1, User).pid = n1.pid
  BY <1>13, <1>15, KeepsInv DEF Keeps
<1> QED BY <1>1, <1>4, <1>15, <1>16

-----------------------------------------------------------------------------
(***************************************************************************)
(* The theorem.                                                             *)
(***************************************************************************)

\* The inductive invariant: while the kernel works, only slots that were given
\* a pid run or are queued, LockInv holds, and a live process runs.
WorkInv(m) ==
    m.fault = "none" => MemInv(m, Spawned(m)) /\ LockInv(m, {}) /\ Runs(m)

LEMMA InitWork == ASSUME Init PROVE WorkInv(k)
<1>1. MemInv(k, {1})
  BY InitType
<1>2. 1 \in Spawned(init_pcb) /\ Spawned(init_pcb) \in SUBSET Procs
  BY SizeAssumption DEF Spawned, init_pcb, Procs, Slots
<1>3. MemInv(k, Spawned(k))
  BY <1>1, <1>2, MoreSlots DEF Init
<1>4. Pids(init_pcb)
  <2>1. \A p \in UserSlots : p # 1
    BY SizeAssumption DEF UserSlots
  <2>2. UserSlots \subseteq Slots
    BY SizeAssumption DEF UserSlots, Slots
  <2> QED BY <2>1, <2>2 DEF Pids, init_pcb
<1>5. Entries(init_pcb, {}) /\ Held(init_pcb)
  BY DEF Entries, Held, init_pcb
<1>6. Runs(init_pcb)
  <2>1. 0 \in Slots /\ 0 \notin UserSlots
    BY SizeAssumption DEF UserSlots, Slots
  <2> QED BY <2>1 DEF Runs, init_pcb
<1> QED BY <1>3, <1>4, <1>5, <1>6 DEF WorkInv, LockInv, Init

LEMMA NextWork == ASSUME WorkInv(k), [Next]_k PROVE WorkInv(k')
<1> DEFINE S == Spawned(k)
<1>0. CASE k.fault # "none"
  <2>1. k' = k
    BY <1>0 DEF Next, Timer, ResumeTimer, ResumeAcquire, Spawn, Kill, Wait, Exit, Sleep, Acquire,
                Release, LockInit, CondWait, CondSignal, CondBroadcast, CondInit, SemUp, SemDown,
                SemInit, BarrierWait, BarrierInit, Halted, Shell, Process, InUser
  <2> QED BY <2>1
<1>1. CASE k.fault = "none"
  <2>1. MemInv(k, S) /\ LockInv(k, {}) /\ Runs(k) /\ S \in SUBSET Procs
    BY <1>1 DEF WorkInv, Spawned
  <2> HIDE DEF S
  <2>2. Shell \/ Process => k.current_running # 0
    <3>1. k.current_running \in Slots
      BY <2>1, CurrentType DEF MemInv
    <3>2. k.current_running \in Nat
      BY <3>1, SizeAssumption DEF Slots
    <3> QED BY <3>2 DEF Shell, Process, current
  <2>3. Process => k.current_running \in UserSlots
    BY <2>1, CurrentType DEF Process, MemInv, current
  <2>4. k.current_running \in UserSlots => k.pid[k.current_running] # 0
    <3>1. k.current_running # 0 => k.current_running \in S
      BY <2>1, CurrentType DEF MemInv
    <3>2. k.current_running \in UserSlots => k.current_running # 0
      BY SizeAssumption DEF UserSlots
    <3> QED BY <3>1, <3>2 DEF S, Spawned
  <2>5. CASE Spawn
    <3> DEFINE free == {i \in UserSlots : k.status[i] = "NOT_EXIST"}
               i == Least(free)
    <3>1. k' = do_spawn(k)
      BY <2>5 DEF Spawn
    <3>2. CASE free = {}
      <4>1. k' = Stop(k, "hang")
        BY <3>1, <3>2 DEF do_spawn
      <4>2. k'.fault = "hang"
        BY <2>1, <4>1, StopKeeps DEF MemInv
      <4> QED BY <4>2 DEF WorkInv
    <3>3. CASE free # {}
      <4>1. LockInv(k', {}) /\ Runs(k') /\ k'.pid = [k.pid EXCEPT ![i] = k.next_pid]
        BY <2>1, <3>1, <3>3, SpawnInv
      <4>2. i \in Procs /\ i \in Slots
        BY <3>3, FreeSlot
      <4>3. MemInv(k', S) \/ MemInv(k', S \cup {i})
        BY <2>1, NextType
      <4> HIDE DEF free, i
      <4>4. S \in SUBSET Spawned(k') /\ i \in Spawned(k')
        <5>1. k.pid \in [Slots -> Nat] /\ k.next_pid # 0
          BY <2>1 DEF MemInv, KernelMemory, LockInv, Pids
        <5>2. Procs \subseteq Slots
          BY SizeAssumption DEF Procs, Slots
        <5> QED BY <4>1, <4>2, <5>1, <5>2 DEF S, Spawned
      <4>5. S \cup {i} \in SUBSET Spawned(k') /\ Spawned(k') \in SUBSET Procs
        BY <4>4 DEF Spawned
      <4>6. MemInv(k', Spawned(k'))
        BY <4>3, <4>4, <4>5, MoreSlots
      <4> QED BY <4>1, <4>6 DEF WorkInv
    <3> QED BY <3>2, <3>3
  <2>6. ASSUME ~Spawn, After(k, k') PROVE WorkInv(k')
    <3>1. MemInv(k', S)
      BY <2>1, <2>6, NextType
    <3>2. k'.pid = k.pid => Spawned(k') = S
      BY DEF S, Spawned
    <3> QED BY <2>6, <3>1, <3>2 DEF After, WorkInv
  <2>7. ASSUME Timer PROVE After(k, k')
    BY <1>1, <2>1, <2>7, TimerKeeps, KeepsAfter DEF Timer
  <2>8. ASSUME ResumeTimer PROVE After(k, k')
    BY <1>1, <2>1, <2>8, TimerKeeps, KeepsAfter DEF ResumeTimer
  <2>9. ASSUME ResumeAcquire PROVE After(k, k')
    <3>1. PICK l \in Locks : k.context[current] = <<"acquire", l>> /\ k' = do_mutex_lock_acquire(k, l)
      BY <2>9 DEF ResumeAcquire
    <3>2. k.current_running \in UserSlots
      <4>1. k.current_running \in Slots
        BY <2>1, CurrentType DEF MemInv
      <4>2. <<"acquire", l>> \in {"acquire"} \X Locks
        OBVIOUS
      <4> QED BY <2>1, <3>1, <4>1, <4>2 DEF MemInv, Resumes, current
    <3> QED BY <1>1, <2>1, <2>4, <3>1, <3>2, AcquireInv
  <2>10. ASSUME Kill PROVE After(k, k')
    BY <1>1, <2>1, <2>10, KillInv DEF Kill
  <2>11. ASSUME Wait PROVE After(k, k')
    BY <2>1, <2>2, <2>11, WaitKeeps, KeepsAfter, ArgumentAssumption DEF Wait
  <2>12. ASSUME Exit PROVE After(k, k')
    BY <2>1, <2>12, ExitInv DEF Exit
  <2>13. ASSUME Sleep PROVE After(k, k')
    BY <2>1, <2>2, <2>13, SleepKeeps, KeepsAfter, ArgumentAssumption DEF Sleep
  <2>14. ASSUME Acquire PROVE After(k, k')
    BY <1>1, <2>1, <2>3, <2>4, <2>14, AcquireInv DEF Acquire
  <2>15. ASSUME Release PROVE After(k, k')
    BY <1>1, <2>1, <2>15, ReleaseAfter DEF Release
  <2>16. ASSUME LockInit PROVE After(k, k')
    BY <1>1, <2>1, <2>16, LockInitInv DEF LockInit
  <2>17. ASSUME CondWait PROVE After(k, k')
    BY <2>1, <2>3, <2>17, CondWaitInv DEF CondWait
  <2>18. ASSUME CondSignal PROVE After(k, k')
    BY <1>1, <2>1, <2>18, CondKeeps, KeepsAfter DEF CondSignal
  <2>19. ASSUME CondBroadcast PROVE After(k, k')
    BY <1>1, <2>1, <2>19, CondKeeps, KeepsAfter DEF CondBroadcast
  <2>20. ASSUME CondInit PROVE After(k, k')
    BY <1>1, <2>1, <2>20, CondKeeps, KeepsAfter DEF CondInit
  <2>21. ASSUME SemUp PROVE After(k, k')
    BY <1>1, <2>1, <2>2, <2>21, SemKeeps, KeepsAfter DEF SemUp
  <2>22. ASSUME SemDown PROVE After(k, k')
    BY <1>1, <2>1, <2>2, <2>22, SemKeeps, KeepsAfter DEF SemDown
  <2>23. ASSUME SemInit PROVE After(k, k')
    BY <1>1, <2>1, <2>2, <2>23, SemKeeps, KeepsAfter, ArgumentAssumption DEF SemInit
  <2>24. ASSUME BarrierWait PROVE After(k, k')
    BY <1>1, <2>1, <2>2, <2>24, BarrierKeeps, KeepsAfter DEF BarrierWait
  <2>25. ASSUME BarrierInit PROVE After(k, k')
    BY <1>1, <2>1, <2>2, <2>25, BarrierKeeps, KeepsAfter, ArgumentAssumption DEF BarrierInit
  <2>26. ASSUME Halted PROVE After(k, k')
    BY <1>1, <2>26 DEF Halted
  <2>27. ASSUME UNCHANGED k PROVE After(k, k')
    BY <2>1, <2>27 DEF After
  <2> QED BY <2>5, <2>6, <2>7, <2>8, <2>9, <2>10, <2>11, <2>12, <2>13, <2>14, <2>15, <2>16, <2>17, <2>18,
             <2>19, <2>20, <2>21, <2>22, <2>23, <2>24, <2>25, <2>26, <2>27 DEF Next
<1> QED BY <1>0, <1>1

\* The invariant says of the tables what LockTable asks.
LEMMA LockInvTable == ASSUME WorkInv(k) PROVE LockTable
<1> SUFFICES ASSUME k.fault = "none" PROVE LockTable
  BY DEF LockTable, Working
<1>1. Pids(k) /\ Entries(k, {}) /\ Held(k)
  BY DEF WorkInv, LockInv
<1>2. UserSlots \subseteq Slots
  BY SizeAssumption DEF UserSlots, Slots
<1>3. ASSUME NEW l \in Locks, k.locked[l]
      PROVE  \E p \in UserSlots, j \in 1..MAX_MUTEX_OWN :
                k.lock_owned[p][j] = l /\ Entry(k, {}, p, j, l)
  BY <1>1, <1>2, <1>3, NullAssumption DEF Held, Entries
<1>4. \A l \in Locks : k.locked[l] => \E p \in UserSlots : Live(p) /\ k.pid[p] = k.owner[l]
  BY <1>3 DEF Entry, Live
<1>5. ASSUME NEW p \in Slots, NEW j \in 1..MAX_MUTEX_OWN, k.lock_owned[p][j] # NULL
      PROVE  LET l == k.lock_owned[p][j]
             IN  /\ k.locked[l] /\ k.owner[l] = k.pid[p] /\ p \in UserSlots /\ Live(p)
                 /\ \A i \in 1..MAX_MUTEX_OWN : k.lock_owned[p][i] = l => i = j
  BY <1>1, <1>5 DEF Entries, Entry, Live
<1>6. ASSUME NEW l \in Locks, NEW p \in UserSlots, k.locked[l], k.pid[p] = k.owner[l]
      PROVE  \E j \in 1..MAX_MUTEX_OWN : k.lock_owned[p][j] = l
  <2>1. PICK q \in UserSlots, j \in 1..MAX_MUTEX_OWN :
           k.lock_owned[q][j] = l /\ Entry(k, {}, q, j, l)
    BY <1>3, <1>6
  <2>2. k.pid[q] = k.pid[p] /\ k.pid[q] # 0
    BY <1>6, <2>1 DEF Entry
  <2>3. p = q
    BY <1>1, <2>2 DEF Pids
  <2> QED BY <2>1, <2>3
<1> QED BY <1>4, <1>5, <1>6 DEF LockTable

\* No mutex is orphaned, whatever processes lock, wait, exit, are killed or are
\* spawned into the slot of another.
THEOREM LocksOwned == Spec => []LockTable
<1>1. Init => WorkInv(k)
  BY InitWork
<1>2. WorkInv(k) /\ [Next]_k => WorkInv(k)'
  BY NextWork
<1>3. WorkInv(k) => LockTable
  BY LockInvTable
<1> QED BY <1>1, <1>2, <1>3, PTL DEF Spec
=============================================================================
