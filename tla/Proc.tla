-------------------------------- MODULE Proc --------------------------------
(***************************************************************************)
(* The process calls of init/main.c: spawn, wait, kill and exit.            *)
(***************************************************************************)
EXTENDS Locking

WaitQ(i) == <<"pcb", i>>

\* The search of do_kill: walk a queue to the item with this pid and remove it;
\* the walk ends there, because queue_remove cleared the item's next pointer.
\* An item that is neither head nor tail is removed through a null pointer.
SearchRemove(k, q, pid) ==
    LET at == {n \in 1..Len(q) : k.pid[q[n]] = pid}
        n  == Least(at)
    IN  IF at = {} THEN [queue |-> q, fault |-> "none"]
        ELSE IF n = 1 THEN [queue |-> Tail(q), fault |-> "none"]
        ELSE IF n = Len(q) THEN [queue |-> SubSeq(q, 1, Len(q) - 1), fault |-> "none"]
        ELSE [queue |-> q, fault |-> "interior"]

-----------------------------------------------------------------------------
\* Slot i is set up as a process at the entry point of the task and linked on
\* the first ready queue.
NewProcess(k, i) ==
    [k EXCEPT !.pid[i] = k.next_pid,
              !.next_pid = @ + 1,
              !.status[i] = "READY",
              !.priority[i] = 1,
              !.waiting[WaitQ(i)] = <<>>,
              !.lock_waiting[i] = NULL,
              !.waiting_pcb[i] = -1,
              !.lock_owned[i] = [j \in 1..MAX_MUTEX_OWN |-> NULL],
              !.context[i] = User,
              !.ready[1] = Append(@, i)]

\* The first free slot is taken; without one the kernel spins.
do_spawn(k) ==
    LET free == {i \in UserSlots : k.status[i] = "NOT_EXIST"}
    IN  IF free = {} THEN Stop(k, "hang")
        ELSE do_scheduler(NewProcess(k, Least(free)), User)

\* The caller is queued on the slot found, whatever the status of that slot.
do_wait(k, pid) ==
    LET k1 == do_block(k, WaitQ(FindPid(k, pid)))
    IN  do_scheduler([k1 EXCEPT !.waiting_pcb[k.current_running] = pid], User)

\* Mutant of Unlink: a ready process is left on its ready queue.
unlink_not_ready(k, i, pid) ==
    LET q == IF k.lock_waiting[i] # NULL THEN LockQ(k.lock_waiting[i])
             ELSE WaitQ(FindPid(k, k.waiting_pcb[i]))
        sleep == SearchRemove(k, k.sleep, pid)
        wait  == SearchRemove(k, k.waiting[q], pid)
    IN  CASE k.status[i] = "SLEEPING" ->
               [k EXCEPT !.sleep = sleep.queue, !.fault = sleep.fault]
          [] k.status[i] = "BLOCKED" /\ (k.lock_waiting[i] # NULL \/ k.waiting_pcb[i] # -1) ->
               [k EXCEPT !.waiting[q] = wait.queue, !.fault = wait.fault]
          [] k.status[i] = "BLOCKED" /\ k.lock_waiting[i] = NULL /\ k.waiting_pcb[i] = -1 ->
               Stop(k, "hang")
          [] OTHER -> k

\* do_kill's first part: take slot i off the queue its status says it is on.
Unlink(k, i, pid) ==
    LET prio  == k.priority[i]
        lockq == LockQ(k.lock_waiting[i])
        waitq == WaitQ(FindPid(k, k.waiting_pcb[i]))
        ready == SearchRemove(k, k.ready[prio], pid)
        sleep == SearchRemove(k, k.sleep, pid)
        from(q) == SearchRemove(k, k.waiting[q], pid)
    IN  CASE k.status[i] = "READY" ->
               [k EXCEPT !.ready[prio] = ready.queue, !.fault = ready.fault]
          [] k.status[i] = "SLEEPING" ->
               [k EXCEPT !.sleep = sleep.queue, !.fault = sleep.fault]
          [] k.status[i] = "BLOCKED" /\ k.lock_waiting[i] # NULL ->
               [k EXCEPT !.waiting[lockq] = from(lockq).queue, !.fault = from(lockq).fault]
          [] k.status[i] = "BLOCKED" /\ k.lock_waiting[i] = NULL /\ k.waiting_pcb[i] # -1 ->
               [k EXCEPT !.waiting[waitq] = from(waitq).queue, !.fault = from(waitq).fault]
          [] k.status[i] = "BLOCKED" /\ k.lock_waiting[i] = NULL /\ k.waiting_pcb[i] = -1 ->
               Stop(k, "hang")
          [] OTHER -> k

\* Mutant of GiveUp: the waiters of the caller are woken, as in do_exit, also
\* when another process is killed.
give_up_current(k, i) ==
    LET q  == WaitQ(k.current_running)
        k1 == [k EXCEPT !.status[i] = "NOT_EXIST",
                        !.waiting_pcb = [p \in Slots |-> IF p \in Members(k.waiting[q])
                                                         THEN -1 ELSE @[p]]]
    IN  do_unblock_all(k1, q)

\* What do_kill and do_exit have in common: slot i is given up and its waiters
\* are told that they wait for nothing, and woken; then the locks it holds are
\* released in the order of its lock_owned table.
GiveUp(k, i) ==
    LET waiters == Members(k.waiting[WaitQ(i)])
        k1 == [k EXCEPT !.status[i] = "NOT_EXIST",
                        !.waiting_pcb = [p \in Slots |-> IF p \in waiters THEN -1 ELSE @[p]]]
    IN  do_unblock_all(k1, WaitQ(i))

\* Mutant of ReleaseEntry: the loop stops before the last entry.
release_entry_short(k, i, j) ==
    IF j < MAX_MUTEX_OWN /\ k.lock_owned[i][j] # NULL
    THEN do_mutex_lock_release(k, k.lock_owned[i][j]) ELSE k

ReleaseEntry(k, i, j) ==
    IF j <= MAX_MUTEX_OWN /\ k.lock_owned[i][j] # NULL
    THEN do_mutex_lock_release(k, k.lock_owned[i][j]) ELSE k

Bury(k, i) ==
    ReleaseEntry(ReleaseEntry(ReleaseEntry(ReleaseEntry(ReleaseEntry(
        GiveUp(k, i), i, 1), i, 2), i, 3), i, 4), i, 5)

do_kill(k, pid) ==
    LET i  == FindPid(k, pid)
        k1 == Unlink(k, i, pid)
    IN  IF k1.fault # "none" THEN k1 ELSE do_scheduler(Bury(k1, i), User)

do_exit(k) == do_scheduler(Bury(k, k.current_running), User)
=============================================================================
