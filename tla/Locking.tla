------------------------------ MODULE Locking ------------------------------
(***************************************************************************)
(* kernel/locking: mutexes, condition variables, semaphores and barriers.   *)
(* A blocking call leaves the CPU in do_scheduler(); what it does when the  *)
(* process runs again is named by the context it leaves behind.             *)
(***************************************************************************)
EXTENDS Sched

LockQ(l) == <<"lock", l>>
CondQ(c) == <<"cond", c>>
SemQ(s) == <<"sem", s>>
BarrierQ(b) == <<"barrier", b>>

-----------------------------------------------------------------------------
(***************************************************************************)
(* lock.c                                                                   *)
(***************************************************************************)

do_mutex_lock_init(k, l) ==
    [k EXCEPT !.locked[l] = FALSE, !.owner[l] = -1, !.waiting[LockQ(l)] = <<>>]

\* Mutant of do_mutex_lock_acquire: a process that got the lock is still noted
\* as waiting for it.
acquire_still_waiting(k, l) ==
    LET cur  == k.current_running
        free == {j \in 1..MAX_MUTEX_OWN : k.lock_owned[cur][j] = NULL}
        wait == [do_block(k, LockQ(l)) EXCEPT !.lock_waiting[cur] = l]
        take == [k EXCEPT !.locked[l] = TRUE,
                          !.owner[l] = k.pid[cur],
                          !.context[cur] = User]
    IN  IF k.locked[l] THEN do_scheduler(wait, <<"acquire", l>>)
        ELSE IF free = {} THEN Stop(take, "hang")
        ELSE [take EXCEPT !.lock_owned[cur][Least(free)] = l]

\* One turn of the acquire loop, from the test on: the process blocks, to come
\* back to the test, or takes the lock and notes it in its first free entry of
\* lock_owned.  With no free entry the kernel spins.
do_mutex_lock_acquire(k, l) ==
    LET cur  == k.current_running
        free == {j \in 1..MAX_MUTEX_OWN : k.lock_owned[cur][j] = NULL}
        wait == [do_block(k, LockQ(l)) EXCEPT !.lock_waiting[cur] = l]
        take == [k EXCEPT !.locked[l] = TRUE,
                          !.owner[l] = k.pid[cur],
                          !.lock_waiting[cur] = NULL,
                          !.context[cur] = User]
    IN  IF k.locked[l] THEN do_scheduler(wait, <<"acquire", l>>)
        ELSE IF free = {} THEN Stop(take, "hang")
        ELSE [take EXCEPT !.lock_owned[cur][Least(free)] = l]

\* The lock is taken out of the table of its owner, who is looked up by pid and
\* need not be the caller, and is free.
Disown(k, l) ==
    LET o     == FindPid(k, k.owner[l])
        owned == k.lock_owned[o]
    IN  [k EXCEPT !.lock_owned[o] = [j \in 1..MAX_MUTEX_OWN |->
                                        IF owned[j] = l THEN NULL ELSE owned[j]],
                  !.locked[l] = FALSE]

\* Mutant of do_mutex_lock_release: it wakes the first waiter only.
release_wakes_one(k, l) ==
    LET k1 == [Disown(k, l) EXCEPT !.owner[l] = -1]
    IN  IF k.waiting[LockQ(l)] = <<>> THEN k1 ELSE do_unblock_one(k1, LockQ(l))

do_mutex_lock_release(k, l) ==
    [do_unblock_all(Disown(k, l), LockQ(l)) EXCEPT !.owner[l] = -1]

-----------------------------------------------------------------------------
(***************************************************************************)
(* cond.c                                                                   *)
(***************************************************************************)

do_condition_init(k, c) ==
    [k EXCEPT !.num_waiting[c] = 0, !.waiting[CondQ(c)] = <<>>]

\* Mutant of do_condition_wait: it keeps the lock.
wait_keeps_lock(k, l, c) ==
    do_scheduler(do_block([k EXCEPT !.num_waiting[c] = @ + 1], CondQ(c)), <<"acquire", l>>)

\* The process is queued before the lock is released, and takes the lock again
\* when it runs.
do_condition_wait(k, l, c) ==
    LET k1 == [k EXCEPT !.num_waiting[c] = @ + 1]
        k2 == do_block(k1, CondQ(c))
    IN  do_scheduler(do_mutex_lock_release(k2, l), <<"acquire", l>>)

do_condition_signal(k, c) ==
    LET k1 == do_unblock_one(k, CondQ(c))
    IN  IF k.num_waiting[c] <= 0 THEN k
        ELSE IF k1.fault # "none" THEN k1
        ELSE [k1 EXCEPT !.num_waiting[c] = @ - 1]

\* Mutant of do_condition_broadcast: the counter is not reset.
broadcast_keeps_count(k, c) ==
    IF k.num_waiting[c] <= 0 THEN k ELSE do_unblock_all(k, CondQ(c))

do_condition_broadcast(k, c) ==
    IF k.num_waiting[c] <= 0 THEN k
    ELSE [do_unblock_all(k, CondQ(c)) EXCEPT !.num_waiting[c] = 0]

-----------------------------------------------------------------------------
(***************************************************************************)
(* sem.c                                                                    *)
(***************************************************************************)

do_semaphore_init(k, s, val) ==
    IF val >= 0 THEN [k EXCEPT !.sem[s] = val, !.waiting[SemQ(s)] = <<>>] ELSE k

\* Mutant of do_semaphore_up: the test for a waiter is off by one.
up_off_by_one(k, s) ==
    LET k1 == [k EXCEPT !.sem[s] = @ + 1]
    IN  do_scheduler(IF k1.sem[s] <= 1 THEN do_unblock_one(k1, SemQ(s)) ELSE k1, User)

do_semaphore_up(k, s) ==
    LET k1 == [k EXCEPT !.sem[s] = @ + 1]
    IN  do_scheduler(IF k1.sem[s] <= 0 THEN do_unblock_one(k1, SemQ(s)) ELSE k1, User)

do_semaphore_down(k, s) ==
    LET k1 == [k EXCEPT !.sem[s] = @ - 1]
    IN  do_scheduler(IF k1.sem[s] < 0 THEN do_block(k1, SemQ(s)) ELSE k1, User)

-----------------------------------------------------------------------------
(***************************************************************************)
(* barrier.c                                                                *)
(***************************************************************************)

do_barrier_init(k, b, goal) ==
    [k EXCEPT !.num_expected[b] = goal, !.num_now[b] = 0, !.waiting[BarrierQ(b)] = <<>>]

\* Mutant of do_barrier_wait: the last arrival wakes one process.
barrier_wakes_one(k, b) ==
    LET k1  == [k EXCEPT !.num_now[b] = @ + 1]
        now == k1.num_now[b]
    IN  IF now < k.num_expected[b] THEN do_scheduler(do_block(k1, BarrierQ(b)), User)
        ELSE IF now = k.num_expected[b]
        THEN do_scheduler([do_unblock_one(k1, BarrierQ(b)) EXCEPT !.num_now[b] = 0], User)
        ELSE k1

\* An arrival beyond the goal is only counted.
do_barrier_wait(k, b) ==
    LET k1  == [k EXCEPT !.num_now[b] = @ + 1]
        now == k1.num_now[b]
    IN  IF now < k.num_expected[b] THEN do_scheduler(do_block(k1, BarrierQ(b)), User)
        ELSE IF now = k.num_expected[b]
        THEN do_scheduler([do_unblock_all(k1, BarrierQ(b)) EXCEPT !.num_now[b] = 0], User)
        ELSE k1
=============================================================================
