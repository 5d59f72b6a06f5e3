------------------------------- MODULE Sched -------------------------------
(***************************************************************************)
(* kernel/sched: the multi-level scheduler, sleeping, and the two ends of   *)
(* blocking.                                                                *)
(***************************************************************************)
EXTENDS KernelState

get_timer(k) == k.time_elapsed \div TIMER_UNIT

\* The alarm of the sleeping process p went off.
Due(k, p) == k.alarm_time[p] < get_timer(k)

\* Mutant of check_sleeping: the walk stops at the first sleeper that is not
\* due, as if the queue were kept in the order of the alarms.
check_sleeping_sorted(k) ==
    LET s     == k.sleep
        first == Least({n \in 1..(Len(s) + 1) : n = Len(s) + 1 \/ ~Due(k, s[n])})
        woken == SubSeq(s, 1, first - 1)
    IN  [k EXCEPT !.sleep    = SubSeq(s, first, Len(s)),
                  !.status   = [p \in Slots |-> IF p \in Members(woken) THEN "READY" ELSE @[p]],
                  !.priority = [p \in Slots |-> IF p \in Members(woken) THEN 1 ELSE @[p]],
                  !.ready[1] = @ \o woken]

\* Mutant of check_sleeping: after a removal the walk goes on from the removed
\* item, whose next pointer was cleared, so that a pass wakes one sleeper.
check_sleeping_once(k) ==
    LET s   == k.sleep
        due == {n \in 1..Len(s) : Due(k, s[n])}
        n   == Least(due)
    IN  IF due = {} THEN k
        ELSE [k EXCEPT !.sleep = SubSeq(s, 1, n - 1) \o SubSeq(s, n + 1, Len(s)),
                       !.status[s[n]] = "READY",
                       !.priority[s[n]] = 1,
                       !.ready[1] = Append(@, s[n])]

\* check_sleeping walks the sleep queue once.  A process that is due and has a
\* process that is not due before it and any process behind it is taken from
\* the middle of the queue: queue_remove then stores through pcb[0].next, which
\* is null.  Otherwise what is due is a prefix of the queue and its last item.
check_sleeping(k) ==
    LET s == k.sleep
        due(n) == Due(k, s[n])
        interior == \E n \in 1..(Len(s) - 1) : due(n) /\ \E m \in 1..(n - 1) : ~due(m)
        first == Least({n \in 1..(Len(s) + 1) : n = Len(s) + 1 \/ ~due(n)})
        last == IF first <= Len(s) /\ due(Len(s)) THEN Len(s) ELSE Len(s) + 1
        woken == SubSeq(s, 1, first - 1) \o SubSeq(s, last, Len(s))
        up == Members(woken)
    IN  IF interior THEN Stop(k, "interior")
        ELSE [k EXCEPT
                !.sleep    = SubSeq(s, first, last - 1),
                !.status   = [p \in Slots |-> IF p \in up THEN "READY" ELSE @[p]],
                !.priority = [p \in Slots |-> IF p \in up THEN 1 ELSE @[p]],
                !.ready[1] = @ \o woken]

\* Mutants of PutBack.  It demotes without the test for the last level; it
\* never demotes; it links on the level the process had before; it forgets
\* that a blocked process is not to be linked.
PutBackUncapped(k) ==
    LET cur  == k.current_running
        prio == k.priority[cur] + 1
        k1   == [k EXCEPT !.priority[cur] = prio]
    IN  IF cur = 0 \/ k.status[cur] \in {"BLOCKED", "SLEEPING", "NOT_EXIST"} THEN k1
        ELSE [k1 EXCEPT !.ready[prio] = Append(@, cur)]

PutBackSameLevel(k) ==
    LET cur == k.current_running
    IN  IF cur = 0 \/ k.status[cur] \in {"BLOCKED", "SLEEPING", "NOT_EXIST"} THEN k
        ELSE [k EXCEPT !.ready[k.priority[cur]] = Append(@, cur)]

PutBackThenDemote(k) ==
    LET cur  == k.current_running
        prio == IF k.priority[cur] <= 2 THEN k.priority[cur] + 1 ELSE 3
        k1   == [k EXCEPT !.priority[cur] = prio]
    IN  IF cur = 0 \/ k.status[cur] \in {"BLOCKED", "SLEEPING", "NOT_EXIST"} THEN k1
        ELSE [k1 EXCEPT !.ready[k.priority[cur]] = Append(@, cur)]

PutBackBlocked(k) ==
    LET cur  == k.current_running
        prio == IF k.priority[cur] <= 2 THEN k.priority[cur] + 1 ELSE 3
        k1   == [k EXCEPT !.priority[cur] = prio]
    IN  IF cur = 0 \/ k.status[cur] \in {"SLEEPING", "NOT_EXIST"} THEN k1
        ELSE [k1 EXCEPT !.ready[prio] = Append(@, cur)]

\* The store of the old current_running: it is demoted whatever its status,
\* and linked on a ready queue unless it gave up the CPU for good.  The link is
\* made twice when check_sleeping has just woken it.
PutBack(k) ==
    LET cur  == k.current_running
        prio == IF k.priority[cur] <= 2 THEN k.priority[cur] + 1 ELSE 3
        k1   == [k EXCEPT !.priority[cur] = prio]
    IN  IF cur = 0 \/ k.status[cur] \in {"BLOCKED", "SLEEPING", "NOT_EXIST"} THEN k1
        ELSE IF cur \in Members(k.ready[1]) THEN Stop(k1, "relinked")
        ELSE [k1 EXCEPT !.ready[prio] = Append(@, cur)]

\* The choice of the new current_running, from the first ready queue that is
\* not empty; the third one is not tested before it is dequeued.
PickNext(k) ==
    LET n == IF k.ready[1] # <<>> THEN 1 ELSE IF k.ready[2] # <<>> THEN 2 ELSE 3
        p == Head(k.ready[n])
    IN  IF k.ready[n] = <<>> THEN Stop(k, "null")
        ELSE [k EXCEPT !.ready[n] = Tail(@),
                       !.status[p] = "RUNNING",
                       !.current_running = p]

scheduler(k) ==
    LET cur == k.current_running
        k1  == IF k.status[cur] = "RUNNING" THEN [k EXCEPT !.status[cur] = "READY"] ELSE k
        k2  == check_sleeping(k1)
        k3  == IF k2.fault = "none" THEN PutBack(k2) ELSE k2
    IN  IF k3.fault = "none" THEN PickNext(k3) ELSE k3

\* do_scheduler of entry.S: the kernel context of current_running is saved (the
\* process will go on at "after"), scheduler() runs, the next one is restored.
do_scheduler(k, after) ==
    IF k.fault # "none" THEN k
    ELSE scheduler([k EXCEPT !.context[k.current_running] = after])

do_sleep(k, sleep_time) ==
    LET cur == k.current_running
    IN  do_scheduler([k EXCEPT !.status[cur] = "SLEEPING",
                               !.alarm_time[cur] = (sleep_time + get_timer(k)) % WORD,
                               !.sleep = Append(@, cur)],
                     User)

do_block(k, q) ==
    LET cur == k.current_running
    IN  [k EXCEPT !.status[cur] = "BLOCKED",
                  !.waiting[q] = Append(@, cur)]

do_unblock_one(k, q) ==
    LET p == Head(k.waiting[q])
    IN  IF k.waiting[q] = <<>> THEN Stop(k, "null")
        ELSE [k EXCEPT !.waiting[q] = Tail(@),
                       !.status[p] = "READY",
                       !.priority[p] = 1,
                       !.ready[1] = Append(@, p)]

do_unblock_all(k, q) ==
    LET up == Members(k.waiting[q])
    IN  [k EXCEPT !.waiting[q] = <<>>,
                  !.status = [p \in Slots |-> IF p \in up THEN "READY" ELSE @[p]],
                  !.priority = [p \in Slots |-> IF p \in up THEN 1 ELSE @[p]],
                  !.ready[1] = @ \o k.waiting[q]]

\* The two halves of irq_timer: the process that was interrupted is switched
\* out, and the tick is counted when it runs again.
irq_timer_enter(k) == do_scheduler(k, <<"timer", NULL>>)
irq_timer_return(k) ==
    [k EXCEPT !.time_elapsed = (@ + TICK) % WORD,
              !.context[k.current_running] = User]
=============================================================================
