---------------------------- MODULE KernelProofs ----------------------------
(***************************************************************************)
(* Type correctness of the kernel (TypeOK of Kernel.tla), for any size of   *)
(* the process table and any sets of locks, conditions, semaphores and      *)
(* barriers.                                                                *)
(*                                                                         *)
(* The types alone are not inductive: do_kill indexes the ready queues with *)
(* the priority of a READY process, which is 0 before the first switch, and *)
(* the acquire loop is resumed for whatever process is restored.  MemInv    *)
(* adds that a READY process has a level and that only user processes wait  *)
(* in the loop.  There is one lemma per handler, stated for an arbitrary    *)
(* memory; the set S of slots that may be linked is fixed in all of them    *)
(* and grows only in spawn.                                                 *)
(***************************************************************************)
EXTENDS Kernel, FiniteSetTheorems, TLAPS

-----------------------------------------------------------------------------
(***************************************************************************)
(* Lookups                                                                  *)
(***************************************************************************)

\* A set of numbers that is not empty has a least element.
LEMMA LeastIn ==
  ASSUME NEW S \in SUBSET Nat, S # {}
  PROVE  Least(S) \in S /\ \A m \in S : Least(S) <= m
<1> DEFINE T == {0..n : n \in S}
           R == StrictSubsetOrdering(Nat)
<1>1. \A n \in S : IsFiniteSet(0..n)
  BY FS_Interval
<1>2. T \subseteq FiniteSubsetsOf(Nat)
  BY <1>1 DEF FiniteSubsetsOf
<1>3. T # {}
  OBVIOUS
<1>4. IsWellFoundedOn(R, FiniteSubsetsOf(Nat))
  BY FS_StrictSubsetOrderingWellFounded
<1> HIDE DEF R
<1>5. PICK x \in T : \A y \in T : ~(<<y, x>> \in R)
  <2> HIDE DEF T
  <2> QED BY <1>2, <1>3, <1>4, WFMin
<1>6. PICK n \in S : x = 0..n
  OBVIOUS
<1>7. ASSUME NEW m \in S PROVE n <= m
  <2>1. ~(<<0..m, 0..n>> \in R)
    BY <1>5, <1>6
  <2>2. ~(0..m \subseteq 0..n /\ 0..m # 0..n)
    BY <2>1 DEF R, StrictSubsetOrdering
  <2>3. CASE m < n
    <3>1. 0..m \subseteq 0..n
      BY <2>3
    <3>2. n \in 0..n /\ ~(n \in 0..m)
      BY <2>3
    <3> QED BY <2>2, <3>1, <3>2
  <2> QED BY <2>3
<1> QED BY <1>7 DEF Least

LEMMA FindPidIn ==
  ASSUME NEW S \in SUBSET Procs, NEW m, KernelMemory(m, S), NEW pid
  PROVE  /\ FindPid(m, pid) \in UserSlots \cup {Phantom}
         /\ FindPid(m, pid) \in Slots
         /\ (\E i \in UserSlots : m.pid[i] = pid) =>
               /\ FindPid(m, pid) \in UserSlots
               /\ m.pid[FindPid(m, pid)] = pid
<1> DEFINE at == {i \in UserSlots : m.pid[i] = pid}
<1>1. at \in SUBSET Nat /\ UserSlots \cup {Phantom} \subseteq Slots
  BY SizeAssumption DEF UserSlots, Slots, Phantom
<1>2. FindPid(m, pid) = IF at = {} THEN Phantom ELSE Least(at)
  BY DEF FindPid
<1>3. at # {} => Least(at) \in at
  <2> HIDE DEF at
  <2> QED BY <1>1, LeastIn
<1> QED BY <1>1, <1>2, <1>3

-----------------------------------------------------------------------------
(***************************************************************************)
(* Types                                                                    *)
(***************************************************************************)

\* Together with the types: a ready process has a level (do_kill indexes the
\* ready queues with it), and only a user process waits in the acquire loop.
\* In the middle of scheduler() the old current_running is an exception.
ReadyLevels(m) ==
    m.fault = "none" =>
        \A p \in Slots : m.status[p] = "READY" => m.priority[p] \in 1..3
OthersHaveLevels(m) ==
    m.fault = "none" =>
        \A p \in Slots : m.status[p] = "READY" /\ p # m.current_running
                            => m.priority[p] \in 1..3
Resumes(m) == \A p \in Slots : m.context[p] \in {"acquire"} \X Locks => p \in UserSlots
MemInv(m, S) == KernelMemory(m, S) /\ ReadyLevels(m) /\ Resumes(m)
MidInv(m, S) == KernelMemory(m, S) /\ OthersHaveLevels(m) /\ Resumes(m)

LEMMA StopType ==
  ASSUME NEW S \in SUBSET Procs, NEW m, MemInv(m, S), NEW f \in Faults, f # "none"
  PROVE  MemInv(Stop(m, f), S)
  BY DEF MemInv, KernelMemory, ReadyLevels, Resumes, Stop, Fields

LEMMA StopMid ==
  ASSUME NEW S \in SUBSET Procs, NEW m, MidInv(m, S), NEW f \in Faults, f # "none"
  PROVE  MemInv(Stop(m, f), S) /\ Stop(m, f).fault = f
<1>1. KernelMemory(Stop(m, f), S) /\ Stop(m, f).fault = f
  BY DEF MidInv, KernelMemory, Stop, Fields
<1>2. Resumes(Stop(m, f))
  BY DEF MidInv, KernelMemory, Resumes, Stop, Fields
<1> QED BY <1>1, <1>2 DEF MemInv, ReadyLevels

LEMMA CurrentType ==
  ASSUME NEW S \in SUBSET Procs, NEW m, KernelMemory(m, S)
  PROVE  /\ m.current_running \in Slots \ {Phantom}
         /\ m.current_running # 0 => m.current_running \in S
         /\ m.current_running >= 2 => m.current_running \in UserSlots
         /\ Procs \subseteq Slots \ {Phantom} /\ UserSlots \subseteq Procs /\ 0 \notin Procs
<1>1. m.current_running \in {0} \cup S
  BY DEF KernelMemory
<1>2. m.current_running \in {0} \cup Procs
  BY <1>1
<1> QED BY <1>1, <1>2, SizeAssumption DEF Procs, Slots, Phantom, UserSlots

LEMMA BlockType ==
  ASSUME NEW S \in SUBSET Procs, NEW m, MemInv(m, S), m.current_running # 0, NEW q \in WaitQueues
  PROVE  MemInv(do_block(m, q), S)
<1>1. m.current_running \in S /\ m.current_running \in Slots
  BY CurrentType DEF MemInv
<1> QED BY <1>1, SMTT(40) DEF MemInv, KernelMemory, ReadyLevels, Resumes, do_block, Status, Fields

LEMMA UnblockAllType ==
  ASSUME NEW S \in SUBSET Procs, NEW m, MemInv(m, S), NEW q \in WaitQueues
  PROVE  MemInv(do_unblock_all(m, q), S)
  BY SMTT(40) DEF MemInv, KernelMemory, ReadyLevels, Resumes, do_unblock_all, Status, Fields

LEMMA UnblockOneType ==
  ASSUME NEW S \in SUBSET Procs, NEW m, MemInv(m, S), NEW q \in WaitQueues
  PROVE  MemInv(do_unblock_one(m, q), S)
<1>1. CASE m.waiting[q] = <<>>
  BY <1>1, StopType DEF do_unblock_one, Faults
<1>2. CASE m.waiting[q] # <<>>
  <2> DEFINE p == Head(m.waiting[q])
             n == [m EXCEPT !.waiting[q] = Tail(@), !.status[p] = "READY",
                            !.priority[p] = 1, !.ready[1] = Append(@, p)]
  <2>1. m.waiting[q] \in Seq(S)
    BY DEF MemInv, KernelMemory
  <2>2. p \in S /\ Tail(m.waiting[q]) \in Seq(S)
    BY <1>2, <2>1
  <2>3. p \in Slots
    BY <2>2, CurrentType DEF MemInv
  <2>4. do_unblock_one(m, q) = n
    BY <1>2 DEF do_unblock_one
  <2> HIDE DEF p
  <2>5. KernelMemory(n, S)
    <3>1. n.waiting \in [WaitQueues -> Seq(S)]
      BY <2>2 DEF MemInv, KernelMemory, Fields
    <3>2. n.ready \in [1..3 -> Seq(S)]
      BY <2>2 DEF MemInv, KernelMemory, Fields
    <3>3. n.status \in [Slots -> Status]
      BY <2>3 DEF MemInv, KernelMemory, Fields, Status
    <3>4. n.priority \in [Slots -> 0..3]
      BY <2>3 DEF MemInv, KernelMemory, Fields
    <3> QED BY <3>1, <3>2, <3>3, <3>4 DEF MemInv, KernelMemory, Fields
  <2>6. ReadyLevels(n)
    BY <2>3 DEF MemInv, KernelMemory, ReadyLevels, Fields
  <2>7. Resumes(n)
    BY DEF MemInv, KernelMemory, Resumes, Fields
  <2> QED BY <2>4, <2>5, <2>6, <2>7 DEF MemInv
<1> QED BY <1>1, <1>2

LEMMA PutBackType ==
  ASSUME NEW S \in SUBSET Procs, NEW m, MidInv(m, S)
  PROVE  MemInv(PutBack(m), S)
<1> DEFINE cur == m.current_running
           prio == IF m.priority[cur] <= 2 THEN m.priority[cur] + 1 ELSE 3
           m1 == [m EXCEPT !.priority[cur] = prio]
           m2 == [m1 EXCEPT !.ready[prio] = Append(@, cur)]
<1>0. cur \in Slots /\ (cur # 0 => cur \in S)
  BY CurrentType DEF MidInv
<1>1. prio \in 1..3
  <2>1. m.priority[cur] \in 0..3
    BY <1>0 DEF MidInv, KernelMemory
  <2> QED BY <2>1
<1>2. PutBack(m) = m1 \/ PutBack(m) = Stop(m1, "relinked") \/ (PutBack(m) = m2 /\ cur # 0)
  BY DEF PutBack
<1> HIDE DEF prio, cur
<1>3. MemInv(m1, S)
  <2>1. KernelMemory(m1, S)
    BY <1>0, <1>1, SMTT(40) DEF MidInv, KernelMemory, Fields
  <2>2. ReadyLevels(m1)
    BY <1>0, <1>1 DEF MidInv, KernelMemory, OthersHaveLevels, ReadyLevels, Fields, cur
  <2>3. Resumes(m1)
    BY DEF MidInv, KernelMemory, Resumes, Fields
  <2> QED BY <2>1, <2>2, <2>3 DEF MemInv
<1> HIDE DEF m1
<1>4. MemInv(Stop(m1, "relinked"), S)
  BY <1>3, StopType DEF Faults
<1>5. cur # 0 => MemInv(m2, S)
  <2> SUFFICES ASSUME cur # 0 PROVE MemInv(m2, S)
    OBVIOUS
  <2>1. m2.ready \in [1..3 -> Seq(S)]
    <3>1. m1.ready \in [1..3 -> Seq(S)]
      BY <1>3 DEF MemInv, KernelMemory
    <3>2. m2.ready = [m1.ready EXCEPT ![prio] = Append(m1.ready[prio], cur)]
      BY <1>3 DEF MemInv, KernelMemory, Fields
    <3>3. Append(m1.ready[prio], cur) \in Seq(S)
      BY <1>0, <1>1, <3>1
    <3> QED BY <3>1, <3>2, <3>3
  <2>2. KernelMemory(m2, S)
    BY <1>3, <2>1 DEF MemInv, KernelMemory, Fields
  <2>3. ReadyLevels(m2) /\ Resumes(m2)
    BY <1>3 DEF MemInv, KernelMemory, ReadyLevels, Resumes, Fields
  <2> QED BY <2>2, <2>3 DEF MemInv
<1> QED BY <1>2, <1>3, <1>4, <1>5

LEMMA PickNextType ==
  ASSUME NEW S \in SUBSET Procs, NEW m, MemInv(m, S)
  PROVE  MemInv(PickNext(m), S)
<1> DEFINE n == IF m.ready[1] # <<>> THEN 1 ELSE IF m.ready[2] # <<>> THEN 2 ELSE 3
<1>1. n \in 1..3
  OBVIOUS
<1>2. CASE m.ready[n] = <<>>
  BY <1>2, StopType DEF PickNext, Faults
<1>3. CASE m.ready[n] # <<>>
  <2> DEFINE p == Head(m.ready[n])
             k1 == [m EXCEPT !.ready[n] = Tail(@), !.status[p] = "RUNNING", !.current_running = p]
  <2>1. m.ready[n] \in Seq(S)
    BY <1>1 DEF MemInv, KernelMemory
  <2>2. p \in S /\ Tail(m.ready[n]) \in Seq(S)
    BY <1>3, <2>1
  <2>3. p \in Slots \ {Phantom}
    BY <2>2, CurrentType DEF MemInv
  <2>4. PickNext(m) = k1
    BY <1>3 DEF PickNext
  <2> HIDE DEF p, n
  <2>5. KernelMemory(k1, S)
    BY <1>1, <2>2, <2>3 DEF MemInv, KernelMemory, Status, Fields
  <2>6. ReadyLevels(k1)
    BY <2>3 DEF MemInv, KernelMemory, ReadyLevels, Fields
  <2>7. Resumes(k1)
    BY DEF MemInv, KernelMemory, Resumes, Fields
  <2> QED BY <2>4, <2>5, <2>6, <2>7 DEF MemInv
<1> QED BY <1>2, <1>3

\* Arithmetic of the clock.
LEMMA ModRange ==
  ASSUME NEW x \in Nat
  PROVE  x % WORD \in 0..(WORD - 1)
  BY ClockAssumption

LEMMA TimerType ==
  ASSUME NEW S \in SUBSET Procs, NEW m, KernelMemory(m, S)
  PROVE  get_timer(m) \in Nat
<1>1. m.time_elapsed \in Nat
  BY ClockAssumption DEF KernelMemory
<1> QED BY <1>1, ClockAssumption DEF get_timer

LEMMA CheckSleepingType ==
  ASSUME NEW S \in SUBSET Procs, NEW m, MidInv(m, S)
  PROVE  /\ MidInv(check_sleeping(m), S)
         /\ check_sleeping(m).fault # "none" => MemInv(check_sleeping(m), S)
<1> DEFINE s == m.sleep
           due(n) == Due(m, s[n])
           interior == \E n \in 1..(Len(s) - 1) : due(n) /\ \E i \in 1..(n - 1) : ~due(i)
           F == {n \in 1..(Len(s) + 1) : n = Len(s) + 1 \/ ~due(n)}
           first == Least(F)
           last == IF first <= Len(s) /\ due(Len(s)) THEN Len(s) ELSE Len(s) + 1
           woken == SubSeq(s, 1, first - 1) \o SubSeq(s, last, Len(s))
           up == Members(woken)
           n1 == [m EXCEPT
                    !.sleep    = SubSeq(s, first, last - 1),
                    !.status   = [p \in Slots |-> IF p \in up THEN "READY" ELSE @[p]],
                    !.priority = [p \in Slots |-> IF p \in up THEN 1 ELSE @[p]],
                    !.ready[1] = @ \o woken]
<1>1. check_sleeping(m) = IF interior THEN Stop(m, "interior") ELSE n1
  BY DEF check_sleeping
<1>2. s \in Seq(S) /\ Len(s) \in Nat
  BY DEF MidInv, KernelMemory
<1>3. first \in 1..(Len(s) + 1)
  <2>1. F \in SUBSET Nat /\ Len(s) + 1 \in F
    BY <1>2
  <2> HIDE DEF F
  <2>2. first \in F
    BY <2>1, LeastIn
  <2> QED BY <2>2 DEF F
<1> HIDE DEF F, first
<1>4. last \in 1..(Len(s) + 1)
  BY <1>2, <1>3
<1> HIDE DEF last
<1>5. SubSeq(s, first, last - 1) \in Seq(S) /\ woken \in Seq(S)
  <2>1. SubSeq(s, first, last - 1) \in Seq(S)
    BY <1>2, <1>3, <1>4
  <2>2. SubSeq(s, 1, first - 1) \in Seq(S)
    BY <1>2, <1>3
  <2>3. SubSeq(s, last, Len(s)) \in Seq(S)
    BY <1>2, <1>4
  <2> QED BY <2>1, <2>2, <2>3
<1> HIDE DEF woken, up
<1>6. MidInv(n1, S)
  <2>1. n1.ready \in [1..3 -> Seq(S)]
    BY <1>5 DEF MidInv, KernelMemory, Fields
  <2>2. n1.status \in [Slots -> Status]
    BY DEF MidInv, KernelMemory, Fields, Status
  <2>3. n1.priority \in [Slots -> 0..3]
    BY DEF MidInv, KernelMemory, Fields
  <2>4. KernelMemory(n1, S)
    BY <1>5, <2>1, <2>2, <2>3 DEF MidInv, KernelMemory, Fields
  <2>5. OthersHaveLevels(n1)
    BY DEF MidInv, KernelMemory, OthersHaveLevels, Fields
  <2>6. Resumes(n1)
    BY DEF MidInv, KernelMemory, Resumes, Fields
  <2> QED BY <2>4, <2>5, <2>6 DEF MidInv
<1>7. MemInv(Stop(m, "interior"), S) /\ Stop(m, "interior").fault # "none"
  BY StopMid DEF Faults
<1>8. MidInv(Stop(m, "interior"), S)
  BY <1>7 DEF MidInv, MemInv, OthersHaveLevels
<1>9. n1.fault # "none" => MemInv(n1, S)
  BY <1>6 DEF MidInv, MemInv, ReadyLevels
<1> HIDE DEF n1, interior
<1> QED BY <1>1, <1>6, <1>7, <1>8, <1>9

\* The old current_running is no longer RUNNING.
LEMMA Demotion ==
  ASSUME NEW S \in SUBSET Procs, NEW m, MemInv(m, S)
  PROVE  MidInv(IF m.status[m.current_running] = "RUNNING"
                THEN [m EXCEPT !.status[m.current_running] = "READY"] ELSE m, S)
<1> DEFINE cur == m.current_running
           k1 == IF m.status[cur] = "RUNNING" THEN [m EXCEPT !.status[cur] = "READY"] ELSE m
<1> DEFINE n1 == [m EXCEPT !.status[cur] = "READY"]
<1>1. cur \in Slots
  BY CurrentType DEF MemInv
<1>2. KernelMemory(n1, S)
  BY <1>1 DEF MemInv, KernelMemory, Fields, Status
<1>3. OthersHaveLevels(n1)
  BY <1>1 DEF MemInv, KernelMemory, Fields, OthersHaveLevels, ReadyLevels
<1>4. Resumes(n1)
  BY DEF MemInv, KernelMemory, Fields, Resumes
<1>5. MidInv(m, S)
  BY DEF MemInv, MidInv, ReadyLevels, OthersHaveLevels
<1>6. MidInv(n1, S)
  BY <1>2, <1>3, <1>4 DEF MidInv
<1>7. k1 = m \/ k1 = n1
  OBVIOUS
<1>8. MidInv(k1, S)
  <2> HIDE DEF n1, k1
  <2> QED BY <1>5, <1>6, <1>7
<1> QED BY <1>8

LEMMA SchedulerType ==
  ASSUME NEW S \in SUBSET Procs, NEW m, MemInv(m, S)
  PROVE  MemInv(scheduler(m), S)
<1> DEFINE cur == m.current_running
           k1 == IF m.status[cur] = "RUNNING" THEN [m EXCEPT !.status[cur] = "READY"] ELSE m
           k2 == check_sleeping(k1)
           k3 == IF k2.fault = "none" THEN PutBack(k2) ELSE k2
           k4 == IF k3.fault = "none" THEN PickNext(k3) ELSE k3
<1>1. scheduler(m) = k4
  BY DEF scheduler
<1>2. MidInv(k1, S)
  BY Demotion
<1> HIDE DEF k1
<1>3. MidInv(k2, S) /\ (k2.fault # "none" => MemInv(k2, S))
  BY <1>2, CheckSleepingType
<1> HIDE DEF k2
<1>4. MemInv(k3, S)
  BY <1>3, PutBackType
<1> HIDE DEF k3
<1> QED BY <1>1, <1>4, PickNextType

LEMMA ContextType ==
  ASSUME NEW S \in SUBSET Procs, NEW m, MemInv(m, S), NEW after \in Contexts,
         after \in {"acquire"} \X Locks => m.current_running \in UserSlots
  PROVE  MemInv([m EXCEPT !.context[m.current_running] = after], S)
<1> DEFINE n1 == [m EXCEPT !.context[m.current_running] = after]
<1>1. m.current_running \in Slots
  BY CurrentType DEF MemInv
<1>2. KernelMemory(n1, S)
  BY <1>1 DEF MemInv, KernelMemory, Fields
<1>3. ReadyLevels(n1)
  BY DEF MemInv, KernelMemory, ReadyLevels, Fields
<1>4. Resumes(n1)
  BY <1>1 DEF MemInv, KernelMemory, Resumes, Fields
<1> QED BY <1>2, <1>3, <1>4 DEF MemInv

LEMMA SwitchType ==
  ASSUME NEW S \in SUBSET Procs, NEW m, MemInv(m, S), NEW after \in Contexts,
         after \in {"acquire"} \X Locks => m.current_running \in UserSlots
  PROVE  MemInv(do_scheduler(m, after), S)
<1> DEFINE n1 == [m EXCEPT !.context[m.current_running] = after]
<1>1. MemInv(n1, S)
  BY ContextType
<1>2. MemInv(scheduler(n1), S)
  <2> HIDE DEF n1
  <2> QED BY <1>1, SchedulerType
<1> HIDE DEF n1
<1> QED BY <1>2 DEF do_scheduler, n1

LEMMA UserContext ==
  /\ User \in Contexts /\ User \notin {"acquire"} \X Locks
  /\ <<"timer", NULL>> \in Contexts /\ <<"timer", NULL>> \notin {"acquire"} \X Locks
  /\ \A l \in Locks : <<"acquire", l>> \in Contexts
  BY DEF User, Contexts

LEMMA QueueNames ==
  /\ \A l \in Locks : LockQ(l) \in WaitQueues
  /\ \A c \in Conds : CondQ(c) \in WaitQueues
  /\ \A s \in Sems : SemQ(s) \in WaitQueues
  /\ \A b \in Barriers : BarrierQ(b) \in WaitQueues
  /\ \A i \in Slots : WaitQ(i) \in WaitQueues
  BY DEF LockQ, CondQ, SemQ, BarrierQ, WaitQ, WaitQueues

LEMMA ToUserType ==
  ASSUME NEW S \in SUBSET Procs, NEW m, MemInv(m, S)
  PROVE  MemInv(do_scheduler(m, User), S) /\ MemInv(irq_timer_enter(m), S)
  BY SwitchType, UserContext DEF irq_timer_enter

LEMMA AlarmType ==
  ASSUME NEW S \in SUBSET Procs, NEW m, MemInv(m, S), m.current_running # 0, NEW t \in Nat
  PROVE  MemInv([m EXCEPT !.status[m.current_running] = "SLEEPING",
                          !.alarm_time[m.current_running] = (t + get_timer(m)) % WORD,
                          !.sleep = Append(@, m.current_running)], S)
<1> DEFINE cur == m.current_running
           n1 == [m EXCEPT !.status[cur] = "SLEEPING",
                           !.alarm_time[cur] = (t + get_timer(m)) % WORD,
                           !.sleep = Append(@, cur)]
<1>1. cur \in Slots /\ cur \in S
  BY CurrentType DEF MemInv
<1>2. (t + get_timer(m)) % WORD \in 0..(WORD - 1)
  <2>1. get_timer(m) \in Nat
    BY TimerType DEF MemInv
  <2> QED BY <2>1, ModRange
<1> HIDE DEF cur
<1>4. KernelMemory(n1, S)
  <2>1. n1.sleep \in Seq(S)
    <3>1. m.sleep \in Seq(S)
      BY DEF MemInv, KernelMemory
    <3> QED BY <1>1, <3>1 DEF MemInv, KernelMemory, Fields
  <2>2. n1.alarm_time \in [Slots -> 0..(WORD - 1)]
    BY <1>1, <1>2 DEF MemInv, KernelMemory, Fields
  <2>3. n1.status \in [Slots -> Status]
    BY <1>1 DEF MemInv, KernelMemory, Fields, Status
  <2> QED BY <2>1, <2>2, <2>3 DEF MemInv, KernelMemory, Fields
<1>5. ReadyLevels(n1)
  BY <1>1 DEF MemInv, KernelMemory, ReadyLevels, Fields
<1>6. Resumes(n1)
  BY DEF MemInv, KernelMemory, Resumes, Fields
<1>7. MemInv(n1, S)
  BY <1>4, <1>5, <1>6 DEF MemInv
<1> QED BY <1>7 DEF cur

LEMMA SleepType ==
  ASSUME NEW S \in SUBSET Procs, NEW m, MemInv(m, S), m.current_running # 0, NEW t \in Nat
  PROVE  MemInv(do_sleep(m, t), S)
  BY AlarmType, ToUserType DEF do_sleep

LEMMA TickType ==
  ASSUME NEW S \in SUBSET Procs, NEW m, MemInv(m, S)
  PROVE  MemInv(irq_timer_return(m), S)
<1> DEFINE n1 == [m EXCEPT !.time_elapsed = (@ + TICK) % WORD,
                           !.context[m.current_running] = User]
<1>1. m.current_running \in Slots
  BY CurrentType DEF MemInv
<1>2. (m.time_elapsed + TICK) % WORD \in 0..(WORD - 1)
  <2>1. m.time_elapsed + TICK \in Nat
    BY ClockAssumption DEF MemInv, KernelMemory
  <2> QED BY <2>1, ModRange
<1>3. KernelMemory(n1, S)
  <2>1. n1.time_elapsed \in 0..(WORD - 1)
    BY <1>2 DEF MemInv, KernelMemory, Fields
  <2>2. n1.context \in [Slots -> Contexts]
    BY <1>1, UserContext DEF MemInv, KernelMemory, Fields
  <2> QED BY <2>1, <2>2 DEF MemInv, KernelMemory, Fields
<1>4. ReadyLevels(n1)
  BY DEF MemInv, KernelMemory, ReadyLevels, Fields
<1>5. Resumes(n1)
  BY <1>1, UserContext DEF MemInv, KernelMemory, Resumes, Fields
<1> QED BY <1>3, <1>4, <1>5 DEF MemInv, irq_timer_return

-----------------------------------------------------------------------------
\* An update of the scalar fields of a lock, condition, semaphore or barrier
\* (and of a table of waiting or held locks) keeps the types.

LEMMA LockInitType ==
  ASSUME NEW S \in SUBSET Procs, NEW m, MemInv(m, S), NEW l \in Locks
  PROVE  MemInv(do_mutex_lock_init(m, l), S)
<1> DEFINE n1 == do_mutex_lock_init(m, l)
<1>1. LockQ(l) \in WaitQueues
  BY QueueNames
<1>2. KernelMemory(n1, S)
  BY <1>1 DEF do_mutex_lock_init, MemInv, KernelMemory, Fields
<1>3. ReadyLevels(n1) /\ Resumes(n1)
  BY DEF do_mutex_lock_init, MemInv, KernelMemory, ReadyLevels, Resumes, Fields
<1> QED BY <1>2, <1>3 DEF MemInv

\* The process that finds the lock taken, at the point where it gives up the CPU.
LEMMA AcquireWaitType ==
  ASSUME NEW S \in SUBSET Procs, NEW m, MemInv(m, S), NEW l \in Locks, m.current_running \in UserSlots
  PROVE  LET wait == [do_block(m, LockQ(l)) EXCEPT !.lock_waiting[m.current_running] = l]
         IN  MemInv(wait, S) /\ wait.current_running = m.current_running
<1> DEFINE cur == m.current_running
           b == do_block(m, LockQ(l))
           wait == [b EXCEPT !.lock_waiting[cur] = l]
<1>1. cur \in Slots /\ cur # 0
  BY CurrentType, SizeAssumption DEF MemInv, UserSlots
<1>2. MemInv(b, S)
  BY <1>1, BlockType, QueueNames
<1>3. b.current_running = cur
  BY DEF do_block, MemInv, KernelMemory, Fields
<1> HIDE DEF b
<1>4. KernelMemory(wait, S)
  BY <1>1, <1>2 DEF MemInv, KernelMemory, Fields
<1>5. ReadyLevels(wait) /\ Resumes(wait)
  BY <1>2 DEF MemInv, KernelMemory, ReadyLevels, Resumes, Fields
<1>6. wait.current_running = cur
  BY <1>2, <1>3 DEF MemInv, KernelMemory, Fields
<1> QED BY <1>4, <1>5, <1>6 DEF MemInv, b

LEMMA AcquireType ==
  ASSUME NEW S \in SUBSET Procs, NEW m, MemInv(m, S), NEW l \in Locks, m.current_running \in UserSlots
  PROVE  MemInv(do_mutex_lock_acquire(m, l), S)
<1> DEFINE cur == m.current_running
           free == {j \in 1..MAX_MUTEX_OWN : m.lock_owned[cur][j] = NULL}
           wait == [do_block(m, LockQ(l)) EXCEPT !.lock_waiting[cur] = l]
           take == [m EXCEPT !.locked[l] = TRUE,
                             !.owner[l] = m.pid[cur],
                             !.lock_waiting[cur] = NULL,
                             !.context[cur] = User]
           note == [take EXCEPT !.lock_owned[cur][Least(free)] = l]
<1>1. cur \in Slots /\ cur # 0
  BY CurrentType, SizeAssumption DEF MemInv, UserSlots
<1>2. do_mutex_lock_acquire(m, l) =
        IF m.locked[l] THEN do_scheduler(wait, <<"acquire", l>>)
        ELSE IF free = {} THEN Stop(take, "hang") ELSE note
  BY DEF do_mutex_lock_acquire
<1>3. free # {} => Least(free) \in 1..MAX_MUTEX_OWN
  <2>1. free \in SUBSET Nat /\ free \subseteq 1..MAX_MUTEX_OWN
    OBVIOUS
  <2> HIDE DEF free
  <2> QED BY <2>1, LeastIn
<1> HIDE DEF free
<1>4. MemInv(do_scheduler(wait, <<"acquire", l>>), S)
  <2>1. MemInv(wait, S) /\ wait.current_running = cur
    BY AcquireWaitType
  <2> HIDE DEF wait
  <2> QED BY <2>1, SwitchType, UserContext
<1> HIDE DEF wait
<1>5. MemInv(take, S)
  <2>0. m.pid[cur] \in Int
    BY <1>1 DEF MemInv, KernelMemory
  <2> HIDE DEF cur
  <2>1. KernelMemory(take, S)
    <3>1. take.owner \in [Locks -> Int]
      BY <2>0 DEF MemInv, KernelMemory, Fields
    <3>2. take.context \in [Slots -> Contexts]
      BY UserContext DEF MemInv, KernelMemory, Fields
    <3>3. take.lock_waiting \in [Slots -> Locks \cup {NULL}]
      BY DEF MemInv, KernelMemory, Fields
    <3> QED BY <3>1, <3>2, <3>3 DEF MemInv, KernelMemory, Fields
  <2>2. ReadyLevels(take)
    BY DEF MemInv, KernelMemory, ReadyLevels, Fields
  <2>3. Resumes(take)
    BY <1>1, UserContext DEF MemInv, KernelMemory, Resumes, Fields
  <2> QED BY <2>1, <2>2, <2>3 DEF MemInv
<1>6. MemInv(Stop(take, "hang"), S)
  <2> HIDE DEF take
  <2> QED BY <1>5, StopType DEF Faults
<1> HIDE DEF take, cur
<1>7. free # {} => MemInv(note, S)
  <2> SUFFICES ASSUME free # {} PROVE MemInv(note, S)
    OBVIOUS
  <2>1. note.lock_owned \in [Slots -> [1..MAX_MUTEX_OWN -> Locks \cup {NULL}]]
    BY <1>1, <1>3, <1>5 DEF MemInv, KernelMemory, Fields
  <2>2. KernelMemory(note, S)
    BY <1>5, <2>1 DEF MemInv, KernelMemory, Fields
  <2>3. ReadyLevels(note) /\ Resumes(note)
    BY <1>5 DEF MemInv, KernelMemory, ReadyLevels, Resumes, Fields
  <2> QED BY <2>2, <2>3 DEF MemInv
<1> HIDE DEF note
<1> QED BY <1>2, <1>4, <1>6, <1>7

LEMMA DisownType ==
  ASSUME NEW S \in SUBSET Procs, NEW m, MemInv(m, S), NEW l \in Locks
  PROVE  /\ MemInv(Disown(m, l), S)
         /\ Disown(m, l).current_running = m.current_running
<1> DEFINE o  == FindPid(m, m.owner[l])
           t  == [j \in 1..MAX_MUTEX_OWN |->
                    IF m.lock_owned[o][j] = l THEN NULL ELSE m.lock_owned[o][j]]
           k1 == [m EXCEPT !.lock_owned[o] = t, !.locked[l] = FALSE]
<1>1. o \in Slots
  BY FindPidIn DEF MemInv
<1>2. Disown(m, l) = k1
  BY DEF Disown
<1> HIDE DEF o
<1>3. t \in [1..MAX_MUTEX_OWN -> Locks \cup {NULL}]
  <2>1. m.lock_owned[o] \in [1..MAX_MUTEX_OWN -> Locks \cup {NULL}]
    BY <1>1 DEF MemInv, KernelMemory
  <2> QED BY <2>1
<1> HIDE DEF t
<1>4. KernelMemory(k1, S)
  BY <1>1, <1>3 DEF MemInv, KernelMemory, Fields
<1>5. ReadyLevels(k1) /\ Resumes(k1)
  BY DEF MemInv, KernelMemory, ReadyLevels, Resumes, Fields
<1>6. k1.current_running = m.current_running
  BY DEF MemInv, KernelMemory, Fields
<1> HIDE DEF k1
<1> QED BY <1>2, <1>4, <1>5, <1>6 DEF MemInv

LEMMA ReleaseType ==
  ASSUME NEW S \in SUBSET Procs, NEW m, MemInv(m, S), NEW l \in Locks
  PROVE  /\ MemInv(do_mutex_lock_release(m, l), S)
         /\ do_mutex_lock_release(m, l).current_running = m.current_running
<1> DEFINE k1 == Disown(m, l)
           k2 == do_unblock_all(k1, LockQ(l))
           k3 == [k2 EXCEPT !.owner[l] = -1]
<1>1. do_mutex_lock_release(m, l) = k3
  BY Zenon DEF do_mutex_lock_release
<1>2. MemInv(k1, S) /\ k1.current_running = m.current_running
  BY DisownType
<1> HIDE DEF k1
<1>3. MemInv(k2, S)
  BY <1>2, UnblockAllType, QueueNames
<1>4. k2.current_running = m.current_running
  BY <1>2 DEF MemInv, KernelMemory, Fields, do_unblock_all
<1> HIDE DEF k2
<1>5. KernelMemory(k3, S)
  <2>1. k3.owner \in [Locks -> Int]
    BY <1>3 DEF MemInv, KernelMemory, Fields
  <2> QED BY <1>3, <2>1 DEF MemInv, KernelMemory, Fields
<1>6. ReadyLevels(k3) /\ Resumes(k3)
  BY <1>3 DEF MemInv, KernelMemory, ReadyLevels, Resumes, Fields
<1>7. k3.current_running = m.current_running
  BY <1>3, <1>4 DEF MemInv, KernelMemory, Fields
<1> HIDE DEF k3
<1> QED BY <1>1, <1>5, <1>6, <1>7 DEF MemInv

\* A change of one counter keeps the types.
LEMMA CounterType ==
  ASSUME NEW S \in SUBSET Procs, NEW m, MemInv(m, S), NEW x \in Int
  PROVE  /\ \A c \in Conds : MemInv([m EXCEPT !.num_waiting[c] = x], S)
         /\ \A s \in Sems : MemInv([m EXCEPT !.sem[s] = x], S)
         /\ \A b \in Barriers : x >= 0 => MemInv([m EXCEPT !.num_now[b] = x], S)
<1>1. ASSUME NEW c \in Conds PROVE MemInv([m EXCEPT !.num_waiting[c] = x], S)
  BY DEF MemInv, KernelMemory, ReadyLevels, Resumes, Fields
<1>2. ASSUME NEW s \in Sems PROVE MemInv([m EXCEPT !.sem[s] = x], S)
  BY DEF MemInv, KernelMemory, ReadyLevels, Resumes, Fields
<1>3. ASSUME NEW b \in Barriers, x >= 0 PROVE MemInv([m EXCEPT !.num_now[b] = x], S)
  <2>1. x \in Nat
    BY <1>3
  <2> QED BY <2>1 DEF MemInv, KernelMemory, ReadyLevels, Resumes, Fields
<1> QED BY <1>1, <1>2, <1>3

\* Neither a counter nor a link changes who runs.
LEMMA SameCurrent ==
  ASSUME NEW S \in SUBSET Procs, NEW m, KernelMemory(m, S)
  PROVE  /\ \A c, x : [m EXCEPT !.num_waiting[c] = x].current_running = m.current_running
         /\ \A c, x : [m EXCEPT !.sem[c] = x].current_running = m.current_running
         /\ \A c, x : [m EXCEPT !.num_now[c] = x].current_running = m.current_running
         /\ \A q : do_block(m, q).current_running = m.current_running
  BY DEF KernelMemory, Fields, do_block

LEMMA CondInitType ==
  ASSUME NEW S \in SUBSET Procs, NEW m, MemInv(m, S), NEW c \in Conds
  PROVE  MemInv(do_condition_init(m, c), S)
<1>1. CondQ(c) \in WaitQueues
  BY QueueNames
<1> QED BY <1>1, SMTT(40) DEF do_condition_init, MemInv, KernelMemory, ReadyLevels, Resumes, Fields

LEMMA CondWaitType ==
  ASSUME NEW S \in SUBSET Procs, NEW m, MemInv(m, S), NEW l \in Locks, NEW c \in Conds, m.current_running \in UserSlots
  PROVE  MemInv(do_condition_wait(m, l, c), S)
<1> DEFINE k1 == [m EXCEPT !.num_waiting[c] = m.num_waiting[c] + 1]
           k2 == do_block(k1, CondQ(c))
           k3 == do_mutex_lock_release(k2, l)
<1>1. do_condition_wait(m, l, c) = do_scheduler(k3, <<"acquire", l>>)
  BY DEF do_condition_wait
<1>2. MemInv(k1, S) /\ k1.current_running = m.current_running
  <2> DEFINE x == m.num_waiting[c] + 1
  <2>1. x \in Int
    BY DEF MemInv, KernelMemory
  <2> HIDE DEF x
  <2>2. MemInv([m EXCEPT !.num_waiting[c] = x], S)
    BY <2>1, CounterType
  <2>3. [m EXCEPT !.num_waiting[c] = x].current_running = m.current_running
    BY SameCurrent DEF MemInv
  <2> QED BY <2>2, <2>3 DEF x
<1> HIDE DEF k1
<1>3. m.current_running # 0
  BY SizeAssumption DEF UserSlots
<1>4. MemInv(k2, S) /\ k2.current_running = m.current_running
  <2>1. MemInv(k2, S)
    BY <1>2, <1>3, BlockType, QueueNames
  <2> QED BY <1>2, <2>1, SameCurrent DEF MemInv
<1> HIDE DEF k2
<1>5. MemInv(k3, S) /\ k3.current_running = m.current_running
  BY <1>4, ReleaseType
<1> HIDE DEF k3
<1> QED BY <1>1, <1>5, SwitchType, UserContext

LEMMA CondSignalType ==
  ASSUME NEW S \in SUBSET Procs, NEW m, MemInv(m, S), NEW c \in Conds
  PROVE  MemInv(do_condition_signal(m, c), S)
<1> DEFINE k1 == do_unblock_one(m, CondQ(c))
           k2 == [k1 EXCEPT !.num_waiting[c] = k1.num_waiting[c] - 1]
<1>1. do_condition_signal(m, c) \in {m, k1, k2}
  BY DEF do_condition_signal
<1>2. MemInv(k1, S)
  BY UnblockOneType, QueueNames
<1> HIDE DEF k1
<1>3. MemInv(k2, S)
  <2>1. k1.num_waiting[c] - 1 \in Int
    BY <1>2 DEF MemInv, KernelMemory
  <2> QED BY <1>2, <2>1, CounterType
<1> HIDE DEF k2
<1> QED BY <1>1, <1>2, <1>3

LEMMA CondBroadcastType ==
  ASSUME NEW S \in SUBSET Procs, NEW m, MemInv(m, S), NEW c \in Conds
  PROVE  MemInv(do_condition_broadcast(m, c), S)
<1> DEFINE k1 == do_unblock_all(m, CondQ(c))
           k2 == [k1 EXCEPT !.num_waiting[c] = 0]
<1>1. do_condition_broadcast(m, c) \in {m, k2}
  BY DEF do_condition_broadcast
<1>2. MemInv(k1, S)
  BY UnblockAllType, QueueNames
<1> HIDE DEF k1
<1>3. MemInv(k2, S)
  BY <1>2, CounterType
<1> HIDE DEF k2
<1> QED BY <1>1, <1>2, <1>3

LEMMA SemInitType ==
  ASSUME NEW S \in SUBSET Procs, NEW m, MemInv(m, S), NEW s \in Sems, NEW v \in Int
  PROVE  MemInv(do_semaphore_init(m, s, v), S)
<1>1. SemQ(s) \in WaitQueues
  BY QueueNames
<1> QED BY <1>1, SMTT(40) DEF do_semaphore_init, MemInv, KernelMemory, ReadyLevels, Resumes, Fields

LEMMA SemUpDownType ==
  ASSUME NEW S \in SUBSET Procs, NEW m, MemInv(m, S), NEW s \in Sems, m.current_running # 0
  PROVE  MemInv(do_semaphore_up(m, s), S) /\ MemInv(do_semaphore_down(m, s), S)
<1> DEFINE up == [m EXCEPT !.sem[s] = m.sem[s] + 1]
           down == [m EXCEPT !.sem[s] = m.sem[s] - 1]
           one == do_unblock_one(up, SemQ(s))
           blk == do_block(down, SemQ(s))
<1>1. do_semaphore_up(m, s) \in {do_scheduler(one, User), do_scheduler(up, User)}
  BY DEF do_semaphore_up
<1>2. do_semaphore_down(m, s) \in {do_scheduler(blk, User), do_scheduler(down, User)}
  BY DEF do_semaphore_down
<1>3. MemInv(up, S) /\ MemInv(down, S) /\ down.current_running = m.current_running
  <2> DEFINE x == m.sem[s] + 1
             y == m.sem[s] - 1
  <2>1. x \in Int /\ y \in Int
    BY DEF MemInv, KernelMemory
  <2> HIDE DEF x, y
  <2>2. MemInv([m EXCEPT !.sem[s] = x], S) /\ MemInv([m EXCEPT !.sem[s] = y], S)
    BY <2>1, CounterType
  <2>3. [m EXCEPT !.sem[s] = y].current_running = m.current_running
    BY SameCurrent DEF MemInv
  <2> QED BY <2>2, <2>3 DEF x, y
<1> HIDE DEF up, down
<1>4. MemInv(one, S)
  BY <1>3, UnblockOneType, QueueNames
<1>5. MemInv(blk, S)
  BY <1>3, BlockType, QueueNames
<1> HIDE DEF one, blk
<1> QED BY <1>1, <1>2, <1>3, <1>4, <1>5, ToUserType

LEMMA BarrierInitType ==
  ASSUME NEW S \in SUBSET Procs, NEW m, MemInv(m, S), NEW b \in Barriers, NEW g \in Int
  PROVE  MemInv(do_barrier_init(m, b, g), S)
<1> DEFINE n1 == do_barrier_init(m, b, g)
<1>1. BarrierQ(b) \in WaitQueues
  BY QueueNames
<1>2. KernelMemory(n1, S)
  <2>1. n1.num_now \in [Barriers -> Nat] /\ n1.num_expected \in [Barriers -> Int]
    BY DEF do_barrier_init, MemInv, KernelMemory, Fields
  <2>2. n1.waiting \in [WaitQueues -> Seq(S)]
    BY <1>1 DEF do_barrier_init, MemInv, KernelMemory, Fields
  <2> QED BY <2>1, <2>2 DEF do_barrier_init, MemInv, KernelMemory, Fields
<1>3. ReadyLevels(n1) /\ Resumes(n1)
  BY DEF do_barrier_init, MemInv, KernelMemory, ReadyLevels, Resumes, Fields
<1> QED BY <1>2, <1>3 DEF MemInv

LEMMA BarrierWaitType ==
  ASSUME NEW S \in SUBSET Procs, NEW m, MemInv(m, S), NEW b \in Barriers, m.current_running # 0
  PROVE  MemInv(do_barrier_wait(m, b), S)
<1> DEFINE k1 == [m EXCEPT !.num_now[b] = m.num_now[b] + 1]
           blk == do_block(k1, BarrierQ(b))
           all == do_unblock_all(k1, BarrierQ(b))
           open == [all EXCEPT !.num_now[b] = 0]
<1>1. do_barrier_wait(m, b) \in {do_scheduler(blk, User), do_scheduler(open, User), k1}
  BY DEF do_barrier_wait
<1>2. MemInv(k1, S) /\ k1.current_running = m.current_running
  <2> DEFINE x == m.num_now[b] + 1
  <2>1. x \in Int /\ x >= 0
    BY DEF MemInv, KernelMemory
  <2> HIDE DEF x
  <2>2. MemInv([m EXCEPT !.num_now[b] = x], S)
    BY <2>1, CounterType
  <2>3. [m EXCEPT !.num_now[b] = x].current_running = m.current_running
    BY SameCurrent DEF MemInv
  <2> QED BY <2>2, <2>3 DEF x
<1> HIDE DEF k1
<1>3. MemInv(blk, S)
  BY <1>2, BlockType, QueueNames
<1>4. MemInv(all, S)
  BY <1>2, UnblockAllType, QueueNames
<1> HIDE DEF all
<1>5. MemInv(open, S)
  BY <1>4, CounterType
<1> HIDE DEF blk, open
<1> QED BY <1>1, <1>2, <1>3, <1>5, ToUserType

-----------------------------------------------------------------------------
\* The search of do_kill gives back a queue of processes.
LEMMA SearchRemoveType ==
  ASSUME NEW m, NEW S, NEW q \in Seq(S), NEW pid
  PROVE  /\ SearchRemove(m, q, pid).queue \in Seq(S)
         /\ SearchRemove(m, q, pid).fault \in Faults
<1> DEFINE at == {n \in 1..Len(q) : m.pid[q[n]] = pid}
           n == Least(at)
           r == SearchRemove(m, q, pid)
<1>1. \/ r = [queue |-> q, fault |-> "none"]
      \/ n = 1 /\ at # {} /\ r = [queue |-> Tail(q), fault |-> "none"]
      \/ at # {} /\ r = [queue |-> SubSeq(q, 1, Len(q) - 1), fault |-> "none"]
      \/ r = [queue |-> q, fault |-> "interior"]
  BY DEF SearchRemove
<1>2. at # {} => Len(q) \in Nat /\ Len(q) >= 1
  <2>1. Len(q) \in Nat
    OBVIOUS
  <2> QED BY <2>1
<1> HIDE DEF n, r, at
<1>3. at # {} => Tail(q) \in Seq(S) /\ SubSeq(q, 1, Len(q) - 1) \in Seq(S)
  <2> SUFFICES ASSUME at # {} PROVE Tail(q) \in Seq(S) /\ SubSeq(q, 1, Len(q) - 1) \in Seq(S)
    OBVIOUS
  <2>1. q # <<>>
    BY <1>2
  <2>2. \A i \in 1..(Len(q) - 1) : q[i] \in S
    BY <1>2
  <2> QED BY <1>2, <2>1, <2>2
<1>4. r.queue \in Seq(S) /\ r.fault \in Faults
  BY <1>1, <1>3, SMTT(40) DEF Faults
<1> QED BY <1>4 DEF r

\* Unlinking replaces one queue and may stop the kernel.
LEMMA UnlinkType ==
  ASSUME NEW S \in SUBSET Procs, NEW m, MemInv(m, S), m.fault = "none", NEW i \in Slots, NEW pid
  PROVE  /\ MemInv(Unlink(m, i, pid), S)
         /\ Unlink(m, i, pid).current_running = m.current_running
<1> DEFINE prio  == m.priority[i]
           lockq == LockQ(m.lock_waiting[i])
           waitq == WaitQ(FindPid(m, m.waiting_pcb[i]))
           ready == SearchRemove(m, m.ready[prio], pid)
           sleep == SearchRemove(m, m.sleep, pid)
           from(q) == SearchRemove(m, m.waiting[q], pid)
           kr == [m EXCEPT !.ready[prio] = ready.queue, !.fault = ready.fault]
           ks == [m EXCEPT !.sleep = sleep.queue, !.fault = sleep.fault]
           kw(q) == [m EXCEPT !.waiting[q] = from(q).queue, !.fault = from(q).fault]
<1>1. \/ m.status[i] = "READY" /\ Unlink(m, i, pid) = kr
      \/ Unlink(m, i, pid) = ks
      \/ m.lock_waiting[i] # NULL /\ Unlink(m, i, pid) = kw(lockq)
      \/ Unlink(m, i, pid) = kw(waitq)
      \/ Unlink(m, i, pid) = Stop(m, "hang")
      \/ Unlink(m, i, pid) = m
  BY DEF Unlink
<1>2. CASE m.status[i] = "READY" /\ Unlink(m, i, pid) = kr
  <2>1. prio \in 1..3
    BY <1>2 DEF MemInv, ReadyLevels
  <2>2. m.ready[prio] \in Seq(S)
    BY <2>1 DEF MemInv, KernelMemory
  <2>3. ready.queue \in Seq(S) /\ ready.fault \in Faults
    BY <2>2, SearchRemoveType
  <2> HIDE DEF prio, ready
  <2>4. KernelMemory(kr, S) /\ kr.current_running = m.current_running
    BY <2>1, <2>3 DEF MemInv, KernelMemory, Fields
  <2>5. ReadyLevels(kr) /\ Resumes(kr)
    BY DEF MemInv, KernelMemory, ReadyLevels, Resumes, Fields
  <2> HIDE DEF kr
  <2> QED BY <1>2, <2>4, <2>5 DEF MemInv
<1>3. CASE Unlink(m, i, pid) = ks
  <2>1. m.sleep \in Seq(S)
    BY DEF MemInv, KernelMemory
  <2>2. sleep.queue \in Seq(S) /\ sleep.fault \in Faults
    BY <2>1, SearchRemoveType
  <2> HIDE DEF sleep
  <2>3. KernelMemory(ks, S) /\ ks.current_running = m.current_running
    BY <2>2 DEF MemInv, KernelMemory, Fields
  <2>4. ReadyLevels(ks) /\ Resumes(ks)
    BY DEF MemInv, KernelMemory, ReadyLevels, Resumes, Fields
  <2> HIDE DEF ks
  <2> QED BY <1>3, <2>3, <2>4 DEF MemInv
<1>4. ASSUME NEW q \in WaitQueues, Unlink(m, i, pid) = kw(q)
      PROVE  MemInv(Unlink(m, i, pid), S) /\ Unlink(m, i, pid).current_running = m.current_running
  <2> DEFINE f == from(q)
             n1 == [m EXCEPT !.waiting[q] = f.queue, !.fault = f.fault]
  <2>1. m.waiting[q] \in Seq(S)
    BY DEF MemInv, KernelMemory
  <2>2. f.queue \in Seq(S) /\ f.fault \in Faults
    BY <2>1, SearchRemoveType
  <2>3. Unlink(m, i, pid) = n1
    BY <1>4
  <2> HIDE DEF f
  <2>4. KernelMemory(n1, S) /\ n1.current_running = m.current_running
    BY <2>2 DEF MemInv, KernelMemory, Fields
  <2>5. ReadyLevels(n1) /\ Resumes(n1)
    BY DEF MemInv, KernelMemory, ReadyLevels, Resumes, Fields
  <2> HIDE DEF n1
  <2> QED BY <2>3, <2>4, <2>5 DEF MemInv
<1>5. m.lock_waiting[i] # NULL => lockq \in WaitQueues
  <2>1. m.lock_waiting[i] \in Locks \cup {NULL}
    BY DEF MemInv, KernelMemory
  <2> QED BY <2>1, QueueNames
<1>6. waitq \in WaitQueues
  BY FindPidIn, QueueNames DEF MemInv
<1>7. MemInv(Stop(m, "hang"), S) /\ Stop(m, "hang").current_running = m.current_running
  BY StopType, ZenonT(60) DEF Faults, Stop, MemInv, KernelMemory, Fields
<1> HIDE DEF kr, ks, kw, lockq, waitq
<1> QED BY <1>1, <1>2, <1>3, <1>4, <1>5, <1>6, <1>7

LEMMA GiveUpType ==
  ASSUME NEW S \in SUBSET Procs, NEW m, MemInv(m, S), NEW i \in Slots
  PROVE  MemInv(GiveUp(m, i), S) /\ GiveUp(m, i).current_running = m.current_running
<1> DEFINE W == Members(m.waiting[WaitQ(i)])
           w == [p \in Slots |-> IF p \in W THEN -1 ELSE m.waiting_pcb[p]]
           k1 == [m EXCEPT !.status[i] = "NOT_EXIST", !.waiting_pcb = w]
<1>1. GiveUp(m, i) = do_unblock_all(k1, WaitQ(i))
  BY DEF GiveUp
<1> HIDE DEF W
<1>2. w \in [Slots -> Int]
  BY DEF MemInv, KernelMemory
<1> HIDE DEF w
<1>3. KernelMemory(k1, S) /\ k1.current_running = m.current_running
  BY <1>2 DEF MemInv, KernelMemory, Fields, Status
<1>4. ReadyLevels(k1)
  BY DEF MemInv, KernelMemory, ReadyLevels, Fields
<1>5. Resumes(k1)
  BY DEF MemInv, KernelMemory, Resumes, Fields
<1> HIDE DEF k1
<1>6. MemInv(k1, S)
  BY <1>3, <1>4, <1>5 DEF MemInv
<1>7. do_unblock_all(k1, WaitQ(i)).current_running = m.current_running
  BY <1>3 DEF KernelMemory, Fields, do_unblock_all
<1> QED BY <1>1, <1>6, <1>7, UnblockAllType, QueueNames

LEMMA ReleaseEntryType ==
  ASSUME NEW S \in SUBSET Procs, NEW m, MemInv(m, S), NEW i \in Slots, NEW j \in 1..5
  PROVE  /\ MemInv(ReleaseEntry(m, i, j), S)
         /\ ReleaseEntry(m, i, j).current_running = m.current_running
<1>1. j <= MAX_MUTEX_OWN => j \in 1..MAX_MUTEX_OWN
  BY SizeAssumption
<1>2. j <= MAX_MUTEX_OWN /\ m.lock_owned[i][j] # NULL => m.lock_owned[i][j] \in Locks
  <2>1. m.lock_owned[i] \in [1..MAX_MUTEX_OWN -> Locks \cup {NULL}]
    BY DEF MemInv, KernelMemory
  <2>2. \A n \in 1..MAX_MUTEX_OWN : m.lock_owned[i][n] \in Locks \cup {NULL}
    BY <2>1
  <2> QED BY <1>1, <2>2
<1> QED BY <1>2, ReleaseType DEF ReleaseEntry

LEMMA BuryType ==
  ASSUME NEW S \in SUBSET Procs, NEW m, MemInv(m, S), NEW i \in Slots
  PROVE  MemInv(Bury(m, i), S) /\ Bury(m, i).current_running = m.current_running
<1> DEFINE r0 == GiveUp(m, i)
           r1 == ReleaseEntry(r0, i, 1)
           r2 == ReleaseEntry(r1, i, 2)
           r3 == ReleaseEntry(r2, i, 3)
           r4 == ReleaseEntry(r3, i, 4)
           r5 == ReleaseEntry(r4, i, 5)
<1>0. Bury(m, i) = r5
  BY DEF Bury
<1>1. MemInv(r0, S) /\ r0.current_running = m.current_running
  BY GiveUpType
<1> HIDE DEF r0
<1>2. MemInv(r1, S) /\ r1.current_running = m.current_running
  BY <1>1, ReleaseEntryType
<1> HIDE DEF r1
<1>3. MemInv(r2, S) /\ r2.current_running = m.current_running
  BY <1>2, ReleaseEntryType
<1> HIDE DEF r2
<1>4. MemInv(r3, S) /\ r3.current_running = m.current_running
  BY <1>3, ReleaseEntryType
<1> HIDE DEF r3
<1>5. MemInv(r4, S) /\ r4.current_running = m.current_running
  BY <1>4, ReleaseEntryType
<1> HIDE DEF r4
<1>6. MemInv(r5, S) /\ r5.current_running = m.current_running
  BY <1>5, ReleaseEntryType
<1> HIDE DEF r5
<1> QED BY <1>0, <1>6

LEMMA KillType ==
  ASSUME NEW S \in SUBSET Procs, NEW m, MemInv(m, S), m.fault = "none", NEW pid
  PROVE  MemInv(do_kill(m, pid), S)
<1> DEFINE i == FindPid(m, pid)
           k1 == Unlink(m, i, pid)
           k2 == Bury(k1, i)
<1>1. do_kill(m, pid) = IF k1.fault # "none" THEN k1 ELSE do_scheduler(k2, User)
  BY DEF do_kill
<1>2. i \in Slots
  BY FindPidIn DEF MemInv
<1> HIDE DEF i
<1>3. MemInv(k1, S)
  BY <1>2, UnlinkType
<1> HIDE DEF k1
<1>4. MemInv(k2, S)
  BY <1>2, <1>3, BuryType
<1> HIDE DEF k2
<1> QED BY <1>1, <1>3, <1>4, ToUserType

LEMMA ExitType ==
  ASSUME NEW S \in SUBSET Procs, NEW m, MemInv(m, S)
  PROVE  MemInv(do_exit(m), S)
<1>1. m.current_running \in Slots
  BY CurrentType DEF MemInv
<1> QED BY <1>1, BuryType, ToUserType DEF do_exit

LEMMA WaitBlockType ==
  ASSUME NEW S \in SUBSET Procs, NEW m, MemInv(m, S), m.current_running # 0, NEW pid \in Nat
  PROVE  LET b == do_block(m, WaitQ(FindPid(m, pid)))
         IN  MemInv(b, S) /\ MemInv([b EXCEPT !.waiting_pcb[m.current_running] = pid], S)
<1> DEFINE q == WaitQ(FindPid(m, pid))
           b == do_block(m, q)
           n1 == [b EXCEPT !.waiting_pcb[m.current_running] = pid]
<1>2. q \in WaitQueues
  BY FindPidIn, QueueNames DEF MemInv
<1> HIDE DEF q
<1>3. MemInv(b, S)
  BY <1>2, BlockType
<1> HIDE DEF b
<1>4. KernelMemory(n1, S)
  <2>1. n1.waiting_pcb \in [Slots -> Int]
    <3>1. b.waiting_pcb \in [Slots -> Int] /\ DOMAIN b = Fields
      BY <1>3 DEF MemInv, KernelMemory
    <3>2. n1.waiting_pcb = [b.waiting_pcb EXCEPT ![m.current_running] = pid]
      BY <3>1 DEF Fields
    <3>3. pid \in Int
      OBVIOUS
    <3> HIDE DEF n1
    <3> QED BY <3>1, <3>2, <3>3
  <2> QED BY <1>3, <2>1 DEF MemInv, KernelMemory, Fields
<1>5. ReadyLevels(n1) /\ Resumes(n1)
  BY <1>3 DEF MemInv, KernelMemory, ReadyLevels, Resumes, Fields
<1>6. MemInv(n1, S)
  BY <1>4, <1>5 DEF MemInv
<1> QED BY <1>3, <1>6 DEF b, q

LEMMA WaitType ==
  ASSUME NEW S \in SUBSET Procs, NEW m, MemInv(m, S), m.current_running # 0, NEW pid \in Nat
  PROVE  MemInv(do_wait(m, pid), S)
  BY WaitBlockType, ToUserType DEF do_wait

LEMMA FreeSlot ==
  ASSUME NEW m, {i \in UserSlots : m.status[i] = "NOT_EXIST"} # {}
  PROVE  LET i == Least({i \in UserSlots : m.status[i] = "NOT_EXIST"})
         IN  i \in UserSlots /\ i \in Procs /\ i \in Slots /\ m.status[i] = "NOT_EXIST"
<1> DEFINE free == {i \in UserSlots : m.status[i] = "NOT_EXIST"}
<1>1. free \in SUBSET Nat
  BY SizeAssumption DEF UserSlots
<1> HIDE DEF free
<1>2. Least(free) \in free
  BY <1>1, LeastIn DEF free
<1>3. Least(free) \in UserSlots /\ m.status[Least(free)] = "NOT_EXIST"
  BY <1>2 DEF free
<1>4. Least(free) \in Procs /\ Least(free) \in Slots
  BY <1>3, SizeAssumption DEF UserSlots, Procs, Slots
<1> QED BY <1>3, <1>4 DEF free

LEMMA MoreSlots ==
  ASSUME NEW T \in SUBSET Procs, NEW S \in SUBSET T, NEW m, MemInv(m, S)
  PROVE  MemInv(m, T)
<1>1. Seq(S) \subseteq Seq(T)
  OBVIOUS
<1>2. KernelMemory(m, T)
  BY <1>1, SMTT(60) DEF MemInv, KernelMemory
<1> QED BY <1>2 DEF MemInv

LEMMA NewProcessType ==
  ASSUME NEW S \in SUBSET Procs, NEW m, MemInv(m, S), NEW i \in Procs, i \in Slots
  PROVE  MemInv(NewProcess(m, i), S \cup {i})
<1> DEFINE T == S \cup {i}
           none == [j \in 1..MAX_MUTEX_OWN |-> NULL]
           n1 == [m EXCEPT !.pid[i] = m.next_pid,
                           !.next_pid = @ + 1,
                           !.status[i] = "READY",
                           !.priority[i] = 1,
                           !.waiting[WaitQ(i)] = <<>>,
                           !.lock_waiting[i] = NULL,
                           !.waiting_pcb[i] = -1,
                           !.lock_owned[i] = none,
                           !.context[i] = User,
                           !.ready[1] = Append(@, i)]
<1>0. T \in SUBSET Procs /\ i \in T /\ MemInv(m, T)
  BY MoreSlots
<1>1. i \in Procs /\ i \in Slots
  OBVIOUS
<1> HIDE DEF T
<1>2. WaitQ(i) \in WaitQueues
  BY <1>1, QueueNames
<1>3. none \in [1..MAX_MUTEX_OWN -> Locks \cup {NULL}]
  OBVIOUS
<1> HIDE DEF none
<1>4. n1.ready \in [1..3 -> Seq(T)]
  BY <1>0, <1>1 DEF MemInv, KernelMemory, Fields
<1>5. n1.lock_owned \in [Slots -> [1..MAX_MUTEX_OWN -> Locks \cup {NULL}]]
  BY <1>0, <1>1, <1>3 DEF MemInv, KernelMemory, Fields
<1>6. n1.waiting \in [WaitQueues -> Seq(T)]
  BY <1>0, <1>2 DEF MemInv, KernelMemory, Fields
<1>7. n1.context \in [Slots -> Contexts] /\ n1.waiting_pcb \in [Slots -> Int]
  BY <1>0, <1>1, UserContext DEF MemInv, KernelMemory, Fields
<1>8. n1.pid \in [Slots -> Nat] /\ n1.next_pid \in Nat
  BY <1>0, <1>1 DEF MemInv, KernelMemory, Fields
<1>9. n1.status \in [Slots -> Status] /\ n1.priority \in [Slots -> 0..3]
  BY <1>0, <1>1, SMTT(40) DEF MemInv, KernelMemory, Fields, Status
<1>10. KernelMemory(n1, T)
  <2>1. DOMAIN n1 = Fields /\ n1.current_running \in {0} \cup T /\ n1.sleep \in Seq(T)
    BY <1>0, ZenonT(80) DEF MemInv, KernelMemory, Fields
  <2>2. n1.lock_waiting \in [Slots -> Locks \cup {NULL}] /\ n1.alarm_time = m.alarm_time
    BY <1>0, SMTT(60) DEF MemInv, KernelMemory, Fields
  <2>3. /\ n1.locked = m.locked /\ n1.owner = m.owner /\ n1.num_waiting = m.num_waiting
          /\ n1.sem = m.sem /\ n1.num_now = m.num_now /\ n1.num_expected = m.num_expected
          /\ n1.time_elapsed = m.time_elapsed /\ n1.fault = m.fault
    <3>1. DOMAIN m = Fields
      BY <1>0 DEF MemInv, KernelMemory
    <3>2. n1.locked = m.locked /\ n1.owner = m.owner /\ n1.num_waiting = m.num_waiting
      BY ONLY <3>1 DEF Fields
    <3>3. n1.sem = m.sem /\ n1.num_now = m.num_now /\ n1.num_expected = m.num_expected
      BY ONLY <3>1 DEF Fields
    <3>4. n1.time_elapsed = m.time_elapsed /\ n1.fault = m.fault
      BY ONLY <3>1 DEF Fields
    <3> QED BY ONLY <3>2, <3>3, <3>4
  <2> HIDE DEF n1
  <2> QED BY <2>1, <2>2, <2>3, <1>4, <1>5, <1>6, <1>7, <1>8, <1>9, <1>0
            DEF MemInv, KernelMemory
<1>11. ReadyLevels(n1)
  <2>1. DOMAIN m = Fields /\ m.status \in [Slots -> Status] /\ m.priority \in [Slots -> 0..3]
    BY <1>0 DEF MemInv, KernelMemory
  <2>2. /\ n1.status = [m.status EXCEPT ![i] = "READY"]
        /\ n1.priority = [m.priority EXCEPT ![i] = 1] /\ n1.fault = m.fault
    BY ONLY <2>1 DEF Fields
  <2> HIDE DEF n1
  <2> QED BY <1>0, <1>1, <2>1, <2>2 DEF MemInv, ReadyLevels
<1>12. Resumes(n1)
  BY <1>0, <1>1, UserContext DEF MemInv, KernelMemory, Resumes, Fields
<1> QED BY <1>10, <1>11, <1>12, Zenon DEF MemInv, NewProcess, none, T

LEMMA SpawnType ==
  ASSUME NEW S \in SUBSET Procs, NEW m, MemInv(m, S)
  PROVE  \/ MemInv(do_spawn(m), S)
         \/ /\ {i \in UserSlots : m.status[i] = "NOT_EXIST"} # {}
            /\ MemInv(do_spawn(m), S \cup {Least({i \in UserSlots : m.status[i] = "NOT_EXIST"})})
<1> DEFINE free == {i \in UserSlots : m.status[i] = "NOT_EXIST"}
           i == Least(free)
           n1 == NewProcess(m, i)
<1>1. do_spawn(m) = IF free = {} THEN Stop(m, "hang") ELSE do_scheduler(n1, User)
  BY DEF do_spawn
<1>2. CASE free = {}
  BY <1>1, <1>2, StopType DEF Faults
<1>3. CASE free # {}
  <2>1. i \in Procs /\ i \in Slots
    BY <1>3, FreeSlot
  <2> HIDE DEF free, i
  <2>2. S \cup {i} \in SUBSET Procs
    BY <2>1
  <2>3. MemInv(n1, S \cup {i})
    BY <2>1, NewProcessType
  <2> HIDE DEF n1
  <2>4. MemInv(do_scheduler(n1, User), S \cup {i})
    BY <2>2, <2>3, ToUserType
  <2> QED BY <1>1, <1>3, <2>4 DEF free, i
<1> QED BY <1>2, <1>3

-----------------------------------------------------------------------------
(***************************************************************************)
(* The specification keeps the types.                                       *)
(***************************************************************************)

LEMMA InitType == ASSUME Init PROVE MemInv(k, {1})
<1>1. KernelMemory(init_pcb, {1})
  <2>1. init_pcb.ready \in [1..3 -> Seq({1})]
    <3>1. <<1>> \in Seq({1}) /\ <<>> \in Seq({1})
      OBVIOUS
    <3> QED BY <3>1 DEF init_pcb
  <2>2. init_pcb.waiting \in [WaitQueues -> Seq({1})] /\ init_pcb.sleep \in Seq({1})
    BY DEF init_pcb
  <2>3. init_pcb.context \in [Slots -> Contexts]
    BY UserContext DEF init_pcb
  <2>4. init_pcb.current_running \in {0} \cup {1}
    BY SizeAssumption DEF init_pcb, Slots, Phantom
  <2>5. init_pcb.time_elapsed \in 0..(WORD - 1) /\ init_pcb.alarm_time \in [Slots -> 0..(WORD - 1)]
    BY ClockAssumption DEF init_pcb
  <2> HIDE DEF Slots
  <2>6. init_pcb.status \in [Slots -> Status] /\ init_pcb.priority \in [Slots -> 0..3]
    BY DEF init_pcb, Status
  <2> QED BY <2>1, <2>2, <2>3, <2>4, <2>5, <2>6
          DEF init_pcb, KernelMemory, Fields, Faults
<1>2. ReadyLevels(init_pcb)
  BY DEF init_pcb, ReadyLevels
<1>3. Resumes(init_pcb)
  BY UserContext DEF init_pcb, Resumes
<1> QED BY <1>1, <1>2, <1>3 DEF Init, MemInv

\* Only spawn puts a new slot to use.
LEMMA NextType ==
  ASSUME NEW S \in SUBSET Procs, MemInv(k, S), [Next]_k
  PROVE  \/ MemInv(k', S)
         \/ LET free == {i \in UserSlots : k.status[i] = "NOT_EXIST"}
            IN  Spawn /\ free # {} /\ MemInv(k', S \cup {Least(free)})
<1>1. Shell \/ Process => k.current_running # 0
  <2>1. k.current_running \in Slots
    BY CurrentType DEF MemInv
  <2>2. k.current_running \in Nat
    BY <2>1, SizeAssumption DEF Slots
  <2> QED BY <2>2 DEF Shell, Process, current
<1>2. Process => k.current_running \in UserSlots
  BY CurrentType DEF Process, MemInv, current
<1>3. CASE Timer
  BY <1>3, ToUserType DEF Timer
<1>4. CASE ResumeTimer
  BY <1>4, TickType DEF ResumeTimer
<1>5. CASE ResumeAcquire
  <2>1. PICK l \in Locks : k.context[current] = <<"acquire", l>> /\ k' = do_mutex_lock_acquire(k, l)
    BY <1>5 DEF ResumeAcquire
  <2>2. k.current_running \in Slots
    BY CurrentType DEF MemInv
  <2>3. k.current_running \in UserSlots
    <3>1. <<"acquire", l>> \in {"acquire"} \X Locks
      OBVIOUS
    <3> QED BY <2>1, <2>2, <3>1 DEF MemInv, Resumes, current
  <2> QED BY <2>1, <2>3, AcquireType
<1>6. CASE Spawn
  BY <1>6, SpawnType DEF Spawn
<1>7. CASE Kill
  BY <1>7, KillType DEF Kill, Shell, Process, InUser
<1>8. CASE Wait
  BY <1>1, <1>8, WaitType, ArgumentAssumption DEF Wait
<1>9. CASE Exit
  BY <1>9, ExitType DEF Exit
<1>10. CASE Sleep
  BY <1>1, <1>10, SleepType, ArgumentAssumption DEF Sleep
<1>11. CASE Acquire
  BY <1>2, <1>11, AcquireType DEF Acquire
<1>12. CASE Release
  BY <1>12, ReleaseType DEF Release
<1>13. CASE LockInit
  BY <1>13, LockInitType DEF LockInit
<1>14. CASE CondWait
  BY <1>2, <1>14, CondWaitType DEF CondWait
<1>15. CASE CondSignal
  BY <1>15, CondSignalType DEF CondSignal
<1>16. CASE CondBroadcast
  BY <1>16, CondBroadcastType DEF CondBroadcast
<1>17. CASE CondInit
  BY <1>17, CondInitType DEF CondInit
<1>18. CASE SemUp
  BY <1>1, <1>18, SemUpDownType DEF SemUp
<1>19. CASE SemDown
  BY <1>1, <1>19, SemUpDownType DEF SemDown
<1>20. CASE SemInit
  BY <1>20, SemInitType, ArgumentAssumption DEF SemInit
<1>21. CASE BarrierWait
  BY <1>1, <1>21, BarrierWaitType DEF BarrierWait
<1>22. CASE BarrierInit
  BY <1>22, BarrierInitType, ArgumentAssumption DEF BarrierInit
<1>23. CASE Halted
  BY <1>23 DEF Halted
<1>24. CASE UNCHANGED k
  BY <1>24
<1> QED BY <1>3, <1>4, <1>5, <1>6, <1>7, <1>8, <1>9, <1>10, <1>11, <1>12, <1>13, <1>14,
           <1>15, <1>16, <1>17, <1>18, <1>19, <1>20, <1>21, <1>22, <1>23, <1>24 DEF Next

\* The kernel's memory keeps its shape whatever the processes do: the program
\* never indexes a ready queue with a level that does not exist, stores a slot
\* outside the table in current_running, or links the boot context or the
\* phantom slot on a queue.
THEOREM TypeCorrect == Spec => []TypeOK
<1>1. Init => MemInv(k, Procs)
  <2>1. {1} \in SUBSET Procs
    BY SizeAssumption DEF Procs
  <2> QED BY <2>1, InitType, MoreSlots
<1>2. MemInv(k, Procs) /\ [Next]_k => MemInv(k, Procs)'
  <2> SUFFICES ASSUME MemInv(k, Procs), [Next]_k PROVE MemInv(k', Procs)
    OBVIOUS
  <2> DEFINE free == {i \in UserSlots : k.status[i] = "NOT_EXIST"}
  <2>1. MemInv(k', Procs) \/ (free # {} /\ MemInv(k', Procs \cup {Least(free)}))
    BY NextType
  <2>2. free # {} => Least(free) \in Procs
    BY FreeSlot
  <2> HIDE DEF free
  <2>3. free # {} => Procs \cup {Least(free)} = Procs
    BY <2>2
  <2> QED BY <2>1, <2>3
<1>3. MemInv(k, Procs) => TypeOK
  BY DEF MemInv, TypeOK
<1> QED BY <1>1, <1>2, <1>3, PTL DEF Spec
=============================================================================
