----------------------------- MODULE LinkProofs -----------------------------
(***************************************************************************)
(* The queues of the kernel (Kernel.tla) and the links of PCBs: what every  *)
(* operation on them leaves true, for any size of the process table.        *)
(*                                                                         *)
(* Linked says that no PCB is on two queues or twice on one, and that the   *)
(* status and the priority of a process name the queue; Waits says the same *)
(* of lock_waiting and waiting_pcb, by which do_kill searches.  A handler   *)
(* that holds a PCB in its hands (the old current_running in scheduler(), a *)
(* process do_kill has unlinked) breaks them for that slot: the set E of    *)
(* slots in hand is a parameter.  The two are proved together, operation by *)
(* operation; ProcessProofs puts the handlers together from these lemmas.   *)
(***************************************************************************)
EXTENDS LockProofs

\* No item is on the queue twice.
NoDup(q) == \A i, j \in DOMAIN q : q[i] = q[j] => i = j

\* The queue functions, by the members of the queue and their repetition: a
\* queue that was emptied,
LEMMA EmptyQueue == Members(<<>>) = {} /\ NoDup(<<>>)
  BY DEF Members, NoDup

\* queue_push, and
LEMMA AppendQueue ==
  ASSUME NEW T, NEW q \in Seq(T), NEW p
  PROVE  /\ Members(Append(q, p)) = Members(q) \cup {p}
         /\ NoDup(q) /\ p \notin Members(q) => NoDup(Append(q, p))
         /\ Append(q, p) # <<>> /\ Len(Append(q, p)) = Len(q) + 1
<1> DEFINE r == Append(q, p)
<1>1. /\ Len(q) \in Nat /\ DOMAIN q = 1..Len(q) /\ DOMAIN r = 1..(Len(q) + 1)
      /\ r[Len(q) + 1] = p /\ \A n \in 1..Len(q) : r[n] = q[n]
  OBVIOUS
<1>2. Len(r) = Len(q) + 1 /\ r # <<>>
  <2>1. Len(r) = Len(q) + 1 /\ Len(q) + 1 # 0
    BY <1>1
  <2> HIDE DEF r
  <2> QED BY <2>1
<1> HIDE DEF r
<1>3. Members(r) = Members(q) \cup {p}
  <2>1. \A x \in Members(q) : x \in Members(r)
    BY <1>1 DEF Members
  <2>2. p \in Members(r)
    <3>1. Len(q) + 1 \in DOMAIN r
      BY <1>1
    <3> QED BY <1>1, <3>1 DEF Members
  <2>3. \A x \in Members(r) : x \in Members(q) \cup {p}
    BY <1>1 DEF Members
  <2> QED BY <2>1, <2>2, <2>3
<1>4. ASSUME NoDup(q), p \notin Members(q) PROVE NoDup(r)
  <2>1. \A n \in 1..Len(q) : q[n] # p
    BY <1>1, <1>4 DEF Members
  <2> QED BY <1>1, <1>4, <2>1 DEF NoDup
<1> QED BY <1>2, <1>3, <1>4 DEF r

\* two queues in a row.
LEMMA ConcatQueue ==
  ASSUME NEW T, NEW q \in Seq(T), NEW r \in Seq(T)
  PROVE  /\ Members(q \o r) = Members(q) \cup Members(r)
         /\ NoDup(q) /\ NoDup(r) /\ Members(q) \cap Members(r) = {} => NoDup(q \o r)
<1> DEFINE s == q \o r
<1>1. /\ Len(q) \in Nat /\ DOMAIN q = 1..Len(q) /\ Len(r) \in Nat /\ DOMAIN r = 1..Len(r)
      /\ DOMAIN s = 1..(Len(q) + Len(r))
      /\ \A n \in 1..Len(q) : s[n] = q[n]
      /\ \A n \in (Len(q) + 1)..(Len(q) + Len(r)) : s[n] = r[n - Len(q)]
  OBVIOUS
<1> HIDE DEF s
<1>2. Members(s) = Members(q) \cup Members(r)
  <2>1. \A x \in Members(q) : x \in Members(s)
    BY <1>1 DEF Members
  <2>2. \A x \in Members(r) : x \in Members(s)
    <3> SUFFICES ASSUME NEW n \in DOMAIN r PROVE r[n] \in Members(s)
      BY DEF Members
    <3>1. n + Len(q) \in DOMAIN s /\ s[n + Len(q)] = r[n]
      BY <1>1
    <3> QED BY <3>1 DEF Members
  <2>3. \A x \in Members(s) : x \in Members(q) \cup Members(r)
    <3> SUFFICES ASSUME NEW n \in DOMAIN s PROVE s[n] \in Members(q) \cup Members(r)
      BY DEF Members
    <3>1. CASE n <= Len(q)
      BY <1>1, <3>1 DEF Members
    <3>2. CASE n > Len(q)
      <4>1. n - Len(q) \in DOMAIN r /\ s[n] = r[n - Len(q)]
        BY <1>1, <3>2
      <4> QED BY <4>1 DEF Members
    <3> QED BY <1>1, <3>1, <3>2
  <2> QED BY <2>1, <2>2, <2>3
<1>3. ASSUME NoDup(q), NoDup(r), Members(q) \cap Members(r) = {} PROVE NoDup(s)
  <2> SUFFICES ASSUME NEW i \in DOMAIN s, NEW j \in DOMAIN s, s[i] = s[j] PROVE i = j
    BY DEF NoDup
  <2>1. \A n \in DOMAIN q, h \in DOMAIN r : q[n] # r[h]
    BY <1>3 DEF Members
  <2>2. CASE i <= Len(q) /\ j <= Len(q)
    BY <1>1, <1>3, <2>2 DEF NoDup
  <2>3. CASE i > Len(q) /\ j > Len(q)
    <3>1. i - Len(q) \in DOMAIN r /\ j - Len(q) \in DOMAIN r /\ r[i - Len(q)] = r[j - Len(q)]
      BY <1>1, <2>3
    <3>2. i - Len(q) = j - Len(q)
      BY <1>3, <3>1 DEF NoDup
    <3> QED BY <1>1, <3>2
  <2>4. CASE i <= Len(q) /\ j > Len(q)
    <3>1. j - Len(q) \in DOMAIN r /\ q[i] = r[j - Len(q)] /\ i \in DOMAIN q
      BY <1>1, <2>4
    <3> QED BY <2>1, <3>1
  <2>5. CASE i > Len(q) /\ j <= Len(q)
    <3>1. i - Len(q) \in DOMAIN r /\ q[j] = r[i - Len(q)] /\ j \in DOMAIN q
      BY <1>1, <2>5
    <3> QED BY <2>1, <3>1
  <2> QED BY <1>1, <2>2, <2>3, <2>4, <2>5
<1> QED BY <1>2, <1>3 DEF s

\* A stretch of a queue.
LEMMA SubQueue ==
  ASSUME NEW T, NEW q \in Seq(T), NEW a \in 1..(Len(q) + 1), NEW b \in 0..Len(q)
  PROVE  /\ SubSeq(q, a, b) \in Seq(T)
         /\ Members(SubSeq(q, a, b)) = {q[n] : n \in a..b}
         /\ NoDup(q) => NoDup(SubSeq(q, a, b))
<1> DEFINE r == SubSeq(q, a, b)
<1>1. Len(q) \in Nat /\ DOMAIN q = 1..Len(q) /\ r \in Seq(T)
  OBVIOUS
<1>2. /\ DOMAIN r = 1..(b - a + 1)
      /\ \A n \in 1..(b - a + 1) : r[n] = q[a + n - 1]
  OBVIOUS
<1> HIDE DEF r
<1>3. Members(r) = {q[n] : n \in a..b}
  <2>1. ASSUME NEW n \in a..b PROVE q[n] \in Members(r)
    <3>1. n - a + 1 \in DOMAIN r /\ r[n - a + 1] = q[n]
      BY <1>1, <1>2
    <3> QED BY <3>1 DEF Members
  <2>2. ASSUME NEW n \in DOMAIN r PROVE \E h \in a..b : r[n] = q[h]
    <3>1. a + n - 1 \in a..b /\ r[n] = q[a + n - 1]
      BY <1>1, <1>2
    <3> QED BY <3>1
  <2> QED BY <2>1, <2>2 DEF Members
<1>4. ASSUME NoDup(q) PROVE NoDup(r)
  <2> SUFFICES ASSUME NEW i \in DOMAIN r, NEW j \in DOMAIN r, r[i] = r[j] PROVE i = j
    BY DEF NoDup
  <2>0. /\ i \in 1..(b - a + 1) /\ j \in 1..(b - a + 1) /\ r[i] = r[j]
        /\ a \in 1..(Len(q) + 1) /\ b \in 0..Len(q)
    BY <1>2
  <2>1. a + i - 1 \in DOMAIN q /\ a + j - 1 \in DOMAIN q /\ q[a + i - 1] = q[a + j - 1]
    <3>1. a + i - 1 \in 1..Len(q) /\ a + j - 1 \in 1..Len(q)
      BY ONLY <1>1, <2>0
    <3>2. r[i] = q[a + i - 1] /\ r[j] = q[a + j - 1]
      BY ONLY <1>2, <2>0
    <3> QED BY ONLY <1>1, <2>0, <3>1, <3>2
  <2>2. a + i - 1 = a + j - 1
    BY <1>4, <2>1 DEF NoDup
  <2>3. i \in Int /\ j \in Int
    BY <1>2
  <2> QED BY <2>2, <2>3
<1> QED BY <1>1, <1>3, <1>4 DEF r

\* queue_dequeue takes the head out.
LEMMA TailQueue ==
  ASSUME NEW T, NEW q \in Seq(T), q # <<>>
  PROVE  /\ Head(q) \in Members(q) /\ Head(q) \in T /\ Tail(q) \in Seq(T)
         /\ Len(Tail(q)) = Len(q) - 1
         /\ NoDup(q) => NoDup(Tail(q)) /\ Members(Tail(q)) = Members(q) \ {Head(q)}
<1>1. Len(q) \in Nat /\ Len(q) >= 1 /\ DOMAIN q = 1..Len(q)
  OBVIOUS
<1>2. Head(q) = q[1] /\ Tail(q) = SubSeq(q, 2, Len(q)) /\ Len(Tail(q)) = Len(q) - 1
  OBVIOUS
<1>3. Head(q) \in Members(q) /\ Head(q) \in T
  BY <1>1, <1>2 DEF Members
<1>4. /\ Tail(q) \in Seq(T)
      /\ Members(Tail(q)) = {q[n] : n \in 2..Len(q)}
      /\ NoDup(q) => NoDup(Tail(q))
  <2>1. 2 \in 1..(Len(q) + 1) /\ Len(q) \in 0..Len(q)
    BY <1>1
  <2> DEFINE t == SubSeq(q, 2, Len(q))
  <2>2. t \in Seq(T) /\ Members(t) = {q[n] : n \in 2..Len(q)} /\ (NoDup(q) => NoDup(t))
    BY <2>1, SubQueue
  <2> HIDE DEF t
  <2>3. Tail(q) = t
    BY <1>2 DEF t
  <2> QED BY <2>2, <2>3
<1>5. ASSUME NoDup(q) PROVE {q[n] : n \in 2..Len(q)} = Members(q) \ {q[1]}
  <2>1. \A n \in 2..Len(q) : n \in DOMAIN q /\ q[n] # q[1]
    BY <1>1, <1>5 DEF NoDup
  <2>2. \A n \in DOMAIN q : q[n] # q[1] => n \in 2..Len(q)
    BY <1>1
  <2> QED BY <2>1, <2>2 DEF Members
<1> QED BY <1>2, <1>3, <1>4, <1>5

\* A queue that has a member is not empty.
LEMMA SomeMember ==
  ASSUME NEW T, NEW q \in Seq(T), NEW p \in Members(q)
  PROVE  q # <<>> /\ p \in T
  BY DEF Members

-----------------------------------------------------------------------------
(***************************************************************************)
(* Which queue a process is on.  E holds the slots a handler has in hand:   *)
(* they are on no queue, whatever their status.                             *)
(***************************************************************************)
NoRepeats(m) ==
    /\ \A n \in 1..3 : NoDup(m.ready[n])
    /\ NoDup(m.sleep)
    /\ \A q \in WaitQueues : NoDup(m.waiting[q])

\* The ready queue a process is on is the one of its priority.
OnReady(m, E) ==
    \A p \in Slots, n \in 1..3 :
        p \in Members(m.ready[n]) <=> m.status[p] = "READY" /\ m.priority[p] = n /\ p \notin E

\* The sleepers.
OnSleep(m, E) ==
    \A p \in Slots : p \in Members(m.sleep) <=> m.status[p] = "SLEEPING" /\ p \notin E

\* Who is on a waiting queue is blocked, and on no other.
OnWait(m, E) ==
    \A q \in WaitQueues, p \in Slots : p \in Members(m.waiting[q]) =>
        /\ m.status[p] = "BLOCKED" /\ p \notin E
        /\ \A r \in WaitQueues : p \in Members(m.waiting[r]) => r = q

\* Only current_running is marked as running, and never the boot context.
OneRuns(m) == \A p \in Slots : m.status[p] = "RUNNING" => p = m.current_running /\ p # 0

\* All queues.
Linked(m, E) == NoRepeats(m) /\ OnReady(m, E) /\ OnSleep(m, E) /\ OnWait(m, E) /\ OneRuns(m)

(***************************************************************************)
(* What the fields do_kill searches by say about a blocked process.         *)
(***************************************************************************)
LockWait(m, E) ==
    \A l \in Locks, p \in Slots :
        /\ p \in Members(m.waiting[LockQ(l)]) <=>
              m.status[p] = "BLOCKED" /\ m.lock_waiting[p] = l /\ p \notin E
        /\ p \in Members(m.waiting[LockQ(l)]) => m.waiting_pcb[p] = -1

\* On the queue of slot i wait those whose waiting_pcb leads do_kill there.
PidWait(m) ==
    \A i, p \in Slots : p \in Members(m.waiting[WaitQ(i)]) =>
        /\ m.lock_waiting[p] = NULL
        /\ m.waiting_pcb[p] \in 1..(m.next_pid - 1)
        /\ FindPid(m, m.waiting_pcb[p]) = i

\* The queues do_kill cannot search.
ObjectQueues == {q \in WaitQueues : q[1] \in {"cond", "sem", "barrier"}}
\* Who waits there has noted neither a mutex nor a process.
ObjectWait(m) ==
    \A q \in ObjectQueues, p \in Slots : p \in Members(m.waiting[q]) =>
        m.lock_waiting[p] = NULL /\ m.waiting_pcb[p] = -1

\* Only a blocked process has noted that it waits for another one, and for a
\* pid that was given out.
NotedOnly(m) ==
    \A p \in Procs : m.status[p] # "NOT_EXIST" /\ m.waiting_pcb[p] # -1 =>
        m.status[p] = "BLOCKED" /\ m.waiting_pcb[p] \in 1..(m.next_pid - 1)

\* Who waits for a process that lives is on its queue.
Found(m, E) ==
    \A p \in Procs :
        /\ m.status[p] = "BLOCKED" /\ p \notin E
        /\ m.lock_waiting[p] = NULL /\ m.waiting_pcb[p] # -1
        /\ ~Gone(m, m.waiting_pcb[p])
        => p \in Members(m.waiting[WaitQ(FindPid(m, m.waiting_pcb[p]))])

\* All fields.
Waits(m, E) == LockWait(m, E) /\ PidWait(m) /\ ObjectWait(m) /\ NotedOnly(m) /\ Found(m, E)

\* The pids 0 and 1 are not given out; the shell is never blocked.
Shell1(m) ==
    /\ m.pid[1] = 1 /\ m.next_pid >= 2 /\ \A p \in UserSlots : m.pid[p] # 1
    /\ m.status[1] \in {"READY", "RUNNING"}

\* The numbers of the slots.
LEMMA SlotSets ==
  /\ Procs \subseteq Slots /\ UserSlots \subseteq Procs /\ UserSlots \subseteq Slots
  /\ 0 \in Slots /\ 1 \in Procs /\ 1 \in Slots /\ Phantom \in Slots
  /\ 0 \notin Procs /\ 1 \notin UserSlots /\ Phantom \notin Procs /\ 0 # Phantom /\ 0 \notin UserSlots
  /\ Procs = UserSlots \cup {1}
  BY SizeAssumption DEF Slots, Procs, UserSlots, Phantom

\* The waiting queues are told apart by their names.
LEMMA DistinctQueues ==
  /\ \A l \in Locks, h \in Locks : LockQ(l) = LockQ(h) => l = h
  /\ \A i \in Slots, j \in Slots : WaitQ(i) = WaitQ(j) => i = j
  /\ \A l \in Locks, i \in Slots : LockQ(l) # WaitQ(i)
  /\ \A l \in Locks : LockQ(l) \notin ObjectQueues
  /\ \A i \in Slots : WaitQ(i) \notin ObjectQueues
  /\ \A q \in WaitQueues : q \in ObjectQueues \/ (\E l \in Locks : q = LockQ(l)) \/ (\E i \in Slots : q = WaitQ(i))
  /\ \A c \in Conds : CondQ(c) \in ObjectQueues
  /\ \A s \in Sems : SemQ(s) \in ObjectQueues
  /\ \A b \in Barriers : BarrierQ(b) \in ObjectQueues
  BY DEF LockQ, WaitQ, CondQ, SemQ, BarrierQ, ObjectQueues, WaitQueues

\* Members of queues are slots.
LEMMA QueueSlots ==
  ASSUME NEW S \in SUBSET Procs, NEW m, KernelMemory(m, S)
  PROVE  /\ \A n \in 1..3 : Members(m.ready[n]) \subseteq S
         /\ Members(m.sleep) \subseteq S
         /\ \A q \in WaitQueues : Members(m.waiting[q]) \subseteq S
         /\ S \subseteq Slots
<1>1. \A q \in Seq(S) : Members(q) \subseteq S
  BY SomeMember
<1> QED BY <1>1, SlotSets DEF KernelMemory

-----------------------------------------------------------------------------
(***************************************************************************)
(* The moves of a process between queues.  Each is stated for the values    *)
(* the fields have afterwards; the handlers are put together from them.     *)
(***************************************************************************)

\* The fields of a memory that the demands above speak of.
LEMMA LinkedSame ==
  ASSUME NEW m, NEW n, NEW E, Linked(m, E), n.status = m.status, n.priority = m.priority,
         n.ready = m.ready, n.sleep = m.sleep, n.waiting = m.waiting,
         n.current_running = m.current_running
  PROVE  Linked(n, E)
  BY DEF Linked, NoRepeats, OnReady, OnSleep, OnWait, OneRuns

\* A lookup reads only the pids.
LEMMA FindSame ==
  ASSUME NEW m, NEW n, n.pid = m.pid, NEW x
  PROVE  FindPid(n, x) = FindPid(m, x)
  BY DEF FindPid

\* The same for Waits.
LEMMA WaitsSame ==
  ASSUME NEW m, NEW n, NEW E, Waits(m, E), n.status = m.status, n.waiting = m.waiting,
         n.pid = m.pid, n.next_pid = m.next_pid, n.waiting_pcb = m.waiting_pcb,
         n.lock_waiting = m.lock_waiting
  PROVE  Waits(n, E)
<1>1. \A x : FindPid(n, x) = FindPid(m, x)
  BY FindSame
<1>2. \A x : Gone(n, x) <=> Gone(m, x)
  BY DEF Gone
<1>3. LockWait(n, E) /\ ObjectWait(n) /\ NotedOnly(n)
  BY DEF Waits, LockWait, ObjectWait, NotedOnly
<1>4. PidWait(n)
  BY <1>1 DEF Waits, PidWait
<1>5. Found(n, E)
  BY <1>1, <1>2 DEF Waits, Found
<1> QED BY <1>3, <1>4, <1>5 DEF Waits

\* A set of processes is woken: they leave the queues they wait on and are
\* linked on the first ready queue.
Woken(m, n, U) ==
    /\ \A p \in Slots : n.status[p] = IF p \in U THEN "READY" ELSE m.status[p]
    /\ \A p \in Slots : n.priority[p] = IF p \in U THEN 1 ELSE m.priority[p]
    /\ NoDup(n.ready[1]) /\ Members(n.ready[1]) = Members(m.ready[1]) \cup U
    /\ n.ready[2] = m.ready[2] /\ n.ready[3] = m.ready[3]
    /\ NoDup(n.sleep) /\ Members(n.sleep) = Members(m.sleep) \ U
    /\ \A q \in WaitQueues : NoDup(n.waiting[q]) /\ Members(n.waiting[q]) = Members(m.waiting[q]) \ U
    /\ n.current_running = m.current_running

\* Whoever is woken was blocked or asleep, so on one queue only.
LEMMA WakeLinked ==
  ASSUME NEW m, NEW n, NEW E, NEW U \in SUBSET Slots, Linked(m, E), Woken(m, n, U), U \cap E = {},
         \A p \in U : m.status[p] \in {"BLOCKED", "SLEEPING"}
  PROVE  Linked(n, E)
<1>1. NoRepeats(n)
  <2>1. \A i \in 1..3 : i = 1 \/ i = 2 \/ i = 3
    OBVIOUS
  <2>2. NoDup(n.ready[2]) /\ NoDup(n.ready[3])
    BY DEF Linked, NoRepeats, Woken
  <2> QED BY <2>1, <2>2 DEF NoRepeats, Woken
<1>2. OnReady(n, E)
  <2> SUFFICES ASSUME NEW p \in Slots, NEW i \in 1..3
               PROVE  p \in Members(n.ready[i]) <=>
                         n.status[p] = "READY" /\ n.priority[p] = i /\ p \notin E
    BY DEF OnReady
  <2>1. /\ \A j \in 1..3 : p \in Members(m.ready[j]) <=>
               m.status[p] = "READY" /\ m.priority[p] = j /\ p \notin E
        /\ n.status[p] = IF p \in U THEN "READY" ELSE m.status[p]
        /\ n.priority[p] = IF p \in U THEN 1 ELSE m.priority[p]
        /\ p \in U => p \notin E /\ m.status[p] # "READY"
    BY DEF Linked, OnReady, Woken
  <2>2. CASE i = 1
    BY <2>1, <2>2 DEF Woken
  <2>3. CASE i # 1
    <3>1. n.ready[i] = m.ready[i]
      BY <2>3 DEF Woken
    <3> QED BY <2>1, <2>3, <3>1
  <2> QED BY <2>2, <2>3
<1>3. OnSleep(n, E)
  BY DEF Linked, OnSleep, Woken
<1>4. OnWait(n, E)
  BY DEF Linked, OnWait, Woken
<1>5. OneRuns(n)
  BY DEF Linked, OneRuns, Woken
<1> QED BY <1>1, <1>2, <1>3, <1>4, <1>5 DEF Linked

\* A waiter that is woken is told that it waits for nothing.
LEMMA WakeWaits ==
  ASSUME NEW m, NEW n, NEW E, NEW U \in SUBSET Slots, Waits(m, E), Woken(m, n, U), U \cap E = {},
         \A p \in U : m.status[p] \in {"BLOCKED", "SLEEPING"},
         \A p \in Slots : n.waiting_pcb[p] = IF p \in U THEN -1 ELSE m.waiting_pcb[p],
         n.pid = m.pid, n.next_pid = m.next_pid, n.lock_waiting = m.lock_waiting
  PROVE  Waits(n, E)
<1>1. \A x : FindPid(n, x) = FindPid(m, x)
  BY FindSame
<1>2. \A x : Gone(n, x) <=> Gone(m, x)
  BY SlotSets DEF Gone, Woken
<1>3. LockWait(n, E)
  BY QueueNames DEF Waits, LockWait, Woken
<1>4. ObjectWait(n)
  BY DEF Waits, ObjectWait, ObjectQueues, Woken
<1>5. NotedOnly(n)
  BY SlotSets DEF Waits, NotedOnly, Woken
<1>6. PidWait(n)
  <2> SUFFICES ASSUME NEW i \in Slots, NEW p \in Slots, p \in Members(n.waiting[WaitQ(i)])
               PROVE  /\ n.lock_waiting[p] = NULL
                      /\ n.waiting_pcb[p] \in 1..(n.next_pid - 1)
                      /\ FindPid(n, n.waiting_pcb[p]) = i
    BY DEF PidWait
  <2>1. p \in Members(m.waiting[WaitQ(i)]) /\ p \notin U
    BY QueueNames DEF Woken
  <2>2. n.waiting_pcb[p] = m.waiting_pcb[p]
    BY <2>1
  <2> QED BY <1>1, <2>1, <2>2 DEF Waits, PidWait
<1>7. Found(n, E)
  <2> SUFFICES ASSUME NEW p \in Procs, n.status[p] = "BLOCKED", p \notin E, n.lock_waiting[p] = NULL,
                      n.waiting_pcb[p] # -1, ~Gone(n, n.waiting_pcb[p])
               PROVE  p \in Members(n.waiting[WaitQ(FindPid(n, n.waiting_pcb[p]))])
    BY DEF Found
  <2> DEFINE x == m.waiting_pcb[p]
             i == FindPid(m, x)
  <2>1. p \in Slots /\ p \notin U /\ n.waiting_pcb[p] = x /\ m.status[p] = "BLOCKED"
    BY SlotSets DEF Woken
  <2>2. p \in Members(m.waiting[WaitQ(i)])
    BY <1>2, <2>1 DEF Waits, Found
  <2>3. i \in Slots
    <3>1. {j \in UserSlots : m.pid[j] = x} \in SUBSET Nat
      BY SizeAssumption DEF UserSlots
    <3>2. {j \in UserSlots : m.pid[j] = x} # {} =>
             Least({j \in UserSlots : m.pid[j] = x}) \in {j \in UserSlots : m.pid[j] = x}
      BY <3>1, LeastIn
    <3> QED BY <3>2, SlotSets DEF FindPid
  <2> HIDE DEF i
  <2>4. p \in Members(n.waiting[WaitQ(i)])
    BY <2>1, <2>2, <2>3, QueueNames DEF Woken
  <2> QED BY <1>1, <2>1, <2>4 DEF i
<1> QED BY <1>3, <1>4, <1>5, <1>6, <1>7 DEF Waits

\* A slot that is on no queue.
LEMMA InHand ==
  ASSUME NEW m, NEW i, Linked(m, {}), Waits(m, {}), m.status[i] \in {"RUNNING", "NOT_EXIST"}
  PROVE  Linked(m, {i}) /\ Waits(m, {i})
<1>1. Linked(m, {i})
  BY DEF Linked, OnReady, OnSleep, OnWait
<1>2. Waits(m, {i})
  BY DEF Waits, LockWait, Found
<1> QED BY <1>1, <1>2

\* The slot in hand is given up.
LEMMA DieLinked ==
  ASSUME NEW m, NEW n, NEW i \in Slots, Linked(m, {i}), Waits(m, {i}),
         \A p \in Slots : n.status[p] = IF p = i THEN "NOT_EXIST" ELSE m.status[p],
         n.priority = m.priority, n.ready = m.ready, n.sleep = m.sleep, n.waiting = m.waiting,
         n.current_running = m.current_running, n.pid = m.pid, n.next_pid = m.next_pid,
         n.waiting_pcb = m.waiting_pcb, n.lock_waiting = m.lock_waiting
  PROVE  Linked(n, {}) /\ Waits(n, {})
<1>1. NoRepeats(n)
  BY DEF Linked, NoRepeats
<1>2. OnReady(n, {}) /\ OnSleep(n, {}) /\ OnWait(n, {}) /\ OneRuns(n)
  BY DEF Linked, OnReady, OnSleep, OnWait, OneRuns
<1>3. \A x : FindPid(n, x) = FindPid(m, x)
  BY FindSame
<1>4. \A x : ~Gone(n, x) => ~Gone(m, x)
  BY SlotSets DEF Gone
<1>5. LockWait(n, {}) /\ ObjectWait(n)
  BY DEF Waits, LockWait, ObjectWait
<1>6. NotedOnly(n)
  BY SlotSets DEF Waits, NotedOnly
<1>7. PidWait(n)
  BY <1>3 DEF Waits, PidWait
<1>8. Found(n, {})
  BY <1>3, <1>4, SlotSets DEF Waits, Found
<1> QED BY <1>1, <1>2, <1>5, <1>6, <1>7, <1>8 DEF Linked, Waits

\* The running process queues up on q.
Queued(m, n, q) ==
    /\ n.status = [m.status EXCEPT ![m.current_running] = "BLOCKED"]
    /\ n.waiting = [m.waiting EXCEPT ![q] = Append(m.waiting[q], m.current_running)]
    /\ n.priority = m.priority /\ n.ready = m.ready /\ n.sleep = m.sleep
    /\ n.current_running = m.current_running /\ n.pid = m.pid /\ n.next_pid = m.next_pid

\* The queues after it.
LEMMA QueuedMembers ==
  ASSUME NEW S \in SUBSET Procs, NEW m, KernelMemory(m, S), NEW n, NEW q \in WaitQueues, Queued(m, n, q)
  PROVE  /\ Members(n.waiting[q]) = Members(m.waiting[q]) \cup {m.current_running}
         /\ \A r \in WaitQueues : r # q => n.waiting[r] = m.waiting[r]
         /\ m.current_running \in Slots
         /\ \A p \in Slots : n.status[p] = IF p = m.current_running THEN "BLOCKED" ELSE m.status[p]
         /\ m.current_running \notin Members(m.waiting[q]) /\ NoDup(m.waiting[q]) => NoDup(n.waiting[q])
<1>1. m.waiting \in [WaitQueues -> Seq(S)] /\ m.status \in [Slots -> Status]
  BY DEF KernelMemory
<1>2. m.current_running \in Slots
  BY CurrentType
<1>3. m.waiting[q] \in Seq(S)
  BY <1>1
<1>4. n.waiting[q] = Append(m.waiting[q], m.current_running)
  BY <1>1 DEF Queued
<1> QED BY <1>1, <1>2, <1>3, <1>4, AppendQueue DEF Queued

\* It was on no queue before.
LEMMA BlockLinked ==
  ASSUME NEW S \in SUBSET Procs, NEW m, KernelMemory(m, S), NEW n, NEW q \in WaitQueues,
         Linked(m, {}), m.status[m.current_running] = "RUNNING", Queued(m, n, q)
  PROVE  Linked(n, {})
<1> DEFINE cur == m.current_running
<1>1. /\ Members(n.waiting[q]) = Members(m.waiting[q]) \cup {cur}
      /\ \A r \in WaitQueues : r # q => n.waiting[r] = m.waiting[r]
      /\ cur \in Slots
      /\ \A p \in Slots : n.status[p] = IF p = cur THEN "BLOCKED" ELSE m.status[p]
      /\ cur \notin Members(m.waiting[q]) /\ NoDup(m.waiting[q]) => NoDup(n.waiting[q])
  BY QueuedMembers
<1>2. \A r \in WaitQueues : cur \notin Members(m.waiting[r])
  BY <1>1 DEF Linked, OnWait
<1>3. NoRepeats(n)
  BY <1>1, <1>2 DEF Linked, NoRepeats, Queued
<1>4. OnReady(n, {}) /\ OnSleep(n, {})
  BY <1>1 DEF Linked, OnReady, OnSleep, Queued
<1>5. OnWait(n, {})
  <2> SUFFICES ASSUME NEW r \in WaitQueues, NEW p \in Slots, p \in Members(n.waiting[r])
               PROVE  /\ n.status[p] = "BLOCKED"
                      /\ \A o \in WaitQueues : p \in Members(n.waiting[o]) => o = r
    BY DEF OnWait
  <2>1. CASE p = cur
    BY <1>1, <1>2, <2>1
  <2>2. CASE p # cur
    <3>1. \A o \in WaitQueues : p \in Members(n.waiting[o]) => p \in Members(m.waiting[o])
      BY <1>1, <2>2
    <3> QED BY <1>1, <2>2, <3>1 DEF Linked, OnWait
  <2> QED BY <2>1, <2>2
<1>6. OneRuns(n)
  BY <1>1 DEF Linked, OneRuns, Queued
<1> QED BY <1>3, <1>4, <1>5, <1>6 DEF Linked

\* The three ways to wait: for a mutex, for a process, for another object.
LEMMA BlockWaits ==
  ASSUME NEW S \in SUBSET Procs, NEW m, KernelMemory(m, S), NEW n, NEW q \in WaitQueues,
         Linked(m, {}), Waits(m, {}), m.status[m.current_running] = "RUNNING", Queued(m, n, q),
         \A p \in Slots : p # m.current_running =>
            n.lock_waiting[p] = m.lock_waiting[p] /\ n.waiting_pcb[p] = m.waiting_pcb[p],
         \/ \E l \in Locks : /\ q = LockQ(l) /\ n.lock_waiting[m.current_running] = l
                             /\ n.waiting_pcb[m.current_running] = -1
         \/ \E i \in Slots : /\ q = WaitQ(i) /\ n.lock_waiting[m.current_running] = NULL
                             /\ n.waiting_pcb[m.current_running] \in 1..(m.next_pid - 1)
                             /\ FindPid(m, n.waiting_pcb[m.current_running]) = i
         \/ /\ q \in ObjectQueues /\ n.lock_waiting[m.current_running] = NULL
            /\ n.waiting_pcb[m.current_running] = -1
  PROVE  Waits(n, {})
<1> DEFINE cur == m.current_running
<1>1. /\ Members(n.waiting[q]) = Members(m.waiting[q]) \cup {cur}
      /\ \A r \in WaitQueues : r # q => n.waiting[r] = m.waiting[r]
      /\ cur \in Slots
      /\ \A p \in Slots : n.status[p] = IF p = cur THEN "BLOCKED" ELSE m.status[p]
      /\ cur \notin Members(m.waiting[q]) /\ NoDup(m.waiting[q]) => NoDup(n.waiting[q])
  BY QueuedMembers, Zenon
<1>2. \A r \in WaitQueues : cur \notin Members(m.waiting[r])
  BY <1>1 DEF Linked, OnWait
<1>3. \A r \in WaitQueues, p \in Slots : p # cur =>
         (p \in Members(n.waiting[r]) <=> p \in Members(m.waiting[r]))
  BY <1>1
<1>4. \A r \in WaitQueues : cur \in Members(n.waiting[r]) <=> r = q
  BY <1>1, <1>2
<1>5. \A x : FindPid(n, x) = FindPid(m, x)
  BY FindSame DEF Queued
<1>6. \A x : Gone(n, x) <=> Gone(m, x)
  BY <1>1, SlotSets DEF Gone, Queued
<1>7. LockWait(n, {})
  <2> SUFFICES ASSUME NEW l \in Locks, NEW p \in Slots
               PROVE  /\ p \in Members(n.waiting[LockQ(l)]) <=>
                            n.status[p] = "BLOCKED" /\ n.lock_waiting[p] = l
                      /\ p \in Members(n.waiting[LockQ(l)]) => n.waiting_pcb[p] = -1
    BY DEF LockWait
  <2>1. CASE p # cur
    BY <1>1, <1>3, <2>1, QueueNames DEF Waits, LockWait
  <2>2. CASE p = cur
    BY <1>1, <1>4, <2>2, QueueNames, DistinctQueues, NullAssumption
  <2> QED BY <2>1, <2>2
<1>8. PidWait(n)
  <2> SUFFICES ASSUME NEW i \in Slots, NEW p \in Slots, p \in Members(n.waiting[WaitQ(i)])
               PROVE  /\ n.lock_waiting[p] = NULL
                      /\ n.waiting_pcb[p] \in 1..(n.next_pid - 1)
                      /\ FindPid(n, n.waiting_pcb[p]) = i
    BY DEF PidWait
  <2>0. n.next_pid = m.next_pid
    BY DEF Queued
  <2>1. CASE p # cur
    BY <1>3, <1>5, <2>0, <2>1, QueueNames DEF Waits, PidWait
  <2>2. CASE p = cur
    <3>1. q = WaitQ(i)
      BY <1>4, <2>2, QueueNames
    <3>2. /\ n.lock_waiting[cur] = NULL /\ n.waiting_pcb[cur] \in 1..(m.next_pid - 1)
          /\ FindPid(m, n.waiting_pcb[cur]) = i
      BY <3>1, DistinctQueues
    <3> QED BY <1>5, <2>0, <2>2, <3>2
  <2> QED BY <2>1, <2>2
<1>9. ObjectWait(n)
  <2> SUFFICES ASSUME NEW r \in ObjectQueues, NEW p \in Slots, p \in Members(n.waiting[r])
               PROVE  n.lock_waiting[p] = NULL /\ n.waiting_pcb[p] = -1
    BY DEF ObjectWait
  <2>0. r \in WaitQueues
    BY DEF ObjectQueues
  <2>1. CASE p # cur
    BY <1>3, <2>0, <2>1 DEF Waits, ObjectWait
  <2>2. CASE p = cur
    BY <1>4, <2>0, <2>2, DistinctQueues
  <2> QED BY <2>1, <2>2
<1>10. NotedOnly(n)
  <2> SUFFICES ASSUME NEW p \in Procs, n.status[p] # "NOT_EXIST", n.waiting_pcb[p] # -1
               PROVE  n.status[p] = "BLOCKED" /\ n.waiting_pcb[p] \in 1..(n.next_pid - 1)
    BY DEF NotedOnly
  <2>0. p \in Slots /\ n.next_pid = m.next_pid
    BY SlotSets DEF Queued
  <2>1. CASE p = cur
    BY <1>1, <2>0, <2>1
  <2>2. CASE p # cur
    BY <1>1, <2>0, <2>2 DEF Waits, NotedOnly
  <2> QED BY <2>1, <2>2
<1>11. Found(n, {})
  <2> SUFFICES ASSUME NEW p \in Procs, n.status[p] = "BLOCKED", n.lock_waiting[p] = NULL,
                      n.waiting_pcb[p] # -1, ~Gone(n, n.waiting_pcb[p])
               PROVE  p \in Members(n.waiting[WaitQ(FindPid(n, n.waiting_pcb[p]))])
    BY DEF Found
  <2>1. CASE p = cur
    <3>1. q = WaitQ(FindPid(m, n.waiting_pcb[cur]))
      BY <2>1, NullAssumption
    <3> QED BY <1>4, <1>5, <2>1, <3>1
  <2>2. CASE p # cur
    <3> DEFINE i == FindPid(m, m.waiting_pcb[p])
    <3>0. p \in Slots
      BY SlotSets
    <3>1. n.waiting_pcb[p] = m.waiting_pcb[p] /\ m.status[p] = "BLOCKED" /\ m.lock_waiting[p] = NULL
      BY <1>1, <2>2, <3>0
    <3>2. p \in Members(m.waiting[WaitQ(i)]) /\ i \in Slots
      BY <1>6, <3>1, FindPidIn DEF Waits, Found
    <3> HIDE DEF i
    <3>3. p \in Members(n.waiting[WaitQ(i)])
      BY <1>3, <2>2, <3>0, <3>2, QueueNames
    <3> QED BY <1>5, <3>1, <3>3 DEF i
  <2> QED BY <2>1, <2>2
<1> QED BY <1>7, <1>8, <1>9, <1>10, <1>11 DEF Waits

\* The running process goes to sleep.
LEMMA SleepLinked ==
  ASSUME NEW S \in SUBSET Procs, NEW m, KernelMemory(m, S), NEW n,
         Linked(m, {}), Waits(m, {}), m.status[m.current_running] = "RUNNING",
         n.status = [m.status EXCEPT ![m.current_running] = "SLEEPING"],
         n.sleep = Append(m.sleep, m.current_running),
         n.priority = m.priority, n.ready = m.ready, n.waiting = m.waiting,
         n.current_running = m.current_running, n.pid = m.pid, n.next_pid = m.next_pid,
         n.waiting_pcb = m.waiting_pcb, n.lock_waiting = m.lock_waiting
  PROVE  Linked(n, {}) /\ Waits(n, {})
<1> DEFINE cur == m.current_running
<1>1. cur \in Slots /\ m.sleep \in Seq(S) /\ m.status \in [Slots -> Status]
  BY CurrentType DEF KernelMemory
<1>2. \A p \in Slots : n.status[p] = IF p = cur THEN "SLEEPING" ELSE m.status[p]
  BY <1>1
<1>3. /\ Members(n.sleep) = Members(m.sleep) \cup {cur}
      /\ cur \notin Members(m.sleep) /\ NoDup(m.sleep) => NoDup(n.sleep)
  BY <1>1, AppendQueue
<1>4. cur \notin Members(m.sleep) /\ \A q \in WaitQueues : cur \notin Members(m.waiting[q])
  BY <1>1 DEF Linked, OnSleep, OnWait
<1>5. Linked(n, {})
  <2>1. NoRepeats(n) /\ OnReady(n, {}) /\ OneRuns(n)
    BY <1>2, <1>3, <1>4 DEF Linked, NoRepeats, OnReady, OneRuns
  <2>2. OnSleep(n, {}) /\ OnWait(n, {})
    BY <1>2, <1>3, <1>4 DEF Linked, OnSleep, OnWait
  <2> QED BY <2>1, <2>2 DEF Linked
<1>6. \A x : FindPid(n, x) = FindPid(m, x)
  BY FindSame
<1>7. \A x : Gone(n, x) <=> Gone(m, x)
  BY <1>2, SlotSets DEF Gone
<1>8. LockWait(n, {}) /\ ObjectWait(n)
  BY <1>2 DEF Waits, LockWait, ObjectWait
<1>9. NotedOnly(n)
  BY <1>2, SlotSets DEF Waits, NotedOnly
<1>10. PidWait(n)
  BY <1>6 DEF Waits, PidWait
<1>11. Found(n, {})
  BY <1>2, <1>6, <1>7, SlotSets DEF Waits, Found
<1> QED BY <1>5, <1>8, <1>9, <1>10, <1>11 DEF Waits

\* Pids are unique, so a lookup finds the slot that has the pid, or none.
LEMMA FindUnique ==
  ASSUME NEW S \in SUBSET Procs, NEW m, KernelMemory(m, S), Pids(m), NEW x, x # 0
  PROVE  /\ \A j \in UserSlots : m.pid[j] = x => FindPid(m, x) = j
         /\ (\A j \in UserSlots : m.pid[j] # x) => FindPid(m, x) = Phantom
<1>1. ASSUME NEW j \in UserSlots, m.pid[j] = x PROVE FindPid(m, x) = j
  <2>1. FindPid(m, x) \in UserSlots /\ m.pid[FindPid(m, x)] = x
    BY <1>1, FindPidIn
  <2> QED BY <1>1, <2>1 DEF Pids
<1>2. ASSUME \A j \in UserSlots : m.pid[j] # x PROVE FindPid(m, x) = Phantom
  <2>1. {j \in UserSlots : m.pid[j] = x} = {}
    BY <1>2
  <2> QED BY <2>1 DEF FindPid
<1> QED BY <1>1, <1>2

\* A slot that was given up is set up anew.  Its old waiters stay behind.
Renewed(m, n, i) ==
    /\ n.status = [m.status EXCEPT ![i] = "READY"] /\ n.priority = [m.priority EXCEPT ![i] = 1]
    /\ n.ready = [m.ready EXCEPT ![1] = Append(m.ready[1], i)]
    /\ n.waiting = [m.waiting EXCEPT ![WaitQ(i)] = <<>>]
    /\ n.sleep = m.sleep /\ n.current_running = m.current_running
    /\ n.pid = [m.pid EXCEPT ![i] = m.next_pid] /\ n.next_pid = m.next_pid + 1
    /\ n.lock_waiting = [m.lock_waiting EXCEPT ![i] = NULL]
    /\ n.waiting_pcb = [m.waiting_pcb EXCEPT ![i] = -1]

\* Nobody waits for a pid that is not given out yet, so the queue that
\* is emptied held only processes whose target is gone.
LEMMA NewLinked ==
  ASSUME NEW S \in SUBSET Procs, NEW m, MemInv(m, S), NEW n, NEW i \in UserSlots,
         Linked(m, {}), Waits(m, {}), Pids(m), m.status[i] = "NOT_EXIST", Renewed(m, n, i),
         NEW T \in SUBSET Procs, KernelMemory(n, T)
  PROVE  Linked(n, {}) /\ Waits(n, {})
<1>0. /\ i \in Slots /\ i \in Procs /\ WaitQ(i) \in WaitQueues
      /\ m.status \in [Slots -> Status] /\ m.priority \in [Slots -> 0..3]
      /\ m.ready \in [1..3 -> Seq(S)] /\ m.waiting \in [WaitQueues -> Seq(S)]
      /\ m.pid \in [Slots -> Nat] /\ m.next_pid \in Nat
      /\ m.lock_waiting \in [Slots -> Locks \cup {NULL}] /\ m.waiting_pcb \in [Slots -> Int]
  BY SlotSets, QueueNames DEF MemInv, KernelMemory
<1>1. /\ \A p \in Slots : n.status[p] = IF p = i THEN "READY" ELSE m.status[p]
      /\ \A p \in Slots : n.priority[p] = IF p = i THEN 1 ELSE m.priority[p]
      /\ \A p \in Slots : n.pid[p] = IF p = i THEN m.next_pid ELSE m.pid[p]
      /\ \A p \in Slots : n.lock_waiting[p] = IF p = i THEN NULL ELSE m.lock_waiting[p]
      /\ \A p \in Slots : n.waiting_pcb[p] = IF p = i THEN -1 ELSE m.waiting_pcb[p]
  BY <1>0 DEF Renewed
<1>2. \A q \in WaitQueues : n.waiting[q] = IF q = WaitQ(i) THEN <<>> ELSE m.waiting[q]
  BY <1>0 DEF Renewed
<1>3. /\ n.ready[1] = Append(m.ready[1], i) /\ n.ready[2] = m.ready[2] /\ n.ready[3] = m.ready[3]
  <2>1. n.ready = [m.ready EXCEPT ![1] = Append(m.ready[1], i)] /\ DOMAIN m.ready = 1..3
    BY <1>0 DEF Renewed
  <2> QED BY ONLY <2>1
<1>4. /\ \A q \in WaitQueues : i \notin Members(m.waiting[q])
      /\ i \notin Members(m.ready[1]) /\ i \notin Members(m.ready[2]) /\ i \notin Members(m.ready[3])
      /\ i \notin Members(m.sleep)
  <2>1. 1 \in 1..3 /\ 2 \in 1..3 /\ 3 \in 1..3
    OBVIOUS
  <2> QED BY <1>0, <2>1 DEF Linked, OnWait, OnReady, OnSleep
<1>5. Members(n.ready[1]) = Members(m.ready[1]) \cup {i} /\ NoDup(n.ready[1])
  <2>1. m.ready[1] \in Seq(S)
    BY <1>0
  <2> QED BY <1>3, <1>4, <2>1, AppendQueue DEF Linked, NoRepeats
<1>6. \A q \in WaitQueues, p \in Slots : p \in Members(n.waiting[q]) =>
         q # WaitQ(i) /\ p \in Members(m.waiting[q]) /\ p # i
  BY <1>2, <1>4, EmptyQueue
<1>7. \A h \in 1..3 : h = 1 \/ h = 2 \/ h = 3
  OBVIOUS
<1>8. Linked(n, {})
  <2>1. NoRepeats(n)
    <3>1. \A q \in WaitQueues : NoDup(n.waiting[q])
      BY <1>2, EmptyQueue DEF Linked, NoRepeats
    <3>2. NoDup(n.sleep) /\ \A h \in 1..3 : NoDup(n.ready[h])
      BY <1>3, <1>5, <1>7 DEF Linked, NoRepeats, Renewed
    <3> QED BY <3>1, <3>2 DEF NoRepeats
  <2>2. OnReady(n, {})
    <3> SUFFICES ASSUME NEW p \in Slots, NEW h \in 1..3
                 PROVE  p \in Members(n.ready[h]) <=> n.status[p] = "READY" /\ n.priority[p] = h
      BY DEF OnReady
    <3>1. \A j \in 1..3 : p \in Members(m.ready[j]) <=> m.status[p] = "READY" /\ m.priority[p] = j
      BY DEF Linked, OnReady
    <3>2. CASE p = i
      BY <1>1, <1>3, <1>4, <1>5, <1>7, <3>2
    <3>3. CASE p # i
      <4>1. p \in Members(n.ready[h]) <=> p \in Members(m.ready[h])
        BY <1>3, <1>5, <1>7, <3>3
      <4> QED BY <1>1, <3>1, <3>3, <4>1
    <3> QED BY <3>2, <3>3
  <2>3. OnSleep(n, {}) /\ OneRuns(n)
    BY <1>0, <1>1, <1>4 DEF Linked, OnSleep, OneRuns, Renewed
  <2>4. OnWait(n, {})
    BY <1>1, <1>6 DEF Linked, OnWait
  <2> QED BY <2>1, <2>2, <2>3, <2>4 DEF Linked
<1>9. ASSUME NEW x \in 1..(m.next_pid - 1), FindPid(m, x) # i PROVE FindPid(n, x) = FindPid(m, x)
  <2>0. x # 0 /\ x # m.next_pid
    BY <1>0
  <2>1. Pids(n)
    <3>1. \A p \in Slots : m.pid[p] < m.next_pid
      BY DEF Pids
    <3>2. n.next_pid # 0 /\ \A p \in Slots : n.pid[p] < n.next_pid
      <4>1. n.next_pid = m.next_pid + 1 /\ m.next_pid \in Nat
        BY <1>0 DEF Renewed
      <4>2. ASSUME NEW p \in Slots PROVE n.pid[p] < n.next_pid
        <5>1. n.pid[p] = (IF p = i THEN m.next_pid ELSE m.pid[p]) /\ m.pid[p] < m.next_pid /\ m.pid[p] \in Nat
          BY <1>0, <1>1, <3>1
        <5> QED BY ONLY <4>1, <5>1
      <4> QED BY <4>1, <4>2
    <3>3. ASSUME NEW p \in UserSlots, NEW q \in UserSlots, n.pid[p] = n.pid[q], n.pid[p] # 0
          PROVE  p = q
      <4>1. p \in Slots /\ q \in Slots /\ m.pid[p] \in Nat /\ m.pid[q] \in Nat
        BY <1>0, SlotSets
      <4>2. CASE p # i /\ q # i
        BY <1>1, <3>3, <4>1, <4>2 DEF Pids
      <4>3. CASE p = i \/ q = i
        BY <1>0, <1>1, <3>1, <3>3, <4>1, <4>3
      <4> QED BY <4>2, <4>3
    <3> QED BY <3>2, <3>3 DEF Pids
  <2>2. KernelMemory(m, S)
    BY DEF MemInv
  <2>3. CASE \E j \in UserSlots : m.pid[j] = x
    <3>1. PICK j \in UserSlots : m.pid[j] = x
      BY <2>3
    <3>2. FindPid(m, x) = j
      BY <2>0, <2>2, <3>1, FindUnique
    <3>3. n.pid[j] = x
      BY <1>1, <1>9, <3>1, <3>2, SlotSets
    <3> QED BY <2>0, <2>1, <3>2, <3>3, FindUnique
  <2>4. CASE \A j \in UserSlots : m.pid[j] # x
    <3>1. \A j \in UserSlots : n.pid[j] # x
      BY <1>1, <2>0, <2>4, SlotSets
    <3> QED BY <2>0, <2>1, <2>2, <2>4, <3>1, FindUnique
  <2> QED BY <2>3, <2>4
<1>10. LockWait(n, {})
  <2> SUFFICES ASSUME NEW l \in Locks, NEW p \in Slots
               PROVE  /\ p \in Members(n.waiting[LockQ(l)]) <=>
                            n.status[p] = "BLOCKED" /\ n.lock_waiting[p] = l
                      /\ p \in Members(n.waiting[LockQ(l)]) => n.waiting_pcb[p] = -1
    BY DEF LockWait
  <2>1. LockQ(l) \in WaitQueues /\ n.waiting[LockQ(l)] = m.waiting[LockQ(l)]
    BY <1>0, <1>2, QueueNames, DistinctQueues
  <2> QED BY <1>1, <1>4, <2>1 DEF Waits, LockWait
<1>11. ObjectWait(n)
  BY <1>1, <1>6 DEF Waits, ObjectWait, ObjectQueues
<1>12. NotedOnly(n)
  <2> SUFFICES ASSUME NEW p \in Procs, n.status[p] # "NOT_EXIST", n.waiting_pcb[p] # -1
               PROVE  n.status[p] = "BLOCKED" /\ n.waiting_pcb[p] \in 1..(n.next_pid - 1)
    BY DEF NotedOnly
  <2>1. p \in Slots /\ p # i
    BY <1>1, SlotSets
  <2>2. m.status[p] = "BLOCKED" /\ m.waiting_pcb[p] \in 1..(m.next_pid - 1)
    BY <1>1, <2>1 DEF Waits, NotedOnly
  <2> QED BY <1>0, <1>1, <2>1, <2>2 DEF Renewed
<1>13. PidWait(n)
  <2> SUFFICES ASSUME NEW j \in Slots, NEW p \in Slots, p \in Members(n.waiting[WaitQ(j)])
               PROVE  /\ n.lock_waiting[p] = NULL
                      /\ n.waiting_pcb[p] \in 1..(n.next_pid - 1)
                      /\ FindPid(n, n.waiting_pcb[p]) = j
    BY DEF PidWait
  <2>1. j # i /\ p # i /\ p \in Members(m.waiting[WaitQ(j)])
    BY <1>6, QueueNames
  <2>2. /\ m.lock_waiting[p] = NULL /\ m.waiting_pcb[p] \in 1..(m.next_pid - 1)
        /\ FindPid(m, m.waiting_pcb[p]) = j
    BY <2>1 DEF Waits, PidWait
  <2>3. FindPid(n, m.waiting_pcb[p]) = j
    BY <1>9, <2>1, <2>2
  <2>4. n.lock_waiting[p] = m.lock_waiting[p] /\ n.waiting_pcb[p] = m.waiting_pcb[p]
    BY <1>1, <2>1
  <2>5. 1..(m.next_pid - 1) \subseteq 1..(n.next_pid - 1)
    BY <1>0 DEF Renewed
  <2> QED BY ONLY <2>2, <2>3, <2>4, <2>5
<1>14. Found(n, {})
  <2> SUFFICES ASSUME NEW p \in Procs, n.status[p] = "BLOCKED", n.lock_waiting[p] = NULL,
                      n.waiting_pcb[p] # -1, ~Gone(n, n.waiting_pcb[p])
               PROVE  p \in Members(n.waiting[WaitQ(FindPid(n, n.waiting_pcb[p]))])
    BY DEF Found
  <2> DEFINE x == m.waiting_pcb[p]
  <2>1. p \in Slots /\ p # i
    BY <1>1, SlotSets
  <2>2. m.status[p] = "BLOCKED" /\ m.lock_waiting[p] = NULL /\ x # -1 /\ n.waiting_pcb[p] = x
    BY <1>1, <2>1
  <2>3. x \in 1..(m.next_pid - 1) /\ x # 0 /\ x # m.next_pid
    BY <1>0, <2>2 DEF Waits, NotedOnly
  <2>4. PICK u \in UserSlots : n.pid[u] = x /\ n.status[u] # "NOT_EXIST"
    BY <2>2 DEF Gone
  <2>5. u # i /\ m.pid[u] = x /\ m.status[u] # "NOT_EXIST"
    BY <1>1, <2>3, <2>4, SlotSets
  <2>6. FindPid(m, x) = u
    BY <2>3, <2>5, FindUnique DEF MemInv
  <2>7. p \in Members(m.waiting[WaitQ(u)])
    <3>1. ~Gone(m, x)
      BY <2>5 DEF Gone
    <3> QED BY <2>2, <2>6, <3>1 DEF Waits, Found
  <2>8. p \in Members(n.waiting[WaitQ(u)])
    <3>1. WaitQ(u) \in WaitQueues /\ WaitQ(u) # WaitQ(i)
      BY <1>0, <2>5, SlotSets, QueueNames, DistinctQueues
    <3> QED BY <1>2, <2>7, <3>1
  <2>9. FindPid(n, x) = u
    BY <1>9, <2>3, <2>5, <2>6
  <2> QED BY <2>2, <2>8, <2>9
<1> QED BY <1>8, <1>10, <1>11, <1>12, <1>13, <1>14 DEF Waits

\* Slot i is taken off the queue it is on.
TakenOut(m, n, i) ==
    /\ \A h \in 1..3 : NoDup(n.ready[h]) /\ Members(n.ready[h]) = Members(m.ready[h]) \ {i}
    /\ NoDup(n.sleep) /\ Members(n.sleep) = Members(m.sleep) \ {i}
    /\ \A q \in WaitQueues : NoDup(n.waiting[q]) /\ Members(n.waiting[q]) = Members(m.waiting[q]) \ {i}
    /\ n.status = m.status /\ n.priority = m.priority /\ n.current_running = m.current_running
    /\ n.pid = m.pid /\ n.next_pid = m.next_pid
    /\ n.waiting_pcb = m.waiting_pcb /\ n.lock_waiting = m.lock_waiting

\* Then it is in hand.
LEMMA RemoveLinked ==
  ASSUME NEW S \in SUBSET Procs, NEW m, KernelMemory(m, S), NEW n, NEW i,
         Linked(m, {}), Waits(m, {}), TakenOut(m, n, i)
  PROVE  Linked(n, {i}) /\ Waits(n, {i})
<1>1. NoRepeats(n) /\ OnReady(n, {i}) /\ OnSleep(n, {i}) /\ OnWait(n, {i}) /\ OneRuns(n)
  <2>1. NoRepeats(n) /\ OneRuns(n)
    BY DEF Linked, NoRepeats, OneRuns, TakenOut
  <2>2. OnReady(n, {i}) /\ OnSleep(n, {i})
    BY DEF Linked, OnReady, OnSleep, TakenOut
  <2>3. OnWait(n, {i})
    BY DEF Linked, OnWait, TakenOut
  <2> QED BY <2>1, <2>2, <2>3
<1>2. \A x : FindPid(n, x) = FindPid(m, x)
  BY FindSame DEF TakenOut
<1>3. \A x : Gone(n, x) <=> Gone(m, x)
  BY DEF Gone, TakenOut
<1>4. \A q \in WaitQueues, p \in Slots :
         p \in Members(n.waiting[q]) <=> p \in Members(m.waiting[q]) /\ p # i
  BY DEF TakenOut
<1>5. LockWait(n, {i})
  BY <1>4, QueueNames DEF Waits, LockWait, TakenOut
<1>6. ObjectWait(n) /\ NotedOnly(n)
  BY <1>4 DEF Waits, ObjectWait, ObjectQueues, NotedOnly, TakenOut
<1>7. PidWait(n)
  BY <1>2, <1>4, QueueNames DEF Waits, PidWait, TakenOut
<1>8. Found(n, {i})
  <2> SUFFICES ASSUME NEW p \in Procs, n.status[p] = "BLOCKED", p # i, n.lock_waiting[p] = NULL,
                      n.waiting_pcb[p] # -1, ~Gone(n, n.waiting_pcb[p])
               PROVE  p \in Members(n.waiting[WaitQ(FindPid(n, n.waiting_pcb[p]))])
    BY DEF Found
  <2> DEFINE j == FindPid(m, m.waiting_pcb[p])
  <2>1. p \in Members(m.waiting[WaitQ(j)]) /\ j \in Slots
    BY <1>3, FindPidIn DEF Waits, Found, TakenOut
  <2> HIDE DEF j
  <2>2. p \in Members(n.waiting[WaitQ(j)])
    BY <1>4, <2>1, SlotSets, QueueNames
  <2> QED BY <1>2, <2>2 DEF j, TakenOut
<1> QED BY <1>1, <1>5, <1>6, <1>7, <1>8 DEF Linked, Waits

\* Slot i is the only one on the queue that may have the pid.
OnlyOne(m, q, pid, i) == \A x \in Members(q) : m.pid[x] = pid <=> x = i

\* Queue r is q without i.
LeftOut(q, r, i) == NoDup(r) /\ Members(r) = Members(q) \ {i}

\* The search of do_kill takes out the slot with the pid, if it is there.
LEMMA SearchRemoveLinks ==
  ASSUME NEW S, NEW m, NEW q \in Seq(S), NoDup(q), NEW pid, NEW i,
         OnlyOne(m, q, pid, i),
         SearchRemove(m, q, pid).fault = "none"
  PROVE  LeftOut(q, SearchRemove(m, q, pid).queue, i)
<1> DEFINE at == {n \in 1..Len(q) : m.pid[q[n]] = pid}
           n == Least(at)
           r == SearchRemove(m, q, pid)
<1>1. \/ at = {} /\ r = [queue |-> q, fault |-> "none"]
      \/ at # {} /\ n = 1 /\ r = [queue |-> Tail(q), fault |-> "none"]
      \/ at # {} /\ n = Len(q) /\ r = [queue |-> SubSeq(q, 1, Len(q) - 1), fault |-> "none"]
      \/ r = [queue |-> q, fault |-> "interior"]
  BY DEF SearchRemove
<1>0. \A x \in Members(q) : m.pid[x] = pid <=> x = i
  BY DEF OnlyOne
<1>2. at # {} => n \in at
  <2>1. at \in SUBSET Nat
    OBVIOUS
  <2> HIDE DEF at
  <2> QED BY <2>1, LeastIn
<1> HIDE DEF n, r
<1>3. Len(q) \in Nat /\ DOMAIN q = 1..Len(q)
  OBVIOUS
<1>4. r.fault = "none"
  BY DEF r
<1>5. CASE at = {} /\ r = [queue |-> q, fault |-> "none"]
  <2>1. \A h \in DOMAIN q : m.pid[q[h]] # pid
    BY <1>3, <1>5
  <2>2. i \notin Members(q)
    BY <1>0, <2>1 DEF Members
  <2>3. Members(q) = Members(q) \ {i} /\ r.queue = q
    BY <1>5, <2>2
  <2> QED BY <2>3 DEF r, LeftOut
<1>6. CASE at # {} /\ n = 1 /\ r = [queue |-> Tail(q), fault |-> "none"]
  <2>1. 1 \in 1..Len(q) /\ m.pid[q[1]] = pid
    BY <1>2, <1>6
  <2>2. q # <<>> /\ Head(q) = q[1] /\ q[1] \in Members(q)
    BY <1>3, <2>1 DEF Members
  <2>3. Head(q) = i
    BY <1>0, <2>1, <2>2
  <2>4. r.queue = Tail(q)
    BY <1>6
  <2> QED BY <2>2, <2>3, <2>4, TailQueue DEF r, LeftOut
<1>7. CASE at # {} /\ n = Len(q) /\ r = [queue |-> SubSeq(q, 1, Len(q) - 1), fault |-> "none"]
  <2>1. Len(q) \in 1..Len(q) /\ m.pid[q[Len(q)]] = pid
    BY <1>2, <1>7
  <2>2. q[Len(q)] = i
    BY <1>0, <1>3, <2>1 DEF Members
  <2> DEFINE t == SubSeq(q, 1, Len(q) - 1)
  <2>3. t \in Seq(S) /\ Members(t) = {q[h] : h \in 1..(Len(q) - 1)} /\ NoDup(t)
    <3>1. 1 \in 1..(Len(q) + 1) /\ Len(q) - 1 \in 0..Len(q)
      BY <1>3, <2>1
    <3> QED BY <3>1, SubQueue
  <2> HIDE DEF t
  <2>4. Members(t) = Members(q) \ {i}
    <3>1. \A h \in 1..(Len(q) - 1) : h \in DOMAIN q /\ q[h] # i
      BY <1>3, <2>1, <2>2 DEF NoDup
    <3>2. \A h \in DOMAIN q : q[h] # i => h \in 1..(Len(q) - 1)
      BY <1>3, <2>2
    <3> QED BY <2>3, <3>1, <3>2 DEF Members
  <2>5. r.queue = t
    BY <1>7 DEF t
  <2> QED BY <2>3, <2>4, <2>5 DEF r, LeftOut
<1>8. CASE r = [queue |-> q, fault |-> "interior"]
  BY <1>4, <1>8
<1> QED BY <1>1, <1>5, <1>6, <1>7, <1>8

\* Only the slot do_kill looked up has the pid, on the queues it may be on.
LEMMA KillsOne ==
  ASSUME NEW m, MemInv(m, Spawned(m)), Pids(m), Shell1(m), NEW pid,
         NEW q \in Seq(Spawned(m)), 1 \in Members(q) => FindPid(m, pid) # Phantom
  PROVE  OnlyOne(m, q, pid, FindPid(m, pid))
<1> DEFINE i == FindPid(m, pid)
<1>0. Spawned(m) \in SUBSET Procs /\ KernelMemory(m, Spawned(m))
  BY DEF Spawned, MemInv
<1>1. i \in UserSlots \cup {Phantom}
  BY <1>0, FindPidIn
<1> SUFFICES ASSUME NEW x \in Members(q) PROVE m.pid[x] = pid <=> x = i
  BY DEF OnlyOne
<1>2. x \in Spawned(m)
  BY SomeMember
<1>3. x \in Procs /\ m.pid[x] # 0
  BY <1>2 DEF Spawned
<1>4. x \in UserSlots \/ x = 1
  BY <1>3, SlotSets
<1>5. i \in UserSlots => m.pid[i] = pid
  <2>1. ASSUME i \in UserSlots PROVE \E j \in UserSlots : m.pid[j] = pid
    BY <2>1, SlotSets DEF FindPid
  <2> QED BY <1>0, <2>1, FindPidIn
<1> HIDE DEF i
<1>6. CASE x \in UserSlots
  <2>1. m.pid[x] = pid => i = x
    BY <1>0, <1>3, <1>6, FindUnique DEF i
  <2> QED BY <1>5, <1>6, <2>1
<1>7. CASE x = 1
  <2>1. i \in UserSlots
    BY <1>1, <1>7 DEF i
  <2> QED BY <1>5, <1>7, <2>1, SlotSets DEF Shell1
<1> QED BY <1>4, <1>6, <1>7

\* The first part of do_kill takes the slot it looked up off the queue it is on.
LEMMA UnlinkTakesOut ==
  ASSUME NEW m, MemInv(m, Spawned(m)), m.fault = "none", Pids(m), Shell1(m),
         Linked(m, {}), Waits(m, {}), NEW pid,
         Unlink(m, FindPid(m, pid), pid).fault = "none"
  PROVE  TakenOut(m, Unlink(m, FindPid(m, pid), pid), FindPid(m, pid))
<1> DEFINE S == Spawned(m)
           i == FindPid(m, pid)
           n == Unlink(m, i, pid)
<1>0. /\ S \in SUBSET Procs /\ KernelMemory(m, S) /\ i \in Slots /\ DOMAIN m = Fields
      /\ m.ready \in [1..3 -> Seq(S)] /\ m.sleep \in Seq(S) /\ m.waiting \in [WaitQueues -> Seq(S)]
      /\ m.lock_waiting \in [Slots -> Locks \cup {NULL}] /\ m.status \in [Slots -> Status]
  <2>1. S \in SUBSET Procs /\ KernelMemory(m, S)
    BY DEF Spawned, MemInv
  <2>2. i \in Slots
    BY <2>1, FindPidIn
  <2> QED BY <2>1, <2>2 DEF KernelMemory
<1>1. ASSUME NEW q \in Seq(S), NoDup(q), 1 \in Members(q) => i # Phantom,
             SearchRemove(m, q, pid).fault = "none"
      PROVE  /\ NoDup(SearchRemove(m, q, pid).queue)
             /\ Members(SearchRemove(m, q, pid).queue) = Members(q) \ {i}
  <2>1. OnlyOne(m, q, pid, i)
    BY <1>1, KillsOne
  <2>2. q \in Seq(S) /\ NoDup(q) /\ SearchRemove(m, q, pid).fault = "none"
    BY <1>1
  <2> HIDE DEF i, S
  <2>3. LeftOut(q, SearchRemove(m, q, pid).queue, i)
    BY <2>1, <2>2, SearchRemoveLinks
  <2> QED BY <2>3 DEF LeftOut
<1>2. NoRepeats(m) /\ \A Q : i \notin Members(Q) => Members(Q) \ {i} = Members(Q)
  BY DEF Linked
<1>3. /\ \A h \in 1..3 : i \in Members(m.ready[h]) => m.status[i] = "READY" /\ m.priority[i] = h
      /\ i \in Members(m.sleep) => m.status[i] = "SLEEPING"
      /\ \A q \in WaitQueues : i \in Members(m.waiting[q]) => m.status[i] = "BLOCKED"
  BY <1>0 DEF Linked, OnReady, OnSleep, OnWait
<1>4. m.status[i] \in {"READY", "SLEEPING"} => i # Phantom
  <2>1. m.status[i] = "READY" => m.priority[i] \in 1..3
    BY <1>0 DEF MemInv, ReadyLevels
  <2>2. m.status[i] = "READY" => i \in Members(m.ready[m.priority[i]])
    BY <1>0, <2>1 DEF Linked, OnReady
  <2>3. m.status[i] = "SLEEPING" => i \in Members(m.sleep)
    BY <1>0 DEF Linked, OnSleep
  <2>4. m.status[i] \in {"READY", "SLEEPING"} => i \in S
    BY <1>0, <2>1, <2>2, <2>3, QueueSlots
  <2> QED BY <1>0, <2>4, SlotSets
<1>5. \A q \in WaitQueues : 1 \notin Members(m.waiting[q])
  BY SlotSets DEF Shell1, Linked, OnWait
<1> HIDE DEF i
<1>6. CASE m.status[i] = "READY"
  <2> DEFINE g == m.priority[i]
             r == SearchRemove(m, m.ready[g], pid)
  <2>1. n = [m EXCEPT !.ready[g] = r.queue, !.fault = r.fault]
    BY <1>6 DEF Unlink
  <2>2. g \in 1..3
    BY <1>0, <1>6 DEF MemInv, ReadyLevels
  <2> HIDE DEF g, r
  <2>3. /\ n.ready = [m.ready EXCEPT ![g] = r.queue] /\ n.fault = r.fault
        /\ n.sleep = m.sleep /\ n.waiting = m.waiting
        /\ n.status = m.status /\ n.priority = m.priority /\ n.current_running = m.current_running
        /\ n.pid = m.pid /\ n.next_pid = m.next_pid
        /\ n.waiting_pcb = m.waiting_pcb /\ n.lock_waiting = m.lock_waiting
    BY <1>0, <2>1 DEF Fields
  <2> HIDE DEF n
  <2>4. NoDup(r.queue) /\ Members(r.queue) = Members(m.ready[g]) \ {i}
    <3>1. m.ready[g] \in Seq(S) /\ NoDup(m.ready[g]) /\ r.fault = "none"
      BY <1>0, <1>2, <2>2, <2>3 DEF NoRepeats, n, i
    <3> QED BY <1>1, <1>4, <1>6, <3>1 DEF r
  <2>5. \A h \in 1..3 : NoDup(n.ready[h]) /\ Members(n.ready[h]) = Members(m.ready[h]) \ {i}
    <3> SUFFICES ASSUME NEW h \in 1..3
                 PROVE  NoDup(n.ready[h]) /\ Members(n.ready[h]) = Members(m.ready[h]) \ {i}
      OBVIOUS
    <3>1. CASE h = g
      BY <1>0, <2>3, <2>4, <3>1
    <3>2. CASE h # g
      <4>1. n.ready[h] = m.ready[h] /\ i \notin Members(m.ready[h])
        BY <1>0, <1>3, <2>3, <3>2 DEF g
      <4> QED BY <1>2, <4>1 DEF NoRepeats
    <3> QED BY <3>1, <3>2
  <2>6. i \notin Members(m.sleep) /\ \A q \in WaitQueues : i \notin Members(m.waiting[q])
    BY <1>3, <1>6
  <2> QED BY <1>2, <2>3, <2>5, <2>6 DEF TakenOut, NoRepeats, n, i
<1>7. CASE m.status[i] = "SLEEPING"
  <2> DEFINE r == SearchRemove(m, m.sleep, pid)
  <2>1. n = [m EXCEPT !.sleep = r.queue, !.fault = r.fault]
    BY <1>7 DEF Unlink
  <2> HIDE DEF r
  <2>3. /\ n.sleep = r.queue /\ n.fault = r.fault
        /\ n.ready = m.ready /\ n.waiting = m.waiting
        /\ n.status = m.status /\ n.priority = m.priority /\ n.current_running = m.current_running
        /\ n.pid = m.pid /\ n.next_pid = m.next_pid
        /\ n.waiting_pcb = m.waiting_pcb /\ n.lock_waiting = m.lock_waiting
    BY <1>0, <2>1 DEF Fields
  <2> HIDE DEF n
  <2>4. NoDup(r.queue) /\ Members(r.queue) = Members(m.sleep) \ {i}
    <3>1. NoDup(m.sleep) /\ r.fault = "none"
      BY <1>2, <2>3 DEF NoRepeats, n, i
    <3> QED BY <1>0, <1>1, <1>4, <1>7, <3>1 DEF r
  <2>6. (\A h \in 1..3 : i \notin Members(m.ready[h])) /\ \A q \in WaitQueues : i \notin Members(m.waiting[q])
    BY <1>3, <1>7
  <2> QED BY <1>2, <2>3, <2>4, <2>6 DEF TakenOut, NoRepeats, n, i
<1>8. ASSUME NEW x \in WaitQueues, m.status[i] = "BLOCKED",
             \A q \in WaitQueues : i \in Members(m.waiting[q]) => q = x,
             n = [m EXCEPT !.waiting[x] = SearchRemove(m, m.waiting[x], pid).queue,
                           !.fault = SearchRemove(m, m.waiting[x], pid).fault]
      PROVE  TakenOut(m, n, i)
  <2> DEFINE r == SearchRemove(m, m.waiting[x], pid)
  <2>1. n = [m EXCEPT !.waiting[x] = r.queue, !.fault = r.fault]
    BY <1>8
  <2> HIDE DEF r
  <2>3. /\ n.waiting = [m.waiting EXCEPT ![x] = r.queue] /\ n.fault = r.fault
        /\ n.sleep = m.sleep /\ n.ready = m.ready
        /\ n.status = m.status /\ n.priority = m.priority /\ n.current_running = m.current_running
        /\ n.pid = m.pid /\ n.next_pid = m.next_pid
        /\ n.waiting_pcb = m.waiting_pcb /\ n.lock_waiting = m.lock_waiting
    BY <1>0, <2>1 DEF Fields
  <2> HIDE DEF n
  <2>4. NoDup(r.queue) /\ Members(r.queue) = Members(m.waiting[x]) \ {i}
    <3>1. m.waiting[x] \in Seq(S) /\ NoDup(m.waiting[x]) /\ r.fault = "none"
      BY <1>0, <1>2, <2>3 DEF NoRepeats, n, i
    <3> QED BY <1>1, <1>5, <3>1 DEF r
  <2>5. \A q \in WaitQueues : NoDup(n.waiting[q]) /\ Members(n.waiting[q]) = Members(m.waiting[q]) \ {i}
    <3> SUFFICES ASSUME NEW q \in WaitQueues
                 PROVE  NoDup(n.waiting[q]) /\ Members(n.waiting[q]) = Members(m.waiting[q]) \ {i}
      OBVIOUS
    <3>1. CASE q = x
      BY <1>0, <2>3, <2>4, <3>1
    <3>2. CASE q # x
      <4>1. n.waiting[q] = m.waiting[q] /\ i \notin Members(m.waiting[q])
        BY <1>0, <1>8, <2>3, <3>2
      <4> QED BY <1>2, <4>1 DEF NoRepeats
    <3> QED BY <3>1, <3>2
  <2>6. i \notin Members(m.sleep) /\ \A h \in 1..3 : i \notin Members(m.ready[h])
    BY <1>3, <1>8
  <2> QED BY <1>2, <2>3, <2>5, <2>6 DEF TakenOut, NoRepeats
<1>9. CASE m.status[i] = "BLOCKED" /\ m.lock_waiting[i] # NULL
  <2> DEFINE x == LockQ(m.lock_waiting[i])
  <2>1. n = [m EXCEPT !.waiting[x] = SearchRemove(m, m.waiting[x], pid).queue,
                      !.fault = SearchRemove(m, m.waiting[x], pid).fault]
    BY <1>9 DEF Unlink
  <2>2. m.lock_waiting[i] \in Locks
    BY <1>0, <1>9
  <2>3. x \in WaitQueues /\ i \in Members(m.waiting[x])
    BY <1>0, <1>9, <2>2, QueueNames DEF Waits, LockWait
  <2>4. \A q \in WaitQueues : i \in Members(m.waiting[q]) => q = x
    BY <1>0, <2>3 DEF Linked, OnWait
  <2> HIDE DEF x
  <2> QED BY <1>8, <1>9, <2>1, <2>3, <2>4 DEF i
<1>10. CASE m.status[i] = "BLOCKED" /\ m.lock_waiting[i] = NULL /\ m.waiting_pcb[i] # -1
  <2> DEFINE j == FindPid(m, m.waiting_pcb[i])
             x == WaitQ(j)
  <2>1. n = [m EXCEPT !.waiting[x] = SearchRemove(m, m.waiting[x], pid).queue,
                      !.fault = SearchRemove(m, m.waiting[x], pid).fault]
    BY <1>10 DEF Unlink
  <2>2. j \in Slots
    BY <1>0, FindPidIn
  <2>3. x \in WaitQueues
    BY <2>2, QueueNames
  <2>4. ASSUME NEW q \in WaitQueues, i \in Members(m.waiting[q]) PROVE q = x
    <3>1. q \notin ObjectQueues
      BY <1>0, <1>10, <2>4 DEF Waits, ObjectWait
    <3>2. ASSUME NEW l \in Locks PROVE q # LockQ(l)
      BY <1>0, <1>10, <2>4, NullAssumption DEF Waits, LockWait
    <3>3. PICK h \in Slots : q = WaitQ(h)
      BY <3>1, <3>2, DistinctQueues
    <3>4. j = h
      BY <1>0, <2>4, <3>3 DEF Waits, PidWait
    <3> QED BY <3>3, <3>4
  <2> HIDE DEF x
  <2> QED BY <1>8, <1>10, <2>1, <2>3, <2>4 DEF i
<1>11. CASE m.status[i] = "BLOCKED" /\ m.lock_waiting[i] = NULL /\ m.waiting_pcb[i] = -1
  <2>1. n = Stop(m, "hang")
    BY <1>11 DEF Unlink
  <2>2. n.fault = "hang"
    BY <1>0, <2>1 DEF Stop, Fields
  <2> QED BY <2>2 DEF i
<1>12. CASE m.status[i] \notin {"READY", "SLEEPING", "BLOCKED"}
  <2>1. n = m
    BY <1>12 DEF Unlink
  <2>2. /\ i \notin Members(m.sleep) /\ \A h \in 1..3 : i \notin Members(m.ready[h])
        /\ \A q \in WaitQueues : i \notin Members(m.waiting[q])
    BY <1>3, <1>12
  <2>3. TakenOut(m, m, i)
    BY <1>2, <2>2 DEF TakenOut, NoRepeats
  <2> QED BY <2>1, <2>3 DEF i
<1> QED BY <1>6, <1>7, <1>9, <1>10, <1>11, <1>12 DEF i

-----------------------------------------------------------------------------
(***************************************************************************)
(* The switch of process.                                                   *)
(***************************************************************************)

\* What queueing, waking and scheduling leave alone.
Frame(m, n) ==
    /\ n.pid = m.pid /\ n.next_pid = m.next_pid
    /\ n.waiting_pcb = m.waiting_pcb /\ n.lock_waiting = m.lock_waiting
    /\ n.lock_owned = m.lock_owned /\ n.locked = m.locked /\ n.owner = m.owner
    /\ n.num_waiting = m.num_waiting /\ n.sem = m.sem
    /\ n.num_now = m.num_now /\ n.num_expected = m.num_expected
    /\ n.time_elapsed = m.time_elapsed /\ n.alarm_time = m.alarm_time
    /\ n.context = m.context

\* What scheduler() does to the waiting queues and to the processes that are
\* not ready: nothing, but that it wakes sleepers whose alarm is over.
Marks(m, n) ==
    /\ n.waiting = m.waiting
    /\ \A p \in Slots :
          /\ n.status[p] = "NOT_EXIST" <=> m.status[p] = "NOT_EXIST"
          /\ n.status[p] = "BLOCKED" <=> m.status[p] = "BLOCKED"
          /\ m.status[p] = "SLEEPING" /\ n.status[p] # "SLEEPING" => Due(m, p)
          /\ n.status[p] = "SLEEPING" => m.status[p] = "SLEEPING"

\* Frame and Marks hold of steps that change nothing, and of steps in a row.
LEMMA FrameSelf == ASSUME NEW m PROVE Frame(m, m) /\ Marks(m, m)
  BY DEF Frame, Marks

\* Two steps in a row.
LEMMA FrameTrans ==
  ASSUME NEW m, NEW n, NEW o, Frame(m, n), Frame(n, o)
  PROVE  Frame(m, o)
  BY DEF Frame

\* An alarm is over by the clock and the alarm alone.
LEMMA FrameDue == ASSUME NEW m, NEW n, Frame(m, n), NEW p PROVE Due(n, p) <=> Due(m, p)
  BY DEF Frame, Due, get_timer

\* Two steps in a row.
LEMMA MarksTrans ==
  ASSUME NEW m, NEW n, NEW o, Frame(m, n), Marks(m, n), Marks(n, o)
  PROVE  Marks(m, o)
<1>1. \A p : Due(n, p) <=> Due(m, p)
  BY FrameDue
<1> QED BY <1>1 DEF Marks

\* A kernel that stops leaves everything as it is.
LEMMA StopFrame ==
  ASSUME NEW S \in SUBSET Procs, NEW m, KernelMemory(m, S), NEW f, NEW n, n = Stop(m, f)
  PROVE  Frame(m, n) /\ Marks(m, n) /\ n.fault = f /\ n.current_running = m.current_running
  BY DEF Stop, Frame, Marks, KernelMemory, Fields

\* The running process is ready again, but on no queue yet.
Demoted(m) ==
    IF m.status[m.current_running] = "RUNNING"
    THEN [m EXCEPT !.status[m.current_running] = "READY"] ELSE m
\* The slot that is in hand then.
Hand(m) == IF m.status[m.current_running] = "RUNNING" THEN {m.current_running} ELSE {}

\* The first part of scheduler().
LEMMA DemotedLinked ==
  ASSUME NEW S \in SUBSET Procs, NEW m, KernelMemory(m, S), Linked(m, {}), Waits(m, {}),
         NEW n, n = Demoted(m)
  PROVE  /\ Linked(n, Hand(m)) /\ Waits(n, Hand(m)) /\ Frame(m, n) /\ Marks(m, n)
         /\ n.current_running = m.current_running /\ n.fault = m.fault
         /\ \A p \in Slots : n.status[p] # "RUNNING"
         /\ \A p \in Slots : n.status[p] = IF p \in Hand(m) THEN "READY" ELSE m.status[p]
<1> DEFINE cur == m.current_running
<1>1. CASE m.status[cur] # "RUNNING"
  <2>1. n = m /\ Hand(m) = {}
    BY <1>1 DEF Demoted, Hand
  <2>2. \A p \in Slots : m.status[p] # "RUNNING"
    BY <1>1 DEF Linked, OneRuns
  <2> QED BY <2>1, <2>2, FrameSelf
<1>2. CASE m.status[cur] = "RUNNING"
  <2>1. Hand(m) = {cur} /\ cur \in Slots
    BY <1>2, CurrentType DEF Hand
  <2>2. /\ n.status = [m.status EXCEPT ![cur] = "READY"]
        /\ n.priority = m.priority /\ n.ready = m.ready /\ n.sleep = m.sleep /\ n.waiting = m.waiting
        /\ n.current_running = cur /\ n.fault = m.fault /\ Frame(m, n)
    BY <1>2 DEF Demoted, Frame, KernelMemory, Fields
  <2>3. \A p \in Slots : n.status[p] = IF p = cur THEN "READY" ELSE m.status[p]
    BY <2>1, <2>2 DEF KernelMemory
  <2>4. Linked(m, {cur}) /\ Waits(m, {cur})
    BY <1>2, InHand
  <2>5. Linked(n, {cur})
    <3>1. NoRepeats(n) /\ OnReady(n, {cur}) /\ OnSleep(n, {cur})
      BY <2>2, <2>3, <2>4 DEF Linked, NoRepeats, OnReady, OnSleep
    <3>2. OnWait(n, {cur}) /\ OneRuns(n)
      BY <2>2, <2>3, <2>4 DEF Linked, OnWait, OneRuns
    <3> QED BY <3>1, <3>2 DEF Linked
  <2>6. Waits(n, {cur})
    <3>1. \A x : FindPid(n, x) = FindPid(m, x)
      BY <2>2, FindSame DEF Frame
    <3>2. \A x : Gone(n, x) <=> Gone(m, x)
      BY <1>2, <2>2, <2>3, SlotSets DEF Gone, Frame
    <3>3. LockWait(n, {cur}) /\ ObjectWait(n)
      BY <2>2, <2>3, <2>4 DEF Waits, LockWait, ObjectWait, Frame
    <3>4. NotedOnly(n)
      BY <1>2, <2>2, <2>3, <2>4, SlotSets DEF Waits, NotedOnly, Frame
    <3>5. PidWait(n)
      BY <2>2, <2>4, <3>1 DEF Waits, PidWait, Frame
    <3>6. Found(n, {cur})
      BY <2>2, <2>3, <2>4, <3>1, <3>2, SlotSets DEF Waits, Found, Frame
    <3> QED BY <3>3, <3>4, <3>5, <3>6 DEF Waits
  <2>7. Marks(m, n)
    BY <1>2, <2>2, <2>3 DEF Marks
  <2>8. \A p \in Slots : n.status[p] # "RUNNING"
    BY <2>3 DEF Linked, OneRuns
  <2> QED BY <2>1, <2>2, <2>3, <2>5, <2>6, <2>7, <2>8
<1> QED BY <1>1, <1>2

\* check_sleeping stops the kernel, or it wakes the sleepers whose alarm is
\* over and no others: what the code takes from the two ends of the queue is
\* everything that is due.
LEMMA CheckSleepingWakes ==
  ASSUME NEW S \in SUBSET Procs, NEW m, KernelMemory(m, S), NEW E, Linked(m, E),
         NEW n, n = check_sleeping(m)
  PROVE  /\ Frame(m, n) /\ n.waiting = m.waiting /\ n.current_running = m.current_running
         /\ \/ n.fault = "interior" /\ n.status = m.status
            \/ n.fault = m.fault /\ Woken(m, n, {p \in Members(m.sleep) : Due(m, p)})
<1> DEFINE s == m.sleep
           due(h) == Due(m, s[h])
           interior == \E h \in 1..(Len(s) - 1) : due(h) /\ \E i \in 1..(h - 1) : ~due(i)
           F == {h \in 1..(Len(s) + 1) : h = Len(s) + 1 \/ ~due(h)}
           first == Least(F)
           last == IF first <= Len(s) /\ due(Len(s)) THEN Len(s) ELSE Len(s) + 1
           a == SubSeq(s, 1, first - 1)
           b == SubSeq(s, last, Len(s))
           c == SubSeq(s, first, last - 1)
           woken == a \o b
           up == Members(woken)
           n1 == [m EXCEPT
                    !.sleep    = c,
                    !.status   = [p \in Slots |-> IF p \in up THEN "READY" ELSE @[p]],
                    !.priority = [p \in Slots |-> IF p \in up THEN 1 ELSE @[p]],
                    !.ready[1] = @ \o woken]
           U == {p \in Members(m.sleep) : Due(m, p)}
<1>1. n = IF interior THEN Stop(m, "interior") ELSE n1
  BY DEF check_sleeping
<1>2. s \in Seq(S) /\ Len(s) \in Nat /\ DOMAIN s = 1..Len(s)
  BY DEF KernelMemory
<1>3. first \in 1..(Len(s) + 1) /\ (first <= Len(s) => ~due(first)) /\ \A h \in 1..(first - 1) : due(h)
  <2>1. F \in SUBSET Nat /\ Len(s) + 1 \in F
    BY <1>2
  <2> HIDE DEF F
  <2>2. first \in F /\ \A h \in F : first <= h
    BY <2>1, LeastIn
  <2> HIDE DEF first
  <2>3. first \in 1..(Len(s) + 1) /\ (first <= Len(s) => ~due(first))
    BY <1>2, <2>2 DEF F
  <2>4. ASSUME NEW h \in 1..(first - 1), ~due(h) PROVE FALSE
    <3>1. h \in F
      BY <1>2, <2>3, <2>4 DEF F
    <3> QED BY <2>2, <2>3, <3>1
  <2> QED BY <2>3, <2>4
<1> HIDE DEF F, first
<1>4. /\ last \in 1..(Len(s) + 1) /\ first <= last
      /\ \A h \in last..Len(s) : due(h) /\ h = Len(s) /\ first <= Len(s)
      /\ last = Len(s) + 1 \/ last = Len(s)
      /\ last = Len(s) + 1 /\ first <= Len(s) => ~due(Len(s))
  BY <1>2, <1>3
<1> HIDE DEF last
<1>5. ASSUME ~interior PROVE \A h \in first..(last - 1) : ~due(h)
  <2> SUFFICES ASSUME NEW h \in first..(last - 1), due(h) PROVE FALSE
    OBVIOUS
  <2>1. h # first /\ first \in 1..(h - 1) /\ first <= Len(s)
    BY <1>2, <1>3, <1>4
  <2>2. h # Len(s)
    BY <1>2, <1>4, <2>1
  <2>3. h \in 1..(Len(s) - 1)
    BY <1>2, <1>3, <1>4, <2>1, <2>2
  <2> QED BY <1>3, <1>5, <2>1, <2>3
<1>6. NoDup(s)
  BY DEF Linked, NoRepeats
<1>7. /\ a \in Seq(S) /\ Members(a) = {s[h] : h \in 1..(first - 1)} /\ NoDup(a)
      /\ b \in Seq(S) /\ Members(b) = {s[h] : h \in last..Len(s)} /\ NoDup(b)
      /\ c \in Seq(S) /\ Members(c) = {s[h] : h \in first..(last - 1)} /\ NoDup(c)
  <2>1. 1 \in 1..(Len(s) + 1) /\ first - 1 \in 0..Len(s) /\ last - 1 \in 0..Len(s) /\ Len(s) \in 0..Len(s)
    BY <1>2, <1>3, <1>4
  <2>2. a \in Seq(S) /\ Members(a) = {s[h] : h \in 1..(first - 1)} /\ NoDup(a)
    BY <1>2, <1>6, <2>1, SubQueue
  <2>3. b \in Seq(S) /\ Members(b) = {s[h] : h \in last..Len(s)} /\ NoDup(b)
    BY <1>2, <1>4, <1>6, <2>1, SubQueue
  <2>4. c \in Seq(S) /\ Members(c) = {s[h] : h \in first..(last - 1)} /\ NoDup(c)
    BY <1>2, <1>3, <1>6, <2>1, SubQueue
  <2> QED BY <2>2, <2>3, <2>4
<1> HIDE DEF a, b, c
<1>8. Members(woken) = Members(a) \cup Members(b) /\ NoDup(woken) /\ woken \in Seq(S)
  <2>1. Members(a) \cap Members(b) = {}
    <3>1. \A h \in 1..(first - 1), i \in last..Len(s) : h \in DOMAIN s /\ i \in DOMAIN s /\ h # i
      BY <1>2, <1>3, <1>4
    <3>2. \A h \in 1..(first - 1), i \in last..Len(s) : s[h] # s[i]
      BY <1>6, <3>1 DEF NoDup
    <3> QED BY <1>7, <3>2
  <2>2. woken \in Seq(S)
    BY <1>7
  <2>3. a \in Seq(S) /\ b \in Seq(S) /\ NoDup(a) /\ NoDup(b)
    BY <1>7
  <2>4. Members(a \o b) = Members(a) \cup Members(b)
    BY <2>3, ConcatQueue
  <2>5. NoDup(a \o b)
    BY <2>1, <2>3, ConcatQueue
  <2> QED BY <2>2, <2>4, <2>5
<1> HIDE DEF woken
<1>9. CASE interior
  <2>1. n = Stop(m, "interior")
    BY <1>1, <1>9
  <2>2. Frame(m, n) /\ Marks(m, n) /\ n.fault = "interior" /\ n.current_running = m.current_running
    BY <2>1, StopFrame
  <2>3. n.status = m.status
    BY <2>1 DEF Stop, KernelMemory, Fields
  <2> QED BY <2>2, <2>3 DEF Marks
<1>10. CASE ~interior
  <2>1. up = U /\ Members(c) = Members(s) \ U
    <3>1. \A h \in first..(last - 1) : ~due(h)
      BY <1>5, <1>10
    <3>2. \A h \in 1..(first - 1) : h \in DOMAIN s /\ due(h)
      BY <1>2, <1>3
    <3>3. \A h \in last..Len(s) : h \in DOMAIN s /\ due(h)
      BY <1>2, <1>4
    <3>4. \A h \in first..(last - 1) : h \in DOMAIN s
      BY <1>2, <1>3, <1>4
    <3>5. \A h \in DOMAIN s : h \in 1..(first - 1) \/ h \in last..Len(s) \/ h \in first..(last - 1)
      BY <1>2, <1>3, <1>4
    <3>6. \A x \in up : x \in U
      BY <1>7, <1>8, <3>2, <3>3 DEF Members
    <3>7. \A x \in U : x \in up
      <4> SUFFICES ASSUME NEW h \in DOMAIN s, due(h) PROVE s[h] \in up
        BY DEF Members
      <4>1. h \in 1..(first - 1) \/ h \in last..Len(s)
        BY <3>1, <3>5
      <4> QED BY <1>7, <1>8, <4>1
    <3>8. \A x \in Members(c) : x \in Members(s) /\ x \notin U
      BY <1>7, <3>1, <3>4 DEF Members
    <3>9. \A x \in Members(s) : x \notin U => x \in Members(c)
      <4> SUFFICES ASSUME NEW h \in DOMAIN s, ~due(h) PROVE s[h] \in Members(c)
        BY DEF Members
      <4>1. h \in first..(last - 1)
        BY <3>2, <3>3, <3>5
      <4> QED BY <1>7, <4>1
    <3> QED BY <3>6, <3>7, <3>8, <3>9
  <2> HIDE DEF up, interior
  <2>2. n = n1
    BY <1>1, <1>10
  <2>3. /\ n.sleep = c /\ n.waiting = m.waiting /\ n.current_running = m.current_running
        /\ n.status = [p \in Slots |-> IF p \in up THEN "READY" ELSE m.status[p]]
        /\ n.priority = [p \in Slots |-> IF p \in up THEN 1 ELSE m.priority[p]]
        /\ n.ready = [m.ready EXCEPT ![1] = m.ready[1] \o woken]
        /\ n.fault = m.fault /\ Frame(m, n)
    BY <2>2 DEF Frame, KernelMemory, Fields
  <2> HIDE DEF n1
  <2>4. m.ready \in [1..3 -> Seq(S)] /\ m.ready[1] \in Seq(S)
    BY DEF KernelMemory
  <2>5. n.ready[1] = m.ready[1] \o woken /\ n.ready[2] = m.ready[2] /\ n.ready[3] = m.ready[3]
    BY <2>3, <2>4
  <2>6. \A p \in U : m.status[p] = "SLEEPING" /\ p \in Slots /\ p \notin Members(m.ready[1])
    <3>1. \A p \in U : p \in Slots
      BY QueueSlots
    <3>2. 1 \in 1..3
      OBVIOUS
    <3> QED BY <3>1, <3>2 DEF Linked, OnSleep, OnReady
  <2>7. Members(n.ready[1]) = Members(m.ready[1]) \cup U /\ NoDup(n.ready[1])
    <3>1. Members(m.ready[1]) \cap Members(woken) = {}
      BY <2>1, <2>6 DEF up
    <3>2. NoDup(m.ready[1])
      BY DEF Linked, NoRepeats
    <3> QED BY <1>8, <2>1, <2>4, <2>5, <3>1, <3>2, ConcatQueue DEF up
  <2>8. \A q \in WaitQueues : NoDup(n.waiting[q]) /\ Members(n.waiting[q]) = Members(m.waiting[q]) \ U
    BY <2>3, <2>6, QueueSlots DEF Linked, NoRepeats, OnWait
  <2>9. \A p \in Slots : n.status[p] = IF p \in U THEN "READY" ELSE m.status[p]
    BY <2>1, <2>3
  <2>10. \A p \in Slots : n.priority[p] = IF p \in U THEN 1 ELSE m.priority[p]
    BY <2>1, <2>3
  <2>11. NoDup(n.sleep) /\ Members(n.sleep) = Members(m.sleep) \ U
    BY <1>7, <2>1, <2>3
  <2> HIDE DEF U
  <2>12. Woken(m, n, U)
    BY <2>3, <2>5, <2>7, <2>8, <2>9, <2>10, <2>11 DEF Woken
  <2> QED BY <2>3, <2>12 DEF U
<1> QED BY <1>9, <1>10

\* The old current_running is linked again, or stays off the ready queues; a
\* sleeper that was woken before it left the CPU is linked twice.
LEMMA PutBackLinked ==
  ASSUME NEW S \in SUBSET Procs, NEW m, KernelMemory(m, S), NEW E, Linked(m, E), Waits(m, E),
         \A p \in Slots : m.status[p] # "RUNNING",
         \/ E = {m.current_running} /\ m.status[m.current_running] = "READY" /\ m.current_running # 0
         \/ /\ E = {}
            /\ m.status[m.current_running] = "READY" =>
                  m.current_running \in Members(m.ready[1]) /\ m.current_running # 0,
         NEW n, n = PutBack(m)
  PROVE  /\ Frame(m, n) /\ Marks(m, n) /\ n.status = m.status
         /\ n.current_running = m.current_running
         /\ n.fault = "relinked" \/ (n.fault = m.fault /\ Linked(n, {}) /\ Waits(n, {}))
<1> DEFINE cur == m.current_running
           prio == IF m.priority[cur] <= 2 THEN m.priority[cur] + 1 ELSE 3
           k1 == [m EXCEPT !.priority[cur] = prio]
<1>1. /\ cur \in Slots /\ m.priority \in [Slots -> 0..3] /\ m.status \in [Slots -> Status]
      /\ m.ready \in [1..3 -> Seq(S)]
  BY CurrentType DEF KernelMemory
<1>2. prio \in 1..3
  <2>1. m.priority[cur] \in 0..3
    BY <1>1
  <2> QED BY <2>1
<1> HIDE DEF prio
<1>3. /\ k1.priority = [m.priority EXCEPT ![cur] = prio] /\ DOMAIN k1 = Fields
      /\ k1.status = m.status /\ k1.ready = m.ready /\ k1.sleep = m.sleep /\ k1.waiting = m.waiting
      /\ k1.current_running = cur /\ k1.fault = m.fault /\ Frame(m, k1)
  BY DEF Frame, KernelMemory, Fields
<1>4. \/ (cur = 0 \/ m.status[cur] \in {"BLOCKED", "SLEEPING", "NOT_EXIST"}) /\ n = k1
      \/ cur \in Members(m.ready[1]) /\ n = Stop(k1, "relinked")
      \/ /\ cur # 0 /\ m.status[cur] \notin {"BLOCKED", "SLEEPING", "NOT_EXIST"}
         /\ cur \notin Members(m.ready[1])
         /\ n = [k1 EXCEPT !.ready[prio] = Append(k1.ready[prio], cur)]
  BY DEF PutBack, prio
<1> HIDE DEF k1
<1>5. \A p \in Slots : k1.priority[p] = IF p = cur THEN prio ELSE m.priority[p]
  BY <1>1, <1>3
<1>6. CASE (cur = 0 \/ m.status[cur] \in {"BLOCKED", "SLEEPING", "NOT_EXIST"}) /\ n = k1
  <2>1. E = {} /\ m.status[cur] # "READY"
    BY <1>6
  <2>2. Linked(n, {})
    <3>1. NoRepeats(n) /\ OnSleep(n, {}) /\ OnWait(n, {}) /\ OneRuns(n)
      BY <1>3, <1>6, <2>1 DEF Linked, NoRepeats, OnSleep, OnWait, OneRuns
    <3>2. OnReady(n, {})
      <4> SUFFICES ASSUME NEW p \in Slots, NEW h \in 1..3
                   PROVE  p \in Members(n.ready[h]) <=> n.status[p] = "READY" /\ n.priority[p] = h
        BY DEF OnReady
      <4>1. p \in Members(m.ready[h]) <=> m.status[p] = "READY" /\ m.priority[p] = h
        BY <2>1 DEF Linked, OnReady
      <4>2. n.ready = m.ready /\ n.status = m.status /\ (p # cur => n.priority[p] = m.priority[p])
        BY <1>3, <1>5, <1>6
      <4> QED BY <2>1, <4>1, <4>2
    <3> QED BY <3>1, <3>2 DEF Linked
  <2>3. Waits(n, {})
    BY <1>3, <1>6, <2>1, WaitsSame DEF Frame
  <2>4. Marks(m, n)
    BY <1>3, <1>6 DEF Marks
  <2> QED BY <1>3, <1>6, <2>2, <2>3, <2>4
<1>7. CASE cur \in Members(m.ready[1]) /\ n = Stop(k1, "relinked")
  <2>1. n.status = m.status /\ n.waiting = m.waiting /\ n.fault = "relinked" /\ n.current_running = cur
    BY <1>3, <1>7 DEF Stop, Fields
  <2>2. Frame(k1, n)
    BY <1>3, <1>7 DEF Stop, Fields, Frame
  <2>3. Marks(m, n)
    BY <2>1 DEF Marks
  <2>4. Frame(m, n)
    BY <1>3, <2>2, FrameTrans
  <2> QED BY <2>1, <2>3, <2>4
<1>8. CASE /\ cur # 0 /\ m.status[cur] \notin {"BLOCKED", "SLEEPING", "NOT_EXIST"}
           /\ cur \notin Members(m.ready[1])
           /\ n = [k1 EXCEPT !.ready[prio] = Append(k1.ready[prio], cur)]
  <2>1. m.status[cur] = "READY" /\ E = {cur}
    BY <1>1, <1>8 DEF Status
  <2>2. /\ n.ready = [m.ready EXCEPT ![prio] = Append(m.ready[prio], cur)]
        /\ n.status = m.status /\ n.waiting = m.waiting /\ n.sleep = m.sleep
        /\ n.priority = k1.priority
        /\ n.fault = m.fault /\ n.current_running = cur /\ Frame(k1, n)
    BY <1>3, <1>8 DEF Fields, Frame
  <2>3. Frame(m, n) /\ Marks(m, n)
    <3>1. Frame(m, n)
      BY <1>3, <2>2, FrameTrans
    <3> QED BY <2>2, <3>1 DEF Marks
  <2>4. \A h \in 1..3 : cur \notin Members(m.ready[h])
    BY <1>1, <2>1 DEF Linked, OnReady
  <2>5. Members(n.ready[prio]) = Members(m.ready[prio]) \cup {cur} /\ NoDup(n.ready[prio])
    <3>1. m.ready[prio] \in Seq(S) /\ n.ready[prio] = Append(m.ready[prio], cur)
      BY <1>1, <1>2, <2>2
    <3>2. NoDup(m.ready[prio]) /\ cur \notin Members(m.ready[prio])
      BY <1>2, <2>4 DEF Linked, NoRepeats
    <3> QED BY <3>1, <3>2, AppendQueue
  <2>6. \A h \in 1..3 : h # prio => n.ready[h] = m.ready[h]
    BY <1>1, <2>2
  <2>7. Linked(n, {})
    <3>1. NoRepeats(n) /\ OneRuns(n)
      BY <2>2, <2>5, <2>6 DEF Linked, NoRepeats, OneRuns
    <3>2. OnSleep(n, {}) /\ OnWait(n, {})
      BY <2>1, <2>2 DEF Linked, OnSleep, OnWait
    <3>3. OnReady(n, {})
      <4> SUFFICES ASSUME NEW p \in Slots, NEW h \in 1..3
                   PROVE  p \in Members(n.ready[h]) <=> n.status[p] = "READY" /\ n.priority[p] = h
        BY DEF OnReady
      <4>1. CASE p = cur
        BY <1>1, <1>5, <2>1, <2>2, <2>4, <2>5, <2>6, <4>1
      <4>2. CASE p # cur
        <5>1. p \in Members(n.ready[h]) <=> p \in Members(m.ready[h])
          BY <2>5, <2>6, <4>2
        <5> QED BY <1>5, <2>1, <2>2, <4>2, <5>1 DEF Linked, OnReady
      <4> QED BY <4>1, <4>2
    <3> QED BY <3>1, <3>2, <3>3 DEF Linked
  <2>8. Waits(m, {})
    BY <2>1 DEF Waits, LockWait, Found
  <2>9. Waits(n, {})
    BY <2>2, <2>3, <2>8, WaitsSame DEF Frame
  <2> QED BY <2>2, <2>3, <2>7, <2>9
<1> QED BY <1>4, <1>6, <1>7, <1>8

\* A ready process is dequeued and runs.  The shell is ready, so there is one.
LEMMA PickNextLinked ==
  ASSUME NEW S \in SUBSET Procs, NEW m, MemInv(m, S), m.fault = "none", Linked(m, {}), Waits(m, {}),
         \A p \in Slots : m.status[p] # "RUNNING", m.status[1] = "READY",
         NEW n, n = PickNext(m)
  PROVE  /\ Frame(m, n) /\ Marks(m, n) /\ n.fault = "none" /\ Linked(n, {}) /\ Waits(n, {})
         /\ n.current_running # 0 /\ n.status[n.current_running] = "RUNNING"
         /\ n.status[1] \in {"READY", "RUNNING"}
<1> DEFINE h == IF m.ready[1] # <<>> THEN 1 ELSE IF m.ready[2] # <<>> THEN 2 ELSE 3
           c == Head(m.ready[h])
<1>1. /\ KernelMemory(m, S) /\ m.ready \in [1..3 -> Seq(S)] /\ m.status \in [Slots -> Status]
      /\ DOMAIN m = Fields
  BY DEF MemInv, KernelMemory
<1>2. m.ready[h] # <<>> /\ h \in 1..3
  <2>1. m.priority[1] \in 1..3
    BY SlotSets DEF MemInv, ReadyLevels
  <2>2. 1 \in Members(m.ready[m.priority[1]])
    BY <2>1, SlotSets DEF Linked, OnReady
  <2>3. m.ready[m.priority[1]] # <<>>
    BY <2>2, EmptyQueue
  <2>4. m.priority[1] = 1 \/ m.priority[1] = 2 \/ m.priority[1] = 3
    BY <2>1
  <2> QED BY <2>3, <2>4
<1>3. n = [m EXCEPT !.ready[h] = Tail(m.ready[h]), !.status[c] = "RUNNING", !.current_running = c]
  BY <1>2 DEF PickNext
<1> HIDE DEF h
<1>4. /\ c \in Members(m.ready[h]) /\ c \in S
      /\ NoDup(Tail(m.ready[h])) /\ Members(Tail(m.ready[h])) = Members(m.ready[h]) \ {c}
  <2>1. m.ready[h] \in Seq(S) /\ NoDup(m.ready[h])
    BY <1>1, <1>2 DEF Linked, NoRepeats
  <2> QED BY <1>2, <2>1, TailQueue
<1> HIDE DEF c
<1>5. c \in Slots /\ c \in Procs /\ c # 0
  BY <1>4, SlotSets
<1>6. /\ n.ready = [m.ready EXCEPT ![h] = Tail(m.ready[h])]
      /\ n.status = [m.status EXCEPT ![c] = "RUNNING"] /\ n.current_running = c
      /\ n.priority = m.priority /\ n.sleep = m.sleep /\ n.waiting = m.waiting
      /\ n.fault = m.fault /\ Frame(m, n)
  BY <1>1, <1>3 DEF Fields, Frame
<1>7. /\ \A p \in Slots : n.status[p] = IF p = c THEN "RUNNING" ELSE m.status[p]
      /\ \A i \in 1..3 : n.ready[i] = IF i = h THEN Tail(m.ready[h]) ELSE m.ready[i]
  BY <1>1, <1>2, <1>5, <1>6
<1>8. m.status[c] = "READY" /\ m.priority[c] = h
  BY <1>2, <1>4, <1>5 DEF Linked, OnReady
<1>9. Marks(m, n)
  BY <1>6, <1>7, <1>8 DEF Marks
<1>10. Linked(n, {})
  <2>1. NoRepeats(n) /\ OnSleep(n, {}) /\ OnWait(n, {}) /\ OneRuns(n)
    <3>1. NoRepeats(n)
      BY <1>4, <1>6, <1>7 DEF Linked, NoRepeats
    <3>2. OnSleep(n, {}) /\ OnWait(n, {})
      BY <1>6, <1>7, <1>8 DEF Linked, OnSleep, OnWait
    <3>3. OneRuns(n)
      BY <1>5, <1>6, <1>7 DEF OneRuns
    <3> QED BY <3>1, <3>2, <3>3
  <2>2. OnReady(n, {})
    <3> SUFFICES ASSUME NEW p \in Slots, NEW i \in 1..3
                 PROVE  p \in Members(n.ready[i]) <=> n.status[p] = "READY" /\ n.priority[p] = i
      BY DEF OnReady
    <3>1. CASE p = c
      BY <1>4, <1>5, <1>7, <1>8, <3>1 DEF Linked, OnReady
    <3>2. CASE p # c
      <4>1. p \in Members(n.ready[i]) <=> p \in Members(m.ready[i])
        BY <1>4, <1>7, <3>2
      <4> QED BY <1>6, <1>7, <3>2, <4>1 DEF Linked, OnReady
    <3> QED BY <3>1, <3>2
  <2> QED BY <2>1, <2>2 DEF Linked
<1>11. Waits(n, {})
  <2>1. \A x : FindPid(n, x) = FindPid(m, x)
    BY <1>6, FindSame DEF Frame
  <2>2. \A x : Gone(n, x) <=> Gone(m, x)
    BY <1>6, <1>7, <1>8, SlotSets DEF Gone, Frame
  <2>3. LockWait(n, {}) /\ ObjectWait(n)
    BY <1>6, <1>7, <1>8 DEF Waits, LockWait, ObjectWait, Frame
  <2>4. NotedOnly(n)
    BY <1>6, <1>7, <1>8, SlotSets DEF Waits, NotedOnly, Frame
  <2>5. PidWait(n)
    BY <1>6, <2>1 DEF Waits, PidWait, Frame
  <2>6. Found(n, {})
    BY <1>6, <1>7, <1>8, <2>1, <2>2, SlotSets DEF Waits, Found, Frame
  <2> QED BY <2>3, <2>4, <2>5, <2>6 DEF Waits
<1> QED BY <1>5, <1>6, <1>7, <1>9, <1>10, <1>11, SlotSets

\* What a switch of process establishes.
Switched(m, n) ==
    /\ n.fault # "null"
    /\ n.fault = "none" =>
          /\ Linked(n, {}) /\ Waits(n, {})
          /\ n.current_running # 0 /\ n.status[n.current_running] = "RUNNING"
          /\ n.status[1] \in {"READY", "RUNNING"}
          /\ \A p \in Slots : m.status[p] = "SLEEPING" /\ Due(m, p) => n.status[p] # "SLEEPING"

\* scheduler(), put together from its parts.
LEMMA SchedulerLinked ==
  ASSUME NEW S \in SUBSET Procs, NEW m, MemInv(m, S), m.fault = "none", Linked(m, {}), Waits(m, {}),
         m.status[m.current_running] # "READY", m.status[1] \in {"READY", "RUNNING"},
         NEW n, n = scheduler(m)
  PROVE  Frame(m, n) /\ Marks(m, n) /\ Switched(m, n)
<1> DEFINE cur == m.current_running
           E == Hand(m)
           k1 == Demoted(m)
           k2 == check_sleeping(k1)
           k3 == IF k2.fault = "none" THEN PutBack(k2) ELSE k2
           U == {p \in Members(k1.sleep) : Due(k1, p)}
<1>0. n = IF k3.fault = "none" THEN PickNext(k3) ELSE k3
  BY DEF scheduler, Demoted
<1>1. KernelMemory(m, S) /\ cur \in Slots
  BY CurrentType DEF MemInv
<1>2. /\ Linked(k1, E) /\ Waits(k1, E) /\ Frame(m, k1) /\ Marks(m, k1)
      /\ k1.current_running = cur /\ k1.fault = "none"
      /\ \A p \in Slots : k1.status[p] # "RUNNING"
      /\ \A p \in Slots : k1.status[p] = IF p \in E THEN "READY" ELSE m.status[p]
  BY <1>1, DemotedLinked
<1>3. MidInv(k1, S) /\ KernelMemory(k1, S)
  BY Demotion DEF Demoted, MidInv
<1>4. k1.status[1] = "READY"
  BY <1>2, SlotSets DEF Linked, OneRuns, Hand
<1> HIDE DEF k1
<1>5. /\ Frame(k1, k2) /\ k2.waiting = k1.waiting /\ k2.current_running = cur
      /\ \/ k2.fault = "interior" /\ k2.status = k1.status
         \/ k2.fault = "none" /\ Woken(k1, k2, U)
  BY <1>2, <1>3, CheckSleepingWakes
<1>6. MidInv(k2, S) /\ KernelMemory(k2, S)
  BY <1>3, CheckSleepingType DEF MidInv
<1>7. U \in SUBSET Slots /\ U \in SUBSET Procs /\ U \cap E = {} /\ \A p \in U : k1.status[p] = "SLEEPING" /\ Due(k1, p)
  <2>1. U \in SUBSET Slots /\ U \in SUBSET Procs
    BY <1>3, QueueSlots
  <2> QED BY <1>2, <2>1 DEF Linked, OnSleep
<1>8. \A p \in Slots : k1.status[p] = "SLEEPING" /\ Due(k1, p) => p \in U
  BY <1>2 DEF Linked, OnSleep
<1> HIDE DEF k2, U
<1>9. Marks(k1, k2)
  <2>1. CASE k2.fault = "interior" /\ k2.status = k1.status
    BY <1>5, <2>1 DEF Marks
  <2>2. CASE k2.fault = "none" /\ Woken(k1, k2, U)
    BY <1>5, <1>7, <2>2 DEF Marks, Woken
  <2> QED BY <1>5, <2>1, <2>2
<1>10. Frame(m, k2) /\ Marks(m, k2)
  BY <1>2, <1>5, <1>9, FrameTrans, MarksTrans
<1>11. CASE k2.fault # "none"
  <2>1. n = k2 /\ k2.fault = "interior"
    BY <1>0, <1>5, <1>11
  <2> QED BY <1>10, <2>1 DEF Switched
<1>12. CASE k2.fault = "none"
  <2>1. Woken(k1, k2, U) /\ k3 = PutBack(k2)
    BY <1>5, <1>12
  <2>2. \A p \in U : k1.status[p] \in {"BLOCKED", "SLEEPING"}
    BY <1>7
  <2>3. Linked(k2, E)
    BY <1>2, <1>7, <2>1, <2>2, WakeLinked
  <2>4. Waits(k2, E)
    <3>1. \A p \in U : k1.waiting_pcb[p] = -1
      BY <1>2, <1>7 DEF Waits, NotedOnly
    <3>2. \A p \in Slots : k2.waiting_pcb[p] = IF p \in U THEN -1 ELSE k1.waiting_pcb[p]
      BY <1>5, <3>1 DEF Frame
    <3>3. k2.pid = k1.pid /\ k2.next_pid = k1.next_pid /\ k2.lock_waiting = k1.lock_waiting
      BY <1>5 DEF Frame
    <3> QED BY <1>2, <1>7, <2>1, <2>2, <3>2, <3>3, WakeWaits
  <2>5. \A p \in Slots : k2.status[p] = IF p \in U THEN "READY" ELSE k1.status[p]
    BY <2>1 DEF Woken
  <2>6. \/ E = {k2.current_running} /\ k2.status[k2.current_running] = "READY" /\ k2.current_running # 0
        \/ /\ E = {}
           /\ k2.status[k2.current_running] = "READY" =>
                 k2.current_running \in Members(k2.ready[1]) /\ k2.current_running # 0
    <3>1. CASE m.status[cur] = "RUNNING"
      <4>1. E = {cur} /\ cur # 0
        BY <1>1, <3>1 DEF Hand, Linked, OneRuns
      <4>2. k1.status[cur] = "READY" /\ cur \notin U
        BY <1>1, <1>2, <1>7, <4>1
      <4> QED BY <1>1, <1>5, <2>5, <4>1, <4>2
    <3>2. CASE m.status[cur] # "RUNNING"
      <4>1. E = {} /\ k1.status[cur] = m.status[cur]
        BY <1>1, <1>2, <3>2 DEF Hand
      <4>2. k2.status[cur] = "READY" => cur \in U
        BY <1>1, <2>5, <4>1
      <4>3. cur \in U => cur \in Members(k2.ready[1]) /\ cur # 0
        BY <1>7, <2>1, SlotSets DEF Woken
      <4> QED BY <1>5, <4>1, <4>2, <4>3
    <3> QED BY <3>1, <3>2
  <2>7. \A p \in Slots : k2.status[p] # "RUNNING"
    BY <1>2, <2>5
  <2> HIDE DEF E, k3
  <2>8. /\ Frame(k2, k3) /\ Marks(k2, k3) /\ k3.status = k2.status
        /\ k3.fault = "relinked" \/ (k3.fault = k2.fault /\ Linked(k3, {}) /\ Waits(k3, {}))
    BY <1>6, <2>1, <2>3, <2>4, <2>6, <2>7, PutBackLinked
  <2>9. MemInv(k3, S)
    BY <1>6, <2>1, PutBackType
  <2>10. Frame(m, k3) /\ Marks(m, k3)
    BY <1>10, <2>8, FrameTrans, MarksTrans
  <2>11. CASE k3.fault = "relinked"
    <3>1. n = k3
      BY <1>0, <2>11
    <3> QED BY <2>10, <2>11, <3>1 DEF Switched
  <2>12. CASE k3.fault = k2.fault /\ Linked(k3, {}) /\ Waits(k3, {})
    <3>1. n = PickNext(k3) /\ k3.fault = "none"
      BY <1>0, <1>12, <2>12
    <3>2. k3.status[1] = "READY" /\ \A p \in Slots : k3.status[p] # "RUNNING"
      BY <1>4, <2>5, <2>7, <2>8, SlotSets
    <3>3. /\ Frame(k3, n) /\ Marks(k3, n) /\ n.fault = "none" /\ Linked(n, {}) /\ Waits(n, {})
          /\ n.current_running # 0 /\ n.status[n.current_running] = "RUNNING"
          /\ n.status[1] \in {"READY", "RUNNING"}
      BY <2>9, <2>12, <3>1, <3>2, PickNextLinked
    <3>4. Frame(m, n) /\ Marks(m, n)
      BY <2>10, <3>3, FrameTrans, MarksTrans
    <3>5. \A p : Due(k1, p) <=> Due(m, p)
      BY <1>2, FrameDue
    <3>6. ASSUME NEW p \in Slots, m.status[p] = "SLEEPING", Due(m, p) PROVE n.status[p] # "SLEEPING"
      <4>1. CASE k1.status[p] # "SLEEPING"
        BY <1>9, <2>8, <3>3, <4>1 DEF Marks
      <4>2. CASE k1.status[p] = "SLEEPING"
        <5>1. p \in U
          BY <1>8, <3>5, <3>6, <4>2
        <5>2. k3.status[p] = "READY"
          BY <2>5, <2>8, <5>1
        <5> QED BY <3>3, <5>2 DEF Marks
      <4> QED BY <4>1, <4>2
    <3> QED BY <3>3, <3>4, <3>6 DEF Switched
  <2> QED BY <2>8, <2>11, <2>12
<1> QED BY <1>11, <1>12

\* The same with the context of the process that leaves the CPU.
Moved(m, n, after) ==
    /\ n.pid = m.pid /\ n.next_pid = m.next_pid
    /\ n.waiting_pcb = m.waiting_pcb /\ n.lock_waiting = m.lock_waiting
    /\ n.lock_owned = m.lock_owned /\ n.locked = m.locked /\ n.owner = m.owner
    /\ n.num_waiting = m.num_waiting /\ n.sem = m.sem
    /\ n.num_now = m.num_now /\ n.num_expected = m.num_expected
    /\ n.time_elapsed = m.time_elapsed /\ n.alarm_time = m.alarm_time
    /\ n.context = [m.context EXCEPT ![m.current_running] = after]
    /\ Marks(m, n) /\ Switched(m, n)

\* do_scheduler is scheduler() with the context saved.
LEMMA SwitchLinked ==
  ASSUME NEW S \in SUBSET Procs, NEW m, MemInv(m, S), m.fault = "none", Linked(m, {}), Waits(m, {}),
         m.status[m.current_running] # "READY", m.status[1] \in {"READY", "RUNNING"},
         NEW after \in Contexts, after \in {"acquire"} \X Locks => m.current_running \in UserSlots,
         NEW n, n = do_scheduler(m, after)
  PROVE  Moved(m, n, after)
<1> DEFINE c == [m EXCEPT !.context[m.current_running] = after]
<1>1. n = scheduler(c)
  BY DEF do_scheduler
<1>2. MemInv(c, S)
  BY ContextType
<1>3. /\ c.context = [m.context EXCEPT ![m.current_running] = after]
      /\ c.status = m.status /\ c.priority = m.priority /\ c.ready = m.ready /\ c.sleep = m.sleep
      /\ c.waiting = m.waiting /\ c.current_running = m.current_running /\ c.fault = m.fault
      /\ c.pid = m.pid /\ c.next_pid = m.next_pid
      /\ c.waiting_pcb = m.waiting_pcb /\ c.lock_waiting = m.lock_waiting
      /\ c.lock_owned = m.lock_owned /\ c.locked = m.locked /\ c.owner = m.owner
      /\ c.num_waiting = m.num_waiting /\ c.sem = m.sem
      /\ c.num_now = m.num_now /\ c.num_expected = m.num_expected
      /\ c.time_elapsed = m.time_elapsed /\ c.alarm_time = m.alarm_time
  BY DEF MemInv, KernelMemory, Fields
<1> HIDE DEF c
<1>4. Linked(c, {})
  BY <1>3, LinkedSame
<1>5. Waits(c, {})
  BY <1>3, WaitsSame
<1>6. Frame(c, n) /\ Marks(c, n) /\ Switched(c, n)
  BY <1>1, <1>2, <1>3, <1>4, <1>5, SchedulerLinked
<1>7. \A p : Due(c, p) <=> Due(m, p)
  BY <1>3 DEF Due, get_timer
<1>8. Marks(m, n) /\ Switched(m, n)
  BY <1>3, <1>6, <1>7 DEF Marks, Switched
<1> QED BY <1>3, <1>6, <1>8 DEF Moved, Frame

-----------------------------------------------------------------------------
(***************************************************************************)
(* Waking, and the end of a process.                                        *)
(***************************************************************************)

\* The waiters of a queue are blocked and not in hand.
LEMMA WaitersBlocked ==
  ASSUME NEW S \in SUBSET Procs, NEW m, KernelMemory(m, S), NEW E, Linked(m, E), NEW q \in WaitQueues
  PROVE  /\ Members(m.waiting[q]) \in SUBSET Slots /\ Members(m.waiting[q]) \in SUBSET Procs
         /\ Members(m.waiting[q]) \cap E = {}
         /\ \A p \in Members(m.waiting[q]) :
               /\ m.status[p] = "BLOCKED" /\ p \notin Members(m.sleep) /\ p \notin Members(m.ready[1])
               /\ \A r \in WaitQueues : p \in Members(m.waiting[r]) => r = q
<1>1. Members(m.waiting[q]) \in SUBSET Slots /\ Members(m.waiting[q]) \in SUBSET Procs
  BY QueueSlots
<1>2. 1 \in 1..3
  OBVIOUS
<1>3. \A p \in Members(m.waiting[q]) :
         /\ p \notin E /\ m.status[p] = "BLOCKED"
         /\ \A r \in WaitQueues : p \in Members(m.waiting[r]) => r = q
  BY <1>1 DEF Linked, OnWait
<1>4. \A p \in Members(m.waiting[q]) : p \notin Members(m.sleep) /\ p \notin Members(m.ready[1])
  BY <1>1, <1>2, <1>3 DEF Linked, OnSleep, OnReady
<1> QED BY <1>1, <1>3, <1>4

\* do_unblock_all wakes every member of the queue.
LEMMA UnblockAllWakes ==
  ASSUME NEW S \in SUBSET Procs, NEW m, KernelMemory(m, S), NEW E, Linked(m, E),
         NEW q \in WaitQueues, NEW n, n = do_unblock_all(m, q)
  PROVE  /\ Woken(m, n, Members(m.waiting[q])) /\ Frame(m, n) /\ n.fault = m.fault
         /\ n.waiting = [m.waiting EXCEPT ![q] = <<>>] /\ n.sleep = m.sleep
         /\ n.current_running = m.current_running
<1> DEFINE U == Members(m.waiting[q])
<1>1. /\ m.ready \in [1..3 -> Seq(S)] /\ m.waiting \in [WaitQueues -> Seq(S)]
      /\ m.ready[1] \in Seq(S) /\ m.waiting[q] \in Seq(S)
  BY DEF KernelMemory
<1>2. /\ n.waiting = [m.waiting EXCEPT ![q] = <<>>] /\ n.sleep = m.sleep
      /\ n.status = [p \in Slots |-> IF p \in U THEN "READY" ELSE m.status[p]]
      /\ n.priority = [p \in Slots |-> IF p \in U THEN 1 ELSE m.priority[p]]
      /\ n.ready = [m.ready EXCEPT ![1] = m.ready[1] \o m.waiting[q]]
      /\ n.fault = m.fault /\ n.current_running = m.current_running /\ Frame(m, n)
  BY DEF do_unblock_all, Frame, KernelMemory, Fields
<1>3. /\ \A p \in U : /\ p \notin Members(m.sleep) /\ p \notin Members(m.ready[1])
                      /\ \A r \in WaitQueues : p \in Members(m.waiting[r]) => r = q
  BY WaitersBlocked
<1>4. NoDup(m.ready[1]) /\ NoDup(m.waiting[q]) /\ NoDup(m.sleep)
  BY DEF Linked, NoRepeats
<1>5. n.ready[1] = m.ready[1] \o m.waiting[q] /\ n.ready[2] = m.ready[2] /\ n.ready[3] = m.ready[3]
  <2> DEFINE x == m.ready[1] \o m.waiting[q]
  <2>1. n.ready = [m.ready EXCEPT ![1] = x]
    BY <1>2
  <2> HIDE DEF x
  <2>2. n.ready[1] = x /\ n.ready[2] = m.ready[2] /\ n.ready[3] = m.ready[3]
    BY <1>1, <2>1
  <2> QED BY <2>2 DEF x
<1>6. Members(n.ready[1]) = Members(m.ready[1]) \cup U
  BY <1>1, <1>5, ConcatQueue
<1>7. NoDup(n.ready[1])
  <2>1. Members(m.ready[1]) \cap U = {}
    BY <1>3
  <2> QED BY <1>1, <1>4, <1>5, <2>1, ConcatQueue
<1>8. Members(n.sleep) = Members(m.sleep) \ U /\ NoDup(n.sleep)
  BY <1>2, <1>3, <1>4
<1>9. \A r \in WaitQueues : NoDup(n.waiting[r]) /\ Members(n.waiting[r]) = Members(m.waiting[r]) \ U
  <2> SUFFICES ASSUME NEW r \in WaitQueues
               PROVE  NoDup(n.waiting[r]) /\ Members(n.waiting[r]) = Members(m.waiting[r]) \ U
    OBVIOUS
  <2>1. CASE r = q
    <3>1. n.waiting[r] = <<>>
      BY <1>1, <1>2, <2>1
    <3> QED BY <2>1, <3>1, EmptyQueue
  <2>2. CASE r # q
    <3>1. n.waiting[r] = m.waiting[r] /\ NoDup(m.waiting[r])
      BY <1>1, <1>2, <2>2 DEF Linked, NoRepeats
    <3>2. \A p \in U : p \notin Members(m.waiting[r])
      BY <1>3, <2>2
    <3> QED BY <3>1, <3>2
  <2> QED BY <2>1, <2>2
<1>10. /\ \A p \in Slots : n.status[p] = IF p \in U THEN "READY" ELSE m.status[p]
       /\ \A p \in Slots : n.priority[p] = IF p \in U THEN 1 ELSE m.priority[p]
  BY <1>2
<1> HIDE DEF U
<1>11. Woken(m, n, U)
  BY <1>2, <1>5, <1>6, <1>7, <1>8, <1>9, <1>10 DEF Woken
<1> QED BY <1>2, <1>11 DEF U

\* The first waiter of a queue is woken.
Popped(m, n, q) ==
    /\ Head(m.waiting[q]) \in Members(m.waiting[q])
    /\ Woken(m, n, {Head(m.waiting[q])})
    /\ n.waiting = [m.waiting EXCEPT ![q] = Tail(m.waiting[q])]

\* do_unblock_one wakes the head of a queue that has one.
LEMMA UnblockOneWakes ==
  ASSUME NEW S \in SUBSET Procs, NEW m, KernelMemory(m, S), NEW E, Linked(m, E),
         NEW q \in WaitQueues, m.waiting[q] # <<>>, NEW n, n = do_unblock_one(m, q)
  PROVE  Popped(m, n, q) /\ Frame(m, n) /\ n.fault = m.fault
<1> DEFINE c == Head(m.waiting[q])
           U == {c}
<1>1. /\ m.ready \in [1..3 -> Seq(S)] /\ m.waiting \in [WaitQueues -> Seq(S)]
      /\ m.ready[1] \in Seq(S) /\ m.waiting[q] \in Seq(S)
      /\ m.status \in [Slots -> Status] /\ m.priority \in [Slots -> 0..3]
  BY DEF KernelMemory
<1>2. /\ n.waiting = [m.waiting EXCEPT ![q] = Tail(m.waiting[q])] /\ n.sleep = m.sleep
      /\ n.status = [m.status EXCEPT ![c] = "READY"]
      /\ n.priority = [m.priority EXCEPT ![c] = 1]
      /\ n.ready = [m.ready EXCEPT ![1] = Append(m.ready[1], c)]
      /\ n.fault = m.fault /\ n.current_running = m.current_running /\ Frame(m, n)
  BY DEF do_unblock_one, Frame, KernelMemory, Fields
<1>3. NoDup(m.ready[1]) /\ NoDup(m.waiting[q]) /\ NoDup(m.sleep)
  BY DEF Linked, NoRepeats
<1>4. /\ c \in Members(m.waiting[q]) /\ NoDup(Tail(m.waiting[q]))
      /\ Members(Tail(m.waiting[q])) = Members(m.waiting[q]) \ {c}
  BY <1>1, <1>3, TailQueue
<1> HIDE DEF c
<1>5. /\ c \in Slots /\ c \notin Members(m.sleep) /\ c \notin Members(m.ready[1])
      /\ \A r \in WaitQueues : c \in Members(m.waiting[r]) => r = q
  BY <1>4, WaitersBlocked
<1>6. n.ready[1] = Append(m.ready[1], c) /\ n.ready[2] = m.ready[2] /\ n.ready[3] = m.ready[3]
  BY <1>1, <1>2
<1>7. Members(n.ready[1]) = Members(m.ready[1]) \cup U
  BY <1>1, <1>6, AppendQueue
<1>8. NoDup(n.ready[1])
  BY <1>1, <1>3, <1>5, <1>6, AppendQueue
<1>9. Members(n.sleep) = Members(m.sleep) \ U /\ NoDup(n.sleep)
  BY <1>2, <1>3, <1>5
<1>10. \A r \in WaitQueues : NoDup(n.waiting[r]) /\ Members(n.waiting[r]) = Members(m.waiting[r]) \ U
  <2> SUFFICES ASSUME NEW r \in WaitQueues
               PROVE  NoDup(n.waiting[r]) /\ Members(n.waiting[r]) = Members(m.waiting[r]) \ U
    OBVIOUS
  <2>1. CASE r = q
    <3>1. n.waiting[r] = Tail(m.waiting[q])
      BY <1>1, <1>2, <2>1
    <3> QED BY <1>4, <2>1, <3>1
  <2>2. CASE r # q
    <3>1. n.waiting[r] = m.waiting[r] /\ NoDup(m.waiting[r])
      BY <1>1, <1>2, <2>2 DEF Linked, NoRepeats
    <3>2. c \notin Members(m.waiting[r])
      BY <1>5, <2>2
    <3> QED BY <3>1, <3>2
  <2> QED BY <2>1, <2>2
<1>11. /\ \A p \in Slots : n.status[p] = IF p \in U THEN "READY" ELSE m.status[p]
       /\ \A p \in Slots : n.priority[p] = IF p \in U THEN 1 ELSE m.priority[p]
  BY <1>1, <1>2, <1>5
<1> HIDE DEF U
<1>12. Woken(m, n, U)
  BY <1>2, <1>6, <1>7, <1>8, <1>9, <1>10, <1>11 DEF Woken
<1> QED BY <1>2, <1>4, <1>12 DEF U, c, Popped

\* What the release of mutexes does: waiters of mutexes become ready, and a
\* mutex that was released is free and has no waiters.
Freed(m, n) ==
    /\ n.pid = m.pid /\ n.next_pid = m.next_pid /\ n.current_running = m.current_running
    /\ n.time_elapsed = m.time_elapsed /\ n.alarm_time = m.alarm_time /\ n.context = m.context
    /\ n.lock_waiting = m.lock_waiting /\ n.waiting_pcb = m.waiting_pcb
    /\ n.num_waiting = m.num_waiting /\ n.sem = m.sem
    /\ n.num_now = m.num_now /\ n.num_expected = m.num_expected /\ n.fault = m.fault
    /\ \A l \in Locks : \/ n.locked[l] = m.locked[l] /\ n.waiting[LockQ(l)] = m.waiting[LockQ(l)]
                        \/ ~n.locked[l] /\ n.waiting[LockQ(l)] = <<>>
    /\ \A q \in WaitQueues : (\A l \in Locks : q # LockQ(l)) => n.waiting[q] = m.waiting[q]
    /\ \A p \in Slots : \/ n.status[p] = m.status[p]
                        \/ /\ m.status[p] = "BLOCKED" /\ n.status[p] = "READY"
                           /\ m.lock_waiting[p] # NULL
    /\ Fewer(m, n)

\* Freed holds of no release, and of releases in a row.
LEMMA FreedSelf == ASSUME NEW m PROVE Freed(m, m)
  BY DEF Freed, Fewer

\* Two releases in a row.
LEMMA FreedTrans ==
  ASSUME NEW m, NEW n, NEW o, Freed(m, n), Freed(n, o)
  PROVE  Freed(m, o)
<1>1. Fewer(m, o)
  BY DEF Freed, Fewer
<1>2. \A l \in Locks : \/ o.locked[l] = m.locked[l] /\ o.waiting[LockQ(l)] = m.waiting[LockQ(l)]
                       \/ ~o.locked[l] /\ o.waiting[LockQ(l)] = <<>>
  BY DEF Freed
<1>3. \A q \in WaitQueues : (\A l \in Locks : q # LockQ(l)) => o.waiting[q] = m.waiting[q]
  BY DEF Freed
<1>4. \A p \in Slots : \/ o.status[p] = m.status[p]
                       \/ /\ m.status[p] = "BLOCKED" /\ o.status[p] = "READY"
                          /\ m.lock_waiting[p] # NULL
  BY DEF Freed
<1> QED BY <1>1, <1>2, <1>3, <1>4 DEF Freed

\* Nobody has mutex l in the table.
InNoTable(m, l) == \A p \in Slots, j \in 1..MAX_MUTEX_OWN : m.lock_owned[p][j] # l

\* do_mutex_lock_release: the waiters are woken, and l is in no table.
LEMMA ReleaseLinked ==
  ASSUME NEW S \in SUBSET Procs, NEW m, MemInv(m, S), NEW X, LockInv(m, X), NEW E, Linked(m, E), Waits(m, E),
         NEW l \in Locks, NEW n, n = do_mutex_lock_release(m, l)
  PROVE  Linked(n, E) /\ Waits(n, E) /\ Freed(m, n) /\ InNoTable(n, l)
<1> DEFINE d == Disown(m, l)
           u == do_unblock_all(d, LockQ(l))
           q == LockQ(l)
           U == Members(m.waiting[q])
<1>1. n = [u EXCEPT !.owner[l] = -1]
  BY DEF do_mutex_lock_release
<1>2. MemInv(d, S) /\ KernelMemory(d, S)
  BY DisownType DEF MemInv
<1>3. /\ d.pid = m.pid /\ d.next_pid = m.next_pid /\ d.current_running = m.current_running
      /\ d.time_elapsed = m.time_elapsed /\ d.alarm_time = m.alarm_time /\ d.context = m.context
      /\ d.lock_waiting = m.lock_waiting /\ d.waiting_pcb = m.waiting_pcb
      /\ d.num_waiting = m.num_waiting /\ d.sem = m.sem
      /\ d.num_now = m.num_now /\ d.num_expected = m.num_expected /\ d.fault = m.fault
      /\ d.waiting = m.waiting /\ d.sleep = m.sleep /\ d.ready = m.ready
      /\ d.status = m.status /\ d.priority = m.priority
      /\ d.locked = [m.locked EXCEPT ![l] = FALSE]
  BY DEF Disown, MemInv, KernelMemory, Fields
<1>4. q \in WaitQueues
  BY QueueNames
<1> HIDE DEF d, q
<1>5. Linked(d, E)
  BY <1>3, LinkedSame
<1>6. Waits(d, E)
  BY <1>3, WaitsSame
<1>7. /\ Woken(d, u, U) /\ Frame(d, u) /\ u.fault = d.fault
      /\ u.waiting = [d.waiting EXCEPT ![q] = <<>>] /\ u.sleep = d.sleep
      /\ u.current_running = d.current_running
  <2>1. u = do_unblock_all(d, q)
    BY DEF q
  <2> HIDE DEF u
  <2>2. /\ Woken(d, u, Members(d.waiting[q])) /\ Frame(d, u) /\ u.fault = d.fault
        /\ u.waiting = [d.waiting EXCEPT ![q] = <<>>] /\ u.sleep = d.sleep
        /\ u.current_running = d.current_running
    BY <1>2, <1>4, <1>5, <2>1, UnblockAllWakes, ZenonT(60)
  <2> QED BY <1>3, <2>2
<1>8. DOMAIN u = Fields
  <2>1. MemInv(u, S)
    BY <1>2, <1>4, UnblockAllType DEF q
  <2> HIDE DEF u
  <2> QED BY <2>1 DEF MemInv, KernelMemory
<1> HIDE DEF u
<1>9. /\ n.pid = u.pid /\ n.next_pid = u.next_pid /\ n.current_running = u.current_running
      /\ n.time_elapsed = u.time_elapsed /\ n.alarm_time = u.alarm_time /\ n.context = u.context
      /\ n.lock_waiting = u.lock_waiting /\ n.waiting_pcb = u.waiting_pcb
      /\ n.num_waiting = u.num_waiting /\ n.sem = u.sem
      /\ n.num_now = u.num_now /\ n.num_expected = u.num_expected /\ n.fault = u.fault
      /\ n.waiting = u.waiting /\ n.sleep = u.sleep /\ n.ready = u.ready
      /\ n.status = u.status /\ n.priority = u.priority /\ n.locked = u.locked
  BY <1>1, <1>8 DEF Fields
<1>10. /\ U \in SUBSET Slots /\ U \cap E = {}
       /\ \A p \in U : d.status[p] = "BLOCKED" /\ d.waiting_pcb[p] = -1 /\ d.lock_waiting[p] = l
  <2>1. /\ Members(d.waiting[q]) \in SUBSET Slots /\ Members(d.waiting[q]) \cap E = {}
        /\ \A p \in Members(d.waiting[q]) : d.status[p] = "BLOCKED"
    BY <1>2, <1>4, <1>5, WaitersBlocked
  <2>2. U = Members(d.waiting[q])
    BY <1>3
  <2> HIDE DEF U
  <2> QED BY <1>6, <2>1, <2>2 DEF Waits, LockWait, q
<1> HIDE DEF U
<1>11. Linked(u, E)
  BY <1>5, <1>7, <1>10, WakeLinked
<1>12. Waits(u, E)
  <2>1. \A p \in Slots : u.waiting_pcb[p] = IF p \in U THEN -1 ELSE d.waiting_pcb[p]
    BY <1>7, <1>10 DEF Frame
  <2>2. u.pid = d.pid /\ u.next_pid = d.next_pid /\ u.lock_waiting = d.lock_waiting
    BY <1>7 DEF Frame
  <2> QED BY <1>6, <1>7, <1>10, <2>1, <2>2, WakeWaits
<1>13. Linked(n, E)
  BY <1>9, <1>11, LinkedSame
<1>14. Waits(n, E)
  BY <1>9, <1>12, WaitsSame
<1>15. n.waiting = [m.waiting EXCEPT ![q] = <<>>] /\ n.locked = [m.locked EXCEPT ![l] = FALSE]
  BY <1>3, <1>7, <1>9 DEF Frame
<1>16. Fewer(m, n) /\ InNoTable(n, l)
  <2> DEFINE r == do_mutex_lock_release(m, l)
  <2>1. /\ LockInv(r, X) /\ r.pid = m.pid /\ r.fault = m.fault
        /\ \A p \in Slots, h \in 1..MAX_MUTEX_OWN :
              r.lock_owned[p][h] = IF m.lock_owned[p][h] = l THEN NULL ELSE m.lock_owned[p][h]
    BY ReleaseInv
  <2>2. r = n
    OBVIOUS
  <2> HIDE DEF r
  <2> QED BY <2>1, <2>2, NullAssumption DEF Fewer, InNoTable
<1>17. Freed(m, n)
  <2>1. m.waiting \in [WaitQueues -> Seq(S)] /\ m.locked \in [Locks -> BOOLEAN]
    BY DEF MemInv, KernelMemory
  <2>2. /\ n.locked[l] = FALSE /\ \A h \in Locks : h # l => n.locked[h] = m.locked[h]
        /\ n.waiting[q] = <<>> /\ \A r \in WaitQueues : r # q => n.waiting[r] = m.waiting[r]
    BY <1>4, <1>15, <2>1
  <2>3. \A h \in Locks : h # l => LockQ(h) # q /\ LockQ(h) \in WaitQueues
    BY DistinctQueues, QueueNames DEF q
  <2>4. \A h \in Locks : \/ n.locked[h] = m.locked[h] /\ n.waiting[LockQ(h)] = m.waiting[LockQ(h)]
                         \/ ~n.locked[h] /\ n.waiting[LockQ(h)] = <<>>
    BY <2>2, <2>3 DEF q
  <2>5. \A r \in WaitQueues : (\A h \in Locks : r # LockQ(h)) => n.waiting[r] = m.waiting[r]
    BY <2>2 DEF q
  <2>6. \A p \in Slots : \/ n.status[p] = m.status[p]
                         \/ /\ m.status[p] = "BLOCKED" /\ n.status[p] = "READY"
                            /\ m.lock_waiting[p] # NULL
    <3>1. \A p \in Slots : u.status[p] = IF p \in U THEN "READY" ELSE d.status[p]
      BY <1>7 DEF Woken
    <3> QED BY <1>3, <1>9, <1>10, <3>1, NullAssumption
  <2>7. Fewer(m, n)
    BY <1>16
  <2> QED BY <1>3, <1>7, <1>9, <2>4, <2>5, <2>6, <2>7 DEF Freed, Frame
<1> QED BY <1>13, <1>14, <1>16, <1>17

\* A slot is given up and its waiters are woken.
Given(m, n, i) ==
    /\ n.pid = m.pid /\ n.next_pid = m.next_pid /\ n.current_running = m.current_running
    /\ n.time_elapsed = m.time_elapsed /\ n.alarm_time = m.alarm_time /\ n.context = m.context
    /\ n.lock_waiting = m.lock_waiting /\ n.lock_owned = m.lock_owned /\ n.locked = m.locked
    /\ n.num_waiting = m.num_waiting /\ n.sem = m.sem
    /\ n.num_now = m.num_now /\ n.num_expected = m.num_expected /\ n.fault = m.fault
    /\ n.waiting = [m.waiting EXCEPT ![WaitQ(i)] = <<>>]
    /\ \A p \in Slots : n.status[p] = IF p \in Members(m.waiting[WaitQ(i)]) THEN "READY"
                                      ELSE IF p = i THEN "NOT_EXIST" ELSE m.status[p]
    /\ i \notin Members(m.waiting[WaitQ(i)])

\* The waiters of the slot are woken after its status was overwritten.
LEMMA GiveUpLinked ==
  ASSUME NEW S \in SUBSET Procs, NEW m, MemInv(m, S), NEW i \in Slots, Linked(m, {i}), Waits(m, {i}),
         NEW n, n = GiveUp(m, i)
  PROVE  Linked(n, {}) /\ Waits(n, {}) /\ Given(m, n, i)
<1> DEFINE q == WaitQ(i)
           U == Members(m.waiting[q])
           w == [p \in Slots |-> IF p \in U THEN -1 ELSE m.waiting_pcb[p]]
           v == [m EXCEPT !.status[i] = "NOT_EXIST"]
           k1 == [m EXCEPT !.status[i] = "NOT_EXIST", !.waiting_pcb = w]
<1>1. n = do_unblock_all(k1, q)
  BY DEF GiveUp
<1>2. /\ KernelMemory(m, S) /\ q \in WaitQueues /\ m.status \in [Slots -> Status]
  BY QueueNames DEF MemInv, KernelMemory
<1>3. /\ U \in SUBSET Slots /\ U \cap {i} = {}
      /\ \A p \in U : m.status[p] = "BLOCKED"
  BY <1>2, WaitersBlocked
<1>4. w \in [Slots -> Int]
  BY DEF MemInv, KernelMemory
<1>w. \A p \in Slots : w[p] = IF p \in U THEN -1 ELSE m.waiting_pcb[p]
  OBVIOUS
<1> HIDE DEF w
<1>5. KernelMemory(k1, S)
  BY <1>2, <1>4 DEF KernelMemory, Fields, Status
<1>6. /\ v.pid = m.pid /\ v.next_pid = m.next_pid /\ v.current_running = m.current_running
      /\ v.lock_waiting = m.lock_waiting /\ v.waiting_pcb = m.waiting_pcb
      /\ v.waiting = m.waiting /\ v.sleep = m.sleep /\ v.ready = m.ready /\ v.priority = m.priority
      /\ v.status = [m.status EXCEPT ![i] = "NOT_EXIST"]
  BY <1>2 DEF KernelMemory, Fields
<1>7. /\ k1.pid = m.pid /\ k1.next_pid = m.next_pid /\ k1.current_running = m.current_running
      /\ k1.time_elapsed = m.time_elapsed /\ k1.alarm_time = m.alarm_time /\ k1.context = m.context
      /\ k1.lock_waiting = m.lock_waiting /\ k1.waiting_pcb = w
      /\ k1.lock_owned = m.lock_owned /\ k1.locked = m.locked
      /\ k1.num_waiting = m.num_waiting /\ k1.sem = m.sem
      /\ k1.num_now = m.num_now /\ k1.num_expected = m.num_expected /\ k1.fault = m.fault
      /\ k1.waiting = m.waiting /\ k1.sleep = m.sleep /\ k1.ready = m.ready /\ k1.priority = m.priority
      /\ k1.status = [m.status EXCEPT ![i] = "NOT_EXIST"]
  BY <1>2 DEF KernelMemory, Fields
<1> HIDE DEF v, k1, q, U
<1>8. \A p \in Slots : v.status[p] = IF p = i THEN "NOT_EXIST" ELSE m.status[p]
  BY <1>2, <1>6
<1>9. Linked(v, {}) /\ Waits(v, {})
  BY <1>6, <1>8, DieLinked
<1>10. Linked(k1, {})
  BY <1>6, <1>7, <1>9, LinkedSame
<1>11. /\ Woken(k1, n, U) /\ Frame(k1, n) /\ n.fault = k1.fault
       /\ n.waiting = [k1.waiting EXCEPT ![q] = <<>>] /\ n.sleep = k1.sleep
       /\ n.current_running = k1.current_running
  <2> DEFINE u == do_unblock_all(k1, q)
  <2>1. u = do_unblock_all(k1, q) /\ q \in WaitQueues
    BY <1>2
  <2> HIDE DEF u
  <2>2. /\ Woken(k1, u, Members(k1.waiting[q])) /\ Frame(k1, u) /\ u.fault = k1.fault
        /\ u.waiting = [k1.waiting EXCEPT ![q] = <<>>] /\ u.sleep = k1.sleep
        /\ u.current_running = k1.current_running
    BY <1>5, <1>10, <2>1, UnblockAllWakes, ZenonT(60)
  <2> QED BY <1>1, <1>7, <2>1, <2>2 DEF U
<1>12. Woken(v, n, U)
  BY <1>6, <1>7, <1>11 DEF Woken
<1>13. \A p \in U : v.status[p] = "BLOCKED" /\ k1.status[p] = "BLOCKED"
  BY <1>3, <1>6, <1>7, <1>8
<1>14. Linked(n, {})
  BY <1>3, <1>10, <1>11, <1>13, WakeLinked
<1>15. Waits(n, {})
  <2>1. \A p \in Slots : n.waiting_pcb[p] = IF p \in U THEN -1 ELSE v.waiting_pcb[p]
    BY <1>w, <1>6, <1>7, <1>11 DEF Frame
  <2>2. n.pid = v.pid /\ n.next_pid = v.next_pid /\ n.lock_waiting = v.lock_waiting
    BY <1>6, <1>7, <1>11 DEF Frame
  <2> QED BY <1>3, <1>9, <1>12, <1>13, <2>1, <2>2, WakeWaits
<1>16. \A p \in Slots : n.status[p] = IF p \in U THEN "READY"
                                      ELSE IF p = i THEN "NOT_EXIST" ELSE m.status[p]
  BY <1>8, <1>12 DEF Woken
<1>17. Given(m, n, i)
  BY <1>3, <1>7, <1>11, <1>16 DEF Given, Frame, U, q
<1> QED BY <1>14, <1>15, <1>17

\* The end of a process: it is given up, and then its mutexes are released.
LEMMA BuryLinked ==
  ASSUME NEW S \in SUBSET Procs, NEW m, MemInv(m, S), LockInv(m, {}), NEW i \in Slots,
         Linked(m, {i}), Waits(m, {i}), NEW n, n = Bury(m, i)
  PROVE  Linked(n, {}) /\ Waits(n, {}) /\ \E g : Given(m, g, i) /\ Freed(g, n)
<1> DEFINE r0 == GiveUp(m, i)
           r1 == ReleaseEntry(r0, i, 1)
           r2 == ReleaseEntry(r1, i, 2)
           r3 == ReleaseEntry(r2, i, 3)
           r4 == ReleaseEntry(r3, i, 4)
           r5 == ReleaseEntry(r4, i, 5)
           good(r) == MemInv(r, S) /\ LockInv(r, {i}) /\ Linked(r, {}) /\ Waits(r, {}) /\ Freed(r0, r)
<1>0. n = r5
  BY DEF Bury
<1>1. ASSUME NEW r, good(r), NEW j \in 1..5 PROVE good(ReleaseEntry(r, i, j))
  <2> DEFINE x == ReleaseEntry(r, i, j)
             l == r.lock_owned[i][j]
             y == do_mutex_lock_release(r, l)
  <2>0. MemInv(r, S) /\ LockInv(r, {i}) /\ Linked(r, {}) /\ Waits(r, {}) /\ Freed(r0, r)
    BY <1>1
  <2> HIDE DEF r0
  <2>1. MemInv(x, S)
    BY <2>0, ReleaseEntryType
  <2>2. LockInv(x, {i})
    BY <2>0, ReleaseEntryInv
  <2>3. CASE j <= MAX_MUTEX_OWN /\ l # NULL
    <3>1. l \in Locks
      <4>1. j \in 1..MAX_MUTEX_OWN
        BY <2>3, SizeAssumption
      <4>2. LockInv(r, {i})
        BY <1>1
      <4> QED BY <2>3, <4>1, <4>2 DEF LockInv, Entries, Entry
    <3>2. x = y
      BY <2>3 DEF ReleaseEntry
    <3> HIDE DEF l, x
    <3>3. Linked(y, {}) /\ Waits(y, {}) /\ Freed(r, y)
      <4>1. y = do_mutex_lock_release(r, l)
        OBVIOUS
      <4> HIDE DEF y
      <4> QED BY <2>0, <3>1, <4>1, ReleaseLinked
    <3>4. Freed(r0, y)
      <4> HIDE DEF y
      <4> QED BY <2>0, <3>3, FreedTrans
    <3> HIDE DEF y
    <3> QED BY <2>1, <2>2, <3>2, <3>3, <3>4 DEF x
  <2>4. CASE ~(j <= MAX_MUTEX_OWN /\ l # NULL)
    <3>1. x = r
      BY <2>4 DEF ReleaseEntry
    <3> HIDE DEF x
    <3> QED BY <2>0, <3>1 DEF x
  <2> QED BY <2>3, <2>4
<1>2. good(r0) /\ Given(m, r0, i)
  <2>1. MemInv(r0, S) /\ LockInv(r0, {i})
    BY GiveUpType, GiveUpInv
  <2>2. Linked(r0, {}) /\ Waits(r0, {}) /\ Given(m, r0, i)
    <3>1. r0 = GiveUp(m, i)
      OBVIOUS
    <3> HIDE DEF r0
    <3> QED BY <3>1, GiveUpLinked
  <2> HIDE DEF r0
  <2> QED BY <2>1, <2>2, FreedSelf
<1>3. \A j \in {1, 2, 3, 4, 5} : j \in 1..5
  OBVIOUS
<1> HIDE DEF r0, good
<1>4. good(r1)
  BY <1>1, <1>2, <1>3
<1> HIDE DEF r1
<1>5. good(r2)
  BY <1>1, <1>3, <1>4
<1> HIDE DEF r2
<1>6. good(r3)
  BY <1>1, <1>3, <1>5
<1> HIDE DEF r3
<1>7. good(r4)
  BY <1>1, <1>3, <1>6
<1> HIDE DEF r4
<1>8. good(r5)
  BY <1>1, <1>3, <1>7
<1> HIDE DEF r5
<1> QED BY <1>0, <1>2, <1>8 DEF good
=============================================================================
