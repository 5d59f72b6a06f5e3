---------------------------- MODULE KernelState ----------------------------
(***************************************************************************)
(* The kernel's memory: the process table of sched.c, the four scheduler    *)
(* queues, and the synchronisation objects of kernel/locking.  The kernel   *)
(* runs with interrupts closed, so a handler is one transformer of this     *)
(* memory; the modules that extend this one define one transformer per C    *)
(* function, under the function's own name.                                 *)
(*                                                                         *)
(* A queue is the sequence of table slots linked on it.  Queue.tla shows at *)
(* pointer level that this is what queue.c maintains, except for one case   *)
(* (the removal of an item that is neither head nor tail), which ends here  *)
(* in fault = "interior".                                                   *)
(***************************************************************************)
EXTENDS Integers, Sequences, FiniteSets

CONSTANTS
    NUM_MAX_TASK,   \* size of pcb[]: sched.h has 16
    MAX_MUTEX_OWN,  \* size of pcb_t.lock_owned: lock.h has 5
    TICK,           \* what a timer interrupt adds to time_elapsed: 100000
    TIMER_UNIT,     \* the divisor of get_timer(): 10000000
    WORD,           \* 2^32: time_elapsed and alarm_time are uint32_t
    Locks, Conds, Sems, Barriers,  \* the objects the processes share
    NULL

\* The proofs of the handlers that walk lock_owned unroll the loop to the
\* five entries the code has; a smaller table is allowed.
ASSUME SizeAssumption ==
    /\ NUM_MAX_TASK \in Nat /\ NUM_MAX_TASK >= 2
    /\ MAX_MUTEX_OWN \in 1..5

ASSUME ClockAssumption ==
    TICK \in Nat /\ TIMER_UNIT \in Nat \ {0} /\ WORD \in Nat \ {0}

ASSUME NullAssumption == NULL \notin Locks

-----------------------------------------------------------------------------
(***************************************************************************)
(* Slot 0 is the boot context, slot 1 the shell, the others user processes. *)
(* Every lookup of a pid that finds nothing leaves its index at             *)
(* NUM_MAX_TASK and goes on with pcb[NUM_MAX_TASK], the memory behind the   *)
(* table: unused RAM, all zero at boot.  It is the slot Phantom.            *)
(***************************************************************************)
Phantom == NUM_MAX_TASK
Slots == 0..NUM_MAX_TASK
Procs == 1..(NUM_MAX_TASK - 1)
UserSlots == 2..(NUM_MAX_TASK - 1)

Status == {"BLOCKED", "RUNNING", "READY", "SLEEPING", "NOT_EXIST"}

\* The queues other than the ready and the sleep queues.
WaitQueues == ({"pcb"} \X Slots) \cup ({"lock"} \X Locks) \cup ({"cond"} \X Conds)
              \cup ({"sem"} \X Sems) \cup ({"barrier"} \X Barriers)

\* Where a process that left the CPU in do_scheduler() goes on: back to user
\* code, after the call in irq_timer, or in the loop of do_mutex_lock_acquire.
Contexts == {<<"user", NULL>>, <<"timer", NULL>>} \cup ({"acquire"} \X Locks)
User == <<"user", NULL>>

\* How the kernel can stop: it spins in a "while(1)" with interrupts closed
\* ("hang"); it dequeues from an empty queue ("null") or removes an item from
\* the middle of one ("interior"), and goes through a null pointer into an
\* exception that it does not handle; or it links a PCB that is on a queue
\* already ("relinked": the queues are no longer sequences).
Faults == {"none", "hang", "null", "interior", "relinked"}

Fields == {"current_running", "status", "priority", "alarm_time", "pid",
           "waiting_pcb", "lock_waiting", "lock_owned", "context", "ready",
           "sleep", "waiting", "locked", "owner", "num_waiting", "sem",
           "num_now", "num_expected", "time_elapsed", "next_pid", "fault"}

\* The types, with the set of slots that may run or be linked on a queue.
KernelMemory(k, S) ==
    /\ DOMAIN k = Fields
    /\ k.current_running \in {0} \cup S
    /\ k.status          \in [Slots -> Status]
    /\ k.priority        \in [Slots -> 0..3]
    /\ k.alarm_time      \in [Slots -> 0..(WORD - 1)]
    /\ k.pid             \in [Slots -> Nat]
    /\ k.waiting_pcb     \in [Slots -> Int]
    /\ k.lock_waiting    \in [Slots -> Locks \cup {NULL}]
    /\ k.lock_owned      \in [Slots -> [1..MAX_MUTEX_OWN -> Locks \cup {NULL}]]
    /\ k.context         \in [Slots -> Contexts]
    /\ k.ready           \in [1..3 -> Seq(S)]
    /\ k.sleep           \in Seq(S)
    /\ k.waiting         \in [WaitQueues -> Seq(S)]
    /\ k.locked          \in [Locks -> BOOLEAN]
    /\ k.owner           \in [Locks -> Int]
    /\ k.num_waiting     \in [Conds -> Int]
    /\ k.sem             \in [Sems -> Int]
    /\ k.num_now         \in [Barriers -> Nat]
    /\ k.num_expected    \in [Barriers -> Int]
    /\ k.time_elapsed    \in 0..(WORD - 1)
    /\ k.next_pid        \in Nat
    /\ k.fault           \in Faults

\* init_pcb on zeroed memory: slots 2.. are NOT_EXIST, the shell is ready with
\* priority 3, and the boot context (pcb[0], whose status nobody sets) runs.
init_pcb ==
    [current_running |-> 0,
     status          |-> [i \in Slots |-> IF i = 1 THEN "READY"
                                          ELSE IF i \in UserSlots THEN "NOT_EXIST"
                                          ELSE "BLOCKED"],
     priority        |-> [i \in Slots |-> IF i = 1 THEN 3 ELSE 0],
     alarm_time      |-> [i \in Slots |-> 0],
     pid             |-> [i \in Slots |-> IF i = 1 THEN 1 ELSE 0],
     waiting_pcb     |-> [i \in Slots |-> IF i = 1 THEN -1 ELSE 0],
     lock_waiting    |-> [i \in Slots |-> NULL],
     lock_owned      |-> [i \in Slots |-> [j \in 1..MAX_MUTEX_OWN |-> NULL]],
     context         |-> [i \in Slots |-> User],
     ready           |-> [n \in 1..3 |-> IF n = 3 THEN <<1>> ELSE <<>>],
     sleep           |-> <<>>,
     waiting         |-> [q \in WaitQueues |-> <<>>],
     locked          |-> [l \in Locks |-> FALSE],
     owner           |-> [l \in Locks |-> 0],
     num_waiting     |-> [c \in Conds |-> 0],
     sem             |-> [s \in Sems |-> 0],
     num_now         |-> [b \in Barriers |-> 0],
     num_expected    |-> [b \in Barriers |-> 0],
     time_elapsed    |-> 0,
     next_pid        |-> 2,
     fault           |-> "none"]

\* A handler that stopped the kernel does nothing more.
Stop(k, how) == [k EXCEPT !.fault = how]

-----------------------------------------------------------------------------
(***************************************************************************)
(* Lookups                                                                  *)
(***************************************************************************)

Members(q) == {q[n] : n \in DOMAIN q}

\* The smallest element of a set of numbers that is not empty.
Least(S) == CHOOSE n \in S : \A m \in S : n <= m

\* The search every handler makes for the slot of a pid: it starts at slot 2,
\* also meets slots of processes that are gone, and runs off the table.
FindPid(k, pid) ==
    LET at == {i \in UserSlots : k.pid[i] = pid}
    IN  IF at = {} THEN Phantom ELSE Least(at)
=============================================================================
