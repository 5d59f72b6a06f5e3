-------------------------------- MODULE FIFO --------------------------------
(***************************************************************************)
(* What the rest of the kernel takes kernel/sched/queue.c to provide: each  *)
(* queue is a sequence of PCBs and a PCB is on one queue at most.  An item  *)
(* leaves from the front by queue_dequeue, from either end by queue_remove; *)
(* the removal of any other item stops the machine.                         *)
(***************************************************************************)
EXTENDS Naturals, Sequences

CONSTANTS Queues, Items, Null

VARIABLES content,   \* the items on each queue, in order
          returned,  \* the result of the last call
          stopped

Linked(i) == \E q \in Queues : \E n \in 1..Len(content[q]) : content[q][n] = i

Init == /\ content = [q \in Queues |-> <<>>]
        /\ returned = Null
        /\ stopped = FALSE

Push(q, i) ==
    /\ ~stopped /\ ~Linked(i)
    /\ content' = [content EXCEPT ![q] = Append(@, i)]
    /\ UNCHANGED <<returned, stopped>>

Dequeue(q) ==
    /\ ~stopped /\ content[q] # <<>>
    /\ content' = [content EXCEPT ![q] = Tail(@)]
    /\ returned' = Head(content[q])
    /\ UNCHANGED stopped

RemoveFirst(q) ==
    /\ ~stopped /\ content[q] # <<>>
    /\ content' = [content EXCEPT ![q] = Tail(@)]
    /\ returned' = IF Len(content[q]) = 1 THEN Null ELSE content[q][2]
    /\ UNCHANGED stopped

RemoveLast(q) ==
    /\ ~stopped /\ Len(content[q]) > 1
    /\ content' = [content EXCEPT ![q] = SubSeq(@, 1, Len(@) - 1)]
    /\ returned' = Null
    /\ UNCHANGED stopped

RemoveInner(q) ==
    /\ ~stopped /\ Len(content[q]) > 2
    /\ stopped' = TRUE
    /\ UNCHANGED <<content, returned>>

Next == \E q \in Queues :
            \/ \E i \in Items : Push(q, i)
            \/ Dequeue(q) \/ RemoveFirst(q) \/ RemoveLast(q) \/ RemoveInner(q)

Spec == Init /\ [][Next]_<<content, returned, stopped>>
=============================================================================
