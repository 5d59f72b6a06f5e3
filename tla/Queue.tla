-------------------------------- MODULE Queue --------------------------------
(***************************************************************************)
(* kernel/sched/queue.c at the level of its pointers: doubly linked lists   *)
(* through the prev and next fields of the PCBs.  The variable content is   *)
(* not in the code: it records what the calls should have made of each      *)
(* queue, and the code is shown to implement FIFO with it.                  *)
(***************************************************************************)
EXTENDS Naturals, Sequences

CONSTANTS Queues, Items,  \* the PCBs that are ever linked: all but pcb[0]
          Null

ASSUME NullNotItem == Null \notin Items

VARIABLES head, tail,   \* of each queue
          next, prev,   \* of each PCB
          ret,          \* the result of the last call
          halted,       \* a null pointer was used
          content

vars == <<head, tail, next, prev, ret, halted, content>>

Linked(i) == \E q \in Queues : \E n \in 1..Len(content[q]) : content[q][n] = i

\* queue_init has run on every queue; the PCBs are zeroed memory.
Init == /\ head = [q \in Queues |-> Null]
        /\ tail = [q \in Queues |-> Null]
        /\ next = [i \in Items |-> Null]
        /\ prev = [i \in Items |-> Null]
        /\ ret = Null
        /\ halted = FALSE
        /\ content = [q \in Queues |-> <<>>]

queue_is_empty(q) == head[q] = Null

\* Mutant of queue_push: the prev pointer of the new item is not set.
push_next_only(q, item) ==
    /\ ~halted /\ ~Linked(item)
    /\ IF head[q] = Null
       THEN /\ head' = [head EXCEPT ![q] = item]
            /\ next' = [next EXCEPT ![item] = Null]
       ELSE /\ next' = [next EXCEPT ![tail[q]] = item, ![item] = Null]
            /\ UNCHANGED head
    /\ tail' = [tail EXCEPT ![q] = item]
    /\ content' = [content EXCEPT ![q] = Append(@, item)]
    /\ UNCHANGED <<prev, ret, halted>>

\* The kernel pushes PCBs that are on no queue.
queue_push(q, item) ==
    /\ ~halted /\ ~Linked(item)
    /\ IF head[q] = Null
       THEN /\ head' = [head EXCEPT ![q] = item]
            /\ prev' = [prev EXCEPT ![item] = Null]
            /\ next' = [next EXCEPT ![item] = Null]
       ELSE /\ next' = [next EXCEPT ![tail[q]] = item, ![item] = Null]
            /\ prev' = [prev EXCEPT ![item] = tail[q]]
            /\ UNCHANGED head
    /\ tail' = [tail EXCEPT ![q] = item]
    /\ content' = [content EXCEPT ![q] = Append(@, item)]
    /\ UNCHANGED <<ret, halted>>

\* Mutant of queue_dequeue: it has no branch for the only item, and the store
\* through the new head goes through a null pointer when there is none.
dequeue_one_branch(q) ==
    LET temp == head[q]
    IN  /\ ~halted /\ ~queue_is_empty(q)
        /\ IF next[temp] = Null
           THEN halted' = TRUE /\ UNCHANGED <<head, tail, next, prev, ret, content>>
           ELSE /\ head' = [head EXCEPT ![q] = next[temp]]
                /\ prev' = [prev EXCEPT ![next[temp]] = Null, ![temp] = Null]
                /\ next' = [next EXCEPT ![temp] = Null]
                /\ ret' = temp
                /\ content' = [content EXCEPT ![q] = Tail(@)]
                /\ UNCHANGED <<tail, halted>>

queue_dequeue(q) ==
    LET temp == head[q]
    IN  /\ ~halted /\ ~queue_is_empty(q)
        /\ head' = [head EXCEPT ![q] = next[temp]]
        /\ IF next[temp] = Null
           THEN /\ tail' = [tail EXCEPT ![q] = Null]
                /\ prev' = [prev EXCEPT ![temp] = Null]
           ELSE /\ prev' = [prev EXCEPT ![next[temp]] = Null, ![temp] = Null]
                /\ UNCHANGED tail
        /\ next' = [next EXCEPT ![temp] = Null]
        /\ ret' = temp
        /\ content' = [content EXCEPT ![q] = Tail(@)]
        /\ UNCHANGED halted

\* The four branches of queue_remove.
RemoveOnly(q, item) ==
    /\ item = head[q] /\ item = tail[q]
    /\ head' = [head EXCEPT ![q] = Null]
    /\ tail' = [tail EXCEPT ![q] = Null]
    /\ prev' = [prev EXCEPT ![item] = Null]
    /\ next' = [next EXCEPT ![item] = Null]
    /\ ret' = next[item]
    /\ content' = [content EXCEPT ![q] = Tail(@)]
    /\ UNCHANGED halted

RemoveHead(q, item) ==
    /\ item = head[q] /\ item # tail[q]
    /\ head' = [head EXCEPT ![q] = next[item]]
    /\ prev' = [prev EXCEPT ![next[item]] = Null, ![item] = Null]
    /\ next' = [next EXCEPT ![item] = Null]
    /\ ret' = next[item]
    /\ content' = [content EXCEPT ![q] = Tail(@)]
    /\ UNCHANGED <<tail, halted>>

RemoveTail(q, item) ==
    /\ item # head[q] /\ item = tail[q]
    /\ tail' = [tail EXCEPT ![q] = prev[item]]
    /\ next' = [next EXCEPT ![prev[item]] = Null, ![item] = Null]
    /\ prev' = [prev EXCEPT ![item] = Null]
    /\ ret' = next[item]
    /\ content' = [content EXCEPT ![q] = SubSeq(@, 1, Len(@) - 1)]
    /\ UNCHANGED <<head, halted>>

\* Neither head nor tail: the predecessor skips the item; then the successor's
\* prev should be set, but the code goes through the next field of pcb[0] (the
\* table, "pcb"), which is null because pcb[0] is never linked.
RemoveInner(q, item) ==
    /\ item # head[q] /\ item # tail[q]
    /\ next' = [next EXCEPT ![prev[item]] = next[item]]
    /\ halted' = TRUE
    /\ UNCHANGED <<head, tail, prev, ret, content>>

\* The callers find the item by walking the queue.
queue_remove(q, item) ==
    /\ ~halted
    /\ \E n \in 1..Len(content[q]) : content[q][n] = item
    /\ \/ RemoveOnly(q, item)
       \/ RemoveHead(q, item)
       \/ RemoveTail(q, item)
       \/ RemoveInner(q, item)

Halted == halted /\ UNCHANGED vars

Next == \/ \E q \in Queues : \/ \E i \in Items : queue_push(q, i) \/ queue_remove(q, i)
                             \/ queue_dequeue(q)
        \/ Halted

Spec == Init /\ [][Next]_vars

-----------------------------------------------------------------------------
\* The pointers are null or point to PCBs.
TypeOK == /\ head \in [Queues -> Items \cup {Null}]
          /\ tail \in [Queues -> Items \cup {Null}]
          /\ next \in [Items -> Items \cup {Null}]
          /\ prev \in [Items -> Items \cup {Null}]
          /\ ret \in Items \cup {Null}
          /\ halted \in BOOLEAN
          /\ content \in [Queues -> Seq(Items)]

\* No item is on two queues or twice on one.
OnOneQueue ==
    \A q, r \in Queues : \A n \in 1..Len(content[q]), m \in 1..Len(content[r]) :
        content[q][n] = content[r][m] => q = r /\ n = m

EndsRepresent(q) ==
    /\ content[q] = <<>> => head[q] = Null /\ tail[q] = Null
    /\ content[q] # <<>> => head[q] = content[q][1] /\ tail[q] = content[q][Len(content[q])]

NextRepresents(q) ==
    \A n \in 1..Len(content[q]) :
        next[content[q][n]] = IF n = Len(content[q]) THEN Null ELSE content[q][n + 1]

PrevRepresents(q) ==
    \A n \in 1..Len(content[q]) :
        prev[content[q][n]] = IF n = 1 THEN Null ELSE content[q][n - 1]

\* The pointers of every queue represent its sequence of items, in both
\* directions and with both ends, after any sequence of calls on any number of
\* queues that share the items.
QueuesRepresent ==
    ~halted => \A q \in Queues : EndsRepresent(q) /\ NextRepresents(q) /\ PrevRepresents(q)

\* The pointer operations implement the abstract queues, results included.
Abstract == INSTANCE FIFO WITH returned <- ret, stopped <- halted
ImplementsFIFO == Abstract!Spec

\* queue_remove is documented to "remove this item and return next item": it
\* returns, whichever item of the queue it is given.
RemoveReturns == ~halted
=============================================================================
