------------------------------ MODULE Mailbox ------------------------------
(***************************************************************************)
(* libs/mailbox.c: named mailboxes, user code on top of one mutex and two   *)
(* conditions per mailbox.  Processes are preempted between any two         *)
(* statements; the kernel is built with -O0, so that num_users++ is a load  *)
(* and a store.  Of the kernel only what the calls promise is left: who     *)
(* holds the lock, and who waits on which condition in which order.         *)
(***************************************************************************)
EXTENDS Naturals, Sequences, FiniteSets

CONSTANTS
    MAX_NUM_BOX,    \* 5 in the code
    MAIL_CAPACITY,  \* 100 in the code
    Users,          \* the processes
    Names,          \* the names they open
    Program,        \* of each process: its calls, [do, name, len] each
    Overlap,        \* may two processes be in mbox_open or mbox_close at a time?
    None

ASSUME MailboxAssumption ==
    /\ MAX_NUM_BOX \in Nat /\ MAIL_CAPACITY \in Nat \ {0}
    /\ Program \in [Users -> Seq([do : {"open", "close", "send", "recv"}, name : Names, len : Nat])]
    /\ Overlap \in BOOLEAN
    /\ IsFiniteSet(Users) /\ IsFiniteSet(Names)
    /\ None \notin Users \cup Names

VARIABLES
    mboxs,  \* the mailboxes
    pc,     \* where in a call each process is; "ready" between two calls
    op,     \* the number of its call
    box,    \* the mailbox it has open under each name, 0 if none
    i, reg, \* the variables of mbox_open, the register of num_users++ and --
    msg,    \* the bytes that its call moved
    inbox   \* the messages it received

vars == <<mboxs, pc, op, box, i, reg, msg, inbox>>

Boxes == 1..MAX_NUM_BOX

\* A mailbox as mbox_init and mbox_close leave it.  The bytes in use are the
\* sequence buffer, whose length is space_used.
Fresh == [name |-> None, buffer |-> <<>>, not_full |-> <<>>, not_empty |-> <<>>,
          lock_on_box |-> None, num_users |-> 0]

mbox_init == [b \in Boxes |-> Fresh]

Init == /\ mboxs = mbox_init
        /\ pc = [p \in Users |-> "ready"]
        /\ op = [p \in Users |-> 1]
        /\ box = [p \in Users |-> [n \in Names |-> 0]]
        /\ i = [p \in Users |-> 0]
        /\ reg = [p \in Users |-> 0]
        /\ msg = [p \in Users |-> <<>>]
        /\ inbox = [p \in Users |-> <<>>]

Call(p) == Program[p][op[p]]
Begins(p, do) == pc[p] = "ready" /\ op[p] <= Len(Program[p]) /\ Call(p).do = do

\* mbox_open and mbox_close of other processes.
Inside == {"spare", "copy", "load", "store", "down", "test", "reset"}
Alone(p) == Overlap \/ \A q \in Users \ {p} : pc[q] \notin Inside

Goto(p, label) == pc' = [pc EXCEPT ![p] = label]
Return(p) == Goto(p, "ready") /\ op' = [op EXCEPT ![p] = @ + 1]

First(S) == CHOOSE b \in S : \A c \in S : b <= c

-----------------------------------------------------------------------------
(***************************************************************************)
(* mbox_open                                                                *)
(***************************************************************************)

\* Mutant of OpenSearch: the loop skips the first mailbox.
OpenSearchFrom2(p) ==
    LET found == {b \in Boxes \ {1} : mboxs[b].name = Call(p).name}
    IN  /\ Begins(p, "open") /\ Alone(p)
        /\ IF found = {} THEN Goto(p, "spare") /\ UNCHANGED i
           ELSE Goto(p, "load") /\ i' = [i EXCEPT ![p] = First(found)]
        /\ UNCHANGED <<mboxs, op, box, reg, msg, inbox>>

OpenSearch(p) ==
    LET found == {b \in Boxes : mboxs[b].name = Call(p).name}
    IN  /\ Begins(p, "open") /\ Alone(p)
        /\ IF found = {} THEN Goto(p, "spare") /\ UNCHANGED i
           ELSE Goto(p, "load") /\ i' = [i EXCEPT ![p] = First(found)]
        /\ UNCHANGED <<mboxs, op, box, reg, msg, inbox>>

\* Without a spare mailbox the process spins.
OpenSpare(p) ==
    LET spare == {b \in Boxes : mboxs[b].num_users = 0}
    IN  /\ pc[p] = "spare"
        /\ IF spare = {} THEN Goto(p, "spin") /\ UNCHANGED i
           ELSE Goto(p, "copy") /\ i' = [i EXCEPT ![p] = First(spare)]
        /\ UNCHANGED <<mboxs, op, box, reg, msg, inbox>>

OpenCopy(p) ==
    /\ pc[p] = "copy" /\ Goto(p, "load")
    /\ mboxs' = [mboxs EXCEPT ![i[p]].name = Call(p).name]
    /\ UNCHANGED <<op, box, i, reg, msg, inbox>>

OpenLoad(p) ==
    /\ pc[p] = "load" /\ Goto(p, "store")
    /\ reg' = [reg EXCEPT ![p] = mboxs[i[p]].num_users]
    /\ UNCHANGED <<mboxs, op, box, i, msg, inbox>>

\* Mutant of OpenStore: num_users is assigned 1.
OpenStoreOne(p) ==
    /\ pc[p] = "store" /\ Return(p)
    /\ mboxs' = [mboxs EXCEPT ![i[p]].num_users = 1]
    /\ box' = [box EXCEPT ![p][Call(p).name] = i[p]]
    /\ UNCHANGED <<i, reg, msg, inbox>>

OpenStore(p) ==
    /\ pc[p] = "store" /\ Return(p)
    /\ mboxs' = [mboxs EXCEPT ![i[p]].num_users = reg[p] + 1]
    /\ box' = [box EXCEPT ![p][Call(p).name] = i[p]]
    /\ UNCHANGED <<i, reg, msg, inbox>>

-----------------------------------------------------------------------------
(***************************************************************************)
(* mbox_close                                                               *)
(***************************************************************************)
mailbox(p) == box[p][Call(p).name]

CloseLoad(p) ==
    /\ Begins(p, "close") /\ mailbox(p) # 0 /\ Alone(p) /\ Goto(p, "down")
    /\ reg' = [reg EXCEPT ![p] = mboxs[mailbox(p)].num_users]
    /\ UNCHANGED <<mboxs, op, box, i, msg, inbox>>

CloseStore(p) ==
    /\ pc[p] = "down" /\ Goto(p, "test")
    /\ mboxs' = [mboxs EXCEPT ![mailbox(p)].num_users = reg[p] - 1]
    /\ UNCHANGED <<op, box, i, reg, msg, inbox>>

\* num_users is read again for the test.
CloseTest(p) ==
    /\ pc[p] = "test"
    /\ IF mboxs[mailbox(p)].num_users = 0 THEN Goto(p, "reset") /\ UNCHANGED <<op, box>>
       ELSE Return(p) /\ box' = [box EXCEPT ![p][Call(p).name] = 0]
    /\ UNCHANGED <<mboxs, i, reg, msg, inbox>>

\* Mutant of CloseReset: space_used is not reset.
CloseResetKeepsBytes(p) ==
    /\ pc[p] = "reset" /\ Return(p)
    /\ mboxs' = [mboxs EXCEPT ![mailbox(p)] =
                    [Fresh EXCEPT !.num_users = mboxs[mailbox(p)].num_users,
                                  !.buffer = mboxs[mailbox(p)].buffer]]
    /\ box' = [box EXCEPT ![p][Call(p).name] = 0]
    /\ UNCHANGED <<i, reg, msg, inbox>>

\* Everything but num_users is as after mbox_init; who waits or holds the lock
\* is forgotten.
CloseReset(p) ==
    /\ pc[p] = "reset" /\ Return(p)
    /\ mboxs' = [mboxs EXCEPT ![mailbox(p)] =
                    [Fresh EXCEPT !.num_users = mboxs[mailbox(p)].num_users]]
    /\ box' = [box EXCEPT ![p][Call(p).name] = 0]
    /\ UNCHANGED <<i, reg, msg, inbox>>

-----------------------------------------------------------------------------
(***************************************************************************)
(* mbox_send and mbox_recv, a byte at a time                                *)
(***************************************************************************)
space_used(p) == Len(mboxs[mailbox(p)].buffer)
Transfers(p, do) == pc[p] = "locked" /\ Call(p).do = do
Unfinished(p) == Len(msg[p]) < Call(p).len

\* Mutant of Acquire: the lock is taken without being waited for.
AcquireAnyway(p) ==
    /\ \/ (Begins(p, "send") \/ Begins(p, "recv")) /\ mailbox(p) # 0
       \/ pc[p] = "relock"
    /\ mboxs' = [mboxs EXCEPT ![mailbox(p)].lock_on_box = p]
    /\ Goto(p, "locked")
    /\ UNCHANGED <<op, box, i, reg, msg, inbox>>

\* mutex_lock_acquire, at the start of a call and at the end of condition_wait.
Acquire(p) ==
    /\ \/ (Begins(p, "send") \/ Begins(p, "recv")) /\ mailbox(p) # 0
       \/ pc[p] = "relock"
    /\ mboxs[mailbox(p)].lock_on_box = None
    /\ mboxs' = [mboxs EXCEPT ![mailbox(p)].lock_on_box = p]
    /\ Goto(p, "locked")
    /\ UNCHANGED <<op, box, i, reg, msg, inbox>>

\* condition_signal: the first process that waits goes on to take the lock.
Signal(q) == pc' = IF q = <<>> THEN pc ELSE [pc EXCEPT ![Head(q)] = "relock"]
Rest(q) == IF q = <<>> THEN q ELSE Tail(q)

\* condition_wait: the process is queued, the lock is free.
Wait(p, cond) ==
    /\ Goto(p, "waiting")
    /\ mboxs' = [mboxs EXCEPT ![mailbox(p)][cond] = Append(@, p),
                              ![mailbox(p)].lock_on_box = None]
    /\ UNCHANGED <<op, box, i, reg, msg, inbox>>

\* not_empty is signalled for the first byte only.
SendByte(p) ==
    LET byte == <<p, op[p], Len(msg[p]) + 1>>
        m    == [mboxs[mailbox(p)] EXCEPT !.buffer = Append(@, byte)]
        wake == Len(m.buffer) = 1
    IN  /\ Transfers(p, "send") /\ Unfinished(p) /\ space_used(p) < MAIL_CAPACITY
        /\ msg' = [msg EXCEPT ![p] = Append(@, byte)]
        /\ mboxs' = [mboxs EXCEPT ![mailbox(p)] =
                        IF wake THEN [m EXCEPT !.not_empty = Rest(@)] ELSE m]
        /\ IF wake THEN Signal(m.not_empty) ELSE UNCHANGED pc
        /\ UNCHANGED <<op, box, i, reg, inbox>>

\* Mutant of SendWait: the process spins with the lock until there is room.
SendWaitSpins(p) ==
    /\ Transfers(p, "send") /\ Unfinished(p) /\ space_used(p) = MAIL_CAPACITY
    /\ UNCHANGED vars

SendWait(p) ==
    /\ Transfers(p, "send") /\ Unfinished(p) /\ space_used(p) = MAIL_CAPACITY
    /\ Wait(p, "not_full")

\* The last byte was sent: the lock is released, whoever holds it.
SendEnd(p) ==
    /\ Transfers(p, "send") /\ ~Unfinished(p) /\ Return(p)
    /\ mboxs' = [mboxs EXCEPT ![mailbox(p)].lock_on_box = None]
    /\ msg' = [msg EXCEPT ![p] = <<>>]
    /\ UNCHANGED <<box, i, reg, inbox>>

\* Bytes are taken from the end of the buffer, and not_full is signalled when
\* it was full.
RecvByte(p) ==
    LET old  == mboxs[mailbox(p)].buffer
        m    == [mboxs[mailbox(p)] EXCEPT !.buffer = SubSeq(old, 1, Len(old) - 1)]
        wake == Len(m.buffer) = MAIL_CAPACITY - 1
    IN  /\ Transfers(p, "recv") /\ Unfinished(p) /\ space_used(p) > 0
        /\ msg' = [msg EXCEPT ![p] = Append(@, old[Len(old)])]
        /\ mboxs' = [mboxs EXCEPT ![mailbox(p)] =
                        IF wake THEN [m EXCEPT !.not_full = Rest(@)] ELSE m]
        /\ IF wake THEN Signal(m.not_full) ELSE UNCHANGED pc
        /\ UNCHANGED <<op, box, i, reg, inbox>>

RecvWait(p) ==
    /\ Transfers(p, "recv") /\ Unfinished(p) /\ space_used(p) = 0
    /\ Wait(p, "not_empty")

strrev(s) == [n \in 1..Len(s) |-> s[Len(s) + 1 - n]]

RecvEnd(p) ==
    /\ Transfers(p, "recv") /\ ~Unfinished(p) /\ Return(p)
    /\ mboxs' = [mboxs EXCEPT ![mailbox(p)].lock_on_box = None]
    /\ inbox' = [inbox EXCEPT ![p] = Append(@, strrev(msg[p]))]
    /\ msg' = [msg EXCEPT ![p] = <<>>]
    /\ UNCHANGED <<box, i, reg>>

-----------------------------------------------------------------------------
Ended(p) == pc[p] = "ready" /\ op[p] > Len(Program[p])

\* All programs ended, or one spins in mbox_open.
Idle == /\ (\A p \in Users : Ended(p)) \/ (\E p \in Users : pc[p] = "spin")
        /\ UNCHANGED vars

Step(p) ==
    \/ OpenSearch(p) \/ OpenSpare(p) \/ OpenCopy(p) \/ OpenLoad(p) \/ OpenStore(p)
    \/ CloseLoad(p) \/ CloseStore(p) \/ CloseTest(p) \/ CloseReset(p)
    \/ Acquire(p)
    \/ SendByte(p) \/ SendWait(p) \/ SendEnd(p)
    \/ RecvByte(p) \/ RecvWait(p) \/ RecvEnd(p)

Next == (\E p \in Users : Step(p)) \/ Idle

Spec == Init /\ [][Next]_vars

\* The scheduler runs every process that is ready.
FairSpec == Spec /\ \A p \in Users : WF_vars(Step(p))

-----------------------------------------------------------------------------
\* A message that is received was sent, byte for byte, and is received once:
\* processes that send and receive at the same time do not mix their bytes in
\* the one buffer, although it is used as a stack.
MessagesWhole ==
    /\ \A p \in Users : \A n \in 1..Len(inbox[p]) :
          \E q \in Users : \E o \in 1..Len(Program[q]) :
              /\ Program[q][o].do = "send"
              /\ inbox[p][n] = [j \in 1..Program[q][o].len |-> <<q, o, j>>]
    /\ \A p, q \in Users : \A n \in 1..Len(inbox[p]), m \in 1..Len(inbox[q]) :
          inbox[p][n] = inbox[q][m] => p = q /\ n = m

Quiet == \A p \in Users : pc[p] \notin Inside

\* num_users counts the processes that have the mailbox open ("users=0 <=>
\* mailbox not_used"), and is "also locked by the lock" (mailbox.h): no update
\* is lost.
UsersCounted ==
    Quiet => \A b \in Boxes :
        mboxs[b].num_users = Cardinality({x \in Users \X Names : box[x[1]][x[2]] = b})

\* Processes meet in the mailbox they name: one mailbox for a name, one name
\* for a mailbox, while mailboxes are closed and reused for other names.
SameNameSameBox ==
    \A p, q \in Users, n, m \in Names :
        box[p][n] # 0 /\ box[q][m] # 0 => (box[p][n] = box[q][m] <=> n = m)

\* A mailbox nobody has open is as new: mbox_open relies on mbox_close to have
\* emptied it, and nobody is left on the queues that were dropped.
RestoredWhenClosed ==
    Quiet => \A b \in Boxes : mboxs[b].num_users = 0 => mboxs[b] = Fresh

\* Every program comes to its end: the sender is not left waiting for room, nor
\* the receiver for bytes.
AllComplete == \A p \in Users : <>Ended(p)
=============================================================================
