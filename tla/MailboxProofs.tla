---------------------------- MODULE MailboxProofs ----------------------------
(***************************************************************************)
(* Proofs about libs/mailbox.c, for any number of processes, names and       *)
(* mailboxes, any capacity and any programs that are Orderly.                *)
(*                                                                           *)
(* Control says where every process is in its program and on which queues;   *)
(* Counts what num_users and the names are worth, also while a process is    *)
(* within mbox_open or mbox_close; Messages that the buffers hold complete   *)
(* messages, but for the one that the holder of the lock moves, and that     *)
(* every byte is in one place.                                               *)
(***************************************************************************)
EXTENDS Mailbox, Integers, FiniteSetTheorems, WellFoundedInduction, TLAPS

\* The members of a sequence, and that none is there twice.
ImageOf(s) == {s[n] : n \in DOMAIN s}
NoDup(s) == \A m, n \in DOMAIN s : s[m] = s[n] => m = n

-----------------------------------------------------------------------------
(***************************************************************************)
(* What the programs have to respect.                                       *)
(***************************************************************************)

\* Call o of process p.
IsCall(p, o, do, n) == o \in 1..Len(Program[p]) /\ Program[p][o].do = do /\ Program[p][o].name = n

\* A process does not open a mailbox that it has open.
OpensOnce ==
    \A p \in Users, n \in Names, a, b \in Nat :
        a < b /\ IsCall(p, a, "open", n) /\ IsCall(p, b, "open", n) =>
            \E c \in (a + 1)..(b - 1) : IsCall(p, c, "close", n)

\* Calls of mbox_open and mbox_close do not overlap (num_users is not under
\* the lock: the overlap loses updates), and no process opens a name twice.
Orderly == ~Overlap /\ OpensOnce

-----------------------------------------------------------------------------
(***************************************************************************)
(* Where the processes are.                                                 *)
(***************************************************************************)
\* A byte is known by its sender, the call that sent it and its position.
Bytes == Users \X Nat \X Nat
Mailboxes == [name : Names \cup {None}, buffer : Seq(Bytes), not_full : Seq(Users),
              not_empty : Seq(Users), lock_on_box : Users \cup {None}, num_users : Int]

\* The labels of mbox_open, of mbox_close, and of mbox_send and mbox_recv.
Opening == {"spare", "copy", "load", "store", "spin"}
Closing == {"down", "test", "reset"}
Moving == {"locked", "waiting", "relock"}
Labels == {"ready"} \cup Opening \cup Closing \cup Moving

\* Types. num_users and the registers are integers: that they are never
\* negative follows from Counts.
Types ==
    /\ mboxs \in [Boxes -> Mailboxes]
    /\ pc \in [Users -> Labels]
    /\ op \in [Users -> Nat \ {0}]
    /\ box \in [Users -> [Names -> Boxes \cup {0}]]
    /\ i \in [Users -> Boxes \cup {0}]
    /\ reg \in [Users -> Int]
    /\ msg \in [Users -> Seq(Bytes)]
    /\ inbox \in [Users -> Seq(Seq(Bytes))]

\* The call a process is in, and whether it has the mailbox open.
InCall(p) ==
    /\ pc[p] # "ready" => op[p] <= Len(Program[p])
    /\ pc[p] \in Opening => Call(p).do = "open" /\ mailbox(p) = 0
    /\ pc[p] \in Closing => Call(p).do = "close" /\ mailbox(p) # 0
    /\ pc[p] \in Moving => Call(p).do \in {"send", "recv"} /\ mailbox(p) # 0
    /\ pc[p] \notin Moving => msg[p] = <<>>
InCalls == \A p \in Users : InCall(p)

\* At most one process is in mbox_open or mbox_close.
OneInside == \A p, q \in Users : pc[p] \in Inside /\ pc[q] \in Inside => p = q

\* Before call o the last open or close of n is an open.
SinceOpen(p, n, o) ==
    \E a \in 1..(o - 1) : /\ IsCall(p, a, "open", n)
                          /\ \A c \in (a + 1)..(o - 1) : ~IsCall(p, c, "close", n)

\* A mailbox that is open was opened by a call that no close followed.
Opened == \A p \in Users, n \in Names : box[p][n] # 0 => SinceOpen(p, n, op[p])

\* The queue s of mailbox b holds processes that wait there, each once.
QueueOf(s, b, do) ==
    /\ NoDup(s)
    /\ \A q \in ImageOf(s) : pc[q] = "waiting" /\ mailbox(q) = b /\ Call(q).do = do
Queued == \A b \in Boxes : /\ QueueOf(mboxs[b].not_full, b, "send")
                          /\ QueueOf(mboxs[b].not_empty, b, "recv")

\* Where every process is in its program.
Control == Types /\ InCalls /\ OneInside /\ Opened /\ Queued

\* A call that is no close of n leaves n open,
LEMMA SinceNext ==
  ASSUME NEW p, NEW n, NEW o \in Nat \ {0}, SinceOpen(p, n, o), ~IsCall(p, o, "close", n)
  PROVE  SinceOpen(p, n, o + 1)
<1>1. PICK a \in 1..(o - 1) : /\ IsCall(p, a, "open", n)
                              /\ \A c \in (a + 1)..(o - 1) : ~IsCall(p, c, "close", n)
  BY DEF SinceOpen
<1>2. a \in 1..((o + 1) - 1) /\ \A c \in (a + 1)..((o + 1) - 1) : c \in (a + 1)..(o - 1) \/ c = o
  OBVIOUS
<1> QED BY <1>1, <1>2 DEF SinceOpen

\* an open of n opens it,
LEMMA SinceNew ==
  ASSUME NEW p, NEW n, NEW o \in Nat \ {0}, IsCall(p, o, "open", n)
  PROVE  SinceOpen(p, n, o + 1)
BY DEF SinceOpen

\* and an open of n finds it not open, in orderly programs.
LEMMA SinceNot ==
  ASSUME OpensOnce, NEW p \in Users, NEW n \in Names, NEW o \in Nat \ {0}, IsCall(p, o, "open", n)
  PROVE  ~SinceOpen(p, n, o)
BY DEF SinceOpen, OpensOnce

\* An element of a sequence.
LEMMA ElementIn ==
  ASSUME NEW S, NEW s \in Seq(S), NEW n \in 1..Len(s)
  PROVE  s[n] \in S
OBVIOUS

\* The types of the fields of a call.
LEMMA CallType ==
  ASSUME NEW p \in Users, Types, op[p] <= Len(Program[p])
  PROVE  /\ Call(p).name \in Names /\ Call(p).len \in Nat /\ Call(p).do \in {"open", "close", "send", "recv"}
         /\ op[p] \in Nat \ {0} /\ Len(Program[p]) \in Nat
         /\ IsCall(p, op[p], Call(p).do, Call(p).name)
         /\ mailbox(p) \in Boxes \cup {0}
<1> DEFINE R == [do : {"open", "close", "send", "recv"}, name : Names, len : Nat]
<1>1. Program[p] \in Seq(R)
  BY MailboxAssumption
<1>2. op[p] \in Nat \ {0}
  BY DEF Types
<1>0. Len(Program[p]) \in Nat
  <2> HIDE DEF R
  <2> QED BY <1>1
<1>3. op[p] \in 1..Len(Program[p])
  BY <1>0, <1>2
<1>4. Call(p) \in R
  <2> HIDE DEF R
  <2> QED BY <1>1, <1>3, ElementIn DEF Call
<1>5. Call(p).name \in Names /\ Call(p).len \in Nat /\ Call(p).do \in {"open", "close", "send", "recv"}
  BY <1>4
<1>6. IsCall(p, op[p], Call(p).do, Call(p).name)
  BY <1>3 DEF IsCall, Call
<1>7. mailbox(p) \in Boxes \cup {0}
  <2> HIDE DEF R
  <2> QED BY <1>5 DEF mailbox, Types
<1> QED BY <1>0, <1>2, <1>5, <1>6, <1>7

\* The smallest mailbox.
LEMMA FirstIn ==
  ASSUME NEW S \in SUBSET Boxes, S # {}
  PROVE  First(S) \in S
<1> DEFINE T == {1..n : n \in S}
           R == StrictSubsetOrdering(Nat)
<1>0. S \subseteq Nat /\ \A n \in S : n >= 1
  BY MailboxAssumption DEF Boxes
<1>1. \A n \in S : IsFiniteSet(1..n)
  BY <1>0, FS_Interval
<1>2. T \subseteq FiniteSubsetsOf(Nat)
  BY <1>0, <1>1 DEF FiniteSubsetsOf
<1>3. T # {}
  OBVIOUS
<1>4. IsWellFoundedOn(R, FiniteSubsetsOf(Nat))
  BY FS_StrictSubsetOrderingWellFounded
<1> HIDE DEF R
<1>5. PICK x \in T : \A y \in T : ~(<<y, x>> \in R)
  <2> HIDE DEF T
  <2> QED BY <1>2, <1>3, <1>4, WFMin
<1>6. PICK n \in S : x = 1..n
  OBVIOUS
<1>7. ASSUME NEW m \in S PROVE n <= m
  <2>1. ~(<<1..m, 1..n>> \in R)
    BY <1>5, <1>6
  <2>2. SUFFICES ASSUME m < n PROVE FALSE
    BY <1>0
  <2>3. 1..m \subseteq 1..n
    BY <2>2, <1>0
  <2>4. n \in 1..n /\ n \notin 1..m
    BY <2>2, <1>0
  <2>5. 1..m \in SUBSET Nat /\ 1..n \in SUBSET Nat
    BY <1>0
  <2> QED BY <2>1, <2>3, <2>4, <2>5 DEF R, StrictSubsetOrdering
<1>8. \E b \in S : \A c \in S : b <= c
  BY <1>7
<1> QED BY <1>8 DEF First
-----------------------------------------------------------------------------
(***************************************************************************)
(* A step of p: what it leaves to the others.                               *)
(***************************************************************************)
\* Process q is where it was.
Still(q) == op'[q] = op[q] /\ box'[q] = box[q] /\ msg'[q] = msg[q]
\* The others stay where they are, but for those that are signalled.
Others(p) == \A q \in Users \ {p} :
    Still(q) /\ (pc'[q] = pc[q] \/ (pc[q] = "waiting" /\ pc'[q] = "relock"))

\* A process that ended no call is in the same call,
LEMMA StillCall ==
  ASSUME NEW q, op'[q] = op[q]
  PROVE  Call(q)' = Call(q)
BY DEF Call

\* on the same mailbox.
LEMMA StillMailbox ==
  ASSUME NEW q, op'[q] = op[q], box'[q] = box[q]
  PROVE  mailbox(q)' = mailbox(q)
BY DEF mailbox, Call

\* A step of p keeps InCalls if it does for p,
LEMMA InCallsKept ==
  ASSUME NEW p \in Users, Others(p), InCalls, InCall(p)'
  PROVE  InCalls'
<1> SUFFICES ASSUME NEW q \in Users, q # p PROVE InCall(q)'
  BY DEF InCalls
<1>1. InCall(q) /\ Still(q) /\ (pc'[q] = pc[q] \/ (pc[q] = "waiting" /\ pc'[q] = "relock"))
  BY DEF InCalls, Others
<1>2. Call(q)' = Call(q) /\ mailbox(q)' = mailbox(q)
  BY <1>1, StillCall, StillMailbox DEF Still
<1>3. CASE pc'[q] = pc[q]
  BY <1>1, <1>2, <1>3 DEF InCall, Still
<1>4. CASE pc[q] = "waiting" /\ pc'[q] = "relock"
  BY <1>1, <1>2, <1>4 DEF InCall, Still, Moving, Opening, Closing
<1> QED BY <1>1, <1>3, <1>4

\* OneInside, if p entered mbox_open or mbox_close only when nobody was there,
LEMMA OneInsideKept ==
  ASSUME NEW p \in Users, Others(p), OneInside,
         pc'[p] \in Inside => pc[p] \in Inside \/ \A q \in Users \ {p} : pc[q] \notin Inside
  PROVE  OneInside'
<1>1. \A q \in Users \ {p} : pc'[q] \in Inside => pc[q] \in Inside
  BY DEF Others, Inside
<1> QED BY <1>1 DEF OneInside

\* Opened, if it does for p.
LEMMA OpenedKept ==
  ASSUME NEW p \in Users, Others(p), Opened,
         \A n \in Names : box'[p][n] # 0 => SinceOpen(p, n, op'[p])
  PROVE  Opened'
<1> SUFFICES ASSUME NEW q \in Users, NEW n \in Names, box'[q][n] # 0 PROVE SinceOpen(q, n, op'[q])
  BY DEF Opened, SinceOpen, IsCall
<1>1. CASE q = p
  BY <1>1
<1>2. CASE q # p
  <2>1. box'[q] = box[q] /\ op'[q] = op[q]
    BY <1>2 DEF Others, Still
  <2> QED BY <2>1 DEF Opened
<1> QED BY <1>1, <1>2

\* A step that neither queues nor wakes a process.
NoWait(p) == \A q \in Users : (pc'[q] = "waiting" <=> pc[q] = "waiting") /\ (q = p => pc[q] # "waiting")
QueuesOf(b) == /\ mboxs'[b].not_full \in {mboxs[b].not_full, <<>>}
               /\ mboxs'[b].not_empty \in {mboxs[b].not_empty, <<>>}

\* An empty queue is a right queue.
LEMMA EmptyQueue ==
  ASSUME NEW b, NEW do
  PROVE  QueueOf(<<>>, b, do)'
BY DEF QueueOf, NoDup, ImageOf

\* Members of a queue are processes.
LEMMA MembersAre ==
  ASSUME NEW S, NEW s \in Seq(S)
  PROVE  ImageOf(s) \subseteq S
BY DEF ImageOf

\* A queue whose members still wait.
LEMMA QueueKept ==
  ASSUME NEW p \in Users, Others(p), NEW b, NEW do, NEW s \in Seq(Users), QueueOf(s, b, do),
         \A q \in ImageOf(s) : q # p /\ pc'[q] = "waiting"
  PROVE  QueueOf(s, b, do)'
<1> SUFFICES ASSUME NEW q \in ImageOf(s) PROVE pc'[q] = "waiting" /\ mailbox(q)' = b /\ Call(q)'.do = do
  BY DEF QueueOf
<1>1. q \in Users /\ q # p
  BY MembersAre
<1>2. Still(q)
  BY <1>1 DEF Others
<1> QED BY <1>2, StillCall, StillMailbox DEF Still, QueueOf

\* All queues, when nobody starts or stops to wait.
LEMMA QueuedKept ==
  ASSUME NEW p \in Users, Types, Others(p), Queued, NoWait(p), \A b \in Boxes : QueuesOf(b)
  PROVE  Queued'
<1> SUFFICES ASSUME NEW b \in Boxes, NEW s, NEW t, s = mboxs'[b].not_full, t = mboxs'[b].not_empty
             PROVE  QueueOf(s, b, "send")' /\ QueueOf(t, b, "recv")'
  BY DEF Queued
<1>1. mboxs[b].not_full \in Seq(Users) /\ mboxs[b].not_empty \in Seq(Users)
  BY DEF Types, Mailboxes
<1>2. QueueOf(mboxs[b].not_full, b, "send") /\ QueueOf(mboxs[b].not_empty, b, "recv")
  BY DEF Queued
<1>3. ASSUME NEW u \in Seq(Users), NEW do, QueueOf(u, b, do) PROVE QueueOf(u, b, do)'
  <2>1. \A q \in ImageOf(u) : q \in Users /\ pc[q] = "waiting"
    BY <1>3, MembersAre DEF QueueOf
  <2>2. \A q \in ImageOf(u) : q # p /\ pc'[q] = "waiting"
    BY <2>1 DEF NoWait
  <2> QED BY <1>3, <2>2, QueueKept
<1>4. s = mboxs[b].not_full \/ s = <<>>
  BY DEF QueuesOf
<1>5. t = mboxs[b].not_empty \/ t = <<>>
  BY DEF QueuesOf
<1>6. QueueOf(s, b, "send")'
  <2>1. CASE s = <<>>
    BY <2>1, EmptyQueue
  <2>2. CASE s = mboxs[b].not_full
    <3>1. s \in Seq(Users) /\ QueueOf(s, b, "send")
      BY <2>2, <1>1, <1>2
    <3> QED BY <3>1, <1>3
  <2> QED BY <2>1, <2>2, <1>4
<1>7. QueueOf(t, b, "recv")'
  <2>1. CASE t = <<>>
    BY <2>1, EmptyQueue
  <2>2. CASE t = mboxs[b].not_empty
    <3>1. t \in Seq(Users) /\ QueueOf(t, b, "recv")
      BY <2>2, <1>1, <1>2
    <3> QED BY <3>1, <1>3
  <2> QED BY <2>1, <2>2, <1>5
<1> QED BY <1>6, <1>7

\* Assignments to a field.
LEMMA SetName ==
  ASSUME NEW M \in [Boxes -> Mailboxes], NEW b \in Boxes \cup {0}, NEW v \in Names \cup {None}
  PROVE  /\ [M EXCEPT ![b].name = v] \in [Boxes -> Mailboxes]
         /\ \A c \in Boxes : [M EXCEPT ![b].name = v][c] = IF c = b THEN [M[c] EXCEPT !.name = v] ELSE M[c]
BY DEF Mailboxes

\* num_users++ and --,
LEMMA SetUsers ==
  ASSUME NEW M \in [Boxes -> Mailboxes], NEW b \in Boxes \cup {0}, NEW v \in Int
  PROVE  /\ [M EXCEPT ![b].num_users = v] \in [Boxes -> Mailboxes]
         /\ \A c \in Boxes : [M EXCEPT ![b].num_users = v][c] = IF c = b THEN [M[c] EXCEPT !.num_users = v] ELSE M[c]
BY DEF Mailboxes

\* acquire and release of its lock,
LEMMA SetLock ==
  ASSUME NEW M \in [Boxes -> Mailboxes], NEW b \in Boxes \cup {0}, NEW v \in Users \cup {None}
  PROVE  /\ [M EXCEPT ![b].lock_on_box = v] \in [Boxes -> Mailboxes]
         /\ \A c \in Boxes : [M EXCEPT ![b].lock_on_box = v][c] = IF c = b THEN [M[c] EXCEPT !.lock_on_box = v] ELSE M[c]
BY DEF Mailboxes

\* and to all of them.
LEMMA SetBox ==
  ASSUME NEW M \in [Boxes -> Mailboxes], NEW b \in Boxes \cup {0}, NEW r \in Mailboxes
  PROVE  /\ [M EXCEPT ![b] = r] \in [Boxes -> Mailboxes]
         /\ \A c \in Boxes : [M EXCEPT ![b] = r][c] = IF c = b THEN r ELSE M[c]
OBVIOUS

\* The process goes on to a label.
LEMMA SetPc ==
  ASSUME NEW p \in Users, Types, NEW label \in Labels, Goto(p, label)
  PROVE  /\ pc' \in [Users -> Labels] /\ pc'[p] = label
         /\ \A q \in Users \ {p} : pc'[q] = pc[q]
BY DEF Goto, Types

\* The process has ended a call.
LEMMA SetOp ==
  ASSUME NEW p \in Users, Types, op' = [op EXCEPT ![p] = @ + 1]
  PROVE  /\ op' \in [Users -> Nat \ {0}] /\ op'[p] = op[p] + 1
         /\ \A q \in Users \ {p} : op'[q] = op[q]
BY DEF Types

\* The variable of the process that holds the mailbox.
LEMMA SetOpen ==
  ASSUME NEW p \in Users, Types, NEW n \in Names, NEW b \in Boxes \cup {0}, box' = [box EXCEPT ![p][n] = b]
  PROVE  /\ box' \in [Users -> [Names -> Boxes \cup {0}]]
         /\ box'[p][n] = b /\ \A m \in Names \ {n} : box'[p][m] = box[p][m]
         /\ \A q \in Users \ {p} : box'[q] = box[q]
BY DEF Types

\* A process at the start of a call.
LEMMA BeginsInCall ==
  ASSUME NEW p \in Users, Types, NEW do \in {"open", "close", "send", "recv"}, Begins(p, do)
  PROVE  /\ op[p] <= Len(Program[p]) /\ Call(p).do = do /\ pc[p] = "ready"
         /\ Call(p).name \in Names /\ IsCall(p, op[p], do, Call(p).name) /\ mailbox(p) \in Boxes \cup {0}
BY CallType DEF Begins

\* A process about to open a name does not have it open.
LEMMA NotOpen ==
  ASSUME NEW p \in Users, Types, Opened, OpensOnce, op[p] <= Len(Program[p]), Call(p).do = "open"
  PROVE  mailbox(p) = 0
<1>1. Call(p).name \in Names /\ IsCall(p, op[p], "open", Call(p).name) /\ op[p] \in Nat \ {0}
  BY CallType
<1>2. ~SinceOpen(p, Call(p).name, op[p])
  BY <1>1, SinceNot
<1> QED BY <1>1, <1>2 DEF Opened, mailbox

\* A step within mbox_open or mbox_close that does not end the call.
LEMMA StepIn ==
  ASSUME NEW p \in Users, Control, NEW label \in Labels, Goto(p, label), label # "waiting", pc[p] # "waiting",
         label # "ready", label # "locked",
         op[p] <= Len(Program[p]), msg[p] = <<>>,
         label \in Opening => Call(p).do = "open" /\ mailbox(p) = 0,
         label \in Closing => Call(p).do = "close" /\ mailbox(p) # 0,
         label \notin Moving,
         label \in Inside => pc[p] \in Inside \/ \A q \in Users \ {p} : pc[q] \notin Inside,
         UNCHANGED <<op, box, msg, inbox>>,
         mboxs' \in [Boxes -> Mailboxes], i' \in [Users -> Boxes \cup {0}], reg' \in [Users -> Int],
         \A b \in Boxes : QueuesOf(b)
  PROVE  Control'
<1>0. Types /\ InCalls /\ OneInside /\ Opened /\ Queued
  BY DEF Control
<1>1. pc' \in [Users -> Labels] /\ pc'[p] = label /\ \A q \in Users \ {p} : pc'[q] = pc[q]
  BY <1>0, SetPc
<1>2. Types'
  BY <1>0, <1>1 DEF Types
<1>3. Others(p)
  BY <1>1 DEF Others, Still
<1>4. InCall(p)'
  <2>1. Call(p)' = Call(p) /\ mailbox(p)' = mailbox(p)
    BY StillCall, StillMailbox
  <2> QED BY <2>1, <1>1 DEF InCall
<1>5. InCalls'
  BY <1>0, <1>3, <1>4, InCallsKept
<1>6. OneInside'
  BY <1>0, <1>1, <1>3, OneInsideKept
<1>7. Opened'
  BY <1>0, <1>3, OpenedKept DEF Opened
<1>8. NoWait(p)
  BY <1>1 DEF NoWait
<1>9. Queued'
  BY <1>0, <1>3, <1>8, QueuedKept
<1> QED BY <1>2, <1>5, <1>6, <1>7, <1>9 DEF Control

\* A step that ends a call.
LEMMA StepEnds ==
  ASSUME NEW p \in Users, Control, Return(p), pc[p] # "waiting",
         msg'[p] = <<>>, msg' \in [Users -> Seq(Bytes)], \A q \in Users \ {p} : msg'[q] = msg[q],
         inbox' \in [Users -> Seq(Seq(Bytes))], UNCHANGED <<i, reg>>,
         box' \in [Users -> [Names -> Boxes \cup {0}]], \A q \in Users \ {p} : box'[q] = box[q],
         \A n \in Names : box'[p][n] # 0 => SinceOpen(p, n, op[p] + 1),
         mboxs' \in [Boxes -> Mailboxes],
         \A b \in Boxes : QueuesOf(b)
  PROVE  Control'
<1>0. Types /\ InCalls /\ OneInside /\ Opened /\ Queued
  BY DEF Control
<1>1. pc' \in [Users -> Labels] /\ pc'[p] = "ready" /\ \A q \in Users \ {p} : pc'[q] = pc[q]
  BY <1>0, SetPc DEF Return, Labels
<1>a. op' \in [Users -> Nat \ {0}] /\ op'[p] = op[p] + 1 /\ \A q \in Users \ {p} : op'[q] = op[q]
  BY <1>0, SetOp DEF Return
<1>2. Types'
  BY <1>0, <1>1, <1>a DEF Types
<1>3. Others(p)
  BY <1>1, <1>a DEF Others, Still
<1>4. InCall(p)'
  BY <1>1 DEF InCall, Opening, Closing, Moving
<1>5. InCalls'
  BY <1>0, <1>3, <1>4, InCallsKept
<1>6. OneInside'
  BY <1>0, <1>1, <1>3, OneInsideKept DEF Inside
<1>7. Opened'
  BY <1>0, <1>3, <1>a, OpenedKept
<1>8. NoWait(p)
  BY <1>1 DEF NoWait
<1>9. Queued'
  BY <1>0, <1>3, <1>8, QueuedKept
<1> QED BY <1>2, <1>5, <1>6, <1>7, <1>9 DEF Control

\* mbox_open, first loop: the mailbox of that name, or none has it.
LEMMA SearchControl ==
  ASSUME Orderly, NEW p \in Users, Control, OpenSearch(p)
  PROVE  /\ Control' /\ UNCHANGED <<mboxs, op, box, reg, msg, inbox>> /\ Begins(p, "open")
         /\ \A q \in Users : pc[q] \notin Inside
         /\ \A q \in Users \ {p} : pc'[q] = pc[q] /\ i'[q] = i[q]
         /\ \/ pc'[p] = "spare" /\ \A b \in Boxes : mboxs[b].name # Call(p).name
            \/ pc'[p] = "load" /\ i'[p] \in Boxes /\ mboxs[i'[p]].name = Call(p).name
<1> DEFINE found == {b \in Boxes : mboxs[b].name = Call(p).name}
<1>0. Types /\ InCalls /\ OneInside /\ Opened /\ Queued
  BY DEF Control
<1>1. /\ Begins(p, "open") /\ Alone(p) /\ UNCHANGED <<mboxs, op, box, reg, msg, inbox>>
      /\ \/ found = {} /\ Goto(p, "spare") /\ UNCHANGED i
         \/ found # {} /\ Goto(p, "load") /\ i' = [i EXCEPT ![p] = First(found)]
  BY DEF OpenSearch
<1>2. /\ op[p] <= Len(Program[p]) /\ Call(p).do = "open" /\ pc[p] = "ready"
  BY <1>0, <1>1, BeginsInCall
<1>3. mailbox(p) = 0
  BY <1>0, <1>2, NotOpen DEF Orderly
<1>4. \A q \in Users : pc[q] \notin Inside
  BY <1>1, <1>2 DEF Alone, Orderly, Inside
<1>5. msg[p] = <<>>
  BY <1>0, <1>2 DEF InCalls, InCall, Moving
<1>6. \A b \in Boxes : QueuesOf(b)
  BY <1>1 DEF QueuesOf
<1>7. found # {} => First(found) \in found
  BY FirstIn
<1>8. mboxs' \in [Boxes -> Mailboxes] /\ reg' \in [Users -> Int]
  BY <1>0, <1>1 DEF Types
<1> HIDE DEF found
<1>9. CASE found = {}
  <2>1. Goto(p, "spare") /\ UNCHANGED i
    BY <1>9, <1>1
  <2>2. "spare" \in Labels /\ "spare" \notin Moving /\ "spare" \notin Closing
    BY DEF Labels, Opening, Moving, Closing
  <2>3. i' \in [Users -> Boxes \cup {0}]
    BY <2>1, <1>0 DEF Types
  <2>4. Control'
    BY <1>1, <1>2, <1>3, <1>4, <1>5, <1>6, <1>8, <2>1, <2>2, <2>3, StepIn
  <2>5. pc'[p] = "spare" /\ \A q \in Users \ {p} : pc'[q] = pc[q]
    BY <2>1, <2>2, <1>0, SetPc
  <2>6. \A b \in Boxes : mboxs[b].name # Call(p).name
    BY <1>9 DEF found
  <2> QED BY <2>1, <2>4, <2>5, <2>6, <1>1, <1>4
<1>10. CASE found # {}
  <2>1. Goto(p, "load") /\ i' = [i EXCEPT ![p] = First(found)] /\ First(found) \in found
    BY <1>10, <1>1, <1>7
  <2>2. "load" \in Labels /\ "load" \notin Moving /\ "load" \notin Closing
    BY DEF Labels, Opening, Moving, Closing
  <2>0. First(found) \in Boxes /\ mboxs[First(found)].name = Call(p).name
    BY <2>1 DEF found
  <2>3. i' \in [Users -> Boxes \cup {0}] /\ i'[p] = First(found) /\ \A q \in Users \ {p} : i'[q] = i[q]
    BY <2>0, <2>1, <1>0 DEF Types
  <2>4. Control'
    BY <1>1, <1>2, <1>3, <1>4, <1>5, <1>6, <1>8, <2>1, <2>2, <2>3, StepIn
  <2>5. pc'[p] = "load" /\ \A q \in Users \ {p} : pc'[q] = pc[q]
    BY <2>1, <2>2, <1>0, SetPc
  <2> QED BY <2>0, <2>1, <2>3, <2>4, <2>5, <1>1, <1>4
<1> QED BY <1>9, <1>10

\* mbox_open, second loop: a mailbox with num_users 0, or the process spins.
LEMMA SpareControl ==
  ASSUME NEW p \in Users, Control, OpenSpare(p)
  PROVE  /\ Control' /\ UNCHANGED <<mboxs, op, box, reg, msg, inbox>> /\ pc[p] = "spare"
         /\ \A q \in Users \ {p} : pc'[q] = pc[q] /\ i'[q] = i[q]
         /\ \/ pc'[p] = "spin"
            \/ pc'[p] = "copy" /\ i'[p] \in Boxes /\ mboxs[i'[p]].num_users = 0
<1> DEFINE found == {b \in Boxes : mboxs[b].num_users = 0}
<1>0. Types /\ InCalls /\ OneInside /\ Opened /\ Queued
  BY DEF Control
<1>1. /\ pc[p] = "spare" /\ UNCHANGED <<mboxs, op, box, reg, msg, inbox>>
      /\ \/ found = {} /\ Goto(p, "spin") /\ UNCHANGED i
         \/ found # {} /\ Goto(p, "copy") /\ i' = [i EXCEPT ![p] = First(found)]
  BY DEF OpenSpare
<1>2. /\ op[p] <= Len(Program[p]) /\ Call(p).do = "open" /\ mailbox(p) = 0 /\ msg[p] = <<>> /\ pc[p] \in Inside
  BY <1>0, <1>1 DEF InCalls, InCall, Opening, Moving, Inside
<1>6. \A b \in Boxes : QueuesOf(b)
  BY <1>1 DEF QueuesOf
<1>7. found # {} => First(found) \in found
  BY FirstIn
<1>8. mboxs' \in [Boxes -> Mailboxes] /\ reg' \in [Users -> Int]
  BY <1>0, <1>1 DEF Types
<1> HIDE DEF found
<1>9. CASE found = {}
  <2>1. Goto(p, "spin") /\ UNCHANGED i
    BY <1>9, <1>1
  <2>2. "spin" \in Labels /\ "spin" \notin Moving /\ "spin" \notin Closing
    BY DEF Labels, Opening, Moving, Closing
  <2>3. i' \in [Users -> Boxes \cup {0}]
    BY <2>1, <1>0 DEF Types
  <2>4. Control'
    BY <1>1, <1>2, <1>6, <1>8, <2>1, <2>2, <2>3, StepIn
  <2>5. pc'[p] = "spin" /\ \A q \in Users \ {p} : pc'[q] = pc[q]
    BY <2>1, <2>2, <1>0, SetPc
  <2> QED BY <2>1, <2>4, <2>5, <1>1
<1>10. CASE found # {}
  <2>1. Goto(p, "copy") /\ i' = [i EXCEPT ![p] = First(found)] /\ First(found) \in found
    BY <1>10, <1>1, <1>7
  <2>2. "copy" \in Labels /\ "copy" \notin Moving /\ "copy" \notin Closing
    BY DEF Labels, Opening, Moving, Closing
  <2>0. First(found) \in Boxes /\ mboxs[First(found)].num_users = 0
    BY <2>1 DEF found
  <2>3. i' \in [Users -> Boxes \cup {0}] /\ i'[p] = First(found) /\ \A q \in Users \ {p} : i'[q] = i[q]
    BY <2>0, <2>1, <1>0 DEF Types
  <2>4. Control'
    BY <1>1, <1>2, <1>6, <1>8, <2>1, <2>2, <2>3, StepIn
  <2>5. pc'[p] = "copy" /\ \A q \in Users \ {p} : pc'[q] = pc[q]
    BY <2>1, <2>2, <1>0, SetPc
  <2> QED BY <2>0, <2>1, <2>3, <2>4, <2>5, <1>1
<1> QED BY <1>9, <1>10

\* mbox_open: strcpy of the name.
LEMMA CopyControl ==
  ASSUME NEW p \in Users, Control, OpenCopy(p)
  PROVE  /\ Control' /\ UNCHANGED <<op, box, i, reg, msg, inbox>> /\ pc[p] = "copy"
         /\ pc'[p] = "load" /\ \A q \in Users \ {p} : pc'[q] = pc[q]
         /\ \A c \in Boxes : mboxs'[c] = IF c = i[p] THEN [mboxs[c] EXCEPT !.name = Call(p).name] ELSE mboxs[c]
<1>0. Types /\ InCalls /\ OneInside /\ Opened /\ Queued
  BY DEF Control
<1>1. /\ pc[p] = "copy" /\ UNCHANGED <<op, box, i, reg, msg, inbox>> /\ Goto(p, "load")
      /\ mboxs' = [mboxs EXCEPT ![i[p]].name = Call(p).name]
  BY DEF OpenCopy
<1>2. /\ op[p] <= Len(Program[p]) /\ Call(p).do = "open" /\ mailbox(p) = 0 /\ msg[p] = <<>> /\ pc[p] \in Inside
  BY <1>0, <1>1 DEF InCalls, InCall, Opening, Moving, Inside
<1>3. Call(p).name \in Names
  BY <1>0, <1>2, CallType
<1>4. mboxs \in [Boxes -> Mailboxes] /\ i[p] \in Boxes \cup {0}
  BY <1>0 DEF Types
<1>5. /\ mboxs' \in [Boxes -> Mailboxes]
      /\ \A c \in Boxes : mboxs'[c] = IF c = i[p] THEN [mboxs[c] EXCEPT !.name = Call(p).name] ELSE mboxs[c]
  BY <1>1, <1>3, <1>4, SetName
<1>6. ASSUME NEW b \in Boxes PROVE QueuesOf(b)
  <2>1. mboxs[b] \in Mailboxes /\ mboxs'[b] = IF b = i[p] THEN [mboxs[b] EXCEPT !.name = Call(p).name] ELSE mboxs[b]
    BY <1>4, <1>5
  <2>2. mboxs'[b].not_full = mboxs[b].not_full /\ mboxs'[b].not_empty = mboxs[b].not_empty
    BY ONLY <2>1 DEF Mailboxes
  <2> QED BY ONLY <2>2 DEF QueuesOf
<1>7. i' \in [Users -> Boxes \cup {0}] /\ reg' \in [Users -> Int]
  BY <1>0, <1>1 DEF Types
<1>8. "load" \in Labels /\ "load" \notin Moving /\ "load" \notin Closing
  BY DEF Labels, Opening, Moving, Closing
<1>9. Control'
  BY <1>1, <1>2, <1>5, <1>6, <1>7, <1>8, StepIn
<1>10. pc'[p] = "load" /\ \A q \in Users \ {p} : pc'[q] = pc[q]
  BY <1>1, <1>8, <1>0, SetPc
<1> QED BY <1>1, <1>5, <1>9, <1>10

\* mbox_open: num_users is loaded,
LEMMA LoadControl ==
  ASSUME NEW p \in Users, Control, OpenLoad(p), i[p] \in Boxes
  PROVE  /\ Control' /\ UNCHANGED <<mboxs, op, box, i, msg, inbox>> /\ pc[p] = "load"
         /\ pc'[p] = "store" /\ reg'[p] = mboxs[i[p]].num_users
         /\ \A q \in Users \ {p} : pc'[q] = pc[q] /\ reg'[q] = reg[q]
<1>0. Types /\ InCalls /\ OneInside /\ Opened /\ Queued
  BY DEF Control
<1>1. /\ pc[p] = "load" /\ UNCHANGED <<mboxs, op, box, i, msg, inbox>> /\ Goto(p, "store")
      /\ reg' = [reg EXCEPT ![p] = mboxs[i[p]].num_users]
  BY DEF OpenLoad
<1>2. /\ op[p] <= Len(Program[p]) /\ Call(p).do = "open" /\ mailbox(p) = 0 /\ msg[p] = <<>> /\ pc[p] \in Inside
  BY <1>0, <1>1 DEF InCalls, InCall, Opening, Moving, Inside
<1>3. mboxs[i[p]].num_users \in Int
  BY <1>0 DEF Types, Mailboxes
<1>4. mboxs' \in [Boxes -> Mailboxes] /\ i' \in [Users -> Boxes \cup {0}]
  BY <1>0, <1>1 DEF Types
<1>6. \A b \in Boxes : QueuesOf(b)
  BY <1>1 DEF QueuesOf
<1>7. reg' \in [Users -> Int] /\ reg'[p] = mboxs[i[p]].num_users /\ \A q \in Users \ {p} : reg'[q] = reg[q]
  BY <1>0, <1>1, <1>3 DEF Types
<1>8. "store" \in Labels /\ "store" \notin Moving /\ "store" \notin Closing
  BY DEF Labels, Opening, Moving, Closing
<1>9. Control'
  BY <1>1, <1>2, <1>4, <1>6, <1>7, <1>8, StepIn
<1>10. pc'[p] = "store" /\ \A q \in Users \ {p} : pc'[q] = pc[q]
  BY <1>1, <1>8, <1>0, SetPc
<1> QED BY <1>1, <1>7, <1>9, <1>10

\* incremented and stored.
LEMMA StoreControl ==
  ASSUME NEW p \in Users, Control, OpenStore(p)
  PROVE  /\ Control' /\ UNCHANGED <<i, reg, msg, inbox>> /\ pc[p] = "store"
         /\ pc'[p] = "ready" /\ \A q \in Users \ {p} : pc'[q] = pc[q] /\ op'[q] = op[q] /\ box'[q] = box[q]
         /\ Call(p).name \in Names /\ mailbox(p) = 0
         /\ box'[p][Call(p).name] = i[p] /\ \A m \in Names \ {Call(p).name} : box'[p][m] = box[p][m]
         /\ \A c \in Boxes : mboxs'[c] = IF c = i[p] THEN [mboxs[c] EXCEPT !.num_users = reg[p] + 1] ELSE mboxs[c]
<1>0. Types /\ InCalls /\ OneInside /\ Opened /\ Queued
  BY DEF Control
<1>1. /\ pc[p] = "store" /\ UNCHANGED <<i, reg, msg, inbox>> /\ Return(p)
      /\ box' = [box EXCEPT ![p][Call(p).name] = i[p]]
      /\ mboxs' = [mboxs EXCEPT ![i[p]].num_users = reg[p] + 1]
  BY DEF OpenStore
<1>2. /\ op[p] <= Len(Program[p]) /\ Call(p).do = "open" /\ mailbox(p) = 0 /\ msg[p] = <<>> /\ pc[p] \in Inside
  BY <1>0, <1>1 DEF InCalls, InCall, Opening, Moving, Inside
<1>3. Call(p).name \in Names /\ IsCall(p, op[p], "open", Call(p).name) /\ op[p] \in Nat \ {0}
  BY <1>0, <1>2, CallType
<1>4. mboxs \in [Boxes -> Mailboxes] /\ i[p] \in Boxes \cup {0} /\ reg[p] + 1 \in Int
  BY <1>0 DEF Types
<1>5. /\ mboxs' \in [Boxes -> Mailboxes]
      /\ \A c \in Boxes : mboxs'[c] = IF c = i[p] THEN [mboxs[c] EXCEPT !.num_users = reg[p] + 1] ELSE mboxs[c]
  BY <1>1, <1>4, SetUsers
<1>6. \A b \in Boxes : QueuesOf(b)
  BY <1>4, <1>5 DEF QueuesOf, Mailboxes
<1>7. /\ box' \in [Users -> [Names -> Boxes \cup {0}]] /\ \A q \in Users \ {p} : box'[q] = box[q]
      /\ box'[p][Call(p).name] = i[p] /\ \A m \in Names \ {Call(p).name} : box'[p][m] = box[p][m]
  BY <1>0, <1>1, <1>3, <1>4, SetOpen, ZenonT(60)
<1>8. ASSUME NEW n \in Names, box'[p][n] # 0 PROVE SinceOpen(p, n, op[p] + 1)
  <2>1. CASE n = Call(p).name
    BY <2>1, <1>3, SinceNew
  <2>2. CASE n # Call(p).name
    <3>1. SinceOpen(p, n, op[p])
      BY <2>2, <1>0, <1>7, <1>8 DEF Opened
    <3>2. ~IsCall(p, op[p], "close", n)
      BY <1>3 DEF IsCall
    <3> QED BY <3>1, <3>2, <1>3, SinceNext
  <2> QED BY <2>1, <2>2
<1>9. msg' \in [Users -> Seq(Bytes)] /\ inbox' \in [Users -> Seq(Seq(Bytes))]
  BY <1>0, <1>1 DEF Types
<1>10. Control'
  BY <1>1, <1>2, <1>5, <1>6, <1>7, <1>8, <1>9, StepEnds
<1>11. pc'[p] = "ready" /\ \A q \in Users \ {p} : pc'[q] = pc[q]
  BY <1>1, <1>0, SetPc DEF Return, Labels
<1>12. \A q \in Users \ {p} : op'[q] = op[q]
  BY <1>1, <1>0, SetOp DEF Return
<1> QED BY <1>1, <1>2, <1>3, <1>5, <1>7, <1>10, <1>11, <1>12

\* mbox_close.
LEMMA ClosingCall ==
  ASSUME NEW p \in Users, Control, pc[p] \in Closing
  PROVE  /\ op[p] <= Len(Program[p]) /\ Call(p).do = "close" /\ msg[p] = <<>> /\ pc[p] \in Inside
         /\ mailbox(p) \in Boxes /\ Call(p).name \in Names /\ op[p] \in Nat \ {0}
         /\ IsCall(p, op[p], "close", Call(p).name)
<1>1. Types /\ InCall(p)
  BY DEF Control, InCalls
<1>2. /\ op[p] <= Len(Program[p]) /\ Call(p).do = "close" /\ msg[p] = <<>> /\ pc[p] \in Inside /\ mailbox(p) # 0
  BY <1>1 DEF InCall, Closing, Moving, Inside
<1> QED BY <1>1, <1>2, CallType

\* The mailbox is closed under its name only.
LEMMA ClosedSince ==
  ASSUME NEW p \in Users, Control, pc[p] \in Closing, box' = [box EXCEPT ![p][Call(p).name] = 0]
  PROVE  /\ box' \in [Users -> [Names -> Boxes \cup {0}]] /\ \A q \in Users \ {p} : box'[q] = box[q]
         /\ box'[p][Call(p).name] = 0 /\ \A m \in Names \ {Call(p).name} : box'[p][m] = box[p][m]
         /\ \A n \in Names : box'[p][n] # 0 => SinceOpen(p, n, op[p] + 1)
<1>0. Types /\ InCalls /\ OneInside /\ Opened /\ Queued
  BY DEF Control
<1>1. Call(p).name \in Names /\ op[p] \in Nat \ {0} /\ IsCall(p, op[p], "close", Call(p).name)
  BY ClosingCall
<1>2. /\ box' \in [Users -> [Names -> Boxes \cup {0}]] /\ \A q \in Users \ {p} : box'[q] = box[q]
      /\ box'[p][Call(p).name] = 0 /\ \A m \in Names \ {Call(p).name} : box'[p][m] = box[p][m]
  BY <1>0, <1>1, SetOpen, ZenonT(60)
<1>3. ASSUME NEW n \in Names, box'[p][n] # 0 PROVE SinceOpen(p, n, op[p] + 1)
  <2>1. SinceOpen(p, n, op[p]) /\ n # Call(p).name
    BY <1>0, <1>2, <1>3 DEF Opened
  <2>2. ~IsCall(p, op[p], "close", n)
    BY <1>1, <2>1 DEF IsCall
  <2> QED BY <2>1, <2>2, <1>1, SinceNext
<1> QED BY <1>2, <1>3

\* mbox_close: num_users is loaded,
LEMMA DownControl ==
  ASSUME Orderly, NEW p \in Users, Control, CloseLoad(p)
  PROVE  /\ Control' /\ UNCHANGED <<mboxs, op, box, i, msg, inbox>>
         /\ pc[p] = "ready" /\ \A q \in Users : pc[q] \notin Inside
         /\ mailbox(p) \in Boxes /\ pc'[p] = "down" /\ reg'[p] = mboxs[mailbox(p)].num_users
         /\ \A q \in Users \ {p} : pc'[q] = pc[q] /\ reg'[q] = reg[q]
<1>0. Types /\ InCalls /\ OneInside /\ Opened /\ Queued
  BY DEF Control
<1>1. /\ Begins(p, "close") /\ Alone(p) /\ mailbox(p) # 0 /\ Goto(p, "down")
      /\ UNCHANGED <<mboxs, op, box, i, msg, inbox>>
      /\ reg' = [reg EXCEPT ![p] = mboxs[mailbox(p)].num_users]
  BY DEF CloseLoad
<1>2. /\ op[p] <= Len(Program[p]) /\ Call(p).do = "close" /\ pc[p] = "ready" /\ mailbox(p) \in Boxes
  BY <1>0, <1>1, BeginsInCall
<1>3. mboxs[mailbox(p)].num_users \in Int
  BY <1>0, <1>2 DEF Types, Mailboxes
<1>4. \A q \in Users : pc[q] \notin Inside
  BY <1>1, <1>2 DEF Alone, Orderly, Inside
<1>5. msg[p] = <<>>
  BY <1>0, <1>2 DEF InCalls, InCall, Moving
<1>6. \A b \in Boxes : QueuesOf(b)
  BY <1>1 DEF QueuesOf
<1>7. reg' \in [Users -> Int] /\ reg'[p] = mboxs[mailbox(p)].num_users /\ \A q \in Users \ {p} : reg'[q] = reg[q]
  BY <1>0, <1>1, <1>3 DEF Types
<1>8. mboxs' \in [Boxes -> Mailboxes] /\ i' \in [Users -> Boxes \cup {0}]
  BY <1>0, <1>1 DEF Types
<1>9. "down" \in Labels /\ "down" \notin Moving /\ "down" \notin Opening
  BY DEF Labels, Opening, Moving, Closing
<1>10. Control'
  BY <1>1, <1>2, <1>4, <1>5, <1>6, <1>7, <1>8, <1>9, StepIn
<1>11. pc'[p] = "down" /\ \A q \in Users \ {p} : pc'[q] = pc[q]
  BY <1>1, <1>9, <1>0, SetPc
<1> QED BY <1>1, <1>2, <1>4, <1>7, <1>10, <1>11

\* decremented and stored,
LEMMA CloseStoreControl ==
  ASSUME NEW p \in Users, Control, CloseStore(p)
  PROVE  /\ Control' /\ UNCHANGED <<op, box, i, reg, msg, inbox>>
         /\ pc[p] = "down" /\ pc'[p] = "test" /\ \A q \in Users \ {p} : pc'[q] = pc[q]
         /\ mailbox(p) \in Boxes
         /\ \A c \in Boxes : mboxs'[c] = IF c = mailbox(p) THEN [mboxs[c] EXCEPT !.num_users = reg[p] - 1] ELSE mboxs[c]
<1>0. Types /\ InCalls /\ OneInside /\ Opened /\ Queued
  BY DEF Control
<1>1. /\ pc[p] = "down" /\ Goto(p, "test") /\ UNCHANGED <<op, box, i, reg, msg, inbox>>
      /\ mboxs' = [mboxs EXCEPT ![mailbox(p)].num_users = reg[p] - 1]
  BY DEF CloseStore
<1>a. pc[p] \in Closing
  BY <1>1 DEF Closing
<1>2. /\ op[p] <= Len(Program[p]) /\ Call(p).do = "close" /\ mailbox(p) \in Boxes
      /\ msg[p] = <<>> /\ pc[p] \in Inside
  BY <1>a, ClosingCall
<1>4. mboxs \in [Boxes -> Mailboxes] /\ reg[p] - 1 \in Int
  BY <1>0 DEF Types
<1>5. /\ mboxs' \in [Boxes -> Mailboxes]
      /\ \A c \in Boxes : mboxs'[c] = IF c = mailbox(p) THEN [mboxs[c] EXCEPT !.num_users = reg[p] - 1] ELSE mboxs[c]
  BY <1>1, <1>2, <1>4, SetUsers
<1>6. \A b \in Boxes : QueuesOf(b)
  BY <1>4, <1>5 DEF QueuesOf, Mailboxes
<1>7. i' \in [Users -> Boxes \cup {0}] /\ reg' \in [Users -> Int]
  BY <1>0, <1>1 DEF Types
<1>8. "test" \in Labels /\ "test" \notin Moving /\ "test" \notin Opening
  BY DEF Labels, Opening, Moving, Closing
<1>b. mailbox(p) # 0
  BY <1>0, <1>a DEF InCalls, InCall
<1>9. Control'
  BY <1>1, <1>b, <1>2, <1>5, <1>6, <1>7, <1>8, StepIn
<1>10. pc'[p] = "test" /\ \A q \in Users \ {p} : pc'[q] = pc[q]
  BY <1>1, <1>8, <1>0, SetPc
<1> QED BY <1>1, <1>2, <1>5, <1>9, <1>10

\* and read again for the test.
LEMMA TestControl ==
  ASSUME NEW p \in Users, Control, CloseTest(p)
  PROVE  /\ Control' /\ UNCHANGED <<mboxs, i, reg, msg, inbox>>
         /\ pc[p] = "test" /\ mailbox(p) \in Boxes /\ Call(p).name \in Names
         /\ \A q \in Users \ {p} : pc'[q] = pc[q] /\ op'[q] = op[q] /\ box'[q] = box[q]
         /\ \/ pc'[p] = "reset" /\ mboxs[mailbox(p)].num_users = 0 /\ UNCHANGED <<op, box>>
            \/ /\ pc'[p] = "ready" /\ mboxs[mailbox(p)].num_users # 0
               /\ box'[p][Call(p).name] = 0 /\ \A m \in Names \ {Call(p).name} : box'[p][m] = box[p][m]
<1>0. Types /\ InCalls /\ OneInside /\ Opened /\ Queued
  BY DEF Control
<1>1. /\ pc[p] = "test" /\ UNCHANGED <<mboxs, i, reg, msg, inbox>>
      /\ \/ mboxs[mailbox(p)].num_users = 0 /\ Goto(p, "reset") /\ UNCHANGED <<op, box>>
         \/ mboxs[mailbox(p)].num_users # 0 /\ Return(p) /\ box' = [box EXCEPT ![p][Call(p).name] = 0]
  BY DEF CloseTest
<1>a. pc[p] \in Closing
  BY <1>1 DEF Closing
<1>2. /\ op[p] <= Len(Program[p]) /\ Call(p).do = "close" /\ mailbox(p) \in Boxes /\ Call(p).name \in Names
      /\ msg[p] = <<>> /\ pc[p] \in Inside
  BY <1>a, ClosingCall
<1>b. mailbox(p) # 0
  BY <1>0, <1>a DEF InCalls, InCall
<1>6. \A b \in Boxes : QueuesOf(b)
  BY <1>1 DEF QueuesOf
<1>7. /\ i' \in [Users -> Boxes \cup {0}] /\ reg' \in [Users -> Int] /\ mboxs' \in [Boxes -> Mailboxes]
      /\ msg' \in [Users -> Seq(Bytes)] /\ inbox' \in [Users -> Seq(Seq(Bytes))]
  BY <1>0, <1>1 DEF Types
<1>8. CASE mboxs[mailbox(p)].num_users = 0
  <2>1. Goto(p, "reset") /\ UNCHANGED <<op, box>>
    BY <1>1, <1>8
  <2>2. "reset" \in Labels /\ "reset" \notin Moving /\ "reset" \notin Opening
    BY DEF Labels, Opening, Moving, Closing
  <2>3. Control'
    BY <1>1, <1>2, <1>b, <1>6, <1>7, <2>1, <2>2, StepIn
  <2>4. pc'[p] = "reset" /\ \A q \in Users \ {p} : pc'[q] = pc[q]
    BY <2>1, <2>2, <1>0, SetPc
  <2> QED BY <1>1, <1>2, <1>8, <2>1, <2>3, <2>4
<1>9. CASE mboxs[mailbox(p)].num_users # 0
  <2>1. Return(p) /\ box' = [box EXCEPT ![p][Call(p).name] = 0]
    BY <1>1, <1>9
  <2>2. /\ box' \in [Users -> [Names -> Boxes \cup {0}]] /\ \A q \in Users \ {p} : box'[q] = box[q]
        /\ box'[p][Call(p).name] = 0 /\ \A m \in Names \ {Call(p).name} : box'[p][m] = box[p][m]
        /\ \A n \in Names : box'[p][n] # 0 => SinceOpen(p, n, op[p] + 1)
    BY <1>a, <2>1, ClosedSince
  <2>3. Control'
    BY <1>1, <1>2, <1>6, <1>7, <2>1, <2>2, StepEnds
  <2>4. pc'[p] = "ready" /\ \A q \in Users \ {p} : pc'[q] = pc[q]
    BY <2>1, <1>0, SetPc DEF Return, Labels
  <2>5. \A q \in Users \ {p} : op'[q] = op[q]
    BY <2>1, <1>0, SetOp DEF Return
  <2> QED BY <1>1, <1>2, <1>9, <2>2, <2>3, <2>4, <2>5
<1> QED BY <1>8, <1>9

\* mbox_close: the mailbox is made new.
LEMMA ResetControl ==
  ASSUME NEW p \in Users, Control, CloseReset(p)
  PROVE  /\ Control' /\ UNCHANGED <<i, reg, msg, inbox>>
         /\ pc[p] = "reset" /\ mailbox(p) \in Boxes /\ Call(p).name \in Names
         /\ pc'[p] = "ready"
         /\ \A q \in Users \ {p} : pc'[q] = pc[q] /\ op'[q] = op[q] /\ box'[q] = box[q]
         /\ box'[p][Call(p).name] = 0 /\ \A m \in Names \ {Call(p).name} : box'[p][m] = box[p][m]
         /\ \A c \in Boxes : mboxs'[c] = IF c = mailbox(p) THEN [Fresh EXCEPT !.num_users = mboxs[c].num_users]
                                         ELSE mboxs[c]
<1>0. Types /\ InCalls /\ OneInside /\ Opened /\ Queued
  BY DEF Control
<1> DEFINE r == [Fresh EXCEPT !.num_users = mboxs[mailbox(p)].num_users]
<1>1. /\ pc[p] = "reset" /\ UNCHANGED <<i, reg, msg, inbox>>
      /\ Return(p) /\ box' = [box EXCEPT ![p][Call(p).name] = 0]
      /\ mboxs' = [mboxs EXCEPT ![mailbox(p)] = r]
  BY DEF CloseReset
<1>a. pc[p] \in Closing
  BY <1>1 DEF Closing
<1>2. /\ op[p] <= Len(Program[p]) /\ Call(p).do = "close" /\ mailbox(p) \in Boxes /\ Call(p).name \in Names
      /\ msg[p] = <<>> /\ pc[p] \in Inside
  BY <1>a, ClosingCall
<1>3. mboxs \in [Boxes -> Mailboxes] /\ mboxs[mailbox(p)].num_users \in Int
  BY <1>0, <1>2 DEF Types, Mailboxes
<1>4. r \in Mailboxes /\ r.not_full = <<>> /\ r.not_empty = <<>>
  <2>1. r = [name |-> None, buffer |-> <<>>, not_full |-> <<>>, not_empty |-> <<>>,
             lock_on_box |-> None, num_users |-> mboxs[mailbox(p)].num_users]
    BY DEF Fresh
  <2>2. <<>> \in Seq(Bytes) /\ <<>> \in Seq(Users)
    OBVIOUS
  <2> HIDE DEF r
  <2> QED BY <1>3, <2>1, <2>2 DEF Mailboxes
<1>5. /\ mboxs' \in [Boxes -> Mailboxes]
      /\ \A c \in Boxes : mboxs'[c] = IF c = mailbox(p) THEN r ELSE mboxs[c]
  <2> HIDE DEF r
  <2> QED BY <1>1, <1>2, <1>3, <1>4, SetBox
<1>6. \A b \in Boxes : QueuesOf(b)
  <2> HIDE DEF r
  <2> QED BY <1>4, <1>5 DEF QueuesOf
<1>7. msg' \in [Users -> Seq(Bytes)] /\ inbox' \in [Users -> Seq(Seq(Bytes))]
  BY <1>0, <1>1 DEF Types
<1>8. /\ box' \in [Users -> [Names -> Boxes \cup {0}]] /\ \A q \in Users \ {p} : box'[q] = box[q]
      /\ box'[p][Call(p).name] = 0 /\ \A m \in Names \ {Call(p).name} : box'[p][m] = box[p][m]
      /\ \A n \in Names : box'[p][n] # 0 => SinceOpen(p, n, op[p] + 1)
  BY <1>a, <1>1, ClosedSince
<1>9. Control'
  BY <1>1, <1>2, <1>5, <1>6, <1>7, <1>8, StepEnds
<1>10. pc'[p] = "ready" /\ \A q \in Users \ {p} : pc'[q] = pc[q]
  BY <1>1, <1>0, SetPc DEF Return, Labels
<1>11. \A q \in Users \ {p} : op'[q] = op[q]
  BY <1>1, <1>0, SetOp DEF Return
<1> QED BY <1>1, <1>2, <1>5, <1>8, <1>9, <1>10, <1>11

-----------------------------------------------------------------------------
(***************************************************************************)
(* mbox_send and mbox_recv.                                                 *)
(***************************************************************************)

\* A signal takes the head off the queue of a condition.
LEMMA TailQueue ==
  ASSUME NEW S, NEW s \in Seq(S), s # <<>>, NoDup(s)
  PROVE  /\ Tail(s) \in Seq(S) /\ NoDup(Tail(s)) /\ Head(s) \in ImageOf(s)
         /\ ImageOf(Tail(s)) \subseteq ImageOf(s) /\ Head(s) \notin ImageOf(Tail(s))
<1>1. Len(s) \in Nat /\ Len(s) > 0 /\ DOMAIN s = 1..Len(s) /\ Head(s) = s[1]
  OBVIOUS
<1>2. Tail(s) \in Seq(S) /\ DOMAIN Tail(s) = 1..(Len(s) - 1) /\ \A n \in 1..(Len(s) - 1) : Tail(s)[n] = s[n + 1]
  BY <1>1
<1>3. \A n \in 1..(Len(s) - 1) : n + 1 \in DOMAIN s /\ n + 1 # 1
  BY <1>1
<1>4. NoDup(Tail(s))
  <2> SUFFICES ASSUME NEW m \in 1..(Len(s) - 1), NEW n \in 1..(Len(s) - 1), s[m + 1] = s[n + 1] PROVE m = n
    BY <1>2 DEF NoDup
  <2>1. m + 1 = n + 1
    BY <1>3 DEF NoDup
  <2> QED BY <2>1
<1>5. Head(s) \in ImageOf(s)
  BY <1>1 DEF ImageOf
<1>6. ImageOf(Tail(s)) \subseteq ImageOf(s)
  BY <1>2, <1>3 DEF ImageOf
<1>7. Head(s) \notin ImageOf(Tail(s))
  BY <1>1, <1>2, <1>3 DEF ImageOf, NoDup
<1> QED BY <1>2, <1>4, <1>5, <1>6, <1>7

\* A wait puts the process at its end.
LEMMA AppendQueue ==
  ASSUME NEW S, NEW s \in Seq(S), NEW p \in S, p \notin ImageOf(s), NoDup(s)
  PROVE  /\ Append(s, p) \in Seq(S) /\ NoDup(Append(s, p))
         /\ ImageOf(Append(s, p)) \subseteq ImageOf(s) \cup {p}
<1>1. Len(s) \in Nat /\ DOMAIN s = 1..Len(s) /\ Append(s, p) \in Seq(S)
  OBVIOUS
<1>2. /\ DOMAIN Append(s, p) = 1..(Len(s) + 1) /\ Append(s, p)[Len(s) + 1] = p
      /\ \A n \in 1..Len(s) : Append(s, p)[n] = s[n]
  OBVIOUS
<1>3. \A n \in 1..(Len(s) + 1) : n \in 1..Len(s) \/ n = Len(s) + 1
  BY <1>1
<1>4. ImageOf(Append(s, p)) \subseteq ImageOf(s) \cup {p}
  BY <1>1, <1>2, <1>3 DEF ImageOf
<1>5. \A n \in 1..Len(s) : s[n] # p
  BY <1>1 DEF ImageOf
<1>6. NoDup(Append(s, p))
  BY <1>1, <1>2, <1>3, <1>5 DEF NoDup
<1> QED BY <1>1, <1>4, <1>6

\* A queue that lost members.
LEMMA QueueLeft ==
  ASSUME NEW p \in Users, Others(p), NEW b, NEW do, NEW s \in Seq(Users), QueueOf(s, b, do),
         NEW t, NoDup(t), ImageOf(t) \subseteq ImageOf(s),
         \A q \in ImageOf(t) : q # p /\ pc'[q] = "waiting"
  PROVE  QueueOf(t, b, do)'
<1> SUFFICES ASSUME NEW q \in ImageOf(t) PROVE pc'[q] = "waiting" /\ mailbox(q)' = b /\ Call(q)'.do = do
  BY DEF QueueOf
<1>1. q \in Users /\ q # p
  BY MembersAre
<1>2. Still(q)
  BY <1>1 DEF Others
<1> QED BY <1>2, StillCall, StillMailbox DEF Still, QueueOf

\* A queue that p has joined.
LEMMA QueueJoined ==
  ASSUME NEW p \in Users, Others(p), NEW b, NEW do, NEW s \in Seq(Users), QueueOf(s, b, do),
         NEW t, NoDup(t), ImageOf(t) \subseteq ImageOf(s) \cup {p},
         \A q \in ImageOf(s) : pc'[q] = "waiting" /\ q # p,
         pc'[p] = "waiting", mailbox(p)' = b, Call(p)'.do = do
  PROVE  QueueOf(t, b, do)'
<1> SUFFICES ASSUME NEW q \in ImageOf(t) PROVE pc'[q] = "waiting" /\ mailbox(q)' = b /\ Call(q)'.do = do
  BY DEF QueueOf
<1>1. CASE q = p
  BY <1>1
<1>2. CASE q # p
  <2>1. q \in Users /\ q \in ImageOf(s)
    BY <1>2, MembersAre
  <2>2. Still(q)
    BY <2>1, <1>2 DEF Others
  <2> QED BY <2>1, <2>2, StillCall, StillMailbox DEF Still, QueueOf
<1> QED BY <1>1, <1>2

\* A step between the lock's acquire and its release.
LEMMA StepMoves ==
  ASSUME NEW p \in Users, Control, op[p] <= Len(Program[p]), Call(p).do \in {"send", "recv"}, mailbox(p) # 0,
         UNCHANGED <<op, box, i, reg, inbox>>,
         pc' \in [Users -> Labels], pc'[p] \in {"locked", "waiting"},
         \A q \in Users \ {p} : pc'[q] = pc[q] \/ (pc[q] = "waiting" /\ pc'[q] = "relock"),
         msg' \in [Users -> Seq(Bytes)], \A q \in Users \ {p} : msg'[q] = msg[q],
         mboxs' \in [Boxes -> Mailboxes], Queued'
  PROVE  Control'
<1>0. Types /\ InCalls /\ OneInside /\ Opened /\ Queued
  BY DEF Control
<1>2. Types'
  BY <1>0 DEF Types
<1>3. Others(p)
  BY DEF Others, Still
<1>4. InCall(p)'
  <2>1. Call(p)' = Call(p) /\ mailbox(p)' = mailbox(p)
    BY StillCall, StillMailbox
  <2> QED BY <2>1 DEF InCall, Opening, Closing, Moving
<1>5. InCalls'
  BY <1>0, <1>3, <1>4, InCallsKept
<1>6. OneInside'
  BY <1>0, <1>3, OneInsideKept DEF Inside
<1>7. Opened'
  BY <1>0, <1>3, OpenedKept DEF Opened
<1> QED BY <1>2, <1>5, <1>6, <1>7 DEF Control

\* What the rest of the mailboxes' state sees of such a step.
Touches(p) ==
    /\ UNCHANGED <<box, i, reg>>
    /\ \A q \in Users : op'[q] = op[q] \/ (pc[q] = "locked" /\ pc'[q] = "ready")
    /\ \A q \in Users : pc'[q] = pc[q] \/ (pc[q] \in Moving \cup {"ready"} /\ pc'[q] \in Moving \cup {"ready"})
    /\ mailbox(p) \in Boxes
    /\ \A c \in Boxes : /\ c # mailbox(p) => mboxs'[c] = mboxs[c]
                        /\ mboxs'[c].name = mboxs[c].name /\ mboxs'[c].num_users = mboxs[c].num_users

\* The call of a process between the acquire and the release of the lock.
LEMMA MovingCall ==
  ASSUME NEW p \in Users, Control, pc[p] \in Moving
  PROVE  /\ op[p] <= Len(Program[p]) /\ Call(p).do \in {"send", "recv"} /\ mailbox(p) \in Boxes /\ mailbox(p) # 0
         /\ Call(p).name \in Names /\ Call(p).len \in Nat /\ op[p] \in Nat \ {0}
         /\ IsCall(p, op[p], Call(p).do, Call(p).name)
<1>1. Types /\ InCall(p)
  BY DEF Control, InCalls
<1>2. /\ op[p] <= Len(Program[p]) /\ Call(p).do \in {"send", "recv"} /\ mailbox(p) # 0
  BY <1>1 DEF InCall, Moving
<1> QED BY <1>1, <1>2, CallType

\* The lock is acquired.
LEMMA AcquireControl ==
  ASSUME NEW p \in Users, Control, Acquire(p)
  PROVE  /\ Control' /\ Touches(p) /\ UNCHANGED <<op, box, i, reg, msg, inbox>>
         /\ pc[p] \in {"ready", "relock"} /\ pc'[p] = "locked" /\ \A q \in Users \ {p} : pc'[q] = pc[q]
         /\ mboxs[mailbox(p)].lock_on_box = None
         /\ op[p] <= Len(Program[p]) /\ Call(p).do \in {"send", "recv"}
         /\ \A c \in Boxes : mboxs'[c] = IF c = mailbox(p) THEN [mboxs[c] EXCEPT !.lock_on_box = p] ELSE mboxs[c]
<1>0. Types /\ InCalls /\ OneInside /\ Opened /\ Queued
  BY DEF Control
<1>1. /\ UNCHANGED <<op, box, i, reg, msg, inbox>> /\ Goto(p, "locked")
      /\ mboxs[mailbox(p)].lock_on_box = None
      /\ mboxs' = [mboxs EXCEPT ![mailbox(p)].lock_on_box = p]
      /\ \/ (Begins(p, "send") \/ Begins(p, "recv")) /\ mailbox(p) # 0
         \/ pc[p] = "relock"
  BY DEF Acquire
<1>2. /\ op[p] <= Len(Program[p]) /\ Call(p).do \in {"send", "recv"} /\ mailbox(p) \in Boxes /\ mailbox(p) # 0
      /\ pc[p] \in {"ready", "relock"}
  <2>1. CASE pc[p] = "relock"
    BY <2>1, MovingCall DEF Moving
  <2>2. CASE (Begins(p, "send") \/ Begins(p, "recv")) /\ mailbox(p) # 0
    BY <2>2, <1>0, BeginsInCall
  <2> QED BY <2>1, <2>2, <1>1
<1>4. mboxs \in [Boxes -> Mailboxes] /\ msg' \in [Users -> Seq(Bytes)]
  BY <1>0, <1>1 DEF Types
<1>5. /\ mboxs' \in [Boxes -> Mailboxes]
      /\ \A c \in Boxes : mboxs'[c] = IF c = mailbox(p) THEN [mboxs[c] EXCEPT !.lock_on_box = p] ELSE mboxs[c]
  BY <1>1, <1>2, <1>4, SetLock
<1>6. \A b \in Boxes : QueuesOf(b)
  BY <1>4, <1>5 DEF QueuesOf, Mailboxes
<1>7. pc' \in [Users -> Labels] /\ pc'[p] = "locked" /\ \A q \in Users \ {p} : pc'[q] = pc[q]
  BY <1>0, <1>1, SetPc DEF Labels, Moving
<1>8. Others(p) /\ NoWait(p)
  BY <1>1, <1>2, <1>7 DEF Others, Still, NoWait
<1>9. Queued'
  BY <1>0, <1>6, <1>8, QueuedKept
<1>10. Control'
  BY <1>1, <1>2, <1>4, <1>5, <1>7, <1>9, StepMoves
<1>11. Touches(p)
  <2>1. \A c \in Boxes : mboxs'[c].name = mboxs[c].name /\ mboxs'[c].num_users = mboxs[c].num_users
    BY <1>4, <1>5 DEF Mailboxes
  <2> QED BY <2>1, <1>1, <1>2, <1>5, <1>7 DEF Touches, Moving
<1> QED BY <1>1, <1>2, <1>5, <1>7, <1>10, <1>11

\* The end of mbox_send and of mbox_recv.
LEMMA EndControl ==
  ASSUME NEW p \in Users, Control, SendEnd(p) \/ RecvEnd(p)
  PROVE  /\ Control' /\ Touches(p) /\ UNCHANGED <<box, i, reg>>
         /\ pc[p] = "locked" /\ pc'[p] = "ready" /\ \A q \in Users \ {p} : pc'[q] = pc[q] /\ op'[q] = op[q] /\ msg'[q] = msg[q]
         /\ op'[p] = op[p] + 1 /\ msg'[p] = <<>> /\ ~Unfinished(p)
         /\ \A c \in Boxes : mboxs'[c] = IF c = mailbox(p) THEN [mboxs[c] EXCEPT !.lock_on_box = None] ELSE mboxs[c]
         /\ Call(p).do = "send" => inbox' = inbox
         /\ Call(p).do = "recv" => inbox' = [inbox EXCEPT ![p] = Append(@, strrev(msg[p]))]
<1>0. Types /\ InCalls /\ OneInside /\ Opened /\ Queued
  BY DEF Control
<1>1. /\ UNCHANGED <<box, i, reg>> /\ Return(p) /\ pc[p] = "locked" /\ ~Unfinished(p)
      /\ msg' = [msg EXCEPT ![p] = <<>>]
      /\ mboxs' = [mboxs EXCEPT ![mailbox(p)].lock_on_box = None]
      /\ Call(p).do = "send" => inbox' = inbox
      /\ Call(p).do = "recv" => inbox' = [inbox EXCEPT ![p] = Append(@, strrev(msg[p]))]
  BY DEF SendEnd, RecvEnd, Transfers
<1>2. /\ op[p] <= Len(Program[p]) /\ Call(p).do \in {"send", "recv"} /\ mailbox(p) \in Boxes /\ mailbox(p) # 0
      /\ IsCall(p, op[p], Call(p).do, Call(p).name) /\ op[p] \in Nat \ {0}
  BY <1>1, MovingCall DEF Moving
<1>3. msg' \in [Users -> Seq(Bytes)] /\ msg'[p] = <<>> /\ \A q \in Users \ {p} : msg'[q] = msg[q]
  <2>1. <<>> \in Seq(Bytes)
    OBVIOUS
  <2> QED BY <2>1, <1>0, <1>1 DEF Types
<1>4. mboxs \in [Boxes -> Mailboxes]
  BY <1>0, <1>1 DEF Types
<1>5. /\ mboxs' \in [Boxes -> Mailboxes]
      /\ \A c \in Boxes : mboxs'[c] = IF c = mailbox(p) THEN [mboxs[c] EXCEPT !.lock_on_box = None] ELSE mboxs[c]
  BY <1>1, <1>2, <1>4, SetLock
<1>6. \A b \in Boxes : QueuesOf(b)
  BY <1>4, <1>5 DEF QueuesOf, Mailboxes
<1>7. pc' \in [Users -> Labels] /\ pc'[p] = "ready" /\ \A q \in Users \ {p} : pc'[q] = pc[q]
  BY <1>0, <1>1, SetPc DEF Labels, Return
<1>8. op'[p] = op[p] + 1 /\ \A q \in Users \ {p} : op'[q] = op[q]
  BY <1>0, <1>1, SetOp DEF Return
<1>9. inbox' \in [Users -> Seq(Seq(Bytes))]
  <2>1. inbox \in [Users -> Seq(Seq(Bytes))] /\ msg[p] \in Seq(Bytes)
    BY <1>0 DEF Types
  <2>2. strrev(msg[p]) \in Seq(Bytes)
    <3> DEFINE s == msg[p]
    <3>1. s \in Seq(Bytes) /\ Len(s) \in Nat
      BY <2>1
    <3> HIDE DEF s
    <3>2. \A n \in 1..Len(s) : s[Len(s) + 1 - n] \in Bytes
      BY <3>1
    <3>3. strrev(s) \in [1..Len(s) -> Bytes]
      BY <3>2 DEF strrev
    <3>4. strrev(s) \in Seq(Bytes)
      BY <3>1, <3>3
    <3> QED BY <3>4 DEF s
  <2>3. ASSUME NEW B, NEW I \in [Users -> Seq(B)], NEW x \in B
        PROVE  [I EXCEPT ![p] = Append(@, x)] \in [Users -> Seq(B)]
    BY <2>3
  <2>4. [inbox EXCEPT ![p] = Append(@, strrev(msg[p]))] \in [Users -> Seq(Seq(Bytes))]
    BY ONLY <2>1, <2>2, <2>3, Zenon
  <2> QED BY <2>1, <2>4, <1>1, <1>2
<1>10. \A n \in Names : box'[p][n] # 0 => SinceOpen(p, n, op[p] + 1)
  <2> SUFFICES ASSUME NEW n \in Names, box'[p][n] # 0 PROVE SinceOpen(p, n, op[p] + 1)
    OBVIOUS
  <2>1. SinceOpen(p, n, op[p])
    BY <1>0, <1>1 DEF Opened
  <2>2. ~IsCall(p, op[p], "close", n)
    BY <1>2 DEF IsCall
  <2> QED BY <2>1, <2>2, <1>2, SinceNext
<1>11. box' \in [Users -> [Names -> Boxes \cup {0}]]
  BY <1>0, <1>1 DEF Types
<1>12. Control'
  BY <1>1, <1>3, <1>5, <1>6, <1>9, <1>10, <1>11, StepEnds
<1>13. Touches(p)
  <2>1. \A c \in Boxes : mboxs'[c].name = mboxs[c].name /\ mboxs'[c].num_users = mboxs[c].num_users
    BY <1>4, <1>5 DEF Mailboxes
  <2> QED BY <2>1, <1>1, <1>2, <1>5, <1>7, <1>8 DEF Touches, Moving
<1> QED BY <1>1, <1>2, <1>3, <1>5, <1>7, <1>8, <1>12, <1>13

\* condition_signal of the queue s, left as r.
Signals(s, r) == \/ pc' = pc /\ r = s
                 \/ s # <<>> /\ pc' = [pc EXCEPT ![Head(s)] = "relock"] /\ r = Tail(s)

\* A signal moves only a process that waits,
LEMMA SignalOthers ==
  ASSUME NEW p \in Users, Types, pc[p] = "locked", NEW b, NEW do, NEW s \in Seq(Users), QueueOf(s, b, do),
         NEW r, Signals(s, r)
  PROVE  /\ pc' \in [Users -> Labels] /\ pc'[p] = "locked" /\ r \in Seq(Users)
         /\ \A q \in Users \ {p} : pc'[q] = pc[q] \/ (pc[q] = "waiting" /\ pc'[q] = "relock")
         /\ \A q \in Users : pc'[q] = pc[q] \/ (pc[q] = "waiting" /\ pc'[q] = "relock" /\ s # <<>> /\ q = Head(s))
<1>0. pc \in [Users -> Labels]
  BY DEF Types
<1>1. CASE pc' = pc /\ r = s
  BY <1>0, <1>1
<1>2. CASE s # <<>> /\ pc' = [pc EXCEPT ![Head(s)] = "relock"] /\ r = Tail(s)
  <2>1. Head(s) \in ImageOf(s) /\ r \in Seq(Users)
    BY <1>2, TailQueue DEF QueueOf
  <2>2. Head(s) \in Users /\ pc[Head(s)] = "waiting"
    BY <2>1, MembersAre DEF QueueOf
  <2>3. Head(s) # p /\ "relock" \in Labels
    BY <2>2 DEF Labels, Moving
  <2> QED BY <1>0, <1>2, <2>1, <2>2, <2>3
<1> QED BY <1>1, <1>2 DEF Signals

\* and keeps all queues right.
LEMMA SignalQueues ==
  ASSUME NEW p \in Users, Types, Others(p), pc[p] = "locked",
         NEW b, NEW do, NEW s \in Seq(Users), QueueOf(s, b, do), NEW r, Signals(s, r)
  PROVE  /\ QueueOf(r, b, do)'
         /\ \A c, d : \A u \in Seq(Users) : QueueOf(u, c, d) /\ (c # b \/ d # do) => QueueOf(u, c, d)'
<1>0. pc \in [Users -> Labels] /\ ImageOf(s) \subseteq Users
  BY MembersAre DEF Types
<1>1. CASE pc' = pc /\ r = s
  <2>1. ASSUME NEW c, NEW d, NEW u \in Seq(Users), QueueOf(u, c, d) PROVE QueueOf(u, c, d)'
    <3>1. \A q \in ImageOf(u) : q # p /\ pc'[q] = "waiting"
      BY <1>1, <2>1 DEF QueueOf
    <3> QED BY <2>1, <3>1, QueueKept
  <2>2. QueueOf(s, b, do)'
    BY <2>1
  <2> QED BY <1>1, <2>1, <2>2
<1>2. CASE s # <<>> /\ pc' = [pc EXCEPT ![Head(s)] = "relock"] /\ r = Tail(s)
  <2>1. /\ Head(s) \in ImageOf(s) /\ r \in Seq(Users) /\ NoDup(r)
        /\ ImageOf(r) \subseteq ImageOf(s) /\ Head(s) \notin ImageOf(r)
    BY <1>2, TailQueue DEF QueueOf
  <2>2. \A q \in Users \ {Head(s)} : pc'[q] = pc[q]
    BY <1>0, <1>2
  <2>3. \A q \in ImageOf(r) : q # p /\ pc'[q] = "waiting"
    BY <2>1, <2>2, <1>0 DEF QueueOf
  <2>4. QueueOf(r, b, do)'
    BY <2>1, <2>3, QueueLeft
  <2>5. ASSUME NEW c, NEW d, NEW u \in Seq(Users), QueueOf(u, c, d), c # b \/ d # do PROVE QueueOf(u, c, d)'
    <3>1. mailbox(Head(s)) = b /\ Call(Head(s)).do = do
      BY <2>1 DEF QueueOf
    <3>2. Head(s) \notin ImageOf(u)
      BY <3>1, <2>5 DEF QueueOf
    <3>3. \A q \in ImageOf(u) : q \in Users /\ q # p /\ pc'[q] = "waiting"
      BY <2>2, <2>5, <3>2, MembersAre DEF QueueOf
    <3> QED BY <2>5, <3>3, QueueKept
  <2> QED BY <2>4, <2>5
<1> QED BY <1>1, <1>2 DEF Signals

Waits(M, N, b, p, cond) == N = [M EXCEPT ![b][cond] = Append(@, p), ![b].lock_on_box = None]
Waited(M, N, b, p, cond) ==
    /\ N \in [Boxes -> Mailboxes]
    /\ \A c \in Boxes \ {b} : N[c] = M[c]
    /\ N[b].name = M[b].name /\ N[b].num_users = M[b].num_users /\ N[b].buffer = M[b].buffer
    /\ N[b].lock_on_box = None
    /\ N[b].not_full = IF cond = "not_full" THEN Append(M[b].not_full, p) ELSE M[b].not_full
    /\ N[b].not_empty = IF cond = "not_empty" THEN Append(M[b].not_empty, p) ELSE M[b].not_empty

\* condition_wait, by its assignments.
LEMMA WaitSets ==
  ASSUME NEW M \in [Boxes -> Mailboxes], NEW b \in Boxes, NEW p \in Users, NEW cond \in {"not_full", "not_empty"},
         NEW N, Waits(M, N, b, p, cond)
  PROVE  Waited(M, N, b, p, cond)
<1> DEFINE r == [M[b] EXCEPT ![cond] = Append(M[b][cond], p)]
<1>0. M[b] \in Mailboxes
  OBVIOUS
<1>1. /\ r \in Mailboxes /\ r.name = M[b].name /\ r.num_users = M[b].num_users /\ r.buffer = M[b].buffer
      /\ r.not_full = IF cond = "not_full" THEN Append(M[b].not_full, p) ELSE M[b].not_full
      /\ r.not_empty = IF cond = "not_empty" THEN Append(M[b].not_empty, p) ELSE M[b].not_empty
  <2>1. CASE cond = "not_full"
    <3>1. r = [M[b] EXCEPT !.not_full = Append(M[b].not_full, p)]
      BY <2>1, <1>0 DEF Mailboxes
    <3>2. Append(M[b].not_full, p) \in Seq(Users)
      BY <1>0 DEF Mailboxes
    <3> QED BY <2>1, <3>1, <3>2, <1>0 DEF Mailboxes
  <2>2. CASE cond = "not_empty"
    <3>1. r = [M[b] EXCEPT !.not_empty = Append(M[b].not_empty, p)]
      BY <2>2, <1>0 DEF Mailboxes
    <3>2. Append(M[b].not_empty, p) \in Seq(Users)
      BY <1>0 DEF Mailboxes
    <3> QED BY <2>2, <3>1, <3>2, <1>0 DEF Mailboxes
  <2> QED BY <2>1, <2>2
<1> DEFINE x == [r EXCEPT !.lock_on_box = None]
<1>2. N = [M EXCEPT ![b] = x]
  BY Zenon DEF Waits
<1> HIDE DEF r
<1>3. /\ x \in Mailboxes /\ x.name = r.name /\ x.num_users = r.num_users /\ x.buffer = r.buffer
      /\ x.not_full = r.not_full /\ x.not_empty = r.not_empty /\ x.lock_on_box = None
  BY <1>1 DEF Mailboxes
<1> HIDE DEF x
<1> QED BY <1>1, <1>2, <1>3 DEF Waited

\* condition_wait: in mbox_send when the mailbox is full, in mbox_recv when it is
\* empty.
LEMMA WaitControl ==
  ASSUME NEW p \in Users, Control, SendWait(p) \/ RecvWait(p)
  PROVE  /\ Control' /\ Touches(p) /\ UNCHANGED <<op, box, i, reg, msg, inbox>>
         /\ pc[p] = "locked" /\ pc'[p] = "waiting" /\ \A q \in Users \ {p} : pc'[q] = pc[q]
         /\ Unfinished(p) /\ mboxs'[mailbox(p)].buffer = mboxs[mailbox(p)].buffer
         /\ mboxs'[mailbox(p)].lock_on_box = None
         /\ Len(mboxs[mailbox(p)].buffer) = IF Call(p).do = "send" THEN MAIL_CAPACITY ELSE 0
<1>0. Types /\ InCalls /\ OneInside /\ Opened /\ Queued
  BY DEF Control
<1>1. /\ UNCHANGED <<op, box, i, reg, msg, inbox>> /\ Goto(p, "waiting") /\ pc[p] = "locked" /\ Unfinished(p)
      /\ Len(mboxs[mailbox(p)].buffer) = IF Call(p).do = "send" THEN MAIL_CAPACITY ELSE 0
  BY DEF SendWait, RecvWait, Transfers, space_used, Wait
<1>a. PICK cond \in {"not_full", "not_empty"} :
        /\ mboxs' = [mboxs EXCEPT ![mailbox(p)][cond] = Append(@, p), ![mailbox(p)].lock_on_box = None]
        /\ cond = "not_full" <=> Call(p).do = "send"
        /\ cond = "not_empty" <=> Call(p).do = "recv"
  <2>1. CASE SendWait(p)
    BY <2>1 DEF SendWait, Transfers, Wait
  <2>2. CASE RecvWait(p)
    BY <2>2 DEF RecvWait, Transfers, Wait
  <2> QED BY <2>1, <2>2
<1>2. /\ op[p] <= Len(Program[p]) /\ Call(p).do \in {"send", "recv"} /\ mailbox(p) \in Boxes /\ mailbox(p) # 0
  BY <1>1, MovingCall DEF Moving
<1>3. mboxs \in [Boxes -> Mailboxes] /\ msg' \in [Users -> Seq(Bytes)]
  BY <1>0, <1>1 DEF Types
<1>b. PICK b \in Boxes : b = mailbox(p)
  BY <1>2
<1>c. Waits(mboxs, mboxs', b, p, cond)
  BY <1>a, <1>b DEF Waits
<1>d. Waited(mboxs, mboxs', b, p, cond)
  BY <1>3, <1>c, WaitSets
<1>4. /\ mboxs' \in [Boxes -> Mailboxes]
      /\ \A c \in Boxes \ {b} : mboxs'[c] = mboxs[c]
      /\ mboxs'[b].name = mboxs[b].name /\ mboxs'[b].num_users = mboxs[b].num_users /\ mboxs'[b].buffer = mboxs[b].buffer
      /\ mboxs'[b].lock_on_box = None
      /\ mboxs'[b].not_full = IF cond = "not_full" THEN Append(mboxs[b].not_full, p) ELSE mboxs[b].not_full
      /\ mboxs'[b].not_empty = IF cond = "not_empty" THEN Append(mboxs[b].not_empty, p) ELSE mboxs[b].not_empty
  BY <1>d DEF Waited
<1>5. pc' \in [Users -> Labels] /\ pc'[p] = "waiting" /\ \A q \in Users \ {p} : pc'[q] = pc[q]
  BY <1>0, <1>1, SetPc DEF Labels, Moving
<1>6. Others(p)
  BY <1>1, <1>5 DEF Others, Still
<1>7. Call(p)' = Call(p) /\ mailbox(p)' = mailbox(p)
  BY <1>1, StillCall, StillMailbox
<1>8. ASSUME NEW c, NEW do, NEW u \in Seq(Users), QueueOf(u, c, do)
      PROVE  /\ p \notin ImageOf(u) /\ NoDup(u)
             /\ \A q \in ImageOf(u) : pc'[q] = "waiting" /\ q # p
             /\ QueueOf(u, c, do)'
  <2>1. \A q \in ImageOf(u) : pc'[q] = "waiting" /\ q # p
    BY <1>1, <1>5, <1>8, MembersAre DEF QueueOf
  <2>2. QueueOf(u, c, do)'
    BY <1>6, <1>8, <2>1, QueueKept
  <2> QED BY <1>8, <2>1, <2>2 DEF QueueOf
<1>9. ASSUME NEW do, Call(p).do = do, NEW u \in Seq(Users), QueueOf(u, b, do), NEW t, t = Append(u, p)
      PROVE  QueueOf(t, b, do)'
  <2>1. /\ p \notin ImageOf(u) /\ NoDup(u) /\ \A q \in ImageOf(u) : pc'[q] = "waiting" /\ q # p
    BY <1>8, <1>9
  <2>2. NoDup(t) /\ ImageOf(t) \subseteq ImageOf(u) \cup {p}
    BY <2>1, <1>9, AppendQueue
  <2>3. mailbox(p)' = b /\ Call(p)'.do = do
    BY <1>b, <1>7, <1>9
  <2> QED BY <1>5, <1>6, <1>9, <2>1, <2>2, <2>3, QueueJoined
<1>10. Queued'
  <2> SUFFICES ASSUME NEW c \in Boxes, NEW s, NEW t, s = mboxs'[c].not_full, t = mboxs'[c].not_empty
               PROVE  QueueOf(s, c, "send")' /\ QueueOf(t, c, "recv")'
    BY DEF Queued
  <2>1. PICK u \in Seq(Users), v \in Seq(Users) : u = mboxs[c].not_full /\ v = mboxs[c].not_empty
    BY <1>3 DEF Mailboxes
  <2>2. QueueOf(u, c, "send") /\ QueueOf(v, c, "recv")
    BY <2>1, <1>0 DEF Queued
  <2>3. QueueOf(u, c, "send")' /\ QueueOf(v, c, "recv")'
    BY <2>2, <1>8
  <2>4. CASE s = u /\ t = v
    BY <2>3, <2>4
  <2>5. CASE c = b /\ cond = "not_full" /\ s = Append(u, p) /\ t = v
    BY <2>2, <2>3, <2>5, <1>9, <1>a
  <2>6. CASE c = b /\ cond = "not_empty" /\ s = u /\ t = Append(v, p)
    BY <2>2, <2>3, <2>6, <1>9, <1>a
  <2> QED BY <2>1, <2>4, <2>5, <2>6, <1>4
<1>11. Control'
  BY <1>1, <1>2, <1>3, <1>4, <1>5, <1>10, StepMoves
<1>12. Touches(p)
  BY <1>1, <1>2, <1>b, <1>4, <1>5 DEF Touches, Moving
<1> QED BY <1>1, <1>b, <1>4, <1>5, <1>11, <1>12

\* A byte moves, and the queue of those who wait for it is signalled.
LEMMA SetBuffer ==
  ASSUME NEW m \in Mailboxes, NEW s \in Seq(Bytes), NEW x, x = [m EXCEPT !.buffer = s]
  PROVE  /\ x \in Mailboxes /\ x.buffer = s /\ x.name = m.name /\ x.num_users = m.num_users
         /\ x.lock_on_box = m.lock_on_box /\ x.not_full = m.not_full /\ x.not_empty = m.not_empty
BY DEF Mailboxes

\* The queue of not_empty.
LEMMA SetNotEmpty ==
  ASSUME NEW m \in Mailboxes, NEW s \in Seq(Users), NEW x, x = [m EXCEPT !.not_empty = s]
  PROVE  /\ x \in Mailboxes /\ x.buffer = m.buffer /\ x.name = m.name /\ x.num_users = m.num_users
         /\ x.lock_on_box = m.lock_on_box /\ x.not_full = m.not_full /\ x.not_empty = s
BY DEF Mailboxes

\* The queue of not_full.
LEMMA SetNotFull ==
  ASSUME NEW m \in Mailboxes, NEW s \in Seq(Users), NEW x, x = [m EXCEPT !.not_full = s]
  PROVE  /\ x \in Mailboxes /\ x.buffer = m.buffer /\ x.name = m.name /\ x.num_users = m.num_users
         /\ x.lock_on_box = m.lock_on_box /\ x.not_full = s /\ x.not_empty = m.not_empty
BY DEF Mailboxes

\* A signal that is given on a condition only.
LEMMA SignalRest ==
  ASSUME NEW s \in Seq(Users), NEW wake, IF wake THEN Signal(s) ELSE UNCHANGED pc,
         NEW r, r = IF wake THEN Rest(s) ELSE s
  PROVE  Signals(s, r) /\ r \in Seq(Users)
<1>1. CASE wake
  <2>1. CASE s = <<>>
    BY <1>1, <2>1 DEF Signal, Rest, Signals
  <2>2. CASE s # <<>>
    BY <1>1, <2>2 DEF Signal, Rest, Signals
  <2> QED BY <2>1, <2>2
<1>2. CASE ~wake
  BY <1>2 DEF Signals
<1> QED BY <1>1, <1>2

\* Such a step of p in mailbox b, with the contents m afterwards.
Moved(p, b, m) ==
    /\ m \in Mailboxes /\ mboxs'[b] = m /\ mboxs' \in [Boxes -> Mailboxes]
    /\ \A c \in Boxes \ {b} : mboxs'[c] = mboxs[c]
    /\ m.name = mboxs[b].name /\ m.num_users = mboxs[b].num_users /\ m.lock_on_box = mboxs[b].lock_on_box
    /\ \/ m.not_full = mboxs[b].not_full /\ Signals(mboxs[b].not_empty, m.not_empty)
       \/ m.not_empty = mboxs[b].not_empty /\ Signals(mboxs[b].not_full, m.not_full)

\* Such a step keeps Control.
LEMMA MovedControl ==
  ASSUME NEW p \in Users, Control, pc[p] = "locked", NEW b \in Boxes, b = mailbox(p), NEW m, Moved(p, b, m),
         UNCHANGED <<op, box, i, reg, inbox>>,
         NEW s \in Seq(Bytes), msg' = [msg EXCEPT ![p] = s]
  PROVE  /\ Control' /\ Touches(p) /\ pc'[p] = "locked" /\ msg'[p] = s
         /\ \A q \in Users \ {p} : /\ pc'[q] = pc[q] \/ (pc[q] = "waiting" /\ pc'[q] = "relock")
                                   /\ msg'[q] = msg[q]
<1>0. Types /\ InCalls /\ OneInside /\ Opened /\ Queued
  BY DEF Control
<1>1. msg' \in [Users -> Seq(Bytes)] /\ msg'[p] = s /\ \A q \in Users \ {p} : msg'[q] = msg[q]
  BY <1>0 DEF Types
<1>2. /\ op[p] <= Len(Program[p]) /\ Call(p).do \in {"send", "recv"} /\ mailbox(p) # 0
  BY MovingCall DEF Moving
<1>3. mboxs \in [Boxes -> Mailboxes]
  BY <1>0 DEF Types
<1>4. PICK u \in Seq(Users), v \in Seq(Users) : u = mboxs[b].not_full /\ v = mboxs[b].not_empty
  BY <1>3 DEF Mailboxes
<1>5. QueueOf(u, b, "send") /\ QueueOf(v, b, "recv")
  BY <1>4, <1>0 DEF Queued
<1>6. \/ m.not_full = u /\ Signals(v, m.not_empty)
      \/ m.not_empty = v /\ Signals(u, m.not_full)
  BY <1>4 DEF Moved
<1>7. /\ pc' \in [Users -> Labels] /\ pc'[p] = "locked"
      /\ \A q \in Users \ {p} : pc'[q] = pc[q] \/ (pc[q] = "waiting" /\ pc'[q] = "relock")
  <2>1. CASE Signals(v, m.not_empty)
    BY <2>1, <1>0, <1>5, SignalOthers
  <2>2. CASE Signals(u, m.not_full)
    BY <2>2, <1>0, <1>5, SignalOthers
  <2> QED BY <2>1, <2>2, <1>6
<1>8. Others(p)
  BY <1>1, <1>7 DEF Others, Still
<1>9. /\ QueueOf(m.not_full, b, "send")' /\ QueueOf(m.not_empty, b, "recv")'
      /\ \A c \in Boxes \ {b} : \A w \in Seq(Users), do \in {"send", "recv"} : QueueOf(w, c, do) => QueueOf(w, c, do)'
  <2>0. "send" # "recv"
    OBVIOUS
  <2>1. CASE m.not_full = u /\ Signals(v, m.not_empty)
    <3>1. /\ QueueOf(m.not_empty, b, "recv")'
          /\ \A c, d : \A w \in Seq(Users) : QueueOf(w, c, d) /\ (c # b \/ d # "recv") => QueueOf(w, c, d)'
      BY <2>1, <1>0, <1>5, <1>8, SignalQueues
    <3>2. QueueOf(u, b, "send")'
      BY <3>1, <2>0, <1>5
    <3> QED BY <2>1, <3>1, <3>2
  <2>2. CASE m.not_empty = v /\ Signals(u, m.not_full)
    <3>1. /\ QueueOf(m.not_full, b, "send")'
          /\ \A c, d : \A w \in Seq(Users) : QueueOf(w, c, d) /\ (c # b \/ d # "send") => QueueOf(w, c, d)'
      BY <2>2, <1>0, <1>5, <1>8, SignalQueues
    <3>2. QueueOf(v, b, "recv")'
      BY <3>1, <2>0, <1>5
    <3> QED BY <2>2, <3>1, <3>2
  <2> QED BY <2>1, <2>2, <1>6
<1>10. Queued'
  <2> SUFFICES ASSUME NEW c \in Boxes, NEW x, NEW y, x = mboxs'[c].not_full, y = mboxs'[c].not_empty
               PROVE  QueueOf(x, c, "send")' /\ QueueOf(y, c, "recv")'
    BY DEF Queued
  <2>1. CASE c = b
    <3>1. x = m.not_full /\ y = m.not_empty
      BY <2>1 DEF Moved
    <3> QED BY <2>1, <3>1, <1>9
  <2>2. CASE c # b
    <3>1. x = mboxs[c].not_full /\ y = mboxs[c].not_empty
      BY <2>2 DEF Moved
    <3>2. x \in Seq(Users) /\ y \in Seq(Users)
      BY <3>1, <1>3 DEF Mailboxes
    <3>3. QueueOf(x, c, "send") /\ QueueOf(y, c, "recv")
      BY <3>1, <1>0 DEF Queued
    <3> QED BY <2>2, <3>2, <3>3, <1>9
  <2> QED BY <2>1, <2>2
<1>11. Control'
  BY <1>1, <1>2, <1>7, <1>10, StepMoves DEF Moved
<1>12. Touches(p)
  <2>1. \A q \in Users : pc'[q] = pc[q] \/ (pc[q] = "waiting" /\ pc'[q] = "relock")
    BY <1>7
  <2> QED BY <2>1 DEF Touches, Moving, Moved
<1> QED BY <1>1, <1>7, <1>11, <1>12

\* The loop body of mbox_send.
LEMMA SendByteControl ==
  ASSUME NEW p \in Users, Control, SendByte(p), NEW b \in Boxes, b = mailbox(p)
  PROVE  /\ Control' /\ Touches(p) /\ UNCHANGED <<op, box, i, reg, inbox>>
         /\ pc[p] = "locked" /\ pc'[p] = "locked" /\ Call(p).do = "send" /\ Unfinished(p)
         /\ Len(mboxs[b].buffer) < MAIL_CAPACITY
         /\ mboxs'[b].buffer = Append(mboxs[b].buffer, <<p, op[p], Len(msg[p]) + 1>>)
         /\ mboxs'[b].lock_on_box = mboxs[b].lock_on_box
         /\ msg'[p] = Append(msg[p], <<p, op[p], Len(msg[p]) + 1>>)
         /\ \A q \in Users \ {p} : /\ pc'[q] = pc[q] \/ (pc[q] = "waiting" /\ pc'[q] = "relock")
                                   /\ msg'[q] = msg[q]
<1>0. Types
  BY DEF Control
<1> DEFINE byte == <<p, op[p], Len(msg[p]) + 1>>
           old == mboxs[b]
           m == [old EXCEPT !.buffer = Append(@, byte)]
           wake == Len(m.buffer) = 1
           new == IF wake THEN [m EXCEPT !.not_empty = Rest(@)] ELSE m
<1>1. /\ pc[p] = "locked" /\ Call(p).do = "send" /\ Unfinished(p) /\ Len(mboxs[b].buffer) < MAIL_CAPACITY
      /\ msg' = [msg EXCEPT ![p] = Append(msg[p], byte)]
      /\ mboxs' = [mboxs EXCEPT ![b] = new]
      /\ IF wake THEN Signal(m.not_empty) ELSE UNCHANGED pc
      /\ UNCHANGED <<op, box, i, reg, inbox>>
  BY DEF SendByte, Transfers, space_used
<1>2. msg[p] \in Seq(Bytes) /\ op[p] \in Nat /\ mboxs \in [Boxes -> Mailboxes]
  BY <1>0 DEF Types
<1>3. byte \in Bytes /\ old \in Mailboxes
  BY <1>2 DEF Bytes
<1> HIDE DEF byte, old
<1>4. old.buffer \in Seq(Bytes) /\ old.not_empty \in Seq(Users)
  BY <1>3 DEF Mailboxes
<1>5. Append(old.buffer, byte) \in Seq(Bytes) /\ Append(msg[p], byte) \in Seq(Bytes)
  BY <1>2, <1>3, <1>4
<1>6. /\ m \in Mailboxes /\ m.buffer = Append(old.buffer, byte) /\ m.name = old.name /\ m.num_users = old.num_users
      /\ m.lock_on_box = old.lock_on_box /\ m.not_full = old.not_full /\ m.not_empty = old.not_empty
  <2>1. m = [old EXCEPT !.buffer = Append(old.buffer, byte)]
    OBVIOUS
  <2> DEFINE longer == Append(old.buffer, byte)
  <2>2. longer \in Seq(Bytes) /\ m = [old EXCEPT !.buffer = longer]
    BY <1>5, <2>1
  <2> HIDE DEF m, longer
  <2>3. /\ m \in Mailboxes /\ m.buffer = longer /\ m.name = old.name /\ m.num_users = old.num_users
        /\ m.lock_on_box = old.lock_on_box /\ m.not_full = old.not_full /\ m.not_empty = old.not_empty
    BY <2>2, <1>3, SetBuffer
  <2> QED BY <2>3 DEF longer
<1> HIDE DEF m
<1>7. wake \in BOOLEAN
  OBVIOUS
<1> HIDE DEF wake
<1>8. /\ Signals(old.not_empty, IF wake THEN Rest(old.not_empty) ELSE old.not_empty)
      /\ (IF wake THEN Rest(old.not_empty) ELSE old.not_empty) \in Seq(Users)
  BY <1>1, <1>4, <1>6, SignalRest
<1>9. /\ new \in Mailboxes /\ new.buffer = Append(old.buffer, byte) /\ new.name = old.name /\ new.num_users = old.num_users
      /\ new.lock_on_box = old.lock_on_box /\ new.not_full = old.not_full
      /\ new.not_empty = IF wake THEN Rest(old.not_empty) ELSE old.not_empty
  <2>1. CASE wake
    <3>1. new = [m EXCEPT !.not_empty = Rest(old.not_empty)]
      BY <2>1, <1>6
    <3>2. Rest(old.not_empty) \in Seq(Users)
      BY <2>1, <1>8
    <3> HIDE DEF new
    <3> QED BY <2>1, <3>1, <3>2, <1>6, SetNotEmpty
  <2>2. CASE ~wake
    <3>1. new = m
      BY <2>2
    <3> HIDE DEF new
    <3> QED BY <2>2, <3>1, <1>6
  <2> QED BY <1>7, <2>1, <2>2
<1> HIDE DEF new
<1>10. Moved(p, b, new)
  BY <1>1, <1>2, <1>8, <1>9 DEF Moved, old
<1>11. /\ Control' /\ Touches(p) /\ pc'[p] = "locked" /\ msg'[p] = Append(msg[p], byte)
       /\ \A q \in Users \ {p} : /\ pc'[q] = pc[q] \/ (pc[q] = "waiting" /\ pc'[q] = "relock")
                                 /\ msg'[q] = msg[q]
  BY <1>1, <1>5, <1>10, MovedControl
<1>12. mboxs'[b].buffer = Append(mboxs[b].buffer, byte) /\ mboxs'[b].lock_on_box = mboxs[b].lock_on_box
  BY <1>9, <1>10 DEF Moved, old
<1> QED BY <1>1, <1>11, <1>12 DEF byte

\* The loop body of mbox_recv.
LEMMA RecvByteControl ==
  ASSUME NEW p \in Users, Control, RecvByte(p), NEW b \in Boxes, b = mailbox(p)
  PROVE  /\ Control' /\ Touches(p) /\ UNCHANGED <<op, box, i, reg, inbox>>
         /\ pc[p] = "locked" /\ pc'[p] = "locked" /\ Call(p).do = "recv" /\ Unfinished(p)
         /\ Len(mboxs[b].buffer) > 0
         /\ mboxs'[b].buffer = SubSeq(mboxs[b].buffer, 1, Len(mboxs[b].buffer) - 1)
         /\ mboxs'[b].lock_on_box = mboxs[b].lock_on_box
         /\ msg'[p] = Append(msg[p], mboxs[b].buffer[Len(mboxs[b].buffer)])
         /\ \A q \in Users \ {p} : /\ pc'[q] = pc[q] \/ (pc[q] = "waiting" /\ pc'[q] = "relock")
                                   /\ msg'[q] = msg[q]
<1>0. Types
  BY DEF Control
<1> DEFINE old == mboxs[b]
           byte == old.buffer[Len(old.buffer)]
           short == SubSeq(old.buffer, 1, Len(old.buffer) - 1)
           m == [old EXCEPT !.buffer = short]
           wake == Len(m.buffer) = MAIL_CAPACITY - 1
           new == IF wake THEN [m EXCEPT !.not_full = Rest(@)] ELSE m
<1>1. /\ pc[p] = "locked" /\ Call(p).do = "recv" /\ Unfinished(p) /\ Len(mboxs[b].buffer) > 0
      /\ msg' = [msg EXCEPT ![p] = Append(msg[p], byte)]
      /\ mboxs' = [mboxs EXCEPT ![b] = new]
      /\ IF wake THEN Signal(m.not_full) ELSE UNCHANGED pc
      /\ UNCHANGED <<op, box, i, reg, inbox>>
  BY DEF RecvByte, Transfers, space_used
<1>2. msg[p] \in Seq(Bytes) /\ op[p] \in Nat /\ mboxs \in [Boxes -> Mailboxes]
  BY <1>0 DEF Types
<1>3. old \in Mailboxes /\ Len(old.buffer) > 0
  BY <1>1, <1>2
<1> HIDE DEF old
<1>4. old.buffer \in Seq(Bytes) /\ old.not_full \in Seq(Users)
  BY <1>3 DEF Mailboxes
<1>a. byte \in Bytes /\ short \in Seq(Bytes)
  BY <1>3, <1>4
<1> HIDE DEF byte, short
<1>5. Append(msg[p], byte) \in Seq(Bytes)
  BY <1>2, <1>a
<1>6. /\ m \in Mailboxes /\ m.buffer = short /\ m.name = old.name /\ m.num_users = old.num_users
      /\ m.lock_on_box = old.lock_on_box /\ m.not_full = old.not_full /\ m.not_empty = old.not_empty
  BY <1>3, <1>a, SetBuffer
<1> HIDE DEF m
<1>7. wake \in BOOLEAN
  OBVIOUS
<1> HIDE DEF wake
<1>8. /\ Signals(old.not_full, IF wake THEN Rest(old.not_full) ELSE old.not_full)
      /\ (IF wake THEN Rest(old.not_full) ELSE old.not_full) \in Seq(Users)
  BY <1>1, <1>4, <1>6, SignalRest
<1>9. /\ new \in Mailboxes /\ new.buffer = short /\ new.name = old.name /\ new.num_users = old.num_users
      /\ new.lock_on_box = old.lock_on_box /\ new.not_empty = old.not_empty
      /\ new.not_full = IF wake THEN Rest(old.not_full) ELSE old.not_full
  <2>1. CASE wake
    <3>1. new = [m EXCEPT !.not_full = Rest(old.not_full)]
      BY <2>1, <1>6
    <3>2. Rest(old.not_full) \in Seq(Users)
      BY <2>1, <1>8
    <3> HIDE DEF new
    <3> QED BY <2>1, <3>1, <3>2, <1>6, SetNotFull
  <2>2. CASE ~wake
    <3>1. new = m
      BY <2>2
    <3> HIDE DEF new
    <3> QED BY <2>2, <3>1, <1>6
  <2> QED BY <1>7, <2>1, <2>2
<1> HIDE DEF new
<1>10. Moved(p, b, new)
  BY <1>1, <1>2, <1>8, <1>9 DEF Moved, old
<1>11. /\ Control' /\ Touches(p) /\ pc'[p] = "locked" /\ msg'[p] = Append(msg[p], byte)
       /\ \A q \in Users \ {p} : /\ pc'[q] = pc[q] \/ (pc[q] = "waiting" /\ pc'[q] = "relock")
                                 /\ msg'[q] = msg[q]
  BY <1>1, <1>5, <1>10, MovedControl
<1>12. mboxs'[b].buffer = short /\ mboxs'[b].lock_on_box = mboxs[b].lock_on_box
  BY <1>9, <1>10 DEF Moved, old
<1> QED BY <1>1, <1>11, <1>12 DEF byte, short, old

-----------------------------------------------------------------------------
(***************************************************************************)
(* Users and names.                                                         *)
(***************************************************************************)
\* The variables that hold the mailboxes.
Opens == [Users -> [Names -> Boxes \cup {0}]]

\* Who has mailbox b open, and under which name.
Openers(B, b) == {x \in Users \X Names : B[x[1]][x[2]] = b}

\* A process has left mailbox b, but still has it in its variable.
Leaving(b) == \E p \in Users : pc[p] \in {"test", "reset"} /\ mailbox(p) = b
Left(b) == IF Leaving(b) THEN 1 ELSE 0
CountOf(b) == Cardinality(Openers(box, b)) = mboxs[b].num_users + Left(b)

\* An open mailbox has the name it was opened by, and a name has one mailbox.
NamesTrue == \A p \in Users, n \in Names : box[p][n] # 0 => mboxs[box[p][n]].name = n
NamesApart == \A b, c \in Boxes : mboxs[b].name = mboxs[c].name /\ mboxs[b].name # None => b = c

\* What a process in mbox_open or mbox_close has found out still holds.
Within(p) ==
    /\ pc[p] \in {"spare", "copy"} => \A b \in Boxes : mboxs[b].name # Call(p).name
    /\ pc[p] = "copy" => i[p] \in Boxes /\ mboxs[i[p]].num_users = 0
    /\ pc[p] \in {"load", "store"} => i[p] \in Boxes /\ mboxs[i[p]].name = Call(p).name
    /\ pc[p] = "store" => reg[p] = mboxs[i[p]].num_users
    /\ pc[p] = "down" => reg[p] = mboxs[mailbox(p)].num_users
    /\ pc[p] = "reset" => mboxs[mailbox(p)].num_users = 0

\* A mailbox without users is as new, or a process is about to make it so or
\* to be its first user.
RestoredBox(b) ==
    mboxs[b].num_users = 0 =>
        \/ mboxs[b] = Fresh
        \/ Leaving(b)
        \/ \E p \in Users : pc[p] \in {"load", "store"} /\ i[p] = b

\* num_users counts those who have the mailbox open, but for one that is in
\* mbox_close; names are true; a mailbox that nobody uses is as new.
Counts == /\ \A b \in Boxes : CountOf(b) /\ RestoredBox(b)
          /\ NamesTrue /\ NamesApart
          /\ \A p \in Users : Within(p)

\* The users of a mailbox can be counted,
LEMMA OpenersFinite ==
  ASSUME NEW B, NEW b
  PROVE  IsFiniteSet(Openers(B, b)) /\ Cardinality(Openers(B, b)) \in Nat
<1>1. IsFiniteSet(Users \X Names)
  BY MailboxAssumption, FS_Product
<1>2. Openers(B, b) \in SUBSET (Users \X Names)
  BY DEF Openers
<1>3. IsFiniteSet(Openers(B, b))
  BY <1>1, <1>2, FS_Subset
<1> QED BY <1>3, FS_CardinalityType

\* and one more that opens b counts in b only.
LEMMA OpenersAdd ==
  ASSUME NEW B \in Opens, NEW C \in Opens, NEW p \in Users, NEW n \in Names, NEW b \in Boxes,
         B[p][n] = 0, C[p][n] = b, \A m \in Names \ {n} : C[p][m] = B[p][m],
         \A q \in Users \ {p} : C[q] = B[q], NEW c \in Boxes
  PROVE  Cardinality(Openers(C, c)) = Cardinality(Openers(B, c)) + IF c = b THEN 1 ELSE 0
<1>0. 0 \notin Boxes
  BY MailboxAssumption DEF Boxes
<1>1. \A x \in Users \X Names : x # <<p, n>> => C[x[1]][x[2]] = B[x[1]][x[2]]
  <2> SUFFICES ASSUME NEW q \in Users, NEW m \in Names, <<q, m>> # <<p, n>> PROVE C[q][m] = B[q][m]
    OBVIOUS
  <2>1. CASE q = p
    BY <2>1
  <2>2. CASE q # p
    BY <2>2
  <2> QED BY <2>1, <2>2
<1>2. <<p, n>> \notin Openers(B, c)
  BY <1>0 DEF Openers
<1>3. CASE c = b
  <2>1. Openers(C, c) = Openers(B, c) \cup {<<p, n>>}
    BY <1>1, <1>2, <1>3 DEF Openers
  <2>2. IsFiniteSet(Openers(B, c))
    BY OpenersFinite
  <2>3. Cardinality(Openers(B, c) \cup {<<p, n>>}) = Cardinality(Openers(B, c)) + 1
    BY <1>2, <2>2, FS_AddElement
  <2> QED BY <1>3, <2>1, <2>3
<1>4. CASE c # b
  <2>1. Openers(C, c) = Openers(B, c)
    BY <1>1, <1>2, <1>4 DEF Openers
  <2> QED BY <1>4, <2>1, OpenersFinite
<1> QED BY <1>3, <1>4

\* Only p is within mbox_open or mbox_close.
LEMMA OnlyInside ==
  ASSUME NEW p \in Users, \A q \in Users \ {p} : pc[q] \notin Inside, \A q \in Users \ {p} : pc'[q] = pc[q]
  PROVE  /\ \A b : Leaving(b) <=> (pc[p] \in {"test", "reset"} /\ mailbox(p) = b)
         /\ \A b : Leaving(b)' <=> (pc'[p] \in {"test", "reset"} /\ mailbox(p)' = b)
         /\ \A q \in Users \ {p} : Within(q)'
<1>1. \A q \in Users \ {p} : pc[q] \notin {"spare", "copy", "load", "store", "down", "test", "reset"}
  BY DEF Inside
<1>2. \A q \in Users \ {p} : pc'[q] \notin {"spare", "copy", "load", "store", "down", "test", "reset"}
  BY <1>1
<1>3. \A q \in Users \ {p} : Within(q)'
  BY <1>2 DEF Within
<1>4. \A b : Leaving(b) <=> (pc[p] \in {"test", "reset"} /\ mailbox(p) = b)
  BY <1>1 DEF Leaving
<1>5. \A b : Leaving(b)' <=> (pc'[p] \in {"test", "reset"} /\ mailbox(p)' = b)
  BY <1>2 DEF Leaving
<1> QED BY <1>3, <1>4, <1>5

\* The conjuncts of Counts.
LEMMA CountsParts ==
  ASSUME Counts
  PROVE  /\ \A b \in Boxes : CountOf(b) /\ RestoredBox(b)
         /\ NamesTrue /\ NamesApart
         /\ \A p \in Users : Within(p)
BY DEF Counts

\* A step that moves no user in or out, and no num_users.
LEMMA CountKept ==
  ASSUME NEW b \in Boxes, CountOf(b), box' = box, mboxs'[b].num_users = mboxs[b].num_users, Leaving(b)' <=> Leaving(b)
  PROVE  CountOf(b)'
BY DEF CountOf, Left

\* Within, for p and for the others.
LEMMA AllWithin ==
  ASSUME NEW p \in Users, \A q \in Users \ {p} : Within(q)', Within(p)'
  PROVE  \A q \in Users : Within(q)'
OBVIOUS

\* No mailbox is renamed, opened or closed.
LEMMA NamesKept ==
  ASSUME Types, NamesTrue, NamesApart, box' = box, \A c \in Boxes : mboxs'[c].name = mboxs[c].name
  PROVE  NamesTrue' /\ NamesApart'
<1>1. \A p \in Users, n \in Names : box[p][n] \in Boxes \cup {0}
  BY DEF Types
<1>2. NamesTrue'
  BY <1>1 DEF NamesTrue
<1>3. NamesApart'
  BY DEF NamesApart
<1> QED BY <1>2, <1>3

\* The types of mailboxes.
LEMMA BoxTypes ==
  ASSUME Control
  PROVE  /\ Types /\ OneInside /\ 0 \notin Boxes /\ box \in Opens
         /\ \A b \in Boxes : mboxs[b] \in Mailboxes /\ mboxs[b].num_users \in Int
<1>1. Types /\ OneInside /\ 0 \notin Boxes
  BY MailboxAssumption DEF Control, Boxes
<1>2. box \in Opens
  BY <1>1 DEF Types, Opens
<1>3. \A b \in Boxes : mboxs[b] \in Mailboxes
  BY <1>1 DEF Types
<1>4. \A b \in Boxes : mboxs[b].num_users \in Int
  BY <1>3 DEF Mailboxes
<1> QED BY <1>1, <1>2, <1>3, <1>4

\* Who is in mbox_open or mbox_close is there alone.
LEMMA InsideAlone ==
  ASSUME NEW p \in Users, OneInside, pc[p] \in Inside
  PROVE  \A q \in Users \ {p} : pc[q] \notin Inside
BY DEF OneInside

\* Steps that leave the mailboxes alone.
LEMMA LookCounts ==
  ASSUME NEW p \in Users, Control, Counts, UNCHANGED <<mboxs, op, box>>,
         \A q \in Users \ {p} : pc[q] \notin Inside, \A q \in Users \ {p} : pc'[q] = pc[q],
         Within(p)', pc[p] \notin {"test", "reset", "store"}, pc'[p] \notin {"test", "reset"},
         pc[p] = "load" => pc'[p] = "store" /\ i' = i
  PROVE  Counts'
<1>0. Types /\ NamesTrue /\ NamesApart
  BY CountsParts, BoxTypes
<1>1. /\ \A b : Leaving(b) <=> (pc[p] \in {"test", "reset"} /\ mailbox(p) = b)
      /\ \A b : Leaving(b)' <=> (pc'[p] \in {"test", "reset"} /\ mailbox(p)' = b)
      /\ \A q \in Users \ {p} : Within(q)'
  BY OnlyInside
<1>2. \A b : ~Leaving(b) /\ ~Leaving(b)'
  BY <1>1
<1>3. \A q \in Users : Within(q)'
  BY <1>1, AllWithin
<1>4. NamesTrue' /\ NamesApart'
  BY <1>0, NamesKept
<1>5. ASSUME NEW b \in Boxes PROVE CountOf(b)' /\ RestoredBox(b)'
  <2>1. CountOf(b) /\ RestoredBox(b)
    BY CountsParts
  <2>2. CountOf(b)'
    BY <2>1, <1>2, CountKept
  <2>3. RestoredBox(b)'
    <3> SUFFICES ASSUME mboxs'[b].num_users = 0
                 PROVE  mboxs'[b] = Fresh \/ \E q \in Users : pc'[q] \in {"load", "store"} /\ i'[q] = b
      BY DEF RestoredBox
    <3>1. mboxs[b] = Fresh \/ \E q \in Users : pc[q] \in {"load", "store"} /\ i[q] = b
      BY <2>1, <1>2 DEF RestoredBox
    <3>2. ASSUME NEW q \in Users, pc[q] \in {"load", "store"}, i[q] = b PROVE q = p /\ pc[q] = "load"
      BY <3>2 DEF Inside
    <3> QED BY <3>1, <3>2
  <2> QED BY <2>2, <2>3
<1> QED BY <1>3, <1>4, <1>5 DEF Counts

\* One lemma for each step of mbox_open and mbox_close: the search,
LEMMA SearchCounts ==
  ASSUME Orderly, NEW p \in Users, Control, Counts, OpenSearch(p)
  PROVE  Counts'
<1>1. /\ UNCHANGED <<mboxs, op, box>> /\ Begins(p, "open")
      /\ \A q \in Users : pc[q] \notin Inside
      /\ \A q \in Users \ {p} : pc'[q] = pc[q]
      /\ \/ pc'[p] = "spare" /\ \A b \in Boxes : mboxs[b].name # Call(p).name
         \/ pc'[p] = "load" /\ i'[p] \in Boxes /\ mboxs[i'[p]].name = Call(p).name
  BY SearchControl
<1>2. pc[p] = "ready"
  BY <1>1 DEF Begins
<1>3. Call(p)' = Call(p)
  BY <1>1, StillCall
<1>4. Within(p)'
  BY <1>1, <1>3 DEF Within
<1> QED BY <1>1, <1>2, <1>4, LookCounts

\* the choice of a spare mailbox,
LEMMA SpareCounts ==
  ASSUME NEW p \in Users, Control, Counts, OpenSpare(p)
  PROVE  Counts'
<1>1. /\ UNCHANGED <<mboxs, op, box>> /\ pc[p] = "spare"
      /\ \A q \in Users \ {p} : pc'[q] = pc[q]
      /\ \/ pc'[p] = "spin"
         \/ pc'[p] = "copy" /\ i'[p] \in Boxes /\ mboxs[i'[p]].num_users = 0
  BY SpareControl
<1>2. pc[p] \in Inside
  BY <1>1 DEF Inside
<1>3. \A q \in Users \ {p} : pc[q] \notin Inside
  BY <1>2, BoxTypes, InsideAlone
<1>4. Call(p)' = Call(p)
  BY <1>1, StillCall
<1>5. Within(p)'
  <2>1. Within(p)
    BY CountsParts
  <2> QED BY <2>1, <1>1, <1>4 DEF Within
<1> QED BY <1>1, <1>3, <1>5, LookCounts

\* the load of num_users in mbox_open,
LEMMA LoadCounts ==
  ASSUME NEW p \in Users, Control, Counts, OpenLoad(p)
  PROVE  Counts'
<1>0. Within(p) /\ pc[p] = "load"
  BY CountsParts DEF OpenLoad
<1>a. i[p] \in Boxes
  BY <1>0 DEF Within
<1>1. /\ UNCHANGED <<mboxs, op, box, i>> /\ pc[p] = "load" /\ pc'[p] = "store" /\ reg'[p] = mboxs[i[p]].num_users
      /\ \A q \in Users \ {p} : pc'[q] = pc[q]
  BY <1>a, LoadControl
<1>2. pc[p] \in Inside
  BY <1>1 DEF Inside
<1>3. \A q \in Users \ {p} : pc[q] \notin Inside
  BY <1>2, BoxTypes, InsideAlone
<1>4. Call(p)' = Call(p)
  BY <1>1, StillCall
<1>5. Within(p)'
  BY <1>0, <1>1, <1>4 DEF Within
<1> QED BY <1>1, <1>3, <1>5, LookCounts

\* the one in mbox_close,
LEMMA DownCounts ==
  ASSUME Orderly, NEW p \in Users, Control, Counts, CloseLoad(p)
  PROVE  Counts'
<1>1. /\ UNCHANGED <<mboxs, op, box>> /\ pc[p] = "ready" /\ \A q \in Users : pc[q] \notin Inside
      /\ pc'[p] = "down" /\ reg'[p] = mboxs[mailbox(p)].num_users
      /\ \A q \in Users \ {p} : pc'[q] = pc[q]
  BY DownControl
<1>2. mailbox(p)' = mailbox(p)
  BY <1>1, StillMailbox
<1>3. Within(p)'
  BY <1>1, <1>2 DEF Within
<1> QED BY <1>1, <1>3, LookCounts

\* the new name: no other mailbox has it, and nobody has this one open,
LEMMA CopyCounts ==
  ASSUME NEW p \in Users, Control, Counts, OpenCopy(p)
  PROVE  Counts'
<1>0. Types /\ NamesTrue /\ NamesApart /\ Within(p)
  BY CountsParts, BoxTypes
<1>1. /\ UNCHANGED <<op, box, i, reg>> /\ pc[p] = "copy"
      /\ pc'[p] = "load" /\ \A q \in Users \ {p} : pc'[q] = pc[q]
      /\ \A c \in Boxes : mboxs'[c] = IF c = i[p] THEN [mboxs[c] EXCEPT !.name = Call(p).name] ELSE mboxs[c]
  BY CopyControl
<1>2. pc[p] \in Inside
  BY <1>1 DEF Inside
<1>3. \A q \in Users \ {p} : pc[q] \notin Inside
  BY <1>2, BoxTypes, InsideAlone
<1>4. PICK b \in Boxes : b = i[p]
  BY <1>0, <1>1 DEF Within
<1>5. PICK n : n = Call(p).name
  OBVIOUS
<1>6. mboxs[b].num_users = 0 /\ \A c \in Boxes : mboxs[c].name # n
  BY <1>0, <1>1, <1>4, <1>5 DEF Within
<1>7. /\ mboxs'[b].name = n /\ mboxs'[b].num_users = 0
      /\ \A c \in Boxes \ {b} : mboxs'[c] = mboxs[c]
      /\ \A c \in Boxes : mboxs'[c].num_users = mboxs[c].num_users
  BY <1>1, <1>4, <1>5, <1>6, BoxTypes DEF Mailboxes
<1>8. /\ \A c : Leaving(c) <=> (pc[p] \in {"test", "reset"} /\ mailbox(p) = c)
      /\ \A c : Leaving(c)' <=> (pc'[p] \in {"test", "reset"} /\ mailbox(p)' = c)
      /\ \A q \in Users \ {p} : Within(q)'
  BY <1>1, <1>3, OnlyInside
<1>9. \A c : ~Leaving(c) /\ ~Leaving(c)'
  BY <1>1, <1>8
<1>10. \A q \in Users, m \in Names : box[q][m] # b
  <2>1. Cardinality(Openers(box, b)) = 0
    BY <1>6, <1>9, CountsParts DEF CountOf, Left
  <2>2. Openers(box, b) = {}
    BY <2>1, OpenersFinite, FS_EmptySet
  <2> SUFFICES ASSUME NEW q \in Users, NEW m \in Names, box[q][m] = b PROVE FALSE
    OBVIOUS
  <2>3. <<q, m>> \in Openers(box, b)
    BY DEF Openers
  <2> QED BY <2>2, <2>3
<1>11. NamesTrue'
  <2> SUFFICES ASSUME NEW q \in Users, NEW m \in Names, box[q][m] # 0 PROVE mboxs'[box[q][m]].name = m
    BY <1>1 DEF NamesTrue
  <2>1. box[q][m] \in Boxes \ {b}
    BY <1>0, <1>10 DEF Types
  <2> QED BY <2>1, <1>0, <1>7 DEF NamesTrue
<1>12. NamesApart'
  BY <1>0, <1>6, <1>7 DEF NamesApart
<1>13. Within(p)'
  <2>1. Call(p)' = Call(p)
    BY <1>1, StillCall
  <2> QED BY <2>1, <1>1, <1>4, <1>5, <1>7 DEF Within
<1>14. \A q \in Users : Within(q)'
  BY <1>8, <1>13, AllWithin
<1>15. ASSUME NEW c \in Boxes PROVE CountOf(c)' /\ RestoredBox(c)'
  <2>1. CountOf(c) /\ RestoredBox(c)
    BY CountsParts
  <2>2. CountOf(c)'
    BY <2>1, <1>1, <1>7, <1>9, CountKept
  <2>3. RestoredBox(c)'
    <3>1. CASE c = b
      BY <3>1, <1>1, <1>4 DEF RestoredBox
    <3>2. CASE c # b
      <4>1. \A q \in Users : pc[q] \notin {"load", "store"}
        BY <1>1, <1>3 DEF Inside
      <4> QED BY <3>2, <4>1, <2>1, <1>7, <1>9 DEF RestoredBox
    <3> QED BY <3>1, <3>2
  <2> QED BY <2>2, <2>3
<1> QED BY <1>11, <1>12, <1>14, <1>15 DEF Counts

\* the store of num_users + 1: nobody else changed num_users since the load,
LEMMA StoreCounts ==
  ASSUME NEW p \in Users, Control, Counts, OpenStore(p)
  PROVE  Counts'
<1>0. Types /\ NamesTrue /\ NamesApart /\ Within(p) /\ box \in Opens /\ 0 \notin Boxes
  BY CountsParts, BoxTypes
<1>1. /\ UNCHANGED <<i, reg>> /\ pc[p] = "store" /\ Control'
      /\ pc'[p] = "ready" /\ \A q \in Users \ {p} : pc'[q] = pc[q] /\ op'[q] = op[q] /\ box'[q] = box[q]
      /\ Call(p).name \in Names /\ mailbox(p) = 0
      /\ box'[p][Call(p).name] = i[p] /\ \A m \in Names \ {Call(p).name} : box'[p][m] = box[p][m]
      /\ \A c \in Boxes : mboxs'[c] = IF c = i[p] THEN [mboxs[c] EXCEPT !.num_users = reg[p] + 1] ELSE mboxs[c]
  BY StoreControl
<1>2. pc[p] \in Inside
  BY <1>1 DEF Inside
<1>3. \A q \in Users \ {p} : pc[q] \notin Inside
  BY <1>2, BoxTypes, InsideAlone
<1>4. PICK b \in Boxes : b = i[p]
  BY <1>0, <1>1 DEF Within
<1>5. PICK n \in Names : n = Call(p).name
  BY <1>1
<1>6. mboxs[b].name = n /\ reg[p] = mboxs[b].num_users
  BY <1>0, <1>1, <1>4, <1>5 DEF Within
<1>7. /\ mboxs'[b].num_users = mboxs[b].num_users + 1
      /\ \A c \in Boxes \ {b} : mboxs'[c] = mboxs[c]
      /\ \A c \in Boxes : mboxs'[c].name = mboxs[c].name
  <2>1. mboxs[b] \in Mailboxes
    BY BoxTypes
  <2>2. mboxs'[b] = [mboxs[b] EXCEPT !.num_users = mboxs[b].num_users + 1]
    BY <1>1, <1>4, <1>6
  <2>3. mboxs'[b].num_users = mboxs[b].num_users + 1 /\ mboxs'[b].name = mboxs[b].name
    BY <2>1, <2>2 DEF Mailboxes
  <2>4. \A c \in Boxes \ {b} : mboxs'[c] = mboxs[c]
    BY <1>1, <1>4
  <2> QED BY <2>3, <2>4
<1>8. /\ \A c : Leaving(c) <=> (pc[p] \in {"test", "reset"} /\ mailbox(p) = c)
      /\ \A c : Leaving(c)' <=> (pc'[p] \in {"test", "reset"} /\ mailbox(p)' = c)
      /\ \A q \in Users \ {p} : Within(q)'
  BY <1>1, <1>3, OnlyInside
<1>9. \A c : ~Leaving(c) /\ ~Leaving(c)'
  BY <1>1, <1>8
<1>10. box[p][n] = 0 /\ box'[p][n] = b /\ (\A m \in Names \ {n} : box'[p][m] = box[p][m]) /\ box' \in Opens
  BY <1>1, <1>4, <1>5 DEF mailbox, Control, Types, Opens
<1>11. NamesTrue'
  <2> SUFFICES ASSUME NEW q \in Users, NEW m \in Names, box'[q][m] # 0 PROVE mboxs'[box'[q][m]].name = m
    BY DEF NamesTrue
  <2>1. CASE q = p /\ m = n
    BY <2>1, <1>6, <1>7, <1>10
  <2>2. CASE q # p \/ m # n
    <3>1. box'[q][m] = box[q][m] /\ box[q][m] \in Boxes
      BY <2>2, <1>0, <1>1, <1>10 DEF Types
    <3> QED BY <3>1, <1>0, <1>7 DEF NamesTrue
  <2> QED BY <2>1, <2>2
<1>12. NamesApart'
  BY <1>0, <1>7 DEF NamesApart
<1>13. Within(p)'
  BY <1>1 DEF Within
<1>14. \A q \in Users : Within(q)'
  BY <1>8, <1>13, AllWithin
<1>15. ASSUME NEW c \in Boxes PROVE CountOf(c)' /\ RestoredBox(c)'
  <2>1. CountOf(c) /\ RestoredBox(c) /\ mboxs[c].num_users \in Int
    BY CountsParts, BoxTypes
  <2>2. Cardinality(Openers(box', c)) = Cardinality(Openers(box, c)) + IF c = b THEN 1 ELSE 0
    BY <1>0, <1>1, <1>10, OpenersAdd
  <2>3. Cardinality(Openers(box, c)) \in Nat /\ Cardinality(Openers(box, c)) = mboxs[c].num_users
    BY <2>1, <1>9, OpenersFinite DEF CountOf, Left
  <2>4. CASE c = b
    <3>1. Cardinality(Openers(box', c)) = mboxs'[c].num_users /\ mboxs'[c].num_users \in Nat \ {0}
      BY <2>2, <2>3, <2>4, <1>7
    <3> QED BY <3>1, <2>1, <2>3, <1>9 DEF CountOf, Left, RestoredBox
  <2>5. CASE c # b
    <3>1. Cardinality(Openers(box', c)) = mboxs'[c].num_users /\ mboxs'[c] = mboxs[c]
      BY <2>2, <2>3, <2>5, <1>7
    <3>2. \A q \in Users : pc[q] \in {"load", "store"} => i[q] # c
      BY <2>5, <1>3, <1>4 DEF Inside
    <3> QED BY <3>1, <3>2, <2>1, <2>3, <1>9 DEF CountOf, Left, RestoredBox
  <2> QED BY <2>4, <2>5
<1> QED BY <1>11, <1>12, <1>14, <1>15 DEF Counts

\* the store of num_users - 1, after which the process is leaving,
LEMMA CloseStoreCounts ==
  ASSUME NEW p \in Users, Control, Counts, CloseStore(p)
  PROVE  Counts'
<1>0. Types /\ NamesTrue /\ NamesApart /\ Within(p)
  BY CountsParts, BoxTypes
<1>1. /\ UNCHANGED <<op, box, i, reg>> /\ pc[p] = "down" /\ mailbox(p) \in Boxes
      /\ pc'[p] = "test" /\ \A q \in Users \ {p} : pc'[q] = pc[q]
      /\ \A c \in Boxes : mboxs'[c] = IF c = mailbox(p) THEN [mboxs[c] EXCEPT !.num_users = reg[p] - 1] ELSE mboxs[c]
  BY CloseStoreControl
<1>2. pc[p] \in Inside
  BY <1>1 DEF Inside
<1>3. \A q \in Users \ {p} : pc[q] \notin Inside
  BY <1>2, BoxTypes, InsideAlone
<1>4. PICK b \in Boxes : b = mailbox(p)
  BY <1>1
<1>5. mailbox(p)' = b
  BY <1>1, <1>4, StillMailbox
<1>6. reg[p] = mboxs[b].num_users
  BY <1>0, <1>1, <1>4 DEF Within
<1>7. /\ mboxs'[b].num_users = mboxs[b].num_users - 1
      /\ \A c \in Boxes \ {b} : mboxs'[c] = mboxs[c]
      /\ \A c \in Boxes : mboxs'[c].name = mboxs[c].name
  <2>1. mboxs[b] \in Mailboxes
    BY BoxTypes
  <2>2. mboxs'[b] = [mboxs[b] EXCEPT !.num_users = mboxs[b].num_users - 1]
    BY <1>1, <1>4, <1>6
  <2>3. mboxs'[b].num_users = mboxs[b].num_users - 1 /\ mboxs'[b].name = mboxs[b].name
    BY <2>1, <2>2 DEF Mailboxes
  <2>4. \A c \in Boxes \ {b} : mboxs'[c] = mboxs[c]
    BY <1>1, <1>4
  <2> QED BY <2>3, <2>4
<1>8. /\ \A c : Leaving(c) <=> (pc[p] \in {"test", "reset"} /\ mailbox(p) = c)
      /\ \A c : Leaving(c)' <=> (pc'[p] \in {"test", "reset"} /\ mailbox(p)' = c)
      /\ \A q \in Users \ {p} : Within(q)'
  BY <1>1, <1>3, OnlyInside
<1>9. \A c : ~Leaving(c) /\ (Leaving(c)' <=> c = b)
  BY <1>1, <1>5, <1>8
<1>11. NamesTrue' /\ NamesApart'
  BY <1>0, <1>1, <1>7, NamesKept
<1>13. Within(p)'
  BY <1>1 DEF Within
<1>14. \A q \in Users : Within(q)'
  BY <1>8, <1>13, AllWithin
<1>15. ASSUME NEW c \in Boxes PROVE CountOf(c)' /\ RestoredBox(c)'
  <2>1. CountOf(c) /\ RestoredBox(c) /\ mboxs[c].num_users \in Int
    BY CountsParts, BoxTypes
  <2>2. Cardinality(Openers(box, c)) = mboxs[c].num_users
    BY <2>1, <1>9 DEF CountOf, Left
  <2>4. CASE c = b
    <3>1. Cardinality(Openers(box', c)) = mboxs'[c].num_users + 1
      BY <2>1, <2>2, <2>4, <1>1, <1>7
    <3>2. Leaving(c)'
      BY <2>4, <1>9
    <3> QED BY <3>1, <3>2 DEF CountOf, Left, RestoredBox
  <2>5. CASE c # b
    <3>1. mboxs'[c] = mboxs[c] /\ ~Leaving(c)' /\ ~Leaving(c)
      BY <2>5, <1>7, <1>9
    <3>2. \A q \in Users : pc[q] \notin {"load", "store"}
      BY <1>1, <1>3 DEF Inside
    <3>3. CountOf(c)'
      BY <2>1, <3>1, <1>1, CountKept
    <3>4. RestoredBox(c)'
      BY <3>1, <3>2, <2>1 DEF RestoredBox
    <3> QED BY <3>3, <3>4
  <2> QED BY <2>4, <2>5
<1> QED BY <1>11, <1>14, <1>15 DEF Counts

\* The end of mbox_close: with users left, or with the mailbox made new.
LEMMA LeaveCounts ==
  ASSUME NEW p \in Users, Control, Counts, Control', pc[p] \in {"test", "reset"}, pc'[p] = "ready",
         NEW b \in Boxes, b = mailbox(p), NEW n \in Names, n = Call(p).name,
         \A q \in Users \ {p} : pc'[q] = pc[q] /\ box'[q] = box[q],
         box'[p][n] = 0, \A m \in Names \ {n} : box'[p][m] = box[p][m],
         \A c \in Boxes \ {b} : mboxs'[c] = mboxs[c],
         mboxs'[b].num_users = mboxs[b].num_users,
         \/ mboxs[b].num_users # 0 /\ mboxs'[b] = mboxs[b]
         \/ mboxs[b].num_users = 0 /\ mboxs'[b] = Fresh
  PROVE  Counts'
<1>0. Types /\ NamesTrue /\ NamesApart /\ Within(p) /\ box \in Opens /\ 0 \notin Boxes /\ box' \in Opens
  BY CountsParts, BoxTypes DEF Control, Types, Opens
<1>2. pc[p] \in Inside
  BY DEF Inside
<1>3. \A q \in Users \ {p} : pc[q] \notin Inside
  BY <1>2, BoxTypes, InsideAlone
<1>8. /\ \A c : Leaving(c) <=> (pc[p] \in {"test", "reset"} /\ mailbox(p) = c)
      /\ \A c : Leaving(c)' <=> (pc'[p] \in {"test", "reset"} /\ mailbox(p)' = c)
      /\ \A q \in Users \ {p} : Within(q)'
  BY <1>3, OnlyInside
<1>9. \A c : ~Leaving(c)' /\ (Leaving(c) <=> c = b)
  BY <1>8
<1>10. box[p][n] = b
  BY DEF mailbox
<1>a. Cardinality(Openers(box, b)) = mboxs[b].num_users + 1
  BY <1>9, CountsParts DEF CountOf, Left
<1>b. ASSUME NEW q \in Users, NEW m \in Names, box[q][m] = b, mboxs[b].num_users = 0 PROVE q = p /\ m = n
  <2>1. \E x : Openers(box, b) = {x}
    <3>1. Cardinality(Openers(box, b)) = 1 /\ IsFiniteSet(Openers(box, b))
      BY <1>a, <1>b, OpenersFinite
    <3> QED BY <3>1, FS_Singleton, Zenon
  <2>2. <<q, m>> \in Openers(box, b) /\ <<p, n>> \in Openers(box, b)
    BY <1>b, <1>10 DEF Openers
  <2> QED BY <2>1, <2>2
<1>11. NamesTrue'
  <2> SUFFICES ASSUME NEW q \in Users, NEW m \in Names, box'[q][m] # 0 PROVE mboxs'[box'[q][m]].name = m
    BY DEF NamesTrue
  <2>1. q # p \/ m # n
    OBVIOUS
  <2>2. box'[q][m] = box[q][m] /\ box[q][m] \in Boxes
    BY <2>1, <1>0 DEF Types
  <2>3. mboxs'[box[q][m]] = mboxs[box[q][m]]
    BY <2>1, <2>2, <1>b
  <2> QED BY <2>2, <2>3, <1>0 DEF NamesTrue
<1>12. NamesApart'
  <2>1. \A c \in Boxes : mboxs'[c].name = mboxs[c].name \/ mboxs'[c].name = None
    BY DEF Fresh
  <2> QED BY <2>1, <1>0 DEF NamesApart
<1>13. Within(p)'
  BY DEF Within
<1>14. \A q \in Users : Within(q)'
  BY <1>8, <1>13, AllWithin
<1>15. ASSUME NEW c \in Boxes PROVE CountOf(c)' /\ RestoredBox(c)'
  <2>1. CountOf(c) /\ RestoredBox(c) /\ mboxs[c].num_users \in Int /\ mboxs'[c].num_users = mboxs[c].num_users
    BY CountsParts, BoxTypes
  <2>2. Cardinality(Openers(box, c)) = Cardinality(Openers(box', c)) + IF c = b THEN 1 ELSE 0
    BY <1>0, <1>10, OpenersAdd
  <2>3. Cardinality(Openers(box', c)) \in Nat
    BY OpenersFinite
  <2>4. Cardinality(Openers(box, c)) = mboxs[c].num_users + IF c = b THEN 1 ELSE 0
    BY <2>1, <1>9 DEF CountOf, Left
  <2>5. Cardinality(Openers(box', c)) = mboxs'[c].num_users
    BY <2>1, <2>2, <2>3, <2>4
  <2>6. CountOf(c)'
    BY <2>3, <2>5, <1>9 DEF CountOf, Left
  <2>7. RestoredBox(c)'
    <3>1. CASE c = b
      BY <3>1 DEF RestoredBox
    <3>2. CASE c # b
      <4>1. \A q \in Users : pc[q] \notin {"load", "store"}
        BY <1>3 DEF Inside
      <4> QED BY <3>2, <4>1, <2>1, <1>9 DEF RestoredBox
    <3> QED BY <3>1, <3>2
  <2> QED BY <2>6, <2>7
<1> QED BY <1>11, <1>12, <1>14, <1>15 DEF Counts

\* the test: others have it open,
LEMMA TestCounts ==
  ASSUME NEW p \in Users, Control, Counts, CloseTest(p)
  PROVE  Counts'
<1>1. /\ Control' /\ UNCHANGED <<mboxs, i>>
      /\ pc[p] = "test" /\ mailbox(p) \in Boxes /\ Call(p).name \in Names
      /\ \A q \in Users \ {p} : pc'[q] = pc[q] /\ op'[q] = op[q] /\ box'[q] = box[q]
      /\ \/ pc'[p] = "reset" /\ mboxs[mailbox(p)].num_users = 0 /\ UNCHANGED <<op, box>>
         \/ /\ pc'[p] = "ready" /\ mboxs[mailbox(p)].num_users # 0
            /\ box'[p][Call(p).name] = 0 /\ \A m \in Names \ {Call(p).name} : box'[p][m] = box[p][m]
  BY TestControl
<1>2. CASE pc'[p] = "reset" /\ mboxs[mailbox(p)].num_users = 0 /\ UNCHANGED <<op, box>>
  <2>0. Types /\ NamesTrue /\ NamesApart
    BY CountsParts, BoxTypes
  <2>1. pc[p] \in Inside
    BY <1>1 DEF Inside
  <2>2. \A q \in Users \ {p} : pc[q] \notin Inside
    BY <2>1, BoxTypes, InsideAlone
  <2>3. mailbox(p)' = mailbox(p)
    BY <1>2, StillMailbox
  <2>4. /\ \A c : Leaving(c) <=> (pc[p] \in {"test", "reset"} /\ mailbox(p) = c)
        /\ \A c : Leaving(c)' <=> (pc'[p] \in {"test", "reset"} /\ mailbox(p)' = c)
        /\ \A q \in Users \ {p} : Within(q)'
    BY <1>1, <2>2, OnlyInside
  <2>5. \A c : Leaving(c)' <=> Leaving(c)
    BY <1>1, <1>2, <2>3, <2>4
  <2>6. Within(p)'
    BY <1>1, <1>2, <2>3 DEF Within
  <2>7. \A q \in Users : Within(q)'
    BY <2>4, <2>6, AllWithin
  <2>8. NamesTrue' /\ NamesApart'
    BY <2>0, <1>1, <1>2, NamesKept
  <2>9. ASSUME NEW c \in Boxes PROVE CountOf(c)' /\ RestoredBox(c)'
    <3>1. CountOf(c) /\ RestoredBox(c)
      BY CountsParts
    <3>2. CountOf(c)'
      BY <3>1, <2>5, <1>1, <1>2, CountKept
    <3>3. \A q \in Users : pc[q] \notin {"load", "store"}
      BY <1>1, <2>2 DEF Inside
    <3> QED BY <3>1, <3>2, <3>3, <2>5, <1>1 DEF RestoredBox
  <2> QED BY <2>7, <2>8, <2>9 DEF Counts
<1>3. CASE /\ pc'[p] = "ready" /\ mboxs[mailbox(p)].num_users # 0
           /\ box'[p][Call(p).name] = 0 /\ \A m \in Names \ {Call(p).name} : box'[p][m] = box[p][m]
  <2>1. PICK b \in Boxes, n \in Names : b = mailbox(p) /\ n = Call(p).name
    BY <1>1
  <2> QED BY <1>1, <1>3, <2>1, LeaveCounts
<1> QED BY <1>1, <1>2, <1>3

\* or the mailbox is made new; the last user has left.
LEMMA ResetCounts ==
  ASSUME NEW p \in Users, Control, Counts, CloseReset(p)
  PROVE  Counts'
<1>1. /\ Control'
      /\ pc[p] = "reset" /\ mailbox(p) \in Boxes /\ Call(p).name \in Names /\ pc'[p] = "ready"
      /\ \A q \in Users \ {p} : pc'[q] = pc[q] /\ op'[q] = op[q] /\ box'[q] = box[q]
      /\ box'[p][Call(p).name] = 0 /\ \A m \in Names \ {Call(p).name} : box'[p][m] = box[p][m]
      /\ \A c \in Boxes : mboxs'[c] = IF c = mailbox(p) THEN [Fresh EXCEPT !.num_users = mboxs[c].num_users]
                                      ELSE mboxs[c]
  BY ResetControl
<1>2. PICK b \in Boxes, n \in Names : b = mailbox(p) /\ n = Call(p).name
  BY <1>1
<1>3. mboxs[b].num_users = 0
  BY <1>1, <1>2, CountsParts DEF Within
<1>4. mboxs'[b] = Fresh /\ \A c \in Boxes \ {b} : mboxs'[c] = mboxs[c]
  BY <1>1, <1>2, <1>3 DEF Fresh
<1>5. Fresh.num_users = 0
  BY DEF Fresh
<1> QED BY <1>1, <1>2, <1>3, <1>4, <1>5, LeaveCounts

\* mbox_send and mbox_recv leave users and names alone, and touch only a mailbox
\* that has users.
LEMMA TouchCounts ==
  ASSUME NEW p \in Users, Control, Counts, Touches(p), Call(p).name \in Names, pc[p] \in Moving \cup {"ready"}
  PROVE  Counts'
<1>0. Types /\ NamesTrue /\ NamesApart /\ box \in Opens /\ 0 \notin Boxes
  BY CountsParts, BoxTypes
<1>1. /\ UNCHANGED <<box, i, reg>>
      /\ \A q \in Users : op'[q] = op[q] \/ (pc[q] = "locked" /\ pc'[q] = "ready")
      /\ \A q \in Users : pc'[q] = pc[q] \/ (pc[q] \in Moving \cup {"ready"} /\ pc'[q] \in Moving \cup {"ready"})
      /\ mailbox(p) \in Boxes
      /\ \A c \in Boxes : /\ c # mailbox(p) => mboxs'[c] = mboxs[c]
                          /\ mboxs'[c].name = mboxs[c].name /\ mboxs'[c].num_users = mboxs[c].num_users
  BY DEF Touches
<1>2. \A q \in Users : /\ pc[q] \in Inside <=> pc'[q] \in Inside
                       /\ pc[q] \in Inside => pc'[q] = pc[q] /\ Call(q)' = Call(q) /\ mailbox(q)' = mailbox(q)
  <2> SUFFICES ASSUME NEW q \in Users
               PROVE  /\ pc[q] \in Inside <=> pc'[q] \in Inside
                      /\ pc[q] \in Inside => pc'[q] = pc[q] /\ Call(q)' = Call(q) /\ mailbox(q)' = mailbox(q)
    OBVIOUS
  <2>1. CASE pc'[q] = pc[q] /\ op'[q] = op[q]
    BY <2>1, <1>1, StillCall, StillMailbox
  <2>2. CASE pc[q] \in Moving \cup {"ready"} /\ pc'[q] \in Moving \cup {"ready"}
    BY <2>2 DEF Moving, Inside
  <2> QED BY <2>1, <2>2, <1>1 DEF Moving
<1>3. \A q \in Users : Within(q)'
  <2> SUFFICES ASSUME NEW q \in Users PROVE Within(q)'
    OBVIOUS
  <2>1. CASE pc[q] \notin Inside
    BY <2>1, <1>2 DEF Within, Inside
  <2>2. CASE pc[q] \in Inside
    <3>1. Within(q) /\ pc'[q] = pc[q] /\ Call(q)' = Call(q) /\ mailbox(q)' = mailbox(q)
      BY <2>2, <1>2, CountsParts
    <3>2. pc[q] \in {"down", "reset"} => mailbox(q) \in Boxes
      BY ClosingCall DEF Closing
    <3>3. i'[q] = i[q] /\ reg'[q] = reg[q]
      BY <1>1
    <3>4. /\ pc'[q] \in {"spare", "copy"} => \A b \in Boxes : mboxs'[b].name # Call(q)'.name
          /\ pc'[q] = "copy" => i'[q] \in Boxes /\ mboxs'[i'[q]].num_users = 0
      BY <3>1, <3>3, <1>1 DEF Within
    <3>5. /\ pc'[q] \in {"load", "store"} => i'[q] \in Boxes /\ mboxs'[i'[q]].name = Call(q)'.name
          /\ pc'[q] = "store" => reg'[q] = mboxs'[i'[q]].num_users
      BY <3>1, <3>3, <1>1 DEF Within
    <3>6. /\ pc'[q] = "down" => reg'[q] = mboxs'[mailbox(q)'].num_users
          /\ pc'[q] = "reset" => mboxs'[mailbox(q)'].num_users = 0
      BY <3>1, <3>2, <3>3, <1>1 DEF Within
    <3> QED BY <3>4, <3>5, <3>6 DEF Within
  <2> QED BY <2>1, <2>2
<1>4. NamesTrue' /\ NamesApart'
  BY <1>0, <1>1, NamesKept
<1>5. \A c : Leaving(c)' <=> Leaving(c)
  <2>1. \A q \in Users : \A c : (pc'[q] \in {"test", "reset"} /\ mailbox(q)' = c)
                                 <=> (pc[q] \in {"test", "reset"} /\ mailbox(q) = c)
    BY <1>2 DEF Inside
  <2> QED BY <2>1 DEF Leaving
<1>6. ASSUME NEW c \in Boxes PROVE CountOf(c)' /\ RestoredBox(c)'
  <2>1. CountOf(c) /\ RestoredBox(c) /\ mboxs[c].num_users \in Int
    BY CountsParts, BoxTypes
  <2>2. CountOf(c)'
    BY <2>1, <1>1, <1>5, CountKept
  <2>3. \A q \in Users : pc[q] \in {"load", "store"} => pc'[q] = pc[q] /\ i'[q] = i[q]
    BY <1>1, <1>2 DEF Inside
  <2>4. CASE c # mailbox(p)
    <3>1. mboxs'[c] = mboxs[c]
      BY <1>1, <2>4
    <3>2. RestoredBox(c)'
      BY <3>1, <2>1, <2>3, <1>5 DEF RestoredBox
    <3> QED BY <2>2, <3>2
  <2>5. CASE c = mailbox(p)
    <3>1. <<p, Call(p).name>> \in Openers(box, c)
      BY <2>5 DEF Openers, mailbox
    <3>2. Cardinality(Openers(box, c)) # 0
      BY <3>1, OpenersFinite, FS_EmptySet
    <3>3. mboxs[c].num_users # 0 \/ Leaving(c)
      BY <2>1, <3>2 DEF CountOf, Left
    <3>4. RestoredBox(c)'
      BY <3>3, <1>1, <1>5 DEF RestoredBox
    <3> QED BY <2>2, <3>4
  <2> QED BY <2>4, <2>5
<1> QED BY <1>3, <1>4, <1>6 DEF Counts

-----------------------------------------------------------------------------
(***************************************************************************)
(* The mailboxes' users, names and contents.                                *)
(***************************************************************************)
\* The invariant of users, names and closed mailboxes.
UsersInv == Control /\ Counts

\* mbox_init establishes it.
LEMMA InitUsers == Init => UsersInv
<1> SUFFICES ASSUME Init PROVE UsersInv
  OBVIOUS
<1> USE DEF Init
<1>0. 0 \notin Boxes
  BY MailboxAssumption DEF Boxes
<1>1. \A b \in Boxes : mboxs[b] = Fresh
  BY DEF mbox_init
<1>2. Fresh \in Mailboxes
  <2>1. <<>> \in Seq(Bytes) /\ <<>> \in Seq(Users)
    OBVIOUS
  <2> QED BY <2>1 DEF Fresh, Mailboxes
<1>3. Types
  <2>1. mboxs \in [Boxes -> Mailboxes]
    BY <1>2 DEF mbox_init
  <2>2. msg \in [Users -> Seq(Bytes)]
    OBVIOUS
  <2>3. inbox \in [Users -> Seq(Seq(Bytes))]
    OBVIOUS
  <2>4. pc \in [Users -> Labels] /\ op \in [Users -> Nat \ {0}] /\ reg \in [Users -> Int]
    BY DEF Labels
  <2>5. box \in [Users -> [Names -> Boxes \cup {0}]] /\ i \in [Users -> Boxes \cup {0}]
    OBVIOUS
  <2> QED BY <2>1, <2>2, <2>3, <2>4, <2>5 DEF Types
<1>4. InCalls
  BY DEF InCalls, InCall, Opening, Closing, Moving
<1>5. OneInside
  BY DEF OneInside, Inside
<1>6. Opened
  BY DEF Opened
<1>7. Queued
  <2>1. \A b \in Boxes : mboxs[b].not_full = <<>> /\ mboxs[b].not_empty = <<>>
    BY <1>1 DEF Fresh
  <2>2. \A b, do : QueueOf(<<>>, b, do)
    BY DEF QueueOf, NoDup, ImageOf
  <2> QED BY <2>1, <2>2 DEF Queued
<1>8. \A p \in Users : Within(p)
  BY DEF Within
<1>9. NamesTrue
  BY DEF NamesTrue
<1>10. NamesApart
  BY <1>1 DEF NamesApart, Fresh
<1>11. ASSUME NEW b \in Boxes PROVE CountOf(b) /\ RestoredBox(b)
  <2>1. Openers(box, b) = {}
    BY <1>0 DEF Openers
  <2>2. ~Leaving(b)
    BY DEF Leaving
  <2>3. mboxs[b].num_users = 0
    BY <1>1 DEF Fresh
  <2>4. CountOf(b)
    <3>1. Cardinality(Openers(box, b)) = 0
      BY <2>1, FS_EmptySet
    <3> QED BY <3>1, <2>2, <2>3 DEF CountOf, Left
  <2> QED BY <2>4, <1>1 DEF RestoredBox
<1> QED BY <1>3, <1>4, <1>5, <1>6, <1>7, <1>8, <1>9, <1>10, <1>11 DEF UsersInv, Control, Counts

\* mbox_send and mbox_recv keep it,
LEMMA MovesUsers ==
  ASSUME NEW p \in Users, Control, Counts,
         Acquire(p) \/ SendByte(p) \/ SendWait(p) \/ SendEnd(p) \/ RecvByte(p) \/ RecvWait(p) \/ RecvEnd(p)
  PROVE  Control' /\ Counts'
<1>1. Control' /\ Touches(p) /\ pc[p] \in Moving \cup {"ready"} /\ Call(p).name \in Names
  <2>1. CASE Acquire(p)
    <3>1. Control' /\ Touches(p) /\ pc[p] \in {"ready", "relock"} /\ op[p] <= Len(Program[p])
      BY <2>1, AcquireControl
    <3> QED BY <3>1, BoxTypes, CallType DEF Moving
  <2>2. CASE SendWait(p) \/ RecvWait(p)
    <3>1. Control' /\ Touches(p) /\ pc[p] \in Moving
      BY <2>2, WaitControl DEF Moving
    <3> QED BY <3>1, MovingCall
  <2>3. CASE SendEnd(p) \/ RecvEnd(p)
    <3>1. Control' /\ Touches(p) /\ pc[p] \in Moving
      BY <2>3, EndControl DEF Moving
    <3> QED BY <3>1, MovingCall
  <2>4. CASE SendByte(p) \/ RecvByte(p)
    <3>1. pc[p] \in Moving
      BY <2>4 DEF SendByte, RecvByte, Transfers, Moving
    <3>2. PICK b \in Boxes : b = mailbox(p)
      BY <3>1, MovingCall
    <3>3. Control' /\ Touches(p)
      BY <2>4, <3>2, SendByteControl, RecvByteControl
    <3> QED BY <3>1, <3>3, MovingCall
  <2> QED BY <2>1, <2>2, <2>3, <2>4
<1> QED BY <1>1, TouchCounts

\* and so does every step.
LEMMA NextUsers ==
  ASSUME Orderly, UsersInv, [Next]_vars
  PROVE  UsersInv'
<1>0. Control /\ Counts
  BY ONLY SMTT(60), UsersInv DEF UsersInv
<1>1. CASE UNCHANGED vars
  <2>1. /\ mboxs' = mboxs /\ pc' = pc /\ op' = op /\ box' = box /\ i' = i /\ reg' = reg /\ msg' = msg
        /\ inbox' = inbox
    BY <1>1 DEF vars
  <2>2. Types'
    BY ONLY <1>0, <2>1 DEF Control, Types
  <2>3. InCalls' /\ OneInside'
    BY ONLY <1>0, <2>1 DEF Control, InCalls, InCall, OneInside, mailbox, Call
  <2>4. Opened'
    BY ONLY <1>0, <2>1 DEF Control, Opened
  <2>5. Queued'
    BY ONLY <1>0, <2>1 DEF Control, Queued, QueueOf, mailbox, Call
  <2>6. ASSUME NEW b \in Boxes PROVE CountOf(b)' /\ RestoredBox(b)'
    BY ONLY <1>0, <2>1 DEF Counts, CountOf, RestoredBox, Left, Leaving, mailbox, Call
  <2>7. NamesTrue' /\ NamesApart'
    BY ONLY <1>0, <2>1 DEF Counts, NamesTrue, NamesApart
  <2>8. ASSUME NEW p \in Users PROVE Within(p)'
    BY ONLY <1>0, <2>1 DEF Counts, Within, mailbox, Call
  <2> QED BY <2>2, <2>3, <2>4, <2>5, <2>6, <2>7, <2>8 DEF UsersInv, Control, Counts
<1>2. ASSUME NEW p \in Users, Step(p) PROVE Control' /\ Counts'
  <2>1. CASE OpenSearch(p)
    BY <2>1, <1>0, SearchControl, SearchCounts
  <2>2. CASE OpenSpare(p)
    BY <2>2, <1>0, SpareControl, SpareCounts
  <2>3. CASE OpenCopy(p)
    BY <2>3, <1>0, CopyControl, CopyCounts
  <2>4. CASE OpenLoad(p)
    <3>1. i[p] \in Boxes
      BY <2>4, <1>0, CountsParts DEF OpenLoad, Within
    <3> QED BY <2>4, <3>1, <1>0, LoadControl, LoadCounts
  <2>5. CASE OpenStore(p)
    BY <2>5, <1>0, StoreControl, StoreCounts
  <2>6. CASE CloseLoad(p)
    BY <2>6, <1>0, DownControl, DownCounts
  <2>7. CASE CloseStore(p)
    BY <2>7, <1>0, CloseStoreControl, CloseStoreCounts
  <2>8. CASE CloseTest(p)
    BY <2>8, <1>0, TestControl, TestCounts
  <2>9. CASE CloseReset(p)
    BY <2>9, <1>0, ResetControl, ResetCounts
  <2>10. CASE Acquire(p) \/ SendByte(p) \/ SendWait(p) \/ SendEnd(p) \/ RecvByte(p) \/ RecvWait(p) \/ RecvEnd(p)
    BY <2>10, <1>0, MovesUsers
  <2> QED BY <1>2, <2>1, <2>2, <2>3, <2>4, <2>5, <2>6, <2>7, <2>8, <2>9, <2>10 DEF Step
<1>3. CASE Next
  <2>1. (\E p \in Users : Step(p)) \/ UNCHANGED vars
    BY <1>3 DEF Next, Idle
  <2> QED BY <2>1, <1>1, <1>2 DEF UsersInv
<1> QED BY <1>1, <1>3

\* The invariant of the mailboxes' users and names holds of every orderly set of
\* programs, whatever the number of processes, names, mailboxes and bytes.
THEOREM UsersSafe == ASSUME Orderly PROVE Spec => []UsersInv
<1>1. UsersInv /\ [Next]_vars => UsersInv'
  BY NextUsers
<1> QED BY <1>1, InitUsers, PTL DEF Spec

\* Nobody is in mbox_open or mbox_close.
LEMMA QuietNobody ==
  ASSUME Quiet
  PROVE  (\A b : ~Leaving(b)) /\ \A p \in Users : pc[p] \notin {"load", "store"}
BY DEF Quiet, Inside, Leaving

\* num_users is the number of processes that have the mailbox open whenever
\* nobody is in mbox_open or mbox_close: no ++ or -- is lost, provided that no
\* two of these calls overlap.
THEOREM UsersAreCounted == ASSUME Orderly PROVE Spec => []UsersCounted
<1>1. UsersInv => UsersCounted
  <2> SUFFICES ASSUME UsersInv, Quiet, NEW b \in Boxes
               PROVE  mboxs[b].num_users = Cardinality({x \in Users \X Names : box[x[1]][x[2]] = b})
    BY DEF UsersCounted
  <2>1. CountOf(b) /\ mboxs[b].num_users \in Int
    BY CountsParts, BoxTypes DEF UsersInv
  <2>2. ~Leaving(b)
    BY QuietNobody
  <2> QED BY <2>1, <2>2 DEF CountOf, Left, Openers
<1> QED BY <1>1, UsersSafe, PTL

\* Processes that open the same name get the same mailbox, and processes that
\* open different names get different ones, while mbox_close frees mailboxes and
\* mbox_open renames them.
THEOREM NamesMeet == ASSUME Orderly PROVE Spec => []SameNameSameBox
<1>1. UsersInv => SameNameSameBox
  <2> SUFFICES ASSUME UsersInv, NEW p \in Users, NEW q \in Users, NEW n \in Names, NEW m \in Names,
                      box[p][n] # 0, box[q][m] # 0
               PROVE  box[p][n] = box[q][m] <=> n = m
    BY DEF SameNameSameBox
  <2>1. NamesTrue /\ NamesApart /\ Types
    BY CountsParts, BoxTypes DEF UsersInv
  <2>2. box[p][n] \in Boxes /\ box[q][m] \in Boxes
    BY <2>1 DEF Types
  <2>3. mboxs[box[p][n]].name = n /\ mboxs[box[q][m]].name = m /\ n # None
    BY <2>1, MailboxAssumption DEF NamesTrue
  <2> QED BY <2>1, <2>2, <2>3 DEF NamesApart
<1> QED BY <1>1, UsersSafe, PTL

\* A mailbox without users is as mbox_init left it: mbox_open gives out no bytes,
\* waiting processes or lock of an earlier use.
THEOREM ClosedIsNew == ASSUME Orderly PROVE Spec => []RestoredWhenClosed
<1>1. UsersInv => RestoredWhenClosed
  BY QuietNobody DEF UsersInv, Counts, RestoredBox, RestoredWhenClosed
<1> QED BY <1>1, UsersSafe, PTL

-----------------------------------------------------------------------------
(***************************************************************************)
(* Messages in a buffer.                                                    *)
(***************************************************************************)
\* The buffer as a stack.
Top(s) == s[Len(s)]
Front(s) == SubSeq(s, 1, Len(s) - 1)
\* The lengths of k-byte messages in a row.
Multiples(k) == {c * k : c \in Nat}

\* The buffer s ends with the last byte of a message of k bytes.
Whole(s, k) == s # <<>> => Top(s)[3] = k

\* Byte j of s follows the byte of its message before it, and begins a message
\* only where the one below it is complete.
Linked(s, k, j) ==
    /\ s[j][3] \in 1..k /\ \E a \in Multiples(k) : j = a + s[j][3]
    /\ s[j][3] = 1 => j = 1 \/ s[j - 1][3] = k
    /\ s[j][3] # 1 => j # 1 /\ s[j - 1] = <<s[j][1], s[j][2], s[j][3] - 1>>

\* A buffer of messages of k bytes, sent to n.
Contents(s, k, n) == \A j \in 1..Len(s) : Linked(s, k, j) /\ IsCall(s[j][1], s[j][2], "send", n)

\* Process p has sent, in its call o, the bytes m of a message to n.
Sending(p, o, m, s, k) ==
    IF m = <<>> THEN Whole(s, k) ELSE s # <<>> /\ Top(s) = <<p, o, Len(m)>>

\* A process has received the bytes m of a message to n, the last one first.
Receiving(m, s, k, n) ==
    IF m = <<>> THEN Whole(s, k)
    ELSE \E q \in Users, c \in Nat :
            /\ IsCall(q, c, "send", n)
            /\ \A t \in 1..Len(m) : m[t] = <<q, c, k + 1 - t>>
            /\ IF Len(m) < k THEN s # <<>> /\ Top(s) = <<q, c, k - Len(m)>> ELSE Whole(s, k)

\* Between two multiples of k there is at least k.
LEMMA MultipleUnique ==
  ASSUME NEW k \in Nat \ {0}, NEW a \in Multiples(k), NEW b \in Multiples(k), NEW d \in 1..k, b = a + d
  PROVE  d = k
<1>1. PICK x \in Nat, y \in Nat : a = x * k /\ b = y * k
  BY DEF Multiples
<1>2. y > x
  <2>1. SUFFICES ASSUME y <= x PROVE FALSE
    BY <1>1
  <2>2. PICK e \in Nat : x = y + e
    <3>1. x - y \in Nat /\ x = y + (x - y)
      BY <2>1
    <3> QED BY <3>1
  <2>3. x * k = y * k + e * k /\ e * k \in Nat /\ y * k \in Nat
    BY <2>2
  <2> QED BY <1>1, <2>3
<1>3. PICK e \in Nat : y = x + 1 + e
  <2>1. y - x - 1 \in Nat /\ y = x + 1 + (y - x - 1)
    BY <1>2
  <2> QED BY <2>1
<1>4. y * k = x * k + k + e * k /\ e * k \in Nat /\ x * k \in Nat
  BY <1>3
<1> QED BY <1>1, <1>4

\* The next multiple.
LEMMA MultipleNext ==
  ASSUME NEW k \in Nat \ {0}, NEW a \in Multiples(k)
  PROVE  a \in Nat /\ a + k \in Multiples(k) /\ 0 \in Multiples(k)
<1>1. PICK x \in Nat : a = x * k
  BY DEF Multiples
<1>2. a \in Nat /\ a + k = (x + 1) * k /\ x + 1 \in Nat /\ 0 = 0 * k
  BY <1>1
<1> QED BY <1>2 DEF Multiples

\* Numbers other than zero.
LEMMA OneOrMore == \A l \in Nat \ {0} : l = 1 \/ l > 1
OBVIOUS

\* What is left when the top byte is taken.
LEMMA FrontIs ==
  ASSUME NEW s \in Seq(Bytes), s # <<>>
  PROVE  /\ Front(s) \in Seq(Bytes) /\ Len(Front(s)) = Len(s) - 1 /\ Len(s) \in Nat \ {0} /\ Top(s) \in Bytes
         /\ \A j \in 1..(Len(s) - 1) : Front(s)[j] = s[j]
<1>1. Len(s) \in Nat \ {0}
  OBVIOUS
<1>2. Top(s) \in Bytes
  BY <1>1 DEF Top
<1>3. SubSeq(s, 1, Len(s) - 1) \in Seq(Bytes) /\ Len(SubSeq(s, 1, Len(s) - 1)) = Len(s) - 1
  <2>1. SubSeq(s, 1, Len(s) - 1) \in Seq(Bytes)
    BY <1>1
  <2>2. CASE Len(s) = 1
    BY <2>1, <2>2
  <2>3. CASE Len(s) > 1
    BY <2>1, <2>3
  <2>4. Len(s) = 1 \/ Len(s) > 1
    BY ONLY <1>1, OneOrMore
  <2> QED BY <2>2, <2>3, <2>4, Zenon
<1>4. \A j \in 1..(Len(s) - 1) : SubSeq(s, 1, Len(s) - 1)[j] = s[j]
  BY <1>1
<1> QED BY <1>1, <1>2, <1>3, <1>4 DEF Front

\* What there is when a byte is put on top.
LEMMA AppendIs ==
  ASSUME NEW s \in Seq(Bytes), NEW x \in Bytes, NEW t, t = Append(s, x)
  PROVE  /\ t \in Seq(Bytes) /\ Len(t) = Len(s) + 1 /\ Len(s) \in Nat /\ t # <<>> /\ Top(t) = x
         /\ \A j \in 1..Len(s) : t[j] = s[j]
BY DEF Top

\* Linked depends on a byte and the one below.
LEMMA LinkedSame ==
  ASSUME NEW s, NEW t, NEW k, NEW j \in Nat \ {0}, t[j] = s[j], j # 1 => t[j - 1] = s[j - 1], Linked(s, k, j)
  PROVE  Linked(t, k, j)
BY DEF Linked

\* A byte is taken from the buffer.
LEMMA Taken ==
  ASSUME NEW s \in Seq(Bytes), s # <<>>, NEW k \in Nat \ {0}, NEW n, Contents(s, k, n)
  PROVE  Contents(Front(s), k, n)
<1>1. /\ Len(Front(s)) = Len(s) - 1 /\ Len(s) \in Nat \ {0} /\ \A j \in 1..(Len(s) - 1) : Front(s)[j] = s[j]
  BY FrontIs
<1> SUFFICES ASSUME NEW j \in 1..(Len(s) - 1)
             PROVE  Linked(Front(s), k, j) /\ IsCall(Front(s)[j][1], Front(s)[j][2], "send", n)
  BY <1>1 DEF Contents
<1>2. j \in 1..Len(s) /\ j \in Nat \ {0} /\ (j # 1 => j - 1 \in 1..(Len(s) - 1))
  BY <1>1
<1>3. Linked(s, k, j) /\ IsCall(s[j][1], s[j][2], "send", n)
  BY <1>2 DEF Contents
<1>4. Front(s)[j] = s[j] /\ (j # 1 => Front(s)[j - 1] = s[j - 1])
  BY <1>1, <1>2
<1> QED BY <1>2, <1>3, <1>4, LinkedSame

\* A byte is put into the buffer.
LEMMA Put ==
  ASSUME NEW s \in Seq(Bytes), NEW k \in Nat \ {0}, NEW n, Contents(s, k, n),
         NEW x \in Bytes, x[3] \in 1..k, IsCall(x[1], x[2], "send", n),
         x[3] = 1 => Whole(s, k),
         x[3] # 1 => s # <<>> /\ Top(s) = <<x[1], x[2], x[3] - 1>>,
         NEW t, t = Append(s, x)
  PROVE  Contents(t, k, n)
<1>1. /\ Len(t) = Len(s) + 1 /\ Len(s) \in Nat /\ Top(t) = x /\ \A j \in 1..Len(s) : t[j] = s[j]
  BY ONLY s \in Seq(Bytes), x \in Bytes, t = Append(s, x), AppendIs
<1>2. ASSUME NEW j \in 1..Len(s) PROVE Linked(t, k, j) /\ IsCall(t[j][1], t[j][2], "send", n)
  <2>1. j \in Nat \ {0} /\ (j # 1 => j - 1 \in 1..Len(s))
    BY <1>1
  <2>2. Linked(s, k, j) /\ IsCall(s[j][1], s[j][2], "send", n)
    BY DEF Contents
  <2>3. t[j] = s[j] /\ (j # 1 => t[j - 1] = s[j - 1])
    BY <1>1, <2>1
  <2> QED BY <2>1, <2>2, <2>3, LinkedSame
<1> DEFINE l == Len(s)
<1>3. t[l + 1] = x /\ (s # <<>> => l \in 1..l /\ t[l] = Top(s))
  BY <1>1 DEF Top
<1>4. s = <<>> <=> l = 0
  OBVIOUS
<1>5. s # <<>> => Linked(s, k, l)
  BY <1>3 DEF Contents
<1>6. ASSUME s # <<>> PROVE Top(s)[3] \in 1..k /\ \E a \in Multiples(k) : l = a + Top(s)[3]
  BY <1>5, <1>6 DEF Linked, Top
<1>7. \E a \in Multiples(k) : l + 1 = a + x[3]
  <2>1. CASE s = <<>>
    <3>1. x[3] = 1 /\ l = 0 /\ 0 \in Multiples(k)
      <4>1. 0 = 0 * k
        OBVIOUS
      <4> QED BY <2>1, <1>4, <4>1 DEF Multiples
    <3> QED BY <3>1
  <2>2. CASE s # <<>>
    <3>1. PICK a \in Multiples(k) : l = a + Top(s)[3]
      BY <2>2, <1>6
    <3>2. a \in Nat /\ a + k \in Multiples(k)
      BY MultipleNext
    <3>3. CASE x[3] = 1
      <4>1. Top(s)[3] = k
        BY <2>2, <3>3 DEF Whole
      <4> HIDE DEF l
      <4>2. l + 1 = (a + k) + x[3]
        BY <3>1, <3>2, <3>3, <4>1
      <4> QED BY <4>2, <3>2
    <3>4. CASE x[3] # 1
      <4>1. Top(s)[3] = x[3] - 1
        BY <3>4
      <4> HIDE DEF l
      <4>2. l + 1 = a + x[3]
        BY <3>1, <3>2, <4>1
      <4> QED BY <4>2
    <3> QED BY <3>3, <3>4
  <2> QED BY <2>1, <2>2
<1>8. x[3] = 1 => l + 1 = 1 \/ t[(l + 1) - 1][3] = k
  <2> SUFFICES ASSUME x[3] = 1, l # 0 PROVE t[(l + 1) - 1][3] = k
    BY <1>1
  <2>1. s # <<>> /\ (l + 1) - 1 = l
    BY <1>1, <1>4
  <2>2. Top(s)[3] = k
    BY <2>1 DEF Whole
  <2> QED BY <2>1, <2>2, <1>3
<1>9. x[3] # 1 => l + 1 # 1 /\ t[(l + 1) - 1] = <<x[1], x[2], x[3] - 1>>
  <2> SUFFICES ASSUME x[3] # 1 PROVE l + 1 # 1 /\ t[(l + 1) - 1] = <<x[1], x[2], x[3] - 1>>
    OBVIOUS
  <2>1. s # <<>> /\ (l + 1) - 1 = l /\ l # 0
    BY <1>1, <1>4
  <2>2. Top(s) = <<x[1], x[2], x[3] - 1>>
    OBVIOUS
  <2>3. t[l] = Top(s)
    BY <2>1, <1>3
  <2> HIDE DEF l
  <2>4. l + 1 # 1
    BY <2>1, <1>1 DEF l
  <2> QED BY ONLY <2>1, <2>2, <2>3, <2>4
<1>10. Linked(t, k, l + 1) /\ IsCall(t[l + 1][1], t[l + 1][2], "send", n)
  <2> HIDE DEF l
  <2> QED BY <1>3, <1>7, <1>8, <1>9 DEF Linked
<1>11. \A j \in 1..Len(t) : j \in 1..l \/ j = l + 1
  BY <1>1
<1> QED BY <1>2, <1>10, <1>11 DEF Contents

\* What a byte leaves on top when it is taken.
LEMMA Below ==
  ASSUME NEW s \in Seq(Bytes), s # <<>>, NEW k \in Nat \ {0}, NEW n, Contents(s, k, n)
  PROVE  /\ Top(s)[3] \in 1..k /\ IsCall(Top(s)[1], Top(s)[2], "send", n)
         /\ \E a \in Multiples(k) : Len(s) = a + Top(s)[3]
         /\ Top(s)[3] = 1 => Whole(Front(s), k)
         /\ Top(s)[3] # 1 => Front(s) # <<>> /\ Top(Front(s)) = <<Top(s)[1], Top(s)[2], Top(s)[3] - 1>>
<1>1. /\ Front(s) \in Seq(Bytes) /\ Len(Front(s)) = Len(s) - 1 /\ Len(s) \in Nat \ {0}
      /\ \A j \in 1..(Len(s) - 1) : Front(s)[j] = s[j]
  BY FrontIs
<1>2. Len(s) \in 1..Len(s)
  BY ONLY <1>1
<1>3. Linked(s, k, Len(s)) /\ IsCall(s[Len(s)][1], s[Len(s)][2], "send", n)
  BY <1>2 DEF Contents
<1>4. Front(s) = <<>> <=> Len(s) = 1
  <2>1. Front(s) = <<>> <=> Len(Front(s)) = 0
    BY <1>1
  <2> QED BY ONLY <1>1, <2>1
<1>5. Len(s) # 1 => Top(Front(s)) = s[Len(s) - 1]
  <2> SUFFICES ASSUME Len(s) # 1 PROVE Top(Front(s)) = s[Len(s) - 1]
    OBVIOUS
  <2>1. Len(s) - 1 \in 1..(Len(s) - 1)
    BY ONLY <1>1, Len(s) # 1
  <2> QED BY ONLY <2>1, <1>1 DEF Top
<1>6. Top(s)[3] = 1 => Whole(Front(s), k)
  BY ONLY <1>3, <1>4, <1>5 DEF Linked, Whole, Top
<1>7. Top(s)[3] # 1 => Front(s) # <<>> /\ Top(Front(s)) = <<Top(s)[1], Top(s)[2], Top(s)[3] - 1>>
  <2> SUFFICES ASSUME Top(s)[3] # 1 PROVE Front(s) # <<>> /\ Top(Front(s)) = <<Top(s)[1], Top(s)[2], Top(s)[3] - 1>>
    OBVIOUS
  <2>1. Len(s) # 1 /\ s[Len(s) - 1] = <<Top(s)[1], Top(s)[2], Top(s)[3] - 1>>
    BY <1>3 DEF Linked, Top
  <2> QED BY ONLY <2>1, <1>4, <1>5
<1> QED BY ONLY <1>3, <1>6, <1>7 DEF Linked, Top

\* The byte that process p adds next in its call o, after the bytes m.
IsNext(x, p, o, m) == x = <<p, o, Len(m) + 1>>

\* mbox_send puts the next byte: the buffer stays a row of messages.
LEMMA SendPut ==
  ASSUME NEW s \in Seq(Bytes), NEW m \in Seq(Bytes), NEW k \in Nat \ {0}, NEW n, NEW p \in Users, NEW o \in Nat,
         Contents(s, k, n), Sending(p, o, m, s, k), Len(m) < k, IsCall(p, o, "send", n),
         NEW x, IsNext(x, p, o, m), NEW t, t = Append(s, x), NEW u, u = Append(m, x)
  PROVE  Contents(t, k, n) /\ Sending(p, o, u, t, k) /\ x \in Bytes
<1>x. x = <<p, o, Len(m) + 1>>
  BY DEF IsNext
<1>0. Len(m) \in Nat /\ (m = <<>> <=> Len(m) = 0)
  OBVIOUS
<1>1. x \in Bytes /\ x[1] = p /\ x[2] = o /\ x[3] = Len(m) + 1 /\ x[3] \in 1..k
  BY <1>0, <1>x DEF Bytes
<1>2. x[3] = 1 => Whole(s, k)
  BY <1>0, <1>1 DEF Sending
<1>3. x[3] # 1 => s # <<>> /\ Top(s) = <<x[1], x[2], x[3] - 1>>
  <2> SUFFICES ASSUME x[3] # 1 PROVE s # <<>> /\ Top(s) = <<x[1], x[2], x[3] - 1>>
    OBVIOUS
  <2>1. m # <<>> /\ x[3] - 1 = Len(m)
    BY <1>0, <1>1
  <2> QED BY ONLY <2>1, <1>1, Sending(p, o, m, s, k) DEF Sending
<1>4. IsCall(x[1], x[2], "send", n)
  BY <1>1
<1>5. Contents(t, k, n)
  BY <1>1, <1>2, <1>3, <1>4, Put
<1>6. t # <<>> /\ Top(t) = x
  BY ONLY s \in Seq(Bytes), <1>1, t = Append(s, x), AppendIs
<1>7. u # <<>> /\ Len(u) = Len(m) + 1
  BY ONLY m \in Seq(Bytes), <1>1, u = Append(m, x), AppendIs
<1>8. Sending(p, o, u, t, k)
  BY ONLY <1>6, <1>7, <1>x DEF Sending
<1> QED BY <1>1, <1>5, <1>8

\* A sender that finds the mailbox full is at the start of its message, because
\* the length of messages divides the capacity.
LEMMA SendFull ==
  ASSUME NEW s \in Seq(Bytes), NEW m \in Seq(Bytes), NEW k \in Nat \ {0}, NEW n, NEW p, NEW o,
         Contents(s, k, n), Sending(p, o, m, s, k), Len(m) < k, Len(s) \in Multiples(k)
  PROVE  m = <<>> /\ Whole(s, k)
<1> SUFFICES ASSUME m # <<>> PROVE FALSE
  BY DEF Sending
<1>1. s # <<>> /\ Top(s) = <<p, o, Len(m)>>
  BY DEF Sending
<1>2. /\ Top(s)[3] \in 1..k /\ \E a \in Multiples(k) : Len(s) = a + Top(s)[3]
  BY <1>1, Below
<1>3. PICK a \in Multiples(k) : Len(s) = a + Top(s)[3]
  BY <1>2
<1>4. Top(s)[3] = k
  BY <1>2, <1>3, MultipleUnique
<1>5. Len(m) = k /\ Len(m) \in Nat
  BY <1>1, <1>4
<1> QED BY ONLY <1>5, Len(m) < k, k \in Nat

\* A sender that sent all its bytes leaves a complete message on top.
LEMMA SendDone ==
  ASSUME NEW s \in Seq(Bytes), NEW m \in Seq(Bytes), NEW k \in Nat \ {0}, NEW p, NEW o,
         Sending(p, o, m, s, k), Len(m) = k
  PROVE  Whole(s, k)
<1>1. m # <<>>
  OBVIOUS
<1> QED BY <1>1 DEF Sending, Whole

\* mbox_recv takes the top byte: it gets the bytes of one message, from the last
\* one on.
LEMMA RecvTake ==
  ASSUME NEW s \in Seq(Bytes), s # <<>>, NEW m \in Seq(Bytes), NEW k \in Nat \ {0}, NEW n,
         Contents(s, k, n), Receiving(m, s, k, n), Len(m) < k,
         NEW u, u = Append(m, Top(s))
  PROVE  Contents(Front(s), k, n) /\ Receiving(u, Front(s), k, n)
<1>0. Len(m) \in Nat /\ (m = <<>> <=> Len(m) = 0) /\ Top(s) \in Bytes
  BY FrontIs
<1>1. Contents(Front(s), k, n)
  BY Taken
<1>2. /\ Top(s)[3] \in 1..k /\ IsCall(Top(s)[1], Top(s)[2], "send", n)
      /\ Top(s)[3] = 1 => Whole(Front(s), k)
      /\ Top(s)[3] # 1 => Front(s) # <<>> /\ Top(Front(s)) = <<Top(s)[1], Top(s)[2], Top(s)[3] - 1>>
  BY Below
<1>3. PICK q \in Users, c \in Nat :
        /\ IsCall(q, c, "send", n) /\ Top(s) = <<q, c, k - Len(m)>>
        /\ \A t \in 1..Len(m) : m[t] = <<q, c, k + 1 - t>>
  <2>1. CASE m = <<>>
    <3>1. Top(s)[3] = k
      BY <2>1 DEF Receiving, Whole
    <3>2. PICK q \in Users, c \in Nat, d \in Nat : Top(s) = <<q, c, d>>
      BY <1>0 DEF Bytes
    <3>3. q = Top(s)[1] /\ c = Top(s)[2] /\ d = Top(s)[3]
      BY <3>2
    <3>4. k - Len(m) = k /\ 1..Len(m) = {}
      BY <2>1
    <3>5. IsCall(q, c, "send", n) /\ Top(s) = <<q, c, k - Len(m)>>
      BY <1>2, <3>1, <3>2, <3>3, <3>4
    <3> QED BY <3>4, <3>5
  <2>2. CASE m # <<>>
    BY <2>2 DEF Receiving
  <2> QED BY <2>1, <2>2
<1>4. /\ u # <<>> /\ Len(u) = Len(m) + 1 /\ Top(u) = Top(s) /\ \A t \in 1..Len(m) : u[t] = m[t]
  BY ONLY m \in Seq(Bytes), <1>0, u = Append(m, Top(s)), AppendIs
<1>5. ASSUME NEW t \in 1..Len(u) PROVE u[t] = <<q, c, k + 1 - t>>
  <2>1. CASE t \in 1..Len(m)
    BY ONLY <2>1, <1>3, <1>4
  <2>2. CASE t = Len(u)
    <3>1. k + 1 - t = k - Len(m) /\ u[t] = Top(u)
      BY ONLY <2>2, <1>0, <1>4, k \in Nat DEF Top
    <3> QED BY ONLY <3>1, <1>3, <1>4
  <2>3. t \in 1..Len(m) \/ t = Len(u)
    BY ONLY <1>0, <1>4, t \in 1..Len(u)
  <2> QED BY <2>1, <2>2, <2>3
<1>6. Top(s)[1] = q /\ Top(s)[2] = c /\ Top(s)[3] = k - Len(m)
  BY <1>3
<1>7. IF Len(u) < k THEN Front(s) # <<>> /\ Top(Front(s)) = <<q, c, k - Len(u)>> ELSE Whole(Front(s), k)
  <2>1. CASE Len(u) < k
    <3>1. Top(s)[3] # 1 /\ Top(s)[3] - 1 = k - Len(u)
      BY ONLY <2>1, <1>0, <1>4, <1>6, k \in Nat
    <3> QED BY ONLY <2>1, <3>1, <1>2, <1>6
  <2>2. CASE ~(Len(u) < k)
    <3>1. Top(s)[3] = 1
      BY ONLY <2>2, <1>0, <1>4, <1>6, k \in Nat, Len(m) < k
    <3> QED BY ONLY <2>2, <3>1, <1>2
  <2> QED BY <2>1, <2>2
<1>8. Receiving(u, Front(s), k, n)
  BY <1>3, <1>4, <1>5, <1>7 DEF Receiving
<1> QED BY <1>1, <1>8

\* The bytes of a message of k bytes that process q sends in its call c.
Message(q, c, k) == [j \in 1..k |-> <<q, c, j>>]

\* A receiver that got all bytes has one message, which strrev puts in order, and
\* leaves a complete message on top.
LEMMA RecvDone ==
  ASSUME NEW s \in Seq(Bytes), NEW m \in Seq(Bytes), NEW k \in Nat \ {0}, NEW n, Receiving(m, s, k, n), Len(m) = k
  PROVE  /\ Whole(s, k)
         /\ \E q \in Users, c \in Nat : IsCall(q, c, "send", n) /\ strrev(m) = Message(q, c, k)
<1>1. m # <<>> /\ ~(Len(m) < k)
  OBVIOUS
<1>2. PICK q \in Users, c \in Nat :
            /\ IsCall(q, c, "send", n)
            /\ \A t \in 1..Len(m) : m[t] = <<q, c, k + 1 - t>>
            /\ IF Len(m) < k THEN s # <<>> /\ Top(s) = <<q, c, k - Len(m)>> ELSE Whole(s, k)
  BY <1>1 DEF Receiving
<1>3. ASSUME NEW j \in 1..k PROVE m[k + 1 - j] = <<q, c, j>>
  <2>1. k + 1 - j \in 1..Len(m) /\ k + 1 - (k + 1 - j) = j
    BY ONLY k \in Nat, Len(m) = k, j \in 1..k
  <2> QED BY ONLY <2>1, <1>2
<1>4. strrev(m) = Message(q, c, k)
  BY ONLY <1>3, Len(m) = k DEF strrev, Message
<1> QED BY <1>1, <1>2, <1>4

\* A receiver that finds the mailbox empty is at the start of its message.
LEMMA RecvEmpty ==
  ASSUME NEW m \in Seq(Bytes), NEW s, s = <<>>, NEW k \in Nat, NEW n, Receiving(m, s, k, n), Len(m) < k
  PROVE  m = <<>>
BY DEF Receiving

-----------------------------------------------------------------------------
(***************************************************************************)
(* Messages in the system.                                                  *)
(***************************************************************************)

\* The messages of a name have one length, which divides the capacity.
EvenLengths(L) ==
    /\ \A p \in Users : \A o \in 1..Len(Program[p]) :
          Program[p][o].do \in {"send", "recv"} => Program[p][o].len = L[Program[p][o].name]
    /\ \A n \in Names : MAIL_CAPACITY \in Multiples(L[n])

\* lock_on_box names the process between acquire and release.
Locked == \A p \in Users, b \in Boxes : mboxs[b].lock_on_box = p <=> (pc[p] = "locked" /\ mailbox(p) = b)

\* Processes wait only between two messages.
Rested == \A p \in Users : pc[p] # "locked" => msg[p] = <<>>

\* The contents of a mailbox: messages to its name, complete when the lock is
\* free.
BoxOk(L, b) ==
    mboxs[b].buffer # <<>> =>
        /\ mboxs[b].name \in Names
        /\ Contents(mboxs[b].buffer, L[mboxs[b].name], mboxs[b].name)
        /\ mboxs[b].lock_on_box = None => Whole(mboxs[b].buffer, L[mboxs[b].name])

\* The bytes that the holder of the lock has moved.
Transit(p) ==
    pc[p] = "locked" =>
        /\ Len(msg[p]) <= Call(p).len
        /\ Call(p).do = "send" => Sending(p, op[p], msg[p], mboxs[mailbox(p)].buffer, Call(p).len)
        /\ Call(p).do = "recv" => Receiving(msg[p], mboxs[mailbox(p)].buffer, Call(p).len, Call(p).name)

\* Byte x is in place z: in a buffer, on its way to a process, received.
InBox(b, j, x) == j \in 1..Len(mboxs[b].buffer) /\ mboxs[b].buffer[j] = x
InMsg(p, x) == pc[p] = "locked" /\ Call(p).do = "recv" /\ x \in ImageOf(msg[p])
InInbox(p, c, x) == c \in 1..Len(inbox[p]) /\ x \in ImageOf(inbox[p][c])
Holds(z, x) ==
    \/ \E b \in Boxes, j \in Nat : z = <<"box", b, j>> /\ InBox(b, j, x)
    \/ \E p \in Users : z = <<"msg", p, 0>> /\ InMsg(p, x)
    \/ \E p \in Users, c \in Nat : z = <<"in", p, c>> /\ InInbox(p, c, x)

\* A byte is in one place, and has been sent.
Unique == \A x, y, z : Holds(y, x) /\ Holds(z, x) => y = z
\* Byte x was sent: in an earlier call of its sender, or in this one.
Past(x) ==
    /\ x \in Bytes
    /\ \/ x[2] < op[x[1]]
       \/ /\ x[2] = op[x[1]] /\ pc[x[1]] = "locked" /\ Call(x[1]).do = "send"
          /\ x[3] \in 1..Len(msg[x[1]])
AllPast == \A x, z : Holds(z, x) => Past(x)

\* A message that some process sent.
Received(s) == \E q \in Users : \E o \in 1..Len(Program[q]) :
                  /\ Program[q][o].do = "send" /\ Program[q][o].len # 0
                  /\ s = [j \in 1..Program[q][o].len |-> <<q, o, j>>]
AllReceived == \A p \in Users : \A n \in 1..Len(inbox[p]) : Received(inbox[p][n])

\* The invariant of messages, for messages to n of length L[n].
Messages(L) == /\ Locked /\ Rested
               /\ \A b \in Boxes : BoxOk(L, b)
               /\ \A p \in Users : Transit(p)
               /\ Unique /\ AllPast /\ AllReceived

\* The conjuncts of Messages.
LEMMA MessagesParts ==
  ASSUME NEW L, Messages(L)
  PROVE  /\ Locked /\ Rested
         /\ \A b \in Boxes : BoxOk(L, b)
         /\ \A p \in Users : Transit(p)
         /\ Unique /\ AllPast /\ AllReceived
BY DEF Messages

\* No byte is in a new place,
LEMMA UniqueLess ==
  ASSUME Unique, \A x, z : Holds(z, x)' => Holds(z, x)
  PROVE  Unique'
<1> SUFFICES ASSUME NEW x, NEW y, NEW z, Holds(y, x)', Holds(z, x)' PROVE y = z
  BY DEF Unique
<1>1. Holds(y, x) /\ Holds(z, x)
  OBVIOUS
<1> QED BY <1>1 DEF Unique

\* and none is new.
LEMMA PastLess ==
  ASSUME AllPast, \A x, z : Holds(z, x)' => Holds(z, x), \A x : Past(x) => Past(x)'
  PROVE  AllPast'
<1> SUFFICES ASSUME NEW x, NEW z, Holds(z, x)' PROVE Past(x)'
  BY DEF AllPast
<1>1. Holds(z, x)
  OBVIOUS
<1> QED BY <1>1 DEF AllPast

\* No message was received.
LEMMA InboxKept ==
  ASSUME AllReceived, inbox' = inbox
  PROVE  AllReceived'
BY DEF AllReceived

\* Bytes that move from place a, which they leave empty, to place c.
LEMMA UniqueMove ==
  ASSUME Unique, AllPast, NEW a, NEW c,
         \A x : ~Holds(a, x)',
         \A x, z : z # c /\ Holds(z, x)' => Holds(z, x),
         \A x : Holds(c, x)' => Holds(a, x) \/ Holds(c, x),
         \A x : Past(x) => Past(x)'
  PROVE  Unique' /\ AllPast'
<1>1. ASSUME NEW x, NEW y, NEW z, Holds(y, x)', Holds(z, x)' PROVE y = z
  <2>1. y # a /\ z # a
    BY <1>1
  <2>2. (Holds(y, x) \/ (y = c /\ Holds(a, x))) /\ (Holds(z, x) \/ (z = c /\ Holds(a, x)))
    BY <1>1
  <2>3. \A v, w : Holds(v, x) /\ Holds(w, x) => v = w
    BY DEF Unique
  <2> QED BY ONLY <2>1, <2>2, <2>3
<1>2. ASSUME NEW x, NEW z, Holds(z, x)' PROVE Past(x)'
  <2>1. Holds(z, x) \/ Holds(a, x) \/ Holds(c, x)
    BY <1>2
  <2> QED BY <2>1 DEF AllPast
<1> QED BY <1>1, <1>2 DEF Unique, AllPast

\* A byte that is new, in place c.
Adds(c, y) == \A x, z : Holds(z, x)' => Holds(z, x) \/ (z = c /\ x = y)

LEMMA UniqueNew ==
  ASSUME Unique, AllPast, NEW c, NEW y, ~Past(y), Past(y)',
         Adds(c, y), \A x : Past(x) => Past(x)'
  PROVE  Unique' /\ AllPast'
<1>0. \A z : ~Holds(z, y)
  BY DEF AllPast
<1>1. ASSUME NEW x, NEW v, NEW w, Holds(v, x)', Holds(w, x)' PROVE v = w
  <2>1. Holds(v, x) \/ (v = c /\ x = y)
    BY <1>1 DEF Adds
  <2>2. Holds(w, x) \/ (w = c /\ x = y)
    BY <1>1 DEF Adds
  <2>3. CASE x = y
    BY <2>1, <2>2, <2>3, <1>0
  <2>4. CASE x # y
    BY <2>1, <2>2, <2>4 DEF Unique
  <2> QED BY <2>3, <2>4
<1>2. ASSUME NEW x, NEW z, Holds(z, x)' PROVE Past(x)'
  <2>1. Holds(z, x) \/ x = y
    BY <1>2 DEF Adds
  <2> QED BY <2>1 DEF AllPast
<1> QED BY <1>1, <1>2 DEF Unique, AllPast

\* No process goes back in its program.
LEMMA OpGrows ==
  ASSUME NEW p \in Users, Types, Step(p)
  PROVE  \A q \in Users : op'[q] >= op[q] /\ (q # p => op'[q] = op[q])
<1>1. op' = op \/ op' = [op EXCEPT ![p] = @ + 1]
  BY DEF Step, OpenSearch, OpenSpare, OpenCopy, OpenLoad, OpenStore, CloseLoad, CloseStore, CloseTest, CloseReset,
     Acquire, SendByte, SendWait, SendEnd, RecvByte, RecvWait, RecvEnd, Wait, Return
<1>2. \A q \in Users : op[q] \in Nat
  BY DEF Types
<1> QED BY <1>1, <1>2 DEF Types

\* What was sent stays sent.
LEMMA PastKept ==
  ASSUME NEW p \in Users, Types, Types', \A q \in Users : op'[q] >= op[q],
         \A q \in Users \ {p} : /\ op'[q] = op[q] /\ msg'[q] = msg[q]
                                /\ pc[q] = "locked" => pc'[q] = "locked",
         pc[p] = "locked" /\ Call(p).do = "send" /\ msg[p] # <<>> =>
            \/ op'[p] > op[p]
            \/ op'[p] = op[p] /\ pc'[p] = "locked" /\ Len(msg'[p]) >= Len(msg[p])
  PROVE  \A x : Past(x) => Past(x)'
<1> SUFFICES ASSUME NEW x, Past(x) PROVE Past(x)'
  OBVIOUS
<1>1. PICK q \in Users, o \in Nat, d \in Nat : x = <<q, o, d>>
  BY DEF Past, Bytes
<1>2. x[1] = q /\ x[2] = o /\ x[3] = d /\ x \in Bytes
  BY <1>1 DEF Past
<1>3. \/ o < op[q]
      \/ o = op[q] /\ pc[q] = "locked" /\ Call(q).do = "send" /\ d \in 1..Len(msg[q])
  BY <1>2 DEF Past
<1>4. op[q] \in Nat /\ op'[q] \in Nat /\ msg[q] \in Seq(Bytes) /\ msg'[q] \in Seq(Bytes)
  BY DEF Types
<1>5. Len(msg[q]) \in Nat /\ Len(msg'[q]) \in Nat
  BY <1>4
<1>6. SUFFICES \/ o < op'[q]
               \/ o = op'[q] /\ pc'[q] = "locked" /\ Call(q)'.do = "send" /\ d \in 1..Len(msg'[q])
  BY <1>2 DEF Past
<1>7. CASE o < op[q]
  BY <1>4, <1>7
<1>8. CASE o = op[q] /\ pc[q] = "locked" /\ Call(q).do = "send" /\ d \in 1..Len(msg[q])
  <2>1. CASE q # p
    <3>1. op'[q] = op[q] /\ msg'[q] = msg[q] /\ pc'[q] = "locked"
      BY <2>1, <1>8
    <3>2. Call(q)' = Call(q)
      BY <3>1, StillCall
    <3> QED BY <3>1, <3>2, <1>8
  <2>2. CASE q = p
    <3>1. msg[p] # <<>>
      BY <2>2, <1>4, <1>8
    <3>2. CASE op'[p] > op[p]
      BY <2>2, <3>2, <1>4, <1>8
    <3>3. CASE op'[p] = op[p] /\ pc'[p] = "locked" /\ Len(msg'[p]) >= Len(msg[p])
      <4>1. Call(q)' = Call(q)
        BY <2>2, <3>3, StillCall
      <4>2. d \in 1..Len(msg'[q])
        BY <2>2, <3>3, <1>5, <1>8
      <4> QED BY <2>2, <3>3, <4>1, <4>2, <1>8
    <3> QED BY <2>2, <3>1, <3>2, <3>3, <1>8
  <2> QED BY <2>1, <2>2
<1> QED BY <1>3, <1>7, <1>8

\* Steps of mbox_open and mbox_close.
BoxLeft(b) ==
    \/ /\ mboxs'[b].buffer = mboxs[b].buffer /\ mboxs'[b].lock_on_box = mboxs[b].lock_on_box
       /\ mboxs'[b].name = mboxs[b].name \/ mboxs[b].buffer = <<>>
    \/ /\ mboxs'[b].buffer = <<>> /\ mboxs'[b].lock_on_box = None
       /\ \A q \in Users : pc[q] = "locked" => mailbox(q) # b

\* Steps of mbox_open and mbox_close keep the messages: a mailbox keeps its bytes
\* and its lock, or is made new when nobody moves bytes in it.
LEMMA OpenMessages ==
  ASSUME NEW L, NEW p \in Users, Control, Control', Messages(L), Step(p), pc[p] # "locked", pc'[p] # "locked",
         UNCHANGED <<msg, inbox>>,
         \A q \in Users \ {p} : pc'[q] = pc[q] /\ box'[q] = box[q],
         \A b \in Boxes : BoxLeft(b)
  PROVE  Messages(L)'
<1>0. Types /\ Types'
  BY DEF Control
<1>1. /\ Locked /\ Rested /\ Unique /\ AllPast /\ AllReceived
      /\ \A b \in Boxes : BoxOk(L, b)
      /\ \A q \in Users : Transit(q)
  BY MessagesParts
<1>2. \A q \in Users : op'[q] >= op[q] /\ (q # p => op'[q] = op[q])
  BY <1>0, OpGrows
<1>3. ASSUME NEW q \in Users, q # p PROVE Call(q)' = Call(q) /\ mailbox(q)' = mailbox(q) /\ op'[q] = op[q] /\ pc'[q] = pc[q]
  BY <1>2, <1>3, StillCall, StillMailbox
<1>4. Locked'
  <2> SUFFICES ASSUME NEW q \in Users, NEW b \in Boxes
               PROVE  mboxs'[b].lock_on_box = q <=> (pc'[q] = "locked" /\ mailbox(q)' = b)
    BY DEF Locked
  <2>0. mboxs[b].lock_on_box = q <=> (pc[q] = "locked" /\ mailbox(q) = b)
    BY <1>1 DEF Locked
  <2>1. (pc'[q] = "locked" /\ mailbox(q)' = b) <=> (pc[q] = "locked" /\ mailbox(q) = b)
    BY <1>3
  <2>2. q # None
    BY MailboxAssumption
  <2> QED BY <2>0, <2>1, <2>2 DEF BoxLeft
<1>5. Rested'
  BY <1>1, <1>3 DEF Rested
<1>6. ASSUME NEW b \in Boxes PROVE BoxOk(L, b)'
  <2>1. BoxOk(L, b) /\ BoxLeft(b)
    BY <1>1
  <2>2. CASE mboxs'[b].buffer = <<>>
    BY <2>2 DEF BoxOk
  <2>3. CASE mboxs'[b].buffer # <<>>
    <3>1. mboxs'[b].buffer = mboxs[b].buffer /\ mboxs'[b].lock_on_box = mboxs[b].lock_on_box /\ mboxs'[b].name = mboxs[b].name
      BY <2>1, <2>3 DEF BoxLeft
    <3> QED BY <3>1, <2>1 DEF BoxOk
  <2> QED BY <2>2, <2>3
<1>7. ASSUME NEW q \in Users PROVE Transit(q)'
  <2> SUFFICES ASSUME pc'[q] = "locked" PROVE Transit(q)'
    BY DEF Transit
  <2>1. q # p /\ pc[q] = "locked" /\ Call(q)' = Call(q) /\ mailbox(q)' = mailbox(q) /\ op'[q] = op[q] /\ msg'[q] = msg[q]
    BY <1>3
  <2>2. mailbox(q) \in Boxes
    BY <2>1, MovingCall DEF Moving
  <2>3. mboxs'[mailbox(q)].buffer = mboxs[mailbox(q)].buffer
    BY <2>1, <2>2 DEF BoxLeft
  <2>4. Transit(q)
    BY <1>1
  <2> QED BY <2>1, <2>3, <2>4 DEF Transit
<1>8. ASSUME NEW x, NEW z, Holds(z, x)' PROVE Holds(z, x)
  <2>1. ASSUME NEW b \in Boxes, NEW j \in Nat, z = <<"box", b, j>>, InBox(b, j, x)' PROVE Holds(z, x)
    <3>1. mboxs'[b].buffer # <<>>
      BY <2>1 DEF InBox
    <3>2. mboxs'[b].buffer = mboxs[b].buffer
      BY <3>1 DEF BoxLeft
    <3> QED BY <2>1, <3>2 DEF InBox, Holds
  <2>2. ASSUME NEW q \in Users, z = <<"msg", q, 0>>, InMsg(q, x)' PROVE Holds(z, x)
    <3>1. q # p
      BY <2>2 DEF InMsg
    <3> QED BY <2>2, <3>1, <1>3 DEF InMsg, Holds
  <2>3. ASSUME NEW q \in Users, NEW c \in Nat, z = <<"in", q, c>>, InInbox(q, c, x)' PROVE Holds(z, x)
    BY <2>3 DEF InInbox, Holds
  <2> QED BY <1>8, <2>1, <2>2, <2>3 DEF Holds
<1>9. \A x : Past(x) => Past(x)'
  BY <1>0, <1>2, <1>3, PastKept
<1>10. Unique' /\ AllPast'
  BY <1>1, <1>8, <1>9, UniqueLess, PastLess
<1>11. AllReceived'
  BY <1>1 DEF AllReceived, Received
<1> QED BY <1>4, <1>5, <1>6, <1>7, <1>10, <1>11 DEF Messages

\* The last user of a mailbox is alone in it.
LEMMA LastUser ==
  ASSUME NEW p \in Users, Control, Counts, pc[p] = "reset", NEW q \in Users, pc[q] = "locked"
  PROVE  mailbox(q) # mailbox(p)
<1> SUFFICES ASSUME mailbox(q) = mailbox(p) PROVE FALSE
  OBVIOUS
<1>1. mailbox(p) \in Boxes /\ Call(p).name \in Names
  BY ClosingCall DEF Closing
<1>2. Call(q).name \in Names
  BY MovingCall DEF Moving
<1>3. PICK b \in Boxes : b = mailbox(p)
  BY <1>1
<1>4. mboxs[b].num_users = 0 /\ Leaving(b)
  BY <1>3, CountsParts DEF Within, Leaving
<1>5. Cardinality(Openers(box, b)) = 1
  BY <1>4, CountsParts DEF CountOf, Left
<1>6. \E x : Openers(box, b) = {x}
  BY <1>5, OpenersFinite, FS_Singleton, Zenon
<1>7. <<p, Call(p).name>> \in Openers(box, b) /\ <<q, Call(q).name>> \in Openers(box, b)
  BY <1>1, <1>2, <1>3 DEF Openers, mailbox
<1>8. p = q
  BY <1>6, <1>7
<1> QED BY <1>8

\* mbox_open renames a mailbox that is as new.
LEMMA SpareIsNew ==
  ASSUME NEW p \in Users, Control, Counts, pc[p] = "copy"
  PROVE  i[p] \in Boxes /\ mboxs[i[p]] = Fresh
<1>1. i[p] \in Boxes /\ mboxs[i[p]].num_users = 0
  BY CountsParts DEF Within
<1>2. RestoredBox(i[p])
  BY <1>1, CountsParts
<1>3. pc[p] \in Inside
  BY DEF Inside
<1>4. \A q \in Users \ {p} : pc[q] \notin Inside
  BY <1>3, BoxTypes, InsideAlone
<1>5. \A q \in Users : pc[q] \notin {"test", "reset", "load", "store"}
  BY <1>4 DEF Inside
<1> QED BY <1>1, <1>2, <1>5 DEF RestoredBox, Leaving

\* A step that changes no mailbox.
LEMMA SameBoxes ==
  ASSUME UNCHANGED mboxs
  PROVE  \A b \in Boxes : BoxLeft(b)
BY DEF BoxLeft

\* All steps of mbox_open and mbox_close are of this kind.
LEMMA OpenCloseMessages ==
  ASSUME Orderly, NEW L, NEW p \in Users, Control, Counts, Messages(L),
         \/ OpenSearch(p) \/ OpenSpare(p) \/ OpenCopy(p) \/ OpenLoad(p) \/ OpenStore(p)
         \/ CloseLoad(p) \/ CloseStore(p) \/ CloseTest(p) \/ CloseReset(p)
  PROVE  Messages(L)'
<1>0. Step(p)
  BY DEF Step
<1>1. CASE OpenSearch(p)
  <2>1. /\ Control' /\ UNCHANGED <<mboxs, op, box, msg, inbox>> /\ pc[p] # "locked" /\ pc'[p] # "locked"
        /\ \A q \in Users \ {p} : pc'[q] = pc[q] /\ box'[q] = box[q]
    BY <1>1, SearchControl DEF Begins
  <2> QED BY <2>1, <1>0, SameBoxes, OpenMessages
<1>2. CASE OpenSpare(p)
  <2>1. /\ Control' /\ UNCHANGED <<mboxs, op, box, msg, inbox>> /\ pc[p] # "locked" /\ pc'[p] # "locked"
        /\ \A q \in Users \ {p} : pc'[q] = pc[q] /\ box'[q] = box[q]
    BY <1>2, SpareControl
  <2> QED BY <2>1, <1>0, SameBoxes, OpenMessages
<1>3. CASE OpenCopy(p)
  <2>1. /\ Control' /\ UNCHANGED <<box, msg, inbox>> /\ pc[p] = "copy" /\ pc'[p] = "load"
        /\ \A q \in Users \ {p} : pc'[q] = pc[q]
        /\ \A c \in Boxes : mboxs'[c] = IF c = i[p] THEN [mboxs[c] EXCEPT !.name = Call(p).name] ELSE mboxs[c]
    BY <1>3, CopyControl
  <2>2. i[p] \in Boxes /\ mboxs[i[p]] = Fresh
    BY <2>1, SpareIsNew
  <2>3. \A b \in Boxes : BoxLeft(b)
    <3> SUFFICES ASSUME NEW b \in Boxes PROVE BoxLeft(b)
      OBVIOUS
    <3>1. CASE b = i[p]
      <4>1. mboxs'[b] = [Fresh EXCEPT !.name = Call(p).name] /\ mboxs[b] = Fresh
        BY <2>1, <2>2, <3>1
      <4> QED BY <4>1 DEF BoxLeft, Fresh
    <3>2. CASE b # i[p]
      BY <2>1, <3>2 DEF BoxLeft
    <3> QED BY <3>1, <3>2
  <2>4. \A q \in Users \ {p} : pc'[q] = pc[q] /\ box'[q] = box[q]
    BY <2>1
  <2> QED BY <2>1, <2>3, <2>4, <1>0, OpenMessages
<1>4. CASE OpenLoad(p)
  <2>0. i[p] \in Boxes
    BY <1>4, CountsParts DEF OpenLoad, Within
  <2>1. /\ Control' /\ UNCHANGED <<mboxs, op, box, msg, inbox>> /\ pc[p] # "locked" /\ pc'[p] # "locked"
        /\ \A q \in Users \ {p} : pc'[q] = pc[q] /\ box'[q] = box[q]
    BY <1>4, <2>0, LoadControl
  <2> QED BY <2>1, <1>0, SameBoxes, OpenMessages
<1>5. CASE OpenStore(p)
  <2>1. /\ Control' /\ UNCHANGED <<msg, inbox>> /\ pc[p] = "store" /\ pc'[p] = "ready"
        /\ \A q \in Users \ {p} : pc'[q] = pc[q] /\ box'[q] = box[q]
        /\ \A c \in Boxes : mboxs'[c] = IF c = i[p] THEN [mboxs[c] EXCEPT !.num_users = reg[p] + 1] ELSE mboxs[c]
    BY <1>5, StoreControl
  <2>2. \A b \in Boxes : mboxs[b] \in Mailboxes
    BY BoxTypes
  <2>3. \A b \in Boxes : BoxLeft(b)
    BY <2>1, <2>2 DEF BoxLeft, Mailboxes
  <2> QED BY <2>1, <2>3, <1>0, OpenMessages
<1>6. CASE CloseLoad(p)
  <2>1. /\ Control' /\ UNCHANGED <<mboxs, op, box, msg, inbox>> /\ pc[p] # "locked" /\ pc'[p] # "locked"
        /\ \A q \in Users \ {p} : pc'[q] = pc[q] /\ box'[q] = box[q]
    BY <1>6, DownControl
  <2> QED BY <2>1, <1>0, SameBoxes, OpenMessages
<1>7. CASE CloseStore(p)
  <2>1. /\ Control' /\ UNCHANGED <<box, msg, inbox>> /\ pc[p] = "down" /\ pc'[p] = "test"
        /\ \A q \in Users \ {p} : pc'[q] = pc[q] /\ box'[q] = box[q]
        /\ \A c \in Boxes : mboxs'[c] = IF c = mailbox(p) THEN [mboxs[c] EXCEPT !.num_users = reg[p] - 1] ELSE mboxs[c]
    BY <1>7, CloseStoreControl
  <2>2. \A b \in Boxes : mboxs[b] \in Mailboxes
    BY BoxTypes
  <2>3. \A b \in Boxes : BoxLeft(b)
    BY <2>1, <2>2 DEF BoxLeft, Mailboxes
  <2> QED BY <2>1, <2>3, <1>0, OpenMessages
<1>8. CASE CloseTest(p)
  <2>1. /\ Control' /\ UNCHANGED <<mboxs, msg, inbox>> /\ pc[p] # "locked" /\ pc'[p] # "locked"
        /\ \A q \in Users \ {p} : pc'[q] = pc[q] /\ box'[q] = box[q]
    BY <1>8, TestControl
  <2> QED BY <2>1, <1>0, SameBoxes, OpenMessages
<1>9. CASE CloseReset(p)
  <2>1. /\ Control' /\ UNCHANGED <<msg, inbox>> /\ pc[p] = "reset" /\ pc'[p] = "ready"
        /\ \A q \in Users \ {p} : pc'[q] = pc[q] /\ box'[q] = box[q]
        /\ \A c \in Boxes : mboxs'[c] = IF c = mailbox(p) THEN [Fresh EXCEPT !.num_users = mboxs[c].num_users]
                                        ELSE mboxs[c]
    BY <1>9, ResetControl
  <2>2. \A q \in Users : pc[q] = "locked" => mailbox(q) # mailbox(p)
    BY <2>1, LastUser
  <2>3. \A b \in Boxes : BoxLeft(b)
    <3> SUFFICES ASSUME NEW b \in Boxes PROVE BoxLeft(b)
      OBVIOUS
    <3>1. CASE b = mailbox(p)
      <4>1. mboxs'[b] = [Fresh EXCEPT !.num_users = mboxs[b].num_users]
        BY <2>1, <3>1
      <4>2. mboxs'[b].buffer = <<>> /\ mboxs'[b].lock_on_box = None
        BY <4>1 DEF Fresh
      <4> QED BY <4>2, <2>2, <3>1 DEF BoxLeft
    <3>2. CASE b # mailbox(p)
      BY <2>1, <3>2 DEF BoxLeft
    <3> QED BY <3>1, <3>2
  <2> QED BY <2>1, <2>3, <1>0, OpenMessages
<1> QED BY <1>1, <1>2, <1>3, <1>4, <1>5, <1>6, <1>7, <1>8, <1>9

\* The mailbox of a call has the call's name, and the call its length.
LEMMA CallInfo ==
  ASSUME NEW L \in [Names -> Nat \ {0}], EvenLengths(L), NEW p \in Users, Control, Counts,
         op[p] <= Len(Program[p]), Call(p).do \in {"send", "recv"}, NEW b \in Boxes, b = mailbox(p)
  PROVE  /\ Call(p).name \in Names /\ mboxs[b].name = Call(p).name
         /\ Call(p).len = L[Call(p).name] /\ Call(p).len \in Nat \ {0} /\ MAIL_CAPACITY \in Multiples(Call(p).len)
         /\ op[p] \in Nat \ {0} /\ IsCall(p, op[p], Call(p).do, Call(p).name)
<1>0. Types /\ 0 \notin Boxes
  BY BoxTypes
<1>1. /\ Call(p).name \in Names /\ op[p] \in Nat \ {0} /\ Len(Program[p]) \in Nat
      /\ IsCall(p, op[p], Call(p).do, Call(p).name)
  BY <1>0, CallType
<1>2. mboxs[b].name = Call(p).name
  BY <1>0, <1>1, CountsParts DEF NamesTrue, mailbox
<1>3. op[p] \in 1..Len(Program[p])
  BY <1>1
<1>4. Call(p).len = L[Call(p).name]
  BY <1>3 DEF EvenLengths, Call
<1> QED BY <1>1, <1>2, <1>4 DEF EvenLengths

\* A step of mbox_send or mbox_recv in mailbox b does not disturb other mailboxes
\* nor the processes that move bytes there.
LEMMA MoveOthers ==
  ASSUME NEW L, NEW p \in Users, Control, Control', Messages(L), NEW b \in Boxes, b = mailbox(p),
         Touches(p),
         \A q \in Users \ {p} : /\ op'[q] = op[q] /\ msg'[q] = msg[q]
                                /\ pc'[q] = pc[q] \/ (pc[q] = "waiting" /\ pc'[q] = "relock"),
         \A q \in Users \ {p} : pc[q] = "locked" => mailbox(q) # b,
         \/ pc'[p] = "locked" /\ op'[p] = op[p] /\ mboxs'[b].lock_on_box = p
         \/ pc'[p] # "locked" /\ mboxs'[b].lock_on_box = None /\ msg'[p] = <<>>
  PROVE  /\ Locked' /\ Rested' /\ \A c \in Boxes \ {b} : BoxOk(L, c)'
         /\ \A q \in Users \ {p} : Transit(q)'
<1>1. /\ Locked /\ Rested
      /\ \A c \in Boxes : BoxOk(L, c)
      /\ \A q \in Users : Transit(q)
  BY MessagesParts
<1>2. box' = box /\ \A c \in Boxes \ {b} : mboxs'[c] = mboxs[c]
  BY DEF Touches
<1>3. ASSUME NEW q \in Users, q # p
      PROVE  /\ Call(q)' = Call(q) /\ mailbox(q)' = mailbox(q) /\ op'[q] = op[q] /\ msg'[q] = msg[q]
             /\ pc'[q] = "locked" <=> pc[q] = "locked"
  BY <1>2, <1>3, StillCall, StillMailbox
<1>4. Locked'
  <2> SUFFICES ASSUME NEW q \in Users, NEW c \in Boxes
               PROVE  mboxs'[c].lock_on_box = q <=> (pc'[q] = "locked" /\ mailbox(q)' = c)
    BY DEF Locked
  <2>0. q # None
    BY MailboxAssumption
  <2>1. CASE c = b
    <3>1. CASE q = p
      <4>1. CASE pc'[p] = "locked" /\ op'[p] = op[p] /\ mboxs'[b].lock_on_box = p
        <5>1. mailbox(p)' = b
          BY <4>1, <1>2, StillMailbox
        <5> QED BY <2>1, <3>1, <4>1, <5>1
      <4>2. CASE pc'[p] # "locked" /\ mboxs'[b].lock_on_box = None
        BY <2>0, <2>1, <3>1, <4>2
      <4> QED BY <4>1, <4>2
    <3>2. CASE q # p
      <4>1. mboxs'[b].lock_on_box # q
        BY <2>0, <3>2
      <4>2. ~(pc'[q] = "locked" /\ mailbox(q)' = b)
        BY <3>2, <1>3
      <4> QED BY <2>1, <4>1, <4>2
    <3> QED BY <3>1, <3>2
  <2>2. CASE c # b
    <3>0. mboxs'[c] = mboxs[c] /\ (mboxs[c].lock_on_box = q <=> (pc[q] = "locked" /\ mailbox(q) = c))
      BY <2>2, <1>1, <1>2 DEF Locked
    <3>1. CASE q = p
      <4>1. pc'[p] = "locked" => mailbox(p)' = b
        BY <1>2, StillMailbox
      <4> QED BY <2>2, <3>0, <3>1, <4>1
    <3>2. CASE q # p
      BY <3>0, <3>2, <1>3
    <3> QED BY <3>1, <3>2
  <2> QED BY <2>1, <2>2
<1>5. Rested'
  BY <1>1, <1>3 DEF Rested
<1>6. ASSUME NEW c \in Boxes, c # b PROVE BoxOk(L, c)'
  <2>1. BoxOk(L, c) /\ mboxs'[c] = mboxs[c]
    BY <1>1, <1>2, <1>6
  <2> QED BY <2>1 DEF BoxOk
<1>7. ASSUME NEW q \in Users, q # p PROVE Transit(q)'
  <2> SUFFICES ASSUME pc'[q] = "locked" PROVE Transit(q)'
    BY DEF Transit
  <2>1. pc[q] = "locked" /\ Call(q)' = Call(q) /\ mailbox(q)' = mailbox(q) /\ op'[q] = op[q] /\ msg'[q] = msg[q]
    BY <1>3, <1>7
  <2>2. mailbox(q) \in Boxes
    BY <2>1, MovingCall DEF Moving
  <2>3. mboxs'[mailbox(q)] = mboxs[mailbox(q)]
    BY <2>1, <2>2, <1>2, <1>7
  <2>4. Transit(q)
    BY <1>1
  <2> QED BY <2>1, <2>3, <2>4 DEF Transit
<1> QED BY <1>4, <1>5, <1>6, <1>7

\* The holder of the lock is alone in the mailbox.
LEMMA HolderAlone ==
  ASSUME Locked, NEW b \in Boxes, NEW p, mboxs[b].lock_on_box = p, NEW q \in Users, pc[q] = "locked", q # p
  PROVE  mailbox(q) # b
BY DEF Locked

\* The lock is acquired when the top message is complete.
LEMMA AcquireMessages ==
  ASSUME NEW L \in [Names -> Nat \ {0}], EvenLengths(L), NEW p \in Users, Control, Counts, Messages(L), Acquire(p)
  PROVE  Messages(L)'
<1>0. Types /\ Types' /\ Step(p)
  BY AcquireControl DEF Control, Step
<1>1. /\ Locked /\ Rested /\ Unique /\ AllPast /\ AllReceived
      /\ \A b \in Boxes : BoxOk(L, b)
  BY MessagesParts
<1>2. /\ Control' /\ Touches(p) /\ UNCHANGED <<op, box, msg, inbox>>
      /\ pc[p] \in {"ready", "relock"} /\ pc'[p] = "locked" /\ \A q \in Users \ {p} : pc'[q] = pc[q]
      /\ mboxs[mailbox(p)].lock_on_box = None
      /\ op[p] <= Len(Program[p]) /\ Call(p).do \in {"send", "recv"}
      /\ \A c \in Boxes : mboxs'[c] = IF c = mailbox(p) THEN [mboxs[c] EXCEPT !.lock_on_box = p] ELSE mboxs[c]
  BY AcquireControl
<1>3. PICK b \in Boxes : b = mailbox(p)
  BY <1>2 DEF Touches
<1>4. /\ Call(p).name \in Names /\ mboxs[b].name = Call(p).name
      /\ Call(p).len = L[Call(p).name] /\ Call(p).len \in Nat \ {0}
  BY <1>2, <1>3, CallInfo
<1>5. /\ mboxs'[b].lock_on_box = p /\ mboxs'[b].buffer = mboxs[b].buffer /\ mboxs'[b].name = mboxs[b].name
      /\ \A c \in Boxes \ {b} : mboxs'[c] = mboxs[c]
  <2>1. mboxs[b] \in Mailboxes /\ mboxs'[b] = [mboxs[b] EXCEPT !.lock_on_box = p]
    BY <1>2, <1>3, BoxTypes
  <2>2. mboxs'[b].lock_on_box = p /\ mboxs'[b].buffer = mboxs[b].buffer /\ mboxs'[b].name = mboxs[b].name
    BY <2>1 DEF Mailboxes
  <2> QED BY <2>2, <1>2, <1>3
<1>6. msg[p] = <<>>
  BY <1>1, <1>2 DEF Rested
<1>7. \A q \in Users \ {p} : pc[q] = "locked" => mailbox(q) # b
  BY <1>1, <1>2, <1>3, MailboxAssumption, HolderAlone
<1>8. /\ Locked' /\ Rested' /\ \A c \in Boxes \ {b} : BoxOk(L, c)'
      /\ \A q \in Users \ {p} : Transit(q)'
  BY <1>2, <1>3, <1>5, <1>7, MoveOthers
<1>9. BoxOk(L, b)'
  <2>1. BoxOk(L, b) /\ p # None
    BY <1>1, MailboxAssumption
  <2> QED BY <2>1, <1>5 DEF BoxOk
<1>10. Transit(p)'
  <2>1. Whole(mboxs[b].buffer, Call(p).len)
    BY <1>1, <1>2, <1>3, <1>4 DEF BoxOk, Whole
  <2>2. Call(p)' = Call(p) /\ mailbox(p)' = b
    BY <1>2, <1>3, StillCall, StillMailbox
  <2>3. Len(msg[p]) <= Call(p).len
    BY <1>4, <1>6
  <2> QED BY <2>1, <2>2, <2>3, <1>2, <1>5, <1>6 DEF Transit, Sending, Receiving
<1>11. ASSUME NEW x, NEW z, Holds(z, x)' PROVE Holds(z, x)
  <2>1. ASSUME NEW c \in Boxes, NEW j \in Nat, z = <<"box", c, j>>, InBox(c, j, x)' PROVE Holds(z, x)
    <3>1. mboxs'[c].buffer = mboxs[c].buffer
      BY <1>5
    <3> QED BY <2>1, <3>1 DEF InBox, Holds
  <2>2. ASSUME NEW q \in Users, z = <<"msg", q, 0>>, InMsg(q, x)' PROVE Holds(z, x)
    <3>1. q # p
      BY <2>2, <1>2, <1>6 DEF InMsg, ImageOf
    <3>2. Call(q)' = Call(q) /\ pc'[q] = pc[q]
      BY <3>1, <1>2, StillCall
    <3> QED BY <2>2, <3>2, <1>2 DEF InMsg, Holds
  <2>3. ASSUME NEW q \in Users, NEW c \in Nat, z = <<"in", q, c>>, InInbox(q, c, x)' PROVE Holds(z, x)
    BY <2>3, <1>2 DEF InInbox, Holds
  <2> QED BY <1>11, <2>1, <2>2, <2>3 DEF Holds
<1>12. \A x : Past(x) => Past(x)'
  <2>1. \A q \in Users : op'[q] >= op[q]
    BY <1>0, OpGrows
  <2> QED BY <2>1, <1>0, <1>2, <1>6, PastKept
<1>13. Unique' /\ AllPast'
  BY <1>1, <1>11, <1>12, UniqueLess, PastLess
<1>14. AllReceived'
  BY <1>1, <1>2, InboxKept
<1> QED BY <1>8, <1>9, <1>10, <1>13, <1>14 DEF Messages

\* Processes wait between two messages: the next holder of the lock finds a row
\* of complete ones.
LEMMA WaitMessages ==
  ASSUME NEW L \in [Names -> Nat \ {0}], EvenLengths(L), NEW p \in Users, Control, Counts, Messages(L),
         SendWait(p) \/ RecvWait(p)
  PROVE  Messages(L)'
<1>0. Types /\ Types' /\ Step(p)
  BY WaitControl DEF Control, Step
<1>1. /\ Locked /\ Rested /\ Unique /\ AllPast /\ AllReceived /\ Transit(p)
      /\ \A b \in Boxes : BoxOk(L, b)
  BY MessagesParts
<1>2. /\ Control' /\ Touches(p) /\ UNCHANGED <<op, box, msg, inbox>>
      /\ pc[p] = "locked" /\ pc'[p] = "waiting" /\ \A q \in Users \ {p} : pc'[q] = pc[q]
      /\ Unfinished(p) /\ mboxs'[mailbox(p)].buffer = mboxs[mailbox(p)].buffer
      /\ mboxs'[mailbox(p)].lock_on_box = None
      /\ Len(mboxs[mailbox(p)].buffer) = IF Call(p).do = "send" THEN MAIL_CAPACITY ELSE 0
  BY WaitControl
<1>3. PICK b \in Boxes : b = mailbox(p)
  BY <1>2 DEF Touches
<1>a. op[p] <= Len(Program[p]) /\ Call(p).do \in {"send", "recv"}
  BY <1>2, MovingCall DEF Moving
<1>4. /\ Call(p).name \in Names /\ mboxs[b].name = Call(p).name
      /\ Call(p).len = L[Call(p).name] /\ Call(p).len \in Nat \ {0} /\ MAIL_CAPACITY \in Multiples(Call(p).len)
  BY <1>a, <1>3, CallInfo
<1>5. /\ mboxs'[b].lock_on_box = None /\ mboxs'[b].buffer = mboxs[b].buffer /\ mboxs'[b].name = mboxs[b].name
      /\ \A c \in Boxes \ {b} : mboxs'[c] = mboxs[c]
  BY <1>2, <1>3 DEF Touches
<1>b. mboxs[b].buffer \in Seq(Bytes) /\ msg[p] \in Seq(Bytes)
  BY <1>0 DEF Types, Mailboxes
<1>c. Len(msg[p]) < Call(p).len
  BY <1>2 DEF Unfinished
<1>6. msg[p] = <<>> /\ Whole(mboxs[b].buffer, Call(p).len)
  <2>1. CASE Call(p).do = "send"
    <3>1. Sending(p, op[p], msg[p], mboxs[b].buffer, Call(p).len)
      BY <2>1, <1>1, <1>2, <1>3 DEF Transit
    <3>2. Len(mboxs[b].buffer) \in Multiples(Call(p).len) /\ mboxs[b].buffer # <<>>
      <4>1. Len(mboxs[b].buffer) = MAIL_CAPACITY /\ MAIL_CAPACITY # 0
        BY <2>1, <1>2, <1>3, MailboxAssumption
      <4> QED BY <4>1, <1>4
    <3>3. Contents(mboxs[b].buffer, Call(p).len, Call(p).name)
      BY <3>2, <1>1, <1>4 DEF BoxOk
    <3> QED BY <3>1, <3>2, <3>3, <1>4, <1>b, <1>c, SendFull
  <2>2. CASE Call(p).do = "recv"
    <3>1. Receiving(msg[p], mboxs[b].buffer, Call(p).len, Call(p).name)
      BY <2>2, <1>1, <1>2, <1>3 DEF Transit
    <3>2. mboxs[b].buffer = <<>>
      <4>1. Len(mboxs[b].buffer) = 0
        BY <2>2, <1>2, <1>3
      <4> QED BY <4>1, <1>b
    <3> QED BY <3>1, <3>2, <1>4, <1>b, <1>c, RecvEmpty DEF Whole
  <2> QED BY <2>1, <2>2, <1>a
<1>7. \A q \in Users \ {p} : pc[q] = "locked" => mailbox(q) # b
  <2>1. mboxs[b].lock_on_box = p
    BY <1>1, <1>2, <1>3 DEF Locked
  <2> QED BY <1>1, <2>1, HolderAlone
<1>8. /\ Locked' /\ Rested' /\ \A c \in Boxes \ {b} : BoxOk(L, c)'
      /\ \A q \in Users \ {p} : Transit(q)'
  <2>1. msg'[p] = <<>> /\ pc'[p] # "locked"
    BY <1>2, <1>6
  <2> QED BY <2>1, <1>2, <1>3, <1>5, <1>7, MoveOthers
<1>9. BoxOk(L, b)'
  <2>1. BoxOk(L, b)
    BY <1>1
  <2> QED BY <2>1, <1>4, <1>5, <1>6 DEF BoxOk
<1>10. Transit(p)'
  BY <1>2 DEF Transit
<1>11. ASSUME NEW x, NEW z, Holds(z, x)' PROVE Holds(z, x)
  <2>1. ASSUME NEW c \in Boxes, NEW j \in Nat, z = <<"box", c, j>>, InBox(c, j, x)' PROVE Holds(z, x)
    <3>1. mboxs'[c].buffer = mboxs[c].buffer
      BY <1>5
    <3> QED BY <2>1, <3>1 DEF InBox, Holds
  <2>2. ASSUME NEW q \in Users, z = <<"msg", q, 0>>, InMsg(q, x)' PROVE Holds(z, x)
    <3>1. q # p
      BY <2>2, <1>2 DEF InMsg
    <3>2. Call(q)' = Call(q) /\ pc'[q] = pc[q]
      BY <3>1, <1>2, StillCall
    <3> QED BY <2>2, <3>2, <1>2 DEF InMsg, Holds
  <2>3. ASSUME NEW q \in Users, NEW c \in Nat, z = <<"in", q, c>>, InInbox(q, c, x)' PROVE Holds(z, x)
    BY <2>3, <1>2 DEF InInbox, Holds
  <2> QED BY <1>11, <2>1, <2>2, <2>3 DEF Holds
<1>12. \A x : Past(x) => Past(x)'
  <2>1. \A q \in Users : op'[q] >= op[q]
    BY <1>0, OpGrows
  <2> QED BY <2>1, <1>0, <1>2, <1>6, PastKept
<1>13. Unique' /\ AllPast'
  BY <1>1, <1>11, <1>12, UniqueLess, PastLess
<1>14. AllReceived'
  BY <1>1, <1>2, InboxKept
<1> QED BY <1>8, <1>9, <1>10, <1>13, <1>14 DEF Messages

\* strrev keeps the bytes.
LEMMA StrrevSame ==
  ASSUME NEW m \in Seq(Bytes)
  PROVE  ImageOf(strrev(m)) \subseteq ImageOf(m) /\ strrev(m) \in Seq(Bytes)
<1>1. Len(m) \in Nat /\ DOMAIN m = 1..Len(m) /\ \A n \in 1..Len(m) : m[n] \in Bytes
  OBVIOUS
<1>2. \A n \in 1..Len(m) : Len(m) + 1 - n \in 1..Len(m)
  BY ONLY <1>1
<1>3. \A n \in 1..Len(m) : strrev(m)[n] = m[Len(m) + 1 - n]
  BY ONLY DEF strrev
<1>4. DOMAIN strrev(m) = 1..Len(m)
  BY ONLY DEF strrev
<1>5. ImageOf(strrev(m)) \subseteq ImageOf(m)
  BY ONLY <1>1, <1>2, <1>3, <1>4 DEF ImageOf
<1>6. strrev(m) \in [1..Len(m) -> Bytes]
  BY ONLY <1>1, <1>2 DEF strrev
<1>7. strrev(m) \in Seq(Bytes)
  BY ONLY <1>1, <1>6
<1> QED BY <1>5, <1>7

\* The inbox of p after a message s was received.
LEMMA InboxGrows ==
  ASSUME NEW p \in Users, Types, NEW s \in Seq(Bytes), inbox' = [inbox EXCEPT ![p] = Append(@, s)]
  PROVE  /\ Len(inbox[p]) \in Nat
         /\ \A q \in Users \ {p} : inbox'[q] = inbox[q]
         /\ \A c \in 1..Len(inbox'[p]) : \/ c \in 1..Len(inbox[p]) /\ inbox'[p][c] = inbox[p][c]
                                         \/ c = Len(inbox[p]) + 1 /\ inbox'[p][c] = s
<1>1. PICK t \in Seq(Seq(Bytes)) : t = inbox[p]
  BY DEF Types
<1>2. inbox'[p] = Append(t, s) /\ \A q \in Users \ {p} : inbox'[q] = inbox[q]
  BY <1>1 DEF Types
<1>3. /\ Len(t) \in Nat
      /\ \A c \in 1..Len(Append(t, s)) : \/ c \in 1..Len(t) /\ Append(t, s)[c] = t[c]
                                         \/ c = Len(t) + 1 /\ Append(t, s)[c] = s
  BY ONLY t \in Seq(Seq(Bytes)), s \in Seq(Bytes)
<1> QED BY ONLY <1>1, <1>2, <1>3

\* The end of mbox_send leaves its message in the mailbox, the end of mbox_recv
\* one in the inbox.
LEMMA EndMessages ==
  ASSUME NEW L \in [Names -> Nat \ {0}], EvenLengths(L), NEW p \in Users, Control, Counts, Messages(L),
         SendEnd(p) \/ RecvEnd(p)
  PROVE  Messages(L)'
<1>0. Types /\ Types' /\ Step(p)
  BY EndControl DEF Control, Step
<1>1. /\ Locked /\ Rested /\ Unique /\ AllPast /\ AllReceived /\ Transit(p)
      /\ \A b \in Boxes : BoxOk(L, b)
  BY MessagesParts
<1>2. /\ Control' /\ Touches(p) /\ UNCHANGED <<box, i, reg>>
      /\ pc[p] = "locked" /\ pc'[p] = "ready"
      /\ \A q \in Users \ {p} : pc'[q] = pc[q] /\ op'[q] = op[q] /\ msg'[q] = msg[q]
      /\ op'[p] = op[p] + 1 /\ msg'[p] = <<>> /\ ~Unfinished(p)
      /\ \A c \in Boxes : mboxs'[c] = IF c = mailbox(p) THEN [mboxs[c] EXCEPT !.lock_on_box = None] ELSE mboxs[c]
      /\ Call(p).do = "send" => inbox' = inbox
      /\ Call(p).do = "recv" => inbox' = [inbox EXCEPT ![p] = Append(@, strrev(msg[p]))]
  BY EndControl
<1>3. PICK b \in Boxes : b = mailbox(p)
  BY <1>2 DEF Touches
<1>a. op[p] <= Len(Program[p]) /\ Call(p).do \in {"send", "recv"}
  BY <1>2, MovingCall DEF Moving
<1>4. /\ Call(p).name \in Names /\ mboxs[b].name = Call(p).name
      /\ Call(p).len = L[Call(p).name] /\ Call(p).len \in Nat \ {0}
  BY <1>a, <1>3, CallInfo
<1>5. /\ mboxs'[b].lock_on_box = None /\ mboxs'[b].buffer = mboxs[b].buffer /\ mboxs'[b].name = mboxs[b].name
      /\ \A c \in Boxes \ {b} : mboxs'[c] = mboxs[c]
  <2>1. mboxs[b] \in Mailboxes /\ mboxs'[b] = [mboxs[b] EXCEPT !.lock_on_box = None]
    BY <1>2, <1>3, BoxTypes
  <2>2. /\ mboxs'[b].lock_on_box = None /\ mboxs'[b].buffer = mboxs[b].buffer /\ mboxs'[b].name = mboxs[b].name
    BY <2>1 DEF Mailboxes
  <2> QED BY <2>2, <1>2, <1>3
<1>b. mboxs[b].buffer \in Seq(Bytes) /\ msg[p] \in Seq(Bytes)
  BY <1>0 DEF Types, Mailboxes
<1>c. Len(msg[p]) = Call(p).len
  <2>1. Len(msg[p]) <= Call(p).len /\ ~(Len(msg[p]) < Call(p).len) /\ Len(msg[p]) \in Nat
    BY <1>1, <1>2, <1>b DEF Transit, Unfinished
  <2> QED BY ONLY <2>1, <1>4
<1>d. Call(p).do = "recv" => Receiving(msg[p], mboxs[b].buffer, Call(p).len, Call(p).name)
  BY <1>1, <1>2, <1>3 DEF Transit
<1>6. Whole(mboxs[b].buffer, Call(p).len)
  <2>1. CASE Call(p).do = "send"
    <3>1. Sending(p, op[p], msg[p], mboxs[b].buffer, Call(p).len)
      BY <2>1, <1>1, <1>2, <1>3 DEF Transit
    <3> QED BY <3>1, <1>4, <1>b, <1>c, SendDone
  <2>2. CASE Call(p).do = "recv"
    BY <2>2, <1>4, <1>b, <1>c, <1>d, RecvDone
  <2> QED BY <2>1, <2>2, <1>a
<1>7. \A q \in Users \ {p} : pc[q] = "locked" => mailbox(q) # b
  <2>1. mboxs[b].lock_on_box = p
    BY <1>1, <1>2, <1>3 DEF Locked
  <2> QED BY <1>1, <2>1, HolderAlone
<1>8. /\ Locked' /\ Rested' /\ \A c \in Boxes \ {b} : BoxOk(L, c)'
      /\ \A q \in Users \ {p} : Transit(q)'
  <2>1. msg'[p] = <<>> /\ pc'[p] # "locked"
    BY <1>2
  <2> QED BY <2>1, <1>2, <1>3, <1>5, <1>7, MoveOthers
<1>9. BoxOk(L, b)'
  <2>1. BoxOk(L, b)
    BY <1>1
  <2> QED BY <2>1, <1>4, <1>5, <1>6 DEF BoxOk
<1>10. Transit(p)'
  BY <1>2 DEF Transit
<1>11. \A x : Past(x) => Past(x)'
  <2>1. (\A q \in Users : op'[q] >= op[q]) /\ op'[p] > op[p]
    <3>1. op[p] \in Nat
      BY <1>0 DEF Types
    <3>2. \A q \in Users : op'[q] >= op[q]
      BY <1>0, OpGrows
    <3> QED BY <3>1, <3>2, <1>2
  <2> QED BY <2>1, <1>0, <1>2, PastKept
<1>12. ASSUME NEW c \in Boxes, NEW j \in Nat, NEW x, InBox(c, j, x)' PROVE Holds(<<"box", c, j>>, x)
  <2>1. mboxs'[c].buffer = mboxs[c].buffer
    BY <1>5
  <2> QED BY <1>12, <2>1 DEF InBox, Holds
<1>13. ASSUME NEW q \in Users, NEW x, InMsg(q, x)' PROVE Holds(<<"msg", q, 0>>, x) /\ q # p
  <2>1. q # p
    BY <1>13, <1>2 DEF InMsg
  <2>2. Call(q)' = Call(q) /\ pc'[q] = pc[q] /\ msg'[q] = msg[q]
    BY <2>1, <1>2, StillCall
  <2> QED BY <1>13, <2>1, <2>2 DEF InMsg, Holds
<1>14. Unique' /\ AllPast' /\ AllReceived'
  <2>1. CASE Call(p).do = "send"
    <3>0. inbox' = inbox
      BY <2>1, <1>2
    <3>1. ASSUME NEW x, NEW z, Holds(z, x)' PROVE Holds(z, x)
      <4>1. ASSUME NEW q \in Users, NEW c \in Nat, z = <<"in", q, c>>, InInbox(q, c, x)' PROVE Holds(z, x)
        BY <4>1, <3>0 DEF InInbox, Holds
      <4> QED BY <3>1, <4>1, <1>12, <1>13 DEF Holds
    <3> QED BY <3>0, <3>1, <1>1, <1>11, UniqueLess, PastLess, InboxKept
  <2>2. CASE Call(p).do = "recv"
    <3>0. /\ strrev(msg[p]) \in Seq(Bytes) /\ ImageOf(strrev(msg[p])) \subseteq ImageOf(msg[p])
          /\ inbox' = [inbox EXCEPT ![p] = Append(@, strrev(msg[p]))]
      BY <2>2, <1>2, <1>b, StrrevSame
    <3>1. /\ Len(inbox[p]) \in Nat
          /\ \A q \in Users \ {p} : inbox'[q] = inbox[q]
          /\ \A c \in 1..Len(inbox'[p]) : \/ c \in 1..Len(inbox[p]) /\ inbox'[p][c] = inbox[p][c]
                                          \/ c = Len(inbox[p]) + 1 /\ inbox'[p][c] = strrev(msg[p])
      BY <3>0, <1>0, InboxGrows
    <3> DEFINE from == <<"msg", p, 0>>
    <3>a. PICK to : to = <<"in", p, Len(inbox[p]) + 1>>
      OBVIOUS
    <3>2. ASSUME NEW q \in Users, NEW c \in Nat, NEW x, InInbox(q, c, x)'
          PROVE  InInbox(q, c, x) \/ (<<"in", q, c>> = to /\ InMsg(p, x))
      <4>1. CASE q # p
        BY <3>2, <4>1, <3>1 DEF InInbox
      <4>2. CASE q = p
        <5>1. c \in 1..Len(inbox'[p]) /\ x \in ImageOf(inbox'[p][c])
          BY <3>2, <4>2 DEF InInbox
        <5>2. CASE c \in 1..Len(inbox[p]) /\ inbox'[p][c] = inbox[p][c]
          BY <5>1, <5>2, <4>2 DEF InInbox
        <5>3. CASE c = Len(inbox[p]) + 1 /\ inbox'[p][c] = strrev(msg[p])
          <6>1. x \in ImageOf(msg[p])
            BY ONLY <5>1, <5>3, <3>0
          <6> QED BY <6>1, <5>3, <4>2, <3>a, <2>2, <1>2 DEF InMsg
        <5> QED BY <5>1, <5>2, <5>3, <3>1
      <4> QED BY <4>1, <4>2
    <3>3. ASSUME NEW x PROVE ~Holds(from, x)'
      <4>1. ~InMsg(p, x)'
        BY <1>2 DEF InMsg
      <4> QED BY <4>1 DEF Holds
    <3>4. ASSUME NEW x, NEW z, Holds(z, x)' PROVE Holds(z, x) \/ (z = to /\ Holds(from, x))
      <4>1. ASSUME NEW q \in Users, NEW c \in Nat, z = <<"in", q, c>>, InInbox(q, c, x)'
            PROVE  Holds(z, x) \/ (z = to /\ Holds(from, x))
        <5>1. CASE InInbox(q, c, x)
          BY <4>1, <5>1 DEF Holds
        <5>2. CASE z = to /\ InMsg(p, x)
          BY <5>2 DEF Holds
        <5> QED BY <4>1, <5>1, <5>2, <3>2
      <4> HIDE DEF from
      <4> QED BY <3>4, <4>1, <1>12, <1>13 DEF Holds
    <3> HIDE DEF from
    <3>5. Unique' /\ AllPast'
      <4>1. (\A x, z : z # to /\ Holds(z, x)' => Holds(z, x)) /\ \A x : Holds(to, x)' => Holds(from, x) \/ Holds(to, x)
        BY <3>4
      <4> QED BY <4>1, <3>3, <1>1, <1>11, UniqueMove
    <3>6. Received(strrev(msg[p]))
      <4>1. PICK q \in Users, c \in Nat : /\ IsCall(q, c, "send", Call(p).name)
                                          /\ strrev(msg[p]) = Message(q, c, Call(p).len)
        <5>1. PICK k \in Nat \ {0}, m \in Seq(Bytes), s \in Seq(Bytes), n \in Names :
                 k = Call(p).len /\ m = msg[p] /\ s = mboxs[b].buffer /\ n = Call(p).name
          BY <1>4, <1>b
        <5>2. Receiving(m, s, k, n) /\ Len(m) = k
          BY <5>1, <2>2, <1>c, <1>d
        <5>3. \E q \in Users, c \in Nat : IsCall(q, c, "send", n) /\ strrev(m) = Message(q, c, k)
          BY ONLY <5>1, <5>2, RecvDone
        <5> QED BY ONLY <5>1, <5>3
      <4>2. /\ c \in 1..Len(Program[q]) /\ Program[q][c].do = "send" /\ Program[q][c].name = Call(p).name
        BY <4>1 DEF IsCall
      <4>3. Program[q][c].len = Call(p).len /\ Call(p).len # 0
        BY <4>2, <1>4 DEF EvenLengths
      <4> QED BY <4>1, <4>2, <4>3 DEF Received, Message
    <3>7. AllReceived'
      <4> SUFFICES ASSUME NEW q \in Users, NEW n \in 1..Len(inbox'[q]) PROVE Received(inbox'[q][n])
        BY DEF AllReceived
      <4>1. \A c \in 1..Len(inbox[q]) : Received(inbox[q][c])
        BY <1>1 DEF AllReceived
      <4>2. CASE q # p
        BY <4>1, <4>2, <3>1
      <4>3. CASE q = p
        BY <4>1, <4>3, <3>1, <3>6
      <4> QED BY <4>2, <4>3
    <3> QED BY <3>5, <3>7
  <2> QED BY <2>1, <2>2, <1>a
<1> QED BY <1>8, <1>9, <1>10, <1>14 DEF Messages

\* A byte is sent: it is new, and on top of the message it belongs to.
LEMMA SendByteMessages ==
  ASSUME NEW L \in [Names -> Nat \ {0}], EvenLengths(L), NEW p \in Users, Control, Counts, Messages(L), SendByte(p)
  PROVE  Messages(L)'
<1>p. pc[p] = "locked"
  BY DEF SendByte, Transfers
<1>q. Types /\ mailbox(p) \in Boxes /\ op[p] <= Len(Program[p]) /\ Call(p).do \in {"send", "recv"}
  BY <1>p, MovingCall DEF Moving, Control
<1>3. PICK b \in Boxes : b = mailbox(p)
  BY <1>q
<1>1. /\ Locked /\ Rested /\ Unique /\ AllPast /\ AllReceived /\ Transit(p)
      /\ \A c \in Boxes : BoxOk(L, c)
  BY MessagesParts
<1>2. /\ Control' /\ Touches(p) /\ UNCHANGED <<op, box, i, reg, inbox>>
      /\ pc[p] = "locked" /\ pc'[p] = "locked" /\ Call(p).do = "send" /\ Unfinished(p)
      /\ mboxs'[b].buffer = Append(mboxs[b].buffer, <<p, op[p], Len(msg[p]) + 1>>)
      /\ mboxs'[b].lock_on_box = mboxs[b].lock_on_box
      /\ msg'[p] = Append(msg[p], <<p, op[p], Len(msg[p]) + 1>>)
      /\ \A q \in Users \ {p} : /\ pc'[q] = pc[q] \/ (pc[q] = "waiting" /\ pc'[q] = "relock")
                                /\ msg'[q] = msg[q]
  BY <1>3, SendByteControl
<1>0. Types /\ Types' /\ Step(p)
  BY <1>2 DEF Control, Step
<1>4. /\ Call(p).name \in Names /\ mboxs[b].name = Call(p).name
      /\ Call(p).len = L[Call(p).name] /\ Call(p).len \in Nat \ {0}
      /\ op[p] \in Nat \ {0} /\ IsCall(p, op[p], "send", Call(p).name)
  BY <1>q, <1>2, <1>3, CallInfo
<1>5. /\ mboxs[b].lock_on_box = p /\ mboxs'[b].lock_on_box = p /\ mboxs'[b].name = mboxs[b].name
      /\ \A c \in Boxes \ {b} : mboxs'[c] = mboxs[c]
  <2>1. mboxs[b].lock_on_box = p
    BY <1>1, <1>2, <1>3 DEF Locked
  <2> QED BY <2>1, <1>2, <1>3 DEF Touches
<1>b. mboxs[b].buffer \in Seq(Bytes) /\ msg[p] \in Seq(Bytes) /\ Len(msg[p]) < Call(p).len
  BY <1>0, <1>2 DEF Types, Mailboxes, Unfinished
<1>6. PICK s \in Seq(Bytes), m \in Seq(Bytes), k \in Nat \ {0}, n \in Names, o \in Nat :
        s = mboxs[b].buffer /\ m = msg[p] /\ k = Call(p).len /\ n = Call(p).name /\ o = op[p]
  BY <1>4, <1>b
<1>y. PICK y : y = <<p, o, Len(m) + 1>>
  OBVIOUS
<1>7. /\ mboxs'[b].buffer = Append(s, y) /\ msg'[p] = Append(m, y) /\ Len(m) < k /\ k = L[n]
      /\ mboxs[b].name = n /\ IsCall(p, o, "send", n)
  BY <1>2, <1>4, <1>6, <1>y, <1>b
<1>8. Contents(s, k, n) /\ Sending(p, o, m, s, k)
  <2>1. Sending(p, o, m, s, k)
    BY <1>1, <1>2, <1>3, <1>6 DEF Transit
  <2>2. CASE s # <<>>
    <3>1. BoxOk(L, b)
      BY <1>1
    <3> QED BY <3>1, <2>1, <2>2, <1>6, <1>7 DEF BoxOk
  <2>3. CASE s = <<>>
    <3>1. 1..Len(s) = {}
      BY <2>3
    <3> QED BY <3>1, <2>1 DEF Contents
  <2> QED BY <2>2, <2>3
<1>e. PICK t, u : t = Append(s, y) /\ u = Append(m, y)
  OBVIOUS
<1>f. mboxs'[b].buffer = t /\ msg'[p] = u
  BY ONLY <1>7, <1>e
<1>9. Contents(t, k, n) /\ Sending(p, o, u, t, k) /\ y \in Bytes
  <2>1. IsNext(y, p, o, m) /\ Len(m) < k /\ IsCall(p, o, "send", n)
    BY <1>6, <1>7, <1>y DEF IsNext
  <2> QED BY ONLY <2>1, <1>e, <1>8, SendPut, s \in Seq(Bytes), m \in Seq(Bytes), k \in Nat \ {0}, p \in Users, o \in Nat
<1>10. /\ Len(t) = Len(s) + 1 /\ Len(s) \in Nat /\ Top(t) = y
       /\ \A j \in 1..Len(s) : t[j] = s[j]
       /\ Len(u) = Len(m) + 1 /\ Len(m) \in Nat /\ u # <<>>
  BY ONLY ZenonT(90), <1>9, <1>e, AppendIs, s \in Seq(Bytes), m \in Seq(Bytes)
<1>11. \A q \in Users \ {p} : pc[q] = "locked" => mailbox(q) # b
  BY <1>1, <1>5, HolderAlone
<1>12. /\ Locked' /\ Rested' /\ \A c \in Boxes \ {b} : BoxOk(L, c)'
       /\ \A q \in Users \ {p} : Transit(q)'
  BY <1>2, <1>3, <1>5, <1>11, MoveOthers
<1>13. BoxOk(L, b)'
  <2>1. p # None
    BY MailboxAssumption
  <2> QED BY <2>1, <1>5, <1>7, <1>9, <1>f DEF BoxOk
<1>14. Call(p)' = Call(p) /\ mailbox(p)' = b
  BY <1>2, <1>3, StillCall, StillMailbox
<1>15. Transit(p)'
  <2>1. Len(msg'[p]) <= k
    BY <1>7, <1>10, <1>f
  <2>2. Sending(p, op'[p], msg'[p], mboxs'[b].buffer, k)
    BY <1>2, <1>6, <1>9, <1>f
  <2>3. Call(p)'.len = k /\ Call(p)'.do = "send" /\ mailbox(p)' = b
    BY <1>2, <1>6, <1>14
  <2> QED BY <2>1, <2>2, <2>3 DEF Transit
<1>16. \A x : Past(x) => Past(x)'
  <2>1. \A q \in Users : op'[q] >= op[q]
    BY <1>0, OpGrows
  <2>2. op'[p] = op[p] /\ pc'[p] = "locked" /\ Len(msg'[p]) >= Len(msg[p])
    BY <1>2, <1>6, <1>f, <1>10
  <2> QED BY <2>1, <2>2, <1>0, <1>2, PastKept
<1>17. y[1] = p /\ y[2] = o /\ y[3] = Len(m) + 1 /\ o = op[p] /\ o = op'[p]
  BY <1>2, <1>6, <1>y
<1>18. ~Past(y)
  <2>1. ~(o < o) /\ Len(m) + 1 \notin 1..Len(m)
    BY ONLY <1>10, o \in Nat
  <2> QED BY <2>1, <1>6, <1>17 DEF Past
<1>19. Past(y)'
  <2>1. Len(m) + 1 \in 1..Len(msg'[p])
    BY ONLY <1>f, <1>10
  <2> QED BY <2>1, <1>2, <1>9, <1>14, <1>17 DEF Past
<1>20. PICK to : to = <<"box", b, Len(s) + 1>>
  OBVIOUS
<1>21. ASSUME NEW x, NEW z, Holds(z, x)' PROVE Holds(z, x) \/ (z = to /\ x = y)
  <2>1. ASSUME NEW c \in Boxes, NEW j \in Nat, z = <<"box", c, j>>, InBox(c, j, x)'
        PROVE  Holds(z, x) \/ (z = to /\ x = y)
    <3>1. CASE c # b
      <4>1. mboxs'[c].buffer = mboxs[c].buffer
        BY <3>1, <1>5
      <4> QED BY <2>1, <4>1 DEF InBox, Holds
    <3>2. CASE c = b
      <4>1. j \in 1..Len(t) /\ t[j] = x
        BY <2>1, <3>2, <1>f DEF InBox
      <4>2. CASE j \in 1..Len(s)
        <5>1. InBox(c, j, x)
          BY <3>2, <4>1, <4>2, <1>6, <1>10 DEF InBox
        <5> QED BY <2>1, <5>1 DEF Holds
      <4>3. CASE j = Len(s) + 1
        BY <2>1, <3>2, <4>1, <4>3, <1>10, <1>20 DEF Top
      <4>4. j \in 1..Len(s) \/ j = Len(s) + 1
        BY ONLY <4>1, <1>10
      <4> QED BY <4>2, <4>3, <4>4
    <3> QED BY <3>1, <3>2
  <2>2. ASSUME NEW q \in Users, z = <<"msg", q, 0>>, InMsg(q, x)' PROVE Holds(z, x)
    <3>1. q # p
      BY <2>2, <1>2, <1>14 DEF InMsg
    <3>2. Call(q)' = Call(q) /\ (pc'[q] = "locked" => pc[q] = "locked") /\ msg'[q] = msg[q]
      BY <3>1, <1>2, StillCall
    <3> QED BY <2>2, <3>2 DEF InMsg, Holds
  <2>3. ASSUME NEW q \in Users, NEW c \in Nat, z = <<"in", q, c>>, InInbox(q, c, x)' PROVE Holds(z, x)
    BY <2>3, <1>2 DEF InInbox, Holds
  <2> QED BY <1>21, <2>1, <2>2, <2>3 DEF Holds
<1>22. Unique' /\ AllPast'
  <2>1. Adds(to, y)
    BY <1>21 DEF Adds
  <2> QED BY ONLY <2>1, <1>1, <1>16, <1>18, <1>19, UniqueNew
<1>23. AllReceived'
  BY <1>1, <1>2, InboxKept
<1> QED BY <1>12, <1>13, <1>15, <1>22, <1>23 DEF Messages

\* A byte is received: it leaves the mailbox for the receiver.
LEMMA RecvByteMessages ==
  ASSUME NEW L \in [Names -> Nat \ {0}], EvenLengths(L), NEW p \in Users, Control, Counts, Messages(L), RecvByte(p)
  PROVE  Messages(L)'
<1>p. pc[p] = "locked"
  BY DEF RecvByte, Transfers
<1>q. Types /\ mailbox(p) \in Boxes /\ op[p] <= Len(Program[p]) /\ Call(p).do \in {"send", "recv"}
  BY <1>p, MovingCall DEF Moving, Control
<1>3. PICK b \in Boxes : b = mailbox(p)
  BY <1>q
<1>1. /\ Locked /\ Rested /\ Unique /\ AllPast /\ AllReceived /\ Transit(p)
      /\ \A c \in Boxes : BoxOk(L, c)
  BY MessagesParts
<1>2. /\ Control' /\ Touches(p) /\ UNCHANGED <<op, box, i, reg, inbox>>
      /\ pc[p] = "locked" /\ pc'[p] = "locked" /\ Call(p).do = "recv" /\ Unfinished(p)
      /\ Len(mboxs[b].buffer) > 0
      /\ mboxs'[b].buffer = SubSeq(mboxs[b].buffer, 1, Len(mboxs[b].buffer) - 1)
      /\ mboxs'[b].lock_on_box = mboxs[b].lock_on_box
      /\ msg'[p] = Append(msg[p], mboxs[b].buffer[Len(mboxs[b].buffer)])
      /\ \A q \in Users \ {p} : /\ pc'[q] = pc[q] \/ (pc[q] = "waiting" /\ pc'[q] = "relock")
                                /\ msg'[q] = msg[q]
  BY <1>3, RecvByteControl
<1>0. Types /\ Types' /\ Step(p)
  BY <1>2 DEF Control, Step
<1>4. /\ Call(p).name \in Names /\ mboxs[b].name = Call(p).name
      /\ Call(p).len = L[Call(p).name] /\ Call(p).len \in Nat \ {0}
  BY <1>q, <1>2, <1>3, CallInfo
<1>5. /\ mboxs[b].lock_on_box = p /\ mboxs'[b].lock_on_box = p /\ mboxs'[b].name = mboxs[b].name
      /\ \A c \in Boxes \ {b} : mboxs'[c] = mboxs[c]
  <2>1. mboxs[b].lock_on_box = p
    BY <1>1, <1>2, <1>3 DEF Locked
  <2> QED BY <2>1, <1>2, <1>3 DEF Touches
<1>b. mboxs[b].buffer \in Seq(Bytes) /\ msg[p] \in Seq(Bytes) /\ Len(msg[p]) < Call(p).len
  BY <1>0, <1>2 DEF Types, Mailboxes, Unfinished
<1>6. PICK s \in Seq(Bytes), m \in Seq(Bytes), k \in Nat \ {0}, n \in Names :
        s = mboxs[b].buffer /\ m = msg[p] /\ k = Call(p).len /\ n = Call(p).name
  BY <1>4, <1>b
<1>e. PICK t, u, y : t = Front(s) /\ y = Top(s) /\ u = Append(m, y)
  OBVIOUS
<1>f. mboxs'[b].buffer = t /\ msg'[p] = u
  BY ONLY <1>2, <1>6, <1>e DEF Front, Top
<1>7. s # <<>> /\ Len(m) < k /\ k = L[n] /\ mboxs[b].name = n
  <2>1. s # <<>>
    BY <1>2, <1>6
  <2> QED BY <2>1, <1>4, <1>6, <1>b
<1>8. Contents(s, k, n) /\ Receiving(m, s, k, n)
  <2>1. Receiving(m, s, k, n)
    BY <1>1, <1>2, <1>3, <1>6 DEF Transit
  <2>2. BoxOk(L, b)
    BY <1>1
  <2> QED BY <2>1, <2>2, <1>6, <1>7 DEF BoxOk
<1>9. Contents(t, k, n) /\ Receiving(u, t, k, n)
  BY ONLY <1>e, <1>7, <1>8, RecvTake, s \in Seq(Bytes), m \in Seq(Bytes), k \in Nat \ {0}
<1>10. /\ Len(t) = Len(s) - 1 /\ Len(s) \in Nat \ {0} /\ y \in Bytes
       /\ \A j \in 1..(Len(s) - 1) : t[j] = s[j]
  BY ONLY <1>e, <1>7, FrontIs, s \in Seq(Bytes)
<1>g. /\ u \in Seq(Bytes) /\ Len(u) = Len(m) + 1 /\ Len(m) \in Nat /\ Top(u) = y
      /\ \A j \in 1..Len(m) : u[j] = m[j]
  <2>1. u = Append(m, y) /\ y \in Bytes
    BY ONLY <1>e, <1>10
  <2> QED BY ONLY ZenonT(90), <2>1, AppendIs, m \in Seq(Bytes)
<1>11. \A q \in Users \ {p} : pc[q] = "locked" => mailbox(q) # b
  BY <1>1, <1>5, HolderAlone
<1>12. /\ Locked' /\ Rested' /\ \A c \in Boxes \ {b} : BoxOk(L, c)'
       /\ \A q \in Users \ {p} : Transit(q)'
  BY <1>2, <1>3, <1>5, <1>11, MoveOthers
<1>13. BoxOk(L, b)'
  <2>1. p # None
    BY MailboxAssumption
  <2> QED BY <2>1, <1>5, <1>7, <1>9, <1>f DEF BoxOk
<1>14. Call(p)' = Call(p) /\ mailbox(p)' = b
  BY <1>2, <1>3, StillCall, StillMailbox
<1>15. Transit(p)'
  <2>1. Len(msg'[p]) <= k
    BY <1>7, <1>f, <1>g
  <2>2. Receiving(msg'[p], mboxs'[b].buffer, k, n)
    BY <1>f, <1>9
  <2>3. Call(p)'.len = k /\ Call(p)'.do = "recv" /\ Call(p)'.name = n /\ mailbox(p)' = b
    BY <1>2, <1>6, <1>14
  <2> QED BY <2>1, <2>2, <2>3 DEF Transit
<1>16. \A x : Past(x) => Past(x)'
  <2>1. \A q \in Users : op'[q] >= op[q]
    BY <1>0, OpGrows
  <2> QED BY <2>1, <1>0, <1>2, PastKept
<1>17. PICK from, to : from = <<"box", b, Len(s)>> /\ to = <<"msg", p, 0>>
  OBVIOUS
<1>18. ASSUME NEW x PROVE ~Holds(from, x)'
  <2>1. ~InBox(b, Len(s), x)'
    <3>1. Len(s) \notin 1..Len(t)
      BY ONLY <1>10
    <3>2. ~(Len(s) \in 1..Len(mboxs'[b].buffer))
      BY ONLY <3>1, <1>f
    <3> QED BY <3>2 DEF InBox
  <2> QED BY <2>1, <1>17 DEF Holds
<1>19. InBox(b, Len(s), y)
  BY <1>e, <1>6, <1>10 DEF InBox, Top
<1>20. ASSUME NEW x, InMsg(p, x)' PROVE InMsg(p, x) \/ x = y
  <2>1. x \in ImageOf(u)
    BY <1>20, <1>f DEF InMsg
  <2>2. PICK j \in 1..Len(u) : x = u[j]
    BY <2>1, <1>g DEF ImageOf
  <2>3. CASE j \in 1..Len(m)
    <3>1. x \in ImageOf(m)
      BY <2>2, <2>3, <1>g DEF ImageOf
    <3> QED BY <3>1, <1>2, <1>6 DEF InMsg
  <2>4. CASE j = Len(u)
    BY <2>2, <2>4, <1>g DEF Top
  <2>5. j \in 1..Len(m) \/ j = Len(u)
    BY ONLY <1>g, j \in 1..Len(u)
  <2> QED BY <2>3, <2>4, <2>5
<1>21. ASSUME NEW x, NEW z, Holds(z, x)' PROVE Holds(z, x) \/ (z = to /\ Holds(from, x))
  <2>1. ASSUME NEW c \in Boxes, NEW j \in Nat, z = <<"box", c, j>>, InBox(c, j, x)' PROVE Holds(z, x)
    <3>1. CASE c # b
      <4>1. mboxs'[c].buffer = mboxs[c].buffer
        BY <3>1, <1>5
      <4> QED BY <2>1, <4>1 DEF InBox, Holds
    <3>2. CASE c = b
      <4>1. j \in 1..Len(t) /\ t[j] = x
        BY <2>1, <3>2, <1>f DEF InBox
      <4>2. j \in 1..(Len(s) - 1) /\ j \in 1..Len(s)
        BY ONLY <4>1, <1>10
      <4>3. s[j] = x
        BY ONLY <4>1, <4>2, <1>10
      <4>4. InBox(c, j, x)
        BY <3>2, <4>2, <4>3, <1>6 DEF InBox
      <4> QED BY <2>1, <4>4 DEF Holds
    <3> QED BY <3>1, <3>2
  <2>2. ASSUME NEW q \in Users, z = <<"msg", q, 0>>, InMsg(q, x)'
        PROVE  Holds(z, x) \/ (z = to /\ Holds(from, x))
    <3>1. CASE q # p
      <4>1. Call(q)' = Call(q) /\ (pc'[q] = "locked" => pc[q] = "locked") /\ msg'[q] = msg[q]
        BY <3>1, <1>2, StillCall
      <4> QED BY <2>2, <4>1 DEF InMsg, Holds
    <3>2. CASE q = p
      <4>1. CASE InMsg(p, x)
        BY <2>2, <3>2, <4>1 DEF Holds
      <4>2. CASE x = y
        <5>1. Holds(from, x)
          BY <4>2, <1>10, <1>17, <1>19 DEF Holds
        <5> QED BY <2>2, <3>2, <5>1, <1>17
      <4> QED BY <2>2, <3>2, <4>1, <4>2, <1>20
    <3> QED BY <3>1, <3>2
  <2>3. ASSUME NEW q \in Users, NEW c \in Nat, z = <<"in", q, c>>, InInbox(q, c, x)' PROVE Holds(z, x)
    BY <2>3, <1>2 DEF InInbox, Holds
  <2> QED BY <1>21, <2>1, <2>2, <2>3 DEF Holds
<1>22. Unique' /\ AllPast'
  <2>1. (\A x, z : z # to /\ Holds(z, x)' => Holds(z, x)) /\ \A x : Holds(to, x)' => Holds(from, x) \/ Holds(to, x)
    BY <1>21
  <2> QED BY <2>1, <1>18, <1>1, <1>16, UniqueMove
<1>23. AllReceived'
  BY <1>1, <1>2, InboxKept
<1> QED BY <1>12, <1>13, <1>15, <1>22, <1>23 DEF Messages

-----------------------------------------------------------------------------
\* The invariant of the mailboxes.
MailInv(L) == UsersInv /\ Messages(L)

\* There are no messages at first.
LEMMA InitMessages ==
  ASSUME NEW L, Init
  PROVE  Messages(L)
<1>1. /\ \A b \in Boxes : mboxs[b] = Fresh
      /\ \A p \in Users : pc[p] = "ready" /\ msg[p] = <<>> /\ inbox[p] = <<>>
  BY DEF Init, mbox_init
<1>2. \A b \in Boxes : mboxs[b].buffer = <<>> /\ mboxs[b].lock_on_box = None
  BY <1>1 DEF Fresh
<1>3. Locked /\ Rested
  BY <1>1, <1>2, MailboxAssumption DEF Locked, Rested
<1>4. (\A b \in Boxes : BoxOk(L, b)) /\ \A p \in Users : Transit(p)
  BY <1>1, <1>2 DEF BoxOk, Transit
<1>5. \A x, z : ~Holds(z, x)
  BY <1>1, <1>2 DEF Holds, InBox, InMsg, InInbox
<1>6. AllReceived
  BY SMTT(60), <1>1 DEF AllReceived
<1> QED BY <1>3, <1>4, <1>5, <1>6 DEF Messages, Unique, AllPast

\* A step that changes nothing.
LEMMA StutterMessages ==
  ASSUME NEW L, Messages(L), UNCHANGED vars
  PROVE  Messages(L)'
<1>1. /\ mboxs' = mboxs /\ pc' = pc /\ op' = op /\ box' = box /\ msg' = msg /\ inbox' = inbox
  BY DEF vars
<1>2. Locked' /\ Rested'
  BY <1>1 DEF Messages, Locked, Rested, Call, mailbox
<1>3. ASSUME NEW b \in Boxes PROVE BoxOk(L, b)'
  BY <1>1 DEF Messages, BoxOk
<1>4. ASSUME NEW p \in Users PROVE Transit(p)'
  BY <1>1 DEF Messages, Transit, Call, mailbox
<1>5. ASSUME NEW z, NEW x PROVE Holds(z, x)' <=> Holds(z, x)
  BY ONLY <1>1 DEF Holds, InBox, InMsg, InInbox, Call, mailbox
<1>6. Unique'
  BY <1>5 DEF Messages, Unique
<1>7. AllPast'
  BY <1>1, <1>5 DEF Messages, AllPast, Past, Call
<1>8. AllReceived'
  BY <1>1 DEF Messages, AllReceived, Received
<1> QED BY <1>2, <1>3, <1>4, <1>6, <1>7, <1>8 DEF Messages

\* Every step keeps the invariant.
LEMMA NextMessages ==
  ASSUME Orderly, NEW L \in [Names -> Nat \ {0}], EvenLengths(L), MailInv(L), [Next]_vars
  PROVE  MailInv(L)'
<1>1. UsersInv /\ Control /\ Counts /\ Messages(L)
  BY DEF MailInv, UsersInv
<1>2. UsersInv'
  BY <1>1, NextUsers
<1>3. CASE UNCHANGED vars
  BY <1>1, <1>2, <1>3, StutterMessages DEF MailInv
<1>4. ASSUME NEW p \in Users, Step(p) PROVE Messages(L)'
  <2>1. CASE \/ OpenSearch(p) \/ OpenSpare(p) \/ OpenCopy(p) \/ OpenLoad(p) \/ OpenStore(p)
             \/ CloseLoad(p) \/ CloseStore(p) \/ CloseTest(p) \/ CloseReset(p)
    BY <1>1, <2>1, OpenCloseMessages
  <2>2. CASE Acquire(p)
    BY <1>1, <2>2, AcquireMessages
  <2>3. CASE SendWait(p) \/ RecvWait(p)
    BY <1>1, <2>3, WaitMessages
  <2>4. CASE SendEnd(p) \/ RecvEnd(p)
    BY <1>1, <2>4, EndMessages
  <2>5. CASE SendByte(p)
    BY <1>1, <2>5, SendByteMessages
  <2>6. CASE RecvByte(p)
    BY <1>1, <2>6, RecvByteMessages
  <2> QED BY <1>4, <2>1, <2>2, <2>3, <2>4, <2>5, <2>6 DEF Step
<1> QED BY <1>2, <1>3, <1>4 DEF Next, Idle, MailInv

\* Two messages that are the same were received once.
LEMMA OneReceipt ==
  ASSUME Unique, AllReceived, NEW p \in Users, NEW q \in Users, NEW n \in 1..Len(inbox[p]), NEW m \in 1..Len(inbox[q]),
         inbox[p][n] = inbox[q][m], Types
  PROVE  p = q /\ n = m
<1>1. PICK r \in Users : \E o \in 1..Len(Program[r]) :
         Program[r][o].len # 0 /\ inbox[p][n] = [j \in 1..Program[r][o].len |-> <<r, o, j>>]
  BY DEF AllReceived, Received
<1>a. PICK o \in 1..Len(Program[r]) :
         Program[r][o].len # 0 /\ inbox[p][n] = [j \in 1..Program[r][o].len |-> <<r, o, j>>]
  BY <1>1
<1>2. Program[r][o].len \in Nat
  <2> DEFINE R == [do : {"open", "close", "send", "recv"}, name : Names, len : Nat]
  <2>1. Program[r] \in Seq(R)
    BY MailboxAssumption
  <2>2. Program[r][o] \in R
    <3> HIDE DEF R
    <3> QED BY <2>1, ElementIn
  <2> QED BY <2>2
<1>3. PICK x : x = <<r, o, 1>>
  OBVIOUS
<1>4. x \in ImageOf(inbox[p][n])
  <2>1. PICK k \in Nat \ {0} : k = Program[r][o].len
    BY <1>a, <1>2
  <2>2. PICK s : s = [j \in 1..k |-> <<r, o, j>>]
    OBVIOUS
  <2>3. 1 \in DOMAIN s /\ s[1] = x
    BY ONLY <2>2, <1>3, k \in Nat \ {0}
  <2>4. x \in ImageOf(s)
    BY ONLY <2>3 DEF ImageOf
  <2>5. inbox[p][n] = s
    BY <1>a, <2>1, <2>2
  <2> QED BY ONLY <2>4, <2>5
<1>5. n \in Nat /\ m \in Nat
  BY DEF Types
<1>6. InInbox(p, n, x) /\ InInbox(q, m, x)
  BY <1>4 DEF InInbox
<1>7. Holds(<<"in", p, n>>, x) /\ Holds(<<"in", q, m>>, x)
  BY <1>5, <1>6 DEF Holds
<1>8. <<"in", p, n>> = <<"in", q, m>>
  BY <1>7 DEF Unique
<1> QED BY <1>8

\* What mbox_recv returns is a message that some process sent to that name, byte
\* for byte and in order, and no message is received twice: for any number of
\* senders and receivers, if the messages of a name have one length that divides
\* MAIL_CAPACITY, as the 4-byte messages of the programs do.
THEOREM MessagesAreWhole ==
  ASSUME Orderly, NEW L \in [Names -> Nat \ {0}], EvenLengths(L)
  PROVE  Spec => []MessagesWhole
<1>1. Init => MailInv(L)
  BY InitUsers, InitMessages DEF MailInv
<1>2. MailInv(L) /\ [Next]_vars => MailInv(L)'
  BY NextMessages
<1>3. MailInv(L) => MessagesWhole
  <2> SUFFICES ASSUME MailInv(L) PROVE MessagesWhole
    OBVIOUS
  <2>1. Unique /\ AllReceived /\ Types
    BY MessagesParts DEF MailInv, UsersInv, Control
  <2>2. \A p \in Users : \A n \in 1..Len(inbox[p]) :
          \E q \in Users : \E o \in 1..Len(Program[q]) :
              /\ Program[q][o].do = "send"
              /\ inbox[p][n] = [j \in 1..Program[q][o].len |-> <<q, o, j>>]
    <3> SUFFICES ASSUME NEW p \in Users, NEW n \in 1..Len(inbox[p])
                 PROVE  \E q \in Users : \E o \in 1..Len(Program[q]) :
                           /\ Program[q][o].do = "send"
                           /\ inbox[p][n] = [j \in 1..Program[q][o].len |-> <<q, o, j>>]
      OBVIOUS
    <3>1. Received(inbox[p][n])
      BY <2>1 DEF AllReceived
    <3> QED BY ONLY <3>1, Zenon DEF Received
  <2>3. \A p, q \in Users : \A n \in 1..Len(inbox[p]), m \in 1..Len(inbox[q]) :
          inbox[p][n] = inbox[q][m] => p = q /\ n = m
    BY <2>1, OneReceipt
  <2> QED BY <2>2, <2>3 DEF MessagesWhole
<1> QED BY <1>1, <1>2, <1>3, PTL DEF Spec
=============================================================================
