----------------------------- MODULE MCMailbox -----------------------------
(***************************************************************************)
(* Programs for the mailboxes.                                              *)
(***************************************************************************)
EXTENDS Mailbox

CONSTANTS p1, p2, p3, n1, n2, n3

Open(n) == [do |-> "open", name |-> n, len |-> 0]
Close(n) == [do |-> "close", name |-> n, len |-> 0]
Send(n) == [do |-> "send", name |-> n, len |-> 2]
Recv(n) == [do |-> "recv", name |-> n, len |-> 2]

\* p1 and p3 send to p2; p2 and p3 open and close other mailboxes meanwhile.
Mixed ==
    [p \in Users |->
        CASE p = p1 -> <<Open(n1), Send(n1), Send(n1)>>
          [] p = p2 -> <<Open(n2), Open(n1), Recv(n1), Close(n2), Recv(n1), Recv(n1)>>
          [] OTHER  -> <<Open(n2), Send(n2), Close(n2), Open(n3), Open(n1), Send(n1), Close(n3)>>]

\* What SunQuan does at its start, with LiuBei and CaoCao: the message is sent
\* twice, for two receivers.
Sanguo == [p \in Users |-> IF p = p1 THEN <<Open(n1), Send(n1), Send(n1)>>
                           ELSE <<Open(n1), Recv(n1)>>]
=============================================================================
