\* two senders and a receiver in one mailbox, others opened, closed and reused
CONSTANTS
  p1 = p1
  p2 = p2
  p3 = p3
  n1 = n1
  n2 = n2
  n3 = n3
  None = None
  Users = {p1, p2, p3}
  Program <- Mixed
  MAIL_CAPACITY = 2
  MAX_NUM_BOX = 3
  Names = {n1, n2, n3}
  Overlap = FALSE
SPECIFICATION FairSpec
INVARIANTS MessagesWhole UsersCounted SameNameSameBox RestoredWhenClosed
PROPERTY AllComplete
