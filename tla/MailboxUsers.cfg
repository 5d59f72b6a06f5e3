\* two processes open a mailbox at the same time
CONSTANTS
  p1 = p1
  p2 = p2
  p3 = p3
  n1 = n1
  n2 = n2
  n3 = n3
  None = None
  Users = {p1, p2}
  Program <- Sanguo
  MAIL_CAPACITY = 2
  MAX_NUM_BOX = 1
  Names = {n1}
  Overlap = TRUE
SPECIFICATION Spec
INVARIANT UsersCounted
