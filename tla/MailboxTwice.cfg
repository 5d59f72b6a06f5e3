\* a message sent twice, for two receivers
CONSTANTS
  p1 = p1
  p2 = p2
  p3 = p3
  n1 = n1
  n2 = n2
  n3 = n3
  None = None
  Users = {p1, p2, p3}
  Program <- Sanguo
  MAIL_CAPACITY = 4
  MAX_NUM_BOX = 1
  Names = {n1}
  Overlap = FALSE
SPECIFICATION FairSpec
PROPERTY AllComplete
CHECK_DEADLOCK FALSE
