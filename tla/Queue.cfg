CONSTANTS
  Queues = {q1, q2}
  Items = {p1, p2, p3, p4}
  Null = Null
SPECIFICATION Spec
INVARIANT QueuesRepresent
PROPERTY ImplementsFIFO
