SPECIFICATION FairDeleteSpec
CONSTANTS
  Nodes = {n1, n2, n3}
  Items = {d1, d2}
  Producers = {p1, p2}
  Consumers = {c1, c2}
  Timed = {c1}
  NULL = NULL
  Deleter = c2
INVARIANTS TypeOK ListIntact OneOwner DeletedIsEmpty
PROPERTIES LockReleased  DeleteEnds
CHECK_DEADLOCK FALSE
