\* Two clients; the pool begins empty and keeps one object.
CONSTANTS
  Conn = {c1, c2}
  Obj = {o1, o2}
  Listener = Listener
  MinSpare = 0
  MaxSpare = 1
  None = None

SPECIFICATION FairSpec
CHECK_DEADLOCK FALSE

INVARIANTS
  TypeOK
  OneOwner
  BatchFresh

PROPERTIES
  HeardFirst
  Served
