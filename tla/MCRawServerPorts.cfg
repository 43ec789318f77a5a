\* One client; the pool begins with two objects.
CONSTANTS
  Conn = {c1}
  Obj = {o1, o2, o3}
  Listener = Listener
  MinSpare = 1
  MaxSpare = 2
  None = None

SPECIFICATION FairSpec
CHECK_DEADLOCK FALSE

PROPERTY ServedOnEveryPort
