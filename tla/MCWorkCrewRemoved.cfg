\* Two threads that leave one after the other, no job.
CONSTANTS
  Thread = {t1, t2}
  Job = {}
  Null = Null

SPECIFICATION Spec
CHECK_DEADLOCK FALSE

INVARIANT RemovedFirst
