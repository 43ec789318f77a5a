\* Three threads and two jobs.  The crew stops when main has ended, or waits for
\* ever when the threads could not all be created.
CONSTANTS
  Thread = {t1, t2, t3}
  Job = {j1, j2}
  Null = Null

SPECIFICATION FairSpec
CHECK_DEADLOCK FALSE

INVARIANTS
  TypeOK
  JobsOnce
  NobodyLeft

PROPERTY CrewEnds
