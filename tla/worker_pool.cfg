CONSTANTS
  N = 3
  Spawners = {s1, s2}
  Pinned <- FourPinned
  Nested <- OneNested
  t1 = t1
  t2 = t2
  t3 = t3
  t4 = t4
  t5 = t5
SPECIFICATION Spec
INVARIANTS
  CountsAreTasks
  Balanced
PROPERTY EveryTaskRuns
\* The pool stops when every task has finished.
CHECK_DEADLOCK FALSE
