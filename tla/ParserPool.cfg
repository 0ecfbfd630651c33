SPECIFICATION Spec
\* Three small jobs meet the queue limit first, a large one the byte limit.
CONSTANTS
  Job = {j1, j2, j3, j4}
  Closer = {k1, k2}
  Large = {j4}
  LargeBytes = 3
  MinWorkers = 1
  MaxWorkers = 2
  QueueLimit = 2
  MaxBytes = 3
  MaxFaults = 1
  Idle = Idle
INVARIANTS TypeOK JobsHaveOnePlace WorkersBounded WaitingMeansFull ClosedMeansGone
PROPERTY EverybodyIsAnswered
\* The pool stops once every job is settled and every close() has returned.
CHECK_DEADLOCK FALSE
