\* Two users on one device; the pipeline is shorter than the queue can be.
CONSTANTS
  Users = {a, b}
  kMaxPendingWrites = 2
  MaxWrites = 3
  MaxFaults = 2
SPECIFICATION FairSpec
INVARIANTS TypeOK PipelineIsPrefix RepliesMatch Assertions SentAsOwner FinalOrder
PROPERTIES ImplementsQueue NoLateApply QueueDrains
CHECK_DEADLOCK FALSE
