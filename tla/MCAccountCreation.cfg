CONSTANTS
  Callers = {c1, c2}
  MaxJobs = 2
  MaxBatch = 2
  MaxFaults = 1
SPECIFICATION Spec
CHECK_DEADLOCK FALSE
INVARIANTS FailedJobsLeaveNoAccount AccountsUseTheirOwnSession
PROPERTIES  EveryCallerIsAnswered
