CONSTANTS
  MaxThreads = 2
  MaxInputs = 2
  MaxRequests = 1
  MaxRestarts = 0
  MaxSends = 4
  MaxDeltas = 1
SPECIFICATION FairSystem
INVARIANT ClientTypeOK
INVARIANT ClientAgrees
INVARIANT Askable
INVARIANT PromptShown
INVARIANT KeysAimed
PROPERTY EndedTurnsFixed
PROPERTY InterruptFrees
CHECK_DEADLOCK FALSE
