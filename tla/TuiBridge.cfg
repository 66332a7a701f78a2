CONSTANTS
  MaxThreads = 3
  MaxInputs = 2
  MaxRequests = 2
  MaxRestarts = 1
SPECIFICATION FairSpec
INVARIANT TypeOK
INVARIANT ViewTrue
INVARIANT OutcomeReported
INVARIANT CountsAgree
PROPERTY ProtocolKept
PROPERTY SwitchCloses
PROPERTY StopsEnd
CHECK_DEADLOCK FALSE
