CONSTANTS
  MaxThreads = 2
  MaxInputs = 1
  MaxRequests = 0
  MaxRestarts = 0
SPECIFICATION Spec
INVARIANT ExitListing
CHECK_DEADLOCK FALSE
