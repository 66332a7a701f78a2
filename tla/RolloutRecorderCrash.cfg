CONSTANTS
  MaxRecords = 4
  MaxBatch = 2
  MaxCalls = 2
  MaxRestarts = 2
SPECIFICATION Spec
INVARIANT CrashRecoverable
