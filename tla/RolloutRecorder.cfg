CONSTANTS
  MaxRecords = 4
  MaxBatch = 2
  MaxCalls = 2
  MaxRestarts = 2
SPECIFICATION FairSpec
INVARIANT TypeOK
INVARIANT FileIsPrefix
PROPERTY CallsReturn
PROPERTY LogSpec
