CONSTANT MaxCalls = 3
SPECIFICATION FairSpec
INVARIANT TypeOK
INVARIANT ReturnedMeansEnded
INVARIANT CleanWrites
PROPERTY CallsReturn
CHECK_DEADLOCK FALSE
