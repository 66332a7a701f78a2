CONSTANTS
  KeepRecent = 2
  MinReplace = 2
  ModelSignalBudget = 1
  SplitIds = {6}
  MaxItems = 6
  MaxRestarts = 1
SPECIFICATION Spec
INVARIANT InitialContextApplied
