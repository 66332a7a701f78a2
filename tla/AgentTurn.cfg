CONSTANTS
  KeepRecent = 2
  MinReplace = 2
  ModelSignalBudget = 1
  SplitIds = {6}
  MaxItems = 6
  MaxRestarts = 1
SPECIFICATION Spec
INVARIANT TypeOK
INVARIANT ReplayMatches
INVARIANT CallsAnswered
INVARIANT ReportedTurnsKept
INVARIANT ContextOnce
PROPERTY SummariesSurvive
