CONSTANTS
  Names = {"a", "b"}
  Paths = {1, 2}
  Dirs = {"one", "two", "both"}
  Under <- MCUnder
  Layouts <- MCLayouts
  Files <- MCFiles
  Installed <- MCInstalled
  Edited <- MCEdited
  Texts <- MCTexts
  Answers <- MCAnswers
  ModelSignalBudget = 1
  MaxTurns = 2
  MaxSamples = 2
  MaxParts = 2
  MaxEdits = 1
SPECIFICATION Spec
INVARIANT TypeOK
INVARIANT TextOnce
INVARIANT InjectedOnce
INVARIANT RightSkill
CHECK_DEADLOCK FALSE
