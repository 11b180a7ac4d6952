SPECIFICATION Spec
CONSTANTS
  None = None
  Commands <- MCCommands
  Files <- MCFiles
INVARIANTS
  WorkbookHoldsTheTimeline
  ExitCodeTellsTheOutcome
