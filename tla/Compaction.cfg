SPECIFICATION CompactionSpec
CONSTANTS
  Sizes = {1, 2}
  KeepRecent = 2
  BranchBudget = 3
  MaxEntries = 6
INVARIANTS ContextIsSendable
PROPERTIES  SummaryCoversRest 
CHECK_DEADLOCK FALSE
