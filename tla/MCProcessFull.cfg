SPECIFICATION Spec
CONSTANTS
  NUM_PROC = 3
  MaxPid = 3
  MaxSleep = 1
INVARIANT
  ForkSurvivesFullTable
