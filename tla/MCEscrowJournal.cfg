SPECIFICATION Spec
CONSTANTS
  Outpoints = {o1, o2}
  MaxSeq = 4
  MaxFaults = 2
  Cuts = {"clean"}
INVARIANT SavedSurvives
INVARIANT RecoveryIsExact
CHECK_DEADLOCK FALSE
