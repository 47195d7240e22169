SPECIFICATION Spec
CONSTANTS
  Outpoints = {o1, o2}
  MaxSeq = 4
  MaxFaults = 2
  Cuts = {"clean", "frag", "line"}
INVARIANTS
  SavedSurvives
CHECK_DEADLOCK FALSE
