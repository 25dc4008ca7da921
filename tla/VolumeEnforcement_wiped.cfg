SPECIFICATION Spec
CONSTANTS
  Ops = {o1}
  Limits = {3}
  FirstLimit = 3
  Margin = 1
  Resets = FALSE
  TimeEdits = FALSE
  Losses = TRUE
  OpsMayFail = FALSE
  LoopMayFail = FALSE
  MaxTotal = 6
  MaxSpent = 7
INVARIANTS
  RepairHolds
