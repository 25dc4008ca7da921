SPECIFICATION FairSpec
CONSTANTS
  Ops = {o1}
  Limits = {1}
  FirstLimit = 1
  Margin = 0
  Resets = TRUE
  TimeEdits = TRUE
  Losses = TRUE
  OpsMayFail = TRUE
  LoopMayFail = FALSE
  MaxTotal = 1
  MaxSpent = 1
PROPERTIES
  DriftIsReconciled
  OverdueIsStopped
