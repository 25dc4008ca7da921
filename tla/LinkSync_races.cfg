SPECIFICATION Spec
CONSTANTS
  l1 = l1
  t1 = t1
  t2 = t2
  Links = {l1}
  Tasks = {t1, t2}
  Limits = {0, 1}
  MaxUsed = 1
  None = None
SYMMETRY Symmetry
INVARIANTS
  PolicyHolds
  UseNotForgotten
  DeletedStaysDeleted
