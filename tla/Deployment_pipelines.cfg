SPECIFICATION DeploymentSpec
CONSTANTS
  j1 = j1
  j2 = j2
  q1 = q1
  q2 = q2
  p1 = p1
  p2 = p2
  Calls = {j1, j2}
  Inst = Inst
  Instances = {Inst}
  Boot = Boot
  Ports = {q1, q2}
  Pids = {p1, p2}
  None = None
SYMMETRY DeploymentSymmetry
INVARIANTS
  DeploymentHolds
