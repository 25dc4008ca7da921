SPECIFICATION MCSpec
CONSTANTS
  i1 = i1
  i2 = i2
  c1 = c1
  c2 = c2
  d1 = d1
  q1 = q1
  q2 = q2
  p1 = p1
  p2 = p2
  Instances = {i1, i2}
  Calls = {c1, c2}
  Boot = Boot
  Ports = {q1, q2}
  Pids = {p1, p2}
  None = None
  Hosted = {i1, i2}
  DCalls = {d1}
  HostPorts = {1, 2}
  Absent = Absent
  RJobs = {c1, c2}
  Services = {p1, p2}
  NoService = NoService
SYMMETRY Symmetry
INVARIANTS
  WorkerSafe
  DockerHolds
  RailwayHolds
CHECK_DEADLOCK FALSE
