SPECIFICATION FrontSpec
CONSTANTS
  Users = {1, 2, 3}
  Directory = {3}
  Keys = {k1, k2}
  KeyLimit = 1
  Requests = {q1, q2}
  MaxRequests = 4
  NoOne = NoOne
  Addresses = {a, b, p}
  Proxies = {p}
  Burst = 2
  Idle = 3
  Cap = 2
  Absent = Absent
  Malformed = Malformed
  VMs = {v1, v2}
  Deployed = {v2}
  Exports = {x1, x2}
  QueueCap = 1
  MaxExport = 2
  MaxFailures = 1
  MaxCalls = 2
  Pages = {1, 2}
  Sockets = {1, 2, 3}
  MaxConns = 2
  MaxLines = 1
  MaxWaits = 1
INVARIANTS FrontTypeOK AdminRemains RevokedStayOut NoExportOffRecord EndsAreSeen
PROPERTY OneBucketForEver
SYMMETRY Alike
CHECK_DEADLOCK FALSE
