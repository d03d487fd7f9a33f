SPECIFICATION PlatformSpec
CONSTANTS
  Actions = {1, 2}
  Scripts = {s1, s2}
  NoScript = none
  Edits = {e1, e2}
  Jobs = {j1}
  JobLimit = 1
  MaxChanges = 4
  Lengths = {2}
  MaxDay = 2
  MaxTerms = 3
  Relative = FALSE
  MaxRows = 5
  Templates = {1, 2}
  Newest = 3
  Columns = {1}
  Seeds = {2, 3}
  MaxStarts = 3
  Ids = {1, 2}
  Deployments = {d1, d2}
  WithActions = {d1, d2}
  Name <- OwnName
  Attempts = 2
  Slots = {1}
  Callers = {c1}
  Nobody = Nobody
  Guests = {g1, g2, g3}
  OnHost = {g1, g2}
  shared = shared
  GuestName <- OneName
  MaxUses = 2
  Bulks = {b1}
  MaxVMs = 4
  Workers = 2
  Instances = 2
  Hypervisors = {"vsphere", "proxmox"}
  Bays = {0, 1, 2}
  Titles = {t1}
  Visitors = {u1, u2}
  Passes = {p1}
  MaxSize = 2
  People = {m1, m2}
  Announcements = {n1}
  Hooks = {w1, w2}
  Places = 1
  MaxEdits = 1
INVARIANTS PlatformTypeOK HistoryFaithful NothingRunsUnpublished NoSilentEvaluation NeverRefused MigratedOnce TallyHolds SnapshotsStayListed SizesCatchUp NoticesKept
PROPERTIES ProxmoxKeepsContract VSphereKeepsContract
SYMMETRY Alike
CHECK_DEADLOCK FALSE
