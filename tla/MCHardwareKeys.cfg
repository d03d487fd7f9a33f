SPECIFICATION HardwareSpec
CONSTANTS
  Hypervisors = {"proxmox"}
  Bays = {0, 1, 2}
  Titles = {t1}
  Visitors = {u1, u2}
  Passes = {p1}
  MaxSize = 2
INVARIANT KeysAreStable
CHECK_DEADLOCK FALSE
