CONSTANTS
  e1 = e1
  e2 = e2
  v1 = v1
  Executions <- OneExecution
  VMs <- OneVM
  VmOf <- AllOnOne
  MaxPerVM = 1
  MaxTotal = 1
  GuestFaults = FALSE
  GuestHangs = FALSE
  WriteFaults = FALSE
  Crashes = FALSE
SPECIFICATION FairSpec
INVARIANT CancelledJobIsKilled
