CONSTANTS
  d1 = d1
  d2 = d2
  Deployments <- OneDeployment
  HypervisorFaults = FALSE
  WriteFaults = FALSE
  Crashes = FALSE
SPECIFICATION FairSpec
PROPERTY SignalledIsNotFailed
