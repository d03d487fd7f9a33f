CONSTANTS
  d1 = d1
  d2 = d2
  Deployments <- OneDeployment
  HypervisorFaults = TRUE
  WriteFaults = TRUE
  Crashes = TRUE
SPECIFICATION FairSpec
INVARIANTS
  LiveRowHasOwner
PROPERTIES
  EveryDeploymentSettles
  GoroutinesReturn
