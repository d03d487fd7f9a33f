CONSTANTS
  d1 = d1
  d2 = d2
  Deployments <- TwoDeployments
  HypervisorFaults = FALSE
  WriteFaults = FALSE
  Crashes = FALSE
SPECIFICATION Spec
SYMMETRY Interchangeable
INVARIANTS
  CompletedIsTracked
  CompletedWebhookHasVM
  OutcomeAgreement
PROPERTIES
  ImplementsLifecycle
