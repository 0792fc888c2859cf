\* Two replicas start on any configuration, with crashes and outages.
CONSTANTS
  Pod = {p1, p2}
  NoPod = NoPod
  Last = 2
  FailureThreshold = 2
  Deployments <- AnyDeployment
  MaxCrashes = 1
  MaxOutages = 1
SPECIFICATION Spec
SYMMETRY Symmetry
INVARIANTS
  ServesMigrated
  DirtyHasCause
PROPERTY OutageRestartsNobody
