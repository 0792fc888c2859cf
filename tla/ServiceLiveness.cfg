\* Two replicas come back from a crash and an outage.
CONSTANTS
  Pod = {p1, p2}
  NoPod = NoPod
  Last = 1
  FailureThreshold = 2
  Deployments <- FromSecret
  MaxCrashes = 1
  MaxOutages = 1
SPECIFICATION FairSpec
PROPERTY Recovers
