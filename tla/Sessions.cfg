\* Three racing requests of two users, while tokens and sessions expire.
CONSTANTS
  User = {alice, bob}
  Req = {r1, r2, r3}
  AccessTokenDuration = 1
  RefreshTokenDuration = 2
  MaxTime = 3
  NoUser = NoUser
  NoToken = NoToken
SPECIFICATION Spec
SYMMETRY Symmetry
CHECK_DEADLOCK FALSE
INVARIANTS
  TypeOK
  SignedInMeansSession
  RenewalNeedsOpenSession
  SessionLifetime
  SignOutHolds
  OnlyOwnSessions
  CountedOnce
PROPERTY RefinesLifecycle
