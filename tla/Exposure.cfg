\* How long a signed-out session is exposed: one user signs in and out.
CONSTANTS
  User = {alice}
  Req = {r1, r2}
  AccessTokenDuration = 1
  RefreshTokenDuration = 3
  MaxTime = 3
  NoUser = NoUser
  NoToken = NoToken
SPECIFICATION Spec
CHECK_DEADLOCK FALSE
INVARIANT ExposureBounded
