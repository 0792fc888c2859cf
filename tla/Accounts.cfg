\* Three racing requests of two users; the offset of page 9 wraps to 0.
CONSTANTS
  User = {alice, bob}
  Req = {r1, r2, r3}
  Asked = {"USD", "EUR", "GBP"}
  PageIds = {0, 1, 2, 9}
  PageSizes = {5, 8}
  AccountIds = {0, 1, 2}
  MaxInt = 31
  NoUser = NoUser
SPECIFICATION Spec
SYMMETRY Symmetry
CHECK_DEADLOCK FALSE
INVARIANTS
  TypeOK
  OnePerCurrency
  RefusalMeansExists
  OwnAccountsOnly
  FirstPageComplete
