\* POST /transfers: two requests of every kind, with faults.
CONSTANTS
  AccountId = {1, 2, 3, 4}
  Account = {1, 2, 4}
  InitBalance <- MCBalance
  MaxInt64 = 4
  Tx = {t1, t2}
  alice = alice
  bob = bob
  k1 = k1
  usd = usd
  eur = eur
  gbp = gbp
  Owner = {alice, bob}
  Key = {k1}
  NoKey = NoKey
  LongKey = LongKey
  Hash <- MCHash
  NoBody = NoBody
  NoArg = NoArg
  Arg <- MCArg
  Request <- MCRequest
  NoReq = NoReq
  NoUser = NoUser
  Currency = {usd, eur}
  AccountOwner <- MCOwner
  AccountCurrency <- MCCurrency
SPECIFICATION ApiSpec
SYMMETRY Symmetry
CHECK_DEADLOCK FALSE
INVARIANTS
  OkMeansMoved
  RefusalMeansUnmoved
  AuthorizedDebit
  ConflictOnlyOnReuse
