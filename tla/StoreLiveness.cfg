\* Calls end and locks are released, under fairness.
CONSTANTS
  AccountId = {1, 2, 3}
  Account = {1, 2}
  InitBalance <- MCBalance
  MaxInt64 = 3
  Tx = {t1, t2}
  alice = alice
  bob = bob
  k1 = k1
  Owner = {alice, bob}
  Key = {k1}
  NoKey = NoKey
  Hash <- MCHash
  NoBody = NoBody
  NoArg = NoArg
  Arg <- MCArg
SPECIFICATION FairSpec
CHECK_DEADLOCK FALSE
PROPERTIES
  EveryCallReturns
  EveryLockReleased
