\* Every step of the store is a step of the abstract ledger, or none.
CONSTANTS
  AccountId = {1, 2, 3}
  Account = {1, 2}
  InitBalance <- MCBalance
  MaxInt64 = 3
  Tx = {t1, t2, t3}
  alice = alice
  bob = bob
  k1 = k1
  Owner = {alice, bob}
  Key = {k1}
  NoKey = NoKey
  Hash <- MCHash
  NoBody = NoBody
  NoArg = NoArg
  Arg <- MCFewArg
SPECIFICATION Spec
CHECK_DEADLOCK FALSE
PROPERTY RefinesLedger
