\* Safety of the store: every interleaving of three calls, with faults.
CONSTANTS
  AccountId = {1, 2, 3}
  Account = {1, 2}
  InitBalance <- MCBalance
  MaxInt64 = 3
  Tx = {t1, t2, t3}
  alice = alice
  bob = bob
  k1 = k1
  Owner = {alice, bob}
  Key = {k1}
  NoKey = NoKey
  Hash <- MCHash
  NoBody = NoBody
  NoArg = NoArg
  Arg <- MCArg
SPECIFICATION Spec
SYMMETRY Symmetry
CHECK_DEADLOCK FALSE
INVARIANTS
  TypeOK
  NoOverdraft
  AuditTrail
  DoubleEntry
  AtMostOncePerKey
  SpentKeyHasResponse
  OutcomeSound
  NoDeadlock
