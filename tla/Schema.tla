------------------------------- MODULE Schema -------------------------------
(***************************************************************************)
(* The tables a transfer touches and the parameters it is called with:     *)
(* db/migration/*.up.sql, db/sqlc/models.go and the parameter types of     *)
(* db/sqlc/store.go.  Extended by the abstract ledger and by the store.    *)
(***************************************************************************)
EXTENDS Integers

CONSTANTS
  AccountId,    \* the account ids a caller may name
  Account,      \* the ids that have a row in accounts
  InitBalance,  \* the balances found when the model starts
  MaxInt64,     \* largest value of a bigint column (2^63 - 1 in Postgres)
  Tx,           \* the calls of TransferTx and IdempotentTransferTx
  Owner, Key,   \* the two columns of the primary key of idempotency_keys
  NoKey,        \* "no key": the call is TransferTx, not IdempotentTransferTx
  Hash,         \* request fingerprints
  NoBody,       \* response_body's default, ''
  Arg           \* the parameters the calls of a run choose from

(***************************************************************************)
(* IdempotentTransferTxParams; a TransferTx call is one whose key is       *)
(* NoKey.  The only caller, createTransfer, has refused from = to and      *)
(* amount <= 0 before it gets here (api/transfer.go:19 and :30).           *)
(***************************************************************************)
TransferTxParams ==
  {a \in [from: AccountId, to: AccountId, amount: 1..MaxInt64,
          owner: Owner, key: Key \cup {NoKey}, hash: Hash] : a.from # a.to}

(***************************************************************************)
(* Rows.  The bigserial id of the transfers row a call inserts is          *)
(* represented by the call itself: each call inserts at most one, and a    *)
(* sequence never hands out a value twice.  An entries row is identified   *)
(* by the call that inserted it and its account.                           *)
(***************************************************************************)
TransferRow(t, a) == [id |-> t, from |-> a.from, to |-> a.to, amount |-> a.amount]
EntryRow(t, account, amount) == [call |-> t, account |-> account, amount |-> amount]
KeyRow(a, body) == [owner |-> a.owner, key |-> a.key, hash |-> a.hash, body |-> body]

(* TransferTxResult: the transfer and the two balances the UPDATEs return. *)
TransferTxResult(t, fromBalance, toBalance) ==
  [id |-> t, fromBalance |-> fromBalance, toBalance |-> toBalance]

TransferRows == [id: Tx, from: Account, to: Account, amount: 1..MaxInt64]
EntryRows == [call: Tx, account: Account, amount: (-MaxInt64)..MaxInt64]
Results == [id: Tx, fromBalance: 0..MaxInt64, toBalance: 0..MaxInt64]
KeyRows == [owner: Owner, key: Key, hash: Hash, body: Results \cup {NoBody}]

(* Ids and balances are bigints; initial balances satisfy the CHECK.       *)
ASSUME SchemaAssumption ==
  /\ MaxInt64 \in Nat
  /\ AccountId \subseteq 1..MaxInt64
  /\ Account \subseteq AccountId
  /\ InitBalance \in [Account -> 0..MaxInt64]
  /\ NoKey \notin Key
  /\ NoBody \notin Results
  /\ Arg \subseteq TransferTxParams
=============================================================================
