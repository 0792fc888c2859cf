------------------------------- MODULE Ledger -------------------------------
(***************************************************************************)
(* What the store promises: the committed tables change only by whole      *)
(* transfers.  A transfer posts its row, both entries, both balances and,  *)
(* when it carries an idempotency key, the spent key with the response,    *)
(* all in one step; it never overdraws, never overflows, and spends a key  *)
(* at most once.                                                           *)
(***************************************************************************)
EXTENDS Schema

VARIABLES balance, transfers, entries, keys

vars == <<balance, transfers, entries, keys>>

Init ==
  /\ balance = InitBalance
  /\ transfers = {}
  /\ entries = {}
  /\ keys = {}

KeySpent(a) == \E k \in keys : k.owner = a.owner /\ k.key = a.key

Post(t, a) ==
  /\ {a.from, a.to} \subseteq Account
  /\ \A r \in transfers : r.id # t
  /\ ~KeySpent(a)
  /\ balance[a.from] >= a.amount
  /\ balance[a.to] + a.amount <= MaxInt64
  /\ balance' = [balance EXCEPT ![a.from] = @ - a.amount, ![a.to] = @ + a.amount]
  /\ transfers' = transfers \cup {TransferRow(t, a)}
  /\ entries' = entries \cup
       {EntryRow(t, a.from, -a.amount), EntryRow(t, a.to, a.amount)}
  /\ keys' = IF a.key = NoKey THEN keys
             ELSE keys \cup {KeyRow(a, TransferTxResult(t, balance[a.from] - a.amount,
                                                           balance[a.to] + a.amount))}

Next == \E t \in Tx, a \in Arg : Post(t, a)

Spec == Init /\ [][Next]_vars
=============================================================================
