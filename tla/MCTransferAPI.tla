---------------------------- MODULE MCTransferAPI ----------------------------
(* Small instances of TransferAPI. *)
EXTENDS TransferAPI, TLC

CONSTANTS alice, bob, k1, usd, eur, gbp

(* Accounts 1 and 4 are alice's, account 2 is bob's; 3 has no row. *)
MCOwner == (1 :> alice) @@ (2 :> bob) @@ (4 :> alice)
MCCurrency == (1 :> usd) @@ (2 :> usd) @@ (4 :> eur)
MCBalance == (1 :> 2) @@ (2 :> 2) @@ (4 :> 1)

Req(user, from, to, amount, currency, key) ==
  [user |-> user, from |-> from, to |-> to, amount |-> amount,
   currency |-> currency, key |-> key]

MCHash == (1..4) \X (1..4) \X (1..4) \X {usd, eur}

(* Every way to be refused, once ... *)
Refused ==
  {Req(NoUser, 1, 2, 1, usd, NoKey),      \* no valid access token
   Req(alice, 1, 2, 0, usd, NoKey),       \* amount not positive
   Req(alice, 0, 2, 1, usd, NoKey),       \* id not positive
   Req(alice, 1, 2, 1, gbp, NoKey),       \* unsupported currency
   Req(alice, 1, 1, 1, usd, NoKey),       \* to itself
   Req(alice, 3, 2, 1, usd, NoKey),       \* no such sender
   Req(alice, 1, 2, 1, eur, NoKey),       \* not the sender's currency
   Req(bob, 1, 2, 1, usd, k1),            \* not the sender's owner
   Req(alice, 1, 3, 1, usd, NoKey),       \* no such receiver
   Req(alice, 1, 4, 1, usd, NoKey),       \* not the receiver's currency
   Req(alice, 1, 2, 1, usd, LongKey)}     \* key too long

(* ... and calls that race: two requests on one key and their retries, the
   same key in the hands of another user, and an overdraft. *)
Accepted ==
  {Req(alice, 1, 2, 1, usd, k1), Req(alice, 1, 2, 3, usd, k1),
   Req(bob, 2, 1, 1, usd, k1), Req(bob, 2, 1, 1, usd, NoKey)}

MCRequest == Refused \cup Accepted

(* For the run with three requests: a transfer that alice cannot pay before
   bob has paid her, its retries, and another transfer on the same key. *)
MCRetries ==
  {Req(alice, 1, 2, 3, usd, k1), Req(alice, 1, 2, 1, usd, k1),
   Req(bob, 2, 1, 1, usd, NoKey)}

(* The store calls of all requests that bind. *)
MCArg ==
  {ParamsOf(r) : r \in {q \in MCRequest \cup MCRetries :
     /\ q.user # NoUser /\ Binds(q) /\ q.from # q.to /\ q.key # LongKey}}

Symmetry == Permutations(Tx)
=============================================================================
