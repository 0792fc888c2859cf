--------------------------- MODULE MCTransferStore ---------------------------
(* Small instances of TransferStore. *)
EXTENDS TransferStore, TLC

CONSTANTS alice, bob, k1

(* Account 1 is alice's, account 2 bob's; 3 has no row. *)
MCBalance == (1 :> 2) @@ (2 :> 2)

(* A call; the fingerprint is a function of what is transferred. *)
Call(from, to, amount, owner, key) ==
  [from |-> from, to |-> to, amount |-> amount, owner |-> owner, key |-> key,
   hash |-> <<from, to, amount>>]

MCHash == (1..3) \X (1..3) \X (1..3)

(* Opposite directions, an amount that can be spent once or twice, one that
   overflows account 2, two requests of one owner on one key, the same key of
   another owner, and an account that does not exist. *)
MCArg ==
  {Call(2, 1, 1, bob, NoKey), Call(1, 2, 2, alice, k1),
   Call(1, 2, 1, alice, k1), Call(2, 3, 1, bob, k1)}

(* The same on fewer choices, for the runs that need more states. *)
MCFewArg == {Call(1, 2, 1, alice, NoKey), Call(2, 1, 1, bob, k1)}

Symmetry == Permutations(Tx)
=============================================================================
