----------------------------- MODULE MCAccounts -----------------------------
(* A small instance of Accounts.  With MaxInt = 31 an offset has 6 bits: the
   offset of page 9 wraps, to a negative one with size 5 and to 0 with size 8. *)
EXTENDS Accounts, TLC

Symmetry == Permutations(Req) \cup Permutations(User)
=============================================================================
