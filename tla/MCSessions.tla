----------------------------- MODULE MCSessions -----------------------------
(* Small instances of Sessions. *)
EXTENDS Sessions, TLC

Symmetry == Permutations(Req) \cup Permutations(User)
=============================================================================
