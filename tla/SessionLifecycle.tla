-------------------------- MODULE SessionLifecycle --------------------------
(***************************************************************************)
(* What the table sessions promises: a session is opened once, is revoked  *)
(* once, and neither comes back nor goes away.                             *)
(***************************************************************************)
CONSTANT Id            \* the ids that a refresh token can have

VARIABLES open, revoked  \* the ids of the sessions in either state

vars == <<open, revoked>>

Init == open = {} /\ revoked = {}

Open(id) ==
  /\ id \notin open \cup revoked
  /\ open' = open \cup {id}
  /\ UNCHANGED revoked

(* One sign-out may revoke several sessions, all at once. *)
Revoke(ids) ==
  /\ ids \subseteq open
  /\ open' = open \ ids
  /\ revoked' = revoked \cup ids

Next == (\E id \in Id : Open(id)) \/ (\E ids \in SUBSET open : Revoke(ids))

Spec == Init /\ [][Next]_vars
=============================================================================
