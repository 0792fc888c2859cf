----------------------------- MODULE MCService -----------------------------
(* Small instances of Service. *)
EXTENDS Service, TLC

Symmetry == Permutations(Pod)

Supplies(env, file) == [readable |-> TRUE, env |-> env, file |-> file]

(* The Secret of the deployment, with every key. *)
FromSecret == {Supplies(configKeys, {})}

(* Or one that lacks a key, app.env instead of it, or an app.env that cannot
   be parsed. *)
AnyDeployment ==
  FromSecret \cup {Supplies(configKeys \ {key}, {}) : key \in configKeys}
    \cup {Supplies({}, configKeys), [Supplies(configKeys, {}) EXCEPT !.readable = FALSE]}
=============================================================================
