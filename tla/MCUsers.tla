------------------------------ MODULE MCUsers ------------------------------
(* A small instance of Users: what the run's requests ask for. *)
EXTENDS Users, TLC

Pass(k, n) == [key |-> k, length |-> n]

(* "Ann" is alphanum but not lowercase; "O'Neil" is not of letters and spaces. *)
MCUsername == {"Ann", "bob"}
MCFullName == {"Bob", "Robert", "O'Neil"}
MCEmail == {"b@x", "c@x"}
MCBindingAccepts == [username |-> MCUsername, fullName |-> MCFullName, email |-> MCEmail]
MCValidatorAccepts ==
  [username |-> {"bob"}, fullName |-> {"Bob", "Robert"}, email |-> MCEmail]

CreateArg(u, p, n, e) == [username |-> u, password |-> p, fullName |-> n, email |-> e]
MCCreateArgs ==
  {CreateArg("bob", Pass("k1", 72), "Bob", "b@x"),
   CreateArg("bob", Pass("k1", 73), "Robert", "b@x"),
   CreateArg("Ann", Pass("k2", 6), "O'Neil", "c@x")}
MCUpdateArgs ==
  {CreateArg("bob", Pass("k2", 6), Null, Null),
   CreateArg("bob", Null, "Robert", Null),
   CreateArg("bob", Null, Null, "c@x"),
   CreateArg("bob", Pass("k1", 100), Null, "c@x"),
   CreateArg("bob", Pass("k1", 101), Null, Null),
   CreateArg("bob", Pass("k1", 6), "Bob", Null)}
MCLoginArgs ==
  {[username |-> "bob", password |-> Pass("k1", 72)],
   [username |-> "bob", password |-> Pass("k2", 101)],
   [username |-> "Ann", password |-> Pass("k2", 6)]}

Symmetry == Permutations(Req)
=============================================================================
