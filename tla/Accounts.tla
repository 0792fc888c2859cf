------------------------------ MODULE Accounts ------------------------------
(***************************************************************************)
(* The handlers of api/account.go: createAccount, getAccount and           *)
(* listAccounts, over the table accounts.  Balances are in TransferStore:  *)
(* an account is opened with 0 and no handler here changes one.            *)
(*                                                                         *)
(* Each request is a goroutine that checks its input and then runs one     *)
(* statement; an INSERT takes its id from the sequence before it looks at  *)
(* the unique index, so ids have gaps and are not in order of insertion.   *)
(***************************************************************************)
EXTENDS Integers, FiniteSets

CONSTANTS
  User,                \* the users of the access tokens, who have rows in users
  Req,                 \* the requests of a run
  Asked,               \* the currencies that requests ask for
  PageIds, PageSizes,  \* the pages that requests ask for
  AccountIds,          \* the ids that requests ask for
  MaxInt,              \* the largest int32
  NoUser               \* the user of a request that has not come

VARIABLES
  accounts,    \* the table accounts
  nextval,     \* the sequence of its ids
  op, pc,      \* which handler serves a request, and what it does next
  user,        \* the user of its access token
  arg,         \* what it asks for
  resp, rows,  \* its answer, 0 before there is one, and the accounts in it
  had          \* history: the table accounts when the request came

vars == <<accounts, nextval, op, pc, user, arg, resp, rows, had>>

ASSUME AccountsAssumption ==
  /\ MaxInt \in Nat \ {0}
  /\ PageIds \subseteq 0..MaxInt
  /\ PageSizes \subseteq 0..MaxInt
  /\ AccountIds \subseteq Int
  /\ NoUser \notin User

IsSupportedCurrency(currency) == currency \in {"USD", "EUR", "CAD"}

(* Arithmetic of int32, with MaxInt as its largest value. *)
Int32(n) == ((n + MaxInt + 1) % (2 * (MaxInt + 1))) - (MaxInt + 1)

(* Mutant: pages are counted from 0. *)
OffsetFromZero(page, size) == Int32(page * size)

Offset(page, size) == Int32((page - 1) * size)

(* What a request asks for; a field of another handler is left at its default. *)
Ask(currency, id, page, size) ==
  [currency |-> currency, id |-> id, page |-> page, size |-> size]

Init ==
  /\ accounts = {} /\ nextval = 1
  /\ op = [r \in Req |-> "none"]
  /\ pc = [r \in Req |-> "idle"]
  /\ user = [r \in Req |-> NoUser]
  /\ arg = [r \in Req |-> Ask("none", 0, 0, 0)]
  /\ resp = [r \in Req |-> 0]
  /\ rows = [r \in Req |-> {}]
  /\ had = [r \in Req |-> {}]

-----------------------------------------------------------------------------
(* Request r of user u comes in, after authMiddleware.  What does not bind is
   refused, the rest goes on to statement s. *)
Receive(r, o, u, a, binds, s) ==
  /\ pc[r] = "idle"
  /\ op' = [op EXCEPT ![r] = o]
  /\ user' = [user EXCEPT ![r] = u]
  /\ arg' = [arg EXCEPT ![r] = a]
  /\ had' = [had EXCEPT ![r] = accounts]
  /\ \/ binds /\ pc' = [pc EXCEPT ![r] = s] /\ UNCHANGED resp
     \/ ~binds /\ pc' = [pc EXCEPT ![r] = "done"] /\ resp' = [resp EXCEPT ![r] = 400]
  /\ UNCHANGED <<accounts, nextval, rows>>

createAccount(r, u, currency) ==
  Receive(r, "create", u, Ask(currency, 0, 0, 0), IsSupportedCurrency(currency), "nextval")

getAccount(r, u, id) ==
  Receive(r, "get", u, Ask("none", id, 0, 0), id >= 1, "get")

listAccounts(r, u, page, size) ==
  Receive(r, "list", u, Ask("none", 0, page, size), page >= 1 /\ size \in 5..10, "list")

-----------------------------------------------------------------------------
Kept == <<op, user, arg, had>>

(* A request that has been answered stays answered. *)
Answer(r, status, found) ==
  /\ pc' = [pc EXCEPT ![r] = "done"]
  /\ resp' = [resp EXCEPT ![r] = IF @ = 0 THEN status ELSE @]
  /\ rows' = [rows EXCEPT ![r] = IF resp[r] = 0 THEN found ELSE @]

(* Mutant: the next id is counted from the table. *)
NextIdFromTable(r) ==
  /\ pc[r] = "nextval"
  /\ nextval' = nextval + 1
  /\ arg' = [arg EXCEPT ![r].id = Cardinality(accounts) + 1]
  /\ pc' = [pc EXCEPT ![r] = "insert"]
  /\ UNCHANGED <<accounts, op, user, resp, rows, had>>

(* The default of the column id; no error gives the number back. *)
NextId(r) ==
  /\ pc[r] = "nextval"
  /\ nextval' = nextval + 1
  /\ arg' = [arg EXCEPT ![r].id = nextval]
  /\ pc' = [pc EXCEPT ![r] = "insert"]
  /\ UNCHANGED <<accounts, op, user, resp, rows, had>>

NewAccount(r) == [id |-> arg[r].id, owner |-> user[r], currency |-> arg[r].currency]

Duplicates(x, y) == x.owner = y.owner /\ x.currency = y.currency

(* Mutant: without the constraint owner_currency_key. *)
InsertUnchecked(r) ==
  /\ pc[r] = "insert"
  /\ accounts' = accounts \cup {NewAccount(r)} /\ Answer(r, 200, {NewAccount(r)})
  /\ UNCHANGED <<Kept, nextval>>

(* unique_violation and foreign_key_violation are answered with 403; the owner
   has a row in users, for he has signed in and rows are not deleted. *)
CreateAccount(r) ==
  /\ pc[r] = "insert"
  /\ IF \E x \in accounts : Duplicates(x, NewAccount(r))
     THEN Answer(r, 403, {}) /\ UNCHANGED accounts
     ELSE /\ accounts' = accounts \cup {NewAccount(r)}
          /\ Answer(r, 200, {NewAccount(r)})
  /\ UNCHANGED <<Kept, nextval>>

(* Mutant: the owner is not compared. *)
GetAnyAccount(r) ==
  /\ pc[r] = "get"
  /\ LET found == {x \in accounts : x.id = arg[r].id}
     IN  \/ found = {} /\ Answer(r, 404, {})
         \/ found # {} /\ Answer(r, 200, found)
  /\ UNCHANGED <<Kept, accounts, nextval>>

GetAccount(r) ==
  /\ pc[r] = "get"
  /\ LET found == {x \in accounts : x.id = arg[r].id}
     IN  \/ found = {} /\ Answer(r, 404, {})
         \/ (\E x \in found : x.owner # user[r]) /\ Answer(r, 401, {})
         \/ found # {} /\ (\A x \in found : x.owner = user[r]) /\ Answer(r, 200, found)
  /\ UNCHANGED <<Kept, accounts, nextval>>

AccountsOf(u) == {x \in accounts : x.owner = u}

(* ORDER BY id LIMIT limit OFFSET offset. *)
Page(S, limit, offset) ==
  {x \in S : Cardinality({y \in S : y.id < x.id}) \in offset..(offset + limit - 1)}

(* Postgres refuses a negative OFFSET. *)
ListAccounts(r) ==
  /\ pc[r] = "list"
  /\ LET offset == Offset(arg[r].page, arg[r].size)
     IN  \/ offset < 0 /\ Answer(r, 500, {})
         \/ offset >= 0 /\ Answer(r, 200, Page(AccountsOf(user[r]), arg[r].size, offset))
  /\ UNCHANGED <<Kept, accounts, nextval>>

(* Mutant: every error of the store is answered with 403. *)
AlwaysForbidden(r) ==
  /\ resp[r] = 0 /\ pc[r] \notin {"idle", "done"}
  /\ resp' = [resp EXCEPT ![r] = 403]
  /\ pc' = [pc EXCEPT ![r] = "done"]
  /\ UNCHANGED <<Kept, accounts, nextval, rows>>

(* The statement fails, or its answer is lost: then Postgres has yet to
   execute it, after the client has been told 500. *)
Fails(r) ==
  /\ resp[r] = 0
  /\ resp' = [resp EXCEPT ![r] = 500]
  /\ \/ pc[r] \in {"nextval", "insert"} /\ UNCHANGED pc
     \/ pc[r] \notin {"idle", "done"} /\ pc' = [pc EXCEPT ![r] = "done"]
  /\ UNCHANGED <<Kept, accounts, nextval, rows>>

Next ==
  \E r \in Req :
    \/ \E u \in User, currency \in Asked : createAccount(r, u, currency)
    \/ \E u \in User, id \in AccountIds : getAccount(r, u, id)
    \/ \E u \in User, page \in PageIds, size \in PageSizes : listAccounts(r, u, page, size)
    \/ NextId(r) \/ CreateAccount(r) \/ GetAccount(r) \/ ListAccounts(r) \/ Fails(r)

Spec == Init /\ [][Next]_vars

-----------------------------------------------------------------------------
(* Properties.                                                             *)

Rows == [id: Nat, owner: User, currency: {"USD", "EUR", "CAD"}]

(* Every variable has its type, and id is the primary key of accounts. *)
TypeOK ==
  /\ accounts \subseteq Rows
  /\ \A x, y \in accounts : x.id = y.id => x = y
  /\ nextval \in Nat
  /\ op \in [Req -> {"none", "create", "get", "list"}]
  /\ pc \in [Req -> {"idle", "nextval", "insert", "get", "list", "done"}]
  /\ user \in [Req -> User \cup {NoUser}]
  /\ arg \in [Req -> [currency: Asked \cup {"none"}, id: Int, page: Nat, size: Nat]]
  /\ resp \in [Req -> {0, 200, 400, 401, 403, 404, 500}]
  /\ rows \in [Req -> SUBSET Rows]
  /\ had \in [Req -> SUBSET Rows]

(* A user has one account per currency, and opening it is confirmed once:
   requests that race, or repeat one whose answer was lost, make no second. *)
OnePerCurrency ==
  /\ \A x, y \in accounts : Duplicates(x, y) => x = y
  /\ \A r \in Req : op[r] = "create" /\ resp[r] = 200 =>
       /\ rows[r] # {} /\ rows[r] \subseteq accounts
       /\ \A q \in Req \ {r} : op[q] = "create" => rows[q] \cap rows[r] = {}

(* A client that is told 403 has the account, so after a lost answer it can
   ask again and learns from 200 or 403 that the account is open. *)
RefusalMeansExists ==
  \A r \in Req : op[r] = "create" /\ resp[r] = 403 =>
    \E x \in accounts : Duplicates(x, NewAccount(r))

(* Whatever id or page is asked for, an answer shows accounts of the user of
   the token only, and an account that was there is found (api/account.go:70). *)
OwnAccountsOnly ==
  \A r \in Req :
    /\ \A x \in rows[r] : x.owner = user[r]
    /\ op[r] = "get" /\ resp[r] = 404 => \A x \in had[r] : x.id # arg[r].id
    /\ op[r] = "get" /\ resp[r] = 401 =>
         \E x \in accounts : x.id = arg[r].id /\ x.owner # user[r]

(* One currency, one account: so all the accounts of a user fit on the first
   page, and any later page is empty, unless its offset leaves the int32.
   A client that lists until a page is empty sees each account it had once,
   also while others are opened with smaller ids. *)
FirstPageComplete ==
  \A r \in Req : op[r] = "list" /\ resp[r] = 200 =>
    /\ arg[r].page = 1 => {x \in had[r] : x.owner = user[r]} \subseteq rows[r]
    /\ arg[r].page > 1 /\ (arg[r].page - 1) * arg[r].size <= MaxInt => rows[r] = {}
    /\ rows[r] \subseteq accounts
=============================================================================
