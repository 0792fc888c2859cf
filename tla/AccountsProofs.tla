--------------------------- MODULE AccountsProofs ---------------------------
(***************************************************************************)
(* The properties of Accounts, for any users, requests and pages, and any  *)
(* width of the page arithmetic.                                           *)
(*                                                                         *)
(* The invariant adds what a request holds at each of its steps (AtStep),  *)
(* that ids are taken once (FreshIds), and that rows and histories stay in *)
(* the table (RowsStay), for nothing is deleted.                           *)
(***************************************************************************)
EXTENDS Accounts, TLAPS, FunctionTheorems, FiniteSetTheorems

Currencies == {"USD", "EUR", "CAD"}

(* What a request holds at each of its steps. *)
AtStep ==
  \A r \in Req :
    /\ pc[r] = "idle" => resp[r] = 0 /\ op[r] = "none" /\ rows[r] = {}
    /\ pc[r] # "idle" => user[r] \in User
    /\ pc[r] \in {"nextval", "insert"} =>
         op[r] = "create" /\ resp[r] \in {0, 500} /\ arg[r].currency \in Currencies
    /\ pc[r] = "get" => op[r] = "get" /\ resp[r] = 0
    /\ pc[r] = "list" => op[r] = "list" /\ resp[r] = 0 /\ arg[r].page >= 1 /\ arg[r].size \in 5..10
    /\ pc[r] = "done" => resp[r] # 0
    /\ resp[r] # 200 => rows[r] = {}

(* The ids that requests hold are used by no row and by no other request. *)
FreshIds ==
  /\ \A x \in accounts : x.id < nextval
  /\ \A r \in Req : pc[r] = "insert" =>
       /\ arg[r].id \in Nat /\ arg[r].id < nextval
       /\ \A x \in accounts : x.id # arg[r].id
       /\ \A q \in Req \ {r} : pc[q] = "insert" => arg[q].id # arg[r].id

(* Nothing is deleted. *)
RowsStay == \A r \in Req : rows[r] \subseteq accounts /\ had[r] \subseteq accounts

Inv ==
  /\ TypeOK /\ AtStep /\ FreshIds /\ RowsStay
  /\ OnePerCurrency /\ RefusalMeansExists /\ OwnAccountsOnly /\ FirstPageComplete

-----------------------------------------------------------------------------
(* Pages.                                                                  *)

(* There are three currencies. *)
LEMMA ThreeCurrencies == IsFiniteSet(Currencies) /\ Cardinality(Currencies) = 3
<1>1. IsFiniteSet({"USD"}) /\ Cardinality({"USD"}) = 1
  BY FS_Singleton
<1>2. IsFiniteSet({"USD"} \cup {"EUR"}) /\ Cardinality({"USD"} \cup {"EUR"}) = 2
  BY <1>1, FS_AddElement
<1>3. IsFiniteSet(({"USD"} \cup {"EUR"}) \cup {"CAD"})
      /\ Cardinality(({"USD"} \cup {"EUR"}) \cup {"CAD"}) = 3
  BY <1>2, FS_AddElement
<1>4. ({"USD"} \cup {"EUR"}) \cup {"CAD"} = Currencies
  BY DEF Currencies
<1> QED
  BY <1>3, <1>4

(* With one account per currency there are at most three. *)
LEMMA FewAccounts ==
  ASSUME NEW S, S \subseteq Rows, \A x, y \in S : x.currency = y.currency => x = y
  PROVE  Cardinality(S) \in 0..3
<1> DEFINE f == [x \in S |-> x.currency]
<1>1. f \in [S -> Currencies]
  BY DEF Rows, Currencies
<1>2. \A x, y \in S : f[x] = f[y] => x = y
  OBVIOUS
<1> HIDE DEF f
<1>3. f \in Injection(S, Currencies)
  BY <1>1, <1>2, Fun_IsInj
<1>4. IsFiniteSet(S) /\ Cardinality(S) <= Cardinality(Currencies)
  BY <1>3, ThreeCurrencies, FS_Injection
<1> QED
  BY <1>4, ThreeCurrencies, FS_CardinalityType

(* So they are all on the first page, and a later page is empty. *)
LEMMA PagesOfFew ==
  ASSUME NEW S, S \subseteq Rows, \A x, y \in S : x.currency = y.currency => x = y,
         NEW limit \in 5..10
  PROVE  /\ Page(S, limit, 0) = S
         /\ \A offset \in Int : offset >= 5 => Page(S, limit, offset) = {}
<1>1. \A x \in S : Cardinality({y \in S : y.id < x.id}) \in 0..3
  <2> TAKE x \in S
  <2> DEFINE T == {y \in S : y.id < x.id}
  <2>1. T \subseteq Rows /\ \A y, z \in T : y.currency = z.currency => y = z
    OBVIOUS
  <2> HIDE DEF T
  <2>2. Cardinality(T) \in 0..3
    BY <2>1, FewAccounts
  <2> QED
    BY <2>2 DEF T
<1> QED
  BY <1>1 DEF Page

(* A number below the modulus is its own remainder. *)
LEMMA SmallMod == ASSUME NEW n \in Nat, NEW m \in Nat, n < m PROVE n % m = n
OBVIOUS

(* An offset that fits the int32 is what it should be. *)
LEMMA OffsetFits ==
  ASSUME NEW page \in Nat, NEW size \in 5..10, page >= 1, (page - 1) * size <= MaxInt
  PROVE  Offset(page, size) = (page - 1) * size /\ (page > 1 => Offset(page, size) >= 5)
<1> DEFINE n == (page - 1) * size
<1>1. page - 1 \in Nat /\ size \in Nat
  OBVIOUS
<1>2. n \in Nat /\ MaxInt \in Nat
  BY <1>1, AccountsAssumption
<1>3. page > 1 => n >= 5
  <2> SUFFICES ASSUME page > 1 PROVE n >= 5
    OBVIOUS
  <2>1. n = (page - 2) * size + size
    BY <1>1
  <2>2. (page - 2) * size \in Nat
    BY <1>1
  <2> HIDE DEF n
  <2> QED
    BY <1>1, <2>1, <2>2
<1> HIDE DEF n
<1>4. n <= MaxInt /\ Offset(page, size) = Int32(n)
  BY DEF n, Offset
<1>5. (n + MaxInt + 1) % (2 * (MaxInt + 1)) = n + MaxInt + 1
  <2>1. n + MaxInt + 1 \in Nat /\ 2 * (MaxInt + 1) \in Nat /\ n + MaxInt + 1 < 2 * (MaxInt + 1)
    BY <1>2, <1>4
  <2> QED
    BY <2>1, SmallMod
<1>6. Int32(n) = n
  BY <1>2, <1>5 DEF Int32
<1> QED
  BY <1>3, <1>4, <1>6 DEF n

-----------------------------------------------------------------------------
(* How a request comes in, and what it goes on to, whichever handler serves it. *)
Args == [currency: Asked \cup {"none"}, id: Int, page: Nat, size: Nat]

Suits(o, a, s, status) ==
  \/ s = "done" /\ status = 400
  \/ o = "create" /\ s = "nextval" /\ status = 0 /\ a.currency \in Currencies
  \/ o = "get" /\ s = "get" /\ status = 0
  \/ o = "list" /\ s = "list" /\ status = 0 /\ a.page >= 1 /\ a.size \in 5..10

Arrival(r, o, u, a, s, status) ==
  /\ pc[r] = "idle"
  /\ op' = [op EXCEPT ![r] = o]
  /\ user' = [user EXCEPT ![r] = u]
  /\ arg' = [arg EXCEPT ![r] = a]
  /\ had' = [had EXCEPT ![r] = accounts]
  /\ pc' = [pc EXCEPT ![r] = s]
  /\ resp' = [resp EXCEPT ![r] = status]
  /\ UNCHANGED <<accounts, nextval, rows>>

Arrives(r) ==
  \E o \in {"create", "get", "list"}, u \in User, a \in Args,
     s \in {"nextval", "get", "list", "done"}, status \in {0, 400} :
    Arrival(r, o, u, a, s, status) /\ Suits(o, a, s, status)

(* What binds goes on, what does not is refused. *)
LEMMA ReceiveArrives ==
  ASSUME Inv, NEW r \in Req, NEW o \in {"create", "get", "list"}, NEW u \in User,
         NEW a \in Args, NEW s \in {"nextval", "get", "list"}, NEW binds,
         Receive(r, o, u, a, binds, s), binds => Suits(o, a, s, 0)
  PROVE  Arrives(r)
<1>1. resp[r] = 0 /\ resp = [resp EXCEPT ![r] = 0]
  BY DEF Receive, Inv, AtStep, TypeOK
<1>2. CASE binds /\ pc' = [pc EXCEPT ![r] = s] /\ UNCHANGED resp
  <2>1. Suits(o, a, s, 0)
    BY <1>2
  <2>2. Arrival(r, o, u, a, s, 0)
    BY <1>1, <1>2 DEF Receive, Arrival
  <2> QED
    BY <2>1, <2>2 DEF Arrives
<1>3. CASE pc' = [pc EXCEPT ![r] = "done"] /\ resp' = [resp EXCEPT ![r] = 400]
  <2>1. Arrival(r, o, u, a, "done", 400) /\ Suits(o, a, "done", 400)
    BY <1>3 DEF Receive, Arrival, Suits
  <2> QED
    BY <2>1 DEF Arrives
<1> QED
  BY <1>2, <1>3 DEF Receive

(* Every handler's arrival is of this form. *)
LEMMA HandlersArrive ==
  ASSUME Inv, NEW r \in Req, NEW u \in User,
         \/ \E currency \in Asked : createAccount(r, u, currency)
         \/ \E id \in AccountIds : getAccount(r, u, id)
         \/ \E page \in PageIds, size \in PageSizes : listAccounts(r, u, page, size)
  PROVE  Arrives(r)
<1>1. CASE \E currency \in Asked : createAccount(r, u, currency)
  <2>1. PICK currency \in Asked : createAccount(r, u, currency)
    BY <1>1
  <2> DEFINE a == Ask(currency, 0, 0, 0)
  <2>2. a \in Args /\ a.currency = currency
    BY DEF Ask, Args
  <2> HIDE DEF a
  <2>3. IsSupportedCurrency(currency) => Suits("create", a, "nextval", 0)
    BY <2>2 DEF Suits, IsSupportedCurrency, Currencies
  <2>4. Receive(r, "create", u, a, IsSupportedCurrency(currency), "nextval")
    BY <2>1 DEF createAccount, a
  <2> QED
    BY <2>2, <2>3, <2>4, ReceiveArrives
<1>2. CASE \E id \in AccountIds : getAccount(r, u, id)
  <2>1. PICK id \in AccountIds : getAccount(r, u, id)
    BY <1>2
  <2> DEFINE a == Ask("none", id, 0, 0)
  <2>2. a \in Args /\ Suits("get", a, "get", 0)
    BY AccountsAssumption DEF Ask, Args, Suits
  <2>3. Receive(r, "get", u, a, id >= 1, "get")
    BY <2>1 DEF getAccount
  <2> HIDE DEF a
  <2> QED
    BY <2>2, <2>3, ReceiveArrives
<1>3. CASE \E page \in PageIds, size \in PageSizes : listAccounts(r, u, page, size)
  <2>1. PICK page \in PageIds, size \in PageSizes : listAccounts(r, u, page, size)
    BY <1>3
  <2> DEFINE a == Ask("none", 0, page, size)
  <2>2. a \in Args /\ (page >= 1 /\ size \in 5..10 => Suits("list", a, "list", 0))
    BY AccountsAssumption DEF Ask, Args, Suits
  <2>3. Receive(r, "list", u, a, page >= 1 /\ size \in 5..10, "list")
    BY <2>1 DEF listAccounts
  <2> HIDE DEF a
  <2> QED
    BY <2>2, <2>3, ReceiveArrives
<1> QED
  BY <1>1, <1>2, <1>3

(* What an arrival leaves: the request's own state, and nothing else. *)
LEMMA ArrivalFrame ==
  ASSUME Inv, NEW r \in Req, Arrives(r)
  PROVE  /\ UNCHANGED <<accounts, nextval, rows>>
         /\ TypeOK' /\ AtStep!(r)' /\ rows'[r] = {} /\ resp'[r] \in {0, 400}
         /\ pc'[r] # "insert" /\ had'[r] = accounts
         /\ \A q \in Req \ {r} : /\ op'[q] = op[q] /\ pc'[q] = pc[q] /\ user'[q] = user[q]
                                 /\ arg'[q] = arg[q] /\ resp'[q] = resp[q] /\ had'[q] = had[q]
<1>1. PICK o \in {"create", "get", "list"}, u \in User, a \in Args,
           s \in {"nextval", "get", "list", "done"}, status \in {0, 400} :
        Arrival(r, o, u, a, s, status) /\ Suits(o, a, s, status)
  BY DEF Arrives
<1>2. rows[r] = {}
  BY <1>1 DEF Arrival, Inv, AtStep
<1>3. /\ UNCHANGED <<accounts, nextval, rows>> /\ had'[r] = accounts
      /\ op'[r] = o /\ user'[r] = u /\ arg'[r] = a /\ pc'[r] = s /\ resp'[r] = status
      /\ \A q \in Req \ {r} : /\ op'[q] = op[q] /\ pc'[q] = pc[q] /\ user'[q] = user[q]
                              /\ arg'[q] = arg[q] /\ resp'[q] = resp[q] /\ had'[q] = had[q]
  BY <1>1 DEF Arrival, Inv, TypeOK
<1>4. TypeOK'
  BY <1>1 DEF Arrival, Inv, TypeOK, Args
<1>5. AtStep!(r)'
  BY <1>1, <1>2, <1>3 DEF Suits
<1> QED
  BY <1>1, <1>2, <1>3, <1>4, <1>5

(* An arrival preserves the invariant. *)
LEMMA ArrivalPreserves ==
  ASSUME Inv, NEW r \in Req, Arrives(r)
  PROVE  Inv'
<1>1. AtStep'
  BY ArrivalFrame DEF Inv, AtStep
<1>2. FreshIds' /\ RowsStay'
  BY ArrivalFrame DEF Inv, FreshIds, RowsStay
<1>3. OnePerCurrency'
  BY ArrivalFrame DEF Inv, OnePerCurrency, Duplicates
<1>4. RefusalMeansExists'
  BY ArrivalFrame DEF Inv, RefusalMeansExists, Duplicates, NewAccount
<1>5. OwnAccountsOnly'
  BY ArrivalFrame DEF Inv, OwnAccountsOnly
<1>6. FirstPageComplete'
  BY ArrivalFrame DEF Inv, FirstPageComplete
<1> QED
  BY <1>1, <1>2, <1>3, <1>4, <1>5, <1>6, ArrivalFrame DEF Inv

(* Taking the next id preserves the invariant. *)
LEMMA NextIdPreserves ==
  ASSUME Inv, NEW r \in Req, NextId(r)
  PROVE  Inv'
<1>1. /\ pc[r] = "nextval" /\ nextval \in Nat /\ nextval' = nextval + 1
      /\ arg[r] \in Args /\ pc' = [pc EXCEPT ![r] = "insert"]
      /\ UNCHANGED <<accounts, op, user, resp, rows, had>>
      /\ op[r] = "create" /\ resp[r] \in {0, 500}
  BY DEF NextId, Inv, TypeOK, AtStep, Args
<1> DEFINE new == [arg[r] EXCEPT !.id = nextval]
<1>2. arg' = [arg EXCEPT ![r] = new]
  BY DEF NextId
<1>3. /\ new \in Args /\ new.id = nextval /\ new.currency = arg[r].currency
      /\ new.page = arg[r].page /\ new.size = arg[r].size
  BY <1>1 DEF Args
<1> HIDE DEF new
<1>4. /\ arg'[r] = new /\ pc'[r] = "insert"
      /\ \A q \in Req \ {r} : arg'[q] = arg[q] /\ pc'[q] = pc[q]
  BY <1>1, <1>2 DEF Inv, TypeOK
<1>5. TypeOK'
  BY <1>1, <1>2, <1>3 DEF Inv, TypeOK, Args
<1>6. AtStep'
  BY <1>1, <1>3, <1>4 DEF Inv, AtStep
<1>7. FreshIds' /\ RowsStay'
  BY <1>1, <1>3, <1>4 DEF Inv, TypeOK, FreshIds, RowsStay, Rows
<1>8. OnePerCurrency'
  BY <1>1 DEF Inv, OnePerCurrency, Duplicates
<1>9. RefusalMeansExists'
  BY <1>1, <1>4 DEF Inv, RefusalMeansExists, Duplicates, NewAccount
<1>10. OwnAccountsOnly'
  BY <1>1, <1>4 DEF Inv, OwnAccountsOnly
<1>11. FirstPageComplete'
  BY <1>1, <1>4 DEF Inv, FirstPageComplete
<1> QED
  BY <1>5, <1>6, <1>7, <1>8, <1>9, <1>10, <1>11 DEF Inv

(* An INSERT preserves the invariant: the row has a new id, and a duplicate
   is refused. *)
LEMMA CreatePreserves ==
  ASSUME Inv, NEW r \in Req, CreateAccount(r)
  PROVE  Inv'
<1> DEFINE new == NewAccount(r)
<1>1. /\ new \in Rows /\ new.id = arg[r].id /\ new.owner = user[r]
      /\ op[r] = "create" /\ resp[r] \in {0, 500} /\ rows[r] = {}
      /\ \A x \in accounts : x.id # new.id
  BY DEF CreateAccount, Inv, TypeOK, AtStep, FreshIds, NewAccount, Rows, Currencies
<1>2. /\ UNCHANGED <<op, user, arg, had, nextval>> /\ accounts \subseteq accounts'
      /\ accounts' \subseteq accounts \cup {new}
      /\ pc' = [pc EXCEPT ![r] = "done"]
      /\ \A q \in Req \ {r} : resp'[q] = resp[q] /\ rows'[q] = rows[q]
  BY DEF CreateAccount, Answer, Kept, Inv, TypeOK
<1>3. \/ /\ \E x \in accounts : Duplicates(x, new)
         /\ accounts' = accounts /\ rows'[r] = {} /\ resp'[r] \in {403, 500}
      \/ /\ \A x \in accounts : ~Duplicates(x, new)
         /\ accounts' = accounts \cup {new}
         /\ \/ resp'[r] = 200 /\ rows'[r] = {new}
            \/ resp'[r] = 500 /\ rows'[r] = {}
  BY <1>1 DEF CreateAccount, Answer, Inv, TypeOK
<1>4. TypeOK'
  <2>1. accounts' \subseteq Rows /\ \A x, y \in accounts' : x.id = y.id => x = y
    BY <1>1, <1>2 DEF Inv, TypeOK
  <2>2. resp' \in [Req -> {0, 200, 400, 401, 403, 404, 500}] /\ rows' \in [Req -> SUBSET Rows]
    <3>1. PICK status \in {200, 403}, found \in SUBSET Rows : Answer(r, status, found)
      BY <1>1 DEF CreateAccount
    <3> QED
      BY <3>1 DEF Answer, Inv, TypeOK
  <2> QED
    BY <1>2, <2>1, <2>2 DEF Inv, TypeOK
<1>5. NewAccount(r)' = new /\ \A q \in Req : NewAccount(q)' = NewAccount(q)
  BY <1>2 DEF NewAccount
<1> HIDE DEF new
<1>6. AtStep'
  BY <1>1, <1>2, <1>3 DEF Inv, TypeOK, AtStep
<1>7. FreshIds'
  <2>1. new.id < nextval
    BY <1>1 DEF CreateAccount, Inv, FreshIds
  <2>2. pc[r] = "insert"
    BY DEF CreateAccount
  <2> QED
    BY <1>1, <1>2, <2>1, <2>2 DEF Inv, TypeOK, FreshIds
<1>8. RowsStay'
  BY <1>2, <1>3 DEF Inv, RowsStay
<1>9. OnePerCurrency'
  <2>1. \A x, y \in accounts' : Duplicates(x, y) => x = y
    BY <1>3 DEF Inv, OnePerCurrency, Duplicates
  <2>2. new \notin accounts /\ \A q \in Req : rows[q] \subseteq accounts
    BY <1>1 DEF Inv, RowsStay
  <2> QED
    BY <1>2, <1>3, <2>1, <2>2 DEF Inv, OnePerCurrency
<1>10. RefusalMeansExists'
  BY <1>2, <1>3, <1>5 DEF Inv, RefusalMeansExists, Duplicates, new
<1>11. OwnAccountsOnly'
  BY <1>1, <1>2, <1>3 DEF Inv, OwnAccountsOnly
<1>12. FirstPageComplete'
  BY <1>1, <1>2 DEF Inv, FirstPageComplete
<1> QED
  BY <1>4, <1>6, <1>7, <1>8, <1>9, <1>10, <1>11, <1>12 DEF Inv

(* The reads and failures: the table stays, and the request is answered. *)
LEMMA ReadFrame ==
  ASSUME Inv, NEW r \in Req, NEW status \in {200, 401, 404, 500}, NEW found,
         found \subseteq accounts, status # 200 => found = {}, resp[r] = 0,
         Answer(r, status, found), UNCHANGED <<Kept, accounts, nextval>>,
         pc[r] \in {"get", "list"}
  PROVE  /\ TypeOK' /\ AtStep' /\ FreshIds' /\ RowsStay' /\ OnePerCurrency' /\ RefusalMeansExists'
         /\ rows'[r] = found /\ resp'[r] = status
         /\ \A q \in Req \ {r} : resp'[q] = resp[q] /\ rows'[q] = rows[q]
<1>1. found \in SUBSET Rows
  BY DEF Inv, TypeOK
<1>2. /\ UNCHANGED <<op, user, arg, had, accounts, nextval>>
      /\ pc' = [pc EXCEPT ![r] = "done"] /\ resp' = [resp EXCEPT ![r] = status]
      /\ rows' = [rows EXCEPT ![r] = found]
  BY DEF Answer, Kept, Inv, TypeOK
<1>3. /\ rows'[r] = found /\ resp'[r] = status /\ pc'[r] = "done"
      /\ \A q \in Req \ {r} : resp'[q] = resp[q] /\ rows'[q] = rows[q] /\ pc'[q] = pc[q]
  BY <1>2 DEF Inv, TypeOK
<1>4. TypeOK'
  BY <1>1, <1>2 DEF Inv, TypeOK
<1>5. op[r] \in {"get", "list"}
  BY DEF Inv, AtStep
<1>6. AtStep'
  BY <1>2, <1>3, <1>5 DEF Inv, AtStep
<1>7. FreshIds' /\ RowsStay'
  BY <1>2, <1>3 DEF Inv, FreshIds, RowsStay
<1>8. OnePerCurrency'
  BY <1>2, <1>3, <1>5 DEF Inv, OnePerCurrency, Duplicates
<1>9. RefusalMeansExists'
  BY <1>2, <1>3, <1>5 DEF Inv, RefusalMeansExists, Duplicates, NewAccount
<1> QED
  BY <1>3, <1>4, <1>6, <1>7, <1>8, <1>9

(* getAccount preserves the invariant. *)
LEMMA GetPreserves ==
  ASSUME Inv, NEW r \in Req, GetAccount(r)
  PROVE  Inv'
<1> DEFINE found == {x \in accounts : x.id = arg[r].id}
<1>1. /\ pc[r] = "get" /\ op[r] = "get" /\ resp[r] = 0
      /\ UNCHANGED <<Kept, accounts, nextval>> /\ UNCHANGED <<op, user, arg, had>>
      /\ had[r] \subseteq accounts
  BY DEF GetAccount, Kept, Inv, AtStep, RowsStay
<1>2. PICK status \in {200, 401, 404}, shown \in SUBSET found :
        /\ Answer(r, status, shown) /\ (status # 200 => shown = {})
        /\ \A x \in shown : x.owner = user[r]
        /\ status = 404 => found = {}
        /\ status = 401 => \E x \in found : x.owner # user[r]
  <2>1. \/ found = {} /\ Answer(r, 404, {})
        \/ (\E x \in found : x.owner # user[r]) /\ Answer(r, 401, {})
        \/ found # {} /\ (\A x \in found : x.owner = user[r]) /\ Answer(r, 200, found)
    BY DEF GetAccount
  <2> HIDE DEF found
  <2> QED
    BY <2>1
<1>3. /\ TypeOK' /\ AtStep' /\ FreshIds' /\ RowsStay' /\ OnePerCurrency' /\ RefusalMeansExists'
      /\ rows'[r] = shown /\ resp'[r] = status
      /\ \A q \in Req \ {r} : resp'[q] = resp[q] /\ rows'[q] = rows[q]
  <2>1. shown \subseteq accounts
    OBVIOUS
  <2> QED
    BY <1>1, <1>2, <2>1, ReadFrame
<1>4. OwnAccountsOnly'
  BY <1>1, <1>2, <1>3 DEF Inv, OwnAccountsOnly
<1>5. FirstPageComplete'
  BY <1>1, <1>3 DEF Inv, FirstPageComplete
<1> QED
  BY <1>3, <1>4, <1>5 DEF Inv

(* listAccounts preserves the invariant: by OnePerCurrency a user has few
   accounts, so what a page shows is known. *)
LEMMA ListPreserves ==
  ASSUME Inv, NEW r \in Req, ListAccounts(r)
  PROVE  Inv'
<1> DEFINE S == AccountsOf(user[r])
           offset == Offset(arg[r].page, arg[r].size)
<1>1. /\ pc[r] = "list" /\ op[r] = "list" /\ resp[r] = 0
      /\ UNCHANGED <<Kept, accounts, nextval>> /\ UNCHANGED <<op, user, arg, had>>
      /\ had[r] \subseteq accounts
      /\ arg[r].page \in Nat /\ arg[r].page >= 1 /\ arg[r].size \in 5..10
  BY DEF ListAccounts, Kept, Inv, AtStep, RowsStay, TypeOK
<1>2. PICK status \in {200, 500}, shown \in SUBSET S :
        /\ Answer(r, status, shown) /\ (status # 200 => shown = {})
        /\ status = 200 => shown = Page(S, arg[r].size, offset)
  <2>1. \/ Answer(r, 500, {})
        \/ Answer(r, 200, Page(S, arg[r].size, offset))
    BY DEF ListAccounts
  <2>2. Page(S, arg[r].size, offset) \subseteq S
    BY DEF Page
  <2> HIDE DEF S, offset
  <2> QED
    BY <2>1, <2>2
<1>3. /\ TypeOK' /\ AtStep' /\ FreshIds' /\ RowsStay' /\ OnePerCurrency' /\ RefusalMeansExists'
      /\ rows'[r] = shown /\ resp'[r] = status
      /\ \A q \in Req \ {r} : resp'[q] = resp[q] /\ rows'[q] = rows[q]
  <2>1. shown \subseteq accounts
    BY DEF AccountsOf
  <2> QED
    BY <1>1, <1>2, <2>1, ReadFrame
<1>4. OwnAccountsOnly'
  <2>1. \A x \in shown : x.owner = user[r]
    BY DEF AccountsOf
  <2> QED
    BY <1>1, <1>3, <2>1 DEF Inv, OwnAccountsOnly
<1>5. S \subseteq Rows /\ \A x, y \in S : x.currency = y.currency => x = y
  BY DEF AccountsOf, Inv, TypeOK, OnePerCurrency, Duplicates
<1>6. (arg[r].page - 1) * arg[r].size <= MaxInt =>
        /\ offset = (arg[r].page - 1) * arg[r].size
        /\ arg[r].page > 1 => offset >= 5
  BY <1>1, OffsetFits
<1>7. ASSUME status = 200, arg[r].page = 1
      PROVE  {x \in had[r] : x.owner = user[r]} \subseteq shown
  <2>1. (arg[r].page - 1) * arg[r].size = 0
    BY <1>1, <1>7
  <2>2. offset = 0
    BY <1>6, <2>1, AccountsAssumption
  <2> HIDE DEF offset, S
  <2>3. shown = S
    BY <1>1, <1>2, <1>5, <1>7, <2>2, PagesOfFew
  <2> QED
    BY <1>1, <2>3 DEF AccountsOf, S
<1>8. ASSUME status = 200, arg[r].page > 1, (arg[r].page - 1) * arg[r].size <= MaxInt
      PROVE  shown = {}
  <2>1. offset \in Int /\ offset >= 5
    <3>1. (arg[r].page - 1) * arg[r].size \in Int
      BY <1>1
    <3> QED
      BY <1>6, <1>8, <3>1
  <2> HIDE DEF offset, S
  <2> QED
    BY <1>1, <1>2, <1>5, <1>8, <2>1, PagesOfFew
<1>9. shown \subseteq accounts'
  BY <1>1 DEF AccountsOf
<1>10. FirstPageComplete'
  <2> HIDE DEF S, offset
  <2> SUFFICES ASSUME NEW q \in Req, op'[q] = "list", resp'[q] = 200
               PROVE  FirstPageComplete!(q)!2'
    BY DEF FirstPageComplete
  <2>1. CASE q = r
    BY <1>1, <1>3, <1>7, <1>8, <1>9, <2>1
  <2>2. CASE q # r
    BY <1>1, <1>3, <2>2 DEF Inv, FirstPageComplete
  <2> QED
    BY <2>1, <2>2
<1> QED
  BY <1>3, <1>4, <1>10 DEF Inv

(* A failure preserves the invariant, also one of which only the answer is lost. *)
LEMMA FailurePreserves ==
  ASSUME Inv, NEW r \in Req, Fails(r)
  PROVE  Inv'
<1>1. /\ UNCHANGED <<op, user, arg, had, accounts, nextval, rows>> /\ resp[r] = 0
      /\ resp'[r] = 500 /\ rows[r] = {} /\ pc[r] \notin {"idle", "done"}
      /\ pc'[r] = "done" \/ (pc[r] \in {"nextval", "insert"} /\ pc'[r] = pc[r])
      /\ \A q \in Req \ {r} : resp'[q] = resp[q] /\ pc'[q] = pc[q]
  BY DEF Fails, Kept, Inv, TypeOK, AtStep
<1>2. TypeOK'
  BY <1>1 DEF Fails, Inv, TypeOK
<1>3. AtStep'
  BY <1>1 DEF Inv, AtStep
<1>4. FreshIds' /\ RowsStay'
  BY <1>1 DEF Inv, FreshIds, RowsStay
<1>5. OnePerCurrency'
  BY <1>1 DEF Inv, OnePerCurrency, Duplicates
<1>6. RefusalMeansExists'
  BY <1>1 DEF Inv, RefusalMeansExists, Duplicates, NewAccount
<1>7. OwnAccountsOnly' /\ FirstPageComplete'
  BY <1>1 DEF Inv, OwnAccountsOnly, FirstPageComplete
<1> QED
  BY <1>2, <1>3, <1>4, <1>5, <1>6, <1>7 DEF Inv

-----------------------------------------------------------------------------
(* The invariant holds, whatever requests come and whichever fail. *)
THEOREM Invariance == Spec => []Inv
<1>1. Init => Inv
  <2> SUFFICES ASSUME Init PROVE Inv
    OBVIOUS
  <2>1. TypeOK
    BY DEF Init, TypeOK, Ask
  <2>2. AtStep /\ FreshIds /\ RowsStay
    BY DEF Init, AtStep, FreshIds, RowsStay
  <2>3. OnePerCurrency /\ RefusalMeansExists /\ OwnAccountsOnly /\ FirstPageComplete
    BY DEF Init, OnePerCurrency, RefusalMeansExists, OwnAccountsOnly, FirstPageComplete
  <2> QED
    BY <2>1, <2>2, <2>3 DEF Inv
<1>2. Inv /\ [Next]_vars => Inv'
  <2>1. ASSUME Inv, Next PROVE Inv'
    <3>1. PICK r \in Req :
            \/ Arrives(r)
            \/ NextId(r) \/ CreateAccount(r) \/ GetAccount(r) \/ ListAccounts(r) \/ Fails(r)
      BY <2>1, HandlersArrive DEF Next
    <3> QED
      BY <2>1, <3>1, ArrivalPreserves, NextIdPreserves, CreatePreserves, GetPreserves,
         ListPreserves, FailurePreserves
  <2>2. ASSUME Inv, UNCHANGED vars PROVE Inv'
    BY <2>2 DEF vars, Inv, TypeOK, AtStep, FreshIds, RowsStay, OnePerCurrency, Duplicates,
       RefusalMeansExists, NewAccount, OwnAccountsOnly, FirstPageComplete
  <2> QED
    BY <2>1, <2>2
<1> QED
  BY <1>1, <1>2, PTL DEF Spec

(* Types, and ids that are taken from the sequence are never taken twice. *)
THEOREM TypeCorrect == Spec => []TypeOK
BY Invariance, PTL DEF Inv

(* owner_currency_key lets one of racing requests through (api/account.go:32). *)
THEOREM OneAccountPerCurrency == Spec => []OnePerCurrency
BY Invariance, PTL DEF Inv

(* 403 tells a client that retries that the account is open (api/account.go:36). *)
THEOREM RefusedOnlyIfOpen == Spec => []RefusalMeansExists
BY Invariance, PTL DEF Inv

(* No id and no page shows an account of someone else (api/account.go:70, 93). *)
THEOREM OnlyOwnAccounts == Spec => []OwnAccountsOnly
BY Invariance, PTL DEF Inv

(* The first page is all there is, for every width of the page arithmetic
   (api/account.go:95). *)
THEOREM FirstPageHasAll == Spec => []FirstPageComplete
BY Invariance, PTL DEF Inv
-----------------------------------------------------------------------------
(* What an answer is worth later.                                          *)

(* One step of request r, after its arrival has been put into one form. *)
Steps(r) ==
  \/ Arrives(r)
  \/ NextId(r) \/ CreateAccount(r) \/ GetAccount(r) \/ ListAccounts(r) \/ Fails(r)

(* No row of accounts goes away, and only the request of a step is moved on. *)
LEMMA StepFrame ==
  ASSUME Inv, NEW r \in Req, Steps(r)
  PROVE  /\ accounts \subseteq accounts'
         /\ resp[r] # 0 => resp'[r] = resp[r] /\ rows'[r] = rows[r]
         /\ \A q \in Req \ {r} : /\ op'[q] = op[q] /\ user'[q] = user[q] /\ arg'[q] = arg[q]
                                 /\ resp'[q] = resp[q] /\ rows'[q] = rows[q]
<1> USE DEF Inv, TypeOK
<1>1. CASE Arrives(r)
  <2>1. pc[r] = "idle"
    BY <1>1 DEF Arrives, Arrival
  <2> QED
    BY <1>1, <2>1, ArrivalFrame DEF AtStep
<1>2. CASE NextId(r)
  BY <1>2 DEF NextId
<1>3. CASE CreateAccount(r)
  BY <1>3 DEF CreateAccount, Answer, Kept
<1>4. CASE GetAccount(r)
  <2>1. \E status \in {200, 401, 404} : \E found : Answer(r, status, found)
    BY <1>4 DEF GetAccount
  <2> QED
    BY <1>4, <2>1 DEF GetAccount, Answer, Kept
<1>5. CASE ListAccounts(r)
  <2>1. \E status \in {200, 500} : \E found : Answer(r, status, found)
    BY <1>5 DEF ListAccounts
  <2> QED
    BY <1>5, <2>1 DEF ListAccounts, Answer, Kept
<1>6. CASE Fails(r)
  BY <1>6 DEF Fails, Kept
<1> QED
  BY <1>1, <1>2, <1>3, <1>4, <1>5, <1>6 DEF Steps

LEMMA NextSteps ==
  ASSUME Inv, Next
  PROVE  \E r \in Req : Steps(r)
BY HandlersArrive DEF Next, Steps

(* An account that an answer has shown. *)
ShownForGood(r, x) == [](x \in rows[r] => [](x \in rows[r] /\ x \in accounts))

(* What a client has been shown stays true: no answer is changed, and an
   account that was confirmed, read or listed once is there for ever, for no
   statement of the API deletes one (api/account.go, db/sqlc/account.sql.go). *)
THEOREM ShownAccountsStay == Spec => \A r \in Req, x \in Rows : ShownForGood(r, x)
<1>1. ASSUME NEW r \in Req, NEW x \in Rows PROVE Spec => ShownForGood(r, x)
  <2>1. Inv /\ x \in rows[r] => x \in accounts
    BY DEF Inv, RowsStay
  <2>2. Inv /\ x \in rows[r] /\ [Next]_vars => (x \in rows[r])'
    <3> SUFFICES ASSUME Inv, x \in rows[r], [Next]_vars PROVE x \in rows'[r]
      OBVIOUS
    <3>1. CASE UNCHANGED vars
      BY <3>1 DEF vars
    <3>2. CASE Next
      <4>1. PICK q \in Req : Steps(q)
        BY <3>2, NextSteps
      <4>2. resp[r] # 0
        BY DEF Inv, AtStep
      <4> QED
        BY <4>1, <4>2, StepFrame
    <3> QED
      BY <3>1, <3>2
  <2> QED
    BY <2>1, <2>2, Invariance, PTL DEF Spec, ShownForGood
<1> QED
  BY <1>1

(* Request r has not been told that it opened a double of x. *)
NoDouble(r, x) ==
  /\ x \in accounts
  /\ op[r] = "create" /\ resp[r] = 200 => ~Duplicates(x, NewAccount(r))

LEMMA NoDoubleStays ==
  ASSUME Inv, NEW q \in Req, Steps(q), NEW r \in Req, NEW x \in Rows, NoDouble(r, x)
  PROVE  NoDouble(r, x)'
<1>1. x \in accounts'
  BY StepFrame DEF NoDouble
<1>2. CASE q # r
  BY <1>1, <1>2, StepFrame DEF NoDouble, NewAccount, Duplicates
<1>3. CASE q = r /\ Arrives(r)
  BY <1>1, <1>3, ArrivalFrame DEF NoDouble
<1>4. CASE q = r /\ NextId(r)
  BY <1>1, <1>4 DEF NoDouble, NextId, Inv, AtStep
<1>5. CASE q = r /\ CreateAccount(r)
  <2>1. UNCHANGED Kept /\ resp[r] \in {0, 500}
    BY <1>5 DEF CreateAccount, Inv, AtStep
  <2>2. NewAccount(r)' = NewAccount(r)
    BY <2>1 DEF NewAccount, Kept
  <2>3. CASE Duplicates(x, NewAccount(r))
    <3>1. Answer(r, 403, {})
      BY <1>5, <2>3 DEF CreateAccount, NoDouble
    <3> QED
      BY <1>1, <2>1, <3>1 DEF Answer, NoDouble, Inv, TypeOK
  <2>4. CASE ~Duplicates(x, NewAccount(r))
    BY <1>1, <2>2, <2>4 DEF NoDouble, Duplicates
  <2> QED
    BY <2>3, <2>4
<1>6. CASE q = r /\ (GetAccount(r) \/ ListAccounts(r))
  BY <1>1, <1>6 DEF NoDouble, GetAccount, ListAccounts, Kept, Inv, AtStep
<1>7. CASE q = r /\ Fails(r)
  BY <1>1, <1>7 DEF NoDouble, Fails, Inv, TypeOK
<1> QED
  BY <1>2, <1>3, <1>4, <1>5, <1>6, <1>7 DEF Steps

NoLaterDouble(r, x) == [](x \in accounts /\ pc[r] = "idle" => []NoDouble(r, x))

(* Once an account is open, no request that comes in afterwards is ever told
   that it has opened one for the same owner and currency, whatever it races
   with and however often it is sent (api/account.go:createAccount). *)
THEOREM OpenedOnlyOnce == Spec => \A r \in Req, x \in Rows : NoLaterDouble(r, x)
<1>1. ASSUME NEW r \in Req, NEW x \in Rows PROVE Spec => NoLaterDouble(r, x)
  <2>1. Inv /\ x \in accounts /\ pc[r] = "idle" => NoDouble(r, x)
    BY DEF Inv, AtStep, NoDouble
  <2>2. Inv /\ NoDouble(r, x) /\ [Next]_vars => NoDouble(r, x)'
    <3> SUFFICES ASSUME Inv, NoDouble(r, x), [Next]_vars PROVE NoDouble(r, x)'
      OBVIOUS
    <3>1. CASE UNCHANGED vars
      BY <3>1 DEF vars, NoDouble, NewAccount, Duplicates
    <3>2. CASE Next
      BY <3>2, NextSteps, NoDoubleStays
    <3> QED
      BY <3>1, <3>2
  <2> QED
    BY <2>1, <2>2, Invariance, PTL DEF Spec, NoLaterDouble
<1> QED
  BY <1>1
=============================================================================
