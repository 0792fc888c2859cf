---------------------------- MODULE UsersProofs ----------------------------
(***************************************************************************)
(* The properties of Users, for any users, requests and inputs.            *)
(*                                                                         *)
(* The invariant says what a request holds at each of its steps (AtStep),  *)
(* that a request counts as earlier only when it is over, none of its      *)
(* statements pending (Over), and that what a sign-in has read was fresh   *)
(* when it came (SeenFresh).  With them the four properties are inductive  *)
(* together.                                                               *)
(***************************************************************************)
EXTENDS Users, TLAPS

NullRow == Row(Null, Null, Null, Null, Null)

(* What the handlers have computed when a statement is to be run. *)
AtStep ==
  \A r \in Req :
    /\ pc[r] = "idle" => resp[r] = 0 /\ param[r] = NullRow /\ op[r] = "none"
    /\ pc[r] = "insert" =>
         /\ Creates(r) /\ resp[r] \in {0, 500}
         /\ param[r] \in Rows
         /\ param[r].hashedPassword.salt = r /\ param[r].passwordChangedAt = Never
    /\ pc[r] = "update" =>
         /\ op[r] = "UpdateUser" /\ resp[r] \in {0, 500}
         /\ param[r].username = bearer[r] /\ bearer[r] # Null
         /\ param[r].passwordChangedAt = IF param[r].hashedPassword = Null THEN Null ELSE r
         /\ param[r].hashedPassword # Null => param[r].hashedPassword.salt = r
    /\ pc[r] \in {"getUser", "checkPassword"} => SignsIn(r) /\ resp[r] = 0
    /\ pc[r] = "done" => resp[r] # 0
    /\ SignsIn(r) => param[r].hashedPassword = Null /\ param[r].fullName = Null
                     /\ param[r].email = Null
    /\ Creates(r) /\ resp[r] = 200 => param[r].username # Null

(* A request is earlier than another only when it was over. *)
Over == \A r \in Req : \A q \in before[r] : pc[q] = "done" /\ resp[q] # 0

(* The row that a sign-in has read. *)
SeenFresh ==
  \A r \in Req : \A row \in seen[r] :
    /\ SignsIn(r) /\ row.username = param[r].username
    /\ Fresh(row.username, "hashedPassword", row.hashedPassword, before[r])

(* The request that made the hash has its statement behind it. *)
SaltUsed == \A row \in users : pc[row.hashedPassword.salt] # "idle"

Inv ==
  /\ TypeOK /\ AtStep /\ Over /\ SeenFresh /\ SaltUsed
  /\ NoLostUpdate /\ SignInIsCurrent /\ PasswordStamp /\ OneRegistration

-----------------------------------------------------------------------------
(* A request that has been answered is not touched any more. *)
Settled(q) ==
  resp[q] # 0 =>
    /\ resp'[q] = resp[q] /\ param'[q] = param[q] /\ op'[q] = op[q]
    /\ bearer'[q] = bearer[q] /\ before'[q] = before[q]

(* How a request comes in, whichever handler serves it. *)
Arrival(r, o, b, p, k, s, status) ==
  /\ pc[r] = "idle"
  /\ op' = [op EXCEPT ![r] = o]
  /\ bearer' = [bearer EXCEPT ![r] = b]
  /\ param' = [param EXCEPT ![r] = p]
  /\ key' = [key EXCEPT ![r] = k]
  /\ pc' = [pc EXCEPT ![r] = s]
  /\ resp' = [resp EXCEPT ![r] = status]
  /\ before' = [before EXCEPT ![r] = {q \in Req : pc[q] = "done"}]
  /\ UNCHANGED <<users, seen>>

(* What it then holds: the parameters of the statement it goes on to. *)
Prepared(r, o, b, p, s, status) ==
  \/ /\ s = "done" /\ p = NullRow /\ status \in {400, 401, 403, 500}
     /\ o = "UpdateUser" \/ status \in {400, 500}
  \/ /\ s = "insert" /\ status = 0
     /\ o \in {"createUser", "CreateUser"} /\ b = Null /\ p \in Rows
     /\ p.hashedPassword.salt = r /\ p.passwordChangedAt = Never
  \/ /\ s = "update" /\ status = 0
     /\ o = "UpdateUser" /\ p.username = b /\ b # Null
     /\ p.passwordChangedAt = IF p.hashedPassword = Null THEN Null ELSE r
     /\ p.hashedPassword # Null => p.hashedPassword.salt = r
  \/ /\ s = "getUser" /\ status = 0 /\ o \in {"loginUser", "LoginUser"}
     /\ p.hashedPassword = Null /\ p.fullName = Null /\ p.email = Null

Handlers == {"createUser", "CreateUser", "UpdateUser", "loginUser", "LoginUser"}

Arrives(r) ==
  \E o \in Handlers, b \in Optional(Username), p \in Params, k \in Optional(Key),
     s \in {"insert", "update", "getUser", "done"}, status \in {0, 400, 401, 403, 500} :
    Arrival(r, o, b, p, k, s, status) /\ Prepared(r, o, b, p, s, status)

(* A refusal of any handler is such an arrival. *)
LEMMA RefusalArrives ==
  ASSUME Inv, NEW r \in Req, NEW o \in Handlers, NEW b \in Optional(Username),
         NEW status \in {400, 401, 403, 500}, Receive(r, o, b), Refuse(r, status),
         o = "UpdateUser" \/ status \in {400, 500}
  PROVE  Arrives(r)
<1>1. param[r] = NullRow /\ param[r] \in Params /\ key[r] \in Optional(Key)
  BY DEF Inv, AtStep, TypeOK, Receive
<1>2. Arrival(r, o, b, NullRow, key[r], "done", status)
  BY <1>1 DEF Receive, Refuse, Arrival, Inv, TypeOK
<1>3. Prepared(r, o, b, NullRow, "done", status)
  BY DEF Prepared
<1> QED
  BY <1>1, <1>2, <1>3 DEF Arrives

(* Going on with prepared parameters is such an arrival. *)
LEMMA ProceedArrives ==
  ASSUME Inv, NEW r \in Req, NEW o \in Handlers, NEW b \in Optional(Username),
         NEW p \in Params, NEW k \in Optional(Key), NEW s \in {"insert", "update", "getUser"},
         Receive(r, o, b), Proceed(r, s, p, k), Prepared(r, o, b, p, s, 0)
  PROVE  Arrives(r)
<1>1. resp[r] = 0
  BY DEF Inv, AtStep, Receive
<1>2. Arrival(r, o, b, p, k, s, 0)
  BY <1>1 DEF Receive, Proceed, Arrival, Inv, TypeOK
<1> QED
  BY <1>2 DEF Arrives

(* createUser and CreateUser prepare an INSERT of a full row. *)
LEMMA RegisterArrives ==
  ASSUME Inv, NEW r \in Req, NEW o \in {"createUser", "CreateUser"}, NEW a \in CreateArgs,
         NEW accepted, Register(r, o, a, accepted)
  PROVE  Arrives(r)
<1>1. Receive(r, o, Null) /\ o \in Handlers /\ Null \in Optional(Username) /\ Null \in Optional(Key)
  BY DEF Register, Handlers, Optional
<1>2. CASE Refuse(r, 400)
  BY <1>1, <1>2, RefusalArrives
<1>3. CASE Refuse(r, 500)
  BY <1>1, <1>3, RefusalArrives
<1>4. CASE Proceed(r, "insert", ParamsOf(r, a, Never), Null)
  <2>1. ParamsOf(r, a, Never) \in Rows /\ ParamsOf(r, a, Never) \in Params
    BY UsersAssumption DEF ParamsOf, HashPassword, Row, Rows, Params, Hash, Password, Optional
  <2>2. Prepared(r, o, Null, ParamsOf(r, a, Never), "insert", 0)
    BY <2>1, UsersAssumption DEF Prepared, ParamsOf, HashPassword, Row, Password
  <2> QED
    BY <1>1, <1>4, <2>1, <2>2, ProceedArrives
<1> QED
  BY <1>2, <1>3, <1>4 DEF Register

(* UpdateUser prepares an UPDATE of the row of the token's user. *)
LEMMA UpdateArrives ==
  ASSUME Inv, NEW r \in Req, NEW a \in UpdateArgs, NEW b \in authorizeUser, UpdateUser(r, b, a)
  PROVE  Arrives(r)
<1>1. Receive(r, "UpdateUser", b) /\ "UpdateUser" \in Handlers /\ Null \in Optional(Key)
  BY DEF UpdateUser, Handlers, Optional
<1>2. b \in Optional(Username)
  BY DEF authorizeUser, Inv, TypeOK, Rows, Optional
<1>3. CASE \E status \in {400, 401, 403, 500} : Refuse(r, status)
  BY <1>1, <1>2, <1>3, RefusalArrives
<1>4. CASE b # Null /\ b = a.username /\ Proceed(r, "update", UpdateUserParams(r, a), Null)
  <2>1. UpdateUserParams(r, a) \in Params
    BY UsersAssumption
    DEF UpdateUserParams, ParamsOf, HashPassword, Row, Params, Hash, Password, Optional
  <2>2. Prepared(r, "UpdateUser", b, UpdateUserParams(r, a), "update", 0)
    BY <1>4, UsersAssumption DEF Prepared, UpdateUserParams, ParamsOf, HashPassword, Row, Password, Optional
  <2> QED
    BY <1>1, <1>2, <1>4, <2>1, <2>2, ProceedArrives
<1> QED
  BY <1>3, <1>4 DEF UpdateUser

(* loginUser and LoginUser prepare a SELECT by username. *)
LEMMA SignInArrives ==
  ASSUME Inv, NEW r \in Req, NEW o \in {"loginUser", "LoginUser"}, NEW a \in LoginArgs,
         NEW accepted, SignIn(r, o, a, accepted)
  PROVE  Arrives(r)
<1>1. Receive(r, o, Null) /\ o \in Handlers /\ Null \in Optional(Username)
  BY DEF SignIn, Handlers, Optional
<1>2. CASE Refuse(r, 400)
  BY <1>1, <1>2, RefusalArrives
<1> DEFINE p == Row(a.username, Null, Null, Null, Null)
<1>3. CASE Proceed(r, "getUser", p, a.password.key)
  <2>1. p \in Params /\ a.password.key \in Optional(Key)
    BY UsersAssumption DEF Row, Params, Password, Optional
  <2>2. Prepared(r, o, Null, p, "getUser", 0)
    BY DEF Prepared, Row
  <2> HIDE DEF p
  <2> QED
    BY <1>1, <1>3, <2>1, <2>2, ProceedArrives
<1> QED
  BY <1>2, <1>3 DEF SignIn

(* Every step is an arrival, a statement, a check or a failure. *)
LEMMA StepCases ==
  ASSUME Inv, Next
  PROVE  \E r \in Req : \/ Arrives(r) \/ InsertUser(r) \/ UpdateRow(r)
                        \/ GetUser(r) \/ CheckPassword(r) \/ Fails(r)
<1>1. PICK r \in Req :
        \/ \E a \in CreateArgs : createUser(r, a) \/ CreateUser(r, a)
        \/ \E a \in UpdateArgs, b \in authorizeUser : UpdateUser(r, b, a)
        \/ \E a \in LoginArgs : loginUser(r, a) \/ LoginUser(r, a)
        \/ InsertUser(r) \/ UpdateRow(r) \/ GetUser(r) \/ CheckPassword(r) \/ Fails(r)
  BY DEF Next
<1>2. CASE \E a \in CreateArgs : createUser(r, a) \/ CreateUser(r, a)
  BY <1>2, RegisterArrives DEF createUser, CreateUser
<1>3. CASE \E a \in UpdateArgs, b \in authorizeUser : UpdateUser(r, b, a)
  BY <1>3, UpdateArrives
<1>4. CASE \E a \in LoginArgs : loginUser(r, a) \/ LoginUser(r, a)
  BY <1>4, SignInArrives DEF loginUser, LoginUser
<1> QED
  BY <1>1, <1>2, <1>3, <1>4

-----------------------------------------------------------------------------
(* One step of request r; only Arrives changes more than users, pc, seen and resp. *)
Steps(r) ==
  \/ Arrives(r) \/ InsertUser(r) \/ UpdateRow(r)
  \/ GetUser(r) \/ CheckPassword(r) \/ Fails(r)

(* An UPDATE leaves the row a row of the table. *)
LEMMA UpdatedRow ==
  ASSUME NEW row \in Rows, NEW p \in Params
  PROVE  /\ Updated(row, p) \in Rows
         /\ Updated(row, p).username = row.username
         /\ \A c \in {"hashedPassword", "fullName", "email"} :
              Updated(row, p)[c] = IF p[c] = Null THEN row[c] ELSE p[c]
BY UsersAssumption DEF Updated, Row, Rows, Params, COALESCE, Optional

(* Types are kept: for the unique email, EmailTaken is what decides. *)
LEMMA TypePreserved ==
  ASSUME Inv, NEW r \in Req, Steps(r)
  PROVE  TypeOK'
<1> USE DEF Inv, TypeOK
<1>1. CASE Arrives(r)
  <2>1. PICK o \in Handlers, b \in Optional(Username), p \in Params, k \in Optional(Key),
          s \in {"insert", "update", "getUser", "done"}, status \in {0, 400, 401, 403, 500} :
          Arrival(r, o, b, p, k, s, status)
    BY <1>1 DEF Arrives
  <2> QED
    BY <2>1 DEF Arrival, Handlers
<1>2. CASE InsertUser(r)
  <2>1. param[r] \in Rows
    BY <1>2 DEF InsertUser, AtStep
  <2>2. /\ users' \subseteq Rows
        /\ \A x, y \in users' : x.username = y.username \/ x.email = y.email => x = y
    BY <1>2, <2>1 DEF InsertUser
  <2> QED
    BY <1>2, <2>2 DEF InsertUser, Answer, Kept
<1>3. CASE UpdateRow(r)
  <2>1. CASE UNCHANGED users /\ \E status \in {404, 500} : Answer(r, status)
    BY <1>3, <2>1 DEF UpdateRow, Answer, Kept
  <2>2. CASE \E row \in users :
               /\ row.username = param[r].username /\ ~EmailTaken(row, param[r])
               /\ Answer(r, 200) /\ users' = (users \ {row}) \cup {Updated(row, param[r])}
    <3>1. PICK row \in users :
               /\ row.username = param[r].username /\ ~EmailTaken(row, param[r])
               /\ Answer(r, 200) /\ users' = (users \ {row}) \cup {Updated(row, param[r])}
      BY <2>2
    <3>2. /\ Updated(row, param[r]) \in Rows
          /\ Updated(row, param[r]).username = row.username
          /\ Updated(row, param[r]).email = IF param[r].email = Null THEN row.email ELSE param[r].email
      BY UpdatedRow
    <3>3. \A y \in users : y # row =>
            y.username # row.username /\ y.email # Updated(row, param[r]).email
      BY <3>1, <3>2 DEF EmailTaken
    <3> HIDE DEF TypeOK
    <3> DEFINE new == Updated(row, param[r])
    <3>4. /\ users' = (users \ {row}) \cup {new} /\ new \in Rows /\ users \subseteq Rows
          /\ new.username = row.username
          /\ \A y \in users : y # row => y.username # new.username /\ y.email # new.email
          /\ \A x, y \in users : x.username = y.username \/ x.email = y.email => x = y
      BY <3>1, <3>2, <3>3 DEF TypeOK
    <3> HIDE DEF new
    <3>5. /\ users' \subseteq Rows
          /\ \A x, y \in users' : x.username = y.username \/ x.email = y.email => x = y
      BY <3>4
    <3> QED
      BY <1>3, <3>1, <3>5 DEF UpdateRow, Answer, Kept, TypeOK
  <2> QED
    BY <1>3, <2>1, <2>2 DEF UpdateRow
<1>4. CASE GetUser(r)
  BY <1>4 DEF GetUser, Answer, Kept
<1>5. CASE CheckPassword(r)
  BY <1>5 DEF CheckPassword, Answer, Kept
<1>6. CASE Fails(r)
  BY <1>6 DEF Fails, Kept
<1> QED
  BY <1>1, <1>2, <1>3, <1>4, <1>5, <1>6 DEF Steps

(* Statements only move their own request on. *)
LEMMA StatementFrame ==
  ASSUME Inv, NEW r \in Req,
         InsertUser(r) \/ UpdateRow(r) \/ GetUser(r) \/ CheckPassword(r) \/ Fails(r)
  PROVE  /\ UNCHANGED Kept
         /\ \A q \in Req \ {r} : pc'[q] = pc[q] /\ resp'[q] = resp[q]
         /\ resp[r] # 0 => resp'[r] = resp[r]
         /\ pc[r] # "idle" /\ pc'[r] # "idle"
         /\ \/ pc'[r] = "done" /\ resp'[r] # 0
            \/ pc[r] = "getUser" /\ pc'[r] = "checkPassword" /\ resp'[r] = resp[r]
            \/ pc[r] \in {"insert", "update"} /\ pc'[r] = pc[r] /\ resp'[r] = 500
<1> USE DEF Inv, TypeOK, AtStep
<1>1. CASE InsertUser(r)
  BY <1>1 DEF InsertUser, Answer, Kept
<1>2. CASE UpdateRow(r)
  <2>1. \E status \in {200, 404, 500} : Answer(r, status)
    BY <1>2 DEF UpdateRow
  <2> QED
    BY <1>2, <2>1 DEF UpdateRow, Answer, Kept
<1>3. CASE GetUser(r)
  BY <1>3 DEF GetUser, Answer, Kept
<1>4. CASE CheckPassword(r)
  BY <1>4 DEF CheckPassword, Answer, Kept
<1>5. CASE Fails(r)
  BY <1>5 DEF Fails, Kept
<1> QED
  BY <1>1, <1>2, <1>3, <1>4, <1>5

(* No step touches a request that has been answered. *)
LEMMA SettledStays ==
  ASSUME Inv, NEW r \in Req, Steps(r)
  PROVE  \A q \in Req : Settled(q)
<1>1. CASE Arrives(r)
  <2>1. PICK o \in Handlers, b \in Optional(Username), p \in Params, k \in Optional(Key),
          s \in {"insert", "update", "getUser", "done"}, status \in {0, 400, 401, 403, 500} :
          Arrival(r, o, b, p, k, s, status)
    BY <1>1 DEF Arrives
  <2>2. resp[r] = 0
    BY <2>1 DEF Arrival, Inv, AtStep
  <2> QED
    BY <2>1, <2>2 DEF Arrival, Settled, Inv, TypeOK
<1>2. CASE InsertUser(r) \/ UpdateRow(r) \/ GetUser(r) \/ CheckPassword(r) \/ Fails(r)
  BY <1>2, StatementFrame DEF Settled, Kept
<1> QED
  BY <1>1, <1>2 DEF Steps

(* AtStep and Over hold after every step. *)
LEMMA AtStepPreserved ==
  ASSUME Inv, NEW r \in Req, Steps(r)
  PROVE  AtStep' /\ Over'
<1>1. CASE Arrives(r)
  <2>1. PICK o \in Handlers, b \in Optional(Username), p \in Params, k \in Optional(Key),
          s \in {"insert", "update", "getUser", "done"}, status \in {0, 400, 401, 403, 500} :
          Arrival(r, o, b, p, k, s, status) /\ Prepared(r, o, b, p, s, status)
    BY <1>1 DEF Arrives
  <2>2. AtStep'
    <3> SUFFICES ASSUME NEW q \in Req PROVE AtStep!(q)'
      BY DEF AtStep
    <3>1. CASE q = r
      BY <2>1, <3>1 DEF Arrival, Prepared, AtStep, Inv, TypeOK, Creates, SignsIn, NullRow, Row, Handlers
    <3>2. CASE q # r
      BY <2>1, <3>2 DEF Arrival, AtStep, Inv, TypeOK, Creates, SignsIn
    <3> QED
      BY <3>1, <3>2
  <2>3. Over'
    BY <2>1 DEF Arrival, Over, Inv, TypeOK, AtStep
  <2> QED
    BY <2>2, <2>3
<1>2. CASE InsertUser(r) \/ UpdateRow(r) \/ GetUser(r) \/ CheckPassword(r) \/ Fails(r)
  <2>1. AtStep'
    <3> SUFFICES ASSUME NEW q \in Req PROVE AtStep!(q)'
      BY DEF AtStep
    <3>1. AtStep!(q) /\ op'[q] = op[q] /\ param'[q] = param[q] /\ bearer'[q] = bearer[q]
      BY <1>2, StatementFrame DEF Inv, AtStep, Kept
    <3>2. CASE q = r
      BY <1>2, <3>1, <3>2, StatementFrame, UsersAssumption
      DEF AtStep, Creates, SignsIn, Inv, TypeOK, Rows, Params, Optional
    <3>3. CASE q # r
      BY <1>2, <3>1, <3>3, StatementFrame DEF AtStep, Creates, SignsIn
    <3> QED
      BY <3>2, <3>3
  <2>2. Over'
    BY <1>2, StatementFrame DEF Over, Inv, TypeOK, Kept
  <2> QED
    BY <2>1, <2>2
<1> QED
  BY <1>1, <1>2 DEF Steps

-----------------------------------------------------------------------------
Column == {"hashedPassword", "fullName", "email"}

(* What is fresh stays so, unless another request confirms a change of the
   same column. *)
LEMMA FreshStays ==
  ASSUME TypeOK, TypeOK', \A q \in Req : Settled(q),
         NEW u, NEW c, NEW value, NEW past, past \subseteq Req, Fresh(u, c, value, past),
         \A w \in past : resp[w] = 0 /\ resp'[w] = 200 => ~Sets(w, u, c)'
  PROVE  Fresh(u, c, value, past)'
<1>1. PICK q \in Req :
        /\ Sets(q, u, c) /\ param[q][c] = value
        /\ \A w \in past : resp[w] = 200 /\ Sets(w, u, c) => q \notin before[w]
  BY DEF Fresh
<1>2. resp'[q] = resp[q] /\ param'[q] = param[q] /\ Sets(q, u, c)'
  BY <1>1 DEF Settled, Sets
<1>3. ASSUME NEW w \in past, resp'[w] = 200, Sets(w, u, c)'
      PROVE  q \notin before'[w]
  <2>1. resp[w] # 0
    BY <1>3
  <2> QED
    BY <1>1, <1>2, <1>3, <2>1 DEF Settled, Sets
<1> QED
  BY <1>1, <1>2, <1>3 DEF Fresh

(* What a statement writes when it is executed is fresh. *)
LEMMA WrittenFresh ==
  ASSUME Inv, TypeOK', NEW r \in Req, NEW u, NEW c, NEW value, UNCHANGED Kept,
         pc[r] # "done", Sets(r, u, c)', value = param[r][c]
  PROVE  Fresh(u, c, value, Req)'
<1>1. \A w \in Req : r \notin before'[w]
  BY DEF Inv, Over, Kept
<1> QED
  BY <1>1 DEF Fresh, Kept

-----------------------------------------------------------------------------
(* The four properties, one lemma for each.                                *)

(* Where no row changes and no write is confirmed, the columns stay fresh. *)
LEMMA UntouchedFresh ==
  ASSUME Inv, TypeOK', \A q \in Req : Settled(q), UNCHANGED users,
         \A w \in Req, u \in Username, c \in Column :
           resp[w] = 0 /\ resp'[w] = 200 => ~Sets(w, u, c)'
  PROVE  NoLostUpdate'
<1> SUFFICES ASSUME NEW row \in users, NEW c \in Column
             PROVE  Fresh(row.username, c, row[c], Req)'
  BY DEF NoLostUpdate, Column
<1>1. Fresh(row.username, c, row[c], Req) /\ row.username \in Username
  BY DEF Inv, NoLostUpdate, Column, TypeOK, Rows
<1> QED
  BY <1>1, FreshStays DEF Inv

(* No confirmed change of a column is lost. *)
LEMMA LostUpdatePreserved ==
  ASSUME Inv, NEW r \in Req, Steps(r), TypeOK', AtStep', \A q \in Req : Settled(q)
  PROVE  NoLostUpdate'
<1>1. CASE Arrives(r)
  <2>1. PICK o \in Handlers, b \in Optional(Username), p \in Params, k \in Optional(Key),
          s \in {"insert", "update", "getUser", "done"}, status \in {0, 400, 401, 403, 500} :
          Arrival(r, o, b, p, k, s, status)
    BY <1>1 DEF Arrives
  <2>2. UNCHANGED users /\ \A w \in Req : resp[w] = 0 => resp'[w] # 200
    BY <2>1 DEF Arrival, Inv, TypeOK
  <2> QED
    BY <2>2, UntouchedFresh
<1>2. CASE GetUser(r) \/ CheckPassword(r) \/ Fails(r)
  <2>1. UNCHANGED users
    BY <1>2 DEF GetUser, CheckPassword, Fails
  <2>2. ASSUME NEW w \in Req, NEW u \in Username, NEW c \in Column, resp[w] = 0, resp'[w] = 200
        PROVE  ~Sets(w, u, c)'
    <3>1. w = r /\ pc[r] \in {"getUser", "checkPassword"}
      <4>1. CASE GetUser(r)
        BY <1>2, <2>2, <4>1, StatementFrame DEF GetUser, Answer
      <4>2. CASE CheckPassword(r)
        BY <1>2, <2>2, <4>2, StatementFrame DEF CheckPassword
      <4>3. CASE Fails(r)
        BY <2>2, <4>3 DEF Fails, Inv, TypeOK
      <4> QED
        BY <1>2, <4>1, <4>2, <4>3
    <3>2. param[r].hashedPassword = Null /\ param[r].fullName = Null /\ param[r].email = Null
      BY <3>1 DEF Inv, AtStep
    <3>3. param'[r] = param[r]
      BY <1>2, StatementFrame DEF Kept
    <3> QED
      BY <3>1, <3>2, <3>3 DEF Sets, Column
  <2> QED
    BY <2>1, <2>2, UntouchedFresh
<1>3. CASE InsertUser(r) \/ UpdateRow(r)
  <2>1. /\ UNCHANGED Kept
        /\ \A q \in Req \ {r} : resp'[q] = resp[q]
        /\ resp[r] # 0 => resp'[r] = resp[r]
        /\ resp[r] \in {0, 500} /\ pc[r] # "done"
        /\ param[r].username # Null
    BY <1>3, StatementFrame, UsersAssumption DEF InsertUser, UpdateRow, Inv, AtStep, Rows
  <2>2. CASE UNCHANGED users /\ resp'[r] # 200
    BY <2>1, <2>2, UntouchedFresh
  <2>3. CASE InsertUser(r) /\ users' = users \cup {param[r]} /\ Answer(r, 200)
    <3>1. resp'[r] \in {200, 500} /\ param[r] \in Rows /\ op[r] # "UpdateUser"
      BY <2>1, <2>3 DEF InsertUser, Answer, Inv, TypeOK, AtStep, Creates
    <3> SUFFICES ASSUME NEW row \in users', NEW c \in Column
                 PROVE  Fresh(row.username, c, row[c], Req)'
      BY DEF NoLostUpdate, Column
    <3>2. CASE row \in users /\ row # param[r]
      <4>1. Fresh(row.username, c, row[c], Req) /\ row.username # param[r].username
        BY <3>1, <3>2, <2>3 DEF Inv, NoLostUpdate, Column, TypeOK
      <4>2. \A w \in Req : resp[w] = 0 /\ resp'[w] = 200 => ~Sets(w, row.username, c)'
        BY <2>1, <4>1 DEF Sets, Kept
      <4> QED
        BY <4>1, <4>2, FreshStays DEF Inv
    <3>3. CASE row = param[r]
      <4>1. Sets(r, row.username, c)'
        BY <2>1, <3>1, <3>3, UsersAssumption DEF Sets, Kept, Column, Rows, Hash
      <4> QED
        BY <2>1, <3>3, <4>1, WrittenFresh
    <3> QED
      BY <2>3, <3>2, <3>3
  <2>4. CASE \E old \in users :
               /\ UpdateRow(r) /\ old.username = param[r].username
               /\ users' = (users \ {old}) \cup {Updated(old, param[r])} /\ Answer(r, 200)
    <3>1. PICK old \in users :
               /\ UpdateRow(r) /\ old.username = param[r].username
               /\ users' = (users \ {old}) \cup {Updated(old, param[r])} /\ Answer(r, 200)
      BY <2>4
    <3>2. resp'[r] \in {200, 500} /\ bearer[r] = param[r].username
      BY <2>1, <3>1 DEF UpdateRow, Answer, Inv, TypeOK, AtStep
    <3>3. /\ Updated(old, param[r]).username = old.username
          /\ \A c \in Column : Updated(old, param[r])[c] =
                                IF param[r][c] = Null THEN old[c] ELSE param[r][c]
      BY UpdatedRow DEF Inv, TypeOK, Column
    <3> SUFFICES ASSUME NEW row \in users', NEW c \in Column
                 PROVE  Fresh(row.username, c, row[c], Req)'
      BY DEF NoLostUpdate, Column
    <3>4. CASE row \in users /\ row # old
      <4>1. Fresh(row.username, c, row[c], Req) /\ row.username # param[r].username
        BY <3>1, <3>4 DEF Inv, NoLostUpdate, Column, TypeOK
      <4>2. \A w \in Req : resp[w] = 0 /\ resp'[w] = 200 => ~Sets(w, row.username, c)'
        BY <2>1, <4>1 DEF Sets, Kept
      <4> QED
        BY <4>1, <4>2, FreshStays DEF Inv
    <3>5. CASE row = Updated(old, param[r]) /\ param[r][c] # Null
      <4>1. Sets(r, row.username, c)' /\ row[c] = param[r][c]
        BY <2>1, <3>1, <3>2, <3>3, <3>5 DEF Sets, Kept
      <4> QED
        BY <2>1, <4>1, WrittenFresh
    <3>6. CASE row = Updated(old, param[r]) /\ param[r][c] = Null
      <4>1. Fresh(row.username, c, row[c], Req)
        BY <3>3, <3>6 DEF Inv, NoLostUpdate, Column
      <4>2. \A w \in Req : resp[w] = 0 /\ resp'[w] = 200 => ~Sets(w, row.username, c)'
        BY <2>1, <3>6 DEF Sets, Kept
      <4> QED
        BY <4>1, <4>2, FreshStays DEF Inv
    <3> QED
      BY <3>1, <3>4, <3>5, <3>6
  <2>5. \/ UNCHANGED users /\ resp'[r] # 200
        \/ InsertUser(r) /\ users' = users \cup {param[r]} /\ Answer(r, 200)
        \/ \E old \in users :
               /\ UpdateRow(r) /\ old.username = param[r].username
               /\ users' = (users \ {old}) \cup {Updated(old, param[r])} /\ Answer(r, 200)
    <3>1. CASE InsertUser(r)
      BY <2>1, <3>1 DEF InsertUser, Answer, Inv, TypeOK
    <3>2. CASE UpdateRow(r)
      BY <2>1, <3>2 DEF UpdateRow, Answer, Inv, TypeOK
    <3> QED
      BY <1>3, <3>1, <3>2
  <2> QED
    BY <2>2, <2>3, <2>4, <2>5
<1> QED
  BY <1>1, <1>2, <1>3 DEF Steps

(* What a sign-in has read stays fresh for the requests before it. *)
LEMMA SeenPreserved ==
  ASSUME Inv, NEW r \in Req, Steps(r), TypeOK', \A q \in Req : Settled(q)
  PROVE  SeenFresh'
<1>1. ASSUME NEW q \in Req, NEW row \in seen[q], op'[q] = op[q], param'[q] = param[q],
             before'[q] = before[q]
      PROVE  /\ SignsIn(q)' /\ row.username = param'[q].username
             /\ Fresh(row.username, "hashedPassword", row.hashedPassword, before[q])'
  <2>1. /\ SignsIn(q) /\ row.username = param[q].username
        /\ Fresh(row.username, "hashedPassword", row.hashedPassword, before[q])
    BY DEF Inv, SeenFresh
  <2>2. before[q] \subseteq Req /\ \A w \in before[q] : resp[w] # 0
    BY DEF Inv, Over, TypeOK
  <2> DEFINE past == before[q]
  <2>3. past' = past
    BY <1>1
  <2>4. \E x \in Req :
          /\ Sets(x, row.username, "hashedPassword")
          /\ param[x]["hashedPassword"] = row.hashedPassword
          /\ \A w \in past : resp[w] = 200 /\ Sets(w, row.username, "hashedPassword")
                => x \notin before[w]
    BY <2>1 DEF Fresh
  <2>5. Fresh(row.username, "hashedPassword", row.hashedPassword, past)'
    BY <2>2, <2>3, <2>4 DEF Fresh, Sets, Settled
  <2> QED
    BY <1>1, <2>1, <2>5 DEF SignsIn
<1>2. CASE Arrives(r)
  <2>1. PICK o \in Handlers, b \in Optional(Username), p \in Params, k \in Optional(Key),
          s \in {"insert", "update", "getUser", "done"}, status \in {0, 400, 401, 403, 500} :
          Arrival(r, o, b, p, k, s, status)
    BY <1>2 DEF Arrives
  <2>2. seen[r] = {}
    BY <2>1 DEF Arrival, Inv, AtStep, SeenFresh, SignsIn
  <2>3. seen' = seen /\ \A q \in Req \ {r} : op'[q] = op[q] /\ param'[q] = param[q]
                                              /\ before'[q] = before[q]
    BY <2>1 DEF Arrival, Inv, TypeOK
  <2> QED
    BY <1>1, <2>2, <2>3 DEF SeenFresh
<1>3. CASE GetUser(r)
  <2>1. UNCHANGED Kept /\ seen' = [seen EXCEPT ![r] = {row \in users : row.username = param[r].username}]
    BY <1>3 DEF GetUser, Kept
  <2>2. SignsIn(r)
    BY <1>3 DEF GetUser, Inv, AtStep
  <2>3. ASSUME NEW row \in users, row.username = param[r].username
        PROVE  Fresh(row.username, "hashedPassword", row.hashedPassword, before[r])'
    <3>1. Fresh(row.username, "hashedPassword", row.hashedPassword, Req)
      BY DEF Inv, NoLostUpdate
    <3>2. \A w \in Req : resp[w] = 0 => resp'[w] # 200
      BY <1>3 DEF GetUser, Answer, Inv, TypeOK
    <3>3. Fresh(row.username, "hashedPassword", row.hashedPassword, Req)'
      BY <3>1, <3>2, FreshStays DEF Inv
    <3> QED
      BY <3>3 DEF Fresh, TypeOK
  <2>4. ASSUME NEW q \in Req, NEW row \in seen'[q]
        PROVE  /\ SignsIn(q)' /\ row.username = param'[q].username
               /\ Fresh(row.username, "hashedPassword", row.hashedPassword, before[q])'
    <3>1. CASE q = r
      <4>1. row \in users /\ row.username = param[r].username
        BY <2>1, <2>4, <3>1 DEF Inv, TypeOK
      <4> QED
        BY <2>1, <2>2, <2>3, <3>1, <4>1 DEF Kept, SignsIn
    <3>2. CASE q # r
      <4>1. row \in seen[q]
        BY <2>1, <2>4, <3>2 DEF Inv, TypeOK
      <4> QED
        BY <1>1, <2>1, <4>1 DEF Kept
    <3> QED
      BY <3>1, <3>2
  <2> QED
    BY <2>4 DEF SeenFresh
<1>4. CASE InsertUser(r) \/ UpdateRow(r) \/ CheckPassword(r) \/ Fails(r)
  <2>1. seen' = seen /\ UNCHANGED Kept
    BY <1>4, StatementFrame DEF InsertUser, UpdateRow, CheckPassword, Fails
  <2> QED
    BY <1>1, <2>1 DEF SeenFresh, Kept
<1> QED
  BY <1>2, <1>3, <1>4 DEF Steps

(* Answers to sign-ins: 404 comes with GetUser, the others with CheckPassword. *)
LEMMA SignInPreserved ==
  ASSUME Inv, NEW r \in Req, Steps(r), TypeOK', SeenFresh', \A q \in Req : Settled(q)
  PROVE  SignInIsCurrent'
<1> DEFINE Cur(q) == SignsIn(q) =>
      /\ resp[q] = 200 => \E h \in Hash :
           h.key = key[q] /\ Fresh(param[q].username, "hashedPassword", h, before[q])
      /\ resp[q] \in {401, 403} => \E h \in Hash :
           h.key # key[q] /\ Fresh(param[q].username, "hashedPassword", h, before[q])
      /\ resp[q] = 404 => \A w \in before[q] :
           ~(Creates(w) /\ resp[w] = 200 /\ param[w].username = param[q].username)
<1>1. ASSUME NEW q \in Req, resp[q] # 0, key'[q] = key[q]
      PROVE  Cur(q)'
  <2>1. Cur(q) /\ Settled(q)
    BY DEF Inv, SignInIsCurrent
  <2>2. before[q] \subseteq Req /\ \A w \in before[q] : resp[w] # 0 /\ Settled(w)
    BY DEF Inv, Over, TypeOK
  <2>3. ASSUME NEW h \in Hash, Fresh(param[q].username, "hashedPassword", h, before[q])
        PROVE  Fresh(param[q].username, "hashedPassword", h, before[q])'
    BY <1>1, <2>1, <2>2, <2>3 DEF Fresh, Sets, Settled
  <2> QED
    BY <1>1, <2>1, <2>2, <2>3 DEF Settled, SignsIn, Creates
<1>2. ASSUME NEW q \in Req, resp'[q] \notin {200, 401, 403, 404}
      PROVE  Cur(q)'
  BY <1>2
<1>3. CASE Arrives(r)
  <2>1. PICK o \in Handlers, b \in Optional(Username), p \in Params, k \in Optional(Key),
          s \in {"insert", "update", "getUser", "done"}, status \in {0, 400, 401, 403, 500} :
          Arrival(r, o, b, p, k, s, status) /\ Prepared(r, o, b, p, s, status)
    BY <1>3 DEF Arrives
  <2>2. SignsIn(r)' => resp'[r] \notin {200, 401, 403, 404}
    BY <2>1 DEF Arrival, Prepared, SignsIn, Inv, TypeOK
  <2>3. \A q \in Req \ {r} : resp'[q] = resp[q] /\ key'[q] = key[q]
    BY <2>1 DEF Arrival, Inv, TypeOK
  <2>4. ASSUME NEW q \in Req PROVE Cur(q)'
    <3>1. CASE q = r
      BY <2>2, <3>1
    <3>2. CASE q # r /\ resp[q] # 0
      BY <1>1, <2>3, <3>2
    <3>3. CASE q # r /\ resp[q] = 0
      BY <1>2, <2>3, <3>3
    <3> QED
      BY <3>1, <3>2, <3>3
  <2> QED
    BY <2>4 DEF SignInIsCurrent
<1>4. CASE InsertUser(r) \/ UpdateRow(r) \/ GetUser(r) \/ CheckPassword(r) \/ Fails(r)
  <2>1. UNCHANGED Kept /\ \A q \in Req \ {r} : resp'[q] = resp[q]
    BY <1>4, StatementFrame
  <2>2. ASSUME resp[r] = 0 PROVE Cur(r)'
    <3>1. CASE InsertUser(r) \/ UpdateRow(r)
      BY <2>1, <3>1 DEF InsertUser, UpdateRow, Inv, AtStep, Creates, SignsIn, Kept
    <3>2. CASE GetUser(r)
      <4>1. CASE \A row \in users : row.username # param[r].username
        <5>1. \A w \in Req : ~(Creates(w) /\ resp[w] = 200 /\ param[w].username = param[r].username)
          BY <4>1 DEF Inv, OneRegistration
        <5>2. resp'[r] = 404
          <6>1. {row \in users : row.username = param[r].username} = {}
            BY <4>1
          <6>2. seen'[r] = {}
            BY <3>2, <6>1 DEF GetUser, Inv, TypeOK
          <6> QED
            BY <2>2, <3>2, <6>2 DEF GetUser, Answer, Inv, TypeOK
        <5>3. \A w \in before[r] : resp'[w] = resp[w]
          BY DEF Settled, Inv, Over, TypeOK
        <5> QED
          BY <2>1, <5>1, <5>2, <5>3 DEF Kept, Creates, SignsIn, TypeOK
      <4>2. CASE \E row \in users : row.username = param[r].username
        BY <2>2, <3>2, <4>2 DEF GetUser, Inv, TypeOK
      <4> QED
        BY <4>1, <4>2
    <3>3. CASE CheckPassword(r)
      <4>1. PICK row \in seen[r] :
              \/ row.hashedPassword.key = key[r] /\ Answer(r, 200)
              \/ /\ row.hashedPassword.key # key[r]
                 /\ Answer(r, IF op[r] = "loginUser" THEN 401 ELSE 403)
        BY <3>3 DEF CheckPassword
      <4>2. row \in seen'[r]
        BY <3>3 DEF CheckPassword
      <4>3. /\ row.username = param'[r].username /\ row.hashedPassword \in Hash
            /\ Fresh(row.username, "hashedPassword", row.hashedPassword, before[r])'
        BY <4>2 DEF SeenFresh, TypeOK, Rows
      <4>4. \/ resp'[r] = 200 /\ row.hashedPassword.key = key'[r]
            \/ resp'[r] \in {401, 403} /\ row.hashedPassword.key # key'[r]
        BY <2>1, <2>2, <4>1 DEF Answer, Inv, TypeOK, Kept
      <4>5. Fresh(param[r].username, "hashedPassword", row.hashedPassword, before[r])'
        BY <4>3 DEF Fresh
      <4> QED
        BY <4>3, <4>4, <4>5
    <3>4. CASE Fails(r)
      BY <3>4 DEF Fails, Inv, TypeOK
    <3> QED
      BY <1>4, <3>1, <3>2, <3>3, <3>4
  <2>3. ASSUME NEW q \in Req PROVE Cur(q)'
    <3>1. CASE resp[q] # 0
      BY <1>1, <2>1, <3>1 DEF Kept
    <3>2. CASE resp[q] = 0 /\ q # r
      BY <1>2, <2>1, <3>2
    <3> QED
      BY <2>2, <3>1, <3>2
  <2> QED
    BY <2>3 DEF SignInIsCurrent
<1> QED
  BY <1>3, <1>4 DEF Steps

(* What a step does to the table: nothing, a new row, or one row updated. *)
LEMMA TableCases ==
  ASSUME Inv, NEW r \in Req, Steps(r)
  PROVE  \/ UNCHANGED users /\ (pc[r] = "insert" => resp'[r] # 200)
         \/ /\ pc[r] = "insert" /\ users' = users \cup {param[r]}
            /\ \A row \in users : row.username # param[r].username
         \/ /\ pc[r] = "update"
            /\ \E old \in users : /\ old.username = param[r].username
                                  /\ users' = (users \ {old}) \cup {Updated(old, param[r])}
<1>1. CASE Arrives(r)
  BY <1>1 DEF Arrives, Arrival
<1>2. CASE InsertUser(r)
  BY <1>2 DEF InsertUser, Answer, Inv, TypeOK, AtStep
<1>3. CASE UpdateRow(r)
  BY <1>3 DEF UpdateRow
<1>4. CASE GetUser(r) \/ CheckPassword(r) \/ Fails(r)
  BY <1>4 DEF GetUser, CheckPassword, Fails, Inv, TypeOK
<1> QED
  BY <1>1, <1>2, <1>3, <1>4 DEF Steps

(* The stamp and the hash of a row are set by the same request. *)
LEMMA StampPreserved ==
  ASSUME Inv, NEW r \in Req, Steps(r), TypeOK'
  PROVE  PasswordStamp' /\ SaltUsed'
<1>1. \A q \in Req : pc[q] # "idle" => pc'[q] # "idle" /\ op'[q] = op[q] /\ param'[q] = param[q]
  <2>1. CASE Arrives(r)
    BY <2>1 DEF Arrives, Arrival, Inv, TypeOK
  <2>2. CASE InsertUser(r) \/ UpdateRow(r) \/ GetUser(r) \/ CheckPassword(r) \/ Fails(r)
    BY <2>2, StatementFrame DEF Kept
  <2> QED
    BY <2>1, <2>2 DEF Steps
<1> DEFINE Stamped(row) == row.passwordChangedAt =
      IF op[row.hashedPassword.salt] = "UpdateUser" THEN row.hashedPassword.salt ELSE Never
<1>2. ASSUME NEW row \in users PROVE Stamped(row)' /\ pc'[row.hashedPassword.salt] # "idle"
  <2>1. Stamped(row) /\ pc[row.hashedPassword.salt] # "idle" /\ row.hashedPassword.salt \in Req
    BY DEF Inv, PasswordStamp, SaltUsed, TypeOK, Rows, Hash
  <2> QED
    BY <1>1, <2>1
<1>3. CASE pc[r] = "insert" /\ users' = users \cup {param[r]}
  <2>1. /\ param[r].hashedPassword.salt = r /\ param[r].passwordChangedAt = Never
        /\ op'[r] # "UpdateUser" /\ pc'[r] # "idle" /\ param'[r] = param[r]
    BY <1>1, <1>3 DEF Inv, AtStep, Creates
  <2>2. ASSUME NEW row \in users' PROVE Stamped(row)' /\ pc'[row.hashedPassword.salt] # "idle"
    BY <1>2, <1>3, <2>1
  <2> QED
    BY <2>2 DEF PasswordStamp, SaltUsed
<1>4. CASE pc[r] = "update" /\ \E old \in users : users' = (users \ {old}) \cup {Updated(old, param[r])}
  <2>1. PICK old \in users : users' = (users \ {old}) \cup {Updated(old, param[r])}
    BY <1>4
  <2>2. /\ param[r].hashedPassword # Null =>
             param[r].hashedPassword.salt = r /\ param[r].passwordChangedAt = r
        /\ param[r].hashedPassword = Null => param[r].passwordChangedAt = Null
        /\ op'[r] = "UpdateUser" /\ pc'[r] # "idle" /\ param'[r] = param[r]
    BY <1>1, <1>4 DEF Inv, AtStep
  <2> DEFINE new == Updated(old, param[r])
  <2>3. \/ new.hashedPassword = old.hashedPassword /\ new.passwordChangedAt = old.passwordChangedAt
        \/ new.hashedPassword.salt = r /\ new.passwordChangedAt = r
    BY <2>2, UsersAssumption DEF Updated, Row, COALESCE
  <2> HIDE DEF new
  <2>4. Stamped(old)' /\ pc'[old.hashedPassword.salt] # "idle"
    BY <1>2
  <2>5. /\ pc'[new.hashedPassword.salt] # "idle"
        /\ new.passwordChangedAt =
             IF op'[new.hashedPassword.salt] = "UpdateUser" THEN new.hashedPassword.salt ELSE Never
    BY <2>2, <2>3, <2>4
  <2>6. ASSUME NEW row \in users'
        PROVE  /\ pc'[row.hashedPassword.salt] # "idle"
               /\ row.passwordChangedAt =
                    IF op'[row.hashedPassword.salt] = "UpdateUser" THEN row.hashedPassword.salt ELSE Never
    <3>1. row \in users \/ row = new
      BY <2>1 DEF new
    <3> QED
      BY <1>2, <2>5, <3>1
  <2> QED
    BY <2>6 DEF PasswordStamp, SaltUsed
<1>5. CASE UNCHANGED users
  BY <1>2, <1>5 DEF PasswordStamp, SaltUsed
<1> QED
  BY <1>3, <1>4, <1>5, TableCases

(* A username is given out once. *)
LEMMA RegistrationPreserved ==
  ASSUME Inv, NEW r \in Req, Steps(r), TypeOK', \A q \in Req : Settled(q)
  PROVE  OneRegistration'
<1>1. \A row \in users : \E new \in users' : new.username = row.username
  <2>1. CASE \E old \in users : users' = (users \ {old}) \cup {Updated(old, param[r])}
    <3>1. PICK old \in users : users' = (users \ {old}) \cup {Updated(old, param[r])}
      BY <2>1
    <3>2. Updated(old, param[r]).username = old.username
      BY UpdatedRow DEF Inv, TypeOK
    <3> QED
      BY <3>1, <3>2
  <2> QED
    BY <2>1, TableCases
<1>2. ASSUME NEW q \in Req, Creates(q)', resp'[q] = 200, resp[q] # 200
      PROVE  /\ q = r /\ param[r] \in users' /\ param'[q] = param[q]
             /\ \A row \in users : row.username # param[r].username
  <2>1. resp[q] = 0
    BY <1>2 DEF Settled
  <2>2. q = r /\ pc[r] = "insert" /\ UNCHANGED Kept
    <3>1. CASE Arrives(r)
      BY <1>2, <2>1, <3>1 DEF Arrives, Arrival, Inv, TypeOK
    <3>2. CASE InsertUser(r)
      BY <1>2, <3>2, StatementFrame DEF InsertUser
    <3>3. CASE UpdateRow(r) \/ GetUser(r) \/ CheckPassword(r) \/ Fails(r)
      <4>1. (q = r /\ ~Creates(r)) \/ Fails(r)
        BY <1>2, <2>1, <3>3, StatementFrame
        DEF UpdateRow, GetUser, CheckPassword, Inv, AtStep, SignsIn, Creates, Kept
      <4> QED
        BY <1>2, <2>1, <3>3, <4>1, StatementFrame DEF Fails, Creates, Kept, Inv, TypeOK
    <3> QED
      BY <3>1, <3>2, <3>3 DEF Steps
  <2> QED
    BY <1>2, <2>2, TableCases DEF Kept
<1>3. ASSUME NEW q \in Req, Creates(q)', resp'[q] = 200, resp[q] = 200
      PROVE  /\ Creates(q) /\ param'[q] = param[q]
             /\ \E row \in users : row.username = param[q].username
  <2>1. Creates(q) /\ param'[q] = param[q]
    BY <1>3 DEF Settled, Creates
  <2> QED
    BY <1>3, <2>1 DEF Inv, OneRegistration
<1>4. ASSUME NEW q \in Req, Creates(q)', resp'[q] = 200
      PROVE  \E row \in users' : row.username = param'[q].username
  BY <1>1, <1>2, <1>3, <1>4
<1>5. ASSUME NEW p \in Req, NEW q \in Req \ {p}, Creates(p)', resp'[p] = 200,
             Creates(q)', resp'[q] = 200
      PROVE  param'[q].username # param'[p].username
  <2>1. CASE resp[p] = 200 /\ resp[q] = 200
    BY <1>3, <1>5, <2>1 DEF Inv, OneRegistration
  <2>2. CASE resp[p] # 200 \/ resp[q] # 200
    BY <1>2, <1>3, <1>5, <2>2
  <2> QED
    BY <2>1, <2>2
<1> QED
  BY <1>4, <1>5 DEF OneRegistration

-----------------------------------------------------------------------------
(* The invariant holds: whatever requests come and in whatever order their
   statements are executed, also those whose sender has been told 500. *)
THEOREM Invariance == Spec => []Inv
<1>1. Init => Inv
  <2> SUFFICES ASSUME Init PROVE Inv
    OBVIOUS
  <2>1. TypeOK
    BY UsersAssumption DEF Init, TypeOK, Row, Params, Optional
  <2>2. AtStep /\ Over /\ SeenFresh /\ SaltUsed
    BY DEF Init, AtStep, Over, SeenFresh, SaltUsed, NullRow, SignsIn, Creates
  <2>3. NoLostUpdate /\ SignInIsCurrent /\ PasswordStamp /\ OneRegistration
    BY DEF Init, NoLostUpdate, SignInIsCurrent, PasswordStamp, OneRegistration, SignsIn, Creates
  <2> QED
    BY <2>1, <2>2, <2>3 DEF Inv
<1>2. Inv /\ [Next]_vars => Inv'
  <2>1. ASSUME Inv, Next PROVE Inv'
    <3>1. PICK r \in Req : Steps(r)
      BY <2>1, StepCases DEF Steps
    <3>2. TypeOK' /\ AtStep' /\ Over' /\ \A q \in Req : Settled(q)
      BY <2>1, <3>1, TypePreserved, AtStepPreserved, SettledStays
    <3>3. NoLostUpdate'
      BY <2>1, <3>1, <3>2, LostUpdatePreserved
    <3>4. SeenFresh'
      BY <2>1, <3>1, <3>2, SeenPreserved
    <3>5. SignInIsCurrent'
      BY <2>1, <3>1, <3>2, <3>4, SignInPreserved
    <3>6. PasswordStamp' /\ SaltUsed' /\ OneRegistration'
      BY <2>1, <3>1, <3>2, StampPreserved, RegistrationPreserved
    <3> QED
      BY <3>2, <3>3, <3>4, <3>5, <3>6 DEF Inv
  <2>2. ASSUME Inv, UNCHANGED vars PROVE Inv'
    BY <2>2 DEF vars, Inv, TypeOK, AtStep, Over, SeenFresh, SaltUsed, NoLostUpdate,
       SignInIsCurrent, PasswordStamp, OneRegistration, Fresh, Sets, Creates, SignsIn
  <2> QED
    BY <2>1, <2>2
<1> QED
  BY <1>1, <1>2, PTL DEF Spec

(* username stays the primary key and email unique, whatever races. *)
THEOREM TypeCorrect == Spec => []TypeOK
BY Invariance, PTL DEF Inv

(* A confirmed change is undone only by a request that was still under way when
   it came, be it one whose client was already told 500: never by a change of
   other columns or by a request that was over (gapi/rpc_update_user.go:61). *)
THEOREM OnlyPendingUpdatesUndo == Spec => []NoLostUpdate
BY Invariance, PTL DEF Inv

(* A sign-in is checked against the password of the moment, or of an UPDATE that
   was under way when a change before it came (api/user.go:99). *)
THEOREM SignInsAreCurrent == Spec => []SignInIsCurrent
BY Invariance, PTL DEF Inv

(* A hash never carries the time of another change (gapi/rpc_update_user.go:55). *)
THEOREM StampsMatch == Spec => []PasswordStamp
BY Invariance, PTL DEF Inv

(* The unique index lets one registration through (api/user.go:61). *)
THEOREM RegisteredOnce == Spec => []OneRegistration
BY Invariance, PTL DEF Inv
-----------------------------------------------------------------------------
(* What happens to a row over time.                                        *)

(* A row stays as it is, or a request that its own user has sent, and that no
   other answer has settled, replaces it by the row with the columns it names. *)
RowKept(row) ==
  \/ row \in users'
  \/ \E r \in Req :
       /\ pc[r] = "update" /\ bearer[r] = row.username /\ resp[r] \in {0, 500}
       /\ resp'[r] \in {200, 500}
       /\ users' = (users \ {row}) \cup {Updated(row, param[r])}
       /\ Updated(row, param[r]).username = row.username

(* Nobody but its user changes a row of users, and no row is ever deleted: the
   check of the bearer comes before the statement and nothing in between can
   make it stale (gapi/rpc_update_user.go:UpdateUser). *)
THEOREM OnlyOwnerChanges == Spec => [][\A row \in users : RowKept(row)]_vars
<1>1. Inv /\ [Next]_vars => [\A row \in users : RowKept(row)]_vars
  <2> SUFFICES ASSUME Inv, Next, NEW row \in users PROVE RowKept(row)
    OBVIOUS
  <2>1. PICK r \in Req : Steps(r)
    BY StepCases DEF Steps
  <2>2. CASE row \in users'
    BY <2>2 DEF RowKept
  <2>3. CASE row \notin users'
    <3>1. PICK old \in users : /\ pc[r] = "update" /\ old.username = param[r].username
                               /\ users' = (users \ {old}) \cup {Updated(old, param[r])}
      BY <2>1, <2>3, TableCases
    <3>2. old = row
      BY <2>3, <3>1
    <3>3. bearer[r] = row.username /\ resp[r] \in {0, 500}
      BY <3>1, <3>2 DEF Inv, AtStep
    <3>4. Updated(row, param[r]).username = row.username
      BY UpdatedRow DEF Inv, TypeOK
    <3>5. UpdateRow(r)
      BY <2>1, <2>3, <3>1 DEF Steps, Arrives, Arrival, InsertUser, GetUser, CheckPassword, Fails
    <3>6. resp'[r] \in {200, 500}
      <4>1. Answer(r, 200) \/ Answer(r, 500)
        BY <3>1, <3>5 DEF UpdateRow
      <4> QED
        BY <3>3, <4>1 DEF Answer, Inv, TypeOK
    <3> QED
      BY <3>1, <3>2, <3>3, <3>4, <3>6 DEF RowKept
  <2> QED
    BY <2>2, <2>3
<1> QED
  BY <1>1, Invariance, PTL DEF Spec

(* The hash that request h made has been replaced, or was never stored. *)
Replaced(h) == pc[h] = "done" /\ \A row \in users : row.hashedPassword.salt # h

Read(q, h) == \E row \in seen[q] : row.hashedPassword.salt = h

LEMMA ReplacedStays ==
  ASSUME Inv, NEW r \in Req, Steps(r), NEW h \in Req, Replaced(h)
  PROVE  Replaced(h)'
<1>1. pc'[h] = "done"
  <2>1. CASE Arrives(r)
    BY <2>1 DEF Arrives, Arrival, Replaced, Inv, TypeOK
  <2>2. CASE ~Arrives(r)
    BY <2>2, StatementFrame DEF Steps, Replaced
  <2> QED
    BY <2>1, <2>2
<1>2. CASE UNCHANGED users
  BY <1>1, <1>2 DEF Replaced
<1>3. CASE pc[r] = "insert" /\ users' = users \cup {param[r]}
  <2>1. param[r].hashedPassword.salt = r /\ r # h
    BY <1>3 DEF Inv, AtStep, Replaced
  <2> QED
    BY <1>1, <1>3, <2>1 DEF Replaced
<1>4. CASE /\ pc[r] = "update"
           /\ \E old \in users : users' = (users \ {old}) \cup {Updated(old, param[r])}
  <2>1. PICK old \in users : users' = (users \ {old}) \cup {Updated(old, param[r])}
    BY <1>4
  <2>2. r # h /\ (param[r].hashedPassword # Null => param[r].hashedPassword.salt = r)
    BY <1>4 DEF Inv, AtStep, Replaced
  <2>3. Updated(old, param[r]).hashedPassword =
          IF param[r].hashedPassword = Null THEN old.hashedPassword ELSE param[r].hashedPassword
    BY DEF Updated, Row, COALESCE
  <2>4. Updated(old, param[r]).hashedPassword.salt # h
    BY <2>2, <2>3 DEF Replaced
  <2> QED
    BY <1>1, <2>1, <2>4 DEF Replaced
<1> QED
  BY <1>2, <1>3, <1>4, TableCases

OldPasswordGone(q, h) == [](Replaced(h) /\ pc[q] = "idle" => [](Replaced(h) /\ ~Read(q, h)))

(* Once a password is replaced, no sign-in that comes in afterwards is ever
   checked against it, whatever updates race: the hash never comes back
   (gapi/rpc_update_user.go:UpdateUser, api/user.go:loginUser). *)
THEOREM ReplacedPasswordsOpenNothing == Spec => \A q, h \in Req : OldPasswordGone(q, h)
<1>1. ASSUME NEW q \in Req, NEW h \in Req PROVE Spec => OldPasswordGone(q, h)
  <2>1. Inv /\ Replaced(h) /\ pc[q] = "idle" => Replaced(h) /\ ~Read(q, h)
    BY DEF Inv, AtStep, SeenFresh, SignsIn, Read
  <2>2. Inv /\ Replaced(h) /\ ~Read(q, h) /\ [Next]_vars => (Replaced(h) /\ ~Read(q, h))'
    <3> SUFFICES ASSUME Inv, Replaced(h), ~Read(q, h), [Next]_vars
                 PROVE  Replaced(h)' /\ ~Read(q, h)'
      OBVIOUS
    <3>1. CASE UNCHANGED vars
      BY <3>1 DEF vars, Replaced, Read
    <3>2. CASE Next
      <4>1. PICK r \in Req : Steps(r)
        BY <3>2, StepCases DEF Steps
      <4>2. seen'[q] = seen[q] \/ seen'[q] \subseteq users
        <5>1. CASE GetUser(r)
          BY <5>1 DEF GetUser, Inv, TypeOK
        <5>2. CASE ~GetUser(r)
          BY <4>1, <5>2 DEF Steps, Arrives, Arrival, InsertUser, UpdateRow, CheckPassword, Fails
        <5> QED
          BY <5>1, <5>2
      <4>3. ~Read(q, h)'
        BY <4>2 DEF Read, Replaced
      <4> QED
        BY <4>1, <4>3, ReplacedStays
    <3> QED
      BY <3>1, <3>2
  <2> QED
    BY <2>1, <2>2, Invariance, PTL DEF Spec, OldPasswordGone
<1> QED
  BY <1>1
=============================================================================
