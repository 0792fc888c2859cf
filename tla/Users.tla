------------------------------- MODULE Users -------------------------------
(***************************************************************************)
(* The table users: registering (createUser of api/user.go, CreateUser of  *)
(* gapi/rpc_create_user.go), changing a profile or a password (UpdateUser, *)
(* gapi/rpc_update_user.go), and the password check of a sign-in, whose    *)
(* tokens and session are in module Sessions.                              *)
(*                                                                         *)
(* Each request is a goroutine that computes on its own and then runs one  *)
(* statement.  Codes of gRPC are written as the gateway's HTTP statuses.   *)
(***************************************************************************)
EXTENDS Integers

CONSTANTS
  Username, FullName, Email,  \* the texts of these columns
  Key,                        \* the first 72 bytes of a password: bcrypt reads no more
  BindingAccepts,             \* per field, the texts that the tags of the HTTP API accept
  ValidatorAccepts,           \* per field, the texts that package val accepts
  CreateArgs, UpdateArgs,     \* the requests of a run
  LoginArgs,
  Req,
  Null,                       \* an absent field, an SQL NULL, no user
  Never                       \* the default of password_changed_at

VARIABLES
  users,     \* the table users
  op, pc,    \* which handler serves a request, and what it does next
  bearer,    \* the user whom the access token names
  param,     \* the parameters of its statement
  key,       \* the password of a sign-in
  seen,      \* the rows that a sign-in has read
  resp,      \* its answer, 0 before there is one
  before     \* history: the requests that were over, no statement of theirs pending,
             \* when this one came

vars == <<users, op, pc, bearer, param, key, seen, resp, before>>

Password == [key: Key, length: Nat]
Text == {"username", "fullName", "email"}
Optional(S) == S \cup {Null}

ASSUME UsersAssumption ==
  /\ Null \notin Username \cup FullName \cup Email \cup Key \cup Req \cup {Never}
  /\ Null \notin Password /\ Null \notin [key: Key, salt: Req]
  /\ Never \notin Req
  /\ CreateArgs \subseteq
       [username: Username, password: Password, fullName: FullName, email: Email]
  /\ UpdateArgs \subseteq
       [username: Username, password: Optional(Password),
        fullName: Optional(FullName), email: Optional(Email)]
  /\ LoginArgs \subseteq [username: Username, password: Password]

-----------------------------------------------------------------------------
(* Checks of the input.                                                    *)

ValidateString(value, min, max) == value.length \in min..max
ValidatePassword(password) == ValidateString(password, 6, 100)

(* The tag min=6 of createUserRequest and loginUserRequest. *)
BindsPassword(password) == password.length >= 6

createUserRequest(a) ==
  BindsPassword(a.password) /\ \A f \in Text : a[f] \in BindingAccepts[f]

validateCreateUserRequest(a) ==
  ValidatePassword(a.password) /\ \A f \in Text : a[f] \in ValidatorAccepts[f]

validateUpdateUserRequest(a) ==
  /\ a.password # Null => ValidatePassword(a.password)
  /\ \A f \in Text : a[f] # Null => a[f] \in ValidatorAccepts[f]

(* bcrypt salts every hash, here with the request that makes it, and refuses
   a longer password than it reads. *)
Hashes(password) == password = Null \/ password.length <= 72
HashPassword(r, password) ==
  IF password = Null THEN Null ELSE [key |-> password.key, salt |-> r]

(* A row, and the parameters of CreateUser and UpdateUser. *)
Row(username, hash, fullName, email, changedAt) ==
  [username |-> username, hashedPassword |-> hash, fullName |-> fullName,
   email |-> email, passwordChangedAt |-> changedAt]

ParamsOf(r, a, changedAt) ==
  Row(a.username, HashPassword(r, a.password), a.fullName, a.email, changedAt)

-----------------------------------------------------------------------------
Init ==
  /\ users = {}
  /\ op = [r \in Req |-> "none"]
  /\ pc = [r \in Req |-> "idle"]
  /\ bearer = [r \in Req |-> Null]
  /\ param = [r \in Req |-> Row(Null, Null, Null, Null, Null)]
  /\ key = [r \in Req |-> Null]
  /\ seen = [r \in Req |-> {}]
  /\ resp = [r \in Req |-> 0]
  /\ before = [r \in Req |-> {}]

(* Request r comes in, for handler o.  It is answered at once with a status,
   or goes on to statement s with parameters p. *)
Receive(r, o, b) ==
  /\ pc[r] = "idle"
  /\ op' = [op EXCEPT ![r] = o]
  /\ bearer' = [bearer EXCEPT ![r] = b]
  /\ before' = [before EXCEPT ![r] = {q \in Req : pc[q] = "done"}]
  /\ UNCHANGED <<users, seen>>

Proceed(r, s, p, k) ==
  /\ pc' = [pc EXCEPT ![r] = s]
  /\ param' = [param EXCEPT ![r] = p]
  /\ key' = [key EXCEPT ![r] = k]
  /\ UNCHANGED resp

Refuse(r, status) ==
  /\ pc' = [pc EXCEPT ![r] = "done"]
  /\ resp' = [resp EXCEPT ![r] = status]
  /\ UNCHANGED <<param, key>>

(* The two handlers differ in what they accept. *)
Register(r, o, a, accepted) ==
  /\ Receive(r, o, Null)
  /\ \/ ~accepted /\ Refuse(r, 400)
     \/ accepted /\ ~Hashes(a.password) /\ Refuse(r, 500)
     \/ accepted /\ Hashes(a.password) /\ Proceed(r, "insert", ParamsOf(r, a, Never), Null)

createUser(r, a) == Register(r, "createUser", a, createUserRequest(a))
CreateUser(r, a) == Register(r, "CreateUser", a, validateCreateUserRequest(a))

(* The user of a valid access token has signed in, and rows are never
   deleted; Null stands for a token that is missing or not valid. *)
authorizeUser == {row.username : row \in users} \cup {Null}

(* Mutant: time.Now() is passed whether or not the password changes. *)
AlwaysStamped(r, a) == ParamsOf(r, a, r)

(* The time of a password change is represented by the request: it is taken
   here, before the UPDATE. *)
UpdateUserParams(r, a) == ParamsOf(r, a, IF a.password = Null THEN Null ELSE r)

UpdateUser(r, b, a) ==
  /\ Receive(r, "UpdateUser", b)
  /\ IF b = Null THEN Refuse(r, 401)
     ELSE IF ~validateUpdateUserRequest(a) THEN Refuse(r, 400)
     ELSE IF b # a.username THEN Refuse(r, 403)
     ELSE IF ~Hashes(a.password) THEN Refuse(r, 500)
     ELSE Proceed(r, "update", UpdateUserParams(r, a), Null)

SignIn(r, o, a, accepted) ==
  /\ Receive(r, o, Null)
  /\ \/ ~accepted /\ Refuse(r, 400)
     \/ accepted /\ Proceed(r, "getUser", Row(a.username, Null, Null, Null, Null), a.password.key)

loginUser(r, a) ==
  SignIn(r, "loginUser", a, a.username \in BindingAccepts.username /\ BindsPassword(a.password))
LoginUser(r, a) ==
  SignIn(r, "LoginUser", a, a.username \in ValidatorAccepts.username /\ ValidatePassword(a.password))

-----------------------------------------------------------------------------
(* The statements.  A request that has been answered stays answered.       *)

Kept == <<op, bearer, param, key, before>>

Answer(r, status) ==
  /\ pc' = [pc EXCEPT ![r] = "done"]
  /\ resp' = [resp EXCEPT ![r] = IF @ = 0 THEN status ELSE @]

(* Mutant: INSERT ... ON CONFLICT DO UPDATE. *)
UpsertUser(r) ==
  /\ pc[r] = "insert"
  /\ users' = {row \in users : row.username # param[r].username} \cup {param[r]}
  /\ Answer(r, 200)
  /\ UNCHANGED <<Kept, seen>>

(* The primary key, and UNIQUE on email. *)
InsertUser(r) ==
  /\ pc[r] = "insert"
  /\ IF \E row \in users : row.username = param[r].username \/ row.email = param[r].email
     THEN Answer(r, IF op[r] = "createUser" THEN 403 ELSE 409) /\ UNCHANGED users
     ELSE Answer(r, 200) /\ users' = users \cup {param[r]}
  /\ UNCHANGED <<Kept, seen>>

(* Mutants: COALESCE with its arguments swapped, and without COALESCE. *)
CoalesceSwapped(new, old) == IF old = Null THEN new ELSE old
AlwaysNew(new, old) == new

COALESCE(new, old) == IF new = Null THEN old ELSE new

Updated(row, p) ==
  Row(row.username, COALESCE(p.hashedPassword, row.hashedPassword),
      COALESCE(p.fullName, row.fullName), COALESCE(p.email, row.email),
      COALESCE(p.passwordChangedAt, row.passwordChangedAt))

(* Mutant: the unique email is not checked. *)
AnyEmail(row, p) == FALSE

EmailTaken(row, p) ==
  p.email # Null /\ \E other \in users : other # row /\ other.email = p.email

UpdateRow(r) ==
  /\ pc[r] = "update"
  /\ LET rows == {row \in users : row.username = param[r].username}
     IN  IF rows = {} THEN Answer(r, 404) /\ UNCHANGED users
         ELSE \E row \in rows :
                IF EmailTaken(row, param[r]) THEN Answer(r, 500) /\ UNCHANGED users
                ELSE /\ Answer(r, 200)
                     /\ users' = (users \ {row}) \cup {Updated(row, param[r])}
  /\ UNCHANGED <<Kept, seen>>

GetUser(r) ==
  /\ pc[r] = "getUser"
  /\ seen' = [seen EXCEPT ![r] = {row \in users : row.username = param[r].username}]
  /\ IF seen'[r] = {} THEN Answer(r, 404)
     ELSE pc' = [pc EXCEPT ![r] = "checkPassword"] /\ UNCHANGED resp
  /\ UNCHANGED <<Kept, users>>

CheckPassword(r) ==
  /\ pc[r] = "checkPassword"
  /\ \E row \in seen[r] :
       \/ row.hashedPassword.key = key[r] /\ Answer(r, 200)
       \/ /\ row.hashedPassword.key # key[r]
          /\ Answer(r, IF op[r] = "loginUser" THEN 401 ELSE 403)
  /\ UNCHANGED <<Kept, users, seen>>

(* The statement fails, or its answer is lost: then Postgres has yet to
   execute it, after the client has been told 500. *)
Fails(r) ==
  /\ resp[r] = 0
  /\ resp' = [resp EXCEPT ![r] = 500]
  /\ \/ pc[r] \in {"insert", "update"} /\ UNCHANGED pc
     \/ pc[r] \in {"insert", "update", "getUser"} /\ pc' = [pc EXCEPT ![r] = "done"]
  /\ UNCHANGED <<Kept, users, seen>>

Next ==
  \E r \in Req :
    \/ \E a \in CreateArgs : createUser(r, a) \/ CreateUser(r, a)
    \/ \E a \in UpdateArgs, b \in authorizeUser : UpdateUser(r, b, a)
    \/ \E a \in LoginArgs : loginUser(r, a) \/ LoginUser(r, a)
    \/ InsertUser(r) \/ UpdateRow(r) \/ GetUser(r) \/ CheckPassword(r) \/ Fails(r)

Spec == Init /\ [][Next]_vars

-----------------------------------------------------------------------------
(* Properties.                                                             *)

Hash == [key: Key, salt: Req]
Rows == [username: Username, hashedPassword: Hash, fullName: FullName, email: Email,
         passwordChangedAt: Req \cup {Never}]
Params == [username: Optional(Username), hashedPassword: Optional(Hash),
           fullName: Optional(FullName), email: Optional(Email),
           passwordChangedAt: Optional(Req \cup {Never})]

(* Every variable has its type, username is the primary key of users and no
   two rows have the same email. *)
TypeOK ==
  /\ users \subseteq Rows
  /\ \A x, y \in users : x.username = y.username \/ x.email = y.email => x = y
  /\ op \in [Req -> {"none", "createUser", "CreateUser", "UpdateUser", "loginUser", "LoginUser"}]
  /\ pc \in [Req -> {"idle", "insert", "update", "getUser", "checkPassword", "done"}]
  /\ bearer \in [Req -> Optional(Username)]
  /\ param \in [Req -> Params]
  /\ key \in [Req -> Optional(Key)]
  /\ seen \in [Req -> SUBSET Rows]
  /\ resp \in [Req -> {0, 200, 400, 401, 403, 404, 409, 500}]
  /\ before \in [Req -> SUBSET Req]

Creates(r) == op[r] \in {"createUser", "CreateUser"}
SignsIn(r) == op[r] \in {"loginUser", "LoginUser"}

(* Request q may have set column c of user u, and had the right to. *)
Sets(q, u, c) ==
  /\ resp[q] \in {200, 500}
  /\ param[q].username = u /\ param[q][c] # Null
  /\ op[q] = "UpdateUser" => bearer[q] = u

(* The value was set by a request that was not over yet, its statement not
   executed, when any of the confirmed changes among past came. *)
Fresh(u, c, value, past) ==
  \E q \in Req :
    /\ Sets(q, u, c) /\ param[q][c] = value
    /\ \A w \in past : resp[w] = 200 /\ Sets(w, u, c) => q \notin before[w]

(* What a column shows was asked for by the user, and a change answered with
   success is undone only by a request that was still under way when it came.
   Changes of other columns and refused ones never undo it, nor does one that
   ended in a 500.  But an UPDATE whose client was told 500 may still be under
   way: if Postgres executes it late, it does overwrite the confirmed change. *)
NoLostUpdate ==
  \A row \in users, c \in {"hashedPassword", "fullName", "email"} :
    Fresh(row.username, c, row[c], Req)

(* A sign-in answers by the password of the moment: once a change is confirmed
   the old password opens nothing and the new one is not refused, and a user
   who was told of the registration is found.  It may answer by the password of
   an UPDATE that was under way, also after its 500, when the change came. *)
SignInIsCurrent ==
  \A r \in Req : SignsIn(r) =>
    /\ resp[r] = 200 => \E h \in Hash :
         h.key = key[r] /\ Fresh(param[r].username, "hashedPassword", h, before[r])
    /\ resp[r] \in {401, 403} => \E h \in Hash :
         h.key # key[r] /\ Fresh(param[r].username, "hashedPassword", h, before[r])
    /\ resp[r] = 404 => \A q \in before[r] :
         ~(Creates(q) /\ resp[q] = 200 /\ param[q].username = param[r].username)

(* hashed_password and password_changed_at come from the same request, also
   when two changes of the password race.  Which of two stamps is the earlier
   is not said: of two changes the one that is executed last decides both. *)
PasswordStamp ==
  \A row \in users :
    row.passwordChangedAt =
      IF op[row.hashedPassword.salt] = "UpdateUser" THEN row.hashedPassword.salt ELSE Never

(* A username is given out once, and for good: of all the requests that ask
   for it only one is told that it has it, and its row is there. *)
OneRegistration ==
  \A r \in Req : Creates(r) /\ resp[r] = 200 =>
    /\ \E row \in users : row.username = param[r].username
    /\ \A q \in Req \ {r} :
         Creates(q) /\ resp[q] = 200 => param[q].username # param[r].username
=============================================================================
