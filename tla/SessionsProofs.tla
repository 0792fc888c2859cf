--------------------------- MODULE SessionsProofs ---------------------------
(***************************************************************************)
(* Proofs about Sessions, for any users, requests, durations and clock:    *)
(* its invariants, and that it implements SessionLifecycle.                *)
(***************************************************************************)
EXTENDS Sessions, TLAPS

(***************************************************************************)
(* The inductive invariant.  A row that a request has read, or that was    *)
(* there when the request came, may be stale when it is used; what remains *)
(* true of it is who made it, and that the table still has it, blocked if  *)
(* it was blocked then.                                                    *)
(***************************************************************************)
MadeByLogin(e) ==
  /\ e \in Rows
  /\ e.id[2] = "refresh"
  /\ op[e.id[1]] = "login" /\ pc[e.id[1]] = "done"
  /\ e.refreshToken = refresh[e.id[1]]
  /\ e.refreshToken.id = e.id
  /\ e.refreshToken.username = e.username
  /\ e.refreshToken.expires = e.expires

StillThere(e) == \E s \in sessions : s.id = e.id /\ (e.blocked => s.blocked)

Snapshots(r) ==
  /\ \A e \in earlier[r] : MadeByLogin(e) /\ StillThere(e)
  /\ \A e \in seen[r] : MadeByLogin(e) /\ StillThere(e)
  /\ \A e \in earlier[r], s \in seen[r] : e.id = s.id /\ e.blocked => s.blocked

(* A refresh token that a client has was stored with its session first. *)
Stored(token, rows) == token.id[2] = "refresh" => \E s \in rows : s.refreshToken = token

IsBlocked(id) == \E s \in sessions : s.id = id /\ s.blocked

(* What a request knows at each point of its handler. *)
Stage(r) ==
  /\ pc[r] = "idle" => op[r] = "none" /\ seen[r] = {}
  /\ pc[r] # "done" => resp[r].status = 0 /\ resp[r].revoked = {}
  /\ pc[r] = "createRefreshToken" =>
       op[r] = "login" /\ user[r] \in User /\ access[r] \in Tokens /\ access[r].id = <<r, "access">>
  /\ pc[r] = "createSession" =>
       /\ op[r] = "login"
       /\ refresh[r] \in Tokens /\ refresh[r].id = <<r, "refresh">>
       /\ refresh[r].expires <= MaxTime + RefreshTokenDuration
       /\ access[r] \in Tokens /\ access[r].id = <<r, "access">>
  /\ pc[r] = "getSession" => op[r] \in {"renew", "logout"}
  /\ pc[r] \in {"checkRenewal", "createToken"} => op[r] = "renew"
  /\ pc[r] \in {"verifyToken", "checkSession", "blockSession"} => op[r] = "logout"
  /\ pc[r] \in {"getSession", "checkRenewal", "createToken", "checkSession", "blockSession"} =>
       refresh[r] # NoToken
  /\ pc[r] \in {"checkRenewal", "createToken", "checkSession", "blockSession"} =>
       seen[r] # {} /\ \A s \in seen[r] : s.id = refresh[r].id
  /\ pc[r] = "createToken" =>
       \A s \in seen[r] : ~s.blocked /\ s.refreshToken = refresh[r] /\ checked[r] <= s.expires
  /\ pc[r] = "blockSession" => \A s \in seen[r] : s.username = user[r]
  /\ pc[r] \in {"readOpenSessions", "blockUserSessions"} => op[r] = "logoutAll"
  /\ pc[r] = "blockUserSessions" =>
       \A e \in earlier[r] : e.username = user[r] => e.id \in Ids(seen[r]) \/ IsBlocked(e.id)
  /\ op[r] \in {"renew", "logout"} /\ refresh[r] # NoToken =>
       refresh[r] \in Tokens /\ Stored(refresh[r], earlier[r])

(* What a request that was answered with success can rely on. *)
Outcome(r) ==
  /\ Ok(r, "login") => \E s \in sessions : s.refreshToken = refresh[r]
  /\ Ok(r, "renew") =>
       /\ \E e \in earlier[r] :
            e.refreshToken = refresh[r] /\ ~e.blocked /\ e.username = access[r].username
       /\ \E s \in sessions :
            /\ s.refreshToken = refresh[r]
            /\ access[r].expires <= s.expires + AccessTokenDuration + (resp[r].time - checked[r])
  /\ Ok(r, "logout") => IsBlocked(refresh[r].id)
  /\ Ok(r, "logoutAll") => \A e \in earlier[r] : e.username = user[r] => IsBlocked(e.id)

Local(r) == Stage(r) /\ Snapshots(r) /\ Outcome(r)

RowsMade == \A s \in sessions : MadeByLogin(s)
TokensStored == \A token \in issued : Stored(token, sessions)

IndInv ==
  /\ TypeOK
  /\ RowsMade
  /\ TokensStored
  /\ \A r \in Req : Local(r)
  /\ OnlyOwnSessions
  /\ CountedOnce
-----------------------------------------------------------------------------
(* Frame: a step of r leaves the other requests alone and keeps every row. *)

SameRow(s, t) ==
  /\ t.id = s.id /\ t.username = s.username
  /\ t.refreshToken = s.refreshToken /\ t.expires = s.expires
  /\ s.blocked => t.blocked

Frame(r) ==
  /\ pc[r] # "done"
  /\ \A q \in Req \ {r} :
       /\ op'[q] = op[q] /\ pc'[q] = pc[q] /\ user'[q] = user[q]
       /\ refresh'[q] = refresh[q] /\ access'[q] = access[q] /\ seen'[q] = seen[q]
       /\ resp'[q] = resp[q] /\ earlier'[q] = earlier[q] /\ checked'[q] = checked[q]
  /\ \A s \in sessions : \E t \in sessions' : SameRow(s, t)

LEMMA RowKept ==
  ASSUME NEW r \in Req, Frame(r), NEW e, MadeByLogin(e)
  PROVE  MadeByLogin(e)'
<1>1. e.id[1] \in Req
  BY DEF MadeByLogin, Rows
<1>2. e.id[1] # r
  BY DEF MadeByLogin, Frame
<1> QED
  BY <1>1, <1>2 DEF MadeByLogin, Frame

LEMMA StillThereKept ==
  ASSUME NEW r \in Req, Frame(r), NEW e, StillThere(e)
  PROVE  StillThere(e)'
<1>1. PICK s \in sessions : s.id = e.id /\ (e.blocked => s.blocked)
  BY DEF StillThere
<1>2. PICK t \in sessions' : SameRow(s, t)
  BY DEF Frame
<1> QED
  BY <1>1, <1>2 DEF StillThere, SameRow

LEMMA BlockedKept ==
  ASSUME NEW r \in Req, Frame(r), NEW id, IsBlocked(id)
  PROVE  IsBlocked(id)'
<1>1. PICK s \in sessions : s.id = id /\ s.blocked
  BY DEF IsBlocked
<1>2. PICK t \in sessions' : SameRow(s, t)
  BY DEF Frame
<1> QED
  BY <1>1, <1>2 DEF IsBlocked, SameRow

LEMMA OthersKept ==
  ASSUME IndInv, NEW r \in Req, Frame(r), NEW q \in Req \ {r}
  PROVE  Local(q)'
<1> USE DEF IndInv
<1>0. Local(q)
  OBVIOUS
<1>e. /\ op'[q] = op[q] /\ pc'[q] = pc[q] /\ user'[q] = user[q]
      /\ refresh'[q] = refresh[q] /\ access'[q] = access[q] /\ seen'[q] = seen[q]
      /\ resp'[q] = resp[q] /\ earlier'[q] = earlier[q] /\ checked'[q] = checked[q]
  BY DEF Frame
<1>1. Snapshots(q)'
  <2>1. \A e : MadeByLogin(e) => MadeByLogin(e)'
    BY RowKept
  <2>2. \A e : StillThere(e) => StillThere(e)'
    BY StillThereKept
  <2> QED
    BY <1>0, <1>e, <2>1, <2>2 DEF Local, Snapshots
<1>2. Stage(q)'
  <2>1. \A id : IsBlocked(id) => IsBlocked(id)'
    BY BlockedKept
  <2> QED
    BY <1>0, <1>e, <2>1 DEF Local, Stage, Stored, Ids
<1>3. Outcome(q)'
  <2>1. \A id : IsBlocked(id) => IsBlocked(id)'
    BY BlockedKept
  <2>2. \A s \in sessions : \E t \in sessions' :
          t.refreshToken = s.refreshToken /\ t.expires = s.expires
    BY DEF Frame, SameRow
  <2>3. \A o : Ok(q, o)' => Ok(q, o)
    BY <1>e DEF Ok
  <2>4. Ok(q, "login")' => \E s \in sessions' : s.refreshToken = refresh'[q]
    BY <1>0, <1>e, <2>2, <2>3 DEF Local, Outcome
  <2>5. Ok(q, "renew")' =>
         \E e \in earlier'[q] : e.refreshToken = refresh'[q] /\ ~e.blocked /\ e.username = access'[q].username
    BY <1>0, <1>e, <2>3 DEF Local, Outcome
  <2>6. Ok(q, "renew")' =>
         \E s \in sessions' :
           /\ s.refreshToken = refresh'[q]
           /\ access'[q].expires <= s.expires + AccessTokenDuration + (resp'[q].time - checked'[q])
    <3> SUFFICES ASSUME Ok(q, "renew")'
                 PROVE  \E s \in sessions' :
                          /\ s.refreshToken = refresh'[q]
                          /\ access'[q].expires
                               <= s.expires + AccessTokenDuration + (resp'[q].time - checked'[q])
      OBVIOUS
    <3>1. PICK s \in sessions :
            /\ s.refreshToken = refresh[q]
            /\ access[q].expires <= s.expires + AccessTokenDuration + (resp[q].time - checked[q])
      BY <1>0, <2>3 DEF Local, Outcome
    <3>2. PICK t \in sessions' : t.refreshToken = s.refreshToken /\ t.expires = s.expires
      BY <2>2
    <3> QED
      BY <1>e, <3>1, <3>2
  <2>7. Ok(q, "logout")' => IsBlocked(refresh[q].id)'
    <3>1. Ok(q, "logout") => IsBlocked(refresh[q].id)
      BY <1>0 DEF Local, Outcome
    <3>2. \A id : (\E s \in sessions : s.id = id /\ s.blocked)
                    => \E s \in sessions' : s.id = id /\ s.blocked
      BY <2>1 DEF IsBlocked
    <3> QED
      BY <1>e, <2>3, <3>1, <3>2 DEF IsBlocked
  <2>8. Ok(q, "logoutAll")' => \A e \in earlier'[q] : e.username = user'[q] => IsBlocked(e.id)'
    BY <1>0, <1>e, <2>1, <2>3 DEF Local, Outcome
  <2> QED
    BY <2>4, <2>5, <2>6, <2>7, <2>8 DEF Outcome
<1> QED
  BY <1>1, <1>2, <1>3 DEF Local

LEMMA StepKeeps ==
  ASSUME IndInv, NEW r \in Req, Frame(r), TypeOK', RowsMade', TokensStored', Local(r)',
         OnlyOwnSessions', CountedOnce'
  PROVE  IndInv'
BY OthersKept DEF IndInv

(* A step that only reads the tables. *)
LEMMA QuietStep ==
  ASSUME IndInv, NEW r \in Req, Frame(r), UNCHANGED <<sessions, issued>>,
         TypeOK', Local(r)', resp'[r].revoked = {}
  PROVE  IndInv'
<1> USE DEF IndInv
<1>1. RowsMade'
  BY RowKept DEF RowsMade
<1>2. TokensStored'
  BY DEF TokensStored, Stored
<1>3. OnlyOwnSessions'
  BY DEF OnlyOwnSessions, Frame
<1>4. CountedOnce'
  <2>1. \A q \in Req \ {r} : resp'[q] = resp[q]
    BY DEF Frame
  <2> QED
    BY <2>1 DEF CountedOnce, Ids
<1> QED
  BY <1>1, <1>2, <1>3, <1>4, StepKeeps
-----------------------------------------------------------------------------
(* Requests that come in.                                                  *)

Statuses == {0, 200, 400, 401, 403, 404, 500}
Ops == {"none", "login", "renew", "logout", "logoutAll"}
Points == {"idle", "createRefreshToken", "createSession", "verifyToken", "getSession",
           "checkRenewal", "createToken", "checkSession", "blockSession",
           "readOpenSessions", "blockUserSessions", "done"}
Answers == [status: Statuses, revoked: SUBSET (Req \X Purpose), time: 0..MaxTime]

(* Only the program counter, the answer and the tokens of r may differ. *)
OnlyAt(r) ==
  /\ pc' = [pc EXCEPT ![r] = pc'[r]]
  /\ resp' = [resp EXCEPT ![r] = resp'[r]]
  /\ access' = [access EXCEPT ![r] = access'[r]]

LEMMA ReceiveStep ==
  ASSUME IndInv, NEW r \in Req, NEW o \in Ops, NEW u \in User \cup {NoUser},
         NEW token \in Tokens \cup {NoToken}, Receive(r, o, u, token), UNCHANGED <<now, sessions, issued, seen>>, OnlyAt(r),
         pc'[r] \in Points, resp'[r] \in Answers, access'[r] \in Tokens \cup {NoToken},
         resp'[r].status # 200, resp'[r].revoked = {}, Stage(r)'
  PROVE  IndInv'
<1>1. Frame(r)
  BY DEF Frame, SameRow, Receive, OnlyAt, IndInv, TypeOK
<1>2. TypeOK'
  <2>1. op' \in [Req -> Ops] /\ user' \in [Req -> User \cup {NoUser}]
         /\ refresh' \in [Req -> Tokens \cup {NoToken}] /\ earlier' \in [Req -> SUBSET Rows]
         /\ checked' \in [Req -> 0..MaxTime]
    BY DEF Receive, IndInv, TypeOK, Ops
  <2>2. pc' \in [Req -> Points] /\ resp' \in [Req -> Answers]
         /\ access' \in [Req -> Tokens \cup {NoToken}]
    <3>1. pc \in [Req -> Points] /\ resp \in [Req -> Answers]
          /\ access \in [Req -> Tokens \cup {NoToken}]
      BY DEF IndInv, TypeOK, Points, Answers, Statuses
    <3> QED
      BY <3>1 DEF OnlyAt
  <2> QED
    BY <2>1, <2>2 DEF IndInv, TypeOK, Ops, Points, Answers, Statuses
<1>3. Snapshots(r)'
  <2>1. earlier'[r] = sessions /\ seen'[r] = {}
    BY DEF Receive, IndInv, TypeOK, Local, Stage
  <2>2. \A e \in sessions : MadeByLogin(e)'
    BY <1>1, RowKept DEF IndInv, RowsMade
  <2>3. \A e \in sessions : StillThere(e)'
    BY DEF StillThere
  <2> QED
    BY <2>1, <2>2, <2>3 DEF Snapshots
<1>4. Outcome(r)'
  BY DEF Outcome, Ok
<1> QED
  BY <1>1, <1>2, <1>3, <1>4, QuietStep DEF Local

LEMMA ATokenIsMade ==
  ASSUME TypeOK, NEW r \in Req, NEW u \in User, NEW purpose \in Purpose,
         NEW d \in {AccessTokenDuration, RefreshTokenDuration}
  PROVE  /\ NewPayload(r, purpose, u, d) \in Tokens
         /\ NewPayload(r, purpose, u, d).id = <<r, purpose>>
         /\ NewPayload(r, purpose, u, d).username = u
         /\ NewPayload(r, purpose, u, d).expires = now + d
         /\ now + d <= MaxTime + d
BY SessionsAssumption DEF NewPayload, Tokens, TypeOK

LEMMA AnAnswerIsGiven ==
  ASSUME TypeOK, NEW status \in Statuses, NEW revoked \in SUBSET (Req \X Purpose)
  PROVE  /\ Answer(status, revoked) \in Answers
         /\ Answer(status, revoked).status = status
         /\ Answer(status, revoked).revoked = revoked
         /\ Answer(status, revoked).time = now
BY DEF Answer, Answers, TypeOK

LEMMA SignInStep ==
  ASSUME IndInv, NEW r \in Req, NEW u \in User, SignIn(r, u)
  PROVE  IndInv'
<1> DEFINE bearer == NewPayload(r, "access", u, AccessTokenDuration)
<1>1. bearer \in Tokens /\ bearer.id = <<r, "access">>
  BY ATokenIsMade DEF IndInv, Purpose
<1> HIDE DEF bearer
<1>2. Receive(r, "login", u, NoToken) /\ access' = [access EXCEPT ![r] = bearer]
      /\ pc' = [pc EXCEPT ![r] = "createRefreshToken"]
      /\ UNCHANGED <<now, sessions, issued, seen, resp>>
  BY DEF SignIn, Goto, bearer
<1>3. op'[r] = "login" /\ pc'[r] = "createRefreshToken" /\ user'[r] = u /\ access'[r] = bearer
      /\ pc[r] = "idle" /\ resp'[r] = resp[r]
  BY <1>2 DEF Receive, IndInv, TypeOK
<1>4. OnlyAt(r)
  BY <1>2, <1>3 DEF OnlyAt, IndInv, TypeOK
<1>5. resp[r].status = 0 /\ resp[r].revoked = {} /\ resp[r] \in Answers
  BY <1>3 DEF IndInv, Local, Stage, TypeOK, Answers, Statuses
<1>6. Stage(r)'
  BY <1>1, <1>3, <1>5 DEF Stage
<1> QED
  BY <1>1, <1>2, <1>3, <1>4, <1>5, <1>6, ReceiveStep DEF Ops, Points

(* A request that is answered at once, with an error. *)
LEMMA RefusedStep ==
  ASSUME IndInv, NEW r \in Req, NEW o \in Ops, NEW u \in User \cup {NoUser},
         NEW token \in Tokens \cup {NoToken}, Receive(r, o, u, token), NEW status \in Statuses \ {200}, Respond(r, status, {}),
         UNCHANGED <<now, sessions, issued, access, seen>>,
         o \in {"renew", "logout"} /\ token # NoToken => token \in Tokens /\ Stored(token, sessions)
  PROVE  IndInv'
<1>1. Answer(status, {}) \in Answers /\ Answer(status, {}).status = status
      /\ Answer(status, {}).revoked = {}
  BY AnAnswerIsGiven DEF IndInv
<1>2. /\ op'[r] = o /\ pc'[r] = "done" /\ refresh'[r] = token /\ earlier'[r] = sessions
      /\ resp'[r] = Answer(status, {}) /\ access'[r] = access[r]
  BY DEF Receive, Respond, Goto, IndInv, TypeOK
<1>3. OnlyAt(r)
  BY <1>2 DEF OnlyAt, Respond, Goto, IndInv, TypeOK
<1>4. Stage(r)'
  BY <1>1, <1>2 DEF Stage, Stored
<1>5. access'[r] \in Tokens \cup {NoToken}
  BY <1>2 DEF IndInv, TypeOK
<1> QED
  BY <1>1, <1>2, <1>3, <1>4, <1>5, ReceiveStep DEF Points

(* A request with a valid bearer, or a valid token to renew with, goes on. *)
LEMMA AcceptedStep ==
  ASSUME IndInv, NEW r \in Req, NEW o \in {"renew", "logout", "logoutAll"}, NEW u \in User,
         NEW token \in Tokens \cup {NoToken}, Receive(r, o, u, token),
         NEW point \in {"verifyToken", "getSession", "readOpenSessions"}, Goto(r, point),
         o = "renew" => point = "getSession" /\ token # NoToken,
         o = "logout" => point = "verifyToken",
         o = "logoutAll" => point = "readOpenSessions",
         UNCHANGED <<now, sessions, issued, access, seen, resp>>,
         o \in {"renew", "logout"} /\ token # NoToken => token \in Tokens /\ Stored(token, sessions)
  PROVE  IndInv'
<1>1. /\ op'[r] = o /\ pc'[r] = point /\ refresh'[r] = token /\ earlier'[r] = sessions
      /\ resp'[r] = resp[r] /\ access'[r] = access[r] /\ pc[r] = "idle"
  BY DEF Receive, Goto, IndInv, TypeOK
<1>2. OnlyAt(r)
  BY <1>1 DEF OnlyAt, Goto, IndInv, TypeOK
<1>3. resp[r].status = 0 /\ resp[r].revoked = {} /\ resp[r] \in Answers
  BY <1>1 DEF IndInv, Local, Stage, TypeOK, Answers, Statuses
<1>4. Stage(r)'
  BY <1>1, <1>3 DEF Stage, Stored
<1>5. access'[r] \in Tokens \cup {NoToken}
  BY <1>1 DEF IndInv, TypeOK
<1> QED
  BY <1>1, <1>2, <1>3, <1>4, <1>5, ReceiveStep DEF Points, Ops

LEMMA TokenIsStored ==
  ASSUME IndInv, NEW token \in issued
  PROVE  token \in Tokens /\ token.username \in User /\ Stored(token, sessions)
BY DEF IndInv, TypeOK, TokensStored, Tokens

LEMMA LoginStep ==
  ASSUME IndInv, NEW r \in Req, NEW u \in User, loginUser(r, u) \/ LoginUser(r, u)
  PROVE  IndInv'
<1>1. CASE SignIn(r, u)
  BY <1>1, SignInStep
<1>2. CASE SignInRefused(r, u, {400, 401, 404, 500}) \/ SignInRefused(r, u, {400, 403, 404, 500})
  <2>1. PICK status \in {400, 401, 403, 404, 500} : Respond(r, status, {})
    BY <1>2 DEF SignInRefused
  <2>2. Receive(r, "login", u, NoToken) /\ UNCHANGED <<now, sessions, issued, access, seen>>
    BY <1>2 DEF SignInRefused
  <2> QED
    BY <2>1, <2>2, RefusedStep DEF Ops, Statuses
<1> QED
  BY <1>1, <1>2 DEF loginUser, LoginUser

LEMMA RenewStep ==
  ASSUME IndInv, NEW r \in Req, NEW token \in issued \cup {NoToken}, renewAccessToken(r, token)
  PROVE  IndInv'
<1>1. UNCHANGED <<now, sessions, issued, access, seen>>
  BY DEF renewAccessToken
<1>2. CASE token = NoToken /\ Receive(r, "renew", NoUser, token) /\ Respond(r, 400, {})
  BY <1>1, <1>2, RefusedStep DEF Ops, Statuses
<1>3. CASE /\ token # NoToken /\ Receive(r, "renew", token.username, token)
           /\ VerifyToken(token) /\ Goto(r, "getSession") /\ UNCHANGED resp
  BY <1>1, <1>3, TokenIsStored, AcceptedStep
<1>4. CASE /\ token # NoToken /\ Receive(r, "renew", token.username, token)
           /\ ~VerifyToken(token) /\ Respond(r, 401, {})
  BY <1>1, <1>4, TokenIsStored, RefusedStep DEF Ops, Statuses
<1> QED
  BY <1>2, <1>3, <1>4 DEF renewAccessToken

LEMMA LogoutStep ==
  ASSUME IndInv, NEW r \in Req, NEW bearer \in issued, NEW token \in issued \cup {NoToken},
         logout(r, bearer, token)
  PROVE  IndInv'
<1>1. bearer.username \in User /\ token \in Tokens \cup {NoToken}
      /\ (token # NoToken => token \in Tokens /\ Stored(token, sessions))
  BY TokenIsStored
<1>2. Receive(r, "logout", bearer.username, token) /\ UNCHANGED <<now, sessions, issued, access, seen>>
  BY DEF logout
<1>3. CASE VerifyToken(bearer)
  <2>1. Goto(r, "verifyToken") /\ UNCHANGED resp
    BY <1>3 DEF logout
  <2> QED
    BY <1>1, <1>2, <2>1, AcceptedStep
<1>4. CASE ~VerifyToken(bearer)
  <2>1. Respond(r, 401, {})
    BY <1>4 DEF logout
  <2> QED
    BY <1>1, <1>2, <2>1, RefusedStep DEF Ops, Statuses
<1> QED
  BY <1>3, <1>4

LEMMA LogoutAllStep ==
  ASSUME IndInv, NEW r \in Req, NEW bearer \in issued, logoutAll(r, bearer)
  PROVE  IndInv'
<1>1. bearer.username \in User
  BY TokenIsStored
<1>2. Receive(r, "logoutAll", bearer.username, NoToken)
      /\ UNCHANGED <<now, sessions, issued, access, seen>>
  BY DEF logoutAll
<1>3. CASE VerifyToken(bearer)
  <2>1. Goto(r, "readOpenSessions") /\ UNCHANGED resp
    BY <1>3 DEF logoutAll
  <2> QED
    BY <1>1, <1>2, <2>1, AcceptedStep
<1>4. CASE ~VerifyToken(bearer)
  <2>1. Respond(r, 401, {})
    BY <1>4 DEF logoutAll
  <2> QED
    BY <1>1, <1>2, <2>1, RefusedStep DEF Ops, Statuses
<1> QED
  BY <1>3, <1>4
-----------------------------------------------------------------------------
(* Requests that go on, without a change of the tables.                    *)

LEMMA SameOwner ==
  ASSUME NEW e, NEW s, MadeByLogin(e), MadeByLogin(s), e.id = s.id
  PROVE  /\ e.username = s.username /\ e.refreshToken = s.refreshToken
         /\ e.expires = s.expires
BY DEF MadeByLogin

(* The last stage asks nothing more than what the request was sent. *)
LEMMA DoneStage ==
  ASSUME IndInv, NEW r \in Req, UNCHANGED <<op, refresh, earlier>>, pc' = [pc EXCEPT ![r] = "done"]
  PROVE  Stage(r)'
<1>1. pc'[r] = "done" /\ op'[r] = op[r] /\ refresh'[r] = refresh[r] /\ earlier'[r] = earlier[r]
  BY DEF IndInv, TypeOK
<1>2. op[r] \in {"renew", "logout"} /\ refresh[r] # NoToken =>
        refresh[r] \in Tokens /\ Stored(refresh[r], earlier[r])
  BY DEF IndInv, Local, Stage
<1> QED
  BY <1>1, <1>2 DEF Stage, Stored

(* A step that reads a table, or the clock. *)
LEMMA ReadStep ==
  ASSUME IndInv, NEW r \in Req, pc[r] # "done",
         UNCHANGED <<op, user, refresh, earlier, now, sessions, issued, access>>,
         NEW time \in 0..MaxTime, checked' = [checked EXCEPT ![r] = time],
         NEW point \in Points, pc' = [pc EXCEPT ![r] = point],
         NEW answer \in Answers, resp' = [resp EXCEPT ![r] = answer], answer.revoked = {},
         NEW rows, seen' = [seen EXCEPT ![r] = rows], rows = seen[r] \/ rows \subseteq sessions,
         Stage(r)', Outcome(r)'
  PROVE  IndInv'
<1>1. Frame(r)
  BY DEF Frame, SameRow, IndInv, TypeOK
<1>2. TypeOK'
  <2>1. rows \in SUBSET Rows
    BY DEF IndInv, TypeOK
  <2>2. /\ seen' \in [Req -> SUBSET Rows] /\ pc' \in [Req -> Points] /\ resp' \in [Req -> Answers]
        /\ checked' \in [Req -> 0..MaxTime]
    BY <2>1 DEF IndInv, TypeOK, Points, Answers, Statuses
  <2> QED
    BY <2>2 DEF IndInv, TypeOK, Points, Answers, Statuses
<1>3. Snapshots(r)'
  <2>0. seen'[r] = rows /\ earlier'[r] = earlier[r]
    BY DEF IndInv, TypeOK
  <2>1. \A e : MadeByLogin(e) => MadeByLogin(e)'
    BY <1>1, RowKept
  <2>2. \A e : StillThere(e) => StillThere(e)'
    BY <1>1, StillThereKept
  <2>3. Snapshots(r)
    BY DEF IndInv, Local
  <2>4. CASE rows = seen[r]
    BY <2>0, <2>1, <2>2, <2>3, <2>4 DEF Snapshots
  <2>5. CASE rows \subseteq sessions
    <3>1. \A e \in rows : MadeByLogin(e) /\ StillThere(e)
      BY <2>5 DEF IndInv, RowsMade, StillThere
    <3>2. \A e \in earlier[r], s \in rows : e.id = s.id /\ e.blocked => s.blocked
      <4> SUFFICES ASSUME NEW e \in earlier[r], NEW s \in rows, e.id = s.id, e.blocked
                   PROVE  s.blocked
        OBVIOUS
      <4>1. PICK t \in sessions : t.id = e.id /\ (e.blocked => t.blocked)
        BY <2>3 DEF Snapshots, StillThere
      <4>2. t = s
        BY <2>5, <4>1 DEF IndInv, TypeOK
      <4> QED
        BY <4>1, <4>2
    <3> QED
      BY <2>0, <2>1, <2>2, <2>3, <3>1, <3>2 DEF Snapshots
  <2> QED
    BY <2>4, <2>5
<1>4. resp'[r].revoked = {}
  BY DEF IndInv, TypeOK
<1> QED
  BY <1>1, <1>2, <1>3, <1>4, QuietStep DEF Local

LEMMA StateOf ==
  ASSUME IndInv, NEW r \in Req
  PROVE  /\ resp[r] \in Answers /\ pc[r] \in Points
         /\ resp = [resp EXCEPT ![r] = resp[r]] /\ seen = [seen EXCEPT ![r] = seen[r]]
         /\ checked = [checked EXCEPT ![r] = checked[r]] /\ checked[r] \in 0..MaxTime
         /\ pc[r] # "done" => resp[r].status = 0 /\ resp[r].revoked = {}
         /\ Stage(r) /\ Snapshots(r)
BY DEF IndInv, TypeOK, Answers, Points, Statuses, Local, Stage

(* An error, or nothing to do, ends a request. *)
LEMMA EndStep ==
  ASSUME IndInv, NEW r \in Req, pc[r] # "done",
         UNCHANGED <<op, user, refresh, earlier, now, sessions, issued, access>>,
         NEW status \in Statuses \ {200}, Respond(r, status, {}),
         NEW time \in 0..MaxTime, checked' = [checked EXCEPT ![r] = time],
         NEW rows, seen' = [seen EXCEPT ![r] = rows], rows = seen[r] \/ rows \subseteq sessions
  PROVE  IndInv'
<1> DEFINE answer == Answer(status, {})
<1>1. answer \in Answers /\ answer.status = status /\ answer.revoked = {}
  BY AnAnswerIsGiven DEF IndInv
<1>2. pc' = [pc EXCEPT ![r] = "done"] /\ resp' = [resp EXCEPT ![r] = answer]
  BY DEF Respond, Goto
<1> HIDE DEF answer
<1>3. Stage(r)'
  BY <1>2, DoneStage
<1>4. Outcome(r)'
  <2>1. resp'[r].status # 200
    BY <1>1, <1>2 DEF IndInv, TypeOK
  <2> QED
    BY <2>1 DEF Outcome, Ok
<1> QED
  BY <1>1, <1>2, <1>3, <1>4, ReadStep DEF Points

LEMMA EndHereStep ==
  ASSUME IndInv, NEW r \in Req, pc[r] # "done",
         UNCHANGED <<Kept, now, sessions, issued, access, seen>>,
         NEW status \in Statuses \ {200}, Respond(r, status, {})
  PROVE  IndInv'
<1>1. UNCHANGED <<op, user, refresh, earlier, now, sessions, issued, access>>
  BY DEF Kept
<1>2. seen' = [seen EXCEPT ![r] = seen[r]]
      /\ checked' = [checked EXCEPT ![r] = checked[r]] /\ checked[r] \in 0..MaxTime
  BY StateOf DEF Kept
<1> QED
  BY <1>1, <1>2, EndStep

LEMMA SnapshotsKept ==
  ASSUME IndInv, NEW r \in Req, Frame(r), UNCHANGED <<earlier, seen>>
  PROVE  Snapshots(r)'
<1>1. seen'[r] = seen[r] /\ earlier'[r] = earlier[r]
  OBVIOUS
<1>2. \A e : MadeByLogin(e) => MadeByLogin(e)'
  BY RowKept
<1>3. \A e : StillThere(e) => StillThere(e)'
  BY StillThereKept
<1> QED
  BY <1>1, <1>2, <1>3, StateOf DEF Snapshots

LEMMA CreateRefreshTokenStep ==
  ASSUME IndInv, NEW r \in Req, CreateRefreshToken(r)
  PROVE  IndInv'
<1> DEFINE token == NewPayload(r, "refresh", user[r], RefreshTokenDuration)
<1>1. /\ pc[r] = "createRefreshToken" /\ pc' = [pc EXCEPT ![r] = "createSession"]
      /\ refresh' = [refresh EXCEPT ![r] = token]
      /\ UNCHANGED <<now, sessions, issued, op, user, access, seen, resp, earlier, checked>>
  BY DEF CreateRefreshToken, Goto
<1>2. /\ op[r] = "login" /\ user[r] \in User /\ access[r] \in Tokens /\ access[r].id = <<r, "access">>
      /\ resp[r].status = 0 /\ resp[r].revoked = {}
  BY <1>1, StateOf DEF Stage
<1>3. token \in Tokens /\ token.id = <<r, "refresh">>
      /\ token.expires <= MaxTime + RefreshTokenDuration
  BY <1>2, ATokenIsMade DEF IndInv, Purpose
<1> HIDE DEF token
<1>4. /\ pc'[r] = "createSession" /\ refresh'[r] = token /\ op'[r] = op[r]
      /\ access'[r] = access[r] /\ resp'[r] = resp[r]
  BY <1>1 DEF IndInv, TypeOK
<1>5. Frame(r)
  BY <1>1 DEF Frame, SameRow, IndInv, TypeOK
<1>6. TypeOK'
  <2>1. pc' \in [Req -> Points] /\ refresh' \in [Req -> Tokens \cup {NoToken}]
    BY <1>1, <1>3 DEF IndInv, TypeOK, Points
  <2> QED
    BY <1>1, <2>1 DEF IndInv, TypeOK, Points
<1>7. Stage(r)'
  BY <1>2, <1>3, <1>4 DEF Stage
<1>8. Outcome(r)'
  BY <1>2, <1>4 DEF Outcome, Ok
<1>9. Snapshots(r)'
  BY <1>1, <1>5, SnapshotsKept
<1> QED
  BY <1>1, <1>2, <1>4, <1>5, <1>6, <1>7, <1>8, <1>9, QuietStep DEF Local

LEMMA VerifyRefreshTokenStep ==
  ASSUME IndInv, NEW r \in Req, VerifyRefreshToken(r)
  PROVE  IndInv'
<1>1. pc[r] = "verifyToken" /\ UNCHANGED <<Kept, now, sessions, issued, access, seen>>
  BY DEF VerifyRefreshToken
<1>2. CASE Respond(r, 400, {}) \/ Respond(r, 401, {})
  BY <1>1, <1>2, EndHereStep DEF Statuses
<1>3. CASE refresh[r] # NoToken /\ Goto(r, "getSession") /\ UNCHANGED resp
  <2>1. /\ op'[r] = op[r] /\ refresh'[r] = refresh[r] /\ earlier'[r] = earlier[r]
        /\ resp'[r] = resp[r] /\ pc' = [pc EXCEPT ![r] = "getSession"] /\ pc'[r] = "getSession"
        /\ UNCHANGED <<op, user, refresh, earlier, now, sessions, issued, access>>
    BY <1>1, <1>3 DEF Kept, Goto, IndInv, TypeOK
  <2>2. /\ resp[r].status = 0 /\ resp[r].revoked = {} /\ resp[r] \in Answers
        /\ resp' = [resp EXCEPT ![r] = resp[r]] /\ seen' = [seen EXCEPT ![r] = seen[r]]
        /\ checked' = [checked EXCEPT ![r] = checked[r]] /\ checked[r] \in 0..MaxTime
    BY <1>1, <1>3, StateOf DEF Kept
  <2>3. op[r] = "logout" /\ refresh[r] \in Tokens /\ Stored(refresh[r], earlier[r])
    BY <1>1, <1>3, StateOf DEF Stage
  <2>4. Stage(r)'
    BY <1>3, <2>1, <2>2, <2>3 DEF Stage, Stored
  <2>5. Outcome(r)'
    BY <2>1, <2>2 DEF Outcome, Ok
  <2> QED
    BY <1>1, <2>1, <2>2, <2>4, <2>5, ReadStep DEF Points
<1> QED
  BY <1>2, <1>3 DEF VerifyRefreshToken

LEMMA GetSessionStep ==
  ASSUME IndInv, NEW r \in Req, GetSession(r)
  PROVE  IndInv'
<1> DEFINE rows == {s \in sessions : s.id = refresh[r].id}
<1>1. pc[r] = "getSession" /\ seen' = [seen EXCEPT ![r] = rows] /\ rows \subseteq sessions
      /\ UNCHANGED <<op, user, refresh, earlier, now, sessions, issued, access>>
      /\ checked' = [checked EXCEPT ![r] = checked[r]] /\ checked[r] \in 0..MaxTime
  BY StateOf DEF GetSession, Kept
<1>2. seen'[r] = rows /\ op'[r] = op[r] /\ refresh'[r] = refresh[r] /\ earlier'[r] = earlier[r]
  BY <1>1 DEF IndInv, TypeOK
<1>3. CASE rows = {}
  <2>1. PICK status \in Statuses \ {200} : Respond(r, status, {})
    BY <1>2, <1>3 DEF GetSession, Statuses
  <2>2. pc[r] # "done"
    BY <1>1
  <2> HIDE DEF rows
  <2> QED
    BY <1>1, <2>1, <2>2, EndStep
<1>4. CASE rows # {}
  <2> DEFINE point == IF op[r] = "renew" THEN "checkRenewal" ELSE "checkSession"
  <2>1. pc' = [pc EXCEPT ![r] = point] /\ UNCHANGED resp /\ point \in Points
    BY <1>2, <1>4 DEF GetSession, Goto, Points
  <2>2. pc'[r] = point /\ resp'[r] = resp[r]
    BY <2>1 DEF IndInv, TypeOK
  <2>3. Stage(r)'
    <3>1. \A s \in rows : s.id = refresh[r].id
      OBVIOUS
    <3>2. op[r] \in {"renew", "logout"} /\ refresh[r] # NoToken /\ refresh[r] \in Tokens
          /\ Stored(refresh[r], earlier[r])
      BY <1>1, StateOf DEF Stage
    <3>3. resp[r].status = 0 /\ resp[r].revoked = {}
      BY <1>1, StateOf
    <3> HIDE DEF rows
    <3> QED
      BY <1>2, <1>4, <2>2, <3>1, <3>2, <3>3 DEF Stage, Stored
  <2>4. Outcome(r)'
    BY <1>1, <2>2, StateOf DEF Outcome, Ok
  <2> HIDE DEF point, rows
  <2>5. resp' = [resp EXCEPT ![r] = resp[r]] /\ resp[r] \in Answers /\ resp[r].revoked = {}
    BY <1>1, <2>1, StateOf
  <2> QED
    BY <1>1, <2>1, <2>3, <2>4, <2>5, ReadStep
<1> QED
  BY <1>3, <1>4

LEMMA CheckSessionStep ==
  ASSUME IndInv, NEW r \in Req, CheckSession(r)
  PROVE  IndInv'
<1>1. pc[r] = "checkSession" /\ UNCHANGED <<Kept, now, sessions, issued, access, seen>>
  BY DEF CheckSession
<1>2. op'[r] = op[r] /\ refresh'[r] = refresh[r] /\ earlier'[r] = earlier[r] /\ user'[r] = user[r]
      /\ seen' = [seen EXCEPT ![r] = seen[r]]
      /\ UNCHANGED <<op, user, refresh, earlier, now, sessions, issued, access>>
      /\ checked' = [checked EXCEPT ![r] = checked[r]] /\ checked[r] \in 0..MaxTime
  BY <1>1, StateOf DEF Kept
<1>3. PICK s \in seen[r] :
       \/ s.username # user[r] /\ Respond(r, 401, {})
       \/ s.username = user[r] /\ s.blocked /\ Respond(r, 200, {})
       \/ s.username = user[r] /\ ~s.blocked /\ Goto(r, "blockSession") /\ UNCHANGED resp
  BY DEF CheckSession
<1>4. op[r] = "logout" /\ refresh[r] # NoToken /\ refresh[r] \in Tokens /\ Stored(refresh[r], earlier[r])
      /\ \A t \in seen[r] : t.id = refresh[r].id
  BY <1>1, StateOf DEF Stage
<1>5. CASE Respond(r, 401, {})
  BY <1>1, <1>5, EndHereStep DEF Statuses
<1>6. CASE s.blocked /\ Respond(r, 200, {})
  <2> DEFINE answer == Answer(200, {})
  <2>1. answer \in Answers /\ answer.revoked = {}
    BY AnAnswerIsGiven DEF IndInv, Statuses
  <2>2. pc' = [pc EXCEPT ![r] = "done"] /\ resp' = [resp EXCEPT ![r] = answer]
    BY <1>6 DEF Respond, Goto
  <2> HIDE DEF answer
  <2>3. Stage(r)'
    BY <1>2, <2>2, DoneStage
  <2>4. IsBlocked(refresh[r].id)'
    <3>1. PICK t \in sessions : t.id = s.id /\ (s.blocked => t.blocked)
      BY StateOf DEF Snapshots, StillThere
    <3> QED
      BY <1>1, <1>2, <1>4, <1>6, <3>1 DEF IsBlocked
  <2>5. Outcome(r)'
    BY <1>2, <1>4, <2>4 DEF Outcome, Ok
  <2> QED
    BY <1>1, <1>2, <2>1, <2>2, <2>3, <2>5, ReadStep DEF Points
<1>7. CASE s.username = user[r] /\ Goto(r, "blockSession") /\ UNCHANGED resp
  <2>1. pc' = [pc EXCEPT ![r] = "blockSession"] /\ pc'[r] = "blockSession" /\ resp'[r] = resp[r]
    BY <1>7 DEF Goto, IndInv, TypeOK
  <2>2. \A t \in seen[r] : t.username = user[r]
    BY <1>4, <1>7, StateOf, SameOwner DEF Snapshots
  <2>3. resp[r].status = 0 /\ resp[r].revoked = {} /\ resp[r] \in Answers
        /\ resp' = [resp EXCEPT ![r] = resp[r]]
    BY <1>1, <1>7, StateOf
  <2>4. Stage(r)'
    BY <1>1, <1>2, <1>4, <2>1, <2>2, <2>3 DEF Stage, Stored
  <2>5. Outcome(r)'
    BY <2>1, <2>3 DEF Outcome, Ok
  <2> QED
    BY <1>1, <1>2, <2>1, <2>3, <2>4, <2>5, ReadStep DEF Points
<1> QED
  BY <1>3, <1>5, <1>6, <1>7

LEMMA CheckRenewalStep ==
  ASSUME IndInv, NEW r \in Req, CheckRenewal(r)
  PROVE  IndInv'
<1>1. /\ pc[r] = "checkRenewal" /\ checked' = [checked EXCEPT ![r] = now] /\ now \in 0..MaxTime
      /\ seen' = [seen EXCEPT ![r] = seen[r]]
      /\ UNCHANGED <<op, user, refresh, earlier, now, sessions, issued, access>>
  BY StateOf DEF CheckRenewal, IndInv, TypeOK
<1>2. CASE Respond(r, 401, {})
  <2>1. PICK status \in Statuses \ {200} : Respond(r, status, {})
    BY <1>2 DEF Statuses
  <2>2. pc[r] # "done"
    BY <1>1
  <2> QED
    BY <1>1, <2>1, <2>2, EndStep
<1>3. CASE (\A s \in seen[r] : Renews(r, s)) /\ Goto(r, "createToken") /\ UNCHANGED resp
  <2>1. /\ op'[r] = op[r] /\ refresh'[r] = refresh[r] /\ earlier'[r] = earlier[r]
        /\ resp'[r] = resp[r] /\ pc' = [pc EXCEPT ![r] = "createToken"] /\ pc'[r] = "createToken"
        /\ seen'[r] = seen[r] /\ checked'[r] = now
    BY <1>1, <1>3 DEF Goto, IndInv, TypeOK
  <2>2. resp[r].status = 0 /\ resp[r].revoked = {} /\ resp[r] \in Answers
        /\ resp' = [resp EXCEPT ![r] = resp[r]]
    BY <1>1, <1>3, StateOf
  <2>3. /\ op[r] = "renew" /\ refresh[r] # NoToken /\ refresh[r] \in Tokens
        /\ Stored(refresh[r], earlier[r])
        /\ seen[r] # {} /\ \A s \in seen[r] : s.id = refresh[r].id
    BY <1>1, StateOf DEF Stage
  <2>4. \A s \in seen[r] : ~s.blocked /\ s.refreshToken = refresh[r] /\ now <= s.expires
    <3> SUFFICES ASSUME NEW s \in seen[r] PROVE now <= s.expires
      BY <1>3 DEF Renews
    <3>1. s.expires \in Nat /\ now \in Nat
      BY StateOf, SessionsAssumption DEF Snapshots, MadeByLogin, Rows, IndInv, TypeOK
    <3> QED
      BY <1>3, <3>1 DEF Renews
  <2>5. Stage(r)'
    BY <2>1, <2>2, <2>3, <2>4 DEF Stage, Stored
  <2>6. Outcome(r)'
    BY <2>1, <2>2 DEF Outcome, Ok
  <2> QED
    BY <1>1, <2>1, <2>2, <2>5, <2>6, ReadStep DEF Points
<1> QED
  BY <1>2, <1>3 DEF CheckRenewal

LEMMA ReadOpenSessionsStep ==
  ASSUME IndInv, NEW r \in Req, ReadOpenSessions(r)
  PROVE  IndInv'
<1> DEFINE rows == OpenSessionsOf(user[r])
<1>1. pc[r] = "readOpenSessions" /\ seen' = [seen EXCEPT ![r] = rows]
      /\ pc' = [pc EXCEPT ![r] = "blockUserSessions"]
      /\ UNCHANGED <<op, user, refresh, earlier, now, sessions, issued, access, resp>>
      /\ checked' = [checked EXCEPT ![r] = checked[r]] /\ checked[r] \in 0..MaxTime
  BY StateOf DEF ReadOpenSessions, Goto, Kept
<1>2. rows \subseteq sessions
  BY DEF OpenSessionsOf
<1>3. /\ seen'[r] = rows /\ op'[r] = op[r] /\ refresh'[r] = refresh[r]
      /\ earlier'[r] = earlier[r] /\ user'[r] = user[r] /\ resp'[r] = resp[r]
      /\ pc'[r] = "blockUserSessions"
  BY <1>1 DEF IndInv, TypeOK
<1>4. \A e \in earlier[r] : e.username = user[r] => e.id \in Ids(rows) \/ IsBlocked(e.id)'
  <2> SUFFICES ASSUME NEW e \in earlier[r], e.username = user[r]
               PROVE  e.id \in Ids(rows) \/ IsBlocked(e.id)'
    OBVIOUS
  <2>1. PICK s \in sessions : s.id = e.id
    BY StateOf DEF Snapshots, StillThere
  <2>2. s.username = user[r]
    BY <2>1, StateOf, SameOwner DEF Snapshots, IndInv, RowsMade
  <2> QED
    BY <1>1, <2>1, <2>2 DEF IsBlocked, OpenSessionsOf, Ids
<1>5. op[r] = "logoutAll" /\ resp[r].status = 0 /\ resp[r].revoked = {} /\ resp[r] \in Answers
      /\ resp' = [resp EXCEPT ![r] = resp[r]]
  BY <1>1, StateOf DEF Stage
<1> HIDE DEF rows
<1>6. Stage(r)'
  BY <1>1, <1>3, <1>4, <1>5 DEF Stage, Ids
<1>7. Outcome(r)'
  BY <1>3, <1>5 DEF Outcome, Ok
<1> QED
  BY <1>1, <1>2, <1>5, <1>6, <1>7, ReadStep DEF Points

LEMMA FailsStep ==
  ASSUME IndInv, NEW r \in Req, Fails(r)
  PROVE  IndInv'
<1>1. pc[r] # "done" /\ Respond(r, 500, {})
      /\ UNCHANGED <<Kept, now, sessions, issued, access, seen>>
  BY DEF Fails
<1> QED
  BY <1>1, EndHereStep DEF Statuses

LEMMA TickStep ==
  ASSUME IndInv, Tick
  PROVE  IndInv'
<1>1. /\ now' \in 0..MaxTime
      /\ UNCHANGED <<sessions, issued, op, pc, user, refresh, access, seen, resp, earlier, checked>>
  BY SessionsAssumption DEF Tick, Kept, IndInv, TypeOK
<1>2. TypeOK'
  BY <1>1 DEF IndInv, TypeOK
<1>3. RowsMade' /\ TokensStored'
  BY <1>1 DEF IndInv, RowsMade, MadeByLogin, TokensStored, Stored
<1>4. \A r \in Req : Local(r)'
  <2> TAKE r \in Req
  <2>1. Stage(r)'
    BY <1>1, StateOf DEF Stage, Stored, IsBlocked, Ids
  <2>2. Snapshots(r)'
    BY <1>1, StateOf DEF Snapshots, MadeByLogin, StillThere
  <2>3. Outcome(r)'
    BY <1>1 DEF IndInv, Local, Outcome, Ok, IsBlocked
  <2> QED
    BY <2>1, <2>2, <2>3 DEF Local
<1>5. OnlyOwnSessions' /\ CountedOnce'
  BY <1>1 DEF IndInv, OnlyOwnSessions, CountedOnce, Ids
<1> QED
  BY <1>2, <1>3, <1>4, <1>5 DEF IndInv
-----------------------------------------------------------------------------
(* Requests that store, renew or block a session.                          *)

LEMMA CreateSessionStep ==
  ASSUME IndInv, NEW r \in Req, CreateSession(r)
  PROVE  IndInv'
<1>0. PICK row : row = SessionRow(refresh[r])
  OBVIOUS
<1>1. /\ pc[r] = "createSession" /\ sessions' = sessions \cup {row}
      /\ UNCHANGED <<Kept, now, access, seen>>
      /\ issued' \subseteq issued \cup {refresh[r], access[r]}
  BY <1>0 DEF CreateSession
<1>2. PICK status \in {200, 500} : Respond(r, status, {})
  BY DEF CreateSession
<1> DEFINE answer == Answer(status, {})
<1>3. answer \in Answers /\ answer.revoked = {}
  BY AnAnswerIsGiven DEF IndInv, Statuses
<1>4. pc' = [pc EXCEPT ![r] = "done"] /\ resp' = [resp EXCEPT ![r] = answer]
  BY <1>2 DEF Respond, Goto
<1> HIDE DEF answer
<1>5. /\ op[r] = "login" /\ refresh[r] \in Tokens /\ refresh[r].id = <<r, "refresh">>
      /\ refresh[r].expires <= MaxTime + RefreshTokenDuration
      /\ access[r] \in Tokens /\ access[r].id = <<r, "access">>
  BY <1>1, StateOf DEF Stage
<1>6. /\ row.id = <<r, "refresh">> /\ row.username = refresh[r].username /\ row.blocked = FALSE
      /\ row.refreshToken = refresh[r] /\ row.expires = refresh[r].expires
  BY <1>0, <1>5 DEF SessionRow
<1>7. row \in Rows
  BY <1>0, <1>5, SessionsAssumption DEF SessionRow, Rows, Tokens
<1>8. op'[r] = "login" /\ pc'[r] = "done" /\ refresh'[r] = refresh[r] /\ resp'[r] = answer
  BY <1>1, <1>4, <1>5 DEF Kept, IndInv, TypeOK
<1>9. Frame(r)
  <2>1. \A s \in sessions : SameRow(s, s)
    BY DEF SameRow
  <2> QED
    BY <1>1, <1>4, <2>1 DEF Frame, Kept, IndInv, TypeOK
<1>10. \A s \in sessions : s.id # row.id
  <2> SUFFICES ASSUME NEW s \in sessions, s.id = <<r, "refresh">> PROVE FALSE
    BY <1>6
  <2>1. s.id[1] = r
    OBVIOUS
  <2> QED
    BY <1>1, <2>1 DEF IndInv, RowsMade, MadeByLogin
<1>11. TypeOK'
  <2>1. sessions' \subseteq Rows /\ \A s, t \in sessions' : s.id = t.id => s = t
    BY <1>1, <1>7, <1>10 DEF IndInv, TypeOK
  <2>2. pc' \in [Req -> Points] /\ resp' \in [Req -> Answers]
    BY <1>3, <1>4 DEF IndInv, TypeOK, Points, Answers, Statuses
  <2>3. issued' \subseteq Tokens
    BY <1>1, <1>5 DEF IndInv, TypeOK
  <2> QED
    BY <1>1, <2>1, <2>2, <2>3 DEF IndInv, TypeOK, Kept, Points, Answers, Statuses
<1>12. RowsMade'
  <2>1. MadeByLogin(row)'
    BY <1>6, <1>7, <1>8, <1>5 DEF MadeByLogin
  <2>2. \A s \in sessions : MadeByLogin(s)'
    BY <1>9, RowKept DEF IndInv, RowsMade
  <2> QED
    BY <1>1, <2>1, <2>2 DEF RowsMade
<1>13. TokensStored'
  <2>1. access[r].id[2] # "refresh"
    BY <1>5
  <2>2. row \in sessions' /\ sessions \subseteq sessions'
    BY <1>1
  <2> QED
    BY <1>1, <1>6, <2>1, <2>2 DEF IndInv, TokensStored, Stored
<1>14. Local(r)'
  <2>1. Stage(r)'
    BY <1>1, <1>4, DoneStage DEF Kept
  <2>2. Snapshots(r)'
    BY <1>1, <1>9, SnapshotsKept DEF Kept
  <2>3. Outcome(r)'
    BY <1>1, <1>6, <1>8 DEF Outcome, Ok
  <2> QED
    BY <2>1, <2>2, <2>3 DEF Local
<1>15. OnlyOwnSessions'
  <2>1. \A s \in sessions' : s.blocked => s \in sessions
    BY <1>1, <1>6
  <2> QED
    BY <1>9, <2>1 DEF IndInv, OnlyOwnSessions, Frame
<1>16. CountedOnce'
  <2>1. \A q \in Req : resp'[q].revoked \subseteq resp[q].revoked
    BY <1>3, <1>8, <1>9 DEF Frame
  <2>2. Ids({s \in sessions : s.blocked}) \subseteq Ids({s \in sessions' : s.blocked})
    BY <1>1 DEF Ids
  <2> QED
    BY <2>1, <2>2 DEF IndInv, CountedOnce, Ids
<1> QED
  BY <1>9, <1>11, <1>12, <1>13, <1>14, <1>15, <1>16, StepKeeps

LEMMA CreateTokenStep ==
  ASSUME IndInv, NEW r \in Req, CreateToken(r)
  PROVE  IndInv'
<1> DEFINE token == NewPayload(r, "access", refresh[r].username, AccessTokenDuration)
           answer == Answer(200, {})
<1>1. /\ pc[r] = "createToken" /\ UNCHANGED <<Kept, now, sessions, seen>>
      /\ access' = [access EXCEPT ![r] = token]
  BY DEF CreateToken
<1>2. /\ op[r] = "renew" /\ refresh[r] \in Tokens /\ Stored(refresh[r], earlier[r])
      /\ seen[r] # {} /\ \A s \in seen[r] : s.id = refresh[r].id
      /\ \A s \in seen[r] : ~s.blocked /\ s.refreshToken = refresh[r] /\ checked[r] <= s.expires
  BY <1>1, StateOf DEF Stage
<1>3. token \in Tokens /\ token.id = <<r, "access">> /\ token.username = refresh[r].username
      /\ token.expires = now + AccessTokenDuration
  <2>1. refresh[r].username \in User
    BY <1>2 DEF Tokens
  <2> QED
    BY <2>1, ATokenIsMade DEF IndInv, Purpose
<1>4. answer \in Answers /\ answer.revoked = {} /\ answer.time = now
  BY AnAnswerIsGiven DEF IndInv, Statuses
<1>5. /\ pc' = [pc EXCEPT ![r] = "done"] /\ resp' = [resp EXCEPT ![r] = answer]
      /\ access'[r] = token /\ issued' = issued \cup {token}
  BY DEF CreateToken, Respond, Goto, IndInv, TypeOK
<1> HIDE DEF token, answer
<1>6. /\ op'[r] = "renew" /\ refresh'[r] = refresh[r] /\ earlier'[r] = earlier[r]
      /\ resp'[r] = answer /\ checked'[r] = checked[r]
  BY <1>1, <1>2, <1>5 DEF Kept, IndInv, TypeOK
<1>7. Frame(r)
  BY <1>1, <1>5 DEF Frame, SameRow, Kept, IndInv, TypeOK
<1>8. TypeOK'
  <2>1. pc' \in [Req -> Points] /\ resp' \in [Req -> Answers]
    BY <1>4, <1>5 DEF IndInv, TypeOK, Points, Answers, Statuses
  <2>2. access' \in [Req -> Tokens \cup {NoToken}] /\ issued' \subseteq Tokens
    BY <1>1, <1>3, <1>5 DEF IndInv, TypeOK
  <2> QED
    BY <1>1, <2>1, <2>2 DEF IndInv, TypeOK, Kept, Points, Answers, Statuses
<1>9. RowsMade'
  BY <1>1, <1>7, RowKept DEF IndInv, RowsMade
<1>10. TokensStored'
  <2>1. token.id[2] # "refresh"
    BY <1>3
  <2> QED
    BY <1>1, <1>5, <2>1 DEF IndInv, TokensStored, Stored
<1>11. PICK s \in seen[r] : TRUE
  BY <1>2
<1>12. /\ MadeByLogin(s) /\ StillThere(s) /\ s.id = refresh[r].id
       /\ ~s.blocked /\ s.refreshToken = refresh[r] /\ checked[r] <= s.expires
  BY <1>2, StateOf DEF Snapshots
<1>13. \E e \in earlier[r] :
         e.refreshToken = refresh[r] /\ ~e.blocked /\ e.username = token.username
  <2>1. refresh[r].id[2] = "refresh"
    BY <1>12 DEF MadeByLogin
  <2>2. PICK e \in earlier[r] : e.refreshToken = refresh[r]
    BY <1>2, <2>1 DEF Stored
  <2>3. MadeByLogin(e)
    BY StateOf DEF Snapshots
  <2>4. e.id = s.id /\ e.username = token.username
    BY <1>3, <1>12, <2>2, <2>3 DEF MadeByLogin
  <2>5. ~e.blocked
    BY <1>12, <2>4, StateOf DEF Snapshots
  <2> QED
    BY <2>2, <2>4, <2>5
(* The new token outlives the session by what the clock has moved since the check. *)
<1>14. \E t \in sessions :
         /\ t.refreshToken = refresh[r]
         /\ token.expires <= t.expires + AccessTokenDuration + (answer.time - checked[r])
  <2>1. PICK t \in sessions : t.id = s.id
    BY <1>12 DEF StillThere
  <2>2. t.refreshToken = s.refreshToken /\ t.expires = s.expires
    BY <1>12, <2>1, SameOwner DEF IndInv, RowsMade
  <2>3. s.expires \in Nat /\ now \in Nat /\ checked[r] \in Nat
    BY <1>12, SessionsAssumption DEF MadeByLogin, Rows, IndInv, TypeOK
  <2> QED
    BY <1>3, <1>4, <1>12, <2>2, <2>3, SessionsAssumption
<1>15. Local(r)'
  <2>1. Stage(r)'
    BY <1>1, <1>5, DoneStage DEF Kept
  <2>2. Snapshots(r)'
    BY <1>1, <1>7, SnapshotsKept DEF Kept
  <2>3. Outcome(r)'
    BY <1>1, <1>5, <1>6, <1>13, <1>14 DEF Outcome, Ok
  <2> QED
    BY <2>1, <2>2, <2>3 DEF Local
<1>16. OnlyOwnSessions'
  BY <1>1, <1>7 DEF IndInv, OnlyOwnSessions, Frame
<1>17. CountedOnce'
  <2>1. \A q \in Req : resp'[q].revoked \subseteq resp[q].revoked
    BY <1>4, <1>6, <1>7 DEF Frame
  <2> QED
    BY <1>1, <2>1 DEF IndInv, CountedOnce, Ids
<1> QED
  BY <1>7, <1>8, <1>9, <1>10, <1>15, <1>16, <1>17, StepKeeps

(* What Blocked does to the table. *)
LEMMA BlockedRows ==
  ASSUME TypeOK, NEW ids
  PROVE  /\ Blocked(ids) \subseteq Rows
         /\ \A t \in Blocked(ids) : \E s \in sessions :
              SameRow(s, t) /\ (t.blocked <=> s.blocked \/ s.id \in ids)
         /\ \A s \in sessions : \E t \in Blocked(ids) :
              SameRow(s, t) /\ (t.blocked <=> s.blocked \/ s.id \in ids)
         /\ \A s, t \in Blocked(ids) : s.id = t.id => s = t
<1> DEFINE F(s) == IF s.id \in ids THEN [s EXCEPT !.blocked = TRUE] ELSE s
<1>1. ASSUME NEW s \in sessions
      PROVE  F(s) \in Rows /\ SameRow(s, F(s)) /\ (F(s).blocked <=> s.blocked \/ s.id \in ids)
  <2>1. s \in Rows
    BY DEF TypeOK
  <2> QED
    BY <2>1 DEF Rows, SameRow
<1>2. \A t : t \in Blocked(ids) <=> \E s \in sessions : t = F(s)
  BY DEF Blocked
<1> HIDE DEF F
<1>3. \A t \in Blocked(ids) : \E s \in sessions :
        SameRow(s, t) /\ (t.blocked <=> s.blocked \/ s.id \in ids)
  BY <1>1, <1>2
<1>4. \A s \in sessions : \E t \in Blocked(ids) :
        SameRow(s, t) /\ (t.blocked <=> s.blocked \/ s.id \in ids)
  BY <1>1, <1>2
<1>5. \A s, t \in Blocked(ids) : s.id = t.id => s = t
  <2> SUFFICES ASSUME NEW s \in sessions, NEW t \in sessions, F(s).id = F(t).id
               PROVE  F(s) = F(t)
    BY <1>2
  <2>1. s.id = t.id
    BY <1>1 DEF SameRow
  <2> QED
    BY <2>1 DEF TypeOK
<1> QED
  BY <1>1, <1>2, <1>3, <1>4, <1>5

LEMMA BlockStep ==
  ASSUME IndInv, NEW r \in Req, pc[r] # "done", op[r] \in {"logout", "logoutAll"},
         NEW ids, \A s \in sessions : s.id \in ids => s.username = user[r],
         sessions' = Blocked(ids), UNCHANGED <<Kept, now, issued, access, seen>>,
         NEW status \in {200, 500}, NEW revoked, Respond(r, status, revoked),
         revoked \subseteq ids \cap Ids({s \in sessions : ~s.blocked}),
         Frame(r) => Outcome(r)'
  PROVE  IndInv'
<1> DEFINE answer == Answer(status, revoked)
<1>0. revoked \subseteq Req \X Purpose
  BY DEF Ids, IndInv, TypeOK, Rows
<1>1. answer \in Answers /\ answer.revoked = revoked
  BY <1>0, AnAnswerIsGiven DEF IndInv, Statuses
<1>2. pc' = [pc EXCEPT ![r] = "done"] /\ resp' = [resp EXCEPT ![r] = answer]
  BY DEF Respond, Goto
<1> HIDE DEF answer
<1>3. pc'[r] = "done" /\ resp'[r] = answer /\ op'[r] = op[r] /\ user'[r] = user[r]
  BY <1>2 DEF Kept, IndInv, TypeOK
<1>4. /\ sessions' \subseteq Rows
      /\ \A t \in sessions' : \E s \in sessions :
           SameRow(s, t) /\ (t.blocked <=> s.blocked \/ s.id \in ids)
      /\ \A s \in sessions : \E t \in sessions' :
           SameRow(s, t) /\ (t.blocked <=> s.blocked \/ s.id \in ids)
      /\ \A s, t \in sessions' : s.id = t.id => s = t
  BY BlockedRows DEF IndInv
<1>5. Frame(r)
  BY <1>2, <1>4 DEF Frame, Kept, IndInv, TypeOK
<1>6. TypeOK'
  <2>1. pc' \in [Req -> Points] /\ resp' \in [Req -> Answers]
    BY <1>1, <1>2 DEF IndInv, TypeOK, Points, Answers, Statuses
  <2> QED
    BY <1>4, <2>1 DEF IndInv, TypeOK, Kept, Points, Answers, Statuses
<1>7. RowsMade'
  <2> SUFFICES ASSUME NEW t \in sessions' PROVE MadeByLogin(t)'
    BY DEF RowsMade
  <2>1. PICK s \in sessions : SameRow(s, t)
    BY <1>4
  <2>2. MadeByLogin(s)'
    BY <1>5, RowKept DEF IndInv, RowsMade
  <2> QED
    BY <1>4, <2>1, <2>2 DEF MadeByLogin, SameRow
<1>8. TokensStored'
  BY <1>4 DEF IndInv, TokensStored, Stored, SameRow
<1>9. Local(r)'
  <2>1. Stage(r)'
    BY <1>2, DoneStage DEF Kept
  <2>2. Snapshots(r)'
    BY <1>5, SnapshotsKept DEF Kept
  <2> QED
    BY <1>5, <2>1, <2>2 DEF Local
<1>10. OnlyOwnSessions'
  <2> SUFFICES ASSUME NEW t \in sessions', t.blocked
               PROVE  \E q \in Req : op'[q] \in {"logout", "logoutAll"} /\ pc'[q] = "done"
                                       /\ user'[q] = t.username
    BY DEF OnlyOwnSessions
  <2>1. PICK s \in sessions : SameRow(s, t) /\ (t.blocked <=> s.blocked \/ s.id \in ids)
    BY <1>4
  <2>2. CASE s.id \in ids
    BY <1>3, <2>1, <2>2 DEF SameRow
  <2>3. CASE s.blocked
    <3>1. PICK q \in Req : op[q] \in {"logout", "logoutAll"} /\ pc[q] = "done"
                            /\ user[q] = s.username
      BY <2>3 DEF IndInv, OnlyOwnSessions
    <3> QED
      BY <1>5, <2>1, <3>1 DEF Frame, SameRow
  <2> QED
    BY <2>1, <2>2, <2>3
<1>11. CountedOnce'
  <2>1. \A q \in Req \ {r} : resp'[q] = resp[q]
    BY <1>5 DEF Frame
  <2>2. resp'[r].revoked = revoked
    BY <1>1, <1>3
  <2>3. \A id \in Ids({s \in sessions : s.blocked}) : id \in Ids({s \in sessions' : s.blocked})
    BY <1>4 DEF Ids, SameRow
  <2>4. \A id \in revoked : id \in Ids({s \in sessions' : s.blocked})
    <3> SUFFICES ASSUME NEW id \in revoked PROVE id \in Ids({s \in sessions' : s.blocked})
      OBVIOUS
    <3>1. PICK s \in sessions : s.id = id /\ id \in ids
      BY DEF Ids
    <3>2. PICK t \in sessions' : SameRow(s, t) /\ (t.blocked <=> s.blocked \/ s.id \in ids)
      BY <1>4
    <3> QED
      BY <3>1, <3>2 DEF Ids, SameRow
  <2>5. \A id \in revoked : id \notin Ids({s \in sessions : s.blocked})
    BY DEF Ids, IndInv, TypeOK
  <2>6. \A q \in Req : resp[q].revoked \subseteq Ids({s \in sessions : s.blocked})
    BY DEF IndInv, CountedOnce
  <2>7. \A q, p \in Req : q # p => resp[p].revoked \cap resp[q].revoked = {}
    BY DEF IndInv, CountedOnce
  <2>o. PICK before : before = Ids({s \in sessions : s.blocked})
    BY Zenon
  <2>p. PICK after : after = Ids({s \in sessions' : s.blocked})
    BY Zenon
  <2>q. /\ \A id \in before : id \in after
        /\ \A id \in revoked : id \in after /\ id \notin before
        /\ \A q \in Req : resp[q].revoked \subseteq before
    BY <2>o, <2>p, <2>3, <2>4, <2>5, <2>6
  <2>8. \A q \in Req : resp'[q].revoked \subseteq after
    <3> TAKE q \in Req
    <3>1. CASE q = r
      BY <2>2, <2>q, <3>1
    <3>2. CASE q # r
      BY <2>1, <2>q, <3>2
    <3> QED
      BY <3>1, <3>2
  <2>9. \A q \in Req : \A p \in Req \ {q} : resp'[q].revoked \cap resp'[p].revoked = {}
    <3> TAKE q \in Req
    <3> TAKE p \in Req \ {q}
    <3>1. CASE q = r
      <4>1. resp'[p] = resp[p]
        BY <2>1, <3>1
      <4> QED
        BY <2>2, <2>q, <3>1, <4>1
    <3>2. CASE p = r
      <4>1. resp'[q] = resp[q]
        BY <2>1, <3>2
      <4> QED
        BY <2>2, <2>q, <3>2, <4>1
    <3>3. CASE q # r /\ p # r
      BY <2>1, <2>7, <3>3
    <3> QED
      BY <3>1, <3>2, <3>3
  <2> QED
    BY <2>p, <2>8, <2>9 DEF CountedOnce
<1> QED
  BY <1>5, <1>6, <1>7, <1>8, <1>9, <1>10, <1>11, StepKeeps

LEMMA BlockSessionStep ==
  ASSUME IndInv, NEW r \in Req, BlockSession(r)
  PROVE  IndInv'
<1> DEFINE ids == {refresh[r].id}
<1>1. pc[r] = "blockSession" /\ sessions' = Blocked(ids)
      /\ UNCHANGED <<Kept, now, issued, access, seen>>
  BY DEF BlockSession
<1>2. PICK status \in {200, 500} : Respond(r, status, {})
  BY DEF BlockSession
<1>3. op[r] = "logout" /\ seen[r] # {} /\ \A s \in seen[r] : s.id = refresh[r].id /\ s.username = user[r]
  BY <1>1, StateOf DEF Stage
<1>4. PICK e \in seen[r] : TRUE
  BY <1>3
<1>5. MadeByLogin(e) /\ StillThere(e) /\ e.id = refresh[r].id /\ e.username = user[r]
  BY <1>3, <1>4, StateOf DEF Snapshots
<1>6. \A s \in sessions : s.id \in ids => s.username = user[r]
  BY <1>5, SameOwner DEF IndInv, RowsMade
<1>7. Outcome(r)'
  <2>1. op'[r] = "logout" /\ refresh'[r] = refresh[r]
    BY <1>1, <1>3 DEF Kept
  <2>2. PICK s \in sessions : s.id = refresh[r].id
    BY <1>5 DEF StillThere
  <2>3. \E t \in sessions' : SameRow(s, t) /\ t.blocked
    BY <1>1, <2>2, BlockedRows DEF IndInv
  <2>4. IsBlocked(refresh[r].id)'
    BY <2>1, <2>2, <2>3 DEF IsBlocked, SameRow
  <2> QED
    BY <2>1, <2>4 DEF Outcome, Ok
<1> HIDE DEF ids
<1> QED
  BY <1>1, <1>2, <1>3, <1>6, <1>7, BlockStep

LEMMA BlockUserSessionsStep ==
  ASSUME IndInv, NEW r \in Req, BlockUserSessions(r)
  PROVE  IndInv'
<1> DEFINE ids == Ids(seen[r]) \cap Ids(OpenSessionsOf(user[r]))
<1>1. pc[r] = "blockUserSessions" /\ sessions' = Blocked(ids)
      /\ UNCHANGED <<Kept, now, issued, access, seen>>
      /\ (Respond(r, 200, ids) \/ Respond(r, 500, {}))
  BY DEF BlockUserSessions
<1>2. op[r] = "logoutAll" /\ \A e \in earlier[r] :
        e.username = user[r] => e.id \in Ids(seen[r]) \/ IsBlocked(e.id)
  BY <1>1, StateOf DEF Stage
<1>3. \A s \in sessions : s.id \in ids => s.username = user[r]
  BY SameOwner DEF Ids, OpenSessionsOf, IndInv, RowsMade
<1>4. ids \subseteq ids \cap Ids({s \in sessions : ~s.blocked})
  BY DEF Ids, OpenSessionsOf
<1>5. ASSUME Frame(r) PROVE Outcome(r)'
  <2>1. op'[r] = "logoutAll" /\ earlier'[r] = earlier[r] /\ user'[r] = user[r]
    BY <1>1, <1>2 DEF Kept
  <2>2. ASSUME NEW e \in earlier[r], e.username = user[r] PROVE IsBlocked(e.id)'
    <3>1. CASE IsBlocked(e.id)
      BY <1>5, <3>1, BlockedKept
    <3>2. CASE e.id \in Ids(seen[r])
      <4>1. PICK s \in sessions : s.id = e.id
        BY StateOf DEF Snapshots, StillThere
      <4>2. s.username = user[r]
        BY <2>2, <4>1, StateOf, SameOwner DEF Snapshots, IndInv, RowsMade
      <4>3. s.blocked \/ s.id \in ids
        BY <3>2, <4>1, <4>2 DEF Ids, OpenSessionsOf
      <4>4. \E t \in sessions' : SameRow(s, t) /\ t.blocked
        BY <1>1, <4>3, BlockedRows DEF IndInv
      <4> QED
        BY <4>1, <4>4 DEF IsBlocked, SameRow
    <3> QED
      BY <1>2, <2>2, <3>1, <3>2
  <2> QED
    BY <2>1, <2>2 DEF Outcome, Ok
<1> HIDE DEF ids
<1>6. CASE Respond(r, 200, ids)
  BY <1>1, <1>2, <1>3, <1>4, <1>5, <1>6, BlockStep
<1>7. CASE Respond(r, 500, {})
  BY <1>1, <1>2, <1>3, <1>5, <1>7, BlockStep
<1> QED
  BY <1>1, <1>6, <1>7
-----------------------------------------------------------------------------
LEMMA InitIndInv == Init => IndInv
<1> SUFFICES ASSUME Init PROVE IndInv
  OBVIOUS
<1>1. TypeOK
  BY SessionsAssumption DEF Init, TypeOK, Answer
<1>2. \A r \in Req : Local(r)
  BY DEF Init, Local, Stage, Snapshots, Outcome, Ok, Answer
<1>3. RowsMade /\ TokensStored /\ OnlyOwnSessions
  BY DEF Init, RowsMade, TokensStored, OnlyOwnSessions
<1>4. CountedOnce
  BY DEF Init, CountedOnce, Ids, Answer
<1> QED
  BY <1>1, <1>2, <1>3, <1>4 DEF IndInv

LEMMA StutterStep ==
  ASSUME IndInv, UNCHANGED vars
  PROVE  IndInv'
<1>1. UNCHANGED <<now, sessions, issued, op, pc, user, refresh, access, seen, resp, earlier,
                  checked>>
  BY DEF vars
<1>2. TypeOK'
  BY <1>1 DEF IndInv, TypeOK
<1>3. RowsMade' /\ TokensStored'
  BY <1>1 DEF IndInv, RowsMade, MadeByLogin, TokensStored, Stored
<1>4. \A r \in Req : Local(r)'
  <2> TAKE r \in Req
  <2>1. Stage(r)'
    BY <1>1, StateOf DEF Stage, Stored, IsBlocked, Ids
  <2>2. Snapshots(r)'
    BY <1>1, StateOf DEF Snapshots, MadeByLogin, StillThere
  <2>3. Outcome(r)'
    BY <1>1 DEF IndInv, Local, Outcome, Ok, IsBlocked
  <2> QED
    BY <2>1, <2>2, <2>3 DEF Local
<1>5. OnlyOwnSessions' /\ CountedOnce'
  BY <1>1 DEF IndInv, OnlyOwnSessions, CountedOnce, Ids
<1> QED
  BY <1>2, <1>3, <1>4, <1>5 DEF IndInv

(* Every step of every handler of api/user.go, api/token.go, api/logout.go and
   gapi/rpc_login_user.go, in any interleaving, keeps the invariant. *)
THEOREM Invariance == Spec => []IndInv
<1>1. IndInv /\ [Next]_vars => IndInv'
  <2> SUFFICES ASSUME IndInv, [Next]_vars PROVE IndInv'
    OBVIOUS
  <2>1. CASE \E r \in Req, u \in User : loginUser(r, u) \/ LoginUser(r, u)
    BY <2>1, LoginStep
  <2>2. CASE \/ \E r \in Req, token \in issued \cup {NoToken} : renewAccessToken(r, token)
             \/ \E r \in Req, bearer \in issued : logoutAll(r, bearer)
    BY <2>2, RenewStep, LogoutAllStep
  <2>3. CASE \E r \in Req, bearer \in issued, token \in issued \cup {NoToken} :
               logout(r, bearer, token)
    BY <2>3, LogoutStep
  <2>4. ASSUME NEW r \in Req,
               \/ CreateRefreshToken(r) \/ CreateSession(r)
               \/ VerifyRefreshToken(r) \/ GetSession(r) \/ CheckRenewal(r) \/ CreateToken(r)
               \/ CheckSession(r) \/ BlockSession(r)
               \/ ReadOpenSessions(r) \/ BlockUserSessions(r) \/ Fails(r)
        PROVE  IndInv'
    BY <2>4, CreateRefreshTokenStep, CreateSessionStep, VerifyRefreshTokenStep, GetSessionStep,
       CheckRenewalStep, CreateTokenStep, CheckSessionStep, BlockSessionStep, ReadOpenSessionsStep, BlockUserSessionsStep, FailsStep
  <2>5. CASE Tick
    BY <2>5, TickStep
  <2>6. CASE UNCHANGED vars
    BY <2>6, StutterStep
  <2> QED
    BY <2>1, <2>2, <2>3, <2>4, <2>5, <2>6 DEF Next
<1> QED
  BY <1>1, InitIndInv, PTL DEF Spec

(* Every variable keeps its type, and sessions.id stays a primary key. *)
THEOREM TypeCorrect == Spec => []TypeOK
<1>1. IndInv => TypeOK
  BY DEF IndInv
<1> QED
  BY <1>1, Invariance, PTL

(* A sign-in that was answered with 200 has left its session in the table,
   whatever has happened since (api/user.go:loginUser). *)
THEOREM SignedInHasSession == Spec => []SignedInMeansSession
<1>1. IndInv => SignedInMeansSession
  <2> SUFFICES ASSUME IndInv, NEW r \in Req, Ok(r, "login")
               PROVE  \E s \in sessions : [s EXCEPT !.blocked = FALSE] = SessionRow(refresh[r])
    BY DEF SignedInMeansSession
  <2>1. PICK s \in sessions : s.refreshToken = refresh[r]
    BY DEF IndInv, Local, Outcome
  <2>2. MadeByLogin(s)
    BY DEF IndInv, RowsMade
  <2>3. /\ s \in Rows /\ s.refreshToken = refresh[r] /\ refresh[r].id = s.id
        /\ refresh[r].username = s.username /\ refresh[r].expires = s.expires
    BY <2>1, <2>2 DEF MadeByLogin
  <2>4. [s EXCEPT !.blocked = FALSE] = SessionRow(refresh[r])
    <3>1. PICK t : t = [s EXCEPT !.blocked = FALSE]
      OBVIOUS
    <3>2. PICK row : row = SessionRow(refresh[r])
      OBVIOUS
    <3>3. t \in Rows /\ row \in Rows
      BY <2>3, <3>1, <3>2 DEF Rows, SessionRow
    <3>4. /\ t.id = row.id /\ t.username = row.username /\ t.refreshToken = row.refreshToken
          /\ t.expires = row.expires
      BY <2>3, <3>1, <3>2 DEF Rows, SessionRow
    <3>5. t.blocked = FALSE
      BY <2>3, <3>1 DEF Rows
    <3>6. row.blocked = FALSE
      BY <3>2 DEF SessionRow
    <3>7. t = row
      BY <3>3, <3>4, <3>5, <3>6 DEF Rows
    <3> QED
      BY <3>1, <3>2, <3>7
  <2> QED
    BY <2>4
<1> QED
  BY <1>1, Invariance, PTL

(* An access token is renewed only for a session that was open when the
   request came (api/token.go:renewAccessToken). *)
THEOREM RenewedWhileOpen == Spec => []RenewalNeedsOpenSession
<1>1. IndInv => RenewalNeedsOpenSession
  BY DEF IndInv, Local, Outcome, RenewalNeedsOpenSession
<1> QED
  BY <1>1, Invariance, PTL

(* A successful logout or logoutAll is never undone (api/logout.go). *)
THEOREM SignOutIsFinal == Spec => []SignOutHolds
<1>1. IndInv => SignOutHolds
  BY DEF IndInv, Local, Outcome, SignOutHolds, IsBlocked
<1> QED
  BY <1>1, Invariance, PTL

(* Only its user revokes a session (api/logout.go:56). *)
THEOREM RevokedByOwner == Spec => []OnlyOwnSessions
<1>1. IndInv => OnlyOwnSessions
  BY DEF IndInv
<1> QED
  BY <1>1, Invariance, PTL

(* Two logoutAll that race count each session once (db/query/session.sql). *)
THEOREM RevokedOnce == Spec => []CountedOnce
<1>1. IndInv => CountedOnce
  BY DEF IndInv
<1> QED
  BY <1>1, Invariance, PTL

-----------------------------------------------------------------------------
(* The refinement of SessionLifecycle.                                     *)

LEMMA OpenStep ==
  ASSUME IndInv, NEW r \in Req, CreateSession(r)
  PROVE  Lifecycle!Next
<1>0. PICK row : row = SessionRow(refresh[r])
  OBVIOUS
<1>1. pc[r] = "createSession" /\ sessions' = sessions \cup {row}
  BY <1>0 DEF CreateSession
<1>2. row.id = <<r, "refresh">> /\ row.blocked = FALSE
  BY <1>0, <1>1, StateOf DEF SessionRow, Stage
<1>3. \A s \in sessions : s.id # row.id
  <2> SUFFICES ASSUME NEW s \in sessions, s.id = <<r, "refresh">> PROVE FALSE
    BY <1>2
  <2>1. s.id[1] = r
    OBVIOUS
  <2> QED
    BY <1>1, <2>1 DEF IndInv, RowsMade, MadeByLogin
<1>4. row.id \notin Ids({s \in sessions : ~s.blocked}) \cup Ids({s \in sessions : s.blocked})
  BY <1>3 DEF Ids
<1>5. Ids({s \in sessions' : ~s.blocked}) = Ids({s \in sessions : ~s.blocked}) \cup {row.id}
  BY <1>1, <1>2 DEF Ids
<1>6. Ids({s \in sessions' : s.blocked}) = Ids({s \in sessions : s.blocked})
  BY <1>1, <1>2 DEF Ids
<1>7. Lifecycle!Open(row.id)
  BY <1>4, <1>5, <1>6 DEF Lifecycle!Open
<1>8. row.id \in Req \X Purpose
  BY <1>2 DEF Purpose
<1> QED
  BY <1>7, <1>8 DEF Lifecycle!Next

LEMMA RevokeStep ==
  ASSUME IndInv, NEW ids, sessions' = Blocked(ids)
  PROVE  Lifecycle!Next
<1>0. PICK gone : gone = Ids({s \in sessions : ~s.blocked}) \cap ids
  BY Zenon
<1>1. /\ \A t \in sessions' : \E s \in sessions :
           SameRow(s, t) /\ (t.blocked <=> s.blocked \/ s.id \in ids)
      /\ \A s \in sessions : \E t \in sessions' :
           SameRow(s, t) /\ (t.blocked <=> s.blocked \/ s.id \in ids)
  BY BlockedRows DEF IndInv
<1>2. \A s, t \in sessions : s.id = t.id => s = t
  BY DEF IndInv, TypeOK
<1>3. Ids({s \in sessions' : ~s.blocked}) = Ids({s \in sessions : ~s.blocked}) \ gone
  BY <1>0, <1>1, <1>2 DEF Ids, SameRow
<1>4. Ids({s \in sessions' : s.blocked}) = Ids({s \in sessions : s.blocked}) \cup gone
  BY <1>0, <1>1, <1>2 DEF Ids, SameRow
<1>5. gone \subseteq Ids({s \in sessions : ~s.blocked})
  BY <1>0
<1>6. Lifecycle!Revoke(gone)
  BY <1>3, <1>4, <1>5 DEF Lifecycle!Revoke
<1> QED
  BY <1>5, <1>6 DEF Lifecycle!Next

(* Whatever the handlers race with, a session opens once, is revoked at most
   once and stays so (db/query/session.sql). *)
THEOREM SessionsImplementLifecycle == Spec => RefinesLifecycle
<1>1. Init => Lifecycle!Init
  BY DEF Init, Lifecycle!Init, Ids
<1>2. IndInv /\ [Next]_vars => [Lifecycle!Next]_(Lifecycle!vars)
  <2> SUFFICES ASSUME IndInv, [Next]_vars, sessions' # sessions
               PROVE  Lifecycle!Next
    BY DEF Lifecycle!vars
  <2>1. PICK r \in Req : CreateSession(r) \/ BlockSession(r) \/ BlockUserSessions(r)
    BY DEF Next, vars, loginUser, LoginUser, SignIn, SignInRefused, renewAccessToken, logout,
           logoutAll, CreateRefreshToken, VerifyRefreshToken, GetSession, CheckRenewal,
           CreateToken, CheckSession, ReadOpenSessions, Fails, Tick
  <2>2. CASE CreateSession(r)
    BY <2>2, OpenStep
  <2>3. CASE BlockSession(r) \/ BlockUserSessions(r)
    BY <2>3, RevokeStep DEF BlockSession, BlockUserSessions
  <2> QED
    BY <2>1, <2>2, <2>3
<1> QED
  BY <1>1, <1>2, Invariance, PTL DEF Spec, RefinesLifecycle, Lifecycle!Spec

-----------------------------------------------------------------------------
(* What every step has in common.                                          *)

(* A token was sent by the request that made it, with a 200. *)
FromMaker(token) ==
  LET m == token.id[1]
  IN  \/ Ok(m, "login") /\ token \in {refresh[m], access[m]}
      \/ Ok(m, "renew") /\ token = access[m]

(* The steps of request r. *)
ActionOf(r) ==
  \/ \E u \in User : loginUser(r, u) \/ LoginUser(r, u)
  \/ \E token \in issued \cup {NoToken} : renewAccessToken(r, token)
  \/ \E bearer \in issued, token \in issued \cup {NoToken} : logout(r, bearer, token)
  \/ \E bearer \in issued : logoutAll(r, bearer)
  \/ CreateRefreshToken(r) \/ CreateSession(r)
  \/ VerifyRefreshToken(r) \/ GetSession(r) \/ CheckRenewal(r) \/ CreateToken(r)
  \/ CheckSession(r) \/ BlockSession(r)
  \/ ReadOpenSessions(r) \/ BlockUserSessions(r) \/ Fails(r)

(* Time passes, or nothing happens. *)
Waits ==
  /\ UNCHANGED <<Kept, sessions, issued, pc, access, seen, resp>>
  /\ now' \in {now, now + 1}

LEMMA StepsOfRequests ==
  ASSUME [Next]_vars
  PROVE  (\E r \in Req : ActionOf(r)) \/ Waits
<1>1. CASE Tick \/ UNCHANGED vars
  BY <1>1 DEF Tick, vars, Kept, Waits
<1>2. CASE Next /\ ~Tick
  BY <1>2 DEF Next, ActionOf
<1> QED
  BY <1>1, <1>2

(* Such a step leaves the others alone, remembers the table when
   it comes in, and sends only tokens of its own making. *)
StepOf(r) ==
  /\ Frame(r) /\ now' = now
  /\ pc[r] = "idle" => earlier'[r] = sessions
  /\ pc[r] # "idle" => earlier'[r] = earlier[r]
  /\ \A token \in issued' : token \in issued \/ (token.id[1] = r /\ FromMaker(token)')

LEMMA IncomingStep ==
  ASSUME IndInv, NEW r \in Req, NEW o, NEW u, NEW token, Receive(r, o, u, token),
         UNCHANGED <<now, sessions, issued, seen>>, OnlyAt(r)
  PROVE  StepOf(r)
BY DEF StepOf, Frame, SameRow, Receive, OnlyAt, IndInv, TypeOK

LEMMA HandlerStep ==
  ASSUME IndInv, NEW r \in Req, pc[r] \notin {"idle", "done"},
         UNCHANGED <<op, user, earlier, now, issued>>, OnlyAt(r),
         \A q \in Req \ {r} :
           seen'[q] = seen[q] /\ refresh'[q] = refresh[q] /\ checked'[q] = checked[q],
         \A s \in sessions : \E t \in sessions' : SameRow(s, t)
  PROVE  StepOf(r)
BY DEF StepOf, Frame, OnlyAt, IndInv, TypeOK

LEMMA RespondAt ==
  ASSUME IndInv, NEW r \in Req, NEW status, NEW revoked, Respond(r, status, revoked)
  PROVE  /\ pc' = [pc EXCEPT ![r] = pc'[r]] /\ resp' = [resp EXCEPT ![r] = resp'[r]]
         /\ pc'[r] = "done" /\ resp'[r].status = status
BY DEF Respond, Goto, Answer, IndInv, TypeOK

LEMMA GotoAt ==
  ASSUME IndInv, NEW r \in Req, NEW point, Goto(r, point), UNCHANGED resp
  PROVE  pc' = [pc EXCEPT ![r] = pc'[r]] /\ resp' = [resp EXCEPT ![r] = resp'[r]]
BY DEF Goto, IndInv, TypeOK

LEMMA EveryStep ==
  ASSUME IndInv, NEW r \in Req, ActionOf(r)
  PROVE  StepOf(r)
<1> USE DEF OnlyAt
<1>0. access = [access EXCEPT ![r] = access[r]]
  BY DEF IndInv, TypeOK
<1>1. ASSUME NEW u \in User, SignIn(r, u) PROVE StepOf(r)
  <2>1. access' = [access EXCEPT ![r] = access'[r]]
    BY <1>1 DEF SignIn, IndInv, TypeOK
  <2> QED
    BY <1>1, <2>1, GotoAt, IncomingStep DEF SignIn
<1>2. ASSUME NEW u \in User, NEW S, SignInRefused(r, u, S) PROVE StepOf(r)
  BY <1>0, <1>2, RespondAt, IncomingStep DEF SignInRefused
<1>3. ASSUME NEW token, renewAccessToken(r, token) \/ logoutAll(r, token)
      PROVE  StepOf(r)
  BY <1>0, <1>3, RespondAt, GotoAt, IncomingStep DEF renewAccessToken, logoutAll
<1>4. ASSUME NEW bearer, NEW token, logout(r, bearer, token) PROVE StepOf(r)
  BY <1>0, <1>4, RespondAt, GotoAt, IncomingStep DEF logout
<1>5. \A s \in sessions : SameRow(s, s)
  BY DEF SameRow
<1>6. ASSUME \/ VerifyRefreshToken(r) \/ GetSession(r) \/ CheckRenewal(r) \/ CheckSession(r)
             \/ ReadOpenSessions(r) \/ Fails(r)
      PROVE  StepOf(r)
  <2>1. /\ pc[r] \notin {"idle", "done"}
        /\ UNCHANGED <<op, user, refresh, earlier, now, sessions, issued, access>>
        /\ \A q \in Req \ {r} : seen'[q] = seen[q] /\ checked'[q] = checked[q]
    BY <1>6 DEF VerifyRefreshToken, GetSession, CheckRenewal, CheckSession, ReadOpenSessions, Fails,
       Kept, IndInv, TypeOK
  <2>2. \/ \E status, revoked : Respond(r, status, revoked)
        \/ \E point : Goto(r, point) /\ UNCHANGED resp
    BY <1>6 DEF VerifyRefreshToken, GetSession, CheckRenewal, CheckSession, ReadOpenSessions, Fails
  <2>3. pc' = [pc EXCEPT ![r] = pc'[r]] /\ resp' = [resp EXCEPT ![r] = resp'[r]]
    BY <2>2, RespondAt, GotoAt
  <2> QED
    BY <1>0, <1>5, <2>1, <2>3, HandlerStep
<1>7. ASSUME BlockSession(r) \/ BlockUserSessions(r) PROVE StepOf(r)
  <2>1. /\ pc[r] \notin {"idle", "done"}
        /\ UNCHANGED <<op, user, refresh, earlier, checked, now, issued, access, seen>>
        /\ \E status, revoked : Respond(r, status, revoked)
    BY <1>7 DEF BlockSession, BlockUserSessions, Kept
  <2>2. \E ids : sessions' = Blocked(ids)
    BY <1>7 DEF BlockSession, BlockUserSessions
  <2>3. \A s \in sessions : \E t \in sessions' : SameRow(s, t)
    BY <2>2, BlockedRows DEF IndInv
  <2> QED
    BY <1>0, <2>1, <2>3, RespondAt, HandlerStep
<1>10. ASSUME CreateRefreshToken(r) PROVE StepOf(r)
  <2>1. /\ pc[r] = "createRefreshToken"
        /\ UNCHANGED <<op, user, earlier, checked, now, sessions, issued, access, seen, resp>>
        /\ \A q \in Req \ {r} : refresh'[q] = refresh[q]
    BY <1>10 DEF CreateRefreshToken, IndInv, TypeOK
  <2>2. pc' = [pc EXCEPT ![r] = pc'[r]] /\ resp' = [resp EXCEPT ![r] = resp'[r]]
    BY <1>10, <2>1, GotoAt DEF CreateRefreshToken
  <2> QED
    BY <1>0, <1>5, <2>1, <2>2, HandlerStep
<1>8. ASSUME CreateSession(r) PROVE StepOf(r)
  <2>1. /\ pc[r] = "createSession" /\ UNCHANGED <<Kept, now, access, seen>>
        /\ sessions \subseteq sessions'
        /\ op[r] = "login" /\ refresh[r].id = <<r, "refresh">> /\ access[r].id = <<r, "access">>
    BY <1>8, StateOf DEF CreateSession, Stage
  <2>2. Frame(r)
    BY <1>5, <1>8, <2>1, RespondAt DEF CreateSession, Frame, Kept, IndInv, TypeOK
  <2>3. CASE Respond(r, 200, {}) /\ issued' = issued \cup {refresh[r], access[r]}
    <3>1. Ok(r, "login")'
      <4>1. resp'[r].status = 200
        BY <2>3, RespondAt
      <4>2. op'[r] = "login"
        BY <2>1 DEF Kept
      <4> QED
        BY <4>1, <4>2 DEF Ok
    <3>2. refresh[r].id[1] = r /\ access[r].id[1] = r
      BY <2>1
    <3> QED
      BY <2>1, <2>2, <2>3, <3>1, <3>2 DEF StepOf, FromMaker, Kept
  <2>4. CASE UNCHANGED issued
    BY <2>1, <2>2, <2>4 DEF StepOf, Kept
  <2> QED
    BY <1>8, <2>3, <2>4 DEF CreateSession
<1>9. ASSUME CreateToken(r) PROVE StepOf(r)
  <2>1. /\ pc[r] = "createToken" /\ UNCHANGED <<Kept, now, sessions, seen>> /\ op[r] = "renew"
        /\ access' = [access EXCEPT ![r] =
                        NewPayload(r, "access", refresh[r].username, AccessTokenDuration)]
        /\ issued' = issued \cup {access'[r]}
        /\ Respond(r, 200, {})
    BY <1>9, StateOf DEF CreateToken, Stage
  <2>2. access'[r].id[1] = r
    BY <2>1 DEF NewPayload, IndInv, TypeOK
  <2>3. Ok(r, "renew")'
    <3>1. resp'[r].status = 200
      BY <2>1, RespondAt
    <3>2. op'[r] = "renew"
      BY <2>1 DEF Kept
    <3> QED
      BY <3>1, <3>2 DEF Ok
  <2>4. Frame(r)
    BY <1>5, <2>1, RespondAt DEF Frame, Kept, IndInv, TypeOK
  <2> QED
    BY <2>1, <2>2, <2>3, <2>4 DEF StepOf, FromMaker, Kept
<1> QED
  BY <1>1, <1>2, <1>3, <1>4, <1>6, <1>7, <1>8, <1>9, <1>10 DEF ActionOf, loginUser, LoginUser

-----------------------------------------------------------------------------
(* The tokens of a session.                                                *)

(* A sign-in makes two tokens of one user, the access token expiring no later
   than its duration after the refresh token. *)
LoginPair(r) ==
  /\ pc[r] = "createRefreshToken" =>
       access[r].username = user[r] /\ access[r].expires <= now + AccessTokenDuration
  /\ pc[r] = "createSession" \/ Ok(r, "login") =>
       /\ access[r].username = refresh[r].username
       /\ access[r].expires <= refresh[r].expires + AccessTokenDuration

TokensHaveMakers ==
  /\ \A token \in issued : FromMaker(token)
  /\ \A r \in Req : LoginPair(r)

(* SignIn and CreateRefreshToken make such a pair, in this order, and
   CreateSession sends it unchanged. *)
LEMMA PairStep ==
  ASSUME IndInv, TokensHaveMakers, NEW r \in Req, ActionOf(r)
  PROVE  LoginPair(r)'
<1>1. /\ DOMAIN pc = Req /\ DOMAIN op = Req /\ DOMAIN resp = Req /\ DOMAIN access = Req
      /\ DOMAIN refresh = Req /\ DOMAIN user = Req
  BY DEF IndInv, TypeOK
<1>2. ASSUME NEW u \in User, SignIn(r, u) PROVE LoginPair(r)'
  <2>1. pc'[r] = "createRefreshToken" /\ user'[r] = u /\ now' = now /\ resp'[r] = resp[r]
        /\ access'[r] = NewPayload(r, "access", u, AccessTokenDuration) /\ pc[r] = "idle"
    BY <1>1, <1>2 DEF SignIn, Receive, Goto
  <2>2. access'[r].username = u /\ access'[r].expires = now + AccessTokenDuration
    BY <2>1 DEF NewPayload
  <2>3. resp'[r].status = 0
    BY <2>1, StateOf
  <2>4. now \in Nat
    BY SessionsAssumption DEF IndInv, TypeOK
  <2> QED
    BY <2>1, <2>2, <2>3, <2>4, SessionsAssumption DEF LoginPair, Ok
<1>8. CASE CreateRefreshToken(r)
  <2>1. pc[r] = "createRefreshToken" /\ pc'[r] = "createSession" /\ access'[r] = access[r]
        /\ refresh'[r] = NewPayload(r, "refresh", user[r], RefreshTokenDuration)
    BY <1>1, <1>8 DEF CreateRefreshToken, Goto
  <2>2. refresh'[r].username = user[r] /\ refresh'[r].expires = now + RefreshTokenDuration
    BY <2>1 DEF NewPayload
  <2>3. access[r].username = user[r] /\ access[r].expires <= now + AccessTokenDuration
    BY <2>1 DEF TokensHaveMakers, LoginPair
  <2>4. now \in Nat /\ access[r].expires \in Nat
    BY <2>1, StateOf, SessionsAssumption DEF Stage, Tokens, IndInv, TypeOK
  <2>5. access'[r].expires <= refresh'[r].expires + AccessTokenDuration
    BY <2>1, <2>2, <2>3, <2>4, SessionsAssumption
  <2> QED
    BY <2>1, <2>2, <2>3, <2>5 DEF LoginPair
<1>3. ASSUME NEW u \in User, loginUser(r, u) \/ LoginUser(r, u), ~SignIn(r, u) PROVE LoginPair(r)'
  <2>1. PICK status \in {400, 401, 403, 404, 500} : Respond(r, status, {})
    BY <1>3 DEF loginUser, LoginUser, SignInRefused
  <2>2. pc'[r] = "done" /\ resp'[r].status # 200
    BY <2>1, RespondAt
  <2> QED
    BY <2>2 DEF LoginPair, Ok
<1>4. ASSUME NEW token, NEW bearer,
             renewAccessToken(r, token) \/ logoutAll(r, bearer) \/ logout(r, bearer, token)
      PROVE  LoginPair(r)'
  <2>1. op'[r] # "login"
    BY <1>1, <1>4 DEF renewAccessToken, logoutAll, logout, Receive
  <2>2. pc'[r] \in {"done", "verifyToken", "getSession", "readOpenSessions"}
    BY <1>1, <1>4 DEF renewAccessToken, logoutAll, logout, Respond, Goto
  <2> QED
    BY <2>1, <2>2 DEF LoginPair, Ok
<1>5. CASE CreateSession(r)
  <2>1. pc[r] = "createSession" /\ UNCHANGED <<access, refresh>> /\ pc'[r] = "done"
    BY <1>1, <1>5 DEF CreateSession, Kept, Respond, Goto
  <2> QED
    BY <2>1 DEF TokensHaveMakers, LoginPair
<1>6. CASE \/ VerifyRefreshToken(r) \/ GetSession(r) \/ CheckRenewal(r) \/ CreateToken(r)
           \/ CheckSession(r) \/ BlockSession(r) \/ ReadOpenSessions(r) \/ BlockUserSessions(r)
  <2>1. op[r] # "login" /\ UNCHANGED op
    BY <1>6, StateOf DEF VerifyRefreshToken, GetSession, CheckRenewal, CreateToken, CheckSession,
       BlockSession, ReadOpenSessions, BlockUserSessions, Stage, Kept
  <2>2. pc'[r] \notin {"createRefreshToken", "createSession"}
    BY <1>1, <1>6 DEF VerifyRefreshToken, GetSession, CheckRenewal, CreateToken, CheckSession,
       BlockSession, ReadOpenSessions, BlockUserSessions, Respond, Goto
  <2> QED
    BY <2>1, <2>2 DEF LoginPair, Ok
<1>7. CASE Fails(r)
  <2>1. pc'[r] = "done" /\ resp'[r].status = 500
    BY <1>7, RespondAt DEF Fails
  <2> QED
    BY <2>1 DEF LoginPair, Ok
<1> QED
  BY <1>2, <1>3, <1>4, <1>5, <1>6, <1>7, <1>8 DEF ActionOf

LEMMA MakersStep ==
  ASSUME IndInv, TokensHaveMakers, [Next]_vars
  PROVE  TokensHaveMakers'
<1>1. CASE Waits
  <2>1. \A token \in issued' : FromMaker(token)'
    BY <1>1 DEF Waits, TokensHaveMakers, FromMaker, Ok, Kept
  <2>2. ASSUME NEW r \in Req PROVE LoginPair(r)'
    <3>1. LoginPair(r)
      BY DEF TokensHaveMakers
    <3>2. CASE pc[r] = "createRefreshToken"
      <4>1. now \in Nat /\ access[r].expires \in Nat
        BY <3>2, StateOf, SessionsAssumption DEF Stage, Tokens, IndInv, TypeOK
      <4>2. access'[r].expires <= now' + AccessTokenDuration
        BY <1>1, <3>1, <3>2, <4>1, SessionsAssumption DEF Waits, LoginPair
      <4> QED
        BY <1>1, <3>1, <3>2, <4>2 DEF Waits, LoginPair, Ok, Kept
    <3>3. CASE pc[r] # "createRefreshToken"
      BY <1>1, <3>1, <3>3 DEF Waits, LoginPair, Ok, Kept
    <3> QED
      BY <3>2, <3>3
  <2> QED
    BY <2>1, <2>2 DEF TokensHaveMakers
<1>2. ASSUME NEW r \in Req, ActionOf(r) PROVE \A token \in issued' : FromMaker(token)'
  <2>1. SUFFICES ASSUME NEW token \in issued PROVE FromMaker(token)'
    BY <1>2, EveryStep DEF StepOf
  <2> DEFINE m == token.id[1]
  <2>2. m \in Req
    BY DEF IndInv, TypeOK, Tokens
  <2>3. FromMaker(token)
    BY DEF TokensHaveMakers
  <2>4. pc[m] = "done"
    BY <2>2, <2>3, StateOf DEF FromMaker, Ok, Stage
  <2>5. m # r
    BY <1>2, <2>4, EveryStep DEF StepOf, Frame
  <2> QED
    BY <1>2, <2>2, <2>3, <2>5, EveryStep DEF StepOf, Frame, FromMaker, Ok
<1>3. ASSUME NEW r \in Req, ActionOf(r) PROVE \A q \in Req \ {r} : LoginPair(q)'
  BY <1>3, EveryStep DEF StepOf, Frame, TokensHaveMakers, LoginPair, Ok
<1>4. ASSUME NEW r \in Req, ActionOf(r) PROVE LoginPair(r)'
  BY <1>4, PairStep
<1> QED
  BY <1>1, <1>2, <1>3, <1>4, StepsOfRequests DEF TokensHaveMakers

(* Every token a client was sent belongs to a session of its user and ends no
   later than AccessTokenDuration after that session does, plus the time that
   its renewal took between checking the session (token.go:63) and making the
   token (token.go:69): renewing never extends a session, and a refresh token
   that is used as a bearer token is no exception. *)
THEOREM LifetimeBounded == Spec => []SessionLifetime
<1>1. Init => TokensHaveMakers
  BY DEF Init, TokensHaveMakers, LoginPair, Ok
<1>2. IndInv /\ TokensHaveMakers /\ [Next]_vars => TokensHaveMakers'
  BY MakersStep
<1>3. IndInv /\ TokensHaveMakers => SessionLifetime
  <2>1. SUFFICES ASSUME IndInv, TokensHaveMakers, NEW token \in issued
                 PROVE  \E s \in sessions :
                          /\ s.refreshToken = refresh[token.id[1]]
                          /\ s.username = token.username
                          /\ token.expires
                               <= s.expires + AccessTokenDuration + Overrun(token.id[1])
    BY DEF SessionLifetime
  <2> DEFINE m == token.id[1]
  <2>2. m \in Req /\ token.expires \in Nat /\ token \in Tokens
    BY <2>1, SessionsAssumption DEF IndInv, TypeOK, Tokens
  <2>3. FromMaker(token) /\ LoginPair(m) /\ Outcome(m)
    BY <2>1, <2>2 DEF TokensHaveMakers, IndInv, Local
  <2> HIDE DEF m
  <2>4. CASE Ok(m, "login") /\ token \in {refresh[m], access[m]}
    <3>1. PICK s \in sessions : s.refreshToken = refresh[m]
      BY <2>3, <2>4 DEF Outcome
    <3>2. refresh[m].username = s.username /\ refresh[m].expires = s.expires /\ s.expires \in Nat
      BY <2>1, <3>1, SessionsAssumption DEF IndInv, RowsMade, MadeByLogin, Rows
    <3>3. s.username = token.username /\ token.expires <= s.expires + AccessTokenDuration
      BY <2>2, <2>3, <2>4, <3>2, SessionsAssumption DEF LoginPair
    <3>4. Overrun(m) = 0
      BY <2>4 DEF Overrun, Ok
    <3>5. token.expires <= s.expires + AccessTokenDuration + Overrun(m)
      BY <2>2, <3>2, <3>3, <3>4, SessionsAssumption
    <3> QED
      BY <3>1, <3>3, <3>5 DEF m
  <2>5. CASE Ok(m, "renew") /\ token = access[m]
    <3>1. PICK e \in earlier[m] : e.refreshToken = refresh[m] /\ e.username = token.username
      BY <2>3, <2>5 DEF Outcome
    <3>2. PICK s \in sessions :
            /\ s.refreshToken = refresh[m]
            /\ token.expires <= s.expires + AccessTokenDuration + Overrun(m)
      BY <2>3, <2>5 DEF Outcome, Overrun, Ok
    <3>3. MadeByLogin(e) /\ MadeByLogin(s)
      BY <2>1, <2>2, <3>1, StateOf DEF IndInv, RowsMade, Snapshots
    <3>4. s.username = token.username
      BY <3>1, <3>2, <3>3 DEF MadeByLogin
    <3> QED
      BY <3>2, <3>4 DEF m
  <2> QED
    BY <2>3, <2>4, <2>5 DEF FromMaker, m
<1> QED
  BY <1>1, <1>2, <1>3, InitIndInv, Invariance, PTL DEF Spec

-----------------------------------------------------------------------------
(* Signing out, over time.                                                 *)

(* Request q has not come in yet, or came when the session was revoked. *)
CameAfter(q, id) ==
  /\ IsBlocked(id)
  /\ \/ pc[q] = "idle"
     \/ \A e \in earlier[q] : e.id = id => e.blocked

RenewedFrom(q, id) == Ok(q, "renew") /\ refresh[q].id = id

NoLaterRenewal(q, id) ==
  [](IsBlocked(id) /\ pc[q] = "idle" => []~RenewedFrom(q, id))

(* Once a session is revoked, a request that comes in afterwards never gets a
   token from it, however long its handler takes and whatever it races with:
   a sign-out is never undone for later requests (api/token.go, api/logout.go). *)
THEOREM SignedOutStaysOut ==
  Spec => \A q \in Req, id \in Req \X Purpose : NoLaterRenewal(q, id)
<1>1. ASSUME NEW q \in Req, NEW id \in Req \X Purpose PROVE Spec => NoLaterRenewal(q, id)
  <2>1. IsBlocked(id) /\ pc[q] = "idle" => CameAfter(q, id)
    BY DEF CameAfter
  <2>2. IndInv /\ CameAfter(q, id) => ~RenewedFrom(q, id)
    <3> SUFFICES ASSUME IndInv, CameAfter(q, id), RenewedFrom(q, id) PROVE FALSE
      OBVIOUS
    <3>1. pc[q] # "idle"
      BY StateOf DEF RenewedFrom, Ok, Stage
    <3>2. PICK e \in earlier[q] : e.refreshToken = refresh[q] /\ ~e.blocked
      BY DEF IndInv, Local, Outcome, RenewedFrom
    <3>3. e.id = id
      BY <3>2, StateOf DEF Snapshots, MadeByLogin, RenewedFrom
    <3> QED
      BY <3>1, <3>2, <3>3 DEF CameAfter
  <2>3. IndInv /\ CameAfter(q, id) /\ [Next]_vars => CameAfter(q, id)'
    <3> SUFFICES ASSUME IndInv, CameAfter(q, id), [Next]_vars PROVE CameAfter(q, id)'
      OBVIOUS
    <3>1. CASE Waits
      BY <3>1 DEF Waits, CameAfter, IsBlocked, Kept
    <3>2. ASSUME NEW r \in Req, ActionOf(r) PROVE CameAfter(q, id)'
      <4>1. StepOf(r)
        BY <3>2, EveryStep
      <4>2. IsBlocked(id)'
        BY <4>1, BlockedKept DEF StepOf, CameAfter
      <4>3. CASE q # r
        BY <4>1, <4>2, <4>3 DEF StepOf, Frame, CameAfter
      <4>4. CASE q = r /\ pc[q] = "idle"
        <5>1. \A e \in sessions : e.id = id => e.blocked
          BY DEF CameAfter, IsBlocked, IndInv, TypeOK
        <5> QED
          BY <4>1, <4>2, <4>4, <5>1 DEF StepOf, CameAfter
      <4>5. CASE q = r /\ pc[q] # "idle"
        BY <4>1, <4>2, <4>5 DEF StepOf, CameAfter
      <4> QED
        BY <4>3, <4>4, <4>5
    <3> QED
      BY <3>1, <3>2, StepsOfRequests
  <2> QED
    BY <2>1, <2>2, <2>3, Invariance, PTL DEF Spec, NoLaterRenewal
<1> QED
  BY <1>1
=============================================================================
