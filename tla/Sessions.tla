------------------------------ MODULE Sessions ------------------------------
(***************************************************************************)
(* Signing in and out: loginUser (api/user.go, gapi/rpc_login_user.go),    *)
(* renewAccessToken (api/token.go), logout and logoutAll (api/logout.go),  *)
(* over the table sessions and the tokens of the token maker.              *)
(*                                                                         *)
(* Requests run concurrently, each in its own goroutine.  Every query is a *)
(* transaction of its own and none spans a handler, so between two steps   *)
(* of one handler the others take theirs and time passes.                  *)
(***************************************************************************)
EXTENDS Integers

CONSTANTS
  User,                  \* the users that can sign in
  Req,                   \* the requests of a run
  AccessTokenDuration,   \* config.AccessTokenDuration
  RefreshTokenDuration,  \* config.RefreshTokenDuration
  MaxTime,               \* bound: the clock of a run stops here
  NoUser, NoToken        \* what a request that has none holds

VARIABLES
  now,        \* time.Now()
  sessions,   \* the table sessions
  issued,     \* the tokens that clients have been sent
  op, pc,     \* which handler serves a request, and what it does next
  user,       \* the user who signs in, or whom the access token names
  refresh,    \* the refresh token it was sent, or is about to send
  access,     \* the access token it is about to send
  seen,       \* the rows of sessions it has read
  resp,       \* its answer, and when it was given
  earlier,    \* history: the table sessions when the request came
  checked     \* history: when a renewal compared its session with the clock

vars == <<now, sessions, issued, op, pc, user, refresh, access, seen, resp, earlier, checked>>

ASSUME SessionsAssumption ==
  /\ AccessTokenDuration \in Nat
  /\ RefreshTokenDuration \in Nat
  /\ MaxTime \in Nat
  /\ NoUser \notin User

(***************************************************************************)
(* A token is its payload, which only the server can encrypt.  The random  *)
(* uuid of a payload is represented by the request that makes the token    *)
(* and a purpose; the code only ever compares it, so nothing in a token    *)
(* says what it is for.                                                    *)
(***************************************************************************)
NewPayload(r, purpose, u, duration) ==
  [id |-> <<r, purpose>>, username |-> u, expires |-> now + duration]

VerifyToken(token) == token \in issued /\ ~(now > token.expires)

(* The row that loginUser stores: its key is the id of the refresh token. *)
SessionRow(token) ==
  [id |-> token.id, username |-> token.username, refreshToken |-> token,
   blocked |-> FALSE, expires |-> token.expires]

(* UPDATE sessions SET is_blocked = true, for the rows with these ids. *)
Blocked(ids) ==
  {IF s.id \in ids THEN [s EXCEPT !.blocked = TRUE] ELSE s : s \in sessions}

Answer(status, revoked) == [status |-> status, revoked |-> revoked, time |-> now]

Init ==
  /\ now = 0
  /\ sessions = {} /\ issued = {}
  /\ op = [r \in Req |-> "none"]
  /\ pc = [r \in Req |-> "idle"]
  /\ user = [r \in Req |-> NoUser]
  /\ refresh = [r \in Req |-> NoToken]
  /\ access = [r \in Req |-> NoToken]
  /\ seen = [r \in Req |-> {}]
  /\ resp = [r \in Req |-> Answer(0, {})]
  /\ earlier = [r \in Req |-> {}]
  /\ checked = [r \in Req |-> 0]

-----------------------------------------------------------------------------
Goto(r, s) == pc' = [pc EXCEPT ![r] = s]

Respond(r, status, revoked) ==
  /\ Goto(r, "done")
  /\ resp' = [resp EXCEPT ![r] = Answer(status, revoked)]

(* Request r comes in and is served by handler o for user u. *)
Receive(r, o, u, token) ==
  /\ pc[r] = "idle"
  /\ op' = [op EXCEPT ![r] = o]
  /\ user' = [user EXCEPT ![r] = u]
  /\ refresh' = [refresh EXCEPT ![r] = token]
  /\ earlier' = [earlier EXCEPT ![r] = sessions]
  /\ UNCHANGED checked

(* What a request that goes on leaves alone. *)
Kept == <<op, user, refresh, earlier, checked>>

(* The password matches: both tokens are made before the session is stored,
   each by the clock of its own moment. *)
SignIn(r, u) ==
  /\ Receive(r, "login", u, NoToken)
  /\ access' = [access EXCEPT ![r] = NewPayload(r, "access", u, AccessTokenDuration)]
  /\ Goto(r, "createRefreshToken")
  /\ UNCHANGED <<now, sessions, issued, seen, resp>>

CreateRefreshToken(r) ==
  /\ pc[r] = "createRefreshToken"
  /\ refresh' = [refresh EXCEPT ![r] = NewPayload(r, "refresh", user[r], RefreshTokenDuration)]
  /\ Goto(r, "createSession")
  /\ UNCHANGED <<now, sessions, issued, op, user, access, seen, resp, earlier, checked>>

(* Refused with one of these statuses, before there is a token. *)
SignInRefused(r, u, statuses) ==
  /\ Receive(r, "login", u, NoToken)
  /\ \E status \in statuses : Respond(r, status, {})
  /\ UNCHANGED <<now, sessions, issued, access, seen>>

(* Over HTTP, and over gRPC with its codes written as their HTTP statuses:
   bad request, wrong password, unknown user, failed query. *)
loginUser(r, u) == SignIn(r, u) \/ SignInRefused(r, u, {400, 401, 404, 500})
LoginUser(r, u) == SignIn(r, u) \/ SignInRefused(r, u, {400, 403, 404, 500})

(* Mutant: the error of CreateSession is ignored. *)
CreateSessionIgnored(r) ==
  /\ pc[r] = "createSession"
  /\ sessions' \in {sessions, sessions \cup {SessionRow(refresh[r])}}
  /\ Respond(r, 200, {})
  /\ issued' = issued \cup {refresh[r], access[r]}
  /\ UNCHANGED <<Kept, now, access, seen>>

(* The client is sent the tokens only with a 200; a 500 may also mean that
   the row is stored and only the answer to the INSERT was lost. *)
CreateSession(r) ==
  /\ pc[r] = "createSession"
  /\ sessions' = sessions \cup {SessionRow(refresh[r])}
  /\ \/ Respond(r, 200, {}) /\ issued' = issued \cup {refresh[r], access[r]}
     \/ Respond(r, 500, {}) /\ UNCHANGED issued
  /\ UNCHANGED <<Kept, now, access, seen>>

(* Requests with a token: VerifyToken first, then the session is read.  A body
   that does not bind brings none. *)
renewAccessToken(r, token) ==
  /\ \/ token = NoToken /\ Receive(r, "renew", NoUser, token) /\ Respond(r, 400, {})
     \/ /\ token # NoToken /\ Receive(r, "renew", token.username, token)
        /\ IF VerifyToken(token) THEN Goto(r, "getSession") /\ UNCHANGED resp
                                 ELSE Respond(r, 401, {})
  /\ UNCHANGED <<now, sessions, issued, access, seen>>

(* authMiddleware verifies the bearer, then logout the refresh token. *)
logout(r, bearer, token) ==
  /\ Receive(r, "logout", bearer.username, token)
  /\ IF VerifyToken(bearer) THEN Goto(r, "verifyToken") /\ UNCHANGED resp
                            ELSE Respond(r, 401, {})
  /\ UNCHANGED <<now, sessions, issued, access, seen>>

VerifyRefreshToken(r) ==
  /\ pc[r] = "verifyToken"
  /\ IF refresh[r] = NoToken THEN Respond(r, 400, {})
     ELSE IF VerifyToken(refresh[r]) THEN Goto(r, "getSession") /\ UNCHANGED resp
     ELSE Respond(r, 401, {})
  /\ UNCHANGED <<Kept, now, sessions, issued, access, seen>>

logoutAll(r, bearer) ==
  /\ Receive(r, "logoutAll", bearer.username, NoToken)
  /\ IF VerifyToken(bearer) THEN Goto(r, "readOpenSessions") /\ UNCHANGED resp
                            ELSE Respond(r, 401, {})
  /\ UNCHANGED <<now, sessions, issued, access, seen>>

(* No row: 404.  The handler decides later on the row it has read now. *)
GetSession(r) ==
  /\ pc[r] = "getSession"
  /\ seen' = [seen EXCEPT ![r] = {s \in sessions : s.id = refresh[r].id}]
  /\ IF seen'[r] = {} THEN Respond(r, 404, {})
     ELSE Goto(r, IF op[r] = "renew" THEN "checkRenewal" ELSE "checkSession") /\ UNCHANGED resp
  /\ UNCHANGED <<Kept, now, sessions, issued, access>>

(* Mutants: renewAccessToken without one of its checks. *)
RenewsBlocked(r, s) ==
  s.username = refresh[r].username /\ s.refreshToken = refresh[r] /\ ~(now > s.expires)

RenewsExpired(r, s) ==
  ~s.blocked /\ s.username = refresh[r].username /\ s.refreshToken = refresh[r]

(* The session that was read allows the renewal. *)
Renews(r, s) ==
  /\ ~s.blocked
  /\ s.username = refresh[r].username
  /\ s.refreshToken = refresh[r]
  /\ ~(now > s.expires)

CheckRenewal(r) ==
  /\ pc[r] = "checkRenewal"
  /\ checked' = [checked EXCEPT ![r] = now]
  /\ \/ (\A s \in seen[r] : Renews(r, s)) /\ Goto(r, "createToken") /\ UNCHANGED resp
     \/ (\E s \in seen[r] : ~Renews(r, s)) /\ Respond(r, 401, {})
  /\ UNCHANGED <<now, sessions, issued, op, user, refresh, access, seen, earlier>>

(* NewPayload reads the clock again: the session may have ended since. *)
CreateToken(r) ==
  /\ pc[r] = "createToken"
  /\ access' = [access EXCEPT ![r] =
                  NewPayload(r, "access", refresh[r].username, AccessTokenDuration)]
  /\ issued' = issued \cup {access'[r]}
  /\ Respond(r, 200, {})
  /\ UNCHANGED <<Kept, now, sessions, seen>>

(* Mutant: any user may sign out a session. *)
CheckAnySession(r) ==
  /\ pc[r] = "checkSession"
  /\ \/ (\E s \in seen[r] : s.blocked) /\ Respond(r, 200, {})
     \/ (\A s \in seen[r] : ~s.blocked) /\ Goto(r, "blockSession") /\ UNCHANGED resp
  /\ UNCHANGED <<Kept, now, sessions, issued, access, seen>>

(* logout: the session must be the user's; a blocked one is a success. *)
CheckSession(r) ==
  /\ pc[r] = "checkSession"
  /\ \E s \in seen[r] :
       \/ s.username # user[r] /\ Respond(r, 401, {})
       \/ s.username = user[r] /\ s.blocked /\ Respond(r, 200, {})
       \/ s.username = user[r] /\ ~s.blocked /\ Goto(r, "blockSession") /\ UNCHANGED resp
  /\ UNCHANGED <<Kept, now, sessions, issued, access, seen>>

(* Mutant: the blocked session is stored as a second row. *)
BlockByInsert(r) ==
  /\ pc[r] = "blockSession"
  /\ sessions' = sessions \cup Blocked({refresh[r].id})
  /\ \E status \in {200, 500} : Respond(r, status, {})
  /\ UNCHANGED <<Kept, now, issued, access, seen>>

(* Mutant: SET is_blocked = NOT is_blocked. *)
ToggleSession(r) ==
  /\ pc[r] = "blockSession"
  /\ sessions' = {IF s.id = refresh[r].id THEN [s EXCEPT !.blocked = ~@] ELSE s : s \in sessions}
  /\ \E status \in {200, 500} : Respond(r, status, {})
  /\ UNCHANGED <<Kept, now, issued, access, seen>>

(* The UPDATE is done; a 500 means that only its answer was lost. *)
BlockSession(r) ==
  /\ pc[r] = "blockSession"
  /\ sessions' = Blocked({refresh[r].id})
  /\ \E status \in {200, 500} : Respond(r, status, {})
  /\ UNCHANGED <<Kept, now, issued, access, seen>>

OpenSessionsOf(u) == {s \in sessions : s.username = u /\ ~s.blocked}

(* The snapshot of BlockUserSessions: a session stored after it is missed. *)
ReadOpenSessions(r) ==
  /\ pc[r] = "readOpenSessions"
  /\ seen' = [seen EXCEPT ![r] = OpenSessionsOf(user[r])]
  /\ Goto(r, "blockUserSessions")
  /\ UNCHANGED <<Kept, now, sessions, issued, access, resp>>

Ids(S) == {s.id : s \in S}

(* Mutant: a row that another request has blocked meanwhile counts too. *)
BlockUserSessionsAgain(r) ==
  /\ pc[r] = "blockUserSessions"
  /\ sessions' = Blocked(Ids(seen[r]))
  /\ Respond(r, 200, Ids(seen[r])) \/ Respond(r, 500, {})
  /\ UNCHANGED <<Kept, now, issued, access, seen>>

(* Its effect: Postgres looks again at each row it locks, and skips the ones
   blocked since the snapshot.  RowsAffected counts the rest. *)
BlockUserSessions(r) ==
  /\ pc[r] = "blockUserSessions"
  /\ LET revoked == Ids(seen[r]) \cap Ids(OpenSessionsOf(user[r]))
     IN  /\ sessions' = Blocked(revoked)
         /\ Respond(r, 200, revoked) \/ Respond(r, 500, {})
  /\ UNCHANGED <<Kept, now, issued, access, seen>>

(* A query or CreateToken fails and has changed nothing. *)
Fails(r) ==
  /\ pc[r] \notin {"idle", "verifyToken", "checkRenewal", "checkSession", "done"}
  /\ Respond(r, 500, {})
  /\ UNCHANGED <<Kept, now, sessions, issued, access, seen>>

Tick ==
  /\ now < MaxTime
  /\ now' = now + 1
  /\ UNCHANGED <<Kept, sessions, issued, pc, access, seen, resp>>

Next ==
  \/ \E r \in Req, u \in User : loginUser(r, u) \/ LoginUser(r, u)
  \/ \E r \in Req, token \in issued \cup {NoToken} : renewAccessToken(r, token)
  \/ \E r \in Req, bearer \in issued, token \in issued \cup {NoToken} : logout(r, bearer, token)
  \/ \E r \in Req, bearer \in issued : logoutAll(r, bearer)
  \/ \E r \in Req :
       \/ CreateRefreshToken(r) \/ CreateSession(r)
       \/ VerifyRefreshToken(r) \/ GetSession(r) \/ CheckRenewal(r) \/ CreateToken(r)
       \/ CheckSession(r) \/ BlockSession(r)
       \/ ReadOpenSessions(r) \/ BlockUserSessions(r) \/ Fails(r)
  \/ Tick

Spec == Init /\ [][Next]_vars

-----------------------------------------------------------------------------
(* Properties.                                                             *)

Purpose == {"refresh", "access"}
Tokens == [id: Req \X Purpose, username: User,
           expires: 0..(MaxTime + AccessTokenDuration + RefreshTokenDuration)]
Rows == [id: Req \X Purpose, username: User, refreshToken: Tokens, blocked: BOOLEAN,
         expires: 0..(MaxTime + RefreshTokenDuration)]

(* Every variable has its type, and sessions.id is a primary key. *)
TypeOK ==
  /\ now \in 0..MaxTime
  /\ sessions \subseteq Rows
  /\ \A s, t \in sessions : s.id = t.id => s = t
  /\ issued \subseteq Tokens
  /\ op \in [Req -> {"none", "login", "renew", "logout", "logoutAll"}]
  /\ pc \in [Req -> {"idle", "createRefreshToken", "createSession", "verifyToken", "getSession",
                    "checkRenewal", "createToken", "checkSession", "blockSession",
                    "readOpenSessions", "blockUserSessions", "done"}]
  /\ user \in [Req -> User \cup {NoUser}]
  /\ refresh \in [Req -> Tokens \cup {NoToken}]
  /\ access \in [Req -> Tokens \cup {NoToken}]
  /\ seen \in [Req -> SUBSET Rows]
  /\ resp \in [Req -> [status: {0, 200, 400, 401, 403, 404, 500},
                      revoked: SUBSET (Req \X Purpose), time: 0..MaxTime]]
  /\ earlier \in [Req -> SUBSET Rows]
  /\ checked \in [Req -> 0..MaxTime]

Ok(r, o) == op[r] = o /\ resp[r].status = 200

(* A client that is signed in has a session that can be renewed and revoked:
   the stored row carries its refresh token, user and expiry. *)
SignedInMeansSession ==
  \A r \in Req : Ok(r, "login") =>
    \E s \in sessions : [s EXCEPT !.blocked = FALSE] = SessionRow(refresh[r])

(* Only an open session is renewed: it was open and the user's own when the
   request came, however long the handler took and whatever it raced with,
   so a request that comes after a sign-out never gets a token. *)
RenewalNeedsOpenSession ==
  \A r \in Req : Ok(r, "renew") =>
    \E s \in earlier[r] :
      s.refreshToken = refresh[r] /\ ~s.blocked /\ s.username = access[r].username

(* How long a renewal took from the check of its session to the new token. *)
Overrun(r) == IF op[r] = "renew" THEN resp[r].time - checked[r] ELSE 0

(* A session has an end that renewing cannot move: every token that a client
   was ever sent belongs to a session of the user it names, and none is
   accepted later than AccessTokenDuration after the expires_at of that
   session, whoever renewed it and whatever it is used for; but a renewal that
   is delayed between its two readings of the clock, one for the check and one
   for the new token, adds the delay. *)
SessionLifetime ==
  \A token \in issued :
    \E s \in sessions :
      /\ s.refreshToken = refresh[token.id[1]]
      /\ s.username = token.username
      /\ token.expires <= s.expires + AccessTokenDuration + Overrun(token.id[1])

(* A sign-out that was answered with success holds for good: of the session
   it named, or of all the sessions the user had when the request came. *)
SignOutHolds ==
  \A r \in Req :
    /\ Ok(r, "logout") => \E s \in sessions : s.id = refresh[r].id /\ s.blocked
    /\ Ok(r, "logoutAll") =>
         \A e \in earlier[r] : e.username = user[r] =>
           \E s \in sessions : s.id = e.id /\ s.blocked

(* A session is revoked only by a request of the user it belongs to
   (api/logout.go:56, README "Sessions and signing out"). *)
OnlyOwnSessions ==
  \A s \in sessions : s.blocked =>
    \E r \in Req : op[r] \in {"logout", "logoutAll"} /\ pc[r] = "done" /\ user[r] = s.username

(* sessions_revoked counts "how many were actually open" (db/query/session.sql):
   no session is counted by two sign-outs, and all that are counted are revoked. *)
CountedOnce ==
  \A r \in Req :
    /\ \A q \in Req \ {r} : resp[r].revoked \cap resp[q].revoked = {}
    /\ resp[r].revoked \subseteq Ids({s \in sessions : s.blocked})

(* Sessions is an implementation of SessionLifecycle, whose state is which rows
   are blocked: whatever the handlers race with, a session opens once, and a
   blocked one is never open again nor deleted. *)
Lifecycle == INSTANCE SessionLifecycle WITH
  Id <- Req \X Purpose,
  open <- Ids({s \in sessions : ~s.blocked}),
  revoked <- Ids({s \in sessions : s.blocked})

RefinesLifecycle == Lifecycle!Spec

(* "The exposure is bounded by ACCESS_TOKEN_DURATION" (api/logout.go:20): that
   long after a sign-out, authMiddleware accepts no token of the session. *)
ExposureBounded ==
  \A r \in Req : Ok(r, "logout") =>
    \A token \in issued :
      refresh[token.id[1]].id = refresh[r].id /\ VerifyToken(token)
        => now <= resp[r].time + AccessTokenDuration
=============================================================================
