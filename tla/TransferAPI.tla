----------------------------- MODULE TransferAPI -----------------------------
(***************************************************************************)
(* api/transfer.go: POST /transfers, from request to answer.  Every        *)
(* request is served by a goroutine of its own, which makes at most one    *)
(* call of the store; the call is named by the request, t \in Tx.          *)
(*                                                                         *)
(* Clients retry: the same request may come any number of times, at the    *)
(* same time or later, with the same Idempotency-Key, with another one or  *)
(* with none, and a key may come back on a different request.              *)
(***************************************************************************)
EXTENDS TransferStore

CONSTANTS
  Request,           \* the requests clients of a run send
  NoReq,             \* req[t] before the request arrives
  NoUser,            \* a request whose access token authMiddleware refuses
  LongKey,           \* an Idempotency-Key of more than 128 characters
  Currency,          \* the currencies util.IsSupportedCurrency knows
  AccountOwner,      \* accounts.owner
  AccountCurrency    \* accounts.currency

VARIABLES
  at,    \* where the handler of a request is
  req,   \* the request
  resp   \* its answer

apiVars == <<at, req, resp>>
allVars == <<vars, apiVars>>

Answer(status) == [status |-> status, body |-> NoBody, replay |-> FALSE]
NoAnswer == Answer(0)
Ok(body, replay) == [status |-> 200, body |-> body, replay |-> replay]

(* The SHA-256 of what is transferred: equal exactly for equal requests. *)
requestFingerprint(r) == <<r.from, r.to, r.amount, r.currency>>

(* The store call of a request; owner is the user of the access token. *)
ParamsOf(r) ==
  [from |-> r.from, to |-> r.to, amount |-> r.amount, owner |-> r.user,
   key |-> r.key, hash |-> requestFingerprint(r)]

(* The binding tags of transferRequest. *)
Binds(r) == r.from >= 1 /\ r.to >= 1 /\ r.amount > 0 /\ r.currency \in Currency

(* validAccount, when GetAccount answers: the refusal, or 0 for none. *)
validAccount(id, currency) ==
  IF id \notin Account THEN 404
  ELSE IF AccountCurrency[id] # currency THEN 400
  ELSE 0

(* Mutant: the owner of the debited account is not compared with the user. *)
RefusalIgnoringOwner(r) ==
  IF r.user = NoUser THEN 401
  ELSE IF ~Binds(r) \/ r.from = r.to THEN 400
  ELSE IF validAccount(r.from, r.currency) # 0 THEN validAccount(r.from, r.currency)
  ELSE IF validAccount(r.to, r.currency) # 0 THEN validAccount(r.to, r.currency)
  ELSE IF r.key = LongKey THEN 400
  ELSE 0

(* The first check of authMiddleware, createTransfer and
   createTransferIdempotent that refuses the request, as its status, or 0.
   An account's owner and currency never change, so the two reads of
   accounts can be one step. *)
Refusal(r) ==
  IF r.user = NoUser THEN 401
  ELSE IF ~Binds(r) \/ r.from = r.to THEN 400
  ELSE IF validAccount(r.from, r.currency) # 0 THEN validAccount(r.from, r.currency)
  ELSE IF AccountOwner[r.from] # r.user THEN 401
  ELSE IF validAccount(r.to, r.currency) # 0 THEN validAccount(r.to, r.currency)
  ELSE IF r.key = LongKey THEN 400
  ELSE 0

(* Every request that passes the checks is a call the store may get. *)
ASSUME ApiAssumption ==
  /\ \A r \in Request : Refusal(r) = 0 => ParamsOf(r) \in Arg
  /\ AccountOwner \in [Account -> Owner]
  /\ NoUser \notin Owner
  /\ LongKey \notin Key \cup {NoKey}

-----------------------------------------------------------------------------
Respond(t, answer) ==
  /\ at' = [at EXCEPT ![t] = "answered"]
  /\ resp' = [resp EXCEPT ![t] = answer]

Receive(t, r) ==
  /\ at[t] = "idle"
  /\ req' = [req EXCEPT ![t] = r]

(* Refused by a check, before the store is called. *)
Refuse(t, r) ==
  /\ Receive(t, r)
  /\ Refusal(r) # 0
  /\ Respond(t, Answer(Refusal(r)))
  /\ UNCHANGED vars

(* GetAccount fails: 500.  It has been reached, so the request binds. *)
GetAccountFails(t, r) ==
  /\ Receive(t, r)
  /\ r.user # NoUser /\ Binds(r) /\ r.from # r.to
  /\ Respond(t, Answer(500))
  /\ UNCHANGED vars

(* TransferTx without a key, IdempotentTransferTx with one. *)
CallStore(t, r) ==
  /\ Receive(t, r)
  /\ Refusal(r) = 0
  /\ BeginTx(t, ParamsOf(r))
  /\ at' = [at EXCEPT ![t] = "store"]
  /\ UNCHANGED resp

(* Mutant: every failed store call is the client's fault. *)
AnswerAlways400(t) == IF err[t] = "none" THEN Ok(ResultOf(t), FALSE) ELSE Answer(400)

(* The error of the store, as the handler maps it: only the overdraft is the
   client's fault. *)
StoreAnswer(t) ==
  CASE err[t] = "none" -> Ok(ResultOf(t), FALSE)
    [] err[t] = "balance_non_negative" -> Answer(400)
    [] OTHER -> Answer(500)

(* The store call returns: answer, or replay the response of a spent key. *)
StoreReturns(t) ==
  /\ at[t] = "store" /\ pc[t] = "done"
  /\ IF err[t] = "unique_violation" /\ req[t].key # NoKey
     THEN at' = [at EXCEPT ![t] = "replay"] /\ UNCHANGED resp
     ELSE Respond(t, StoreAnswer(t))
  /\ UNCHANGED <<vars, req>>

(* The rows GetIdempotencyKey finds: none or one. *)
GetIdempotencyKey(r) == {k \in keys : k.owner = r.user /\ k.key = r.key}

(* Mutant: the stored fingerprint is not compared. *)
ReplayWithoutComparing(r, stored) ==
  IF stored.body = NoBody THEN Answer(409) ELSE Ok(stored.body, TRUE)

(* Mutant: the answer is not marked with Idempotent-Replay. *)
ReplayUnmarked(r, stored) ==
  IF stored.hash # requestFingerprint(r) \/ stored.body = NoBody
  THEN Answer(409)
  ELSE Ok(stored.body, FALSE)

(* What replayIdempotentTransfer answers when it has found the stored row. *)
ReplayAnswer(r, stored) ==
  IF stored.hash # requestFingerprint(r) \/ stored.body = NoBody
  THEN Answer(409)
  ELSE Ok(stored.body, TRUE)

replayIdempotentTransfer(t) ==
  /\ at[t] = "replay"
  /\ Respond(t, IF GetIdempotencyKey(req[t]) = {} THEN Answer(500)
                ELSE ReplayAnswer(req[t], CHOOSE k \in GetIdempotencyKey(req[t]) : TRUE))
  /\ UNCHANGED <<vars, req>>

(* GetIdempotencyKey fails for a reason other than a missing row. *)
ReplayFails(t) ==
  /\ at[t] = "replay"
  /\ Respond(t, Answer(500))
  /\ UNCHANGED <<vars, req>>

(* The server dies while the handler is not inside of the store call; inside
   of it, that is the store's Crash. *)
HandlerCrash(t) ==
  /\ at[t] = "replay" \/ (at[t] = "store" /\ pc[t] = "done")
  /\ at' = [at EXCEPT ![t] = "crashed"]
  /\ UNCHANGED <<vars, req, resp>>

-----------------------------------------------------------------------------
ApiInit ==
  /\ Init
  /\ at = [t \in Tx |-> "idle"]
  /\ req = [t \in Tx |-> NoReq]
  /\ resp = [t \in Tx |-> NoAnswer]

Handler(t) == StoreReturns(t) \/ replayIdempotentTransfer(t)

ApiNext ==
  \/ \E t \in Tx, r \in Request : Refuse(t, r) \/ GetAccountFails(t, r) \/ CallStore(t, r)
  \/ \E t \in Tx : Handler(t) \/ ReplayFails(t) \/ HandlerCrash(t)
  \/ Progress /\ UNCHANGED apiVars

ApiSpec == ApiInit /\ [][ApiNext]_allVars

(* The store's fairness, and handlers that go on when they can. *)
ApiFairSpec ==
  /\ ApiSpec
  /\ Fairness
  /\ \A t \in Tx : WF_allVars(Handler(t))

-----------------------------------------------------------------------------
(* Properties.                                                             *)

(* Every variable has its type, and exactly the answered requests have an
   answer: no handler writes before it has decided, or twice. *)
ApiTypeOK ==
  /\ at \in [Tx -> {"idle", "store", "replay", "answered", "crashed"}]
  /\ req \in [Tx -> Request \cup {NoReq}]
  /\ resp \in [Tx -> [status: {0, 200, 400, 401, 404, 409, 500},
                     body: Results \cup {NoBody}, replay: BOOLEAN]]
  /\ \A t \in Tx : resp[t] = NoAnswer <=> at[t] # "answered"

(* A 200 is about the transfer that was asked for: the committed transfer its
   body names moves this amount between these accounts, out of an account of
   the user who asked, also when the answer is a replay. *)
OkMeansMoved ==
  \A t \in Tx : resp[t].status = 200 =>
    \E r \in transfers :
      /\ resp[t].body = ResultOf(r.id)
      /\ TransferRow(r.id, req[t]) = r
      /\ AccountOwner[r.from] = req[t].user

(* All the 200s that one user gets for one key are the same answer, and at
   most one of them is not marked as a replay. *)
RetriesAgree ==
  \A t, u \in Tx :
    /\ t # u
    /\ resp[t].status = 200 /\ resp[u].status = 200
    /\ req[t].user = req[u].user /\ req[t].key = req[u].key /\ req[t].key # NoKey
    => resp[t].body = resp[u].body /\ (resp[t].replay \/ resp[u].replay)

(* A refusal is final: the request it answers has moved nothing and has
   nothing under way that still could. *)
RefusalMeansUnmoved ==
  \A t \in Tx : resp[t].status \in 400..499 => session[t] \in {"none", "aborted"}

(* Money leaves an account only on the request of its owner, and arrives in
   an account of the currency that the request names. *)
AuthorizedDebit ==
  \A r \in transfers :
    /\ AccountOwner[r.from] = req[r.id].user
    /\ AccountCurrency[r.from] = req[r.id].currency
    /\ AccountCurrency[r.to] = req[r.id].currency

(* A 409 means what it says: the user's key was spent on a transfer that is
   not the one this request asks for (README "Retries"). *)
ConflictOnlyOnReuse ==
  \A t \in Tx : resp[t].status = 409 =>
    \E r \in transfers :
      /\ req[r.id].user = req[t].user /\ req[r.id].key = req[t].key
      /\ requestFingerprint(req[r.id]) # requestFingerprint(req[t])

(* Every request that reaches the store is answered, unless its server dies. *)
EveryRequestAnswered ==
  \A t \in Tx : at[t] = "store" ~> (at[t] \in {"answered", "crashed"} \/ pc[t] = "crashed")
-----------------------------------------------------------------------------
(* Why the properties hold: the parts of an inductive invariant, beside the
   store's. *)

(* The handler and its store call agree on how far they have got, and the
   call is the one the request asks for. *)
HandlerInStep(t) ==
  /\ at[t] = "idle" => pc[t] = "idle"
  /\ at[t] = "store" => pc[t] # "idle"
  /\ at[t] \in {"replay", "crashed"} => pc[t] = "done"
  /\ at[t] = "replay" => err[t] = "unique_violation"
  /\ at[t] = "answered" => pc[t] \in {"idle", "done"}
  /\ pc[t] # "idle" => req[t] \in Request /\ Refusal(req[t]) = 0 /\ arg[t] = ParamsOf(req[t])

(* u is a committed transfer of the same user under the same key as t. *)
SpentBy(u, t) ==
  /\ session[u] = "committed"
  /\ req[u].user = req[t].user /\ req[u].key = req[t].key

(* Every answer is backed by what the store has committed. *)
Backed(t) ==
  /\ resp[t].status = 200 =>
       \E u \in Tx : /\ session[u] = "committed" /\ resp[t].body = ResultOf(u)
                     /\ requestFingerprint(req[u]) = requestFingerprint(req[t])
                     /\ u = t \/ (SpentBy(u, t) /\ resp[t].replay /\ req[t].key # NoKey)
  /\ resp[t].status = 409 =>
       \E u \in Tx : SpentBy(u, t) /\ requestFingerprint(req[u]) # requestFingerprint(req[t])
  /\ resp[t].status \in 400..499 => session[t] \in {"none", "aborted"}

(* The invariant as a whole. *)
ApiInv ==
  /\ IndInv
  /\ ApiTypeOK
  /\ \A t \in Tx : HandlerInStep(t) /\ Backed(t)
=============================================================================
