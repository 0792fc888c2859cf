-------------------------- MODULE TransferAPIProofs --------------------------
(***************************************************************************)
(* POST /transfers keeps its promises for any number of requests.  The     *)
(* handlers only ever do what the store allows, so the theorems of         *)
(* TransferStoreProofs hold of the composition; on top of them every       *)
(* answer is shown to be backed by what the store has committed.           *)
(***************************************************************************)
EXTENDS TransferAPI, TransferStoreProofs

(* A request that passes the checks is sent by the owner of the account to
   debit, and both accounts have the currency it names. *)
LEMMA RefusalMeaning ==
  ASSUME NEW r, Refusal(r) = 0
  PROVE  /\ AccountOwner[r.from] = r.user
         /\ AccountCurrency[r.from] = r.currency
         /\ AccountCurrency[r.to] = r.currency
BY DEF Refusal, validAccount

(* Equal fingerprints are about the same transfer. *)
LEMMA FingerprintMeaning ==
  ASSUME NEW r, NEW s, requestFingerprint(r) = requestFingerprint(s)
  PROVE  r.from = s.from /\ r.to = s.to /\ r.amount = s.amount /\ r.currency = s.currency
BY DEF requestFingerprint

(* A step of the handlers is a step of the store, or leaves it alone. *)
LEMMA ApiStepIsStoreStep == [ApiNext]_allVars => [Next]_vars
<1> SUFFICES ASSUME [ApiNext]_allVars PROVE [Next]_vars
  OBVIOUS
<1>1. ASSUME NEW t \in Tx, NEW r \in Request, CallStore(t, r) PROVE Next
  <2>1. ParamsOf(r) \in Arg /\ BeginTx(t, ParamsOf(r))
    BY <1>1, ApiAssumption DEF CallStore, ApiAssumption
  <2>2. QED
    BY <2>1 DEF Next
<1>2. ASSUME NEW t \in Tx, NEW r \in Request, Refuse(t, r) \/ GetAccountFails(t, r)
      PROVE  UNCHANGED vars
  BY <1>2 DEF Refuse, GetAccountFails
<1>3. ASSUME NEW t \in Tx, Handler(t) \/ ReplayFails(t) \/ HandlerCrash(t)
      PROVE  UNCHANGED vars
  BY <1>3 DEF Handler, StoreReturns, replayIdempotentTransfer, ReplayFails, HandlerCrash
<1>4. CASE Progress \/ UNCHANGED allVars
  BY <1>4 DEF Next, allVars
<1>5. QED
  BY <1>1, <1>2, <1>3, <1>4 DEF ApiNext

(* POST /transfers uses the store only as the store's specification expects:
   every theorem about Spec is one about the running service. *)
THEOREM ApiImplementsStore == ApiSpec => Spec
<1>1. ApiInit => Init
  BY DEF ApiInit
<1>2. QED
  BY <1>1, ApiStepIsStoreStep, PTL DEF ApiSpec, Spec

(* So what the store promises holds under the handlers too: the tables change
   only by whole transfers, the balances are what the entries say, and the
   requests of a server never block each other in a circle. *)
THEOREM ApiKeepsStorePromises ==
  ApiSpec => RefinesLedger /\ []AuditTrail /\ []NoDeadlock
<1>1. QED
  BY ApiImplementsStore, StoreImplementsLedger, BalancesMatchEntries, DeadlockFree, PTL

-----------------------------------------------------------------------------
(* The invariant of the composition.                                       *)

(* An answer stays backed while the calls behind it keep their outcome. *)
LEMMA BackedStays ==
  ASSUME NEW t \in Tx, Backed(t), resp'[t] = resp[t], req'[t] = req[t],
         \A u \in Tx : session[u] = "committed" =>
           /\ session'[u] = "committed" /\ req'[u] = req[u]
           /\ arg'[u] = arg[u] /\ newBalance'[u] = newBalance[u],
         session[t] \in {"none", "aborted"} => session'[t] = session[t]
  PROVE  Backed(t)'
<1>1. \A u \in Tx : session[u] = "committed" => ResultOf(u)' = ResultOf(u)
  BY DEF ResultOf
<1>2. ASSUME resp'[t].status = 200
      PROVE  \E u \in Tx : /\ session'[u] = "committed" /\ resp'[t].body = ResultOf(u)'
                           /\ requestFingerprint(req'[u]) = requestFingerprint(req'[t])
                           /\ u = t \/ (SpentBy(u, t)' /\ resp'[t].replay /\ req'[t].key # NoKey)
  <2>1. PICK u \in Tx : /\ session[u] = "committed" /\ resp[t].body = ResultOf(u)
                        /\ requestFingerprint(req[u]) = requestFingerprint(req[t])
                        /\ u = t \/ (SpentBy(u, t) /\ resp[t].replay /\ req[t].key # NoKey)
    BY <1>2 DEF Backed
  <2>2. QED
    BY <1>1, <2>1 DEF SpentBy
<1>3. ASSUME resp'[t].status = 409
      PROVE  \E u \in Tx : /\ SpentBy(u, t)'
                           /\ requestFingerprint(req'[u]) # requestFingerprint(req'[t])
  <2>1. PICK u \in Tx : /\ SpentBy(u, t)
                        /\ requestFingerprint(req[u]) # requestFingerprint(req[t])
    BY <1>3 DEF Backed
  <2>2. QED
    BY <2>1 DEF SpentBy
<1>4. resp'[t].status \in 400..499 => session'[t] \in {"none", "aborted"}
  BY DEF Backed
<1>5. QED
  BY <1>2, <1>3, <1>4 DEF Backed, requestFingerprint

(* A step of one handler that leaves the store alone. *)
LEMMA HandlerStep ==
  ASSUME ApiInv, NEW t \in Tx, UNCHANGED vars, ApiTypeOK',
         \A u \in Tx \ {t} : at'[u] = at[u] /\ req'[u] = req[u] /\ resp'[u] = resp[u],
         session[t] = "committed" => req'[t] = req[t],
         HandlerInStep(t)', Backed(t)'
  PROVE  ApiInv'
<1>1. IndInv'
  BY NextInvariant DEF ApiInv
<1>2. ASSUME NEW u \in Tx, u # t PROVE HandlerInStep(u)' /\ Backed(u)'
  <2>1. HandlerInStep(u) /\ Backed(u)
    BY DEF ApiInv
  <2>2. HandlerInStep(u)'
    BY <1>2, <2>1 DEF HandlerInStep, vars, ParamsOf, Refusal
  <2>3. Backed(u)'
    BY <1>2, <2>1, BackedStays DEF vars, uncommitted
  <2>4. QED
    BY <2>2, <2>3
<1>3. QED
  BY <1>1, <1>2 DEF ApiInv

(* Refused, or GetAccount failed, before the store was called. *)
LEMMA RefuseStep ==
  ASSUME ApiInv, NEW t \in Tx, NEW r \in Request, Refuse(t, r) \/ GetAccountFails(t, r)
  PROVE  ApiInv'
<1>1. PICK c \in {400, 401, 404, 500} : Receive(t, r) /\ Respond(t, Answer(c)) /\ UNCHANGED vars
  BY DEF Refuse, GetAccountFails, Refusal, validAccount
<1>2. ApiTypeOK /\ HandlerInStep(t) /\ InStep(t)
  BY DEF ApiInv, IndInv
<1>3. pc[t] = "idle" /\ session[t] = "none"
  BY <1>1, <1>2 DEF Receive, HandlerInStep, InStep
<1>4. /\ at' = [at EXCEPT ![t] = "answered"] /\ req' = [req EXCEPT ![t] = r]
      /\ resp' = [resp EXCEPT ![t] = [status |-> c, body |-> NoBody, replay |-> FALSE]]
  BY <1>1 DEF Receive, Respond, Answer
<1>5. /\ at'[t] = "answered" /\ req'[t] = r
      /\ resp'[t] = [status |-> c, body |-> NoBody, replay |-> FALSE]
  BY <1>2, <1>4 DEF ApiTypeOK
<1>6. ApiTypeOK'
  BY <1>2, <1>4 DEF ApiTypeOK, NoAnswer, Answer
<1>7. HandlerInStep(t)'
  BY <1>1, <1>3, <1>5 DEF HandlerInStep, vars
<1>8. Backed(t)'
  BY <1>1, <1>3, <1>5 DEF Backed, vars
<1>9. QED
  BY <1>1, <1>2, <1>3, <1>4, <1>6, <1>7, <1>8, HandlerStep DEF ApiTypeOK

(* The request is good and the store is called. *)
LEMMA CallStoreStep ==
  ASSUME ApiInv, NEW t \in Tx, NEW r \in Request, CallStore(t, r)
  PROVE  ApiInv'
<1>1. /\ BeginTx(t, ParamsOf(r)) /\ Refusal(r) = 0 /\ ParamsOf(r) \in Arg
      /\ at' = [at EXCEPT ![t] = "store"] /\ req' = [req EXCEPT ![t] = r] /\ resp' = resp
      /\ at[t] = "idle"
  BY ApiAssumption DEF CallStore, ApiAssumption, Receive
<1>2. TypeOK /\ InStep(t) /\ ApiTypeOK /\ HandlerInStep(t)
  BY DEF ApiInv, IndInv
<1>3. IndInv'
  BY <1>1, BeginTxStep DEF ApiInv
<1>4. pc[t] = "idle" /\ session[t] = "none" /\ resp[t] = NoAnswer
  BY <1>1, <1>2 DEF HandlerInStep, InStep, ApiTypeOK
<1>5. /\ pc'[t] # "idle" /\ arg'[t] = ParamsOf(r) /\ at'[t] = "store" /\ req'[t] = r
      /\ newBalance' = newBalance
      /\ \A u \in Tx \ {t} : /\ pc'[u] = pc[u] /\ arg'[u] = arg[u] /\ err'[u] = err[u]
                             /\ session'[u] = session[u] /\ at'[u] = at[u] /\ req'[u] = req[u]
  BY <1>1, <1>2 DEF BeginTx, Goto, TypeOK, ApiTypeOK, uncommitted
<1>6. ApiTypeOK'
  BY <1>1, <1>2, <1>4 DEF ApiTypeOK, NoAnswer, Answer
<1>7. HandlerInStep(t)' /\ Backed(t)'
  <2>1. HandlerInStep(t)'
    BY <1>1, <1>5 DEF HandlerInStep, ParamsOf, Refusal
  <2>2. resp'[t].status = 0
    BY <1>1, <1>4 DEF NoAnswer, Answer
  <2>3. QED
    BY <2>1, <2>2 DEF Backed
<1>8. ASSUME NEW u \in Tx, u # t PROVE HandlerInStep(u)' /\ Backed(u)'
  <2>1. HandlerInStep(u) /\ Backed(u)
    BY DEF ApiInv
  <2>2. HandlerInStep(u)'
    BY <1>5, <1>8, <2>1 DEF HandlerInStep, ParamsOf, Refusal
  <2>3. Backed(u)'
    BY <1>1, <1>4, <1>5, <1>8, <2>1, BackedStays
  <2>4. QED
    BY <2>2, <2>3
<1>9. QED
  BY <1>3, <1>6, <1>7, <1>8 DEF ApiInv

(* A handler that answers with an error nobody has to back. *)
LEMMA AnswerErrorStep ==
  ASSUME ApiInv, NEW t \in Tx, at[t] \in {"store", "replay"}, pc[t] = "done",
         NEW c \in {400, 500}, Respond(t, Answer(c)), UNCHANGED <<vars, req>>,
         c = 400 => session[t] = "aborted"
  PROVE  ApiInv'
<1>1. ApiTypeOK /\ HandlerInStep(t)
  BY DEF ApiInv
<1>2. /\ at' = [at EXCEPT ![t] = "answered"]
      /\ resp' = [resp EXCEPT ![t] = [status |-> c, body |-> NoBody, replay |-> FALSE]]
  BY DEF Respond, Answer
<1>3. /\ at'[t] = "answered"
      /\ resp'[t] = [status |-> c, body |-> NoBody, replay |-> FALSE]
  BY <1>1, <1>2 DEF ApiTypeOK
<1>4. ApiTypeOK'
  BY <1>1, <1>2 DEF ApiTypeOK, NoAnswer, Answer
<1>5. HandlerInStep(t)'
  BY <1>1, <1>3 DEF HandlerInStep, vars
<1>6. Backed(t)'
  BY <1>3 DEF Backed, vars
<1>7. QED
  BY <1>1, <1>2, <1>4, <1>5, <1>6, HandlerStep DEF ApiTypeOK
(* A handler that answers 200 with the result of a committed transfer. *)
LEMMA AnswerOkStep ==
  ASSUME ApiInv, NEW t \in Tx, at[t] \in {"store", "replay"}, pc[t] = "done",
         NEW u \in Tx, NEW replay \in BOOLEAN,
         Respond(t, Ok(ResultOf(u), replay)), UNCHANGED <<vars, req>>,
         session[u] = "committed",
         requestFingerprint(req[u]) = requestFingerprint(req[t]),
         u = t \/ (SpentBy(u, t) /\ replay /\ req[t].key # NoKey)
  PROVE  ApiInv'
<1>1. ApiTypeOK /\ HandlerInStep(t) /\ IndInv
  BY DEF ApiInv
<1>2. /\ at' = [at EXCEPT ![t] = "answered"]
      /\ resp' = [resp EXCEPT ![t] = [status |-> 200, body |-> ResultOf(u), replay |-> replay]]
  BY DEF Respond, Ok
<1>3. /\ at'[t] = "answered"
      /\ resp'[t] = [status |-> 200, body |-> ResultOf(u), replay |-> replay]
  BY <1>1, <1>2 DEF ApiTypeOK
<1>4. ResultOf(u) \in Results
  <2>1. TransferRow(u, arg[u]) \in TransferRows
    BY <1>1 DEF IndInv, CommittedRows, TypeOK
  <2>2. {arg[u].from, arg[u].to} \subseteq Account
    BY <2>1 DEF TransferRow, TransferRows
  <2>3. QED
    BY <1>1, <2>2, ResultType
<1>5. ApiTypeOK'
  BY <1>1, <1>2, <1>4 DEF ApiTypeOK, NoAnswer, Answer
<1>6. HandlerInStep(t)'
  BY <1>1, <1>3 DEF HandlerInStep, vars
<1>7. Backed(t)'
  <2>1. ResultOf(u)' = ResultOf(u) /\ session'[u] = session[u] /\ SpentBy(u, t)' = SpentBy(u, t)
    BY DEF ResultOf, SpentBy, vars, uncommitted
  <2>2. resp'[t].status = 200 /\ resp'[t].body = ResultOf(u)' /\ resp'[t].replay = replay
    BY <1>3, <2>1
  <2>3. QED
    BY <2>1, <2>2 DEF Backed
<1>8. QED
  BY <1>1, <1>2, <1>5, <1>6, <1>7, HandlerStep DEF ApiTypeOK

(* The store call returns. *)
LEMMA StoreReturnsStep ==
  ASSUME ApiInv, NEW t \in Tx, StoreReturns(t)
  PROVE  ApiInv'
<1>1. ApiTypeOK /\ HandlerInStep(t) /\ InStep(t) /\ TypeOK /\ Backed(t)
  BY DEF ApiInv, IndInv
<1>2. at[t] = "store" /\ pc[t] = "done" /\ UNCHANGED <<vars, req>>
  BY DEF StoreReturns
<1>3. CASE err[t] = "unique_violation" /\ at' = [at EXCEPT ![t] = "replay"] /\ UNCHANGED resp
  <2>1. at'[t] = "replay"
    BY <1>1, <1>3 DEF ApiTypeOK
  <2>2. ApiTypeOK'
    BY <1>1, <1>2, <1>3 DEF ApiTypeOK
  <2>3. HandlerInStep(t)'
    BY <1>1, <1>2, <1>3, <2>1 DEF HandlerInStep, vars
  <2>4. Backed(t)'
    BY <1>1, <1>2, <1>3, BackedStays DEF vars, uncommitted
  <2>5. QED
    BY <1>1, <1>2, <1>3, <2>2, <2>3, <2>4, HandlerStep DEF ApiTypeOK
<1>4. CASE Respond(t, StoreAnswer(t))
  <2>1. CASE err[t] = "none"
    <3>1. session[t] = "committed"
      BY <1>1, <1>2, <2>1 DEF InStep
    <3>2. Respond(t, Ok(ResultOf(t), FALSE))
      BY <1>4, <2>1 DEF StoreAnswer
    <3>3. QED
      BY <1>2, <3>1, <3>2, AnswerOkStep
  <2>2. CASE err[t] = "balance_non_negative"
    <3>1. session[t] = "aborted"
      BY <1>1, <1>2, <2>2 DEF InStep
    <3>2. Respond(t, Answer(400))
      BY <1>4, <2>2 DEF StoreAnswer
    <3>3. QED
      BY <1>2, <3>1, <3>2, AnswerErrorStep
  <2>3. CASE err[t] \notin {"none", "balance_non_negative"}
    <3>1. Respond(t, Answer(500))
      BY <1>4, <2>3 DEF StoreAnswer
    <3>2. QED
      BY <1>2, <3>1, AnswerErrorStep
  <2>4. QED
    BY <2>1, <2>2, <2>3
<1>5. QED
  BY <1>3, <1>4 DEF StoreReturns

(* The replay of a spent key: the row it finds belongs to a committed transfer
   of the same user under the same key. *)
LEMMA ReplayStep ==
  ASSUME ApiInv, NEW t \in Tx, replayIdempotentTransfer(t)
  PROVE  ApiInv'
<1>1. ApiTypeOK /\ HandlerInStep(t) /\ InStep(t) /\ IndInv
  BY DEF ApiInv, IndInv
<1>2. at[t] = "replay" /\ pc[t] = "done" /\ UNCHANGED <<vars, req>> /\ err[t] = "unique_violation"
  BY <1>1 DEF replayIdempotentTransfer, HandlerInStep
<1>3. session[t] = "aborted"
  BY <1>1, <1>2 DEF InStep
<1> DEFINE stored == CHOOSE k \in GetIdempotencyKey(req[t]) : TRUE
<1>4. CASE GetIdempotencyKey(req[t]) = {}
  <2>1. Respond(t, Answer(500))
    BY <1>4 DEF replayIdempotentTransfer
  <2>2. QED
    BY <1>2, <2>1, AnswerErrorStep
<1>5. CASE GetIdempotencyKey(req[t]) # {}
  <2>1. stored \in GetIdempotencyKey(req[t])
    BY <1>5
  <2>2. Respond(t, ReplayAnswer(req[t], stored))
    BY <1>5 DEF replayIdempotentTransfer
  <2> HIDE DEF stored
  <2>3. stored \in keys /\ stored.owner = req[t].user /\ stored.key = req[t].key
    BY <2>1 DEF GetIdempotencyKey
  <2>4. PICK u \in Tx : session[u] = "committed" /\ stored \in Spent(u)
    BY <1>1, <2>3 DEF IndInv, CommittedRows
  <2>5. arg[u].key # NoKey /\ stored = KeyRow(arg[u], ResultOf(u))
    BY <2>4 DEF Spent
  <2>6. arg[u] = ParamsOf(req[u])
    <3>1. pc[u] # "idle"
      BY <1>1, <2>4 DEF IndInv, InStep
    <3>2. QED
      BY <3>1 DEF ApiInv, HandlerInStep
  <2>7. /\ SpentBy(u, t) /\ req[t].key # NoKey
        /\ stored.hash = requestFingerprint(req[u]) /\ stored.body = ResultOf(u)
    BY <2>3, <2>4, <2>5, <2>6 DEF SpentBy, KeyRow, ParamsOf
  <2>8. stored.body # NoBody
    <3>1. TransferRow(u, arg[u]) \in TransferRows
      BY <1>1, <2>4 DEF IndInv, CommittedRows, TypeOK
    <3>2. {arg[u].from, arg[u].to} \subseteq Account
      BY <3>1 DEF TransferRow, TransferRows
    <3>3. ResultOf(u) \in Results
      BY <1>1, <3>2, ResultType
    <3>4. QED
      BY <2>7, <3>3, SchemaAssumption DEF SchemaAssumption
  <2>9. CASE requestFingerprint(req[u]) = requestFingerprint(req[t])
    <3>1. Respond(t, Ok(ResultOf(u), TRUE))
      BY <2>2, <2>7, <2>8, <2>9 DEF ReplayAnswer
    <3>2. QED
      BY <1>2, <2>4, <2>7, <2>9, <3>1, AnswerOkStep
  <2>10. CASE requestFingerprint(req[u]) # requestFingerprint(req[t])
    <3>1. /\ at' = [at EXCEPT ![t] = "answered"]
          /\ resp' = [resp EXCEPT ![t] = [status |-> 409, body |-> NoBody, replay |-> FALSE]]
      BY <2>2, <2>7, <2>10 DEF ReplayAnswer, Respond, Answer
    <3>2. /\ at'[t] = "answered"
          /\ resp'[t] = [status |-> 409, body |-> NoBody, replay |-> FALSE]
      BY <1>1, <3>1 DEF ApiTypeOK
    <3>3. ApiTypeOK'
      BY <1>1, <1>2, <3>1 DEF ApiTypeOK, NoAnswer, Answer
    <3>4. HandlerInStep(t)'
      BY <1>1, <1>2, <3>2 DEF HandlerInStep, vars
    <3>5. Backed(t)'
      <4>1. SpentBy(u, t)' /\ requestFingerprint(req'[u]) # requestFingerprint(req'[t])
        BY <1>2, <2>7, <2>10 DEF SpentBy, vars
      <4>2. session'[t] = "aborted" /\ resp'[t].status = 409
        BY <1>2, <1>3, <3>2 DEF vars
      <4>3. QED
        BY <4>1, <4>2 DEF Backed, requestFingerprint
    <3>6. QED
      BY <1>1, <1>2, <3>1, <3>3, <3>4, <3>5, HandlerStep DEF ApiTypeOK
  <2>11. QED
    BY <2>9, <2>10
<1>6. QED
  BY <1>4, <1>5

(* A server that dies outside of the store call leaves every answer backed. *)
LEMMA HandlerCrashStep ==
  ASSUME ApiInv, NEW t \in Tx, HandlerCrash(t)
  PROVE  ApiInv'
<1>1. ApiTypeOK /\ HandlerInStep(t) /\ Backed(t)
  BY DEF ApiInv
<1>2. /\ at[t] \in {"replay", "store"} /\ pc[t] = "done"
      /\ at' = [at EXCEPT ![t] = "crashed"] /\ UNCHANGED <<vars, req, resp>>
  BY <1>1 DEF HandlerCrash, HandlerInStep
<1>3. at'[t] = "crashed"
  BY <1>1, <1>2 DEF ApiTypeOK
<1>4. ApiTypeOK'
  BY <1>1, <1>2 DEF ApiTypeOK
<1>5. HandlerInStep(t)'
  BY <1>1, <1>2, <1>3 DEF HandlerInStep, vars
<1>6. Backed(t)'
  BY <1>1, <1>2, BackedStays DEF vars, uncommitted
<1>7. QED
  BY <1>1, <1>2, <1>4, <1>5, <1>6, HandlerStep DEF ApiTypeOK

(* The store goes on while the handlers wait. *)
LEMMA ProgressStep ==
  ASSUME ApiInv, Progress, UNCHANGED apiVars
  PROVE  ApiInv'
<1>1. IndInv'
  BY NextInvariant DEF ApiInv, Next
<1>2. ApiTypeOK'
  BY DEF ApiInv, ApiTypeOK, apiVars
<1>3. IndInv
  BY DEF ApiInv
<1>4. ASSUME NEW t \in Tx PROVE HandlerInStep(t)' /\ Backed(t)'
  <2>1. HandlerInStep(t) /\ Backed(t)
    BY DEF ApiInv
  <2>2. HandlerInStep(t)'
    BY <1>3, <2>1, OutcomeStable DEF HandlerInStep, apiVars, ParamsOf, Refusal
  <2>3. Backed(t)'
    BY <1>3, <2>1, OutcomeStable, BackedStays DEF apiVars
  <2>4. QED
    BY <2>2, <2>3
<1>5. QED
  BY <1>1, <1>2, <1>4 DEF ApiInv
-----------------------------------------------------------------------------
(* The theorems.                                                           *)

LEMMA ApiInitInvariant == ApiInit => ApiInv
<1> SUFFICES ASSUME ApiInit PROVE ApiInv
  OBVIOUS
<1>1. IndInv
  BY InitInvariant DEF ApiInit
<1>2. ApiTypeOK
  BY DEF ApiInit, ApiTypeOK, NoAnswer, Answer
<1>3. \A t \in Tx : HandlerInStep(t) /\ Backed(t)
  BY DEF ApiInit, Init, HandlerInStep, Backed, NoAnswer, Answer
<1>4. QED
  BY <1>1, <1>2, <1>3 DEF ApiInv

(* Every step of the API, whoever takes it, preserves the invariant. *)
LEMMA ApiNextInvariant == ApiInv /\ [ApiNext]_allVars => ApiInv'
<1> SUFFICES ASSUME ApiInv, [ApiNext]_allVars PROVE ApiInv'
  OBVIOUS
<1>1. CASE UNCHANGED allVars
  <2>1. IndInv' /\ ApiTypeOK'
    BY <1>1, NextInvariant DEF ApiInv, allVars, apiVars, ApiTypeOK
  <2>2. ASSUME NEW t \in Tx PROVE HandlerInStep(t)' /\ Backed(t)'
    <3>1. HandlerInStep(t) /\ Backed(t)
      BY DEF ApiInv
    <3>2. HandlerInStep(t)'
      BY <1>1, <3>1 DEF HandlerInStep, allVars, apiVars, vars, ParamsOf, Refusal
    <3>3. Backed(t)'
      BY <1>1, <3>1, BackedStays DEF allVars, apiVars, vars, uncommitted
    <3>4. QED
      BY <3>2, <3>3
  <2>3. QED
    BY <2>1, <2>2 DEF ApiInv
<1>2. ASSUME NEW t \in Tx, NEW r \in Request,
             Refuse(t, r) \/ GetAccountFails(t, r) \/ CallStore(t, r)
      PROVE  ApiInv'
  BY <1>2, RefuseStep, CallStoreStep
<1>3. ASSUME NEW t \in Tx, ReplayFails(t) PROVE ApiInv'
  <2>1. at[t] = "replay" /\ pc[t] = "done"
    BY <1>3 DEF ReplayFails, ApiInv, HandlerInStep
  <2>2. QED
    BY <1>3, <2>1, AnswerErrorStep DEF ReplayFails
<1>4. ASSUME NEW t \in Tx, Handler(t) \/ HandlerCrash(t) PROVE ApiInv'
  BY <1>4, StoreReturnsStep, ReplayStep, HandlerCrashStep DEF Handler
<1>5. CASE Progress /\ UNCHANGED apiVars
  BY <1>5, ProgressStep
<1>6. QED
  BY <1>1, <1>2, <1>3, <1>4, <1>5 DEF ApiNext

(* Every answer the handlers have given is backed by the committed tables. *)
THEOREM ApiInvariant == ApiSpec => []ApiInv
<1>1. QED
  BY ApiInitInvariant, ApiNextInvariant, PTL DEF ApiSpec

(* A 200 of createTransfer, replayed or not, is about the transfer that was
   asked for, and that transfer is committed. *)
THEOREM OkIsTrue == ApiSpec => []OkMeansMoved
<1>1. ApiInv => OkMeansMoved
  <2>1. SUFFICES ASSUME ApiInv, NEW t \in Tx, resp[t].status = 200
                 PROVE  \E r \in transfers : /\ resp[t].body = ResultOf(r.id)
                                             /\ TransferRow(r.id, req[t]) = r
                                             /\ AccountOwner[r.from] = req[t].user
    BY DEF OkMeansMoved
  <2>2. PICK u \in Tx : /\ session[u] = "committed" /\ resp[t].body = ResultOf(u)
                        /\ requestFingerprint(req[u]) = requestFingerprint(req[t])
                        /\ u = t \/ (SpentBy(u, t) /\ resp[t].replay /\ req[t].key # NoKey)
    BY <2>1 DEF ApiInv, Backed
  <2>3. TransferRow(u, arg[u]) \in transfers
    BY <2>1, <2>2 DEF ApiInv, IndInv, CommittedRows
  <2>4. arg[u] = ParamsOf(req[u]) /\ Refusal(req[u]) = 0
    <3>1. pc[u] # "idle"
      BY <2>1, <2>2 DEF ApiInv, IndInv, InStep
    <3>2. QED
      BY <2>1, <3>1 DEF ApiInv, HandlerInStep
  <2>5. req[u].user = req[t].user
    BY <2>2 DEF SpentBy
  <2>6. req[u].from = req[t].from /\ req[u].to = req[t].to /\ req[u].amount = req[t].amount
    BY <2>2, FingerprintMeaning
  <2>7. TransferRow(u, arg[u]) = TransferRow(u, req[t])
    BY <2>4, <2>6 DEF TransferRow, ParamsOf
  <2>8. AccountOwner[req[u].from] = req[u].user
    BY <2>4, RefusalMeaning
  <2>9. TransferRow(u, req[t]).id = u /\ TransferRow(u, req[t]).from = req[t].from
    BY DEF TransferRow
  <2>10. QED
    BY <2>2, <2>3, <2>5, <2>6, <2>7, <2>8, <2>9
<1>2. QED
  BY <1>1, ApiInvariant, PTL

(* However often a client retries under one key, it is told one result. *)
THEOREM RetriesToldTheSame == ApiSpec => []RetriesAgree
<1>1. ApiInv => RetriesAgree
  <2>1. SUFFICES ASSUME ApiInv, NEW t \in Tx, NEW u \in Tx, t # u,
                        resp[t].status = 200, resp[u].status = 200,
                        req[t].user = req[u].user, req[t].key = req[u].key,
                        req[t].key # NoKey
                 PROVE  resp[t].body = resp[u].body /\ (resp[t].replay \/ resp[u].replay)
    BY DEF RetriesAgree
  <2>2. PICK v \in Tx : /\ session[v] = "committed" /\ resp[t].body = ResultOf(v)
                        /\ v = t \/ (SpentBy(v, t) /\ resp[t].replay)
    BY <2>1 DEF ApiInv, Backed
  <2>3. PICK w \in Tx : /\ session[w] = "committed" /\ resp[u].body = ResultOf(w)
                        /\ w = u \/ (SpentBy(w, u) /\ resp[u].replay)
    BY <2>1 DEF ApiInv, Backed
  <2>4. \A x \in {v, w} : arg[x] = ParamsOf(req[x])
    <3>1. pc[v] # "idle" /\ pc[w] # "idle"
      BY <2>1, <2>2, <2>3 DEF ApiInv, IndInv, InStep
    <3>2. QED
      BY <2>1, <3>1 DEF ApiInv, HandlerInStep
  <2>5. /\ req[v].user = req[t].user /\ req[v].key = req[t].key
        /\ req[w].user = req[t].user /\ req[w].key = req[t].key
    BY <2>1, <2>2, <2>3 DEF SpentBy
  <2>6. SameKey(arg[v], arg[w]) /\ arg[v].key # NoKey
    BY <2>1, <2>4, <2>5 DEF SameKey, ParamsOf
  <2>7. v = w
    BY <2>1, <2>2, <2>3, <2>6 DEF ApiInv, IndInv, CommittedOnce
  <2>8. QED
    BY <2>1, <2>2, <2>3, <2>7
<1>2. QED
  BY <1>1, ApiInvariant, PTL

(* A 4xx is final: the request has moved nothing and never will. *)
THEOREM RefusalsAreFinal == ApiSpec => []RefusalMeansUnmoved
<1>1. ApiInv => RefusalMeansUnmoved
  BY DEF ApiInv, Backed, RefusalMeansUnmoved
<1>2. QED
  BY <1>1, ApiInvariant, PTL

(* A 409 is only given when the key was spent on another transfer. *)
THEOREM ConflictsAreReal == ApiSpec => []ConflictOnlyOnReuse
<1>1. ApiInv => ConflictOnlyOnReuse
  <2>1. SUFFICES ASSUME ApiInv, NEW t \in Tx, resp[t].status = 409
                 PROVE  \E r \in transfers :
                          /\ req[r.id].user = req[t].user /\ req[r.id].key = req[t].key
                          /\ requestFingerprint(req[r.id]) # requestFingerprint(req[t])
    BY DEF ConflictOnlyOnReuse
  <2>2. PICK u \in Tx : /\ SpentBy(u, t)
                        /\ requestFingerprint(req[u]) # requestFingerprint(req[t])
    BY <2>1 DEF ApiInv, Backed
  <2>3. TransferRow(u, arg[u]) \in transfers /\ TransferRow(u, arg[u]).id = u
    BY <2>1, <2>2 DEF ApiInv, IndInv, CommittedRows, SpentBy, TransferRow
  <2>4. QED
    BY <2>2, <2>3 DEF SpentBy
<1>2. QED
  BY <1>1, ApiInvariant, PTL

(* Only the owner of an account can have it debited, within one currency. *)
THEOREM DebitsAuthorized == ApiSpec => []AuthorizedDebit
<1>1. ApiInv => AuthorizedDebit
  <2>1. SUFFICES ASSUME ApiInv, NEW r \in transfers
                 PROVE  /\ AccountOwner[r.from] = req[r.id].user
                        /\ AccountCurrency[r.from] = req[r.id].currency
                        /\ AccountCurrency[r.to] = req[r.id].currency
    BY DEF AuthorizedDebit
  <2>2. r.id \in Tx
    BY <2>1 DEF ApiInv, IndInv, TypeOK, TransferRows
  <2>3. session[r.id] = "committed" /\ r = TransferRow(r.id, arg[r.id])
    BY <2>1 DEF ApiInv, IndInv, CommittedRows
  <2>4. pc[r.id] # "idle"
    BY <2>1, <2>2, <2>3 DEF ApiInv, IndInv, InStep
  <2>5. arg[r.id] = ParamsOf(req[r.id]) /\ Refusal(req[r.id]) = 0
    BY <2>1, <2>2, <2>4 DEF ApiInv, HandlerInStep
  <2>6. r.from = req[r.id].from /\ r.to = req[r.id].to
    BY <2>3, <2>5 DEF TransferRow, ParamsOf
  <2>7. QED
    BY <2>5, <2>6, RefusalMeaning
<1>2. QED
  BY <1>1, ApiInvariant, PTL

-----------------------------------------------------------------------------
(* Over time.                                                              *)

(* Transfers of one user under one Idempotency-Key are one transfer. *)
PaidOnce ==
  \A r, s \in transfers :
    /\ req[r.id].user = req[s.id].user
    /\ req[r.id].key = req[s.id].key /\ req[r.id].key # NoKey
    => r = s

(* However many requests a user sends under one Idempotency-Key, and however
   they are interleaved, at most one of them moves money
   (api/transfer.go:createTransferIdempotent). *)
THEOREM OnePaymentPerKey == ApiSpec => []PaidOnce
<1>1. ApiInv => PaidOnce
  <2>1. SUFFICES ASSUME ApiInv, NEW r \in transfers, NEW s \in transfers,
                        req[r.id].user = req[s.id].user,
                        req[r.id].key = req[s.id].key, req[r.id].key # NoKey
                 PROVE  r = s
    BY DEF PaidOnce
  <2>2. r.id \in Tx /\ s.id \in Tx
    BY <2>1 DEF ApiInv, IndInv, TypeOK, TransferRows
  <2>3. \A q \in {r, s} : session[q.id] = "committed" /\ q = TransferRow(q.id, arg[q.id])
    BY <2>1 DEF ApiInv, IndInv, CommittedRows
  <2>4. \A q \in {r, s} : arg[q.id] = ParamsOf(req[q.id])
    <3>1. \A q \in {r, s} : pc[q.id] # "idle"
      BY <2>1, <2>2, <2>3 DEF ApiInv, IndInv, InStep
    <3>2. QED
      BY <2>1, <2>2, <3>1 DEF ApiInv, HandlerInStep
  <2>5. SameKey(arg[r.id], arg[s.id]) /\ arg[r.id].key # NoKey
    BY <2>1, <2>4 DEF SameKey, ParamsOf
  <2>6. r.id = s.id
    BY <2>1, <2>2, <2>3, <2>5 DEF ApiInv, IndInv, CommittedOnce
  <2>7. QED
    BY <2>3, <2>6
<1>2. QED
  BY <1>1, ApiInvariant, PTL

(* Nothing changes an answer once it is given, nor the request it is to. *)
LEMMA AnswerStays ==
  ASSUME ApiInv, [ApiNext]_allVars, NEW t \in Tx, at[t] = "answered"
  PROVE  at'[t] = "answered" /\ resp'[t] = resp[t] /\ req'[t] = req[t]
<1>0. /\ at \in [Tx -> {"idle", "store", "replay", "answered", "crashed"}]
      /\ req \in [Tx -> Request \cup {NoReq}]
      /\ DOMAIN resp = Tx
  BY DEF ApiInv, ApiTypeOK
<1>1. ASSUME NEW u \in Tx, NEW r \in Request, Refuse(u, r) \/ GetAccountFails(u, r) \/ CallStore(u, r)
      PROVE  at'[t] = "answered" /\ resp'[t] = resp[t] /\ req'[t] = req[t]
  BY <1>0, <1>1 DEF Refuse, GetAccountFails, CallStore, Receive, Respond
<1>2. ASSUME NEW u \in Tx, Handler(u) \/ ReplayFails(u) \/ HandlerCrash(u)
      PROVE  at'[t] = "answered" /\ resp'[t] = resp[t] /\ req'[t] = req[t]
  BY <1>0, <1>2 DEF Handler, StoreReturns, replayIdempotentTransfer, ReplayFails,
     HandlerCrash, Respond
<1>3. CASE Progress /\ UNCHANGED apiVars
  BY <1>3 DEF apiVars
<1>4. CASE UNCHANGED allVars
  BY <1>4 DEF allVars, apiVars
<1>5. QED
  BY <1>1, <1>2, <1>3, <1>4 DEF ApiNext

(* The request has been answered with a success, with a refusal. *)
AnsweredOk(t) == resp[t].status = 200
AnsweredRefusal(t) == resp[t].status \in 400..499

(* The ledger holds the transfer that request t asked for and that its answer
   names. *)
MovedAsAnswered(t) ==
  \E r \in transfers : resp[t].body = ResultOf(r.id) /\ TransferRow(r.id, req[t]) = r

OkIsForGood(t) == [](AnsweredOk(t) => []MovedAsAnswered(t))
RefusalIsForGood(t) == [](AnsweredRefusal(t) => []Unmoved(t))

(* What a client is told stays true: the transfer a 200 names is in the
   ledger for ever after, and a request answered 4xx never moves money, not
   even by a commit that was still under way when it was answered. *)
THEOREM AnswersAreFinal ==
  ApiSpec => \A t \in Tx : OkIsForGood(t) /\ RefusalIsForGood(t)
<1>1. ASSUME NEW t \in Tx, ApiInv, resp[t].status # 0 PROVE at[t] = "answered"
  BY <1>1 DEF ApiInv, ApiTypeOK, NoAnswer, Answer
<1>2. ASSUME NEW t \in Tx PROVE ApiSpec => OkIsForGood(t)
  <2>1. OkMeansMoved /\ AnsweredOk(t) => MovedAsAnswered(t)
    BY DEF OkMeansMoved, AnsweredOk, MovedAsAnswered
  <2>2. ApiInv /\ AnsweredOk(t) /\ [ApiNext]_allVars => AnsweredOk(t)'
    BY <1>1, AnswerStays DEF AnsweredOk
  <2>3. QED
    BY <2>1, <2>2, ApiInvariant, OkIsTrue, PTL DEF ApiSpec, OkIsForGood
<1>3. ASSUME NEW t \in Tx PROVE ApiSpec => RefusalIsForGood(t)
  <2>1. ApiInv /\ AnsweredRefusal(t) => Unmoved(t)
    <3>1. SUFFICES ASSUME ApiInv, AnsweredRefusal(t), NEW r \in transfers, r.id = t
                   PROVE  FALSE
      BY DEF Unmoved
    <3>2. session[t] \in {"none", "aborted"}
      BY <3>1 DEF ApiInv, Backed, AnsweredRefusal
    <3>3. session[t] = "committed"
      BY <3>1 DEF ApiInv, IndInv, CommittedRows
    <3>4. QED
      BY <3>2, <3>3
  <2>2. ApiInv /\ AnsweredRefusal(t) /\ [ApiNext]_allVars => AnsweredRefusal(t)'
    BY <1>1, AnswerStays DEF AnsweredRefusal
  <2>3. QED
    BY <2>1, <2>2, ApiInvariant, PTL DEF ApiSpec, RefusalIsForGood
<1>4. QED
  BY <1>2, <1>3
=============================================================================
