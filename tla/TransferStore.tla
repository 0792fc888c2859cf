---------------------------- MODULE TransferStore ----------------------------
(***************************************************************************)
(* db/sqlc/store.go: TransferTx and IdempotentTransferTx running           *)
(* concurrently, one goroutine per call, each inside its own Postgres      *)
(* transaction at READ COMMITTED (BeginTx with nil options).               *)
(*                                                                         *)
(* A call is two processes joined by a connection.  The goroutine sends    *)
(* one statement at a time and waits for the answer (pc, err).  The        *)
(* Postgres backend holds the transaction (session): its uncommitted rows, *)
(* its row locks and its claimed key, which only it can release.  The      *)
(* connection may break, the process serving the call may die and Postgres *)
(* may restart, so the two can disagree about how the call ended.          *)
(***************************************************************************)
EXTENDS Schema, FiniteSets, FiniteSetsExt

CONSTANT NoArg  \* arg[t] before the call is made

VARIABLES
  balance, transfers, entries, keys,  \* the committed tables
  pc,          \* what the goroutine of a call does next
  arg,         \* the parameters of the call
  err,         \* the error the call is about to return, or returned
  session,     \* the state of the call's Postgres transaction
  rows,        \* its uncommitted rows
  locked,      \* the account rows it has updated, hence locked
  newBalance   \* the balances its UPDATE ... RETURNING produced

tables == <<balance, transfers, entries, keys>>
uncommitted == <<rows, locked, newBalance>>
vars == <<tables, pc, arg, err, session, uncommitted>>

(* Where the goroutine is: a statement it is about to send, or ...         *)
Statement == {"claim", "transfer", "fromEntry", "toEntry",
              "first", "second", "complete", "commit"}
PC == Statement \cup {"idle", "commitSent", "rollback", "done", "crashed"}
Errors == {"none", "unique_violation", "foreign_key_violation",
           "balance_non_negative", "out_of_range", "other"}
NoRows == [transfers |-> {}, entries |-> {}, keys |-> {}]

Init ==
  /\ balance = InitBalance
  /\ transfers = {} /\ entries = {} /\ keys = {}
  /\ pc = [t \in Tx |-> "idle"]
  /\ arg = [t \in Tx |-> NoArg]
  /\ err = [t \in Tx |-> "none"]
  /\ session = [t \in Tx |-> "none"]
  /\ rows = [t \in Tx |-> NoRows]
  /\ locked = [t \in Tx |-> {}]
  /\ newBalance = [t \in Tx |-> [a \in Account |-> 0]]

-----------------------------------------------------------------------------
(* Postgres: transactions, locks, constraint errors.                       *)

(* A transaction that has neither committed nor aborted: it holds its locks. *)
Active(t) == session[t] \in {"open", "committing"}

(* The goroutine can run statement s: it is there and its transaction is open. *)
At(t, s) == pc[t] = s /\ session[t] = "open"

Goto(t, s) == pc' = [pc EXCEPT ![t] = s]

(* A failed transaction drops its locks and rows at once, before the client
   has sent ROLLBACK. *)
Aborts(t) ==
  /\ session' = [session EXCEPT ![t] = "aborted"]
  /\ rows' = [rows EXCEPT ![t] = NoRows]
  /\ locked' = [locked EXCEPT ![t] = {}]
  /\ UNCHANGED newBalance

(* A statement raises e: the transaction aborts and fn returns the error. *)
Fail(t, e) ==
  /\ Aborts(t)
  /\ Goto(t, "rollback")
  /\ err' = [err EXCEPT ![t] = e]

(* An INSERT by t: its uncommitted rows become r, and statement s is next. *)
Insert(t, r, s) ==
  /\ rows' = [rows EXCEPT ![t] = r]
  /\ Goto(t, s)
  /\ UNCHANGED <<err, session, locked, newBalance>>

SameKey(k, a) == k.owner = a.owner /\ k.key = a.key

(* The unique index on (owner, key): a committed row refuses the INSERT, an
   uncommitted one of another transaction makes it wait. *)
KeySpent(a) == \E k \in keys : SameKey(k, a)
KeyClaimedBy(u, a) == Active(u) /\ \E k \in rows[u].keys : SameKey(k, a)

-----------------------------------------------------------------------------
(* execTx, IdempotentTransferTx and transferTx, statement by statement.    *)

BeginTx(t, a) ==
  /\ pc[t] = "idle"
  /\ arg' = [arg EXCEPT ![t] = a]
  /\ \/ /\ session' = [session EXCEPT ![t] = "open"]
        /\ Goto(t, IF a.key = NoKey THEN "transfer" ELSE "claim")
        /\ UNCHANGED err
     \/ /\ Goto(t, "done")
        /\ err' = [err EXCEPT ![t] = "other"]
        /\ UNCHANGED session
  /\ UNCHANGED <<tables, uncommitted>>

(* Mutant: the claim looks only at committed keys. *)
ClaimWithoutWaiting(t) ==
  /\ At(t, "claim")
  /\ \/ KeySpent(arg[t]) /\ Fail(t, "unique_violation")
     \/ ~KeySpent(arg[t]) /\ Insert(t, [rows[t] EXCEPT !.keys = {KeyRow(arg[t], NoBody)}],
                                     "transfer")
  /\ UNCHANGED <<tables, arg>>

CreateIdempotencyKey(t) ==
  /\ At(t, "claim")
  /\ \A u \in Tx \ {t} : ~KeyClaimedBy(u, arg[t])
  /\ \/ KeySpent(arg[t]) /\ Fail(t, "unique_violation")
     \/ ~KeySpent(arg[t]) /\ Insert(t, [rows[t] EXCEPT !.keys = {KeyRow(arg[t], NoBody)}],
                                     "transfer")
  /\ UNCHANGED <<tables, arg>>

(* Mutant: transfers has no foreign keys. *)
TransferWithoutForeignKey(t) ==
  /\ At(t, "transfer")
  /\ Insert(t, [rows[t] EXCEPT !.transfers = {TransferRow(t, arg[t])}], "fromEntry")
  /\ UNCHANGED <<tables, arg>>

(* The foreign keys to accounts are checked here.  They take FOR KEY SHARE
   locks, which the FOR NO KEY UPDATE lock of a balance UPDATE does not
   block, so an INSERT never waits for another transfer. *)
CreateTransfer(t) ==
  /\ At(t, "transfer")
  /\ \/ /\ ~({arg[t].from, arg[t].to} \subseteq Account)
        /\ Fail(t, "foreign_key_violation")
     \/ /\ {arg[t].from, arg[t].to} \subseteq Account
        /\ Insert(t, [rows[t] EXCEPT !.transfers = {TransferRow(t, arg[t])}], "fromEntry")
  /\ UNCHANGED <<tables, arg>>

(* Mutant: the entry is inserted through the store, not through q, and so
   outside of the transaction. *)
EntryOutsideTx(t) ==
  /\ At(t, "fromEntry")
  /\ entries' = entries \cup {EntryRow(t, arg[t].from, -arg[t].amount)}
  /\ Goto(t, "toEntry")
  /\ UNCHANGED <<balance, transfers, keys, arg, err, session, uncommitted>>

CreateFromEntry(t) ==
  /\ At(t, "fromEntry")
  /\ Insert(t, [rows[t] EXCEPT !.entries =
                  @ \cup {EntryRow(t, arg[t].from, -arg[t].amount)}], "toEntry")
  /\ UNCHANGED <<tables, arg>>

CreateToEntry(t) ==
  /\ At(t, "toEntry")
  /\ Insert(t, [rows[t] EXCEPT !.entries =
                  @ \cup {EntryRow(t, arg[t].to, arg[t].amount)}], "first")
  /\ UNCHANGED <<tables, arg>>

(* Mutant: migration 000004, the CHECK on accounts.balance, is missing. *)
AddWithoutCheck(t, id, amount, s) ==
  /\ \A u \in Tx \ {t} : id \notin locked[u]
  /\ locked' = [locked EXCEPT ![t] = @ \cup {id}]
  /\ newBalance' = [newBalance EXCEPT ![t] = [@ EXCEPT ![id] = balance[id] + amount]]
  /\ Goto(t, s)
  /\ UNCHANGED <<tables, arg, err, session, rows>>

(* Mutant: read, add in Go and write back, without locking the row. *)
AddWithoutLock(t, id, amount, s) ==
  /\ balance[id] + amount \in 0..MaxInt64
  /\ locked' = [locked EXCEPT ![t] = @ \cup {id}]
  /\ newBalance' = [newBalance EXCEPT ![t] = [@ EXCEPT ![id] = balance[id] + amount]]
  /\ Goto(t, s)
  /\ UNCHANGED <<tables, arg, err, session, rows>>

(* UPDATE accounts SET balance = balance + amount WHERE id = id RETURNING *.
   It waits for a transaction that has updated the row, then reads the
   balance that one left, and keeps the row locked until its own end. *)
AddAccountBalance(t, id, amount, s) ==
  /\ \A u \in Tx \ {t} : id \notin locked[u]
  /\ \/ balance[id] + amount < 0 /\ Fail(t, "balance_non_negative")
     \/ balance[id] + amount > MaxInt64 /\ Fail(t, "out_of_range")
     \/ /\ balance[id] + amount \in 0..MaxInt64
        /\ locked' = [locked EXCEPT ![t] = @ \cup {id}]
        /\ newBalance' = [newBalance EXCEPT ![t] = [@ EXCEPT ![id] = balance[id] + amount]]
        /\ Goto(t, s)
        /\ UNCHANGED <<err, session, rows>>
  /\ UNCHANGED <<tables, arg>>

(* Mutant: the sender's account first, whatever its id. *)
SenderFirst(a) == a.from

(* The two UPDATEs in the order transferTx gives addMoney: lower id first. *)
FirstId(a) == IF a.from < a.to THEN a.from ELSE a.to
SecondId(a) == IF FirstId(a) = a.from THEN a.to ELSE a.from
Delta(a, id) == IF id = a.from THEN -a.amount ELSE a.amount

AddMoneyFirst(t) ==
  /\ At(t, "first")
  /\ AddAccountBalance(t, FirstId(arg[t]), Delta(arg[t], FirstId(arg[t])), "second")

(* Mutant: the key is never completed. *)
SkipComplete(t) ==
  /\ At(t, "second")
  /\ AddAccountBalance(t, SecondId(arg[t]), Delta(arg[t], SecondId(arg[t])), "commit")

AddMoneySecond(t) ==
  /\ At(t, "second")
  /\ AddAccountBalance(t, SecondId(arg[t]), Delta(arg[t], SecondId(arg[t])),
                       IF arg[t].key = NoKey THEN "commit" ELSE "complete")

(* Mutant: the two accounts that addMoney returns are assigned the same way
   in both branches. *)
SwappedResult(t) ==
  TransferTxResult(t, newBalance[t][FirstId(arg[t])], newBalance[t][SecondId(arg[t])])

(* The result transferTx returns, and what its JSON in response_body holds. *)
ResultOf(t) == TransferTxResult(t, newBalance[t][arg[t].from], newBalance[t][arg[t].to])

CompleteIdempotencyKey(t) ==
  /\ At(t, "complete")
  /\ rows' = [rows EXCEPT ![t] = [@ EXCEPT !.keys = {KeyRow(arg[t], ResultOf(t))}]]
  /\ Goto(t, "commit")
  /\ UNCHANGED <<tables, arg, err, session, locked, newBalance>>

Commit(t) ==
  /\ At(t, "commit")
  /\ session' = [session EXCEPT ![t] = "committing"]
  /\ Goto(t, "commitSent")
  /\ UNCHANGED <<tables, arg, err, uncommitted>>

(* The answer to COMMIT: success, or an error when it never arrives. *)
CommitAcknowledged(t) ==
  /\ pc[t] = "commitSent" /\ session[t] = "committed"
  /\ Goto(t, "done")
  /\ UNCHANGED <<tables, arg, err, session, uncommitted>>

(* Mutant: execTx drops the error of tx.Commit. *)
IgnoreCommitError(t) ==
  /\ pc[t] = "commitSent"
  /\ Goto(t, "done")
  /\ UNCHANGED <<tables, arg, err, session, uncommitted>>

CommitUnanswered(t) ==
  /\ pc[t] = "commitSent"
  /\ Goto(t, "done")
  /\ err' = [err EXCEPT ![t] = "other"]
  /\ UNCHANGED <<tables, arg, session, uncommitted>>

(* tx.Rollback: when it fails too, both errors are formatted into a new one
   and the *pq.Error, with its code and constraint, is lost to the caller. *)
Rollback(t) ==
  /\ pc[t] = "rollback"
  /\ Goto(t, "done")
  /\ \E e \in {err[t], "other"} : err' = [err EXCEPT ![t] = e]
  /\ UNCHANGED <<tables, arg, session, uncommitted>>

(* The connection breaks under a statement.  fn returns an error, but the
   backend does not know yet: its transaction stays open, locks and all. *)
ConnectionLost(t) ==
  /\ pc[t] \in Statement /\ session[t] = "open"
  /\ Goto(t, "rollback")
  /\ err' = [err EXCEPT ![t] = "other"]
  /\ UNCHANGED <<tables, arg, session, uncommitted>>

(* The next statement after Postgres ended the transaction by restarting. *)
SessionGone(t) ==
  /\ pc[t] \in Statement /\ session[t] = "aborted"
  /\ Goto(t, "rollback")
  /\ err' = [err EXCEPT ![t] = "other"]
  /\ UNCHANGED <<tables, arg, session, uncommitted>>

(* The server process of the call dies: nobody is left to answer. *)
Crash(t) ==
  /\ pc[t] \notin {"idle", "done", "crashed"}
  /\ Goto(t, "crashed")
  /\ UNCHANGED <<tables, arg, err, session, uncommitted>>

-----------------------------------------------------------------------------
(* What the Postgres backend of a call does by itself.                     *)

(* COMMIT takes effect: every uncommitted row becomes visible at once and
   the locks are released. *)
CommitTransaction(t) ==
  /\ session[t] = "committing"
  /\ session' = [session EXCEPT ![t] = "committed"]
  /\ balance' = [a \in Account |-> IF a \in locked[t] THEN newBalance[t][a] ELSE balance[a]]
  /\ transfers' = transfers \cup rows[t].transfers
  /\ entries' = entries \cup rows[t].entries
  /\ keys' = keys \cup rows[t].keys
  /\ rows' = [rows EXCEPT ![t] = NoRows]
  /\ locked' = [locked EXCEPT ![t] = {}]
  /\ UNCHANGED <<pc, arg, err, newBalance>>

(* The backend notices that its client is gone. *)
Disconnected(t) == pc[t] \in {"rollback", "done", "crashed"}

BackendAbort(t) ==
  /\ Active(t) /\ Disconnected(t)
  /\ Aborts(t)
  /\ UNCHANGED <<tables, pc, arg, err>>

(* Postgres restarts: every transaction that has not committed is gone. *)
PostgresRestart ==
  /\ \E t \in Tx : Active(t)
  /\ session' = [t \in Tx |-> IF Active(t) THEN "aborted" ELSE session[t]]
  /\ rows' = [t \in Tx |-> NoRows]
  /\ locked' = [t \in Tx |-> {}]
  /\ UNCHANGED <<tables, pc, arg, err, newBalance>>

-----------------------------------------------------------------------------
(* A step of the goroutine that does not depend on a fault. *)
Step(t) ==
  \/ CreateIdempotencyKey(t) \/ CreateTransfer(t)
  \/ CreateFromEntry(t) \/ CreateToEntry(t)
  \/ AddMoneyFirst(t) \/ AddMoneySecond(t)
  \/ CompleteIdempotencyKey(t) \/ Commit(t)
  \/ CommitAcknowledged(t) \/ Rollback(t) \/ SessionGone(t)

Fault(t) == ConnectionLost(t) \/ CommitUnanswered(t) \/ Crash(t)

Backend(t) == CommitTransaction(t) \/ BackendAbort(t)

(* Everything that happens to a call after it is made. *)
Progress == (\E t \in Tx : Step(t) \/ Fault(t) \/ Backend(t)) \/ PostgresRestart

Next == (\E t \in Tx, a \in Arg : BeginTx(t, a)) \/ Progress

Spec == Init /\ [][Next]_vars

(***************************************************************************)
(* Fairness.  A goroutine that can go on does, Postgres processes a COMMIT *)
(* it received and notices a closed connection, and the driver reports a   *)
(* session that Postgres ended.  Nothing makes a fault happen, and nothing *)
(* makes a client call.                                                    *)
(***************************************************************************)
Fairness ==
  \A t \in Tx :
    /\ WF_vars(Step(t))
    /\ WF_vars(CommitUnanswered(t) /\ session[t] = "aborted")
    /\ WF_vars(CommitTransaction(t))
    /\ WF_vars(BackendAbort(t))

FairSpec == Spec /\ Fairness

-----------------------------------------------------------------------------
(* Properties.                                                             *)

(* Every variable has its type; uncommitted rows are rows of their tables. *)
TypeOK ==
  /\ balance \in [Account -> Int]
  /\ transfers \subseteq TransferRows
  /\ entries \subseteq EntryRows
  /\ keys \subseteq KeyRows
  /\ pc \in [Tx -> PC]
  /\ arg \in [Tx -> Arg \cup {NoArg}]
  /\ err \in [Tx -> Errors]
  /\ session \in [Tx -> {"none", "open", "committing", "committed", "aborted"}]
  /\ rows \in [Tx -> [transfers: SUBSET TransferRows,
                     entries: SUBSET EntryRows, keys: SUBSET KeyRows]]
  /\ locked \in [Tx -> SUBSET Account]
  /\ newBalance \in [Tx -> [Account -> 0..MaxInt64]]

(* No interleaving of transfers takes a committed balance below zero or past
   a bigint (migration 000004; README "Concurrency", point 3). *)
NoOverdraft == \A a \in Account : balance[a] \in 0..MaxInt64

(* Every balance is what its ledger entries say: no update is ever lost or
   applied without its entry, whatever the calls do at the same time.  And
   all balances together are what they were at first: transferTx takes from
   one account what it gives to another. *)
AuditTrail ==
  /\ \A a \in Account :
       balance[a] = InitBalance[a]
                    + MapThenSumSet(LAMBDA e : e.amount, {e \in entries : e.account = a})
  /\ MapThenSumSet(LAMBDA a : balance[a], Account)
       = MapThenSumSet(LAMBDA a : InitBalance[a], Account)

(* A transfer is visible whole or not at all: each transfers row has exactly
   its debit and its credit, and no entry is there without its transfer, also
   when a statement, a connection or a process failed half way. *)
DoubleEntry ==
  entries = UNION {{EntryRow(r.id, r.from, -r.amount), EntryRow(r.id, r.to, r.amount)} :
                     r \in transfers}

(* Money moves at most once per (owner, key), however many retries run at
   the same time and however the earlier ones ended. *)
AtMostOncePerKey ==
  \A r, s \in transfers :
    (arg[r.id].key # NoKey /\ SameKey(arg[r.id], arg[s.id])) => r.id = s.id

(* "A committed row always carries its response" (api/transfer.go:184): a
   spent key stores the result of the one transfer it was spent on, and that
   transfer's fingerprint. *)
SpentKeyHasResponse ==
  \A k \in keys :
    \E r \in transfers :
      /\ SameKey(k, arg[r.id])
      /\ k.hash = arg[r.id].hash
      /\ k.body = ResultOf(r.id)

(* What the call returned is what happened to the money: success means the
   transfer committed, an error that names its cause means that it did not
   and never will.  Only "other" leaves the outcome open. *)
OutcomeSound ==
  \A t \in Tx : pc[t] = "done" =>
    /\ err[t] = "none" => session[t] = "committed"
    /\ err[t] \notin {"none", "other"} => session[t] = "aborted"

(* Call t waits for a lock that the transaction of u holds. *)
WaitsFor(t, u) ==
  /\ t # u
  /\ \/ At(t, "claim") /\ KeyClaimedBy(u, arg[t])
     \/ At(t, "first") /\ FirstId(arg[t]) \in locked[u]
     \/ At(t, "second") /\ SecondId(arg[t]) \in locked[u]

(* No set of calls ever waits in a circle, so Postgres never has to kill one
   (store.go:110, README "Consistent lock ordering"). *)
NoDeadlock ==
  \A S \in SUBSET Tx :
    S # {} => \E t \in S : \A u \in S : ~WaitsFor(t, u)

(* The committed tables change exactly as the abstract ledger allows. *)
L == INSTANCE Ledger WITH balance <- balance, transfers <- transfers,
                          entries <- entries, keys <- keys
RefinesLedger == L!Spec

(* Every call that is made returns, unless its process dies. *)
EveryCallReturns ==
  \A t \in Tx : pc[t] # "idle" ~> pc[t] \in {"done", "crashed"}

(* Every transaction ends: no lock and no claimed key is held for ever, even
   when the connection or the process that opened it is gone. *)
EveryLockReleased == \A t \in Tx : Active(t) ~> ~Active(t)
-----------------------------------------------------------------------------
(* Why the properties hold: the parts of an inductive invariant.           *)

Claim(t) == IF arg[t].key = NoKey THEN {} ELSE {KeyRow(arg[t], NoBody)}
Spent(t) == IF arg[t].key = NoKey THEN {} ELSE {KeyRow(arg[t], ResultOf(t))}
Debit(t) == EntryRow(t, arg[t].from, -arg[t].amount)
Credit(t) == EntryRow(t, arg[t].to, arg[t].amount)

(* The goroutine and its transaction agree on how far the call has got, and
   the error it holds is the one its transaction ended with. *)
InStep(t) ==
  /\ pc[t] = "idle" => session[t] = "none" /\ err[t] = "none"
  /\ pc[t] # "idle" => arg[t] \in Arg
  /\ pc[t] \in Statement => session[t] \in {"open", "aborted"} /\ err[t] = "none"
  /\ pc[t] \in {"claim", "complete"} => arg[t].key # NoKey
  /\ pc[t] = "commitSent" =>
       session[t] \in {"committing", "committed", "aborted"} /\ err[t] = "none"
  /\ pc[t] = "rollback" => session[t] \in {"open", "aborted"} /\ err[t] # "none"
  /\ session[t] \in {"committing", "committed"} => pc[t] \in {"commitSent", "done", "crashed"}
  /\ pc[t] \in {"rollback", "done"} /\ err[t] \notin {"none", "other"} => session[t] = "aborted"
  /\ pc[t] = "done" /\ err[t] = "none" => session[t] = "committed"

(* The uncommitted rows of a transaction that may still commit are what its
   statements so far have written; one that has ended has none. *)
Written(t) ==
  /\ ~Active(t) => rows[t] = NoRows
  /\ At(t, "claim") => rows[t] = NoRows
  /\ At(t, "transfer") =>
       rows[t] = [transfers |-> {}, entries |-> {}, keys |-> Claim(t)]
  /\ At(t, "fromEntry") =>
       rows[t] = [transfers |-> {TransferRow(t, arg[t])}, entries |-> {}, keys |-> Claim(t)]
  /\ At(t, "toEntry") =>
       rows[t] = [transfers |-> {TransferRow(t, arg[t])}, entries |-> {Debit(t)},
                  keys |-> Claim(t)]
  /\ At(t, "first") \/ At(t, "second") \/ At(t, "complete") =>
       rows[t] = [transfers |-> {TransferRow(t, arg[t])}, entries |-> {Debit(t), Credit(t)},
                  keys |-> Claim(t)]
  /\ At(t, "commit") \/ session[t] = "committing" =>
       rows[t] = [transfers |-> {TransferRow(t, arg[t])}, entries |-> {Debit(t), Credit(t)},
                  keys |-> Spent(t)]

(* So are its row locks. *)
Locks(t) ==
  /\ ~Active(t) => locked[t] = {}
  /\ session[t] = "open" /\ pc[t] \in {"claim", "transfer", "fromEntry", "toEntry", "first"}
       => locked[t] = {}
  /\ At(t, "second") => locked[t] = {FirstId(arg[t])}
  /\ At(t, "complete") \/ At(t, "commit") \/ session[t] = "committing"
       => locked[t] = {arg[t].from, arg[t].to}

(* A locked row has one holder, who has computed its new balance from the
   balance that is still there. *)
Exclusive ==
  \A t, u \in Tx : t # u => locked[t] \cap locked[u] = {}
Pending ==
  \A t \in Tx : \A a \in locked[t] :
    newBalance[t][a] = balance[a] + Delta(arg[t], a)

(* A claimed key is claimed once and not spent. *)
KeysExclusive ==
  \A t, u \in Tx : \A k \in rows[t].keys, l \in rows[u].keys : SameKey(k, l) => t = u
KeysFresh ==
  \A t \in Tx : \A k \in rows[t].keys, l \in keys : ~SameKey(k, l)

(* The committed transfers and keys are those of the committed calls. *)
CommittedRows ==
  /\ \A t \in Tx : session[t] = "committed" =>
       TransferRow(t, arg[t]) \in transfers /\ Spent(t) \subseteq keys
  /\ \A r \in transfers : session[r.id] = "committed" /\ r = TransferRow(r.id, arg[r.id])
  /\ \A k \in keys : \E t \in Tx : session[t] = "committed" /\ k \in Spent(t)
CommittedOnce ==
  \A t, u \in Tx :
    /\ session[t] = "committed" /\ session[u] = "committed"
    /\ arg[t].key # NoKey /\ SameKey(arg[t], arg[u])
    => t = u

(* The invariant as a whole: together these are preserved by every step. *)
IndInv ==
  /\ TypeOK
  /\ \A t \in Tx : InStep(t) /\ Written(t) /\ Locks(t)
  /\ Exclusive /\ Pending
  /\ KeysExclusive /\ KeysFresh
  /\ CommittedRows /\ CommittedOnce
  /\ NoOverdraft /\ DoubleEntry
=============================================================================
