------------------------- MODULE TransferStoreProofs -------------------------
(***************************************************************************)
(* The safety of TransferStore for any number of calls, accounts, keys and *)
(* balances.                                                               *)
(***************************************************************************)
EXTENDS TransferStore, Sums

-----------------------------------------------------------------------------
(* Facts about parameters.                                                 *)

(* The fields of the parameters of a call. *)
LEMMA ArgType ==
  ASSUME NEW a \in Arg
  PROVE  /\ a.from \in AccountId /\ a.to \in AccountId /\ a.from # a.to
         /\ a.from \in Int /\ a.to \in Int
         /\ a.amount \in 1..MaxInt64
         /\ a.owner \in Owner /\ a.key \in Key \cup {NoKey} /\ a.hash \in Hash
<1>1. a \in TransferTxParams
  BY SchemaAssumption DEF SchemaAssumption
<1>2. /\ a.from \in AccountId /\ a.to \in AccountId /\ a.from # a.to
      /\ a.amount \in 1..MaxInt64
      /\ a.owner \in Owner /\ a.key \in Key \cup {NoKey} /\ a.hash \in Hash
  BY <1>1 DEF TransferTxParams
<1>3. AccountId \subseteq Int
  BY SchemaAssumption DEF SchemaAssumption
<1>4. QED
  BY <1>2, <1>3

(* addMoney updates both accounts of the transfer, the lower id first. *)
LEMMA LockOrder ==
  ASSUME NEW a \in Arg
  PROVE  /\ FirstId(a) < SecondId(a)
         /\ {FirstId(a), SecondId(a)} = {a.from, a.to}
         /\ Delta(a, a.from) = -a.amount /\ Delta(a, a.to) = a.amount
BY ArgType DEF FirstId, SecondId, Delta

(* Between two accounts that exist, the rows of a call are rows of their
   tables. *)
LEMMA RowTypes ==
  ASSUME NEW a \in Arg, NEW t \in Tx, {a.from, a.to} \subseteq Account
  PROVE  /\ TransferRow(t, a) \in TransferRows
         /\ EntryRow(t, a.from, -a.amount) \in EntryRows
         /\ EntryRow(t, a.to, a.amount) \in EntryRows
<1>1. -a.amount \in (-MaxInt64)..MaxInt64 /\ a.amount \in (-MaxInt64)..MaxInt64
  BY ArgType, SchemaAssumption DEF SchemaAssumption
<1>2. QED
  BY <1>1, ArgType DEF TransferRow, EntryRow, TransferRows, EntryRows

(* The row a call claims its key with is a row of idempotency_keys. *)
LEMMA KeyRowType ==
  ASSUME NEW a \in Arg, a.key # NoKey, NEW b \in Results \cup {NoBody}
  PROVE  KeyRow(a, b) \in KeyRows
BY ArgType DEF KeyRow, KeyRows

-----------------------------------------------------------------------------
(* Steps of one call.  All but CommitTransaction and PostgresRestart leave
   the tables and every other call alone. *)

Local(t) ==
  /\ UNCHANGED tables
  /\ \A u \in Tx \ {t} :
       /\ pc'[u] = pc[u] /\ arg'[u] = arg[u] /\ err'[u] = err[u]
       /\ session'[u] = session[u] /\ rows'[u] = rows[u]
       /\ locked'[u] = locked[u] /\ newBalance'[u] = newBalance[u]

(* A call that has committed keeps its parameters and its result, and no
   call commits. *)
KeepsOutcome(t) ==
  /\ session'[t] = "committed" <=> session[t] = "committed"
  /\ session[t] = "committed" => arg'[t] = arg[t] /\ newBalance'[t] = newBalance[t]

(* To show that a local step preserves the invariant it is enough to look at
   the call that takes it. *)
LEMMA LocalStep ==
  ASSUME IndInv, NEW t \in Tx, Local(t), KeepsOutcome(t), TypeOK',
         InStep(t)', Written(t)', Locks(t)',
         \A u \in Tx \ {t} : locked'[t] \cap locked[u] = {},
         \A a \in locked'[t] : newBalance'[t][a] = balance[a] + Delta(arg'[t], a),
         \A u \in Tx \ {t} : \A k \in rows'[t].keys, l \in rows[u].keys : ~SameKey(k, l),
         \A k \in rows'[t].keys, l \in keys : ~SameKey(k, l)
  PROVE  IndInv'
<1> USE DEF Local
<1>1. \A u \in Tx : (InStep(u) /\ Written(u) /\ Locks(u))'
  <2>1. SUFFICES ASSUME NEW u \in Tx, u # t
                 PROVE  (InStep(u) /\ Written(u) /\ Locks(u))'
    OBVIOUS
  <2>2. InStep(u) /\ Written(u) /\ Locks(u)
    BY DEF IndInv
  <2>3. InStep(u)'
    BY <2>1, <2>2 DEF InStep
  <2>4. Written(u)'
    BY <2>1, <2>2 DEF Written, At, Active, Claim, Spent, Debit, Credit, ResultOf
  <2>5. Locks(u)'
    BY <2>1, <2>2 DEF Locks, At, Active
  <2>6. QED
    BY <2>3, <2>4, <2>5
<1>2. Exclusive'
  BY DEF IndInv, Exclusive
<1>3. Pending'
  <2>1. SUFFICES ASSUME NEW u \in Tx, NEW a \in locked'[u]
                 PROVE  newBalance'[u][a] = balance'[a] + Delta(arg'[u], a)
    BY DEF Pending
  <2>2. CASE u = t
    BY <2>2 DEF tables
  <2>3. CASE u # t
    BY <2>3 DEF tables, IndInv, Pending
  <2>4. QED
    BY <2>2, <2>3
<1>4. KeysExclusive'
  BY DEF IndInv, KeysExclusive, SameKey
<1>5. KeysFresh'
  BY DEF IndInv, KeysFresh, tables
<1>6. \A u \in Tx : session'[u] = "committed" <=> session[u] = "committed"
  BY DEF KeepsOutcome
<1>7. \A u \in Tx : session[u] = "committed" =>
        arg'[u] = arg[u] /\ newBalance'[u] = newBalance[u] /\ Spent(u)' = Spent(u)
  BY DEF KeepsOutcome, Spent, ResultOf
<1>8. CommittedRows'
  <2>1. \A r \in transfers : r.id \in Tx
    BY DEF IndInv, TypeOK, TransferRows
  <2>2. QED
    BY <1>6, <1>7, <2>1 DEF IndInv, CommittedRows, tables
<1>9. CommittedOnce'
  BY <1>6, <1>7 DEF IndInv, CommittedOnce
<1>10. NoOverdraft' /\ DoubleEntry'
  BY DEF IndInv, NoOverdraft, DoubleEntry, tables
<1>11. QED
  BY <1>1, <1>2, <1>3, <1>4, <1>5, <1>8, <1>9, <1>10 DEF IndInv
(* Once its transfers row is written, the accounts of a call exist. *)
LEMMA AccountsExist ==
  ASSUME IndInv, NEW t \in Tx,
         session[t] = "committing" \/ (session[t] = "open" /\ pc[t] \in
           {"fromEntry", "toEntry", "first", "second", "complete", "commit"})
  PROVE  arg[t] \in Arg /\ {arg[t].from, arg[t].to} \subseteq Account
<1>1. arg[t] \in Arg
  BY DEF IndInv, InStep
<1>2. rows[t].transfers = {TransferRow(t, arg[t])}
  <2>1. Written(t)
    BY DEF IndInv
  <2>2. CASE session[t] = "open" /\ pc[t] \in {"fromEntry", "toEntry"}
    BY <2>1, <2>2 DEF Written, At
  <2>3. CASE session[t] = "open" /\ pc[t] \in {"first", "second", "complete"}
    BY <2>1, <2>3 DEF Written, At
  <2>4. CASE session[t] = "committing" \/ (session[t] = "open" /\ pc[t] = "commit")
    BY <2>1, <2>4 DEF Written, At
  <2>5. QED
    BY <2>2, <2>3, <2>4
<1>3. TransferRow(t, arg[t]) \in TransferRows
  BY <1>2 DEF IndInv, TypeOK
<1>4. QED
  BY <1>1, <1>3 DEF TransferRow, TransferRows

(* A statement that fails leaves no trace of its transaction. *)
LEMMA FailStep ==
  ASSUME IndInv, NEW t \in Tx, session[t] = "open", pc[t] \in Statement,
         NEW e \in Errors \ {"none"}, Fail(t, e), UNCHANGED <<tables, arg>>
  PROVE  IndInv'
<1> USE DEF Fail, Aborts, Goto
<1>1. TypeOK'
  <2>1. NoRows \in [transfers: SUBSET TransferRows, entries: SUBSET EntryRows,
                    keys: SUBSET KeyRows]
    BY DEF NoRows
  <2>2. QED
    BY <2>1 DEF IndInv, TypeOK, PC, tables
<1>2. Local(t) /\ KeepsOutcome(t)
  BY DEF Local, KeepsOutcome, IndInv, TypeOK
<1>3. /\ pc'[t] = "rollback" /\ session'[t] = "aborted" /\ err'[t] = e
      /\ rows'[t] = NoRows /\ locked'[t] = {}
  BY DEF IndInv, TypeOK
<1>4. InStep(t)'
  BY <1>3 DEF IndInv, InStep, Statement
<1>5. Written(t)' /\ Locks(t)'
  BY <1>3 DEF Written, Locks, At, Active
<1>6. QED
  BY <1>1, <1>2, <1>3, <1>4, <1>5, LocalStep DEF NoRows

(* The connection or the process is lost, or the answer of COMMIT is: only
   the goroutine moves, and it never sends another statement. *)
LEMMA GoroutineStops ==
  ASSUME IndInv, NEW t \in Tx, NEW p \in {"rollback", "done", "crashed"},
         Goto(t, p), err' \in [Tx -> Errors],
         \A u \in Tx \ {t} : err'[u] = err[u],
         UNCHANGED <<tables, arg, session, uncommitted>>, InStep(t)'
  PROVE  IndInv'
<1> USE DEF Goto, uncommitted
<1>1. TypeOK'
  BY DEF IndInv, TypeOK, PC, tables
<1>2. Local(t) /\ KeepsOutcome(t)
  BY DEF Local, KeepsOutcome, IndInv, TypeOK
<1>3. pc'[t] = p
  BY DEF IndInv, TypeOK
<1>4. Written(t)'
  BY <1>3 DEF IndInv, Written, At, Active, Spent, Debit, Credit, ResultOf
<1>5. Locks(t)'
  BY <1>3 DEF IndInv, Locks, At, Active
<1>6. QED
  BY <1>1, <1>2, <1>4, <1>5, LocalStep DEF IndInv, Exclusive, Pending,
     KeysExclusive, KeysFresh, tables
-----------------------------------------------------------------------------
(* One lemma for every operation.                                          *)

LEMMA BeginTxStep ==
  ASSUME IndInv, NEW t \in Tx, NEW a \in Arg, BeginTx(t, a)
  PROVE  IndInv'
<1> USE DEF BeginTx, Goto, uncommitted
<1>1. TypeOK'
  BY DEF IndInv, TypeOK, PC, Statement, Errors, tables
<1>2. session[t] = "none"
  BY DEF IndInv, InStep
<1>3. session'[t] \in {"none", "open"} /\ arg'[t] = a /\ rows'[t] = NoRows /\ locked'[t] = {}
  BY <1>2 DEF IndInv, TypeOK, Written, Locks, Active
<1>4. Local(t) /\ KeepsOutcome(t)
  BY <1>2, <1>3 DEF Local, KeepsOutcome, IndInv, TypeOK
<1>5. \/ /\ pc'[t] = "transfer" /\ a.key = NoKey /\ session'[t] = "open" /\ err'[t] = err[t]
      \/ /\ pc'[t] = "claim" /\ a.key # NoKey /\ session'[t] = "open" /\ err'[t] = err[t]
      \/ pc'[t] = "done" /\ err'[t] = "other" /\ session'[t] = "none"
  BY <1>2 DEF IndInv, TypeOK
<1>6. err[t] = "none"
  BY DEF IndInv, InStep
<1>7. InStep(t)'
  BY <1>3, <1>5, <1>6 DEF InStep, Statement
<1>8. Written(t)'
  BY <1>3, <1>5 DEF Written, At, Active, Claim, NoRows
<1>9. Locks(t)'
  BY <1>3, <1>5 DEF Locks, At, Active
<1>10. QED
  BY <1>1, <1>3, <1>4, <1>7, <1>8, <1>9, LocalStep DEF NoRows

(* An INSERT writes the rows that Written expects at the next statement. *)
LEMMA InsertStep ==
  ASSUME IndInv, NEW t \in Tx, NEW r, NEW s,
         session[t] = "open", pc[t] \in {"claim", "transfer", "fromEntry", "toEntry"},
         s \in {"transfer", "fromEntry", "toEntry", "first"},
         r \in [transfers: SUBSET TransferRows, entries: SUBSET EntryRows,
                keys: SUBSET KeyRows],
         Insert(t, r, s), UNCHANGED <<tables, arg>>, Written(t)',
         \A u \in Tx \ {t} : \A k \in r.keys, l \in rows[u].keys : ~SameKey(k, l),
         \A k \in r.keys, l \in keys : ~SameKey(k, l)
  PROVE  IndInv'
<1> USE DEF Insert, Goto
<1>1. TypeOK'
  BY DEF IndInv, TypeOK, PC, Statement, tables
<1>2. Local(t) /\ KeepsOutcome(t)
  BY DEF Local, KeepsOutcome, IndInv, TypeOK
<1>3. pc'[t] = s /\ rows'[t] = r
  BY DEF IndInv, TypeOK
<1>4. locked'[t] = {}
  BY DEF IndInv, Locks
<1>5. InStep(t)'
  BY <1>3 DEF IndInv, InStep, Statement
<1>6. Locks(t)'
  BY <1>3, <1>4 DEF Locks, At, Active
<1>7. QED
  BY <1>1, <1>2, <1>3, <1>4, <1>5, <1>6, LocalStep

(* CreateIdempotencyKey preserves the invariant: it waits for a claim and
   fails on a spent key, so the claim it inserts is the only one. *)
LEMMA CreateIdempotencyKeyStep ==
  ASSUME IndInv, NEW t \in Tx, CreateIdempotencyKey(t)
  PROVE  IndInv'
<1>1. /\ session[t] = "open" /\ pc[t] = "claim" /\ rows[t] = NoRows
      /\ arg[t] \in Arg /\ arg[t].key # NoKey
  BY DEF CreateIdempotencyKey, At, IndInv, InStep, Written, Statement
<1>2. CASE Fail(t, "unique_violation")
  BY <1>1, <1>2, FailStep DEF CreateIdempotencyKey, Statement, Errors
<1>3. CASE /\ ~KeySpent(arg[t])
           /\ Insert(t, [rows[t] EXCEPT !.keys = {KeyRow(arg[t], NoBody)}], "transfer")
  <2> DEFINE r == [transfers |-> {}, entries |-> {}, keys |-> {KeyRow(arg[t], NoBody)}]
  <2>1. Insert(t, r, "transfer")
    BY <1>1, <1>3 DEF NoRows
  <2>2. r \in [transfers: SUBSET TransferRows, entries: SUBSET EntryRows,
               keys: SUBSET KeyRows]
    BY <1>1, KeyRowType
  <2>3. pc'[t] = "transfer" /\ rows'[t] = r /\ session'[t] = "open" /\ arg' = arg
    BY <1>1, <2>1 DEF Insert, Goto, IndInv, TypeOK, CreateIdempotencyKey
  <2>4. Written(t)'
    BY <1>1, <2>3 DEF Written, At, Active, Claim
  <2>5. \A l \in keys : ~SameKey(KeyRow(arg[t], NoBody), l)
    BY <1>3 DEF KeySpent, SameKey, KeyRow
  <2>6. \A u \in Tx \ {t} : \A l \in rows[u].keys : ~SameKey(KeyRow(arg[t], NoBody), l)
    <3>1. SUFFICES ASSUME NEW u \in Tx \ {t}, NEW l \in rows[u].keys,
                          SameKey(KeyRow(arg[t], NoBody), l)
                   PROVE  FALSE
      OBVIOUS
    <3>2. Active(u)
      <4>1. Written(u)
        BY DEF IndInv
      <4>2. rows[u] # NoRows
        BY <3>1 DEF NoRows
      <4>3. QED
        BY <4>1, <4>2 DEF Written
    <3>3. SameKey(l, arg[t])
      BY <3>1 DEF SameKey, KeyRow
    <3>4. QED
      BY <3>2, <3>3 DEF CreateIdempotencyKey, KeyClaimedBy
  <2>7. QED
    BY <1>1, <2>1, <2>2, <2>4, <2>5, <2>6, InsertStep DEF CreateIdempotencyKey
<1>4. QED
  BY <1>2, <1>3 DEF CreateIdempotencyKey

(* The keys of a transaction stay claimed by it while it inserts other rows. *)
LEMMA KeysKept ==
  ASSUME IndInv, NEW t \in Tx
  PROVE  /\ \A u \in Tx \ {t} : \A k \in rows[t].keys, l \in rows[u].keys : ~SameKey(k, l)
         /\ \A k \in rows[t].keys, l \in keys : ~SameKey(k, l)
BY DEF IndInv, KeysExclusive, KeysFresh

(* CreateTransfer preserves the invariant. *)
LEMMA CreateTransferStep ==
  ASSUME IndInv, NEW t \in Tx, CreateTransfer(t)
  PROVE  IndInv'
<1>1. /\ session[t] = "open" /\ pc[t] = "transfer" /\ arg[t] \in Arg
      /\ rows[t] = [transfers |-> {}, entries |-> {}, keys |-> Claim(t)]
  BY DEF CreateTransfer, At, IndInv, InStep, Written
<1>2. CASE Fail(t, "foreign_key_violation")
  BY <1>1, <1>2, FailStep DEF CreateTransfer, Statement, Errors
<1>3. CASE /\ {arg[t].from, arg[t].to} \subseteq Account
           /\ Insert(t, [rows[t] EXCEPT !.transfers = {TransferRow(t, arg[t])}], "fromEntry")
  <2> DEFINE r == [transfers |-> {TransferRow(t, arg[t])}, entries |-> {}, keys |-> Claim(t)]
  <2>1. Insert(t, r, "fromEntry")
    BY <1>1, <1>3
  <2>2. Claim(t) \subseteq KeyRows
    BY <1>1 DEF IndInv, TypeOK
  <2>3. r \in [transfers: SUBSET TransferRows, entries: SUBSET EntryRows,
               keys: SUBSET KeyRows]
    BY <1>1, <1>3, <2>2, RowTypes
  <2>4. pc'[t] = "fromEntry" /\ rows'[t] = r /\ session'[t] = "open" /\ arg' = arg
    BY <1>1, <2>1 DEF Insert, Goto, IndInv, TypeOK, CreateTransfer
  <2>5. Written(t)'
    BY <1>1, <2>4 DEF Written, At, Active, Claim
  <2>6. r.keys = rows[t].keys
    BY <1>1
  <2> HIDE DEF r
  <2>7. QED
    BY <1>1, <2>1, <2>3, <2>5, <2>6, KeysKept, InsertStep DEF CreateTransfer
<1>4. QED
  BY <1>2, <1>3 DEF CreateTransfer

(* The CreateEntry of the debit preserves the invariant. *)
LEMMA CreateFromEntryStep ==
  ASSUME IndInv, NEW t \in Tx, CreateFromEntry(t)
  PROVE  IndInv'
<1>1. /\ session[t] = "open" /\ pc[t] = "fromEntry"
      /\ rows[t] = [transfers |-> {TransferRow(t, arg[t])}, entries |-> {},
                    keys |-> Claim(t)]
  BY DEF CreateFromEntry, At, IndInv, InStep, Written
<1>2. arg[t] \in Arg /\ {arg[t].from, arg[t].to} \subseteq Account
  BY <1>1, AccountsExist
<1> DEFINE r == [transfers |-> {TransferRow(t, arg[t])}, entries |-> {Debit(t)},
                 keys |-> Claim(t)]
<1>3. Insert(t, r, "toEntry")
  BY <1>1 DEF CreateFromEntry, Debit
<1>4. Claim(t) \subseteq KeyRows
  BY <1>1 DEF IndInv, TypeOK
<1>5. r \in [transfers: SUBSET TransferRows, entries: SUBSET EntryRows,
             keys: SUBSET KeyRows]
  BY <1>2, <1>4, RowTypes DEF Debit
<1>6. pc'[t] = "toEntry" /\ rows'[t] = r /\ session'[t] = "open" /\ arg' = arg
  BY <1>1, <1>3 DEF Insert, Goto, IndInv, TypeOK, CreateFromEntry
<1>7. Written(t)'
  BY <1>1, <1>6 DEF Written, At, Active, Claim, Debit
<1>8. r.keys = rows[t].keys
  BY <1>1
<1> HIDE DEF r
<1>9. QED
  BY <1>1, <1>3, <1>5, <1>7, <1>8, KeysKept, InsertStep DEF CreateFromEntry

(* The CreateEntry of the credit preserves the invariant. *)
LEMMA CreateToEntryStep ==
  ASSUME IndInv, NEW t \in Tx, CreateToEntry(t)
  PROVE  IndInv'
<1>1. /\ session[t] = "open" /\ pc[t] = "toEntry"
      /\ rows[t] = [transfers |-> {TransferRow(t, arg[t])}, entries |-> {Debit(t)},
                    keys |-> Claim(t)]
  BY DEF CreateToEntry, At, IndInv, InStep, Written
<1>2. arg[t] \in Arg /\ {arg[t].from, arg[t].to} \subseteq Account
  BY <1>1, AccountsExist
<1> DEFINE r == [transfers |-> {TransferRow(t, arg[t])},
                 entries |-> {Debit(t), Credit(t)}, keys |-> Claim(t)]
<1>3. Insert(t, r, "first")
  <2>1. Insert(t, [rows[t] EXCEPT !.entries = rows[t].entries \cup {Credit(t)}], "first")
    BY DEF CreateToEntry, Credit
  <2>2. rows[t].entries \cup {Credit(t)} = {Debit(t), Credit(t)}
    BY <1>1
  <2>3. [rows[t] EXCEPT !.entries = {Debit(t), Credit(t)}] = r
    BY <1>1
  <2>4. QED
    BY <2>1, <2>2, <2>3
<1>4. Claim(t) \subseteq KeyRows
  BY <1>1 DEF IndInv, TypeOK
<1>5. r \in [transfers: SUBSET TransferRows, entries: SUBSET EntryRows,
             keys: SUBSET KeyRows]
  BY <1>2, <1>4, RowTypes DEF Debit, Credit
<1>6. pc'[t] = "first" /\ rows'[t] = r /\ session'[t] = "open" /\ arg' = arg
  BY <1>1, <1>3 DEF Insert, Goto, IndInv, TypeOK, CreateToEntry
<1>7. Written(t)'
  BY <1>1, <1>6 DEF Written, At, Active, Claim, Debit, Credit
<1>8. r.keys = rows[t].keys
  BY <1>1
<1> HIDE DEF r
<1>9. QED
  BY <1>1, <1>3, <1>5, <1>7, <1>8, KeysKept, InsertStep DEF CreateToEntry
(* An UPDATE of a row that nobody else has locked. *)
LEMMA UpdateStep ==
  ASSUME IndInv, NEW t \in Tx, NEW id \in Account, NEW s,
         session[t] = "open", pc[t] \in {"first", "second"}, arg[t] \in Arg,
         id \notin locked[t],
         AddAccountBalance(t, id, Delta(arg[t], id), s),
         \/ pc[t] = "first" /\ s = "second" /\ id = FirstId(arg[t])
         \/ /\ pc[t] = "second" /\ {FirstId(arg[t]), id} = {arg[t].from, arg[t].to}
            /\ s = (IF arg[t].key = NoKey THEN "commit" ELSE "complete")
  PROVE  IndInv'
<1> DEFINE b == balance[id] + Delta(arg[t], id)
<1>1. CASE Fail(t, "balance_non_negative") \/ Fail(t, "out_of_range")
  <2>1. UNCHANGED <<tables, arg>>
    BY DEF AddAccountBalance
  <2>2. QED
    BY <1>1, <2>1, FailStep DEF Statement, Errors
<1>2. CASE /\ b \in 0..MaxInt64
           /\ locked' = [locked EXCEPT ![t] = @ \cup {id}]
           /\ newBalance' = [newBalance EXCEPT ![t] = [@ EXCEPT ![id] = b]]
           /\ Goto(t, s)
           /\ UNCHANGED <<err, session, rows>>
           /\ UNCHANGED <<tables, arg>>
  <2> USE <1>2
  <2> HIDE DEF b
  <2>0. s \in {"second", "complete", "commit"}
    OBVIOUS
  <2>1. TypeOK'
    <3>1. newBalance' \in [Tx -> [Account -> 0..MaxInt64]]
      BY DEF IndInv, TypeOK
    <3>2. locked' \in [Tx -> SUBSET Account]
      BY DEF IndInv, TypeOK
    <3>3. pc' \in [Tx -> PC]
      BY <2>0 DEF IndInv, TypeOK, Goto, PC, Statement
    <3>4. QED
      BY <3>1, <3>2, <3>3 DEF IndInv, TypeOK, tables
  <2>2. Local(t) /\ KeepsOutcome(t)
    BY DEF Local, KeepsOutcome, IndInv, TypeOK, Goto
  <2>3. pc'[t] = s /\ session'[t] = "open" /\ arg'[t] = arg[t] /\ rows'[t] = rows[t]
    BY DEF IndInv, TypeOK, Goto
  <2>4. locked'[t] = locked[t] \cup {id}
    BY DEF IndInv, TypeOK
  <2>5. /\ newBalance'[t][id] = b
        /\ \A a \in Account \ {id} : newBalance'[t][a] = newBalance[t][a]
    BY DEF IndInv, TypeOK
  <2>6. InStep(t)'
    BY <2>3 DEF IndInv, InStep, Statement
  <2>7. Written(t)'
    <3>1. rows[t] = [transfers |-> {TransferRow(t, arg[t])},
                     entries |-> {Debit(t), Credit(t)}, keys |-> Claim(t)]
      BY DEF IndInv, Written, At
    <3>2. CASE s \in {"second", "complete"}
      BY <2>3, <3>1, <3>2 DEF Written, At, Active, Claim, Debit, Credit
    <3>3. CASE s = "commit"
      <4>1. arg[t].key = NoKey
        BY <3>3
      <4>2. QED
        BY <2>3, <3>1, <3>3, <4>1 DEF Written, At, Active, Claim, Spent, Debit, Credit
    <3>4. QED
      BY <2>0, <3>2, <3>3
  <2>8. Locks(t)'
    <3>1. CASE pc[t] = "first"
      <4>1. locked[t] = {}
        BY <3>1 DEF IndInv, Locks
      <4>2. QED
        BY <2>3, <2>4, <3>1, <4>1 DEF Locks, At, Active
    <3>2. CASE pc[t] = "second"
      <4>1. locked[t] = {FirstId(arg[t])}
        BY <3>2 DEF IndInv, Locks, At
      <4>2. locked'[t] = {arg[t].from, arg[t].to}
        BY <2>4, <3>2, <4>1
      <4>3. QED
        BY <2>0, <2>3, <3>2, <4>2 DEF Locks, At, Active
    <3>3. QED
      BY <3>1, <3>2
  <2>9. \A u \in Tx \ {t} : locked'[t] \cap locked[u] = {}
    BY <2>4 DEF AddAccountBalance, IndInv, Exclusive
  <2>10. \A a \in locked'[t] : newBalance'[t][a] = balance[a] + Delta(arg'[t], a)
    <3>1. \A a \in locked[t] : newBalance'[t][a] = balance[a] + Delta(arg[t], a)
      BY <2>5 DEF IndInv, Pending, TypeOK
    <3>2. newBalance'[t][id] = balance[id] + Delta(arg[t], id)
      BY <2>5 DEF b
    <3>3. QED
      BY <2>3, <2>4, <3>1, <3>2
  <2>11. QED
    BY <2>1, <2>2, <2>3, <2>6, <2>7, <2>8, <2>9, <2>10, KeysKept, LocalStep
<1>3. QED
  BY <1>1, <1>2 DEF AddAccountBalance

(* The first AddAccountBalance of addMoney preserves the invariant. *)
LEMMA AddMoneyFirstStep ==
  ASSUME IndInv, NEW t \in Tx, AddMoneyFirst(t)
  PROVE  IndInv'
<1>1. session[t] = "open" /\ pc[t] = "first"
  BY DEF AddMoneyFirst, At
<1>2. arg[t] \in Arg /\ {arg[t].from, arg[t].to} \subseteq Account
  BY <1>1, AccountsExist
<1>3. FirstId(arg[t]) \in Account
  BY <1>2, LockOrder
<1>4. locked[t] = {}
  BY <1>1 DEF IndInv, Locks
<1>5. AddAccountBalance(t, FirstId(arg[t]), Delta(arg[t], FirstId(arg[t])), "second")
  BY DEF AddMoneyFirst
<1>6. QED
  BY <1>1, <1>2, <1>3, <1>4, <1>5, UpdateStep

(* The second AddAccountBalance of addMoney preserves the invariant. *)
LEMMA AddMoneySecondStep ==
  ASSUME IndInv, NEW t \in Tx, AddMoneySecond(t)
  PROVE  IndInv'
<1> DEFINE s == IF arg[t].key = NoKey THEN "commit" ELSE "complete"
<1>1. session[t] = "open" /\ pc[t] = "second"
  BY DEF AddMoneySecond, At
<1>2. arg[t] \in Arg /\ {arg[t].from, arg[t].to} \subseteq Account
  BY <1>1, AccountsExist
<1>3. /\ SecondId(arg[t]) \in Account /\ SecondId(arg[t]) # FirstId(arg[t])
      /\ {FirstId(arg[t]), SecondId(arg[t])} = {arg[t].from, arg[t].to}
  BY <1>2, ArgType DEF FirstId, SecondId
<1>4. locked[t] = {FirstId(arg[t])}
  BY <1>1 DEF IndInv, Locks, At
<1>5. AddAccountBalance(t, SecondId(arg[t]), Delta(arg[t], SecondId(arg[t])), s)
  BY DEF AddMoneySecond
<1>6. SecondId(arg[t]) \notin locked[t]
  BY <1>3, <1>4
<1>7. QED
  BY <1>1, <1>2, <1>3, <1>5, <1>6, UpdateStep
(* The result of a call is a TransferTxResult. *)
LEMMA ResultType ==
  ASSUME IndInv, NEW t \in Tx, {arg[t].from, arg[t].to} \subseteq Account
  PROVE  ResultOf(t) \in Results
BY DEF IndInv, TypeOK, ResultOf, TransferTxResult, Results

(* CompleteIdempotencyKey preserves the invariant: the claim becomes the
   spent key, with the same owner, key and fingerprint. *)
LEMMA CompleteIdempotencyKeyStep ==
  ASSUME IndInv, NEW t \in Tx, CompleteIdempotencyKey(t)
  PROVE  IndInv'
<1> USE DEF Goto
<1>1. /\ session[t] = "open" /\ pc[t] = "complete" /\ arg[t].key # NoKey
      /\ rows[t] = [transfers |-> {TransferRow(t, arg[t])},
                    entries |-> {Debit(t), Credit(t)}, keys |-> Claim(t)]
      /\ locked[t] = {arg[t].from, arg[t].to}
  BY DEF CompleteIdempotencyKey, At, IndInv, InStep, Written, Locks
<1>2. arg[t] \in Arg /\ {arg[t].from, arg[t].to} \subseteq Account
  BY <1>1, AccountsExist
<1> DEFINE r == [transfers |-> {TransferRow(t, arg[t])},
                 entries |-> {Debit(t), Credit(t)}, keys |-> {KeyRow(arg[t], ResultOf(t))}]
<1>3. rows' = [rows EXCEPT ![t] = r]
  <2>1. rows' = [rows EXCEPT ![t] = [rows[t] EXCEPT !.keys = {KeyRow(arg[t], ResultOf(t))}]]
    BY DEF CompleteIdempotencyKey
  <2>2. [rows[t] EXCEPT !.keys = {KeyRow(arg[t], ResultOf(t))}] = r
    BY <1>1
  <2>3. QED
    BY <2>1, <2>2
<1>4. KeyRow(arg[t], ResultOf(t)) \in KeyRows
  BY <1>1, <1>2, KeyRowType, ResultType
<1>5. r \in [transfers: SUBSET TransferRows, entries: SUBSET EntryRows,
             keys: SUBSET KeyRows]
  BY <1>2, <1>4, RowTypes DEF Debit, Credit
<1>6. TypeOK'
  <2> HIDE DEF r
  <2>1. rows' \in [Tx -> [transfers: SUBSET TransferRows, entries: SUBSET EntryRows,
                          keys: SUBSET KeyRows]]
    BY <1>3, <1>5 DEF IndInv, TypeOK
  <2>2. QED
    BY <2>1 DEF CompleteIdempotencyKey, IndInv, TypeOK, PC, Statement, tables
<1>7. /\ pc'[t] = "commit" /\ session'[t] = "open" /\ arg' = arg
      /\ newBalance' = newBalance /\ locked' = locked /\ err'[t] = err[t] /\ rows'[t] = r
  BY <1>1, <1>3 DEF CompleteIdempotencyKey, IndInv, TypeOK
<1>8. Local(t) /\ KeepsOutcome(t)
  <2> HIDE DEF r
  <2> QED
    BY <1>1, <1>3, <1>7 DEF CompleteIdempotencyKey, Local, KeepsOutcome, IndInv, TypeOK
<1>9. InStep(t)'
  BY <1>1, <1>7 DEF IndInv, InStep, Statement
<1>10. Written(t)'
  BY <1>1, <1>7 DEF Written, At, Active, Spent, Debit, Credit, ResultOf
<1>11. Locks(t)'
  BY <1>1, <1>7 DEF Locks, At, Active
<1>12. KeyRow(arg[t], NoBody) \in rows[t].keys
  BY <1>1 DEF Claim
<1>13. \A k \in rows'[t].keys : \A l : SameKey(k, l) => SameKey(KeyRow(arg[t], NoBody), l)
  BY <1>7 DEF SameKey, KeyRow
<1>14. QED
  BY <1>6, <1>7, <1>8, <1>9, <1>10, <1>11, <1>12, <1>13, KeysKept, LocalStep
     DEF IndInv, Exclusive, Pending

(* Sending COMMIT preserves the invariant. *)
LEMMA CommitStep ==
  ASSUME IndInv, NEW t \in Tx, Commit(t)
  PROVE  IndInv'
<1> USE DEF Goto, Commit, uncommitted
<1>1. /\ session[t] = "open" /\ pc[t] = "commit" /\ locked[t] = {arg[t].from, arg[t].to}
      /\ rows[t] = [transfers |-> {TransferRow(t, arg[t])},
                    entries |-> {Debit(t), Credit(t)}, keys |-> Spent(t)]
  BY DEF At, IndInv, InStep, Written, Locks
<1>2. TypeOK'
  BY DEF IndInv, TypeOK, PC, tables
<1>3. pc'[t] = "commitSent" /\ session'[t] = "committing"
  BY DEF IndInv, TypeOK
<1>4. Local(t) /\ KeepsOutcome(t)
  BY <1>1, <1>3 DEF Local, KeepsOutcome, IndInv, TypeOK
<1>5. InStep(t)'
  BY <1>1, <1>3 DEF IndInv, InStep, Statement
<1>6. Written(t)'
  BY <1>1, <1>3 DEF Written, At, Active, Spent, Debit, Credit, ResultOf
<1>7. Locks(t)'
  BY <1>1, <1>3 DEF Locks, At, Active
<1>8. QED
  BY <1>2, <1>4, <1>5, <1>6, <1>7, KeysKept, LocalStep DEF IndInv, Exclusive, Pending

(* The ways in which a goroutine stops talking to its transaction. *)
LEMMA StopStep ==
  ASSUME IndInv, NEW t \in Tx,
         \/ CommitAcknowledged(t) \/ CommitUnanswered(t) \/ Rollback(t)
         \/ ConnectionLost(t) \/ SessionGone(t) \/ Crash(t)
  PROVE  IndInv'
<1>1. InStep(t) /\ TypeOK
  BY DEF IndInv
<1>2. CASE CommitAcknowledged(t)
  <2>1. pc'[t] = "done" /\ InStep(t)'
    BY <1>1, <1>2 DEF CommitAcknowledged, Goto, InStep, TypeOK, Statement
  <2>2. QED
    BY <1>1, <1>2, <2>1, GoroutineStops DEF CommitAcknowledged, TypeOK
<1>3. CASE CommitUnanswered(t)
  <2>1. pc'[t] = "done" /\ InStep(t)'
    BY <1>1, <1>3 DEF CommitUnanswered, Goto, InStep, TypeOK, Statement
  <2>2. QED
    BY <1>1, <1>3, <2>1, GoroutineStops DEF CommitUnanswered, TypeOK, Errors
<1>4. CASE Rollback(t)
  <2>1. pc'[t] = "done" /\ InStep(t)'
    BY <1>1, <1>4 DEF Rollback, Goto, InStep, TypeOK, Statement
  <2>2. QED
    BY <1>1, <1>4, <2>1, GoroutineStops DEF Rollback, TypeOK, Errors
<1>5. CASE ConnectionLost(t)
  <2>1. pc'[t] = "rollback" /\ InStep(t)'
    BY <1>1, <1>5 DEF ConnectionLost, Goto, InStep, TypeOK, Statement
  <2>2. QED
    BY <1>1, <1>5, <2>1, GoroutineStops DEF ConnectionLost, TypeOK, Errors
<1>6. CASE SessionGone(t)
  <2>1. pc'[t] = "rollback" /\ InStep(t)'
    BY <1>1, <1>6 DEF SessionGone, Goto, InStep, TypeOK, Statement
  <2>2. QED
    BY <1>1, <1>6, <2>1, GoroutineStops DEF SessionGone, TypeOK, Errors
<1>7. CASE Crash(t)
  <2>1. pc'[t] = "crashed" /\ InStep(t)'
    BY <1>1, <1>7 DEF Crash, Goto, InStep, TypeOK, Statement
  <2>2. QED
    BY <1>1, <1>7, <2>1, GoroutineStops DEF Crash, TypeOK
<1>8. QED
  BY <1>2, <1>3, <1>4, <1>5, <1>6, <1>7
(* A backend that notices that its client is gone undoes its transaction. *)
LEMMA BackendAbortStep ==
  ASSUME IndInv, NEW t \in Tx, BackendAbort(t)
  PROVE  IndInv'
<1> USE DEF BackendAbort, Aborts
<1>1. TypeOK'
  <2>1. NoRows \in [transfers: SUBSET TransferRows, entries: SUBSET EntryRows,
                    keys: SUBSET KeyRows]
    BY DEF NoRows
  <2>2. QED
    BY <2>1 DEF IndInv, TypeOK, tables
<1>2. session'[t] = "aborted" /\ rows'[t] = NoRows /\ locked'[t] = {}
  BY DEF IndInv, TypeOK
<1>3. Local(t) /\ KeepsOutcome(t)
  BY <1>2 DEF Local, KeepsOutcome, IndInv, TypeOK, Active
<1>4. InStep(t)'
  BY <1>2 DEF IndInv, InStep, Statement, Active, Disconnected
<1>5. Written(t)' /\ Locks(t)'
  BY <1>2 DEF Written, Locks, At, Active
<1>6. QED
  BY <1>1, <1>2, <1>3, <1>4, <1>5, LocalStep DEF NoRows

(* A restart of Postgres undoes every transaction that has not committed. *)
LEMMA PostgresRestartStep ==
  ASSUME IndInv, PostgresRestart
  PROVE  IndInv'
<1> USE DEF PostgresRestart
<1>1. TypeOK'
  <2>1. NoRows \in [transfers: SUBSET TransferRows, entries: SUBSET EntryRows,
                    keys: SUBSET KeyRows]
    BY DEF NoRows
  <2>2. session' \in [Tx -> {"none", "open", "committing", "committed", "aborted"}]
    BY DEF IndInv, TypeOK
  <2>3. QED
    BY <2>1, <2>2 DEF IndInv, TypeOK, tables
<1>2. \A u \in Tx : /\ rows'[u] = NoRows /\ locked'[u] = {}
                    /\ session'[u] = IF Active(u) THEN "aborted" ELSE session[u]
  OBVIOUS
<1>3. \A u \in Tx : (InStep(u) /\ Written(u) /\ Locks(u))'
  <2>1. SUFFICES ASSUME NEW u \in Tx
                 PROVE  (InStep(u) /\ Written(u) /\ Locks(u))'
    OBVIOUS
  <2>2. session'[u] \notin {"open", "committing"}
    BY <1>2 DEF Active
  <2>3. InStep(u)'
    BY <1>2, <2>2 DEF IndInv, InStep, Statement, Active
  <2>4. Written(u)' /\ Locks(u)'
    BY <1>2, <2>2 DEF Written, Locks, At, Active
  <2>5. QED
    BY <2>3, <2>4
<1>4. Exclusive' /\ Pending'
  BY <1>2 DEF Exclusive, Pending
<1>5. KeysExclusive' /\ KeysFresh'
  BY <1>2 DEF KeysExclusive, KeysFresh, NoRows
<1>6. \A u \in Tx : session'[u] = "committed" <=> session[u] = "committed"
  BY <1>2 DEF Active
<1>7. \A u \in Tx : Spent(u)' = Spent(u)
  BY DEF Spent, ResultOf
<1>8. CommittedRows'
  <2>1. \A r \in transfers : r.id \in Tx
    BY DEF IndInv, TypeOK, TransferRows
  <2>2. QED
    BY <1>6, <1>7, <2>1 DEF IndInv, CommittedRows, tables
<1>9. CommittedOnce'
  BY <1>6 DEF IndInv, CommittedOnce
<1>10. NoOverdraft' /\ DoubleEntry'
  BY DEF IndInv, NoOverdraft, DoubleEntry, tables
<1>11. QED
  BY <1>1, <1>3, <1>4, <1>5, <1>8, <1>9, <1>10 DEF IndInv
(* What a transaction that Postgres is about to commit has written. *)
LEMMA Committing ==
  ASSUME IndInv, NEW t \in Tx, CommitTransaction(t)
  PROVE  /\ session[t] = "committing"
         /\ arg[t] \in Arg /\ {arg[t].from, arg[t].to} \subseteq Account
         /\ rows[t] = [transfers |-> {TransferRow(t, arg[t])},
                       entries |-> {Debit(t), Credit(t)}, keys |-> Spent(t)]
         /\ locked[t] = {arg[t].from, arg[t].to}
         /\ balance'[arg[t].from] = balance[arg[t].from] - arg[t].amount
         /\ balance'[arg[t].to] = balance[arg[t].to] + arg[t].amount
         /\ balance' \in [Account -> 0..MaxInt64]
         /\ newBalance[t][arg[t].from] = balance'[arg[t].from]
         /\ newBalance[t][arg[t].to] = balance'[arg[t].to]
         /\ \A a \in Account \ locked[t] : balance'[a] = balance[a]
<1>1. session[t] = "committing"
  BY DEF CommitTransaction
<1>2. arg[t] \in Arg /\ {arg[t].from, arg[t].to} \subseteq Account
  BY <1>1, AccountsExist
<1>3. rows[t] = [transfers |-> {TransferRow(t, arg[t])},
                 entries |-> {Debit(t), Credit(t)}, keys |-> Spent(t)]
  BY <1>1 DEF IndInv, Written
<1>4. locked[t] = {arg[t].from, arg[t].to}
  BY <1>1 DEF IndInv, Locks
<1>5. balance' = [a \in Account |-> IF a \in locked[t] THEN newBalance[t][a] ELSE balance[a]]
  BY DEF CommitTransaction
<1>6. /\ newBalance[t][arg[t].from] = balance[arg[t].from] - arg[t].amount
      /\ newBalance[t][arg[t].to] = balance[arg[t].to] + arg[t].amount
  <2>1. \A a \in locked[t] : newBalance[t][a] = balance[a] + Delta(arg[t], a)
    BY DEF IndInv, Pending
  <2>2. Delta(arg[t], arg[t].from) = -arg[t].amount /\ Delta(arg[t], arg[t].to) = arg[t].amount
    BY <1>2, LockOrder
  <2>3. balance[arg[t].from] \in Int /\ arg[t].amount \in Int
    BY <1>2, ArgType DEF IndInv, TypeOK
  <2>4. QED
    BY <1>4, <2>1, <2>2, <2>3
<1>7. balance' \in [Account -> 0..MaxInt64]
  <2>1. newBalance[t] \in [Account -> 0..MaxInt64]
    BY DEF IndInv, TypeOK
  <2>2. \A a \in Account : balance[a] \in 0..MaxInt64
    BY DEF IndInv, NoOverdraft
  <2>3. QED
    BY <1>5, <2>1, <2>2
<1>8. QED
  BY <1>1, <1>2, <1>3, <1>4, <1>5, <1>6, <1>7

(* A COMMIT that takes effect preserves the invariant: the locked balances
   move by what the two entries say, and the key becomes a spent one. *)
LEMMA CommitTransactionStep ==
  ASSUME IndInv, NEW t \in Tx, CommitTransaction(t)
  PROVE  IndInv'
<1> USE DEF CommitTransaction
<1>1. /\ session[t] = "committing"
      /\ rows[t] = [transfers |-> {TransferRow(t, arg[t])},
                    entries |-> {Debit(t), Credit(t)}, keys |-> Spent(t)]
      /\ balance' \in [Account -> 0..MaxInt64]
      /\ \A a \in Account \ locked[t] : balance'[a] = balance[a]
  BY Committing
<1>2. /\ session'[t] = "committed" /\ rows'[t] = NoRows /\ locked'[t] = {}
      /\ \A u \in Tx \ {t} : /\ session'[u] = session[u] /\ rows'[u] = rows[u]
                             /\ locked'[u] = locked[u]
  BY DEF IndInv, TypeOK
<1>3. /\ transfers' = transfers \cup {TransferRow(t, arg[t])}
      /\ entries' = entries \cup {Debit(t), Credit(t)}
      /\ keys' = keys \cup Spent(t)
  BY <1>1
<1>4. TypeOK'
  <2>1. rows[t].transfers \subseteq TransferRows /\ rows[t].entries \subseteq EntryRows
        /\ rows[t].keys \subseteq KeyRows
    BY DEF IndInv, TypeOK
  <2>2. transfers' \subseteq TransferRows /\ entries' \subseteq EntryRows /\ keys' \subseteq KeyRows
    BY <2>1 DEF IndInv, TypeOK
  <2>3. balance' \in [Account -> Int]
    BY <1>1
  <2>4. NoRows \in [transfers: SUBSET TransferRows, entries: SUBSET EntryRows,
                    keys: SUBSET KeyRows]
    BY DEF NoRows
  <2>5. QED
    BY <2>2, <2>3, <2>4 DEF IndInv, TypeOK
<1>5. \A u \in Tx : Spent(u)' = Spent(u)
  BY DEF Spent, ResultOf
<1>6. \A u \in Tx : (InStep(u) /\ Written(u) /\ Locks(u))'
  <2>1. SUFFICES ASSUME NEW u \in Tx
                 PROVE  (InStep(u) /\ Written(u) /\ Locks(u))'
    OBVIOUS
  <2>2. InStep(u) /\ Written(u) /\ Locks(u)
    BY DEF IndInv
  <2>3. CASE u = t
    <3>1. InStep(u)'
      BY <1>1, <1>2, <2>2, <2>3 DEF InStep, Statement
    <3>2. Written(u)' /\ Locks(u)'
      BY <1>2, <2>3 DEF Written, Locks, At, Active
    <3>3. QED
      BY <3>1, <3>2
  <2>4. CASE u # t
    <3>1. InStep(u)'
      BY <1>2, <2>2, <2>4 DEF InStep
    <3>2. Written(u)'
      BY <1>2, <2>2, <2>4 DEF Written, At, Active, Claim, Spent, Debit, Credit, ResultOf
    <3>3. Locks(u)'
      BY <1>2, <2>2, <2>4 DEF Locks, At, Active
    <3>4. QED
      BY <3>1, <3>2, <3>3
  <2>5. QED
    BY <2>3, <2>4
<1>7. Exclusive'
  BY <1>2 DEF IndInv, Exclusive
<1>8. Pending'
  <2>1. SUFFICES ASSUME NEW u \in Tx, NEW a \in locked'[u]
                 PROVE  newBalance'[u][a] = balance'[a] + Delta(arg'[u], a)
    BY DEF Pending
  <2>2. u # t /\ a \in locked[u]
    BY <1>2
  <2>3. a \in Account \ locked[t]
    BY <2>2 DEF IndInv, Exclusive, TypeOK
  <2>4. QED
    BY <1>1, <2>2, <2>3 DEF IndInv, Pending
<1>9. KeysExclusive'
  BY <1>2 DEF IndInv, KeysExclusive, NoRows
<1>10. KeysFresh'
  <2>1. SUFFICES ASSUME NEW u \in Tx, NEW k \in rows'[u].keys, NEW l \in keys',
                        SameKey(k, l)
                 PROVE  FALSE
    BY DEF KeysFresh, SameKey
  <2>2. u # t /\ k \in rows[u].keys
    BY <1>2 DEF NoRows
  <2>3. l \notin keys
    BY <2>1, <2>2 DEF IndInv, KeysFresh
  <2>4. l \in rows[t].keys
    BY <1>1, <1>3, <2>3
  <2>5. QED
    BY <2>1, <2>2, <2>4 DEF IndInv, KeysExclusive
<1>11. CommittedRows'
  <2>1. \A r \in transfers : r.id \in Tx
    BY DEF IndInv, TypeOK, TransferRows
  <2>2. CommittedRows
    BY DEF IndInv
  <2>3. \A u \in Tx : session'[u] = "committed" =>
          TransferRow(u, arg'[u]) \in transfers' /\ Spent(u)' \subseteq keys'
    BY <1>2, <1>3, <1>5, <2>2 DEF CommittedRows
  <2>4. \A r \in transfers' : session'[r.id] = "committed" /\ r = TransferRow(r.id, arg'[r.id])
    <3>1. TransferRow(t, arg[t]).id = t
      BY DEF TransferRow
    <3>2. QED
      BY <1>2, <1>3, <2>1, <2>2, <3>1 DEF CommittedRows
  <2>5. \A k \in keys' : \E u \in Tx : session'[u] = "committed" /\ k \in Spent(u)'
    <3>1. SUFFICES ASSUME NEW k \in keys'
                   PROVE  \E u \in Tx : session'[u] = "committed" /\ k \in Spent(u)'
      OBVIOUS
    <3>2. CASE k \in keys
      <4>1. PICK u \in Tx : session[u] = "committed" /\ k \in Spent(u)
        BY <2>2, <3>2 DEF CommittedRows
      <4>2. session'[u] = "committed" /\ k \in Spent(u)'
        BY <1>2, <1>5, <4>1
      <4>3. QED
        BY <4>2
    <3>3. CASE k \in Spent(t)
      BY <1>2, <1>5, <3>3
    <3>4. QED
      BY <1>3, <3>2, <3>3
  <2>6. QED
    BY <2>3, <2>4, <2>5 DEF CommittedRows
<1>12. CommittedOnce'
  <2>1. \A u \in Tx \ {t} :
          ~(session[u] = "committed" /\ arg[t].key # NoKey /\ SameKey(arg[t], arg[u]))
    <3>1. SUFFICES ASSUME NEW u \in Tx \ {t}, session[u] = "committed",
                          arg[t].key # NoKey, SameKey(arg[t], arg[u])
                   PROVE  FALSE
      OBVIOUS
    <3>2. KeyRow(arg[u], ResultOf(u)) \in keys
      BY <3>1 DEF IndInv, CommittedRows, Spent, SameKey
    <3>3. KeyRow(arg[t], ResultOf(t)) \in rows[t].keys
      BY <1>1, <3>1 DEF Spent
    <3>4. SameKey(KeyRow(arg[t], ResultOf(t)), KeyRow(arg[u], ResultOf(u)))
      BY <3>1 DEF SameKey, KeyRow
    <3>5. QED
      BY <3>2, <3>3, <3>4 DEF IndInv, KeysFresh
  <2>2. SUFFICES ASSUME NEW u \in Tx, NEW v \in Tx,
                        session'[u] = "committed", session'[v] = "committed",
                        arg[u].key # NoKey, SameKey(arg[u], arg[v]), u # v
                 PROVE  FALSE
    BY DEF CommittedOnce
  <2>3. CASE u # t /\ v # t
    BY <1>2, <2>2, <2>3 DEF IndInv, CommittedOnce
  <2>4. CASE u = t
    BY <1>2, <2>1, <2>2, <2>4
  <2>5. CASE v = t
    BY <1>2, <2>1, <2>2, <2>5 DEF SameKey
  <2>6. QED
    BY <2>3, <2>4, <2>5
<1>13. NoOverdraft'
  BY <1>1 DEF NoOverdraft
<1>14. DoubleEntry'
  <2> DEFINE E(r) == {EntryRow(r.id, r.from, -r.amount), EntryRow(r.id, r.to, r.amount)}
             new == TransferRow(t, arg[t])
  <2>1. entries = UNION {E(r) : r \in transfers}
    BY DEF IndInv, DoubleEntry
  <2>2. E(new) = {Debit(t), Credit(t)}
    BY DEF TransferRow, Debit, Credit
  <2>3. UNION {E(r) : r \in transfers \cup {new}} = (UNION {E(r) : r \in transfers}) \cup E(new)
    <3> HIDE DEF E, new
    <3> QED
      OBVIOUS
  <2>4. QED
    BY <1>3, <2>1, <2>2, <2>3 DEF DoubleEntry
<1>15. QED
  BY <1>4, <1>6, <1>7, <1>8, <1>9, <1>10, <1>11, <1>12, <1>13, <1>14 DEF IndInv
-----------------------------------------------------------------------------
(* The theorems.                                                           *)

(* The invariant holds when the store starts. *)
LEMMA InitInvariant == Init => IndInv
<1> SUFFICES ASSUME Init PROVE IndInv
  OBVIOUS
<1> USE SchemaAssumption DEF SchemaAssumption, Init
<1>1. TypeOK
  <2>1. NoRows \in [transfers: SUBSET TransferRows, entries: SUBSET EntryRows,
                    keys: SUBSET KeyRows]
    BY DEF NoRows
  <2>2. newBalance \in [Tx -> [Account -> 0..MaxInt64]]
    OBVIOUS
  <2>3. balance \in [Account -> Int]
    OBVIOUS
  <2>4. QED
    BY <2>1, <2>2, <2>3 DEF TypeOK, PC, Errors
<1>2. \A t \in Tx : InStep(t) /\ Written(t) /\ Locks(t)
  BY DEF InStep, Written, Locks, At, Active, Statement
<1>3. Exclusive /\ Pending
  BY DEF Exclusive, Pending
<1>4. KeysExclusive /\ KeysFresh
  BY DEF KeysExclusive, KeysFresh, NoRows
<1>5. CommittedRows /\ CommittedOnce
  BY DEF CommittedRows, CommittedOnce
<1>6. NoOverdraft /\ DoubleEntry
  BY DEF NoOverdraft, DoubleEntry
<1>7. QED
  BY <1>1, <1>2, <1>3, <1>4, <1>5, <1>6 DEF IndInv

(* Every step of the store, of its backends and of Postgres preserves it. *)
LEMMA NextInvariant == IndInv /\ [Next]_vars => IndInv'
<1> SUFFICES ASSUME IndInv, [Next]_vars PROVE IndInv'
  OBVIOUS
<1>1. CASE UNCHANGED vars
  <2> USE <1>1 DEF vars, tables, uncommitted
  <2>1. TypeOK'
    BY DEF IndInv, TypeOK
  <2>2. ASSUME NEW t \in Tx PROVE InStep(t)' /\ Written(t)' /\ Locks(t)'
    <3>1. InStep(t) /\ Written(t) /\ Locks(t)
      BY DEF IndInv
    <3>2. InStep(t)'
      BY <3>1 DEF InStep
    <3>3. Written(t)'
      BY <3>1 DEF Written, At, Active, Claim, Spent, Debit, Credit, ResultOf
    <3>4. Locks(t)'
      BY <3>1 DEF Locks, At, Active
    <3>5. QED
      BY <3>2, <3>3, <3>4
  <2>3. (Exclusive /\ Pending /\ KeysExclusive /\ KeysFresh)'
    BY DEF IndInv, Exclusive, Pending, KeysExclusive, KeysFresh
  <2>4. (CommittedRows /\ CommittedOnce /\ NoOverdraft /\ DoubleEntry)'
    BY DEF IndInv, CommittedRows, CommittedOnce, NoOverdraft, DoubleEntry, Spent, ResultOf
  <2>5. QED
    BY <2>1, <2>2, <2>3, <2>4 DEF IndInv
<1>2. ASSUME NEW t \in Tx, NEW a \in Arg, BeginTx(t, a) PROVE IndInv'
  BY <1>2, BeginTxStep
<1>3. ASSUME NEW t \in Tx, Step(t) PROVE IndInv'
  BY <1>3, CreateIdempotencyKeyStep, CreateTransferStep, CreateFromEntryStep,
     CreateToEntryStep, AddMoneyFirstStep, AddMoneySecondStep,
     CompleteIdempotencyKeyStep, CommitStep, StopStep DEF Step
<1>4. ASSUME NEW t \in Tx, Fault(t) PROVE IndInv'
  BY <1>4, StopStep DEF Fault
<1>5. ASSUME NEW t \in Tx, Backend(t) PROVE IndInv'
  BY <1>5, CommitTransactionStep, BackendAbortStep DEF Backend
<1>6. CASE PostgresRestart
  BY <1>6, PostgresRestartStep
<1>7. QED
  BY <1>1, <1>2, <1>3, <1>4, <1>5, <1>6 DEF Next, Progress

(* IndInv is an invariant of the store: in every reachable state, whatever
   faults have happened, uncommitted rows, locks and claims are as the
   statements executed so far imply, and committed rows are whole calls. *)
THEOREM StoreInvariant == Spec => []IndInv
<1>1. QED
  BY InitInvariant, NextInvariant, PTL DEF Spec

(* Every variable has its type, in particular every row that a transaction
   writes refers to accounts that exist. *)
THEOREM TypeCorrect == Spec => []TypeOK
<1>1. IndInv => TypeOK
  BY DEF IndInv
<1>2. QED
  BY <1>1, StoreInvariant, PTL

(* No interleaving of transferTx calls makes a balance negative or too large
   for its bigint column. *)
THEOREM NeverOverdrawn == Spec => []NoOverdraft
<1>1. IndInv => NoOverdraft
  BY DEF IndInv
<1>2. QED
  BY <1>1, StoreInvariant, PTL

(* execTx is all or nothing: the entries are exactly the debits and credits
   of the transfers. *)
THEOREM TransfersWhole == Spec => []DoubleEntry
<1>1. IndInv => DoubleEntry
  BY DEF IndInv
<1>2. QED
  BY <1>1, StoreInvariant, PTL

(* IdempotentTransferTx moves money at most once per (owner, key). *)
THEOREM MoneyMovesOnce == Spec => []AtMostOncePerKey
<1>1. IndInv => AtMostOncePerKey
  <2>1. SUFFICES ASSUME IndInv, NEW r \in transfers, NEW s \in transfers,
                        arg[r.id].key # NoKey, SameKey(arg[r.id], arg[s.id])
                 PROVE  r.id = s.id
    BY DEF AtMostOncePerKey
  <2>2. r.id \in Tx /\ s.id \in Tx
    BY <2>1 DEF IndInv, TypeOK, TransferRows
  <2>3. session[r.id] = "committed" /\ session[s.id] = "committed"
    BY <2>1 DEF IndInv, CommittedRows
  <2>4. QED
    BY <2>1, <2>2, <2>3 DEF IndInv, CommittedOnce
<1>2. QED
  BY <1>1, StoreInvariant, PTL

(* The replay path relies on this: a spent key is never seen without the
   response of the transfer it was spent on. *)
THEOREM ReplayFindsResponse == Spec => []SpentKeyHasResponse
<1>1. IndInv => SpentKeyHasResponse
  <2>1. SUFFICES ASSUME IndInv, NEW k \in keys
                 PROVE  \E r \in transfers : /\ SameKey(k, arg[r.id])
                                             /\ k.hash = arg[r.id].hash
                                             /\ k.body = ResultOf(r.id)
    BY DEF SpentKeyHasResponse
  <2>2. PICK t \in Tx : session[t] = "committed" /\ k \in Spent(t)
    BY <2>1 DEF IndInv, CommittedRows
  <2>3. k = KeyRow(arg[t], ResultOf(t))
    BY <2>2 DEF Spent
  <2>4. TransferRow(t, arg[t]) \in transfers /\ TransferRow(t, arg[t]).id = t
    BY <2>1, <2>2 DEF IndInv, CommittedRows, TransferRow
  <2>5. QED
    BY <2>3, <2>4 DEF SameKey, KeyRow
<1>2. QED
  BY <1>1, StoreInvariant, PTL

(* What a call returns is what happened to its transaction. *)
THEOREM ErrorsTellTheTruth == Spec => []OutcomeSound
<1>1. IndInv => OutcomeSound
  BY DEF IndInv, InStep, OutcomeSound
<1>2. QED
  BY <1>1, StoreInvariant, PTL
(* A nonempty set of calls at their second UPDATE has one whose second
   account has the largest id, since ids are bounded. *)
LEMMA LargestSecondId ==
  ASSUME NEW S \in SUBSET Tx, S # {}, \A t \in S : arg[t] \in Arg
  PROVE  \E t \in S : \A u \in S : SecondId(arg[u]) <= SecondId(arg[t])
<1> DEFINE D == {MaxInt64 - SecondId(arg[t]) : t \in S}
<1>1. \A t \in S : SecondId(arg[t]) \in 1..MaxInt64
  BY ArgType, SchemaAssumption DEF SchemaAssumption, SecondId
<1>2. MaxInt64 \in Nat
  BY SchemaAssumption DEF SchemaAssumption
<1>3. PICK d \in D : \A e \in D : d <= e
  <2>1. D \in SUBSET Nat /\ D # {}
    BY <1>1, <1>2
  <2> HIDE DEF D
  <2>2. QED
    BY <2>1, LeastNumber
<1>4. PICK t \in S : d = MaxInt64 - SecondId(arg[t])
  OBVIOUS
<1>5. \A u \in S : SecondId(arg[u]) <= SecondId(arg[t])
  <2>1. SUFFICES ASSUME NEW u \in S
                 PROVE  SecondId(arg[u]) <= SecondId(arg[t])
    OBVIOUS
  <2>2. d <= MaxInt64 - SecondId(arg[u])
    BY <1>3
  <2>3. QED
    BY <1>1, <1>2, <1>4, <2>2
<1>6. QED
  BY <1>5

(* Consistent lock ordering: no set of calls waits in a circle.  In a set
   where everyone waits, a call at its claim waits for one past it, a call at
   its first UPDATE for one at its second, and a call at its second UPDATE
   for one at its second UPDATE whose ids are larger, which cannot go on. *)
THEOREM DeadlockFree == Spec => []NoDeadlock
<1>1. IndInv => NoDeadlock
  <2>1. SUFFICES ASSUME IndInv, NEW S \in SUBSET Tx, S # {},
                        \A t \in S : \E u \in S : WaitsFor(t, u)
                 PROVE  FALSE
    BY DEF NoDeadlock
  <2>2. \A t \in S : At(t, "claim") \/ At(t, "first") \/ At(t, "second")
    BY <2>1 DEF WaitsFor
  <2>3. \A t \in S : /\ At(t, "claim") => rows[t].keys = {}
                     /\ At(t, "claim") \/ At(t, "first") => locked[t] = {}
                     /\ At(t, "second") => locked[t] = {FirstId(arg[t])}
    <3>1. \A t \in Tx : Written(t) /\ Locks(t)
      BY <2>1 DEF IndInv
    <3>2. ASSUME NEW t \in S, At(t, "claim") PROVE rows[t].keys = {}
      <4>1. Written(t)
        BY <3>1
      <4>2. rows[t] = NoRows
        BY <3>2, <4>1 DEF Written
      <4>3. QED
        BY <4>2 DEF NoRows
    <3>3. ASSUME NEW t \in S
          PROVE  /\ At(t, "claim") \/ At(t, "first") => locked[t] = {}
                 /\ At(t, "second") => locked[t] = {FirstId(arg[t])}
      BY <3>1 DEF Locks, At
    <3>4. QED
      BY <3>2, <3>3
  <2>4. \A t \in S : At(t, "first") \/ At(t, "second") => arg[t] \in Arg
    <3>1. \A t \in Tx : InStep(t)
      BY <2>1 DEF IndInv
    <3>2. QED
      BY <3>1 DEF InStep, At
  <2> DEFINE S2 == {t \in S : At(t, "second")}
  <2>5. ASSUME NEW t \in S, At(t, "first") \/ At(t, "second")
        PROVE  \E u \in S2 : WaitsFor(t, u)
    <3>1. PICK u \in S : WaitsFor(t, u)
      BY <2>1
    <3>2. locked[u] # {}
      BY <2>5, <3>1 DEF WaitsFor, At
    <3>3. At(u, "second")
      BY <2>2, <2>3, <3>2
    <3>4. QED
      BY <3>1, <3>3
  <2>6. S2 # {}
    <3>1. PICK t \in S : TRUE
      BY <2>1
    <3>2. CASE At(t, "claim")
      <4>1. PICK u \in S : WaitsFor(t, u)
        BY <2>1
      <4>2. rows[u].keys # {}
        BY <3>2, <4>1 DEF WaitsFor, At, KeyClaimedBy
      <4>3. At(u, "first") \/ At(u, "second")
        BY <2>2, <2>3, <4>2
      <4>4. QED
        BY <2>5, <4>3
    <3>3. CASE At(t, "first") \/ At(t, "second")
      BY <2>5, <3>3
    <3>4. QED
      BY <2>2, <3>2, <3>3
  <2>7. PICK t \in S2 : \A u \in S2 : SecondId(arg[u]) <= SecondId(arg[t])
    BY <2>4, <2>6, LargestSecondId
  <2>8. PICK u \in S2 : WaitsFor(t, u)
    BY <2>5
  <2>9. SecondId(arg[t]) = FirstId(arg[u])
    BY <2>3, <2>8 DEF WaitsFor, At
  <2>10. FirstId(arg[u]) < SecondId(arg[u]) /\ arg[u] \in Arg /\ arg[t] \in Arg
    BY <2>4, LockOrder
  <2>11. QED
    BY <2>7, <2>9, <2>10, ArgType DEF FirstId, SecondId
<1>2. QED
  BY <1>1, StoreInvariant, PTL

(* Every step of the store is a step of the abstract ledger: the commit of a
   transaction is the posting of its transfer, and every other step leaves
   the ledger as it was. *)
LEMMA LedgerStep ==
  ASSUME IndInv, [Next]_vars
  PROVE  [L!Next]_(L!vars)
<1>1. ASSUME NEW t \in Tx, CommitTransaction(t) PROVE L!Next
  <2> DEFINE a == arg[t]
  <2>1. /\ session[t] = "committing"
        /\ a \in Arg /\ {a.from, a.to} \subseteq Account
        /\ rows[t] = [transfers |-> {TransferRow(t, a)},
                      entries |-> {Debit(t), Credit(t)}, keys |-> Spent(t)]
        /\ locked[t] = {a.from, a.to}
        /\ balance'[a.from] = balance[a.from] - a.amount
        /\ balance'[a.to] = balance[a.to] + a.amount
        /\ balance' \in [Account -> 0..MaxInt64]
        /\ newBalance[t][a.from] = balance'[a.from]
        /\ newBalance[t][a.to] = balance'[a.to]
        /\ \A b \in Account \ locked[t] : balance'[b] = balance[b]
    BY <1>1, Committing
  <2>2. /\ a.from # a.to /\ a.amount \in Int /\ a.key \in Key \cup {NoKey}
        /\ balance \in [Account -> Int]
    BY <2>1, ArgType DEF IndInv, TypeOK
  <2>3. \A r \in transfers : r.id # t
    BY <2>1 DEF IndInv, CommittedRows
  <2>4. ~L!KeySpent(a)
    <3>1. CASE a.key = NoKey
      BY <3>1, SchemaAssumption
         DEF L!KeySpent, SchemaAssumption, IndInv, TypeOK, KeyRows
    <3>2. CASE a.key # NoKey
      <4>1. KeyRow(a, ResultOf(t)) \in rows[t].keys
        BY <2>1, <3>2 DEF Spent
      <4>2. \A k \in keys : ~SameKey(KeyRow(a, ResultOf(t)), k)
        BY <4>1 DEF IndInv, KeysFresh
      <4>3. QED
        BY <4>2 DEF L!KeySpent, SameKey, KeyRow
    <3>3. QED
      BY <3>1, <3>2
  <2>5. balance[a.from] >= a.amount /\ balance[a.to] + a.amount <= MaxInt64
    <3>1. balance'[a.from] \in 0..MaxInt64 /\ balance'[a.to] \in 0..MaxInt64
      BY <2>1
    <3>2. balance[a.from] \in Int /\ balance[a.to] \in Int
      BY <2>1, <2>2
    <3>3. QED
      BY <2>1, <2>2, <3>1, <3>2, SchemaAssumption DEF SchemaAssumption
  <2>6. balance' = [balance EXCEPT ![a.from] = @ - a.amount, ![a.to] = @ + a.amount]
    <3> HIDE DEF a
    <3> QED
      BY <2>1, <2>2
  <2>7. /\ transfers' = transfers \cup {TransferRow(t, a)}
        /\ entries' = entries \cup
             {EntryRow(t, a.from, -a.amount), EntryRow(t, a.to, a.amount)}
        /\ keys' = keys \cup Spent(t)
    BY <1>1, <2>1 DEF CommitTransaction, Debit, Credit
  <2>8. keys' = IF a.key = NoKey THEN keys
                ELSE keys \cup {KeyRow(a, TransferTxResult(t, balance[a.from] - a.amount,
                                                              balance[a.to] + a.amount))}
    BY <2>1, <2>7 DEF Spent, ResultOf
  <2>9. L!Post(t, a)
    <3> HIDE DEF a
    <3> QED
      BY <2>1, <2>3, <2>4, <2>5, <2>6, <2>7, <2>8
         DEF L!Post, L!TransferRow, L!EntryRow, L!KeyRow, L!TransferTxResult,
             TransferRow, EntryRow, KeyRow, TransferTxResult
  <2>10. QED
    BY <2>1, <2>9 DEF L!Next
<1>2. ASSUME NEW t \in Tx, Step(t) \/ Fault(t) \/ BackendAbort(t) PROVE UNCHANGED tables
  <2>1. CASE Step(t)
    BY <2>1 DEF Step, CreateIdempotencyKey, CreateTransfer, CreateFromEntry,
       CreateToEntry, AddMoneyFirst, AddMoneySecond, AddAccountBalance,
       CompleteIdempotencyKey, Commit, CommitAcknowledged, Rollback, SessionGone
  <2>2. CASE Fault(t) \/ BackendAbort(t)
    BY <2>2 DEF Fault, ConnectionLost, CommitUnanswered, Crash, BackendAbort
  <2>3. QED
    BY <1>2, <2>1, <2>2
<1>3. ASSUME NEW t \in Tx, NEW a \in Arg, BeginTx(t, a) PROVE UNCHANGED tables
  BY <1>3 DEF BeginTx
<1>4. CASE PostgresRestart \/ UNCHANGED vars
  BY <1>4 DEF PostgresRestart, vars, L!vars, tables
<1>5. CASE Next /\ ~PostgresRestart
  <2>1. L!Next \/ UNCHANGED tables
    BY <1>1, <1>2, <1>3, <1>5 DEF Next, Progress, Backend
  <2>2. QED
    BY <2>1 DEF L!vars, tables
<1>6. QED
  BY <1>4, <1>5

(* The store implements the abstract ledger: it starts as the ledger does
   and takes its steps. *)
THEOREM StoreImplementsLedger == Spec => RefinesLedger
<1>1. Init => L!Init
  BY DEF Init, L!Init
<1>2. IndInv /\ [Next]_vars => [L!Next]_(L!vars)
  BY LedgerStep
<1>3. QED
  BY <1>1, <1>2, StoreInvariant, PTL DEF Spec, RefinesLedger, L!Spec

-----------------------------------------------------------------------------
(* The balances and the ledger entries.                                    *)

Amount == [e \in EntryRows |-> e.amount]
EntriesOf(a) == {e \in entries : e.account = a}

(* AuditTrail, with the sums written as SumOf; the entries are finitely many
   because each commit adds two. *)
Booked ==
  /\ IsFiniteSet(entries)
  /\ \A a \in Account : balance[a] = InitBalance[a] + SumOf(Amount, EntriesOf(a))
  /\ SumOf(balance, Account) = SumOf(InitBalance, Account)

(* Account ids are bigints, so there are finitely many. *)
LEMMA AccountsFinite == IsFiniteSet(Account)
<1>1. MaxInt64 \in Int /\ Account \subseteq 1..MaxInt64
  BY SchemaAssumption DEF SchemaAssumption
<1>2. IsFiniteSet(1..MaxInt64)
  BY <1>1, FS_Interval
<1>3. QED
  BY <1>1, <1>2, FS_Subset

LEMMA BookedIsAuditTrail == TypeOK /\ Booked => AuditTrail
<1>1. SUFFICES ASSUME TypeOK, Booked PROVE AuditTrail
  OBVIOUS
<1>2. ASSUME NEW a \in Account
      PROVE  balance[a] = InitBalance[a]
                          + MapThenSumSet(LAMBDA e : e.amount, {e \in entries : e.account = a})
  <2> DEFINE E == {e \in entries : e.account = a}
  <2>1. IsFiniteSet(E) /\ E = EntriesOf(a)
    BY <1>1, FS_Subset DEF Booked, EntriesOf
  <2>2. \A e \in E : Amount[e] = e.amount
    BY <1>1 DEF TypeOK, Amount
  <2> HIDE DEF E
  <2>3. MapThenSumSet(LAMBDA e : e.amount, E) = SumOf(Amount, E)
    BY <2>1, <2>2, SumAmounts
  <2>4. balance[a] = InitBalance[a] + SumOf(Amount, E)
    BY <1>1, <2>1 DEF Booked
  <2>5. balance[a] = InitBalance[a] + MapThenSumSet(LAMBDA e : e.amount, E)
    BY <2>3, <2>4
  <2>6. QED
    BY <2>5 DEF E
<1>3. MapThenSumSet(LAMBDA a : balance[a], Account)
        = MapThenSumSet(LAMBDA a : InitBalance[a], Account)
  BY <1>1 DEF Booked, SumOf
<1>4. QED
  BY <1>2, <1>3 DEF AuditTrail

(* Posting a transfer books it: its two entries are new, each to an account
   whose balance changes by its amount, and the two amounts cancel out. *)
LEMMA PostBooks ==
  ASSUME IndInv, Booked, NEW t \in Tx, NEW a \in Arg, L!Post(t, a)
  PROVE  Booked'
<1> DEFINE debit == EntryRow(t, a.from, -a.amount)
           credit == EntryRow(t, a.to, a.amount)
<1>1. /\ {a.from, a.to} \subseteq Account
      /\ \A r \in transfers : r.id # t
      /\ balance' = [balance EXCEPT ![a.from] = @ - a.amount, ![a.to] = @ + a.amount]
      /\ entries' = entries \cup {debit, credit}
  BY DEF L!Post, L!EntryRow, EntryRow
<1>2. /\ a.from # a.to /\ a.amount \in Int
      /\ debit \in EntryRows /\ credit \in EntryRows
  BY <1>1, ArgType, RowTypes
<1>3. /\ balance \in [Account -> Int] /\ entries \subseteq EntryRows
      /\ InitBalance \in [Account -> Int]
  BY SchemaAssumption DEF SchemaAssumption, IndInv, TypeOK
<1>4. debit \notin entries /\ credit \notin entries
  <2>1. \A e \in entries : \E r \in transfers : e.call = r.id
    BY DEF IndInv, DoubleEntry, EntryRow
  <2>2. debit.call = t /\ credit.call = t
    BY DEF EntryRow
  <2>3. QED
    BY <1>1, <2>1, <2>2
<1>5. /\ Amount[debit] = -a.amount /\ Amount[credit] = a.amount
      /\ debit.account = a.from /\ credit.account = a.to
      /\ \A e \in EntryRows : Amount[e] \in Int
  <2>1. debit.amount = -a.amount /\ credit.amount = a.amount
    BY DEF EntryRow
  <2>2. \A e \in EntryRows : e.amount \in Int
    BY SchemaAssumption DEF SchemaAssumption, EntryRows
  <2>3. debit.account = a.from /\ credit.account = a.to
    BY DEF EntryRow
  <2> HIDE DEF debit, credit
  <2>4. QED
    BY <1>2, <2>1, <2>2, <2>3 DEF Amount
<1> HIDE DEF debit, credit
<1>6. IsFiniteSet(entries')
  <2>1. IsFiniteSet(entries \cup {debit}) /\ entries' = (entries \cup {debit}) \cup {credit}
    BY <1>1, FS_AddElement DEF Booked
  <2>2. QED
    BY <2>1, FS_AddElement
<1>7. ASSUME NEW b \in Account
      PROVE  balance'[b] = InitBalance[b] + SumOf(Amount, EntriesOf(b)')
  <2>1. /\ IsFiniteSet(EntriesOf(b)) /\ EntriesOf(b) \subseteq EntryRows
        /\ debit \notin EntriesOf(b) /\ credit \notin EntriesOf(b)
    BY <1>3, <1>4, FS_Subset DEF EntriesOf, Booked
  <2>2. SumOf(Amount, EntriesOf(b)) \in Int
    BY <1>5, <2>1, SumType
  <2>3. balance[b] = InitBalance[b] + SumOf(Amount, EntriesOf(b))
    BY DEF Booked
  <2>4. CASE b = a.from
    <3>1. EntriesOf(b)' = EntriesOf(b) \cup {debit}
      BY <1>1, <1>2, <1>5, <2>4 DEF EntriesOf
    <3>2. SumOf(Amount, EntriesOf(b) \cup {debit}) = SumOf(Amount, EntriesOf(b)) + Amount[debit]
      <4>1. \A e \in EntriesOf(b) \cup {debit} : Amount[e] \in Int
        BY <1>2, <1>5, <2>1
      <4>2. QED
        BY <2>1, <4>1, SumAdd
    <3>3. balance'[b] = balance[b] - a.amount
      BY <1>1, <1>2, <1>3, <2>4
    <3>4. InitBalance[b] \in Int
      BY <1>3
    <3>5. QED
      BY <1>2, <1>5, <2>2, <2>3, <3>1, <3>2, <3>3, <3>4
  <2>5. CASE b = a.to
    <3>1. EntriesOf(b)' = EntriesOf(b) \cup {credit}
      BY <1>1, <1>2, <1>5, <2>5 DEF EntriesOf
    <3>2. SumOf(Amount, EntriesOf(b) \cup {credit}) = SumOf(Amount, EntriesOf(b)) + Amount[credit]
      <4>1. \A e \in EntriesOf(b) \cup {credit} : Amount[e] \in Int
        BY <1>2, <1>5, <2>1
      <4>2. QED
        BY <2>1, <4>1, SumAdd
    <3>3. balance'[b] = balance[b] + a.amount
      BY <1>1, <1>2, <1>3, <2>5
    <3>4. InitBalance[b] \in Int
      BY <1>3
    <3>5. QED
      BY <1>2, <1>5, <2>2, <2>3, <3>1, <3>2, <3>3, <3>4
  <2>6. CASE b \notin {a.from, a.to}
    <3>1. EntriesOf(b)' = EntriesOf(b)
      BY <1>1, <1>5, <2>6 DEF EntriesOf
    <3>2. balance'[b] = balance[b]
      BY <1>1, <1>3, <2>6
    <3>3. QED
      BY <2>3, <3>1, <3>2
  <2>7. QED
    BY <2>4, <2>5, <2>6
<1>8. SumOf(balance', Account) = SumOf(balance, Account)
  <2>1. /\ a.from \in Account /\ a.to \in Account
        /\ balance'[a.from] = balance[a.from] - a.amount
        /\ balance'[a.to] = balance[a.to] + a.amount
        /\ \A b \in Account \ {a.from, a.to} : balance'[b] = balance[b]
        /\ \A b \in Account : balance[b] \in Int /\ balance'[b] \in Int
    BY <1>1, <1>2, <1>3
  <2>2. balance'[a.from] + balance'[a.to] = balance[a.from] + balance[a.to]
    BY <1>2, <2>1
  <2>3. QED
    BY <1>2, <2>1, <2>2, AccountsFinite, SumMove
<1>9. QED
  BY <1>6, <1>7, <1>8 DEF Booked

(* The balances are what the ledger entries say and add up to what they did
   at first, at every moment and whatever the calls do at the same time. *)
THEOREM BalancesMatchEntries == Spec => []AuditTrail
<1>1. Init => Booked
  <2>1. SUFFICES ASSUME Init PROVE Booked
    OBVIOUS
  <2>2. IsFiniteSet(entries) /\ \A a \in Account : EntriesOf(a) = {}
    BY <2>1, FS_EmptySet DEF Init, EntriesOf
  <2>3. SumOf(Amount, {}) = 0
    BY FS_EmptySet, SumStep
  <2>4. balance = InitBalance /\ \A a \in Account : InitBalance[a] \in Int
    BY <2>1, SchemaAssumption DEF Init, SchemaAssumption
  <2>5. ASSUME NEW a \in Account PROVE balance[a] = InitBalance[a] + SumOf(Amount, EntriesOf(a))
    <3>1. SumOf(Amount, EntriesOf(a)) = 0
      BY <2>2, <2>3
    <3>2. QED
      BY <2>4, <3>1
  <2>6. QED
    BY <2>2, <2>4, <2>5 DEF Booked
<1>2. IndInv /\ Booked /\ [Next]_vars => Booked'
  <2>1. SUFFICES ASSUME IndInv, Booked, [Next]_vars PROVE Booked'
    OBVIOUS
  <2>2. L!Next \/ UNCHANGED L!vars
    BY <2>1, LedgerStep
  <2>3. CASE L!Next
    BY <2>1, <2>3, PostBooks DEF L!Next
  <2>4. CASE UNCHANGED L!vars
    BY <2>1, <2>4 DEF L!vars, Booked, EntriesOf
  <2>5. QED
    BY <2>2, <2>3, <2>4
<1>3. IndInv /\ Booked => AuditTrail
  BY BookedIsAuditTrail DEF IndInv
<1>4. QED
  BY <1>1, <1>2, <1>3, StoreInvariant, PTL DEF Spec

-----------------------------------------------------------------------------
(* How calls end.                                                          *)

(* What an answer relies on does not change any more. *)
LEMMA OutcomeStable ==
  ASSUME IndInv, Progress, NEW u \in Tx
  PROVE  /\ arg' = arg
         /\ session[u] \in {"none", "committed", "aborted"} => session'[u] = session[u]
         /\ session[u] = "committed" => newBalance'[u] = newBalance[u]
         /\ pc[u] \in {"idle", "done"} => pc'[u] = pc[u] /\ err'[u] = err[u]
         /\ pc[u] # "idle" => pc'[u] # "idle"
<1> USE DEF Goto
<1>0. TypeOK /\ InStep(u)
  BY DEF IndInv
<1> DEFINE Stable ==
      /\ arg' = arg
      /\ session[u] \in {"none", "committed", "aborted"} => session'[u] = session[u]
      /\ session[u] = "committed" => newBalance'[u] = newBalance[u]
      /\ pc[u] \in {"idle", "done"} => pc'[u] = pc[u] /\ err'[u] = err[u]
      /\ pc[u] # "idle" => pc'[u] # "idle"
<1>1. ASSUME NEW t \in Tx, NEW e, session[t] = "open", pc[t] \in Statement,
             Fail(t, e), arg' = arg
      PROVE  Stable
  BY <1>0, <1>1 DEF Fail, Aborts, TypeOK, Statement
<1>2. ASSUME NEW t \in Tx, NEW r, NEW s, session[t] = "open", pc[t] \in Statement,
             Insert(t, r, s), s # "idle", arg' = arg
      PROVE  Stable
  BY <1>0, <1>2 DEF Insert, TypeOK, Statement
<1>3. ASSUME NEW t \in Tx, CreateIdempotencyKey(t) \/ CreateTransfer(t)
                           \/ CreateFromEntry(t) \/ CreateToEntry(t)
      PROVE  Stable
  <2>1. session[t] = "open" /\ pc[t] \in Statement /\ arg' = arg
    BY <1>3 DEF CreateIdempotencyKey, CreateTransfer, CreateFromEntry, CreateToEntry,
                At, Statement
  <2>2. (\E e : Fail(t, e)) \/ (\E r, s : s # "idle" /\ Insert(t, r, s))
    <3>1. CASE CreateIdempotencyKey(t)
      BY <3>1 DEF CreateIdempotencyKey
    <3>2. CASE CreateTransfer(t)
      BY <3>2 DEF CreateTransfer
    <3>3. CASE CreateFromEntry(t)
      BY <3>3 DEF CreateFromEntry
    <3>4. CASE CreateToEntry(t)
      BY <3>4 DEF CreateToEntry
    <3>5. QED
      BY <1>3, <3>1, <3>2, <3>3, <3>4
  <2>3. QED
    BY <1>1, <1>2, <2>1, <2>2
<1>4. ASSUME NEW t \in Tx, NEW id, NEW d, NEW s, s # "idle", session[t] = "open",
             pc[t] \in Statement, AddAccountBalance(t, id, d, s)
      PROVE  Stable
  <2>1. CASE Fail(t, "balance_non_negative") \/ Fail(t, "out_of_range")
    BY <1>1, <1>4, <2>1 DEF AddAccountBalance
  <2>2. CASE /\ Goto(t, s) /\ UNCHANGED <<err, session, arg>>
             /\ newBalance' = [newBalance EXCEPT ![t] = [@ EXCEPT ![id] = balance[id] + d]]
    BY <1>0, <1>4, <2>2 DEF TypeOK, Statement
  <2>3. QED
    BY <1>4, <2>1, <2>2 DEF AddAccountBalance
<1>5. ASSUME NEW t \in Tx, AddMoneyFirst(t) \/ AddMoneySecond(t) PROVE Stable
  <2>1. session[t] = "open" /\ pc[t] \in Statement
    BY <1>5 DEF AddMoneyFirst, AddMoneySecond, At, Statement
  <2>2. \E id, d, s : s # "idle" /\ AddAccountBalance(t, id, d, s)
    BY <1>5 DEF AddMoneyFirst, AddMoneySecond
  <2>3. QED
    BY <1>4, <2>1, <2>2
<1>6. ASSUME NEW t \in Tx, CompleteIdempotencyKey(t) \/ Commit(t) PROVE Stable
  BY <1>0, <1>6 DEF CompleteIdempotencyKey, Commit, At, TypeOK, uncommitted
<1>7. ASSUME NEW t \in Tx,
             \/ CommitAcknowledged(t) \/ CommitUnanswered(t) \/ Rollback(t)
             \/ ConnectionLost(t) \/ SessionGone(t) \/ Crash(t)
      PROVE  Stable
  BY <1>0, <1>7 DEF CommitAcknowledged, CommitUnanswered, Rollback, ConnectionLost,
     SessionGone, Crash, TypeOK, Statement, uncommitted
<1>8. ASSUME NEW t \in Tx, Backend(t) PROVE Stable
  BY <1>0, <1>8 DEF Backend, CommitTransaction, BackendAbort, Aborts, Active, TypeOK
<1>9. ASSUME PostgresRestart PROVE Stable
  BY <1>0, <1>9 DEF PostgresRestart, Active, TypeOK
<1>10. QED
  BY <1>3, <1>5, <1>6, <1>7, <1>8, <1>9 DEF Progress, Step, Fault

(* The caller was told that its transfer succeeded, or why it failed. *)
Succeeded(t) == pc[t] = "done" /\ err[t] = "none"
Failed(t) == pc[t] = "done" /\ err[t] \notin {"none", "other"}

Moved(t) == TransferRow(t, arg[t]) \in transfers
Unmoved(t) == \A r \in transfers : r.id # t

(* No step of any call takes back what a call has returned. *)
LEMMA ReturnStays ==
  ASSUME IndInv, [Next]_vars, NEW u \in Tx, pc[u] = "done"
  PROVE  pc'[u] = "done" /\ err'[u] = err[u]
<1>1. CASE Progress
  BY <1>1, OutcomeStable
<1>2. ASSUME NEW t \in Tx, NEW a \in Arg, BeginTx(t, a) PROVE pc'[u] = pc[u] /\ err'[u] = err[u]
  <2>1. t # u
    BY <1>2 DEF BeginTx
  <2>2. QED
    BY <1>2, <2>1 DEF BeginTx, Goto, IndInv, TypeOK
<1>3. CASE UNCHANGED vars
  BY <1>3 DEF vars
<1>4. QED
  BY <1>1, <1>2, <1>3 DEF Next

SuccessIsForGood(t) == [](Succeeded(t) => []Moved(t))
FailureIsForGood(t) == [](Failed(t) => []Unmoved(t))

(* What a call returns settles its outcome for good: after a success its
   transfer is in the ledger for ever, and after an error that names its
   cause it never will be, whatever crashes, retries and restarts follow
   (db/sqlc/store.go:execTx). *)
THEOREM OutcomesAreFinal ==
  Spec => \A t \in Tx : SuccessIsForGood(t) /\ FailureIsForGood(t)
<1>1. ASSUME NEW t \in Tx PROVE Spec => SuccessIsForGood(t)
  <2>1. IndInv /\ Succeeded(t) => Moved(t)
    BY DEF IndInv, InStep, CommittedRows, Succeeded, Moved
  <2>2. IndInv /\ Succeeded(t) /\ [Next]_vars => Succeeded(t)'
    BY ReturnStays DEF Succeeded
  <2>3. QED
    BY <2>1, <2>2, StoreInvariant, PTL DEF Spec, SuccessIsForGood
<1>2. ASSUME NEW t \in Tx PROVE Spec => FailureIsForGood(t)
  <2>1. IndInv /\ Failed(t) => Unmoved(t)
    BY DEF IndInv, InStep, CommittedRows, Failed, Unmoved
  <2>2. IndInv /\ Failed(t) /\ [Next]_vars => Failed(t)'
    BY ReturnStays DEF Failed
  <2>3. QED
    BY <2>1, <2>2, StoreInvariant, PTL DEF Spec, FailureIsForGood
<1>3. QED
  BY <1>1, <1>2
=============================================================================
