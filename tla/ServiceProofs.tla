---------------------------- MODULE ServiceProofs ----------------------------
(***************************************************************************)
(* Proofs about Service, for any replicas, number of migrations, probe     *)
(* threshold and configuration, and any number of crashes and outages.     *)
(***************************************************************************)
EXTENDS Service, TLAPS

Points == {"exited", "loadConfig", "newMigrate", "lock", "version", "mark", "run", "clear", "serve"}
Phases == {"off", "starting", "serving"}

Types ==
  /\ version \in 0..Last
  /\ dirty \in BOOLEAN
  /\ pc \in [Pod -> Points]
  /\ next \in [Pod -> Nat]
  /\ gateway \in [Pod -> Phases] /\ grpc \in [Pod -> Phases]
  /\ crashes \in Nat

(* p has the advisory lock, on a connection that is alive. *)
Held(p) == p \in conn /\ pc[p] \in {"version", "mark", "run", "clear"}

(* How far the holder of the lock is with the migration it runs. *)
Progress(p) ==
  /\ pc[p] = "mark" => ~dirty /\ next[p] = version + 1 /\ next[p] <= Last
  /\ pc[p] = "run" => dirty /\ next[p] = version /\ next[p] >= 1 /\ applied = 1..(next[p] - 1)
  /\ pc[p] = "clear" => dirty /\ next[p] = version /\ applied = 1..next[p]

(* What a pod that has come so far has made of its configuration. *)
Configured(p) ==
  /\ pc[p] \notin {"exited", "loadConfig"} => deployed.readable /\ "DB_DRIVER" \in LoadConfig
  /\ pc[p] \notin {"exited", "loadConfig", "newMigrate"} =>
       "MIGRATION_URL" \in LoadConfig /\ "DB_SOURCE" \in LoadConfig
  /\ gateway[p] = "serving" => NewServer
  /\ pc[p] = "serve" <=> gateway[p] # "off"
  /\ pc[p] = "serve" <=> grpc[p] # "off"
  /\ p \in routed => Reachable(p)

Local(p) ==
  /\ Held(p) => lock = p /\ Progress(p)
  /\ pc[p] = "serve" => ~dirty /\ version = Last
  /\ Migrating(p) => p \in conn \/ interrupted
  /\ Configured(p)

IndInv ==
  /\ Types
  /\ DirtyHasCause
  /\ \A p \in Pod : Local(p)
-----------------------------------------------------------------------------
(* Frame: a step of p leaves the other pods alone.                         *)

Apart(p) ==
  /\ \A q \in Pod \ {p} :
       /\ pc'[q] = pc[q] /\ next'[q] = next[q]
       /\ gateway'[q] = gateway[q] /\ grpc'[q] = grpc[q]
       /\ q \in conn' <=> q \in conn
       /\ q \in routed' <=> q \in routed
       /\ lock = q => lock' = q
  /\ deployed' = deployed
  /\ interrupted => interrupted'
  /\ refused \subseteq refused'

LEMMA OtherKept ==
  ASSUME IndInv, NEW p \in Pod, Apart(p), NEW q \in Pod \ {p},
         UNCHANGED schema \/ (~Held(q) /\ pc[q] # "serve")
  PROVE  Local(q)'
<1>1. Local(q)
  BY DEF IndInv
<1>2. /\ pc'[q] = pc[q] /\ next'[q] = next[q] /\ gateway'[q] = gateway[q] /\ grpc'[q] = grpc[q]
      /\ q \in conn' <=> q \in conn
      /\ q \in routed' <=> q \in routed
      /\ lock = q => lock' = q
      /\ deployed' = deployed
      /\ interrupted => interrupted'
  BY DEF Apart
<1>3. Held(q)' <=> Held(q)
  BY <1>2 DEF Held
<1>4. Held(q)' => lock' = q /\ Progress(q)'
  <2>1. CASE UNCHANGED schema
    BY <1>1, <1>2, <1>3, <2>1 DEF Local, Progress, schema
  <2>2. CASE ~Held(q)
    BY <1>3, <2>2
  <2> QED
    BY <2>1, <2>2
<1>5. pc'[q] = "serve" => ~dirty' /\ version' = Last
  BY <1>1, <1>2 DEF Local, schema
<1>6. Migrating(q)' => q \in conn' \/ interrupted'
  BY <1>1, <1>2 DEF Local, Migrating
<1>7. Configured(q)'
  BY <1>1, <1>2 DEF Local, Configured, Reachable, LoadConfig, NewServer
<1> QED
  BY <1>4, <1>5, <1>6, <1>7 DEF Local

(* What the row of schema_migrations tells of the schema. *)
SchemaKnown == applied = 1..version \/ (dirty /\ applied = 1..(version - 1))

LEMMA KnownSchema ==
  ASSUME IndInv
  PROVE  SchemaKnown /\ (~dirty => applied = 1..version)
BY DEF IndInv, DirtyHasCause, SchemaKnown

(* A step that leaves the schema alone. *)
LEMMA QuietStep ==
  ASSUME IndInv, NEW p \in Pod, Apart(p), UNCHANGED schema, Types', Local(p)',
         Migrating(p) => Migrating(p)' \/ interrupted' \/ version \in refused'
  PROVE  IndInv'
<1>1. \A q \in Pod : Local(q)'
  BY OtherKept
<1>2. SchemaKnown'
  BY KnownSchema DEF SchemaKnown, schema
<1>3. DirtyHasCause'
  <2> SUFFICES ASSUME dirty', ~interrupted', version' \notin refused'
               PROVE  \E q \in Pod : Migrating(q)'
    BY <1>2 DEF DirtyHasCause, SchemaKnown
  <2>1. dirty /\ ~interrupted /\ version' = version /\ version \notin refused
    BY DEF schema, Apart
  <2>2. PICK q \in Pod : Migrating(q)
    BY <2>1 DEF IndInv, DirtyHasCause
  <2>3. Migrating(q)'
    BY <2>1, <2>2 DEF Apart, Migrating
  <2> QED
    BY <2>3
<1> QED
  BY <1>1, <1>3 DEF IndInv

LEMMA ExitStep ==
  ASSUME IndInv, NEW p \in Pod, Exit(p), deployed' = deployed, crashes' \in Nat,
         interrupted => interrupted', refused \subseteq refused',
         Migrating(p) => interrupted' \/ version \in refused'
  PROVE  IndInv'
<1>1. /\ pc'[p] = "exited" /\ gateway'[p] = "off" /\ grpc'[p] = "off"
      /\ p \notin routed' /\ p \notin conn'
  BY DEF Exit, Goto, IndInv, Types
<1>2. Apart(p)
  BY DEF Apart, Exit, Goto, IndInv, Types
<1>3. Types'
  BY DEF Exit, Goto, schema, IndInv, Types, Points, Phases
<1>4. Local(p)'
  BY <1>1 DEF Local, Held, Migrating, Configured
<1> QED
  BY <1>2, <1>3, <1>4, QuietStep DEF Exit, schema

LEMMA FatalStep ==
  ASSUME IndInv, NEW p \in Pod, Fatal(p), Migrating(p) => interrupted
  PROVE  IndInv'
<1>1. Exit(p) /\ deployed' = deployed /\ crashes' = crashes /\ interrupted' = interrupted
      /\ refused' = refused
  BY DEF Fatal, world
<1> QED
  BY <1>1, ExitStep DEF IndInv, Types

(* A step of p that has no use for the tables or the servers. *)
LEMMA GotoStep ==
  ASSUME IndInv, NEW p \in Pod, NEW point \in Points, Goto(p, point), ~Migrating(p),
         UNCHANGED <<schema, next, servers, probes, world>>,
         \A q \in Pod \ {p} : (q \in conn' <=> q \in conn) /\ (lock = q => lock' = q),
         Local(p)'
  PROVE  IndInv'
<1>1. Apart(p)
  BY DEF Apart, Goto, servers, probes, world, IndInv, Types
<1>2. Types'
  BY DEF Goto, schema, servers, world, IndInv, Types
<1> QED
  BY <1>1, <1>2, QuietStep
-----------------------------------------------------------------------------
(* The steps.                                                              *)

LEMMA LocalOf ==
  ASSUME IndInv, NEW p \in Pod
  PROVE  Local(p) /\ Configured(p) /\ Types
BY DEF IndInv, Local

LEMMA StartStep ==
  ASSUME IndInv, NEW p \in Pod, Start(p)
  PROVE  IndInv'
<1>1. pc[p] = "exited" /\ Goto(p, "loadConfig")
      /\ UNCHANGED <<schema, lock, next, conn, servers, probes, world>>
  BY DEF Start
<1>2. pc'[p] = "loadConfig"
  BY <1>1, LocalOf DEF Goto, Types
<1>3. Local(p)'
  BY <1>1, <1>2, LocalOf DEF Local, Held, Migrating, Configured, Reachable, LoadConfig, NewServer,
     servers, probes, world
<1> QED
  BY <1>1, <1>3, GotoStep DEF Points, Migrating

LEMMA MainStep ==
  ASSUME IndInv, NEW p \in Pod, main(p)
  PROVE  IndInv'
<1>0. pc[p] = "loadConfig" /\ ~Migrating(p)
  BY DEF main, Migrating
<1>1. CASE Fatal(p)
  BY <1>0, <1>1, FatalStep
<1>2. CASE /\ deployed.readable /\ "DB_DRIVER" \in LoadConfig
           /\ Goto(p, "newMigrate")
           /\ UNCHANGED <<schema, lock, next, conn, servers, probes, world>>
  <2>1. pc'[p] = "newMigrate"
    BY <1>2, LocalOf DEF Goto, Types
  <2>2. Local(p)'
    BY <1>0, <1>2, <2>1, LocalOf DEF Local, Held, Migrating, Configured, Reachable, LoadConfig,
       NewServer, servers, probes, world
  <2> QED
    BY <1>0, <1>2, <2>2, GotoStep DEF Points
<1> QED
  BY <1>1, <1>2 DEF main

LEMMA NewMigrateStep ==
  ASSUME IndInv, NEW p \in Pod, NewMigrate(p)
  PROVE  IndInv'
<1>0. pc[p] = "newMigrate" /\ ~Migrating(p)
  BY DEF NewMigrate, Migrating
<1>1. CASE Fatal(p)
  BY <1>0, <1>1, FatalStep
<1>2. CASE /\ {"MIGRATION_URL", "DB_SOURCE"} \subseteq LoadConfig
           /\ conn' = conn \cup {p} /\ Goto(p, "lock")
           /\ UNCHANGED <<schema, lock, next, servers, probes, world>>
  <2>1. pc'[p] = "lock"
    BY <1>2, LocalOf DEF Goto, Types
  <2>2. Local(p)'
    BY <1>0, <1>2, <2>1, LocalOf DEF Local, Held, Migrating, Configured, Reachable, LoadConfig,
       NewServer, servers, probes, world
  <2> QED
    BY <1>0, <1>2, <2>2, GotoStep DEF Points
<1> QED
  BY <1>1, <1>2 DEF NewMigrate

LEMMA LockStep ==
  ASSUME IndInv, NEW p \in Pod, Lock(p)
  PROVE  IndInv'
<1>1. pc[p] = "lock" /\ lock = NoPod /\ lock' = p /\ Goto(p, "version")
      /\ UNCHANGED <<schema, next, conn, servers, probes, world>>
  BY DEF Lock
<1>2. pc'[p] = "version"
  BY <1>1, LocalOf DEF Goto, Types
<1>3. Local(p)'
  BY <1>1, <1>2, LocalOf DEF Local, Held, Progress, Migrating, Configured, Reachable, LoadConfig,
     NewServer, servers, probes, world
<1>4. \A q \in Pod \ {p} : (q \in conn' <=> q \in conn) /\ (lock = q => lock' = q)
  BY <1>1, ServiceAssumption
<1> QED
  BY <1>1, <1>3, <1>4, GotoStep DEF Points, Migrating

LEMMA LockTimeoutStep ==
  ASSUME IndInv, NEW p \in Pod, ErrLockTimeout(p)
  PROVE  IndInv'
BY FatalStep DEF ErrLockTimeout, Migrating

(* Up ends and the servers start, on a schema that is complete. *)
LEMMA MigratedStep ==
  ASSUME IndInv, NEW p \in Pod, Held(p), Migrated(p), version = Last, dirty' = FALSE,
         applied = 1..version
  PROVE  IndInv'
<1>1. /\ pc' = [pc EXCEPT ![p] = "serve"] /\ conn' = conn \ {p}
      /\ gateway' = [gateway EXCEPT ![p] = "starting"] /\ grpc' = [grpc EXCEPT ![p] = "starting"]
      /\ lock' = IF lock = p THEN NoPod ELSE lock
      /\ UNCHANGED <<version, applied, next, probes, world>>
  BY DEF Migrated, Goto
<1>2. pc'[p] = "serve" /\ gateway'[p] = "starting" /\ grpc'[p] = "starting" /\ p \notin conn'
  BY <1>1, LocalOf DEF Types
<1>3. Apart(p)
  BY <1>1 DEF Apart, IndInv, Types, probes, world
<1>4. Types'
  <2>1. pc' \in [Pod -> Points] /\ gateway' \in [Pod -> Phases] /\ grpc' \in [Pod -> Phases]
    BY <1>1, LocalOf DEF Types, Points, Phases
  <2>2. dirty' \in BOOLEAN /\ version' \in 0..Last /\ next' \in [Pod -> Nat] /\ crashes' \in Nat
    BY <1>1, LocalOf DEF Types, world
  <2> QED
    BY <2>1, <2>2 DEF Types
<1>5. Local(p)'
  <2>1. p \notin routed
    BY LocalOf DEF Held, Configured, Reachable
  <2> QED
    BY <1>1, <1>2, <2>1, LocalOf DEF Held, Local, Migrating, Configured, LoadConfig, NewServer,
       probes, world
<1>6. ASSUME NEW q \in Pod \ {p} PROVE Local(q)'
  <2>1. ~Held(q)
    BY <1>6, LocalOf DEF Local
  <2>2. CASE pc[q] # "serve"
    BY <1>3, <2>1, <2>2, OtherKept
  <2>3. CASE pc[q] = "serve"
    <3>1. dirty \in BOOLEAN /\ ~dirty
      BY <2>3, LocalOf DEF Local, Types
    <3>2. dirty' = dirty
      BY <3>1
    <3>3. UNCHANGED schema
      BY <1>1, <3>2 DEF schema
    <3> QED
      BY <1>3, <3>3, OtherKept
  <2> QED
    BY <2>2, <2>3
<1>7. DirtyHasCause'
  BY <1>1 DEF DirtyHasCause
<1> QED
  BY <1>4, <1>5, <1>6, <1>7 DEF IndInv

LEMMA RunDBMigrationStep ==
  ASSUME IndInv, NEW p \in Pod, runDBMigration(p)
  PROVE  IndInv'
<1>0. pc[p] = "version" /\ p \in conn /\ ~Migrating(p) /\ Held(p)
  BY DEF runDBMigration, Migrating, Held
<1>1. CASE Fatal(p)
  BY <1>0, <1>1, FatalStep
<1>2. CASE ~dirty /\ version = Last /\ Migrated(p) /\ UNCHANGED dirty
  <2>1. dirty \in BOOLEAN
    BY LocalOf DEF Types
  <2>2. dirty' = FALSE
    BY <1>2, <2>1
  <2> QED
    BY <1>0, <1>2, <2>2, MigratedStep, KnownSchema
<1>3. CASE /\ ~dirty /\ version # Last
           /\ next' = [next EXCEPT ![p] = version + 1]
           /\ Goto(p, "mark")
           /\ UNCHANGED <<schema, lock, conn, servers, probes, world>>
  <2>1. pc'[p] = "mark" /\ next'[p] = version + 1
    BY <1>3, LocalOf DEF Goto, Types
  <2>2. version + 1 <= Last /\ version + 1 \in Nat
    BY <1>3, LocalOf, ServiceAssumption DEF Types
  <2>3. Apart(p)
    BY <1>3 DEF Apart, Goto, servers, probes, world, IndInv, Types
  <2>4. Types'
    BY <1>3, <2>2, LocalOf DEF Goto, Types, Points, schema, servers, world
  <2>5. Local(p)'
    BY <1>0, <1>3, <2>1, <2>2, LocalOf DEF Local, Held, Progress, Migrating, Configured,
       Reachable, LoadConfig, NewServer, schema, servers, probes, world
  <2> QED
    BY <1>0, <1>3, <2>3, <2>4, <2>5, QuietStep
<1> QED
  BY <1>1, <1>2, <1>3 DEF runDBMigration

(* Between its two SetVersion nobody but the holder of the lock is anywhere
   near the schema. *)
LEMMA Alone ==
  ASSUME IndInv, NEW p \in Pod, Held(p), pc[p] \in {"mark", "run", "clear"},
         NEW q \in Pod \ {p}
  PROVE  ~Held(q) /\ pc[q] # "serve"
<1>1. ~Held(q)
  BY LocalOf DEF Local
<1>2. Progress(p) /\ version \in 0..Last
  BY LocalOf DEF Local, Types
<1>3. pc[q] = "serve" => ~dirty /\ version = Last
  BY LocalOf DEF Local
<1>4. ~(~dirty /\ version = Last)
  BY <1>2, ServiceAssumption DEF Progress
<1> QED
  BY <1>1, <1>3, <1>4

(* What the holder of the lock may do to the schema. *)
LEMMA SchemaStep ==
  ASSUME IndInv, NEW p \in Pod, Held(p), pc[p] \in {"mark", "run", "clear"}, Apart(p),
         Types', Local(p)', SchemaKnown', dirty' => Migrating(p)'
  PROVE  IndInv'
<1>1. \A q \in Pod : Local(q)'
  BY Alone, OtherKept
<1>2. DirtyHasCause'
  BY DEF DirtyHasCause, SchemaKnown
<1> QED
  BY <1>1, <1>2 DEF IndInv

LEMMA MarkStep ==
  ASSUME IndInv, NEW p \in Pod, Mark(p)
  PROVE  IndInv'
<1>1. /\ pc[p] = "mark" /\ p \in conn /\ version' = next[p] /\ dirty' = TRUE
      /\ pc' = [pc EXCEPT ![p] = "run"]
      /\ UNCHANGED <<applied, lock, next, conn, servers, probes, world>>
  BY DEF Mark, Goto
<1>2. Held(p) /\ Progress(p) /\ lock = p
  BY <1>1, LocalOf DEF Held, Local
<1>3. pc'[p] = "run" /\ next'[p] = next[p]
  BY <1>1, LocalOf DEF Types
<1>4. applied = 1..(next[p] - 1) /\ next[p] \in 1..Last
  <2>1. ~dirty /\ next[p] = version + 1 /\ next[p] <= Last /\ version \in 0..Last
    BY <1>1, <1>2, LocalOf DEF Progress, Types
  <2>2. applied = 1..version
    BY <2>1, KnownSchema
  <2> QED
    BY <2>1, <2>2, ServiceAssumption
<1>5. Apart(p)
  BY <1>1 DEF Apart, servers, probes, world, IndInv, Types
<1>6. Types'
  <2>1. pc' \in [Pod -> Points] /\ version' \in 0..Last
    BY <1>1, <1>4, LocalOf, ServiceAssumption DEF Types, Points
  <2> QED
    BY <1>1, <2>1, LocalOf DEF Types, servers, world
<1>7. Local(p)'
  BY <1>1, <1>2, <1>3, <1>4, LocalOf DEF Local, Held, Progress, Migrating, Configured,
     Reachable, LoadConfig, NewServer, servers, probes, world
<1>8. Migrating(p)' /\ SchemaKnown'
  BY <1>1, <1>3, <1>4 DEF Migrating, SchemaKnown
<1> QED
  BY <1>1, <1>2, <1>5, <1>6, <1>7, <1>8, SchemaStep

LEMMA RunStep ==
  ASSUME IndInv, NEW p \in Pod, Run(p)
  PROVE  IndInv'
<1>1. pc[p] = "run" /\ p \in conn
  BY DEF Run
<1>2. /\ Held(p) /\ lock = p /\ dirty /\ next[p] = version /\ next[p] >= 1
      /\ applied = 1..(next[p] - 1) /\ version \in 0..Last
  BY <1>1, LocalOf DEF Held, Local, Progress, Types
<1>3. next[p] \notin applied
  BY <1>2, ServiceAssumption
<1>4. CASE /\ applied' = applied \cup {next[p]}
           /\ Goto(p, "clear")
           /\ UNCHANGED <<version, dirty, lock, next, conn, servers, probes, world>>
  <2>1. applied' = 1..next[p]
    BY <1>2, <1>4, ServiceAssumption
  <2>2. pc'[p] = "clear" /\ next'[p] = next[p] /\ dirty'
    BY <1>2, <1>4, LocalOf DEF Goto, Types
  <2>3. Apart(p)
    BY <1>4 DEF Apart, Goto, servers, probes, world, IndInv, Types
  <2>4. Types'
    BY <1>4, LocalOf DEF Goto, Types, Points, servers, world
  <2>5. Local(p)'
    BY <1>1, <1>2, <1>4, <2>1, <2>2, LocalOf DEF Local, Held, Progress, Migrating, Configured,
       Reachable, LoadConfig, NewServer, servers, probes, world
  <2>6. Migrating(p)' /\ SchemaKnown'
    BY <1>2, <1>4, <2>1, <2>2 DEF Migrating, SchemaKnown
  <2> QED
    BY <1>1, <1>2, <2>2, <2>3, <2>4, <2>5, <2>6, SchemaStep
<1>5. CASE /\ refused' = refused \cup {next[p]}
           /\ Exit(p)
           /\ UNCHANGED <<db, deployed, crashes, outages, interrupted>>
  <2>1. version \in refused' /\ refused \subseteq refused'
    BY <1>2, <1>5
  <2> QED
    BY <1>5, <2>1, LocalOf, ExitStep DEF Types
<1> QED
  BY <1>3, <1>4, <1>5 DEF Run

LEMMA ClearStep ==
  ASSUME IndInv, NEW p \in Pod, Clear(p)
  PROVE  IndInv'
<1>1. pc[p] = "clear" /\ p \in conn /\ dirty' = FALSE
  BY DEF Clear
<1>2. /\ Held(p) /\ lock = p /\ dirty /\ next[p] = version
      /\ applied = 1..version /\ version \in 0..Last
  BY <1>1, LocalOf DEF Held, Local, Progress, Types
<1>3. CASE next[p] = Last /\ Migrated(p)
  BY <1>1, <1>2, <1>3, MigratedStep
<1>4. CASE /\ next[p] < Last
           /\ next' = [next EXCEPT ![p] = @ + 1]
           /\ Goto(p, "mark")
           /\ UNCHANGED <<version, applied, lock, conn, servers, probes, world>>
  <2>1. pc'[p] = "mark" /\ next'[p] = version + 1 /\ version + 1 <= Last
    BY <1>2, <1>4, LocalOf, ServiceAssumption DEF Goto, Types
  <2>2. Apart(p)
    BY <1>4 DEF Apart, Goto, servers, probes, world, IndInv, Types
  <2>3. Types'
    <3>1. dirty' \in BOOLEAN
      BY <1>1
    <3>2. pc' \in [Pod -> Points] /\ next' \in [Pod -> Nat]
      BY <1>4, LocalOf DEF Goto, Types, Points
    <3> QED
      BY <1>4, <3>1, <3>2, LocalOf DEF Types, servers, world
  <2>4. Local(p)'
    BY <1>1, <1>2, <1>4, <2>1, LocalOf DEF Local, Held, Progress, Migrating, Configured,
       Reachable, LoadConfig, NewServer, servers, probes, world
  <2>5. ~dirty' /\ SchemaKnown'
    BY <1>1, <1>2, <1>4 DEF SchemaKnown
  <2> QED
    BY <1>1, <1>2, <2>2, <2>3, <2>4, <2>5, SchemaStep
<1> QED
  BY <1>3, <1>4 DEF Clear

LEMMA ConnectionLostStep ==
  ASSUME IndInv, NEW p \in Pod, ConnectionLost(p)
  PROVE  IndInv'
BY FatalStep, LocalOf DEF ConnectionLost, Local

LEMMA DiesStep ==
  ASSUME IndInv, NEW p \in Pod, Dies(p), crashes' = crashes \/ crashes' = crashes + 1
  PROVE  IndInv'
<1>1. Exit(p) /\ deployed' = deployed
  BY DEF Dies
<1>2. (interrupted => interrupted') /\ (Migrating(p) => interrupted') /\ refused' = refused
  BY DEF Dies
<1>3. crashes' \in Nat
  BY LocalOf DEF Types
<1> QED
  BY <1>1, <1>2, <1>3, ExitStep

LEMMA GatewayStep ==
  ASSUME IndInv, NEW p \in Pod, runGatewayServer(p)
  PROVE  IndInv'
<1>0. gateway[p] = "starting" /\ pc[p] = "serve" /\ ~Migrating(p)
  BY LocalOf DEF runGatewayServer, Configured, Migrating
<1>1. CASE Fatal(p)
  BY <1>0, <1>1, FatalStep
<1>2. CASE /\ NewServer
           /\ gateway' = [gateway EXCEPT ![p] = "serving"]
           /\ UNCHANGED <<schema, lock, pc, next, conn, grpc, probes, world>>
  <2>1. gateway'[p] = "serving"
    BY <1>2, LocalOf DEF Types
  <2>2. Apart(p)
    BY <1>2, LocalOf DEF Apart, probes, world, Types
  <2>3. Types'
    <3>1. gateway' \in [Pod -> Phases]
      BY <1>2, LocalOf DEF Types, Phases
    <3> QED
      BY <1>2, <3>1, LocalOf DEF Types, schema, world
  <2>4. Local(p)'
    BY <1>0, <1>2, <2>1, LocalOf DEF Local, Held, Migrating, Configured, Reachable, LoadConfig,
       NewServer, schema, probes, world
  <2> QED
    BY <1>0, <1>2, <2>2, <2>3, <2>4, QuietStep
<1>3. CASE CannotListen(p)
  BY <1>3, DiesStep DEF CannotListen
<1> QED
  BY <1>1, <1>2, <1>3 DEF runGatewayServer

LEMMA GrpcStep ==
  ASSUME IndInv, NEW p \in Pod, runGrpcServer(p)
  PROVE  IndInv'
<1>0. grpc[p] = "starting" /\ pc[p] = "serve" /\ ~Migrating(p)
  BY LocalOf DEF runGrpcServer, Configured, Migrating
<1>1. CASE Fatal(p)
  BY <1>0, <1>1, FatalStep
<1>2. CASE /\ NewServer
           /\ grpc' = [grpc EXCEPT ![p] = "serving"]
           /\ UNCHANGED <<schema, lock, pc, next, conn, gateway, probes, world>>
  <2>2. Apart(p)
    BY <1>2, LocalOf DEF Apart, probes, world, Types
  <2>3. Types'
    <3>1. grpc' \in [Pod -> Phases]
      BY <1>2, LocalOf DEF Types, Phases
    <3> QED
      BY <1>2, <3>1, LocalOf DEF Types, schema, world
  <2>4. Local(p)'
    BY <1>0, <1>2, LocalOf DEF Local, Held, Migrating, Configured, Reachable, LoadConfig,
       NewServer, schema, probes, world
  <2> QED
    BY <1>0, <1>2, <2>2, <2>3, <2>4, QuietStep
<1>3. CASE CannotListen(p)
  BY <1>3, DiesStep DEF CannotListen
<1> QED
  BY <1>1, <1>2, <1>3 DEF runGrpcServer

(* The steps of the kubelet that end no process. *)
LEMMA ProbedStep ==
  ASSUME IndInv, NEW p \in Pod, UNCHANGED <<schema, lock, pc, next, conn, servers, world>>,
         routed' \subseteq routed \cup {p}, routed \subseteq routed' \cup {p},
         p \in routed' => p \in routed \/ Reachable(p)
  PROVE  IndInv'
<1>1. Apart(p)
  BY DEF Apart, servers, world
<1>2. Types'
  BY LocalOf DEF Types, schema, servers, world
<1>3. Local(p)'
  BY LocalOf DEF Local, Held, Progress, Migrating, Configured, Reachable, LoadConfig, NewServer,
     schema, servers, world
<1>4. Migrating(p) => Migrating(p)'
  BY DEF Migrating
<1> QED
  BY <1>1, <1>2, <1>3, <1>4, QuietStep

LEMMA ProbeStep ==
  ASSUME IndInv, NEW p \in Pod, LivenessProbe(p) \/ ReadinessProbe(p)
  PROVE  IndInv'
<1>1. CASE UNCHANGED <<schema, lock, pc, next, conn, servers, readyFails, routed, world>>
  BY <1>1, ProbedStep
<1>2. CASE Dies(p) /\ (crashes' = crashes \/ crashes' = crashes + 1)
  BY <1>2, DiesStep
<1>3. CASE ReadinessProbe(p)
  <2>1. UNCHANGED <<schema, lock, pc, next, conn, servers, world>>
    BY <1>3 DEF ReadinessProbe
  <2>2. routed' = routed \/ routed' = routed \ {p} \/ (Reachable(p) /\ routed' = routed \cup {p})
    BY <1>3 DEF ReadinessProbe
  <2>3. routed' \subseteq routed \cup {p} /\ routed \subseteq routed' \cup {p}
        /\ (p \in routed' => p \in routed \/ Reachable(p))
    BY <2>2
  <2> QED
    BY <2>1, <2>3, ProbedStep
<1>4. LivenessProbe(p) =>
        \/ UNCHANGED <<schema, lock, pc, next, conn, servers, readyFails, routed, world>>
        \/ Dies(p) /\ (crashes' = crashes \/ crashes' = crashes + 1)
  BY DEF LivenessProbe
<1> QED
  BY <1>1, <1>2, <1>3, <1>4

LEMMA OutageStep ==
  ASSUME IndInv, Outage
  PROVE  IndInv'
<1>1. /\ conn' = {} /\ lock' = NoPod
      /\ UNCHANGED <<schema, deployed, pc, next, servers, probes, crashes, refused>>
  BY DEF Outage
<1>2. (interrupted => interrupted') /\ \A p \in Pod : Migrating(p) => interrupted'
  BY DEF Outage
<1>3. Types'
  BY <1>1 DEF IndInv, Types, schema, servers
<1>4. \A p \in Pod : Local(p)'
  BY <1>1, <1>2, LocalOf DEF Local, Held, Migrating, Configured, Reachable, LoadConfig, NewServer,
     schema, servers, probes
<1>5. DirtyHasCause'
  BY <1>1, <1>2 DEF IndInv, DirtyHasCause, schema
<1> QED
  BY <1>3, <1>4, <1>5 DEF IndInv

LEMMA StillStep ==
  ASSUME IndInv,
         UNCHANGED <<schema, lock, deployed, pc, next, conn, servers, probes, crashes,
                     interrupted, refused>>
  PROVE  IndInv'
<1>1. Types'
  BY DEF IndInv, Types, schema, servers
<1>2. \A p \in Pod : Local(p)'
  BY LocalOf DEF Local, Held, Progress, Migrating, Configured, Reachable, LoadConfig, NewServer,
     schema, servers, probes
<1>3. DirtyHasCause'
  BY DEF IndInv, DirtyHasCause, Migrating, schema
<1> QED
  BY <1>1, <1>2, <1>3 DEF IndInv

LEMMA InitIndInv == Init => IndInv
<1> SUFFICES ASSUME Init PROVE IndInv
  OBVIOUS
<1>1. Types
  BY ServiceAssumption DEF Init, Types, Points, Phases
<1>2. \A p \in Pod : Local(p)
  BY DEF Init, Local, Held, Migrating, Configured
<1> QED
  BY <1>1, <1>2 DEF Init, IndInv, DirtyHasCause

LEMMA NextIndInv == IndInv /\ [Next]_vars => IndInv'
<1> SUFFICES ASSUME IndInv, [Next]_vars PROVE IndInv'
  OBVIOUS
<1>1. ASSUME NEW p \in Pod, Step(p) PROVE IndInv'
  BY <1>1, StartStep, MainStep, NewMigrateStep, LockStep, LockTimeoutStep, RunDBMigrationStep,
     MarkStep, RunStep, ClearStep, ConnectionLostStep DEF Step
<1>2. ASSUME NEW p \in Pod, Crash(p) PROVE IndInv'
  BY <1>2, DiesStep DEF Crash
<1>3. CASE Recover
  BY <1>3, StillStep DEF Recover
<1>4. CASE UNCHANGED vars
  BY <1>4, StillStep DEF vars, schema, servers, probes
<1> QED
  BY <1>1, <1>2, <1>3, <1>4, GatewayStep, GrpcStep, ProbeStep, OutageStep DEF Next

(* Replicas that start, migrate, crash and are restarted in any order, through
   outages of the database, keep the invariant (main.go). *)
THEOREM Invariance == Spec => []IndInv
BY InitIndInv, NextIndInv, PTL DEF Spec

(* A replica serves only on a complete schema.  It is sent requests only as long
   as neither of its servers has failed, and only when the keys whose absence
   main or a probe notices were supplied; of the other four it says nothing
   (main.go:32, util/config.go:LoadConfig). *)
THEOREM OnlyMigratedServes == Spec => []ServesMigrated
<1>1. IndInv => ServesMigrated
  <2> SUFFICES ASSUME IndInv, NEW p \in Pod
               PROVE  /\ "serving" \in {gateway[p], grpc[p]} => applied = 1..Last /\ ~dirty
                      /\ p \in routed => "off" \notin {gateway[p], grpc[p]}
                      /\ p \in routed => deployed.readable /\ requiredKeys \subseteq LoadConfig
    BY DEF ServesMigrated
  <2>1. "serving" \in {gateway[p], grpc[p]} => pc[p] = "serve"
    BY LocalOf DEF Configured
  <2>2. pc[p] = "serve" => ~dirty /\ applied = 1..Last
    BY LocalOf, KnownSchema DEF Local
  <2>3. p \in routed => Reachable(p)
    BY LocalOf DEF Configured
  <2>4. Reachable(p) => "off" \notin {gateway[p], grpc[p]}
    BY LocalOf DEF Configured, Reachable
  <2>5. Reachable(p) => deployed.readable /\ requiredKeys \subseteq LoadConfig
    BY LocalOf DEF Configured, Reachable, requiredKeys, NewServer
  <2> QED
    BY <2>1, <2>2, <2>3, <2>4, <2>5
<1> QED
  BY <1>1, Invariance, PTL

(* Only a crash, an outage or data that the migration itself refuses leaves it
   half done: replicas that start together do not (main.go:runDBMigration). *)
THEOREM DirtyOnlyWithCause == Spec => []DirtyHasCause
<1>1. IndInv => DirtyHasCause
  BY DEF IndInv
<1> QED
  BY <1>1, Invariance, PTL

(* No outage ends a pod that serves: liveness asks nothing of Postgres
   (health/health.go:Live). *)
THEOREM OutagesEndNoServer == Spec => OutageRestartsNobody
<1>1. IndInv /\ [Next]_vars =>
        [\A p \in Pod : Reachable(p) /\ ~Reachable(p)' => crashes' = crashes + 1]_vars
  <2> SUFFICES ASSUME IndInv, Next, NEW p \in Pod, Reachable(p), ~Reachable(p)'
               PROVE  crashes' = crashes + 1
    OBVIOUS
  <2>1. pc[p] = "serve" /\ gateway[p] = "serving" /\ NewServer /\ "HTTP_SERVER_ADDRESS" \in LoadConfig
    BY LocalOf DEF Reachable, Configured
  <2>2. deployed' = deployed
    BY DEF Next, Step, Start, main, NewMigrate, Lock, ErrLockTimeout, runDBMigration, Mark, Run,
           Clear, ConnectionLost, runGatewayServer, runGrpcServer, CannotListen, LivenessProbe,
           ReadinessProbe, Crash, Dies, Migrated, Fatal, Outage, Recover, world
  <2>3. gateway'[p] # "serving"
    BY <2>1, <2>2 DEF Reachable, LoadConfig
  <2>4. \A q \in Pod \ {p} : \A x : gateway' # [gateway EXCEPT ![q] = x]
    BY <2>1, <2>3, LocalOf DEF Types
  <2>5. gateway' # gateway
    BY <2>1, <2>3
  <2>6. ASSUME NEW q \in Pod, Step(q) \/ runGatewayServer(q) \/ runGrpcServer(q)
             PROVE  crashes' = crashes + 1
    <3>1. q = p \/ gateway' = gateway \/ \E x : gateway' = [gateway EXCEPT ![q] = x]
      BY <2>6 DEF Step, Start, main, NewMigrate, Lock, ErrLockTimeout, runDBMigration, Mark, Run,
           Clear, ConnectionLost, runGatewayServer, runGrpcServer, CannotListen, Dies, Migrated,
           Fatal, Exit, servers
    <3>2. q = p
      BY <2>4, <2>5, <3>1
    <3> QED
      BY <2>1, <2>5, <2>6, <3>2 DEF Step, Start, main, NewMigrate, Lock, ErrLockTimeout,
         runDBMigration, Mark, Run, Clear, ConnectionLost, runGatewayServer, runGrpcServer,
         CannotListen, servers
  <2>7. ASSUME NEW q \in Pod, LivenessProbe(q) PROVE crashes' = crashes + 1
    <3>1. q = p \/ gateway' = gateway \/ \E x : gateway' = [gateway EXCEPT ![q] = x]
      BY <2>7 DEF LivenessProbe, Dies, Exit, servers
    <3>2. q = p
      BY <2>4, <2>5, <3>1
    <3> QED
      BY <2>5, <2>7, <3>2 DEF LivenessProbe, Live, servers
  <2>8. ASSUME NEW q \in Pod, ReadinessProbe(q) \/ Crash(q) PROVE crashes' = crashes + 1
    BY <2>5, <2>8 DEF ReadinessProbe, Crash, servers
  <2>9. ~Outage /\ ~Recover
    BY <2>5 DEF Outage, Recover, servers
  <2> QED
    BY <2>6, <2>7, <2>8, <2>9 DEF Next
<1> QED
  BY <1>1, Invariance, PTL DEF Spec, OutageRestartsNobody
-----------------------------------------------------------------------------
(* Who may touch the schema, and how.                                      *)

(* Two replicas are never both at the migrations: the advisory lock of
   golang-migrate is taken before the version is read and held, on a connection
   that is alive, until Up is done (main.go:runDBMigration). *)
THEOREM OneReplicaMigrates == Spec => [](\A p, q \in Pod : Held(p) /\ Held(q) => p = q)
<1>1. IndInv => \A p, q \in Pod : Held(p) /\ Held(q) => p = q
  BY DEF IndInv, Local
<1> QED
  BY <1>1, Invariance, PTL

(* The migrations of a step: one begins, its statements are committed, or it
   ends.  None is undone, skipped or run again. *)
Forward ==
  \/ UNCHANGED schema
  \/ ~dirty /\ dirty' /\ version' = version + 1 /\ applied' = applied
  \/ dirty /\ dirty' /\ version' = version /\ version \notin applied /\ applied' = 1..version
  \/ dirty /\ ~dirty' /\ version' = version /\ applied' = applied /\ applied = 1..version

LEMMA NextForward ==
  ASSUME IndInv, [Next]_vars
  PROVE  Forward
<1>1. ASSUME NEW p \in Pod, Fatal(p) PROVE UNCHANGED schema
  BY <1>1 DEF Fatal, Exit
<1>2. ASSUME NEW p \in Pod, runDBMigration(p) PROVE UNCHANGED schema
  BY <1>1, <1>2 DEF runDBMigration, Migrated, schema
<1>3. ASSUME NEW p \in Pod, Mark(p) PROVE Forward
  <2>1. Held(p) /\ pc[p] = "mark"
    BY <1>3 DEF Mark, Held
  <2>2. ~dirty /\ next[p] = version + 1
    BY <2>1, LocalOf DEF Local, Progress
  <2> QED
    BY <1>3, <2>2 DEF Mark, Forward
<1>4. ASSUME NEW p \in Pod, Run(p) PROVE Forward
  <2>1. Held(p) /\ pc[p] = "run"
    BY <1>4 DEF Run, Held
  <2>2. dirty /\ next[p] = version /\ next[p] >= 1 /\ applied = 1..(next[p] - 1) /\ version \in 0..Last
    BY <2>1, LocalOf DEF Local, Progress, Types
  <2>3. version \notin applied /\ applied \cup {version} = 1..version
    BY <2>2, ServiceAssumption
  <2> QED
    BY <1>1, <1>4, <2>2, <2>3 DEF Run, Exit, Forward
<1>5. ASSUME NEW p \in Pod, Clear(p) PROVE Forward
  <2>1. Held(p) /\ pc[p] = "clear"
    BY <1>5 DEF Clear, Held
  <2>2. dirty /\ applied = 1..version
    BY <2>1, LocalOf DEF Local, Progress
  <2> QED
    BY <1>5, <2>2 DEF Clear, Migrated, Forward
<1>6. ASSUME NEW p \in Pod, Step(p) PROVE Forward
  <2>1. CASE runDBMigration(p) \/ Mark(p) \/ Run(p) \/ Clear(p)
    BY <1>2, <1>3, <1>4, <1>5, <2>1 DEF Forward
  <2>2. CASE ~(runDBMigration(p) \/ Mark(p) \/ Run(p) \/ Clear(p))
    BY <1>1, <1>6, <2>2 DEF Step, Start, main, NewMigrate, Lock, ErrLockTimeout, ConnectionLost, Forward
  <2> QED
    BY <2>1, <2>2
<1>7. ASSUME NEW p \in Pod, runGatewayServer(p) \/ runGrpcServer(p) PROVE UNCHANGED schema
  BY <1>1, <1>7 DEF runGatewayServer, runGrpcServer, CannotListen, Dies, Exit
<1>8. ASSUME NEW p \in Pod, LivenessProbe(p) \/ ReadinessProbe(p) \/ Crash(p) PROVE UNCHANGED schema
  BY <1>8 DEF LivenessProbe, ReadinessProbe, Crash, Dies, Exit
<1>9. Outage \/ Recover \/ UNCHANGED vars => UNCHANGED schema
  BY DEF Outage, Recover, vars, schema
<1> QED
  BY <1>6, <1>7, <1>8, <1>9 DEF Next, Forward

(* The schema only moves forward, one migration at a time, and no migration is
   run before the one below it is complete, through any crashes, outages and
   restarts (main.go:runDBMigration). *)
THEOREM MigrationsGoForward == Spec => [][Forward]_vars
<1>1. IndInv /\ [Next]_vars => [Forward]_vars
  BY NextForward
<1> QED
  BY <1>1, Invariance, PTL DEF Spec

(* A migration was cut short or refused, and whoever ran it is gone. *)
CutShort ==
  dirty /\ \A p \in Pod : p \in conn => pc[p] \notin {"mark", "run", "clear"}

Serving == \E p \in Pod : "serving" \in {gateway[p], grpc[p]}

LEMMA CutShortStays ==
  ASSUME IndInv, [Next]_vars, CutShort
  PROVE  CutShort'
<1>1. \A p \in Pod : ~Mark(p) /\ ~Run(p) /\ ~Clear(p)
  BY DEF CutShort, Mark, Run, Clear
<1>2. dirty'
  <2>1. UNCHANGED schema \/ \E p \in Pod : Mark(p) \/ Run(p) \/ Clear(p)
    <3>1. \A p \in Pod : Fatal(p) => UNCHANGED schema
      BY DEF Fatal, Exit
    <3>2. \A p \in Pod : runDBMigration(p) => UNCHANGED schema
      BY <3>1 DEF runDBMigration, CutShort
    <3>3. \A p \in Pod : Step(p) => UNCHANGED schema
      BY <1>1, <3>1, <3>2 DEF Step, Start, main, NewMigrate, Lock, ErrLockTimeout, ConnectionLost
    <3>4. \A p \in Pod : runGatewayServer(p) \/ runGrpcServer(p) => UNCHANGED schema
      BY <3>1 DEF runGatewayServer, runGrpcServer, CannotListen, Dies, Exit
    <3>5. \A p \in Pod : LivenessProbe(p) \/ ReadinessProbe(p) \/ Crash(p) => UNCHANGED schema
      BY DEF LivenessProbe, ReadinessProbe, Crash, Dies, Exit
    <3>6. Outage \/ Recover \/ UNCHANGED vars => UNCHANGED schema
      BY DEF Outage, Recover, vars, schema
    <3> QED
      BY <3>3, <3>4, <3>5, <3>6 DEF Next
  <2> QED
    BY <1>1, <2>1 DEF CutShort, schema
<1>3. ASSUME NEW q \in Pod, q \in conn', pc'[q] \in {"mark", "run", "clear"} PROVE FALSE
  <2>0. pc \in [Pod -> Points]
    BY DEF IndInv, Types
  <2>1. \A p \in Pod : (~Fatal(p) /\ ~Dies(p)) \/ (p # q /\ pc'[q] = pc[q] /\ q \in conn)
    BY <1>3, <2>0 DEF Fatal, Dies, Exit, Goto
  <2>2. q \notin conn \/ pc[q] \notin {"mark", "run", "clear"}
    BY DEF CutShort
  <2>3. \A p \in Pod : ~Fatal(p) /\ ~Dies(p)
    BY <1>3, <2>1, <2>2
  <2>4. ASSUME NEW p \in Pod PROVE ~Step(p)
    <3>1. ~Start(p) /\ ~main(p) /\ ~Lock(p) /\ ~ErrLockTimeout(p) /\ ~ConnectionLost(p)
      BY <1>3, <2>0, <2>2, <2>3 DEF Start, main, Lock, ErrLockTimeout, ConnectionLost, Goto
    <3>2. ~NewMigrate(p)
      BY <1>3, <2>0, <2>2, <2>3 DEF NewMigrate, Goto
    <3>3. ~runDBMigration(p)
      BY <2>3 DEF runDBMigration, CutShort
    <3> QED
      BY <1>1, <3>1, <3>2, <3>3 DEF Step
  <2>5. ASSUME NEW p \in Pod PROVE ~runGatewayServer(p) /\ ~runGrpcServer(p)
    BY <1>3, <2>2, <2>3 DEF runGatewayServer, runGrpcServer, CannotListen
  <2>6. ASSUME NEW p \in Pod PROVE ~LivenessProbe(p) /\ ~ReadinessProbe(p) /\ ~Crash(p)
    BY <1>3, <2>2, <2>3 DEF LivenessProbe, ReadinessProbe, Crash
  <2>7. ~Outage /\ ~Recover /\ ~UNCHANGED vars
    BY <1>3, <2>2 DEF Outage, Recover, vars
  <2> QED
    BY <2>4, <2>5, <2>6, <2>7 DEF Next
<1> QED
  BY <1>2, <1>3 DEF CutShort

(* A migration that was cut short or refused takes the whole Service down for
   good: every replica refuses the dirty schema, however often it is restarted,
   and none serves until an operator repairs the row (main.go:runDBMigration). *)
THEOREM HalfDoneServesNobody == Spec => [](CutShort => [](dirty /\ ~Serving))
<1>1. IndInv /\ CutShort => dirty /\ ~Serving
  <2> SUFFICES ASSUME IndInv, CutShort, NEW p \in Pod
               PROVE  dirty /\ "serving" \notin {gateway[p], grpc[p]}
    BY DEF Serving, CutShort
  <2>1. dirty /\ pc[p] # "serve"
    BY LocalOf DEF CutShort, Local
  <2> QED
    BY <2>1, LocalOf DEF Configured
<1>2. IndInv /\ [Next]_vars /\ CutShort => CutShort'
  BY CutShortStays
<1> QED
  BY <1>1, <1>2, Invariance, PTL DEF Spec
=============================================================================
