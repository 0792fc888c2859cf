------------------------------ MODULE Service ------------------------------
(***************************************************************************)
(* The process from its start to its end: main (main.go) loads the         *)
(* configuration, migrates the schema and runs the gateway and the gRPC    *)
(* server; package health answers the probes of the kubelet.               *)
(*                                                                         *)
(* The replicas of eks/deployment.yaml start, crash and are restarted      *)
(* independently, over one database that may be out for a while.  A        *)
(* log.Fatal anywhere ends the whole process.  golang-migrate and the      *)
(* kubelet are external: what main.go and deployment.yaml ask of them.     *)
(***************************************************************************)
EXTENDS Integers

CONSTANTS
  Pod,               \* the replicas
  NoPod,
  Last,              \* the number of migrations under db/migration
  FailureThreshold,  \* probes in a row that must fail before the kubelet acts
  Deployments,       \* what the configuration may be read from
  MaxCrashes,        \* bound: processes that die, or start too slowly
  MaxOutages         \* bound: outages of the database

VARIABLES
  db,           \* is Postgres "up" or "down"
  version, dirty,  \* the row of schema_migrations
  applied,      \* the migrations whose statements are committed
  lock,         \* who holds the advisory lock of golang-migrate
  deployed,     \* where the configuration is read from
  pc,           \* what main does next
  next,         \* the migration that a pod is to run next
  conn,         \* the pods whose migration connection is alive
  gateway, grpc,   \* the two servers of a pod
  liveFails, readyFails,  \* probes in a row that failed
  routed,       \* the pods that are endpoints of the Service
  crashes, outages,
  interrupted,  \* history: a migration was cut short by a crash or an outage
  refused       \* history: the migrations whose statements Postgres refused

schema == <<version, dirty, applied>>
servers == <<gateway, grpc>>
probes == <<liveFails, readyFails, routed>>
world == <<db, deployed, crashes, outages, interrupted, refused>>
vars == <<db, version, dirty, applied, lock, deployed, pc, next, conn, gateway, grpc,
          liveFails, readyFails, routed, crashes, outages, interrupted, refused>>

configKeys ==
  {"ENVIRONMENT", "DB_DRIVER", "DB_SOURCE", "MIGRATION_URL", "HTTP_SERVER_ADDRESS",
   "GRPC_SERVER_ADDRESS", "TOKEN_SYMMETRIC_KEY", "ACCESS_TOKEN_DURATION", "REFRESH_TOKEN_DURATION"}

(* The keys whose zero value stops main, or hides the gateway from the probes.
   With any other at zero a pod serves: a log in JSON, gRPC on a port of the
   system's choice, tokens that expire as they are issued. *)
requiredKeys ==
  {"DB_DRIVER", "DB_SOURCE", "MIGRATION_URL", "HTTP_SERVER_ADDRESS", "TOKEN_SYMMETRIC_KEY"}

ASSUME ServiceAssumption ==
  /\ NoPod \notin Pod
  /\ Last \in Nat
  /\ FailureThreshold \in Nat \ {0}
  /\ Deployments \subseteq
       [readable: BOOLEAN, env: SUBSET configKeys, file: SUBSET configKeys]
  /\ MaxCrashes \in Nat /\ MaxOutages \in Nat

(* A database that any earlier release may have migrated, and pods to start. *)
Init ==
  /\ db = "up"
  /\ version \in 0..Last /\ dirty = FALSE /\ applied = 1..version
  /\ lock = NoPod /\ conn = {}
  /\ deployed \in Deployments
  /\ pc = [p \in Pod |-> "exited"]
  /\ next = [p \in Pod |-> 0]
  /\ gateway = [p \in Pod |-> "off"] /\ grpc = [p \in Pod |-> "off"]
  /\ liveFails = [p \in Pod |-> 0] /\ readyFails = [p \in Pod |-> 0]
  /\ routed = {}
  /\ crashes = 0 /\ outages = 0 /\ interrupted = FALSE /\ refused = {}

-----------------------------------------------------------------------------
Goto(p, s) == pc' = [pc EXCEPT ![p] = s]

(* The process ends: its connections close, which frees the advisory lock,
   and the kubelet takes the pod out of the Service. *)
Exit(p) ==
  /\ Goto(p, "exited")
  /\ conn' = conn \ {p}
  /\ lock' = IF lock = p THEN NoPod ELSE lock
  /\ gateway' = [gateway EXCEPT ![p] = "off"]
  /\ grpc' = [grpc EXCEPT ![p] = "off"]
  /\ liveFails' = [liveFails EXCEPT ![p] = 0]
  /\ readyFails' = [readyFails EXCEPT ![p] = 0]
  /\ routed' = routed \ {p}
  /\ UNCHANGED <<schema, next>>

Fatal(p) == Exit(p) /\ UNCHANGED world

(* The kubelet starts the container again. *)
Start(p) ==
  /\ pc[p] = "exited"
  /\ Goto(p, "loadConfig")
  /\ UNCHANGED <<schema, lock, next, conn, servers, probes, world>>

(* Every key is bound to the environment, so one that neither it nor app.env
   supplies is left at its zero value, without an error. *)
LoadConfig == deployed.env \cup deployed.file

(* LoadConfig and sql.Open, which does not connect yet. *)
main(p) ==
  /\ pc[p] = "loadConfig"
  /\ \/ /\ deployed.readable /\ "DB_DRIVER" \in LoadConfig
        /\ Goto(p, "newMigrate")
        /\ UNCHANGED <<schema, lock, next, conn, servers, probes, world>>
     \/ /\ ~(deployed.readable /\ "DB_DRIVER" \in LoadConfig)
        /\ Fatal(p)

(* migrate.New opens the sources and connects to the database. *)
NewMigrate(p) ==
  /\ pc[p] = "newMigrate"
  /\ \/ /\ {"MIGRATION_URL", "DB_SOURCE"} \subseteq LoadConfig /\ db = "up"
        /\ conn' = conn \cup {p}
        /\ Goto(p, "lock")
        /\ UNCHANGED <<schema, lock, next, servers, probes, world>>
     \/ /\ ~({"MIGRATION_URL", "DB_SOURCE"} \subseteq LoadConfig /\ db = "up")
        /\ Fatal(p)

Lock(p) ==
  /\ pc[p] = "lock" /\ p \in conn
  /\ lock = NoPod
  /\ lock' = p
  /\ Goto(p, "version")
  /\ UNCHANGED <<schema, next, conn, servers, probes, world>>

(* Up waits no longer than its lock timeout for another replica. *)
ErrLockTimeout(p) ==
  /\ pc[p] = "lock" /\ lock # NoPod
  /\ Fatal(p)

(* Up has done its work and lets go of the lock; main runs both servers. *)
Migrated(p) ==
  /\ lock' = IF lock = p THEN NoPod ELSE lock
  /\ conn' = conn \ {p}
  /\ Goto(p, "serve")
  /\ gateway' = [gateway EXCEPT ![p] = "starting"]
  /\ grpc' = [grpc EXCEPT ![p] = "starting"]
  /\ UNCHANGED <<version, applied, next, probes, world>>

(* Mutants: an error of Up is only logged; ErrNoChange is an error too; the
   migrations are run from the first one, whatever the version is. *)
RunDBMigrationLogged(p) ==
  /\ pc[p] = "version" /\ p \in conn
  /\ \/ dirty /\ Migrated(p) /\ UNCHANGED dirty
     \/ ~dirty /\ version = Last /\ Migrated(p) /\ UNCHANGED dirty
     \/ /\ ~dirty /\ version # Last
        /\ next' = [next EXCEPT ![p] = version + 1]
        /\ Goto(p, "mark")
        /\ UNCHANGED <<schema, lock, conn, servers, probes, world>>

RunDBMigrationNoChange(p) ==
  /\ pc[p] = "version" /\ p \in conn
  /\ \/ (dirty \/ version = Last) /\ Fatal(p)
     \/ /\ ~dirty /\ version # Last
        /\ next' = [next EXCEPT ![p] = version + 1]
        /\ Goto(p, "mark")
        /\ UNCHANGED <<schema, lock, conn, servers, probes, world>>

RunDBMigrationFromFirst(p) ==
  /\ pc[p] = "version" /\ p \in conn
  /\ \/ dirty /\ Fatal(p)
     \/ /\ ~dirty
        /\ next' = [next EXCEPT ![p] = 1]
        /\ Goto(p, "mark")
        /\ UNCHANGED <<schema, lock, conn, servers, probes, world>>

(* What Up finds: an earlier migration was cut short, which is an error that
   only an operator can clear; nothing to do, which is none; or work to do. *)
runDBMigration(p) ==
  /\ pc[p] = "version" /\ p \in conn
  /\ \/ dirty /\ Fatal(p)
     \/ ~dirty /\ version = Last /\ Migrated(p) /\ UNCHANGED dirty
     \/ /\ ~dirty /\ version # Last
        /\ next' = [next EXCEPT ![p] = version + 1]
        /\ Goto(p, "mark")
        /\ UNCHANGED <<schema, lock, conn, servers, probes, world>>

(* For each migration: SetVersion(v, dirty), its statements, SetVersion(v),
   three transactions.  None of the migrations can be applied twice, and the
   data of an earlier release may not meet a constraint that one adds: then the
   second transaction is rolled back and Up ends with an error. *)
Mark(p) ==
  /\ pc[p] = "mark" /\ p \in conn
  /\ version' = next[p] /\ dirty' = TRUE
  /\ Goto(p, "run")
  /\ UNCHANGED <<applied, lock, next, conn, servers, probes, world>>

Run(p) ==
  /\ pc[p] = "run" /\ p \in conn
  /\ \/ /\ next[p] \notin applied
        /\ applied' = applied \cup {next[p]}
        /\ Goto(p, "clear")
        /\ UNCHANGED <<version, dirty, lock, next, conn, servers, probes, world>>
     \/ /\ next[p] \notin applied
        /\ refused' = refused \cup {next[p]}
        /\ Exit(p)
        /\ UNCHANGED <<db, deployed, crashes, outages, interrupted>>
     \/ next[p] \in applied /\ Fatal(p)

Clear(p) ==
  /\ pc[p] = "clear" /\ p \in conn
  /\ dirty' = FALSE
  /\ \/ /\ next[p] < Last
        /\ next' = [next EXCEPT ![p] = @ + 1]
        /\ Goto(p, "mark")
        /\ UNCHANGED <<version, applied, lock, conn, servers, probes, world>>
     \/ next[p] = Last /\ Migrated(p)

(* The connection is gone: the next query of Up returns an error. *)
ConnectionLost(p) ==
  /\ pc[p] \in {"lock", "version", "mark", "run", "clear"} /\ p \notin conn
  /\ Fatal(p)

(* A pod is between the two SetVersion of a migration. *)
Migrating(p) == pc[p] \in {"run", "clear"}

(* The process dies for a reason of its own (a listener that fails, out of
   memory) or because the kubelet kills it. *)
Dies(p) ==
  /\ Exit(p)
  /\ interrupted' = (interrupted \/ Migrating(p))
  /\ UNCHANGED <<db, deployed, outages, refused>>

(* NewServer wants a symmetric key of the right size (NewPasetoMaker). *)
NewServer == "TOKEN_SYMMETRIC_KEY" \in LoadConfig

(* A server that cannot listen ends the process, the other server with it. *)
CannotListen(p) == crashes < MaxCrashes /\ Dies(p) /\ crashes' = crashes + 1

(* In a goroutine of its own. *)
runGatewayServer(p) ==
  /\ gateway[p] = "starting"
  /\ \/ /\ NewServer
        /\ gateway' = [gateway EXCEPT ![p] = "serving"]
        /\ UNCHANGED <<schema, lock, pc, next, conn, grpc, probes, world>>
     \/ NewServer /\ CannotListen(p)
     \/ ~NewServer /\ Fatal(p)

(* Mutant: a listener that fails ends the gRPC server alone. *)
RunGrpcServerAlone(p) ==
  /\ grpc[p] = "starting" /\ NewServer
  /\ grpc' \in {[grpc EXCEPT ![p] = "serving"], [grpc EXCEPT ![p] = "off"]}
  /\ UNCHANGED <<schema, lock, pc, next, conn, gateway, probes, world>>

runGrpcServer(p) ==
  /\ grpc[p] = "starting"
  /\ \/ /\ NewServer
        /\ grpc' = [grpc EXCEPT ![p] = "serving"]
        /\ UNCHANGED <<schema, lock, pc, next, conn, gateway, probes, world>>
     \/ NewServer /\ CannotListen(p)
     \/ ~NewServer /\ Fatal(p)

-----------------------------------------------------------------------------
(* Mutant: liveness depends on Postgres too. *)
LivePings == IF db = "up" THEN 200 ELSE 503

Live == 200
Ready == IF db = "up" THEN 200 ELSE 503

(* A zero HTTP_SERVER_ADDRESS listens on a port that nobody probes. *)
Reachable(p) == gateway[p] = "serving" /\ "HTTP_SERVER_ADDRESS" \in LoadConfig

(* A pod that starts more slowly than the probe allows is killed too, in the
   middle of a migration even; how often that happens is bounded. *)
LivenessProbe(p) ==
  /\ pc[p] # "exited"
  /\ LET passes == Reachable(p) /\ Live = 200
         enough == liveFails[p] + 1 = FailureThreshold
     IN  \/ /\ passes \/ ~enough
            /\ liveFails' = [liveFails EXCEPT ![p] = IF passes THEN 0 ELSE @ + 1]
            /\ UNCHANGED <<schema, lock, pc, next, conn, servers, readyFails, routed, world>>
         \/ /\ ~passes /\ enough /\ gateway[p] = "serving"
            /\ Dies(p) /\ UNCHANGED crashes
         \/ /\ ~passes /\ enough /\ gateway[p] # "serving" /\ crashes < MaxCrashes
            /\ Dies(p) /\ crashes' = crashes + 1

ReadinessProbe(p) ==
  /\ pc[p] # "exited"
  /\ LET passes == Reachable(p) /\ Ready = 200
         enough == readyFails[p] + 1 >= FailureThreshold
     IN  /\ readyFails' = [readyFails EXCEPT ![p] =
                             IF passes THEN 0 ELSE IF enough THEN @ ELSE @ + 1]
         /\ routed' = IF passes THEN routed \cup {p}
                      ELSE IF enough THEN routed \ {p} ELSE routed
  /\ UNCHANGED <<schema, lock, pc, next, conn, servers, liveFails, world>>

Crash(p) ==
  /\ pc[p] # "exited" /\ crashes < MaxCrashes
  /\ Dies(p) /\ crashes' = crashes + 1

(* Postgres goes away with every connection, and comes back. *)
Outage ==
  /\ db = "up" /\ outages < MaxOutages
  /\ db' = "down" /\ outages' = outages + 1
  /\ conn' = {} /\ lock' = NoPod
  /\ interrupted' = (interrupted \/ \E p \in Pod : Migrating(p))
  /\ UNCHANGED <<schema, deployed, pc, next, servers, probes, crashes, refused>>

Recover ==
  /\ db = "down"
  /\ db' = "up"
  /\ UNCHANGED <<schema, lock, deployed, pc, next, conn, servers, probes,
                 crashes, outages, interrupted, refused>>

(* The steps of a pod that nothing but the pod itself or the kubelet delays. *)
Step(p) ==
  \/ Start(p) \/ main(p) \/ NewMigrate(p) \/ Lock(p) \/ ErrLockTimeout(p)
  \/ runDBMigration(p) \/ Mark(p) \/ Run(p) \/ Clear(p) \/ ConnectionLost(p)

Next ==
  \/ \E p \in Pod : Step(p) \/ runGatewayServer(p) \/ runGrpcServer(p)
  \/ \E p \in Pod : LivenessProbe(p) \/ ReadinessProbe(p) \/ Crash(p)
  \/ Outage \/ Recover

Spec == Init /\ [][Next]_vars

(* Every pod takes its steps, the kubelet restarts and probes, and an outage
   ends. *)
FairSpec ==
  /\ Spec
  /\ WF_vars(Recover)
  /\ \A p \in Pod :
       /\ WF_vars(Step(p)) /\ WF_vars(runGatewayServer(p)) /\ WF_vars(runGrpcServer(p))
       /\ WF_vars(ReadinessProbe(p)) /\ WF_vars(LivenessProbe(p))

-----------------------------------------------------------------------------
(* Properties.                                                             *)

(* A pod serves only on the schema its queries were written for, whatever was
   refused or cut short.  It is sent requests only as long as neither of its
   servers has failed, and only when the keys of requiredKeys were supplied:
   that one of those is missing shows before the pod joins the Service.  That
   one of the other keys is missing does not. *)
ServesMigrated ==
  \A p \in Pod :
    /\ "serving" \in {gateway[p], grpc[p]} => applied = 1..Last /\ ~dirty
    /\ p \in routed => "off" \notin {gateway[p], grpc[p]}
    /\ p \in routed => deployed.readable /\ requiredKeys \subseteq LoadConfig

(* Replicas that start together do not spoil the schema for each other: a
   migration is left half done only when its pod or the database went away, or
   when it was itself refused on the data.  Whatever happened, the schema is
   what schema_migrations says it is, up to the one migration that the row calls
   dirty. *)
DirtyHasCause ==
  /\ dirty => interrupted \/ version \in refused \/ \E p \in Pod : Migrating(p)
  /\ applied = 1..version \/ (dirty /\ applied = 1..(version - 1))

(* "If the database goes down, restarting every replica turns an outage into a
   crash loop" (health/health.go:13): a pod that answers on its port stays up
   through an outage, and ends only when its process crashes. *)
OutageRestartsNobody ==
  [][\A p \in Pod : Reachable(p) /\ ~Reachable(p)' => crashes' = crashes + 1]_vars

(* "let it rejoin when the dependency recovers" (health/health.go:18): once a
   pod has served, crashes and outages keep no pod out of the Service. *)
Recovers == (\E p \in Pod : Reachable(p)) ~> (routed = Pod)
=============================================================================
