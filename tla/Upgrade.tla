-------------------------------- MODULE Upgrade --------------------------------
(***************************************************************************)
(* How the gateway's program and its database reach a new version          *)
(* together: the migrations (snippen_sms/migrations/runner.py), which the  *)
(* daemon applies when it opens its store (storage.py), `snippen-sms       *)
(* migrate' on demand and `snippen-sms update' (updater.py) after pip has  *)
(* replaced the package; several of these processes on one database, each  *)
(* of which may die anywhere.                                              *)
(*                                                                         *)
(* Release r comes with the migrations 1..r.  A process runs the code it   *)
(* was started with, but reads the migrations from the disk.               *)
(***************************************************************************)
EXTENDS Naturals

CONSTANTS
  Daemon, Tool,   \* `snippen-sms run'; processes that run one command and end
  Last,           \* the last release there will be
  Repeatable,     \* migrations whose statements may be repeated (IF NOT EXISTS)
  MaxTool,        \* bound: commands run
  MaxCrash        \* bound: processes that die or are stopped

ASSUME UpgradeAssumption ==
  /\ Daemon \notin Tool
  /\ Last \in Nat \ {0} /\ MaxTool \in Nat /\ MaxCrash \in Nat
  /\ 1 \in Repeatable \* 0001_initial_messages_schema.sql

Process == Tool \cup {Daemon}
Release == 1..Last

VARIABLES
  log,        \* the versions in schema_migrations
  schema,     \* those whose statements the database has seen
  installed,  \* the release on the disk
  published,  \* the latest one on GitHub
  pc,         \* what each process is doing
  runs,       \* the release each process was started with
  todo,       \* its pending migrations
  target,     \* target_version
  artifact,   \* the release downloaded, and whether it is what was published
  genuine,    \* so is what is installed
  unchecked,  \* history: an artifact was installed whose digest was not to be had
  downgraded, \* history: an installation replaced a release by an older one
  tools, crashes \* counters for the bounds

database == <<log, schema>>
disk == <<installed, genuine, unchecked, downgraded>>
counters == <<tools, crashes>>
vars == <<database, disk, published, pc, runs, todo, target, artifact, counters>>

\* A new database, one of a time before there were migrations, or one in order.
Init ==
  /\ installed \in Release /\ published = installed
  /\ \/ log = {} /\ schema \in {{}, {1}}
     \/ \E v \in 1..installed : log = 1..v /\ schema = 1..v
  /\ pc = [p \in Process |-> "off"] /\ runs = [p \in Process |-> installed]
  /\ todo = [p \in Process |-> {}] /\ target = [p \in Process |-> Last]
  /\ artifact = [p \in Process |-> [release |-> installed, genuine |-> TRUE]]
  /\ genuine = TRUE /\ unchecked = FALSE /\ downgraded = FALSE
  /\ tools = 0 /\ crashes = 0

Control == {"off", "look", "find", "baseline", "read", "apply", "serving",
            "check", "forced", "download", "install"}

TypeOK ==
  /\ log \subseteq Release /\ schema \subseteq Release
  /\ installed \in Release /\ published \in Release
  /\ pc \in [Process -> Control] /\ runs \in [Process -> Release]
  /\ todo \in [Process -> SUBSET Release] /\ target \in [Process -> Release]
  /\ artifact \in [Process -> [release : Release, genuine : BOOLEAN]]
  /\ {genuine, unchecked, downgraded} \subseteq BOOLEAN
  /\ tools \in 0..MaxTool /\ crashes \in 0..MaxCrash

Goto(p, c) == pc' = [pc EXCEPT ![p] = c]

-----------------------------------------------------------------------------
(* run_migrations                                                          *)

\* MigrationError ends the process, or the update, which then only warns.
\* Mutant of Failed: the daemon carries on with the schema it finds
FailedUnheeded(p) == Goto(p, IF p = Daemon THEN "serving" ELSE "off")

Failed(p) == Goto(p, "off")

\* The daemon has its store and serves; a tool is done.
Migrated(p) == IF p = Daemon THEN "serving" ELSE "off"

\* baseline_existing_database looks for records of migrations,
Look(p) ==
  /\ pc[p] = "look" /\ Goto(p, IF log = {} THEN "find" ELSE "read")
  /\ UNCHANGED <<database, disk, published, runs, todo, target, artifact, counters>>

\* then for the table of messages,
Find(p) ==
  /\ pc[p] = "find" /\ Goto(p, IF 1 \in schema THEN "baseline" ELSE "read")
  /\ UNCHANGED <<database, disk, published, runs, todo, target, artifact, counters>>

\* and records that a database which has it needs no first migration.
Baseline(p) ==
  /\ pc[p] = "baseline"
  /\ IF 1 \in log THEN Failed(p) /\ UNCHANGED log ELSE Goto(p, "read") /\ log' = log \cup {1}
  /\ UNCHANGED <<schema, disk, published, runs, todo, target, artifact, counters>>

\* get_pending_migrations, of the release now on the disk.
ReadPending(p) ==
  /\ pc[p] = "read"
  /\ todo' = [todo EXCEPT ![p] = {v \in 1..installed : v \notin log /\ v <= target[p]}]
  /\ Goto(p, IF todo'[p] = {} THEN Migrated(p) ELSE "apply")
  /\ UNCHANGED <<database, disk, published, runs, target, artifact, counters>>

IsNext(v, p) == v \in todo[p] /\ \A w \in todo[p] : v <= w

\* Mutant of ApplyNext: the statements take effect before their record does
ApplyNextTorn(p, v) ==
  IF v \in log \/ (v \in schema /\ v \notin Repeatable)
  THEN Failed(p) /\ UNCHANGED <<log, schema, todo>>
  ELSE IF v \notin schema /\ crashes < MaxCrash
       THEN schema' = schema \cup {v} /\ UNCHANGED <<log, todo, pc>>
       ELSE /\ log' = log \cup {v} /\ schema' = schema \cup {v}
            /\ todo' = [todo EXCEPT ![p] = @ \ {v}]
            /\ Goto(p, IF todo[p] = {v} THEN Migrated(p) ELSE "apply")

\* Statements and record in one transaction, which is rolled back if the columns
\* or the record are there already.
ApplyNext(p, v) ==
  IF v \in log \/ (v \in schema /\ v \notin Repeatable)
  THEN Failed(p) /\ UNCHANGED <<log, schema, todo>>
  ELSE /\ log' = log \cup {v} /\ schema' = schema \cup {v}
       /\ todo' = [todo EXCEPT ![p] = @ \ {v}]
       /\ Goto(p, IF todo[p] = {v} THEN Migrated(p) ELSE "apply")

ApplyMigration(p) ==
  /\ pc[p] = "apply" /\ \E v \in todo[p] : IsNext(v, p) /\ ApplyNext(p, v)
  /\ UNCHANGED <<disk, published, runs, target, artifact, counters>>

Migrate(p) == Look(p) \/ Find(p) \/ Baseline(p) \/ ReadPending(p) \/ ApplyMigration(p)

-----------------------------------------------------------------------------
(* perform_upgrade                                                         *)

\* check_for_update: GitHub cannot be asked, has nothing newer, or is obeyed.
Check(p) ==
  /\ pc[p] \in {"check", "forced"}
  /\ \/ Goto(p, "off") /\ UNCHANGED artifact
     \/ /\ published > runs[p] \/ pc[p] = "forced"
        /\ artifact' = [artifact EXCEPT ![p].release = published] /\ Goto(p, "download")
  /\ UNCHANGED <<database, disk, published, runs, todo, target, counters>>

\* Mutant of Accepted: a digest that differs is only warned about
AcceptedAnyway(same, digest) == TRUE

\* Only a digest that is to be had and differs stops the update.
Accepted(same, digest) == same \/ ~digest

\* download_artifact: what arrives may differ from what was published, and the
\* published digests may be out of reach.
Download(p) ==
  /\ pc[p] = "download"
  /\ \/ Goto(p, "off") /\ UNCHANGED <<artifact, unchecked>>
     \/ \E same, digest \in BOOLEAN :
          /\ artifact' = [artifact EXCEPT ![p].genuine = same]
          /\ unchecked' = (unchecked \/ ~digest)
          /\ Goto(p, IF Accepted(same, digest) THEN "install" ELSE "off")
  /\ UNCHANGED <<database, installed, genuine, downgraded, published, runs, todo, target, counters>>

\* install_release: pip fails or replaces the package; then the migrations.
Install(p) ==
  /\ pc[p] = "install"
  /\ \/ Goto(p, "off") /\ UNCHANGED disk
     \/ /\ installed' = artifact[p].release /\ genuine' = artifact[p].genuine
        /\ downgraded' = (downgraded \/ artifact[p].release < installed)
        /\ UNCHANGED unchecked /\ Goto(p, "look")
  /\ UNCHANGED <<database, published, runs, todo, target, artifact, counters>>

PerformUpgrade(p) == Check(p) \/ Download(p) \/ Install(p)

-----------------------------------------------------------------------------
(* The processes.                                                          *)

Launch(p, c) == pc[p] = "off" /\ Goto(p, c) /\ runs' = [runs EXCEPT ![p] = installed]

\* The daemon is started by hand or by its supervisor.
StartDaemon ==
  /\ Launch(Daemon, "look")
  /\ UNCHANGED <<database, disk, published, todo, target, artifact, counters>>

RunCommand(p) ==
  /\ p \in Tool /\ tools < MaxTool /\ tools' = tools + 1
  /\ \/ \E v \in Release : Launch(p, "look") /\ target' = [target EXCEPT ![p] = v]
     \/ \E c \in {"check", "forced"} :
          Launch(p, c) /\ target' = [target EXCEPT ![p] = Last]
  /\ UNCHANGED <<database, disk, published, todo, artifact, crashes>>

\* A process is killed or stopped; SQLite undoes what it had not committed.
Crash(p) ==
  /\ pc[p] # "off" /\ crashes < MaxCrash /\ crashes' = crashes + 1 /\ Goto(p, "off")
  /\ UNCHANGED <<database, disk, published, runs, todo, target, artifact, tools>>

Publish ==
  /\ published < Last /\ published' = published + 1
  /\ UNCHANGED <<database, disk, pc, runs, todo, target, artifact, counters>>

Next ==
  \/ StartDaemon \/ Publish
  \/ \E p \in Process : Migrate(p) \/ PerformUpgrade(p) \/ RunCommand(p) \/ Crash(p)

Spec == Init /\ [][Next]_vars

\* A process that runs takes its steps; a supervisor starts the daemon again.
Fairness ==
  /\ WF_vars(StartDaemon)
  /\ \A p \in Process : WF_vars(Migrate(p)) /\ WF_vars(PerformUpgrade(p))

FairSpec == Spec /\ Fairness

-----------------------------------------------------------------------------
(* Properties.                                                             *)

\* What schema_migrations records is exactly what was done to the database, in
\* order and without a gap, but for a database from before there were records;
\* whichever processes raced or died: apply_migration is one transaction.
SchemaMatchesLog ==
  /\ schema = log \/ (log = {} /\ schema = {1})
  /\ \A v \in log : 1..v \subseteq log

\* A daemon that serves has every column its code uses, although the release on
\* the disk, and the migrations with it, change under it: a daemon whose migrations
\* fail does not come up.  (Unless an update that had looked at GitHub earlier put
\* an older release in the place of a newer one.)
ServesItsSchema ==
  pc[Daemon] = "serving" /\ ~downgraded => 1..runs[Daemon] \subseteq log

\* What is installed is what was published, unless its digest was out of reach:
\* download_artifact goes on without it.
InstalledIsVerified == genuine \/ unchecked

\* The daemon serves again and again: no migration left half done, and no race
\* lost, keeps it from coming up for good.
ServesAgain == []<>(pc[Daemon] = "serving")
=============================================================================
