---------------------------- MODULE UpgradeProofs ----------------------------
(***************************************************************************)
(* However many processes there are, and releases and crashes, the records *)
(* of migrations are those of the database, a daemon serves only what its  *)
(* code can use, and nothing is installed that contradicts its digest.     *)
(***************************************************************************)
EXTENDS Upgrade, TLAPS

-----------------------------------------------------------------------------
(* Types.                                                                  *)

\* The steps of one process keep the types.
LEMMA StepTypes ==
  ASSUME TypeOK, NEW p \in Process,
         Migrate(p) \/ PerformUpgrade(p) \/ RunCommand(p) \/ Crash(p)
  PROVE  TypeOK'
<1> USE UpgradeAssumption
<1>1. CASE Look(p) BY <1>1 DEF Look, Goto, TypeOK, Control, vars, database, disk, counters
<1>2. CASE Find(p) BY <1>2 DEF Find, Goto, TypeOK, Control, vars, database, disk, counters
<1>3. CASE Baseline(p)
  <2>1. 1 \in Release
    BY DEF Release
  <2> QED
    BY <1>3, <2>1 DEF Baseline, Failed, Goto, TypeOK, Control, database, disk, counters
<1>4. CASE ReadPending(p)
  <2>1. todo'[p] \subseteq Release
    BY <1>4 DEF ReadPending, TypeOK, Release
  <2>2. todo' \in [Process -> SUBSET Release]
    BY <1>4, <2>1 DEF ReadPending, TypeOK
  <2> QED
    BY <1>4, <2>2 DEF ReadPending, Migrated, Goto, TypeOK, Control, database, disk, counters
<1>5. CASE ApplyMigration(p)
  <2>1. PICK v \in todo[p] : IsNext(v, p) /\ ApplyNext(p, v)
    BY <1>5 DEF ApplyMigration
  <2>2. v \in Release
    BY DEF TypeOK
  <2>3. todo' \in [Process -> SUBSET Release]
    BY <2>1, <2>2 DEF ApplyNext, TypeOK
  <2> QED
    BY <1>5, <2>1, <2>2, <2>3
       DEF ApplyMigration, ApplyNext, Failed, Migrated, Goto, TypeOK, Control, disk, counters
<1>6. CASE Check(p) BY <1>6 DEF Check, Goto, TypeOK, Control, database, disk, counters
<1>7. CASE Download(p)
  <2>1. artifact' \in [Process -> [release : Release, genuine : BOOLEAN]]
    BY <1>7 DEF Download, TypeOK
  <2>2. unchecked' \in BOOLEAN
    BY <1>7 DEF Download, TypeOK
  <2>3. pc' \in [Process -> Control]
    BY <1>7 DEF Download, Goto, TypeOK, Control
  <2> QED
    BY <1>7, <2>1, <2>2, <2>3 DEF Download, TypeOK, database, counters
<1>8. CASE Install(p) BY <1>8 DEF Install, Goto, TypeOK, Control, database, disk, counters
<1>9. CASE RunCommand(p)
  <2>1. Last \in Release
    BY DEF Release
  <2>2. target' \in [Process -> Release] /\ runs' \in [Process -> Release]
    BY <1>9, <2>1 DEF RunCommand, Launch, TypeOK
  <2>3. pc' \in [Process -> Control]
    BY <1>9 DEF RunCommand, Launch, Goto, TypeOK, Control
  <2>4. tools' \in 0..MaxTool
    BY <1>9 DEF RunCommand, TypeOK
  <2> QED
    BY <1>9, <2>2, <2>3, <2>4 DEF RunCommand, TypeOK, database, disk
<1>10. CASE Crash(p) BY <1>10 DEF Crash, Goto, TypeOK, Control, database, disk
<1> QED
  BY <1>1, <1>2, <1>3, <1>4, <1>5, <1>6, <1>7, <1>8, <1>9, <1>10 DEF Migrate, PerformUpgrade

\* The initial states have them.
LEMMA InitTypes == Init => TypeOK
<1> SUFFICES ASSUME Init PROVE TypeOK
  OBVIOUS
<1>1. Last \in Release /\ 1 \in Release
  BY UpgradeAssumption DEF Release
<1>2. log \subseteq Release /\ schema \subseteq Release
  BY <1>1 DEF Init, Release
<1>3. /\ pc \in [Process -> Control] /\ runs \in [Process -> Release]
      /\ todo \in [Process -> SUBSET Release] /\ target \in [Process -> Release]
      /\ installed \in Release /\ published \in Release
  BY <1>1 DEF Init, Control
<1>4. artifact \in [Process -> [release : Release, genuine : BOOLEAN]]
  BY DEF Init
<1>5. {genuine, unchecked, downgraded} \subseteq BOOLEAN
  BY DEF Init
<1>6. tools \in 0..MaxTool /\ crashes \in 0..MaxCrash
  BY UpgradeAssumption DEF Init
<1> QED
  BY <1>2, <1>3, <1>4, <1>5, <1>6 DEF TypeOK

\* Every step keeps them.
LEMMA NextTypes == TypeOK /\ [Next]_vars => TypeOK'
<1> SUFFICES ASSUME TypeOK, [Next]_vars PROVE TypeOK'
  OBVIOUS
<1>1. CASE StartDaemon
  BY <1>1 DEF StartDaemon, Launch, Goto, TypeOK, Control, Process, database, disk, counters
<1>2. CASE Publish
  BY <1>2, UpgradeAssumption DEF Publish, TypeOK, Release, database, disk, counters
<1>3. CASE \E p \in Process : Migrate(p) \/ PerformUpgrade(p) \/ RunCommand(p) \/ Crash(p)
  BY <1>3, StepTypes
<1>4. CASE UNCHANGED vars
  BY <1>4 DEF vars, TypeOK, database, disk, counters
<1> QED
  BY <1>1, <1>2, <1>3, <1>4 DEF Next

\* Every variable keeps its type.
THEOREM TypeCorrect == Spec => []TypeOK
BY InitTypes, NextTypes, PTL DEF Spec

-----------------------------------------------------------------------------
(* Schema and records.                                                     *)

\* A process about to record the baseline saw the table of messages.  One that
\* read what is pending, or will, does so on a database with records or without
\* tables; what it has still to apply leaves no gap below any of it, whatever
\* other processes apply meanwhile.
Migrating ==
  \A p \in Process :
    /\ pc[p] = "baseline" => 1 \in schema
    /\ pc[p] \in {"read", "apply"} => schema = log
    /\ pc[p] = "apply" => \A v \in todo[p] : \A w \in 1..v : w \in todo[p] \/ w \in log

SchemaInv == TypeOK /\ SchemaMatchesLog /\ Migrating

\* It holds initially: nobody migrates, and the database is one users have.
LEMMA InitSchemaInv == Init => SchemaInv
<1> SUFFICES ASSUME Init PROVE SchemaMatchesLog /\ Migrating
  BY InitTypes DEF SchemaInv
<1>1. Migrating
  BY DEF Init, Migrating
<1>2. SchemaMatchesLog
  <2>1. CASE log = {} /\ schema \in {{}, {1}}
    BY <2>1 DEF SchemaMatchesLog
  <2>2. CASE \E v \in 1..installed : log = 1..v /\ schema = 1..v
    <3>1. PICK v \in 1..installed : log = 1..v /\ schema = 1..v
      BY <2>2
    <3>2. v \in Nat /\ \A w \in 1..v : 1..w \subseteq 1..v
      BY UpgradeAssumption DEF Init, Release
    <3> QED
      BY <3>1, <3>2 DEF SchemaMatchesLog
  <2> QED
    BY <2>1, <2>2 DEF Init
<1> QED
  BY <1>1, <1>2

\* Recording the baseline makes records of a database that had only tables.
LEMMA BaselineSchema ==
  ASSUME SchemaInv, NEW p \in Process, Baseline(p)
  PROVE  SchemaMatchesLog' /\ Migrating'
<1>1. CASE 1 \in log
  BY <1>1 DEF Baseline, Failed, Goto, SchemaInv, SchemaMatchesLog, Migrating, TypeOK
<1>2. CASE 1 \notin log
  <2>1. log = {} /\ schema = {1}
    <3>1. \A v \in log : 1 \in 1..v
      BY DEF SchemaInv, TypeOK, Release
    <3>2. log = {}
      BY <3>1, <1>2 DEF SchemaInv, SchemaMatchesLog
    <3> QED
      BY <3>2 DEF Baseline, SchemaInv, SchemaMatchesLog, Migrating
  <2>2. log' = {1} /\ schema' = {1} /\ todo' = todo
    BY <1>2, <2>1 DEF Baseline
  <2>3. SchemaMatchesLog'
    BY <2>2 DEF SchemaMatchesLog
  <2>4. Migrating'
    BY <1>2, <2>1, <2>2 DEF Baseline, Goto, SchemaInv, Migrating, TypeOK
  <2> QED
    BY <2>3, <2>4
<1> QED
  BY <1>1, <1>2

\* What is pending is read whole.
LEMMA ReadSchema ==
  ASSUME SchemaInv, NEW p \in Process, ReadPending(p)
  PROVE  SchemaMatchesLog' /\ Migrating'
<1>1. SchemaMatchesLog'
  BY DEF ReadPending, database, SchemaInv, SchemaMatchesLog
<1>2. \A v \in todo'[p] : \A w \in 1..v : w \in todo'[p] \/ w \in log
  <2> SUFFICES ASSUME NEW v \in todo'[p], NEW w \in 1..v, w \notin log PROVE w \in todo'[p]
    OBVIOUS
  <2>1. todo'[p] = {x \in 1..installed : x \notin log /\ x <= target[p]}
    BY DEF ReadPending, SchemaInv, TypeOK
  <2>2. installed \in Nat /\ target[p] \in Nat
    BY UpgradeAssumption DEF SchemaInv, TypeOK, Release
  <2> QED
    BY <2>1, <2>2
<1>3. Migrating'
  BY <1>2 DEF ReadPending, Migrated, Goto, database, SchemaInv, Migrating, TypeOK
<1> QED
  BY <1>1, <1>3

\* The least pending migration follows those that are recorded.
LEMMA ApplySchema ==
  ASSUME SchemaInv, NEW p \in Process, ApplyMigration(p)
  PROVE  SchemaMatchesLog' /\ Migrating'
<1>1. PICK v \in todo[p] : IsNext(v, p) /\ ApplyNext(p, v)
  BY DEF ApplyMigration
<1>2. v \in Nat /\ v \in Release /\ todo[p] \subseteq Nat
  BY UpgradeAssumption DEF SchemaInv, TypeOK, Release
<1>3. CASE UNCHANGED <<log, schema, todo>> /\ Failed(p)
  BY <1>3 DEF Failed, Goto, SchemaInv, SchemaMatchesLog, Migrating, TypeOK
<1>4. CASE /\ log' = log \cup {v} /\ schema' = schema \cup {v}
           /\ todo' = [todo EXCEPT ![p] = @ \ {v}]
           /\ Goto(p, IF todo[p] = {v} THEN Migrated(p) ELSE "apply")
  <2>1. schema = log /\ \A w \in 1..v : w \in todo[p] \/ w \in log
    BY <1>1 DEF ApplyMigration, SchemaInv, Migrating
  <2>2. \A w \in 1..v : w = v \/ w \in log
    BY <1>1, <1>2, <2>1 DEF IsNext
  <2>3. SchemaMatchesLog'
    BY <1>4, <2>1, <2>2 DEF SchemaInv, SchemaMatchesLog
  <2>4. todo'[p] = todo[p] \ {v} /\ \A q \in Process : q # p => todo'[q] = todo[q]
    BY <1>4 DEF SchemaInv, TypeOK
  <2>5. schema' = log' /\ log \subseteq log' /\ v \in log'
    BY <1>4, <2>1
  <2>6. pc[p] = "apply" /\ \A q \in Process : q # p => pc'[q] = pc[q]
    BY <1>4 DEF ApplyMigration, Goto, SchemaInv, TypeOK
  <2>7. \A q \in Process : pc'[q] = "baseline" => q # p
    BY <1>4 DEF Goto, Migrated, SchemaInv, TypeOK
  <2>8. Migrating'
    BY <2>4, <2>5, <2>6, <2>7, <1>4 DEF SchemaInv, Migrating
  <2> QED
    BY <2>3, <2>8
<1> QED
  BY <1>1, <1>3, <1>4 DEF ApplyNext

\* It is inductive: only three steps touch the records or rely on them anew.
LEMMA NextSchemaInv == SchemaInv /\ [Next]_vars => SchemaInv'
<1> SUFFICES ASSUME SchemaInv, [Next]_vars PROVE SchemaMatchesLog' /\ Migrating'
  BY NextTypes DEF SchemaInv
<1>1. CASE StartDaemon
  BY <1>1 DEF StartDaemon, Launch, Goto, database, SchemaInv, SchemaMatchesLog, Migrating, TypeOK
<1>2. CASE Publish
  BY <1>2 DEF Publish, database, SchemaInv, SchemaMatchesLog, Migrating
<1>3. ASSUME NEW p \in Process, Migrate(p) \/ PerformUpgrade(p) \/ RunCommand(p) \/ Crash(p)
      PROVE SchemaMatchesLog' /\ Migrating'
  <2>1. CASE Look(p)
    BY <2>1 DEF Look, Goto, database, SchemaInv, SchemaMatchesLog, Migrating, TypeOK
  <2>2. CASE Find(p)
    BY <2>2 DEF Find, Goto, database, SchemaInv, SchemaMatchesLog, Migrating, TypeOK
  <2>3. CASE Baseline(p)
    BY <2>3, BaselineSchema
  <2>4. CASE ReadPending(p)
    BY <2>4, ReadSchema
  <2>5. CASE ApplyMigration(p)
    BY <2>5, ApplySchema
  <2>6. CASE Check(p)
    BY <2>6 DEF Check, Goto, database, SchemaInv, SchemaMatchesLog, Migrating, TypeOK
  <2>7. CASE Download(p)
    BY <2>7 DEF Download, Goto, database, SchemaInv, SchemaMatchesLog, Migrating, TypeOK
  <2>8. CASE Install(p)
    BY <2>8 DEF Install, Goto, database, SchemaInv, SchemaMatchesLog, Migrating, TypeOK
  <2>9. CASE RunCommand(p)
    BY <2>9 DEF RunCommand, Launch, Goto, database, SchemaInv, SchemaMatchesLog, Migrating, TypeOK
  <2>10. CASE Crash(p)
    BY <2>10 DEF Crash, Goto, database, SchemaInv, SchemaMatchesLog, Migrating, TypeOK
  <2> QED
    BY <1>3, <2>1, <2>2, <2>3, <2>4, <2>5, <2>6, <2>7, <2>8, <2>9, <2>10 DEF Migrate, PerformUpgrade
<1>4. CASE UNCHANGED vars
  BY <1>4 DEF vars, database, SchemaInv, SchemaMatchesLog, Migrating
<1> QED
  BY <1>1, <1>2, <1>3, <1>4 DEF Next

\* The records are those of the database, in order and without a gap.
THEOREM SchemaIsRecorded == Spec => []SchemaMatchesLog
<1>1. SchemaInv => SchemaMatchesLog
  BY DEF SchemaInv
<1> QED
  BY <1>1, InitSchemaInv, NextSchemaInv, PTL DEF Spec

-----------------------------------------------------------------------------
(* The daemon and its schema.                                              *)

\* Unless an older release came in place of a newer one, the release the daemon
\* was started with is on the disk or was overtaken there; the daemon has no target
\* short of the latest migration, so it applies or found applied all it needs.
Serving ==
  /\ target[Daemon] = Last
  /\ ~downgraded =>
       /\ runs[Daemon] <= installed
       /\ pc[Daemon] = "apply" => \A w \in 1..runs[Daemon] : w \in todo[Daemon] \/ w \in log
       /\ pc[Daemon] = "serving" => 1..runs[Daemon] \subseteq log

\* The release of a process is a release, as is what is on the disk.
LEMMA ReleaseNumbers ==
  ASSUME TypeOK
  PROVE  /\ \A p \in Process : runs[p] \in Nat /\ runs[p] <= Last
         /\ installed \in Nat /\ Last \in Nat /\ Daemon \in Process
BY UpgradeAssumption DEF TypeOK, Release, Process

\* It holds initially.
LEMMA InitServing == Init => Serving
BY InitTypes, ReleaseNumbers DEF Init, Serving

\* What is done to another process, or to none, leaves the daemon as it was, and
\* what it relied on: records are added only, and releases replaced by newer ones.
LEMMA ServingKept ==
  ASSUME TypeOK, Serving,
         pc'[Daemon] \in {pc[Daemon], "off", "look", "find", "baseline", "read"},
         runs'[Daemon] = runs[Daemon], todo'[Daemon] = todo[Daemon],
         target'[Daemon] = target[Daemon], log \subseteq log',
         ~downgraded' => ~downgraded /\ installed <= installed',
         installed' \in Nat
  PROVE  Serving'
<1>1. ~downgraded' => runs'[Daemon] <= installed'
  BY ReleaseNumbers DEF Serving
<1> QED
  BY <1>1 DEF Serving

\* The daemon reads all its code needs as pending, or has it.
LEMMA ReadServing ==
  ASSUME TypeOK, Serving, ReadPending(Daemon)
  PROVE  Serving'
<1>1. todo'[Daemon] = {v \in 1..installed : v \notin log /\ v <= Last}
  BY ReleaseNumbers DEF ReadPending, Serving, TypeOK
<1>2. UNCHANGED <<log, downgraded, installed, runs, target>>
  BY DEF ReadPending, database, disk
<1>3. ~downgraded => \A w \in 1..runs[Daemon] : w \in todo'[Daemon] \/ w \in log
  BY <1>1, ReleaseNumbers DEF Serving
<1>4. pc'[Daemon] = "serving" => todo'[Daemon] = {}
  BY ReleaseNumbers DEF ReadPending, Goto, TypeOK
<1> QED
  BY <1>2, <1>3, <1>4 DEF Serving

\* What the daemon applies moves from what is pending to what is recorded.
LEMMA ApplyServing ==
  ASSUME TypeOK, Serving, ApplyMigration(Daemon)
  PROVE  Serving'
<1>1. PICK v \in todo[Daemon] : ApplyNext(Daemon, v)
  BY DEF ApplyMigration
<1>2. UNCHANGED <<downgraded, installed, runs, target>> /\ pc[Daemon] = "apply"
  BY DEF ApplyMigration, disk
<1>3. CASE UNCHANGED <<log, schema, todo>> /\ Failed(Daemon)
  BY <1>2, <1>3, ReleaseNumbers DEF Failed, Goto, Serving, TypeOK
<1>4. CASE /\ log' = log \cup {v} /\ todo' = [todo EXCEPT ![Daemon] = @ \ {v}]
           /\ Goto(Daemon, IF todo[Daemon] = {v} THEN Migrated(Daemon) ELSE "apply")
  <2>1. todo'[Daemon] = todo[Daemon] \ {v}
    BY <1>4, ReleaseNumbers DEF TypeOK
  <2>2. ~downgraded => \A w \in 1..runs[Daemon] : w \in todo'[Daemon] \/ w \in log'
    BY <1>2, <1>4, <2>1 DEF Serving
  <2>3. pc'[Daemon] = "serving" => todo'[Daemon] = {}
    BY <1>4, <2>1, ReleaseNumbers DEF Goto, TypeOK
  <2> QED
    BY <1>2, <2>2, <2>3 DEF Serving
<1> QED
  BY <1>1, <1>3, <1>4 DEF ApplyNext

\* The daemon starts with the release on the disk.
LEMMA StartServing ==
  ASSUME TypeOK, Serving, StartDaemon
  PROVE  Serving'
<1>1. runs'[Daemon] = installed /\ pc'[Daemon] = "look"
  BY ReleaseNumbers DEF StartDaemon, Launch, Goto, TypeOK
<1> QED
  BY <1>1, ReleaseNumbers DEF StartDaemon, database, disk, Serving

\* It is inductive, given the types.
LEMMA NextServing == TypeOK /\ Serving /\ [Next]_vars => Serving'
<1> SUFFICES ASSUME TypeOK, Serving, [Next]_vars PROVE Serving'
  OBVIOUS
<1> USE ReleaseNumbers
<1>1. CASE StartDaemon
  BY <1>1, StartServing
<1>2. CASE Publish
  BY <1>2, ServingKept DEF Publish, database, disk
<1>3. ASSUME NEW p \in Process, Migrate(p) \/ PerformUpgrade(p) \/ RunCommand(p) \/ Crash(p)
      PROVE Serving'
  <2>1. CASE Look(p)
    BY <2>1, ServingKept DEF Look, Goto, database, disk, TypeOK
  <2>2. CASE Find(p)
    BY <2>2, ServingKept DEF Find, Goto, database, disk, TypeOK
  <2>3. CASE Baseline(p)
    BY <2>3, ServingKept DEF Baseline, Failed, Goto, disk, TypeOK
  <2>4. CASE ReadPending(p)
    <3>1. CASE p = Daemon
      BY <2>4, <3>1, ReadServing
    <3>2. CASE p # Daemon
      BY <2>4, <3>2, ServingKept DEF ReadPending, Goto, database, disk, TypeOK
    <3> QED
      BY <3>1, <3>2
  <2>5. CASE ApplyMigration(p)
    <3>1. CASE p = Daemon
      BY <2>5, <3>1, ApplyServing
    <3>2. CASE p # Daemon
      BY <2>5, <3>2, ServingKept DEF ApplyMigration, ApplyNext, Failed, Goto, disk, TypeOK
    <3> QED
      BY <3>1, <3>2
  <2>6. CASE Check(p)
    BY <2>6 DEF Check, Goto, database, disk, Serving, TypeOK
  <2>7. CASE Download(p)
    BY <2>7 DEF Download, Goto, database, Serving, TypeOK
  <2>8. CASE Install(p)
    <3>1. installed' \in Nat /\ (~downgraded' => ~downgraded /\ installed <= installed')
      <4>1. artifact[p].release \in Nat
        BY UpgradeAssumption DEF TypeOK, Release
      <4>2. CASE UNCHANGED disk
        BY <4>2 DEF disk
      <4>3. CASE /\ installed' = artifact[p].release
                 /\ downgraded' = (downgraded \/ artifact[p].release < installed)
        <5>1. ~downgraded' => ~downgraded /\ ~(artifact[p].release < installed)
          BY <4>3
        <5> QED
          BY <4>1, <4>3, <5>1
      <4> QED
        BY <2>8, <4>2, <4>3 DEF Install
    <3> QED
      BY <2>8, <3>1, ServingKept DEF Install, Goto, database, TypeOK
  <2>9. CASE RunCommand(p)
    <3>1. p # Daemon
      BY <2>9, UpgradeAssumption DEF RunCommand
    <3> QED
      BY <2>9, <3>1, ServingKept DEF RunCommand, Launch, Goto, database, disk, TypeOK
  <2>10. CASE Crash(p)
    BY <2>10, ServingKept DEF Crash, Goto, database, disk, TypeOK
  <2> QED
    BY <1>3, <2>1, <2>2, <2>3, <2>4, <2>5, <2>6, <2>7, <2>8, <2>9, <2>10 DEF Migrate, PerformUpgrade
<1>4. CASE UNCHANGED vars
  BY <1>4 DEF vars, database, disk, Serving
<1> QED
  BY <1>1, <1>2, <1>3, <1>4 DEF Next

\* A daemon that serves has every column its code uses.
THEOREM DaemonServesItsSchema == Spec => []ServesItsSchema
<1>1. Init => TypeOK /\ Serving
  BY InitTypes, InitServing
<1>2. (TypeOK /\ Serving) /\ [Next]_vars => (TypeOK /\ Serving)'
  BY NextTypes, NextServing
<1>3. TypeOK /\ Serving => ServesItsSchema
  BY DEF Serving, ServesItsSchema
<1> QED
  BY <1>1, <1>2, <1>3, PTL DEF Spec

-----------------------------------------------------------------------------
(* Digests.                                                                *)

\* What is about to be installed agrees with its digest, unless that was not to be had.
Verifying ==
  /\ InstalledIsVerified
  /\ \A p \in Process : pc[p] = "install" => artifact[p].genuine \/ unchecked

\* It is inductive, given the types.
LEMMA NextVerifying == TypeOK /\ Verifying /\ [Next]_vars => Verifying'
<1> SUFFICES ASSUME TypeOK, Verifying, [Next]_vars PROVE Verifying'
  OBVIOUS
<1> USE DEF InstalledIsVerified, Verifying
<1>1. CASE StartDaemon
  BY <1>1 DEF StartDaemon, Launch, Goto, disk, TypeOK
<1>2. CASE Publish
  BY <1>2 DEF Publish, disk
<1>3. ASSUME NEW p \in Process, Migrate(p) \/ PerformUpgrade(p) \/ RunCommand(p) \/ Crash(p)
      PROVE Verifying'
  <2>1. CASE Migrate(p)
    <3>1. UNCHANGED <<disk, artifact>> /\ \A q \in Process : pc'[q] = "install" => pc[q] = "install"
      BY <2>1 DEF Migrate, Look, Find, Baseline, ReadPending, ApplyMigration, ApplyNext,
                  Failed, Migrated, Goto, TypeOK
    <3> QED
      BY <3>1 DEF disk
  <2>2. CASE Check(p)
    <3>1. \A q \in Process : pc'[q] = "install" => q # p /\ pc[q] = "install"
      BY <2>2 DEF Check, Goto, TypeOK
    <3>2. \A q \in Process : q # p => artifact'[q] = artifact[q]
      BY <2>2 DEF Check, TypeOK
    <3> QED
      BY <2>2, <3>1, <3>2 DEF Check, disk
  <2>3. CASE Download(p)
    <3>1. CASE Goto(p, "off") /\ UNCHANGED <<artifact, unchecked>>
      BY <2>3, <3>1 DEF Download, Goto, TypeOK
    <3>2. ASSUME NEW same \in BOOLEAN, NEW digest \in BOOLEAN,
                 artifact' = [artifact EXCEPT ![p].genuine = same],
                 unchecked' = (unchecked \/ ~digest),
                 Goto(p, IF Accepted(same, digest) THEN "install" ELSE "off")
          PROVE Verifying'
      <4>1. artifact'[p].genuine = same /\ \A q \in Process : q # p => artifact'[q] = artifact[q]
        BY <3>2 DEF TypeOK
      <4>2. pc'[p] = "install" => same \/ ~digest
        BY <3>2 DEF Accepted, Goto, TypeOK
      <4>3. \A q \in Process : q # p => pc'[q] = pc[q]
        BY <3>2 DEF Goto, TypeOK
      <4>4. \A q \in Process : pc'[q] = "install" => artifact'[q].genuine \/ unchecked'
        BY <3>2, <4>1, <4>2, <4>3
      <4> QED
        BY <2>3, <3>2, <4>4 DEF Download
    <3> QED
      BY <2>3, <3>1, <3>2 DEF Download
  <2>4. CASE Install(p)
    <3>1. \A q \in Process : pc'[q] = "install" => q # p /\ pc[q] = "install"
      BY <2>4 DEF Install, Goto, TypeOK
    <3> QED
      BY <2>4, <3>1 DEF Install, disk
  <2>5. CASE RunCommand(p)
    BY <2>5 DEF RunCommand, Launch, Goto, disk, TypeOK
  <2>6. CASE Crash(p)
    BY <2>6 DEF Crash, Goto, disk, TypeOK
  <2> QED
    BY <1>3, <2>1, <2>2, <2>3, <2>4, <2>5, <2>6 DEF PerformUpgrade
<1>4. CASE UNCHANGED vars
  BY <1>4 DEF vars, disk
<1> QED
  BY <1>1, <1>2, <1>3, <1>4 DEF Next

\* What is installed is what was published, or its digest was out of reach.
THEOREM InstallationIsVerified == Spec => []InstalledIsVerified
<1>1. Init => TypeOK /\ Verifying
  BY InitTypes DEF Init, Verifying, InstalledIsVerified
<1>2. (TypeOK /\ Verifying) /\ [Next]_vars => (TypeOK /\ Verifying)'
  BY NextTypes, NextVerifying
<1>3. TypeOK /\ Verifying => InstalledIsVerified
  BY DEF Verifying
<1> QED
  BY <1>1, <1>2, <1>3, PTL DEF Spec
=============================================================================
