-------------------------- MODULE FirmwareOtaProofs --------------------------
(***************************************************************************)
(* However many files, releases, updates and faults there are: as long as  *)
(* no update was left half done, the flash holds a whole release or what   *)
(* it takes to restore one, and a rollback restores it.                    *)
(***************************************************************************)
EXTENDS FirmwareOta, TLAPS

-----------------------------------------------------------------------------
(* Types.                                                                  *)

Activating == {"applying", "copying", "swapping", "renaming"}
RollingBack == {"recording", "restoring", "refilling"}
Updating == {"staging", "announcing", "purging"} \cup Activating

\* The types, with what an activity has always set before it begins.
Typed ==
  /\ TypeOK
  /\ {active, staged, backup} \subseteq [File -> Contents]
  /\ pc \in Updating \cup RollingBack => target \in Release
  /\ pc \in Updating \cup {"running"} => running # None
  /\ pc \in {"copying", "swapping", "renaming", "refilling"} => cur \in File

-----------------------------------------------------------------------------
(* The flash.                                                              *)

Current == active[Version]

\* What it takes to put release v back in place of w: the files both have are backed
\* up, or restored already.
Recoverable(v, w) ==
  \A f \in Bundle[v] :
    IF f \in Bundle[w]
    THEN backup[f] = v \/ (backup[f] = None /\ active[f] = v)
    ELSE active[f] = v

\* An update that is pending can be undone, from before its first boot until it is
\* confirmed or overwritten by the next one.
Undoable ==
  /\ IsPending /\ pc \in {"off", "booting", "starting", "running", "staging"} \cup RollingBack
       => pending.previous \in Release /\ Recoverable(pending.previous, pending.version)
  /\ pc \in RollingBack =>
       /\ IsPending /\ pending.attempts = 1
       /\ target = pending.version /\ running = None /\ todo \subseteq Bundle[target]
       /\ pc = "refilling" => cur \in todo /\ backup[cur] # None
       /\ pc # "recording" => failed = target \/ unrecorded
       /\ \A f \in Bundle[pending.previous] \cap Bundle[target] :
            f \in todo \/ (backup[f] = None /\ active[f] = pending.previous)

\* One whole release is in place, unless it is being replaced or restored, or the next
\* power-on takes up a rollback.
Settled ==
  \/ Current \in Release /\ Whole(Current)
  \/ pc \in Activating \cup RollingBack
  \/ pc \in {"off", "booting"} /\ IsPending /\ pending.attempts = 1

\* Files that are staged are those of the target; what is running is on the flash.
Staging ==
  /\ pc \in {"staging", "announcing"} => \A f \in Bundle[target] : staged[f] = target \/ f \in todo
  /\ pc = "announcing" => todo = {} /\ pending = Partial
  /\ pc \in {"running", "staging", "announcing", "purging"} => running = Current
  /\ pc \in {"off", "booting", "starting"} => running = None

\* Each file of the target is staged and the old one in place, or it is active and the
\* old one backed up; the file at hand is on the way.
Activation ==
  pc \in Activating =>
    /\ IsPending /\ target = pending.version /\ pending.previous \in Release
    /\ todo \subseteq Bundle[target]
    /\ \A f \in Bundle[target] :
         IF f \in todo THEN staged[f] = target ELSE active[f] = target
    /\ \A f \in Bundle[pending.previous] :
         IF f \in Bundle[target] \ todo
         THEN backup[f] = pending.previous
         ELSE active[f] = pending.previous \/ (pc = "renaming" /\ f = cur)
    /\ pc # "applying" => cur \in todo
    /\ pc \in {"swapping", "renaming"} /\ cur \in Bundle[pending.previous]
         => backup[cur] = pending.previous

\* boot.py is there for the next power-on, but for the moment it is replaced.
BootThere ==
  \/ active[Boot] \in Release
  \/ active[Boot] = None /\ pc \in {"renaming", "refilling"} /\ cur = Boot

FlashInv == ~cut => Undoable /\ Settled /\ Staging /\ Activation /\ BootThere /\ pc # "dead"

\* It implies what the run checks of every state.
LEMMA FlashInvSuffices == Typed /\ FlashInv => FlashIsSound
<1> SUFFICES ASSUME Typed, FlashInv, ~cut PROVE
      /\ ~IsPending => \E v \in Release : Whole(v)
      /\ \A f \in {Boot, Main, Version} : {active[f], backup[f]} \cap Release # {}
  BY DEF FlashIsSound
<1> USE FirmwareAssumption DEF FlashInv
<1>1. ~IsPending => Current \in Release /\ Whole(Current)
  BY DEF Settled, Activation, Undoable
<1>2. ASSUME NEW f \in {Boot, Main, Version} PROVE {active[f], backup[f]} \cap Release # {}
  <2>1. \A v \in Release : f \in Bundle[v]
    OBVIOUS
  <2>2. CASE Current \in Release /\ Whole(Current)
    BY <2>1, <2>2 DEF Whole
  <2>3. CASE pc \in RollingBack \/ (pc \in {"off", "booting"} /\ IsPending)
    <3>1. pending.previous \in Release /\ Recoverable(pending.previous, pending.version)
      BY <2>3 DEF Undoable, RollingBack
    <3> QED BY <2>1, <3>1 DEF Recoverable
  <2>4. CASE pc \in Activating
    <3>1. pending.previous \in Release /\ target \in Release
      BY <2>4 DEF Activation, Typed, Updating
    <3>2. CASE f \in todo /\ ~(pc = "renaming" /\ f = cur)
      BY <2>1, <2>4, <3>1, <3>2 DEF Activation
    <3>3. CASE f \notin todo
      BY <2>1, <2>4, <3>1, <3>3 DEF Activation
    <3>4. CASE pc = "renaming" /\ f = cur
      BY <2>1, <2>4, <3>1, <3>4 DEF Activation
    <3> QED BY <3>2, <3>3, <3>4
  <2> QED BY <2>2, <2>3, <2>4 DEF Settled
<1> QED BY <1>1, <1>2

\* Initially the first release is in place.
LEMMA InitFlashInv == Init => Typed /\ FlashInv
<1> SUFFICES ASSUME Init PROVE Typed /\ FlashInv
  OBVIOUS
<1> USE FirmwareAssumption DEF Init, Activating, RollingBack, Updating
<1>1. 1 \in Release /\ Current = 1 /\ Whole(1) /\ active[Boot] = 1
  BY DEF Release, Current, Whole
<1>2. Typed
  <2>1. {1, None} \subseteq Contents
    BY <1>1 DEF Contents
  <2>2. {active, staged, backup} \subseteq [File -> Contents]
    BY <2>1
  <2> QED BY <2>1, <2>2 DEF Typed, TypeOK
<1>3. FlashInv
  BY <1>1 DEF FlashInv, Undoable, Settled, Staging, Activation, BootThere, IsPending
<1> QED BY <1>2, <1>3

\* Every step keeps the types.
LEMMA NextTyped == Typed /\ [Next]_vars => Typed'
<1> SUFFICES ASSUME Typed, [Next]_vars PROVE Typed'
  OBVIOUS
<1> USE FirmwareAssumption
        DEF Typed, TypeOK, Activating, RollingBack, Updating, flash, records, IsPending
<1>1. CASE PowerOnSequence
  <2>1. CASE PowerOn
    BY <2>1 DEF PowerOn
  <2>2. CASE BootPending
    BY <2>2 DEF BootPending, Record
  <2>3. CASE BootUncounted
    BY <2>3 DEF BootUncounted
  <2>4. CASE BootRollback
    BY <2>4 DEF BootRollback, Record
  <2>5. CASE BootPlain
    BY <2>5 DEF BootPlain
  <2>6. CASE StartMain
    BY <2>6 DEF StartMain, Release
  <2> QED BY <1>1, <2>1, <2>2, <2>3, <2>4, <2>5, <2>6 DEF PowerOnSequence
<1>2. CASE Update
  <2>1. ASSUME NEW v \in Release, NEW force \in BOOLEAN, StartUpdate(v, force) PROVE Typed'
    BY <2>1 DEF StartUpdate, Contents
  <2>2. ASSUME NEW f \in File, StageFile(f) PROVE Typed'
    BY <2>2 DEF StageFile, Contents
  <2>3. ASSUME NEW f \in File, ActivateNew(f) \/ DropBackup(f) PROVE Typed'
    BY <2>3 DEF ActivateNew, DropBackup, Contents
  <2>4. CASE StageFails \/ OpenPending \/ AnnounceFails
    BY <2>4 DEF StageFails, OpenPending, AnnounceFails, Contents
  <2>5. CASE WritePending
    BY <2>5 DEF WritePending, Record
  <2>6. CASE CopyBackup \/ RemoveActive \/ RenameStaged
    BY <2>6 DEF CopyBackup, RemoveActive, RenameStaged, Contents
  <2>7. CASE ActivationFails
    BY <2>7 DEF ActivationFails, Contents
  <2>8. CASE Restart
    BY <2>8 DEF Restart
  <2> QED BY <1>2, <2>1, <2>2, <2>3, <2>4, <2>5, <2>6, <2>7, <2>8 DEF Update
<1>3. CASE Rollback
  <2>1. CASE RecordFailed
    BY <2>1 DEF RecordFailed
  <2>2. CASE RecordFails
    <3>1. unrecorded' \in BOOLEAN
      BY <2>2, Zenon DEF RecordFails
    <3> QED BY <2>2, <3>1 DEF RecordFails
  <2>3. ASSUME NEW f \in File, SkipFile(f) \/ RemoveFile(f) PROVE Typed'
    BY <2>3 DEF SkipFile, RemoveFile, Contents
  <2>4. CASE RestoreFile
    BY <2>4 DEF RestoreFile, Contents
  <2>5. CASE RestoreFails
    <3>1. cut' \in BOOLEAN
      BY <2>5, Zenon DEF RestoreFails
    <3> QED BY <2>5, <3>1 DEF RestoreFails
  <2>6. CASE EndRollback
    BY <2>6 DEF EndRollback
  <2> QED BY <1>3, <2>1, <2>2, <2>3, <2>4, <2>5, <2>6 DEF Rollback
<1>4. CASE Confirm
  <2>1. CASE StartConfirm
    BY <2>1 DEF StartConfirm, Record
  <2>2. CASE EndConfirm
    BY <2>2 DEF EndConfirm
  <2>3. ASSUME NEW f \in File, PurgeBackup(f) PROVE Typed'
    BY <2>3 DEF PurgeBackup, Contents
  <2> QED BY <1>4, <2>1, <2>2, <2>3 DEF Confirm
<1>5. CASE Reset
  <2>1. active' = active /\ staged' \in [File -> Contents] /\ backup' \in [File -> Contents]
    BY <1>5 DEF Reset, Contents
  <2>2. /\ pending' \in Record \cup {None, Partial} /\ failed' \in Release \cup {0}
        /\ unrecorded' \in BOOLEAN
    BY <1>5 DEF Reset
  <2>3. /\ pc' = "off" /\ running' = None /\ target' = 0 /\ todo' = {} /\ cur' = NoFile
        /\ cut' \in BOOLEAN
    BY <1>5 DEF Reset, HalfDone
  <2> QED BY <2>1, <2>2, <2>3
<1>6. CASE UNCHANGED vars
  BY <1>6 DEF vars
<1> QED BY <1>1, <1>2, <1>3, <1>4, <1>5, <1>6 DEF Next

\* Power-on takes up what is pending: it is counted, undone, or there is none.
LEMMA PowerOnFlash ==
  ASSUME Typed, FlashInv, PowerOnSequence, ~cut PROVE FlashInv'
<1> USE FirmwareAssumption
        DEF Typed, TypeOK, Activating, RollingBack, Updating, flash, records
<1>1. Undoable /\ Settled /\ Staging /\ Activation /\ BootThere
  BY DEF FlashInv
<1>2. CASE PowerOn
  <2>1. /\ UNCHANGED <<flash, records, running, target, todo, cur>> /\ pc' = "booting"
        /\ pc = "off"
    BY <1>1, <1>2 DEF PowerOn, BootThere
  <2> QED
    BY <1>1, <2>1 DEF FlashInv, Undoable, Settled, Staging, Activation, BootThere,
                      Recoverable, Whole, Current, IsPending
<1>3. CASE BootPending
  <2>1. /\ UNCHANGED <<flash, failed, running, target, todo, cur>> /\ pc' = "starting"
        /\ pc = "booting" /\ IsPending /\ pending.attempts = 0
        /\ pending' = [pending EXCEPT !.attempts = 1]
    BY <1>3 DEF BootPending
  <2>2. pending'.version = pending.version /\ pending'.previous = pending.previous
    BY <2>1 DEF IsPending, Record
  <2> QED
    BY <1>1, <2>1, <2>2 DEF FlashInv, Undoable, Settled, Staging, Activation, BootThere,
                            Recoverable, Whole, Current
<1>4. CASE BootRollback
  <2>1. /\ UNCHANGED <<flash, records, running, cur>> /\ pc' = "recording"
        /\ pc = "booting" /\ IsPending /\ pending.attempts = 1
        /\ target' = pending.version /\ todo' = Bundle[pending.version]
    BY <1>4 DEF BootRollback
  <2> QED
    BY <1>1, <2>1 DEF FlashInv, Undoable, Settled, Staging, Activation, BootThere,
                      Recoverable, IsPending
<1>5. CASE BootPlain
  <2>1. /\ UNCHANGED <<flash, records, running, target, todo, cur>> /\ pc' = "starting"
        /\ pc = "booting" /\ ~IsPending
    BY <1>5 DEF BootPlain
  <2> QED
    BY <1>1, <2>1 DEF FlashInv, Undoable, Settled, Staging, Activation, BootThere,
                      Whole, Current, IsPending
<1>6. CASE StartMain
  <2>1. Current \in Release /\ Whole(Current) /\ pc = "starting"
    BY <1>1, <1>6 DEF StartMain, Settled
  <2>2. active[Main] \in Release
    BY <2>1 DEF Whole
  <2>3. /\ UNCHANGED <<flash, records, target, todo, cur>> /\ pc' = "running"
        /\ running' = Current
    BY <1>6, <2>1, <2>2 DEF StartMain, Current
  <2> QED
    BY <1>1, <2>1, <2>3 DEF FlashInv, Undoable, Settled, Staging, Activation, BootThere,
                            Recoverable, Whole, Current, IsPending
<1>7. CASE BootUncounted
  <2>1. /\ UNCHANGED <<flash, failed, running, target, todo, cur>> /\ pc' = "starting"
        /\ pc = "booting" /\ IsPending /\ pending.attempts = 0
        /\ pending' \in {pending, Partial}
    BY <1>7 DEF BootUncounted
  <2>2. IsPending' => pending' = pending
    BY <2>1 DEF IsPending
  <2>3. Current \in Release /\ Whole(Current)
    BY <1>1, <2>1 DEF Settled
  <2> QED
    BY <1>1, <2>1, <2>2, <2>3 DEF FlashInv, Undoable, Settled, Staging, Activation,
                                  BootThere, Recoverable, Whole, Current
<1> QED BY <1>2, <1>3, <1>4, <1>5, <1>6, <1>7 DEF PowerOnSequence

\* Staging leaves the release that runs as it is.
LEMMA StagingFlash ==
  ASSUME Typed, FlashInv, ~cut,
         \/ \E v \in Release, force \in BOOLEAN : StartUpdate(v, force)
         \/ \E f \in File : StageFile(f)
         \/ StageFails \/ OpenPending \/ AnnounceFails
  PROVE  FlashInv'
<1> USE FirmwareAssumption
        DEF Typed, TypeOK, Activating, RollingBack, Updating, flash, records
<1>1. Undoable /\ Settled /\ Staging /\ Activation /\ BootThere
  BY DEF FlashInv
<1>2. ASSUME NEW v \in Release, NEW force \in BOOLEAN, StartUpdate(v, force)
      PROVE  FlashInv'
  <2>1. /\ UNCHANGED <<active, backup, records, running, cur>> /\ pc' = "staging"
        /\ pc = "running" /\ target' = v /\ todo' = Bundle[v]
    BY <1>2 DEF StartUpdate
  <2> QED
    BY <1>1, <2>1 DEF FlashInv, Undoable, Settled, Staging, Activation, BootThere,
                      Recoverable, Whole, Current, IsPending
<1>3. ASSUME NEW f \in File, StageFile(f) PROVE FlashInv'
  <2>1. /\ UNCHANGED <<active, backup, records, running, cur, target, pc>>
        /\ pc = "staging" /\ staged' = [staged EXCEPT ![f] = target] /\ todo' = todo \ {f}
    BY <1>3 DEF StageFile
  <2>2. \A g \in Bundle[target] : staged'[g] = target \/ g \in todo'
    BY <1>1, <2>1 DEF Staging
  <2> QED
    BY <1>1, <2>1, <2>2 DEF FlashInv, Undoable, Settled, Staging, Activation, BootThere,
                            Recoverable, Whole, Current, IsPending
<1>4. CASE StageFails
  <2>1. /\ UNCHANGED <<active, backup, records, running, cur>> /\ pc' = "running"
        /\ pc = "staging"
    BY <1>4 DEF StageFails
  <2> QED
    BY <1>1, <2>1 DEF FlashInv, Undoable, Settled, Staging, Activation, BootThere,
                      Recoverable, Whole, Current, IsPending
<1>5. CASE OpenPending
  <2>1. /\ UNCHANGED <<flash, failed, running, target, todo, cur>> /\ pc' = "announcing"
        /\ pc = "staging" /\ todo = {} /\ pending' = Partial
    BY <1>5 DEF OpenPending
  <2> QED
    BY <1>1, <2>1 DEF FlashInv, Undoable, Settled, Staging, Activation, BootThere,
                      Whole, Current, IsPending
<1>6. CASE AnnounceFails
  <2>1. /\ UNCHANGED <<flash, records, running, todo, cur>> /\ pc' = "running"
        /\ pc = "announcing"
    BY <1>6 DEF AnnounceFails
  <2> QED
    BY <1>1, <2>1 DEF FlashInv, Undoable, Settled, Staging, Activation, BootThere,
                      Whole, Current, IsPending
<1> QED BY <1>2, <1>3, <1>4, <1>5, <1>6

\* Activation moves one file at a time from the running release to the target.
LEMMA ActivationFlash ==
  ASSUME Typed, FlashInv, ~cut,
         \/ WritePending \/ CopyBackup \/ RemoveActive \/ RenameStaged \/ Restart
         \/ \E f \in File : ActivateNew(f) \/ DropBackup(f)
  PROVE  FlashInv'
<1> USE FirmwareAssumption
        DEF Typed, TypeOK, Activating, RollingBack, Updating, flash, records
<1>1. Undoable /\ Settled /\ Staging /\ Activation /\ BootThere
  BY DEF FlashInv
<1>2. CASE WritePending
  <2>1. /\ UNCHANGED <<flash, failed, running, target, cur>> /\ pc' = "applying"
        /\ pc = "announcing" /\ todo' = Bundle[target]
        /\ pending' = [version |-> target, previous |-> running, attempts |-> 0]
    BY <1>2 DEF WritePending
  <2>2. /\ running = Current /\ Current \in Release /\ Whole(Current)
        /\ \A f \in Bundle[target] : staged[f] = target
    BY <1>1, <2>1 DEF Staging, Settled
  <2>3. IsPending' /\ pending'.version = target /\ pending'.previous = running
    BY <2>1, <2>2 DEF IsPending, Record
  <2> QED
    BY <1>1, <2>1, <2>2, <2>3 DEF FlashInv, Undoable, Settled, Staging, Activation,
                                  BootThere, Whole
<1>3. ASSUME NEW f \in File, ActivateNew(f) PROVE FlashInv'
  <2>1. /\ UNCHANGED <<backup, records, pc, running, target, cur>>
        /\ pc = "applying" /\ f \in todo /\ active[f] = None
        /\ active' = [active EXCEPT ![f] = staged[f]] /\ todo' = todo \ {f}
        /\ staged' = [staged EXCEPT ![f] = None]
    BY <1>3 DEF ActivateNew
  <2>2. /\ pending.previous \in Release /\ f \notin Bundle[pending.previous]
        /\ staged[f] = target /\ f \in Bundle[target]
    BY <1>1, <2>1 DEF Activation, Release
  <2>3. active'[f] = target /\ \A g \in File \ {f} : active'[g] = active[g] /\ staged'[g] = staged[g]
    BY <2>1, <2>2
  <2>4. BootThere'
    BY <1>1, <2>1, <2>2, <2>3 DEF BootThere
  <2>5. Activation'
    BY <1>1, <2>1, <2>2, <2>3 DEF Activation, IsPending
  <2> QED
    BY <2>1, <2>4, <2>5 DEF FlashInv, Undoable, Settled, Staging
<1>4. ASSUME NEW f \in File, DropBackup(f) PROVE FlashInv'
  <2>1. /\ UNCHANGED <<active, staged, records, running, target, todo>>
        /\ pc = "applying" /\ pc' = "copying" /\ f \in todo /\ cur' = f
        /\ backup' = [backup EXCEPT ![f] = None]
    BY <1>4 DEF DropBackup
  <2>2. BootThere'
    BY <1>1, <2>1 DEF BootThere
  <2>3. Activation'
    BY <1>1, <2>1 DEF Activation, IsPending
  <2> QED
    BY <2>1, <2>2, <2>3 DEF FlashInv, Undoable, Settled, Staging
<1>5. CASE CopyBackup
  <2>1. /\ UNCHANGED <<active, staged, records, running, target, todo, cur>>
        /\ pc = "copying" /\ pc' = "swapping"
        /\ backup' = [backup EXCEPT ![cur] = active[cur]]
    BY <1>5 DEF CopyBackup
  <2>2. BootThere'
    BY <1>1, <2>1 DEF BootThere
  <2>3. Activation'
    BY <1>1, <2>1 DEF Activation, IsPending
  <2> QED
    BY <2>1, <2>2, <2>3 DEF FlashInv, Undoable, Settled, Staging
<1>6. CASE RemoveActive
  <2>1. /\ UNCHANGED <<staged, backup, records, running, target, todo, cur>>
        /\ pc = "swapping" /\ pc' = "renaming"
        /\ active' = [active EXCEPT ![cur] = None]
    BY <1>6 DEF RemoveActive
  <2>2. BootThere'
    BY <1>1, <2>1 DEF BootThere
  <2>3. Activation'
    BY <1>1, <2>1 DEF Activation, IsPending
  <2> QED
    BY <2>1, <2>2, <2>3 DEF FlashInv, Undoable, Settled, Staging
<1>7. CASE RenameStaged
  <2>1. /\ UNCHANGED <<backup, records, running, target>>
        /\ pc = "renaming" /\ pc' = "applying" /\ todo' = todo \ {cur}
        /\ active' = [active EXCEPT ![cur] = staged[cur]]
        /\ staged' = [staged EXCEPT ![cur] = None]
    BY <1>7 DEF RenameStaged
  <2>2. PICK f \in File : f = cur /\ f \in todo /\ f \in Bundle[target] /\ staged[f] = target
    BY <1>1, <2>1 DEF Activation
  <2>3. active'[f] = target /\ \A g \in File \ {f} : active'[g] = active[g] /\ staged'[g] = staged[g]
    BY <2>1, <2>2
  <2>4. BootThere'
    BY <1>1, <2>1, <2>2, <2>3 DEF BootThere
  <2>5. Activation'
    BY <1>1, <2>1, <2>2, <2>3 DEF Activation, IsPending
  <2> QED
    BY <2>1, <2>4, <2>5 DEF FlashInv, Undoable, Settled, Staging
<1>8. CASE Restart
  <2>1. /\ UNCHANGED <<flash, records, todo, cur>> /\ pc' = "off" /\ running' = None
        /\ pc = "applying" /\ todo = {}
    BY <1>8 DEF Restart
  <2>2. /\ pending.previous \in Release /\ target = pending.version /\ target \in Release
        /\ \A f \in Bundle[target] : active[f] = target
        /\ Recoverable(pending.previous, target)
    BY <1>1, <2>1 DEF Activation, Recoverable
  <2>3. Whole(Current) /\ Current \in Release
    BY <2>2 DEF Whole, Current
  <2> QED
    BY <1>1, <2>1, <2>2, <2>3 DEF FlashInv, Undoable, Settled, Staging, Activation,
                                  BootThere, Recoverable, Whole, Current, IsPending
<1> QED BY <1>2, <1>3, <1>4, <1>5, <1>6, <1>7, <1>8

\* A rollback restores one file at a time, and the last one makes the release whole.
LEMMA RollbackFlash ==
  ASSUME Typed, FlashInv, ~cut, Rollback, ~cut' PROVE FlashInv'
<1> USE FirmwareAssumption
        DEF Typed, TypeOK, Activating, RollingBack, Updating, flash, records
<1>1. Undoable /\ Settled /\ Staging /\ Activation /\ BootThere
  BY DEF FlashInv
<1>2. pc \in RollingBack
  BY DEF Rollback, RecordFailed, RecordFails, SkipFile, RemoveFile, RestoreFile,
         RestoreFails, EndRollback
<1>3. /\ IsPending /\ pending.attempts = 1 /\ target = pending.version /\ running = None
      /\ pending.previous \in Release /\ Recoverable(pending.previous, target)
      /\ todo \subseteq Bundle[target]
  BY <1>1, <1>2 DEF Undoable
<1>4. CASE RecordFailed \/ RecordFails
  <2>1. /\ UNCHANGED <<flash, pending, running, target, cur>> /\ pc' = "restoring"
        /\ pc = "recording" /\ (failed' = target \/ unrecorded')
    BY <1>4 DEF RecordFailed, RecordFails
  <2>2. todo' = todo
    BY <1>4 DEF RecordFailed, RecordFails
  <2>3. \A f \in Bundle[pending.previous] \cap Bundle[target] :
          f \in todo \/ (backup[f] = None /\ active[f] = pending.previous)
    BY <1>1, <2>1 DEF Undoable
  <2> QED
    BY <1>1, <1>3, <2>1, <2>2, <2>3
       DEF FlashInv, Undoable, Settled, Staging, Activation, BootThere, Recoverable, IsPending
<1>5. ASSUME NEW f \in File, SkipFile(f) PROVE FlashInv'
  <2>1. /\ UNCHANGED <<active, backup, records, pc, running, target, cur>>
        /\ pc = "restoring" /\ f \in todo /\ backup[f] = None /\ todo' = todo \ {f}
    BY <1>5 DEF SkipFile
  <2>2. \A g \in Bundle[pending.previous] \cap Bundle[target] :
          g \in todo' \/ (backup[g] = None /\ active[g] = pending.previous)
    BY <1>1, <1>3, <2>1 DEF Undoable, Recoverable, Release
  <2> QED
    BY <1>1, <1>3, <2>1, <2>2
       DEF FlashInv, Undoable, Settled, Staging, Activation, BootThere, Recoverable, IsPending
<1>6. ASSUME NEW f \in File, RemoveFile(f) PROVE FlashInv'
  <2>1. /\ UNCHANGED <<backup, records, running, target, todo>> /\ pc' = "refilling"
        /\ pc = "restoring" /\ f \in todo /\ backup[f] # None /\ cur' = f
        /\ active' = [active EXCEPT ![f] = None]
    BY <1>6 DEF RemoveFile
  <2>2. BootThere'
    BY <1>1, <2>1 DEF BootThere
  <2>3. Recoverable(pending.previous, target)'
    BY <1>3, <2>1 DEF Recoverable
  <2>4. \A g \in Bundle[pending.previous] \cap Bundle[target] :
          g \in todo \/ (backup[g] = None /\ active'[g] = pending.previous)
    BY <1>1, <1>3, <2>1 DEF Undoable
  <2>5. Undoable'
    BY <1>1, <1>3, <2>1, <2>3, <2>4 DEF Undoable, IsPending
  <2> QED
    BY <2>1, <2>2, <2>5 DEF FlashInv, Settled, Staging, Activation
<1>7. CASE RestoreFile
  <2>1. /\ UNCHANGED <<records, running, target>> /\ pc' = "restoring"
        /\ pc = "refilling" /\ todo' = todo \ {cur}
        /\ active' = [active EXCEPT ![cur] = backup[cur]]
        /\ backup' = [backup EXCEPT ![cur] = None]
    BY <1>7 DEF RestoreFile
  <2>2. PICK f \in File : f = cur /\ f \in todo /\ f \in Bundle[target] /\ backup[f] # None
    BY <1>1, <1>3, <2>1 DEF Undoable
  <2>3. /\ active'[f] = backup[f] /\ backup'[f] = None
        /\ \A g \in File \ {f} : active'[g] = active[g] /\ backup'[g] = backup[g]
    BY <2>1, <2>2
  <2>4. f \in Bundle[pending.previous] => backup[f] = pending.previous
    BY <1>3, <2>2 DEF Recoverable
  <2>5. BootThere'
    <3>1. Boot \in Bundle[pending.previous]
      BY <1>3
    <3> QED BY <1>1, <1>3, <2>1, <2>2, <2>3, <2>4, <3>1 DEF BootThere
  <2>6. Recoverable(pending.previous, target)'
    BY <1>3, <2>1, <2>2, <2>3, <2>4 DEF Recoverable
  <2>7. \A g \in Bundle[pending.previous] \cap Bundle[target] :
          g \in todo' \/ (backup'[g] = None /\ active'[g] = pending.previous)
    BY <1>1, <1>3, <2>1, <2>2, <2>3, <2>4 DEF Undoable
  <2>8. Undoable'
    BY <1>1, <1>3, <2>1, <2>6, <2>7 DEF Undoable, IsPending
  <2> QED
    BY <2>1, <2>5, <2>8 DEF FlashInv, Settled, Staging, Activation
<1>8. CASE EndRollback
  <2>1. /\ UNCHANGED <<flash, failed, running, todo, cur>> /\ pc' = "starting"
        /\ pc = "restoring" /\ todo = {} /\ pending' = None
    BY <1>3, <1>8 DEF EndRollback
  <2>2. Whole(pending.previous)
    BY <1>1, <1>3, <2>1 DEF Undoable, Recoverable, Whole
  <2>3. Current = pending.previous
    BY <1>3, <2>2 DEF Whole, Current
  <2> QED
    BY <1>1, <1>3, <2>1, <2>2, <2>3
       DEF FlashInv, Undoable, Settled, Staging, Activation, BootThere, Whole, Current, IsPending
<1>9. ~RestoreFails
  BY DEF RestoreFails
<1> QED BY <1>4, <1>5, <1>6, <1>7, <1>8, <1>9 DEF Rollback

\* Confirming an update only takes what would undo it.
LEMMA ConfirmFlash ==
  ASSUME Typed, FlashInv, ~cut, Confirm PROVE FlashInv'
<1> USE FirmwareAssumption
        DEF Typed, TypeOK, Activating, RollingBack, Updating, flash, records
<1>1. Undoable /\ Settled /\ Staging /\ Activation /\ BootThere
  BY DEF FlashInv
<1>2. /\ pc \in {"running", "purging"} /\ pc' \in {"running", "purging"}
      /\ UNCHANGED <<active, running>>
  BY DEF Confirm, StartConfirm, EndConfirm, PurgeBackup
<1>3. pc' = "purging" \/ ~IsPending'
  BY <1>2 DEF Confirm, StartConfirm, EndConfirm, PurgeBackup, IsPending
<1> QED
  BY <1>1, <1>2, <1>3 DEF FlashInv, Undoable, Settled, Staging, Activation, BootThere,
                          Whole, Current

\* A reset that leaves no update half done leaves the release, or the rollback that
\* the next power-on takes up again.
LEMMA ResetFlash == ASSUME Typed, FlashInv, ~cut, Reset, ~cut' PROVE FlashInv'
<1> USE FirmwareAssumption
        DEF Typed, TypeOK, Activating, RollingBack, Updating, flash, records
<1>1. Undoable /\ Settled /\ Staging /\ Activation /\ BootThere
  BY DEF FlashInv
<1>2. /\ pc \notin Activating \cup {"purging"} /\ active[Boot] # None
      /\ pc' = "off" /\ running' = None
  BY DEF Reset, HalfDone
<1>3. active' = active /\ backup' = backup
  BY <1>2 DEF Reset
<1>4. active[Boot] \in Release
  BY <1>1, <1>2 DEF BootThere
<1>5. pending' = pending \/ (pc = "booting" /\ pending.attempts = 0 /\ pending' = Partial)
  BY DEF Reset
<1>6. IsPending' => IsPending /\ pending' = pending
  BY <1>5 DEF IsPending
<1>7. pc \notin {"dead", "announcing"} \/ ~IsPending
  BY <1>1 DEF FlashInv, Staging, IsPending
<1>8. Undoable'
  BY <1>1, <1>2, <1>3, <1>6, <1>7 DEF Undoable, Recoverable
<1>9. Settled'
  <2>1. CASE Current \in Release /\ Whole(Current)
    BY <1>3, <2>1 DEF Settled, Current, Whole
  <2>2. CASE pc \in RollingBack
    BY <1>1, <1>2, <1>5, <2>2 DEF Undoable, Settled, IsPending
  <2>3. CASE pc \in {"off", "booting"} /\ IsPending /\ pending.attempts = 1
    BY <1>2, <1>5, <2>3 DEF Settled, IsPending
  <2> QED BY <1>1, <1>2, <2>1, <2>2, <2>3 DEF Settled
<1> QED
  BY <1>2, <1>3, <1>4, <1>8, <1>9 DEF FlashInv, Staging, Activation, BootThere

\* Every step keeps the flash in order, or is one after which an update is half done.
LEMMA NextFlashInv == Typed /\ FlashInv /\ [Next]_vars => FlashInv'
<1> SUFFICES ASSUME Typed, FlashInv, [Next]_vars, ~cut' PROVE FlashInv'
  BY DEF FlashInv
<1>1. CASE UNCHANGED vars
  BY <1>1 DEF vars, flash, records, FlashInv, Undoable, Settled, Staging, Activation,
              BootThere, Recoverable, Whole, Current, IsPending
<1>2. CASE PowerOnSequence
  <2>1. ~cut
    BY <1>2
       DEF PowerOnSequence, PowerOn, BootPending, BootUncounted, BootRollback, BootPlain,
           StartMain
  <2> QED BY <1>2, <2>1, PowerOnFlash
<1>3. CASE Update
  <2>1. ~ActivationFails
    BY DEF ActivationFails
  <2>2. ~cut
    BY <1>3, <2>1
       DEF Update, StartUpdate, StageFile, ActivateNew, DropBackup, StageFails, OpenPending,
           WritePending, AnnounceFails, CopyBackup, RemoveActive, RenameStaged, Restart
  <2> QED BY <1>3, <2>1, <2>2, StagingFlash, ActivationFlash DEF Update
<1>4. CASE Rollback
  <2>1. ~cut
    BY <1>4
       DEF Rollback, RecordFailed, RecordFails, SkipFile, RemoveFile, RestoreFile,
           RestoreFails, EndRollback
  <2> QED BY <1>4, <2>1, RollbackFlash
<1>5. CASE Confirm
  <2>1. ~cut
    BY <1>5 DEF Confirm, StartConfirm, EndConfirm, PurgeBackup
  <2> QED BY <1>5, <2>1, ConfirmFlash
<1>6. CASE Reset
  <2>1. ~cut
    BY <1>6 DEF Reset, HalfDone, Typed, TypeOK
  <2> QED BY <1>6, <2>1, ResetFlash
<1> QED BY <1>1, <1>2, <1>3, <1>4, <1>5, <1>6 DEF Next

\* So both hold in every reachable state.
LEMMA Invariant == Spec => [](Typed /\ FlashInv)
BY InitFlashInv, NextTyped, NextFlashInv, PTL DEF Spec

\* Every reachable state has the types the code gives it.
THEOREM TypeCorrect == Spec => []TypeOK
<1>1. Typed => TypeOK
  BY DEF Typed
<1> QED BY <1>1, Invariant, PTL

\* As long as no update was left half done, the flash holds one whole release or the
\* backups of one, and always a complete copy of boot.py, main.py and version.py.
THEOREM FlashStaysSound == Spec => []FlashIsSound
BY FlashInvSuffices, Invariant, PTL

\* A rollback that ends, however often resets cut it short and power-on took it up
\* again, has put back the release that ran before the update, and the release undone
\* is on record as the failed one unless that very rollback could not write it.
THEOREM RollbackIsExact == Spec => RollbackRestores
<1>1. Typed /\ FlashInv /\ [Next]_vars =>
        [(pc = "restoring" /\ pc' \in {"starting", "running"} /\ ~cut)
           => Whole(pending.previous) /\ (failed = target \/ unrecorded)]_vars
  <2> SUFFICES ASSUME Typed, FlashInv, Next, pc = "restoring",
                      pc' \in {"starting", "running"}, ~cut
               PROVE  Whole(pending.previous) /\ (failed = target \/ unrecorded)
    OBVIOUS
  <2>1. EndRollback
    BY DEF Next, PowerOnSequence, PowerOn, BootPending, BootUncounted, BootRollback,
           BootPlain, StartMain, Update, StartUpdate, StageFile, ActivateNew, DropBackup, StageFails, OpenPending,
           WritePending, AnnounceFails, CopyBackup, RemoveActive, RenameStaged,
           ActivationFails, Restart, Rollback, RecordFailed, RecordFails, SkipFile,
           RemoveFile, RestoreFile, RestoreFails, Confirm, StartConfirm, EndConfirm, PurgeBackup, Reset
  <2>2. todo = {}
    BY <2>1 DEF EndRollback
  <2> QED BY <2>2 DEF FlashInv, Undoable, RollingBack, Recoverable, Whole
<1> QED BY <1>1, Invariant, PTL DEF Spec, RollbackRestores
=============================================================================
