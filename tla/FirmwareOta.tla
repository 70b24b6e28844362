----------------------------- MODULE FirmwareOta -----------------------------
(***************************************************************************)
(* Over-the-air update of the modem firmware: staging, activation, health  *)
(* confirmation and rollback (firmware/ota.py, firmware/main.py), and the  *)
(* recovery at power-on (firmware/boot.py).                                *)
(*                                                                         *)
(* The device is sequential and may lose power, crash or be reset by the   *)
(* watchdog between any two steps.  An action is one operation on the      *)
(* flash file system: a write, a removal or a rename.  boot.py and ota.py  *)
(* are themselves among the files an update replaces.                      *)
(***************************************************************************)
EXTENDS Naturals, FiniteSets

CONSTANTS
  File,        \* the firmware files
  Boot,        \* boot.py
  Main,        \* main.py, the application
  Version,     \* version.py, which says what release is running
  MaxRelease,  \* releases are 1..MaxRelease; the first is on the device
  Bundle,      \* the files each release consists of
  None,        \* no such file, or nothing running
  Partial,     \* the contents of a file whose writing was cut short
  NoFile,      \* a file name that is none
  MaxUpdate,   \* bound: updates started
  MaxFault     \* bound: resets, crashes and power losses, and failures of the flash
               \* while a boot is counted or an update undone

Release == 1..MaxRelease

\* What ota_pending.json says: version, previous_version and boot_attempts.
Record == [version : Release, previous : Release \cup {0}, attempts : 0..1]

ASSUME FirmwareAssumption ==
  /\ MaxRelease \in Nat \ {0} /\ {MaxUpdate, MaxFault} \subseteq Nat
  /\ {Boot, Main, Version} \subseteq File /\ NoFile \notin File
  /\ None \notin Nat \cup Record \cup {Partial} /\ Partial \notin Nat \cup Record
  /\ Bundle \in [Release -> SUBSET File]
  /\ \A v \in Release : {Boot, Main, Version} \subseteq Bundle[v]

VARIABLES
  active,   \* the contents of each file: a release, Partial or None
  staged,   \* of <file>.new
  backup,   \* of <file>.bak
  pending,  \* ota_pending.json: Partial, None or what it says
  failed,   \* the release in ota_failed.json, 0 if it cannot be read
  pc,       \* what the device is doing
  running,  \* FIRMWARE_VERSION of the running code, 0 if unknown
  target,   \* the release being staged, activated, confirmed or rolled back
  todo,     \* files of it yet to be handled
  cur,      \* the file between two operations on it
  unrecorded,  \* history: the rollback under way could not write ota_failed.json
  cut,      \* history: an update was left half done, see HalfDone, ActivationFails
            \* and RestoreFails
  updates, faults  \* counters for the bounds

flash == <<active, staged, backup>>
records == <<pending, failed, unrecorded>>
vars == <<flash, records, pc, running, target, todo, cur, cut, updates, faults>>

Init ==
  /\ active = [f \in File |-> IF f \in Bundle[1] THEN 1 ELSE None]
  /\ staged = [f \in File |-> None]
  /\ backup = [f \in File |-> None]
  /\ pending = None /\ failed = 0 /\ unrecorded = FALSE
  /\ pc = "off" /\ running = None
  /\ target = 0 /\ todo = {} /\ cur = NoFile
  /\ cut = FALSE /\ updates = 0 /\ faults = 0

Contents == Release \cup {None, Partial}

TypeOK ==
  /\ \A f \in File : {active[f], staged[f], backup[f]} \subseteq Contents
  /\ pending \in Record \cup {None, Partial} /\ failed \in Release \cup {0}
  /\ pc \in {"off", "dead", "booting", "starting", "running",
             "staging", "announcing", "applying", "copying", "swapping", "renaming",
             "purging", "recording", "restoring", "refilling"}
  /\ running \in Release \cup {0, None} /\ target \in Release \cup {0}
  /\ {cut, unrecorded} \subseteq BOOLEAN /\ todo \subseteq File /\ cur \in File \cup {NoFile}

IsPending == pending \in Record

\* A reset, or a write or rename that raises OSError, counted.
Fault == faults < MaxFault /\ faults' = faults + 1

-----------------------------------------------------------------------------
(* Power-on.                                                               *)

\* boot.py runs if it is there.
PowerOn ==
  /\ pc = "off"
  /\ pc' = IF active[Boot] \in Release THEN "booting" ELSE "starting"
  /\ UNCHANGED <<flash, records, running, target, todo, cur, cut, updates, faults>>

\* check_and_handle_ota_pending: the first boot of an update is counted ...
BootPending ==
  /\ pc = "booting" /\ IsPending /\ pending.attempts = 0
  /\ pending' = [pending EXCEPT !.attempts = 1]
  /\ pc' = "starting"
  /\ UNCHANGED <<flash, failed, unrecorded, running, target, todo, cur, cut, updates, faults>>

\* ... if that can be written: what it said before may be destroyed, or stay ...
BootUncounted ==
  /\ Fault
  /\ pc = "booting" /\ IsPending /\ pending.attempts = 0
  /\ pending' \in {pending, Partial}
  /\ pc' = "starting"
  /\ UNCHANGED <<flash, failed, unrecorded, running, target, todo, cur, cut, updates>>

\* ... the second undoes it ...
BootRollback ==
  /\ pc = "booting" /\ IsPending /\ pending.attempts = 1
  /\ target' = pending.version /\ todo' = Bundle[pending.version]
  /\ pc' = "recording"
  /\ UNCHANGED <<flash, records, running, cur, cut, updates, faults>>

\* ... and without a readable record there is nothing to do.
BootPlain ==
  /\ pc = "booting" /\ ~IsPending
  /\ pc' = "starting"
  /\ UNCHANGED <<flash, records, running, target, todo, cur, cut, updates, faults>>

\* main.py follows boot.py, and is loaded with what it imports.
StartMain ==
  /\ pc = "starting"
  /\ IF active[Main] \in Release
     THEN /\ pc' = "running"
          /\ running' = IF active[Version] \in Release THEN active[Version] ELSE 0
     ELSE pc' = "dead" /\ UNCHANGED running
  /\ UNCHANGED <<flash, records, target, todo, cur, cut, updates, faults>>

-----------------------------------------------------------------------------
(* perform_ota: validate_bundle, stage_bundle                              *)

\* A release is newer than the running one and not the one that failed, or is forced.
Eligible(v, force) == force \/ (v > running /\ v # failed)

\* At boot (check_boot_ota) or by a BLE command, which may force it.
StartUpdate(v, force) ==
  /\ pc = "running" /\ updates < MaxUpdate /\ updates' = updates + 1
  /\ Eligible(v, force)
  /\ target' = v /\ todo' = Bundle[v]
  /\ staged' = [f \in File |-> None]
  /\ pc' = "staging"
  /\ UNCHANGED <<active, backup, records, running, cur, cut, faults>>

StageFile(f) ==
  /\ pc = "staging" /\ f \in todo
  /\ staged' = [staged EXCEPT ![f] = target]
  /\ todo' = todo \ {f}
  /\ UNCHANGED <<active, backup, records, pc, running, target, cur, cut, updates, faults>>

\* A write fails or reads back wrong: what was staged is removed.
StageFails ==
  /\ pc = "staging" /\ todo # {}
  /\ staged' = [f \in File |-> None]
  /\ todo' = {} /\ target' = 0 /\ pc' = "running"
  /\ UNCHANGED <<active, backup, records, running, cur, cut, updates, faults>>

-----------------------------------------------------------------------------
(* apply_staged_update                                                     *)

\* Opening ota_pending.json for writing destroys what it said.
OpenPending ==
  /\ pc = "staging" /\ todo = {}
  /\ pending' = Partial
  /\ pc' = "announcing"
  /\ UNCHANGED <<flash, failed, unrecorded, running, target, todo, cur, cut, updates, faults>>

WritePending ==
  /\ pc = "announcing"
  /\ pending' = [version |-> target, previous |-> running, attempts |-> 0]
  /\ todo' = Bundle[target]
  /\ pc' = "applying"
  /\ UNCHANGED <<flash, failed, unrecorded, running, target, cur, cut, updates, faults>>

\* ota_pending.json cannot be written: perform_ota gives up with all files staged.
AnnounceFails ==
  /\ pc = "announcing"
  /\ target' = 0 /\ pc' = "running"
  /\ UNCHANGED <<flash, records, running, todo, cur, cut, updates, faults>>

\* A file that did not exist is only renamed.
ActivateNew(f) ==
  /\ pc = "applying" /\ f \in todo /\ active[f] = None
  /\ active' = [active EXCEPT ![f] = staged[f]]
  /\ staged' = [staged EXCEPT ![f] = None]
  /\ todo' = todo \ {f}
  /\ UNCHANGED <<backup, records, pc, running, target, cur, cut, updates, faults>>

\* Mutant of DropBackup: an older backup is kept
KeepBackup(f) ==
  /\ pc = "applying" /\ f \in todo /\ active[f] # None
  /\ cur' = f /\ pc' = IF backup[f] = None THEN "copying" ELSE "swapping"
  /\ UNCHANGED <<flash, records, running, target, todo, cut, updates, faults>>

\* Otherwise the old backup is removed ...
DropBackup(f) ==
  /\ pc = "applying" /\ f \in todo /\ active[f] # None
  /\ backup' = [backup EXCEPT ![f] = None]
  /\ cur' = f /\ pc' = "copying"
  /\ UNCHANGED <<active, staged, records, running, target, todo, cut, updates, faults>>

\* Mutant of CopyBackup: the file is not copied
CopyNothing ==
  /\ pc = "copying"
  /\ backup' = [backup EXCEPT ![cur] = None]
  /\ pc' = "swapping"
  /\ UNCHANGED <<active, staged, records, running, target, todo, cur, cut, updates, faults>>

\* ... the file copied to it ...
CopyBackup ==
  /\ pc = "copying"
  /\ backup' = [backup EXCEPT ![cur] = active[cur]]
  /\ pc' = "swapping"
  /\ UNCHANGED <<active, staged, records, running, target, todo, cur, cut, updates, faults>>

\* ... the file removed ...
RemoveActive ==
  /\ pc = "swapping"
  /\ active' = [active EXCEPT ![cur] = None]
  /\ pc' = "renaming"
  /\ UNCHANGED <<staged, backup, records, running, target, todo, cur, cut, updates, faults>>

\* ... and the staged one renamed.
RenameStaged ==
  /\ pc = "renaming"
  /\ active' = [active EXCEPT ![cur] = staged[cur]]
  /\ staged' = [staged EXCEPT ![cur] = None]
  /\ todo' = todo \ {cur} /\ cur' = NoFile /\ pc' = "applying"
  /\ UNCHANGED <<backup, records, running, target, cut, updates, faults>>

\* A copy fails, as on a full flash, or a rename: rollback_ota puts the backups back
\* at once, an unfinished one among them.
ActivationFails ==
  /\ \/ pc = "copying" /\ backup' = [backup EXCEPT ![cur] = Partial]
     \/ pc = "renaming" /\ UNCHANGED backup
  /\ todo' = Bundle[target] /\ cur' = NoFile /\ pc' = "recording"
  /\ cut' = TRUE
  /\ UNCHANGED <<active, staged, records, running, target, updates, faults>>

\* All files are in place: machine.reset().
Restart ==
  /\ pc = "applying" /\ todo = {}
  /\ target' = 0 /\ pc' = "off" /\ running' = None
  /\ UNCHANGED <<flash, records, todo, cur, cut, updates, faults>>

-----------------------------------------------------------------------------
(* rollback_ota, of ota.py and of boot.py                                  *)

RecordFailed ==
  /\ pc = "recording"
  /\ failed' = target /\ unrecorded' = FALSE
  /\ pc' = "restoring"
  /\ UNCHANGED <<flash, pending, running, target, todo, cur, cut, updates, faults>>

\* ota_failed.json cannot be opened, or is emptied and cannot be written: a warning.
RecordFails ==
  /\ Fault
  /\ pc = "recording"
  /\ failed' \in {failed, 0} /\ unrecorded' = TRUE
  /\ pc' = "restoring"
  /\ UNCHANGED <<flash, pending, running, target, todo, cur, cut, updates>>

\* <file>.new is removed; a file without a backup stays as it is.
SkipFile(f) ==
  /\ pc = "restoring" /\ f \in todo /\ backup[f] = None
  /\ staged' = [staged EXCEPT ![f] = None]
  /\ todo' = todo \ {f}
  /\ UNCHANGED <<active, backup, records, pc, running, target, cur, cut, updates, faults>>

RemoveFile(f) ==
  /\ pc = "restoring" /\ f \in todo /\ backup[f] # None
  /\ staged' = [staged EXCEPT ![f] = None]
  /\ active' = [active EXCEPT ![f] = None]
  /\ cur' = f /\ pc' = "refilling"
  /\ UNCHANGED <<backup, records, running, target, todo, cut, updates, faults>>

RestoreFile ==
  /\ pc = "refilling"
  /\ active' = [active EXCEPT ![cur] = backup[cur]]
  /\ backup' = [backup EXCEPT ![cur] = None]
  /\ todo' = todo \ {cur} /\ cur' = NoFile /\ pc' = "restoring"
  /\ UNCHANGED <<staged, records, running, target, cut, updates, faults>>

\* The rename fails after the removal: a warning, and on with the next file.
RestoreFails ==
  /\ Fault
  /\ pc = "refilling"
  /\ todo' = todo \ {cur} /\ cur' = NoFile /\ pc' = "restoring"
  /\ cut' = TRUE
  /\ UNCHANGED <<flash, records, running, target, updates>>

\* In boot.py main.py comes next; in ota.py the running code goes on.
EndRollback ==
  /\ pc = "restoring" /\ todo = {}
  /\ pending' = None /\ target' = 0 /\ unrecorded' = FALSE
  /\ pc' = IF running = None THEN "starting" ELSE "running"
  /\ UNCHANGED <<flash, failed, running, todo, cur, cut, updates, faults>>

-----------------------------------------------------------------------------
(* confirm_healthy, after 30 seconds without a reset                       *)

StartConfirm ==
  /\ pc = "running" /\ IsPending
  /\ target' = pending.version /\ todo' = Bundle[pending.version]
  /\ pc' = "purging"
  /\ UNCHANGED <<flash, records, running, cur, cut, updates, faults>>

PurgeBackup(f) ==
  /\ pc = "purging" /\ f \in todo
  /\ backup' = [backup EXCEPT ![f] = None]
  /\ todo' = todo \ {f}
  /\ UNCHANGED <<active, staged, records, pc, running, target, cur, cut, updates, faults>>

\* Mutant of EndConfirm: the record stays
EndConfirmKeep ==
  /\ pc = "purging" /\ todo = {}
  /\ failed' = 0
  /\ target' = 0 /\ pc' = "running"
  /\ UNCHANGED <<flash, pending, unrecorded, running, todo, cur, cut, updates, faults>>

EndConfirm ==
  /\ pc = "purging" /\ todo = {}
  /\ pending' = None /\ failed' = 0
  /\ target' = 0 /\ pc' = "running"
  /\ UNCHANGED <<flash, unrecorded, running, todo, cur, cut, updates, faults>>

-----------------------------------------------------------------------------
(* Power loss, a crash of the application, or the watchdog.                *)

\* What the next power-on cannot make good: activation or confirmation half done, or
\* boot.py removed and not yet renamed back.
HalfDone ==
  \/ pc \in {"applying", "copying", "swapping", "renaming", "purging"}
  \/ active[Boot] = None

Reset ==
  /\ Fault /\ pc # "off"
  /\ pc' = "off" /\ running' = None
  /\ target' = 0 /\ todo' = {} /\ cur' = NoFile
  /\ cut' = (cut \/ HalfDone)
  /\ \/ UNCHANGED flash
     \/ /\ pc = "copying"
        /\ backup' = [backup EXCEPT ![cur] = Partial]
        /\ UNCHANGED <<active, staged>>
     \/ /\ pc = "staging"
        /\ \E f \in todo : staged' = [staged EXCEPT ![f] = Partial]
        /\ UNCHANGED <<active, backup>>
  /\ unrecorded' = FALSE
  /\ \/ UNCHANGED <<pending, failed>>
     \/ pc = "booting" /\ IsPending /\ pending.attempts = 0
          /\ pending' = Partial /\ UNCHANGED failed
     \/ pc = "recording" /\ failed' = 0 /\ UNCHANGED pending
  /\ UNCHANGED updates

PowerOnSequence ==
  PowerOn \/ BootPending \/ BootUncounted \/ BootRollback \/ BootPlain \/ StartMain

Update ==
  \/ \E v \in Release, force \in BOOLEAN : StartUpdate(v, force)
  \/ \E f \in File : StageFile(f) \/ ActivateNew(f) \/ DropBackup(f)
  \/ StageFails \/ OpenPending \/ WritePending \/ AnnounceFails
  \/ CopyBackup \/ RemoveActive \/ RenameStaged \/ ActivationFails \/ Restart

Rollback ==
  \/ RecordFailed \/ RecordFails \/ RestoreFile \/ RestoreFails \/ EndRollback
  \/ \E f \in File : SkipFile(f) \/ RemoveFile(f)

Confirm == StartConfirm \/ EndConfirm \/ \E f \in File : PurgeBackup(f)

Next == PowerOnSequence \/ Update \/ Rollback \/ Confirm \/ Reset

Spec == Init /\ [][Next]_vars

\* The device works as long as it has power; updates and faults are bounded.
FairSpec ==
  /\ Spec
  /\ WF_vars(PowerOnSequence \/ Rollback)
  /\ WF_vars(StartConfirm) /\ WF_vars(EndConfirm \/ \E f \in File : PurgeBackup(f))
  /\ WF_vars(Update /\ pc # "running")

-----------------------------------------------------------------------------

\* The firmware on the device is release v, whole.
Whole(v) == \A f \in Bundle[v] : active[f] = v

\* Wherever resets fall while the device boots, runs, stages, announces an update or
\* rolls one back: with no update pending it holds one whole release, and between the
\* removal of a file and the rename that replaces it a complete copy of boot.py,
\* main.py and version.py is on flash.
FlashIsSound ==
  ~cut => /\ ~IsPending => \E v \in Release : Whole(v)
          /\ \A f \in {Boot, Main, Version} : {active[f], backup[f]} \cap Release # {}

\* A rollback that ends has put the release back that ran before the update, the
\* release of two unconfirmed updates' second backups too, and remembers the failed one
\* unless this very rollback could not write it down, which is only warned about.
RollbackRestores ==
  [][(pc = "restoring" /\ pc' \in {"starting", "running"} /\ ~cut)
       => /\ Whole(pending.previous)
          /\ failed = target \/ unrecorded]_vars

\* An update does not stay pending: it is confirmed or undone.
PendingIsSettled == (IsPending /\ ~cut) ~> (~IsPending \/ cut)

-----------------------------------------------------------------------------
(* A claim of the repository that the code does not keep.                  *)

\* "Zero-risk upgrades without the possibility of bricking" (DEV_README.md:285): a
\* device left without a main.py that loads has a rollback still to do.
NeverBricked == pc = "dead" => IsPending
=============================================================================
