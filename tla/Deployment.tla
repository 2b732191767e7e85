----------------------------- MODULE Deployment -----------------------------
(* One cutover session of a host: the install of the Rust client over the   *)
(* Python client, its rollback and its finalisation                         *)
(* (scripts/cutover-rust-paygate.sh, scripts/rollback-rust-paygate.py),     *)
(* beside commands of both clients. What the scripts share with each other  *)
(* and with the Rust client is a lock file, which is released when its      *)
(* holder dies, and a transaction marker beside it, which is not; the       *)
(* Python client knows neither. A script may die at any step and be run     *)
(* again, and a reboot may give the file system another device number.      *)
EXTENDS Naturals, FiniteSets

CONSTANTS
  N,                  \* the saved state: config, wallet, cache and ledger are items 1..N
  Rust, Python,       \* commands of the two clients
  Directory,          \* the items of it that are directories
  Absent, Partial,    \* no object at a path; a copy or a removal that was cut off
  Nobody,
  MaxStarts,          \* bound: commands started
  MaxWrites,          \* bound: writes of commands to the saved state
  MaxCrashes,         \* bound: deaths of scripts and reboots
  MaxDevice           \* bound: the last device number

ASSUME DeploymentAssumption ==
  /\ N \in Nat \ {0} /\ Rust \cap Python = {}
  /\ MaxStarts \in Nat /\ MaxWrites \in Nat /\ MaxCrashes \in Nat /\ MaxDevice \in Nat

Item == 1..N
ASSUME DirectoriesAreItems == Directory \subseteq Item
Script == {"install", "rollback", "finalize"}

\* What identity() tells of an object: any write gives it another digest or
\* inode. A staged copy of a backup has generation 0 of its era.
Identity == [era : {"live", "backup"}, gen : 0..MaxWrites]
Copy == [era |-> "backup", gen |-> 0]
Object == Identity \union {Absent, Partial}

ASSUME ObjectsDiffer ==
  /\ Absent # Partial /\ {Absent, Partial} \cap Identity = {}
  /\ Nobody \notin Script

VARIABLES
  launcher,           \* the client that the launcher's symlink names
  env,                \* where the Python environment is: "original" or "quarantine"
  dest, stage, parked,\* per item: the live path and the two private paths of a rollback
  marker,             \* the transaction marker: its kind and what it binds
  pending,            \* a pending marker of a rollback is on disk
  receipt,            \* the receipt of the install is on disk
  authority,          \* the rollback directory: "none", "ready", "retired" or "gone"
  bound,              \* the device number recorded in its manifest
  acceptance,         \* phase of the acceptance record
  record,             \* the record that says Python is deactivated is on disk
  exclusive,          \* the script holding the lock, or Nobody
  pc,                 \* per script, the step it is about to take; "off" when not running
  at, plan, seen,     \* the rollback's loop index, its actions and the live identities it saw
  remapped,           \* the rollback was given an authorization for this boot's device
  rust, python,       \* per command, what it is doing
  device,             \* the device number of this boot
  starts, writes, crashes

files == <<launcher, env, dest, stage, parked, marker, pending, receipt, authority,
           bound, acceptance, record>>
memory == <<at, plan, seen, remapped>>
commands == <<rust, python, starts, writes>>
vars == <<files, exclusive, pc, memory, commands, device, crashes>>

Marker(kind, live) == [kind |-> kind, device |-> device, live |-> live]
Live == [i \in Item |-> [era |-> "live", gen |-> 0]]
NoMarker == [kind |-> "none", device |-> 0, live |-> Live]
NoPlan == [i \in Item |-> "complete"]

DeploymentInit ==
  /\ launcher = "python" /\ env = "original"
  /\ dest = Live /\ stage = [i \in Item |-> Absent] /\ parked = [i \in Item |-> Absent]
  /\ marker = NoMarker /\ pending = FALSE
  /\ receipt = FALSE /\ authority = "none" /\ bound = 0
  /\ acceptance = "preinstall" /\ record = FALSE
  /\ exclusive = Nobody /\ pc = [s \in Script |-> "off"]
  /\ at = 1 /\ plan = NoPlan /\ seen = Live /\ remapped = FALSE
  /\ rust = [r \in Rust |-> "off"] /\ python = [p \in Python |-> "off"]
  /\ device = 0 /\ starts = 0 /\ writes = 0 /\ crashes = 0

(* ------------------------------- commands ------------------------------- *)

\* A Rust command is started by the launcher, takes the shared lock unless a
\* script holds the exclusive one, and looks for a marker with the lock held.
RustStart(r) ==
  /\ rust[r] = "off" /\ launcher = "rust" /\ starts < MaxStarts
  /\ rust' = [rust EXCEPT ![r] = "started"] /\ starts' = starts + 1
  /\ UNCHANGED <<files, exclusive, pc, memory, python, writes, device, crashes>>

Go(r, step) ==
  /\ rust' = [rust EXCEPT ![r] = step]
  /\ UNCHANGED <<files, exclusive, pc, memory, python, starts, writes, device, crashes>>

RustRunUnseen(r) ==                       \* mutant: the marker is not looked for
  rust[r] = "locked" /\ Go(r, "running")

RustLock(r) == rust[r] = "started" /\ exclusive = Nobody /\ Go(r, "locked")
RustRun(r) == rust[r] = "locked" /\ marker.kind = "none" /\ Go(r, "running")

\* It ends, or refuses: maintenance is active, or recovery is required.
RustEnd(r) == rust[r] # "off" /\ Go(r, "off")

\* A Python command takes no lock and looks for no marker.
PythonStart(p) ==
  /\ python[p] = "off" /\ launcher = "python" /\ env = "original" /\ starts < MaxStarts
  /\ python' = [python EXCEPT ![p] = "running"] /\ starts' = starts + 1
  /\ UNCHANGED <<files, exclusive, pc, memory, rust, writes, device, crashes>>

PythonEnd(p) ==
  /\ python[p] = "running"
  /\ python' = [python EXCEPT ![p] = "off"]
  /\ UNCHANGED <<files, exclusive, pc, memory, rust, starts, writes, device, crashes>>

\* A command that finds no object makes one.
Written(object) ==
  [era |-> IF object = Absent THEN "live" ELSE object.era, gen |-> writes + 1]

Write(i) ==
  /\ (\E r \in Rust : rust[r] = "running") \/ (\E p \in Python : python[p] = "running")
  /\ writes < MaxWrites
  /\ dest' = [dest EXCEPT ![i] = Written(@)] /\ writes' = writes + 1
  /\ UNCHANGED <<launcher, env, stage, parked, marker, pending, receipt, authority, bound,
                 acceptance, record, exclusive, pc, memory, rust, python, starts, device,
                 crashes>>

(* ------------------------------- scripts -------------------------------- *)

Quiet == (\A r \in Rust : rust[r] = "off") /\ (\A p \in Python : python[p] = "off")
LockIsFree == exclusive = Nobody /\ \A r \in Rust : rust[r] \notin {"locked", "running"}

To(s, step) == pc' = [pc EXCEPT ![s] = step]

\* The script takes the lock without waiting for it.
TakeLock(s, step) ==
  /\ LockIsFree
  /\ exclusive' = s /\ To(s, step)
  /\ UNCHANGED <<files, memory, commands, device, crashes>>

\* What a rollback has in memory is lost with it.
Forget == at' = 1 /\ plan' = NoPlan /\ seen' = Live /\ remapped' = FALSE

\* The script exits, and the lock with it.
Exit(s) ==
  /\ exclusive' = IF exclusive = s THEN Nobody ELSE exclusive
  /\ To(s, "off")
  /\ IF s = "rollback" THEN Forget ELSE UNCHANGED memory

\* A condition is not met: the script exits and leaves all files alone.
Fails(s) == Exit(s) /\ UNCHANGED <<files, commands, device, crashes>>

Steps(s, from, to) == pc[s] = from /\ To(s, to)
Calm == UNCHANGED <<exclusive, memory, commands, device, crashes>>

(* ------------------------------- install -------------------------------- *)

\* Before the lock: the deployment is the recorded one, no command is active,
\* and the state is copied to the rollback directory.
InstallBegin ==
  /\ Steps("install", "off", "lock")
  /\ launcher = "python" /\ env = "original" /\ authority = "none" /\ Quiet
  /\ authority' = "ready" /\ bound' = device
  /\ UNCHANGED <<launcher, env, dest, stage, parked, marker, pending, receipt, acceptance, record>>
  /\ Calm

InstallLock == pc["install"] = "lock" /\ TakeLock("install", "receipt")

InstallReceipt ==
  /\ Steps("install", "receipt", "mark")
  /\ marker.kind = "none" /\ ~receipt
  /\ receipt' = TRUE
  /\ UNCHANGED <<launcher, env, dest, stage, parked, marker, pending, authority, bound,
                 acceptance, record>>
  /\ Calm

InstallMark ==
  /\ Steps("install", "mark", "switch")
  /\ marker' = Marker("install", Live)
  /\ UNCHANGED <<launcher, env, dest, stage, parked, pending, receipt, authority, bound,
                 acceptance, record>>
  /\ Calm

InstallSwitch ==
  /\ Steps("install", "switch", "scan")
  /\ launcher' = "rust"
  /\ UNCHANGED <<env, dest, stage, parked, marker, pending, receipt, authority, bound,
                 acceptance, record>>
  /\ Calm

InstallScanBlind ==                       \* mutant: no scan after the switch
  /\ Steps("install", "scan", "accept")
  /\ UNCHANGED files /\ Calm

\* The final process scan, after the launcher names the client with the lock.
InstallScan ==
  /\ Steps("install", "scan", "accept")
  /\ Quiet
  /\ UNCHANGED files /\ Calm

InstallAccept ==
  /\ Steps("install", "accept", "quarantine")
  /\ acceptance' = "installed"
  /\ UNCHANGED <<launcher, env, dest, stage, parked, marker, pending, receipt, authority, bound,
                 record>>
  /\ Calm

InstallQuarantine ==
  /\ \/ Steps("install", "quarantine", "commit") /\ Quiet
     \/ Steps("install", "quarantine", "undo environment")
  /\ env' = "quarantine"
  /\ UNCHANGED <<launcher, dest, stage, parked, marker, pending, receipt, authority, bound,
                 acceptance, record>>
  /\ Calm

\* A check after the rename failed: the original deployment is restored.
UndoEnvironment ==
  /\ Steps("install", "undo environment", "undo launcher")
  /\ env' = "original"
  /\ UNCHANGED <<launcher, dest, stage, parked, marker, pending, receipt, authority, bound,
                 acceptance, record>>
  /\ Calm

UndoLauncher ==
  /\ Steps("install", "undo launcher", "commit")
  /\ launcher' = "python"
  /\ UNCHANGED <<env, dest, stage, parked, marker, pending, receipt, authority, bound,
                 acceptance, record>>
  /\ Calm

Unmark(s) ==
  /\ marker' = NoMarker
  /\ UNCHANGED <<launcher, env, dest, stage, parked, pending, receipt, authority, bound,
                 acceptance, record>>
  /\ Exit(s)
  /\ UNCHANGED <<commands, device, crashes>>

InstallCommit == pc["install"] = "commit" /\ Unmark("install")

InstallFails ==
  /\ \/ pc["install"] = "lock" /\ ~LockIsFree
     \/ pc["install"] = "receipt" /\ (marker.kind # "none" \/ receipt)
     \/ pc["install"] = "scan" /\ ~Quiet
  /\ Fails("install")

Install ==
  \/ InstallBegin \/ InstallLock \/ InstallReceipt \/ InstallMark \/ InstallSwitch
  \/ InstallScan \/ InstallAccept \/ InstallQuarantine \/ UndoEnvironment
  \/ UndoLauncher \/ InstallCommit \/ InstallFails

\* The operator records the gates of the installed client: it runs and is the launcher's.
Accept ==
  /\ acceptance = "installed" /\ launcher = "rust" /\ env = "quarantine" /\ marker.kind = "none"
  /\ acceptance' = "accepted"
  /\ UNCHANGED <<launcher, env, dest, stage, parked, marker, pending, receipt, authority, bound,
                 record, exclusive, pc, memory, commands, device, crashes>>

(* ------------------------------- rollback ------------------------------- *)

\* A recorded device number is this boot's, or an authorization maps it.
DeviceMatches(recorded) == recorded = device \/ (remapped /\ recorded = bound)

\* The manifest, the preflight record and the receipt are there and agree; an
\* authorization is accepted only for a device that did change.
RollbackBegin ==
  /\ Steps("rollback", "off", "lock")
  /\ authority = "ready" /\ receipt
  /\ \E authorized \in BOOLEAN : (authorized => device # bound) /\ remapped' = authorized
  /\ UNCHANGED <<files, exclusive, at, plan, seen, commands, device, crashes>>

RollbackLock ==
  /\ pc["rollback"] = "lock" /\ DeviceMatches(bound)
  /\ TakeLock("rollback", "inspect")

Shape == <<env, launcher>>
Recoverable == {<<"quarantine", "rust">>, <<"original", "rust">>, <<"original", "python">>}
Restored == marker.kind = "none" /\ Shape = <<"original", "python">>

\* With the lock held no command is active, the deployment has a shape that a
\* cutover leaves, and the four backups can be opened.
Inspected ==
  /\ pc["rollback"] = "inspect" /\ Quiet
  /\ ~Restored /\ Shape \in Recoverable
  /\ authority = "ready"

\* Nothing to roll back: later changes of the Python client are left alone.
RollbackIsDone == pc["rollback"] = "inspect" /\ Quiet /\ Restored /\ Fails("rollback")

RollbackPrepareAgain ==                   \* mutant: a rollback always starts from nothing
  /\ Inspected /\ To("rollback", "stage")
  /\ \A i \in Item : parked[i] = Absent
  /\ stage' = [i \in Item |-> Absent] /\ pending' = FALSE
  /\ UNCHANGED <<launcher, env, dest, parked, marker, receipt, authority, bound, acceptance,
                 record, exclusive, memory, commands, device, crashes>>

\* Without a rollback marker a rollback starts from nothing: what a dead one
\* left at the staging paths is removed, parked state is not expected.
RollbackPrepare ==
  /\ Inspected /\ To("rollback", "stage")
  /\ marker.kind = "none" \/ (marker.kind = "install" /\ DeviceMatches(marker.device))
  /\ \A i \in Item : parked[i] = Absent
  /\ stage' = [i \in Item |-> Absent] /\ pending' = FALSE
  /\ UNCHANGED <<launcher, env, dest, parked, marker, receipt, authority, bound, acceptance,
                 record, exclusive, memory, commands, device, crashes>>

\* The live object is identified and its backup copied beside it.
StageItem ==
  /\ pc["rollback"] = "stage" /\ at <= N /\ dest[at] # Absent
  /\ seen' = [seen EXCEPT ![at] = dest[at]]
  /\ stage' = [stage EXCEPT ![at] = Copy]
  /\ at' = at + 1
  /\ UNCHANGED <<launcher, env, dest, parked, marker, pending, receipt, authority, bound,
                 acceptance, record, exclusive, pc, plan, remapped, commands, device, crashes>>

\* Staging fails before there is a marker: the copies are removed again.
StagingFails ==
  /\ pc["rollback"] = "stage" /\ marker.kind = "none"
  /\ stage' = [i \in Item |-> Absent]
  /\ Exit("rollback")
  /\ UNCHANGED <<launcher, env, dest, parked, marker, pending, receipt, authority, bound,
                 acceptance, record, commands, device, crashes>>

WritePending ==
  /\ Steps("rollback", "stage", "publish")
  /\ at = N + 1
  /\ pending' = TRUE /\ at' = 1
  /\ UNCHANGED <<launcher, env, dest, stage, parked, marker, receipt, authority, bound,
                 acceptance, record, exclusive, plan, seen, remapped, commands, device, crashes>>

PublishMarker ==
  /\ Steps("rollback", "publish", "classify")
  /\ marker' = Marker("rollback", seen) /\ pending' = FALSE
  /\ UNCHANGED <<launcher, env, dest, stage, parked, receipt, authority, bound, acceptance, record>>
  /\ Calm

RollbackResume ==
  /\ Inspected /\ To("rollback", "classify")
  /\ marker.kind = "rollback"
  /\ UNCHANGED files /\ Calm

\* What the marker binds is still what is there; its device admits no remap.
MarkerIsValid == marker.device = device

PlanOfUnparked(i) ==                      \* mutant: an item between its two renames is not known
  LET live == marker.live[i]
      is(d, s, p) == dest[i] = d /\ stage[i] = s /\ parked[i] = p
  IN  CASE is(live, Copy, Absent)   -> "park"
        [] is(Copy, Absent, live)   -> "cleanup"
        [] is(Copy, Absent, Absent) -> "complete"
        [] OTHER                    -> "ambiguous"

\* What is to be done with an item, told from its three paths.
PlanOf(i) ==
  LET live == marker.live[i]
      is(d, s, p) == dest[i] = d /\ stage[i] = s /\ parked[i] = p
  IN  CASE is(live, Copy, Absent)   -> "park"
        [] is(Absent, Copy, live)   -> "restore"
        [] is(Copy, Absent, live)   -> "cleanup"
        [] is(Copy, Absent, Absent) -> "complete"
        [] OTHER                    -> "ambiguous"

ClassifyAnything ==                       \* mutant: shapes are not validated
  /\ Steps("rollback", "classify", "swap")
  /\ MarkerIsValid
  /\ plan' = [i \in Item |-> PlanOf(i)] /\ at' = 1
  /\ UNCHANGED <<files, exclusive, seen, remapped, commands, device, crashes>>

\* All items are classified before the first is moved.
Classify ==
  /\ Steps("rollback", "classify", "swap")
  /\ MarkerIsValid
  /\ \A i \in Item : PlanOf(i) # "ambiguous"
  /\ plan' = [i \in Item |-> PlanOf(i)] /\ at' = 1
  /\ UNCHANGED <<files, exclusive, seen, remapped, commands, device, crashes>>

ParkRemoving ==                           \* mutant: the live object is removed, not moved
  /\ pc["rollback"] = "swap" /\ at <= N /\ plan[at] = "park" /\ dest[at] # Absent
  /\ dest' = [dest EXCEPT ![at] = Absent]
  /\ plan' = [plan EXCEPT ![at] = "restore"]
  /\ UNCHANGED <<launcher, env, stage, parked, marker, pending, receipt, authority, bound,
                 acceptance, record, exclusive, pc, at, seen, remapped, commands, device, crashes>>

\* The live object is moved aside.
Park ==
  /\ pc["rollback"] = "swap" /\ at <= N /\ plan[at] = "park" /\ dest[at] # Absent
  /\ parked' = [parked EXCEPT ![at] = dest[at]]
  /\ dest' = [dest EXCEPT ![at] = Absent]
  /\ plan' = [plan EXCEPT ![at] = "restore"]
  /\ UNCHANGED <<launcher, env, stage, marker, pending, receipt, authority, bound, acceptance,
                 record, exclusive, pc, at, seen, remapped, commands, device, crashes>>

\* The copy becomes the live object.
Restore ==
  /\ pc["rollback"] = "swap" /\ at <= N /\ plan[at] = "restore"
  /\ dest' = [dest EXCEPT ![at] = stage[at]]
  /\ stage' = [stage EXCEPT ![at] = Absent]
  /\ at' = at + 1
  /\ UNCHANGED <<launcher, env, parked, marker, pending, receipt, authority, bound, acceptance,
                 record, exclusive, pc, plan, seen, remapped, commands, device, crashes>>

Skip ==
  /\ pc["rollback"] = "swap" /\ at <= N /\ plan[at] \in {"cleanup", "complete"}
  /\ at' = at + 1
  /\ UNCHANGED <<files, exclusive, pc, plan, seen, remapped, commands, device, crashes>>

ItemRestored(i) == dest[i] = Copy /\ stage[i] = Absent
IsParked(i) == parked[i] = marker.live[i]

\* All four are restored: the Python environment comes back.
RestoreEnvironment ==
  /\ Steps("rollback", "swap", "clean")
  /\ at = N + 1
  /\ \A i \in Item : ItemRestored(i) /\ (IsParked(i) \/ parked[i] = Absent)
  /\ env' = "original" /\ at' = 1
  /\ UNCHANGED <<launcher, dest, stage, parked, marker, pending, receipt, authority, bound,
                 acceptance, record, exclusive, plan, seen, remapped, commands, device, crashes>>

\* What was parked is removed, item by item; the removal of a directory may be
\* cut off, see CutOff.
RemoveParked ==
  /\ pc["rollback"] = "clean" /\ at <= N
  /\ IsParked(at) \/ parked[at] = Absent
  /\ parked' = [parked EXCEPT ![at] = Absent]
  /\ at' = at + 1
  /\ UNCHANGED <<launcher, env, dest, stage, marker, pending, receipt, authority, bound,
                 acceptance, record, exclusive, pc, plan, seen, remapped, commands, device, crashes>>

Cleaned == env = "original" /\ \A i \in Item : ItemRestored(i) /\ parked[i] = Absent

\* The launcher comes last, by one rename.
RestoreLauncher ==
  /\ Steps("rollback", "clean", "complete")
  /\ at = N + 1 /\ Cleaned
  /\ launcher' = "python"
  /\ UNCHANGED <<env, dest, stage, parked, marker, pending, receipt, authority, bound,
                 acceptance, record>>
  /\ Calm

\* The whole deployment is looked at again before the marker goes.
RollbackCommit ==
  /\ pc["rollback"] = "complete"
  /\ env = "original" /\ \A i \in Item : dest[i] = Copy
  /\ Unmark("rollback")

\* Why a rollback stops: a check fails. The end of a loop finds every item again.
RollbackIsRefused ==
  \/ pc["rollback"] = "lock" /\ ~(LockIsFree /\ DeviceMatches(bound))
  \/ /\ pc["rollback"] = "inspect" /\ ~(Quiet /\ Restored)
     /\ \/ ~Inspected \/ marker.kind = "finalize"
        \/ marker.kind = "install" /\ ~DeviceMatches(marker.device)
        \/ marker.kind # "rollback" /\ \E i \in Item : parked[i] # Absent
  \/ pc["rollback"] = "stage" /\ marker.kind # "none" /\ at <= N /\ dest[at] = Absent
  \/ /\ pc["rollback"] = "classify"
     /\ ~MarkerIsValid \/ \E i \in Item : PlanOf(i) = "ambiguous"
  \/ /\ pc["rollback"] = "swap" /\ at = N + 1
     /\ \E i \in Item : ~(ItemRestored(i) /\ (IsParked(i) \/ parked[i] = Absent))
  \/ pc["rollback"] = "clean" /\ at <= N /\ ~(IsParked(at) \/ parked[at] = Absent)
  \/ pc["rollback"] = "clean" /\ at = N + 1 /\ ~Cleaned
  \/ pc["rollback"] = "complete" /\ \E i \in Item : dest[i] # Copy

RollbackFailsUnmarking ==                 \* mutant: a failed rollback removes its marker
  RollbackIsRefused /\ IF exclusive = "rollback" THEN Unmark("rollback") ELSE Fails("rollback")

\* The marker, if any, is retained when a check fails.
RollbackFails == RollbackIsRefused /\ Fails("rollback")

Rollback ==
  \/ RollbackBegin \/ RollbackLock \/ RollbackIsDone \/ RollbackPrepare \/ StageItem
  \/ StagingFails \/ WritePending \/ PublishMarker \/ RollbackResume \/ Classify \/ Park
  \/ Restore \/ Skip \/ RestoreEnvironment \/ RemoveParked \/ RestoreLauncher
  \/ RollbackCommit \/ RollbackFails

(* ------------------------------- finalize ------------------------------- *)

\* Before the lock: all gates are recorded, Rust is installed and at rest.
FinalizeBegin ==
  /\ Steps("finalize", "off", "lock")
  /\ marker.kind = "none" /\ ~record
  /\ authority = "ready" /\ receipt /\ acceptance = "accepted"
  /\ Shape = <<"quarantine", "rust">> /\ Quiet
  /\ UNCHANGED files /\ Calm

\* With the lock only the marker is looked at again.
FinalizeLock ==
  /\ pc["finalize"] = "lock" /\ device = bound /\ marker.kind = "none"
  /\ TakeLock("finalize", "mark")

FinalizeMark ==
  /\ Steps("finalize", "mark", "record")
  /\ marker' = Marker("finalize", Live)
  /\ UNCHANGED <<launcher, env, dest, stage, parked, pending, receipt, authority, bound,
                 acceptance, record>>
  /\ Calm

\* A finalisation that died is resumed from its journal.
FinalizeResume ==
  /\ pc["finalize"] = "off" /\ marker.kind = "finalize" /\ marker.device = device
  /\ Shape = <<"quarantine", "rust">> /\ (authority = "ready" \/ record)
  /\ TakeLock("finalize", "record")

Record ==
  /\ Steps("finalize", "record", "retire")
  /\ record' = TRUE
  /\ UNCHANGED <<launcher, env, dest, stage, parked, marker, pending, receipt, authority, bound,
                 acceptance>>
  /\ Calm

\* The rollback directory is renamed to its retirement path and then removed.
Retire ==
  /\ Steps("finalize", "retire", "remove")
  /\ authority' = IF authority = "ready" THEN "retired" ELSE authority
  /\ UNCHANGED <<launcher, env, dest, stage, parked, marker, pending, receipt, bound, acceptance,
                 record>>
  /\ Calm

Remove ==
  /\ Steps("finalize", "remove", "commit")
  /\ authority' = "gone"
  /\ UNCHANGED <<launcher, env, dest, stage, parked, marker, pending, receipt, bound, acceptance,
                 record>>
  /\ Calm

FinalizeCommitBlind ==                    \* mutant: the deployment is not looked at again
  pc["finalize"] = "commit" /\ Unmark("finalize")

FinalizeCommit ==
  /\ pc["finalize"] = "commit" /\ env = "quarantine"
  /\ Unmark("finalize")

FinalizeFails ==
  /\ \/ pc["finalize"] = "lock" /\ ~(LockIsFree /\ device = bound /\ marker.kind = "none")
     \/ pc["finalize"] = "commit" /\ env # "quarantine"
  /\ Fails("finalize")

Finalize ==
  \/ FinalizeBegin \/ FinalizeLock \/ FinalizeMark \/ FinalizeResume \/ Record \/ Retire
  \/ Remove \/ FinalizeCommit \/ FinalizeFails

(* ------------------------------- failures ------------------------------- *)

\* Where a script stops, the copy that a rollback was making at a staging path
\* is cut off, and so is the removal of a parked directory, whose files go one
\* by one; a removal that fails stops there too. What is removed at a staging
\* path may be left there in any shape: the next rollback removes that.
CutOff ==
  \/ UNCHANGED <<stage, parked>>
  \/ /\ pc["rollback"] = "stage" /\ at <= N
     /\ stage' = [stage EXCEPT ![at] = Partial] /\ UNCHANGED parked
  \/ /\ pc["rollback"] = "clean" /\ at \in Directory /\ IsParked(at)
     /\ parked' = [parked EXCEPT ![at] = Partial] /\ UNCHANGED stage

\* A script dies.
Crash(s) ==
  /\ pc[s] # "off" /\ crashes < MaxCrashes /\ crashes' = crashes + 1
  /\ IF s = "rollback" THEN CutOff ELSE UNCHANGED <<stage, parked>>
  /\ Exit(s)
  /\ UNCHANGED <<launcher, env, dest, marker, pending, receipt, authority, bound, acceptance,
                 record, commands, device>>

\* The machine starts again, perhaps with another device number.
Reboot ==
  /\ crashes < MaxCrashes /\ crashes' = crashes + 1
  /\ device' \in {d \in {device, device + 1} : d <= MaxDevice}
  /\ CutOff
  /\ exclusive' = Nobody /\ pc' = [s \in Script |-> "off"]
  /\ Forget
  /\ rust' = [r \in Rust |-> "off"] /\ python' = [p \in Python |-> "off"]
  /\ UNCHANGED <<launcher, env, dest, marker, pending, receipt, authority, bound, acceptance,
                 record, starts, writes>>

Command ==
  \/ \E r \in Rust : RustStart(r) \/ RustLock(r) \/ RustRun(r) \/ RustEnd(r)
  \/ \E p \in Python : PythonStart(p) \/ PythonEnd(p)
  \/ \E i \in Item : Write(i)

DeploymentNext ==
  \/ Command \/ Install \/ Accept \/ Rollback \/ Finalize
  \/ (\E s \in Script : Crash(s)) \/ Reboot

DeploymentSpec == DeploymentInit /\ [][DeploymentNext]_vars

\* A script that runs goes on and commands end; a restoration that was begun
\* is rerun until it succeeds, sooner or later with the authorization it needs.
\* Nobody has to begin one, and nothing else is fair.
RerunRollback == marker.kind = "rollback" /\ Rollback
Authorized == marker.kind = "rollback" /\ RollbackBegin /\ remapped' = (device # bound)
Ends == (\E r \in Rust : RustEnd(r)) \/ (\E p \in Python : PythonEnd(p))
FairDeploymentSpec ==
  /\ DeploymentSpec
  /\ WF_vars(RerunRollback) /\ SF_vars(Authorized) /\ WF_vars(Ends)
  /\ WF_vars(Install \/ Finalize)

(* ------------------------------ properties ------------------------------ *)

\* Types of the variables of the scripts, locks and files.
DeploymentTypeOK ==
  /\ launcher \in {"python", "rust"} /\ env \in {"original", "quarantine"}
  /\ dest \in [Item -> Object] /\ stage \in [Item -> Object] /\ parked \in [Item -> Object]
  /\ marker \in [kind : {"none", "install", "rollback", "finalize"}, device : 0..MaxDevice,
                 live : [Item -> Object]]
  /\ pending \in BOOLEAN /\ receipt \in BOOLEAN /\ record \in BOOLEAN /\ remapped \in BOOLEAN
  /\ authority \in {"none", "ready", "retired", "gone"}
  /\ acceptance \in {"preinstall", "installed", "accepted"}
  /\ exclusive \in Script \union {Nobody} /\ at \in 1..(N + 1)
  /\ rust \in [Rust -> {"off", "started", "locked", "running"}]
  /\ python \in [Python -> {"off", "running"}]
  /\ plan \in [Item -> {"park", "restore", "cleanup", "complete"}] /\ seen \in [Item -> Object]
  /\ device \in 0..MaxDevice /\ bound \in 0..MaxDevice

\* No Rust command is at work while a script changes the deployment or a dead
\* one left it half changed (runtime_lock.rs takes the shared lock first and
\* looks for the marker with it).
RustIsExcluded ==
  \A r \in Rust : rust[r] = "running" => marker.kind = "none" /\ exclusive = Nobody

\* The launcher never names an environment that is not there, and a Python
\* command that was started by it finds its files to the end
\* (the install's final scan, the order of undo and rollback).
PythonIsWhole ==
  /\ launcher = "python" => env = "original"
  /\ \A p \in Python : python[p] = "running" => env = "original"

\* While a rollback is under way, each item of the saved state still is or can
\* become live, and what the Rust client saved is given up, in part or whole, only
\* after all items and the environment were restored (the order of rollback-rust-paygate.py).
StateIsRecoverable ==
  marker.kind = "rollback" =>
    /\ \A i \in Item : dest[i] # Absent \/ stage[i] = Copy
    /\ (\E i \in Item : /\ parked[i] \in {Absent, Partial}
                       /\ dest[i] # Absent /\ dest[i].era = "backup") =>
         /\ env = "original"
         /\ \A i \in Item : dest[i] # Absent /\ dest[i].era = "backup"

\* No step moves or replaces a restored item, whoever changed it since; the
\* rollback "only moves forward" and never overwrites it.
RestoredStays ==
  [][\A i \in Item : dest[i] # Absent /\ dest[i].era = "backup"
       => dest'[i] # Absent /\ dest'[i].era = "backup"]_vars

\* The record of a finalisation is true when it is left: Python is deactivated.
RetirementIsTrue ==
  record /\ marker.kind = "none" => Shape = <<"quarantine", "rust">> /\ authority = "gone"

\* The record of a finalisation is true whenever it is there
\* (docs/minimal-rust-cutover-runbook.md, "states that Python paygate is deactivated").
RecordIsTrue == record => Shape = <<"quarantine", "rust">>

\* Somebody else changed an object that the marker binds, or the device has
\* another number since the marker was written.
Disturbed ==
  /\ marker.kind = "rollback"
  /\ \/ marker.device # device
     \/ \E i \in Item : \/ dest[i] \notin {marker.live[i], Copy, Absent}
                       \/ stage[i] \notin {Copy, Absent}
                       \/ parked[i] \notin {marker.live[i], Absent, Partial}

\* The removal of a parked directory was cut off.
HalfRemoved == marker.kind = "rollback" /\ \E i \in Item : parked[i] = Partial

\* A rollback that published its marker is completed by rerunning it ("rerun the
\* same rollback command until it reports success", runbook), with two exceptions
\* that the runbook does not make: something the marker binds has changed meanwhile,
\* or the removal of a parked directory was cut off. What is left of the directory
\* matches nothing, and every later rollback refuses it.
RollbackCompletes ==
  marker.kind = "rollback" ~> (marker.kind = "none" \/ Disturbed \/ HalfRemoved)

\* The deployment as its users see it.
Mode == IF marker.kind = "none" THEN launcher ELSE "maintenance"
AtWork == {r \in Rust : rust[r] = "running"}
StateEra ==
  IF \A i \in Item : dest[i] # Absent /\ dest[i].era = "backup" THEN "backup"
  ELSE IF \A i \in Item : dest[i] # Absent /\ dest[i].era = "live" /\ parked[i] = Absent
       THEN "live" ELSE "mixed"

M == INSTANCE Maintenance WITH User <- Rust, mode <- Mode, users <- AtWork, state <- StateEra

\* The scripts, their lock and their marker implement maintenance that excludes
\* the Rust client and hands over the saved state whole.
MaintenanceSpec == M!MSpec
=============================================================================
