-------------------------- MODULE DeploymentProofs --------------------------
(* Theorems about Deployment, for any number of items of saved state and of *)
(* commands, and any number of deaths and reboots: who excludes whom, what  *)
(* can be recovered, and that the scripts implement Maintenance.            *)
EXTENDS Deployment, TLAPS

(* -------------------------- the inductive invariant --------------------- *)

\* The steps that a script takes with the lock in its hand.
Holding(s) ==
  CASE s = "install" -> {"receipt", "mark", "switch", "scan", "accept", "quarantine",
                         "undo environment", "undo launcher", "commit"}
    [] s = "rollback" -> {"inspect", "stage", "publish", "classify", "swap", "clean",
                          "complete"}
    [] s = "finalize" -> {"mark", "record", "retire", "remove", "commit"}

Shapes ==
  /\ DeploymentTypeOK
  /\ DOMAIN pc = Script /\ writes \in 0..MaxWrites
  /\ launcher = "python" => env = "original"
  /\ \A p \in Python : python[p] = "running" => env = "original"
  /\ pc["rollback"] \in {"off", "lock", "inspect"} => at = 1

\* Whoever holds the lock is alone with it.
LockHolds ==
  /\ \A s \in Script : /\ pc[s] \in {"off", "lock"} \union Holding(s)
                       /\ exclusive = s <=> pc[s] \in Holding(s)
  /\ \A r \in Rust : rust[r] \in {"locked", "running"} => exclusive = Nobody
  /\ \A r \in Rust : rust[r] = "running" => marker.kind = "none"

Saved(i, era) == dest[i] \in Identity /\ dest[i].era = era

\* The saved state is the Rust client's, or all of it is restored.
AllLive == \A i \in Item : Saved(i, "live") /\ parked[i] = Absent
AllRestored == \A i \in Item : Saved(i, "backup") /\ parked[i] = Absent

Whole ==
  \/ AllLive /\ Shape \in {<<"original", "python">>, <<"quarantine", "rust">>}
  \/ AllRestored /\ Shape = <<"original", "python">>

\* The ways an item goes in a rollback.
Waits(i) == Saved(i, "live") /\ stage[i] = Copy /\ parked[i] = Absent
IsBetween(i) ==
  /\ dest[i] = Absent \/ Saved(i, "live")
  /\ stage[i] = Copy /\ parked[i] \notin {Absent, Partial}
IsBack(i) == Saved(i, "backup") /\ stage[i] = Absent

UnderWay ==
  /\ \A i \in Item : Waits(i) \/ IsBetween(i) \/ IsBack(i)
  /\ (\E i \in Item : IsBack(i) /\ parked[i] \in {Absent, Partial}) =>
       env = "original" /\ \A i \in Item : IsBack(i)

\* What the marker says of the deployment is so.
MarkerHolds ==
  /\ marker.kind \in {"none", "finalize"} => Whole
  /\ marker.kind = "install" => AllLive
  /\ marker.kind = "rollback" => UnderWay

\* Until the receipt is there nothing but a first install was at work.
ReceiptHolds ==
  /\ authority = "none" => ~receipt /\ pc["install"] = "off"
  /\ pc["install"] \in {"lock", "receipt"} => ~receipt
  /\ ~receipt => /\ launcher = "python" /\ AllLive /\ marker.kind = "none" /\ ~record
                 /\ pc["rollback"] = "off" /\ pc["finalize"] = "off"

RecordHolds ==
  record => \/ marker.kind = "finalize"
            \/ /\ marker.kind = "none" /\ authority = "gone"
               /\ Shape = <<"quarantine", "rust">>

InstallHolds ==
  /\ pc["install"] = "mark" =>
       receipt /\ marker.kind = "none" /\ launcher = "python" /\ ~record /\ AllLive
  /\ pc["install"] \in {"switch", "scan", "accept", "quarantine", "undo environment",
                       "undo launcher", "commit"} => marker.kind = "install"
  /\ pc["install"] \in {"switch", "undo launcher"} => env = "original"
  /\ pc["install"] \in {"scan", "accept", "quarantine", "undo environment"} =>
       launcher = "rust"
  /\ pc["install"] \in {"accept", "quarantine", "undo environment"} =>
       \A p \in Python : python[p] = "off"
  /\ pc["install"] = "commit" =>
       Shape \in {<<"original", "python">>, <<"quarantine", "rust">>}

RollbackHolds ==
  /\ pc["rollback"] \in {"stage", "publish"} =>
       /\ marker.kind \in {"none", "install"} /\ authority = "ready" /\ AllLive
       /\ \A i \in Item : i < at \/ pc["rollback"] = "publish" => stage[i] = Copy
  /\ pc["rollback"] \in {"classify", "swap", "clean", "complete"} => marker.kind = "rollback"
  /\ pc["rollback"] = "swap" =>
       \A i \in Item :
         /\ i < at \/ plan[i] \in {"cleanup", "complete"} => IsBack(i)
         /\ i >= at /\ plan[i] = "park" => Waits(i)
         /\ i >= at /\ plan[i] = "restore" => IsBetween(i)
  /\ pc["rollback"] \in {"clean", "complete"} => env = "original" /\ \A i \in Item : IsBack(i)
  /\ pc["rollback"] = "complete" => launcher = "python" /\ \A i \in Item : parked[i] = Absent

FinalizeHolds ==
  /\ pc["finalize"] = "mark" => marker.kind = "none"
  /\ pc["finalize"] \in {"record", "retire", "remove", "commit"} => marker.kind = "finalize"
  /\ pc["finalize"] \in {"retire", "remove", "commit"} => record
  /\ pc["finalize"] = "commit" => authority = "gone"

DeployInv ==
  /\ Shapes /\ LockHolds /\ MarkerHolds /\ ReceiptHolds /\ RecordHolds
  /\ InstallHolds /\ RollbackHolds /\ FinalizeHolds

(* ------------------------------- lemmas --------------------------------- *)

\* The holder of the lock is the only script that is past the lock, and no
\* command of the Rust client is.
LEMMA HolderIsAlone ==
  ASSUME LockHolds, NEW s \in Script, pc[s] \in Holding(s)
  PROVE  /\ exclusive = s
         /\ \A t \in Script \ {s} : pc[t] \in {"off", "lock"}
         /\ \A r \in Rust : rust[r] \notin {"locked", "running"}
  BY ObjectsDiffer DEF LockHolds

\* What is saved is an object.
LEMMA ObjectsAre ==
  /\ Copy \in Identity /\ Copy.era = "backup" /\ Copy # Absent /\ Copy # Partial
  /\ \A x \in Identity : x # Absent /\ x # Partial /\ x \in Object
  /\ Absent \in Object /\ Partial \in Object
  BY ObjectsDiffer, DeploymentAssumption DEF Copy, Identity, Object

\* What the invariant says of the saved state is about its paths alone.
LEMMA PathsSay ==
  ASSUME UNCHANGED <<dest, stage, parked>>
  PROVE  /\ AllLive' <=> AllLive
         /\ AllRestored' <=> AllRestored
         /\ \A i \in Item : /\ Waits(i)' <=> Waits(i)
                            /\ IsBetween(i)' <=> IsBetween(i)
                            /\ IsBack(i)' <=> IsBack(i)
  BY DEF AllLive, AllRestored, Waits, IsBetween, IsBack, Saved

\* What it says of the steps of a script is about the files, the commands and
\* that script's progress.
LEMMA StepsSay ==
  ASSUME UNCHANGED <<pc, dest, stage, parked, marker, launcher, env, receipt, record,
                     authority, at, plan>>
  PROVE  /\ RollbackHolds' <=> RollbackHolds
         /\ FinalizeHolds' <=> FinalizeHolds
         /\ UNCHANGED python => (InstallHolds' <=> InstallHolds)
<1>1. Shape' = Shape /\ (AllLive' <=> AllLive)
  BY PathsSay DEF Shape
<1>2. RollbackHolds' <=> RollbackHolds
  BY PathsSay DEF RollbackHolds
<1>3. FinalizeHolds' <=> FinalizeHolds
  BY DEF FinalizeHolds
<1>4. UNCHANGED python => (InstallHolds' <=> InstallHolds)
  BY <1>1 DEF InstallHolds
<1> QED
  BY <1>2, <1>3, <1>4

\* It says nothing of a script that is out of the way.
LEMMA OthersAreOut ==
  /\ pc'["install"] \in {"off", "lock"} => InstallHolds'
  /\ pc'["rollback"] \in {"off", "lock", "inspect"} => RollbackHolds'
  /\ pc'["finalize"] \in {"off", "lock"} => FinalizeHolds'
  BY DEF InstallHolds, RollbackHolds, FinalizeHolds

\* What the marker, the receipt and the record say is about the files.
LEMMA FilesSay ==
  ASSUME UNCHANGED <<dest, stage, parked, marker, launcher, env, record, authority>>
  PROVE  /\ MarkerHolds' <=> MarkerHolds
         /\ RecordHolds' <=> RecordHolds
<1>1. Shape' = Shape
  BY DEF Shape
<1> QED
  BY <1>1, PathsSay DEF MarkerHolds, Whole, UnderWay, RecordHolds

(* ------------------------------- commands ------------------------------- *)

\* Commands that start, take the lock, look for the marker and end.
LEMMA RustKeeps ==
  ASSUME DeployInv, NEW r \in Rust,
         RustStart(r) \/ RustLock(r) \/ RustRun(r) \/ RustEnd(r)
  PROVE  DeployInv'
<1> USE DEF DeployInv, RustStart, RustLock, RustRun, RustEnd, Go, files, memory
<1>1. Shapes'
  BY DEF Shapes, DeploymentTypeOK
<1>2. LockHolds'
  BY DEF LockHolds, Shapes, DeploymentTypeOK
<1>3. MarkerHolds' /\ ReceiptHolds' /\ RecordHolds'
  BY PathsSay, FilesSay DEF ReceiptHolds
<1>4. InstallHolds' /\ RollbackHolds' /\ FinalizeHolds'
  BY StepsSay
<1> QED
  BY <1>1, <1>2, <1>3, <1>4

\* A command of the Python client starts only where its environment is.
LEMMA PythonKeeps ==
  ASSUME DeployInv, NEW p \in Python, PythonStart(p) \/ PythonEnd(p)
  PROVE  DeployInv'
<1> USE DEF DeployInv, PythonStart, PythonEnd, files, memory
<1>1. Shapes'
  BY DEF Shapes, DeploymentTypeOK
<1>2. LockHolds'
  BY DEF LockHolds
<1>3. MarkerHolds' /\ ReceiptHolds' /\ RecordHolds'
  BY PathsSay, FilesSay DEF ReceiptHolds
<1>4. InstallHolds'
  <2>1. /\ Shape' = Shape /\ (AllLive' <=> AllLive)
        /\ UNCHANGED <<pc, marker, launcher, env, receipt, record>>
    BY PathsSay DEF Shape
  <2>2. pc["install"] \in {"accept", "quarantine", "undo environment"} =>
          \A q \in Python : python'[q] = "off"
    BY DEF InstallHolds, Shapes, DeploymentTypeOK
  <2> QED
    BY <2>1, <2>2 DEF InstallHolds
<1>5. RollbackHolds' /\ FinalizeHolds'
  BY StepsSay
<1> QED
  BY <1>1, <1>2, <1>3, <1>4, <1>5

\* A command that writes leaves what is saved to the client that has it, and
\* makes what is not there the Rust client's.
LEMMA WriteKeeps ==
  ASSUME DeployInv, NEW i \in Item, Write(i)
  PROVE  DeployInv'
<1> USE DEF DeployInv, Write, memory
<1>1. /\ dest' = [dest EXCEPT ![i] = dest'[i]]
      /\ \A j \in Item \ {i} : dest'[j] = dest[j]
      /\ dest[i] \in Identity \union {Absent}
      /\ dest'[i] \in Identity
      /\ dest'[i].era = IF dest[i] = Absent THEN "live" ELSE dest[i].era
  <2>1. dest[i] \in Identity \union {Absent}
    BY DEF MarkerHolds, Whole, AllLive, AllRestored, UnderWay, Waits, IsBetween,
        IsBack,
       Saved, Shapes, DeploymentTypeOK
  <2> QED
    BY <2>1, DeploymentAssumption
       DEF Written, Identity, Shapes, DeploymentTypeOK
<1>2. \A j \in Item, era \in {"live", "backup"} : Saved(j, era) => Saved(j, era)'
  BY <1>1, ObjectsAre DEF Saved
<1>3. /\ AllLive => AllLive'
      /\ AllRestored => AllRestored'
      /\ \A j \in Item : /\ Waits(j) => Waits(j)'
                         /\ IsBetween(j) => IsBetween(j)'
                         /\ IsBack(j) => IsBack(j)'
  BY <1>1, <1>2 DEF AllLive, AllRestored, Waits, IsBetween, IsBack, Saved
<1>4. Shapes'
  <2>1. dest' \in [Item -> Object]
    BY <1>1, ObjectsAre DEF Shapes, DeploymentTypeOK
  <2>2. writes' \in 0..MaxWrites
    BY DeploymentAssumption DEF Shapes
  <2> QED
    BY <2>1, <2>2 DEF Shapes, DeploymentTypeOK
<1>5. LockHolds'
  BY DEF LockHolds
<1>6. Shape' = Shape
  BY DEF Shape
<1>7. MarkerHolds' /\ ReceiptHolds' /\ RecordHolds'
  <2>1. \A j \in Item : IsBack(j)' => IsBack(j)
    BY <1>1 DEF MarkerHolds, IsBack, Saved
  <2> QED
  BY <1>3, <1>6, <2>1
     DEF MarkerHolds, Whole, UnderWay, ReceiptHolds, RecordHolds
<1>8. InstallHolds' /\ RollbackHolds' /\ FinalizeHolds'
  BY <1>3, <1>6 DEF InstallHolds, RollbackHolds, FinalizeHolds
<1> QED
  BY <1>4, <1>5, <1>7, <1>8

(* ---------------------- taking and leaving the lock --------------------- *)

\* A script that is off or waits does not hold the lock.
LEMMA OffIsOutside ==
  ASSUME NEW s \in Script
  PROVE  "off" \notin Holding(s) /\ "lock" \notin Holding(s)
BY DEF Script, Holding

\* Who goes on with the lock in its hand is alone with it.
LEMMA HolderSteps ==
  ASSUME DeployInv, NEW s \in Script, NEW step \in Holding(s),
         pc[s] \in Holding(s), To(s, step) \/ (UNCHANGED pc /\ pc[s] = step),
         UNCHANGED <<exclusive, rust>>
  PROVE  /\ LockHolds' /\ DOMAIN pc' = Script /\ pc'[s] = step
         /\ \A t \in Script \ {s} : pc'[t] = pc[t] /\ pc[t] \in {"off", "lock"}
<1>1. pc'[s] = step /\ \A t \in Script \ {s} : pc'[t] = pc[t]
  BY DEF DeployInv, Shapes, To
<1>2. \A t \in Script : (pc'[t] \in Holding(t) <=> pc[t] \in Holding(t))
  BY <1>1
<1>3. DOMAIN pc' = Script
  BY DEF DeployInv, Shapes, To
<1>4. LockHolds
  BY DEF DeployInv
<1>5. \A t \in Script : pc'[t] \in {"off", "lock"} \cup Holding(t)
  BY <1>1, <1>4 DEF LockHolds
<1>6. LockHolds'
  <2>1. \A r \in Rust : rust[r] \notin {"locked", "running"}
    BY <1>4, HolderIsAlone
  <2>2. \A t \in Script : exclusive = t <=> pc'[t] \in Holding(t)
    BY <1>2, <1>4 DEF LockHolds
  <2> QED
    BY <1>5, <2>1, <2>2 DEF LockHolds
<1> QED
  BY <1>1, <1>3, <1>4, <1>6, HolderIsAlone

\* A script takes the lock when nobody has it.
LEMMA TakesLock ==
  ASSUME DeployInv, NEW s \in Script, NEW step \in Holding(s),
         pc[s] \in {"off", "lock"}, TakeLock(s, step)
  PROVE  /\ Shapes' /\ LockHolds' /\ MarkerHolds' /\ RecordHolds' /\ pc'[s] = step
         /\ \A t \in Script \ {s} : pc'[t] = pc[t] /\ pc[t] \in {"off", "lock"}
<1> USE DEF DeployInv, TakeLock, files, memory, commands
<1>1. pc'[s] = step /\ \A t \in Script \ {s} : pc'[t] = pc[t]
  BY DEF Shapes, To
<1>2. \A t \in Script : pc[t] \in {"off", "lock"} /\ pc[t] \notin Holding(t)
  BY ObjectsDiffer DEF LockHolds, LockIsFree, Script, Holding
<1>3. Shapes'
  BY DEF Shapes, DeploymentTypeOK, To
<1>4. LockHolds'
  <2>1. \A t \in Script : /\ pc'[t] \in {"off", "lock"} \union Holding(t)
                          /\ exclusive' = t <=> pc'[t] \in Holding(t)
    BY <1>1, <1>2
  <2> QED
    BY <2>1 DEF LockHolds, LockIsFree, Holding
<1>5. MarkerHolds' /\ RecordHolds'
  BY FilesSay
<1> QED
  BY <1>1, <1>2, <1>3, <1>4, <1>5

\* A copy that a rollback without a marker was making, or a parked item that one
\* with everything restored was removing, may be in any shape: nothing that the
\* marker says is about them.
LEMMA CutShortKeeps ==
  ASSUME DeployInv,
         UNCHANGED <<launcher, env, dest, marker, authority, record>>,
         \/ UNCHANGED <<stage, parked>>
         \/ marker.kind # "rollback" /\ UNCHANGED parked
         \/ pc["rollback"] = "clean" /\ UNCHANGED stage
  PROVE  MarkerHolds' /\ RecordHolds' /\ Shape' = Shape /\ (AllLive' <=> AllLive)
<1> USE DEF DeployInv
<1>1. Shape' = Shape
  BY DEF Shape
<1>2. CASE UNCHANGED <<stage, parked>>
  BY <1>1, <1>2, FilesSay, PathsSay
<1>3. CASE marker.kind # "rollback" /\ UNCHANGED parked
  <2>1. (AllLive' <=> AllLive) /\ (AllRestored' <=> AllRestored)
    BY <1>3 DEF AllLive, AllRestored, Saved
  <2> QED
    BY <1>1, <1>3, <2>1 DEF MarkerHolds, Whole, RecordHolds
<1>4. CASE pc["rollback"] = "clean" /\ UNCHANGED stage
  <2>1. marker.kind = "rollback" /\ env = "original" /\ \A i \in Item : IsBack(i)
    BY <1>4 DEF RollbackHolds
  <2>2. \A i \in Item : IsBack(i)'
    BY <1>4, <2>1 DEF IsBack, Saved
  <2>3. MarkerHolds'
    BY <2>1, <2>2 DEF MarkerHolds, UnderWay
  <2>4. ~AllLive /\ ~AllLive'
    <3>1. 1 \in Item
      BY DeploymentAssumption DEF Item
    <3> QED
      BY <2>1, <2>2, <3>1 DEF AllLive, IsBack, Saved
  <2> QED
    BY <1>1, <2>3, <2>4 DEF RecordHolds
<1> QED
  BY <1>2, <1>3, <1>4

\* What is cut off where the scripts stop is such a copy or such a parked item.
LEMMA CutOffLeaves ==
  ASSUME DeployInv, CutOff
  PROVE  /\ stage' \in [Item -> Object] /\ parked' \in [Item -> Object]
         /\ \/ UNCHANGED <<stage, parked>>
            \/ marker.kind # "rollback" /\ UNCHANGED parked
            \/ pc["rollback"] = "clean" /\ UNCHANGED stage
<1>1. stage \in [Item -> Object] /\ parked \in [Item -> Object]
  BY DEF DeployInv, Shapes, DeploymentTypeOK
<1>2. pc["rollback"] = "stage" => marker.kind # "rollback"
  BY DEF DeployInv, RollbackHolds
<1> QED
  BY <1>1, <1>2, ObjectsAre DEF CutOff

\* A script that exits or dies leaves the files as they are, but for the copies
\* that a rollback without a marker was making and the parked items that one with
\* everything restored was removing.
LEMMA ExitKeeps ==
  ASSUME DeployInv, NEW s \in Script, Exit(s),
         UNCHANGED <<launcher, env, dest, marker, pending, receipt, authority, bound,
                     acceptance, record, commands, device>>,
         stage' \in [Item -> Object], parked' \in [Item -> Object],
         \/ UNCHANGED <<stage, parked>>
         \/ s = "rollback" /\ marker.kind # "rollback" /\ UNCHANGED parked
         \/ s = "rollback" /\ pc[s] = "clean" /\ UNCHANGED stage
  PROVE  DeployInv'
<1> USE DEF DeployInv, Exit, commands
<1>1. pc'[s] = "off" /\ \A t \in Script \ {s} : pc'[t] = pc[t]
  BY DEF Shapes, To
<1>2. Shapes'
  <2>1. Forget => at' = 1 /\ plan' \in [Item -> {"park", "restore", "cleanup", "complete"}]
                  /\ seen' \in [Item -> Object] /\ remapped' \in BOOLEAN
    <3>1. [era |-> "live", gen |-> 0] \in Identity
      BY DeploymentAssumption DEF Identity
    <3> QED
      BY <3>1, ObjectsAre DEF Forget, NoPlan, Live
  <2>2. 1 \in 1..(N + 1)
    BY DeploymentAssumption
  <2>3. exclusive' \in Script \union {Nobody} /\ DOMAIN pc' = Script
    BY DEF Shapes, DeploymentTypeOK, To
  <2>4. pc'["rollback"] \in {"off", "lock", "inspect"} => at' = 1
    BY <1>1, <2>1 DEF Shapes, Script, memory
  <2> QED
    BY <2>1, <2>2, <2>3, <2>4 DEF Shapes, DeploymentTypeOK, memory
<1>3. LockHolds'
  <2>1. "off" \notin Holding(s)
    BY DEF Script, Holding
  <2>2. \A t \in Script : /\ pc'[t] \in {"off", "lock"} \union Holding(t)
                          /\ exclusive' = t <=> pc'[t] \in Holding(t)
    BY <1>1, <2>1, ObjectsDiffer DEF LockHolds
  <2> QED
    BY <2>2 DEF LockHolds, Holding
<1>4. Shape' = Shape /\ (AllLive' <=> AllLive) /\ MarkerHolds' /\ RecordHolds'
  BY CutShortKeeps
<1>6. ReceiptHolds'
  BY <1>1, <1>4 DEF ReceiptHolds, Script
<1>7. InstallHolds'
  <2>1. CASE s = "install"
    BY <1>1, <2>1, OthersAreOut
  <2>2. CASE s # "install"
    BY <1>1, <1>4, <2>2 DEF InstallHolds, Script
  <2> QED
    BY <2>1, <2>2
<1>8. RollbackHolds'
  <2>1. CASE s = "rollback"
    BY <1>1, <2>1, OthersAreOut
  <2>2. CASE s # "rollback"
    BY <1>1, <1>4, <2>2, PathsSay DEF RollbackHolds, Script, memory
  <2> QED
    BY <2>1, <2>2
<1>9. FinalizeHolds'
  <2>1. CASE s = "finalize"
    BY <1>1, <2>1, OthersAreOut
  <2>2. CASE s # "finalize"
    BY <1>1, <1>4, <2>2 DEF FinalizeHolds, Script
  <2> QED
    BY <2>1, <2>2
<1> QED
  BY <1>2, <1>3, <1>4, <1>6, <1>7, <1>8, <1>9

\* So does one that fails.
LEMMA FailKeeps ==
  ASSUME DeployInv, NEW s \in Script, Fails(s)
  PROVE  DeployInv'
<1>1. stage' \in [Item -> Object] /\ parked' \in [Item -> Object]
  BY DEF Fails, files, DeployInv, Shapes, DeploymentTypeOK
<1> QED
  BY <1>1, ExitKeeps DEF Fails, files

(* ------------------------------- install -------------------------------- *)

\* The install begins where nothing was installed before.
LEMMA InstallBeginKeeps == ASSUME DeployInv, InstallBegin PROVE DeployInv'
<1> USE DEF DeployInv, InstallBegin, Steps, Calm, commands, memory
<1>1. /\ DOMAIN pc' = Script /\ pc'["install"] = "lock" /\ pc["install"] = "off"
      /\ \A s \in Script \ {"install"} : pc'[s] = pc[s]
  BY DEF Shapes, To, Script
<1>2. /\ ~receipt /\ launcher = "python" /\ AllLive /\ marker.kind = "none" /\ ~record
      /\ pc["rollback"] = "off" /\ pc["finalize"] = "off"
  BY DEF ReceiptHolds
<1>3. Shapes'
  BY <1>1 DEF Shapes, DeploymentTypeOK, Script
<1>4. LockHolds'
  <2>1. \A s \in Script : pc'[s] \in Holding(s) <=> pc[s] \in Holding(s)
    BY <1>1 DEF Holding
  <2> QED
    BY <1>1, <2>1 DEF LockHolds
<1>5. AllLive' /\ Shape' = <<"original", "python">>
  <2>1. env = "original"
    BY <1>2 DEF Shapes
  <2>2. UNCHANGED <<dest, stage, parked, launcher, env>>
    OBVIOUS
  <2>3. AllLive'
    BY <1>2, <2>2, PathsSay
  <2> QED
    BY <1>2, <2>1, <2>2, <2>3 DEF Shape
<1>6. MarkerHolds' /\ RecordHolds' /\ ReceiptHolds'
  BY <1>1, <1>2, <1>5 DEF MarkerHolds, Whole, RecordHolds, ReceiptHolds, Script
<1>7. InstallHolds' /\ RollbackHolds' /\ FinalizeHolds'
  BY <1>1, <1>2, OthersAreOut DEF Script
<1> QED
  BY <1>3, <1>4, <1>6, <1>7

\* It takes the lock.
LEMMA InstallLockKeeps == ASSUME DeployInv, InstallLock PROVE DeployInv'
<1>1. "receipt" \in Holding("install") /\ "install" \in Script
  BY DEF Holding, Script
<1>2. /\ Shapes' /\ LockHolds' /\ MarkerHolds' /\ RecordHolds'
      /\ pc'["install"] = "receipt" /\ pc["install"] = "lock"
      /\ \A t \in Script \ {"install"} : pc'[t] = pc[t] /\ pc[t] \in {"off", "lock"}
  BY <1>1, TakesLock DEF InstallLock
<1>3. ReceiptHolds'
  BY <1>2, PathsSay
     DEF DeployInv, ReceiptHolds, InstallLock, TakeLock, files, Script
<1>4. InstallHolds'
  BY <1>2 DEF InstallHolds
<1>5. RollbackHolds' /\ FinalizeHolds'
  BY <1>2, OthersAreOut DEF Script
<1> QED
  BY <1>2, <1>3, <1>4, <1>5 DEF DeployInv

\* The receipt is written over what was there before.
LEMMA InstallReceiptKeeps == ASSUME DeployInv, InstallReceipt PROVE DeployInv'
<1> USE DEF DeployInv, InstallReceipt, Steps, Calm, commands, memory
<1>1. /\ LockHolds' /\ DOMAIN pc' = Script /\ pc'["install"] = "mark"
      /\ \A t \in Script \ {"install"} : pc'[t] = pc[t] /\ pc[t] \in {"off", "lock"}
  BY HolderSteps DEF Holding, Script
<1>2. launcher = "python" /\ AllLive /\ ~record /\ authority # "none"
  BY DEF ReceiptHolds
<1>3. Shapes'
  BY <1>1 DEF Shapes, DeploymentTypeOK, Script
<1>4. AllLive' /\ Shape' = <<"original", "python">>
  BY <1>2, PathsSay DEF Shape, Shapes
<1>5. MarkerHolds' /\ RecordHolds' /\ ReceiptHolds' /\ InstallHolds'
  BY <1>1, <1>2, <1>4
     DEF MarkerHolds, Whole, RecordHolds, ReceiptHolds, InstallHolds
<1>6. RollbackHolds' /\ FinalizeHolds'
  BY <1>1, OthersAreOut DEF Script
<1> QED
  BY <1>1, <1>3, <1>5, <1>6

\* So is the marker.
LEMMA InstallMarkKeeps == ASSUME DeployInv, InstallMark PROVE DeployInv'
<1> USE DEF DeployInv, InstallMark, Steps, Calm, commands, memory
<1>1. /\ LockHolds' /\ DOMAIN pc' = Script /\ pc'["install"] = "switch"
      /\ \A t \in Script \ {"install"} : pc'[t] = pc[t] /\ pc[t] \in {"off", "lock"}
  BY HolderSteps DEF Holding, Script
<1>2. receipt /\ env = "original" /\ AllLive /\ ~record /\ authority # "none"
  BY DEF ReceiptHolds, InstallHolds, Shapes
<1>3. marker' \in [kind : {"install"}, device : 0..MaxDevice, live : [Item -> Object]]
  <2>1. [era |-> "live", gen |-> 0] \in Object
    BY DeploymentAssumption DEF Object, Identity
  <2> QED
    BY <2>1 DEF Marker, Live, Shapes, DeploymentTypeOK
<1>4. Shapes'
  BY <1>1, <1>3 DEF Shapes, DeploymentTypeOK, Script
<1>5. AllLive'
  BY <1>2, PathsSay
<1>6. MarkerHolds' /\ RecordHolds' /\ ReceiptHolds' /\ InstallHolds'
  BY <1>1, <1>2, <1>3, <1>5
     DEF MarkerHolds, RecordHolds, ReceiptHolds, InstallHolds
<1>7. RollbackHolds' /\ FinalizeHolds'
  BY <1>1, OthersAreOut DEF Script
<1> QED
  BY <1>1, <1>4, <1>6, <1>7

\* What the install may leave behind under its marker.
Fits(step, named, place) ==
  /\ step \in {"scan", "accept", "quarantine", "undo environment"} => named = "rust"
  /\ step = "undo launcher" => place = "original"
  /\ step = "commit" =>
       <<place, named>> \in {<<"original", "python">>, <<"quarantine", "rust">>}
  /\ step \in {"accept", "quarantine", "undo environment"} =>
       \A p \in Python : python[p] = "off"
  /\ named = "python" => place = "original"
  /\ \A p \in Python : python[p] = "running" => place = "original"

\* It keeps the invariant with whatever fits.
LEMMA InstallGoesOn ==
  ASSUME DeployInv,
         NEW step \in {"scan", "accept", "quarantine", "commit", "undo environment",
                       "undo launcher"},
         To("install", step),
         pc["install"] \in Holding("install") \ {"receipt", "mark"}, Calm,
         UNCHANGED <<dest, stage, parked, marker, pending, receipt, record, authority,
                     bound>>,
         launcher' \in {"python", "rust"}, env' \in {"original", "quarantine"},
         acceptance' \in {"preinstall", "installed", "accepted"},
         Fits(step, launcher', env')
  PROVE  DeployInv'
<1> USE DEF DeployInv, Calm, commands, memory
<1>1. /\ LockHolds' /\ DOMAIN pc' = Script /\ pc'["install"] = step
      /\ \A t \in Script \ {"install"} : pc'[t] = pc[t] /\ pc[t] \in {"off", "lock"}
  BY HolderSteps DEF Holding, Script
<1>2. marker.kind = "install" /\ AllLive /\ receipt /\ ~record /\ pc["install"] # "off"
  BY DEF Holding, MarkerHolds, ReceiptHolds, RecordHolds, InstallHolds
<1>3. Shapes'
  <2>1. /\ launcher' = "python" => env' = "original"
        /\ \A p \in Python : python'[p] = "running" => env' = "original"
    BY DEF Fits
  <2>2. pc'["rollback"] = pc["rollback"]
    BY <1>1 DEF Script
  <2>3. DeploymentTypeOK'
    BY <1>1 DEF Shapes, DeploymentTypeOK
  <2> QED
    BY <1>1, <2>1, <2>2, <2>3 DEF Shapes
<1>4. AllLive'
  BY <1>2, PathsSay
<1>5. MarkerHolds' /\ RecordHolds' /\ ReceiptHolds'
  BY <1>1, <1>2, <1>4 DEF MarkerHolds, RecordHolds, ReceiptHolds
<1>6. InstallHolds'
  BY <1>1, <1>2 DEF InstallHolds, Fits, Shape
<1>7. RollbackHolds' /\ FinalizeHolds'
  BY <1>1, OthersAreOut DEF Script
<1> QED
  BY <1>1, <1>3, <1>5, <1>6, <1>7

\* Under the marker launcher and environment change in an order that leaves
\* no Python command without its files.
LEMMA InstallGoesOnKeeps ==
  ASSUME DeployInv,
         \/ InstallSwitch \/ InstallScan \/ InstallAccept \/ InstallQuarantine
         \/ UndoEnvironment \/ UndoLauncher
  PROVE  DeployInv'
<1> USE DEF Steps, Fits, Holding, DeployInv, Shapes, DeploymentTypeOK,
        InstallHolds
<1>1. ASSUME InstallSwitch PROVE DeployInv'
  BY <1>1, InstallGoesOn DEF InstallSwitch
<1>2. ASSUME InstallScan PROVE DeployInv'
  BY <1>2, InstallGoesOn DEF InstallScan, files, Quiet
<1>3. ASSUME InstallAccept PROVE DeployInv'
  BY <1>3, InstallGoesOn DEF InstallAccept
<1>4. ASSUME InstallQuarantine PROVE DeployInv'
  BY <1>4, InstallGoesOn DEF InstallQuarantine
<1>5. ASSUME UndoEnvironment PROVE DeployInv'
  BY <1>5, InstallGoesOn DEF UndoEnvironment
<1>6. ASSUME UndoLauncher PROVE DeployInv'
  BY <1>6, InstallGoesOn DEF UndoLauncher
<1> QED
  BY <1>1, <1>2, <1>3, <1>4, <1>5, <1>6

\* A script that removes its marker leaves the deployment whole.
LEMMA UnmarkKeeps ==
  ASSUME DeployInv, NEW s \in Script, pc[s] \in Holding(s), Unmark(s), Whole, receipt,
         record => authority = "gone" /\ Shape = <<"quarantine", "rust">>
  PROVE  DeployInv'
<1> USE DEF DeployInv, Unmark, Exit, commands
<1>1. /\ exclusive = s /\ exclusive' = Nobody /\ pc'[s] = "off" /\ DOMAIN pc' = Script
      /\ \A t \in Script \ {s} : pc'[t] = pc[t] /\ pc[t] \in {"off", "lock"}
      /\ \A r \in Rust : rust[r] \notin {"locked", "running"}
  BY HolderIsAlone DEF Shapes, To
<1>2. Shapes'
  <2>1. 1 \in 1..(N + 1) /\ [era |-> "live", gen |-> 0] \in Object
    BY DeploymentAssumption DEF Object, Identity
  <2>2. /\ at' \in 1..(N + 1) /\ remapped' \in BOOLEAN /\ seen' \in [Item -> Object]
        /\ plan' \in [Item -> {"park", "restore", "cleanup", "complete"}]
    BY <2>1 DEF Forget, NoPlan, Live, memory, Shapes, DeploymentTypeOK
  <2>3. marker' \in [kind : {"none"}, device : 0..MaxDevice, live : [Item -> Object]]
    BY <2>1, DeploymentAssumption DEF NoMarker, Live
  <2>4. pc'["rollback"] \in {"off", "lock", "inspect"} => at' = 1
    BY <1>1 DEF Shapes, Script, Forget, memory
  <2> QED
    BY <1>1, <2>2, <2>3, <2>4 DEF Shapes, DeploymentTypeOK
<1>3. LockHolds'
  <2>1. \A t \in Script : pc'[t] \in {"off", "lock"}
    BY <1>1
  <2>2. \A t \in Script : pc'[t] \notin Holding(t)
    BY <2>1, OffIsOutside
  <2> QED
    BY <1>1, <2>1, <2>2, ObjectsDiffer DEF LockHolds
<1>4. Whole' /\ Shape' = Shape /\ marker'.kind = "none"
  BY PathsSay DEF Whole, Shape, NoMarker, AllLive, AllRestored, Saved
<1>5. UNCHANGED <<receipt, record, authority>>
  OBVIOUS
<1>6. MarkerHolds' /\ RecordHolds'
  BY <1>4, <1>5 DEF MarkerHolds, RecordHolds
<1>7. ReceiptHolds'
  <2>1. authority # "none"
    BY <1>1 DEF ReceiptHolds, Script, Holding
  <2>2. pc'["install"] \notin {"lock", "receipt"}
    BY <1>1 DEF ReceiptHolds, Script
  <2> QED
    BY <1>5, <2>1, <2>2 DEF ReceiptHolds
<1>8. InstallHolds' /\ RollbackHolds' /\ FinalizeHolds'
  BY <1>1, OthersAreOut DEF Script
<1> QED
  BY <1>2, <1>3, <1>6, <1>7, <1>8

\* The install ends with one client whole, or gives up before its marker.
LEMMA InstallEndKeeps ==
  ASSUME DeployInv, InstallCommit \/ InstallFails
  PROVE  DeployInv'
<1>1. "install" \in Script /\ "commit" \in Holding("install")
  BY DEF Script, Holding
<1>2. ASSUME InstallCommit PROVE DeployInv'
  <2>1. /\ pc["install"] = "commit" /\ marker.kind = "install" /\ Whole /\ ~record
        /\ receipt
    BY <1>2
       DEF InstallCommit, DeployInv, InstallHolds, MarkerHolds, Whole,
           RecordHolds,
       ReceiptHolds
  <2> QED
    BY <1>1, <1>2, <2>1, UnmarkKeeps DEF InstallCommit
<1> QED
  BY <1>1, <1>2, FailKeeps DEF InstallFails

\* The operator's acceptance changes nothing that the invariant is about.
LEMMA AcceptKeeps == ASSUME DeployInv, Accept PROVE DeployInv'
<1> USE DEF DeployInv, Accept, memory, commands
<1>1. Shapes'
  BY DEF Shapes, DeploymentTypeOK
<1>2. LockHolds' /\ ReceiptHolds'
  BY PathsSay DEF LockHolds, ReceiptHolds
<1>3. MarkerHolds' /\ RecordHolds'
  BY FilesSay
<1>4. InstallHolds' /\ RollbackHolds' /\ FinalizeHolds'
  BY StepsSay
<1> QED
  BY <1>1, <1>2, <1>3, <1>4

(* ------------------------------- finalize ------------------------------- *)

\* A finalisation begins, and takes the lock.
LEMMA FinalizeBeginKeeps == ASSUME DeployInv, FinalizeBegin PROVE DeployInv'
<1> USE DEF DeployInv, FinalizeBegin, Steps, Calm, files, commands, memory
<1>1. /\ DOMAIN pc' = Script /\ pc'["finalize"] = "lock" /\ pc["finalize"] = "off"
      /\ \A s \in Script \ {"finalize"} : pc'[s] = pc[s]
  BY DEF Shapes, To, Script
<1>2. Shapes' /\ LockHolds'
  <2>1. Shapes'
    BY <1>1 DEF Shapes, DeploymentTypeOK, Script
  <2>2. LockHolds'
    BY <1>1 DEF LockHolds, Holding, Script
  <2> QED
    BY <2>1, <2>2
<1>3. Shape' = Shape /\ (AllLive' <=> AllLive)
  BY PathsSay DEF Shape
<1>4. MarkerHolds' /\ RecordHolds' /\ ReceiptHolds'
  BY <1>1, <1>3, FilesSay DEF ReceiptHolds, Script
<1>5. InstallHolds' /\ FinalizeHolds'
  BY <1>1, <1>3, OthersAreOut DEF InstallHolds, Script
<1>6. RollbackHolds'
  BY <1>1, <1>3, PathsSay DEF RollbackHolds, Script
<1> QED
  BY <1>2, <1>4, <1>5, <1>6

\* It takes the lock when there is no marker, or with its own.
LEMMA FinalizeLockKeeps ==
  ASSUME DeployInv, FinalizeLock \/ FinalizeResume
  PROVE  DeployInv'
<1>1. PICK step \in {"mark", "record"} :
         /\ TakeLock("finalize", step) /\ pc["finalize"] \in {"off", "lock"}
         /\ marker.kind = IF step = "mark" THEN "none" ELSE "finalize"
         /\ step = "mark" => pc["finalize"] = "lock"
  BY DEF FinalizeLock, FinalizeResume
<1>2. step \in Holding("finalize") /\ "finalize" \in Script
  BY DEF Holding, Script
<1>3. /\ Shapes' /\ LockHolds' /\ MarkerHolds' /\ RecordHolds' /\ pc'["finalize"] = step
      /\ \A t \in Script \ {"finalize"} : pc'[t] = pc[t] /\ pc[t] \in {"off", "lock"}
  BY <1>1, <1>2, TakesLock
<1>4. UNCHANGED files
  BY <1>1 DEF TakeLock
<1>5. ReceiptHolds'
  BY <1>1, <1>3, <1>4, PathsSay DEF DeployInv, ReceiptHolds, files, Script
<1>6. FinalizeHolds'
  BY <1>1, <1>3, <1>4 DEF FinalizeHolds, files
<1>7. InstallHolds' /\ RollbackHolds'
  BY <1>3, OthersAreOut DEF Script
<1> QED
  BY <1>3, <1>5, <1>6, <1>7 DEF DeployInv

\* The marker, the record, and the end of the rollback's authority.
LEMMA FinalizeGoesOn ==
  ASSUME DeployInv, FinalizeMark \/ Record \/ Retire \/ Remove
  PROVE  DeployInv'
<1> USE DEF DeployInv, Steps, Calm, commands, memory
<1>1. /\ pc["finalize"] \in {"mark", "record", "retire", "remove"}
      /\ marker.kind \in {"none", "finalize"} /\ receipt
      /\ UNCHANGED <<dest, stage, parked, launcher, env, receipt>>
  BY DEF FinalizeMark, Record, Retire, Remove, FinalizeHolds, ReceiptHolds
<1>2. PICK step \in {"record", "retire", "remove", "commit"} :
         /\ To("finalize", step) /\ UNCHANGED <<exclusive, rust>>
         /\ step \in {"retire", "remove", "commit"} => record'
         /\ step = "commit" => authority' = "gone"
  BY DEF FinalizeMark, Record, Retire, Remove, FinalizeHolds
<1>3. /\ LockHolds' /\ DOMAIN pc' = Script /\ pc'["finalize"] = step
      /\ \A t \in Script \ {"finalize"} : pc'[t] = pc[t] /\ pc[t] \in {"off", "lock"}
  BY <1>1, <1>2, HolderSteps DEF Holding, Script
<1>4. marker'.kind = "finalize" /\ (authority' = "none" => authority = "none")
  BY DEF FinalizeMark, Record, Retire, Remove, FinalizeHolds, Marker
<1>5. Shapes'
  <2>1. [era |-> "live", gen |-> 0] \in Object
    BY DeploymentAssumption DEF Object, Identity
  <2>2. marker' \in [kind : {"none", "install", "rollback", "finalize"},
                     device : 0..MaxDevice, live : [Item -> Object]]
    BY <2>1 DEF FinalizeMark, Record, Retire, Remove, Marker, Live, Shapes,
       DeploymentTypeOK
  <2>3. record' \in BOOLEAN /\ authority' \in {"none", "ready", "retired", "gone"}
    BY DEF FinalizeMark, Record, Retire, Remove, Shapes, DeploymentTypeOK
  <2>4. UNCHANGED <<pending, bound, acceptance, at, plan, seen, remapped, rust, python,
                    writes, device, exclusive>>
    BY DEF FinalizeMark, Record, Retire, Remove
  <2> QED
    BY <1>1, <1>3, <2>2, <2>3, <2>4 DEF Shapes, DeploymentTypeOK, Script
<1>6. Shape' = Shape /\ (AllLive' <=> AllLive) /\ (AllRestored' <=> AllRestored)
  BY <1>1, PathsSay DEF Shape
<1>7. MarkerHolds' /\ RecordHolds' /\ ReceiptHolds'
  BY <1>1, <1>3, <1>4, <1>6
     DEF MarkerHolds, Whole, RecordHolds, ReceiptHolds, Script
<1>8. FinalizeHolds'
  BY <1>2, <1>3, <1>4 DEF FinalizeHolds
<1>9. InstallHolds' /\ RollbackHolds'
  BY <1>3, OthersAreOut DEF Script
<1> QED
  BY <1>3, <1>5, <1>7, <1>8, <1>9

\* A finalisation ends with the Rust client whole, or keeps its marker.
LEMMA FinalizeEndKeeps ==
  ASSUME DeployInv, FinalizeCommit \/ FinalizeFails
  PROVE  DeployInv'
<1>1. "finalize" \in Script /\ "commit" \in Holding("finalize")
  BY DEF Script, Holding
<1>2. ASSUME FinalizeCommit PROVE DeployInv'
  <2>1. /\ pc["finalize"] = "commit" /\ marker.kind = "finalize" /\ Whole /\ receipt
        /\ authority = "gone" /\ Shape = <<"quarantine", "rust">>
    BY <1>2
       DEF FinalizeCommit, DeployInv, FinalizeHolds, MarkerHolds, ReceiptHolds,
       Whole, Shape
  <2> QED
    BY <1>1, <1>2, <2>1, UnmarkKeeps DEF FinalizeCommit
<1> QED
  BY <1>1, <1>2, FailKeeps DEF FinalizeFails

(* ------------------------------- rollback ------------------------------- *)

\* A rollback begins where there is a receipt, and remembers its authorization.
LEMMA RollbackBeginKeeps == ASSUME DeployInv, RollbackBegin PROVE DeployInv'
<1> USE DEF DeployInv, RollbackBegin, Steps, files, commands
<1>1. /\ DOMAIN pc' = Script /\ pc'["rollback"] = "lock" /\ pc["rollback"] = "off"
      /\ \A s \in Script \ {"rollback"} : pc'[s] = pc[s]
  BY DEF Shapes, To, Script
<1>2. Shapes'
  BY <1>1 DEF Shapes, DeploymentTypeOK, Script
<1>3. LockHolds'
  <2>1. \A s \in Script : /\ pc'[s] \in {"off", "lock"} \cup Holding(s)
                          /\ pc'[s] \in Holding(s) <=> pc[s] \in Holding(s)
    BY <1>1, OffIsOutside DEF LockHolds
  <2> QED
    BY <2>1 DEF LockHolds
<1>4. Shape' = Shape /\ (AllLive' <=> AllLive)
  BY PathsSay DEF Shape
<1>5. MarkerHolds' /\ RecordHolds' /\ ReceiptHolds'
  BY <1>1, <1>4, FilesSay DEF ReceiptHolds, Script
<1>6. RollbackHolds'
  BY <1>1, OthersAreOut
<1>7. InstallHolds'
  BY <1>1, <1>4 DEF InstallHolds, Script
<1>8. FinalizeHolds'
  BY <1>1 DEF FinalizeHolds, Script
<1> QED
  BY <1>2, <1>3, <1>5, <1>6, <1>7, <1>8

\* It takes the lock.
LEMMA RollbackLockKeeps == ASSUME DeployInv, RollbackLock PROVE DeployInv'
<1>1. "inspect" \in Holding("rollback") /\ "rollback" \in Script
  BY DEF Holding, Script
<1>2. /\ Shapes' /\ LockHolds' /\ MarkerHolds' /\ RecordHolds'
      /\ pc'["rollback"] = "inspect" /\ pc["rollback"] = "lock"
      /\ \A t \in Script \ {"rollback"} : pc'[t] = pc[t] /\ pc[t] \in {"off", "lock"}
  BY <1>1, TakesLock DEF RollbackLock
<1>3. ReceiptHolds'
  BY <1>2, PathsSay
     DEF DeployInv, ReceiptHolds, RollbackLock, TakeLock, files, Script
<1>4. RollbackHolds' /\ InstallHolds' /\ FinalizeHolds'
  BY <1>2, OthersAreOut DEF Script
<1> QED
  BY <1>2, <1>3, <1>4 DEF DeployInv

\* Nothing is lost when it stops: the copies it was making are its own.
LEMMA RollbackStopsKeeps ==
  ASSUME DeployInv, RollbackIsDone \/ RollbackFails \/ StagingFails
  PROVE  DeployInv'
<1>1. "rollback" \in Script
  BY DEF Script
<1>2. ASSUME StagingFails PROVE DeployInv'
  <2>1. /\ stage' \in [Item -> Object] /\ parked' \in [Item -> Object]
        /\ marker.kind # "rollback" /\ UNCHANGED parked
    BY <1>2, ObjectsAre DEF StagingFails, DeployInv, Shapes, DeploymentTypeOK
  <2> QED
    BY <1>1, <1>2, <2>1, ExitKeeps DEF StagingFails
<1> QED
  BY <1>1, <1>2, FailKeeps DEF RollbackIsDone, RollbackFails

\* A script dies, wherever it is.
LEMMA CrashKeeps == ASSUME DeployInv, NEW s \in Script, Crash(s) PROVE DeployInv'
<1>1. CASE s = "rollback"
  BY <1>1, CutOffLeaves, ExitKeeps DEF Crash
<1>2. CASE s # "rollback"
  <2>1. stage' \in [Item -> Object] /\ parked' \in [Item -> Object]
    BY <1>2 DEF Crash, DeployInv, Shapes, DeploymentTypeOK
  <2> QED
    BY <1>2, <2>1, ExitKeeps DEF Crash
<1> QED
  BY <1>1, <1>2

\* A rollback without a marker finds the Rust client's state whole.
LEMMA PreparesWhole ==
  ASSUME DeployInv, RollbackPrepare
  PROVE  /\ marker.kind \in {"none", "install"} /\ authority = "ready" /\ AllLive /\ at = 1
         /\ pc["rollback"] = "inspect" /\ "rollback" \in Script
  BY DEF RollbackPrepare, Inspected, Restored, DeployInv, MarkerHolds, Whole,
      Shapes, Script

\* While it stages copies under no marker of its own nothing else changes.
LEMMA StagingKeeps ==
  ASSUME DeployInv, RollbackPrepare \/ StageItem \/ WritePending
  PROVE  DeployInv'
<1> USE DEF DeployInv, Steps
<1>1. /\ pc["rollback"] \in {"inspect", "stage"}
      /\ marker.kind \in {"none", "install"} /\ authority = "ready" /\ AllLive
      /\ UNCHANGED <<dest, parked, launcher, env, receipt, record, marker, authority,
                     bound, acceptance, plan, remapped, device, exclusive, rust, python,
                     writes>>
  BY PreparesWhole
     DEF RollbackPrepare, StageItem, WritePending, RollbackHolds, memory,
     commands
<1>2. PICK step \in {"stage", "publish"} :
         /\ To("rollback", step) \/ (UNCHANGED pc /\ pc["rollback"] = step)
         /\ \A i \in Item : i < at' \/ step = "publish" => stage'[i] = Copy
  <2>1. ASSUME RollbackPrepare
        PROVE  To("rollback", "stage") /\ \A i \in Item : ~(i < at')
    <3>1. at' = 1
      BY <2>1, PreparesWhole DEF RollbackPrepare, memory
    <3>2. To("rollback", "stage")
      BY <2>1 DEF RollbackPrepare
    <3> QED
      BY <3>1, <3>2, DeploymentAssumption DEF Item
  <2>2. ASSUME StageItem
        PROVE  /\ UNCHANGED pc /\ pc["rollback"] = "stage"
               /\ \A i \in Item : i < at' => stage'[i] = Copy
    <3>1. /\ DOMAIN stage = Item /\ at' = at + 1 /\ at \in Item
          /\ stage' = [stage EXCEPT ![at] = Copy]
      BY <2>2, DeploymentAssumption
         DEF StageItem, Shapes, DeploymentTypeOK, Item
    <3>2. \A i \in Item : i < at => stage[i] = Copy
      BY <2>2 DEF StageItem, RollbackHolds
    <3>3. \A i \in Item : i < at' => i < at \/ i = at
      BY <3>1, DeploymentAssumption DEF Item
    <3>4. \A i \in Item : i < at' => stage'[i] = Copy
      BY <3>1, <3>2, <3>3
    <3> QED
      BY <2>2, <3>4 DEF StageItem
  <2>3. ASSUME WritePending
        PROVE  To("rollback", "publish") /\ \A i \in Item : stage'[i] = Copy
    <3>1. \A i \in Item : i < at
      BY <2>3, DeploymentAssumption DEF WritePending, Item
    <3> QED
      BY <2>3, <3>1 DEF WritePending, RollbackHolds
  <2> QED
    BY <2>1, <2>2, <2>3
<1>3. /\ LockHolds' /\ DOMAIN pc' = Script /\ pc'["rollback"] = step
      /\ \A t \in Script \ {"rollback"} : pc'[t] = pc[t] /\ pc[t] \in {"off", "lock"}
  BY <1>1, <1>2, HolderSteps DEF Holding, Script
<1>4. AllLive' /\ Shape' = Shape /\ (AllRestored' <=> AllRestored)
  BY <1>1 DEF AllLive, AllRestored, Saved, Shape
<1>5. Shapes'
  <2>1. stage' \in [Item -> Object]
    BY ObjectsAre
       DEF RollbackPrepare, StageItem, WritePending, Shapes, DeploymentTypeOK
  <2>3. pending' \in BOOLEAN
    BY DEF RollbackPrepare, StageItem, WritePending, Shapes, DeploymentTypeOK
  <2>4. seen' \in [Item -> Object]
    BY DEF RollbackPrepare, StageItem, WritePending, Shapes, DeploymentTypeOK,
        memory
  <2>2. at' \in 1..(N + 1)
    BY DeploymentAssumption
       DEF RollbackPrepare, StageItem, WritePending, Shapes, DeploymentTypeOK,
           memory
  <2> QED
    BY <1>1, <1>3, <2>1, <2>2, <2>3, <2>4 DEF Shapes, DeploymentTypeOK
<1>6. MarkerHolds' /\ RecordHolds' /\ ReceiptHolds'
  BY <1>1, <1>3, <1>4 DEF MarkerHolds, Whole, RecordHolds, ReceiptHolds, Script
<1>7. RollbackHolds'
  BY <1>1, <1>2, <1>3, <1>4 DEF RollbackHolds
<1>8. InstallHolds' /\ FinalizeHolds'
  BY <1>3, OthersAreOut DEF Script
<1> QED
  BY <1>3, <1>5, <1>6, <1>7, <1>8

\* With all four copies made the marker says so, and what was seen.
LEMMA PublishKeeps == ASSUME DeployInv, PublishMarker PROVE DeployInv'
<1> USE DEF DeployInv, PublishMarker, Steps, Calm, commands, memory
<1>1. /\ LockHolds' /\ DOMAIN pc' = Script /\ pc'["rollback"] = "classify"
      /\ \A t \in Script \ {"rollback"} : pc'[t] = pc[t] /\ pc[t] \in {"off", "lock"}
  BY HolderSteps DEF Holding, Script
<1>2. /\ marker.kind \in {"none", "install"} /\ authority = "ready" /\ AllLive
      /\ \A i \in Item : stage[i] = Copy
  BY DEF RollbackHolds
<1>3. marker' \in [kind : {"rollback"}, device : 0..MaxDevice, live : [Item -> Object]]
  BY DEF Marker, Shapes, DeploymentTypeOK
<1>4. Shapes'
  BY <1>1, <1>3 DEF Shapes, DeploymentTypeOK
<1>5. \A i \in Item : Waits(i)' /\ ~IsBack(i)'
  BY <1>2, ObjectsAre DEF AllLive, Waits, IsBack, Saved
<1>6. MarkerHolds'
  BY <1>3, <1>5 DEF MarkerHolds, UnderWay
<1>7. ~record /\ receipt
  BY <1>2 DEF RecordHolds, ReceiptHolds
<1>8. RecordHolds' /\ ReceiptHolds'
  BY <1>1, <1>2, <1>7 DEF RecordHolds, ReceiptHolds, Script
<1>9. RollbackHolds'
  BY <1>1, <1>3 DEF RollbackHolds
<1>10. InstallHolds' /\ FinalizeHolds'
  BY <1>1, OthersAreOut DEF Script
<1> QED
  BY <1>1, <1>4, <1>6, <1>8, <1>9, <1>10

\* Of the ways that an item goes the paths tell which it is on.
LEMMA PlanTells ==
  ASSUME UnderWay, NEW i \in Item, PlanOf(i) # "ambiguous"
  PROVE  /\ PlanOf(i) \in {"park", "restore", "cleanup", "complete"}
         /\ PlanOf(i) = "park" => Waits(i)
         /\ PlanOf(i) = "restore" => IsBetween(i)
         /\ PlanOf(i) \in {"cleanup", "complete"} => IsBack(i)
<1> DEFINE live == marker.live[i]
<1> DEFINE is(d, s, p) == dest[i] = d /\ stage[i] = s /\ parked[i] = p
<1>1. Waits(i) \/ IsBetween(i) \/ IsBack(i)
  BY DEF UnderWay
<1>2. \/ is(live, Copy, Absent) /\ PlanOf(i) = "park" /\ Waits(i)
      \/ is(Absent, Copy, live) /\ PlanOf(i) = "restore" /\ IsBetween(i)
      \/ is(Copy, Absent, live) /\ PlanOf(i) \in {"cleanup", "complete"} /\ IsBack(i)
      \/ is(Copy, Absent, Absent) /\ PlanOf(i) \in {"cleanup", "complete"} /\ IsBack(i)
  BY <1>1, ObjectsAre DEF PlanOf, Waits, IsBetween, IsBack, Saved
<1> QED
  BY <1>2

\* A step of a rollback under its own marker that leaves each item on a way.
LEMMA UnderMarkerKeeps ==
  ASSUME DeployInv, NEW step \in {"classify", "swap", "clean", "complete"},
         pc["rollback"] \in Holding("rollback"), marker.kind = "rollback",
         To("rollback", step) \/ (UNCHANGED pc /\ pc["rollback"] = step),
         UNCHANGED <<marker, pending, receipt, authority, bound, acceptance, record,
                     exclusive, seen, remapped, commands, device>>,
         dest' \in [Item -> Object], stage' \in [Item -> Object],
         parked' \in [Item -> Object], at' \in 1..(N + 1),
         plan' \in [Item -> {"park", "restore", "cleanup", "complete"}],
         launcher' \in {"python", "rust"}, env' \in {"original", env},
         launcher' = "python" => env' = "original",
         UnderWay', pc'["rollback"] = step => RollbackHolds'
  PROVE  DeployInv'
<1> USE DEF DeployInv, commands
<1>1. /\ LockHolds' /\ DOMAIN pc' = Script /\ pc'["rollback"] = step
      /\ \A t \in Script \ {"rollback"} : pc'[t] = pc[t] /\ pc[t] \in {"off", "lock"}
  BY HolderSteps DEF Holding, Script
<1>2. Shapes'
  BY <1>1 DEF Shapes, DeploymentTypeOK
<1>3. ~record /\ receipt /\ authority # "none"
  BY DEF RecordHolds, ReceiptHolds, Holding
<1>4. MarkerHolds' /\ RecordHolds'
  BY <1>3 DEF MarkerHolds, RecordHolds
<1>5. ReceiptHolds'
  BY <1>1, <1>3 DEF ReceiptHolds, Script
<1>6. InstallHolds' /\ FinalizeHolds'
  BY <1>1, OthersAreOut DEF Script
<1> QED
  BY <1>1, <1>2, <1>4, <1>5, <1>6

\* A rollback that died is resumed, and classifies every item before the first
\* is moved.
LEMMA ClassifyKeeps ==
  ASSUME DeployInv, RollbackResume \/ Classify
  PROVE  DeployInv'
<1> USE DEF DeployInv
<1>1. /\ marker.kind = "rollback" /\ UnderWay /\ pc["rollback"] \in {"inspect", "classify"}
      /\ UNCHANGED <<files, exclusive, seen, remapped, commands, device>>
  BY DEF RollbackResume, Classify, Inspected, Steps, Calm, memory,
      RollbackHolds,
     MarkerHolds
<1>2. UnderWay' /\ \A i \in Item : /\ Waits(i)' <=> Waits(i)
                                   /\ IsBetween(i)' <=> IsBetween(i)
                                   /\ IsBack(i)' <=> IsBack(i)
  BY <1>1, PathsSay DEF UnderWay, files
<1>3. ASSUME RollbackResume PROVE DeployInv'
  <2>1. To("rollback", "classify") /\ UNCHANGED memory
    BY <1>3 DEF RollbackResume, Calm
  <2>2. pc'["rollback"] = "classify" => RollbackHolds'
    BY <1>1 DEF RollbackHolds, files
  <2> QED
    BY <1>1, <1>2, <2>1, <2>2, UnderMarkerKeeps
       DEF files, memory, Holding, Shapes, DeploymentTypeOK
<1>4. ASSUME Classify PROVE DeployInv'
  <2>1. /\ To("rollback", "swap") /\ plan' = [i \in Item |-> PlanOf(i)] /\ at' = 1
        /\ \A i \in Item : PlanOf(i) # "ambiguous"
    BY <1>4 DEF Classify, Steps
  <2>2. /\ plan' \in [Item -> {"park", "restore", "cleanup", "complete"}]
        /\ at' \in 1..(N + 1)
    BY <1>1, <2>1, PlanTells, DeploymentAssumption
  <2>3. \A i \in Item : /\ plan'[i] = "park" => Waits(i)'
                        /\ plan'[i] = "restore" => IsBetween(i)'
                        /\ plan'[i] \in {"cleanup", "complete"} => IsBack(i)'
    BY <1>1, <1>2, <2>1, PlanTells
  <2>4. \A i \in Item : ~(i < at')
    BY <2>1 DEF Item
  <2>5. pc'["rollback"] = "swap" => RollbackHolds'
    BY <1>1, <2>3, <2>4 DEF RollbackHolds, files
  <2> QED
    BY <1>1, <1>2, <2>1, <2>2, <2>5, UnderMarkerKeeps
       DEF files, Holding, Shapes, DeploymentTypeOK
<1> QED
  BY <1>3, <1>4

\* Where the swap stands.
LEMMA SwapStands ==
  ASSUME DeployInv, pc["rollback"] = "swap"
  PROVE  /\ marker.kind = "rollback" /\ UnderWay
         /\ \A i \in Item : /\ i < at => IsBack(i)
                            /\ plan[i] \in {"cleanup", "complete"} => IsBack(i)
                            /\ i >= at /\ plan[i] = "park" => Waits(i)
                            /\ i >= at /\ plan[i] = "restore" => IsBetween(i)
  BY DEF DeployInv, RollbackHolds, MarkerHolds

\* The live object is moved aside.
LEMMA ParkKeeps == ASSUME DeployInv, Park PROVE DeployInv'
<1> USE DEF DeployInv, Park
<1>1. at \in Item /\ Waits(at) /\ marker.kind = "rollback" /\ UnderWay
  BY SwapStands, DeploymentAssumption DEF Item, Shapes, DeploymentTypeOK
<1>2. /\ dest' = [dest EXCEPT ![at] = Absent] /\ parked' = [parked EXCEPT ![at] = dest[at]]
      /\ plan' = [plan EXCEPT ![at] = "restore"] /\ stage' = stage /\ at' = at
      /\ dest \in [Item -> Object] /\ parked \in [Item -> Object]
      /\ plan \in [Item -> {"park", "restore", "cleanup", "complete"}]
  BY DEF Shapes, DeploymentTypeOK
<1>3. IsBetween(at)' /\ ~IsBack(at)'
  <2>1. dest'[at] = Absent /\ parked'[at] = dest[at] /\ stage'[at] = stage[at]
    BY <1>1, <1>2
  <2> QED
    BY <1>1, <2>1, ObjectsAre DEF Waits, IsBetween, IsBack, Saved
<1>4. \A i \in Item \ {at} : /\ dest'[i] = dest[i] /\ parked'[i] = parked[i]
                             /\ plan'[i] = plan[i]
                             /\ Waits(i)' <=> Waits(i)
                             /\ IsBetween(i)' <=> IsBetween(i)
                             /\ IsBack(i)' <=> IsBack(i)
  BY <1>2 DEF Waits, IsBetween, IsBack, Saved
<1>5. UnderWay'
  <2>1. ~IsBack(at)
    BY <1>1, ObjectsAre DEF Waits, IsBack
  <2>2. \A i \in Item : ~(IsBack(i)' /\ parked'[i] \in {Absent, Partial})
    BY <1>1, <1>3, <1>4, <2>1 DEF UnderWay
  <2> QED
    BY <1>1, <1>3, <1>4, <2>2 DEF UnderWay
<1>6. RollbackHolds'
  <2>1. \A i \in Item : i < at => i # at
    BY <1>1 DEF Item
  <2>2. \A i \in Item :
          /\ i < at \/ plan'[i] \in {"cleanup", "complete"} => IsBack(i)'
          /\ i >= at /\ plan'[i] = "park" => Waits(i)'
          /\ i >= at /\ plan'[i] = "restore" => IsBetween(i)'
    <3>1. plan'[at] = "restore"
      BY <1>1, <1>2
    <3> QED
      BY <1>1, <1>3, <1>4, <2>1, <3>1, SwapStands
  <2> QED
    BY <1>1, <1>2, <2>2 DEF RollbackHolds
<1>7. dest' \in [Item -> Object] /\ parked' \in [Item -> Object]
  BY <1>1, <1>2, ObjectsAre
<1>8. UNCHANGED <<pc, marker, pending, receipt, authority, bound, acceptance, record,
                  exclusive, seen, remapped, commands, device, launcher, env>>
  OBVIOUS
<1>9. /\ stage' \in [Item -> Object] /\ at' \in 1..(N + 1) /\ launcher' \in {"python", "rust"}
      /\ plan' \in [Item -> {"park", "restore", "cleanup", "complete"}]
      /\ env' \in {"original", env} /\ (launcher' = "python" => env' = "original")
  BY <1>2, <1>8 DEF Shapes, DeploymentTypeOK
<1> QED
  BY <1>1, <1>5, <1>6, <1>7, <1>8, <1>9, UnderMarkerKeeps DEF Holding

\* The copy becomes the live object.
LEMMA RestoreKeeps == ASSUME DeployInv, Restore PROVE DeployInv'
<1> USE DEF DeployInv, Restore
<1>1. PICK k \in Item : k = at
  BY DeploymentAssumption DEF Item, Shapes, DeploymentTypeOK
<1>2. /\ dest' = [dest EXCEPT ![k] = stage[k]] /\ stage' = [stage EXCEPT ![k] = Absent]
      /\ parked' = parked /\ plan' = plan /\ at' = k + 1 /\ at' \in 1..(N + 1)
      /\ dest \in [Item -> Object] /\ stage \in [Item -> Object]
      /\ IsBetween(k) /\ marker.kind = "rollback" /\ UnderWay
  BY <1>1, SwapStands, DeploymentAssumption DEF Item, Shapes, DeploymentTypeOK
<1>3. IsBack(k)' /\ parked'[k] \notin {Absent, Partial}
  <2>1. dest'[k] = Copy /\ parked'[k] = parked[k] /\ stage'[k] = Absent
    BY <1>2 DEF IsBetween
  <2> QED
    BY <1>2, <2>1, ObjectsAre DEF IsBetween, IsBack, Saved
<1>4. \A i \in Item \ {k} : /\ dest'[i] = dest[i] /\ stage'[i] = stage[i]
                            /\ Waits(i)' <=> Waits(i)
                            /\ IsBetween(i)' <=> IsBetween(i)
                            /\ IsBack(i)' <=> IsBack(i)
  BY <1>2 DEF Waits, IsBetween, IsBack, Saved
<1>5. UnderWay'
  <2>1. ~IsBack(k)
    BY <1>2, ObjectsAre DEF IsBetween, IsBack
  <2>2. \A i \in Item : ~(IsBack(i)' /\ parked'[i] \in {Absent, Partial})
    BY <1>2, <1>3, <1>4, <2>1 DEF UnderWay
  <2>3. \A i \in Item : Waits(i)' \/ IsBetween(i)' \/ IsBack(i)'
    BY <1>2, <1>3, <1>4 DEF UnderWay
  <2> QED
    BY <2>2, <2>3 DEF UnderWay
<1>6. RollbackHolds'
  <2>1. \A i \in Item : /\ i < at' => i < at \/ i = k
                        /\ i >= at' => i >= at /\ i # k
    BY <1>1, <1>2, DeploymentAssumption DEF Item
  <2>2. \A i \in Item :
          /\ i < at' \/ plan'[i] \in {"cleanup", "complete"} => IsBack(i)'
          /\ i >= at' /\ plan'[i] = "park" => Waits(i)'
          /\ i >= at' /\ plan'[i] = "restore" => IsBetween(i)'
    <3>1. SUFFICES ASSUME NEW i \in Item
          PROVE  /\ i < at' \/ plan'[i] \in {"cleanup", "complete"} => IsBack(i)'
                 /\ i >= at' /\ plan'[i] = "park" => Waits(i)'
                 /\ i >= at' /\ plan'[i] = "restore" => IsBetween(i)'
      OBVIOUS
    <3>2. CASE i = k
      BY <1>3, <2>1, <3>2
    <3>3. CASE i # k
      BY <1>2, <1>4, <2>1, <3>3, SwapStands
    <3> QED
      BY <3>2, <3>3
  <2> QED
    BY <1>2, <2>2 DEF RollbackHolds
<1>7. dest' \in [Item -> Object] /\ stage' \in [Item -> Object]
  BY <1>2, ObjectsAre
<1>8. UNCHANGED <<pc, marker, pending, receipt, authority, bound, acceptance, record,
                  exclusive, seen, remapped, commands, device, launcher, env>>
  OBVIOUS
<1>9. /\ parked' \in [Item -> Object] /\ launcher' \in {"python", "rust"}
      /\ plan' \in [Item -> {"park", "restore", "cleanup", "complete"}]
      /\ env' \in {"original", env} /\ (launcher' = "python" => env' = "original")
  BY <1>2, <1>8 DEF Shapes, DeploymentTypeOK
<1> QED
  BY <1>2, <1>5, <1>6, <1>7, <1>8, <1>9, UnderMarkerKeeps DEF Holding

\* The rest of a rollback leaves the items where they are, but for what was
\* parked, and the environment comes before the launcher.
LEMMA LastStepsKeep ==
  ASSUME DeployInv, Skip \/ RestoreEnvironment \/ RemoveParked \/ RestoreLauncher
  PROVE  DeployInv'
<1> USE DEF DeployInv, Steps
<1>1. PICK step \in {"swap", "clean", "complete"} :
         /\ To("rollback", step) \/ (UNCHANGED pc /\ pc["rollback"] = step)
         /\ pc["rollback"] \in {"swap", "clean"}
         /\ step = "swap" <=> Skip
         /\ step = "complete" <=> RestoreLauncher
  BY DEF Skip, RestoreEnvironment, RemoveParked, RestoreLauncher
<1>2. /\ UNCHANGED <<dest, stage, marker, pending, receipt, authority, bound, acceptance,
                     record, exclusive, plan, seen, remapped, commands, device>>
      /\ marker.kind = "rollback" /\ UnderWay
  BY DEF Skip, RestoreEnvironment, RemoveParked, RestoreLauncher, RollbackHolds,
     MarkerHolds, files, Calm, memory
<1>3. step # "swap" => (\A i \in Item : IsBack(i)) /\ env' = "original"
  <2>1. ASSUME RestoreEnvironment
        PROVE  (\A i \in Item : IsBack(i)) /\ env' = "original"
    <3>1. \A i \in Item : i < at
      BY <2>1, DeploymentAssumption DEF RestoreEnvironment, Item
    <3> QED
      BY <2>1, <3>1, SwapStands DEF RestoreEnvironment
  <2> QED
    BY <1>1, <2>1 DEF RemoveParked, RestoreLauncher, RollbackHolds
<1>4. /\ parked' = parked \/ step = "clean"
      /\ parked' \in [Item -> Object] /\ at' \in 1..(N + 1)
      /\ env' \in {"original", env} /\ launcher' \in {"python", "rust"}
      /\ launcher' = "python" => env' = "original"
  <2>1. parked' = parked \/ step = "clean"
    BY <1>1 DEF Skip, RestoreEnvironment, RemoveParked, RestoreLauncher, files
  <2>2. parked' \in [Item -> Object]
    BY ObjectsAre
       DEF Skip, RestoreEnvironment, RemoveParked, RestoreLauncher, files,
           Shapes,
           DeploymentTypeOK
  <2>3. at' \in 1..(N + 1)
    BY DeploymentAssumption
       DEF Skip, RestoreEnvironment, RemoveParked, RestoreLauncher, Calm,
           memory, Shapes,
           DeploymentTypeOK
  <2>4. /\ env' \in {"original", env} /\ launcher' \in {"python", "rust"}
        /\ launcher' = "python" => env' = "original"
    BY DEF Skip, RestoreEnvironment, RemoveParked, RestoreLauncher, Cleaned,
        files,
       Shapes, DeploymentTypeOK
  <2> QED
    BY <2>1, <2>2, <2>3, <2>4
<1>5. \A i \in Item : /\ IsBack(i)' <=> IsBack(i)
                      /\ parked' = parked => (Waits(i)' <=> Waits(i))
                      /\ parked' = parked => (IsBetween(i)' <=> IsBetween(i))
  BY <1>2 DEF IsBack, Waits, IsBetween, Saved
<1>6. UnderWay'
  <2>1. CASE step = "swap"
    <3>1. parked' = parked /\ env' = env
      BY <1>1, <2>1 DEF Skip, files
    <3> QED
      BY <1>2, <1>5, <3>1 DEF UnderWay
  <2>2. CASE step # "swap"
    BY <1>3, <1>5, <2>2 DEF UnderWay
  <2> QED
    BY <2>1, <2>2
<1>7. ASSUME pc'["rollback"] = step PROVE RollbackHolds'
  <2>1. CASE step = "swap"
    <3>1. /\ pc["rollback"] = "swap" /\ at' = at + 1 /\ at \in Item /\ UNCHANGED parked
          /\ plan[at] \in {"cleanup", "complete"} /\ plan' = plan
      BY <1>1, <2>1, DeploymentAssumption
         DEF Skip, files, Shapes, DeploymentTypeOK, Item
    <3>2. \A i \in Item : /\ i < at' => i < at \/ i = at
                          /\ i >= at' => i >= at
      BY <3>1, DeploymentAssumption DEF Item
    <3>3. \A i \in Item :
            /\ i < at' \/ plan'[i] \in {"cleanup", "complete"} => IsBack(i)'
            /\ i >= at' /\ plan'[i] = "park" => Waits(i)'
            /\ i >= at' /\ plan'[i] = "restore" => IsBetween(i)'
      BY <1>5, <3>1, <3>2, SwapStands
    <3> QED
      BY <1>2, <1>7, <2>1, <3>3 DEF RollbackHolds
  <2>2. CASE step = "clean"
    BY <1>2, <1>3, <1>5, <1>7, <2>2 DEF RollbackHolds
  <2>3. CASE step = "complete"
    <3>1. launcher' = "python" /\ \A i \in Item : parked'[i] = Absent
      BY <1>1, <1>4, <2>3 DEF RestoreLauncher, Cleaned
    <3> QED
      BY <1>2, <1>3, <1>5, <1>7, <2>3, <3>1 DEF RollbackHolds
  <2> QED
    BY <2>1, <2>2, <2>3
<1> QED
  BY <1>1, <1>2, <1>4, <1>6, <1>7, UnderMarkerKeeps
     DEF Holding, Shapes, DeploymentTypeOK

\* A rollback ends with all that the Python client saved, and its launcher.
LEMMA RollbackCommitKeeps == ASSUME DeployInv, RollbackCommit PROVE DeployInv'
<1>1. "rollback" \in Script /\ "complete" \in Holding("rollback")
  BY DEF Script, Holding
<1>2. /\ pc["rollback"] = "complete" /\ marker.kind = "rollback" /\ env = "original"
      /\ launcher = "python" /\ \A i \in Item : IsBack(i) /\ parked[i] = Absent
  BY DEF RollbackCommit, DeployInv, RollbackHolds
<1>3. Whole
  BY <1>2 DEF Whole, AllRestored, IsBack, Shape
<1>4. receipt /\ ~record
  BY <1>2 DEF DeployInv, ReceiptHolds, RecordHolds
<1> QED
  BY <1>1, <1>2, <1>3, <1>4, UnmarkKeeps DEF RollbackCommit

\* After a reboot nobody is at work, and the files are as they were.
LEMMA RebootKeeps == ASSUME DeployInv, Reboot PROVE DeployInv'
<1> USE DEF DeployInv, Reboot
<1>1. /\ pc' = [s \in Script |-> "off"] /\ exclusive' = Nobody /\ Nobody \notin Script
      /\ rust' = [r \in Rust |-> "off"] /\ python' = [p \in Python |-> "off"]
  BY ObjectsDiffer
<1>2. Shapes'
  <2>1. 1 \in 1..(N + 1) /\ [era |-> "live", gen |-> 0] \in Object
    BY DeploymentAssumption DEF Object, Identity
  <2>2. /\ at' = 1 /\ remapped' \in BOOLEAN /\ seen' \in [Item -> Object]
        /\ plan' \in [Item -> {"park", "restore", "cleanup", "complete"}]
    BY <2>1 DEF Forget, NoPlan, Live
  <2>3. device' \in 0..MaxDevice
    BY DeploymentAssumption DEF Shapes, DeploymentTypeOK
  <2>4. /\ rust' \in [Rust -> {"off", "started", "locked", "running"}]
        /\ python' \in [Python -> {"off", "running"}]
    BY <1>1
  <2> QED
    BY <1>1, <2>1, <2>2, <2>3, <2>4, CutOffLeaves DEF Shapes, DeploymentTypeOK
<1>3. LockHolds'
  <2>1. \A s \in Script : pc'[s] = "off" /\ exclusive' # s
    BY <1>1
  <2>2. \A s \in Script : pc'[s] \notin Holding(s)
    BY <2>1, OffIsOutside
  <2>3. \A r \in Rust : rust'[r] = "off"
    BY <1>1
  <2> QED
    BY <2>1, <2>2, <2>3 DEF LockHolds
<1>4. MarkerHolds' /\ RecordHolds' /\ (AllLive' <=> AllLive)
  BY CutOffLeaves, CutShortKeeps
<1>5. ReceiptHolds'
  BY <1>1, <1>4 DEF ReceiptHolds, Script
<1>6. InstallHolds' /\ RollbackHolds' /\ FinalizeHolds'
  BY <1>1, OthersAreOut DEF Script
<1> QED
  BY <1>2, <1>3, <1>4, <1>5, <1>6

(* -------------------------- the invariant holds ------------------------- *)

\* The host as it is before the install: the Python client's.
LEMMA DeploymentInitInv == DeploymentInit => DeployInv
<1> SUFFICES ASSUME DeploymentInit PROVE DeployInv
  OBVIOUS
<1> USE DEF DeploymentInit
<1>1. [era |-> "live", gen |-> 0] \in Identity
  BY DeploymentAssumption DEF Identity
<1>2. Shapes
  <2>1. /\ dest \in [Item -> Object] /\ stage \in [Item -> Object] /\ parked \in [Item -> Object]
        /\ seen \in [Item -> Object]
    BY <1>1, ObjectsAre DEF Live
  <2>2. marker \in [kind : {"none", "install", "rollback", "finalize"}, device : 0..MaxDevice,
                    live : [Item -> Object]]
    BY <1>1, ObjectsAre, DeploymentAssumption DEF NoMarker, Live
  <2>3. plan \in [Item -> {"park", "restore", "cleanup", "complete"}]
    BY DEF NoPlan
  <2>4. at \in 1..(N + 1) /\ device \in 0..MaxDevice /\ bound \in 0..MaxDevice
        /\ writes \in 0..MaxWrites
    BY DeploymentAssumption
  <2>5. /\ rust \in [Rust -> {"off", "started", "locked", "running"}]
        /\ python \in [Python -> {"off", "running"}]
    OBVIOUS
  <2> QED
    BY <2>1, <2>2, <2>3, <2>4, <2>5 DEF Shapes, DeploymentTypeOK
<1>3. LockHolds
  BY ObjectsDiffer DEF LockHolds, Holding, Script
<1>4. AllLive /\ Shape = <<"original", "python">> /\ marker.kind = "none"
  BY <1>1 DEF AllLive, Saved, Live, Shape, NoMarker
<1>5. MarkerHolds /\ ReceiptHolds /\ RecordHolds
  BY <1>4 DEF MarkerHolds, Whole, ReceiptHolds, RecordHolds, Script
<1>6. InstallHolds /\ RollbackHolds /\ FinalizeHolds
  BY DEF InstallHolds, RollbackHolds, FinalizeHolds, Script
<1> QED
  BY <1>2, <1>3, <1>5, <1>6 DEF DeployInv

\* What the invariant is about.
LEMMA StutterKeeps == ASSUME DeployInv, UNCHANGED vars PROVE DeployInv'
<1> USE DEF DeployInv, vars, files, memory, commands
<1>1. Shapes' /\ LockHolds'
  BY DEF Shapes, DeploymentTypeOK, LockHolds
<1>2. MarkerHolds' /\ RecordHolds'
  BY FilesSay
<1>3. ReceiptHolds'
  BY PathsSay DEF ReceiptHolds
<1>4. InstallHolds' /\ RollbackHolds' /\ FinalizeHolds'
  BY StepsSay
<1> QED
  BY <1>1, <1>2, <1>3, <1>4

\* Every step of a command or a script keeps it, and so do deaths and reboots.
LEMMA DeploymentNextKeeps == DeployInv /\ [DeploymentNext]_vars => DeployInv'
<1> SUFFICES ASSUME DeployInv, [DeploymentNext]_vars PROVE DeployInv'
  OBVIOUS
<1>1. ASSUME Command PROVE DeployInv'
  BY <1>1, RustKeeps, PythonKeeps, WriteKeeps DEF Command
<1>2. ASSUME Install PROVE DeployInv'
  BY <1>2, InstallBeginKeeps, InstallLockKeeps, InstallReceiptKeeps,
      InstallMarkKeeps,
     InstallGoesOnKeeps, InstallEndKeeps DEF Install
<1>3. ASSUME Rollback PROVE DeployInv'
  BY <1>3, RollbackBeginKeeps, RollbackLockKeeps, RollbackStopsKeeps,
      StagingKeeps,
     PublishKeeps, ClassifyKeeps, ParkKeeps, RestoreKeeps, LastStepsKeep,
     RollbackCommitKeeps DEF Rollback
<1>4. ASSUME Finalize PROVE DeployInv'
  BY <1>4, FinalizeBeginKeeps, FinalizeLockKeeps, FinalizeGoesOn,
      FinalizeEndKeeps
     DEF Finalize
<1> QED
  BY <1>1, <1>2, <1>3, <1>4, AcceptKeeps, CrashKeeps, RebootKeeps, StutterKeeps
     DEF DeploymentNext

\* In every reachable state the holder of the lock is alone, what the marker
\* says of launcher, environment and saved state is so, and each script is
\* where its files say it is.
THEOREM DeploymentInvariant == DeploymentSpec => []DeployInv
  BY DeploymentInitInv, DeploymentNextKeeps, PTL DEF DeploymentSpec

\* The variables of the scripts, locks and files have their types.
THEOREM DeploymentIsTyped == DeploymentSpec => []DeploymentTypeOK
<1>1. DeployInv => DeploymentTypeOK
  BY DEF DeployInv, Shapes
<1> QED
  BY <1>1, DeploymentInvariant, PTL

\* No Rust command is at work while a script changes the deployment or a dead
\* one left it half changed: the shared lock comes first and the marker is
\* looked for with it (runtime_lock.rs), and a marker is written only by who
\* holds the lock alone.
THEOREM LockExcludesRust == DeploymentSpec => []RustIsExcluded
<1>1. DeployInv => RustIsExcluded
  BY DEF DeployInv, LockHolds, RustIsExcluded
<1> QED
  BY <1>1, DeploymentInvariant, PTL

\* The launcher never names an environment that is not there, and a Python
\* command finds its files to the end, though it takes no lock: the install
\* scans after the launcher names the other client.
THEOREM PythonStaysWhole == DeploymentSpec => []PythonIsWhole
<1>1. DeployInv => PythonIsWhole
  BY DEF DeployInv, Shapes, PythonIsWhole
<1> QED
  BY <1>1, DeploymentInvariant, PTL

\* While a rollback is under way, dead or alive, each item of the saved state
\* is or can become live, and what the Rust client saved is given up only
\* after all items and the environment are back.
THEOREM RollbackIsRecoverable == DeploymentSpec => []StateIsRecoverable
<1>1. DeployInv => StateIsRecoverable
  <2> SUFFICES ASSUME DeployInv, marker.kind = "rollback"
               PROVE  /\ \A i \in Item : dest[i] # Absent \/ stage[i] = Copy
                      /\ (\E i \in Item : /\ parked[i] \in {Absent, Partial}
                                       /\ dest[i] # Absent /\ dest[i].era = "backup") =>
                           /\ env = "original"
                           /\ \A i \in Item : dest[i] # Absent /\ dest[i].era = "backup"
    BY DEF StateIsRecoverable
  <2>1. UnderWay
    BY DEF DeployInv, MarkerHolds
  <2>2. \A i \in Item : dest[i] # Absent \/ stage[i] = Copy
    BY <2>1, ObjectsAre DEF UnderWay, Waits, IsBetween, IsBack, Saved
  <2>3. \A i \in Item : parked[i] \in {Absent, Partial} /\ dest[i] # Absent
                        /\ dest[i].era = "backup"
                        => IsBack(i)
    BY <2>1 DEF UnderWay, Waits, IsBetween, IsBack, Saved
  <2>4. \A i \in Item : IsBack(i) => dest[i] # Absent /\ dest[i].era = "backup"
    BY ObjectsAre DEF IsBack, Saved
  <2> QED
    BY <2>1, <2>2, <2>3, <2>4 DEF UnderWay
<1> QED
  BY <1>1, DeploymentInvariant, PTL

\* When a finalisation's record is there and its marker gone, the Rust client
\* is the installed one and the rollback's authority is gone.
THEOREM RetirementStaysTrue == DeploymentSpec => []RetirementIsTrue
<1>1. DeployInv => RetirementIsTrue
  BY DEF DeployInv, RecordHolds, RetirementIsTrue
<1> QED
  BY <1>1, DeploymentInvariant, PTL

(* --------------------------- what a step does --------------------------- *)

\* Only commands and the two renames of a rollback change the live paths.
LEMMA WhoMoves ==
  ASSUME [DeploymentNext]_vars
  PROVE  \/ UNCHANGED dest
         \/ \E i \in Item : Write(i)
         \/ Park \/ Restore
<1>1. Install => UNCHANGED dest
  BY DEF Install, InstallBegin, InstallLock, InstallReceipt, InstallMark,
      InstallSwitch,
     InstallScan, InstallAccept, InstallQuarantine, UndoEnvironment, UndoLauncher,
     InstallCommit, InstallFails, Unmark, Fails, TakeLock, files
<1>2. Finalize => UNCHANGED dest
  BY DEF Finalize, FinalizeBegin, FinalizeLock, FinalizeMark, FinalizeResume,
      Record,
     Retire, Remove, FinalizeCommit, FinalizeFails, Unmark, Fails, TakeLock, files
<1>3. Rollback => UNCHANGED dest \/ Park \/ Restore
  BY DEF Rollback, RollbackBegin, RollbackLock, RollbackIsDone, RollbackPrepare,
     StageItem, StagingFails, WritePending, PublishMarker, RollbackResume, Classify,
     Skip, RestoreEnvironment, RemoveParked, RestoreLauncher, RollbackCommit,
     RollbackFails, Unmark, Fails, TakeLock, files
<1>4. Command => UNCHANGED dest \/ \E i \in Item : Write(i)
  BY DEF Command, RustStart, RustLock, RustRun, RustEnd, Go, PythonStart,
      PythonEnd,
     files
<1>5. Accept \/ (\E s \in Script : Crash(s)) \/ Reboot \/ UNCHANGED vars => UNCHANGED dest
  BY DEF Accept, Crash, Reboot, vars, files
<1> QED
  BY <1>1, <1>2, <1>3, <1>4, <1>5 DEF DeploymentNext

\* None of them takes what is restored away, or makes it the Rust client's.
LEMMA RestoredKeeps ==
  ASSUME DeployInv, [DeploymentNext]_vars, NEW i \in Item,
         dest[i] # Absent, dest[i].era = "backup"
  PROVE  dest'[i] # Absent /\ dest'[i].era = "backup"
<1> USE DEF DeployInv
<1>1. dest \in [Item -> Object]
  BY DEF Shapes, DeploymentTypeOK
<1>2. ASSUME NEW j \in Item, Write(j)
      PROVE  dest'[i] # Absent /\ dest'[i].era = "backup"
  <2>1. i = j => dest[i] \in Identity
    BY DEF MarkerHolds, Whole, AllLive, AllRestored, UnderWay, Waits, IsBetween,
        IsBack,
       Saved, Shapes, DeploymentTypeOK
  <2>2. i = j => dest'[i] \in Identity /\ dest'[i].era = "backup"
    BY <1>1, <1>2, <2>1, DeploymentAssumption
       DEF Write, Written, Identity, Shapes, DeploymentTypeOK
  <2> QED
    BY <1>1, <1>2, <2>2, ObjectsAre DEF Write
<1>3. ASSUME Park
      PROVE  dest'[i] # Absent /\ dest'[i].era = "backup"
  <2>1. at \in Item /\ Waits(at)
    BY <1>3, SwapStands, DeploymentAssumption
       DEF Park, Item, Shapes, DeploymentTypeOK
  <2> QED
    BY <1>1, <1>3, <2>1 DEF Park, Waits, Saved
<1>4. ASSUME Restore
      PROVE  dest'[i] # Absent /\ dest'[i].era = "backup"
  <2>1. at \in Item /\ stage[at] = Copy
    BY <1>4, SwapStands, DeploymentAssumption
       DEF Restore, Item, IsBetween, Shapes, DeploymentTypeOK
  <2> QED
    BY <1>1, <1>4, <2>1, ObjectsAre DEF Restore
<1> QED
  BY <1>2, <1>3, <1>4, WhoMoves

\* A restored item stays restored, whoever changed it since and however often
\* the rollback dies and is run again.
THEOREM RestorationsLast == DeploymentSpec => RestoredStays
<1>1. DeployInv /\ [DeploymentNext]_vars =>
        [\A i \in Item : dest[i] # Absent /\ dest[i].era = "backup"
           => dest'[i] # Absent /\ dest'[i].era = "backup"]_vars
  BY RestoredKeeps
<1> QED
  BY <1>1, DeploymentInvariant, PTL DEF RestoredStays, DeploymentSpec

(* ---------------------- the scripts implement Maintenance --------------- *)

\* Whose the saved state is, told from the items.
LEMMA ErasAre ==
  /\ (\A i \in Item : Saved(i, "backup")) => StateEra = "backup"
  /\ AllLive => StateEra = "live"
  /\ (\E i \in Item : dest[i] = Absent) => StateEra = "mixed"
  /\ (\E i \in Item : Saved(i, "live")) => StateEra # "backup"
  /\ (\E i \in Item : Saved(i, "backup")) => StateEra # "live"
  /\ (\E i \in Item : parked[i] # Absent) => StateEra # "live"
  /\ StateEra \in {"live", "backup", "mixed"}
<1>1. 1 \in Item
  BY DeploymentAssumption DEF Item
<1>2. \A i \in Item, era \in {"live", "backup"} :
        Saved(i, era) => dest[i] # Absent /\ dest[i].era = era
  BY ObjectsAre DEF Saved
<1> QED
  BY <1>1, <1>2 DEF StateEra, AllLive

\* What is seen of the deployment, when the state is whose it was.
LEMMA ViewStays ==
  ASSUME UNCHANGED rust, StateEra' = StateEra,
         UNCHANGED <<launcher, marker>> \/ (marker.kind # "none" /\ marker'.kind # "none")
  PROVE  UNCHANGED M!mVars
  BY DEF M!mVars, Mode, AtWork

\* That is told from the paths alone.
LEMMA PathsTell == ASSUME UNCHANGED <<dest, parked>> PROVE StateEra' = StateEra
  BY DEF StateEra

\* Commands come and go under the abstract specification too.
LEMMA RustMaps ==
  ASSUME DeployInv, NEW r \in Rust,
         RustStart(r) \/ RustLock(r) \/ RustRun(r) \/ RustEnd(r)
  PROVE  [M!MNext]_(M!mVars)
<1>1. UNCHANGED <<Mode, StateEra>> /\ rust \in [Rust -> {"off", "started", "locked", "running"}]
  BY PathsTell
     DEF RustStart, RustLock, RustRun, RustEnd, Go, files, Mode, DeployInv,
         Shapes,
         DeploymentTypeOK
<1>2. ASSUME RustStart(r) \/ RustLock(r) PROVE AtWork' = AtWork
  BY <1>1, <1>2 DEF RustStart, RustLock, Go, AtWork
<1>3. ASSUME RustRun(r) PROVE M!Join(r)
  <2>1. AtWork' = AtWork \union {r} /\ r \notin AtWork
    BY <1>1, <1>3 DEF RustRun, Go, AtWork
  <2>2. Mode # "maintenance"
    BY <1>3 DEF RustRun, Mode, DeployInv, Shapes, DeploymentTypeOK
  <2> QED
    BY <1>1, <2>1, <2>2 DEF M!Join
<1>4. ASSUME RustEnd(r) PROVE AtWork' = AtWork \/ M!Quit(r)
  <2>1. AtWork' = AtWork \ {r}
    BY <1>1, <1>4 DEF RustEnd, Go, AtWork
  <2> QED
    BY <1>1, <2>1 DEF M!Quit
<1> QED
  BY <1>1, <1>2, <1>3, <1>4 DEF M!MNext, M!mVars

\* A write changes an object and not whose it is.
LEMMA WriteMaps ==
  ASSUME DeployInv, NEW i \in Item, Write(i)
  PROVE  UNCHANGED M!mVars
<1> USE DEF DeployInv, Write
<1>1. /\ dest \in [Item -> Object] /\ dest' = [dest EXCEPT ![i] = Written(dest[i])]
      /\ UNCHANGED <<parked, launcher, marker, rust>>
  BY DEF Shapes, DeploymentTypeOK
<1>2. /\ dest[i] \in Identity \union {Absent}
      /\ dest'[i] \in Identity
      /\ dest'[i].era = IF dest[i] = Absent THEN "live" ELSE dest[i].era
  <2>1. dest[i] \in Identity \union {Absent}
    BY DEF MarkerHolds, Whole, AllLive, AllRestored, UnderWay, Waits, IsBetween,
        IsBack,
       Saved, Shapes, DeploymentTypeOK
  <2> QED
    BY <1>1, <2>1, DeploymentAssumption
       DEF Written, Identity, Shapes, DeploymentTypeOK
<1>3. CASE dest[i] = Absent
  <2>1. parked[i] # Absent
    BY <1>3, ObjectsAre
       DEF MarkerHolds, Whole, AllLive, AllRestored, UnderWay, Waits, IsBetween,
           IsBack,
           Saved, Shapes, DeploymentTypeOK
  <2>2. dest'[i].era = "live" /\ dest'[i] # Absent /\ parked'[i] # Absent
    BY <1>1, <1>2, <1>3, <2>1, ObjectsAre
  <2>3. StateEra = "mixed" /\ StateEra' = "mixed"
    BY <1>3, <2>2 DEF StateEra
  <2> QED
    BY <1>1, <2>3, ViewStays
<1>4. CASE dest[i] # Absent
  <2>1. \A j \in Item : /\ dest'[j] # Absent <=> dest[j] # Absent
                        /\ dest[j] # Absent => dest'[j].era = dest[j].era
    BY <1>1, <1>2, <1>4, ObjectsAre
  <2>2. StateEra' = StateEra
    BY <1>1, <2>1 DEF StateEra
  <2> QED
    BY <1>1, <2>2, ViewStays
<1> QED
  BY <1>3, <1>4

\* Maintenance begins with a marker, written by who holds the lock alone.
LEMMA MarkMaps ==
  ASSUME DeployInv, InstallMark \/ PublishMarker \/ FinalizeMark
  PROVE  M!Enter \/ UNCHANGED M!mVars
<1>1. UNCHANGED <<dest, parked, rust, launcher>> /\ marker'.kind # "none"
  BY DEF InstallMark, PublishMarker, FinalizeMark, Calm, commands, Marker
<1>2. \A r \in Rust : rust[r] # "running"
  <2>1. \E s \in {"install", "rollback", "finalize"} : pc[s] \in Holding(s)
    BY DEF InstallMark, PublishMarker, FinalizeMark, Steps, Holding
  <2> QED
    BY <2>1, HolderIsAlone DEF DeployInv, Script
<1>3. CASE marker.kind = "none"
  <2>1. Mode # "maintenance" /\ Mode' = "maintenance"
    BY <1>1, <1>3 DEF Mode, DeployInv, Shapes, DeploymentTypeOK
  <2>2. AtWork = {} /\ AtWork' = AtWork /\ StateEra' = StateEra
    BY <1>1, <1>2, PathsTell DEF AtWork
  <2> QED
    BY <2>1, <2>2 DEF M!Enter
<1>4. CASE marker.kind # "none"
  BY <1>1, <1>4, PathsTell, ViewStays
<1> QED
  BY <1>3, <1>4

\* It ends with a client whose saved state is whole.
LEMMA CommitMaps ==
  ASSUME DeployInv, InstallCommit \/ RollbackCommit \/ FinalizeCommit
  PROVE  M!Leave
<1>1. /\ UNCHANGED <<dest, parked, rust, launcher>> /\ marker' = NoMarker
      /\ marker.kind # "none"
  BY DEF InstallCommit, RollbackCommit, FinalizeCommit, Unmark, commands,
      DeployInv,
     InstallHolds, RollbackHolds, FinalizeHolds
<1>2. Whole
  <2>1. InstallCommit => Whole
    BY DEF InstallCommit, DeployInv, InstallHolds, MarkerHolds, Whole
  <2>2. RollbackCommit => Whole
    BY DEF RollbackCommit, DeployInv, RollbackHolds, IsBack, Whole, AllRestored,
        Shape
  <2>3. FinalizeCommit => Whole
    BY DEF FinalizeCommit, DeployInv, FinalizeHolds, MarkerHolds, Whole
  <2> QED
    BY <2>1, <2>2, <2>3
<1>3. Mode = "maintenance" /\ Mode' = launcher /\ launcher \in {"python", "rust"}
  BY <1>1 DEF Mode, NoMarker, DeployInv, Shapes, DeploymentTypeOK
<1>4. StateEra # "mixed" /\ (launcher = "rust" => StateEra = "live")
  BY <1>2, ErasAre DEF Whole, AllRestored, Shape
<1>5. StateEra' = StateEra /\ AtWork' = AtWork
  BY <1>1, PathsTell DEF AtWork
<1> QED
  BY <1>3, <1>4, <1>5 DEF M!Leave

\* The two renames of a rollback replace the state piece by piece.
LEMMA SwapMaps ==
  ASSUME DeployInv, Park \/ Restore
  PROVE  M!Replace
<1> USE DEF DeployInv
<1>1. /\ UNCHANGED <<launcher, marker, rust>> /\ marker.kind = "rollback"
      /\ at \in Item /\ at <= N /\ dest \in [Item -> Object] /\ parked \in [Item -> Object]
  BY SwapStands, DeploymentAssumption
     DEF Park, Restore, commands, Item, Shapes, DeploymentTypeOK
<1>2. Mode = "maintenance" /\ Mode' = Mode /\ AtWork' = AtWork
  BY <1>1 DEF Mode, AtWork
<1>3. /\ Park => Waits(at)
      /\ Restore => IsBetween(at)
  <2>1. at >= at
    BY <1>1, DeploymentAssumption DEF Item
  <2> QED
    BY <1>1, <2>1, SwapStands DEF Park, Restore
<1>4. StateEra # "backup"
  BY <1>1, <1>3, ErasAre DEF Waits, IsBetween
<1>5. StateEra' \in {"mixed", "backup"}
  <2>1. PICK k \in Item : k = at
    BY <1>1
  <2>2. ASSUME Park PROVE StateEra' = "mixed"
    <3>1. dest'[k] = Absent
      BY <1>1, <2>1, <2>2 DEF Park
    <3> QED
      BY <3>1 DEF StateEra
  <2>3. ASSUME Restore PROVE StateEra' \in {"mixed", "backup"}
    <3>1. dest'[k].era = "backup"
      BY <1>1, <1>3, <2>1, <2>3, ObjectsAre DEF Restore, IsBetween
    <3> QED
      BY <3>1 DEF StateEra
  <2> QED
    BY <2>2, <2>3
<1> QED
  BY <1>2, <1>4, <1>5 DEF M!Replace

\* The launcher changes, and what was parked goes, under a marker.
LEMMA UnderMarkerMaps ==
  ASSUME DeployInv, InstallSwitch \/ UndoLauncher \/ RestoreLauncher \/ RemoveParked
  PROVE  UNCHANGED M!mVars
<1>1. UNCHANGED <<dest, marker, rust>> /\ marker.kind # "none"
  BY DEF InstallSwitch, UndoLauncher, RestoreLauncher, RemoveParked, Steps,
      Calm,
     commands, DeployInv, InstallHolds, RollbackHolds
<1>2. StateEra' = StateEra
  <2>1. ASSUME RemoveParked PROVE StateEra' = StateEra
    <3>1. \A i \in Item : Saved(i, "backup")
      BY <2>1 DEF RemoveParked, DeployInv, RollbackHolds, IsBack
    <3>2. \A i \in Item : dest[i] # Absent /\ dest[i].era = "backup"
      BY <3>1, ObjectsAre DEF Saved
    <3> QED
      BY <1>1, <3>2 DEF StateEra
  <2> QED
    BY <1>1, <2>1, PathsTell DEF InstallSwitch, UndoLauncher, RestoreLauncher
<1> QED
  BY <1>1, <1>2, ViewStays

\* What is cut off where the scripts stop does not change whose the state is.
LEMMA CutOffMaps == ASSUME DeployInv, CutOff, UNCHANGED dest PROVE StateEra' = StateEra
<1>1. CASE UNCHANGED parked
  BY <1>1, PathsTell
<1>2. CASE pc["rollback"] = "clean"
  <2>1. \A i \in Item : Saved(i, "backup")
    BY <1>2 DEF DeployInv, RollbackHolds, IsBack
  <2>2. \A i \in Item : dest[i] # Absent /\ dest[i].era = "backup"
    BY <2>1, ObjectsAre DEF Saved
  <2> QED
    BY <2>2 DEF StateEra
<1> QED
  BY <1>1, <1>2 DEF CutOff

\* A script that dies leaves the deployment as it is seen.
LEMMA CrashMaps ==
  ASSUME DeployInv, NEW s \in Script, Crash(s) PROVE UNCHANGED M!mVars
<1>1. UNCHANGED <<launcher, marker, rust, dest>>
  BY DEF Crash, commands
<1>2. StateEra' = StateEra
  BY <1>1, CutOffMaps, PathsTell DEF Crash
<1> QED
  BY <1>1, <1>2, ViewStays

\* A reboot halts the commands.
LEMMA RebootMaps == ASSUME DeployInv, Reboot PROVE M!Halt \/ UNCHANGED M!mVars
<1>1. AtWork' = {} /\ UNCHANGED <<Mode, StateEra>>
  BY CutOffMaps DEF Reboot, AtWork, Mode
<1> QED
  BY <1>1 DEF M!Halt, M!mVars

\* All other steps change nothing of what is seen.
LEMMA RestStays ==
  ASSUME UNCHANGED <<dest, parked, launcher, marker, rust>>
  PROVE  UNCHANGED M!mVars
  BY PathsTell, ViewStays

\* The install enters maintenance with its marker and leaves it with that gone.
LEMMA InstallMaps == ASSUME DeployInv, Install PROVE [M!MNext]_(M!mVars)
<1>1. \/ InstallMark \/ InstallSwitch \/ UndoLauncher \/ InstallCommit
      \/ UNCHANGED <<dest, parked, launcher, marker, rust>>
  BY DEF Install, InstallBegin, InstallLock, InstallReceipt, InstallScan,
      InstallAccept,
     InstallQuarantine, UndoEnvironment, InstallFails, Fails, TakeLock, Calm, files,
     commands
<1> QED
  BY <1>1, MarkMaps, UnderMarkerMaps, CommitMaps, RestStays DEF M!MNext

\* So does a rollback, which replaces the state in between.
LEMMA RollbackMaps == ASSUME DeployInv, Rollback PROVE [M!MNext]_(M!mVars)
<1>1. \/ PublishMarker \/ RestoreLauncher \/ RemoveParked \/ RollbackCommit \/ Park
      \/ Restore \/ UNCHANGED <<dest, parked, launcher, marker, rust>>
  BY DEF Rollback, RollbackBegin, RollbackLock, RollbackIsDone, RollbackPrepare,
     StageItem, StagingFails, WritePending, RollbackResume, Classify, Skip,
     RestoreEnvironment, RollbackFails, Fails, TakeLock, Calm, files, commands
<1> QED
  BY <1>1, MarkMaps, UnderMarkerMaps, SwapMaps, CommitMaps, RestStays
     DEF M!MNext

\* So does a finalisation, which replaces nothing.
LEMMA FinalizeMaps == ASSUME DeployInv, Finalize PROVE [M!MNext]_(M!mVars)
<1>1. \/ FinalizeMark \/ FinalizeCommit
      \/ UNCHANGED <<dest, parked, launcher, marker, rust>>
  BY DEF Finalize, FinalizeBegin, FinalizeLock, FinalizeResume, Record, Retire,
      Remove,
     FinalizeFails, Fails, TakeLock, Calm, files, commands
<1> QED
  BY <1>1, MarkMaps, CommitMaps, RestStays DEF M!MNext

\* The scripts, their lock and their marker, with their deaths and reruns,
\* implement maintenance that excludes the Rust client and hands over the saved
\* state whole.
THEOREM MaintenanceIsImplemented == DeploymentSpec => MaintenanceSpec
<1>1. DeploymentInit => M!MInit
  <2> SUFFICES ASSUME DeploymentInit PROVE M!MInit
    OBVIOUS
  <2>1. AllLive
    BY DeploymentAssumption DEF DeploymentInit, AllLive, Saved, Live, Identity
  <2>2. Mode = "python" /\ AtWork = {}
    BY DEF DeploymentInit, Mode, AtWork, NoMarker
  <2> QED
    BY <2>1, <2>2, ErasAre DEF M!MInit
<1>2. DeployInv /\ [DeploymentNext]_vars => [M!MNext]_(M!mVars)
  <2> SUFFICES ASSUME DeployInv, [DeploymentNext]_vars PROVE [M!MNext]_(M!mVars)
    OBVIOUS
  <2>1. ASSUME Command PROVE [M!MNext]_(M!mVars)
    <3>1. ASSUME NEW p \in Python, PythonStart(p) \/ PythonEnd(p)
          PROVE  UNCHANGED M!mVars
      BY <3>1, RestStays DEF PythonStart, PythonEnd, files
    <3> QED
      BY <2>1, <3>1, RustMaps, WriteMaps DEF Command
  <2>2. ASSUME Accept \/ UNCHANGED vars
        PROVE  UNCHANGED M!mVars
    BY <2>2, RestStays DEF Accept, vars, files, commands
  <2> QED
    BY <2>1, <2>2, CrashMaps, InstallMaps, RollbackMaps, FinalizeMaps, RebootMaps
       DEF DeploymentNext, M!MNext
<1> QED
  BY <1>1, <1>2, DeploymentInvariant, PTL
     DEF DeploymentSpec, MaintenanceSpec, M!MSpec
=============================================================================
