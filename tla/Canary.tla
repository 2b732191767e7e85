------------------------------- MODULE Canary -------------------------------
(***************************************************************************)
(* The control plane of the payment canary                                 *)
(* (infra/payment-canary-runner/payment_canary_runner.py): a runner claims *)
(* an attempt in a durable ledger, probes the approved candidate, and lets *)
(* a protected adapter, a process of its own, make one payment.  A runner  *)
(* may die at any point; the adapter then goes on alone.                   *)
(*                                                                         *)
(* The ledger is a file of one JSON line per transition under a lock; here *)
(* it is the state it gives each attempt.  What is written but not synced  *)
(* is lost with the power, and a line cut short makes every later reading  *)
(* of the file fail.  The first claim may create the file; its content is  *)
(* synced then, but nothing syncs the directory that names it.             *)
(***************************************************************************)
EXTENDS Naturals, FiniteSets

CONSTANTS
  Runner,     \* runner processes
  Attempt,    \* attempt keys: commit, lock file, backend and workflow run
  Binary,     \* what may be installed as the candidate
  Claims,     \* approvals that may be deployed
  PathsChecked, \* whether main's check of the paths is in force, see Protected
  Free,       \* the lock when nobody holds it
  LastMoment, \* bound: the clock
  MaxStarts   \* bound: runners started

ASSUME CanaryAssumption ==
  /\ Free \notin Runner
  /\ PathsChecked \in BOOLEAN
  /\ LastMoment \in Nat /\ MaxStarts \in Nat
  \* An approval names the binary, the attempts whose commit, lock file and
  \* backend it binds, and when it ends.
  /\ Claims \subseteq [binary : Binary, attempts : SUBSET Attempt, expires : 0..LastMoment]

VARIABLES
  now,      \* the clock, shared with whatever else runs
  candidate, approval, \* the deployment: the binary and the signed claims
  book,     \* the ledger file as a process reads it
  saved,    \* what of the ledger file is synced: it survives a loss of power, if its name does
  cutShort, \* whether the file ends in part of a line
  named,    \* whether the directory entry of the file is on disk
  forgot,   \* history: whether a loss of power took the file with what was synced
  flock,    \* who holds the lock of the ledger file
  stage,    \* where a runner is
  key,      \* its attempt
  prior,    \* the state of the attempt it read under the lock
  verdict,  \* the state it is about to append
  starts,   \* runners started
  adapter,  \* the adapter process of an attempt
  wallet,   \* what the adapter's payment came to
  result,   \* the RESULT file: an attempt and what it says of it
  spawned,  \* history: adapter processes of an attempt
  told      \* history: what runners told the workflow of an attempt

deployment == <<candidate, approval>>
ledgerFile == <<book, saved, cutShort, named, forgot>>
payment == <<adapter, wallet, result, spawned>>
runnerState == <<stage, key, prior, verdict>>
canaryVars == <<deployment, ledgerFile, flock, runnerState, starts, payment, told>>

Terminal == {"unsubmitted_released", "succeeded", "definite_failed",
             "submitted_unknown_permanent_no_retry"}

States == {"none", "claimed"} \cup Terminal

\* MUTANT of Transitions: any state may follow any other.
AnyTransition(state) == States \ {state, "none"}

\* The states that may follow a state.
Transitions(state) ==
  IF state = "none" THEN {"claimed"} ELSE IF state = "claimed" THEN Terminal ELSE {}

\* A ledger without a line, which is also what a file that is not there reads as.
Blank == [k \in Attempt |-> "none"]

NoResult == [key |-> "none", state |-> "none"]

CanaryInit ==
  /\ candidate \in Binary /\ approval \in Claims
  /\ book = Blank /\ saved = Blank /\ cutShort = FALSE
  /\ named \in BOOLEAN /\ forgot = FALSE
  /\ flock = Free
  /\ stage = [r \in Runner |-> "off"]
  /\ key = [r \in Runner |-> "none"]
  /\ prior = [r \in Runner |-> "none"]
  /\ verdict = [r \in Runner |-> "none"]
  /\ starts = 0
  /\ adapter = [k \in Attempt |-> "none"]
  /\ wallet = [k \in Attempt |-> "untouched"]
  /\ result = NoResult
  /\ spawned = [k \in Attempt |-> 0]
  /\ told = [k \in Attempt |-> {}]

Goto(r, s) == stage' = [stage EXCEPT ![r] = s]

\* The runner exits: what it says is all that is left of it.
Exit(r) ==
  /\ stage' = [stage EXCEPT ![r] = "off"]
  /\ key' = [key EXCEPT ![r] = "none"]
  /\ prior' = [prior EXCEPT ![r] = "none"]
  /\ verdict' = [verdict EXCEPT ![r] = "none"]

Tell(r, what) == told' = [told EXCEPT ![key[r]] = @ \cup {what}]
-----------------------------------------------------------------------------
(* Before the claim.                                                       *)

\* main asks for a regular file at ROOT and for regular files below it, which
\* no file system offers; the repository's tests put another check in its place.
Protected == ~PathsChecked

\* The signed claims are in force, and bind this candidate and this attempt.
Approved(k) ==
  /\ now < approval.expires
  /\ approval.binary = candidate
  /\ k \in approval.attempts

\* A runner is started for an attempt, also for one that was claimed before,
\* and checks the deployment; its refusals change nothing.
Start(r, k) ==
  /\ stage[r] = "off" /\ starts < MaxStarts
  /\ Protected /\ Approved(k)
  /\ starts' = starts + 1
  /\ key' = [key EXCEPT ![r] = k]
  /\ verdict' = [verdict EXCEPT ![r] = "claimed"]
  /\ Goto(r, "appending")
  /\ UNCHANGED <<deployment, ledgerFile, flock, prior, payment, told>>
-----------------------------------------------------------------------------
(* transition: one append under the lock.                                  *)

\* MUTANT of AfterAppend: a verdict that could not be appended is told all the same.
AfterAppendUnread(r, appended) ==
  LET final == verdict[r] \in {"succeeded", "definite_failed"}
  IN  \/ /\ appended /\ verdict[r] = "claimed"
         /\ Goto(r, "probing") /\ UNCHANGED <<key, prior, verdict, told>>
      \/ final /\ Tell(r, verdict[r]) /\ Exit(r)
      \/ /\ verdict[r] = "claimed" => ~appended
         /\ ~final
         /\ Exit(r) /\ UNCHANGED told

\* Where the runner goes after it appended, or could not append, its verdict:
\* the claim leads to the probe, the terminal verdict to the exit, and where
\* the terminal verdict is refused the attempt is marked as unknown.
AfterAppend(r, appended) ==
  LET final == verdict[r] \in {"succeeded", "definite_failed"}
  IN  \/ /\ appended /\ verdict[r] = "claimed"
         /\ Goto(r, "probing") /\ UNCHANGED <<key, prior, verdict, told>>
      \/ appended /\ final /\ Tell(r, verdict[r]) /\ Exit(r)
      \/ /\ ~appended /\ final
         /\ verdict' = [verdict EXCEPT ![r] = "submitted_unknown_permanent_no_retry"]
         /\ Goto(r, "appending") /\ UNCHANGED <<key, prior, told>>
      \/ /\ verdict[r] = "claimed" => ~appended
         /\ ~final
         /\ Exit(r) /\ UNCHANGED told

\* MUTANT of LockAndRead: the file is read without its lock.
ReadUnlocked(r) ==
  /\ stage[r] = "appending" /\ ~cutShort
  /\ flock' = flock
  /\ prior' = [prior EXCEPT ![r] = book[key[r]]]
  /\ Goto(r, "holding")
  /\ UNCHANGED <<deployment, ledgerFile, key, verdict, starts, payment, told>>

\* The lock is waited for and the states are read from all lines.
LockAndRead(r) ==
  /\ stage[r] = "appending" /\ flock = Free /\ ~cutShort
  /\ flock' = r
  /\ prior' = [prior EXCEPT ![r] = book[key[r]]]
  /\ Goto(r, "holding")
  /\ UNCHANGED <<deployment, ledgerFile, key, verdict, starts, payment, told>>

\* The file cannot be opened, locked or parsed.
ReadFails(r) ==
  /\ stage[r] = "appending" /\ flock = Free
  /\ AfterAppend(r, FALSE)
  /\ UNCHANGED <<deployment, ledgerFile, flock, starts, payment>>

Legal(r) == verdict[r] \in Transitions(prior[r])

Release(r) == flock' = IF flock = r THEN Free ELSE flock

RefuseAppend(r) ==
  /\ stage[r] = "holding" /\ ~Legal(r)
  /\ Release(r) /\ AfterAppend(r, FALSE)
  /\ UNCHANGED <<deployment, ledgerFile, starts, payment>>

\* The line is written, flushed and synced, with everything before it.
Append(r) ==
  /\ stage[r] = "holding" /\ Legal(r)
  /\ book' = [book EXCEPT ![key[r]] = verdict[r]]
  /\ saved' = book' /\ UNCHANGED <<cutShort, named, forgot>>
  /\ Release(r) /\ AfterAppend(r, TRUE)
  /\ UNCHANGED <<deployment, starts, payment>>

\* MUTANT of AppendFails: the failed append keeps the lock.
AppendFailsLocked(r) ==
  /\ stage[r] = "holding" /\ Legal(r)
  /\ UNCHANGED <<ledgerFile, flock>> /\ AfterAppend(r, FALSE)
  /\ UNCHANGED <<deployment, starts, payment>>

\* The line is not written, written in part, or written and not synced.
AppendFails(r) ==
  /\ stage[r] = "holding" /\ Legal(r)
  /\ \/ UNCHANGED ledgerFile
     \/ cutShort' = TRUE /\ UNCHANGED <<book, saved, named, forgot>>
     \/ /\ book' = [book EXCEPT ![key[r]] = verdict[r]]
        /\ UNCHANGED <<saved, cutShort, named, forgot>>
  /\ Release(r) /\ AfterAppend(r, FALSE)
  /\ UNCHANGED <<deployment, starts, payment>>
-----------------------------------------------------------------------------
(* The probe, the adapter and its result.                                  *)

\* The candidate answers as it should, or fails, answers otherwise or takes
\* too long, and the attempt is released unsubmitted.
Probe(r) ==
  /\ stage[r] = "probing"
  /\ \/ Goto(r, "paying") /\ UNCHANGED verdict
     \/ /\ verdict' = [verdict EXCEPT ![r] = "unsubmitted_released"]
        /\ Goto(r, "appending")
  /\ UNCHANGED <<deployment, ledgerFile, flock, key, prior, starts, payment, told>>

RunAdapter(r) ==
  /\ stage[r] = "paying"
  /\ adapter' = [adapter EXCEPT ![key[r]] = "running"]
  /\ spawned' = [spawned EXCEPT ![key[r]] = @ + 1]
  /\ Goto(r, "waiting")
  /\ UNCHANGED <<deployment, ledgerFile, flock, key, prior, verdict, starts,
                 wallet, result, told>>

Doubt(r) ==
  /\ verdict' = [verdict EXCEPT ![r] = "submitted_unknown_permanent_no_retry"]
  /\ Goto(r, "appending")
  /\ UNCHANGED <<deployment, ledgerFile, flock, key, prior, starts, wallet,
                 result, spawned, told>>

\* The adapter does not start, exits with an error, or is killed when its
\* time is over.
AdapterFails(r) ==
  /\ stage[r] = "paying" \/ stage[r] = "waiting"
  /\ adapter' = [adapter EXCEPT ![key[r]] = IF @ = "none" THEN @ ELSE "gone"]
  /\ Doubt(r)

AdapterEnds(r) ==
  /\ stage[r] = "waiting" /\ adapter[key[r]] = "written"
  /\ adapter' = [adapter EXCEPT ![key[r]] = "gone"]
  /\ Goto(r, "judging")
  /\ UNCHANGED <<deployment, ledgerFile, flock, key, prior, verdict, starts,
                 wallet, result, spawned, told>>

\* MUTANT of Conclusive: the attempt that the result names is not looked at.
ConclusiveUnbound(r) == result.state \in {"succeeded", "definite_failed"}

\* The result is about this attempt and says how it ended.
Conclusive(r) == result.key = key[r] /\ result.state \in {"succeeded", "definite_failed"}

Judge(r) ==
  /\ stage[r] = "judging" /\ Conclusive(r)
  /\ verdict' = [verdict EXCEPT ![r] = result.state]
  /\ Goto(r, "appending")
  /\ UNCHANGED <<deployment, ledgerFile, flock, key, prior, starts, payment, told>>

JudgeNot(r) ==
  /\ stage[r] = "judging" /\ ~Conclusive(r)
  /\ UNCHANGED adapter /\ Doubt(r)

\* The adapter of attempt k: it pays, or learns that it cannot, and leaves its
\* result in the one RESULT file; the runner that started it may be dead.
AdapterPays(k) ==
  /\ adapter[k] = "running" /\ wallet[k] = "untouched"
  /\ \E outcome \in {"paid", "refused"} : wallet' = [wallet EXCEPT ![k] = outcome]
  /\ UNCHANGED <<deployment, ledgerFile, flock, runnerState, starts, adapter,
                 result, spawned, told>>

AdapterWrites(k) ==
  /\ adapter[k] = "running"
  /\ adapter' = [adapter EXCEPT ![k] = "written"]
  /\ result' = [key |-> k,
                state |-> CASE wallet[k] = "paid" -> "succeeded"
                            [] wallet[k] = "refused" -> "definite_failed"
                            [] OTHER -> "none"]
  /\ UNCHANGED <<deployment, ledgerFile, flock, runnerState, starts, wallet,
                 spawned, told>>
-----------------------------------------------------------------------------
(* Faults and the clock.                                                   *)

\* A runner dies.  In the middle of an append its line may be there whole, in
\* part or not at all.
RunnerDies(r) ==
  /\ stage[r] # "off"
  /\ \/ UNCHANGED <<book, cutShort>>
     \/ stage[r] = "holding" /\ Legal(r) /\ cutShort' = TRUE /\ UNCHANGED book
     \/ /\ stage[r] = "holding" /\ Legal(r)
        /\ book' = [book EXCEPT ![key[r]] = verdict[r]] /\ UNCHANGED cutShort
  /\ UNCHANGED <<saved, named, forgot>>
  /\ Release(r) /\ Exit(r)
  /\ UNCHANGED <<deployment, starts, payment, told>>

\* What was not synced may be lost, and the whole file with a name that was not.
\* A file that is found after the loss has its name on disk.
FileAfterLoss ==
  \/ /\ book' \in {saved, book} /\ named' = TRUE /\ UNCHANGED forgot
     /\ cutShort' \in {cutShort, FALSE, book # saved}
  \/ /\ ~named /\ book' = Blank /\ cutShort' = FALSE
     /\ forgot' = (forgot \/ saved # Blank) /\ UNCHANGED named

PowerIsLost ==
  /\ \E r \in Runner : stage[r] # "off"
  /\ FileAfterLoss /\ saved' = book'
  /\ flock' = Free
  /\ stage' = [r \in Runner |-> "off"] /\ key' = [r \in Runner |-> "none"]
  /\ prior' = [r \in Runner |-> "none"] /\ verdict' = [r \in Runner |-> "none"]
  /\ adapter' = [k \in Attempt |-> IF adapter[k] = "none" THEN "none" ELSE "gone"]
  /\ UNCHANGED <<deployment, starts, wallet, result, spawned, told>>

\* Root installs another candidate; its approval follows some time later.
Redeploy ==
  /\ candidate' \in Binary \ {candidate}
  /\ UNCHANGED <<approval, ledgerFile, flock, runnerState, starts, payment, told>>

RunnerStep(r) ==
  \/ LockAndRead(r) \/ ReadFails(r) \/ RefuseAppend(r) \/ Append(r) \/ AppendFails(r)
  \/ Probe(r) \/ RunAdapter(r) \/ AdapterFails(r) \/ AdapterEnds(r)
  \/ Judge(r) \/ JudgeNot(r)

CanaryNext ==
  \/ \E r \in Runner, k \in Attempt : Start(r, k)
  \/ \E r \in Runner : RunnerStep(r) \/ RunnerDies(r)
  \/ \E k \in Attempt : AdapterPays(k) \/ AdapterWrites(k)
  \/ PowerIsLost
  \/ Redeploy

\* The clock goes on as it likes.
CanarySpec == CanaryInit /\ [][CanaryNext]_canaryVars
-----------------------------------------------------------------------------
(* Properties.                                                             *)

\* An attempt is submitted at most once, however many runners are started for
\* it, whichever of them die and whatever the ledger loses ("permanently
\* refusing retry", main), and only if the approval binds it; unless the power
\* took the file that the first claim had created, whose directory entry transition
\* never syncs. The other properties of the ledger except that as well.
SubmittedOnce ==
  forgot \/ \A k \in Attempt : spawned[k] <= (IF k \in approval.attempts THEN 1 ELSE 0)

\* What the ledger says of an attempt is what happened to the money: a released
\* attempt never reached the adapter, and a verdict is that of its own payment,
\* not of one whose result was left in the same file.
VerdictIsTrue ==
  forgot \/ \A k \in Attempt :
    /\ book[k] = "unsubmitted_released" => spawned[k] = 0
    /\ book[k] = "succeeded" => wallet[k] = "paid"
    /\ book[k] = "definite_failed" => wallet[k] = "refused"

\* A runner that tells the workflow how its payment ended has that verdict on
\* disk, for good, and no other runner tells anything else.
ToldIsRecorded ==
  forgot \/ \A k \in Attempt : \A what \in told[k] : saved[k] = what

\* What is safely on disk of attempt k moves at most one state on.
MovesOn(k) ==
  \/ saved'[k] = saved[k]
  \/ saved[k] = "none" /\ saved'[k] = "claimed"
  \/ saved[k] = "claimed" /\ saved'[k] \in Terminal

\* What is safely on disk of an attempt only ever moves from nothing to a claim
\* and from the claim to one verdict.
VerdictIsFinal == [][forgot' \/ \A k \in Attempt : MovesOn(k)]_canaryVars

\* Every runner comes to an end: nobody waits for the lock of a runner that
\* left or for an adapter beyond its time.
RunnersEnd == \A r \in Runner : stage[r] # "off" ~> stage[r] = "off"
=============================================================================
