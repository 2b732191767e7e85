---------------------------- MODULE CanaryProofs ----------------------------
(***************************************************************************)
(* Theorems about Canary, for any number of runners, attempts, binaries    *)
(* and approvals: an attempt is submitted once, and what the ledger says   *)
(* of it and what the workflow is told is what happened to the money; as   *)
(* long as no loss of power takes the file with its name (forgot), for     *)
(* no runner syncs its directory.                                          *)
(***************************************************************************)
EXTENDS Canary, TLAPS
-----------------------------------------------------------------------------
(* The inductive invariant.                                                *)

\* The stages of a runner that has claimed its attempt and not yet judged it.
Working == {"probing", "paying", "waiting", "judging"}

Writing == {"appending", "holding"}

Final == {"succeeded", "definite_failed"}

CanaryTypeOK ==
  /\ book \in [Attempt -> States] /\ saved \in [Attempt -> States]
  /\ stage \in [Runner -> {"off"} \cup Working \cup Writing]
  /\ DOMAIN key = Runner /\ DOMAIN prior = Runner
  /\ verdict \in [Runner -> States]
  /\ DOMAIN adapter = Attempt
  /\ wallet \in [Attempt -> {"untouched", "paid", "refused"}]
  /\ spawned \in [Attempt -> Nat]
  /\ told \in [Attempt -> SUBSET Final]
  /\ approval.attempts \subseteq Attempt

\* A runner's place agrees with what it is about to append, and while it works
\* the ledger has its claim.
RunnerAgrees(r) ==
  /\ stage[r] # "off" => key[r] \in approval.attempts
  /\ stage[r] \in Working => verdict[r] = "claimed" /\ book[key[r]] = "claimed"
  /\ stage[r] \in Writing => verdict[r] # "none"
  /\ stage[r] = "holding" <=> flock = r
  /\ stage[r] = "holding" => prior[r] = book[key[r]]

\* The file is ahead of the disk by one line of an attempt at most.
BookFollows ==
  \A k \in Attempt : book[k] \in {saved[k]} \cup Transitions(saved[k])

\* The runner's claim was appended.
Owner(r) ==
  \/ stage[r] \in Working
  \/ stage[r] \in Writing /\ verdict[r] # "claimed"

\* The claim of an owner is on disk, and no two have claimed one attempt.
OwnersAreAlone ==
  \A r \in Runner : Owner(r) =>
    /\ saved[key[r]] # "none"
    /\ \A q \in Runner \ {r} : Owner(q) => key[q] # key[r]

\* An owner submits only what was never submitted, and judges by the wallet.
OwnerIsHonest(r) ==
  LET k == key[r] IN
  /\ stage[r] \in {"probing", "paying"} => spawned[k] = 0
  /\ stage[r] \in Writing /\ verdict[r] = "unsubmitted_released" =>
       spawned[k] = 0
  /\ stage[r] \in Writing /\ verdict[r] = "succeeded" => wallet[k] = "paid"
  /\ stage[r] \in Writing /\ verdict[r] = "definite_failed" =>
       wallet[k] = "refused"

ResultIsTrue ==
  /\ result.state = "succeeded" => wallet[result.key] = "paid"
  /\ result.state = "definite_failed" => wallet[result.key] = "refused"

\* What was submitted was claimed on disk before.
SubmissionsAreClaimed ==
  \A k \in Attempt :
    /\ spawned[k] <= 1
    /\ spawned[k] # 0 => k \in approval.attempts /\ saved[k] # "none"

CanaryInv ==
  /\ CanaryTypeOK /\ ~forgot
  /\ \A r \in Runner : RunnerAgrees(r) /\ OwnerIsHonest(r)
  /\ BookFollows /\ OwnersAreAlone /\ ResultIsTrue /\ SubmissionsAreClaimed
  /\ VerdictIsTrue /\ ToldIsRecorded
-----------------------------------------------------------------------------
(* The deployment and the beginning of a run.                              *)

\* The first state satisfies the invariant.
LEMMA InitHasCanaryInv == ASSUME CanaryInit PROVE CanaryInv
<1> USE CanaryAssumption DEF CanaryInit, Blank
<1>1. CanaryTypeOK
  BY DEF CanaryTypeOK, States
<1>2. \A r \in Runner : RunnerAgrees(r) /\ OwnerIsHonest(r)
  BY DEF RunnerAgrees, OwnerIsHonest, Working, Writing
<1>3. BookFollows /\ OwnersAreAlone
  BY DEF BookFollows, OwnersAreAlone, Owner, Working, Writing
<1>4. ResultIsTrue /\ SubmissionsAreClaimed
  BY DEF ResultIsTrue, SubmissionsAreClaimed, NoResult
<1>5. VerdictIsTrue /\ ToldIsRecorded
  BY DEF VerdictIsTrue, ToldIsRecorded
<1> QED
  BY <1>1, <1>2, <1>3, <1>4, <1>5 DEF CanaryInv

\* A start keeps the invariant: the new runner has claimed nothing yet.
LEMMA StartKeeps ==
  ASSUME CanaryInv, NEW r \in Runner, NEW k \in Attempt, Start(r, k)
  PROVE  CanaryInv'
<1> USE CanaryAssumption DEF CanaryInv, Start, Goto, deployment, ledgerFile, payment
<1>1. CanaryTypeOK'
  BY DEF CanaryTypeOK, States, Writing
<1>2. \A q \in Runner : RunnerAgrees(q)' /\ OwnerIsHonest(q)'
  BY DEF CanaryTypeOK, RunnerAgrees, OwnerIsHonest, Working, Approved
<1>3. BookFollows' /\ OwnersAreAlone'
  BY DEF CanaryTypeOK, BookFollows, OwnersAreAlone, Owner, Working
<1>4. ResultIsTrue' /\ SubmissionsAreClaimed'
  BY DEF ResultIsTrue, SubmissionsAreClaimed
<1>5. VerdictIsTrue' /\ ToldIsRecorded'
  BY DEF VerdictIsTrue, ToldIsRecorded
<1> QED
  BY <1>1, <1>2, <1>3, <1>4, <1>5
-----------------------------------------------------------------------------
(* The append.                                                             *)

\* What is known of a runner's attempt when it may append under the lock: what
\* it appends is true, no other runner works on the attempt, and nobody was told
\* how it ended.
MayAppend(r) ==
  LET k == key[r] IN
  /\ verdict[r] \in Transitions(book[k])
  /\ saved[k] = book[k]
  /\ \A q \in Runner \ {r} : Owner(q) => key[q] # k
  /\ told[k] = {}
  /\ verdict[r] \in {"claimed", "unsubmitted_released"} => spawned[k] = 0
  /\ verdict[r] = "succeeded" => wallet[k] = "paid"
  /\ verdict[r] = "definite_failed" => wallet[k] = "refused"

\* A claim is appended only to an attempt without one, and nobody owns that; a
\* verdict is appended by the owner.
LEMMA LegalMayAppend ==
  ASSUME CanaryInv, NEW r \in Runner, stage[r] = "holding", Legal(r)
  PROVE  MayAppend(r) /\ key[r] \in Attempt
<1> USE DEF CanaryInv, Legal
<1>1. key[r] \in Attempt /\ prior[r] = book[key[r]] /\ verdict[r] \in States \ {"none"}
  BY DEF CanaryTypeOK, RunnerAgrees
<1>2. verdict[r] \in Transitions(book[key[r]])
  BY <1>1
<1>3. book[key[r]] \in {saved[key[r]]} \cup Transitions(saved[key[r]])
      /\ saved[key[r]] \in States
  BY <1>1 DEF BookFollows, CanaryTypeOK
<1>4. told[key[r]] = {}
  BY <1>1, <1>3 DEF ToldIsRecorded, CanaryTypeOK, Transitions, Final
<1>5. CASE verdict[r] = "claimed"
  <2>1. book[key[r]] = "none" /\ saved[key[r]] = "none"
    BY <1>2, <1>3, <1>5 DEF Transitions, Terminal
  <2>2. \A q \in Runner : Owner(q) => key[q] # key[r]
    BY <2>1 DEF OwnersAreAlone
  <2>3. spawned[key[r]] = 0
    BY <1>1, <2>1 DEF SubmissionsAreClaimed
  <2> QED
    BY <1>1, <1>4, <1>5, <2>1, <2>2, <2>3 DEF MayAppend
<1>6. CASE verdict[r] # "claimed"
  <2>1. Owner(r)
    BY <1>6 DEF Owner, Writing
  <2>2. saved[key[r]] = book[key[r]]
    BY <1>2, <1>3, <2>1 DEF OwnersAreAlone, Transitions, Terminal
  <2>3. \A q \in Runner \ {r} : Owner(q) => key[q] # key[r]
    BY <2>1 DEF OwnersAreAlone
  <2> QED
    BY <1>1, <1>4, <1>6, <2>2, <2>3 DEF MayAppend, OwnerIsHonest, Writing
<1> QED
  BY <1>5, <1>6

\* A line that may be appended, synced or not, leaves the ledger true, and the
\* disk behind it by that line at most.
LEMMA LineIsTrue ==
  ASSUME CanaryInv, NEW r \in Runner, MayAppend(r), key[r] \in Attempt,
         book' = [book EXCEPT ![key[r]] = verdict[r]],
         UNCHANGED <<spawned, wallet>>
  PROVE  /\ book' \in [Attempt -> States]
         /\ VerdictIsTrue'
         /\ \A q \in Runner \ {r} :
              stage[q] \in Working => book'[key[q]] = "claimed"
         /\ UNCHANGED saved => BookFollows'
<1> USE DEF CanaryInv, MayAppend
<1>1. book' \in [Attempt -> States]
  BY DEF CanaryTypeOK
<1>2. VerdictIsTrue'
  BY DEF VerdictIsTrue
<1>3. \A q \in Runner \ {r} : stage[q] \in Working => book'[key[q]] = "claimed"
  BY DEF RunnerAgrees, Owner
<1>4. UNCHANGED saved => BookFollows'
  BY DEF BookFollows
<1> QED
  BY <1>1, <1>2, <1>3, <1>4
\* Where a runner is after it appended its line.
LEMMA AfterTheLine ==
  ASSUME CanaryTypeOK, NEW r \in Runner, key[r] \in Attempt,
         verdict[r] \in States \ {"none"}, AfterAppend(r, TRUE)
  PROVE  /\ stage' \in [Runner -> {"off"} \cup Working \cup Writing]
         /\ DOMAIN key' = Runner /\ DOMAIN prior' = Runner
         /\ verdict' \in [Runner -> States]
         /\ \A q \in Runner \ {r} :
              /\ stage'[q] = stage[q] /\ key'[q] = key[q]
              /\ prior'[q] = prior[q] /\ verdict'[q] = verdict[q]
         /\ IF verdict[r] = "claimed"
            THEN /\ stage'[r] = "probing" /\ UNCHANGED <<key, verdict>>
            ELSE stage'[r] = "off"
         /\ IF verdict[r] \in Final
            THEN told' = [told EXCEPT ![key[r]] = @ \cup {verdict[r]}]
            ELSE told' = told
  BY DEF AfterAppend, CanaryTypeOK, Goto, Exit, Tell, Working, Final, States

\* An append keeps the invariant: the claim makes the runner the one owner of
\* its attempt, a verdict that was told is on disk.
LEMMA AppendKeeps ==
  ASSUME CanaryInv, NEW r \in Runner, Append(r)
  PROVE  CanaryInv'
<1> DEFINE k == key[r]
<1> USE CanaryAssumption DEF CanaryInv, Append, payment, deployment
<1>1. MayAppend(r) /\ k \in Attempt
  BY LegalMayAppend
<1>2. verdict[r] \in States \ {"none"}
  BY DEF RunnerAgrees, CanaryTypeOK
<1>3. /\ book' \in [Attempt -> States]
      /\ VerdictIsTrue'
      /\ \A q \in Runner \ {r} :
           stage[q] \in Working => book'[key[q]] = "claimed"
  BY <1>1, LineIsTrue
<1>4. /\ stage' \in [Runner -> {"off"} \cup Working \cup Writing]
      /\ DOMAIN key' = Runner /\ DOMAIN prior' = Runner
      /\ verdict' \in [Runner -> States]
      /\ \A q \in Runner \ {r} :
           /\ stage'[q] = stage[q] /\ key'[q] = key[q]
           /\ prior'[q] = prior[q] /\ verdict'[q] = verdict[q]
      /\ IF verdict[r] = "claimed"
         THEN /\ stage'[r] = "probing" /\ UNCHANGED <<key, verdict>>
         ELSE stage'[r] = "off"
      /\ IF verdict[r] \in Final
         THEN told' = [told EXCEPT ![k] = @ \cup {verdict[r]}]
         ELSE told' = told
  BY <1>1, <1>2, AfterTheLine
<1>5. CanaryTypeOK'
  BY <1>3, <1>4 DEF CanaryTypeOK
<1>6. \A q \in Runner : RunnerAgrees(q)'
  <2>1. RunnerAgrees(r)'
    BY <1>4 DEF RunnerAgrees, CanaryTypeOK, Release, Working, Writing
  <2>2. ASSUME NEW q \in Runner \ {r} PROVE RunnerAgrees(q)'
    BY <1>3, <1>4 DEF RunnerAgrees, Release
  <2> QED
    BY <2>1, <2>2
<1>7. \A q \in Runner : OwnerIsHonest(q)'
  BY <1>1, <1>4 DEF MayAppend, OwnerIsHonest, Writing
<1>8. BookFollows'
  BY DEF BookFollows
<1>9. OwnersAreAlone'
  <2>1. \A q \in Runner \ {r} : Owner(q)' <=> Owner(q)
    BY <1>4 DEF Owner
  <2>2. Owner(r)' => verdict[r] = "claimed" /\ key'[r] = k
    BY <1>4 DEF Owner, Working, Writing
  <2>3. \A j \in Attempt : saved[j] # "none" => saved'[j] # "none"
    BY <1>2 DEF BookFollows, Transitions, Terminal
  <2> QED
    BY <1>1, <1>4, <2>3 DEF OwnersAreAlone, MayAppend, RunnerAgrees, Owner,
       CanaryTypeOK, Working, Writing
<1>10. ResultIsTrue' /\ SubmissionsAreClaimed'
  BY <1>2 DEF ResultIsTrue, SubmissionsAreClaimed, BookFollows, Transitions,
     Terminal
<1>11. ToldIsRecorded'
  <2>1. \A j \in Attempt \ {k} : \A what \in told[j] : saved'[j] = what
    BY DEF ToldIsRecorded, BookFollows, CanaryTypeOK, Transitions, Final
  <2> QED
    BY <1>1, <1>4, <2>1 DEF ToldIsRecorded, MayAppend, CanaryTypeOK
<1> QED
  BY <1>3, <1>5, <1>6, <1>7, <1>8, <1>9, <1>10, <1>11
\* Where a runner is after it could not append its line.
LEMMA AfterTheFailure ==
  ASSUME CanaryTypeOK, NEW r \in Runner, key[r] \in Attempt, AfterAppend(r, FALSE)
  PROVE  /\ stage' \in [Runner -> {"off"} \cup Working \cup Writing]
         /\ DOMAIN key' = Runner /\ DOMAIN prior' = Runner
         /\ verdict' \in [Runner -> States]
         /\ \A q \in Runner \ {r} :
              /\ stage'[q] = stage[q] /\ key'[q] = key[q]
              /\ prior'[q] = prior[q] /\ verdict'[q] = verdict[q]
         /\ stage'[r] \in {"off", "appending"}
         /\ stage'[r] = "appending" =>
              /\ verdict[r] \in Final /\ key'[r] = key[r]
              /\ verdict'[r] = "submitted_unknown_permanent_no_retry"
         /\ told' = told
  BY DEF AfterAppend, CanaryTypeOK, Goto, Exit, Writing, Final, States, Terminal

\* A runner leaves the lock, for good or to mark its attempt as unknown, and
\* may leave one line behind it that is not synced.
LEMMA LeavingKeeps ==
  ASSUME CanaryInv, NEW r \in Runner, stage[r] # "off", Release(r),
         stage' \in [Runner -> {"off"} \cup Working \cup Writing],
         DOMAIN key' = Runner, DOMAIN prior' = Runner,
         verdict' \in [Runner -> States],
         \A q \in Runner \ {r} :
           /\ stage'[q] = stage[q] /\ key'[q] = key[q]
           /\ prior'[q] = prior[q] /\ verdict'[q] = verdict[q],
         stage'[r] \in {"off", "appending"},
         stage'[r] = "appending" =>
           /\ verdict[r] \in Final /\ key'[r] = key[r] /\ stage[r] \in Writing
           /\ verdict'[r] = "submitted_unknown_permanent_no_retry",
         \/ UNCHANGED book
         \/ /\ stage[r] = "holding" /\ Legal(r)
            /\ book' = [book EXCEPT ![key[r]] = verdict[r]],
         UNCHANGED <<deployment, saved, named, forgot, payment, told>>
  PROVE  CanaryInv'
<1> DEFINE k == key[r]
<1> USE CanaryAssumption DEF CanaryInv, payment, deployment
<1>1. CASE UNCHANGED book
  <2> USE <1>1
  <2>1. CanaryTypeOK'
    BY DEF CanaryTypeOK
  <2>2. \A q \in Runner : RunnerAgrees(q)' /\ OwnerIsHonest(q)'
    BY DEF RunnerAgrees, OwnerIsHonest, Release, Working, Writing
  <2>3. BookFollows' /\ VerdictIsTrue' /\ ToldIsRecorded'
    BY DEF BookFollows, VerdictIsTrue, ToldIsRecorded
  <2>4. OwnersAreAlone'
    BY DEF OwnersAreAlone, Owner, Working, Writing, Final
  <2>5. ResultIsTrue' /\ SubmissionsAreClaimed'
    BY DEF ResultIsTrue, SubmissionsAreClaimed
  <2> QED
    BY <2>1, <2>2, <2>3, <2>4, <2>5
<1>2. CASE /\ stage[r] = "holding" /\ Legal(r)
           /\ book' = [book EXCEPT ![k] = verdict[r]]
  <2>1. MayAppend(r) /\ k \in Attempt
    BY <1>2, LegalMayAppend
  <2>2. /\ book' \in [Attempt -> States]
        /\ VerdictIsTrue' /\ BookFollows'
        /\ \A q \in Runner \ {r} :
             stage[q] \in Working => book'[key[q]] = "claimed"
    BY <1>2, <2>1, LineIsTrue
  <2>3. CanaryTypeOK'
    BY DEF CanaryTypeOK
  <2>4. \A q \in Runner : RunnerAgrees(q)'
    BY <2>2 DEF RunnerAgrees, Release, Working, Writing
  <2>5. \A q \in Runner : OwnerIsHonest(q)'
    BY DEF OwnerIsHonest, Writing
  <2>6. OwnersAreAlone'
    BY DEF OwnersAreAlone, Owner, Working, Writing, Final
  <2>7. ResultIsTrue' /\ SubmissionsAreClaimed' /\ ToldIsRecorded'
    BY DEF ResultIsTrue, SubmissionsAreClaimed, ToldIsRecorded
  <2> QED
    BY <2>2, <2>3, <2>4, <2>5, <2>6, <2>7
<1> QED
  BY <1>1, <1>2

\* A file that cannot be read and a line that may not be appended change nothing
\* in it.
LEMMA RefusalKeeps ==
  ASSUME CanaryInv, NEW r \in Runner, ReadFails(r) \/ RefuseAppend(r)
  PROVE  CanaryInv'
<1>1. stage[r] \in Writing /\ key[r] \in Attempt /\ AfterAppend(r, FALSE)
  BY DEF ReadFails, RefuseAppend, CanaryInv, CanaryTypeOK, RunnerAgrees, Writing
<1>2. Release(r)
  BY DEF ReadFails, RefuseAppend, Release
<1>3. UNCHANGED <<deployment, ledgerFile, payment>>
  BY DEF ReadFails, RefuseAppend
<1> QED
  BY <1>1, <1>2, <1>3, AfterTheFailure, LeavingKeeps DEF CanaryInv, ledgerFile,
     Writing

\* An append that fails leaves nothing behind, or a line nobody was told of.
LEMMA AppendFailsKeeps ==
  ASSUME CanaryInv, NEW r \in Runner, AppendFails(r)
  PROVE  CanaryInv'
<1>1. stage[r] \in Writing /\ key[r] \in Attempt /\ AfterAppend(r, FALSE)
  BY DEF AppendFails, CanaryInv, CanaryTypeOK, RunnerAgrees, Writing
<1>2. \/ UNCHANGED book
      \/ /\ stage[r] = "holding" /\ Legal(r)
         /\ book' = [book EXCEPT ![key[r]] = verdict[r]]
  BY DEF AppendFails, ledgerFile
<1>3. UNCHANGED <<deployment, saved, named, forgot, payment>> /\ Release(r)
  BY DEF AppendFails, ledgerFile
<1> QED
  BY <1>1, <1>2, <1>3, AfterTheFailure, LeavingKeeps DEF CanaryInv, Writing

\* So does a runner that dies.
LEMMA RunnerDiesKeeps ==
  ASSUME CanaryInv, NEW r \in Runner, RunnerDies(r)
  PROVE  CanaryInv'
<1>1. /\ stage' \in [Runner -> {"off"} \cup Working \cup Writing]
      /\ DOMAIN key' = Runner /\ DOMAIN prior' = Runner
      /\ verdict' \in [Runner -> States]
      /\ stage'[r] = "off"
      /\ \A q \in Runner \ {r} :
           /\ stage'[q] = stage[q] /\ key'[q] = key[q]
           /\ prior'[q] = prior[q] /\ verdict'[q] = verdict[q]
  BY DEF RunnerDies, Exit, CanaryInv, CanaryTypeOK, States
<1>2. \/ UNCHANGED book
      \/ /\ stage[r] = "holding" /\ Legal(r)
         /\ book' = [book EXCEPT ![key[r]] = verdict[r]]
  BY DEF RunnerDies
<1>3. UNCHANGED <<deployment, saved, named, forgot, payment, told>> /\ Release(r) /\ stage[r] # "off"
  BY DEF RunnerDies
<1> QED
  BY <1>1, <1>2, <1>3, LeavingKeeps

\* What a runner reads under the lock is what the file says.
LEMMA LockAndReadKeeps ==
  ASSUME CanaryInv, NEW r \in Runner, LockAndRead(r)
  PROVE  CanaryInv'
<1> USE DEF CanaryInv, LockAndRead, Goto, deployment, ledgerFile, payment
<1>1. CanaryTypeOK'
  BY DEF CanaryTypeOK, Writing
<1>2. \A q \in Runner : RunnerAgrees(q)'
  BY CanaryAssumption DEF RunnerAgrees, CanaryTypeOK, Working
<1>3. \A q \in Runner : OwnerIsHonest(q)'
  BY DEF OwnerIsHonest, Writing
<1>4. BookFollows' /\ VerdictIsTrue' /\ ToldIsRecorded'
  BY DEF BookFollows, VerdictIsTrue, ToldIsRecorded
<1>5. OwnersAreAlone'
  BY DEF OwnersAreAlone, Owner, Working, Writing
<1>6. ResultIsTrue' /\ SubmissionsAreClaimed'
  BY DEF ResultIsTrue, SubmissionsAreClaimed
<1> QED
  BY <1>1, <1>2, <1>3, <1>4, <1>5, <1>6

-----------------------------------------------------------------------------
(* The probe, the adapter and its result.                                  *)

\* A probe that fails is followed by a release of what was never submitted.
LEMMA ProbeKeeps ==
  ASSUME CanaryInv, NEW r \in Runner, Probe(r)
  PROVE  CanaryInv'
<1> USE DEF CanaryInv, Probe, Goto, deployment, ledgerFile, payment
<1>1. CanaryTypeOK'
  BY DEF CanaryTypeOK, States, Terminal, Working, Writing
<1>2. \A q \in Runner : RunnerAgrees(q)'
  BY DEF RunnerAgrees, CanaryTypeOK, Working
<1>3. \A q \in Runner : OwnerIsHonest(q)'
  BY DEF OwnerIsHonest, CanaryTypeOK, Writing
<1>4. BookFollows' /\ VerdictIsTrue' /\ ToldIsRecorded'
  BY DEF BookFollows, VerdictIsTrue, ToldIsRecorded
<1>5. OwnersAreAlone'
  BY DEF OwnersAreAlone, Owner, CanaryTypeOK, Writing
<1>6. ResultIsTrue' /\ SubmissionsAreClaimed'
  BY DEF ResultIsTrue, SubmissionsAreClaimed
<1> QED
  BY <1>1, <1>2, <1>3, <1>4, <1>5, <1>6

\* The adapter is started by the one owner of an attempt, who has its claim on
\* disk, and for what was never submitted.
LEMMA RunAdapterKeeps ==
  ASSUME CanaryInv, NEW r \in Runner, RunAdapter(r)
  PROVE  CanaryInv'
<1> DEFINE k == key[r]
<1> USE DEF CanaryInv, RunAdapter, Goto, deployment, ledgerFile
<1>1. /\ k \in approval.attempts /\ k \in Attempt
      /\ book[k] = "claimed" /\ spawned[k] = 0
  BY DEF RunnerAgrees, OwnerIsHonest, CanaryTypeOK, Working
<1>2. Owner(r)
  BY DEF Owner, Working
<1>3. saved[k] # "none" /\ \A q \in Runner \ {r} : Owner(q) => key[q] # k
  BY <1>2 DEF OwnersAreAlone
<1>4. CanaryTypeOK'
  BY <1>1 DEF CanaryTypeOK, Working
<1>5. \A q \in Runner : RunnerAgrees(q)'
  BY DEF RunnerAgrees, Working
<1>6. \A q \in Runner : OwnerIsHonest(q)'
  <2>1. OwnerIsHonest(r)'
    BY DEF OwnerIsHonest, CanaryTypeOK, Writing
  <2>2. ASSUME NEW q \in Runner \ {r} PROVE OwnerIsHonest(q)'
    BY <1>3 DEF OwnerIsHonest, Owner, Working
  <2> QED
    BY <2>1, <2>2
<1>7. BookFollows' /\ ToldIsRecorded' /\ ResultIsTrue'
  BY DEF BookFollows, ToldIsRecorded, ResultIsTrue
<1>8. OwnersAreAlone'
  BY DEF OwnersAreAlone, Owner, Working
<1>9. SubmissionsAreClaimed' /\ VerdictIsTrue'
  BY <1>1, <1>3 DEF SubmissionsAreClaimed, VerdictIsTrue
<1> QED
  BY <1>4, <1>5, <1>6, <1>7, <1>8, <1>9

\* A doubt is no verdict on the money.
LEMMA AdapterFailsKeeps ==
  ASSUME CanaryInv, NEW r \in Runner, AdapterFails(r) \/ JudgeNot(r)
  PROVE  CanaryInv'
<1> USE DEF CanaryInv
<1>a. /\ stage[r] \in {"paying", "waiting", "judging"}
      /\ stage' = [stage EXCEPT ![r] = "appending"]
      /\ verdict' = [verdict EXCEPT ![r] = "submitted_unknown_permanent_no_retry"]
      /\ UNCHANGED <<key, prior>>
  BY DEF AdapterFails, JudgeNot, Doubt, Goto
<1>b. UNCHANGED <<candidate, approval, book, saved, cutShort, named, forgot, flock, starts,
                  wallet, result, spawned, told>>
  BY DEF AdapterFails, JudgeNot, Doubt, deployment, ledgerFile
<1>c. \/ UNCHANGED adapter
      \/ adapter' = [adapter EXCEPT ![key[r]] = IF @ = "none" THEN @ ELSE "gone"]
  BY DEF AdapterFails, JudgeNot
<1>1. CanaryTypeOK'
  BY <1>a, <1>b, <1>c DEF CanaryTypeOK, States, Terminal, Writing
<1>2. \A q \in Runner : RunnerAgrees(q)'
  BY <1>a, <1>b DEF RunnerAgrees, CanaryTypeOK, Working
<1>3. \A q \in Runner : OwnerIsHonest(q)'
  BY <1>a, <1>b, <1>c DEF OwnerIsHonest, CanaryTypeOK
<1>4. BookFollows' /\ VerdictIsTrue' /\ ToldIsRecorded'
  BY <1>b DEF BookFollows, VerdictIsTrue, ToldIsRecorded
<1>5. OwnersAreAlone'
  BY <1>a, <1>b DEF OwnersAreAlone, Owner, CanaryTypeOK, Writing
<1>6. ResultIsTrue' /\ SubmissionsAreClaimed'
  BY <1>b, <1>c DEF ResultIsTrue, SubmissionsAreClaimed
<1> QED
  BY <1>1, <1>2, <1>3, <1>4, <1>5, <1>6, <1>b

\* An adapter that ended left its result; the runner still has its claim.
LEMMA AdapterEndsKeeps ==
  ASSUME CanaryInv, NEW r \in Runner, AdapterEnds(r)
  PROVE  CanaryInv'
<1> USE DEF CanaryInv, AdapterEnds, Goto, deployment, ledgerFile
<1>1. CanaryTypeOK'
  BY DEF CanaryTypeOK, Working
<1>2. \A q \in Runner : RunnerAgrees(q)'
  BY DEF RunnerAgrees, Working
<1>3. \A q \in Runner : OwnerIsHonest(q)'
  BY DEF OwnerIsHonest, Writing
<1>4. BookFollows' /\ VerdictIsTrue' /\ ToldIsRecorded'
  BY DEF BookFollows, VerdictIsTrue, ToldIsRecorded
<1>5. OwnersAreAlone'
  BY DEF OwnersAreAlone, Owner, Working
<1>6. ResultIsTrue' /\ SubmissionsAreClaimed'
  BY DEF ResultIsTrue, SubmissionsAreClaimed
<1> QED
  BY <1>1, <1>2, <1>3, <1>4, <1>5, <1>6

\* The verdict is that of the result, which names the runner's own attempt.
LEMMA JudgeKeeps ==
  ASSUME CanaryInv, NEW r \in Runner, Judge(r)
  PROVE  CanaryInv'
<1> USE DEF CanaryInv, Judge, Goto, deployment, ledgerFile, payment
<1>1. result.key = key[r] /\ result.state \in Final
  BY DEF Conclusive, Final
<1>2. CanaryTypeOK'
  BY <1>1 DEF CanaryTypeOK, States, Terminal, Writing, Final
<1>3. \A q \in Runner : RunnerAgrees(q)'
  BY <1>1 DEF RunnerAgrees, CanaryTypeOK, Working, Final
<1>4. \A q \in Runner : OwnerIsHonest(q)'
  <2>1. OwnerIsHonest(r)'
    BY <1>1 DEF OwnerIsHonest, ResultIsTrue, CanaryTypeOK, Final
  <2>2. ASSUME NEW q \in Runner \ {r} PROVE OwnerIsHonest(q)'
    BY DEF OwnerIsHonest
  <2> QED
    BY <2>1, <2>2
<1>5. BookFollows' /\ VerdictIsTrue' /\ ToldIsRecorded'
  BY DEF BookFollows, VerdictIsTrue, ToldIsRecorded
<1>6. OwnersAreAlone'
  BY DEF OwnersAreAlone, Owner, Working
<1>7. ResultIsTrue' /\ SubmissionsAreClaimed'
  BY DEF ResultIsTrue, SubmissionsAreClaimed
<1> QED
  BY <1>2, <1>3, <1>4, <1>5, <1>6, <1>7

\* An adapter pays once, whether its runner lives or not.
LEMMA AdapterPaysKeeps ==
  ASSUME CanaryInv, NEW k \in Attempt, AdapterPays(k)
  PROVE  CanaryInv'
<1> USE DEF CanaryInv, AdapterPays, deployment, ledgerFile, runnerState
<1>1. CanaryTypeOK'
  BY DEF CanaryTypeOK
<1>2. \A q \in Runner : RunnerAgrees(q)'
  BY DEF RunnerAgrees
<1>3. \A q \in Runner : OwnerIsHonest(q)'
  BY DEF OwnerIsHonest
<1>4. BookFollows' /\ VerdictIsTrue' /\ ToldIsRecorded'
  BY DEF BookFollows, VerdictIsTrue, ToldIsRecorded
<1>5. OwnersAreAlone'
  BY DEF OwnersAreAlone, Owner
<1>6. ResultIsTrue' /\ SubmissionsAreClaimed'
  BY DEF ResultIsTrue, SubmissionsAreClaimed
<1> QED
  BY <1>1, <1>2, <1>3, <1>4, <1>5, <1>6

\* The result says what became of the money of the attempt it names.
LEMMA AdapterWritesKeeps ==
  ASSUME CanaryInv, NEW k \in Attempt, AdapterWrites(k)
  PROVE  CanaryInv'
<1> USE DEF CanaryInv, AdapterWrites, deployment, ledgerFile, runnerState
<1>1. CanaryTypeOK'
  BY DEF CanaryTypeOK
<1>2. \A q \in Runner : RunnerAgrees(q)'
  BY DEF RunnerAgrees
<1>3. \A q \in Runner : OwnerIsHonest(q)'
  BY DEF OwnerIsHonest
<1>4. BookFollows' /\ VerdictIsTrue' /\ ToldIsRecorded'
  BY DEF BookFollows, VerdictIsTrue, ToldIsRecorded
<1>5. OwnersAreAlone'
  BY DEF OwnersAreAlone, Owner
<1>6. ResultIsTrue' /\ SubmissionsAreClaimed'
  BY DEF ResultIsTrue, SubmissionsAreClaimed
<1> QED
  BY <1>1, <1>2, <1>3, <1>4, <1>5, <1>6

\* A loss of power that does not take the file with what was synced keeps that, or
\* more; without its name only an empty file may go.
LEMMA FileSurvives ==
  ASSUME CanaryInv, FileAfterLoss, ~forgot'
  PROVE  book' \in {saved, book}
<1>1. CASE book' = Blank /\ forgot' = (forgot \/ saved # Blank)
  BY <1>1
<1> QED
  BY <1>1 DEF FileAfterLoss

\* A loss of power takes the runners and what was not synced, which nobody was
\* told and for which nothing was submitted.
LEMMA PowerIsLostKeeps ==
  ASSUME CanaryInv, PowerIsLost, ~forgot'
  PROVE  CanaryInv'
<1> USE FileSurvives DEF CanaryInv, PowerIsLost, deployment
<1>1. CanaryTypeOK'
  BY DEF CanaryTypeOK, States
<1>2. \A r \in Runner : RunnerAgrees(r)' /\ OwnerIsHonest(r)' /\ ~Owner(r)'
  BY CanaryAssumption DEF RunnerAgrees, OwnerIsHonest, Owner, Working, Writing
<1>3. BookFollows' /\ OwnersAreAlone' /\ ResultIsTrue'
  BY <1>2 DEF BookFollows, OwnersAreAlone, ResultIsTrue
<1>4. \A k \in Attempt : saved[k] # "none" => saved'[k] # "none"
  BY DEF BookFollows, Transitions, Terminal
<1>5. SubmissionsAreClaimed'
  BY <1>4 DEF SubmissionsAreClaimed
<1>6. VerdictIsTrue'
  <2>1. CASE book' = book
    BY <2>1 DEF VerdictIsTrue
  <2>2. CASE book' = saved
    <3>1. \A k \in Attempt : saved[k] \in Terminal => book[k] = saved[k]
      BY DEF BookFollows, Transitions, Terminal
    <3> QED
      BY <3>1 DEF VerdictIsTrue, Terminal
  <2> QED
    BY <2>1, <2>2
<1>7. ToldIsRecorded'
  <2>1. \A k \in Attempt : saved[k] \in Final => saved'[k] = saved[k]
    BY DEF BookFollows, Transitions, Final
  <2> QED
    BY <2>1 DEF ToldIsRecorded, CanaryTypeOK
<1> QED
  BY <1>1, <1>2, <1>3, <1>5, <1>6, <1>7

\* Another candidate changes neither the approval nor the ledger.
LEMMA RedeployKeeps ==
  ASSUME CanaryInv, Redeploy
  PROVE  CanaryInv'
<1> USE DEF CanaryInv, Redeploy, ledgerFile, runnerState, payment
<1>1. CanaryTypeOK'
  BY DEF CanaryTypeOK
<1>2. \A q \in Runner : RunnerAgrees(q)'
  BY DEF RunnerAgrees
<1>3. \A q \in Runner : OwnerIsHonest(q)'
  BY DEF OwnerIsHonest
<1>4. BookFollows' /\ VerdictIsTrue' /\ ToldIsRecorded'
  BY DEF BookFollows, VerdictIsTrue, ToldIsRecorded
<1>5. OwnersAreAlone'
  BY DEF OwnersAreAlone, Owner
<1>6. ResultIsTrue' /\ SubmissionsAreClaimed'
  BY DEF ResultIsTrue, SubmissionsAreClaimed
<1> QED
  BY <1>1, <1>2, <1>3, <1>4, <1>5, <1>6
-----------------------------------------------------------------------------
(* The theorems.                                                           *)

\* Every action keeps the invariant.
LEMMA NextKeeps ==
  ASSUME CanaryInv, [CanaryNext]_canaryVars, ~forgot'
  PROVE  CanaryInv'
<1>1. CASE \E r \in Runner, k \in Attempt : Start(r, k)
  BY <1>1, StartKeeps
<1>2. ASSUME NEW r \in Runner, RunnerStep(r) PROVE CanaryInv'
  BY <1>2, LockAndReadKeeps, RefusalKeeps, AppendKeeps, AppendFailsKeeps,
     ProbeKeeps, RunAdapterKeeps, AdapterFailsKeeps, AdapterEndsKeeps, JudgeKeeps
     DEF RunnerStep
<1>3. CASE \E r \in Runner : RunnerDies(r)
  BY <1>3, RunnerDiesKeeps
<1>4. CASE \E k \in Attempt : AdapterPays(k) \/ AdapterWrites(k)
  BY <1>4, AdapterPaysKeeps, AdapterWritesKeeps
<1>5. CASE PowerIsLost \/ Redeploy
  BY <1>5, PowerIsLostKeeps, RedeployKeeps
<1>6. CASE UNCHANGED canaryVars
  BY <1>6
     DEF canaryVars, deployment, ledgerFile, payment, runnerState, CanaryInv,
     CanaryTypeOK, RunnerAgrees, OwnerIsHonest, BookFollows, OwnersAreAlone,
     Owner, ResultIsTrue, SubmissionsAreClaimed, VerdictIsTrue, ToldIsRecorded
<1> QED
  BY <1>1, <1>2, <1>3, <1>4, <1>5, <1>6 DEF CanaryNext

\* What was forgotten stays so.
LEMMA ForgottenStays ==
  ASSUME forgot, [CanaryNext]_canaryVars
  PROVE  forgot'
  BY DEF CanaryNext, RunnerStep, Start, LockAndRead, ReadFails, RefuseAppend, Append,
     AppendFails, Probe, RunAdapter, AdapterFails, AdapterEnds, Judge, JudgeNot,
     Doubt, AdapterPays, AdapterWrites, RunnerDies, PowerIsLost, FileAfterLoss,
     Redeploy, ledgerFile, canaryVars

\* However many runners are started, die or lose what they wrote, the ledger has
\* the claim of whoever works on an attempt, and what it says is true, until a
\* loss of power takes the file itself.
THEOREM CanaryInvariant == CanarySpec => [](forgot \/ CanaryInv)
<1>1. CanaryInit => CanaryInv
  BY InitHasCanaryInv
<1>2. (forgot \/ CanaryInv) /\ [CanaryNext]_canaryVars => (forgot \/ CanaryInv)'
  BY NextKeeps, ForgottenStays
<1> QED
  BY <1>1, <1>2, PTL DEF CanarySpec

\* An attempt is submitted once at most, and only if the approval binds it (the
\* refusal of a retry in main).
THEOREM AttemptsAreSubmittedOnce ==
  CanarySpec => []SubmittedOnce
<1>1. forgot \/ CanaryInv => SubmittedOnce
  BY DEF CanaryInv, SubmissionsAreClaimed, SubmittedOnce
<1> QED
  BY <1>1, CanaryInvariant, PTL

\* A verdict in the ledger is what became of the money of its own attempt.
THEOREM VerdictsAreTrue ==
  CanarySpec => []VerdictIsTrue
<1>1. forgot \/ CanaryInv => VerdictIsTrue
  BY DEF CanaryInv, VerdictIsTrue
<1> QED
  BY <1>1, CanaryInvariant, PTL

\* What the workflow is told of a payment is on disk, and nothing else is told.
THEOREM WhatIsToldIsRecorded ==
  CanarySpec => []ToldIsRecorded
<1>1. forgot \/ CanaryInv => ToldIsRecorded
  BY DEF CanaryInv, ToldIsRecorded
<1> QED
  BY <1>1, CanaryInvariant, PTL

\* What is on disk of an attempt goes from nothing to a claim and from the claim
\* to one verdict, also when the power is lost.
THEOREM VerdictsAreFinal ==
  CanarySpec => VerdictIsFinal
<1>1. ASSUME CanaryInv, [CanaryNext]_canaryVars, ~forgot', NEW k \in Attempt PROVE MovesOn(k)
  <2> USE <1>1 DEF CanaryInv
  <2>1. book[k] = saved[k] \/ book[k] \in Transitions(saved[k])
    BY DEF BookFollows
  <2>2. saved[k] \in States /\ book[k] \in States
    BY DEF CanaryTypeOK
  <2>3. CASE saved' = saved
    BY <2>3 DEF MovesOn
  <2>4. CASE saved' = book
    BY <2>1, <2>4 DEF MovesOn, Transitions
  <2>5. ASSUME NEW r \in Runner, Append(r) PROVE MovesOn(k)
    <3>1. MayAppend(r) /\ key[r] \in Attempt
      BY <2>5, LegalMayAppend DEF Append
    <3>2. saved'[k] = IF k = key[r] THEN verdict[r] ELSE book[k]
      BY <2>5 DEF Append, CanaryTypeOK
    <3> QED
      BY <2>1, <3>1, <3>2 DEF MayAppend, MovesOn, Transitions
  <2>6. ASSUME PowerIsLost PROVE saved' \in {saved, book}
    BY <2>6, FileSurvives DEF PowerIsLost
  <2>7. saved' = saved \/ saved' = book \/ \E r \in Runner : Append(r)
    BY <2>6
    DEF CanaryNext, RunnerStep, Start, LockAndRead, ReadFails, RefuseAppend,
       AppendFails, Probe, RunAdapter, AdapterFails, AdapterEnds, Judge, JudgeNot,
       Doubt, AdapterPays, AdapterWrites, RunnerDies, Redeploy, CanaryInv,
       ledgerFile, canaryVars
  <2> QED
    BY <2>3, <2>4, <2>5, <2>7
<1>2. /\ forgot \/ CanaryInv
      /\ [CanaryNext]_canaryVars
      => [forgot' \/ \A k \in Attempt : MovesOn(k)]_canaryVars
  BY <1>1, ForgottenStays
<1> QED
  BY <1>2, CanaryInvariant, PTL DEF CanarySpec, VerdictIsFinal
=============================================================================
