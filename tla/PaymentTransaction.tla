------------------------- MODULE PaymentTransaction -------------------------
(***************************************************************************)
(* One payment from reservation to settlement, over the daily ledger:      *)
(*   execute_payment_transaction       src/src/orchestrator.rs             *)
(*   the persist-then-commit tail of execute_with                          *)
(*                                     src/src/commands/request.rs         *)
(*   pay_invoice_with_payer            src/src/commands/backend.rs         *)
(*   the life of the Breez payer and its owner marker                      *)
(*                                     src/src/payers/breez.rs             *)
(*                                                                         *)
(* Every client makes the steps of its command, each ledger operation      *)
(* being a call, a lock and a write of SpendLedger, while the wallet's     *)
(* payments settle or fail on their own and processes, the machine and the *)
(* clock do as they please.  A process makes one payment and exits; a new  *)
(* process of the same client meets the same challenge again.              *)
(***************************************************************************)
EXTENDS SpendLedger

CONSTANTS
  Requester,  \* the clients that run `request`; the others run `pay-invoice`
  GuardOf,    \* GuardOf[c]: the challenge, in its request scope, c is served
  Wallet,     \* the wallets' storage directories
  WalletOf    \* WalletOf[c]: the wallet c's configuration names

ASSUME TransactionAssumption ==
  /\ Requester \subseteq Client
  /\ GuardOf \in [Requester -> Guard]
  /\ WalletOf \in [Client -> Wallet]

VARIABLES
  stage,     \* where the client is in its command
  outcome,   \* the payer's PaymentAttemptOutcome
  result,    \* what the command reports
  marker,    \* the wallets whose directory holds an owner marker
  connected, \* the clients whose payer is connected to its wallet
  sent,      \* every payment handed to a wallet, by client and process
  reverted   \* history: a power loss has undone an unsynced ledger write

payVars == <<stage, outcome, result, marker, connected, sent, reverted>>
vars == <<file, durable, today, lock, pc, boot, calls, call, snap, handle,
          stage, outcome, result, marker, connected, sent, reverted>>

NoResult == [error |-> "pending"]

PayInit ==
  /\ stage = [c \in Client |-> "down"]
  /\ outcome = [c \in Client |-> "none"]
  /\ result = [c \in Client |-> NoResult]
  /\ marker = {}
  /\ connected = {}
  /\ sent = [k \in {} |-> None]
  /\ reverted = FALSE

Init == LedgerInit /\ PayInit

-----------------------------------------------------------------------------
(* Steps that do not touch the ledger leave all its variables alone.       *)

Goto(c, from, to) ==
  /\ stage[c] = from
  /\ stage' = [stage EXCEPT ![c] = to]

Done(c, error, paid, retained) ==
  /\ stage' = [stage EXCEPT ![c] = "done"]
  /\ result' = [result EXCEPT ![c] = [error |-> error, paid |-> paid,
                                      retained |-> retained]]

Start(c) ==
  /\ Boot(c)
  /\ Goto(c, "down", "start")
  /\ UNCHANGED <<outcome, result, marker, connected, sent, reverted>>

\* prepare_challenge or validate_payment_input refuses before any state.
Reject(c) ==
  /\ stage[c] = "start"
  /\ Done(c, "Challenge", FALSE, FALSE)
  /\ UNCHANGED ledgerVars
  /\ UNCHANGED <<outcome, marker, connected, sent, reverted>>

\* `request` reserves before it constructs its payer, `pay-invoice` after.
BeginReserve(c) ==
  /\ \/ /\ c \in Requester
        /\ Goto(c, "start", "reserving")
        /\ CallReserveGuarded(c, GuardOf[c])
     \/ /\ Goto(c, "constructed", "reserving")
        /\ \E amount \in Amount : CallReserve(c, amount)
  /\ UNCHANGED <<outcome, result, marker, connected, sent, reverted>>

Lock(c) ==
  /\ LockAndRead(c)
  /\ UNCHANGED payVars

\* An unconnected payer gives its marker back when it is dropped; a marker
\* that cannot be removed stays.
DropPayer(c) ==
  /\ marker' \in IF c \in Requester THEN {marker}
                 ELSE {marker, marker \ {WalletOf[c]}}
  /\ UNCHANGED connected

Reserved(c) ==
  /\ stage[c] = "reserving"
  /\ \E w \in WriteOutcome :
       /\ ReserveWrite(c, w)
       /\ IF w = "NotApplied"
          THEN Done(c, "Reservation", FALSE, FALSE) /\ DropPayer(c)
          ELSE /\ Goto(c, "reserving",
                       IF c \in Requester THEN "construct" ELSE "ready")
               /\ UNCHANGED <<result, marker, connected>>
  /\ UNCHANGED <<outcome, sent, reverted>>

\* A duplicate reports the guard someone else retains.
NotReserved(c) ==
  /\ stage[c] = "reserving"
  /\ \/ ReserveDuplicate(c) /\ Done(c, "ReservationDuplicate", FALSE, TRUE)
     \/ ReserveOverBudget(c) /\ Done(c, "ReservationBudget", FALSE, FALSE)
     \/ ReserveOverflow(c) /\ Done(c, "Reservation", FALSE, FALSE)
     \/ AccessFails(c) /\ Done(c, "Reservation", FALSE, FALSE)
  /\ DropPayer(c)
  /\ UNCHANGED <<outcome, sent, reverted>>
-----------------------------------------------------------------------------
(* The payer.                                                              *)

\* MUTANT of Free: somebody else's marker does not keep this payer out.
FreeAlways(c) == TRUE

\* The marker is created only where none exists.
Free(c) == WalletOf[c] \notin marker

\* BreezSparkPayer::production claims the wallet's directory.
Construct(c) ==
  /\ Free(c)
  /\ \/ c \in Requester /\ Goto(c, "construct", "ready")
     \/ c \notin Requester /\ Goto(c, "start", "constructed")
  /\ marker' = marker \cup {WalletOf[c]}
  /\ UNCHANGED ledgerVars
  /\ UNCHANGED <<outcome, result, connected, sent, reverted>>

\* The directory is somebody else's or cannot be written.
ConstructFails(c) ==
  /\ \/ Goto(c, "construct", "undo") /\ UNCHANGED result
     \/ c \notin Requester /\ stage[c] = "start"
        /\ Done(c, "Payer", FALSE, FALSE)
  /\ UNCHANGED ledgerVars
  /\ UNCHANGED <<outcome, marker, connected, sent, reverted>>

\* check_ready, or pay, fails before anything is submitted.  A payer counts
\* as connected as soon as check_ready is called.
NotSubmitted(c) ==
  /\ \/ Goto(c, "ready", "disconnect")
     \/ Goto(c, "pay", "disconnect")
  /\ connected' = connected \cup {c}
  /\ outcome' = [outcome EXCEPT ![c] = "NotSubmitted"]
  /\ UNCHANGED ledgerVars
  /\ UNCHANGED <<result, marker, sent, reverted>>

Ready(c) ==
  /\ Goto(c, "ready", "pay")
  /\ connected' = connected \cup {c}
  /\ UNCHANGED ledgerVars
  /\ UNCHANGED <<outcome, result, marker, sent, reverted>>

Attempt(c) == <<c, boot[c]>>

\* The payment leaves for the network.
Submit(c) ==
  /\ Goto(c, "pay", "submitted")
  /\ sent' = [k \in DOMAIN sent \cup {Attempt(c)} |->
                IF k = Attempt(c)
                THEN [id |-> handle[c].id, day |-> handle[c].day,
                      amount |-> handle[c].amount,
                      fate |-> "inflight", closed |-> FALSE]
                ELSE sent[k]]
  /\ UNCHANGED ledgerVars
  /\ UNCHANGED <<outcome, result, marker, connected, reverted>>

\* The network settles or fails a payment, whether or not anyone waits for it.
Resolve ==
  /\ \E k \in DOMAIN sent, fate \in {"settled", "failed"} :
       /\ sent[k].fate = "inflight"
       /\ sent' = [sent EXCEPT ![k].fate = fate]
  /\ UNCHANGED ledgerVars
  /\ UNCHANGED <<stage, outcome, result, marker, connected, reverted>>

\* MUTANT of Answer: an error after the send passes for one before it.
AnswerNotSubmitted(c) ==
  /\ Goto(c, "submitted", "disconnect")
  /\ outcome' = [outcome EXCEPT ![c] = "NotSubmitted"]
  /\ UNCHANGED ledgerVars
  /\ UNCHANGED <<result, marker, connected, sent, reverted>>

\* What pay returns: final answers are the payment's fate; a timeout, an error
\* of the send or an answer without proof is SubmittedUnknown, whatever the
\* fate.
Answer(c) ==
  /\ Goto(c, "submitted", "disconnect")
  /\ \E answer \in {"SubmittedUnknown"} \cup
       (CASE sent[Attempt(c)].fate = "settled" -> {"Confirmed"}
          [] sent[Attempt(c)].fate = "failed"  -> {"SubmittedFailedFinal"}
          [] OTHER                             -> {}) :
       outcome' = [outcome EXCEPT ![c] = answer]
  /\ UNCHANGED ledgerVars
  /\ UNCHANGED <<result, marker, connected, sent, reverted>>

\* MUTANT of Cleanup: the marker is given up though the wallet is still open.
CleanupReleasing(c, clean) ==
  /\ marker' = marker \ {WalletOf[c]}
  /\ connected' = IF clean THEN connected \ {c} ELSE connected

\* disconnect gives the marker up only after the wallet was disconnected.  It
\* fails too when the disconnected wallet's marker cannot be removed at once.
Cleanup(c, clean) ==
  \/ /\ marker' = marker \ {WalletOf[c]}
     /\ connected' = connected \ {c}
  \/ /\ ~clean
     /\ marker' = marker
     /\ connected' \in {connected, connected \ {c}}

\* MUTANT of AfterPay: an ambiguous submission is rolled back.
AfterPayReleasing(c) ==
  IF outcome[c] # "Confirmed" THEN "undo"
  ELSE IF c \in Requester THEN "verify"
  ELSE "settle"

\* Where the command goes when pay and disconnect are over.
AfterPay(c) ==
  IF outcome[c] \in {"NotSubmitted", "SubmittedFailedFinal"} THEN "undo"
  ELSE IF c \notin Requester THEN "settle"
  ELSE IF outcome[c] = "SubmittedUnknown" THEN "done"
  ELSE "verify"

\* A failed disconnect marks a confirmed payment and changes no other branch.
Disconnect(c) ==
  /\ Goto(c, "disconnect", AfterPay(c))
  /\ \E clean \in BOOLEAN :
       /\ Cleanup(c, clean)
       /\ outcome' = [outcome EXCEPT ![c] =
                        IF @ = "Confirmed" /\ ~clean
                        THEN "DisconnectFailed" ELSE @]
  /\ result' = [result EXCEPT ![c] =
                  IF AfterPay(c) = "done"
                  THEN [error |-> "SubmissionUnknown", paid |-> FALSE,
                        retained |-> TRUE]
                  ELSE @]
  /\ UNCHANGED ledgerVars
  /\ UNCHANGED <<sent, reverted>>

\* verify_payment_result, then rendering the credential.
Verify(c) ==
  /\ stage[c] = "verify"
  /\ \/ Done(c, "Proof", FALSE, TRUE)
     \/ Done(c, "Credential", TRUE, TRUE)
     \/ Goto(c, "verify", "save") /\ UNCHANGED result
  /\ UNCHANGED ledgerVars
  /\ UNCHANGED <<outcome, marker, connected, sent, reverted>>

\* The credential is saved before the reservation is committed.
Save(c) ==
  /\ stage[c] = "save"
  /\ \/ Done(c, "CredentialState", TRUE, TRUE)
     \/ Goto(c, "save", "settle") /\ UNCHANGED result
  /\ UNCHANGED ledgerVars
  /\ UNCHANGED <<outcome, marker, connected, sent, reverted>>
-----------------------------------------------------------------------------
(* Commit and rollback.                                                    *)

BeginFinish(c) ==
  /\ \/ Goto(c, "settle", "settling") /\ CallFinish(c, "commit")
     \/ Goto(c, "undo", "undoing") /\ CallFinish(c, "rollback")
  /\ UNCHANGED <<outcome, result, marker, connected, sent, reverted>>

\* MUTANT of ReportCommit: the outcome of the commit is not looked at.
ReportCommitUnread(c, w) == Done(c, "none", TRUE, FALSE)

\* A committed payment whose disconnect failed is reported as such.
AfterCommit(c) ==
  IF outcome[c] = "DisconnectFailed" THEN "PostSubmit" ELSE "none"

\* The report of a command whose commit ended as w.  `request` reports an
\* unsynced commit as an error; `pay-invoice` takes it for a success and
\* verifies the proof only now.
ReportCommit(c, w) ==
  IF c \in Requester
  THEN Done(c, IF w # "AppliedDurably" THEN "Commit" ELSE AfterCommit(c),
            TRUE, w = "NotApplied")
  ELSE IF outcome[c] = "SubmittedUnknown"
  THEN Done(c, "SubmissionUnknown", FALSE, w = "NotApplied")
  ELSE \E error \in {"Proof",
                     IF w = "NotApplied" THEN "Commit" ELSE AfterCommit(c)} :
         Done(c, error, TRUE, w = "NotApplied")

\* MUTANT of ReportRollback: a failed rollback counts as done.
ReportRollbackUnread(c, w) == Done(c, "Payer", FALSE, FALSE)

\* rollback_failure, and its counterpart in pay-invoice.
ReportRollback(c, w) ==
  CASE w = "AppliedDurably" -> Done(c, "Payer", FALSE, FALSE)
    [] w = "NotApplied"     -> Done(c, "Rollback", FALSE, TRUE)
    [] OTHER -> Done(c, IF c \in Requester THEN "Rollback" ELSE "Payer",
                     FALSE, FALSE)

Settled(c) ==
  /\ stage[c] = "settling"
  /\ \E w \in WriteOutcome :
       /\ FinishWrite(c, w)
       /\ sent' = IF w = "NotApplied" THEN sent
                  ELSE [sent EXCEPT ![Attempt(c)].closed = TRUE]
       /\ ReportCommit(c, w)
  /\ UNCHANGED <<outcome, marker, connected, reverted>>

Undone(c) ==
  /\ stage[c] = "undoing"
  /\ \E w \in WriteOutcome : FinishWrite(c, w) /\ ReportRollback(c, w)
  /\ UNCHANGED <<outcome, marker, connected, sent, reverted>>

NotFinished(c) ==
  /\ AccessFails(c) \/ FinishMissing(c)
  /\ \/ stage[c] = "settling" /\ ReportCommit(c, "NotApplied")
     \/ stage[c] = "undoing" /\ ReportRollback(c, "NotApplied")
  /\ UNCHANGED <<outcome, marker, connected, sent, reverted>>
-----------------------------------------------------------------------------
\* The process exits, or dies on the way; the marker file stays behind.
Die(c) ==
  /\ Crash(c)
  /\ stage' = [stage EXCEPT ![c] = "down"]
  /\ outcome' = [outcome EXCEPT ![c] = "none"]
  /\ result' = [result EXCEPT ![c] = NoResult]
  /\ connected' = connected \ {c}
  /\ UNCHANGED <<marker, sent, reverted>>

\* An operator removes a marker that a dead process has left.
ClearMarker(w) ==
  /\ w \in marker
  /\ \A c \in Client : WalletOf[c] = w => stage[c] = "down"
  /\ marker' = marker \ {w}
  /\ UNCHANGED ledgerVars
  /\ UNCHANGED <<stage, outcome, result, connected, sent, reverted>>

\* Markers are not synced: they may be gone after a power loss.

LosePower ==
  /\ PowerLoss
  /\ reverted' = (reverted \/ file' # file)
  /\ stage' = [c \in Client |-> "down"]
  /\ outcome' = [c \in Client |-> "none"]
  /\ result' = [c \in Client |-> NoResult]
  /\ marker' \in SUBSET marker
  /\ connected' = {}
  /\ UNCHANGED sent

DayPasses == Midnight /\ UNCHANGED payVars

Step(c) ==
  \/ Start(c) \/ Reject(c) \/ BeginReserve(c) \/ Lock(c) \/ Reserved(c)
  \/ NotReserved(c) \/ Construct(c) \/ ConstructFails(c) \/ NotSubmitted(c)
  \/ Ready(c) \/ Submit(c) \/ Answer(c) \/ Disconnect(c) \/ Verify(c) \/ Save(c)
  \/ BeginFinish(c) \/ Settled(c) \/ Undone(c) \/ NotFinished(c) \/ Die(c)

Next ==
  \/ \E c \in Client : Step(c)
  \/ \E w \in Wallet : ClearMarker(w)
  \/ Resolve
  \/ DayPasses
  \/ LosePower

Spec == Init /\ [][Next]_vars

\* The ledger's critical sections end (SpendLedger); nothing else is fair.
FairSpec == Spec /\ LedgerFairness
-----------------------------------------------------------------------------
(* Properties.                                                             *)

\* No two payers are ever connected to one wallet, and a connected wallet
\* keeps its marker: also when a disconnect fails, another command has the
\* wallet ready at that moment, and markers outlive their processes.
WalletIsExclusive ==
  \A c \in connected :
    /\ WalletOf[c] \in marker
    /\ \A b \in connected \ {c} : WalletOf[b] # WalletOf[c]

\* Payments that moved money or still may.
Live(d) == {k \in DOMAIN sent : sent[k].day = d /\ sent[k].fate # "failed"}

SatsAtRisk(d) ==
  Cardinality(UNION {{k} \X (1 .. sent[k].amount) : k \in Live(d)})

\* Whatever clients, crashes, ambiguous answers and failed ledger writes do,
\* the sats that left the wallet or may still leave it are counted against the
\* day they were reserved on (README: submitted-unknown and confirmed payments
\* remain counted), unless a power loss undid an unsynced write.
SpendIsCounted ==
  ~reverted => \A d \in Day : SatsAtRisk(d) <= Counting(file[d])

\* A payment that has not finally failed and whose reservation is not
\* committed is what its reservation in the ledger stands for: no rollback,
\* crash or other client removes it, unless a power loss undid an unsynced write.
OpenPaymentsAreGuarded ==
  ~reverted => \A d \in Day : \A k \in Live(d) :
    ~sent[k].closed =>
      /\ sent[k].id \in DOMAIN file[d].held
      /\ file[d].held[sent[k].id] = sent[k].amount

\* Payment k, about to be handed to the wallet, repeats the challenge of the
\* payment j that is neither finally failed nor committed.
Repeats(k, j) ==
  /\ k \in DOMAIN sent' \ DOMAIN sent
  /\ sent'[k].id = sent[j].id
  /\ sent[j].fate # "failed" /\ ~sent[j].closed

\* What is repeated was reserved on another day.
RepeatsAreOfAnotherDay ==
  \A k \in DOMAIN sent', j \in DOMAIN sent :
    ~reverted /\ Repeats(k, j) => sent'[k].day # sent[j].day

\* On one day, a challenge is never paid again while an earlier payment of it
\* is ambiguous or confirmed but not yet persisted, unless a power loss undid an
\* unsynced write.
NoRepaymentSameDay == [][RepeatsAreOfAnotherDay]_vars

\* The same on any day: "a retained reservation makes a restart fail closed
\* instead of paying the same challenge twice" (ledger.rs, reserve_guarded).
NoRepayment ==
  [][\A k \in DOMAIN sent', j \in DOMAIN sent :
       ~reverted => ~Repeats(k, j)]_vars

\* A report is checked in the step that makes it.
Reports(c) == stage[c] # "done" /\ stage'[c] = "done"

\* What c reports as retained is in the ledger, its own or someone else's, and
\* what it made and reports as not retained is not.
TellsRetained(c) ==
  Reports(c) =>
    /\ handle[c] # None =>
         LET h == handle[c] IN
         result'[c].retained <=> h.id \in DOMAIN file'[h.day].held
    /\ handle[c] = None /\ result'[c].retained =>
         call[c].id \in DOMAIN file'[call[c].day].held

\* `request` never loses track of the reservation it made: it reports it as
\* retained exactly when the ledger still holds it, and reports someone else's
\* as retained only when it is there.
RetainedIsReported == [][\A c \in Requester : TellsRetained(c)]_vars

\* c does not report a payment as over that may still move money, nor as
\* settled and committed one that is not.
TellsFate(c) ==
  Reports(c) /\ Attempt(c) \in DOMAIN sent =>
    LET p == sent'[Attempt(c)]
        r == result'[c]
    IN  /\ ~r.paid /\ ~r.retained /\ r.error # "SubmissionUnknown" =>
             p.fate = "failed"
        /\ r.error = "none" => p.fate = "settled" /\ p.closed

\* A command that reports neither a payment nor a retained reservation has
\* no payment that moved money or still may, so trying again is safe; one that
\* reports full success has a settled payment and a committed reservation.
ReportsAreFinal == [][\A c \in Client : TellsFate(c)]_vars
=============================================================================
