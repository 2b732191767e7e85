---------------------- MODULE PaymentTransactionProofs ----------------------
(***************************************************************************)
(* Theorems about PaymentTransaction, for any number of clients of either  *)
(* command, wallets, challenges, days, processes and amounts.              *)
(*                                                                         *)
(* What the processes, their ledger operations and the wallets agree on is *)
(* invariant; from it follow what a command reports and who owns a wallet. *)
(***************************************************************************)
EXTENDS PaymentTransaction, SpendLedgerProofs
-----------------------------------------------------------------------------
(* The inductive invariants.                                               *)

\* The stages before the payment is handed to the wallet.
Early == {"start", "constructed", "reserving", "construct", "ready", "pay"}

\* The stages in which the client has a reservation to commit or roll back.
Reserving == {"construct", "ready", "pay", "submitted", "disconnect",
              "verify", "save", "settle", "settling", "undo", "undoing"}

Stages == {"down", "done"} \cup Early \cup Reserving

Outcomes == {"none", "NotSubmitted", "Confirmed", "SubmittedUnknown",
             "SubmittedFailedFinal", "DisconnectFailed"}

Payment ==
  [id : Id, day : Day, amount : Sats, fate : {"inflight", "settled", "failed"},
   closed : BOOLEAN]

PayTypeOK ==
  /\ stage \in [Client -> Stages]
  /\ outcome \in [Client -> Outcomes]
  /\ DOMAIN result = Client
  /\ marker \subseteq Wallet
  /\ connected \subseteq Client
  /\ IsFiniteSet(DOMAIN sent)
  /\ \A k \in DOMAIN sent :
       /\ k \in Client \X Nat /\ k[2] <= boot[k[1]]
       /\ sent[k] \in Payment
  /\ reverted \in BOOLEAN

\* Where the command is tells where its ledger operation and handle are.
StageAgrees(c) ==
  /\ stage[c] = "down" <=> pc[c] = "down"
  /\ stage[c] \in {"reserving", "settling", "undoing"}
       <=> pc[c] \in {"calling", "locked"}
  /\ stage[c] \in {"down", "start", "constructed", "reserving"} =>
       handle[c] = None
  /\ stage[c] \in Reserving => IsPending(c)
  /\ stage[c] \in {"construct", "verify", "save"} => c \in Requester
  /\ stage[c] = "constructed" => c \notin Requester
  /\ stage[c] = "reserving" =>
       IF c \in Requester
       THEN call[c].kind = "reserve_guarded" /\ call[c].id = GuardOf[c]
       ELSE call[c].kind = "reserve"
  /\ stage[c] = "settling" => call[c].kind = "commit"
  /\ stage[c] = "undoing" => call[c].kind = "rollback"
  /\ c \in Requester /\ handle[c] # None => handle[c].id = GuardOf[c]

\* The client's payer owns the marker of its wallet.
Owns(c) ==
  \/ c \in connected
  \/ stage[c] \in {"constructed", "ready", "pay", "submitted", "disconnect"}
  \/ stage[c] = "reserving" /\ c \notin Requester

OwnersAreExclusive ==
  \A c \in Client :
    /\ c \in connected =>
         stage[c] \notin {"down", "start", "constructed", "reserving",
                          "construct", "ready"}
    /\ Owns(c) =>
         /\ WalletOf[c] \in marker
         /\ \A b \in Client \ {c} : Owns(b) => WalletOf[b] # WalletOf[c]

\* The command goes on as after a confirmed payment.
Paid(c) ==
  \/ stage[c] \in {"verify", "save"}
  \/ /\ stage[c] \in {"settle", "settling"}
     /\ c \in Requester \/ outcome[c] # "SubmittedUnknown"

\* The payment of the client's process, if it has sent one, is that of its
\* reservation, and its fate is what the command was told.
SentAgrees(c) ==
  LET k == Attempt(c)
      h == handle[c]
      went == k \in DOMAIN sent
  IN  /\ stage[c] \in Early => ~went
      /\ stage[c] \in {"submitted", "verify", "save", "settle", "settling"} =>
           went
      /\ went /\ stage[c] \in Reserving =>
           /\ sent[k].id = h.id /\ sent[k].day = h.day
           /\ sent[k].amount = h.amount /\ ~sent[k].closed
      /\ stage[c] = "disconnect" =>
           \/ outcome[c] = "NotSubmitted" /\ ~went
           \/ outcome[c] = "SubmittedUnknown" /\ went
           \/ outcome[c] = "Confirmed" /\ went /\ sent[k].fate = "settled"
           \/ /\ outcome[c] = "SubmittedFailedFinal"
              /\ went /\ sent[k].fate = "failed"
      /\ stage[c] \in {"undo", "undoing"} /\ went => sent[k].fate = "failed"
      /\ Paid(c) => /\ outcome[c] \in {"Confirmed", "DisconnectFailed"}
                    /\ sent[k].fate = "settled"

StageInv ==
  /\ PayTypeOK
  /\ \A c \in Client : StageAgrees(c) /\ SentAgrees(c)
  /\ OwnersAreExclusive
-----------------------------------------------------------------------------
(* The ledger's part of a step.                                            *)

\* Every step of a payment is a step of the ledger, or leaves it alone.
LEMMA PayStepIsLedgerStep ==
  ASSUME [Next]_vars
  PROVE  [LedgerNext]_ledgerVars
<1>1. ASSUME NEW c \in Client, Step(c)
      PROVE  [LedgerNext]_ledgerVars
  <2> USE DEF LedgerNext, Calls, Section
  <2>1. CASE Start(c)
    BY <2>1 DEF Start
  <2>2. CASE BeginReserve(c)
    BY <2>2, TransactionAssumption DEF BeginReserve
  <2>3. CASE Lock(c)
    BY <2>3 DEF Lock
  <2>4. CASE Reserved(c)
    BY <2>4 DEF Reserved
  <2>5. CASE NotReserved(c)
    BY <2>5 DEF NotReserved
  <2>6. CASE BeginFinish(c)
    BY <2>6 DEF BeginFinish
  <2>7. CASE Settled(c) \/ Undone(c)
    BY <2>7 DEF Settled, Undone
  <2>8. CASE NotFinished(c)
    BY <2>8 DEF NotFinished
  <2>9. CASE Die(c)
    BY <2>9 DEF Die
  <2>10. CASE UNCHANGED ledgerVars
    BY <2>10
  <2> QED
    BY <1>1, <2>1, <2>2, <2>3, <2>4, <2>5, <2>6, <2>7, <2>8, <2>9, <2>10
       DEF Step, Reject, Construct, ConstructFails, NotSubmitted, Ready,
           Submit, Answer, Disconnect, Verify, Save
<1>2. ASSUME NEW w \in Wallet, ClearMarker(w)
      PROVE  [LedgerNext]_ledgerVars
  BY <1>2 DEF ClearMarker
<1>3. CASE Resolve
  BY <1>3 DEF Resolve
<1>4. CASE DayPasses
  BY <1>4 DEF DayPasses, LedgerNext
<1>5. CASE LosePower
  BY <1>5 DEF LosePower, LedgerNext
<1>6. CASE UNCHANGED vars
  BY <1>6 DEF vars, ledgerVars
<1> QED
  BY <1>1, <1>2, <1>3, <1>4, <1>5, <1>6 DEF Next
-----------------------------------------------------------------------------
(* Every step keeps what processes and wallets agree on.                   *)

\* Nothing that the invariant says of client b has changed.
Same(b) ==
  /\ stage'[b] = stage[b] /\ outcome'[b] = outcome[b]
  /\ pc'[b] = pc[b] /\ boot'[b] = boot[b]
  /\ call'[b] = call[b] /\ handle'[b] = handle[b]
  /\ Attempt(b) \in DOMAIN sent' <=> Attempt(b) \in DOMAIN sent
  /\ Attempt(b) \in DOMAIN sent => sent'[Attempt(b)] = sent[Attempt(b)]

\* A step of client c concerns nobody else.
LEMMA OthersStay ==
  ASSUME StageInv, NEW c \in Client, \A b \in Client \ {c} : Same(b),
         PayTypeOK', StageAgrees(c)', SentAgrees(c)', OwnersAreExclusive'
  PROVE  StageInv'
<1>1. ASSUME NEW b \in Client \ {c} PROVE StageAgrees(b)'
  BY DEF StageInv, Same, StageAgrees, IsPending
<1>2. ASSUME NEW b \in Client \ {c} PROVE SentAgrees(b)'
  <2>1. SentAgrees(b) /\ Same(b)
    BY DEF StageInv
  <2>2. Attempt(b)' = Attempt(b)
    BY <2>1 DEF Same, Attempt
  <2> QED
    BY <2>1, <2>2 DEF Same, SentAgrees, Paid
<1> QED
  BY <1>1, <1>2 DEF StageInv

\* Owners stay owners of different wallets when no new one is added.
LEMMA OwnersStay ==
  ASSUME OwnersAreExclusive,
         \A b \in Client : Owns(b)' => Owns(b) /\ WalletOf[b] \in marker',
         \A b \in connected' :
           stage'[b] \notin {"down", "start", "constructed", "reserving",
                             "construct", "ready"}
  PROVE  OwnersAreExclusive'
BY DEF OwnersAreExclusive

\* A fresh process has sent nothing.
LEMMA StartInv ==
  ASSUME LedgerInv, StageInv, NEW c \in Client, Start(c)
  PROVE  StageInv'
<1>1. /\ TypeOK /\ CallsAgree /\ PayTypeOK /\ OwnersAreExclusive
      /\ \A b \in Client : StageAgrees(b) /\ SentAgrees(b)
  BY DEF LedgerInv, StageInv
<1>2. /\ stage[c] = "down" /\ stage' = [stage EXCEPT ![c] = "start"]
      /\ pc' = [pc EXCEPT ![c] = "idle"]
      /\ boot' = [boot EXCEPT ![c] = @ + 1]
      /\ UNCHANGED <<call, handle, outcome, result, marker, connected, sent,
                     reverted>>
  BY DEF Start, Goto, Boot
<1>3. PayTypeOK'
  BY <1>1, <1>2 DEF PayTypeOK, TypeOK, Stages, Early
<1>4. \A b \in Client \ {c} : Same(b)
  BY <1>1, <1>2 DEF Same, PayTypeOK, TypeOK
<1>5. StageAgrees(c)'
  BY <1>1, <1>2 DEF StageAgrees, PayTypeOK, TypeOK, Reserving, CallsAgree
<1>6. SentAgrees(c)'
  <2>1. Attempt(c)' = <<c, boot[c] + 1>> /\ boot[c] \in Nat
    BY <1>1, <1>2 DEF TypeOK, Attempt
  <2>2. Attempt(c)' \notin DOMAIN sent
    BY <1>1, <2>1 DEF PayTypeOK
  <2> QED
    BY <1>1, <1>2, <2>2 DEF SentAgrees, PayTypeOK, Reserving, Early, Paid
<1>7. OwnersAreExclusive'
  BY <1>1, <1>2, OwnersStay DEF OwnersAreExclusive, Owns, PayTypeOK
<1> QED
  BY <1>3, <1>4, <1>5, <1>6, <1>7, OthersStay

\* A refused command has done nothing.
LEMMA RejectInv ==
  ASSUME LedgerInv, StageInv, NEW c \in Client, Reject(c)
  PROVE  StageInv'
<1>1. /\ TypeOK /\ CallsAgree /\ PayTypeOK /\ OwnersAreExclusive
      /\ \A b \in Client : StageAgrees(b) /\ SentAgrees(b)
  BY DEF LedgerInv, StageInv
<1>2. /\ stage[c] = "start" /\ stage' = [stage EXCEPT ![c] = "done"]
      /\ DOMAIN result' = DOMAIN result /\ UNCHANGED <<pc, boot, call, handle>>
      /\ UNCHANGED <<outcome, marker, connected, sent, reverted>>
  BY DEF Reject, Done, ledgerVars
<1>3. PayTypeOK'
  BY <1>1, <1>2 DEF PayTypeOK, TypeOK, Stages, Early, Reserving, Outcomes
<1>4. \A b \in Client \ {c} : Same(b)
  BY <1>1, <1>2 DEF Same, PayTypeOK, TypeOK
<1>5. StageAgrees(c)'
  BY <1>1, <1>2
     DEF StageAgrees, PayTypeOK, TypeOK, Reserving, IsPending
<1>6. SentAgrees(c)'
  BY <1>1, <1>2
     DEF SentAgrees, PayTypeOK, TypeOK, Reserving, Early, Attempt, Paid
<1>7. OwnersAreExclusive'
  BY <1>1, <1>2, OwnersStay DEF OwnersAreExclusive, Owns, PayTypeOK
<1> QED
  BY <1>3, <1>4, <1>5, <1>6, <1>7, OthersStay

\* A new owner's wallet had no owner before.
LEMMA ConstructInv ==
  ASSUME LedgerInv, StageInv, NEW c \in Client, Construct(c)
  PROVE  StageInv'
<1>1. /\ TypeOK /\ CallsAgree /\ PayTypeOK /\ OwnersAreExclusive
      /\ \A b \in Client : StageAgrees(b) /\ SentAgrees(b)
  BY DEF LedgerInv, StageInv
<1>2. /\ WalletOf[c] \notin marker
      /\ \/ c \in Requester /\ Goto(c, "construct", "ready")
         \/ c \notin Requester /\ Goto(c, "start", "constructed")
      /\ marker' = marker \cup {WalletOf[c]} /\ UNCHANGED <<pc, boot, call, handle>>
      /\ UNCHANGED <<outcome, result, connected, sent, reverted>>
  BY DEF Construct, Free, ledgerVars
<1>3. PayTypeOK'
  <2>1. WalletOf[c] \in Wallet
    BY TransactionAssumption
  <2> QED
    BY <1>1, <1>2, <2>1
       DEF PayTypeOK, TypeOK, Stages, Early, Reserving, Goto
<1>4. \A b \in Client \ {c} : Same(b)
  BY <1>1, <1>2 DEF Same, PayTypeOK, TypeOK, Goto
<1>5. StageAgrees(c)'
  BY <1>1, <1>2
     DEF StageAgrees, PayTypeOK, TypeOK, Reserving, IsPending, Goto
<1>6. SentAgrees(c)'
  BY <1>1, <1>2
     DEF SentAgrees, PayTypeOK, TypeOK, Reserving, Early, Attempt, Paid, Goto
<1>7. OwnersAreExclusive'
  <2>1. \A b \in Client \ {c} :
          /\ Owns(b)' <=> Owns(b)
          /\ Owns(b) => WalletOf[b] \in marker
    BY <1>1, <1>2 DEF Owns, PayTypeOK, Goto, OwnersAreExclusive
  <2>2. \A b \in connected' :
          stage'[b] \notin {"down", "start", "constructed", "reserving",
                            "construct", "ready"}
    BY <1>1, <1>2 DEF PayTypeOK, Goto, OwnersAreExclusive
  <2> QED
    BY <1>1, <1>2, <2>1, <2>2 DEF OwnersAreExclusive
<1> QED
  BY <1>3, <1>4, <1>5, <1>6, <1>7, OthersStay

\* Without a payer there is nothing to give back but the reservation.
LEMMA ConstructFailsInv ==
  ASSUME LedgerInv, StageInv, NEW c \in Client, ConstructFails(c)
  PROVE  StageInv'
<1>1. /\ TypeOK /\ CallsAgree /\ PayTypeOK /\ OwnersAreExclusive
      /\ \A b \in Client : StageAgrees(b) /\ SentAgrees(b)
  BY DEF LedgerInv, StageInv
<1>2. /\ \/ stage[c] = "construct" /\ stage' = [stage EXCEPT ![c] = "undo"]
         \/ stage[c] = "start" /\ stage' = [stage EXCEPT ![c] = "done"]
      /\ DOMAIN result' = DOMAIN result /\ UNCHANGED <<pc, boot, call, handle>>
      /\ UNCHANGED <<outcome, marker, connected, sent, reverted>>
  BY DEF ConstructFails, Goto, Done, ledgerVars
<1>3. PayTypeOK'
  BY <1>1, <1>2 DEF PayTypeOK, TypeOK, Stages, Early, Reserving, Outcomes
<1>4. \A b \in Client \ {c} : Same(b)
  BY <1>1, <1>2 DEF Same, PayTypeOK, TypeOK
<1>5. StageAgrees(c)'
  BY <1>1, <1>2
     DEF StageAgrees, PayTypeOK, TypeOK, Reserving, IsPending
<1>6. SentAgrees(c)'
  BY <1>1, <1>2
     DEF SentAgrees, PayTypeOK, TypeOK, Reserving, Early, Attempt, Paid
<1>7. OwnersAreExclusive'
  BY <1>1, <1>2, OwnersStay DEF OwnersAreExclusive, Owns, PayTypeOK
<1> QED
  BY <1>3, <1>4, <1>5, <1>6, <1>7, OthersStay

\* Nothing was handed to the wallet.
LEMMA NotSubmittedInv ==
  ASSUME LedgerInv, StageInv, NEW c \in Client, NotSubmitted(c)
  PROVE  StageInv'
<1>1. /\ TypeOK /\ CallsAgree /\ PayTypeOK /\ OwnersAreExclusive
      /\ \A b \in Client : StageAgrees(b) /\ SentAgrees(b)
  BY DEF LedgerInv, StageInv
<1>2. /\ stage[c] \in {"ready", "pay"}
      /\ stage' = [stage EXCEPT ![c] = "disconnect"]
      /\ connected' = connected \cup {c}
      /\ outcome' = [outcome EXCEPT ![c] = "NotSubmitted"] /\ UNCHANGED <<pc, boot, call, handle>>
      /\ UNCHANGED <<result, marker, sent, reverted>>
  BY DEF NotSubmitted, Goto, ledgerVars
<1>3. PayTypeOK'
  BY <1>1, <1>2 DEF PayTypeOK, TypeOK, Stages, Early, Reserving, Outcomes
<1>4. \A b \in Client \ {c} : Same(b)
  BY <1>1, <1>2 DEF Same, PayTypeOK, TypeOK
<1>5. StageAgrees(c)'
  BY <1>1, <1>2
     DEF StageAgrees, PayTypeOK, TypeOK, Reserving, IsPending
<1>6. SentAgrees(c)'
  BY <1>1, <1>2
     DEF SentAgrees, PayTypeOK, TypeOK, Reserving, Early, Attempt, Paid
<1>7. OwnersAreExclusive'
  BY <1>1, <1>2, OwnersStay DEF OwnersAreExclusive, Owns, PayTypeOK
<1> QED
  BY <1>3, <1>4, <1>5, <1>6, <1>7, OthersStay

\* The owner of a wallet connects to it.
LEMMA ReadyInv ==
  ASSUME LedgerInv, StageInv, NEW c \in Client, Ready(c)
  PROVE  StageInv'
<1>1. /\ TypeOK /\ CallsAgree /\ PayTypeOK /\ OwnersAreExclusive
      /\ \A b \in Client : StageAgrees(b) /\ SentAgrees(b)
  BY DEF LedgerInv, StageInv
<1>2. /\ stage[c] = "ready" /\ stage' = [stage EXCEPT ![c] = "pay"]
      /\ connected' = connected \cup {c} /\ UNCHANGED <<pc, boot, call, handle>>
      /\ UNCHANGED <<outcome, result, marker, sent, reverted>>
  BY DEF Ready, Goto, ledgerVars
<1>3. PayTypeOK'
  BY <1>1, <1>2 DEF PayTypeOK, TypeOK, Stages, Early, Reserving, Outcomes
<1>4. \A b \in Client \ {c} : Same(b)
  BY <1>1, <1>2 DEF Same, PayTypeOK, TypeOK
<1>5. StageAgrees(c)'
  BY <1>1, <1>2
     DEF StageAgrees, PayTypeOK, TypeOK, Reserving, IsPending
<1>6. SentAgrees(c)'
  BY <1>1, <1>2
     DEF SentAgrees, PayTypeOK, TypeOK, Reserving, Early, Attempt, Paid
<1>7. OwnersAreExclusive'
  BY <1>1, <1>2, OwnersStay DEF OwnersAreExclusive, Owns, PayTypeOK
<1> QED
  BY <1>3, <1>4, <1>5, <1>6, <1>7, OthersStay

\* The process sends its only payment, that of its reservation.
LEMMA SubmitInv ==
  ASSUME LedgerInv, StageInv, NEW c \in Client, Submit(c)
  PROVE  StageInv'
<1>1. /\ TypeOK /\ CallsAgree /\ PayTypeOK /\ OwnersAreExclusive
      /\ \A b \in Client : StageAgrees(b) /\ SentAgrees(b)
  BY DEF LedgerInv, StageInv
<1>2. /\ stage[c] = "pay" /\ stage' = [stage EXCEPT ![c] = "submitted"]
      /\ sent' = [k \in DOMAIN sent \cup {Attempt(c)} |->
                    IF k = Attempt(c)
                    THEN [id |-> handle[c].id, day |-> handle[c].day,
                          amount |-> handle[c].amount,
                          fate |-> "inflight", closed |-> FALSE]
                    ELSE sent[k]]
      /\ UNCHANGED <<pc, boot, call, handle>>
      /\ UNCHANGED <<outcome, result, marker, connected, reverted>>
  BY DEF Submit, Goto, ledgerVars
<1>3. PayTypeOK'
  <2>1. handle[c] \in Reservation
    BY <1>1, <1>2 DEF StageAgrees, Reserving, IsPending, TypeOK
  <2>2. /\ handle[c].id \in Id /\ handle[c].day \in Day
        /\ handle[c].amount \in Sats
    BY <2>1 DEF Reservation
  <2>3. Attempt(c) \in Client \X Nat /\ Attempt(c)[2] <= boot[Attempt(c)[1]]
    BY <1>1 DEF Attempt, TypeOK
  <2>4. IsFiniteSet(DOMAIN sent')
    BY <1>1, <1>2, FS_AddElement DEF PayTypeOK
  <2>5. \A k \in DOMAIN sent' : sent'[k] \in Payment
    BY <1>1, <1>2, <2>2 DEF PayTypeOK, Payment
  <2> QED
    BY <1>1, <1>2, <2>3, <2>4, <2>5 DEF PayTypeOK, Stages, Early, Reserving
<1>4. \A b \in Client \ {c} : Same(b)
  <2>1. \A b \in Client \ {c} : Attempt(b) # Attempt(c)
    BY DEF Attempt
  <2> QED
    BY <1>1, <1>2, <2>1 DEF Same, PayTypeOK, TypeOK
<1>5. StageAgrees(c)'
  BY <1>1, <1>2
     DEF StageAgrees, PayTypeOK, TypeOK, Reserving, IsPending
<1>6. SentAgrees(c)'
  BY <1>1, <1>2
     DEF SentAgrees, PayTypeOK, TypeOK, Reserving, Early, Attempt, Paid
<1>7. OwnersAreExclusive'
  BY <1>1, <1>2, OwnersStay DEF OwnersAreExclusive, Owns, PayTypeOK
<1> QED
  BY <1>3, <1>4, <1>5, <1>6, <1>7, OthersStay

\* A final answer is the payment's fate.
LEMMA AnswerInv ==
  ASSUME LedgerInv, StageInv, NEW c \in Client, Answer(c)
  PROVE  StageInv'
<1>1. /\ TypeOK /\ CallsAgree /\ PayTypeOK /\ OwnersAreExclusive
      /\ \A b \in Client : StageAgrees(b) /\ SentAgrees(b)
  BY DEF LedgerInv, StageInv
<1>2. /\ stage[c] = "submitted"
      /\ stage' = [stage EXCEPT ![c] = "disconnect"]
      /\ \E answer \in Outcomes :
           /\ outcome' = [outcome EXCEPT ![c] = answer]
           /\ \/ answer = "SubmittedUnknown"
              \/ /\ answer = "Confirmed"
                 /\ sent[Attempt(c)].fate = "settled"
              \/ /\ answer = "SubmittedFailedFinal"
                 /\ sent[Attempt(c)].fate = "failed"
      /\ UNCHANGED <<pc, boot, call, handle>>
      /\ UNCHANGED <<result, marker, connected, sent, reverted>>
  BY DEF Answer, Goto, Outcomes, ledgerVars
<1>3. PayTypeOK'
  BY <1>1, <1>2 DEF PayTypeOK, TypeOK, Stages, Early, Reserving, Outcomes
<1>4. \A b \in Client \ {c} : Same(b)
  BY <1>1, <1>2 DEF Same, PayTypeOK, TypeOK
<1>5. StageAgrees(c)'
  BY <1>1, <1>2
     DEF StageAgrees, PayTypeOK, TypeOK, Reserving, IsPending
<1>6. SentAgrees(c)'
  BY <1>1, <1>2
     DEF SentAgrees, PayTypeOK, TypeOK, Reserving, Early, Attempt, Paid
<1>7. OwnersAreExclusive'
  BY <1>1, <1>2, OwnersStay DEF OwnersAreExclusive, Owns, PayTypeOK
<1> QED
  BY <1>3, <1>4, <1>5, <1>6, <1>7, OthersStay

\* The marker is given up only with the wallet.
LEMMA DisconnectInv ==
  ASSUME LedgerInv, StageInv, NEW c \in Client, Disconnect(c)
  PROVE  StageInv'
<1>1. /\ TypeOK /\ CallsAgree /\ PayTypeOK /\ OwnersAreExclusive
      /\ \A b \in Client : StageAgrees(b) /\ SentAgrees(b)
  BY DEF LedgerInv, StageInv
<1>2. /\ stage[c] = "disconnect" /\ stage' = [stage EXCEPT ![c] = AfterPay(c)]
      /\ \E clean \in BOOLEAN :
           /\ Cleanup(c, clean)
           /\ outcome' = [outcome EXCEPT ![c] =
                            IF @ = "Confirmed" /\ ~clean
                            THEN "DisconnectFailed" ELSE @]
      /\ DOMAIN result' = DOMAIN result /\ UNCHANGED <<pc, boot, call, handle>>
      /\ UNCHANGED <<sent, reverted>>
  BY DEF Disconnect, Goto, ledgerVars
<1>3. PayTypeOK'
  BY <1>1, <1>2
     DEF PayTypeOK, Stages, Early, Reserving, Outcomes, AfterPay, Cleanup
<1>4. \A b \in Client \ {c} : Same(b)
  BY <1>1, <1>2 DEF Same, PayTypeOK, TypeOK
<1>5. StageAgrees(c)'
  BY <1>1, <1>2
     DEF StageAgrees, PayTypeOK, TypeOK, Reserving, IsPending, AfterPay
<1>6. SentAgrees(c)'
  BY <1>1, <1>2
     DEF SentAgrees, PayTypeOK, TypeOK, Reserving, Early, Attempt, Paid,
         AfterPay
<1>7. OwnersAreExclusive'
  BY <1>1, <1>2 DEF OwnersAreExclusive, Owns, PayTypeOK, AfterPay, Cleanup
<1> QED
  BY <1>3, <1>4, <1>5, <1>6, <1>7, OthersStay

\* The proof is looked at after the payment.
LEMMA VerifyInv ==
  ASSUME LedgerInv, StageInv, NEW c \in Client, Verify(c)
  PROVE  StageInv'
<1>1. /\ TypeOK /\ CallsAgree /\ PayTypeOK /\ OwnersAreExclusive
      /\ \A b \in Client : StageAgrees(b) /\ SentAgrees(b)
  BY DEF LedgerInv, StageInv
<1>2. /\ stage[c] = "verify"
      /\ \/ stage' = [stage EXCEPT ![c] = "save"]
         \/ stage' = [stage EXCEPT ![c] = "done"]
      /\ DOMAIN result' = DOMAIN result /\ UNCHANGED <<pc, boot, call, handle>>
      /\ UNCHANGED <<outcome, marker, connected, sent, reverted>>
  BY DEF Verify, Goto, Done, ledgerVars
<1>3. PayTypeOK'
  BY <1>1, <1>2 DEF PayTypeOK, TypeOK, Stages, Early, Reserving, Outcomes
<1>4. \A b \in Client \ {c} : Same(b)
  BY <1>1, <1>2 DEF Same, PayTypeOK, TypeOK
<1>5. StageAgrees(c)'
  BY <1>1, <1>2
     DEF StageAgrees, PayTypeOK, TypeOK, Reserving, IsPending
<1>6. SentAgrees(c)'
  BY <1>1, <1>2
     DEF SentAgrees, PayTypeOK, TypeOK, Reserving, Early, Attempt, Paid
<1>7. OwnersAreExclusive'
  BY <1>1, <1>2, OwnersStay DEF OwnersAreExclusive, Owns, PayTypeOK
<1> QED
  BY <1>3, <1>4, <1>5, <1>6, <1>7, OthersStay

\* The credential is stored after the payment.
LEMMA SaveInv ==
  ASSUME LedgerInv, StageInv, NEW c \in Client, Save(c)
  PROVE  StageInv'
<1>1. /\ TypeOK /\ CallsAgree /\ PayTypeOK /\ OwnersAreExclusive
      /\ \A b \in Client : StageAgrees(b) /\ SentAgrees(b)
  BY DEF LedgerInv, StageInv
<1>2. /\ stage[c] = "save"
      /\ \/ stage' = [stage EXCEPT ![c] = "settle"]
         \/ stage' = [stage EXCEPT ![c] = "done"]
      /\ DOMAIN result' = DOMAIN result /\ UNCHANGED <<pc, boot, call, handle>>
      /\ UNCHANGED <<outcome, marker, connected, sent, reverted>>
  BY DEF Save, Goto, Done, ledgerVars
<1>3. PayTypeOK'
  BY <1>1, <1>2 DEF PayTypeOK, TypeOK, Stages, Early, Reserving, Outcomes
<1>4. \A b \in Client \ {c} : Same(b)
  BY <1>1, <1>2 DEF Same, PayTypeOK, TypeOK
<1>5. StageAgrees(c)'
  BY <1>1, <1>2
     DEF StageAgrees, PayTypeOK, TypeOK, Reserving, IsPending
<1>6. SentAgrees(c)'
  BY <1>1, <1>2
     DEF SentAgrees, PayTypeOK, TypeOK, Reserving, Early, Attempt, Paid
<1>7. OwnersAreExclusive'
  BY <1>1, <1>2, OwnersStay DEF OwnersAreExclusive, Owns, PayTypeOK
<1> QED
  BY <1>3, <1>4, <1>5, <1>6, <1>7, OthersStay

\* The reservation of a request is asked for under its own challenge.
LEMMA BeginReserveInv ==
  ASSUME LedgerInv, StageInv, NEW c \in Client, BeginReserve(c)
  PROVE  StageInv'
<1>1. /\ TypeOK /\ CallsAgree /\ PayTypeOK /\ OwnersAreExclusive
      /\ \A b \in Client : StageAgrees(b) /\ SentAgrees(b)
  BY DEF LedgerInv, StageInv
<1>2. /\ pc[c] = "idle" /\ pc' = [pc EXCEPT ![c] = "calling"]
      /\ stage' = [stage EXCEPT ![c] = "reserving"]
      /\ \A b \in Client \ {c} : call'[b] = call[b]
      /\ \/ /\ stage[c] = "start" /\ c \in Requester
            /\ call'[c].kind = "reserve_guarded" /\ call'[c].id = GuardOf[c]
         \/ stage[c] = "constructed" /\ call'[c].kind = "reserve"
      /\ UNCHANGED <<boot, handle, outcome, result, marker, connected, sent,
                     reverted>>
  <2>1. CASE /\ c \in Requester /\ Goto(c, "start", "reserving")
             /\ CallReserveGuarded(c, GuardOf[c])
    BY <1>1, <2>1 DEF BeginReserve, Goto, CallReserveGuarded, Begin, TypeOK
  <2>2. ASSUME Goto(c, "constructed", "reserving"),
               NEW amount \in Amount, CallReserve(c, amount)
        PROVE  /\ stage[c] = "constructed" /\ call'[c].kind = "reserve"
               /\ \A b \in Client \ {c} : call'[b] = call[b]
               /\ stage' = [stage EXCEPT ![c] = "reserving"]
               /\ pc[c] = "idle" /\ pc' = [pc EXCEPT ![c] = "calling"]
               /\ UNCHANGED <<boot, handle>>
    BY <1>1, <2>2 DEF Goto, CallReserve, Begin, TypeOK
  <2> QED
    BY <2>1, <2>2 DEF BeginReserve
<1>3. PayTypeOK'
  BY <1>1, <1>2 DEF PayTypeOK, TypeOK, Stages, Early, Reserving, Outcomes
<1>4. \A b \in Client \ {c} : Same(b)
  BY <1>1, <1>2 DEF Same, PayTypeOK, TypeOK
<1>5. StageAgrees(c)'
  BY <1>1, <1>2
     DEF StageAgrees, PayTypeOK, TypeOK, Reserving, IsPending
<1>6. SentAgrees(c)'
  BY <1>1, <1>2
     DEF SentAgrees, PayTypeOK, TypeOK, Reserving, Early, Attempt, Paid
<1>7. OwnersAreExclusive'
  BY <1>1, <1>2, OwnersStay DEF OwnersAreExclusive, Owns, PayTypeOK
<1> QED
  BY <1>3, <1>4, <1>5, <1>6, <1>7, OthersStay

\* The lock is the ledger's affair.
LEMMA LockInv ==
  ASSUME LedgerInv, StageInv, NEW c \in Client, Lock(c)
  PROVE  StageInv'
<1>1. /\ TypeOK /\ CallsAgree /\ PayTypeOK /\ OwnersAreExclusive
      /\ \A b \in Client : StageAgrees(b) /\ SentAgrees(b)
  BY DEF LedgerInv, StageInv
<1>2. /\ pc[c] = "calling" /\ pc' = [pc EXCEPT ![c] = "locked"]
      /\ UNCHANGED <<boot, call, handle, stage, outcome, result, marker,
                     connected, sent, reverted>>
  BY DEF Lock, LockAndRead, payVars
<1>3. PayTypeOK'
  BY <1>1, <1>2 DEF PayTypeOK, TypeOK, Stages, Early, Reserving, Outcomes
<1>4. \A b \in Client \ {c} : Same(b)
  BY <1>1, <1>2 DEF Same, PayTypeOK, TypeOK
<1>5. StageAgrees(c)'
  BY <1>1, <1>2
     DEF StageAgrees, PayTypeOK, TypeOK, Reserving, IsPending
<1>6. SentAgrees(c)'
  BY <1>1, <1>2
     DEF SentAgrees, PayTypeOK, TypeOK, Reserving, Early, Attempt, Paid
<1>7. OwnersAreExclusive'
  BY <1>1, <1>2, OwnersStay DEF OwnersAreExclusive, Owns, PayTypeOK
<1> QED
  BY <1>3, <1>4, <1>5, <1>6, <1>7, OthersStay

\* A granted reservation is the handle's, a refused one is nobody's.
LEMMA ReservedInv ==
  ASSUME LedgerInv, StageInv, NEW c \in Client, Reserved(c)
  PROVE  StageInv'
<1>1. /\ TypeOK /\ CallsAgree /\ PayTypeOK /\ OwnersAreExclusive
      /\ \A b \in Client : StageAgrees(b) /\ SentAgrees(b)
  BY DEF LedgerInv, StageInv
<1>2. /\ stage[c] = "reserving"
      /\ pc' = [pc EXCEPT ![c] = "idle"] /\ call' = [call EXCEPT ![c] = None]
      /\ UNCHANGED <<boot, outcome, connected, sent, reverted>>
      /\ DOMAIN result' = DOMAIN result
      /\ \/ /\ stage' = [stage EXCEPT ![c] =
                           IF c \in Requester THEN "construct" ELSE "ready"]
            /\ marker' = marker
            /\ handle' = [handle EXCEPT ![c] =
                            [id |-> call[c].id, day |-> call[c].day,
                             amount |-> call[c].amount, state |-> "Pending"]]
         \/ /\ stage' = [stage EXCEPT ![c] = "done"]
            /\ handle' = handle
            /\ marker' \in IF c \in Requester THEN {marker}
                          ELSE {marker, marker \ {WalletOf[c]}}
  <2>1. PICK w \in WriteOutcome :
          /\ ReserveWrite(c, w)
          /\ IF w = "NotApplied"
             THEN Done(c, "Reservation", FALSE, FALSE) /\ DropPayer(c)
             ELSE /\ Goto(c, "reserving",
                          IF c \in Requester THEN "construct" ELSE "ready")
                  /\ UNCHANGED <<result, marker, connected>>
    BY DEF Reserved
  <2>2. w = "NotApplied" => handle' = handle
    BY <1>1, <2>1 DEF ReserveWrite, TypeOK
  <2> QED
    BY <2>1, <2>2 DEF Reserved, ReserveWrite, Return, Done, DropPayer, Goto
<1>3. PayTypeOK'
  BY <1>1, <1>2 DEF PayTypeOK, TypeOK, Stages, Early, Reserving, Outcomes
<1>4. \A b \in Client \ {c} : Same(b)
  BY <1>1, <1>2 DEF Same, PayTypeOK, TypeOK
<1>5. StageAgrees(c)'
  <2>1. /\ pc'[c] = "idle"
        /\ c \in Requester => call[c].id = GuardOf[c]
    BY <1>1, <1>2 DEF StageAgrees, TypeOK
  <2>2. CASE stage'[c] = "done"
    BY <1>1, <1>2, <2>1, <2>2
       DEF StageAgrees, PayTypeOK, TypeOK, Reserving, IsPending
  <2>3. CASE stage'[c] # "done"
    <3>1. /\ handle'[c] # None /\ handle'[c].state = "Pending"
          /\ handle'[c].id = call[c].id
          /\ stage'[c] = IF c \in Requester THEN "construct" ELSE "ready"
      BY <1>1, <1>2, <2>3 DEF PayTypeOK, TypeOK, None
    <3> QED
      BY <2>1, <3>1 DEF StageAgrees, Reserving, IsPending
  <2> QED
    BY <2>2, <2>3
<1>6. SentAgrees(c)'
  BY <1>1, <1>2
     DEF SentAgrees, PayTypeOK, TypeOK, Reserving, Early, Attempt, Paid
<1>7. OwnersAreExclusive'
  BY <1>1, <1>2, OwnersStay DEF OwnersAreExclusive, Owns, PayTypeOK
<1> QED
  BY <1>3, <1>4, <1>5, <1>6, <1>7, OthersStay

\* A command without its reservation ends.
LEMMA NotReservedInv ==
  ASSUME LedgerInv, StageInv, NEW c \in Client, NotReserved(c)
  PROVE  StageInv'
<1>1. /\ TypeOK /\ CallsAgree /\ PayTypeOK /\ OwnersAreExclusive
      /\ \A b \in Client : StageAgrees(b) /\ SentAgrees(b)
  BY DEF LedgerInv, StageInv
<1>2. /\ stage[c] = "reserving" /\ stage' = [stage EXCEPT ![c] = "done"]
      /\ pc' = [pc EXCEPT ![c] = "idle"] /\ call' = [call EXCEPT ![c] = None]
      /\ marker' \in IF c \in Requester THEN {marker}
                    ELSE {marker, marker \ {WalletOf[c]}}
      /\ DOMAIN result' = DOMAIN result
      /\ UNCHANGED <<boot, handle, outcome, connected, sent, reverted>>
  BY DEF NotReserved, ReserveDuplicate, ReserveOverBudget, ReserveOverflow,
         AccessFails, Refuse, Return, Done, DropPayer
<1>3. PayTypeOK'
  BY <1>1, <1>2 DEF PayTypeOK, TypeOK, Stages, Early, Reserving, Outcomes
<1>4. \A b \in Client \ {c} : Same(b)
  BY <1>1, <1>2 DEF Same, PayTypeOK, TypeOK
<1>5. StageAgrees(c)'
  BY <1>1, <1>2
     DEF StageAgrees, PayTypeOK, TypeOK, Reserving, IsPending
<1>6. SentAgrees(c)'
  BY <1>1, <1>2
     DEF SentAgrees, PayTypeOK, TypeOK, Reserving, Early, Attempt, Paid
<1>7. OwnersAreExclusive'
  BY <1>1, <1>2, OwnersStay DEF OwnersAreExclusive, Owns, PayTypeOK
<1> QED
  BY <1>3, <1>4, <1>5, <1>6, <1>7, OthersStay

\* What is committed was paid, what is rolled back was not.
LEMMA BeginFinishInv ==
  ASSUME LedgerInv, StageInv, NEW c \in Client, BeginFinish(c)
  PROVE  StageInv'
<1>1. /\ TypeOK /\ CallsAgree /\ PayTypeOK /\ OwnersAreExclusive
      /\ \A b \in Client : StageAgrees(b) /\ SentAgrees(b)
  BY DEF LedgerInv, StageInv
<1>2. /\ pc[c] = "idle" /\ pc' = [pc EXCEPT ![c] = "calling"]
      /\ \A b \in Client \ {c} : call'[b] = call[b]
      /\ \/ /\ stage[c] = "settle" /\ call'[c].kind = "commit"
            /\ stage' = [stage EXCEPT ![c] = "settling"]
         \/ /\ stage[c] = "undo" /\ call'[c].kind = "rollback"
            /\ stage' = [stage EXCEPT ![c] = "undoing"]
      /\ UNCHANGED <<boot, handle, outcome, result, marker, connected, sent,
                     reverted>>
  BY <1>1 DEF BeginFinish, Goto, CallFinish, Begin, TypeOK
<1>3. PayTypeOK'
  BY <1>1, <1>2 DEF PayTypeOK, TypeOK, Stages, Early, Reserving, Outcomes
<1>4. \A b \in Client \ {c} : Same(b)
  BY <1>1, <1>2 DEF Same, PayTypeOK, TypeOK
<1>5. StageAgrees(c)'
  BY <1>1, <1>2
     DEF StageAgrees, PayTypeOK, TypeOK, Reserving, IsPending
<1>6. SentAgrees(c)'
  BY <1>1, <1>2
     DEF SentAgrees, PayTypeOK, TypeOK, Reserving, Early, Attempt, Paid
<1>7. OwnersAreExclusive'
  BY <1>1, <1>2, OwnersStay DEF OwnersAreExclusive, Owns, PayTypeOK
<1> QED
  BY <1>3, <1>4, <1>5, <1>6, <1>7, OthersStay

\* A commit ends the command.
LEMMA SettledInv ==
  ASSUME LedgerInv, StageInv, NEW c \in Client, Settled(c)
  PROVE  StageInv'
<1>1. /\ TypeOK /\ CallsAgree /\ PayTypeOK /\ OwnersAreExclusive
      /\ \A b \in Client : StageAgrees(b) /\ SentAgrees(b)
  BY DEF LedgerInv, StageInv
<1>2. /\ stage[c] = "settling" /\ stage' = [stage EXCEPT ![c] = "done"]
      /\ pc' = [pc EXCEPT ![c] = "idle"] /\ call' = [call EXCEPT ![c] = None]
      /\ \/ handle' = handle
         \/ \E st : handle' = [handle EXCEPT ![c].state = st]
      /\ \/ sent' = sent
         \/ sent' = [sent EXCEPT ![Attempt(c)].closed = TRUE]
      /\ DOMAIN result' = DOMAIN result
      /\ UNCHANGED <<boot, outcome, marker, connected, reverted>>
  BY DEF Settled, FinishWrite, Return, ReportCommit, Done
<1>3. PayTypeOK'
  <2>1. Attempt(c) \in DOMAIN sent
    BY <1>1, <1>2 DEF SentAgrees
  <2>2. DOMAIN sent' = DOMAIN sent
    BY <1>2
  <2>3. ASSUME NEW k \in DOMAIN sent PROVE sent'[k] \in Payment
    <3>1. sent[k] \in Payment
      BY <1>1 DEF PayTypeOK
    <3>2. sent'[k] = sent[k] \/ sent'[k] = [sent[k] EXCEPT !.closed = TRUE]
      BY <1>2, <2>1
    <3> QED
      BY <3>1, <3>2 DEF Payment
  <2> QED
    BY <1>1, <1>2, <2>2, <2>3 DEF PayTypeOK, Stages
<1>4. \A b \in Client \ {c} : Same(b)
  <2>1. \A b \in Client \ {c} : Attempt(b) # Attempt(c)
    BY DEF Attempt
  <2> QED
    BY <1>1, <1>2, <2>1 DEF Same, PayTypeOK, TypeOK
<1>5. StageAgrees(c)'
  <2>1. handle[c] \in Reservation
    BY <1>1, <1>2 DEF StageAgrees, Reserving, IsPending, TypeOK
  <2>2. handle'[c].id = handle[c].id
    BY <1>1, <1>2, <2>1 DEF Reservation, TypeOK
  <2>3. c \in Requester => handle[c].id = GuardOf[c]
    BY <1>1, <1>2 DEF StageAgrees, Reserving, IsPending
  <2> QED
    BY <1>1, <1>2, <2>2, <2>3 DEF StageAgrees, PayTypeOK, TypeOK, Reserving
<1>6. SentAgrees(c)'
  BY <1>1, <1>2
     DEF SentAgrees, PayTypeOK, TypeOK, Reserving, Early, Attempt, Paid
<1>7. OwnersAreExclusive'
  BY <1>1, <1>2, OwnersStay DEF OwnersAreExclusive, Owns, PayTypeOK
<1> QED
  BY <1>3, <1>4, <1>5, <1>6, <1>7, OthersStay

\* A rollback ends the command.
LEMMA UndoneInv ==
  ASSUME LedgerInv, StageInv, NEW c \in Client, Undone(c)
  PROVE  StageInv'
<1>1. /\ TypeOK /\ CallsAgree /\ PayTypeOK /\ OwnersAreExclusive
      /\ \A b \in Client : StageAgrees(b) /\ SentAgrees(b)
  BY DEF LedgerInv, StageInv
<1>2. /\ stage[c] = "undoing" /\ stage' = [stage EXCEPT ![c] = "done"]
      /\ pc' = [pc EXCEPT ![c] = "idle"] /\ call' = [call EXCEPT ![c] = None]
      /\ \/ handle' = handle
         \/ \E st : handle' = [handle EXCEPT ![c].state = st]
      /\ DOMAIN result' = DOMAIN result
      /\ UNCHANGED <<boot, outcome, marker, connected, sent, reverted>>
  BY DEF Undone, FinishWrite, Return, ReportRollback, Done
<1>3. PayTypeOK'
  BY <1>1, <1>2 DEF PayTypeOK, TypeOK, Stages, Early, Reserving, Outcomes
<1>4. \A b \in Client \ {c} : Same(b)
  BY <1>1, <1>2 DEF Same, PayTypeOK, TypeOK
<1>5. StageAgrees(c)'
  <2>1. handle[c] \in Reservation
    BY <1>1, <1>2 DEF StageAgrees, Reserving, IsPending, TypeOK
  <2>2. handle'[c].id = handle[c].id
    BY <1>1, <1>2, <2>1 DEF Reservation, TypeOK
  <2>3. c \in Requester => handle[c].id = GuardOf[c]
    BY <1>1, <1>2 DEF StageAgrees, Reserving, IsPending
  <2> QED
    BY <1>1, <1>2, <2>2, <2>3 DEF StageAgrees, PayTypeOK, TypeOK, Reserving
<1>6. SentAgrees(c)'
  BY <1>1, <1>2
     DEF SentAgrees, PayTypeOK, TypeOK, Reserving, Early, Attempt, Paid
<1>7. OwnersAreExclusive'
  BY <1>1, <1>2, OwnersStay DEF OwnersAreExclusive, Owns, PayTypeOK
<1> QED
  BY <1>3, <1>4, <1>5, <1>6, <1>7, OthersStay

\* So does the failure of either.
LEMMA NotFinishedInv ==
  ASSUME LedgerInv, StageInv, NEW c \in Client, NotFinished(c)
  PROVE  StageInv'
<1>1. /\ TypeOK /\ CallsAgree /\ PayTypeOK /\ OwnersAreExclusive
      /\ \A b \in Client : StageAgrees(b) /\ SentAgrees(b)
  BY DEF LedgerInv, StageInv
<1>2. /\ stage[c] \in {"settling", "undoing"}
      /\ stage' = [stage EXCEPT ![c] = "done"]
      /\ pc' = [pc EXCEPT ![c] = "idle"] /\ call' = [call EXCEPT ![c] = None]
      /\ DOMAIN result' = DOMAIN result
      /\ UNCHANGED <<boot, handle, outcome, marker, connected, sent, reverted>>
  BY DEF NotFinished, AccessFails, FinishMissing, Refuse, Return, ReportCommit,
         ReportRollback, Done
<1>3. PayTypeOK'
  BY <1>1, <1>2 DEF PayTypeOK, TypeOK, Stages, Early, Reserving, Outcomes
<1>4. \A b \in Client \ {c} : Same(b)
  BY <1>1, <1>2 DEF Same, PayTypeOK, TypeOK
<1>5. StageAgrees(c)'
  BY <1>1, <1>2
     DEF StageAgrees, PayTypeOK, TypeOK, Reserving, IsPending
<1>6. SentAgrees(c)'
  BY <1>1, <1>2
     DEF SentAgrees, PayTypeOK, TypeOK, Reserving, Early, Attempt, Paid
<1>7. OwnersAreExclusive'
  BY <1>1, <1>2, OwnersStay DEF OwnersAreExclusive, Owns, PayTypeOK
<1> QED
  BY <1>3, <1>4, <1>5, <1>6, <1>7, OthersStay

\* A dead process leaves its marker and its payments.
LEMMA DieInv ==
  ASSUME LedgerInv, StageInv, NEW c \in Client, Die(c)
  PROVE  StageInv'
<1>1. /\ TypeOK /\ CallsAgree /\ PayTypeOK /\ OwnersAreExclusive
      /\ \A b \in Client : StageAgrees(b) /\ SentAgrees(b)
  BY DEF LedgerInv, StageInv
<1>2. /\ stage' = [stage EXCEPT ![c] = "down"]
      /\ outcome' = [outcome EXCEPT ![c] = "none"]
      /\ pc' = [pc EXCEPT ![c] = "down"] /\ call' = [call EXCEPT ![c] = None]
      /\ handle' = [handle EXCEPT ![c] = None]
      /\ connected' = connected \ {c} /\ DOMAIN result' = DOMAIN result
      /\ UNCHANGED <<boot, marker, sent, reverted>>
  BY DEF Die, Crash
<1>3. PayTypeOK'
  BY <1>1, <1>2 DEF PayTypeOK, TypeOK, Stages, Early, Reserving, Outcomes
<1>4. \A b \in Client \ {c} : Same(b)
  BY <1>1, <1>2 DEF Same, PayTypeOK, TypeOK
<1>5. StageAgrees(c)'
  BY <1>1, <1>2
     DEF StageAgrees, PayTypeOK, TypeOK, Reserving, IsPending
<1>6. SentAgrees(c)'
  BY <1>1, <1>2
     DEF SentAgrees, PayTypeOK, TypeOK, Reserving, Early, Attempt, Paid
<1>7. OwnersAreExclusive'
  BY <1>1, <1>2, OwnersStay DEF OwnersAreExclusive, Owns, PayTypeOK
<1> QED
  BY <1>3, <1>4, <1>5, <1>6, <1>7, OthersStay

\* The network decides a payment that nobody has been told of.
LEMMA ResolveInv ==
  ASSUME LedgerInv, StageInv, Resolve
  PROVE  StageInv'
<1>1. /\ TypeOK /\ PayTypeOK /\ OwnersAreExclusive
      /\ \A b \in Client : StageAgrees(b) /\ SentAgrees(b)
  BY DEF LedgerInv, StageInv
<1>2. PICK k \in DOMAIN sent, fate \in {"settled", "failed"} :
        /\ sent[k].fate = "inflight"
        /\ sent' = [sent EXCEPT ![k].fate = fate]
  BY DEF Resolve
<1>3. UNCHANGED <<pc, boot, call, handle, stage, outcome, result, marker,
                  connected, reverted>>
  BY DEF Resolve, ledgerVars
<1>4. /\ DOMAIN sent' = DOMAIN sent
      /\ \A j \in DOMAIN sent :
           /\ sent'[j] \in Payment
           /\ sent'[j].id = sent[j].id /\ sent'[j].day = sent[j].day
           /\ sent'[j].amount = sent[j].amount
           /\ sent'[j].closed = sent[j].closed
           /\ sent[j].fate # "inflight" => sent'[j].fate = sent[j].fate
  <2>1. ASSUME NEW j \in DOMAIN sent
        PROVE  /\ sent[j] \in Payment
               /\ sent'[j] = sent[j] \/ sent'[j] = [sent[j] EXCEPT !.fate = fate]
               /\ j # k => sent'[j] = sent[j]
    BY <1>1, <1>2 DEF PayTypeOK
  <2> QED
    BY <1>2, <2>1 DEF Payment
<1>5. PayTypeOK'
  BY <1>1, <1>3, <1>4 DEF PayTypeOK
<1>6. ASSUME NEW c \in Client PROVE StageAgrees(c)' /\ SentAgrees(c)'
  <2>1. StageAgrees(c)'
    BY <1>1, <1>3 DEF StageAgrees, IsPending
  <2>2. SentAgrees(c)'
    BY <1>1, <1>3, <1>4 DEF SentAgrees, Paid, Attempt
  <2> QED
    BY <2>1, <2>2
<1>7. OwnersAreExclusive'
  BY <1>1, <1>3 DEF OwnersAreExclusive, Owns
<1> QED
  BY <1>5, <1>6, <1>7 DEF StageInv

\* A wallet whose clients are all down has no owner.
LEMMA ClearMarkerInv ==
  ASSUME LedgerInv, StageInv, NEW w \in Wallet, ClearMarker(w)
  PROVE  StageInv'
<1>1. /\ PayTypeOK /\ OwnersAreExclusive
      /\ \A b \in Client : StageAgrees(b) /\ SentAgrees(b)
  BY DEF StageInv
<1>2. /\ \A c \in Client : WalletOf[c] = w => stage[c] = "down"
      /\ marker' = marker \ {w}
      /\ UNCHANGED <<pc, boot, call, handle, stage, outcome, result,
                     connected, sent, reverted>>
  BY DEF ClearMarker, ledgerVars
<1>3. PayTypeOK'
  BY <1>1, <1>2 DEF PayTypeOK
<1>4. \A c \in Client : StageAgrees(c)' /\ SentAgrees(c)'
  BY <1>1, <1>2 DEF StageAgrees, IsPending, SentAgrees, Paid, Attempt
<1>5. OwnersAreExclusive'
  <2>1. \A c \in Client : Owns(c) => WalletOf[c] # w
    BY <1>1, <1>2 DEF OwnersAreExclusive, Owns
  <2> QED
    BY <1>1, <1>2, <2>1, OwnersStay DEF OwnersAreExclusive, Owns
<1> QED
  BY <1>3, <1>4, <1>5 DEF StageInv

\* After a power loss everybody is down.
LEMMA LosePowerInv ==
  ASSUME LedgerInv, StageInv, LosePower
  PROVE  StageInv'
<1>1. TypeOK /\ PayTypeOK
  BY DEF LedgerInv, StageInv
<1>2. /\ stage' = [c \in Client |-> "down"]
      /\ outcome' = [c \in Client |-> "none"]
      /\ DOMAIN result' = Client
      /\ marker' \subseteq marker /\ connected' = {}
      /\ pc' = [c \in Client |-> "down"]
      /\ call' = [c \in Client |-> None]
      /\ handle' = [c \in Client |-> None]
      /\ reverted' \in BOOLEAN
      /\ UNCHANGED <<boot, sent>>
  BY <1>1 DEF LosePower, PowerLoss, PayTypeOK
<1>3. PayTypeOK'
  BY <1>1, <1>2 DEF PayTypeOK, Stages, Outcomes
<1>4. \A c \in Client : StageAgrees(c)' /\ SentAgrees(c)'
  BY <1>2 DEF StageAgrees, SentAgrees, Paid, Reserving, Early
<1>5. OwnersAreExclusive'
  BY <1>2 DEF OwnersAreExclusive, Owns
<1> QED
  BY <1>3, <1>4, <1>5 DEF StageInv

\* Nothing changes when the day does.
LEMMA DayPassesInv ==
  ASSUME LedgerInv, StageInv, DayPasses \/ UNCHANGED vars
  PROVE  StageInv'
<1>1. /\ PayTypeOK /\ OwnersAreExclusive
      /\ \A b \in Client : StageAgrees(b) /\ SentAgrees(b)
  BY DEF StageInv
<1>2. UNCHANGED <<pc, boot, call, handle, stage, outcome, result, marker,
                  connected, sent, reverted>>
  BY DEF DayPasses, Midnight, payVars, vars
<1>3. PayTypeOK' /\ OwnersAreExclusive'
  BY <1>1, <1>2 DEF PayTypeOK, OwnersAreExclusive, Owns
<1>4. \A c \in Client : StageAgrees(c)' /\ SentAgrees(c)'
  BY <1>1, <1>2 DEF StageAgrees, IsPending, SentAgrees, Paid, Attempt
<1> QED
  BY <1>3, <1>4 DEF StageInv

\* Every step of a client's command keeps the invariant.
LEMMA StepInv ==
  ASSUME LedgerInv, StageInv, NEW c \in Client, Step(c)
  PROVE  StageInv'
BY StartInv, RejectInv, BeginReserveInv, LockInv, ReservedInv, NotReservedInv,
   ConstructInv, ConstructFailsInv, NotSubmittedInv, ReadyInv, SubmitInv,
   AnswerInv, DisconnectInv, VerifyInv, SaveInv, BeginFinishInv,
   SettledInv, UndoneInv, NotFinishedInv, DieInv
   DEF Step

\* So does every other step.
LEMMA PayNextInv ==
  ASSUME LedgerInv, StageInv, [Next]_vars
  PROVE  StageInv'
BY StepInv, ClearMarkerInv, ResolveInv, DayPassesInv, LosePowerInv DEF Next

\* At first nobody runs.
LEMMA InitStageInv == Init => LedgerInv /\ StageInv
<1> SUFFICES ASSUME Init PROVE LedgerInv /\ StageInv
  OBVIOUS
<1>1. LedgerInv
  BY InitLedgerInv DEF Init
<1>2. PayTypeOK
  BY FS_EmptySet DEF Init, PayInit, PayTypeOK, Stages, Outcomes
<1>3. \A c \in Client : StageAgrees(c) /\ SentAgrees(c)
  BY DEF Init, PayInit, LedgerInit, StageAgrees, SentAgrees, Paid, Reserving,
         Early
<1>4. OwnersAreExclusive
  BY DEF Init, PayInit, OwnersAreExclusive, Owns
<1> QED
  BY <1>1, <1>2, <1>3, <1>4 DEF StageInv

\* What a process does, what its ledger operation, handle and payment are and
\* which wallets are owned always agree.
THEOREM StageInvariant == Spec => [](LedgerInv /\ StageInv)
<1>1. LedgerInv /\ StageInv /\ [Next]_vars => (LedgerInv /\ StageInv)'
  BY LedgerNextInv, PayStepIsLedgerStep, PayNextInv
<1> QED
  BY <1>1, InitStageInv, PTL DEF Spec

\* Payments use the ledger as its own specification allows, so all that is
\* proved of LedgerSpec holds while they are made.
THEOREM PaymentsUseLedger == Spec => LedgerSpec
<1>1. Init => LedgerInit
  BY DEF Init
<1>2. [Next]_vars => [LedgerNext]_ledgerVars
  BY PayStepIsLedgerStep
<1> QED
  BY <1>1, <1>2, PTL DEF Spec, LedgerSpec

\* However constructions, failed disconnects, crashes and removals of left
\* markers interleave, no two payers are connected to one wallet, and a
\* connected wallet keeps its marker (breez.rs:34-48, 194-207, 433-442).
THEOREM WalletsHaveOneOwner == Spec => []WalletIsExclusive
<1>1. StageInv => WalletIsExclusive
  BY DEF StageInv, PayTypeOK, OwnersAreExclusive, Owns, WalletIsExclusive
<1> QED
  BY <1>1, StageInvariant, PTL
-----------------------------------------------------------------------------
(* What the commands report.                                               *)

\* Only a step of its own makes a client report.
LEMMA OwnReports ==
  ASSUME StageInv, [Next]_vars, NEW c \in Client, Reports(c)
  PROVE  \/ Reject(c) \/ Reserved(c) \/ NotReserved(c) \/ ConstructFails(c)
         \/ Disconnect(c) \/ Verify(c) \/ Save(c)
         \/ Settled(c) \/ Undone(c) \/ NotFinished(c)
<1>1. stage[c] # "done" /\ stage'[c] = "done" /\ PayTypeOK
  BY DEF Reports, StageInv
<1>2. PICK b \in Client : Step(b)
  BY <1>1
     DEF Next, ClearMarker, Resolve, DayPasses, LosePower, payVars, vars
<1>3. b = c
  BY <1>1, <1>2
     DEF PayTypeOK, Step, Start, Reject, BeginReserve, Lock, Reserved,
         NotReserved, Construct, ConstructFails, NotSubmitted, Ready, Submit,
         Answer, Disconnect, Verify, Save, BeginFinish, Settled, Undone,
         NotFinished, Die, Goto, Done, ReportCommit, ReportRollback, payVars
<1> QED
  BY <1>1, <1>2, <1>3
     DEF PayTypeOK, Step, Start, BeginReserve, Lock, Construct, NotSubmitted,
         Ready, Submit, Answer, BeginFinish, Die, Goto, payVars

\* The command's report, as Done leaves it.
LEMMA DoneReport ==
  ASSUME StageInv, NEW c \in Client, NEW error, NEW paid, NEW retained,
         Done(c, error, paid, retained)
  PROVE  /\ result'[c].error = error /\ result'[c].paid = paid
         /\ result'[c].retained = retained
BY DEF StageInv, PayTypeOK, Done

\* A command whose commit ended as w says so.
LEMMA CommitReport ==
  ASSUME StageInv, NEW c \in Client, stage[c] = "settling",
         NEW w \in WriteOutcome, ReportCommit(c, w)
  PROVE  LET r == result'[c] IN
         /\ r.retained <=> w = "NotApplied"
         /\ r.paid \/ r.error = "SubmissionUnknown"
         /\ r.error = "none" =>
              w # "NotApplied" /\ Paid(c)
<1>1. ASSUME NEW error, NEW paid \in BOOLEAN,
             Done(c, error, paid, w = "NotApplied"),
             paid \/ error = "SubmissionUnknown",
             error = "none" => w # "NotApplied" /\ Paid(c)
      PROVE  LET r == result'[c] IN
             /\ r.retained <=> w = "NotApplied"
             /\ r.paid \/ r.error = "SubmissionUnknown"
             /\ r.error = "none" => w # "NotApplied" /\ Paid(c)
  <2>1. /\ result'[c].error = error /\ result'[c].paid = paid
        /\ result'[c].retained = (w = "NotApplied")
    BY <1>1, DoneReport
  <2> QED
    BY <1>1, <2>1
<1>2. CASE c \in Requester
  <2> DEFINE e == IF w # "AppliedDurably" THEN "Commit" ELSE AfterCommit(c)
  <2>1. Done(c, e, TRUE, w = "NotApplied")
    BY <1>2 DEF ReportCommit
  <2>2. e = "none" => w # "NotApplied" /\ Paid(c)
    BY <1>2 DEF Paid
  <2> HIDE DEF e
  <2> QED
    BY <1>1, <2>1, <2>2
<1>3. CASE c \notin Requester /\ outcome[c] = "SubmittedUnknown"
  <2>1. Done(c, "SubmissionUnknown", FALSE, w = "NotApplied")
    BY <1>3 DEF ReportCommit
  <2> QED
    BY <1>1, <2>1
<1>4. CASE c \notin Requester /\ outcome[c] # "SubmittedUnknown"
  <2>1. PICK e \in {"Proof", IF w = "NotApplied" THEN "Commit"
                            ELSE AfterCommit(c)} :
          Done(c, e, TRUE, w = "NotApplied")
    BY <1>4 DEF ReportCommit
  <2>2. e = "none" => w # "NotApplied" /\ Paid(c)
    BY <1>4, <2>1 DEF Paid
  <2> QED
    BY <1>1, <2>1, <2>2
<1> QED
  BY <1>2, <1>3, <1>4

\* A command whose rollback ended as w says so.
LEMMA RollbackReport ==
  ASSUME StageInv, NEW c \in Client, NEW w \in WriteOutcome,
         ReportRollback(c, w)
  PROVE  LET r == result'[c] IN
         /\ r.retained <=> w = "NotApplied"
         /\ r.error # "none"
<1>1. PICK error \in {"Payer", "Rollback"} :
        Done(c, error, FALSE, w = "NotApplied")
  BY DEF ReportRollback, WriteOutcome
<1>2. /\ result'[c].error = error
      /\ result'[c].retained = (w = "NotApplied")
  BY <1>1, DoneReport
<1> QED
  BY <1>1, <1>2

\* No command calls a payment failed that may still move money.
LEMMA StepTellsFate ==
  ASSUME StageInv, [Next]_vars, NEW c \in Client
  PROVE  TellsFate(c)
<1> DEFINE k == Attempt(c)
           r == result'[c]
<1> SUFFICES ASSUME Reports(c), k \in DOMAIN sent
             PROVE  /\ \/ r.paid \/ r.retained \/ r.error = "SubmissionUnknown"
                       \/ sent'[k].fate = "failed"
                    /\ r.error = "none" =>
                         sent'[k].fate = "settled" /\ sent'[k].closed
  BY DEF TellsFate
<1>1. SentAgrees(c) /\ StageAgrees(c) /\ PayTypeOK
  BY DEF StageInv
<1>2. stage[c] \notin Early
  BY <1>1 DEF SentAgrees
<1>3. CASE Disconnect(c)
  <2>1. stage'[c] = AfterPay(c) /\ stage'[c] = "done"
    BY <1>1, <1>3 DEF Reports, Disconnect, Goto, PayTypeOK
  <2>2. r = [error |-> "SubmissionUnknown", paid |-> FALSE, retained |-> TRUE]
    BY <1>1, <1>3, <2>1 DEF Disconnect, PayTypeOK
  <2> QED
    BY <2>2
<1>4. CASE Verify(c) \/ Save(c)
  <2>1. PICK error \in {"Proof", "Credential", "CredentialState"},
             paid \in BOOLEAN : Done(c, error, paid, TRUE)
    BY <1>1, <1>4 DEF Reports, Verify, Save, Goto, PayTypeOK
  <2>2. r.error = error /\ r.retained = TRUE
    BY <2>1, DoneReport
  <2> QED
    BY <2>2
<1>5. CASE Settled(c)
  <2>1. PICK w \in WriteOutcome :
          /\ ReportCommit(c, w)
          /\ w # "NotApplied" => sent' = [sent EXCEPT ![k].closed = TRUE]
    BY <1>5 DEF Settled
  <2>2. stage[c] = "settling"
    BY <1>5 DEF Settled
  <2>3. /\ r.paid \/ r.error = "SubmissionUnknown"
        /\ r.error = "none" => w # "NotApplied" /\ Paid(c)
    BY <2>1, <2>2, CommitReport
  <2>4. sent[k] \in Payment
    BY <1>1 DEF PayTypeOK
  <2> QED
    BY <1>1, <2>1, <2>3, <2>4 DEF SentAgrees, Payment
<1>6. CASE Undone(c)
  <2>1. PICK w \in WriteOutcome : ReportRollback(c, w)
    BY <1>6 DEF Undone
  <2>2. r.error # "none"
    BY <2>1, RollbackReport
  <2>3. sent'[k].fate = "failed"
    BY <1>1, <1>6 DEF Undone, SentAgrees
  <2> QED
    BY <2>2, <2>3
<1>7. CASE NotFinished(c)
  <2>1. CASE stage[c] = "settling" /\ ReportCommit(c, "NotApplied")
    BY <2>1, CommitReport DEF WriteOutcome
  <2>2. CASE stage[c] = "undoing" /\ ReportRollback(c, "NotApplied")
    BY <2>2, RollbackReport DEF WriteOutcome
  <2> QED
    BY <1>7, <2>1, <2>2 DEF NotFinished
<1> QED
  BY <1>2, <1>3, <1>4, <1>5, <1>6, <1>7, OwnReports
     DEF Reject, Reserved, NotReserved, ConstructFails, Goto, Early

\* A command that reports neither a payment nor a retained reservation may be
\* tried again, and one that reports success has paid and committed, whatever
\* answers, failed disconnects and failed writes it met
\* (orchestrator.rs:254-300, backend.rs:226-298).
THEOREM ReportsTellTheFate == Spec => ReportsAreFinal
<1>1. StageInv /\ [Next]_vars => \A c \in Client : TellsFate(c)
  BY StepTellsFate
<1>2. StageInv /\ [Next]_vars => [\A c \in Client : TellsFate(c)]_vars
  BY <1>1
<1> QED
  BY <1>2, StageInvariant, PTL DEF Spec, ReportsAreFinal

\* The reservation that a request's handle stands for is in the ledger until
\* its own commit or rollback is written.
LEMMA RequestHolds ==
  ASSUME LedgerInv, StageInv, NEW c \in Requester, stage[c] \in Reserving
  PROVE  /\ IsPending(c) /\ handle[c] \in Reservation
         /\ handle[c].id \in DOMAIN file[handle[c].day].held
<1>1. c \in Client /\ GuardOf[c] \in Guard
  BY TransactionAssumption
<1>2. TypeOK /\ GuardsAreExclusive /\ StageAgrees(c)
  BY <1>1 DEF LedgerInv, StageInv
<1>3. IsPending(c) /\ handle[c].id = GuardOf[c]
  BY <1>1, <1>2 DEF StageAgrees, IsPending
<1>4. handle[c] \in Reservation
  BY <1>1, <1>2, <1>3 DEF TypeOK, IsPending
<1> QED
  BY <1>1, <1>2, <1>3, <1>4 DEF GuardsAreExclusive, HoldsGuard

\* The write of a commit or a rollback takes the reservation out of the ledger.
LEMMA FinishLeaves ==
  ASSUME LedgerInv, NEW c \in Client, NEW w \in WriteOutcome, FinishWrite(c, w)
  PROVE  handle[c].id \in DOMAIN file'[handle[c].day].held
           <=> w = "NotApplied"
<1> DEFINE h == handle[c]
           commit == call[c].kind = "commit"
           t == Finished(file, h.id, h.day, commit)
<1>1. TypeOK /\ CallsAgree /\ CopiesAreCurrent
  BY DEF LedgerInv
<1>2. /\ snap[c] = file /\ IsFinish(c)
      /\ call[c].id = h.id /\ call[c].day = h.day
      /\ h \in Reservation
  BY <1>1 DEF FinishWrite, CopiesAreCurrent, CallsAgree, IsPending, TypeOK
<1>3. h.id \in DOMAIN file[h.day].held
  BY <1>2 DEF FinishWrite
<1>4. file' = IF w = "NotApplied" THEN file ELSE t
  BY <1>2 DEF FinishWrite, write_classified
<1>5. h.id \in Id /\ h.day \in Day /\ commit \in BOOLEAN
  BY <1>2 DEF Reservation
<1>6. h.id \notin DOMAIN t[h.day].held
  <2>1. IsLedger(file)
    BY <1>1 DEF TypeOK
  <2> HIDE DEF h, commit
  <2>2. DOMAIN t[h.day].held = DOMAIN file[h.day].held \ {h.id}
    BY <1>5, <2>1, HeldFinished
  <2> QED
    BY <2>2
<1> HIDE DEF t
<1> QED
  BY <1>3, <1>4, <1>6

\* No request reports its reservation wrongly.
LEMMA StepTellsRetained ==
  ASSUME LedgerInv, StageInv, [Next]_vars, NEW c \in Requester
  PROVE  TellsRetained(c)
<1> DEFINE r == result'[c]
           h == handle[c]
           k == call[c]
<1> SUFFICES ASSUME Reports(c)
             PROVE  /\ h # None =>
                         (r.retained <=> h.id \in DOMAIN file'[h.day].held)
                    /\ h = None /\ r.retained =>
                         k.id \in DOMAIN file'[k.day].held
  BY DEF TellsRetained
<1>1. c \in Client
  BY TransactionAssumption
<1>2. StageAgrees(c) /\ PayTypeOK /\ CopiesAreCurrent /\ CallsAgree
  BY <1>1 DEF StageInv, LedgerInv
<1>3. stage[c] \in Reserving => h # None /\ h.id \in DOMAIN file[h.day].held
  BY RequestHolds DEF IsPending
<1>4. CASE Reject(c) \/ ConstructFails(c)
  <2>1. h = None
    BY <1>1, <1>2, <1>4
       DEF Reject, ConstructFails, StageAgrees, Reports, Goto, PayTypeOK
  <2>2. r.retained = FALSE
    BY <1>1, <1>4, DoneReport
       DEF Reject, ConstructFails, Reports, Goto, StageInv, PayTypeOK
  <2> QED
    BY <2>1, <2>2
<1>5. CASE Reserved(c)
  <2>1. h = None
    BY <1>1, <1>2, <1>5 DEF Reserved, StageAgrees
  <2>2. Done(c, "Reservation", FALSE, FALSE)
    BY <1>1, <1>2, <1>5 DEF Reserved, Reports, Goto, PayTypeOK
  <2> QED
    BY <1>1, <2>1, <2>2, DoneReport
<1>6. CASE NotReserved(c)
  <2>1. h = None
    BY <1>1, <1>2, <1>6 DEF NotReserved, StageAgrees
  <2>2. CASE ReserveDuplicate(c)
    BY <1>1, <1>2, <2>1, <2>2
       DEF ReserveDuplicate, Duplicate, Refuse, CopiesAreCurrent
  <2>3. CASE ~ReserveDuplicate(c)
    <3>1. \/ Done(c, "ReservationBudget", FALSE, FALSE)
          \/ Done(c, "Reservation", FALSE, FALSE)
      BY <1>6, <2>3 DEF NotReserved
    <3> QED
      BY <1>1, <2>1, <3>1, DoneReport
  <2> QED
    BY <2>2, <2>3
<1>7. CASE Disconnect(c)
  <2>1. stage'[c] = AfterPay(c) /\ stage'[c] = "done"
    BY <1>1, <1>2, <1>7 DEF Reports, Disconnect, Goto, PayTypeOK
  <2>2. r = [error |-> "SubmissionUnknown", paid |-> FALSE, retained |-> TRUE]
    BY <1>1, <1>2, <1>7, <2>1 DEF Disconnect, PayTypeOK
  <2>3. stage[c] \in Reserving /\ file' = file
    BY <1>7 DEF Disconnect, Goto, Reserving, ledgerVars
  <2> QED
    BY <1>3, <2>2, <2>3
<1>8. CASE Verify(c) \/ Save(c)
  <2>1. PICK error \in {"Proof", "Credential", "CredentialState"},
             paid \in BOOLEAN : Done(c, error, paid, TRUE)
    BY <1>1, <1>2, <1>8 DEF Reports, Verify, Save, Goto, PayTypeOK
  <2>2. r.retained = TRUE
    BY <1>1, <2>1, DoneReport
  <2>3. stage[c] \in Reserving /\ file' = file
    BY <1>8 DEF Verify, Save, Reserving, ledgerVars
  <2> QED
    BY <1>3, <2>2, <2>3
<1>9. CASE Settled(c) \/ Undone(c)
  <2>1. PICK w \in WriteOutcome :
          /\ FinishWrite(c, w)
          /\ \/ stage[c] = "settling" /\ ReportCommit(c, w)
             \/ stage[c] = "undoing" /\ ReportRollback(c, w)
    BY <1>9 DEF Settled, Undone
  <2>2. r.retained <=> w = "NotApplied"
    BY <1>1, <2>1, CommitReport, RollbackReport
  <2>3. h.id \in DOMAIN file'[h.day].held <=> w = "NotApplied"
    BY <1>1, <2>1, FinishLeaves
  <2>4. h # None
    BY <1>3, <2>1 DEF Reserving
  <2> QED
    BY <2>2, <2>3, <2>4
<1>10. CASE NotFinished(c)
  <2>1. \/ stage[c] = "settling" /\ ReportCommit(c, "NotApplied")
        \/ stage[c] = "undoing" /\ ReportRollback(c, "NotApplied")
    BY <1>10 DEF NotFinished
  <2>2. r.retained <=> TRUE
    BY <1>1, <2>1, CommitReport, RollbackReport DEF WriteOutcome
  <2>3. stage[c] \in Reserving /\ file' = file
    BY <1>10, <2>1
       DEF NotFinished, AccessFails, FinishMissing, Refuse, Reserving
  <2> QED
    BY <1>3, <2>2, <2>3
<1> QED
  BY <1>1, <1>4, <1>5, <1>6, <1>7, <1>8, <1>9, <1>10, OwnReports

\* `request` says its reservation is retained exactly when the ledger still
\* holds it, and someone else's only when it is there, whatever write failed
\* or went unsynced (orchestrator.rs:216-232, 303-316, request.rs:410-428).
THEOREM RetentionIsReported == Spec => RetainedIsReported
<1>1. LedgerInv /\ StageInv /\ [Next]_vars
        => \A c \in Requester : TellsRetained(c)
  BY StepTellsRetained
<1>2. LedgerInv /\ StageInv /\ [Next]_vars
        => [\A c \in Requester : TellsRetained(c)]_vars
  BY <1>1
<1> QED
  BY <1>2, StageInvariant, PTL DEF Spec, RetainedIsReported
=============================================================================
