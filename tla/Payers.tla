------------------------------- MODULE Payers -------------------------------
(* How the payers of the Python client turn what a wallet answers into a    *)
(* verified payment or a failure (paygate_client/payers/*.py). A payment    *)
(* result is trusted only when its preimage hashes to the challenge.        *)
EXTENDS Challenges

Result(amount, fee, hash, preimage) ==
  [scheme |-> "result", amount |-> amount, fee |-> fee, hash |-> hash, preimage |-> preimage]

(* ------------------------------ LND over REST --------------------------- *)

\* An answer is an error of the transport, an HTTP error, or lines of updates;
\* an update that is no JSON object is Garbled.
Garbled == [status |-> "garbled", preimage |-> None, hash |-> None, amount |-> 0, fee |-> 0]

LndUpdate(status, preimage, hash, amount) ==
  [status |-> status, preimage |-> preimage, hash |-> hash, amount |-> amount, fee |-> 0]

TerminalAny(update) == TRUE               \* mutant: the first update decides
Terminal(update) == update.status \in {"SUCCEEDED", "FAILED", "garbled"}

\* What an update that decides comes to.
Decided(update) ==
  CASE update.status = "garbled" -> Error("malformed")
    [] update.status = "FAILED" -> Error("rejected")
    [] OTHER ->
         IF update.preimage = None THEN Error("missing preimage")
         ELSE IF update.amount = None THEN Error("malformed")
         ELSE Result(update.amount, update.fee, update.hash, update.preimage)

\* The updates are read until the first that decides.
LndResult(updates) ==
  LET deciding == SelectSeq(updates, Terminal)
  IN  IF updates = <<>> THEN Error("malformed")
      ELSE IF deciding = <<>> THEN Error("timeout") ELSE Decided(deciding[1])

LndPay(challenge, maxFee, answer) ==
  IF answer.transport # "ok" THEN Error(answer.transport) ELSE LndResult(answer.updates)

(* -------------------------------- Phoenixd ------------------------------ *)

PhoenixdPay(challenge, maxFee, answer) ==
  IF answer.transport # "ok" THEN Error(answer.transport)
  ELSE IF answer.type = "payment_failed" THEN Error("rejected")
  ELSE IF answer.type \notin {"payment_sent", "untyped"} THEN Error("malformed")
  ELSE IF answer.amount = None \/ answer.fee = None THEN Error("malformed")
  ELSE Result(answer.amount, answer.fee, answer.hash, answer.preimage)

(* --------------------------------- Breez -------------------------------- *)

\* The SDK quotes a fee before it sends, and reports one afterwards.
BreezPay(challenge, maxFee, answer) ==
  IF answer.transport # "ok" THEN Error(answer.transport)
  ELSE IF answer.quoted = None THEN Error("malformed")
  ELSE IF answer.quoted > maxFee THEN Error("fee limit")
  ELSE IF answer.fee = None THEN Error("malformed")
  ELSE IF answer.fee > maxFee THEN Error("fee limit")
  ELSE IF answer.amount = None THEN Error("malformed")
  ELSE IF answer.preimage = None THEN Error("missing preimage")
  ELSE Result(answer.amount, answer.fee, answer.hash, answer.preimage)

TestModePay(challenge, maxFee, answer) ==
  IF challenge.preimage = None THEN Error("missing preimage")
  ELSE Result(challenge.amount, 0, HashOf[challenge.preimage], challenge.preimage)

(* ------------------------------ verification ---------------------------- *)

VerifyUnbound(challenge, raw) ==          \* mutant: the wallet's hash is believed
  IF raw.preimage = None THEN Error("missing preimage")
  ELSE IF ~IsPreimage(raw.preimage) \/ challenge.hash = None \/ raw.amount < 0 \/ raw.fee < 0
    THEN Error("unverified")
  ELSE [raw EXCEPT !.hash = FirstOf(@, HashOf[raw.preimage])]

\* The preimage must hash to the hash of the challenge, and the hash that the
\* wallet reports, if any, must be the same.
Verify(challenge, raw) ==
  IF raw.preimage = None THEN Error("missing preimage")
  ELSE IF \/ ~IsPreimage(raw.preimage) \/ challenge.hash = None
          \/ HashOf[raw.preimage] # challenge.hash
          \/ raw.hash \notin {None, challenge.hash}
          \/ raw.amount < 0 \/ raw.fee < 0
    THEN Error("unverified")
  ELSE [raw EXCEPT !.hash = challenge.hash]

Answered(backend, challenge, maxFee, answer) ==
  CASE backend = "lnd-rest"  -> LndPay(challenge, maxFee, answer)
    [] backend = "phoenixd"  -> PhoenixdPay(challenge, maxFee, answer)
    [] backend = "breez"     -> BreezPay(challenge, maxFee, answer)
    [] backend = "test-mode" -> TestModePay(challenge, maxFee, answer)

Checked(challenge, raw) == IF IsError(raw) THEN raw ELSE Verify(challenge, raw)

\* A payer is asked only for a challenge with a hash and within a fee limit it
\* can enforce.
PayWith(backend, challenge, maxFee, answer) ==
  IF maxFee < 0 \/ challenge.hash = None THEN Error("unverified")
  ELSE Checked(challenge, Answered(backend, challenge, maxFee, answer))

\* The orchestrator takes the preimage of a test challenge instead of paying.
Pay(backend, challenge, maxFee, answer) ==
  IF challenge.preimage # None
    THEN Verify(challenge, Result(challenge.amount, 0, challenge.hash, challenge.preimage))
  ELSE PayWith(backend, challenge, maxFee, answer)
=============================================================================
