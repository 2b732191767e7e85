--------------------------- MODULE MCLegacyClient ---------------------------
(* The Python client against a server whose 402 responses are read by the   *)
(* operators of Challenges, and a wallet whose answers are read by those of *)
(* Payers, on a few texts that hold the cases these tell apart.             *)
EXTENDS LegacyClient, Payers

Run(noPay, refresh, singleUse) ==
  [command |-> "request", noPay |-> noPay, refresh |-> refresh, singleUse |-> singleUse]
MCOption == {Run(FALSE, FALSE, FALSE), Run(FALSE, TRUE, TRUE), Run(TRUE, FALSE, FALSE),
             [command |-> "purge", noPay |-> FALSE, refresh |-> FALSE, singleUse |-> FALSE]}

(* --------------------------------- texts -------------------------------- *)

Quoted(value) == <<Quote>> \o value \o <<Quote>>
Pair(key, value) == <<key, "=">> \o value
Listed(parts) == FoldLeft(LAMBDA text, part : text \o <<",", " ">> \o part, parts[1], Tail(parts))

\* "p" says payment hash, "q" "z" two words; "q" "u" are those of the byte 7.
Charset == [c \in {"q", "p", "z", "u"} |->
              CASE c = "q" -> 0 [] c = "p" -> 1 [] c = "z" -> 2 [] c = "u" -> 28]
Zeroes(n) == [i \in 1..n |-> "q"]
InvoiceOf(amount) ==
  <<"l", "n", "b", "c">> \o amount \o <<"1">> \o Zeroes(7) \o <<"p", "q", "z", "q", "u">> \o Zeroes(6)
HashIn(invoice) ==
  PaymentHash([i \in 1..18 |-> Charset[invoice[Len(invoice) - 18 + i]]], 2)

MCHashOf == (<<"p7">> :> <<7>>) @@ (<<"p8">> :> <<8>>)
MCNumeral == (<<"0">> :> 0) @@ (<<"1">> :> 1) @@ (<<"2">> :> 2)
MCMoment == <<"tomorrow">> :> 2

Member(key, value) == [key |-> key, value |-> value]
Asked(amount, invoice, hash) ==
  Object(<<Member("invoice", Text(invoice)), Member("amountSats", Int32(amount)),
           Member("methodDetails", Object(<<Member("paymentHash", Text(hash))>>))>>)

\* Invoices of 1, 2 and 5 satoshi; the hash in each of them is 7.
Small == InvoiceOf(<<"1", "0", "n">>)
Medium == InvoiceOf(<<"2", "0", "n">>)
Large == InvoiceOf(<<"5", "0", "n">>)
MCPayloads == (<<"one">> :> Asked(1, Small, <<7>>)) @@ (<<"two">> :> Asked(2, Medium, <<8>>))
                @@ (<<"dear">> :> Asked(1, Large, <<8>>))

Payment(params) == <<"payment", " ">> \o Listed(params)
L402(token) ==
  <<"l402", " ">> \o Listed(<<Pair("token", Quoted(token)),
                             Pair("invoice", Quoted(Small))>>)

\* A realm that holds a quote, and behind it what looks like another challenge.
Realm == <<"a", Escape, Quote, ",", "l402", " ", "b">>
RealmRead == <<"a", Quote, ",", "l402", " ", "b">>

Paying == Payment(<<Pair("request", Quoted(<<"one">>)), Pair("realm", Quoted(Realm)),
                    Pair("expires", <<"2">>)>>)
Testing == Payment(<<Pair("request", <<"two">>), Pair("expires", <<"tomorrow">>)>>)
\* It declares an amount and a hash that are not those of its invoice.
Dearer == Payment(<<Pair("request", <<"dear">>), Pair("expires", <<"2">>)>>)
Elsewhere == Payment(<<Pair("request", <<"one">>), Pair("realm", <<"other">>)>>)

MCResponse == {"paying", "testing", "colon", "dearer", "elsewhere"}
Headers == [paying |-> <<Listed(<<L402(<<"t">>), Paying>>)>>, testing |-> <<Testing>>,
            colon |-> <<<<"basic", " ", "x">>, L402(<<"t", ":">>)>>,
            dearer |-> <<Dearer>>, elsewhere |-> <<Elsewhere>>]
Body == [r \in MCResponse |->
           IF r = "testing" THEN Object(<<Member("test_preimage", Text(<<"p8">>))>>) ELSE None]

Config(preferred) == [l402 |-> TRUE, preferred |-> preferred]

Unreadable == [readable |-> FALSE, amount |-> 0, price |-> 0, test |-> FALSE, service |-> <<>>,
               protocol |-> "none", expires |-> 0, writable |-> FALSE]
Offered(amount, price, test, service, protocol, expires, writable) ==
  [readable |-> TRUE, amount |-> amount, price |-> price, test |-> test, service |-> service,
   protocol |-> protocol, expires |-> expires, writable |-> writable]

\* RunOffersAreRead checks that this is what the client reads.
MCOffer == [paying |-> <<Offered(1, 1, FALSE, RealmRead, "Payment", 2, TRUE),
                         Offered(1, 1, FALSE, <<>>, "L402", 0, TRUE)>>,
            testing |-> <<Offered(2, 2, TRUE, <<>>, "Payment", 2, TRUE), Unreadable>>,
            colon |-> <<Offered(1, 1, FALSE, <<>>, "L402", 0, FALSE), Offered(1, 1, FALSE, <<>>, "L402", 0, FALSE)>>,
            dearer |-> <<Offered(1, 5, FALSE, <<>>, "Payment", 2, TRUE), Unreadable>>,
            elsewhere |-> <<Offered(1, 1, FALSE, <<"other">>, "Payment", 0, TRUE),
                            Offered(1, 1, FALSE, <<"other">>, "Payment", 0, TRUE)>>]

MCService == {RealmRead}

\* The processes are alike.
MCSymmetry == Permutations(Client)

(* -------------------------------- wallets ------------------------------- *)

Updates(updates) == [transport |-> "ok", updates |-> updates]
InFlight == LndUpdate("IN_FLIGHT", None, None, 0)
Answers == <<Updates(<<InFlight, LndUpdate("SUCCEEDED", <<"p7">>, None, 1)>>),
             Updates(<<LndUpdate("SUCCEEDED", <<"p8">>, None, 1)>>),
             Updates(<<LndUpdate("SUCCEEDED", None, None, 1)>>), Updates(<<InFlight>>)>>
MCAnswer == 1 .. 4

MaxFee == 1

Failure(kind) == CASE kind = "missing preimage" -> "missing_preimage"
                   [] kind = "unverified" -> "preimage_verification_failed"
                   [] OTHER -> "payer_failure"

\* RunOutcomesAreProved checks that this is what the client makes of the answers.
MCOutcome ==
  [paying |-> <<"verified", "preimage_verification_failed", "missing_preimage", "payer_failure">>,
   testing |-> <<"verified", "verified", "verified", "verified">>,
   colon |-> <<"verified", "preimage_verification_failed", "missing_preimage", "payer_failure">>,
   dearer |-> <<"preimage_verification_failed", "verified", "missing_preimage", "payer_failure">>,
   elsewhere |-> <<"verified", "preimage_verification_failed", "missing_preimage", "payer_failure">>]

(* ------------------------------ properties ------------------------------ *)
(* Properties of pure operators are evaluated once, in the initial state.   *)

AtStart == now = 1 /\ ring /\ \A p \in Client : todo[p] = Start

\* What the client may pay for a response, or an error.
PayableOf(challenge, body) ==
  IF IsError(challenge) THEN challenge
  ELSE ToPayable(challenge, body, AmountSats(challenge.invoice), HashIn(challenge.invoice))
Payable(r, t) == PayableOf(ParseChallenges(Headers[r], Config("Payment"), t), Body[r])

OfferOf(payable) ==
  IF IsError(payable) THEN Unreadable
  ELSE [readable |-> TRUE, amount |-> payable.amount,
        price |-> FirstOf(AmountSats(payable.invoice), payable.amount), test |-> payable.preimage # None,
        service |-> IF payable.service = None THEN <<>> ELSE payable.service,
        protocol |-> payable.scheme,
        expires |-> IF payable.expires = Never THEN 0 ELSE payable.expires,
        writable |-> ~IsError(BuildAuthorization(payable, <<"p7">>))]

\* The offers that the requests of this run answer are those read from the headers
\* and bodies of the responses, at each time; their price is what the invoice that
\* is submitted asks, or the amount that goes with an invoice that asks none.
RunOffersAreRead ==
  AtStart => \A r \in MCResponse, t \in Day : MCOffer[r][t] = OfferOf(Payable(r, t))

OutcomeOf(result) == IF IsError(result) THEN Failure(result.kind) ELSE "verified"

\* The outcomes of its payments are those of the wallet's answers.
RunOutcomesAreProved ==
  AtStart => \A r \in MCResponse, a \in MCAnswer :
    MCOutcome[r][a] = OutcomeOf(Pay("lnd-rest", Payable(r, 1), MaxFee, Answers[a]))

\* Challenges that are put into one header, with quotes, commas and names of
\* schemes inside their values, are the challenges that are read from it.
ChallengesAreSplit ==
  AtStart => \A a, b \in {Paying, Testing, L402(<<"t">>), L402(<<"t", ",">>)} :
    SplitChallenges(Listed(<<a, b>>)) = <<a, b>>

\* A quoted value is read as it was before it was escaped, and a key that is
\* repeated keeps its last value.
ParametersAreRead ==
  AtStart => \A value \in SeqOf({"a", Quote, Escape, ",", " "}, 3) :
    LET escaped == FlattenSeq([i \in DOMAIN value |->
                     IF value[i] \in {Quote, Escape} THEN <<Escape, value[i]>> ELSE <<value[i]>>])
    IN  AuthParams(Listed(<<Pair("realm", <<"x">>), Pair("realm", Quoted(escaped)),
                            Pair("id", <<"y">>)>>))
          = (<<"realm">> :> value) @@ (<<"id">> :> <<"y">>)

\* The preferred protocol is chosen wherever the header it stands in, and the
\* other one if it is the only one that can be read.
PreferredIsChosen ==
  AtStart => \A preferred \in {"Payment", "L402"} :
    \A headers \in {<<Paying, L402(<<"t">>)>>, <<L402(<<"t">>), Paying>>,
                    <<Listed(<<Paying, L402(<<"t">>)>>)>>} :
      /\ ParseChallenges(headers, Config(preferred), 1).scheme = preferred
      /\ ParseChallenges(headers, Config(preferred), 2).scheme = "L402"

\* No digits of an invoice make the client reserve less than it will pay. This holds
\* of L402 challenges: what it reserves for a Payment challenge is not read there.
AmountsAreCovered ==
  AtStart => \A digits \in SeqOf({"0", "1", "2", "5"}, 2) \ {<<>>}, suffix \in {<<"m">>, <<"u">>, <<"n">>, <<"p">>} :
    AmountIsCovered(<<"b", "c">>, digits, suffix, <<"q">>)

\* The hash that is read from an invoice is the one written into it. A proof of
\* payment is held against it when the challenge is an L402 challenge.
HashesAreFound ==
  AtStart => \A other \in {<<>>, <<13, 0, 2, 1, 1>>, <<1, 0, 1, 5>>}, a, b \in {0, 7, 255} :
    HashIsFound(other, <<a, b>>)

\* The hash of the invoice of an L402 challenge; a Payment challenge names one in its
\* methodDetails, which nothing compares with its invoice.
HashToProve(payable) ==
  IF payable.scheme = "L402" THEN HashIn(payable.invoice) ELSE payable.hash

IsProof(result, hash) == IsError(result) \/ MCHashOf[result.preimage] = hash
Proves(backend, answer, payable) ==
  IsProof(Pay(backend, payable, MaxFee, answer), HashToProve(payable))

RawAnswers ==
  {[transport |-> "ok", type |-> "payment_sent", quoted |-> 1, fee |-> 1, amount |-> 1,
    hash |-> h, preimage |-> p] : h \in {None, <<7>>, <<8>>}, p \in {None, <<"p7">>, <<"p8">>, <<"x">>}}
LndAnswers ==
  {Updates(<<InFlight, LndUpdate(s, p, h, 1), LndUpdate("SUCCEEDED", <<"p7">>, <<7>>, 1)>>) :
     s \in {"SUCCEEDED", "FAILED", "IN_FLIGHT"},
     h \in {None, <<7>>, <<8>>}, p \in {None, <<"p7">>, <<"p8">>}}

\* Whatever a wallet answers, only a preimage of the challenge's hash is proof.
OnlyPreimagesProve ==
  AtStart => \A payable \in {Payable(r, 1) : r \in {"paying", "testing", "colon", "dearer"}} :
    /\ \A answer \in RawAnswers, backend \in {"phoenixd", "breez", "test-mode"} :
         Proves(backend, answer, payable)
    /\ \A answer \in LndAnswers : Proves("lnd-rest", answer, payable)

\* What the client answers is what the challenge says: challenges, parameters,
\* protocol and amount are read whole, whatever quotes, commas, expiries and
\* multipliers are in the way (challenges.py, invoices.py). Whether a Payment
\* challenge says what its invoice asks is not looked at; "dearer" does not.
OffersAreRead ==
  /\ RunOffersAreRead /\ ChallengesAreSplit /\ ParametersAreRead
  /\ PreferredIsChosen /\ AmountsAreCovered

\* What a wallet says about a payment is taken for proof only when it holds the
\* preimage of the challenge's hash: the one in the invoice of an L402 challenge, the
\* one that a Payment challenge names beside its invoice, which may be another
\* (payers/, invoices.py).
PaymentsAreProved ==
  RunOutcomesAreProved /\ HashesAreFound /\ OnlyPreimagesProve
=============================================================================
