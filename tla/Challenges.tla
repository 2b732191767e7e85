----------------------------- MODULE Challenges -----------------------------
(* How the Python client reads the 402 response of a server                 *)
(* (paygate_client/challenges.py, the first half of orchestrator.py's        *)
(* flow) and how it writes the credential of a retry                         *)
(* (paygate_client/credentials.py). A header is a sequence of symbols: the  *)
(* characters that the parser tells apart, and words for runs of others.    *)
EXTENDS Invoices, TLC

CONSTANTS
  Payloads,           \* the JSON objects that words decode to
  Numeral,            \* the integers that words denote
  Moment,             \* the times that words denote as ISO 8601
  HashOf              \* the hash of each preimage

Quote == "\""
Escape == "\\"
Known == {"payment", "l402", "basic", "bearer"}
Supported == [payment |-> "Payment", l402 |-> "L402"]
IsWord(c) == c \notin {Quote, Escape, ",", "=", " ", ":", "?"}

Error(kind) == [scheme |-> "error", kind |-> kind]
IsError(x) == x.scheme = "error"

(* ------------------------------ text helpers ---------------------------- *)

\* The first place from i on that does not hold such a symbol.
After(text, i, Such(_)) ==
  LET others == {j \in i..Len(text) : ~Such(text[j])}
  IN  IF others = {} THEN Max({Len(text) + 1, i}) ELSE Min(others)

IsSpace(c) == c = " "
Skip(text, i) == After(text, i, IsSpace)

Strip(text) ==
  LET solid == {i \in DOMAIN text : text[i] # " "}
  IN  IF solid = {} THEN <<>> ELSE SubSeq(text, Min(solid), Max(solid))

(* --------------------------- splitting a header ------------------------- *)

\* A comma separates two challenges when a known scheme and a space follow it.
StartsChallenge(text, comma) ==
  LET i == Skip(text, comma + 1)
  IN  /\ i < Len(text)
      /\ text[i] \in Known /\ text[i + 1] = " "

\* What the scan of a header knows: inside quotes, behind an escape, its cuts.
ScanTo(text, At(_, _, _)) ==
  FoldLeft(LAMBDA s, i : At(s, i, text[i]),
           [quoted |-> FALSE, escaped |-> FALSE, cuts |-> <<0>>],
           [i \in DOMAIN text |-> i])

ScanUnescaped(text) ==                    \* mutant: an escaped quote ends the value
  ScanTo(text, LAMBDA s, i, c :
    IF c = Quote THEN [s EXCEPT !.quoted = ~@]
    ELSE IF c = "," /\ ~s.quoted /\ StartsChallenge(text, i)
         THEN [s EXCEPT !.cuts = Append(@, i)]
    ELSE s)

Scan(text) ==
  ScanTo(text, LAMBDA s, i, c :
    IF s.escaped THEN [s EXCEPT !.escaped = FALSE]
    ELSE IF c = Escape /\ s.quoted THEN [s EXCEPT !.escaped = TRUE]
    ELSE IF c = Quote THEN [s EXCEPT !.quoted = ~@]
    ELSE IF c = "," /\ ~s.quoted /\ StartsChallenge(text, i)
         THEN [s EXCEPT !.cuts = Append(@, i)]
    ELSE s)

SplitChallenges(text) ==
  LET cuts == Scan(text).cuts \o <<Len(text) + 1>>
      part == [k \in 1..(Len(cuts) - 1) |-> Strip(SubSeq(text, cuts[k] + 1, cuts[k + 1] - 1))]
  IN  SelectSeq(part, LAMBDA s : s # <<>>)

(* ---------------------------- auth parameters --------------------------- *)

Bad == [ok |-> FALSE, next |-> 0]

QuotedValueRaw(text, v) ==                \* mutant: escapes stay in the value
  LET escaped[j \in v..Len(text)] == j > v + 1 /\ text[j - 1] = Escape /\ ~escaped[j - 1]
      closing == {j \in (v + 1)..Len(text) : text[j] = Quote /\ ~escaped[j]}
      close == Min(closing)
  IN  IF closing = {} THEN Bad
      ELSE [ok |-> TRUE, next |-> Skip(text, close + 1), value |-> SubSeq(text, v + 1, close - 1)]

\* The value of a quoted string that opens at v, and where the text goes on.
QuotedValue(text, v) ==
  LET escaped[j \in v..Len(text)] == j > v + 1 /\ text[j - 1] = Escape /\ ~escaped[j - 1]
      closing == {j \in (v + 1)..Len(text) : text[j] = Quote /\ ~escaped[j]}
      close == Min(closing)
      next == Skip(text, close + 1)
      kept == SelectSeq([k \in 1..(close - v - 1) |-> v + k],
                        LAMBDA j : escaped[j] \/ text[j] # Escape)
  IN  IF closing = {} \/ (next <= Len(text) /\ text[next] # ",") THEN Bad
      ELSE [ok |-> TRUE, next |-> next, value |-> [k \in DOMAIN kept |-> text[kept[k]]]]

PlainValue(text, v) ==
  LET next == After(text, v, LAMBDA c : c # ",")
      value == Strip(SubSeq(text, v, next - 1))
  IN  IF value = <<>> \/ \E i \in DOMAIN value : value[i] = " " THEN Bad
      ELSE [ok |-> TRUE, next |-> next, value |-> value]

Malformed == [malformed |-> <<>>]

\* "key=value" pairs between commas; a key that is repeated keeps its last value.
AuthParams(text) ==
  LET from[i \in 1..(Len(text) + 1)] ==
        LET key == Skip(text, i)
            end == After(text, key, IsWord)
            equals == Skip(text, end)
            v == Skip(text, equals + 1)
            read == IF v <= Len(text) /\ text[v] = Quote THEN QuotedValue(text, v)
                    ELSE PlainValue(text, v)
            next == Skip(text, read.next)
            rest == from[next + 1]
        IN  IF i > Len(text) THEN <<>>
            ELSE IF end = key \/ equals > Len(text) \/ text[equals] # "=" \/ ~read.ok
                 THEN Malformed
            ELSE IF next > Len(text) THEN SubSeq(text, key, end - 1) :> read.value
            ELSE IF text[next] # "," \/ rest = Malformed THEN Malformed
            ELSE rest @@ (SubSeq(text, key, end - 1) :> read.value)
  IN  from[1]

\* A scheme up to the first space, and its parameters; others are passed over.
ParseChallenge(raw) ==
  IF raw[1] \notin DOMAIN Supported \/ (Len(raw) > 1 /\ raw[2] # " ")
    THEN [scheme |-> "unsupported"]
  ELSE LET params == AuthParams(SubSeq(raw, 3, Len(raw)))
       IN  IF Len(raw) = 1 \/ params = Malformed THEN Error("malformed header")
           ELSE [scheme |-> Supported[raw[1]], params |-> params]

Param(params, key) == IF <<key>> \in DOMAIN params THEN params[<<key>>] ELSE None

(* ------------------------------- payloads ------------------------------- *)

\* JSON: [type |-> "text" | "int" | "bool", val |-> ...], a list or an object,
\* whose val is a sequence of values or of [key, value] in their order. A text is
\* a sequence of symbols.
Text(v) == [type |-> "text", val |-> v]
Int32(n) == [type |-> "int", val |-> n]
Object(pairs) == [type |-> "object", val |-> pairs]
List(values) == [type |-> "list", val |-> values]

Field(object, key) ==
  LET at == {i \in DOMAIN object.val : object.val[i].key = key}
  IN  IF at = {} THEN None ELSE object.val[Max(at)].value

StringField(object, key) ==
  LET field == Field(object, key)
  IN  IF field # None /\ field.type = "text" /\ field.val # <<>> THEN field.val ELSE None

FirstOf(a, b) == IF a # None THEN a ELSE b

\* Base64 without padding of a JSON object.
Decode(value) ==
  IF value # None /\ value \in DOMAIN Payloads THEN Payloads[value] ELSE None

\* amountSats before amount_sats, which must be integers; then a numeral.
AmountField(payload) ==
  LET sats == FirstOf(Field(payload, "amountSats"), Field(payload, "amount_sats"))
      amount == StringField(payload, "amount")
  IN  IF sats # None
        THEN IF sats.type = "int" /\ sats.val >= 0 THEN sats.val ELSE None
      ELSE IF amount # None /\ amount \in DOMAIN Numeral /\ Numeral[amount] >= 0
        THEN Numeral[amount]
      ELSE None

Never == 1000000                \* a challenge that does not expire

ExpiresUnread(params) ==                  \* mutant: a date is no expiry
  LET value == Param(params, "expires")
  IN  IF value = None THEN Never
      ELSE IF value \in DOMAIN Numeral THEN Numeral[value] ELSE Never

\* The time of an expires parameter; None when it is not a time.
Expires(params) ==
  LET value == Param(params, "expires")
  IN  IF value = None THEN Never
      ELSE IF value \in DOMAIN Numeral THEN Numeral[value]
      ELSE IF value \in DOMAIN Moment THEN Moment[value] ELSE None

ParsePayment(params, now) ==
  LET payload == Decode(Param(params, "request"))
      given == Field(payload, "methodDetails")
      details == IF given = None THEN Object(<<>>) ELSE given
      invoice == FirstOf(StringField(payload, "invoice"), StringField(details, "invoice"))
      opaque == Decode(Param(params, "opaque"))
      problem ==
        IF Param(params, "request") = None THEN "missing request"
        ELSE IF payload = None \/ details.type # "object" THEN "malformed request"
        ELSE IF invoice = None THEN "missing invoice"
        ELSE IF AmountField(payload) = None THEN "malformed or missing amount"
        ELSE IF Expires(params) = None THEN "malformed header"
        ELSE IF Expires(params) <= now THEN "expired"
        ELSE IF Param(params, "opaque") # None /\ opaque = None THEN "malformed opaque"
        ELSE "none"
  IN  IF problem # "none" THEN Error(problem)
      ELSE [scheme |-> "Payment", invoice |-> invoice, amount |-> AmountField(payload),
            hash |-> FirstOf(StringField(details, "paymentHash"),
                             StringField(details, "payment_hash")),
            expires |-> Expires(params),
            service |-> FirstOf(StringField(payload, "service"), Param(params, "realm")),
            preimage |-> IF opaque = None THEN None ELSE StringField(opaque, "test_preimage"),
            params |-> params]

ParseL402(params) ==
  IF Param(params, "invoice") = None THEN Error("missing invoice")
  ELSE IF Param(params, "token") = None /\ Param(params, "macaroon") = None
    THEN Error("missing token")
  ELSE [scheme |-> "L402", invoice |-> Param(params, "invoice"),
        token |-> FirstOf(Param(params, "token"), Param(params, "macaroon")), params |-> params]

(* ------------------------------- selection ------------------------------ *)

\* A parsed challenge: its content, an error, or nothing to look at.
Read(challenge, config, now) ==
  CASE challenge.scheme = "Payment" -> ParsePayment(challenge.params, now)
    [] challenge.scheme = "L402" ->
         IF config.l402 THEN ParseL402(challenge.params) ELSE [scheme |-> "disabled"]
    [] OTHER -> challenge

IsOffer(challenge) == challenge.scheme \in {"Payment", "L402"}

SelectFirst(offers, preferred) == offers[1]  \* mutant: the preference is not looked at

\* The first of the preferred protocol, or the first.
SelectOffer(offers, preferred) ==
  LET wanted == SelectSeq(offers, LAMBDA c : c.scheme = preferred)
  IN  IF wanted # <<>> THEN wanted[1] ELSE offers[1]

\* What a response with these challenges comes to.
Selected(read, config) ==
  LET offers == SelectSeq(read, IsOffer)
      errors == SelectSeq(read, IsError)
  IN  IF offers # <<>> THEN SelectOffer(offers, config.preferred)
      ELSE IF \E i \in DOMAIN read : read[i].scheme = "disabled" THEN Error("protocol disabled")
      ELSE IF errors # <<>> THEN errors[1]
      ELSE Error("no supported challenge")

ReadEach(raw, config, now) ==
  [i \in DOMAIN raw |-> Read(ParseChallenge(raw[i]), config, now)]

ParseChallenges(headers, config, now) ==
  LET raw == FlattenSeq([i \in DOMAIN headers |-> SplitChallenges(headers[i])])
  IN  Selected(ReadEach(raw, config, now), config)

(* ----------------------------- what is payable -------------------------- *)

Fits(field, type) ==
  field.type = type /\ IF type = "text" THEN field.val # <<>> ELSE field.val >= 0

\* Depth first: the fields of an object before its children.
RECURSIVE Find(_, _, _)
Find(json, keys, type) ==
  LET own == SelectSeq(keys, LAMBDA k : json.type = "object" /\ Field(json, k) # None
                                          /\ Fits(Field(json, k), type))
      children == CASE json.type = "object" -> [i \in DOMAIN json.val |-> json.val[i].value]
                    [] json.type = "list"   -> json.val
                    [] OTHER                -> <<>>
      found == SelectSeq([i \in DOMAIN children |-> Find(children[i], keys, type)],
                         LAMBDA x : x # None)
  IN  IF own # <<>> THEN Field(json, own[1]).val
      ELSE IF found # <<>> THEN found[1] ELSE None

FindAmount(body) ==
  Find(body, <<"amountSats", "amount_sats">>, "int")
FindPreimage(body) ==
  Find(body, <<"test_preimage">>, "text")

\* The body of a response, when it is a JSON object.
JsonBody(body) == IF body # None /\ body.type = "object" THEN body ELSE Object(<<>>)

\* What may be paid: an invoice, an amount and the hash that proves it. An L402
\* challenge takes them from its invoice, if that states them, or from the body; a
\* Payment challenge from its payload, which is not compared with the invoice.
ToPayable(challenge, body, stated, hashInInvoice) ==
  LET preimage == FindPreimage(JsonBody(body))
      amount == FirstOf(stated, FindAmount(JsonBody(body)))
      hash == FirstOf(hashInInvoice,
                      IF preimage = None THEN None ELSE HashOf[preimage])
  IN  IF challenge.scheme = "Payment"
        THEN [challenge EXCEPT !.preimage = FirstOf(@, preimage)]
      ELSE IF amount = None THEN Error("missing amount")
      ELSE IF hash = None THEN Error("missing hash")
      ELSE [scheme |-> "L402", invoice |-> challenge.invoice, amount |-> amount, hash |-> hash,
            expires |-> Never, service |-> None, preimage |-> preimage,
            token |-> challenge.token, params |-> challenge.params]

(* ------------------------------ credentials ----------------------------- *)

IsPreimage(preimage) == preimage \in DOMAIN HashOf

\* The header of a retry: it names the challenge as the server wrote it.
BuildAuthorization(payable, preimage) ==
  IF ~IsPreimage(preimage) THEN Error("invalid preimage")
  ELSE IF payable.scheme = "L402"
    THEN IF \E i \in DOMAIN payable.token : payable.token[i] \in {":", ","}
           THEN Error("invalid token")
         ELSE [scheme |-> "L402", token |-> payable.token, preimage |-> preimage]
  ELSE [scheme |-> "Payment", preimage |-> preimage,
        challenge |-> [k \in {<<"request">>} \union
                            (DOMAIN payable.params \intersect
                              {<<k>> : k \in {"id", "realm", "method", "intent", "expires", "digest",
                                       "description", "opaque"}})
                         |-> payable.params[k]]]
=============================================================================
