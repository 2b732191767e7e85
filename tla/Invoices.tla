------------------------------ MODULE Invoices ------------------------------
(* What the Python client reads in a BOLT11 invoice before it pays it       *)
(* (paygate_client/invoices.py): the amount that is reserved from the       *)
(* budget and the payment hash that a proof of payment must match, when the *)
(* challenge is an L402 challenge; for a Payment challenge nothing is read. *)
(* An invoice is its human readable part and its data; only the letters and *)
(* digits that the code tells apart are there.                              *)
EXTENDS Integers, Sequences, FiniteSetsExt, SequencesExt

CONSTANT None                   \* what the code returns when it cannot tell

DigitOf == [c \in {"0", "1", "2", "5"} |-> CASE c = "0" -> 0 [] c = "1" -> 1
                                              [] c = "2" -> 2 [] c = "5" -> 5]
IsDigit(c) == c \in DOMAIN DigitOf
IsAlpha(c) == ~IsDigit(c)

\* The worth of a unit of each suffix, and of a bitcoin, as satoshi and
\* millisatoshi: their product with an amount stays in the range of integers.
Multiplier == [m |-> [sats |-> 100000, msats |-> 0], u |-> [sats |-> 100, msats |-> 0],
               n |-> [sats |-> 0, msats |-> 100],    p |-> [sats |-> 0, msats |-> 1]]
Bitcoin == [sats |-> 100000000, msats |-> 0]

\* Everything before the last "1": the data has none, the amount may.
Hrp(invoice) ==
  LET ones == {i \in DOMAIN invoice : invoice[i] = "1"}
  IN  IF ones = {} \/ Max(ones) < 2 THEN None ELSE SubSeq(invoice, 1, Max(ones) - 1)

\* What follows the letters of the currency.
AmountPart(text) ==
  LET digits == {i \in DOMAIN text : IsDigit(text[i])}
  IN  IF digits = {} THEN None ELSE SubSeq(text, Min(digits), Len(text))

Value(digits) == FoldLeft(LAMBDA n, c : 10 * n + DigitOf[c], 0, digits)

RoundDown(msats) == msats \div 1000       \* mutant: a part of a satoshi is not counted
RoundUp(msats) == (msats + 999) \div 1000

AmountSats(invoice) ==
  LET hrp == Hrp(invoice)
      part == AmountPart(SubSeq(hrp, 3, Len(hrp)))
      suffixed == IsAlpha(part[Len(part)])
      digits == IF suffixed THEN SubSeq(part, 1, Len(part) - 1) ELSE part
      unit == IF suffixed THEN Multiplier[part[Len(part)]] ELSE Bitcoin
      amount == Value(digits)
  IN  IF \/ hrp = None \/ SubSeq(hrp, 1, 2) # <<"l", "n">> \/ part = None
         \/ suffixed /\ part[Len(part)] \notin DOMAIN Multiplier
         \/ ~\A i \in DOMAIN digits : IsDigit(digits[i])
      THEN None ELSE amount * unit.sats + RoundUp(amount * unit.msats)

(* ----------------------------- tagged fields ---------------------------- *)

\* The data of an invoice: 5-bit numbers, seven of them a timestamp and the last
\* six a checksum that is not verified.
Data(words) == SubSeq(words, 1, Len(words) - 6)

Bit(words, b) == (words[(b \div 5) + 1] \div 2 ^ (4 - (b % 5))) % 2
ByteAtReversed(words, k) ==               \* mutant: the low bits first
  FoldLeft(LAMBDA n, b : 2 * n + Bit(words, 8 * k + b), 0, <<7, 6, 5, 4, 3, 2, 1, 0>>)
ByteAt(words, k) ==
  FoldLeft(LAMBDA n, b : 2 * n + Bit(words, 8 * k + b), 0, <<0, 1, 2, 3, 4, 5, 6, 7>>)

\* Regrouped to bytes; less than a word may remain, and only zeroes.
ConvertBits(words) ==
  LET n == (5 * Len(words)) \div 8
  IN  IF \/ \E i \in DOMAIN words : words[i] \notin 0..31
         \/ 5 * Len(words) - 8 * n >= 5
         \/ \E b \in (8 * n)..(5 * Len(words) - 1) : Bit(words, b) # 0
      THEN None ELSE [k \in 1..n |-> ByteAt(words, k - 1)]

PaymentHashTag == 1                       \* "p" in the alphabet of bech32

\* The first field that is tagged as a payment hash and has its length.
HashFrom(data, length) ==
  LET at[i \in 8..(Len(data) + 1)] ==
        LET size == 32 * data[i + 1] + data[i + 2]
            words == SubSeq(data, i + 3, i + 2 + size)
        IN  IF i + 2 > Len(data) \/ i + 2 + size > Len(data) THEN None
            ELSE IF data[i] = PaymentHashTag /\ size = length THEN ConvertBits(words)
            ELSE at[i + 3 + size]
  IN  IF Len(data) < 7 THEN None ELSE at[8]

PaymentHash(words, length) == HashFrom(Data(words), length)

(* ------------------------------ properties ------------------------------ *)

\* An amount as an invoice states it: digits and the suffix of their unit.
AmountText(currency, digits, suffix) == <<"l", "n">> \o currency \o digits \o suffix \o <<"1">>

\* The reserved amount is never less than what the invoice asks for, nor a whole
\* satoshi more, whatever digits "1" stand before the separator.
AmountIsCovered(currency, digits, suffix, data) ==
  LET sats == AmountSats(AmountText(currency, digits, suffix) \o data)
      unit == IF suffix = <<>> THEN Bitcoin ELSE Multiplier[suffix[1]]
      excess == 1000 * (sats - Value(digits) * unit.sats) - Value(digits) * unit.msats
  IN  sats # None /\ excess \in 0..999

\* Bytes as 5-bit words, the last one filled with zeroes.
Words(bytes) ==
  LET bit(b) == IF b >= 8 * Len(bytes) THEN 0
                ELSE (bytes[(b \div 8) + 1] \div 2 ^ (7 - (b % 8))) % 2
  IN  [k \in 1..((8 * Len(bytes) + 4) \div 5) |->
         FoldLeft(LAMBDA n, b : 2 * n + bit(5 * (k - 1) + b), 0, <<0, 1, 2, 3, 4>>)]

\* The hash that was written as a field is the hash that is read, whatever other
\* field stands before it.
HashIsFound(other, hash) ==
  LET words == Words(hash)
      field == <<PaymentHashTag, Len(words) \div 32, Len(words) % 32>> \o words
      stamp == [i \in 1..7 |-> 0]
      sum == [i \in 1..6 |-> 1]
  IN  PaymentHash(stamp \o other \o field \o sum, Len(words)) = hash
=============================================================================
