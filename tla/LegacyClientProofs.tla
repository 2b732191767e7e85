------------------------ MODULE LegacyClientProofs ------------------------
(***************************************************************************)
(* Theorems about LegacyClient, for any number of processes, responses,    *)
(* answers of the wallet, days and amounts: the budget, the reservations   *)
(* and the money that counts, what the envelopes say, and what becomes of  *)
(* the credential file.                                                    *)
(*                                                                         *)
(* What a process still has to do tells what it has done: the invariant of *)
(* the processes (StageOf, HeldIsOwed) lists the sequences of steps that   *)
(* can be left, and what is reserved, paid and said at each.               *)
(***************************************************************************)
EXTENDS LegacyClient, FiniteSetTheorems, SequenceTheorems, TLAPS

-----------------------------------------------------------------------------
(* The inductive invariants.                                               *)

Sats == 0 .. Cap

\* A day of the ledger, and the ledger.
IsEntry(e) ==
  /\ e = [committed |-> e.committed, held |-> e.held]
  /\ e.committed \in Nat
  /\ DOMAIN e.held \subseteq Client /\ e.held \in [DOMAIN e.held -> Sats]

IsLedger(l) == l = [d \in Day |-> l[d]] /\ \A d \in Day : IsEntry(l[d])

IsCredential(c) ==
  /\ c = [protocol |-> c.protocol, expires |-> c.expires, maxUses |-> c.maxUses,
          uses |-> c.uses, rejected |-> c.rejected]
  /\ c.expires \in Nat /\ c.maxUses \in Nat /\ c.uses \in Nat /\ c.rejected \in BOOLEAN

AreCredentials(f) ==
  f = [c \in DOMAIN f |-> f[c]] /\ \A c \in DOMAIN f : IsCredential(f[c])

\* What a process answers was read and approved; only the invoice of a Payment
\* challenge may ask more than was looked at.
IsOffer(o) ==
  /\ o.amount \in Sats /\ o.test \in BOOLEAN /\ o.expires \in Nat /\ o.response \in Response
  /\ o.price \in Nat /\ (o.protocol # "Payment" => o.price <= o.amount)

IsReport(r) == r = [code |-> r.code, paid |-> r.paid] /\ r.paid \in BOOLEAN

ClientTypeOK ==
  /\ now \in Day /\ ring \in BOOLEAN /\ disturbed \in BOOLEAN
  /\ IsLedger(ledger) /\ seen = [p \in Client |-> seen[p]]
  /\ file = [whole |-> file.whole, entries |-> file.entries, ringed |-> file.ringed]
  /\ file.whole \in BOOLEAN
  /\ AreCredentials(kept) /\ loaded = [p \in Client |-> loaded[p]]
  /\ todo = [p \in Client |-> todo[p]]
  /\ option = [p \in Client |-> option[p]] /\ bearer = [p \in Client |-> bearer[p]]
  /\ offer = [p \in Client |-> offer[p]] /\ day \in [Client -> Day]
  /\ barred = [p \in Client |-> barred[p]]
  /\ verified \in [Client -> BOOLEAN] /\ left \in [Client -> BOOLEAN]
  /\ report = [p \in Client |-> report[p]] /\ \A p \in Client : IsReport(report[p])

\* Who has a lock has what was read under it, and is at a step of it.
LedgerLockInv ==
  ledgerLock = {} \/ \E p \in Client :
    /\ ledgerLock = {p} /\ todo[p] # <<>> /\ Head(todo[p]) \in LedgerStep
    /\ seen[p] = ledger

FileLockInv ==
  \/ fileLock = {} /\ file.whole
  \/ \E p \in Client : fileLock = {p} /\ todo[p] # <<>> /\ Head(todo[p]) \in CacheStep

\* What is left to do, by how far a process has come.
Unoffered ==
  {Start, <<"purge">>, <<"present">>, <<"mark_rejected", "delete", "send">>,
   <<"delete", "send">>, <<"send">>}
Unreserved ==
  {<<"today", "reserve", "skip">>, <<"today", "reserve", "pay">>,
   <<"reserve", "skip">>, <<"reserve", "pay">>}
Unpaid == {<<"skip">>, <<"pay">>}
Unbuilt == {<<"build">>, <<"put", "retry">>, <<"retry">>}
Undoing == {<<"rollback">>, <<"delete", "rollback">>, <<"mark_rejected", "delete", "rollback">>}
Committing == {<<"commit">>, <<"commit", "mark_success">>}
Closing == {<<"mark_success">>, <<"delete">>, <<"mark_rejected", "delete">>}

Silent == [code |-> "none", paid |-> FALSE]

NotPaidYet(p) == ~verified[p] /\ report[p] = Silent

\* Why a reservation is rolled back; the payment of one that is not a failure
\* of the payer's was a test's, or none.
Undone == Failures \cup {"would_pay", "credential_failure", "retry_failure", "paid_retry_rejected"}

StageOf(p) ==
  \/ todo[p] \in Unoffered /\ NotPaidYet(p) /\ ~left[p]
  \/ todo[p] \in Unreserved /\ NotPaidYet(p) /\ ~left[p] /\ IsOffer(offer[p])
  \/ todo[p] \in Unpaid /\ NotPaidYet(p) /\ ~left[p] /\ IsOffer(offer[p])
  \/ todo[p] = <<"answer">> /\ NotPaidYet(p) /\ IsOffer(offer[p])
  \/ /\ todo[p] = <<"commit", "build">> /\ verified[p] /\ report[p] = Silent
     /\ IsOffer(offer[p]) /\ ~offer[p].test
  \/ todo[p] \in Unbuilt /\ verified[p] /\ report[p] = Silent /\ IsOffer(offer[p])
  \/ /\ todo[p] \in Undoing /\ report[p].paid = verified[p] /\ IsOffer(offer[p])
     /\ report[p].code \in Undone /\ (report[p].code \in Failures \/ ~left[p])
     /\ report[p].code = "paid_retry_rejected" => verified[p]
  \/ /\ todo[p] \in Committing /\ verified[p] /\ report[p] = [code |-> "paid", paid |-> TRUE]
     /\ IsOffer(offer[p]) /\ offer[p].test
  \/ /\ todo[p] \in Closing /\ report[p].paid = verified[p]
     /\ report[p].code \in {"cached", "paid", "paid_retry_rejected"}
  \/ todo[p] = <<>> /\ (Ended(p) => report[p].paid = verified[p])

\* Only a payment of something that is not a test leaves the wallet.
LeftIsOffered(p) == left[p] => IsOffer(offer[p]) /\ ~offer[p].test

\* A reservation is made and not yet finished.
Owing(p) ==
  \/ todo[p] \in Unpaid \cup {<<"answer">>, <<"commit", "build">>} \cup Undoing \cup Committing
  \/ todo[p] \in Unbuilt /\ offer[p].test

Holds(p) == p \in DOMAIN ledger[day[p]].held

HeldIsOwed(p) ==
  /\ todo[p] # <<>> => (Holds(p) <=> Owing(p))
  /\ Ended(p) /\ report[p].code # "budget_ledger_failure" => ~Holds(p)
  /\ \A d \in Day : p \in DOMAIN ledger[d].held
       => d = day[p] /\ IsOffer(offer[p]) /\ ledger[d].held[p] = Amount(p)

Sound(p) == StageOf(p) /\ LeftIsOffered(p) /\ HeldIsOwed(p)

ProcessInv == \A p \in Client : Sound(p)

\* The payments that are no longer reserved, each with its amount, are committed.
Settled(d) ==
  {p \in Client : /\ left[p] /\ day[p] = d /\ report[p].code \notin Failures
                  /\ p \notin DOMAIN ledger[d].held}

CommittedCovers ==
  \A d \in Day : Total([p \in Settled(d) |-> Amount(p)]) <= ledger[d].committed

\* f is a part of g.
PartOf(f, g) == DOMAIN f \subseteq DOMAIN g /\ f = [c \in DOMAIN f |-> g[c]]

\* The file holds, and who has its lock writes, a part of what was last made of
\* each credential, and all of it as long as nothing went wrong.
FileInv ==
  /\ PartOf(file.entries, kept)
  /\ file.whole => \A p \in fileLock : PartOf(loaded[p], kept)
  /\ ~file.whole => \A p \in fileLock : PartOf(loaded[p], Changed(p, kept))
  /\ ~disturbed =>
       /\ file.whole => file.entries = kept /\ \A p \in fileLock : loaded[p] = kept
       /\ ~file.whole => \A p \in fileLock : loaded[p] = Changed(p, kept)

\* All of it.
ClientInv ==
  /\ ClientTypeOK /\ LedgerLockInv /\ FileLockInv /\ ProcessInv
  /\ BudgetHolds /\ CommittedCovers /\ FileInv /\ UnusableStaysUnused
-----------------------------------------------------------------------------
(* The steps that are left.                                                *)

\* A sequence of one, two or three steps, taken apart.
LEMMA HeadAndTail ==
  /\ \A a : <<a>> # <<>> /\ Head(<<a>>) = a /\ Tail(<<a>>) = <<>>
  /\ \A a, b : <<a, b>> # <<>> /\ Head(<<a, b>>) = a /\ Tail(<<a, b>>) = <<b>>
  /\ \A a, b, c : <<a, b, c>> # <<>> /\ Head(<<a, b, c>>) = a /\ Tail(<<a, b, c>>) = <<b, c>>
OBVIOUS

\* One or two steps, and one more.
LEMMA OneMore ==
  ASSUME NEW a, NEW b, NEW c
  PROVE  /\ <<a>> \o <<b>> = <<a, b>> /\ <<a, b>> \o <<c>> = <<a, b, c>>
         /\ <<>> \o <<a>> = <<a>> /\ <<a>> \o <<>> = <<a>>
         /\ <<>> \o <<>> = <<>> /\ <<a, b>> \o <<>> = <<a, b>>
<1> DEFINE S == {a, b, c}
<1>1. /\ <<>> \in Seq(S) /\ <<a>> \in Seq(S) /\ <<b>> \in Seq(S) /\ <<c>> \in Seq(S)
      /\ <<a, b>> \in Seq(S) /\ <<a, b, c>> \in Seq(S)
  <2>1. <<>> \in Seq(S)
    BY EmptySeq
  <2>2. \A x \in S : <<x>> \in Seq(S)
    OBVIOUS
  <2>3. \A x \in S, y \in S : <<x, y>> \in Seq(S)
    OBVIOUS
  <2>4. \A x \in S, y \in S, z \in S : <<x, y, z>> \in Seq(S)
    OBVIOUS
  <2> QED
    BY <2>1, <2>2, <2>3, <2>4
<1> HIDE DEF S
<1>2. <<a>> \o <<b>> = <<a, b>>
  <2>1. <<a>> \o <<b>> \in Seq(S) /\ Len(<<a>> \o <<b>>) = 2
    BY <1>1, ConcatProperties
  <2>2. \A i \in 1 .. 2 : (<<a>> \o <<b>>)[i] = IF i <= 1 THEN <<a>>[i] ELSE <<b>>[i - 1]
    BY <1>1, ConcatProperties
  <2>3. \A i \in 1 .. 2 : i = 1 \/ i = 2
    OBVIOUS
  <2>4. (<<a>> \o <<b>>)[1] = <<a, b>>[1] /\ (<<a>> \o <<b>>)[2] = <<a, b>>[2]
    BY <2>2
  <2> QED
    BY <1>1, <2>1, <2>3, <2>4, SeqEqual
<1>3. <<a, b>> \o <<c>> = <<a, b, c>>
  <2>1. <<a, b>> \o <<c>> \in Seq(S) /\ Len(<<a, b>> \o <<c>>) = 3
    BY <1>1, ConcatProperties
  <2>2. \A i \in 1 .. 3 :
          (<<a, b>> \o <<c>>)[i] = IF i <= 2 THEN <<a, b>>[i] ELSE <<c>>[i - 2]
    BY <1>1, ConcatProperties
  <2>3. \A i \in 1 .. 3 : i = 1 \/ i = 2 \/ i = 3
    OBVIOUS
  <2>4. /\ (<<a, b>> \o <<c>>)[1] = <<a, b, c>>[1]
        /\ (<<a, b>> \o <<c>>)[2] = <<a, b, c>>[2]
        /\ (<<a, b>> \o <<c>>)[3] = <<a, b, c>>[3]
    BY <2>2
  <2> QED
    BY <1>1, <2>1, <2>3, <2>4, SeqEqual
<1>4. /\ <<>> \o <<a>> = <<a>> /\ <<a>> \o <<>> = <<a>>
      /\ <<>> \o <<>> = <<>> /\ <<a, b>> \o <<>> = <<a, b>>
  BY <1>1, ConcatEmptySeq
<1> QED
  BY <1>2, <1>3, <1>4

\* All that can be left.
Plans == Unoffered \cup Unreserved \cup Unpaid \cup Unbuilt \cup Undoing \cup Committing
           \cup Closing \cup {<<"answer">>, <<"commit", "build">>}

\* No sequence of steps is of two kinds.
LEMMA KindsAreApart ==
  /\ \A t \in Unoffered :
       /\ t \notin Unreserved /\ t \notin Unpaid /\ t \notin Unbuilt /\ t \notin Undoing
       /\ t \notin Committing /\ t \notin Closing /\ t # <<"answer">>
       /\ t # <<"commit", "build">> /\ t # <<>>
  /\ \A t \in Unreserved :
       /\ t \notin Unpaid /\ t \notin Unbuilt /\ t \notin Undoing /\ t \notin Committing
       /\ t \notin Closing /\ t # <<"answer">> /\ t # <<"commit", "build">> /\ t # <<>>
  /\ \A t \in Unpaid :
       /\ t \notin Unbuilt /\ t \notin Undoing /\ t \notin Committing
       /\ t \notin Closing /\ t # <<"answer">> /\ t # <<"commit", "build">> /\ t # <<>>
  /\ \A t \in Unbuilt :
       /\ t \notin Undoing /\ t \notin Committing /\ t \notin Closing
       /\ t # <<"answer">> /\ t # <<"commit", "build">> /\ t # <<>>
  /\ \A t \in Undoing :
       /\ t \notin Committing /\ t \notin Closing /\ t # <<"answer">>
       /\ t # <<"commit", "build">> /\ t # <<>>
  /\ \A t \in Committing :
       /\ t \notin Closing /\ t # <<"answer">> /\ t # <<"commit", "build">> /\ t # <<>>
  /\ \A t \in Closing :
       /\ t # <<"answer">> /\ t # <<"commit", "build">> /\ t # <<>>
  /\ <<"answer">> # <<"commit", "build">> /\ <<"answer">> # <<>> /\ <<"commit", "build">> # <<>>
<1>1. \A t \in Unoffered :
       /\ t \notin Unreserved /\ t \notin Unpaid /\ t \notin Unbuilt /\ t \notin Undoing
       /\ t \notin Committing /\ t \notin Closing /\ t # <<"answer">>
       /\ t # <<"commit", "build">> /\ t # <<>>
  BY DEF Unoffered, Unreserved, Unpaid, Unbuilt, Undoing, Committing, Closing,
      Start
<1>2. \A t \in Unreserved :
       /\ t \notin Unpaid /\ t \notin Unbuilt /\ t \notin Undoing /\ t \notin Committing
       /\ t \notin Closing /\ t # <<"answer">> /\ t # <<"commit", "build">> /\ t # <<>>
  BY DEF Unreserved, Unpaid, Unbuilt, Undoing, Committing, Closing, Start
<1>3. \A t \in Unpaid :
       /\ t \notin Unbuilt /\ t \notin Undoing /\ t \notin Committing
       /\ t \notin Closing /\ t # <<"answer">> /\ t # <<"commit", "build">> /\ t # <<>>
  BY DEF Unpaid, Unbuilt, Undoing, Committing, Closing, Start
<1>4. \A t \in Unbuilt :
       /\ t \notin Undoing /\ t \notin Committing /\ t \notin Closing
       /\ t # <<"answer">> /\ t # <<"commit", "build">> /\ t # <<>>
  BY DEF Unbuilt, Undoing, Committing, Closing, Start
<1>5. \A t \in Undoing :
       /\ t \notin Committing /\ t \notin Closing /\ t # <<"answer">>
       /\ t # <<"commit", "build">> /\ t # <<>>
  BY DEF Undoing, Committing, Closing, Start
<1>6. \A t \in Committing :
       /\ t \notin Closing /\ t # <<"answer">> /\ t # <<"commit", "build">> /\ t # <<>>
  BY DEF Committing, Closing, Start
<1>7. \A t \in Closing :
       /\ t # <<"answer">> /\ t # <<"commit", "build">> /\ t # <<>>
  BY DEF Closing, Start
<1>8. <<"answer">> # <<"commit", "build">> /\ <<"answer">> # <<>> /\ <<"commit", "build">> # <<>>
  OBVIOUS
<1> QED
  BY <1>1, <1>2, <1>3, <1>4, <1>5, <1>6, <1>7, <1>8

\* Where a process is tells all that is left to it.
LEMMA WhatIsLeft ==
  ASSUME NEW p, StageOf(p)
  PROVE  /\ At(p, "start") => todo[p] = Start
         /\ At(p, "purge") => todo[p] = <<"purge">>
         /\ At(p, "present") => todo[p] = <<"present">>
         /\ At(p, "send") => todo[p] = <<"send">>
         /\ At(p, "today") =>
              todo[p] \in {<<"today", "reserve", "skip">>,
                          <<"today", "reserve", "pay">>}
         /\ At(p, "reserve") => todo[p] \in {<<"reserve", "skip">>, <<"reserve", "pay">>}
         /\ At(p, "skip") => todo[p] = <<"skip">>
         /\ At(p, "pay") => todo[p] = <<"pay">>
         /\ At(p, "answer") => todo[p] = <<"answer">>
         /\ At(p, "commit") =>
              todo[p] \in {<<"commit", "build">>,
                          <<"commit">>,
                          <<"commit", "mark_success">>}
         /\ At(p, "build") => todo[p] = <<"build">>
         /\ At(p, "put") => todo[p] = <<"put", "retry">>
         /\ At(p, "retry") => todo[p] = <<"retry">>
         /\ At(p, "rollback") => todo[p] = <<"rollback">>
         /\ At(p, "mark_rejected") =>
              todo[p] \in {<<"mark_rejected", "delete", "send">>,
                          <<"mark_rejected", "delete", "rollback">>,
                          <<"mark_rejected", "delete">>}
         /\ At(p, "delete") =>
              todo[p] \in {<<"delete", "send">>,
                          <<"delete", "rollback">>,
                          <<"delete">>}
         /\ At(p, "mark_success") => todo[p] = <<"mark_success">>
<1>1. todo[p] \in Plans \/ todo[p] = <<>>
  BY DEF StageOf, Plans
<1> USE <1>1, HeadAndTail DEF At, Plans, Unoffered, Unreserved, Unpaid, Unbuilt, Undoing,
        Committing, Closing, Start
<1>2. At(p, "start") => todo[p] = Start
  OBVIOUS
<1>3. At(p, "purge") => todo[p] = <<"purge">>
  OBVIOUS
<1>4. At(p, "present") => todo[p] = <<"present">>
  OBVIOUS
<1>5. At(p, "send") => todo[p] = <<"send">>
  OBVIOUS
<1>6. At(p, "today") =>
       todo[p] \in {<<"today", "reserve", "skip">>,
                   <<"today", "reserve", "pay">>}
  OBVIOUS
<1>7. At(p, "reserve") => todo[p] \in {<<"reserve", "skip">>, <<"reserve", "pay">>}
  OBVIOUS
<1>8. At(p, "skip") => todo[p] = <<"skip">>
  OBVIOUS
<1>9. At(p, "pay") => todo[p] = <<"pay">>
  OBVIOUS
<1>10. At(p, "answer") => todo[p] = <<"answer">>
  OBVIOUS
<1>11. At(p, "commit") =>
       todo[p] \in {<<"commit", "build">>,
                   <<"commit">>,
                   <<"commit", "mark_success">>}
  OBVIOUS
<1>12. At(p, "build") => todo[p] = <<"build">>
  OBVIOUS
<1>13. At(p, "put") => todo[p] = <<"put", "retry">>
  OBVIOUS
<1>14. At(p, "retry") => todo[p] = <<"retry">>
  OBVIOUS
<1>15. At(p, "rollback") => todo[p] = <<"rollback">>
  OBVIOUS
<1>16. At(p, "mark_rejected") =>
       todo[p] \in {<<"mark_rejected", "delete", "send">>,
                   <<"mark_rejected", "delete", "rollback">>,
                   <<"mark_rejected", "delete">>}
  OBVIOUS
<1>17. At(p, "delete") =>
       todo[p] \in {<<"delete", "send">>,
                   <<"delete", "rollback">>,
                   <<"delete">>}
  OBVIOUS
<1>18. At(p, "mark_success") => todo[p] = <<"mark_success">>
  OBVIOUS
<1> HIDE <1>1 DEF At, Plans, Unoffered, Unreserved, Unpaid, Unbuilt, Undoing,
        Committing, Closing, Start
<1> QED
  BY <1>2, <1>3, <1>4, <1>5, <1>6, <1>7, <1>8, <1>9, <1>10, <1>11, <1>12, <1>13,
      <1>14, <1>15, <1>16, <1>17, <1>18

\* The sequences that the actions give a process, and their kinds.
LEMMA KindOfPlan ==
  /\ Start \in Unoffered /\ <<"purge">> \in Unoffered /\ <<"present">> \in Unoffered
  /\ <<"mark_rejected", "delete", "send">> \in Unoffered
  /\ <<"delete", "send">> \in Unoffered /\ <<"send">> \in Unoffered
  /\ <<"today", "reserve", "skip">> \in Unreserved /\ <<"today", "reserve", "pay">> \in Unreserved
  /\ <<"reserve", "skip">> \in Unreserved /\ <<"reserve", "pay">> \in Unreserved
  /\ <<"skip">> \in Unpaid /\ <<"pay">> \in Unpaid
  /\ <<"build">> \in Unbuilt /\ <<"put", "retry">> \in Unbuilt /\ <<"retry">> \in Unbuilt
  /\ <<"rollback">> \in Undoing /\ <<"delete", "rollback">> \in Undoing
  /\ <<"mark_rejected", "delete", "rollback">> \in Undoing
  /\ <<"commit">> \in Committing /\ <<"commit", "mark_success">> \in Committing
  /\ <<"mark_success">> \in Closing /\ <<"delete">> \in Closing
  /\ <<"mark_rejected", "delete">> \in Closing
BY DEF Unoffered, Unreserved, Unpaid, Unbuilt, Undoing, Committing, Closing,
    Start

\* What is known of a process, by the kind of what is left to it.
LEMMA StageFacts ==
  ASSUME NEW p, StageOf(p)
  PROVE  /\ todo[p] \in Unoffered => NotPaidYet(p) /\ ~left[p]
         /\ todo[p] \in Unreserved \cup Unpaid => NotPaidYet(p) /\ ~left[p] /\ IsOffer(offer[p])
         /\ todo[p] = <<"answer">> => NotPaidYet(p) /\ IsOffer(offer[p])
         /\ todo[p] = <<"commit", "build">> =>
              verified[p] /\ report[p] = Silent /\ IsOffer(offer[p]) /\ ~offer[p].test
         /\ todo[p] \in Unbuilt => verified[p] /\ report[p] = Silent /\ IsOffer(offer[p])
         /\ todo[p] \in Undoing =>
              /\ report[p].paid = verified[p] /\ IsOffer(offer[p])
              /\ report[p].code \in Undone /\ (report[p].code \in Failures \/ ~left[p])
              /\ report[p].code = "paid_retry_rejected" => verified[p]
         /\ todo[p] \in Committing =>
              /\ verified[p] /\ report[p] = [code |-> "paid", paid |-> TRUE]
              /\ IsOffer(offer[p]) /\ offer[p].test
         /\ todo[p] \in Closing =>
              /\ report[p].paid = verified[p]
              /\ report[p].code \in {"cached", "paid", "paid_retry_rejected"}
         /\ todo[p] = <<>> => (Ended(p) => report[p].paid = verified[p])
BY KindsAreApart DEF StageOf

\* Who still owes the end of a reservation.
LEMMA OwingFacts ==
  ASSUME NEW p
  PROVE  /\ todo[p] \in Unoffered \cup Unreserved \cup Closing \cup {<<>>} => ~Owing(p)
         /\ todo[p] \in Unpaid \cup Undoing \cup Committing => Owing(p)
         /\ todo[p] \in {<<"answer">>, <<"commit", "build">>} => Owing(p)
         /\ todo[p] \in Unbuilt => (Owing(p) <=> offer[p].test)
BY KindsAreApart DEF Owing
-----------------------------------------------------------------------------
(* Sums.                                                                   *)

\* A function of amounts.
AreSats(f) == IsFiniteSet(DOMAIN f) /\ f \in [DOMAIN f -> Sats]

\* The satoshis of such a function, one by one.
Units(f) == UNION {{x} \X (1 .. f[x]) : x \in DOMAIN f}

\* They are finitely many.
LEMMA UnitsAreFinite ==
  ASSUME NEW f, AreSats(f)
  PROVE  IsFiniteSet(Units(f)) /\ Total(f) = Cardinality(Units(f)) /\ Total(f) \in Nat
<1>1. IsFiniteSet(1 .. Cap)
  <2>1. Cap \in Nat
    BY ClientAssumption
  <2> QED
    BY <2>1, FS_Interval
<1>2. IsFiniteSet((DOMAIN f) \X (1 .. Cap))
  BY <1>1, FS_Product DEF AreSats
<1>3. Units(f) \subseteq (DOMAIN f) \X (1 .. Cap)
  BY ClientAssumption DEF Units, AreSats, Sats
<1>4. IsFiniteSet(Units(f))
  BY <1>2, <1>3, FS_Subset
<1>5. Total(f) = Cardinality(Units(f))
  BY DEF Total, Units
<1> QED
  BY <1>4, <1>5, FS_CardinalityType

\* A part of the amounts is no more than all of them.
LEMMA TotalOfPart ==
  ASSUME NEW f, AreSats(f), NEW g, PartOf(g, f)
  PROVE  AreSats(g) /\ Total(g) <= Total(f)
<1>1. AreSats(g)
  BY FS_Subset DEF AreSats, PartOf
<1>2. Units(g) \subseteq Units(f)
  BY DEF Units, PartOf
<1>3. Cardinality(Units(g)) <= Cardinality(Units(f))
  BY <1>2, UnitsAreFinite, FS_Subset
<1> QED
  BY <1>1, <1>3, UnitsAreFinite

\* Lesser amounts are no more.
LEMMA TotalOfLess ==
  ASSUME NEW f, AreSats(f), NEW g, DOMAIN g = DOMAIN f,
         \A x \in DOMAIN f : g[x] \in Nat /\ g[x] <= f[x]
  PROVE  Total(g) \in Nat /\ Total(g) <= Total(f)
<1>1. \A x \in DOMAIN f : f[x] \in Nat
  BY ClientAssumption DEF AreSats, Sats
<1>2. \A x \in DOMAIN f : 1 .. g[x] \subseteq 1 .. f[x]
  BY <1>1
<1>3. Units(g) \subseteq Units(f)
  BY <1>2 DEF Units
<1>4. Cardinality(Units(g)) \in Nat /\ Cardinality(Units(g)) <= Cardinality(Units(f))
  BY <1>3, UnitsAreFinite, FS_Subset, FS_CardinalityType
<1>5. Total(g) = Cardinality(Units(g))
  BY DEF Total, Units
<1> QED
  BY <1>4, <1>5, UnitsAreFinite

\* Amounts that are parted in two.
LEMMA TotalOfTwo ==
  ASSUME NEW f, AreSats(f), NEW g, NEW h, PartOf(g, f), PartOf(h, f),
         DOMAIN f = DOMAIN g \cup DOMAIN h
  PROVE  Total(f) <= Total(g) + Total(h)
<1>1. Units(f) = Units(g) \cup Units(h)
  BY DEF Units, PartOf
<1>2. AreSats(g) /\ AreSats(h)
  BY TotalOfPart
<1>3. /\ IsFiniteSet(Units(g)) /\ Total(g) = Cardinality(Units(g)) /\ Total(g) \in Nat
      /\ IsFiniteSet(Units(h)) /\ Total(h) = Cardinality(Units(h)) /\ Total(h) \in Nat
      /\ Total(f) = Cardinality(Units(f)) /\ Total(f) \in Nat
  BY <1>2, UnitsAreFinite
<1>4. IsFiniteSet(Units(g) \cap Units(h))
  BY <1>3, FS_Subset
<1>5. Cardinality(Units(g) \cap Units(h)) \in Nat
  BY <1>4, FS_CardinalityType
<1>6. Cardinality(Units(g) \cup Units(h))
        = Cardinality(Units(g)) + Cardinality(Units(h)) - Cardinality(Units(g) \cap Units(h))
  BY <1>3, FS_Union
<1> QED
  BY <1>1, <1>3, <1>5, <1>6

\* One amount and the others.
LEMMA TotalOfOneMore ==
  ASSUME NEW f, AreSats(f), NEW x \in DOMAIN f
  PROVE  /\ AreSats(Without(f, {x})) /\ f[x] \in Nat
         /\ Total(f) = Total(Without(f, {x})) + f[x]
<1> DEFINE g == Without(f, {x})
           one == {x} \X (1 .. f[x])
<1>1. PartOf(g, f)
  BY DEF Without, PartOf
<1>2. AreSats(g)
  BY <1>1, TotalOfPart
<1>3. f[x] \in Nat
  BY ClientAssumption DEF AreSats, Sats
<1>4. Units(f) = Units(g) \cup one /\ Units(g) \cap one = {}
  BY DEF Units, Without
<1>5. IsFiniteSet(one) /\ Cardinality(one) = f[x]
  <2>1. IsFiniteSet({x}) /\ Cardinality({x}) = 1
    BY FS_Singleton
  <2>2. IsFiniteSet(1 .. f[x]) /\ Cardinality(1 .. f[x]) = f[x]
    BY <1>3, FS_Interval
  <2>3. IsFiniteSet(one) /\ Cardinality(one) = 1 * f[x]
    BY <2>1, <2>2, FS_Product
  <2> QED
    BY <1>3, <2>3
<1> HIDE DEF g, one
<1>6. IsFiniteSet(Units(g)) /\ Total(g) = Cardinality(Units(g)) /\ Total(g) \in Nat
  BY <1>2, UnitsAreFinite
<1>7. Cardinality(Units(g) \cup one) = Cardinality(Units(g)) + Cardinality(one) - Cardinality({})
  BY <1>4, <1>5, <1>6, FS_Union
<1>8. Cardinality({}) = 0
  BY FS_EmptySet
<1>9. Total(f) = Total(g) + f[x]
  <2>1. Total(f) = Cardinality(Units(f))
    BY UnitsAreFinite
  <2> QED
    BY <1>3, <1>4, <1>5, <1>6, <1>7, <1>8, <2>1
<1> QED
  BY <1>2, <1>3, <1>9 DEF g
-----------------------------------------------------------------------------
(* The days of the ledger.                                                 *)

\* What a day holds is finite and can be counted.
LEMMA EntryFacts ==
  ASSUME NEW e, IsEntry(e)
  PROVE  AreSats(e.held) /\ Total(e.held) \in Nat /\ Counting(e) \in Nat
<1>1. IsFiniteSet(DOMAIN e.held)
  BY ClientAssumption, FS_Subset DEF IsEntry
<1>2. AreSats(e.held)
  BY <1>1 DEF IsEntry, AreSats
<1> QED
  BY <1>2, UnitsAreFinite DEF Counting, IsEntry

\* reserve adds a reservation to the day.
LEMMA ReserveEntry ==
  ASSUME NEW e, IsEntry(e), NEW p \in Client, p \notin DOMAIN e.held, NEW amount \in Sats
  PROVE  LET new == [e EXCEPT !.held = With(e.held, p, amount)]
         IN  /\ IsEntry(new) /\ new.committed = e.committed
             /\ DOMAIN new.held = DOMAIN e.held \cup {p} /\ new.held[p] = amount
             /\ \A q \in DOMAIN e.held : new.held[q] = e.held[q]
             /\ Counting(new) = Counting(e) + amount
<1> DEFINE h == With(e.held, p, amount)
           new == [e EXCEPT !.held = h]
<1>1. new = [committed |-> e.committed, held |-> h]
  BY DEF IsEntry
<1>2. /\ DOMAIN h = DOMAIN e.held \cup {p} /\ h[p] = amount
      /\ \A q \in DOMAIN e.held : h[q] = e.held[q]
  BY DEF With
<1>3. h \in [DOMAIN h -> Sats] /\ DOMAIN h \subseteq Client
  BY DEF With, IsEntry
<1>4. Without(h, {p}) = e.held
  BY DEF With, Without, IsEntry
<1> HIDE DEF h
<1>5. IsEntry(new)
  BY <1>1, <1>3 DEF IsEntry
<1>6. AreSats(h)
  BY <1>1, <1>5, EntryFacts
<1>7. Total(h) = Total(e.held) + amount
  BY <1>2, <1>4, <1>6, TotalOfOneMore
<1>8. e.committed \in Nat /\ Total(e.held) \in Nat /\ amount \in Nat
  BY EntryFacts, ClientAssumption DEF IsEntry, Sats
<1>9. Counting(new) = Counting(e) + amount
  BY <1>1, <1>7, <1>8 DEF Counting
<1> QED
  BY <1>1, <1>2, <1>5, <1>9 DEF h

\* rollback takes it away, and commit adds its amount to what is committed.
LEMMA FinishEntry ==
  ASSUME NEW e, IsEntry(e), NEW p \in DOMAIN e.held
  PROVE  LET rest == [e EXCEPT !.held = Without(e.held, {p})]
             new == [committed |-> e.committed + e.held[p], held |-> Without(e.held, {p})]
         IN  /\ e.held[p] \in Nat
             /\ IsEntry(rest) /\ rest.committed = e.committed
             /\ rest.held = Without(e.held, {p})
             /\ Counting(rest) <= Counting(e)
             /\ IsEntry(new) /\ Counting(new) = Counting(e)
<1> DEFINE h == Without(e.held, {p})
           rest == [e EXCEPT !.held = h]
           new == [committed |-> e.committed + e.held[p], held |-> h]
<1>1. rest = [committed |-> e.committed, held |-> h]
  BY DEF IsEntry
<1>2. h \in [DOMAIN h -> Sats] /\ DOMAIN h \subseteq Client
  BY DEF Without, IsEntry
<1>3. AreSats(e.held)
  BY EntryFacts
<1>4. e.held[p] \in Nat /\ Total(e.held) = Total(h) + e.held[p]
  BY <1>3, TotalOfOneMore
<1>5. AreSats(h)
  BY <1>3, TotalOfOneMore
<1> HIDE DEF h
<1>6. e.committed \in Nat /\ Total(h) \in Nat
  BY <1>5, UnitsAreFinite DEF IsEntry
<1>7. IsEntry(rest) /\ IsEntry(new)
  BY <1>1, <1>2, <1>4, <1>6 DEF IsEntry
<1>8. Counting(rest) <= Counting(e) /\ Counting(new) = Counting(e)
  BY <1>1, <1>4, <1>6 DEF Counting
<1> QED
  BY <1>1, <1>4, <1>7, <1>8 DEF h
-----------------------------------------------------------------------------
(* Processes: how one goes on, and that the others do not notice.          *)

\* Nothing that is said of process q has changed.
SameProcess(q) ==
  /\ todo'[q] = todo[q] /\ offer'[q] = offer[q] /\ day'[q] = day[q]
  /\ verified'[q] = verified[q] /\ left'[q] = left[q] /\ report'[q] = report[q]

\* No reservation of its has.
SameHeld(q) ==
  \A d \in Day :
    /\ q \in DOMAIN ledger'[d].held <=> q \in DOMAIN ledger[d].held
    /\ q \in DOMAIN ledger[d].held => ledger'[d].held[q] = ledger[d].held[q]

\* What an action of p leaves as it is.
OthersStay(p) == \A q \in Client \ {p} : SameProcess(q) /\ SameHeld(q)

\* A process that nothing happens to stays sound.
LEMMA SoundStays ==
  ASSUME NEW q, day[q] \in Day, Sound(q), SameProcess(q), SameHeld(q)
  PROVE  Sound(q)'
<1> USE DEF SameProcess
<1>1. StageOf(q)'
  BY DEF Sound, StageOf, NotPaidYet, Ended
<1>2. LeftIsOffered(q)'
  BY DEF Sound, LeftIsOffered
<1>3. Holds(q)' <=> Holds(q)
  BY DEF SameHeld, Holds
<1>4. Owing(q)' <=> Owing(q)
  BY DEF Owing
<1>5. HeldIsOwed(q)'
  BY <1>3, <1>4 DEF Sound, HeldIsOwed, SameHeld, Ended, Amount
<1> QED
  BY <1>1, <1>2, <1>5 DEF Sound

\* A process that keeps its reservation, or still has none, goes on.
LEMMA SoundGoesOn ==
  ASSUME NEW q, day[q] \in Day, Sound(q), SameHeld(q), todo[q] # <<>>, todo'[q] # <<>>,
         offer'[q] = offer[q], day'[q] = day[q],
         StageOf(q)', LeftIsOffered(q)', Owing(q)' <=> Owing(q)
  PROVE  Sound(q)'
<1>1. Holds(q)' <=> Holds(q)
  BY DEF SameHeld, Holds
<1>2. HeldIsOwed(q)'
  BY <1>1 DEF Sound, HeldIsOwed, SameHeld, Ended, Amount
<1> QED
  BY <1>2 DEF Sound

\* A process ends: it dies, or says whether it paid and owes nothing, or says that
\* the ledger failed.
LEMMA SoundEnds ==
  ASSUME NEW q, day[q] \in Day, Sound(q), SameHeld(q), todo[q] # <<>>, todo'[q] = <<>>,
         offer'[q] = offer[q], day'[q] = day[q], verified'[q] = verified[q],
         left'[q] = left[q],
         \/ report'[q].code \in {"crashed", "raised"}
         \/ /\ report'[q].paid = verified[q]
            /\ report'[q].code = "budget_ledger_failure" \/ ~Owing(q)
  PROVE  Sound(q)'
<1>1. Holds(q)' <=> Holds(q)
  BY DEF SameHeld, Holds
<1>2. StageOf(q)'
  BY DEF StageOf, Ended
<1>3. LeftIsOffered(q)'
  BY DEF Sound, LeftIsOffered
<1>4. HeldIsOwed(q)'
  BY <1>1 DEF Sound, HeldIsOwed, SameHeld, Ended, Amount
<1> QED
  BY <1>2, <1>3, <1>4 DEF Sound

\* The ledger stays as it is for all.
LEMMA LedgerStays ==
  ASSUME ledger' = ledger
  PROVE  \A q : SameHeld(q)
BY DEF SameHeld
-----------------------------------------------------------------------------
(* What a response offers.                                                 *)

\* What is read and allowed by the policy is an offer that may be paid.
LEMMA OfferIsRead ==
  ASSUME NEW r \in Response, NEW t \in Day, Allowed(Offer[r][t])
  PROVE  IsOffer(With(Offer[r][t], "response", r))
<1> DEFINE o == Offer[r][t]
           S == Service \cup {Offer[q][u].service : q \in Response, u \in Day}
<1>1. o \in [readable : BOOLEAN, amount : Nat, price : Nat, test : BOOLEAN, service : S,
             protocol : {"Payment", "L402", "none"}, expires : Nat, writable : BOOLEAN]
  BY ClientAssumption
<1>2. o.amount \in Nat /\ o.price \in Nat /\ o.test \in BOOLEAN /\ o.expires \in Nat
  BY <1>1
<1>3. DOMAIN o = {"readable", "amount", "price", "test", "service", "protocol", "expires", "writable"}
  BY <1>1
<1>4. o.amount <= Cap /\ Cap \in Nat
  BY ClientAssumption DEF Allowed
<1>5. o.protocol # "Payment" => o.price <= o.amount
  BY ClientAssumption
<1> HIDE DEF o
<1>6. /\ With(o, "response", r).amount = o.amount /\ With(o, "response", r).test = o.test
      /\ With(o, "response", r).expires = o.expires /\ With(o, "response", r).response = r
  BY <1>3 DEF With
<1>7. /\ With(o, "response", r).price = o.price
      /\ With(o, "response", r).protocol = o.protocol
  BY <1>3 DEF With
<1>8. /\ With(o, "response", r).amount \in Sats /\ With(o, "response", r).test \in BOOLEAN
      /\ With(o, "response", r).expires \in Nat /\ With(o, "response", r).response \in Response
  BY <1>2, <1>4, <1>6 DEF Sats
<1>9. /\ With(o, "response", r).price \in Nat
      /\ With(o, "response", r).protocol # "Payment"
           => With(o, "response", r).price <= With(o, "response", r).amount
  BY <1>2, <1>5, <1>6, <1>7
<1> QED
  BY <1>8, <1>9 DEF IsOffer, o
-----------------------------------------------------------------------------
(* The request: its steps that leave the ledger alone.                     *)

\* A process starts and reads the credential file.
LEMMA BootIsSound ==
  ASSUME NEW p \in Client, ClientTypeOK, Sound(p), Boot(p)
  PROVE  OthersStay(p) /\ Sound(p)'
<1>1. OthersStay(p) /\ SameHeld(p) /\ day[p] \in Day
  BY LedgerStays
     DEF Boot, OthersStay, SameProcess, ClientTypeOK, Goto, Advance, Finish,
         Raise, Say, Quiet, planVars, ledgerVars
<1>2. /\ todo[p] = Start /\ offer'[p] = offer[p] /\ day'[p] = day[p]
      /\ verified'[p] = verified[p] /\ left'[p] = left[p] /\ report'[p] = report[p]
      /\ todo'[p] \in {<<"purge">>, <<"send">>, <<"present">>}
  BY WhatIsLeft DEF Boot, Sound, Goto, ClientTypeOK
<1>3. todo[p] \in Unoffered /\ todo'[p] \in Unoffered
  BY <1>2, KindOfPlan
<1>4. NotPaidYet(p) /\ ~left[p]
  BY <1>3, StageFacts DEF Sound
<1>5. StageOf(p)' /\ LeftIsOffered(p)'
  BY <1>2, <1>3, <1>4 DEF StageOf, NotPaidYet, LeftIsOffered
<1>6. Owing(p)' <=> Owing(p)
  BY <1>3, KindsAreApart DEF Owing
<1> QED
  BY <1>1, <1>2, <1>3, <1>5, <1>6, KindsAreApart, SoundGoesOn

\* The server answers the credential, or does not.
LEMMA PresentIsSound ==
  ASSUME NEW p \in Client, ClientTypeOK, Sound(p), Present(p)
  PROVE  OthersStay(p) /\ Sound(p)'
<1>1. OthersStay(p) /\ SameHeld(p) /\ day[p] \in Day
  BY LedgerStays
     DEF Present, OthersStay, SameProcess, ClientTypeOK, Goto, Advance, Finish,
         Raise, Say, Quiet, planVars, ledgerVars
<1>2. /\ todo[p] = <<"present">> /\ offer'[p] = offer[p] /\ day'[p] = day[p]
      /\ verified'[p] = verified[p] /\ left'[p] = left[p]
  BY WhatIsLeft DEF Present, Sound, planVars
<1>3. todo[p] \in Unoffered
  BY <1>2, KindOfPlan
<1>4. NotPaidYet(p) /\ ~left[p] /\ ~Owing(p) /\ todo[p] # <<>>
  BY <1>3, StageFacts, OwingFacts, KindsAreApart DEF Sound
<1>5. verified[p] = FALSE /\ report[p].paid = FALSE
  BY <1>4 DEF NotPaidYet, Silent, ClientTypeOK
<1>6. CASE Finish(p, "network_failure", FALSE)
  BY <1>1, <1>2, <1>4, <1>5, <1>6, SoundEnds DEF Finish, Goto, Say, ClientTypeOK
<1>7. CASE Goto(p, <<"mark_success">>) /\ Say(p, "cached", FALSE)
  <2>1. todo'[p] \in Closing /\ report'[p].code = "cached" /\ report'[p].paid = FALSE
    BY <1>7, KindOfPlan DEF Goto, Say, ClientTypeOK
  <2>2. StageOf(p)' /\ LeftIsOffered(p)'
    BY <1>2, <1>4, <1>5, <2>1 DEF StageOf, LeftIsOffered
  <2>3. Owing(p)' <=> Owing(p)
    BY <1>3, <2>1, KindsAreApart DEF Owing
  <2> QED
    BY <1>1, <1>2, <1>4, <2>1, <2>2, <2>3, KindsAreApart, SoundGoesOn
<1>8. CASE Goto(p, <<"mark_rejected", "delete", "send">>) /\ Quiet
  <2>1. todo'[p] \in Unoffered /\ report'[p] = report[p]
    BY <1>8, KindOfPlan DEF Goto, Quiet, ClientTypeOK
  <2>2. StageOf(p)' /\ LeftIsOffered(p)'
    BY <1>2, <1>4, <2>1 DEF StageOf, LeftIsOffered, NotPaidYet
  <2>3. Owing(p)' <=> Owing(p)
    BY <1>3, <2>1, KindsAreApart DEF Owing
  <2> QED
    BY <1>1, <1>2, <1>4, <2>1, <2>2, <2>3, KindsAreApart, SoundGoesOn
<1>9. CASE Finish(p, "cached_credential_rejected", FALSE)
  BY <1>1, <1>2, <1>4, <1>5, <1>9, SoundEnds DEF Finish, Goto, Say, ClientTypeOK
<1> QED
  BY <1>1, <1>6, <1>7, <1>8, <1>9 DEF Present

\* The request needs no payment, or is not answered.
LEMMA SendPlainIsSound ==
  ASSUME NEW p \in Client, ClientTypeOK, Sound(p), SendPlain(p)
  PROVE  OthersStay(p) /\ Sound(p)'
<1>1. OthersStay(p) /\ SameHeld(p) /\ day[p] \in Day
  BY LedgerStays
     DEF SendPlain, OthersStay, SameProcess, ClientTypeOK, Goto, Advance,
         Finish, Raise, Say, Quiet, planVars, ledgerVars
<1>2. /\ todo[p] = <<"send">> /\ offer'[p] = offer[p] /\ day'[p] = day[p]
      /\ verified'[p] = verified[p] /\ left'[p] = left[p]
  BY WhatIsLeft DEF SendPlain, Sound, planVars
<1>3. NotPaidYet(p) /\ ~Owing(p) /\ todo[p] # <<>>
  BY <1>2, KindOfPlan, StageFacts, OwingFacts, KindsAreApart DEF Sound
<1>4. verified[p] = FALSE
  BY <1>3 DEF NotPaidYet, ClientTypeOK
<1>5. /\ todo'[p] = <<>> /\ report'[p].paid = FALSE
  BY DEF SendPlain, Finish, Goto, Say, ClientTypeOK
<1> QED
  BY <1>1, <1>2, <1>3, <1>4, <1>5, SoundEnds

\* A challenge is refused, or read and to be paid.
LEMMA ChallengedIsSound ==
  ASSUME NEW p \in Client, ClientTypeOK, Sound(p), Challenged(p)
  PROVE  OthersStay(p) /\ Sound(p)'
<1>1. OthersStay(p) /\ SameHeld(p) /\ day[p] \in Day
  BY LedgerStays
     DEF Challenged, OthersStay, SameProcess, ClientTypeOK, Goto, Advance,
         Finish, Raise, Say, Quiet, planVars, ledgerVars
<1>2. /\ todo[p] = <<"send">> /\ day'[p] = day[p]
      /\ verified'[p] = verified[p] /\ left'[p] = left[p]
  BY WhatIsLeft DEF Challenged, Sound
<1>3. NotPaidYet(p) /\ ~left[p] /\ ~Owing(p) /\ todo[p] # <<>>
  BY <1>2, KindOfPlan, StageFacts, OwingFacts, KindsAreApart DEF Sound
<1>4. verified[p] = FALSE
  BY <1>3 DEF NotPaidYet, ClientTypeOK
<1>5. CASE /\ offer'[p] = offer[p] /\ todo'[p] = <<>> /\ report'[p].paid = FALSE
  BY <1>1, <1>2, <1>3, <1>4, <1>5, SoundEnds
<1>6. ASSUME NEW r \in Response, Allowed(Offer[r][now]),
             offer' = [offer EXCEPT ![p] = With(Offer[r][now], "response", r)],
             Goto(p, <<"today", "reserve">> \o IF option[p].noPay THEN <<"skip">> ELSE <<"pay">>),
             Quiet
      PROVE  Sound(p)'
  <2>1. todo'[p] \in {<<"today", "reserve", "skip">>, <<"today", "reserve", "pay">>}
    BY <1>6, OneMore DEF Goto, ClientTypeOK
  <2>2. todo'[p] \in Unreserved /\ report'[p] = report[p]
    BY <1>6, <2>1, KindOfPlan DEF Quiet
  <2>3. IsOffer(offer'[p])
    BY <1>6, OfferIsRead DEF ClientTypeOK
  <2>4. StageOf(p)' /\ LeftIsOffered(p)'
    BY <1>2, <1>3, <2>2, <2>3 DEF StageOf, LeftIsOffered, NotPaidYet
  <2>5. ~Owing(p)'
    BY <2>2, KindsAreApart DEF Owing
  <2>6. ~Holds(p) /\ \A d \in Day : p \notin DOMAIN ledger[d].held
    BY <1>3 DEF Sound, HeldIsOwed, Holds
  <2>7. HeldIsOwed(p)'
    BY <1>1, <1>2, <2>2, <2>5, <2>6, KindsAreApart
       DEF HeldIsOwed, Holds, SameHeld, Ended
  <2> QED
    BY <2>4, <2>7 DEF Sound
<1>7. \/ /\ offer'[p] = offer[p] /\ todo'[p] = <<>> /\ report'[p].paid = FALSE
      \/ \E r \in Response :
           /\ Allowed(Offer[r][now])
           /\ offer' = [offer EXCEPT ![p] = With(Offer[r][now], "response", r)]
           /\ Goto(p, <<"today", "reserve">> \o IF option[p].noPay THEN <<"skip">> ELSE <<"pay">>)
           /\ Quiet
  BY DEF Challenged, Finish, Goto, Say, ClientTypeOK
<1> QED
  BY <1>1, <1>5, <1>6, <1>7

\* --no-pay tells what it would have done and takes its reservation back.
LEMMA WouldPayIsSound ==
  ASSUME NEW p \in Client, ClientTypeOK, Sound(p), WouldPay(p)
  PROVE  OthersStay(p) /\ Sound(p)'
<1>1. OthersStay(p) /\ SameHeld(p) /\ day[p] \in Day
  BY LedgerStays
     DEF WouldPay, OthersStay, SameProcess, ClientTypeOK, Goto, Advance, Finish,
         Raise, Say, Quiet, planVars, ledgerVars
<1>2. /\ todo[p] = <<"skip">> /\ offer'[p] = offer[p] /\ day'[p] = day[p]
      /\ verified'[p] = verified[p] /\ left'[p] = left[p]
      /\ todo'[p] = <<"rollback">>
      /\ report'[p].code = "would_pay" /\ report'[p].paid = FALSE
  BY WhatIsLeft DEF WouldPay, Sound, planVars, Goto, Say, ClientTypeOK
<1>3. todo[p] \in Unpaid /\ todo'[p] \in Undoing
  BY <1>2, KindOfPlan
<1>4. NotPaidYet(p) /\ ~left[p] /\ IsOffer(offer[p])
  BY <1>3, StageFacts DEF Sound
<1>5. verified[p] = FALSE
  BY <1>4 DEF NotPaidYet, ClientTypeOK
<1>6. StageOf(p)' /\ LeftIsOffered(p)'
  BY <1>2, <1>3, <1>4, <1>5 DEF StageOf, LeftIsOffered, Undone
<1>7. Owing(p)' <=> Owing(p)
  BY <1>3, KindsAreApart DEF Owing
<1> QED
  BY <1>1, <1>2, <1>3, <1>6, <1>7, KindsAreApart, SoundGoesOn

\* The wallet is asked.
LEMMA SubmitIsSound ==
  ASSUME NEW p \in Client, ClientTypeOK, Sound(p), Submit(p)
  PROVE  OthersStay(p) /\ Sound(p)'
<1>1. OthersStay(p) /\ SameHeld(p) /\ day[p] \in Day
  BY LedgerStays
     DEF Submit, OthersStay, SameProcess, ClientTypeOK, Goto, Advance, Finish,
         Raise, Say, Quiet, planVars, ledgerVars
<1>2. /\ todo[p] = <<"pay">> /\ offer'[p] = offer[p] /\ day'[p] = day[p]
      /\ verified'[p] = verified[p] /\ report'[p] = report[p]
      /\ todo'[p] = <<"answer">>
  BY WhatIsLeft DEF Submit, Sound, Goto, ClientTypeOK
<1>3. todo[p] \in Unpaid
  BY <1>2, KindOfPlan
<1>4. NotPaidYet(p) /\ IsOffer(offer[p])
  BY <1>3, StageFacts DEF Sound
<1>5. left'[p] => ~offer[p].test
  BY DEF Submit, ClientTypeOK
<1>6. StageOf(p)' /\ LeftIsOffered(p)'
  BY <1>2, <1>4, <1>5 DEF StageOf, LeftIsOffered, NotPaidYet
<1>7. Owing(p)' <=> Owing(p)
  BY <1>2, <1>3, KindsAreApart DEF Owing
<1> QED
  BY <1>1, <1>2, <1>3, <1>6, <1>7, KindsAreApart, SoundGoesOn

\* A proof of payment was verified.
LEMMA PaidIsSound ==
  ASSUME NEW p \in Client, ClientTypeOK, Sound(p), Paid(p)
  PROVE  OthersStay(p) /\ Sound(p)'
<1>1. OthersStay(p) /\ SameHeld(p) /\ day[p] \in Day
  BY LedgerStays
     DEF Paid, OthersStay, SameProcess, ClientTypeOK, Goto, Advance, Finish,
         Raise, Say, Quiet, planVars, ledgerVars
<1>2. /\ todo[p] = <<"answer">> /\ offer'[p] = offer[p] /\ day'[p] = day[p]
      /\ verified'[p] = TRUE /\ left'[p] = left[p] /\ report'[p] = report[p]
  BY WhatIsLeft DEF Paid, Sound, ClientTypeOK
<1>3. NotPaidYet(p) /\ IsOffer(offer[p])
  BY <1>2, StageFacts DEF Sound
<1>4. todo'[p] = IF offer[p].test THEN <<"build">> ELSE <<"commit", "build">>
  BY OneMore DEF Paid, Goto, When, ClientTypeOK
<1>5. LeftIsOffered(p)' /\ todo'[p] # <<>>
  BY <1>2, <1>4 DEF Sound, LeftIsOffered
<1>6. StageOf(p)'
  BY <1>2, <1>3, <1>4, KindOfPlan DEF StageOf, NotPaidYet
<1>7. Owing(p)' <=> Owing(p)
  BY <1>2, <1>4, KindOfPlan, KindsAreApart DEF Owing
<1> QED
  BY <1>1, <1>2, <1>5, <1>6, <1>7, KindsAreApart, SoundGoesOn

\* The payment failed, or could not be verified.
LEMMA NotPaidIsSound ==
  ASSUME NEW p \in Client, ClientTypeOK, Sound(p), NotPaid(p)
  PROVE  OthersStay(p) /\ Sound(p)'
<1>1. OthersStay(p) /\ SameHeld(p) /\ day[p] \in Day
  BY LedgerStays
     DEF NotPaid, OthersStay, SameProcess, ClientTypeOK, Goto, Advance, Finish,
         Raise, Say, Quiet, planVars, ledgerVars
<1>2. /\ todo[p] = <<"answer">> /\ offer'[p] = offer[p] /\ day'[p] = day[p]
      /\ verified'[p] = verified[p] /\ left'[p] = left[p] /\ todo'[p] = <<"rollback">>
  BY WhatIsLeft DEF NotPaid, Sound, planVars, Goto, ClientTypeOK
<1>3. report'[p].paid = FALSE /\ report'[p].code \in Failures
  BY DEF NotPaid, Say, ClientTypeOK
<1>4. NotPaidYet(p) /\ IsOffer(offer[p])
  BY <1>2, StageFacts DEF Sound
<1>5. verified[p] = FALSE /\ "paid_retry_rejected" \notin Failures
  BY <1>4 DEF NotPaidYet, ClientTypeOK, Failures
<1>6. StageOf(p)' /\ LeftIsOffered(p)'
  BY <1>2, <1>3, <1>4, <1>5, KindOfPlan
     DEF StageOf, Sound, LeftIsOffered, Undone
<1>7. Owing(p)' <=> Owing(p)
  BY <1>2, KindOfPlan, KindsAreApart DEF Owing
<1> QED
  BY <1>1, <1>2, <1>6, <1>7, KindsAreApart, SoundGoesOn

\* The credential is written, or cannot be.
LEMMA BuildIsSound ==
  ASSUME NEW p \in Client, ClientTypeOK, Sound(p), Build(p)
  PROVE  OthersStay(p) /\ Sound(p)'
<1>1. OthersStay(p) /\ SameHeld(p) /\ day[p] \in Day
  BY LedgerStays
     DEF Build, OthersStay, SameProcess, ClientTypeOK, Goto, Advance, Finish,
         Raise, Say, Quiet, planVars, ledgerVars
<1>2. /\ todo[p] = <<"build">> /\ offer'[p] = offer[p] /\ day'[p] = day[p]
      /\ verified'[p] = verified[p] /\ left'[p] = left[p]
  BY WhatIsLeft DEF Build, Sound
<1>3. todo[p] \in Unbuilt /\ todo[p] # <<>>
  BY <1>2, KindOfPlan, KindsAreApart
<1>4. /\ verified[p] = TRUE /\ report[p] = Silent /\ IsOffer(offer[p])
      /\ Owing(p) <=> offer[p].test
  BY <1>3, StageFacts, OwingFacts DEF Sound, ClientTypeOK
<1>5. LeftIsOffered(p)'
  BY <1>2 DEF Sound, LeftIsOffered
<1>6. CASE offer[p].writable
  <2>1. todo'[p] \in {<<"retry">>, <<"put", "retry">>} /\ report'[p] = report[p]
    BY <1>6, OneMore DEF Build, Goto, When, Quiet, ClientTypeOK
  <2>2. todo'[p] \in Unbuilt
    BY <2>1, KindOfPlan
  <2>3. StageOf(p)'
    BY <1>2, <1>4, <2>1, <2>2 DEF StageOf
  <2>4. Owing(p)' <=> Owing(p)
    BY <1>2, <1>4, <2>2, KindsAreApart DEF Owing
  <2> QED
    BY <1>1, <1>2, <1>3, <1>5, <2>2, <2>3, <2>4, KindsAreApart, SoundGoesOn
<1>7. CASE ~offer[p].writable
  <2>1. /\ todo'[p] = IF offer[p].test THEN <<"rollback">> ELSE <<>>
        /\ report'[p].code = "credential_failure" /\ report'[p].paid = TRUE
    BY <1>7 DEF Build, Goto, When, Uncommitted, Say, ClientTypeOK
  <2>2. CASE ~offer[p].test
    BY <1>1, <1>2, <1>3, <1>4, <2>1, <2>2, SoundEnds
  <2>3. CASE offer[p].test
    <3>1. todo'[p] \in Undoing /\ ~left[p]
      BY <2>1, <2>3, KindOfPlan DEF Sound, LeftIsOffered
    <3>2. StageOf(p)'
      BY <1>2, <1>4, <2>1, <3>1 DEF StageOf, Undone
    <3>3. Owing(p)' <=> Owing(p)
      BY <1>4, <2>3, <3>1, KindsAreApart DEF Owing
    <3> QED
      BY <1>1, <1>2, <1>3, <1>5, <3>1, <3>2, <3>3, KindsAreApart, SoundGoesOn
  <2> QED
    BY <2>2, <2>3
<1> QED
  BY <1>1, <1>6, <1>7

\* The request is sent again with the credential.
LEMMA RetryIsSound ==
  ASSUME NEW p \in Client, ClientTypeOK, Sound(p), Retry(p)
  PROVE  OthersStay(p) /\ Sound(p)'
<1>1. OthersStay(p) /\ SameHeld(p) /\ day[p] \in Day
  BY LedgerStays
     DEF Retry, OthersStay, SameProcess, ClientTypeOK, Goto, Advance, Finish,
         Raise, Say, Quiet, planVars, ledgerVars
<1>2. /\ todo[p] = <<"retry">> /\ offer'[p] = offer[p] /\ day'[p] = day[p]
      /\ verified'[p] = verified[p] /\ left'[p] = left[p]
  BY WhatIsLeft DEF Retry, Sound, planVars
<1>3. todo[p] \in Unbuilt /\ todo[p] # <<>>
  BY <1>2, KindOfPlan, KindsAreApart
<1>4. /\ verified[p] = TRUE /\ report[p] = Silent /\ IsOffer(offer[p])
      /\ Owing(p) <=> offer[p].test
  BY <1>3, StageFacts, OwingFacts DEF Sound, ClientTypeOK
<1>5. LeftIsOffered(p)'
  BY <1>2 DEF Sound, LeftIsOffered
<1>6. report'[p].paid = TRUE
  BY DEF Retry, Say, ClientTypeOK
<1>7. ASSUME todo'[p] = <<>>, ~offer[p].test
      PROVE  Sound(p)'
  BY <1>1, <1>2, <1>3, <1>4, <1>6, <1>7, SoundEnds
<1>8. ASSUME todo'[p] \in Closing, ~offer[p].test,
             report'[p].code \in {"paid", "paid_retry_rejected"}
      PROVE  Sound(p)'
  <2>1. StageOf(p)'
    BY <1>2, <1>4, <1>6, <1>8 DEF StageOf
  <2>2. Owing(p)' <=> Owing(p)
    BY <1>4, <1>8, KindsAreApart DEF Owing
  <2> QED
    BY <1>1, <1>2, <1>3, <1>5, <1>8, <2>1, <2>2, KindsAreApart, SoundGoesOn
<1>9. ASSUME todo'[p] \in Undoing, offer[p].test,
             report'[p].code \in {"retry_failure", "paid_retry_rejected"}
      PROVE  Sound(p)'
  <2>1. ~left[p]
    BY <1>9 DEF Sound, LeftIsOffered
  <2>2. StageOf(p)'
    BY <1>2, <1>4, <1>6, <1>9, <2>1 DEF StageOf, Undone
  <2>3. Owing(p)' <=> Owing(p)
    BY <1>4, <1>9, KindsAreApart DEF Owing
  <2> QED
    BY <1>1, <1>2, <1>3, <1>5, <1>9, <2>2, <2>3, KindsAreApart, SoundGoesOn
<1>10. ASSUME todo'[p] \in Committing, offer[p].test,
              report'[p] = [code |-> "paid", paid |-> TRUE]
       PROVE  Sound(p)'
  <2>1. StageOf(p)'
    BY <1>2, <1>4, <1>10 DEF StageOf
  <2>2. Owing(p)' <=> Owing(p)
    BY <1>4, <1>10, KindsAreApart DEF Owing
  <2> QED
    BY <1>1, <1>2, <1>3, <1>5, <1>10, <2>1, <2>2, KindsAreApart, SoundGoesOn
<1>11. CASE Goto(p, Uncommitted(p, "rollback")) /\ Say(p, "retry_failure", TRUE)
  <2>1. todo'[p] = IF offer[p].test THEN <<"rollback">> ELSE <<>>
    BY <1>11 DEF Goto, When, Uncommitted, ClientTypeOK
  <2>2. report'[p].code = "retry_failure"
    BY <1>11 DEF Say, ClientTypeOK
  <2>3. offer[p].test => todo'[p] \in Undoing
    BY <2>1, KindOfPlan
  <2>4. ~offer[p].test => todo'[p] = <<>>
    BY <2>1
  <2>5. CASE offer[p].test
    BY <1>1, <1>9, <2>2, <2>3, <2>5
  <2>6. CASE ~offer[p].test
    BY <1>1, <1>7, <2>4, <2>6
  <2> QED
    BY <2>5, <2>6
<1>12. CASE /\ Goto(p, When(Cacheable(p), <<"mark_rejected", "delete">>)
                       \o Uncommitted(p, "rollback"))
            /\ Say(p, "paid_retry_rejected", TRUE)
  <2>1. todo'[p] = IF offer[p].test
                   THEN IF Cacheable(p) THEN <<"mark_rejected", "delete", "rollback">>
                        ELSE <<"rollback">>
                   ELSE IF Cacheable(p) THEN <<"mark_rejected", "delete">> ELSE <<>>
    BY <1>12, OneMore DEF Goto, When, Uncommitted, ClientTypeOK
  <2>2. report'[p].code = "paid_retry_rejected"
    BY <1>12 DEF Say, ClientTypeOK
  <2>3. offer[p].test => todo'[p] \in Undoing
    BY <2>1, KindOfPlan
  <2>4. ~offer[p].test => todo'[p] = <<>> \/ todo'[p] \in Closing
    BY <2>1, KindOfPlan
  <2>5. CASE offer[p].test
    BY <1>1, <1>9, <2>2, <2>3, <2>5
  <2>6. CASE ~offer[p].test
    BY <1>1, <1>7, <1>8, <2>2, <2>4, <2>6
  <2> QED
    BY <2>5, <2>6
<1>13. CASE /\ Goto(p, Uncommitted(p, "commit") \o When(Cacheable(p), <<"mark_success">>))
            /\ Say(p, "paid", TRUE)
  <2>1. todo'[p] = IF offer[p].test
                   THEN IF Cacheable(p) THEN <<"commit", "mark_success">> ELSE <<"commit">>
                   ELSE IF Cacheable(p) THEN <<"mark_success">> ELSE <<>>
    BY <1>13, OneMore DEF Goto, When, Uncommitted, ClientTypeOK
  <2>2. report'[p] = [code |-> "paid", paid |-> TRUE]
    BY <1>13 DEF Say, ClientTypeOK
  <2>3. report'[p].code = "paid"
    BY <2>2
  <2>4. offer[p].test => todo'[p] \in Committing
    BY <2>1, KindOfPlan
  <2>5. ~offer[p].test => todo'[p] = <<>> \/ todo'[p] \in Closing
    BY <2>1, KindOfPlan
  <2>6. CASE offer[p].test
    BY <1>1, <1>10, <2>2, <2>4, <2>6
  <2>7. CASE ~offer[p].test
    BY <1>1, <1>7, <1>8, <2>3, <2>5, <2>7
  <2> QED
    BY <2>6, <2>7
<1> QED
  BY <1>1, <1>11, <1>12, <1>13 DEF Retry

\* The date of the reservation is taken.
LEMMA TodayIsSound ==
  ASSUME NEW p \in Client, ClientTypeOK, Sound(p), Today(p)
  PROVE  OthersStay(p) /\ Sound(p)'
<1>1. OthersStay(p) /\ SameHeld(p)
  BY LedgerStays
     DEF Today, OthersStay, SameProcess, ClientTypeOK, Goto, Advance, Quiet,
         planVars, ledgerVars
<1>2. /\ todo[p] \in {<<"today", "reserve", "skip">>, <<"today", "reserve", "pay">>}
      /\ offer'[p] = offer[p] /\ verified'[p] = verified[p] /\ left'[p] = left[p]
      /\ report'[p] = report[p] /\ todo'[p] = Tail(todo[p])
  BY WhatIsLeft DEF Today, Sound, planVars, Advance, Goto, Quiet, ClientTypeOK
<1>3. todo[p] \in Unreserved /\ todo'[p] \in Unreserved
  <2>1. /\ Tail(<<"today", "reserve", "skip">>) = <<"reserve", "skip">>
        /\ Tail(<<"today", "reserve", "pay">>) = <<"reserve", "pay">>
    BY HeadAndTail
  <2>2. todo'[p] \in {<<"reserve", "skip">>, <<"reserve", "pay">>}
    BY <1>2, <2>1
  <2> QED
    BY <1>2, <2>2, KindOfPlan
<1>4. NotPaidYet(p) /\ ~left[p] /\ IsOffer(offer[p]) /\ ~Owing(p) /\ todo[p] # <<>>
  BY <1>3, StageFacts, OwingFacts, KindsAreApart DEF Sound
<1>5. StageOf(p)' /\ LeftIsOffered(p)'
  BY <1>2, <1>3, <1>4 DEF StageOf, LeftIsOffered, NotPaidYet
<1>6. ~Owing(p)'
  BY <1>3, KindsAreApart DEF Owing
<1>7. \A d \in Day : p \notin DOMAIN ledger[d].held
  BY <1>4 DEF Sound, HeldIsOwed, Holds
<1>8. day'[p] \in Day
  BY DEF Today, ClientTypeOK
<1>9. HeldIsOwed(p)'
  BY <1>1, <1>3, <1>6, <1>7, <1>8, KindsAreApart
     DEF HeldIsOwed, Holds, SameHeld, Ended
<1> QED
  BY <1>1, <1>5, <1>9 DEF Sound
-----------------------------------------------------------------------------
(* The request: its steps in the ledger.                                   *)

\* Who has the lock of the ledger has read what is in it.
LEMMA InLedger ==
  ASSUME NEW p \in Client, ClientTypeOK, LedgerLockInv, p \in ledgerLock
  PROVE  /\ ledgerLock = {p} /\ seen[p] = ledger /\ day[p] \in Day
         /\ Entry(p) = ledger[day[p]] /\ IsEntry(Entry(p))
         /\ todo[p] # <<>> /\ (At(p, "reserve") \/ At(p, "commit") \/ At(p, "rollback"))
<1>1. ledgerLock = {p} /\ seen[p] = ledger /\ todo[p] # <<>> /\ Head(todo[p]) \in LedgerStep
  BY DEF LedgerLockInv
<1>2. day[p] \in Day
  BY DEF ClientTypeOK
<1>3. IsEntry(ledger[day[p]])
  BY <1>2 DEF ClientTypeOK, IsLedger
<1> QED
  BY <1>1, <1>2, <1>3 DEF Entry, At, LedgerStep

\* A process that owes nothing and has no reservation.
LEMMA SoundUnheld ==
  ASSUME NEW q, day'[q] \in Day, StageOf(q)', LeftIsOffered(q)', ~Owing(q)',
         \A d \in Day : q \notin DOMAIN ledger'[d].held
  PROVE  Sound(q)'
BY DEF Sound, HeldIsOwed, Holds

\* What a replaced day changes.
LEMMA ReplacedDay ==
  ASSUME NEW p \in Client, ClientTypeOK, LedgerLockInv, p \in ledgerLock, NEW entry,
         IsEntry(entry), Replace(p, entry),
         \A q \in Client \ {p} :
           /\ q \in DOMAIN entry.held <=> q \in DOMAIN Entry(p).held
           /\ q \in DOMAIN Entry(p).held => entry.held[q] = Entry(p).held[q]
  PROVE  /\ OthersStay(p) /\ IsLedger(ledger')
         /\ ledger'[day[p]] = entry
         /\ \A d \in Day : d # day[p] => ledger'[d] = ledger[d]
         /\ todo'[p] = Tail(todo[p]) /\ offer'[p] = offer[p] /\ day'[p] = day[p]
         /\ verified'[p] = verified[p] /\ left'[p] = left[p] /\ report'[p] = report[p]
<1>1. ledger' = [ledger EXCEPT ![day[p]] = entry] /\ day[p] \in Day
  BY InLedger DEF Replace
<1>2. ledger = [d \in Day |-> ledger[d]] /\ \A d \in Day : IsEntry(ledger[d])
  BY DEF ClientTypeOK, IsLedger
<1>3. ledger'[day[p]] = entry /\ \A d \in Day : d # day[p] => ledger'[d] = ledger[d]
  BY <1>1, <1>2
<1>4. IsLedger(ledger')
  BY <1>1, <1>2, <1>3 DEF IsLedger
<1>5. \A q \in Client \ {p} : SameProcess(q)
  BY DEF Replace, SameProcess, Advance, Goto, Quiet, planVars, ClientTypeOK
<1>6. \A q \in Client \ {p} : SameHeld(q)
  BY <1>3, InLedger DEF SameHeld
<1>7. /\ todo'[p] = Tail(todo[p]) /\ offer'[p] = offer[p] /\ day'[p] = day[p]
      /\ verified'[p] = verified[p] /\ left'[p] = left[p] /\ report'[p] = report[p]
  BY DEF Replace, Advance, Goto, Quiet, planVars, ClientTypeOK
<1> QED
  BY <1>3, <1>4, <1>5, <1>6, <1>7 DEF OthersStay

\* reserve: what it writes.
LEMMA ReserveWrites ==
  ASSUME NEW p \in Client, ClientTypeOK, LedgerLockInv, Sound(p), Reserve(p)
  PROVE  LET entry == [Entry(p) EXCEPT !.held = With(@, p, Amount(p))]
         IN  /\ p \in ledgerLock /\ p \notin DOMAIN Entry(p).held
             /\ todo[p] \in {<<"reserve", "skip">>, <<"reserve", "pay">>}
             /\ Replace(p, entry) /\ IsEntry(entry) /\ entry.committed = Entry(p).committed
             /\ DOMAIN entry.held = DOMAIN Entry(p).held \cup {p}
             /\ entry.held[p] = Amount(p)
             /\ \A q \in DOMAIN Entry(p).held : entry.held[q] = Entry(p).held[q]
             /\ Counting(entry) = Counting(Entry(p)) + Amount(p)
             /\ Counting(entry) <= Budget
<1>1. p \in ledgerLock /\ At(p, "reserve") /\ ~OverBudget(p)
  BY DEF Reserve, Section
<1>2. Replace(p, [Entry(p) EXCEPT !.held = With(@, p, Amount(p))])
  BY DEF Reserve
<1>3. todo[p] \in {<<"reserve", "skip">>, <<"reserve", "pay">>}
  BY <1>1, WhatIsLeft DEF Sound
<1>4. todo[p] \in Unreserved
  BY <1>3, KindOfPlan
<1>5. IsOffer(offer[p]) /\ ~Owing(p) /\ todo[p] # <<>>
  BY <1>4, StageFacts, OwingFacts, KindsAreApart DEF Sound
<1>6. p \notin DOMAIN Entry(p).held /\ IsEntry(Entry(p))
  BY <1>1, <1>5, InLedger DEF Sound, HeldIsOwed, Holds
<1>7. Amount(p) \in Sats
  BY <1>5 DEF IsOffer, Amount
<1> DEFINE entry == [Entry(p) EXCEPT !.held = With(@, p, Amount(p))]
<1>8. /\ IsEntry(entry) /\ entry.committed = Entry(p).committed
      /\ DOMAIN entry.held = DOMAIN Entry(p).held \cup {p} /\ entry.held[p] = Amount(p)
      /\ \A q \in DOMAIN Entry(p).held : entry.held[q] = Entry(p).held[q]
      /\ Counting(entry) = Counting(Entry(p)) + Amount(p)
  BY <1>6, <1>7, ReserveEntry
<1>9. Counting(entry) <= Budget
  <2>1. Counting(Entry(p)) \in Nat
    BY <1>6, EntryFacts
  <2>2. Amount(p) \in Nat /\ Budget \in Nat
    BY <1>7, ClientAssumption DEF Sats
  <2> HIDE DEF entry
  <2> QED
    BY <1>1, <1>8, <2>1, <2>2 DEF OverBudget
<1> QED
  BY <1>1, <1>2, <1>3, <1>6, <1>8, <1>9

\* reserve.
LEMMA ReserveIsSound ==
  ASSUME NEW p \in Client, ClientTypeOK, LedgerLockInv, Sound(p), Reserve(p)
  PROVE  OthersStay(p) /\ Sound(p)'
<1> DEFINE entry == [Entry(p) EXCEPT !.held = With(@, p, Amount(p))]
<1>1. /\ p \in ledgerLock /\ Replace(p, entry) /\ IsEntry(entry)
      /\ DOMAIN entry.held = DOMAIN Entry(p).held \cup {p} /\ entry.held[p] = Amount(p)
      /\ \A q \in DOMAIN Entry(p).held : entry.held[q] = Entry(p).held[q]
  BY ReserveWrites
<1>2. todo[p] \in {<<"reserve", "skip">>, <<"reserve", "pay">>}
  BY ReserveWrites
<1> HIDE DEF entry
<1>3. /\ OthersStay(p) /\ ledger'[day[p]] = entry
      /\ \A d \in Day : d # day[p] => ledger'[d] = ledger[d]
      /\ todo'[p] = Tail(todo[p]) /\ offer'[p] = offer[p] /\ day'[p] = day[p]
      /\ verified'[p] = verified[p] /\ left'[p] = left[p] /\ report'[p] = report[p]
  BY <1>1, ReplacedDay
<1>4. todo[p] \in Unreserved /\ todo'[p] \in Unpaid
  <2>1. /\ Tail(<<"reserve", "skip">>) = <<"skip">> /\ Tail(<<"reserve", "pay">>) = <<"pay">>
    BY HeadAndTail
  <2>2. todo'[p] \in {<<"skip">>, <<"pay">>}
    BY <1>2, <1>3, <2>1
  <2> QED
    BY <1>2, <2>2, KindOfPlan
<1>5. NotPaidYet(p) /\ ~left[p] /\ IsOffer(offer[p]) /\ ~Owing(p) /\ todo[p] # <<>>
  BY <1>4, StageFacts, OwingFacts, KindsAreApart DEF Sound
<1>6. StageOf(p)' /\ LeftIsOffered(p)'
  BY <1>3, <1>4, <1>5 DEF StageOf, LeftIsOffered, NotPaidYet
<1>7. Owing(p)'
  BY <1>4 DEF Owing
<1>8. day[p] \in Day
  BY DEF ClientTypeOK
<1>9. Holds(p)'
  BY <1>1, <1>3 DEF Holds
<1>10. \A d \in Day : d # day[p] => p \notin DOMAIN ledger'[d].held
  BY <1>3 DEF Sound, HeldIsOwed
<1>11. Amount(p)' = Amount(p)
  BY <1>3 DEF Amount
<1>12. HeldIsOwed(p)'
  BY <1>1, <1>3, <1>4, <1>5, <1>7, <1>9, <1>10, <1>11, KindsAreApart
     DEF HeldIsOwed, Ended
<1> QED
  BY <1>3, <1>6, <1>12 DEF Sound

\* commit: what it writes.
LEMMA CommitWrites ==
  ASSUME NEW p \in Client, ClientTypeOK, LedgerLockInv, Sound(p), Commit(p)
  PROVE  LET entry == [committed |-> Entry(p).committed + Entry(p).held[p],
                       held |-> Without(Entry(p).held, {p})]
         IN  /\ p \in ledgerLock /\ p \in DOMAIN Entry(p).held
             /\ todo[p] \in {<<"commit", "build">>, <<"commit">>, <<"commit", "mark_success">>}
             /\ Entry(p).held[p] = Amount(p) /\ Amount(p) \in Nat
             /\ Replace(p, entry) /\ IsEntry(entry) /\ Counting(entry) = Counting(Entry(p))
<1>1. p \in ledgerLock /\ At(p, "commit") /\ p \in DOMAIN Entry(p).held
  BY DEF Commit, Section
<1>2. todo[p] \in {<<"commit", "build">>, <<"commit">>, <<"commit", "mark_success">>}
  BY <1>1, WhatIsLeft DEF Sound
<1>3. Entry(p) = ledger[day[p]] /\ day[p] \in Day /\ IsEntry(Entry(p))
  BY <1>1, InLedger
<1>4. Entry(p).held[p] = Amount(p)
  BY <1>1, <1>3 DEF Sound, HeldIsOwed
<1> DEFINE entry == [committed |-> Entry(p).committed + Entry(p).held[p],
                     held |-> Without(Entry(p).held, {p})]
<1>5. /\ Entry(p).held[p] \in Nat
      /\ IsEntry(entry) /\ Counting(entry) = Counting(Entry(p))
  BY <1>1, <1>3, FinishEntry
<1>6. Replace(p, entry)
  BY DEF Commit
<1> HIDE DEF entry
<1>7. Amount(p) \in Nat
  BY <1>4, <1>5
<1> QED
  BY <1>1, <1>2, <1>4, <1>5, <1>6, <1>7 DEF entry

\* rollback: what it writes.
LEMMA RollbackWrites ==
  ASSUME NEW p \in Client, ClientTypeOK, LedgerLockInv, Sound(p), Rollback(p)
  PROVE  LET entry == [Entry(p) EXCEPT !.held = Without(@, {p})]
         IN  /\ p \in ledgerLock /\ p \in DOMAIN Entry(p).held /\ todo[p] = <<"rollback">>
             /\ Replace(p, entry) /\ IsEntry(entry) /\ entry.committed = Entry(p).committed
             /\ entry.held = Without(Entry(p).held, {p})
             /\ Counting(entry) <= Counting(Entry(p))
<1>1. p \in ledgerLock /\ At(p, "rollback") /\ p \in DOMAIN Entry(p).held
  BY DEF Rollback, Section
<1>2. todo[p] = <<"rollback">>
  BY <1>1, WhatIsLeft DEF Sound
<1>3. IsEntry(Entry(p))
  BY <1>1, InLedger
<1> QED
  BY <1>1, <1>2, <1>3, FinishEntry DEF Rollback

\* A reservation that is finished is nowhere any more.
LEMMA FinishedDay ==
  ASSUME NEW p \in Client, ClientTypeOK, LedgerLockInv, Sound(p), p \in ledgerLock,
         NEW entry, IsEntry(entry), Replace(p, entry),
         entry.held = Without(Entry(p).held, {p})
  PROVE  /\ OthersStay(p)
         /\ \A d \in Day : p \notin DOMAIN ledger'[d].held
<1>1. /\ OthersStay(p) /\ ledger'[day[p]] = entry
      /\ \A d \in Day : d # day[p] => ledger'[d] = ledger[d]
  <2>1. \A q \in Client \ {p} :
           /\ q \in DOMAIN entry.held <=> q \in DOMAIN Entry(p).held
           /\ q \in DOMAIN Entry(p).held => entry.held[q] = Entry(p).held[q]
    BY DEF Without
  <2> QED
    BY <2>1, ReplacedDay
<1>2. p \notin DOMAIN entry.held
  BY DEF Without
<1> QED
  BY <1>1, <1>2 DEF Sound, HeldIsOwed

\* commit.
LEMMA CommitIsSound ==
  ASSUME NEW p \in Client, ClientTypeOK, LedgerLockInv, Sound(p), Commit(p)
  PROVE  OthersStay(p) /\ Sound(p)'
<1> DEFINE entry == [committed |-> Entry(p).committed + Entry(p).held[p],
                     held |-> Without(Entry(p).held, {p})]
<1>1. p \in ledgerLock /\ Replace(p, entry) /\ IsEntry(entry)
  BY CommitWrites
<1>2. todo[p] \in {<<"commit", "build">>, <<"commit">>, <<"commit", "mark_success">>}
  BY CommitWrites
<1>3. entry.held = Without(Entry(p).held, {p})
  OBVIOUS
<1> HIDE DEF entry
<1>4. OthersStay(p) /\ \A d \in Day : p \notin DOMAIN ledger'[d].held
  BY <1>1, <1>3, FinishedDay
<1>5. /\ todo'[p] = Tail(todo[p]) /\ offer'[p] = offer[p] /\ day'[p] = day[p]
      /\ verified'[p] = verified[p] /\ left'[p] = left[p] /\ report'[p] = report[p]
  BY <1>1 DEF Replace, Advance, Goto, Quiet, planVars, ClientTypeOK
<1>6. LeftIsOffered(p)' /\ day'[p] \in Day
  BY <1>5 DEF Sound, LeftIsOffered, ClientTypeOK
<1>7. CASE todo[p] = <<"commit", "build">>
  <2>1. todo'[p] \in Unbuilt
    BY <1>5, <1>7, HeadAndTail, KindOfPlan
  <2>2. verified[p] /\ report[p] = Silent /\ IsOffer(offer[p]) /\ ~offer[p].test
    BY <1>7, StageFacts DEF Sound
  <2>3. StageOf(p)' /\ ~Owing(p)'
    BY <1>5, <2>1, <2>2, KindsAreApart DEF StageOf, Owing
  <2> QED
    BY <1>4, <1>6, <2>3, SoundUnheld
<1>8. CASE todo[p] \in {<<"commit">>, <<"commit", "mark_success">>}
  <2>1. todo[p] \in Committing
    BY <1>8, KindOfPlan
  <2>2. verified[p] /\ report[p] = [code |-> "paid", paid |-> TRUE]
    BY <2>1, StageFacts DEF Sound
  <2>3. verified[p] = TRUE /\ report[p].code = "paid" /\ report[p].paid = TRUE
    BY <2>2 DEF ClientTypeOK
  <2>4. todo'[p] = <<>> \/ todo'[p] \in Closing
    <3>1. /\ Tail(<<"commit">>) = <<>>
          /\ Tail(<<"commit", "mark_success">>) = <<"mark_success">>
      BY HeadAndTail
    <3>2. todo'[p] \in {<<>>, <<"mark_success">>}
      BY <1>5, <1>8, <3>1
    <3> QED
      BY <3>2, KindOfPlan
  <2>5. StageOf(p)'
    BY <1>5, <2>3, <2>4 DEF StageOf
  <2>6. ~Owing(p)'
    BY <2>4, KindsAreApart DEF Owing
  <2> QED
    BY <1>4, <1>6, <2>5, <2>6, SoundUnheld
<1> QED
  BY <1>2, <1>7, <1>8

\* rollback.
LEMMA RollbackIsSound ==
  ASSUME NEW p \in Client, ClientTypeOK, LedgerLockInv, Sound(p), Rollback(p)
  PROVE  OthersStay(p) /\ Sound(p)'
<1> DEFINE entry == [Entry(p) EXCEPT !.held = Without(@, {p})]
<1>1. /\ p \in ledgerLock /\ Replace(p, entry) /\ IsEntry(entry)
      /\ entry.held = Without(Entry(p).held, {p})
  BY RollbackWrites
<1>2. todo[p] = <<"rollback">>
  BY RollbackWrites
<1> HIDE DEF entry
<1>3. OthersStay(p) /\ \A d \in Day : p \notin DOMAIN ledger'[d].held
  BY <1>1, FinishedDay
<1>4. /\ todo'[p] = Tail(todo[p]) /\ offer'[p] = offer[p] /\ day'[p] = day[p]
      /\ verified'[p] = verified[p] /\ left'[p] = left[p] /\ report'[p] = report[p]
  BY <1>1 DEF Replace, Advance, Goto, Quiet, planVars, ClientTypeOK
<1>5. todo'[p] = <<>>
  BY <1>2, <1>4, HeadAndTail
<1>6. LeftIsOffered(p)' /\ day'[p] \in Day
  BY <1>4 DEF Sound, LeftIsOffered, ClientTypeOK
<1>7. report[p].paid = verified[p]
  BY <1>2, KindOfPlan, StageFacts DEF Sound
<1>8. StageOf(p)' /\ ~Owing(p)'
  BY <1>4, <1>5, <1>7, KindsAreApart DEF StageOf, Owing
<1> QED
  BY <1>3, <1>6, <1>8, SoundUnheld
\* The ledger is read under its lock.
LEMMA LedgerReadIsSound ==
  ASSUME NEW p \in Client, ClientTypeOK, Sound(p), LedgerRead(p)
  PROVE  OthersStay(p) /\ Sound(p)'
<1>1. OthersStay(p) /\ SameHeld(p) /\ SameProcess(p) /\ day[p] \in Day
  BY LedgerStays DEF LedgerRead, OthersStay, SameProcess, ClientTypeOK, planVars
<1> QED
  BY <1>1, SoundStays

\* A reservation is refused.
LEMMA RefuseIsSound ==
  ASSUME NEW p \in Client, ClientTypeOK, Sound(p), Refuse(p)
  PROVE  OthersStay(p) /\ Sound(p)'
<1>1. OthersStay(p) /\ SameHeld(p) /\ day[p] \in Day
  BY LedgerStays
     DEF Refuse, OthersStay, SameProcess, ClientTypeOK, Finish, Goto, Say,
         planVars
<1>2. /\ todo[p] \in {<<"reserve", "skip">>, <<"reserve", "pay">>}
      /\ offer'[p] = offer[p] /\ day'[p] = day[p]
      /\ verified'[p] = verified[p] /\ left'[p] = left[p]
      /\ todo'[p] = <<>> /\ report'[p].paid = FALSE
  BY WhatIsLeft
     DEF Refuse, Section, Sound, planVars, Finish, Goto, Say, ClientTypeOK
<1>3. todo[p] \in Unreserved
  BY <1>2, KindOfPlan
<1>4. NotPaidYet(p) /\ ~Owing(p) /\ todo[p] # <<>>
  BY <1>3, StageFacts, OwingFacts, KindsAreApart DEF Sound
<1>5. verified[p] = FALSE
  BY <1>4 DEF NotPaidYet, ClientTypeOK
<1> QED
  BY <1>1, <1>2, <1>4, <1>5, SoundEnds

\* The ledger cannot be read or written.
LEMMA LedgerFailsIsSound ==
  ASSUME NEW p \in Client, ClientTypeOK, LedgerLockInv, Sound(p), LedgerFails(p)
  PROVE  OthersStay(p) /\ Sound(p)'
<1>1. OthersStay(p) /\ SameHeld(p) /\ day[p] \in Day
  <2>1. \A q \in Client \ {p} : todo'[q] = todo[q] /\ report'[q] = report[q]
    <3>1. At(p, "reserve") \/ At(p, "commit") \/ At(p, "rollback")
      BY InLedger DEF LedgerFails
    <3> QED
      BY <3>1 DEF LedgerFails, Finish, Raise, Goto, Say, At, ClientTypeOK
  <2>2. ledger' = ledger /\ UNCHANGED <<offer, day, verified, left>>
    BY DEF LedgerFails, planVars
  <2> QED
    BY <2>1, <2>2, LedgerStays DEF OthersStay, SameProcess, ClientTypeOK
<1>2. offer'[p] = offer[p] /\ day'[p] = day[p] /\ verified'[p] = verified[p] /\ left'[p] = left[p]
  BY DEF LedgerFails, planVars
<1>3. todo[p] # <<>> /\ (At(p, "reserve") \/ At(p, "commit") \/ At(p, "rollback"))
  BY InLedger DEF LedgerFails
<1>4. CASE At(p, "reserve")
  <2>1. todo'[p] = <<>> /\ report'[p].paid = FALSE
    <3>1. Finish(p, "policy_denied", FALSE)
      BY <1>4 DEF LedgerFails, At
    <3> QED
      BY <3>1 DEF Finish, Goto, Say, ClientTypeOK
  <2>2. todo[p] \in Unreserved
    BY <1>4, WhatIsLeft, KindOfPlan DEF Sound
  <2>3. NotPaidYet(p) /\ ~Owing(p)
    BY <2>2, StageFacts, OwingFacts DEF Sound
  <2>4. verified[p] = FALSE
    BY <2>3 DEF NotPaidYet, ClientTypeOK
  <2> QED
    BY <1>1, <1>2, <1>3, <2>1, <2>3, <2>4, SoundEnds
<1>5. CASE At(p, "commit")
  <2>1. /\ todo'[p] = <<>> /\ report'[p].paid = TRUE
        /\ report'[p].code = "budget_ledger_failure"
    <3>1. Finish(p, "budget_ledger_failure", TRUE)
      BY <1>5 DEF LedgerFails, At
    <3> QED
      BY <3>1 DEF Finish, Goto, Say, ClientTypeOK
  <2>2. todo[p] = <<"commit", "build">> \/ todo[p] \in Committing
    BY <1>5, WhatIsLeft, KindOfPlan DEF Sound
  <2>3. verified[p] = TRUE
    BY <2>2, StageFacts DEF Sound, ClientTypeOK
  <2> QED
    BY <1>1, <1>2, <1>3, <2>1, <2>3, SoundEnds
<1>6. CASE At(p, "rollback")
  <2>1. todo[p] \in Undoing
    BY <1>6, WhatIsLeft, KindOfPlan DEF Sound
  <2>2. report[p].code = "paid_retry_rejected" => verified[p]
    BY <2>1, StageFacts DEF Sound
  <2>3. CASE report[p].code = "paid_retry_rejected"
    <3>1. /\ todo'[p] = <<>> /\ report'[p].paid = TRUE
          /\ report'[p].code = "budget_ledger_failure"
      <4>1. Finish(p, "budget_ledger_failure", TRUE)
        BY <1>6, <2>3 DEF LedgerFails, At
      <4> QED
        BY <4>1 DEF Finish, Goto, Say, ClientTypeOK
    <3>2. verified[p] = TRUE
      BY <2>2, <2>3 DEF ClientTypeOK
    <3> QED
      BY <1>1, <1>2, <1>3, <3>1, <3>2, SoundEnds
  <2>4. CASE report[p].code # "paid_retry_rejected"
    <3>1. todo'[p] = <<>> /\ report'[p].code = "raised"
      <4>1. Raise(p)
        BY <1>6, <2>4 DEF LedgerFails, At
      <4> QED
        BY <4>1 DEF Raise, Finish, Goto, Say, ClientTypeOK
    <3> QED
      BY <1>1, <1>2, <1>3, <3>1, SoundEnds
  <2> QED
    BY <2>3, <2>4
<1> QED
  BY <1>3, <1>4, <1>5, <1>6

\* A process that is not at its end dies, or ends with an exception that nothing
\* catches, and writes nothing to the ledger.
Aborts(p) ==
  /\ todo[p] # <<>> /\ (Raise(p) \/ Finish(p, "crashed", FALSE))
  /\ UNCHANGED <<ledger, planVars, day>>

\* It stays sound, and nothing happens to the others.
LEMMA AbortIsSound ==
  ASSUME NEW p \in Client, ClientTypeOK, Sound(p), Aborts(p)
  PROVE  OthersStay(p) /\ Sound(p)'
<1>1. OthersStay(p) /\ SameHeld(p) /\ day[p] \in Day
  BY LedgerStays
     DEF Aborts, OthersStay, SameProcess, ClientTypeOK, Raise, Finish, Goto,
         Say, planVars
<1>2. /\ todo'[p] = <<>> /\ report'[p].code \in {"crashed", "raised"}
      /\ offer'[p] = offer[p] /\ day'[p] = day[p]
      /\ verified'[p] = verified[p] /\ left'[p] = left[p] /\ todo[p] # <<>>
  BY DEF Aborts, Raise, Finish, Goto, Say, ClientTypeOK, planVars
<1> QED
  BY <1>1, <1>2, SoundEnds
-----------------------------------------------------------------------------
(* The request: its steps in the credential file.                          *)

\* Who has the lock of the file is at a step of it.
LEMMA InFile ==
  ASSUME NEW p \in Client, FileLockInv, p \in fileLock
  PROVE  fileLock = {p} /\ todo[p] # <<>> /\ Head(todo[p]) \in CacheStep
BY DEF FileLockInv

\* The file is read, or truncated.
LEMMA CacheStays ==
  ASSUME NEW p \in Client, ClientTypeOK, Sound(p), CacheLoad(p) \/ CacheTruncate(p)
  PROVE  OthersStay(p) /\ Sound(p)'
<1>1. /\ ledger' = ledger /\ todo' = todo /\ UNCHANGED planVars
      /\ day' = day /\ report' = report
  BY DEF CacheLoad, CacheTruncate, ledgerVars
<1>2. OthersStay(p) /\ SameHeld(p) /\ SameProcess(p) /\ day[p] \in Day
  BY <1>1, LedgerStays DEF OthersStay, SameProcess, ClientTypeOK, planVars
<1> QED
  BY <1>2, SoundStays

\* What follows a step of the file.
LEMMA AfterCacheStep ==
  ASSUME NEW p, StageOf(p), todo[p] # <<>>, Head(todo[p]) \in CacheStep
  PROVE  \/ todo[p] = <<"purge">> /\ Tail(todo[p]) = <<>>
         \/ todo[p] \in Unoffered /\ Tail(todo[p]) \in Unoffered
         \/ todo[p] \in Unbuilt /\ Tail(todo[p]) \in Unbuilt
         \/ todo[p] \in Undoing /\ Tail(todo[p]) \in Undoing
         \/ todo[p] \in Closing /\ Tail(todo[p]) \in Closing \cup {<<>>}
<1>1. \/ At(p, "put") \/ At(p, "mark_success") \/ At(p, "mark_rejected")
      \/ At(p, "delete") \/ At(p, "purge")
  BY DEF At, CacheStep
<1>2. CASE At(p, "put")
  <2>1. todo[p] = <<"put", "retry">>
    BY <1>2, WhatIsLeft
  <2>2. Tail(<<"put", "retry">>) = <<"retry">>
    BY HeadAndTail
  <2> QED
    BY <2>1, <2>2, KindOfPlan
<1>3. CASE At(p, "mark_success")
  <2>1. todo[p] = <<"mark_success">>
    BY <1>3, WhatIsLeft
  <2>2. Tail(<<"mark_success">>) = <<>>
    BY HeadAndTail
  <2> QED
    BY <2>1, <2>2, KindOfPlan
<1>4. CASE At(p, "purge")
  <2>1. todo[p] = <<"purge">>
    BY <1>4, WhatIsLeft
  <2>2. Tail(<<"purge">>) = <<>>
    BY HeadAndTail
  <2> QED
    BY <2>1, <2>2
<1>5. CASE At(p, "mark_rejected")
  <2>1. \/ todo[p] = <<"mark_rejected", "delete", "send">>
        \/ todo[p] = <<"mark_rejected", "delete", "rollback">>
        \/ todo[p] = <<"mark_rejected", "delete">>
    BY <1>5, WhatIsLeft
  <2>2. /\ Tail(<<"mark_rejected", "delete", "send">>) = <<"delete", "send">>
        /\ Tail(<<"mark_rejected", "delete", "rollback">>) = <<"delete", "rollback">>
        /\ Tail(<<"mark_rejected", "delete">>) = <<"delete">>
    BY HeadAndTail
  <2>3. CASE todo[p] = <<"mark_rejected", "delete", "send">>
    BY <2>2, <2>3, KindOfPlan
  <2>4. CASE todo[p] = <<"mark_rejected", "delete", "rollback">>
    BY <2>2, <2>4, KindOfPlan
  <2>5. CASE todo[p] = <<"mark_rejected", "delete">>
    BY <2>2, <2>5, KindOfPlan
  <2> QED
    BY <2>1, <2>3, <2>4, <2>5
<1>6. CASE At(p, "delete")
  <2>1. \/ todo[p] = <<"delete", "send">> \/ todo[p] = <<"delete", "rollback">>
        \/ todo[p] = <<"delete">>
    BY <1>6, WhatIsLeft
  <2>2. /\ Tail(<<"delete", "send">>) = <<"send">>
        /\ Tail(<<"delete", "rollback">>) = <<"rollback">>
        /\ Tail(<<"delete">>) = <<>>
    BY HeadAndTail
  <2>3. CASE todo[p] = <<"delete", "send">>
    BY <2>2, <2>3, KindOfPlan
  <2>4. CASE todo[p] = <<"delete", "rollback">>
    BY <2>2, <2>4, KindOfPlan
  <2>5. CASE todo[p] = <<"delete">>
    BY <2>2, <2>5, KindOfPlan
  <2> QED
    BY <2>1, <2>3, <2>4, <2>5
<1> QED
  BY <1>1, <1>2, <1>3, <1>4, <1>5, <1>6

\* A step of the file is done.
LEMMA CacheStepIsSound ==
  ASSUME NEW p \in Client, ClientTypeOK, FileLockInv, Sound(p), CacheKept(p) \/ CacheWrite(p)
  PROVE  OthersStay(p) /\ Sound(p)'
<1>1. /\ ledger' = ledger /\ todo' = [todo EXCEPT ![p] = Tail(todo[p])]
      /\ UNCHANGED planVars /\ day' = day /\ report' = report /\ p \in fileLock
  BY DEF CacheKept, CacheWrite, Saving, Advance, Goto, ledgerVars
<1>2. OthersStay(p) /\ SameHeld(p) /\ day[p] \in Day
  BY <1>1, LedgerStays DEF OthersStay, SameProcess, ClientTypeOK, planVars
<1>3. /\ todo'[p] = Tail(todo[p]) /\ offer'[p] = offer[p] /\ day'[p] = day[p]
      /\ verified'[p] = verified[p] /\ left'[p] = left[p] /\ report'[p] = report[p]
  BY <1>1 DEF ClientTypeOK, planVars
<1>4. todo[p] # <<>> /\ Head(todo[p]) \in CacheStep
  BY <1>1, InFile
<1>5. LeftIsOffered(p)'
  BY <1>3 DEF Sound, LeftIsOffered
<1>6. ASSUME ~Owing(p), report[p].paid = verified[p], todo'[p] = <<>>
      PROVE  Sound(p)'
  BY <1>2, <1>3, <1>4, <1>6, SoundEnds
<1>7. CASE todo[p] = <<"purge">> /\ Tail(todo[p]) = <<>>
  <2>1. todo[p] \in Unoffered
    BY <1>7, KindOfPlan
  <2>2. NotPaidYet(p) /\ ~Owing(p)
    BY <2>1, StageFacts, OwingFacts DEF Sound
  <2>3. report[p].paid = FALSE
    BY <2>2 DEF NotPaidYet, Silent
  <2>4. verified[p] = FALSE
    BY <2>2 DEF NotPaidYet, ClientTypeOK
  <2> QED
    BY <1>2, <1>3, <1>6, <1>7, <2>2, <2>3, <2>4
<1>8. CASE todo[p] \in Unoffered /\ Tail(todo[p]) \in Unoffered
  <2>1. NotPaidYet(p) /\ ~left[p]
    BY <1>8, StageFacts DEF Sound
  <2>2. StageOf(p)'
    BY <1>3, <1>8, <2>1 DEF StageOf, NotPaidYet
  <2>3. Owing(p)' <=> Owing(p)
    BY <1>3, <1>8, KindsAreApart DEF Owing
  <2> QED
    BY <1>2, <1>3, <1>4, <1>5, <1>8, <2>2, <2>3, KindsAreApart, SoundGoesOn
<1>9. CASE todo[p] \in Unbuilt /\ Tail(todo[p]) \in Unbuilt
  <2>1. verified[p] /\ report[p] = Silent /\ IsOffer(offer[p])
    BY <1>9, StageFacts DEF Sound
  <2>2. StageOf(p)'
    BY <1>3, <1>9, <2>1 DEF StageOf
  <2>3. Owing(p)' <=> Owing(p)
    BY <1>3, <1>9, KindsAreApart DEF Owing
  <2> QED
    BY <1>2, <1>3, <1>4, <1>5, <1>9, <2>2, <2>3, KindsAreApart, SoundGoesOn
<1>10. CASE todo[p] \in Undoing /\ Tail(todo[p]) \in Undoing
  <2>1. /\ report[p].paid = verified[p] /\ IsOffer(offer[p])
        /\ report[p].code \in Undone /\ (report[p].code \in Failures \/ ~left[p])
        /\ report[p].code = "paid_retry_rejected" => verified[p]
    BY <1>10, StageFacts DEF Sound
  <2>2. StageOf(p)'
    BY <1>3, <1>10, <2>1 DEF StageOf
  <2>3. Owing(p)' <=> Owing(p)
    BY <1>3, <1>10, KindsAreApart DEF Owing
  <2> QED
    BY <1>2, <1>3, <1>4, <1>5, <1>10, <2>2, <2>3, KindsAreApart, SoundGoesOn
<1>11. CASE todo[p] \in Closing /\ Tail(todo[p]) \in Closing \cup {<<>>}
  <2>1. /\ report[p].paid = verified[p] /\ ~Owing(p)
        /\ report[p].code \in {"cached", "paid", "paid_retry_rejected"}
    BY <1>11, StageFacts, OwingFacts DEF Sound
  <2>2. CASE todo'[p] = <<>>
    BY <1>2, <1>6, <2>1, <2>2
  <2>3. CASE todo'[p] \in Closing
    <3>1. StageOf(p)'
      BY <1>3, <2>1, <2>3 DEF StageOf
    <3>2. ~Owing(p)'
      BY <2>3, KindsAreApart DEF Owing
    <3> QED
      BY <1>2, <1>3, <1>4, <1>5, <2>1, <2>3, <3>1, <3>2, KindsAreApart,
          SoundGoesOn
  <2> QED
    BY <1>3, <1>11, <2>2, <2>3
<1> QED
  BY <1>4, <1>7, <1>8, <1>9, <1>10, <1>11, AfterCacheStep DEF Sound
-----------------------------------------------------------------------------
(* What the steps of the request leave as it is, and the types.            *)

\* What else is said of another process stays.
OthersKeep(p) ==
  \A q \in Client \ {p} :
    option'[q] = option[q] /\ bearer'[q] = bearer[q] /\ barred'[q] = barred[q]

\* Neither lock is taken by a step of the request, and no file is written.
LEMMA RequestFrame ==
  ASSUME NEW p \in Client, ClientTypeOK, Boot(p) \/ RequestStep(p)
  PROVE  /\ UNCHANGED <<now, ledgerVars, cacheVars, ring>>
         /\ todo[p] # <<>> /\ Head(todo[p]) \notin LedgerStep \cup CacheStep
         /\ OthersKeep(p)
<1> USE DEF At, LedgerStep, CacheStep, OthersKeep, ClientTypeOK, planVars
<1>1. CASE Boot(p)
  BY <1>1 DEF Boot
<1>2. CASE Present(p)
  BY <1>2 DEF Present
<1>3. CASE SendPlain(p)
  BY <1>3 DEF SendPlain
<1>4. CASE Challenged(p)
  BY <1>4 DEF Challenged
<1>5. CASE Today(p)
  BY <1>5 DEF Today
<1>6. CASE WouldPay(p)
  BY <1>6 DEF WouldPay
<1>7. CASE Submit(p)
  BY <1>7 DEF Submit
<1>8. CASE Paid(p)
  BY <1>8 DEF Paid
<1>9. CASE NotPaid(p)
  BY <1>9 DEF NotPaid
<1>10. CASE Build(p)
  BY <1>10 DEF Build
<1>11. CASE Retry(p)
  BY <1>11 DEF Retry
<1> QED
  BY <1>1, <1>2, <1>3, <1>4, <1>5, <1>6, <1>7, <1>8, <1>9, <1>10, <1>11
     DEF RequestStep

\* The type of what a process says.
Reports == report = [p \in Client |-> report[p]] /\ \A p \in Client : IsReport(report[p])

\* It is kept.
LEMMA ReportTypes ==
  ASSUME NEW p \in Client, ClientTypeOK, NEW code, NEW paid \in BOOLEAN, Say(p, code, paid)
  PROVE  Reports'
<1>1. IsReport([code |-> code, paid |-> paid])
  BY DEF IsReport
<1>2. report' = [report EXCEPT ![p] = [code |-> code, paid |-> paid]]
  BY DEF Say
<1> DEFINE r == [code |-> code, paid |-> paid]
<1> HIDE DEF r
<1> QED
  BY <1>1, <1>2 DEF Reports, ClientTypeOK, r

\* A step of the request says a code, or nothing.
LEMMA RequestReports ==
  ASSUME NEW p \in Client, ClientTypeOK, Boot(p) \/ RequestStep(p)
  PROVE  Reports'
<1>1. CASE report' = report
  BY <1>1 DEF ClientTypeOK, Reports
<1>2. CASE NotPaid(p)
  <2>1. PICK failure \in Failures : Say(p, failure, FALSE)
    BY <1>2 DEF NotPaid
  <2> QED
    BY <2>1, ReportTypes
<1>3. CASE Present(p) \/ SendPlain(p) \/ Challenged(p)
  <2>1. \/ report' = report
        \/ Say(p, "network_failure", FALSE) \/ Say(p, "cached", FALSE)
        \/ Say(p, "cached_credential_rejected", FALSE) \/ Say(p, "unpaid", FALSE)
        \/ Say(p, "unsupported_402_challenge", FALSE) \/ Say(p, "policy_denied", FALSE)
    BY <1>3 DEF Present, SendPlain, Challenged, Finish, Quiet
  <2> QED
    BY <1>1, <2>1, ReportTypes
<1>4. CASE WouldPay(p) \/ Build(p) \/ Retry(p)
  <2>1. \/ report' = report
        \/ Say(p, "would_pay", FALSE) \/ Say(p, "credential_failure", TRUE)
        \/ Say(p, "retry_failure", TRUE) \/ Say(p, "paid_retry_rejected", TRUE)
        \/ Say(p, "paid", TRUE)
    BY <1>4 DEF WouldPay, Build, Retry, Quiet
  <2> QED
    BY <1>1, <2>1, ReportTypes
<1>5. CASE Boot(p) \/ Today(p) \/ Submit(p) \/ Paid(p)
  BY <1>1, <1>5 DEF Boot, Today, Submit, Paid, Quiet
<1> QED
  BY <1>2, <1>3, <1>4, <1>5 DEF RequestStep

\* The types of all.
LEMMA RequestTypes ==
  ASSUME NEW p \in Client, ClientTypeOK, Boot(p) \/ RequestStep(p)
  PROVE  ClientTypeOK'
<1>1. UNCHANGED <<now, ledgerVars, cacheVars, ring>>
  BY RequestFrame
<1>2. Reports'
  BY RequestReports
<1>3. /\ todo' = [q \in Client |-> todo'[q]] /\ option' = [q \in Client |-> option'[q]]
      /\ bearer' = [q \in Client |-> bearer'[q]] /\ offer' = [q \in Client |-> offer'[q]]
      /\ day' \in [Client -> Day] /\ barred' = [q \in Client |-> barred'[q]]
      /\ verified' \in [Client -> BOOLEAN] /\ left' \in [Client -> BOOLEAN]
  <2> USE DEF ClientTypeOK, planVars, Finish, Goto, Advance
  <2>1. CASE Boot(p)
    BY <2>1 DEF Boot
  <2>2. CASE Present(p)
    BY <2>2 DEF Present
  <2>3. CASE SendPlain(p)
    BY <2>3 DEF SendPlain
  <2>4. CASE Challenged(p)
    BY <2>4 DEF Challenged
  <2>5. CASE Today(p)
    BY <2>5 DEF Today
  <2>6. CASE WouldPay(p)
    BY <2>6 DEF WouldPay
  <2>7. CASE Submit(p)
    BY <2>7 DEF Submit
  <2>8. CASE Paid(p)
    BY <2>8 DEF Paid
  <2>9. CASE NotPaid(p)
    BY <2>9 DEF NotPaid
  <2>10. CASE Build(p)
    BY <2>10 DEF Build
  <2>11. CASE Retry(p)
    BY <2>11 DEF Retry
  <2> QED
    BY <2>1, <2>2, <2>3, <2>4, <2>5, <2>6, <2>7, <2>8, <2>9, <2>10, <2>11
       DEF RequestStep
<1> QED
  BY <1>1, <1>2, <1>3 DEF ClientTypeOK, Reports, ledgerVars, cacheVars

\* What a step of the request leaves to each process.
LEMMA RequestIsSound ==
  ASSUME NEW p \in Client, ClientTypeOK, Sound(p), Boot(p) \/ RequestStep(p)
  PROVE  OthersStay(p) /\ Sound(p)'
BY BootIsSound, PresentIsSound, SendPlainIsSound, ChallengedIsSound,
    TodayIsSound, WouldPayIsSound,
    SubmitIsSound, PaidIsSound, NotPaidIsSound, BuildIsSound, RetryIsSound DEF RequestStep

\* The type of the credentials that a step of the file makes.
LEMMA ChangedTypes ==
  ASSUME NEW p \in Client, Sound(p), NEW f, AreCredentials(f),
         todo[p] # <<>>, Head(todo[p]) \in CacheStep
  PROVE  AreCredentials(Changed(p, f))
<1>1. CASE At(p, "put")
  <2>1. todo[p] \in Unbuilt
    BY <1>1, WhatIsLeft, KindOfPlan DEF Sound
  <2>2. IsOffer(offer[p])
    BY <2>1, StageFacts DEF Sound
  <2>3. IsCredential(Minted(p))
    BY <2>2 DEF Minted, IsOffer, IsCredential
  <2>4. Changed(p, f) = With(f, bearer[p], Minted(p))
    BY <1>1 DEF Changed, At
  <2> QED
    BY <2>3, <2>4 DEF With, AreCredentials
<1>2. CASE At(p, "delete")
  <2>1. Changed(p, f) = Without(f, {bearer[p]})
    BY <1>2 DEF Changed, At
  <2> QED
    BY <2>1 DEF Without, AreCredentials
<1>3. CASE At(p, "purge")
  <2>1. Changed(p, f) = empty
    BY <1>3 DEF Changed, At
  <2> QED
    BY <2>1 DEF empty, AreCredentials
<1>4. CASE At(p, "mark_success") \/ At(p, "mark_rejected")
  <2> DEFINE b == bearer[p]
  <2>1. \/ Changed(p, f) = f
        \/ /\ b \in DOMAIN f
           /\ \/ Changed(p, f) = [f EXCEPT ![b] = [f[b] EXCEPT !.uses = f[b].uses + 1]]
              \/ Changed(p, f) = [f EXCEPT ![b] = [f[b] EXCEPT !.rejected = TRUE]]
    BY <1>4 DEF Changed, At
  <2>2. ASSUME NEW r, IsCredential(r)
        PROVE  IsCredential([r EXCEPT !.uses = r.uses + 1])
    <3>1. [r EXCEPT !.uses = r.uses + 1]
            = [protocol |-> r.protocol, expires |-> r.expires, maxUses |-> r.maxUses,
               uses |-> r.uses + 1, rejected |-> r.rejected]
      BY <2>2 DEF IsCredential
    <3>2. /\ r.expires \in Nat /\ r.maxUses \in Nat /\ r.uses + 1 \in Nat
          /\ r.rejected \in BOOLEAN
      BY <2>2 DEF IsCredential
    <3> QED
      BY <3>1, <3>2 DEF IsCredential
  <2>3. ASSUME NEW r, IsCredential(r)
        PROVE  IsCredential([r EXCEPT !.rejected = TRUE])
    <3>1. \A v : [r EXCEPT !.rejected = v]
            = [protocol |-> r.protocol, expires |-> r.expires, maxUses |-> r.maxUses,
               uses |-> r.uses, rejected |-> v]
      BY <2>3 DEF IsCredential
    <3>2. r.expires \in Nat /\ r.maxUses \in Nat /\ r.uses \in Nat
      BY <2>3 DEF IsCredential
    <3> QED
      BY <3>1, <3>2 DEF IsCredential
  <2>4. ASSUME NEW c \in DOMAIN f, NEW r, IsCredential(r)
        PROVE  AreCredentials([f EXCEPT ![c] = r])
    BY <2>4 DEF AreCredentials
  <2>5. b \in DOMAIN f => IsCredential(f[b])
    BY DEF AreCredentials
  <2> HIDE DEF b
  <2>6. b \in DOMAIN f =>
          /\ IsCredential([f[b] EXCEPT !.uses = f[b].uses + 1])
          /\ IsCredential([f[b] EXCEPT !.rejected = TRUE])
    BY <2>2, <2>3, <2>5
  <2> QED
    BY <2>1, <2>4, <2>6
<1> QED
  BY <1>1, <1>2, <1>3, <1>4 DEF At, CacheStep
-----------------------------------------------------------------------------
(* The types after the other steps.                                        *)

\* A write of the ledger replaces a day.
LEMMA WrittenDay ==
  ASSUME NEW p \in Client, ClientTypeOK, LedgerLockInv, Sound(p),
         Reserve(p) \/ Commit(p) \/ Rollback(p)
  PROVE  \E entry : IsEntry(entry) /\ p \in ledgerLock /\ Replace(p, entry)
<1>1. CASE Reserve(p)
  BY <1>1, ReserveWrites
<1>2. CASE Commit(p)
  BY <1>2, CommitWrites
<1>3. CASE Rollback(p)
  BY <1>3, RollbackWrites
<1> QED
  BY <1>1, <1>2, <1>3

\* The ledger.
LEMMA LedgerTypes ==
  ASSUME NEW p \in Client, ClientTypeOK, LedgerLockInv, Sound(p), LedgerSection(p)
  PROVE  ClientTypeOK'
<1>1. CASE Reserve(p) \/ Commit(p) \/ Rollback(p)
  <2>1. PICK entry : IsEntry(entry) /\ p \in ledgerLock /\ Replace(p, entry)
    BY <1>1, WrittenDay
  <2>2. ledger' = [ledger EXCEPT ![day[p]] = entry] /\ day[p] \in Day
    BY <2>1, InLedger DEF Replace
  <2>3. IsLedger(ledger')
    BY <2>1, <2>2 DEF ClientTypeOK, IsLedger
  <2>4. /\ seen' = [q \in Client |-> seen'[q]] /\ todo' = [q \in Client |-> todo'[q]]
        /\ UNCHANGED <<now, cacheVars, ring, planVars, day, report>>
    BY <2>1 DEF Replace, Unlock, Advance, Goto, Quiet, ClientTypeOK
  <2> QED
    BY <2>3, <2>4 DEF ClientTypeOK, cacheVars, planVars
<1>2. CASE LedgerRead(p)
  BY <1>2 DEF LedgerRead, ClientTypeOK, cacheVars, planVars
<1>3. CASE Refuse(p) \/ LedgerFails(p) \/ LedgerRaises(p)
  <2>1. /\ seen' = [q \in Client |-> seen'[q]]
        /\ UNCHANGED <<now, ledger, cacheVars, ring, planVars, day>>
    BY <1>3
       DEF Refuse, LedgerFails, LedgerRaises, Unlock, ledgerVars, ClientTypeOK
  <2>2. \/ Finish(p, "policy_denied", FALSE) \/ Finish(p, "budget_ledger_failure", TRUE)
        \/ Raise(p)
    <3>1. CASE Refuse(p)
      BY <3>1 DEF Refuse
    <3>2. CASE LedgerRaises(p)
      BY <3>2 DEF LedgerRaises
    <3>3. CASE LedgerFails(p)
      <4>1. At(p, "reserve") \/ At(p, "commit") \/ At(p, "rollback")
        BY <3>3, InLedger DEF LedgerFails
      <4> QED
        BY <3>3, <4>1 DEF LedgerFails, At
    <3> QED
      BY <1>3, <3>1, <3>2, <3>3
  <2>3. Reports' /\ todo' = [q \in Client |-> todo'[q]]
    BY <2>2, ReportTypes DEF Raise, Finish, Goto, ClientTypeOK
  <2> QED
    BY <2>1, <2>3 DEF ClientTypeOK, Reports, cacheVars, planVars
<1> QED
  BY <1>1, <1>2, <1>3 DEF LedgerSection

\* The file.
LEMMA CacheTypes ==
  ASSUME NEW p \in Client, ClientTypeOK, FileLockInv, Sound(p), CacheSection(p)
  PROVE  ClientTypeOK'
<1>1. /\ UNCHANGED <<now, ledgerVars, ring, planVars, day>>
      /\ loaded' = [q \in Client |-> loaded'[q]] /\ todo' = [q \in Client |-> todo'[q]]
      /\ disturbed' \in BOOLEAN
  <2>1. CASE CacheLoad(p)
    BY <2>1 DEF CacheLoad, ClientTypeOK
  <2>2. CASE CacheKept(p)
    BY <2>2 DEF CacheKept, UnlockFile, Advance, Goto, ClientTypeOK
  <2>3. CASE CacheTruncate(p)
    BY <2>3 DEF CacheTruncate, ClientTypeOK
  <2>4. CASE CacheWrite(p)
    BY <2>4 DEF CacheWrite, UnlockFile, Advance, Goto, ClientTypeOK
  <2>5. CASE CacheRaises(p)
    BY <2>5
       DEF CacheRaises, CutShort, UnlockFile, Raise, Finish, Goto, Saving,
           ClientTypeOK
  <2> QED
    BY <2>1, <2>2, <2>3, <2>4, <2>5 DEF CacheSection
<1>2. /\ file' = [whole |-> file'.whole, entries |-> file'.entries, ringed |-> file'.ringed]
      /\ file'.whole \in BOOLEAN
  <2>1. CASE CacheLoad(p) \/ CacheKept(p)
    BY <2>1 DEF CacheLoad, CacheKept, ClientTypeOK
  <2>2. CASE CacheTruncate(p)
    <3>1. \E r : file' = [NoFile EXCEPT !.ringed = r]
      BY <2>2 DEF CacheTruncate
    <3> QED
      BY <3>1 DEF NoFile
  <2>3. CASE CacheWrite(p)
    BY <2>3 DEF CacheWrite
  <2>4. CASE CacheRaises(p)
    <3>1. \E w \in BOOLEAN : file' = [file EXCEPT !.whole = w]
      BY <2>4 DEF CacheRaises, CutShort, Saving, ClientTypeOK
    <3>2. PICK w \in BOOLEAN : file' = [file EXCEPT !.whole = w]
      BY <3>1
    <3>3. file' = [whole |-> w, entries |-> file.entries, ringed |-> file.ringed]
      BY <3>2 DEF ClientTypeOK
    <3> QED
      BY <3>3
  <2> QED
    BY <2>1, <2>2, <2>3, <2>4 DEF CacheSection
<1>3. AreCredentials(kept')
  <2>1. CASE kept' = kept
    BY <2>1 DEF ClientTypeOK
  <2>2. CASE CacheWrite(p)
    <3>1. kept' = Changed(p, kept) /\ p \in fileLock
      BY <2>2 DEF CacheWrite, Saving
    <3> QED
      BY <3>1, InFile, ChangedTypes DEF ClientTypeOK
  <2> QED
    BY <2>1, <2>2
       DEF CacheSection, CacheLoad, CacheKept, CacheTruncate, CacheRaises
<1>4. Reports'
  <2>1. CASE report' = report
    BY <2>1 DEF Reports, ClientTypeOK
  <2>2. CASE CacheRaises(p)
    BY <2>2, ReportTypes DEF CacheRaises, Raise, Finish
  <2> QED
    BY <2>1, <2>2
       DEF CacheSection, CacheLoad, CacheKept, CacheTruncate, CacheWrite
<1> QED
  BY <1>1, <1>2, <1>3, <1>4 DEF ClientTypeOK, Reports, ledgerVars, planVars

\* A death.
LEMMA CrashTypes ==
  ASSUME NEW p \in Client, ClientTypeOK, Crash(p)
  PROVE  ClientTypeOK'
<1>1. /\ UNCHANGED <<now, ledger, secrets, kept, ring, planVars, day>>
      /\ seen' = [q \in Client |-> seen'[q]] /\ todo' = [q \in Client |-> todo'[q]]
      /\ loaded' = [q \in Client |-> loaded'[q]] /\ disturbed' \in BOOLEAN
  BY DEF Crash, Finish, Goto, Unlock, UnlockFile, CutShort, Saving, ClientTypeOK
<1>2. \E w \in BOOLEAN : file' = [file EXCEPT !.whole = w]
  BY DEF Crash, CutShort, Saving, ClientTypeOK
<1>3. PICK w \in BOOLEAN : file' = [file EXCEPT !.whole = w]
  BY <1>2
<1>4. file' = [whole |-> w, entries |-> file.entries, ringed |-> file.ringed]
  BY <1>3 DEF ClientTypeOK
<1>5. /\ file' = [whole |-> file'.whole, entries |-> file'.entries, ringed |-> file'.ringed]
      /\ file'.whole \in BOOLEAN
  BY <1>4
<1>6. Reports'
  BY ReportTypes DEF Crash, Finish
<1> QED
  BY <1>1, <1>5, <1>6 DEF ClientTypeOK, Reports, planVars

\* The environment.
LEMMA EnvironmentTypes ==
  ASSUME ClientTypeOK, RingChanges \/ Tick
  PROVE  ClientTypeOK'
<1>1. now' \in Day /\ ring' \in BOOLEAN
  <2>1. LastDay \in Nat
    BY ClientAssumption
  <2>2. now' = now \/ (now < LastDay /\ now' = now + 1)
    BY DEF RingChanges, Tick
  <2>3. now' \in Day
    BY <2>1, <2>2 DEF ClientTypeOK, Day
  <2>4. ring' \in BOOLEAN
    BY DEF RingChanges, Tick, ClientTypeOK
  <2> QED
    BY <2>3, <2>4
<1>2. UNCHANGED <<ledgerVars, cacheVars, todo, planVars, day, report>>
  BY DEF RingChanges, Tick
<1> QED
  BY <1>1, <1>2 DEF ClientTypeOK, ledgerVars, cacheVars, planVars
-----------------------------------------------------------------------------
(* The two locks.                                                          *)

\* Who is not in the ledger leaves its lock alone.
LEMMA LedgerLockStays ==
  ASSUME LedgerLockInv, UNCHANGED ledgerVars, \A q \in ledgerLock : todo'[q] = todo[q]
  PROVE  LedgerLockInv'
BY DEF LedgerLockInv, ledgerVars

\* Who is not in the credential file leaves its lock alone.
LEMMA FileLockStays ==
  ASSUME FileLockInv, UNCHANGED <<file, fileLock>>, \A q \in fileLock : todo'[q] = todo[q]
  PROVE  FileLockInv'
BY DEF FileLockInv

\* No step is one of both files.
LEMMA StepsAreApart == LedgerStep \cap CacheStep = {}
BY DEF LedgerStep, CacheStep

\* Each lock has one holder, who has read what the file holds.
LEMMA LedgerLockKept ==
  ASSUME NEW p \in Client, ClientTypeOK, LedgerLockInv, FileLockInv, OthersStay(p),
         Boot(p) \/ Progress(p) \/ Crash(p)
  PROVE  LedgerLockInv'
<1>1. \A q \in Client \ {p} : todo'[q] = todo[q]
  BY DEF OthersStay, SameProcess
<1>2. ledgerLock \subseteq Client
  BY DEF LedgerLockInv
<1>3. CASE Boot(p) \/ RequestStep(p)
  <2>1. UNCHANGED ledgerVars /\ p \notin ledgerLock
    BY <1>3, RequestFrame DEF LedgerLockInv
  <2> QED
    BY <1>1, <1>2, <2>1, LedgerLockStays
<1>4. CASE LedgerRead(p)
  BY <1>4 DEF LedgerRead, LedgerLockInv, ClientTypeOK
<1>5. CASE Refuse(p) \/ Reserve(p) \/ Commit(p) \/ Rollback(p) \/ LedgerFails(p)
  <2>1. p \in ledgerLock /\ ledgerLock' = ledgerLock \ {p}
    BY <1>5
       DEF Refuse, Reserve, Commit, Rollback, LedgerFails, Section, Replace,
           Unlock
  <2>2. ledgerLock' = {}
    BY <2>1, InLedger
  <2> QED
    BY <2>2 DEF LedgerLockInv
<1>6. CASE LedgerRaises(p)
  <2>1. UNCHANGED ledgerVars /\ p \notin ledgerLock
    BY <1>6 DEF LedgerRaises
  <2> QED
    BY <1>1, <1>2, <2>1, LedgerLockStays
<1>7. CASE CacheSection(p)
  <2>1. UNCHANGED ledgerVars /\ todo[p] # <<>> /\ Head(todo[p]) \in CacheStep
    BY <1>7, InFile
       DEF CacheSection, CacheLoad, CacheKept, CacheTruncate, CacheWrite,
           CacheRaises, Saving
  <2>2. p \notin ledgerLock
    BY <2>1, StepsAreApart DEF LedgerLockInv
  <2> QED
    BY <1>1, <1>2, <2>1, <2>2, LedgerLockStays
<1>8. CASE Crash(p)
  <2>1. /\ ledgerLock' = ledgerLock \ {p} /\ ledger' = ledger
        /\ \A q \in Client \ {p} : seen'[q] = seen[q]
    BY <1>8 DEF Crash, Unlock, ClientTypeOK
  <2> QED
    BY <1>1, <2>1 DEF LedgerLockInv
<1> QED
  BY <1>3, <1>4, <1>5, <1>6, <1>7, <1>8 DEF Progress, LedgerSection

\* The lock of the credential file.
LEMMA FileLockKept ==
  ASSUME NEW p \in Client, ClientTypeOK, LedgerLockInv, FileLockInv, OthersStay(p),
         Boot(p) \/ Progress(p) \/ Crash(p)
  PROVE  FileLockInv'
<1>1. \A q \in Client \ {p} : todo'[q] = todo[q]
  BY DEF OthersStay, SameProcess
<1>2. fileLock \subseteq Client
  BY DEF FileLockInv
<1>3. CASE Boot(p) \/ RequestStep(p)
  <2>1. UNCHANGED <<file, fileLock>> /\ p \notin fileLock
    BY <1>3, RequestFrame DEF FileLockInv, cacheVars
  <2> QED
    BY <1>1, <1>2, <2>1, FileLockStays
<1>4. CASE LedgerSection(p)
  <2>1. UNCHANGED cacheVars
    BY <1>4
       DEF LedgerSection, LedgerRead, Refuse, Reserve, Commit, Rollback,
           LedgerFails,
           LedgerRaises, Replace
  <2>2. p \in ledgerLock \/ (todo[p] # <<>> /\ Head(todo[p]) \in LedgerStep)
    BY <1>4
       DEF LedgerSection, LedgerRead, Refuse, Reserve, Commit, Rollback,
           LedgerFails,
           LedgerRaises, Section
  <2>3. todo[p] # <<>> /\ Head(todo[p]) \in LedgerStep
    BY <2>2 DEF LedgerLockInv
  <2>4. p \notin fileLock
    BY <2>3, StepsAreApart DEF FileLockInv
  <2> QED
    BY <1>1, <1>2, <2>1, <2>4, FileLockStays DEF cacheVars
<1>5. CASE CacheLoad(p)
  BY <1>5 DEF CacheLoad, FileLockInv
<1>6. CASE CacheKept(p)
  <2>1. fileLock = {p} /\ fileLock' = fileLock \ {p} /\ file' = file /\ file.whole
    BY <1>6, InFile DEF CacheKept, UnlockFile, Saving
  <2> QED
    BY <2>1 DEF FileLockInv
<1>7. CASE CacheTruncate(p)
  <2>1. fileLock = {p} /\ fileLock' = fileLock /\ todo' = todo
    BY <1>7, InFile DEF CacheTruncate
  <2>2. todo[p] # <<>> /\ Head(todo[p]) \in CacheStep
    BY <1>7, InFile DEF CacheTruncate
  <2> QED
    BY <2>1, <2>2 DEF FileLockInv
<1>8. CASE CacheWrite(p)
  <2>1. fileLock = {p} /\ fileLock' = fileLock \ {p}
    BY <1>8, InFile DEF CacheWrite, UnlockFile, Saving
  <2>2. file'.whole = TRUE
    BY <1>8 DEF CacheWrite
  <2> QED
    BY <2>1, <2>2 DEF FileLockInv
<1>9. CASE CacheRaises(p) \/ Crash(p)
  <2>1. fileLock' = fileLock \ {p} /\ CutShort(p)
    BY <1>9 DEF CacheRaises, Crash, UnlockFile
  <2>2. file'.whole = (file.whole \/ Saving(p))
    BY <2>1 DEF CutShort, ClientTypeOK
  <2>3. CASE p \in fileLock
    <3>1. fileLock' = {}
      BY <2>1, <2>3, InFile
    <3>2. file'.whole
      BY <2>2, <2>3 DEF Saving
    <3> QED
      BY <3>1, <3>2 DEF FileLockInv
  <2>4. CASE p \notin fileLock
    <3>1. fileLock' = fileLock
      BY <2>1, <2>4
    <3>2. file'.whole = file.whole
      BY <2>2, <2>4 DEF Saving, ClientTypeOK
    <3> QED
      BY <1>1, <1>2, <2>4, <3>1, <3>2 DEF FileLockInv
  <2> QED
    BY <2>3, <2>4
<1> QED
  BY <1>3, <1>4, <1>5, <1>6, <1>7, <1>8, <1>9 DEF Progress, CacheSection
-----------------------------------------------------------------------------
(* The credential file.                                                    *)

\* To be a part, by elements.
LEMMA PartByElements ==
  ASSUME NEW f, NEW g, f = [c \in DOMAIN f |-> f[c]], DOMAIN f \subseteq DOMAIN g,
         \A c \in DOMAIN f : f[c] = g[c]
  PROVE  PartOf(f, g)
BY DEF PartOf

\* A step makes of a part of the credentials a part of what it makes of all.
LEMMA ChangedPart ==
  ASSUME NEW p, NEW f, NEW g, PartOf(f, g), todo[p] # <<>>, Head(todo[p]) \in CacheStep
  PROVE  PartOf(Changed(p, f), Changed(p, g))
<1>1. /\ f = [c \in DOMAIN f |-> f[c]] /\ DOMAIN f \subseteq DOMAIN g
      /\ \A c \in DOMAIN f : f[c] = g[c]
  BY DEF PartOf
<1>2. CASE At(p, "put")
  <2>1. \A h : Changed(p, h) = With(h, bearer[p], Minted(p))
    BY <1>2 DEF Changed, At
  <2>2. \A x, y : PartOf(With(f, x, y), With(g, x, y))
    BY <1>1, PartByElements DEF With
  <2> QED
    BY <2>1, <2>2
<1>3. CASE At(p, "delete")
  <2>1. \A h : Changed(p, h) = Without(h, {bearer[p]})
    BY <1>3 DEF Changed, At
  <2>2. \A X : PartOf(Without(f, X), Without(g, X))
    BY <1>1, PartByElements DEF Without
  <2> QED
    BY <2>1, <2>2
<1>4. CASE At(p, "purge")
  <2>1. \A h : Changed(p, h) = empty
    BY <1>4 DEF Changed, At
  <2> QED
    BY <2>1 DEF empty, PartOf
<1>5. CASE At(p, "mark_success") \/ At(p, "mark_rejected")
  <2> DEFINE b == bearer[p]
  <2>1. b \notin DOMAIN f => PartOf(f, Changed(p, g))
    <3>1. \/ Changed(p, g) = g
          \/ \E r : Changed(p, g) = [g EXCEPT ![b] = r]
      BY <1>5 DEF Changed, At
    <3> HIDE DEF b
    <3>2. ASSUME b \notin DOMAIN f, NEW r
          PROVE  PartOf(f, [g EXCEPT ![b] = r])
      BY <1>1, <3>2, PartByElements
    <3>3. PartOf(f, g)
      OBVIOUS
    <3> QED
      BY <3>1, <3>2, <3>3
  <2>2. b \notin DOMAIN f => Changed(p, f) = f
    BY <1>5 DEF Changed, At
  <2>3. b \in DOMAIN f => \E r : /\ Changed(p, f) = [f EXCEPT ![b] = r]
                               /\ Changed(p, g) = [g EXCEPT ![b] = r]
    <3>1. ASSUME At(p, "mark_success"), b \in DOMAIN f
          PROVE  LET r == [g[b] EXCEPT !.uses = g[b].uses + 1]
                 IN  Changed(p, f) = [f EXCEPT ![b] = r] /\ Changed(p, g) = [g EXCEPT ![b] = r]
      BY <1>1, <3>1 DEF Changed, At
    <3>2. ASSUME At(p, "mark_rejected"), b \in DOMAIN f
          PROVE  LET r == [g[b] EXCEPT !.rejected = TRUE]
                 IN  Changed(p, f) = [f EXCEPT ![b] = r] /\ Changed(p, g) = [g EXCEPT ![b] = r]
      BY <1>1, <3>2 DEF Changed, At
    <3> QED
      BY <1>5, <3>1, <3>2
  <2> HIDE DEF b
  <2>4. ASSUME b \in DOMAIN f, NEW r
        PROVE  PartOf([f EXCEPT ![b] = r], [g EXCEPT ![b] = r])
    BY <1>1, <2>4, PartByElements
  <2> QED
    BY <2>1, <2>2, <2>3, <2>4
<1> QED
  BY <1>2, <1>3, <1>4, <1>5 DEF At, CacheStep

\* What a process is about to make stays, when nothing happens to it.
LEMMA ChangedStays ==
  ASSUME NEW q, kept' = kept, todo'[q] = todo[q], bearer'[q] = bearer[q],
         offer'[q] = offer[q], option'[q] = option[q]
  PROVE  Changed(q, kept)' = Changed(q, kept)
BY DEF Changed, At, Minted

\* A step that is not one of the file.
LEMMA FileStays ==
  ASSUME FileInv, UNCHANGED <<file, fileLock, kept, disturbed>>,
         \A q \in fileLock :
           /\ loaded'[q] = loaded[q] /\ todo'[q] = todo[q] /\ bearer'[q] = bearer[q]
           /\ offer'[q] = offer[q] /\ option'[q] = option[q]
  PROVE  FileInv'
<1>1. \A q \in fileLock : Changed(q, kept)' = Changed(q, kept)
  BY ChangedStays
<1>2. /\ file' = file /\ fileLock' = fileLock /\ kept' = kept /\ disturbed' = disturbed
  OBVIOUS
<1>3. PartOf(file.entries, kept)'
  BY <1>2 DEF FileInv
<1>4. (file.whole => \A q \in fileLock : PartOf(loaded[q], kept))'
  BY <1>2 DEF FileInv
<1>5. (~file.whole => \A q \in fileLock : PartOf(loaded[q], Changed(q, kept)))'
  BY <1>1, <1>2 DEF FileInv
<1>6. (~disturbed =>
         /\ file.whole => file.entries = kept /\ \A q \in fileLock : loaded[q] = kept
         /\ ~file.whole => \A q \in fileLock : loaded[q] = Changed(q, kept))'
  BY <1>1, <1>2 DEF FileInv
<1> QED
  BY <1>3, <1>4, <1>5, <1>6 DEF FileInv

\* The file holds what the processes made, or a part of it.
LEMMA FileKept ==
  ASSUME NEW p \in Client, ClientTypeOK, LedgerLockInv, FileLockInv, FileInv,
         OthersStay(p), Boot(p) \/ Progress(p) \/ Crash(p)
  PROVE  FileInv'
<1>1. \A q \in Client \ {p} : todo'[q] = todo[q] /\ offer'[q] = offer[q]
  BY DEF OthersStay, SameProcess
<1>2. fileLock \subseteq Client
  BY DEF FileLockInv
<1>3. CASE Boot(p) \/ RequestStep(p)
  <2>1. UNCHANGED cacheVars /\ p \notin fileLock /\ OthersKeep(p)
    BY <1>3, RequestFrame DEF FileLockInv
  <2>2. UNCHANGED <<file, fileLock, loaded, kept, disturbed>>
    BY <2>1 DEF cacheVars
  <2> QED
    BY <1>1, <1>2, <2>1, <2>2, FileStays DEF OthersKeep
<1>4. CASE LedgerSection(p)
  <2>1. UNCHANGED <<cacheVars, planVars>>
    BY <1>4
       DEF LedgerSection, LedgerRead, Refuse, Reserve, Commit, Rollback,
           LedgerFails,
           LedgerRaises, Replace
  <2>2. p \in ledgerLock \/ (todo[p] # <<>> /\ Head(todo[p]) \in LedgerStep)
    BY <1>4
       DEF LedgerSection, LedgerRead, Refuse, Reserve, Commit, Rollback,
           LedgerFails,
           LedgerRaises, Section
  <2>3. p \notin fileLock
    BY <2>2, StepsAreApart DEF FileLockInv, LedgerLockInv
  <2>4. UNCHANGED <<file, fileLock, loaded, kept, disturbed, bearer, option>>
    BY <2>1 DEF cacheVars, planVars
  <2> QED
    BY <1>1, <1>2, <2>3, <2>4, FileStays
<1>5. CASE CacheLoad(p)
  <2>1. /\ fileLock = {} /\ fileLock' = {p} /\ file' = file /\ kept' = kept
        /\ loaded'[p] = Loaded /\ disturbed' = (disturbed \/ Found # DOMAIN file.entries)
    BY <1>5 DEF CacheLoad, ClientTypeOK
  <2>2. file.whole
    BY <2>1 DEF FileLockInv
  <2>3. PartOf(file.entries, kept)
    BY DEF FileInv
  <2>4. PartOf(Loaded, kept)
    BY <2>3 DEF Loaded, Found, PartOf
  <2>5. ~disturbed' => ~disturbed /\ Found = DOMAIN file.entries
    BY <2>1
  <2>6. ~disturbed => file.entries = kept
    BY <2>2 DEF FileInv
  <2>7. ~disturbed' => Loaded = kept
    BY <2>5, <2>6 DEF Loaded, ClientTypeOK, AreCredentials
  <2> QED
    BY <2>1, <2>2, <2>3, <2>4, <2>5, <2>6, <2>7 DEF FileInv
<1>6. CASE CacheKept(p)
  <2>1. /\ fileLock' = {} /\ file' = file /\ kept' = kept /\ disturbed' = disturbed /\ file.whole
    BY <1>6, InFile DEF CacheKept, UnlockFile, Saving
  <2> QED
    BY <2>1 DEF FileInv
<1>7. CASE CacheTruncate(p)
  <2>1. /\ fileLock = {p} /\ fileLock' = {p} /\ kept' = kept /\ disturbed' = disturbed
        /\ todo' = todo /\ UNCHANGED planVars /\ file.whole
        /\ loaded'[p] = Changed(p, loaded[p])
    BY <1>7, InFile DEF CacheTruncate, Saving, ClientTypeOK
  <2>2. \E r : file' = [NoFile EXCEPT !.ringed = r]
    BY <1>7 DEF CacheTruncate
  <2>3. file'.entries = empty /\ ~file'.whole
    BY <2>2 DEF NoFile
  <2>4. Changed(p, kept)' = Changed(p, kept)
    BY <2>1, ChangedStays DEF planVars
  <2>5. PartOf(loaded[p], kept) /\ (~disturbed => loaded[p] = kept)
    BY <2>1 DEF FileInv
  <2>6. PartOf(Changed(p, loaded[p]), Changed(p, kept))
    <3>1. todo[p] # <<>> /\ Head(todo[p]) \in CacheStep
      BY <2>1, InFile
    <3> QED
      BY <2>5, <3>1, ChangedPart
  <2>7. PartOf(empty, kept)
    BY DEF PartOf, empty
  <2> QED
    BY <2>1, <2>3, <2>4, <2>5, <2>6, <2>7 DEF FileInv
<1>8. CASE CacheWrite(p)
  <2>1. /\ fileLock = {p} /\ fileLock' = {} /\ kept' = Changed(p, kept)
        /\ disturbed' = disturbed /\ ~file.whole
    BY <1>8, InFile DEF CacheWrite, UnlockFile, Saving
  <2>2. file'.entries = loaded[p] /\ file'.whole = TRUE
    BY <1>8 DEF CacheWrite
  <2>3. /\ PartOf(loaded[p], Changed(p, kept))
        /\ ~disturbed => loaded[p] = Changed(p, kept)
    BY <2>1 DEF FileInv
  <2> QED
    BY <2>1, <2>2, <2>3 DEF FileInv
<1>9. CASE CacheRaises(p) \/ Crash(p)
  <2>1. /\ fileLock' = fileLock \ {p} /\ CutShort(p) /\ kept' = kept /\ UNCHANGED planVars
        /\ \A q \in Client \ {p} : loaded'[q] = loaded[q]
    BY <1>9 DEF CacheRaises, Crash, UnlockFile, ClientTypeOK
  <2>2. /\ file'.whole = (file.whole \/ Saving(p)) /\ file'.entries = file.entries
        /\ disturbed' = (disturbed \/ Saving(p))
    BY <2>1 DEF CutShort, ClientTypeOK
  <2>3. CASE p \in fileLock
    <3>1. fileLock' = {}
      BY <2>1, <2>3, InFile
    <3>2. file'.whole
      BY <2>2, <2>3 DEF Saving
    <3>3. ~disturbed' => ~disturbed /\ file.whole
      BY <2>2, <2>3 DEF Saving
    <3> QED
      BY <2>1, <2>2, <3>1, <3>2, <3>3 DEF FileInv
  <2>4. CASE p \notin fileLock
    <3>1. fileLock' = fileLock /\ ~Saving(p)
      BY <2>1, <2>4 DEF Saving
    <3>2. disturbed' = disturbed
      BY <2>2, <3>1 DEF ClientTypeOK
    <3>3. file' = file
      <4>1. file' = [file EXCEPT !.whole = file.whole \/ Saving(p)]
        BY <2>1 DEF CutShort
      <4>2. (file.whole \/ Saving(p)) = file.whole
        BY <3>1 DEF ClientTypeOK
      <4> QED
        BY <4>1, <4>2 DEF ClientTypeOK
    <3> QED
      BY <1>1, <1>2, <2>1, <2>4, <3>1, <3>2, <3>3, FileStays DEF planVars
  <2> QED
    BY <2>3, <2>4
<1> QED
  BY <1>3, <1>4, <1>5, <1>6, <1>7, <1>8, <1>9 DEF Progress, CacheSection
-----------------------------------------------------------------------------
(* What a process presents.                                                *)

\* No sequence of steps leaves the credential to be presented.
LEMMA NoTailPresents ==
  ASSUME NEW p, StageOf(p), todo[p] # <<>>
  PROVE  Tail(todo[p]) # <<"present">>
<1>1. todo[p] \in Plans
  BY DEF StageOf, Plans
<1>2. /\ \A a : Tail(<<a>>) # <<"present">>
      /\ \A a, b : b # "present" => Tail(<<a, b>>) # <<"present">>
      /\ \A a, b, c : Tail(<<a, b, c>>) # <<"present">>
  BY HeadAndTail
<1>3. \A t \in Unoffered \cup Unreserved : Tail(t) # <<"present">>
  BY <1>2 DEF Unoffered, Unreserved, Start
<1>4. \A t \in Unpaid \cup Unbuilt \cup Undoing : Tail(t) # <<"present">>
  BY <1>2 DEF Unpaid, Unbuilt, Undoing
<1>5. \A t \in Committing \cup Closing \cup {<<"answer">>, <<"commit", "build">>} :
        Tail(t) # <<"present">>
  BY <1>2 DEF Committing, Closing
<1> QED
  BY <1>1, <1>3, <1>4, <1>5 DEF Plans

\* A process that presents a credential does nothing else before it.
LEMMA PresentIsAlone ==
  ASSUME NEW p, Sound(p)', At(p, "present")'
  PROVE  todo'[p] = <<"present">>
<1>1. todo'[p] \in Plans \/ todo'[p] = <<>>
  BY DEF Sound, StageOf, Plans
<1> QED
  BY <1>1, HeadAndTail
     DEF At, Plans, Unoffered, Unreserved, Unpaid, Unbuilt, Undoing, Committing,
         Closing, Start

\* Only a start makes a process present a credential.
LEMMA OnlyBootPresents ==
  ASSUME NEW p \in Client, ClientTypeOK, LedgerLockInv, FileLockInv, Sound(p), Sound(p)',
         Progress(p) \/ Crash(p), At(p, "present")'
  PROVE  todo'[p] = todo[p]
<1>1. SUFFICES ASSUME todo'[p] # todo[p], todo'[p] = <<"present">>
      PROVE  FALSE
  BY PresentIsAlone
<1>2. ~(todo'[p] = Tail(todo[p]) /\ todo[p] # <<>>)
  BY <1>1, NoTailPresents DEF Sound
<1>3. todo'[p] # <<>>
  BY <1>1
<1>4. CASE RequestStep(p)
  <2>1. CASE Present(p)
    <3>1. todo'[p] \in {<<>>, <<"mark_success">>, <<"mark_rejected", "delete", "send">>}
      BY <2>1 DEF Present, Finish, Goto, ClientTypeOK
    <3> QED
      BY <1>1, <3>1
  <2>2. CASE SendPlain(p) \/ WouldPay(p) \/ Submit(p) \/ NotPaid(p)
    <3>1. todo'[p] \in {<<>>, <<"rollback">>, <<"answer">>}
      BY <2>2
         DEF SendPlain, WouldPay, Submit, NotPaid, Finish, Goto, ClientTypeOK
    <3> QED
      BY <1>1, <3>1
  <2>3. CASE Challenged(p)
    <3>1. todo'[p] \in {<<>>, <<"today", "reserve", "skip">>, <<"today", "reserve", "pay">>}
      <4>1. \/ Goto(p, <<>>)
            \/ Goto(p, <<"today", "reserve">> \o IF option[p].noPay THEN <<"skip">> ELSE <<"pay">>)
        BY <2>3 DEF Challenged, Finish
      <4> QED
        BY <4>1, OneMore DEF Goto, ClientTypeOK
    <3> QED
      BY <1>1, <3>1
  <2>4. CASE Today(p)
    BY <1>2, <2>4 DEF Today, Advance, Goto, At, ClientTypeOK
  <2>5. CASE Paid(p)
    <3>1. todo'[p] \in {<<"build">>, <<"commit", "build">>}
      BY <2>5, OneMore DEF Paid, When, Goto, ClientTypeOK
    <3> QED
      BY <1>1, <3>1
  <2>6. CASE Build(p)
    <3>1. todo'[p] \in {<<"retry">>, <<"put", "retry">>, <<"rollback">>, <<>>}
      BY <2>6, OneMore DEF Build, When, Uncommitted, Goto, ClientTypeOK
    <3> QED
      BY <1>1, <3>1
  <2>7. CASE Retry(p)
    <3>1. todo'[p] \in {<<"rollback">>, <<>>, <<"mark_rejected", "delete", "rollback">>,
                        <<"mark_rejected", "delete">>, <<"commit", "mark_success">>,
                        <<"commit">>, <<"mark_success">>}
      <4>1. CASE Goto(p, Uncommitted(p, "rollback"))
        BY <4>1 DEF When, Uncommitted, Goto, ClientTypeOK
      <4>2. CASE Goto(p, When(Cacheable(p), <<"mark_rejected", "delete">>)
                         \o Uncommitted(p, "rollback"))
        BY <4>2, OneMore DEF When, Uncommitted, Goto, ClientTypeOK
      <4>3. CASE Goto(p, Uncommitted(p, "commit") \o When(Cacheable(p), <<"mark_success">>))
        BY <4>3, OneMore DEF When, Uncommitted, Goto, ClientTypeOK
      <4> QED
        BY <2>7, <4>1, <4>2, <4>3 DEF Retry
    <3> QED
      BY <1>1, <3>1
  <2> QED
    BY <1>4, <2>1, <2>2, <2>3, <2>4, <2>5, <2>6, <2>7 DEF RequestStep
<1>5. CASE LedgerSection(p)
  <2>1. CASE LedgerRead(p)
    BY <1>1, <2>1 DEF LedgerRead
  <2>2. CASE Refuse(p) \/ LedgerRaises(p)
    BY <1>3, <2>2 DEF Refuse, LedgerRaises, Raise, Finish, Goto, ClientTypeOK
  <2>3. CASE LedgerFails(p)
    <3>1. At(p, "reserve") \/ At(p, "commit") \/ At(p, "rollback")
      BY <2>3, InLedger DEF LedgerFails
    <3>2. Finish(p, "policy_denied", FALSE) \/ Finish(p, "budget_ledger_failure", TRUE) \/ Raise(p)
      BY <2>3, <3>1 DEF LedgerFails, At
    <3> QED
      BY <1>3, <3>2 DEF Raise, Finish, Goto, ClientTypeOK
  <2>4. CASE Reserve(p) \/ Commit(p) \/ Rollback(p)
    <3>1. todo'[p] = Tail(todo[p]) /\ p \in ledgerLock
      BY <2>4
         DEF Reserve, Commit, Rollback, Replace, Section, Advance, Goto,
             ClientTypeOK
    <3> QED
      BY <1>2, <3>1, InLedger
  <2> QED
    BY <1>5, <2>1, <2>2, <2>3, <2>4 DEF LedgerSection
<1>6. CASE CacheSection(p) \/ Crash(p)
  <2>1. CASE CacheLoad(p) \/ CacheTruncate(p)
    BY <1>1, <2>1 DEF CacheLoad, CacheTruncate
  <2>2. CASE CacheKept(p) \/ CacheWrite(p)
    <3>1. todo'[p] = Tail(todo[p]) /\ p \in fileLock
      BY <2>2 DEF CacheKept, CacheWrite, Saving, Advance, Goto, ClientTypeOK
    <3> QED
      BY <1>2, <3>1, InFile
  <2>3. CASE CacheRaises(p) \/ Crash(p)
    BY <1>3, <2>3 DEF CacheRaises, Crash, Raise, Finish, Goto, ClientTypeOK
  <2> QED
    BY <1>6, <2>1, <2>2, <2>3 DEF CacheSection
<1> QED
  BY <1>4, <1>5, <1>6 DEF Progress

\* What a start finds usable was not recorded as unusable.
LEMMA MatchesAreUsable ==
  ASSUME ClientTypeOK, FileInv, NEW p, NEW c \in Matches(p)
  PROVE  c \in DOMAIN kept =>
           ~kept[c].rejected /\ (kept[c].maxUses = 0 \/ kept[c].uses < kept[c].maxUses)
<1>1. c \in DOMAIN Loaded /\ Usable(Loaded[c])
  BY DEF Matches
<1>2. c \in DOMAIN file.entries /\ Loaded[c] = file.entries[c]
  BY <1>1 DEF Loaded, Found
<1>3. file.entries[c] = kept[c]
  BY <1>2 DEF FileInv, PartOf
<1> QED
  BY <1>1, <1>2, <1>3 DEF Usable

\* A process starts with a credential that was not recorded as unusable.
LEMMA UnusableKept ==
  ASSUME NEW p \in Client, ClientTypeOK, LedgerLockInv, FileLockInv, Sound(p), Sound(p)',
         FileInv, UnusableStaysUnused, OthersStay(p), Boot(p) \/ Progress(p) \/ Crash(p)
  PROVE  UnusableStaysUnused'
<1>1. ASSUME NEW q \in Client \ {p}, At(q, "present")'
      PROVE  bearer'[q] \notin barred'[q]
  <2>1. OthersKeep(p)
    <3>1. CASE Boot(p) \/ RequestStep(p)
      BY <3>1, RequestFrame
    <3>2. CASE LedgerSection(p) \/ CacheSection(p) \/ Crash(p)
      <4>1. UNCHANGED planVars
        BY <3>2
           DEF LedgerSection, LedgerRead, Refuse, Reserve, Commit, Rollback,
               LedgerFails,
               LedgerRaises, Replace, CacheSection, CacheLoad, CacheKept, CacheTruncate,
               CacheWrite, CacheRaises, Crash
      <4> QED
        BY <4>1 DEF planVars, OthersKeep
    <3> QED
      BY <3>1, <3>2 DEF Progress
  <2>2. At(q, "present") /\ bearer'[q] = bearer[q] /\ barred'[q] = barred[q]
    BY <1>1, <2>1 DEF OthersStay, SameProcess, OthersKeep, At
  <2> QED
    BY <2>2 DEF UnusableStaysUnused
<1>2. ASSUME At(p, "present")', Boot(p)
      PROVE  bearer'[p] \notin barred'[p]
  <2>1. todo'[p] = <<"present">>
    BY <1>2, PresentIsAlone
  <2>2. bearer'[p] \in Matches(p)
    BY <1>2, <2>1 DEF Boot, Goto, ClientTypeOK
  <2>3. barred'[p] = {c \in DOMAIN kept : kept[c].rejected
                         \/ (kept[c].maxUses # 0 /\ kept[c].uses >= kept[c].maxUses)}
    BY <1>2 DEF Boot, ClientTypeOK
  <2>4. \A c \in DOMAIN kept : kept[c].uses \in Nat /\ kept[c].maxUses \in Nat
    BY DEF ClientTypeOK, AreCredentials, IsCredential
  <2> QED
    BY <2>2, <2>3, <2>4, MatchesAreUsable
<1>3. ASSUME At(p, "present")', Progress(p) \/ Crash(p)
      PROVE  bearer'[p] \notin barred'[p]
  <2>1. todo'[p] = todo[p]
    BY <1>3, OnlyBootPresents
  <2>2. At(p, "present")
    BY <1>3, <2>1 DEF At
  <2>3. RequestStep(p) => Present(p)
    BY <2>2
       DEF Build, At, RequestStep, Present, SendPlain, Challenged, Today,
           WouldPay,
           Submit, Paid, NotPaid, Retry
  <2>4. UNCHANGED <<bearer, barred>>
    <3>1. CASE LedgerSection(p) \/ CacheSection(p) \/ Crash(p)
      BY <3>1
         DEF LedgerSection, LedgerRead, Refuse, Reserve, Commit, Rollback,
             LedgerFails,
             LedgerRaises, Replace, CacheSection, CacheLoad, CacheKept, CacheTruncate,
             CacheWrite, CacheRaises, Crash, planVars
    <3>2. CASE RequestStep(p)
      BY <2>3, <3>2 DEF Present, planVars
    <3> QED
      BY <1>3, <3>1, <3>2 DEF Progress
  <2> QED
    BY <2>2, <2>4 DEF UnusableStaysUnused
<1> QED
  BY <1>1, <1>2, <1>3 DEF UnusableStaysUnused
-----------------------------------------------------------------------------
(* The money.                                                              *)

\* Only a reservation, a commit and a rollback write the ledger.
LEMMA LedgerWrites ==
  ASSUME NEW p \in Client, ClientTypeOK, Boot(p) \/ Progress(p) \/ Crash(p)
  PROVE  ledger' = ledger \/ Reserve(p) \/ Commit(p) \/ Rollback(p)
<1>1. CASE Boot(p) \/ RequestStep(p)
  BY <1>1, RequestFrame DEF ledgerVars
<1>2. CASE LedgerSection(p)
  BY <1>2
     DEF LedgerSection, LedgerRead, Refuse, LedgerFails, LedgerRaises,
         ledgerVars
<1>3. CASE CacheSection(p)
  BY <1>3
     DEF CacheSection, CacheLoad, CacheKept, CacheTruncate, CacheWrite,
         CacheRaises,
         ledgerVars
<1>4. CASE Crash(p)
  BY <1>4 DEF Crash
<1> QED
  BY <1>1, <1>2, <1>3, <1>4 DEF Progress

\* What the three make of the day, and of the other days.
LEMMA LedgerChanges ==
  ASSUME NEW p \in Client, ClientTypeOK, LedgerLockInv, Sound(p),
         Reserve(p) \/ Commit(p) \/ Rollback(p)
  PROVE  /\ day[p] \in Day /\ Entry(p) = ledger[day[p]] /\ IsEntry(Entry(p))
         /\ \A d \in Day : d # day[p] => ledger'[d] = ledger[d]
         /\ IsEntry(ledger'[day[p]])
         /\ Reserve(p) => /\ Counting(ledger'[day[p]]) <= Budget
                          /\ ledger'[day[p]].committed = Entry(p).committed
         /\ Commit(p) => /\ Counting(ledger'[day[p]]) = Counting(Entry(p))
                         /\ ledger'[day[p]].committed = Entry(p).committed + Amount(p)
                         /\ Amount(p) \in Nat
         /\ Rollback(p) => /\ Counting(ledger'[day[p]]) <= Counting(Entry(p))
                           /\ ledger'[day[p]].committed = Entry(p).committed
<1>1. \A entry : Replace(p, entry) /\ p \in ledgerLock =>
        /\ day[p] \in Day /\ Entry(p) = ledger[day[p]] /\ IsEntry(Entry(p))
        /\ ledger'[day[p]] = entry
        /\ \A d \in Day : d # day[p] => ledger'[d] = ledger[d]
  BY InLedger DEF Replace, ClientTypeOK, IsLedger
<1>2. p \in ledgerLock /\ \E entry : Replace(p, entry)
  BY WrittenDay
<1>3. /\ day[p] \in Day /\ Entry(p) = ledger[day[p]] /\ IsEntry(Entry(p))
      /\ \A d \in Day : d # day[p] => ledger'[d] = ledger[d]
  BY <1>1, <1>2
<1>4. ASSUME Reserve(p)
      PROVE  /\ Counting(ledger'[day[p]]) <= Budget /\ IsEntry(ledger'[day[p]])
             /\ ledger'[day[p]].committed = Entry(p).committed
  <2> DEFINE entry == [Entry(p) EXCEPT !.held = With(@, p, Amount(p))]
  <2>1. /\ Replace(p, entry) /\ entry.committed = Entry(p).committed
        /\ Counting(entry) <= Budget /\ IsEntry(entry)
    BY <1>4, ReserveWrites
  <2> HIDE DEF entry
  <2> QED
    BY <1>1, <1>2, <2>1
<1>5. ASSUME Commit(p)
      PROVE  /\ Counting(ledger'[day[p]]) = Counting(Entry(p)) /\ IsEntry(ledger'[day[p]])
             /\ ledger'[day[p]].committed = Entry(p).committed + Amount(p)
             /\ Amount(p) \in Nat
  <2> DEFINE entry == [committed |-> Entry(p).committed + Entry(p).held[p],
                       held |-> Without(Entry(p).held, {p})]
  <2>1. /\ Replace(p, entry) /\ Counting(entry) = Counting(Entry(p)) /\ IsEntry(entry)
        /\ Entry(p).held[p] = Amount(p) /\ Amount(p) \in Nat
    BY <1>5, CommitWrites
  <2>2. entry.committed = Entry(p).committed + Entry(p).held[p]
    OBVIOUS
  <2> HIDE DEF entry
  <2> QED
    BY <1>1, <1>2, <2>1, <2>2
<1>6. ASSUME Rollback(p)
      PROVE  /\ Counting(ledger'[day[p]]) <= Counting(Entry(p)) /\ IsEntry(ledger'[day[p]])
             /\ ledger'[day[p]].committed = Entry(p).committed
  <2> DEFINE entry == [Entry(p) EXCEPT !.held = Without(@, {p})]
  <2>1. /\ Replace(p, entry) /\ entry.committed = Entry(p).committed
        /\ Counting(entry) <= Counting(Entry(p)) /\ IsEntry(entry)
    BY <1>6, RollbackWrites
  <2> HIDE DEF entry
  <2> QED
    BY <1>1, <1>2, <2>1
<1> QED
  BY <1>3, <1>4, <1>5, <1>6

\* No more than the budget counts on a day.
LEMMA BudgetKept ==
  ASSUME NEW p \in Client, ClientTypeOK, LedgerLockInv, Sound(p), BudgetHolds,
         Boot(p) \/ Progress(p) \/ Crash(p)
  PROVE  BudgetHolds'
<1>1. CASE ledger' = ledger
  BY <1>1 DEF BudgetHolds
<1>2. CASE Reserve(p) \/ Commit(p) \/ Rollback(p)
  <2>1. /\ day[p] \in Day /\ Entry(p) = ledger[day[p]] /\ IsEntry(Entry(p))
        /\ \A d \in Day : d # day[p] => ledger'[d] = ledger[d]
        /\ IsEntry(ledger'[day[p]])
        /\ \/ Counting(ledger'[day[p]]) <= Budget
           \/ Counting(ledger'[day[p]]) = Counting(Entry(p))
           \/ Counting(ledger'[day[p]]) <= Counting(Entry(p))
    BY <1>2, LedgerChanges
  <2>2. Counting(Entry(p)) \in Nat /\ Counting(ledger'[day[p]]) \in Nat
    BY <2>1, EntryFacts
  <2>3. Budget \in Nat
    BY ClientAssumption
  <2>4. Counting(Entry(p)) <= Budget
    BY <2>1 DEF BudgetHolds
  <2>5. Counting(ledger'[day[p]]) <= Budget
    BY <2>1, <2>2, <2>3, <2>4
  <2>6. \A d \in Day : Counting(ledger'[d]) <= Budget
    BY <2>1, <2>5 DEF BudgetHolds
  <2>7. \A d \in Day : Counting(ledger[d])' = Counting(ledger'[d])
    BY DEF Counting
  <2> QED
    BY <2>6, <2>7 DEF BudgetHolds
<1> QED
  BY <1>1, <1>2, LedgerWrites
\* The amounts of payments that left the wallet.
Amounts(S) == [q \in S |-> Amount(q)]

\* They are amounts, whose payments were offered.
LEMMA AmountsAreSats ==
  ASSUME ProcessInv, NEW S, S \subseteq {q \in Client : left[q]}
  PROVE  AreSats(Amounts(S)) /\ DOMAIN Amounts(S) = S /\ Total(Amounts(S)) \in Nat
<1>1. \A q \in S : Amount(q) \in Sats
  BY DEF ProcessInv, Sound, LeftIsOffered, IsOffer, Amount
<1>2. IsFiniteSet(S)
  BY ClientAssumption, FS_Subset
<1>3. DOMAIN Amounts(S) = S /\ AreSats(Amounts(S))
  BY <1>1, <1>2 DEF Amounts, AreSats
<1> QED
  BY <1>3, UnitsAreFinite

\* A process that nothing happens to is no more settled than before.
LEMMA OthersSettled ==
  ASSUME NEW q, SameProcess(q), SameHeld(q), NEW d \in Day, q \in Settled(d)'
  PROVE  q \in Settled(d) /\ Amount(q)' = Amount(q)
BY DEF SameProcess, SameHeld, Settled, Amount

\* When nothing is settled on a day that was not, what is committed still covers it.
LEMMA CoversStays ==
  ASSUME ProcessInv, CommittedCovers, IsLedger(ledger), NEW d \in Day,
         \A q \in Settled(d)' : q \in Settled(d) /\ Amount(q)' = Amount(q),
         ledger'[d].committed = ledger[d].committed
  PROVE  Total([q \in Settled(d) |-> Amount(q)])' <= ledger'[d].committed
<1> DEFINE f == Amounts(Settled(d))
           g == [q \in Settled(d)' |-> Amount(q)']
<1>1. AreSats(f) /\ DOMAIN f = Settled(d) /\ Total(f) \in Nat
  BY AmountsAreSats DEF Settled
<1>2. PartOf(g, f)
  BY DEF PartOf, Amounts
<1>3. Total(f) <= ledger[d].committed
  BY DEF CommittedCovers, Amounts
<1>4. ledger[d].committed \in Nat
  BY DEF IsLedger, IsEntry
<1>5. Total([q \in Settled(d) |-> Amount(q)])' = Total(g)
  BY DEF Total
<1> HIDE DEF f, g
<1>6. Total(g) <= Total(f) /\ AreSats(g)
  BY <1>1, <1>2, TotalOfPart
<1>7. Total(g) \in Nat
  BY <1>6, UnitsAreFinite
<1> QED
  BY <1>1, <1>3, <1>4, <1>5, <1>6, <1>7
\* Whatever a process does that leaves the ledger alone, it is no more settled.
LEMMA SelfSettled ==
  ASSUME NEW p \in Client, ClientTypeOK, LedgerLockInv, FileLockInv, Sound(p),
         ledger' = ledger, Boot(p) \/ Progress(p) \/ Crash(p),
         NEW d \in Day, p \in Settled(d)'
  PROVE  p \in Settled(d) /\ Amount(p)' = Amount(p)
<1>1. /\ left'[p] /\ day'[p] = d /\ report'[p].code \notin Failures
      /\ p \notin DOMAIN ledger[d].held
  BY DEF Settled
<1>2. ASSUME todo[p] # <<>>, left'[p] = left[p], day'[p] = day[p], offer'[p] = offer[p]
      PROVE  p \in Settled(d) /\ Amount(p)' = Amount(p)
  <2>1. report[p].code \notin Failures
    <3>1. SUFFICES ASSUME report[p].code \in Failures
          PROVE  FALSE
      OBVIOUS
    <3>2. "none" \notin Failures /\ {"cached", "paid", "paid_retry_rejected"} \cap Failures = {}
      BY DEF Failures
    <3>3. report[p] # Silent /\ ~NotPaidYet(p) /\ report[p].code # "paid"
      BY <3>1, <3>2 DEF Silent, NotPaidYet
    <3>4. report[p].code \notin {"cached", "paid", "paid_retry_rejected"}
      BY <3>1, <3>2
    <3>5. report[p] # [code |-> "paid", paid |-> TRUE]
      BY <3>3
    <3>6. todo[p] \in Undoing
      BY <1>2, <3>3, <3>4, <3>5 DEF Sound, StageOf
    <3>7. Owing(p)
      BY <3>6, OwingFacts
    <3>8. p \in DOMAIN ledger[day[p]].held
      BY <1>2, <3>7 DEF Sound, HeldIsOwed, Holds
    <3> QED
      BY <1>1, <1>2, <3>8
  <2> QED
    BY <1>1, <1>2, <2>1 DEF Settled, Amount
<1>3. CASE Boot(p)
  BY <1>2, <1>3 DEF Boot, At
<1>4. CASE RequestStep(p)
  <2>1. CASE Present(p) \/ SendPlain(p) \/ WouldPay(p) \/ Paid(p) \/ NotPaid(p)
    BY <1>2, <2>1 DEF Present, SendPlain, WouldPay, Paid, NotPaid, At, planVars
  <2>2. CASE Build(p) \/ Retry(p)
    BY <1>2, <2>2 DEF Build, Retry, At, planVars
  <2>3. CASE Challenged(p)
    <3>1. todo[p] = <<"send">> /\ left' = left
      BY <2>3, WhatIsLeft DEF Challenged, Sound
    <3>2. ~left[p]
      BY <3>1, KindOfPlan, StageFacts DEF Sound
    <3> QED
      BY <1>1, <3>1, <3>2
  <2>4. CASE Today(p)
    <3>1. todo[p] \in Unreserved /\ left' = left
      BY <2>4, WhatIsLeft, KindOfPlan DEF Today, Sound, planVars
    <3>2. ~left[p]
      BY <3>1, StageFacts DEF Sound
    <3> QED
      BY <1>1, <3>1, <3>2
  <2>5. CASE Submit(p)
    <3>1. todo[p] = <<"pay">> /\ day' = day
      BY <2>5, WhatIsLeft DEF Submit, Sound
    <3>2. todo[p] \in Unpaid
      BY <3>1, KindOfPlan
    <3>3. Owing(p) /\ todo[p] # <<>>
      BY <3>2, OwingFacts, KindsAreApart
    <3>4. p \in DOMAIN ledger[day[p]].held
      BY <3>3 DEF Sound, HeldIsOwed, Holds
    <3> QED
      BY <1>1, <3>1, <3>4
  <2> QED
    BY <1>4, <2>1, <2>2, <2>3, <2>4, <2>5 DEF RequestStep
<1>5. CASE LedgerSection(p)
  <2>1. UNCHANGED <<left, day, offer>>
    BY <1>5
       DEF LedgerSection, LedgerRead, Refuse, Reserve, Commit, Rollback,
           LedgerFails,
           LedgerRaises, Replace, planVars
  <2>2. p \in ledgerLock \/ todo[p] # <<>>
    BY <1>5
       DEF LedgerSection, LedgerRead, Refuse, Reserve, Commit, Rollback,
           LedgerFails,
           LedgerRaises, Section
  <2> QED
    BY <1>2, <2>1, <2>2, InLedger
<1>6. CASE CacheSection(p)
  <2>1. UNCHANGED <<left, day, offer>>
    BY <1>6
       DEF CacheSection, CacheLoad, CacheKept, CacheTruncate, CacheWrite,
           CacheRaises,
           planVars
  <2>2. p \in fileLock \/ todo[p] # <<>>
    BY <1>6
       DEF CacheSection, CacheLoad, CacheKept, CacheTruncate, CacheWrite,
           CacheRaises,
           Saving
  <2> QED
    BY <1>2, <2>1, <2>2, InFile
<1>7. CASE Crash(p)
  BY <1>2, <1>7 DEF Crash, Running, planVars
<1> QED
  BY <1>3, <1>4, <1>5, <1>6, <1>7 DEF Progress

\* A reservation that is rolled back is of a payment that did not leave the wallet,
\* or of a failure of the payer.
LEMMA UndoneIsNotSettled ==
  ASSUME NEW p \in Client, ClientTypeOK, LedgerLockInv, Sound(p), Reserve(p) \/ Rollback(p),
         NEW d \in Day
  PROVE  p \notin Settled(d)'
<1>1. PICK entry : Replace(p, entry)
  BY WrittenDay
<1>2. left' = left /\ report' = report
  BY <1>1 DEF Replace, planVars, Quiet
<1>3. CASE Reserve(p)
  <2>1. todo[p] \in Unreserved
    BY <1>3, ReserveWrites, KindOfPlan
  <2>2. ~left[p]
    BY <2>1, StageFacts DEF Sound
  <2> QED
    BY <1>2, <2>2 DEF Settled
<1>4. CASE Rollback(p)
  <2>1. todo[p] \in Undoing
    BY <1>4, RollbackWrites, KindOfPlan
  <2>2. report[p].code \in Failures \/ ~left[p]
    BY <2>1, StageFacts DEF Sound
  <2> QED
    BY <1>2, <2>2 DEF Settled
<1> QED
  BY <1>3, <1>4

\* A commit adds its own amount to what is committed.
LEMMA CommitCovers ==
  ASSUME NEW p \in Client, ClientTypeOK, LedgerLockInv, ProcessInv, CommittedCovers,
         OthersStay(p), Commit(p), NEW d \in Day
  PROVE  Total([q \in Settled(d) |-> Amount(q)])' <= ledger'[d].committed
<1>1. Sound(p)
  BY DEF ProcessInv
<1>2. PICK entry : Replace(p, entry) /\ p \in ledgerLock
  BY <1>1, WrittenDay
<1>3. left' = left /\ report' = report /\ offer' = offer /\ day' = day
  BY <1>2 DEF Replace, planVars, Quiet
<1>4. /\ day[p] \in Day /\ Entry(p) = ledger[day[p]] /\ IsEntry(Entry(p))
      /\ \A e \in Day : e # day[p] => ledger'[e] = ledger[e]
      /\ ledger'[day[p]].committed = ledger[day[p]].committed + Amount(p)
      /\ Amount(p) \in Nat
  BY <1>1, LedgerChanges
<1>5. \A q \in Settled(d)' : q # p => q \in Settled(d) /\ Amount(q)' = Amount(q)
  BY OthersSettled DEF OthersStay, Settled
<1>6. CASE p \notin Settled(d)'
  <2>1. \A q \in Settled(d)' : q \in Settled(d) /\ Amount(q)' = Amount(q)
    BY <1>5, <1>6
  <2> DEFINE f == Amounts(Settled(d))
             g == [q \in Settled(d)' |-> Amount(q)']
  <2>2. AreSats(f) /\ DOMAIN f = Settled(d) /\ Total(f) \in Nat
    BY AmountsAreSats DEF Settled
  <2>3. PartOf(g, f)
    BY <2>1 DEF PartOf, Amounts
  <2>4. Total(f) <= ledger[d].committed
    BY DEF CommittedCovers, Amounts
  <2>5. ledger[d].committed \in Nat
    BY DEF ClientTypeOK, IsLedger, IsEntry
  <2>6. Total([q \in Settled(d) |-> Amount(q)])' = Total(g)
    BY DEF Total
  <2> HIDE DEF f, g
  <2>7. Total(g) <= Total(f) /\ AreSats(g)
    BY <2>2, <2>3, TotalOfPart
  <2>8. Total(g) \in Nat
    BY <2>7, UnitsAreFinite
  <2>9. ledger'[d].committed = ledger[d].committed
        \/ ledger'[d].committed = ledger[d].committed + Amount(p)
    BY <1>4
  <2> QED
    BY <1>4, <2>2, <2>4, <2>5, <2>6, <2>7, <2>8, <2>9
<1>7. CASE p \in Settled(d)'
  <2>1. d = day[p]
    BY <1>3, <1>7 DEF Settled
  <2>2. p \notin Settled(d) /\ left[p]
    <3>1. p \in DOMAIN Entry(p).held
      BY <1>1, CommitWrites
    <3> QED
      BY <1>3, <1>4, <1>7, <2>1, <3>1 DEF Settled
  <2> DEFINE S == {q \in Client : q \in Settled(d)'}
             f == Amounts(Settled(d))
             g == Amounts(S)
             h == Without(g, {p})
  <2>3. AreSats(f) /\ DOMAIN f = Settled(d) /\ Total(f) \in Nat
    BY AmountsAreSats DEF Settled
  <2>4. S \subseteq {q \in Client : left[q]}
    BY <1>3 DEF Settled
  <2> HIDE DEF S
  <2>5. AreSats(g) /\ DOMAIN g = S /\ Total(g) \in Nat
    BY <2>4, AmountsAreSats
  <2>6. p \in S /\ g[p] = Amount(p)
    BY <1>7 DEF S, Amounts
  <2>7. PartOf(h, f)
    BY <1>5 DEF PartOf, Amounts, Without, S
  <2>8. Total([q \in Settled(d) |-> Amount(q)])' = Total(g)
    <3>1. S = Settled(d)'
      BY DEF S, Settled
    <3>2. \A q \in S : Amount(q)' = Amount(q)
      BY <1>3 DEF Amount
    <3>3. [q \in Settled(d)' |-> Amount(q)'] = g
      BY <3>1, <3>2 DEF Amounts
    <3> QED
      BY <3>3 DEF Total
  <2> HIDE DEF f, g, h
  <2>9. AreSats(h) /\ Total(g) = Total(h) + Amount(p)
    BY <2>5, <2>6, TotalOfOneMore DEF h
  <2>10. Total(h) <= Total(f) /\ Total(h) \in Nat
    BY <2>3, <2>7, <2>9, TotalOfPart, UnitsAreFinite
  <2>11. Total(f) <= ledger[d].committed
    BY DEF CommittedCovers, Amounts, f
  <2>12. ledger[d].committed \in Nat
    BY DEF ClientTypeOK, IsLedger, IsEntry
  <2>13. ledger'[d].committed = ledger[d].committed + Amount(p)
    BY <1>4, <2>1
  <2> QED
    BY <1>4, <2>3, <2>8, <2>9, <2>10, <2>11, <2>12, <2>13
<1> QED
  BY <1>6, <1>7

\* What is committed covers what is settled.
LEMMA CoversKept ==
  ASSUME NEW p \in Client, ClientTypeOK, LedgerLockInv, FileLockInv, ProcessInv,
         CommittedCovers, OthersStay(p), Boot(p) \/ Progress(p) \/ Crash(p)
  PROVE  CommittedCovers'
<1>1. SUFFICES ASSUME NEW d \in Day
      PROVE  Total([q \in Settled(d) |-> Amount(q)])' <= ledger'[d].committed
  BY DEF CommittedCovers
<1>2. Sound(p) /\ IsLedger(ledger)
  BY DEF ProcessInv, ClientTypeOK
<1>3. \A q \in Settled(d)' : q # p => q \in Settled(d) /\ Amount(q)' = Amount(q)
  BY OthersSettled DEF OthersStay, Settled
<1>4. CASE ledger' = ledger
  <2>1. \A q \in Settled(d)' : q \in Settled(d) /\ Amount(q)' = Amount(q)
    BY <1>2, <1>3, <1>4, SelfSettled
  <2> QED
    BY <1>2, <1>4, <2>1, CoversStays
<1>5. CASE Reserve(p) \/ Rollback(p)
  <2>1. p \notin Settled(d)'
    BY <1>2, <1>5, UndoneIsNotSettled
  <2>2. ledger'[d].committed = ledger[d].committed
    BY <1>2, <1>5, LedgerChanges
  <2>3. \A q \in Settled(d)' : q \in Settled(d) /\ Amount(q)' = Amount(q)
    BY <1>3, <2>1
  <2> QED
    BY <1>2, <2>2, <2>3, CoversStays
<1>6. CASE Commit(p)
  BY <1>6, CommitCovers
<1> QED
  BY <1>4, <1>5, <1>6, LedgerWrites
-----------------------------------------------------------------------------
(* The invariant.                                                          *)

\* No amounts, no satoshis.
LEMMA TotalOfNone ==
  ASSUME NEW f, DOMAIN f = {}
  PROVE  Total(f) = 0
<1>1. UNION {{x} \X (1 .. f[x]) : x \in DOMAIN f} = {}
  OBVIOUS
<1> QED
  BY <1>1, FS_EmptySet DEF Total

\* It holds at the start.
LEMMA ClientStarts ==
  ASSUME ClientInit
  PROVE  ClientInv
<1>1. /\ ledger = EmptyLedger /\ ledgerLock = {} /\ fileLock = {} /\ file.whole = TRUE
      /\ file.entries = empty /\ kept = empty
      /\ \A p \in Client : /\ todo[p] = Start /\ verified[p] = FALSE /\ left[p] = FALSE
                           /\ report[p] = Silent /\ day[p] = 1
  BY DEF ClientInit, NoFile, Silent
<1>2. 1 \in Day
  <2>1. LastDay \in Nat \ {0}
    BY ClientAssumption
  <2> QED
    BY <2>1 DEF Day
<1>3. /\ DOMAIN empty = {} /\ empty = [c \in {} |-> empty[c]]
      /\ Total(empty) = 0
  BY TotalOfNone DEF empty
<1>4. \A d \in Day : ledger[d] = [committed |-> 0, held |-> empty]
  BY <1>1 DEF EmptyLedger
<1>5. IsEntry([committed |-> 0, held |-> empty])
  BY <1>3 DEF IsEntry
<1>6. IsLedger(ledger)
  BY <1>1, <1>4, <1>5 DEF IsLedger, EmptyLedger
<1>7. IsReport(Silent)
  BY DEF IsReport, Silent
<1>8. ClientTypeOK
  <2>1. AreCredentials(kept)
    BY <1>1, <1>3 DEF AreCredentials
  <2>2. file = [whole |-> file.whole, entries |-> file.entries, ringed |-> file.ringed]
    BY DEF ClientInit, NoFile
  <2>3. Reports
    BY <1>1, <1>7 DEF ClientInit, Reports
  <2> QED
    BY <1>1, <1>2, <1>6, <2>1, <2>2, <2>3 DEF ClientInit, ClientTypeOK, Reports
<1>9. LedgerLockInv /\ FileLockInv
  BY <1>1 DEF LedgerLockInv, FileLockInv
<1>10. ASSUME NEW p \in Client
       PROVE  Sound(p)
  <2>1. todo[p] \in Unoffered
    BY <1>1, KindOfPlan
  <2>2. StageOf(p) /\ LeftIsOffered(p)
    BY <1>1, <2>1 DEF StageOf, NotPaidYet, LeftIsOffered
  <2>3. ~Owing(p) /\ todo[p] # <<>>
    BY <2>1, OwingFacts, KindsAreApart
  <2>4. \A d \in Day : p \notin DOMAIN ledger[d].held
    BY <1>3, <1>4
  <2>5. HeldIsOwed(p)
    BY <1>1, <1>2, <2>3, <2>4 DEF HeldIsOwed, Holds
  <2> QED
    BY <2>2, <2>5 DEF Sound
<1>11. BudgetHolds
  <2>1. Budget \in Nat
    BY ClientAssumption
  <2> QED
    BY <1>3, <1>4, <2>1 DEF BudgetHolds, Counting
<1>12. CommittedCovers
  <2>1. \A d \in Day : Settled(d) = {}
    BY <1>1 DEF Settled
  <2>2. \A d \in Day : Total([p \in Settled(d) |-> Amount(p)]) = 0
    BY <2>1, TotalOfNone
  <2> QED
    BY <1>4, <2>2 DEF CommittedCovers
<1>13. FileInv
  BY <1>1, <1>3 DEF FileInv, PartOf
<1>14. UnusableStaysUnused
  BY <1>1, HeadAndTail DEF UnusableStaysUnused, At, Start
<1> QED
  BY <1>8, <1>9, <1>10, <1>11, <1>12, <1>13, <1>14 DEF ClientInv, ProcessInv

\* A process keeps it.
LEMMA ProcessStep ==
  ASSUME ClientInv, NEW p \in Client, Boot(p) \/ Progress(p) \/ Crash(p)
  PROVE  ClientInv'
<1> USE DEF ClientInv
<1>1. Sound(p)
  BY DEF ProcessInv
<1>2. OthersStay(p) /\ Sound(p)' /\ ClientTypeOK'
  <2>1. CASE Boot(p) \/ RequestStep(p)
    BY <1>1, <2>1, RequestIsSound, RequestTypes
  <2>2. CASE LedgerSection(p)
    <3>1. CASE LedgerRaises(p)
      <4>1. Aborts(p)
        BY <3>1 DEF LedgerRaises, Aborts, ledgerVars
      <4> QED
        BY <1>1, <2>2, <4>1, AbortIsSound, LedgerTypes
    <3> QED
      BY <1>1, <2>2, <3>1, LedgerReadIsSound, RefuseIsSound, ReserveIsSound,
          CommitIsSound,
         RollbackIsSound, LedgerFailsIsSound, LedgerTypes DEF LedgerSection
  <2>3. CASE CacheSection(p)
    <3>1. CASE CacheRaises(p)
      <4>1. Aborts(p)
        BY <3>1, InFile DEF CacheRaises, Aborts, ledgerVars
      <4> QED
        BY <1>1, <2>3, <4>1, AbortIsSound, CacheTypes
    <3> QED
      BY <1>1, <2>3, <3>1, CacheStays, CacheStepIsSound, CacheTypes
         DEF CacheSection
  <2>4. CASE Crash(p)
    <3>1. Aborts(p)
      BY <2>4 DEF Crash, Aborts, Running
    <3> QED
      BY <1>1, <2>4, <3>1, AbortIsSound, CrashTypes
  <2> QED
    BY <2>1, <2>2, <2>3, <2>4 DEF Progress
<1>3. LedgerLockInv' /\ FileLockInv'
  BY <1>2, LedgerLockKept, FileLockKept
<1>4. ProcessInv'
  <2>1. \A q \in Client \ {p} : Sound(q)'
    BY <1>2, SoundStays DEF OthersStay, ProcessInv, ClientTypeOK
  <2> QED
    BY <1>2, <2>1 DEF ProcessInv
<1>5. BudgetHolds' /\ CommittedCovers'
  BY <1>1, <1>2, BudgetKept, CoversKept
<1>6. FileInv'
  BY <1>2, FileKept
<1>7. UnusableStaysUnused'
  BY <1>1, <1>2, UnusableKept
<1> QED
  BY <1>2, <1>3, <1>4, <1>5, <1>6, <1>7

\* The environment keeps it, and so does a step that changes nothing.
LEMMA EnvironmentStep ==
  ASSUME ClientInv, RingChanges \/ Tick \/ UNCHANGED vars
  PROVE  ClientInv'
<1> USE DEF ClientInv
<1>1. UNCHANGED <<ledgerVars, cacheVars, todo, planVars, day, report>>
  BY DEF RingChanges, Tick, vars
<1>2. /\ ledger' = ledger /\ todo' = todo /\ offer' = offer /\ day' = day
      /\ verified' = verified /\ left' = left /\ report' = report /\ bearer' = bearer
      /\ barred' = barred /\ option' = option
      /\ UNCHANGED <<file, fileLock, kept, disturbed, loaded>>
  BY <1>1 DEF ledgerVars, cacheVars, planVars
<1>3. ClientTypeOK'
  <2>1. CASE UNCHANGED vars
    BY <2>1 DEF ClientTypeOK, vars, ledgerVars, cacheVars, planVars
  <2> QED
    BY <2>1, EnvironmentTypes
<1>4. LedgerLockInv' /\ FileLockInv'
  BY <1>1, <1>2, LedgerLockStays, FileLockStays
<1>5. \A q : SameProcess(q) /\ SameHeld(q)
  BY <1>2, LedgerStays DEF SameProcess
<1>6. ProcessInv'
  BY <1>5, SoundStays DEF ProcessInv, ClientTypeOK
<1>7. BudgetHolds'
  BY <1>2 DEF BudgetHolds
<1>8. CommittedCovers'
  <2>1. SUFFICES ASSUME NEW d \in Day
        PROVE  Total([q \in Settled(d) |-> Amount(q)])' <= ledger'[d].committed
    BY DEF CommittedCovers
  <2>2. \A q \in Settled(d)' : q \in Settled(d) /\ Amount(q)' = Amount(q)
    BY <1>5, OthersSettled
  <2>3. ledger'[d].committed = ledger[d].committed /\ IsLedger(ledger)
    BY <1>2 DEF ClientTypeOK
  <2> QED
    BY <2>2, <2>3, CoversStays
<1>9. FileInv'
  BY <1>2, FileStays
<1>10. UnusableStaysUnused'
  BY <1>2 DEF UnusableStaysUnused, At
<1> QED
  BY <1>3, <1>4, <1>6, <1>7, <1>8, <1>9, <1>10

\* The invariant holds in every state of every run.
THEOREM ClientInvariant == ClientSpec => []ClientInv
<1>1. ClientInv /\ [ClientNext]_vars => ClientInv'
  BY ProcessStep, EnvironmentStep DEF ClientNext
<1> QED
  BY <1>1, ClientStarts, PTL DEF ClientSpec

-----------------------------------------------------------------------------
(* What it means.                                                          *)

\* However many processes reserve at the same time, what is committed and reserved
\* on a day never exceeds the budget (ledger.py reserve).
THEOREM BudgetIsKept == ClientSpec => []BudgetHolds
<1>1. ClientInv => BudgetHolds
  BY DEF ClientInv
<1> QED
  BY <1>1, ClientInvariant, PTL

\* What of a payment counts is a natural number, and no more than was reserved.
Counts(p) == IF Underdeclared(p) THEN Amount(p) ELSE Price(p)

LEMMA CountsAreReserved ==
  ASSUME ClientInv, NEW p \in Client, left[p]
  PROVE  Counts(p) \in Nat /\ Counts(p) <= Amount(p)
<1>1. IsOffer(offer[p])
  BY DEF ClientInv, ProcessInv, Sound, LeftIsOffered
<1>2. Amount(p) \in Nat /\ Price(p) \in Nat
  BY <1>1, ClientAssumption DEF IsOffer, Sats, Amount, Price
<1>3. offer[p].protocol # "Payment" => Price(p) <= Amount(p)
  BY <1>1 DEF IsOffer, Amount, Price
<1> QED
  BY <1>2, <1>3 DEF Counts, Underdeclared

\* Money that left the wallet counts on its day, unless the payer failed, or the
\* invoice of a Payment challenge asks more than it declares.
LEMMA Counted ==
  ASSUME ClientInv
  PROVE  SpendIsCounted
<1> USE DEF ClientInv
<1> SUFFICES ASSUME NEW d \in Day
             PROVE  LET spent == {p \in Client : left[p] /\ day[p] = d
                                                 /\ report[p].code \notin Failures}
                    IN  Total([p \in spent |-> Counts(p)]) <= Counting(ledger[d])
  BY DEF SpendIsCounted, Counts
<1> DEFINE spent == {p \in Client : left[p] /\ day[p] = d /\ report[p].code \notin Failures}
           held == ledger[d].held
           rest == {p \in spent : p \in DOMAIN held}
           f == Amounts(spent)
           g == Amounts(Settled(d))
           h == Amounts(rest)
           c == [p \in spent |-> Counts(p)]
<1>1. IsEntry(ledger[d])
  BY DEF ClientTypeOK, IsLedger
<1>2. AreSats(held) /\ Total(held) \in Nat /\ ledger[d].committed \in Nat
  BY <1>1, EntryFacts DEF IsEntry
<1>3. /\ AreSats(f) /\ DOMAIN f = spent /\ Total(f) \in Nat
      /\ AreSats(g) /\ DOMAIN g = Settled(d) /\ Total(g) \in Nat
      /\ AreSats(h) /\ DOMAIN h = rest /\ Total(h) \in Nat
  BY AmountsAreSats DEF Settled
<1>4. spent = Settled(d) \cup rest
  BY DEF Settled
<1>5. PartOf(g, f) /\ PartOf(h, f)
  BY <1>4 DEF PartOf, Amounts
<1>6. PartOf(h, held)
  BY DEF PartOf, Amounts, ProcessInv, Sound, HeldIsOwed
<1>7. Total(g) <= ledger[d].committed
  BY DEF CommittedCovers, Amounts
<1>8. DOMAIN c = DOMAIN f /\ \A p \in DOMAIN f : c[p] \in Nat /\ c[p] <= f[p]
  BY CountsAreReserved DEF Amounts
<1> HIDE DEF spent, held, rest, f, g, h, c
<1>9. Total(f) <= Total(g) + Total(h)
  BY <1>3, <1>4, <1>5, TotalOfTwo
<1>10. Total(h) <= Total(held)
  BY <1>2, <1>6, TotalOfPart
<1>11. Counting(ledger[d]) = ledger[d].committed + Total(held)
  BY DEF Counting, held
<1>12. Total(c) \in Nat /\ Total(c) <= Total(f)
  BY <1>3, <1>8, TotalOfLess
<1>13. Total(c) <= Counting(ledger[d])
  BY <1>2, <1>3, <1>7, <1>9, <1>10, <1>11, <1>12
<1> QED
  BY <1>13 DEF spent, c

\* What the invoices asked that a wallet has paid counts, unless the payer failed
\* or a Payment challenge declared less than its invoice asks; of such a challenge
\* what it declared counts (ledger.py commit and rollback, orchestrator.py).
THEOREM SpendCounts == ClientSpec => []SpendIsCounted
BY ClientInvariant, Counted, PTL

\* While no save was cut short and the keyring answered, no change of the
\* credential file is lost (FileCredentialCache).
THEOREM ChangesAreKept == ClientSpec => []NoChangeIsLost
<1>1. ClientInv => NoChangeIsLost
  BY DEF ClientInv, NoChangeIsLost, FileLockInv, FileInv
<1> QED
  BY <1>1, ClientInvariant, PTL

\* A credential recorded as rejected or used up is not presented (get_matching).
THEOREM UnusableIsLeft == ClientSpec => []UnusableStaysUnused
<1>1. ClientInv => UnusableStaysUnused
  BY DEF ClientInv
<1> QED
  BY <1>1, ClientInvariant, PTL

\* The envelope says that it paid exactly when a payment was verified.
THEOREM ReportsAreTrue == ClientSpec => []ReportIsTrue
<1>1. ClientInv => ReportIsTrue
  BY StageFacts DEF ClientInv, ProcessInv, Sound, ReportIsTrue, Ended
<1> QED
  BY <1>1, ClientInvariant, PTL

\* A request that ends with an envelope leaves no reservation behind, unless it
\* says that the ledger failed.
THEOREM NothingIsLeftReserved == ClientSpec => []NothingStaysReserved
<1>1. ClientInv => NothingStaysReserved
  BY DEF ClientInv, ProcessInv, Sound, HeldIsOwed, Holds, NothingStaysReserved
<1> QED
  BY <1>1, ClientInvariant, PTL
=============================================================================
