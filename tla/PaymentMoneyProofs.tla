------------------------- MODULE PaymentMoneyProofs -------------------------
(***************************************************************************)
(* Theorems about the money that PaymentTransaction moves, for any number  *)
(* of clients of either command, wallets, challenges, days, processes and  *)
(* amounts: an open payment has a reservation of its own in the ledger,    *)
(* and all that was paid or still may be is counted.                       *)
(*                                                                         *)
(* The results stand on IdsDiffer (SpendLedgerProofs) for the clients      *)
(* that run `pay-invoice`.  Of request's clients, whose ids are            *)
(* challenges, nothing is asked.                                           *)
(***************************************************************************)
EXTENDS PaymentTransactionProofs

\* The clients that run `pay-invoice`.
Payers == Client \ Requester

\* A payment that may still move money and is not committed.
Open(p) == p.fate # "failed" /\ ~p.closed

\* What a reservation's handle and its payment have in common.
Name(p) == <<p.id, p.day>>

\* Each open payment has a reservation of its own in the ledger, which no
\* client but its own has a handle of.
OpenAreHeld ==
  \A k \in DOMAIN sent : Open(sent[k]) =>
    LET p == sent[k] IN
    /\ p.id \in DOMAIN file[p.day].held
    /\ file[p.day].held[p.id] = p.amount
    /\ \A j \in DOMAIN sent \ {k} : Open(sent[j]) => Name(sent[j]) # Name(p)
    /\ \A c \in Client :
         IsPending(c) /\ Name(handle[c]) = Name(p) => k = Attempt(c)

Closed(d) == {k \in DOMAIN sent : sent[k].day = d /\ sent[k].closed}

SatsOf(K) == UNION {{k} \X (1 .. sent[k].amount) : k \in K}

\* What was paid and committed is among the day's commits.
ClosedAreCounted ==
  \A d \in Day : Cardinality(SatsOf(Closed(d))) <= file[d].committed

MoneyInv == ~reverted => OpenAreHeld /\ ClosedAreCounted

PayInv == CountingInv(Payers) /\ StageInv /\ MoneyInv
-----------------------------------------------------------------------------
(* Sums of payments.                                                       *)

\* A set of payments has finitely many sats.
LEMMA SatsAreFinite ==
  ASSUME PayTypeOK, NEW K \in SUBSET DOMAIN sent
  PROVE  IsFiniteSet(SatsOf(K)) /\ Cardinality(SatsOf(K)) \in Nat
<1>1. IsFiniteSet(K)
  BY FS_Subset DEF PayTypeOK
<1>2. IsFiniteSet(1 .. U64Max)
  BY FS_Interval, LedgerAssumption
<1>3. IsFiniteSet(K \X (1 .. U64Max))
  BY <1>1, <1>2, FS_Product
<1>4. SatsOf(K) \subseteq K \X (1 .. U64Max)
  <2>1. \A k \in K : sent[k].amount \in 0 .. U64Max
    BY DEF PayTypeOK, Payment, Sats
  <2> QED
    BY <2>1, LedgerAssumption DEF SatsOf
<1> QED
  BY <1>3, <1>4, FS_Subset, FS_CardinalityType

\* One more payment adds its amount.
LEMMA SatsOfOneMore ==
  ASSUME PayTypeOK, NEW K \in SUBSET DOMAIN sent, NEW k \in DOMAIN sent
  PROVE  Cardinality(SatsOf(K \cup {k}))
           <= Cardinality(SatsOf(K)) + sent[k].amount
<1> DEFINE n == sent[k].amount
           A == SatsOf(K)
           B == {k} \X (1 .. n)
<1>1. n \in Nat
  BY LedgerAssumption DEF PayTypeOK, Payment, Sats
<1>2. IsFiniteSet(A) /\ Cardinality(A) \in Nat
  BY SatsAreFinite
<1>3. SatsOf(K \cup {k}) = A \cup B
  BY DEF SatsOf
<1> HIDE DEF n, A
<1>4. IsFiniteSet(B) /\ Cardinality(B) = n
  <2>1. IsFiniteSet(1 .. n) /\ Cardinality(1 .. n) = n
    BY <1>1, FS_Interval
  <2>2. IsFiniteSet({k}) /\ Cardinality({k}) = 1
    BY FS_Singleton
  <2>3. IsFiniteSet(B) /\ Cardinality(B) = 1 * n
    <3> DEFINE S == {k}
               T == 1 .. n
    <3>1. /\ IsFiniteSet(S) /\ Cardinality(S) = 1
          /\ IsFiniteSet(T) /\ Cardinality(T) = n /\ B = S \X T
      BY <2>1, <2>2
    <3> HIDE DEF S, T, B
    <3>2. /\ IsFiniteSet(S \X T)
          /\ Cardinality(S \X T) = Cardinality(S) * Cardinality(T)
      BY <3>1, FS_Product
    <3> QED
      BY <3>1, <3>2
  <2> QED
    BY <1>1, <2>3
<1> HIDE DEF B
<1>5. IsFiniteSet(A \cap B) /\ Cardinality(A \cap B) \in Nat
  BY <1>4, FS_Subset, FS_CardinalityType
<1>6. Cardinality(A \cup B)
        = Cardinality(A) + Cardinality(B) - Cardinality(A \cap B)
  BY <1>2, <1>4, FS_Union
<1>7. Cardinality(A \cup B) <= Cardinality(A) + n
  BY <1>1, <1>2, <1>4, <1>5, <1>6
<1> QED
  BY <1>3, <1>7 DEF A, n

\* Payments with reservations of their own, each of its amount, sum up to no
\* more than what is reserved.
LEMMA HeldPaymentsAreCounted ==
  ASSUME PayTypeOK, NEW K \in SUBSET DOMAIN sent, NEW e, IsEntry(e),
         \A k \in K : /\ sent[k].id \in DOMAIN e.held
                      /\ e.held[sent[k].id] = sent[k].amount,
         \A j, k \in K : sent[j].id = sent[k].id => j = k
  PROVE  Cardinality(SatsOf(K)) <= reservation_total(e)
<1> DEFINE S == SatsOf(K)
           T == HeldSats(e.held)
           f == [x \in S |-> <<sent[x[1]].id, x[2]>>]
<1>1. \A x \in S : /\ x = <<x[1], x[2]>> /\ x[1] \in K
                   /\ x[2] \in 1 .. sent[x[1]].amount
  BY DEF SatsOf
<1>2. \A x \in S : f[x] \in T
  BY <1>1 DEF HeldSats
<1>3. \A x, y \in S : f[x] = f[y] => x = y
  BY <1>1
<1>4. f \in Injection(S, T)
  BY <1>2, <1>3 DEF Injection, IsInjective
<1>5. IsFiniteSet(T)
  BY HeldSatsOf
<1> HIDE DEF f, S, T
<1>6. Cardinality(S) <= Cardinality(T)
  BY <1>4, <1>5, FS_Injection
<1> QED
  BY <1>6 DEF reservation_total, S, T

\* Only a commit changes what is committed.
LEMMA CommittedFinished ==
  ASSUME NEW s, IsLedger(s), NEW day \in Day, NEW id \in DOMAIN s[day].held,
         NEW commit \in BOOLEAN
  PROVE  LET t == Finished(s, id, day, commit) IN
         /\ t[day].committed =
              IF commit THEN s[day].committed + s[day].held[id]
              ELSE s[day].committed
         /\ \A d \in Day \ {day} : t[d] = s[d]
<1> DEFINE w == WithoutReservation(s, id, day)
           t == Finished(s, id, day, commit)
<1>1. s = [d \in Day |-> s[d]] /\ IsEntry(s[day])
  BY DEF IsLedger
<1>2. /\ w = [d \in Day |-> w[d]] /\ w[day].committed = s[day].committed
      /\ w[day] = [committed |-> w[day].committed, held |-> w[day].held]
      /\ \A d \in Day \ {day} : w[d] = s[d]
  BY <1>1 DEF WithoutReservation, IsEntry
<1>3. CASE commit
  <2>1. t = [w EXCEPT ![day].committed = @ + s[day].held[id]]
    BY <1>3 DEF Finished
  <2> HIDE DEF w, t
  <2> QED
    BY <1>2, <1>3, <2>1 DEF t
<1>4. CASE ~commit
  <2>1. t = w
    BY <1>4 DEF Finished
  <2> HIDE DEF w
  <2> QED
    BY <1>2, <1>4, <2>1
<1> QED
  BY <1>3, <1>4

\* A reservation commits nothing.
LEMMA CommittedWithReservation ==
  ASSUME NEW s, IsLedger(s), NEW id \in Id, NEW day \in Day,
         NEW amount \in Sats, NEW d \in Day
  PROVE  WithReservation(s, id, day, amount)[d].committed = s[d].committed
BY DEF IsLedger, IsEntry, WithReservation
-----------------------------------------------------------------------------
(* Every step keeps the money accounted for.                               *)

\* The step touches neither the file nor a payment, and makes nothing pending.
Calm ==
  /\ file' = file /\ sent' = sent /\ reverted' = reverted
  /\ \A c \in Client : IsPending(c)' =>
       IsPending(c) /\ handle'[c] = handle[c] /\ boot'[c] = boot[c]

\* A reservation is written.
Reserves(c, w) ==
  ReserveWrite(c, w) /\ w # "NotApplied" /\ UNCHANGED <<sent, reverted>>

\* A payment's reservation is committed, and the payment closed.
Commits(c, w) ==
  /\ stage[c] = "settling" /\ FinishWrite(c, w) /\ w # "NotApplied"
  /\ sent' = [sent EXCEPT ![Attempt(c)].closed = TRUE]
  /\ UNCHANGED reverted

\* A payment's reservation is rolled back.
RollsBack(c, w) ==
  /\ stage[c] = "undoing" /\ FinishWrite(c, w) /\ w # "NotApplied"
  /\ UNCHANGED <<sent, reverted>>

\* Steps that are not calm submit, resolve, write or lose power.
LEMMA PayStepKinds ==
  ASSUME PayInv, [Next]_vars
  PROVE  \/ Calm \/ Resolve \/ LosePower
         \/ \E c \in Client : Submit(c)
         \/ \E c \in Client, w \in WriteOutcome :
              Reserves(c, w) \/ Commits(c, w) \/ RollsBack(c, w)
<1>1. /\ TypeOK /\ CallsAgree /\ StageInv /\ CountingInv(Payers)
      /\ \A c \in Client : StageAgrees(c)
  BY DEF PayInv, CountingInv, LedgerInv, StageInv
<1>2. ASSUME UNCHANGED <<file, handle, boot, sent, reverted>> PROVE Calm
  BY <1>2 DEF Calm, IsPending
<1>3. ASSUME NEW c \in Client, Start(c) PROVE Calm
  <2>1. ~IsPending(c) /\ \A b \in Client \ {c} : boot'[b] = boot[b]
    BY <1>1, <1>3 DEF Start, Boot, Goto, StageAgrees, IsPending, TypeOK
  <2> QED
    BY <1>3, <2>1 DEF Calm, Start, Boot, IsPending
<1>4. ASSUME NEW c \in Client, Reserved(c)
      PROVE  Calm \/ \E w \in WriteOutcome : Reserves(c, w)
  <2>1. PICK w \in WriteOutcome : ReserveWrite(c, w)
    BY <1>4 DEF Reserved
  <2>2. UNCHANGED <<sent, reverted>>
    BY <1>4 DEF Reserved
  <2>3. CASE w = "NotApplied"
    <3>1. UNCHANGED <<file, handle, boot>>
      BY <1>1, <2>1, <2>3, ReserveWriteFacts DEF Payers
    <3> QED
      BY <1>2, <2>2, <3>1
  <2> QED
    BY <2>1, <2>2, <2>3 DEF Reserves
<1>5. ASSUME NEW c \in Client, Settled(c) \/ Undone(c)
      PROVE  Calm \/ \E w \in WriteOutcome : Commits(c, w) \/ RollsBack(c, w)
  <2>1. PICK w \in WriteOutcome :
          /\ FinishWrite(c, w)
          /\ \/ /\ stage[c] = "settling"
                /\ sent' = IF w = "NotApplied" THEN sent
                           ELSE [sent EXCEPT ![Attempt(c)].closed = TRUE]
             \/ stage[c] = "undoing" /\ sent' = sent
    BY <1>5 DEF Settled, Undone
  <2>2. UNCHANGED reverted
    BY <1>5 DEF Settled, Undone
  <2>3. CASE w = "NotApplied"
    <3>1. UNCHANGED <<file, handle, boot>>
      BY <1>1, <2>1, <2>3, FinishWriteFacts DEF Payers
    <3> QED
      BY <1>2, <2>1, <2>2, <2>3, <3>1
  <2> QED
    BY <2>1, <2>2, <2>3 DEF Commits, RollsBack
<1>6. ASSUME NEW c \in Client, Die(c) PROVE Calm
  BY <1>1, <1>6 DEF Calm, Die, Crash, IsPending, TypeOK
<1>7. ASSUME NEW c \in Client, Step(c)
      PROVE  \/ Calm \/ Submit(c)
             \/ \E w \in WriteOutcome :
                  Reserves(c, w) \/ Commits(c, w) \/ RollsBack(c, w)
  <2>1. \/ Start(c) \/ Submit(c) \/ Reserved(c) \/ Settled(c) \/ Undone(c)
        \/ Die(c) \/ UNCHANGED <<file, handle, boot, sent, reverted>>
    BY <1>7
       DEF Step, Reject, BeginReserve, CallReserveGuarded, CallReserve,
           CallFinish, Begin, Lock, LockAndRead, payVars, NotReserved,
           ReserveDuplicate, ReserveOverBudget, ReserveOverflow, AccessFails,
           Refuse, Return, Construct, ConstructFails, NotSubmitted, Ready,
           Answer, Disconnect, Verify, Save, BeginFinish, NotFinished,
           FinishMissing, ledgerVars
  <2> QED
    BY <1>2, <1>3, <1>4, <1>5, <1>6, <2>1
<1>8. ASSUME NEW w \in Wallet, ClearMarker(w) PROVE Calm
  BY <1>2, <1>8 DEF ClearMarker, ledgerVars
<1>9. CASE DayPasses \/ UNCHANGED vars
  BY <1>2, <1>9 DEF DayPasses, Midnight, payVars, vars
<1> QED
  BY <1>7, <1>8, <1>9 DEF Next

\* A calm step leaves the money where it was.
LEMMA CalmMoney ==
  ASSUME PayInv, Calm
  PROVE  MoneyInv'
<1>1. OpenAreHeld => OpenAreHeld'
  BY DEF Calm, OpenAreHeld, Open, Name, Attempt, IsPending
<1>2. ClosedAreCounted => ClosedAreCounted'
  BY DEF Calm, ClosedAreCounted, Closed, SatsOf
<1> QED
  BY <1>1, <1>2 DEF PayInv, MoneyInv, Calm

\* A power loss undoes a write, or leaves the file as it was to nobody.
LEMMA LosePowerMoney ==
  ASSUME PayInv, LosePower
  PROVE  MoneyInv'
<1> SUFFICES ASSUME ~reverted' PROVE OpenAreHeld' /\ ClosedAreCounted'
  BY DEF MoneyInv
<1>1. /\ ~reverted /\ file' = file /\ sent' = sent
      /\ \A c \in Client : ~IsPending(c)'
  BY DEF LosePower, PowerLoss, IsPending
<1>2. OpenAreHeld /\ ClosedAreCounted
  BY <1>1 DEF PayInv, MoneyInv
<1> QED
  BY <1>1, <1>2 DEF OpenAreHeld, Open, Name, ClosedAreCounted, Closed, SatsOf

\* A payment that fails is open no longer, one that settles stays what it was.
LEMMA ResolveMoney ==
  ASSUME PayInv, Resolve
  PROVE  MoneyInv'
<1> SUFFICES ASSUME ~reverted' PROVE OpenAreHeld' /\ ClosedAreCounted'
  BY DEF MoneyInv
<1>1. PICK k \in DOMAIN sent, fate \in {"settled", "failed"} :
        /\ sent[k].fate = "inflight"
        /\ sent' = [sent EXCEPT ![k].fate = fate]
  BY DEF Resolve
<1>2. UNCHANGED <<file, handle, boot, reverted>>
  BY DEF Resolve, ledgerVars
<1>3. OpenAreHeld /\ ClosedAreCounted /\ PayTypeOK
  BY <1>2 DEF PayInv, MoneyInv, StageInv
<1>4. /\ DOMAIN sent' = DOMAIN sent
      /\ \A j \in DOMAIN sent :
           /\ sent'[j].id = sent[j].id /\ sent'[j].day = sent[j].day
           /\ sent'[j].amount = sent[j].amount
           /\ sent'[j].closed = sent[j].closed
           /\ Open(sent'[j]) => Open(sent[j])
  <2>1. ASSUME NEW j \in DOMAIN sent
        PROVE  /\ sent[j] \in Payment
               /\ \/ sent'[j] = sent[j]
                  \/ /\ sent'[j] = [sent[j] EXCEPT !.fate = fate]
                     /\ sent[j].fate = "inflight"
    BY <1>1, <1>3 DEF PayTypeOK
  <2> QED
    BY <1>1, <2>1 DEF Payment, Open
<1>5. OpenAreHeld'
  BY <1>2, <1>3, <1>4 DEF OpenAreHeld, Name, IsPending, Attempt
<1>6. ASSUME NEW d \in Day
      PROVE  Closed(d)' = Closed(d) /\ SatsOf(Closed(d))' = SatsOf(Closed(d))
  BY <1>4 DEF Closed, SatsOf
<1> QED
  BY <1>2, <1>3, <1>5, <1>6 DEF ClosedAreCounted

\* A payment leaves with the reservation of the process that sends it.
LEMMA SubmitMoney ==
  ASSUME PayInv, NEW c \in Client, Submit(c)
  PROVE  MoneyInv'
<1> SUFFICES ASSUME ~reverted' PROVE OpenAreHeld' /\ ClosedAreCounted'
  BY DEF MoneyInv
<1> DEFINE k == Attempt(c)
           h == handle[c]
           p == [id |-> h.id, day |-> h.day, amount |-> h.amount,
                 fate |-> "inflight", closed |-> FALSE]
<1>1. /\ stage[c] = "pay"
      /\ sent' = [j \in DOMAIN sent \cup {k} |-> IF j = k THEN p ELSE sent[j]]
      /\ UNCHANGED <<file, handle, boot, reverted>>
  BY DEF Submit, Goto, ledgerVars
<1>2. /\ OpenAreHeld /\ ClosedAreCounted /\ PendingAreExclusive
      /\ StageAgrees(c) /\ SentAgrees(c)
  BY <1>1 DEF PayInv, MoneyInv, StageInv, CountingInv
<1>3. IsPending(c) /\ k \notin DOMAIN sent
  BY <1>1, <1>2 DEF StageAgrees, SentAgrees, Reserving, Early
<1>4. /\ h.id \in DOMAIN file[h.day].held
      /\ file[h.day].held[h.id] = h.amount
      /\ \A b \in Client \ {c} :
           IsPending(b) => Name(handle[b]) # Name(h)
  BY <1>2, <1>3 DEF PendingAreExclusive, Name
<1>5. \A j \in DOMAIN sent : Open(sent[j]) => Name(sent[j]) # Name(h)
  BY <1>2, <1>3 DEF OpenAreHeld
<1>6. /\ DOMAIN sent' = DOMAIN sent \cup {k} /\ sent'[k] = p
      /\ \A j \in DOMAIN sent : sent'[j] = sent[j]
  <2> HIDE DEF k, p
  <2> QED
    BY <1>1, <1>3
<1>7. OpenAreHeld'
  <2> SUFFICES ASSUME NEW j \in DOMAIN sent', Open(sent'[j])
               PROVE  LET q == sent'[j] IN
                      /\ q.id \in DOMAIN file[q.day].held
                      /\ file[q.day].held[q.id] = q.amount
                      /\ \A i \in DOMAIN sent' \ {j} :
                           Open(sent'[i]) => Name(sent'[i]) # Name(q)
                      /\ \A b \in Client :
                           /\ IsPending(b) /\ Name(handle[b]) = Name(q)
                           => j = Attempt(b)
    <3>1. file' = file /\ handle' = handle /\ boot' = boot
      BY <1>1
    <3> QED
      BY <3>1 DEF OpenAreHeld, IsPending, Attempt
  <2>1. ASSUME NEW i \in DOMAIN sent, Open(sent[i])
        PROVE  LET q == sent[i] IN
               /\ q.id \in DOMAIN file[q.day].held
               /\ file[q.day].held[q.id] = q.amount
               /\ \A l \in DOMAIN sent \ {i} :
                    Open(sent[l]) => Name(sent[l]) # Name(q)
               /\ \A b \in Client :
                    IsPending(b) /\ Name(handle[b]) = Name(q) => i = Attempt(b)
               /\ Name(q) # Name(h)
    BY <1>2, <1>5, <2>1 DEF OpenAreHeld
  <2>2. Name(p) = Name(h) /\ p.id = h.id /\ p.day = h.day /\ p.amount = h.amount
    BY DEF Name
  <2>3. CASE j = k
    <3>1. \A i \in DOMAIN sent' \ {j} : i \in DOMAIN sent /\ sent'[i] = sent[i]
      BY <1>6, <2>3
    <3>2. \A b \in Client : IsPending(b) /\ Name(handle[b]) = Name(h) => b = c
      BY <1>4
    <3> HIDE DEF p, h
    <3> QED
      BY <1>4, <1>6, <2>1, <2>2, <2>3, <3>1, <3>2 DEF h
  <2>4. CASE j # k
    <3>1. j \in DOMAIN sent /\ sent'[j] = sent[j]
      BY <1>6, <2>4
    <3> HIDE DEF p, h, k
    <3>2. ASSUME NEW i \in DOMAIN sent' \ {j}, Open(sent'[i])
          PROVE  Name(sent'[i]) # Name(sent'[j])
      <4>1. CASE i = k
        BY <1>6, <2>1, <2>2, <3>1, <4>1
      <4>2. CASE i # k
        BY <1>6, <2>1, <3>1, <3>2, <4>2
      <4> QED
        BY <4>1, <4>2
    <3> QED
      BY <2>1, <3>1, <3>2
  <2> QED
    BY <2>3, <2>4
<1>8. ASSUME NEW d \in Day
      PROVE  Closed(d)' = Closed(d) /\ SatsOf(Closed(d))' = SatsOf(Closed(d))
  BY <1>1, <1>3, <1>6 DEF Closed, SatsOf
<1> QED
  BY <1>1, <1>2, <1>7, <1>8 DEF ClosedAreCounted

\* A new reservation takes no open payment's place.
LEMMA ReservesMoney ==
  ASSUME PayInv, NEW c \in Client, NEW w \in WriteOutcome, Reserves(c, w)
  PROVE  MoneyInv'
<1> SUFFICES ASSUME ~reverted' PROVE OpenAreHeld' /\ ClosedAreCounted'
  BY DEF MoneyInv
<1> DEFINE k == call[c]
           t == WithReservation(file, k.id, k.day, k.amount)
           h == [id |-> k.id, day |-> k.day, amount |-> k.amount,
                 state |-> "Pending"]
<1>1. /\ CountingInv(Payers) /\ OpenAreHeld /\ ClosedAreCounted
      /\ PayTypeOK /\ TypeOK /\ ReserveWrite(c, w) /\ w # "NotApplied"
      /\ sent' = sent
  BY DEF PayInv, MoneyInv, StageInv, CountingInv, LedgerInv, Reserves
<1>2. /\ k.id \in Id /\ k.day \in Day /\ k.amount \in Sats
      /\ k.id \notin DOMAIN file[k.day].held
      /\ file' = t /\ handle' = [handle EXCEPT ![c] = h] /\ boot' = boot
  BY <1>1, ReserveWriteFacts DEF Payers
<1>3. IsLedger(file) /\ DOMAIN handle = Client
  BY <1>1 DEF TypeOK
<1>4. /\ DOMAIN t[k.day].held = DOMAIN file[k.day].held \cup {k.id}
      /\ \A i \in DOMAIN file[k.day].held \ {k.id} :
           t[k.day].held[i] = file[k.day].held[i]
      /\ \A d \in Day \ {k.day} : t[d] = file[d]
      /\ \A d \in Day : t[d].committed = file[d].committed
  <2> HIDE DEF k
  <2> QED
    BY <1>2, <1>3, HeldWithReservation, CommittedWithReservation
<1>5. Name(h) = <<k.id, k.day>>
  BY DEF Name
<1>6. /\ handle'[c] = h
      /\ \A b \in Client \ {c} : handle'[b] = handle[b]
  BY <1>2, <1>3
<1> HIDE DEF h, t, k
<1>7. OpenAreHeld'
  <2> SUFFICES ASSUME NEW j \in DOMAIN sent, Open(sent[j])
               PROVE  LET q == sent[j] IN
                      /\ q.id \in DOMAIN t[q.day].held
                      /\ t[q.day].held[q.id] = q.amount
                      /\ \A i \in DOMAIN sent \ {j} :
                           Open(sent[i]) => Name(sent[i]) # Name(q)
                      /\ \A b \in Client :
                           IsPending(b)' /\ Name(handle'[b]) = Name(q) =>
                             j = Attempt(b)
    BY <1>1, <1>2 DEF OpenAreHeld, Attempt
  <2> DEFINE q == sent[j]
  <2>1. /\ q.id \in DOMAIN file[q.day].held
        /\ file[q.day].held[q.id] = q.amount
        /\ \A i \in DOMAIN sent \ {j} :
             Open(sent[i]) => Name(sent[i]) # Name(q)
        /\ \A b \in Client :
             IsPending(b) /\ Name(handle[b]) = Name(q) => j = Attempt(b)
    BY <1>1 DEF OpenAreHeld
  <2>2. q.day \in Day
    BY <1>1 DEF PayTypeOK, Payment
  <2> HIDE DEF q
  <2>3. Name(q) # Name(h)
    BY <1>2, <1>5, <2>1 DEF Name
  <2>4. q.id \in DOMAIN t[q.day].held /\ t[q.day].held[q.id] = q.amount
    BY <1>2, <1>4, <2>1, <2>2
  <2>5. \A b \in Client :
          IsPending(b)' /\ Name(handle'[b]) = Name(q) => j = Attempt(b)
    BY <1>6, <2>1, <2>3 DEF IsPending
  <2> QED
    BY <2>1, <2>4, <2>5 DEF q
<1> QED
  BY <1>1, <1>2, <1>4, <1>7 DEF ClosedAreCounted, Closed, SatsOf

\* The write of a commit or a rollback takes its own reservation out of the
\* file, leaves all others and adds what is committed.
LEMMA FinishMoney ==
  ASSUME PayInv, NEW c \in Client, NEW w \in WriteOutcome, FinishWrite(c, w),
         w # "NotApplied"
  PROVE  LET h == handle[c] IN
         /\ h \in Reservation /\ IsPending(c)
         /\ boot' = boot
         /\ ~IsPending(c)'
         /\ \A b \in Client \ {c} : handle'[b] = handle[b]
         /\ \A d \in Day, i \in Id :
              i \in DOMAIN file[d].held /\ <<i, d>> # Name(h) =>
                i \in DOMAIN file'[d].held
                  /\ file'[d].held[i] = file[d].held[i]
         /\ \A d \in Day :
              file'[d].committed =
                IF d = h.day /\ call[c].kind = "commit"
                THEN file[d].committed + h.amount ELSE file[d].committed
<1> DEFINE h == handle[c]
           commit == call[c].kind = "commit"
           t == Finished(file, h.id, h.day, commit)
<1>1. CountingInv(Payers) /\ TypeOK
  BY DEF PayInv, CountingInv, LedgerInv
<1>2. /\ h \in Reservation /\ IsPending(c)
      /\ h.id \in DOMAIN file[h.day].held
      /\ file[h.day].held[h.id] = h.amount
      /\ boot' = boot /\ file' = t
      /\ handle' = [handle EXCEPT ![c] =
                      [h EXCEPT !.state = IF commit THEN "Committed"
                                          ELSE "RolledBack"]]
  BY <1>1, FinishWriteFacts DEF Payers
<1>3. IsLedger(file) /\ DOMAIN handle = Client /\ commit \in BOOLEAN
  BY <1>1 DEF TypeOK
<1>4. h.id \in Id /\ h.day \in Day /\ "state" \in DOMAIN h
  BY <1>2 DEF Reservation
<1>5. ~IsPending(c)' /\ \A b \in Client \ {c} : handle'[b] = handle[b]
  BY <1>2, <1>3, <1>4 DEF IsPending
<1> HIDE DEF commit
<1>6. /\ DOMAIN t[h.day].held = DOMAIN file[h.day].held \ {h.id}
      /\ \A i \in DOMAIN file[h.day].held \ {h.id} :
           t[h.day].held[i] = file[h.day].held[i]
      /\ \A d \in Day \ {h.day} : t[d] = file[d]
      /\ t[h.day].committed =
           IF commit THEN file[h.day].committed + h.amount
           ELSE file[h.day].committed
  <2>1. h.id \in DOMAIN file[h.day].held /\ file[h.day].held[h.id] = h.amount
    BY <1>2
  <2> HIDE DEF h
  <2> QED
    BY <1>3, <1>4, <2>1, HeldFinished, CommittedFinished
<1>7. \A d \in Day, i \in Id :
        i \in DOMAIN file[d].held /\ <<i, d>> # Name(h) =>
          i \in DOMAIN t[d].held /\ t[d].held[i] = file[d].held[i]
  <2> HIDE DEF h, t
  <2> QED
    BY <1>6 DEF Name
<1>8. \A d \in Day :
        t[d].committed = IF d = h.day /\ commit
                         THEN file[d].committed + h.amount
                         ELSE file[d].committed
  <2> HIDE DEF h, t
  <2> QED
    BY <1>6
<1> HIDE DEF t
<1> QED
  BY <1>2, <1>5, <1>7, <1>8 DEF commit

\* Open payments other than the client's own keep their reservations.
LEMMA FinishKeepsOthers ==
  ASSUME PayInv, ~reverted, NEW c \in Client, NEW w \in WriteOutcome,
         FinishWrite(c, w), w # "NotApplied",
         NEW j \in DOMAIN sent, Open(sent[j]), j # Attempt(c)
  PROVE  LET q == sent[j] IN
         /\ q.id \in DOMAIN file'[q.day].held
         /\ file'[q.day].held[q.id] = q.amount
         /\ \A i \in DOMAIN sent \ {j} :
              Open(sent[i]) => Name(sent[i]) # Name(q)
         /\ \A b \in Client :
              IsPending(b)' /\ Name(handle'[b]) = Name(q) => j = Attempt(b)
<1> DEFINE q == sent[j]
           h == handle[c]
<1>1. /\ q.id \in DOMAIN file[q.day].held
      /\ file[q.day].held[q.id] = q.amount
      /\ \A i \in DOMAIN sent \ {j} : Open(sent[i]) => Name(sent[i]) # Name(q)
      /\ \A b \in Client :
           IsPending(b) /\ Name(handle[b]) = Name(q) => j = Attempt(b)
  BY DEF PayInv, MoneyInv, OpenAreHeld
<1>2. q.id \in Id /\ q.day \in Day
  BY DEF PayInv, StageInv, PayTypeOK, Payment
<1>3. /\ IsPending(c) /\ ~IsPending(c)'
      /\ \A b \in Client \ {c} : handle'[b] = handle[b]
      /\ \A d \in Day, i \in Id :
           i \in DOMAIN file[d].held /\ <<i, d>> # Name(h) =>
             i \in DOMAIN file'[d].held
               /\ file'[d].held[i] = file[d].held[i]
  BY FinishMoney
<1>4. Name(q) # Name(h)
  BY <1>1, <1>3
<1>5. q.id \in DOMAIN file'[q.day].held /\ file'[q.day].held[q.id] = q.amount
  <2>1. <<q.id, q.day>> # Name(h)
    BY <1>4 DEF Name
  <2> HIDE DEF q, h
  <2> QED
    BY <1>1, <1>2, <1>3, <2>1
<1>6. \A b \in Client :
        IsPending(b)' /\ Name(handle'[b]) = Name(q) => j = Attempt(b)
  BY <1>1, <1>3 DEF IsPending
<1> QED
  BY <1>1, <1>5, <1>6

\* A rollback is of a payment that has failed or was never sent.
LEMMA RollsBackMoney ==
  ASSUME PayInv, NEW c \in Client, NEW w \in WriteOutcome, RollsBack(c, w)
  PROVE  MoneyInv'
<1> SUFFICES ASSUME ~reverted' PROVE OpenAreHeld' /\ ClosedAreCounted'
  BY DEF MoneyInv
<1>1. /\ ~reverted /\ stage[c] = "undoing" /\ FinishWrite(c, w)
      /\ w # "NotApplied" /\ sent' = sent
      /\ OpenAreHeld /\ ClosedAreCounted
      /\ StageAgrees(c) /\ SentAgrees(c)
  BY DEF RollsBack, PayInv, MoneyInv, StageInv
<1>2. boot' = boot /\ \A d \in Day : file'[d].committed = file[d].committed
  <2>1. call[c].kind # "commit"
    BY <1>1 DEF StageAgrees
  <2> QED
    BY <1>1, <2>1, FinishMoney
<1>3. \A j \in DOMAIN sent : Open(sent[j]) => j # Attempt(c)
  BY <1>1 DEF SentAgrees, Open
<1>4. OpenAreHeld'
  <2> SUFFICES ASSUME NEW j \in DOMAIN sent, Open(sent[j])
               PROVE  LET q == sent[j] IN
                      /\ q.id \in DOMAIN file'[q.day].held
                      /\ file'[q.day].held[q.id] = q.amount
                      /\ \A i \in DOMAIN sent \ {j} :
                           Open(sent[i]) => Name(sent[i]) # Name(q)
                      /\ \A b \in Client :
                           IsPending(b)' /\ Name(handle'[b]) = Name(q) =>
                             j = Attempt(b)
    BY <1>1, <1>2 DEF OpenAreHeld, Attempt
  <2> QED
    BY <1>1, <1>3, FinishKeepsOthers
<1> QED
  BY <1>1, <1>2, <1>4 DEF ClosedAreCounted, Closed, SatsOf

\* A commit moves a payment's amount to what is committed on its day.
LEMMA CommitsMoney ==
  ASSUME PayInv, NEW c \in Client, NEW w \in WriteOutcome, Commits(c, w)
  PROVE  MoneyInv'
<1> SUFFICES ASSUME ~reverted' PROVE OpenAreHeld' /\ ClosedAreCounted'
  BY DEF MoneyInv
<1> DEFINE k == Attempt(c)
           h == handle[c]
<1>1. /\ ~reverted /\ stage[c] = "settling" /\ FinishWrite(c, w)
      /\ w # "NotApplied" /\ sent' = [sent EXCEPT ![k].closed = TRUE]
      /\ OpenAreHeld /\ ClosedAreCounted /\ PayTypeOK
      /\ StageAgrees(c) /\ SentAgrees(c)
  BY DEF Commits, PayInv, MoneyInv, StageInv
<1>2. /\ call[c].kind = "commit" /\ k \in DOMAIN sent
      /\ sent[k].day = h.day /\ sent[k].amount = h.amount
  BY <1>1 DEF StageAgrees, SentAgrees, Reserving
<1>3. /\ boot' = boot
      /\ \A d \in Day :
           file'[d].committed = IF d = h.day THEN file[d].committed + h.amount
                                ELSE file[d].committed
  BY <1>1, <1>2, FinishMoney
<1>4. /\ DOMAIN sent' = DOMAIN sent
      /\ sent'[k].closed = TRUE
      /\ \A j \in DOMAIN sent \ {k} : sent'[j] = sent[j]
      /\ \A j \in DOMAIN sent : sent'[j].day = sent[j].day
                                /\ sent'[j].amount = sent[j].amount
  <2>1. sent[k] \in Payment
    BY <1>1, <1>2 DEF PayTypeOK
  <2> HIDE DEF k
  <2> QED
    BY <1>1, <1>2, <2>1 DEF Payment
<1>5. \A j \in DOMAIN sent : Open(sent'[j]) => j # k /\ Open(sent[j])
  BY <1>4 DEF Open
<1>6. OpenAreHeld'
  <2> SUFFICES ASSUME NEW j \in DOMAIN sent, Open(sent'[j])
               PROVE  LET q == sent'[j] IN
                      /\ q.id \in DOMAIN file'[q.day].held
                      /\ file'[q.day].held[q.id] = q.amount
                      /\ \A i \in DOMAIN sent \ {j} :
                           Open(sent'[i]) => Name(sent'[i]) # Name(q)
                      /\ \A b \in Client :
                           IsPending(b)' /\ Name(handle'[b]) = Name(q) =>
                             j = Attempt(b)
    BY <1>3, <1>4 DEF OpenAreHeld, Attempt
  <2>1. j # k /\ Open(sent[j])
    BY <1>5
  <2>2. LET q == sent[j] IN
        /\ q.id \in DOMAIN file'[q.day].held
        /\ file'[q.day].held[q.id] = q.amount
        /\ \A i \in DOMAIN sent \ {j} :
             Open(sent[i]) => Name(sent[i]) # Name(q)
        /\ \A b \in Client :
             IsPending(b)' /\ Name(handle'[b]) = Name(q) => j = Attempt(b)
    BY <1>1, <2>1, FinishKeepsOthers
  <2> HIDE DEF k
  <2> QED
    BY <1>4, <1>5, <2>1, <2>2
<1>7. ASSUME NEW d \in Day
      PROVE  Cardinality(SatsOf(Closed(d))') <= file'[d].committed
  <2>1. SatsOf(Closed(d))' =
          SatsOf(IF d = h.day THEN Closed(d) \cup {k} ELSE Closed(d))
    <3>1. Closed(d)' = IF d = h.day THEN Closed(d) \cup {k} ELSE Closed(d)
      <4> HIDE DEF k, h
      <4> QED
        BY <1>2, <1>4 DEF Closed
    <3>2. Closed(d)' \subseteq DOMAIN sent
      BY <1>4 DEF Closed
    <3>3. SatsOf(Closed(d))' = SatsOf(Closed(d)')
      BY <1>4, <3>2 DEF SatsOf
    <3> QED
      BY <3>1, <3>3
  <2>2. /\ Closed(d) \subseteq DOMAIN sent
        /\ Cardinality(SatsOf(Closed(d))) <= file[d].committed
    BY <1>1 DEF Closed, ClosedAreCounted
  <2>3. /\ Cardinality(SatsOf(Closed(d))) \in Nat
        /\ Cardinality(SatsOf(Closed(d) \cup {k})) \in Nat
        /\ Cardinality(SatsOf(Closed(d) \cup {k}))
             <= Cardinality(SatsOf(Closed(d))) + sent[k].amount
    BY <1>1, <1>2, <2>2, SatsAreFinite, SatsOfOneMore
  <2>4. sent[k].amount \in Nat
    BY <1>1, <1>2, LedgerAssumption DEF PayTypeOK, Payment, Sats
  <2>5. file[d].committed \in Nat
    <3>1. IsLedger(file)
      BY DEF PayInv, CountingInv, LedgerInv, TypeOK
    <3> QED
      BY <3>1 DEF IsLedger, IsEntry
  <2> HIDE DEF k, h
  <2> QED
    BY <1>2, <1>3, <2>1, <2>2, <2>3, <2>4, <2>5
<1> QED
  BY <1>6, <1>7 DEF ClosedAreCounted
-----------------------------------------------------------------------------
(* The theorems.                                                           *)

\* After no step does a client of `request` reserve anonymously.
LEMMA RequestsAreGuarded ==
  ASSUME LedgerInv', StageInv'
  PROVE  \A c \in Client \ Payers : call'[c].kind # "reserve"
<1> SUFFICES ASSUME NEW c \in Client \ Payers PROVE call'[c].kind # "reserve"
  OBVIOUS
<1>1. /\ c \in Client /\ c \in Requester /\ StageAgrees(c)'
      /\ pc'[c] \in {"down", "idle", "calling", "locked"}
      /\ pc'[c] \in {"down", "idle"} => call'[c] = None
  BY DEF Payers, StageInv, LedgerInv, TypeOK, CallsAgree
<1> QED
  BY <1>1 DEF StageAgrees, None

\* Nothing is sent and nothing reserved at first.
LEMMA InitPayInv ==
  ASSUME Init
  PROVE  PayInv
<1>1. StageInv /\ LedgerInit
  BY InitStageInv DEF Init
<1>2. CountingInv(Payers)
  BY <1>1, InitCountingInv DEF Payers
<1>3. OpenAreHeld
  BY DEF Init, PayInit, OpenAreHeld
<1>4. ASSUME NEW d \in Day
      PROVE  Cardinality(SatsOf(Closed(d))) <= file[d].committed
  <2>1. SatsOf(Closed(d)) = {}
    BY DEF Init, PayInit, Closed, SatsOf
  <2>2. file[d].committed = 0
    BY <1>1 DEF LedgerInit, EmptyLedger, empty
  <2> QED
    BY <2>1, <2>2, FS_EmptySet
<1> QED
  BY <1>1, <1>2, <1>3, <1>4 DEF PayInv, MoneyInv, ClosedAreCounted

\* Every step keeps the invariant.
LEMMA PayInvNext ==
  ASSUME IdsDiffer(Payers), PayInv, [Next]_vars
  PROVE  PayInv'
<1>1. LedgerInv /\ StageInv /\ CountingInv(Payers)
  BY DEF PayInv, CountingInv
<1>2. [LedgerNext]_ledgerVars
  BY PayStepIsLedgerStep
<1>3. LedgerInv' /\ StageInv'
  BY <1>1, <1>2, LedgerNextInv, PayNextInv
<1>4. \A c \in Client \ Payers : call'[c].kind # "reserve"
  BY <1>3, RequestsAreGuarded
<1>5. CountingInv(Payers)'
  BY <1>1, <1>2, <1>4, CountingNextInv DEF Payers
<1>6. MoneyInv'
  BY PayStepKinds, CalmMoney, LosePowerMoney, ResolveMoney, SubmitMoney,
     ReservesMoney, CommitsMoney, RollsBackMoney
<1> QED
  BY <1>3, <1>5, <1>6 DEF PayInv

\* Reservations stand each for itself, and open payments for theirs.
THEOREM PaymentInvariant ==
  ASSUME IdsDiffer(Payers)
  PROVE  Spec => []PayInv
<1>1. Init => PayInv
  BY InitPayInv
<1>2. PayInv /\ [Next]_vars => PayInv'
  BY PayInvNext
<1> QED
  BY <1>1, <1>2, PTL DEF Spec

\* A payment that has not finally failed and is not committed has its
\* reservation in the ledger with its amount: no rollback, crash, restart or
\* other client removes it (orchestrator.rs:254-264, ledger.rs:359-396), unless a
\* power loss undid an unsynced write.
THEOREM OpenPaymentsStayGuarded ==
  ASSUME IdsDiffer(Payers)
  PROVE  Spec => []OpenPaymentsAreGuarded
<1>1. PayInv => OpenPaymentsAreGuarded
  BY DEF PayInv, MoneyInv, OpenAreHeld, Open, OpenPaymentsAreGuarded, Live
<1> QED
  BY <1>1, PaymentInvariant, PTL

\* The open payments of one day are no more than what is reserved on it.
LEMMA OpenAreReserved ==
  ASSUME PayInv, ~reverted, NEW d \in Day
  PROVE  Cardinality(SatsOf(Live(d) \ Closed(d))) <= reservation_total(file[d])
<1> DEFINE K == Live(d) \ Closed(d)
<1>1. OpenAreHeld /\ PayTypeOK /\ TypeOK
  BY DEF PayInv, MoneyInv, StageInv, CountingInv, LedgerInv
<1>2. IsEntry(file[d])
  BY <1>1 DEF TypeOK, IsLedger
<1>3. \A k \in K : k \in DOMAIN sent /\ sent[k].day = d /\ Open(sent[k])
  BY DEF Live, Closed, Open
<1>4. \A k \in K : /\ sent[k].id \in DOMAIN file[d].held
                   /\ file[d].held[sent[k].id] = sent[k].amount
  BY <1>1, <1>3 DEF OpenAreHeld
<1>5. \A j, k \in K : sent[j].id = sent[k].id => j = k
  BY <1>1, <1>3 DEF OpenAreHeld, Name
<1> HIDE DEF K
<1>6. Cardinality(SatsOf(K)) <= reservation_total(file[d])
  BY <1>1, <1>2, <1>3, <1>4, <1>5, HeldPaymentsAreCounted
<1> QED
  BY <1>6 DEF K

\* What open and committed payments of a day move is counted against it.
LEMMA PayInvCounts ==
  ASSUME PayInv
  PROVE  SpendIsCounted
<1> SUFFICES ASSUME ~reverted, NEW d \in Day
             PROVE  Cardinality(SatsOf(Live(d))) <= Counting(file[d])
  BY DEF SpendIsCounted, SatsAtRisk, SatsOf
<1> DEFINE A == SatsOf(Closed(d))
           B == SatsOf(Live(d) \ Closed(d))
           L == SatsOf(Live(d))
<1>1. PayTypeOK /\ ClosedAreCounted /\ IsEntry(file[d])
  BY DEF PayInv, MoneyInv, StageInv, CountingInv, LedgerInv, TypeOK, IsLedger
<1>2. Live(d) \subseteq DOMAIN sent /\ Closed(d) \subseteq DOMAIN sent
  BY DEF Live, Closed
<1>3. /\ IsFiniteSet(A) /\ Cardinality(A) \in Nat
      /\ IsFiniteSet(B) /\ Cardinality(B) \in Nat
      /\ IsFiniteSet(L) /\ Cardinality(L) \in Nat
  BY <1>1, <1>2, SatsAreFinite
<1>4. L \subseteq A \cup B
  BY DEF SatsOf
<1>5. Cardinality(A) <= file[d].committed
  BY <1>1 DEF ClosedAreCounted
<1>6. Cardinality(B) <= reservation_total(file[d])
  BY OpenAreReserved
<1>7. file[d].committed \in Nat /\ reservation_total(file[d]) \in Nat
  BY <1>1, HeldSatsOf DEF IsEntry
<1> HIDE DEF A, B, L
<1>8. /\ IsFiniteSet(A \cup B)
      /\ Cardinality(A \cup B)
           = Cardinality(A) + Cardinality(B) - Cardinality(A \cap B)
      /\ Cardinality(A \cap B) \in Nat
  BY <1>3, FS_Union, FS_Subset, FS_CardinalityType
<1>9. Cardinality(L) <= Cardinality(A \cup B)
  BY <1>4, <1>8, FS_Subset
<1> QED
  BY <1>3, <1>5, <1>6, <1>7, <1>8, <1>9 DEF Counting, L

\* What left the wallet or still may is counted against the day it was
\* reserved on, whatever clients, crashes, ambiguous answers and failed writes
\* do, unless a power loss undid an unsynced write.
THEOREM SpendStaysCounted ==
  ASSUME IdsDiffer(Payers)
  PROVE  Spec => []SpendIsCounted
<1>1. PayInv => SpendIsCounted
  BY PayInvCounts
<1> QED
  BY <1>1, PaymentInvariant, PTL

\* Only the holder of a reservation sends its payment.
LEMMA StepRepeatsNothing ==
  ASSUME PayInv, [Next]_vars
  PROVE  RepeatsAreOfAnotherDay
<1> SUFFICES ASSUME ~reverted,
                    NEW k \in DOMAIN sent' \ DOMAIN sent, NEW j \in DOMAIN sent,
                    sent'[k].id = sent[j].id, sent'[k].day = sent[j].day,
                    Open(sent[j])
             PROVE  FALSE
  BY DEF RepeatsAreOfAnotherDay, Repeats, Open
<1>1. PICK c \in Client : Submit(c)
  <2>1. DOMAIN sent' # DOMAIN sent
    OBVIOUS
  <2>2. ~Calm /\ ~Resolve /\ ~LosePower
    BY <2>1 DEF Calm, Resolve, LosePower
  <2>3. \A c \in Client, w \in WriteOutcome :
          ~Reserves(c, w) /\ ~Commits(c, w) /\ ~RollsBack(c, w)
    BY <2>1 DEF Reserves, Commits, RollsBack
  <2> QED
    BY <2>2, <2>3, PayStepKinds
<1>2. /\ stage[c] = "pay" /\ k = Attempt(c)
      /\ sent'[k].id = handle[c].id /\ sent'[k].day = handle[c].day
  BY <1>1 DEF Submit, Goto
<1>3. OpenAreHeld /\ StageAgrees(c)
  BY DEF PayInv, MoneyInv, StageInv
<1>4. IsPending(c) /\ Name(handle[c]) = Name(sent[j])
  BY <1>2, <1>3 DEF StageAgrees, Reserving, Name
<1> QED
  BY <1>2, <1>3, <1>4 DEF OpenAreHeld

\* On one day no challenge is paid again while an earlier payment of it is
\* ambiguous or confirmed but not committed (ledger.rs:138-165), unless a power
\* loss undid an unsynced write.
THEOREM NothingIsPaidAgain ==
  ASSUME IdsDiffer(Payers)
  PROVE  Spec => NoRepaymentSameDay
<1>1. PayInv /\ [Next]_vars => RepeatsAreOfAnotherDay
  BY StepRepeatsNothing
<1>2. PayInv /\ [Next]_vars => [RepeatsAreOfAnotherDay]_vars
  BY <1>1
<1> QED
  BY <1>2, PaymentInvariant, PTL DEF Spec, NoRepaymentSameDay

\* While payments are made, too, what counts against a day changes only by a
\* grant or a rollback and by exactly its amount.
THEOREM PaymentsConserve ==
  ASSUME IdsDiffer(Payers)
  PROVE  Spec => CountingConserved
<1>1. PayInv /\ [Next]_vars => [Conserves]_ledgerVars
  BY PayStepIsLedgerStep, LedgerStepConserves DEF PayInv, Payers
<1> QED
  BY <1>1, PaymentInvariant, PTL DEF Spec, CountingConserved

\* Where every client runs `request` nothing is asked of the process ids: all
\* ids are challenges, and the money is accounted for.
THEOREM RequestsAloneAreCounted ==
  ASSUME Requester = Client
  PROVE  Spec => [](SpendIsCounted /\ OpenPaymentsAreGuarded)
<1>1. IdsDiffer(Payers)
  BY DEF IdsDiffer, Payers
<1> QED
  BY <1>1, SpendStaysCounted, OpenPaymentsStayGuarded, PTL
=============================================================================
