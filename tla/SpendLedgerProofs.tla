------------------------- MODULE SpendLedgerProofs -------------------------
(***************************************************************************)
(* Theorems about SpendLedger, for any number of clients, guards, days,    *)
(* processes and amounts.                                                  *)
(***************************************************************************)
EXTENDS SpendLedger, FiniteSetTheorems, TLAPS

-----------------------------------------------------------------------------
(* What an operation makes of a ledger is a ledger.                        *)

\* A ledger starts with nothing committed and nothing held.
LEMMA EmptyIsLedger == IsLedger(EmptyLedger)
<1>1. empty.held = [i \in {} |-> 0] /\ empty.committed = 0
  BY DEF empty
<1>2. IsFiniteSet({})
  BY FS_EmptySet
<1>3. IsEntry(empty)
  BY <1>1, <1>2 DEF IsEntry, empty
<1> QED
  BY <1>3 DEF IsLedger, EmptyLedger

\* reserve and reserve_guarded insert one reservation into one day.
LEMMA WithReservationIsLedger ==
  ASSUME NEW s, IsLedger(s), NEW id \in Id, NEW day \in Day,
         NEW amount \in Sats
  PROVE  IsLedger(WithReservation(s, id, day, amount))
<1> DEFINE h == [i \in DOMAIN s[day].held \cup {id} |->
                   IF i = id THEN amount ELSE s[day].held[i]]
           t == WithReservation(s, id, day, amount)
<1>1. IsEntry(s[day])
  BY DEF IsLedger
<1>2. IsFiniteSet(DOMAIN h)
  BY <1>1, FS_AddElement DEF IsEntry
<1>3. h \in [DOMAIN h -> Sats] /\ DOMAIN h \subseteq Id
  BY <1>1 DEF IsEntry
<1>4. t[day] = [committed |-> s[day].committed, held |-> h]
  BY <1>1 DEF WithReservation, IsLedger, IsEntry
<1>5. IsEntry(t[day])
  <2> HIDE DEF h
  <2> QED BY <1>1, <1>2, <1>3, <1>4 DEF IsEntry
<1>6. \A d \in Day : d # day => t[d] = s[d]
  BY DEF WithReservation, IsLedger
<1>7. t = [d \in Day |-> t[d]]
  BY DEF WithReservation, IsLedger
<1> QED
  BY <1>5, <1>6, <1>7 DEF IsLedger

\* finish_classified removes one reservation from one day.
LEMMA WithoutReservationIsLedger ==
  ASSUME NEW s, IsLedger(s), NEW id \in Id, NEW day \in Day
  PROVE  IsLedger(WithoutReservation(s, id, day))
<1> DEFINE h == [i \in DOMAIN s[day].held \ {id} |-> s[day].held[i]]
           t == WithoutReservation(s, id, day)
<1>1. IsEntry(s[day])
  BY DEF IsLedger
<1>2. IsFiniteSet(DOMAIN h)
  BY <1>1, FS_RemoveElement DEF IsEntry
<1>3. h \in [DOMAIN h -> Sats] /\ DOMAIN h \subseteq Id
  BY <1>1 DEF IsEntry
<1>4. t[day] = [committed |-> s[day].committed, held |-> h]
  BY <1>1 DEF WithoutReservation, IsLedger, IsEntry
<1>5. IsEntry(t[day])
  <2> HIDE DEF h
  <2> QED BY <1>1, <1>2, <1>3, <1>4 DEF IsEntry
<1>6. \A d \in Day : d # day => t[d] = s[d]
  BY DEF WithoutReservation, IsLedger
<1>7. t = [d \in Day |-> t[d]]
  BY DEF WithoutReservation, IsLedger
<1> QED
  BY <1>5, <1>6, <1>7 DEF IsLedger

\* finish_classified adds what it removed to the day's commits, or drops it.
LEMMA FinishedIsLedger ==
  ASSUME NEW s, IsLedger(s), NEW id \in Id, NEW day \in Day,
         NEW commit \in BOOLEAN, id \in DOMAIN s[day].held
  PROVE  IsLedger(Finished(s, id, day, commit))
<1> DEFINE w == WithoutReservation(s, id, day)
           t == [w EXCEPT ![day].committed = @ + s[day].held[id]]
<1>1. IsLedger(w)
  BY WithoutReservationIsLedger
<1>2. CASE ~commit
  BY <1>1, <1>2 DEF Finished
<1>3. CASE commit
  <2> HIDE DEF w
  <2>1. IsEntry(w[day]) /\ w = [d \in Day |-> w[d]]
    BY <1>1 DEF IsLedger
  <2>2. s[day].held[id] \in Nat
    BY DEF IsLedger, IsEntry, Sats
  <2>3. t[day] = [committed |-> w[day].committed + s[day].held[id],
                  held |-> w[day].held]
    BY <2>1 DEF IsEntry
  <2>4. w[day].committed + s[day].held[id] \in Nat
    BY <2>1, <2>2 DEF IsEntry
  <2>5. IsEntry(t[day])
    BY <2>1, <2>3, <2>4 DEF IsEntry
  <2>6. \A d \in Day : d # day => t[d] = w[d]
    BY <2>1
  <2>7. t = [d \in Day |-> t[d]]
    BY <2>1
  <2>8. IsLedger(t)
    BY <1>1, <2>5, <2>6, <2>7 DEF IsLedger
  <2> QED
    BY <1>3, <2>8 DEF Finished, w
<1> QED
  BY <1>2, <1>3
-----------------------------------------------------------------------------
(* What counts against a day.                                              *)

\* The sats held under one id, beside those held under the others.
LEMMA HeldSatsOf ==
  ASSUME NEW e, IsEntry(e)
  PROVE  /\ IsFiniteSet(HeldSats(e.held))
         /\ reservation_total(e) \in Nat
         /\ Counting(e) \in Nat
<1>1. IsFiniteSet(DOMAIN e.held) /\ e.held \in [DOMAIN e.held -> Sats]
  BY DEF IsEntry
<1>2. IsFiniteSet(1 .. U64Max)
  BY FS_Interval, LedgerAssumption
<1>3. IsFiniteSet((DOMAIN e.held) \X (1 .. U64Max))
  BY <1>1, <1>2, FS_Product
<1>4. HeldSats(e.held) \subseteq (DOMAIN e.held) \X (1 .. U64Max)
  BY <1>1, LedgerAssumption DEF HeldSats, Sats
<1>5. IsFiniteSet(HeldSats(e.held))
  BY <1>3, <1>4, FS_Subset
<1>6. reservation_total(e) \in Nat
  BY <1>5, FS_CardinalityType DEF reservation_total
<1> QED
  BY <1>5, <1>6 DEF Counting, IsEntry

Others(held, id) == [i \in DOMAIN held \ {id} |-> held[i]]

IsHeld(held) ==
  /\ IsFiniteSet(DOMAIN held)
  /\ held \in [DOMAIN held -> Sats]

\* The sum of the reserved amounts is the amount of any one of them plus the
\* sum of the others.
LEMMA HeldSatsSplit ==
  ASSUME NEW held, IsHeld(held), NEW id \in DOMAIN held
  PROVE  Cardinality(HeldSats(held))
           = Cardinality(HeldSats(Others(held, id))) + held[id]
<1> DEFINE A == HeldSats(Others(held, id))
           B == {id} \X (1 .. held[id])
<1>1. held[id] \in Nat
  BY DEF IsHeld, Sats
<1>2. HeldSats(held) = A \cup B
  BY DEF HeldSats, Others
<1>3. A \cap B = {}
  BY DEF HeldSats, Others
<1>4. IsFiniteSet(A)
  <2>1. IsFiniteSet(1 .. U64Max)
    BY FS_Interval, LedgerAssumption
  <2>2. IsFiniteSet((DOMAIN held) \X (1 .. U64Max))
    BY <2>1, FS_Product DEF IsHeld
  <2>3. A \subseteq (DOMAIN held) \X (1 .. U64Max)
    BY LedgerAssumption DEF HeldSats, Others, IsHeld, Sats
  <2> QED
    BY <2>2, <2>3, FS_Subset
<1>5. IsFiniteSet(B) /\ Cardinality(B) = held[id]
  <2>1. IsFiniteSet({id}) /\ Cardinality({id}) = 1
    BY FS_Singleton
  <2>2. IsFiniteSet(1 .. held[id]) /\ Cardinality(1 .. held[id]) = held[id]
    BY <1>1, FS_Interval
  <2>3. IsFiniteSet(B) /\ Cardinality(B) = 1 * held[id]
    BY <2>1, <2>2, FS_Product
  <2> QED
    BY <1>1, <2>3
<1>6. Cardinality(A) \in Nat
  BY <1>4, FS_CardinalityType
<1>7. Cardinality(A \cup B) = Cardinality(A) + Cardinality(B) - Cardinality({})
  <2> HIDE DEF A, B
  <2> QED BY <1>3, <1>4, <1>5, FS_Union
<1> QED
  <2> HIDE DEF A, B
  <2>1. Cardinality({}) = 0
    BY FS_EmptySet
  <2>2. Cardinality(A \cup B) = Cardinality(A) + held[id]
    BY <1>1, <1>5, <1>6, <1>7, <2>1
  <2> QED BY <1>2, <2>2 DEF A

\* A reservation adds its amount to what counts against its day, less the
\* amount of a reservation of the same id that it replaces.
LEMMA CountingWithReservation ==
  ASSUME NEW s, IsLedger(s), NEW id \in Id, NEW day \in Day,
         NEW amount \in Sats
  PROVE  LET t == WithReservation(s, id, day, amount) IN
         /\ id \notin DOMAIN s[day].held =>
              Counting(t[day]) = Counting(s[day]) + amount
         /\ Counting(t[day]) <= Counting(s[day]) + amount
         /\ \A d \in Day \ {day} : t[d] = s[d]
<1> DEFINE t == WithReservation(s, id, day, amount)
           held == s[day].held
           h == [i \in DOMAIN held \cup {id} |->
                   IF i = id THEN amount ELSE held[i]]
<1>1. IsLedger(t) /\ IsEntry(s[day]) /\ IsEntry(t[day])
  BY WithReservationIsLedger DEF IsLedger
<1>2. t[day].held = h /\ t[day].committed = s[day].committed
  BY <1>1 DEF WithReservation, IsLedger, IsEntry
<1>3. \A d \in Day \ {day} : t[d] = s[d]
  BY DEF WithReservation, IsLedger
<1>4. IsHeld(h) /\ IsHeld(held) /\ id \in DOMAIN h /\ h[id] = amount
  BY <1>1, <1>2 DEF IsEntry, IsHeld
<1>5. amount \in Nat /\ s[day].committed \in Nat
  BY <1>1 DEF Sats, IsEntry
<1>6. reservation_total(s[day]) \in Nat /\ reservation_total(t[day]) \in Nat
  BY <1>1, HeldSatsOf
<1>7. reservation_total(t[day])
        = Cardinality(HeldSats(Others(h, id))) + amount
  <2> HIDE DEF h, t
  <2> QED BY <1>2, <1>4, HeldSatsSplit DEF reservation_total
<1>8. CASE id \notin DOMAIN held
  <2>1. Others(h, id) = held
    BY <1>4, <1>8 DEF Others, IsHeld
  <2>2. reservation_total(t[day]) = reservation_total(s[day]) + amount
    BY <1>7, <2>1 DEF reservation_total
  <2>3. Counting(t[day]) = Counting(s[day]) + amount
    <3> HIDE DEF h, t
    <3> QED BY <1>2, <1>5, <1>6, <2>2 DEF Counting
  <2>4. Counting(s[day]) \in Nat
    BY <1>1, HeldSatsOf
  <2>5. Counting(t[day]) <= Counting(s[day]) + amount
    <3> HIDE DEF t
    <3> QED BY <1>5, <2>3, <2>4
  <2> QED
    BY <1>3, <2>3, <2>5
<1>9. CASE id \in DOMAIN held
  <2>1. Others(h, id) = Others(held, id)
    BY <1>9 DEF Others
  <2>2. reservation_total(s[day])
          = Cardinality(HeldSats(Others(held, id))) + held[id]
    BY <1>4, <1>9, HeldSatsSplit DEF reservation_total
  <2>3. held[id] \in Nat
    BY <1>4, <1>9 DEF IsHeld, Sats
  <2>4. Cardinality(HeldSats(Others(held, id))) \in Nat
    <3>1. IsHeld(Others(held, id))
      BY <1>4, FS_RemoveElement DEF IsHeld, Others
    <3> HIDE DEF held
    <3>2. IsFiniteSet(1 .. U64Max)
      BY FS_Interval, LedgerAssumption
    <3>3. IsFiniteSet((DOMAIN Others(held, id)) \X (1 .. U64Max))
      BY <3>1, <3>2, FS_Product DEF IsHeld
    <3>4. HeldSats(Others(held, id))
            \subseteq (DOMAIN Others(held, id)) \X (1 .. U64Max)
      BY <3>1, LedgerAssumption DEF HeldSats, IsHeld, Sats
    <3>5. IsFiniteSet(HeldSats(Others(held, id)))
      BY <3>3, <3>4, FS_Subset
    <3> QED BY <3>5, FS_CardinalityType
  <2>5. reservation_total(t[day]) <= reservation_total(s[day]) + amount
    <3> HIDE DEF t, held, h
    <3> QED BY <1>5, <1>7, <2>1, <2>2, <2>3, <2>4
  <2>6. Counting(t[day]) <= Counting(s[day]) + amount
    <3> HIDE DEF h, t
    <3> QED BY <1>2, <1>5, <1>6, <2>5 DEF Counting
  <2> QED
    BY <1>3, <1>9, <2>6
<1> QED
  BY <1>8, <1>9

\* Removing a reservation takes exactly its amount off what counts.
LEMMA CountingWithoutReservation ==
  ASSUME NEW s, IsLedger(s), NEW day \in Day, NEW id \in DOMAIN s[day].held
  PROVE  LET t == WithoutReservation(s, id, day) IN
         /\ Counting(t[day]) = Counting(s[day]) - s[day].held[id]
         /\ s[day].held[id] \in Nat
         /\ \A d \in Day \ {day} : t[d] = s[d]
<1> DEFINE t == WithoutReservation(s, id, day)
           held == s[day].held
<1>1. IsEntry(s[day]) /\ id \in Id
  BY DEF IsLedger, IsEntry
<1>2. IsLedger(t) /\ IsEntry(t[day])
  BY <1>1, WithoutReservationIsLedger DEF IsLedger
<1>3. t[day].held = Others(held, id) /\ t[day].committed = s[day].committed
  BY <1>1 DEF WithoutReservation, IsLedger, IsEntry, Others
<1>4. \A d \in Day \ {day} : t[d] = s[d]
  BY DEF WithoutReservation, IsLedger
<1>5. IsHeld(held) /\ held[id] \in Nat
  BY <1>1 DEF IsHeld, IsEntry, Sats
<1>6. reservation_total(s[day]) = reservation_total(t[day]) + held[id]
  <2> HIDE DEF t
  <2> QED BY <1>3, <1>5, HeldSatsSplit DEF reservation_total
<1>7. /\ reservation_total(t[day]) \in Nat
      /\ reservation_total(s[day]) \in Nat
      /\ s[day].committed \in Nat
  BY <1>1, <1>2, HeldSatsOf DEF IsEntry
<1>8. Counting(t[day]) = Counting(s[day]) - held[id]
  <2> HIDE DEF t, held
  <2> QED BY <1>3, <1>5, <1>6, <1>7 DEF Counting
<1> QED
  BY <1>4, <1>5, <1>8

\* A commit moves its amount from reserved to committed: what counts stays.
\* A rollback takes the amount off.
LEMMA CountingFinished ==
  ASSUME NEW s, IsLedger(s), NEW day \in Day, NEW id \in DOMAIN s[day].held,
         NEW commit \in BOOLEAN
  PROVE  LET t == Finished(s, id, day, commit) IN
         /\ Counting(t[day]) =
              IF commit THEN Counting(s[day])
              ELSE Counting(s[day]) - s[day].held[id]
         /\ s[day].held[id] \in Nat
         /\ Counting(t[day]) <= Counting(s[day])
         /\ \A d \in Day \ {day} : t[d] = s[d]
<1> DEFINE w == WithoutReservation(s, id, day)
           v == [w EXCEPT ![day].committed = @ + s[day].held[id]]
<1>1. /\ Counting(w[day]) = Counting(s[day]) - s[day].held[id]
      /\ s[day].held[id] \in Nat
      /\ \A d \in Day \ {day} : w[d] = s[d]
  BY CountingWithoutReservation
<1>2. IsEntry(s[day]) /\ id \in Id
  BY DEF IsLedger, IsEntry
<1>3. IsLedger(w) /\ IsEntry(w[day])
  BY <1>2, WithoutReservationIsLedger DEF IsLedger
<1>4. Counting(s[day]) \in Nat /\ Counting(w[day]) \in Nat
  BY <1>2, <1>3, HeldSatsOf
<1>5. CASE ~commit
  <2>1. Finished(s, id, day, commit) = w
    BY <1>5 DEF Finished
  <2> HIDE DEF w
  <2> QED BY <1>1, <1>4, <1>5, <2>1
<1>6. CASE commit
  <2>1. Finished(s, id, day, commit) = v
    BY <1>6 DEF Finished
  <2> HIDE DEF w
  <2>2. v[day].held = w[day].held
        /\ v[day].committed = w[day].committed + s[day].held[id]
    BY <1>3 DEF IsLedger, IsEntry
  <2>3. w[day].committed \in Nat /\ reservation_total(w[day]) \in Nat
    BY <1>3, HeldSatsOf DEF IsEntry
  <2>4. Counting(v[day]) = Counting(w[day]) + s[day].held[id]
    BY <1>1, <2>2, <2>3 DEF Counting, reservation_total
  <2>5. \A d \in Day \ {day} : v[d] = s[d]
    BY <1>1, <1>3 DEF IsLedger
  <2> HIDE DEF v
  <2>6. Counting(v[day]) = Counting(s[day])
    BY <1>1, <1>4, <2>4
  <2>7. Counting(v[day]) <= Counting(s[day])
    BY <1>4, <2>6
  <2> QED BY <1>1, <1>6, <2>1, <2>5, <2>6, <2>7
<1> QED
  BY <1>5, <1>6
-----------------------------------------------------------------------------
(* The inductive invariant.                                                *)

\* Processes start with an empty ledger, nothing held and the lock free.
LEMMA InitLedgerInv == LedgerInit => LedgerInv
<1> SUFFICES ASSUME LedgerInit PROVE LedgerInv
  OBVIOUS
<1> USE DEF LedgerInit
<1>1. TypeOK
  BY EmptyIsLedger, LedgerAssumption DEF TypeOK, Day, Call
<1>2. CallsAgree
  BY DEF CallsAgree, IsReserve, IsFinish, None
<1>3. CopiesAreCurrent
  BY DEF CopiesAreCurrent
<1>4. WithinBudget
  <2>1. HeldSats(empty.held) = {}
    BY DEF HeldSats, empty
  <2>2. empty.committed = 0
    BY DEF empty
  <2>3. Counting(empty) = 0
    BY <2>1, <2>2, FS_EmptySet DEF Counting, reservation_total
  <2>4. \A d \in Day : Counting(file[d]) = 0 /\ Counting(durable[d]) = 0
    BY <2>3 DEF EmptyLedger
  <2>5. PICK c \in Client : Budget[c] \in Nat /\ 0 <= Budget[c]
    BY LedgerAssumption
  <2> QED
    BY <2>4, <2>5 DEF WithinBudget
<1>5. GuardsAreExclusive
  BY DEF GuardsAreExclusive, HoldsGuard, IsPending, None
<1> QED
  BY <1>1, <1>2, <1>3, <1>4, <1>5 DEF LedgerInv

\* Every step outside the critical section leaves both copies of the ledger
\* and all budgets alone.
LEMMA BudgetUnchanged ==
  ASSUME WithinBudget, UNCHANGED <<file, durable>>
  PROVE  WithinBudget'
BY DEF WithinBudget

\* A client's process ids are listed in the order its processes start.
LEMMA PidCount ==
  ASSUME NEW c \in Client
  PROVE  Len(PidOf[c]) \in Nat /\ DOMAIN PidOf[c] = 1 .. Len(PidOf[c])
<1>1. PidOf[c] \in Seq(Nat \ {0})
  BY LedgerAssumption
<1> QED
  BY <1>1

\* A new process holds no lock and no reservation yet.
LEMMA BootInv ==
  ASSUME LedgerInv, NEW c \in Client, Boot(c)
  PROVE  LedgerInv'
<1>0. TypeOK /\ CallsAgree /\ CopiesAreCurrent /\ WithinBudget
      /\ GuardsAreExclusive
  BY DEF LedgerInv
<1> USE DEF Boot
<1>1. TypeOK'
  <2>1. boot[c] + 1 <= Len(PidOf[c])
    BY <1>0, PidCount DEF TypeOK
  <2>2. boot' \in [Client -> Nat]
    BY <1>0 DEF TypeOK
  <2>3. \A b \in Client : boot'[b] <= Len(PidOf[b])
    BY <1>0, <2>1 DEF TypeOK
  <2>4. pc' \in [Client -> {"down", "idle", "calling", "locked"}]
    BY <1>0 DEF TypeOK
  <2>5. calls' \in [Client -> 0 .. MaxCalls]
    <3>1. 0 \in 0 .. MaxCalls
      BY LedgerAssumption
    <3> QED
      BY <1>0, <3>1 DEF TypeOK
  <2> QED
    BY <1>0, <2>2, <2>3, <2>4, <2>5 DEF TypeOK
<1>2. CallsAgree'
  BY <1>0 DEF TypeOK, CallsAgree, IsReserve, IsFinish, IsPending
<1>3. CopiesAreCurrent'
  BY <1>0 DEF TypeOK, CopiesAreCurrent
<1>4. GuardsAreExclusive'
  BY <1>0 DEF GuardsAreExclusive, HoldsGuard, IsPending
<1> QED
  BY <1>0, <1>1, <1>2, <1>3, <1>4, BudgetUnchanged DEF LedgerInv

\* A call that agrees with the caller's handle may begin.
LEMMA BeginInv ==
  ASSUME LedgerInv, NEW c \in Client, NEW k \in Call, Begin(c, k),
         calls' \in [Client -> 0 .. MaxCalls],
         k.kind \in {"reserve", "reserve_guarded"} => handle[c] = None,
         k.kind = "reserve" => k.id \notin Guard,
         k.kind = "reserve_guarded" => k.id \in Guard,
         k.kind \in {"commit", "rollback"} =>
           /\ IsPending(c)
           /\ k.id = handle[c].id /\ k.day = handle[c].day
           /\ k.amount = handle[c].amount
  PROVE  LedgerInv'
<1>0. TypeOK /\ CallsAgree /\ CopiesAreCurrent /\ WithinBudget
      /\ GuardsAreExclusive
  BY DEF LedgerInv
<1> USE DEF Begin
<1>1. TypeOK'
  BY <1>0 DEF TypeOK
<1>2. CallsAgree'
  BY <1>0 DEF TypeOK, CallsAgree, IsReserve, IsFinish, IsPending
<1>3. CopiesAreCurrent'
  BY <1>0 DEF TypeOK, CopiesAreCurrent
<1>4. GuardsAreExclusive'
  BY <1>0 DEF GuardsAreExclusive, HoldsGuard, IsPending
<1> QED
  BY <1>0, <1>1, <1>2, <1>3, <1>4, BudgetUnchanged DEF LedgerInv

\* An anonymous reservation is asked for under an id that is not a guard.
LEMMA CallReserveInv ==
  ASSUME LedgerInv, NEW c \in Client, NEW amount \in Amount,
         CallReserve(c, amount)
  PROVE  LedgerInv'
<1> DEFINE id == AnonymousId(PidOf[c][boot[c]], calls[c])
           k == [kind |-> "reserve", id |-> id, day |-> today,
                 amount |-> amount]
<1>1. TypeOK /\ CallsAgree
  BY DEF LedgerInv
<1>2. Begin(c, k) /\ handle[c] = None /\ calls[c] < MaxCalls
      /\ calls' = [calls EXCEPT ![c] = @ + 1] /\ pc[c] = "idle"
  BY DEF CallReserve, Begin
<1>3. id \in AnonymousIds
  <2>1. boot[c] \in DOMAIN PidOf[c]
    <3>1. boot[c] \in Nat /\ boot[c] <= Len(PidOf[c])
      BY <1>1 DEF TypeOK
    <3>2. boot[c] >= 1
      BY <1>1, <1>2 DEF CallsAgree
    <3> QED
      BY <3>1, <3>2, PidCount
  <2>2. calls[c] \in 0 .. (MaxCalls - 1)
    BY <1>1, <1>2, LedgerAssumption DEF TypeOK
  <2> QED
    BY <2>1, <2>2 DEF AnonymousIds
<1>4. id \in Id /\ id \notin Guard
  BY <1>3, GuardsAreNotAnonymous DEF Id
<1>5. calls' \in [Client -> 0 .. MaxCalls]
  BY <1>1, <1>2, LedgerAssumption DEF TypeOK
<1> HIDE DEF id
<1>6. k \in Call
  BY <1>1, <1>4, LedgerAssumption DEF Call, TypeOK, Sats
<1>7. k.kind = "reserve" /\ k.id = id
  OBVIOUS
<1> HIDE DEF k
<1> QED
  BY <1>2, <1>4, <1>5, <1>6, <1>7, BeginInv

\* A guarded reservation is asked for under its guard.
LEMMA CallReserveGuardedInv ==
  ASSUME LedgerInv, NEW c \in Client, NEW guard \in Guard,
         CallReserveGuarded(c, guard)
  PROVE  LedgerInv'
<1> DEFINE k == [kind |-> "reserve_guarded", id |-> guard, day |-> today,
                 amount |-> Price[guard]]
<1>1. TypeOK
  BY DEF LedgerInv
<1>2. Begin(c, k) /\ handle[c] = None /\ calls' = calls
  BY DEF CallReserveGuarded
<1>3. k \in Call
  BY <1>1, LedgerAssumption DEF Call, TypeOK, Sats, Id
<1>4. k.kind = "reserve_guarded" /\ k.id \in Guard
  OBVIOUS
<1>5. calls' \in [Client -> 0 .. MaxCalls]
  BY <1>1, <1>2 DEF TypeOK
<1> HIDE DEF k
<1> QED
  BY <1>2, <1>3, <1>4, <1>5, BeginInv

\* A commit or rollback is asked for what the client's handle says.
LEMMA CallFinishInv ==
  ASSUME LedgerInv, NEW c \in Client, NEW kind \in {"commit", "rollback"},
         CallFinish(c, kind)
  PROVE  LedgerInv'
<1> DEFINE k == [kind |-> kind, id |-> handle[c].id, day |-> handle[c].day,
                 amount |-> handle[c].amount]
<1>1. TypeOK
  BY DEF LedgerInv
<1>2. Begin(c, k) /\ IsPending(c) /\ calls' = calls
  BY DEF CallFinish, IsPending
<1>3. handle[c] \in Reservation
  BY <1>1, <1>2 DEF TypeOK, IsPending
<1>4. k \in Call
  BY <1>3 DEF Call, Reservation
<1>5. k.kind \in {"commit", "rollback"} /\ k.id = handle[c].id
      /\ k.day = handle[c].day /\ k.amount = handle[c].amount
  OBVIOUS
<1>6. calls' \in [Client -> 0 .. MaxCalls]
  BY <1>1, <1>2 DEF TypeOK
<1> HIDE DEF k
<1> QED
  BY <1>2, <1>4, <1>5, <1>6, BeginInv

\* A query may be asked at any time.
LEMMA CallQueryInv ==
  ASSUME LedgerInv, NEW c \in Client, CallQuery(c)
  PROVE  LedgerInv'
<1> DEFINE k == [kind |-> "query"]
<1>1. Begin(c, k) /\ calls' = calls
  BY DEF CallQuery
<1>2. k \in Call /\ k.kind = "query"
  BY DEF Call
<1>3. calls' \in [Client -> 0 .. MaxCalls]
  BY <1>1 DEF LedgerInv, TypeOK
<1> HIDE DEF k
<1> QED
  BY <1>1, <1>2, <1>3, BeginInv

\* A dropped handle leaves its reservation in the ledger.
LEMMA DropHandleInv ==
  ASSUME LedgerInv, NEW c \in Client, DropHandle(c)
  PROVE  LedgerInv'
<1>0. TypeOK /\ CallsAgree /\ CopiesAreCurrent /\ WithinBudget
      /\ GuardsAreExclusive
  BY DEF LedgerInv
<1> USE DEF DropHandle
<1>1. TypeOK'
  BY <1>0 DEF TypeOK
<1>2. CallsAgree'
  BY <1>0 DEF TypeOK, CallsAgree, IsReserve, IsFinish, IsPending, None
<1>3. CopiesAreCurrent'
  BY <1>0 DEF TypeOK, CopiesAreCurrent
<1>4. GuardsAreExclusive'
  BY <1>0 DEF TypeOK, GuardsAreExclusive, HoldsGuard, IsPending
<1> QED
  BY <1>0, <1>1, <1>2, <1>3, <1>4, BudgetUnchanged DEF LedgerInv

\* The lock is free, so no other client is in the critical section.
LEMMA LockAndReadInv ==
  ASSUME LedgerInv, NEW c \in Client, LockAndRead(c)
  PROVE  LedgerInv'
<1>0. TypeOK /\ CallsAgree /\ CopiesAreCurrent /\ WithinBudget
      /\ GuardsAreExclusive
  BY DEF LedgerInv
<1> USE DEF LockAndRead
<1>1. TypeOK'
  BY <1>0 DEF TypeOK
<1>2. CallsAgree'
  BY <1>0 DEF TypeOK, CallsAgree, IsReserve, IsFinish, IsPending
<1>3. CopiesAreCurrent'
  BY <1>0, ClientAssumption DEF TypeOK, CopiesAreCurrent
<1>4. GuardsAreExclusive'
  BY <1>0 DEF GuardsAreExclusive, HoldsGuard, IsPending
<1> QED
  BY <1>0, <1>1, <1>2, <1>3, <1>4, BudgetUnchanged DEF LedgerInv

\* A ledger that cannot be opened is not changed.
LEMMA AccessFailsInv ==
  ASSUME LedgerInv, NEW c \in Client, AccessFails(c)
  PROVE  LedgerInv'
<1>0. TypeOK /\ CallsAgree /\ CopiesAreCurrent /\ WithinBudget
      /\ GuardsAreExclusive
  BY DEF LedgerInv
<1> USE DEF AccessFails
<1>1. TypeOK'
  BY <1>0 DEF TypeOK, Call
<1>2. CallsAgree'
  BY <1>0 DEF TypeOK, CallsAgree, IsReserve, IsFinish, IsPending, None
<1>3. CopiesAreCurrent'
  BY <1>0 DEF TypeOK, CopiesAreCurrent
<1>4. GuardsAreExclusive'
  BY <1>0 DEF GuardsAreExclusive, HoldsGuard, IsPending
<1> QED
  BY <1>0, <1>1, <1>2, <1>3, <1>4, BudgetUnchanged DEF LedgerInv

\* Leaving the critical section keeps the bookkeeping of every other client:
\* nobody else is in it.
LEMMA ReturnBookkeeping ==
  ASSUME LedgerInv, NEW c \in Client, pc[c] = "locked", Return(c),
         IsLedger(file'), IsLedger(durable'),
         handle' \in [Client -> {None} \cup Reservation],
         \A b \in Client \ {c} : handle'[b] = handle[b]
  PROVE  TypeOK' /\ CallsAgree' /\ CopiesAreCurrent'
<1>0. TypeOK /\ CallsAgree /\ CopiesAreCurrent
  BY DEF LedgerInv
<1>1. TypeOK'
  BY <1>0, EmptyIsLedger DEF TypeOK, Return, Call
<1>2. CallsAgree'
  BY <1>0 DEF TypeOK, CallsAgree, IsReserve, IsFinish, IsPending, None, Return
<1>3. \A b \in Client \ {c} : pc[b] # "locked"
  BY <1>0 DEF CopiesAreCurrent
<1>4. CopiesAreCurrent'
  BY <1>0, <1>3 DEF TypeOK, CopiesAreCurrent, Return
<1> QED
  BY <1>1, <1>2, <1>4

\* A refused operation changes nothing.
LEMMA RefuseInv ==
  ASSUME LedgerInv, NEW c \in Client, pc[c] = "locked", Refuse(c)
  PROVE  LedgerInv'
<1>1. TypeOK /\ WithinBudget /\ GuardsAreExclusive
  BY DEF LedgerInv
<1>2. TypeOK' /\ CallsAgree' /\ CopiesAreCurrent'
  BY <1>1, ReturnBookkeeping DEF Refuse, TypeOK
<1>3. GuardsAreExclusive'
  BY <1>1 DEF GuardsAreExclusive, HoldsGuard, IsPending, Refuse
<1>4. WithinBudget'
  BY <1>1, BudgetUnchanged DEF Refuse
<1> QED
  BY <1>2, <1>3, <1>4 DEF LedgerInv

\* What write_classified leaves is the old content or the new one.
LEMMA WriteKeepsBudget ==
  ASSUME WithinBudget, NEW s, NEW outcome, write_classified(s, outcome),
         \A d \in Day : \E c \in Client : Counting(s[d]) <= Budget[c]
  PROVE  WithinBudget'
<1>1. file' \in {file, s} /\ durable' \in {durable, s}
  BY DEF write_classified
<1> QED
  BY <1>1 DEF WithinBudget

\* A query writes back what it read.
LEMMA QueryWriteInv ==
  ASSUME LedgerInv, NEW c \in Client, NEW outcome \in WriteOutcome,
         QueryWrite(c, outcome)
  PROVE  LedgerInv'
<1>1. TypeOK /\ WithinBudget /\ GuardsAreExclusive /\ CopiesAreCurrent
  BY DEF LedgerInv
<1>2. snap[c] = file /\ pc[c] = "locked" /\ Return(c) /\ handle' = handle
      /\ write_classified(file, outcome)
  BY <1>1 DEF QueryWrite, CopiesAreCurrent
<1>3. file' = file /\ durable' \in {durable, file}
  BY <1>2 DEF write_classified
<1>4. IsLedger(file') /\ IsLedger(durable')
  BY <1>1, <1>3 DEF TypeOK
<1>5. TypeOK' /\ CallsAgree' /\ CopiesAreCurrent'
  BY <1>1, <1>2, <1>4, ReturnBookkeeping DEF TypeOK
<1>6. GuardsAreExclusive'
  BY <1>1, <1>2, <1>3 DEF GuardsAreExclusive, HoldsGuard, IsPending
<1>7. WithinBudget'
  BY <1>1, <1>3 DEF WithinBudget
<1> QED
  BY <1>5, <1>6, <1>7 DEF LedgerInv

\* A new reservation stands beside the others of its day.
LEMMA HeldWithReservation ==
  ASSUME NEW s, IsLedger(s), NEW id \in Id, NEW day \in Day,
         NEW amount \in Sats
  PROVE  LET t == WithReservation(s, id, day, amount) IN
         /\ DOMAIN t[day].held = DOMAIN s[day].held \cup {id}
         /\ t[day].held[id] = amount
         /\ \A i \in DOMAIN s[day].held \ {id} :
              t[day].held[i] = s[day].held[i]
         /\ \A d \in Day \ {day} : t[d] = s[d]
<1>1. IsEntry(s[day])
  BY DEF IsLedger
<1> QED
  BY <1>1 DEF WithReservation, IsLedger, IsEntry

\* A finished reservation leaves the others of its day.
LEMMA HeldFinished ==
  ASSUME NEW s, IsLedger(s), NEW id \in Id, NEW day \in Day,
         NEW commit \in BOOLEAN
  PROVE  LET t == Finished(s, id, day, commit) IN
         /\ DOMAIN t[day].held = DOMAIN s[day].held \ {id}
         /\ \A i \in DOMAIN s[day].held \ {id} :
              t[day].held[i] = s[day].held[i]
         /\ \A d \in Day \ {day} : t[d] = s[d]
<1> DEFINE w == WithoutReservation(s, id, day)
           v == [w EXCEPT ![day].committed = @ + s[day].held[id]]
<1>1. IsEntry(s[day])
  BY DEF IsLedger
<1>2. /\ w[day].held = [i \in DOMAIN s[day].held \ {id} |-> s[day].held[i]]
      /\ \A d \in Day \ {day} : w[d] = s[d]
      /\ w = [d \in Day |-> w[d]]
      /\ w[day] = [committed |-> w[day].committed, held |-> w[day].held]
  BY <1>1 DEF WithoutReservation, IsLedger, IsEntry
<1>3. v[day].held = w[day].held /\ \A d \in Day \ {day} : v[d] = w[d]
  <2> HIDE DEF w
  <2> QED BY <1>2
<1>4. Finished(s, id, day, commit) \in {w, v}
  BY DEF Finished
<1> HIDE DEF w, v
<1> QED
  BY <1>2, <1>3, <1>4

\* The operations on reservations name one.
LEMMA CallNamesReservation ==
  ASSUME NEW k \in Call,
         k.kind \in {"reserve", "reserve_guarded", "commit", "rollback"}
  PROVE  k.id \in Id /\ k.day \in Day /\ k.amount \in Sats
<1>1. k # None /\ k # [kind |-> "query"]
  BY DEF None
<1>2. k \in [kind : {"reserve", "reserve_guarded", "commit", "rollback"},
             id : Id, day : Day, amount : Sats]
  BY <1>1 DEF Call
<1> QED
  BY <1>2

\* A granted reservation fits the client's budget, and its guard was free.
LEMMA ReserveWriteInv ==
  ASSUME LedgerInv, NEW c \in Client, NEW outcome \in WriteOutcome,
         ReserveWrite(c, outcome)
  PROVE  LedgerInv'
<1> DEFINE k == call[c]
           t == WithReservation(file, k.id, k.day, k.amount)
           h == [id |-> k.id, day |-> k.day, amount |-> k.amount,
                 state |-> "Pending"]
<1>0. TypeOK /\ CallsAgree /\ CopiesAreCurrent /\ WithinBudget
      /\ GuardsAreExclusive
  BY DEF LedgerInv
<1>1. /\ pc[c] = "locked" /\ IsReserve(c) /\ ~Duplicate(c)
      /\ Return(c)
      /\ snap[c] = file
      /\ Counting(file[k.day]) + k.amount <= Budget[c]
      /\ write_classified(t, outcome)
      /\ handle' = [handle EXCEPT ![c] =
                      IF outcome = "NotApplied" THEN @ ELSE h]
  BY <1>0 DEF ReserveWrite, CopiesAreCurrent, Needed
<1>2. k.id \in Id /\ k.day \in Day /\ k.amount \in Sats
  <2>1. k \in Call /\ k.kind \in {"reserve", "reserve_guarded"}
    BY <1>0, <1>1 DEF TypeOK, IsReserve
  <2> HIDE DEF k
  <2> QED
    BY <2>1, CallNamesReservation
<1>3. /\ handle[c] = None
      /\ k.id \in Guard => k.id \notin DOMAIN file[k.day].held
  BY <1>0, <1>1 DEF CallsAgree, IsReserve, Duplicate
<1>4. IsLedger(file) /\ IsLedger(t)
  BY <1>0, <1>2, WithReservationIsLedger DEF TypeOK
<1>5. file' \in {file, t} /\ durable' \in {durable, t}
      /\ (outcome # "NotApplied" => file' = t)
      /\ (outcome = "NotApplied" => file' = file)
  BY <1>1 DEF write_classified
<1>6. IsLedger(file') /\ IsLedger(durable')
  BY <1>0, <1>4, <1>5 DEF TypeOK
<1>7. h \in Reservation
  BY <1>2 DEF Reservation
<1>8. handle' \in [Client -> {None} \cup Reservation]
      /\ \A b \in Client \ {c} : handle'[b] = handle[b]
  BY <1>0, <1>1, <1>7 DEF TypeOK
<1>9. TypeOK' /\ CallsAgree' /\ CopiesAreCurrent'
  BY <1>1, <1>6, <1>8, ReturnBookkeeping
<1>10. WithinBudget'
  <2>1. /\ Counting(t[k.day]) <= Counting(file[k.day]) + k.amount
        /\ \A d \in Day \ {k.day} : t[d] = file[d]
    BY <1>2, <1>4, CountingWithReservation
  <2>2. /\ Counting(file[k.day]) \in Nat
        /\ Counting(t[k.day]) \in Nat
        /\ k.amount \in Nat /\ Budget[c] \in Nat
    <3> HIDE DEF t, k
    <3>1. IsEntry(file[k.day]) /\ IsEntry(t[k.day])
      BY <1>2, <1>4 DEF IsLedger
    <3> QED
      BY <1>2, <3>1, HeldSatsOf, LedgerAssumption DEF Sats
  <2>3. Counting(t[k.day]) <= Budget[c]
    <3> HIDE DEF t
    <3> QED BY <1>1, <2>1, <2>2
  <2>4. \A d \in Day : \E b \in Client : Counting(t[d]) <= Budget[b]
    BY <1>0, <2>1, <2>3 DEF WithinBudget
  <2> QED
    BY <1>0, <1>1, <2>4, WriteKeepsBudget
<1>11. GuardsAreExclusive'
  <2>1. CASE outcome = "NotApplied"
    BY <1>0, <1>1, <1>5, <2>1
       DEF GuardsAreExclusive, HoldsGuard, IsPending, TypeOK
  <2>2. CASE outcome # "NotApplied"
    <3>1. /\ file' = t /\ handle'[c] = h
          /\ \A b \in Client \ {c} : handle'[b] = handle[b]
      BY <1>0, <1>1, <1>5, <2>2 DEF TypeOK
    <3>2. /\ DOMAIN t[k.day].held = DOMAIN file[k.day].held \cup {k.id}
          /\ t[k.day].held[k.id] = k.amount
          /\ \A i \in DOMAIN file[k.day].held \ {k.id} :
               t[k.day].held[i] = file[k.day].held[i]
          /\ \A d \in Day \ {k.day} : t[d] = file[d]
      <4> HIDE DEF k
      <4> QED BY <1>2, <1>4, HeldWithReservation
    <3> HIDE DEF t, k
    <3>3. \A b \in Client : handle[b] # None => handle[b].day \in Day
      BY <1>0 DEF TypeOK, Reservation
    <3>4. \A b \in Client \ {c} : HoldsGuard(b) =>
            /\ handle[b].id \in DOMAIN file[handle[b].day].held
            /\ <<handle[b].id, handle[b].day>> # <<k.id, k.day>>
      BY <1>0, <1>3 DEF GuardsAreExclusive, HoldsGuard
    <3>5. \A b \in Client \ {c} : HoldsGuard(b) =>
            /\ handle[b].id \in DOMAIN t[handle[b].day].held
            /\ t[handle[b].day].held[handle[b].id]
                 = file[handle[b].day].held[handle[b].id]
      BY <3>2, <3>3, <3>4 DEF HoldsGuard, IsPending
    <3>6. \A b \in Client \ {c} : HoldsGuard(b)' <=> HoldsGuard(b)
      BY <3>1 DEF HoldsGuard, IsPending
    <3>7. h.id = k.id /\ h.day = k.day /\ h.amount = k.amount
      OBVIOUS
    <3> HIDE DEF h
    <3>8. \A b \in Client : HoldsGuard(b)' =>
            /\ handle'[b].id \in DOMAIN file'[handle'[b].day].held
            /\ file'[handle'[b].day].held[handle'[b].id] = handle'[b].amount
      BY <1>0, <3>1, <3>2, <3>5, <3>6, <3>7 DEF GuardsAreExclusive
    <3>9. \A a, b \in Client : HoldsGuard(a)' /\ HoldsGuard(b)' /\ a # b =>
            <<handle'[b].id, handle'[b].day>>
              # <<handle'[a].id, handle'[a].day>>
      BY <1>0, <3>1, <3>4, <3>6, <3>7 DEF GuardsAreExclusive
    <3> QED
      BY <3>8, <3>9 DEF GuardsAreExclusive
  <2> QED
    BY <2>1, <2>2
<1> QED
  BY <1>9, <1>10, <1>11 DEF LedgerInv

\* A commit or rollback removes its own client's guard and nobody else's.
LEMMA FinishWriteInv ==
  ASSUME LedgerInv, NEW c \in Client, NEW outcome \in WriteOutcome,
         FinishWrite(c, outcome)
  PROVE  LedgerInv'
<1> DEFINE k == call[c]
           done == k.kind = "commit"
           t == Finished(file, k.id, k.day, done)
           st == IF done THEN "Committed" ELSE "RolledBack"
<1>0. TypeOK /\ CallsAgree /\ CopiesAreCurrent /\ WithinBudget
      /\ GuardsAreExclusive
  BY DEF LedgerInv
<1>1. /\ pc[c] = "locked" /\ IsFinish(c)
      /\ Return(c)
      /\ snap[c] = file
      /\ k.id \in DOMAIN file[k.day].held
      /\ write_classified(t, outcome)
      /\ handle' = [handle EXCEPT ![c].state =
                      IF outcome = "NotApplied" THEN @ ELSE st]
  BY <1>0 DEF FinishWrite, CopiesAreCurrent
<1>2. k.id \in Id /\ k.day \in Day
  <2>1. k \in Call /\ k.kind \in {"commit", "rollback"}
    BY <1>0, <1>1 DEF TypeOK, IsFinish
  <2> HIDE DEF k
  <2> QED
    BY <2>1, CallNamesReservation
<1>3. IsPending(c) /\ k.id = handle[c].id /\ k.day = handle[c].day
  BY <1>0, <1>1 DEF CallsAgree
<1>4. IsLedger(file) /\ IsLedger(t)
  <2> HIDE DEF k
  <2> QED BY <1>0, <1>1, <1>2, FinishedIsLedger DEF TypeOK
<1>5. file' \in {file, t} /\ durable' \in {durable, t}
      /\ (outcome # "NotApplied" => file' = t)
      /\ (outcome = "NotApplied" => file' = file)
  BY <1>1 DEF write_classified
<1>6. IsLedger(file') /\ IsLedger(durable')
  BY <1>0, <1>4, <1>5 DEF TypeOK
<1>7. handle[c] \in Reservation /\ handle[c].state = "Pending"
  BY <1>0, <1>3 DEF TypeOK, IsPending
<1>8. handle' \in [Client -> {None} \cup Reservation]
      /\ \A b \in Client \ {c} : handle'[b] = handle[b]
  <2> DEFINE x == IF outcome = "NotApplied" THEN handle[c].state ELSE st
  <2>1. x \in {"Pending", "Committed", "RolledBack"}
    BY <1>7
  <2>2. handle' = [handle EXCEPT ![c] = [handle[c] EXCEPT !.state = x]]
    <3> HIDE DEF k, t, st, done
    <3> QED BY <1>0, <1>1 DEF TypeOK
  <2> HIDE DEF x, k, t, st, done
  <2>3. [handle[c] EXCEPT !.state = x] \in Reservation
    BY <1>7, <2>1 DEF Reservation
  <2> QED
    BY <1>0, <2>2, <2>3 DEF TypeOK
<1>9. TypeOK' /\ CallsAgree' /\ CopiesAreCurrent'
  BY <1>1, <1>6, <1>8, ReturnBookkeeping
<1>10. WithinBudget'
  <2>1. /\ Counting(t[k.day]) <= Counting(file[k.day])
        /\ \A d \in Day \ {k.day} : t[d] = file[d]
    <3>1. done \in BOOLEAN
      OBVIOUS
    <3> HIDE DEF k, done
    <3> QED BY <1>1, <1>2, <1>4, <3>1, CountingFinished
  <2>2. Counting(file[k.day]) \in Nat /\ Counting(t[k.day]) \in Nat
    <3> HIDE DEF t, k
    <3>1. IsEntry(file[k.day]) /\ IsEntry(t[k.day])
      BY <1>2, <1>4 DEF IsLedger
    <3> QED
      BY <3>1, HeldSatsOf
  <2> HIDE DEF t, k
  <2>3. PICK b \in Client : Counting(file[k.day]) <= Budget[b]
    BY <1>0, <1>2 DEF WithinBudget
  <2>4. Counting(t[k.day]) <= Budget[b]
    BY <2>1, <2>2, <2>3, LedgerAssumption
  <2>5. \A d \in Day : \E a \in Client : Counting(t[d]) <= Budget[a]
    BY <1>0, <2>1, <2>4 DEF WithinBudget
  <2> QED
    BY <1>0, <1>1, <2>5, WriteKeepsBudget
<1>11. GuardsAreExclusive'
  <2>1. CASE outcome = "NotApplied"
    <3> HIDE DEF k, t, st
    <3>1. handle' = handle /\ file' = file
      BY <1>0, <1>1, <1>5, <1>7, <2>1 DEF TypeOK, Reservation
    <3> QED
      BY <1>0, <3>1 DEF GuardsAreExclusive, HoldsGuard, IsPending
  <2>2. CASE outcome # "NotApplied"
    <3>1. /\ file' = t /\ handle'[c].state = st
          /\ \A b \in Client \ {c} : handle'[b] = handle[b]
      <4> HIDE DEF t, k, st
      <4> QED BY <1>0, <1>1, <1>5, <1>7, <2>2 DEF TypeOK, Reservation
    <3>2. st # "Pending"
      OBVIOUS
    <3>3. /\ DOMAIN t[k.day].held = DOMAIN file[k.day].held \ {k.id}
          /\ \A i \in DOMAIN file[k.day].held \ {k.id} :
               t[k.day].held[i] = file[k.day].held[i]
          /\ \A d \in Day \ {k.day} : t[d] = file[d]
      <4>1. done \in BOOLEAN
        OBVIOUS
      <4> HIDE DEF k, done
      <4> QED BY <1>2, <1>4, <4>1, HeldFinished
    <3> HIDE DEF t, k, st
    <3>4. ~HoldsGuard(c)'
      BY <3>1, <3>2 DEF HoldsGuard, IsPending
    <3>5. \A b \in Client \ {c} : HoldsGuard(b)' <=> HoldsGuard(b)
      BY <3>1 DEF HoldsGuard, IsPending
    <3>6. \A b \in Client : handle[b] # None => handle[b].day \in Day
      BY <1>0 DEF TypeOK, Reservation
    <3>7. \A b \in Client \ {c} : HoldsGuard(b) =>
            <<handle[b].id, handle[b].day>> # <<k.id, k.day>>
      BY <1>0, <1>3 DEF GuardsAreExclusive, HoldsGuard
    <3>8. \A b \in Client \ {c} : HoldsGuard(b) =>
            /\ handle[b].id \in DOMAIN t[handle[b].day].held
            /\ t[handle[b].day].held[handle[b].id] = handle[b].amount
      BY <1>0, <3>3, <3>6, <3>7
         DEF GuardsAreExclusive, HoldsGuard, IsPending
    <3> QED
      BY <1>0, <3>1, <3>4, <3>5, <3>8 DEF GuardsAreExclusive
  <2> QED
    BY <2>1, <2>2
<1> QED
  BY <1>9, <1>10, <1>11 DEF LedgerInv

\* A new day touches no reservation: handles keep the day they were made on.
LEMMA MidnightInv ==
  ASSUME LedgerInv, Midnight
  PROVE  LedgerInv'
<1>0. TypeOK /\ CallsAgree /\ CopiesAreCurrent /\ WithinBudget
      /\ GuardsAreExclusive
  BY DEF LedgerInv
<1> USE DEF Midnight
<1>1. TypeOK'
  BY <1>0, LedgerAssumption DEF TypeOK, Day
<1>2. CallsAgree'
  BY <1>0 DEF CallsAgree, IsReserve, IsFinish, IsPending
<1>3. CopiesAreCurrent'
  BY <1>0 DEF CopiesAreCurrent
<1>4. GuardsAreExclusive'
  BY <1>0 DEF GuardsAreExclusive, HoldsGuard, IsPending
<1> QED
  BY <1>0, <1>1, <1>2, <1>3, <1>4, BudgetUnchanged DEF LedgerInv

\* A dead process holds no guard; the others keep theirs.
LEMMA CrashInv ==
  ASSUME LedgerInv, NEW c \in Client, Crash(c)
  PROVE  LedgerInv'
<1>0. TypeOK /\ CallsAgree /\ CopiesAreCurrent /\ WithinBudget
      /\ GuardsAreExclusive
  BY DEF LedgerInv
<1> USE DEF Crash
<1>1. TypeOK'
  BY <1>0, EmptyIsLedger DEF TypeOK, Call
<1>2. CallsAgree'
  BY <1>0 DEF TypeOK, CallsAgree, IsReserve, IsFinish, IsPending, None
<1>3. CopiesAreCurrent'
  BY <1>0 DEF TypeOK, CopiesAreCurrent
<1>4. GuardsAreExclusive'
  <2>1. handle'[c] = None /\ \A b \in Client \ {c} : handle'[b] = handle[b]
    BY <1>0 DEF TypeOK
  <2>2. \A b \in Client : HoldsGuard(b)' => HoldsGuard(b) /\ b # c
    BY <2>1 DEF HoldsGuard, IsPending
  <2> QED
    BY <1>0, <2>1, <2>2 DEF GuardsAreExclusive
<1> QED
  BY <1>0, <1>1, <1>2, <1>3, <1>4, BudgetUnchanged DEF LedgerInv

\* What a power loss brings back was within the budget when it was written.
LEMMA PowerLossInv ==
  ASSUME LedgerInv, PowerLoss
  PROVE  LedgerInv'
<1>0. TypeOK /\ WithinBudget
  BY DEF LedgerInv
<1> USE DEF PowerLoss
<1>1. TypeOK'
  BY <1>0, EmptyIsLedger DEF TypeOK, Call
<1>2. CallsAgree'
  BY <1>0 DEF TypeOK, CallsAgree, IsReserve, IsFinish, IsPending, None
<1>3. CopiesAreCurrent'
  BY DEF CopiesAreCurrent
<1>4. GuardsAreExclusive'
  BY DEF GuardsAreExclusive, HoldsGuard, IsPending
<1>5. WithinBudget'
  BY <1>0 DEF WithinBudget
<1> QED
  BY <1>1, <1>2, <1>3, <1>4, <1>5 DEF LedgerInv

\* LedgerInv is inductive.
LEMMA LedgerNextInv ==
  ASSUME LedgerInv, [LedgerNext]_ledgerVars
  PROVE  LedgerInv'
<1>1. ASSUME NEW c \in Client, Boot(c) PROVE LedgerInv'
  BY <1>1, BootInv
<1>2. ASSUME NEW c \in Client, Calls(c) PROVE LedgerInv'
  BY <1>2, CallReserveInv, CallReserveGuardedInv, CallFinishInv, CallQueryInv,
     DropHandleInv DEF Calls
<1>3. ASSUME NEW c \in Client, LockAndRead(c) PROVE LedgerInv'
  BY <1>3, LockAndReadInv
<1>4. ASSUME NEW c \in Client, AccessFails(c) PROVE LedgerInv'
  BY <1>4, AccessFailsInv
<1>5. ASSUME NEW c \in Client, Section(c) PROVE LedgerInv'
  <2>1. CASE ReserveDuplicate(c)
    BY <2>1, RefuseInv DEF ReserveDuplicate
  <2>2. CASE ReserveOverflow(c)
    BY <2>2, RefuseInv DEF ReserveOverflow
  <2>3. CASE ReserveOverBudget(c)
    BY <2>3, RefuseInv DEF ReserveOverBudget
  <2>4. CASE FinishMissing(c)
    BY <2>4, RefuseInv DEF FinishMissing
  <2>5. ASSUME NEW outcome \in WriteOutcome,
               \/ ReserveWrite(c, outcome)
               \/ FinishWrite(c, outcome)
               \/ QueryWrite(c, outcome)
        PROVE  LedgerInv'
    BY <2>5, ReserveWriteInv, FinishWriteInv, QueryWriteInv
  <2> QED
    BY <1>5, <2>1, <2>2, <2>3, <2>4, <2>5 DEF Section
<1>6. ASSUME NEW c \in Client, Crash(c) PROVE LedgerInv'
  BY <1>6, CrashInv
<1>7. CASE Midnight
  BY <1>7, MidnightInv
<1>8. CASE PowerLoss
  BY <1>8, PowerLossInv
<1>9. CASE UNCHANGED ledgerVars
  <2> USE <1>9 DEF ledgerVars
  <2>1. TypeOK' /\ CallsAgree' /\ CopiesAreCurrent'
    BY DEF LedgerInv, TypeOK, CallsAgree, CopiesAreCurrent, IsReserve,
           IsFinish, IsPending
  <2>2. WithinBudget' /\ GuardsAreExclusive'
    BY DEF LedgerInv, WithinBudget, GuardsAreExclusive, HoldsGuard, IsPending
  <2> QED
    BY <2>1, <2>2 DEF LedgerInv
<1> QED
  BY <1>1, <1>2, <1>3, <1>4, <1>5, <1>6, <1>7, <1>8, <1>9 DEF LedgerNext
-----------------------------------------------------------------------------
(* Theorems.                                                               *)

\* Every reachable state of the ledger satisfies the inductive invariant.
THEOREM LedgerInvariant == LedgerSpec => []LedgerInv
<1>1. LedgerInit => LedgerInv
  BY InitLedgerInv
<1>2. LedgerInv /\ [LedgerNext]_ledgerVars => LedgerInv'
  BY LedgerNextInv
<1> QED
  BY <1>1, <1>2, PTL DEF LedgerSpec

\* The variables keep the types of the code's structures.
THEOREM LedgerTypes == LedgerSpec => []TypeOK
<1>1. LedgerInv => TypeOK
  BY DEF LedgerInv
<1> QED
  BY <1>1, LedgerInvariant, PTL

\* Whatever the clients, their budgets, the days, the crashes and the failed
\* or unsynced writes, no day's committed and reserved sats exceed the largest
\* daily budget in use: the check of reserve and reserve_guarded
\* (ledger.rs:103-109 and 146-152) is made on a ledger that is still current
\* when it is written back.
THEOREM BudgetIsKept == LedgerSpec => []WithinBudget
<1>1. LedgerInv => WithinBudget
  BY DEF LedgerInv
<1> QED
  BY <1>1, LedgerInvariant, PTL

\* A challenge guard on one day is held by at most one live client and counts
\* with exactly its amount as long as it is held (ledger.rs:138-165): two
\* processes that race for the same challenge never both get to pay.
THEOREM GuardsAreHeldOnce == LedgerSpec => []GuardsAreExclusive
<1>1. LedgerInv => GuardsAreExclusive
  BY DEF LedgerInv
<1> QED
  BY <1>1, LedgerInvariant, PTL
-----------------------------------------------------------------------------
(* The ledger with its lock, copies and renames implements the ledger that  *)
(* AtomicLedger promises: each operation takes effect in the one step that  *)
(* renames the new file into place, and every other step changes nothing a  *)
(* client can see.                                                          *)

\* The instance has its own copies of the operators on ledgers.
LEMMA SameOperators ==
  /\ Atomic!None = None
  /\ Atomic!EmptyLedger = EmptyLedger
  /\ Atomic!Id = Id /\ Atomic!Day = Day /\ Atomic!Sats = Sats
<1>1. \A p, n : Atomic!AnonymousId(p, n) = AnonymousId(p, n)
  BY DEF Atomic!AnonymousId, AnonymousId, Atomic!Width, Width
<1>2. Atomic!AnonymousIds = AnonymousIds
  BY <1>1 DEF Atomic!AnonymousIds, AnonymousIds
<1> QED
  BY <1>2 DEF Atomic!None, None, Atomic!EmptyLedger, EmptyLedger,
     Atomic!empty, empty, Atomic!Id, Id, Atomic!Day, Day, Atomic!Sats, Sats

\* What counts is counted alike.
LEMMA SameCounting == \A e : Atomic!Counting(e) = Counting(e)
<1>1. \A S : Atomic!Cardinality(S) = Cardinality(S)
  BY DEF Atomic!Cardinality, Cardinality
<1>2. \A held : Atomic!HeldSats(held) = HeldSats(held)
  BY DEF Atomic!HeldSats, HeldSats
<1> QED
  BY <1>1, <1>2 DEF Atomic!Counting, Counting, Atomic!reservation_total,
     reservation_total

\* Reservations are added and removed alike.
LEMMA SameChanges ==
  \A s, id, day, amount, commit :
    /\ Atomic!WithReservation(s, id, day, amount)
         = WithReservation(s, id, day, amount)
    /\ Atomic!Finished(s, id, day, commit) = Finished(s, id, day, commit)
BY DEF Atomic!WithReservation, WithReservation, Atomic!Finished, Finished,
   Atomic!WithoutReservation, WithoutReservation
-----------------------------------------------------------------------------
(* Each step of the ledger is a step of the promise, or none.              *)

\* What write_classified publishes, synced or not.
LEMMA WriteIsPublish ==
  ASSUME NEW s, NEW outcome \in WriteOutcome, write_classified(s, outcome),
         outcome # "NotApplied"
  PROVE  Atomic!Publish(s)
BY DEF write_classified, WriteOutcome, Atomic!Publish

\* A write that was not applied leaves both versions of the file.
LEMMA NotAppliedIsNothing ==
  ASSUME NEW s, write_classified(s, "NotApplied")
  PROVE  UNCHANGED <<file, durable>>
BY DEF write_classified

\* The rename of reserve and reserve_guarded is the whole reservation.
LEMMA ReserveWriteImplements ==
  ASSUME LedgerInv, NEW c \in Client, NEW outcome \in WriteOutcome,
         ReserveWrite(c, outcome)
  PROVE  [Atomic!Next]_(Atomic!vars)
<1> DEFINE k == call[c]
           t == WithReservation(file, k.id, k.day, k.amount)
           h == [id |-> k.id, day |-> k.day, amount |-> k.amount,
                 state |-> "Pending"]
<1>1. TypeOK /\ CallsAgree /\ CopiesAreCurrent
  BY DEF LedgerInv
<1>2. /\ IsReserve(c) /\ ~Duplicate(c) /\ snap[c] = file
      /\ Counting(file[k.day]) + k.amount <= Budget[c]
      /\ write_classified(t, outcome)
      /\ handle' = [handle EXCEPT ![c] =
                      IF outcome = "NotApplied" THEN @ ELSE h]
  BY <1>1 DEF ReserveWrite, CopiesAreCurrent, Needed
<1>3. k.id \in Id /\ k.day \in Day /\ k.amount \in Sats
  <2>1. k \in Call /\ k.kind \in {"reserve", "reserve_guarded"}
    BY <1>1, <1>2 DEF TypeOK, IsReserve
  <2> HIDE DEF k
  <2> QED
    BY <2>1, CallNamesReservation
<1>4. /\ handle[c] = None
      /\ k.id \in Guard => k.id \notin DOMAIN file[k.day].held
  BY <1>1, <1>2 DEF CallsAgree, IsReserve, Duplicate
<1>5. CASE outcome = "NotApplied"
  BY <1>1, <1>2, <1>5, NotAppliedIsNothing DEF TypeOK, Atomic!vars
<1>6. CASE outcome # "NotApplied"
  <2>1. Atomic!Publish(t) /\ handle' = [handle EXCEPT ![c] = h]
    BY <1>2, <1>6, WriteIsPublish
  <2> HIDE DEF k
  <2>2. Atomic!Counting(file[k.day]) + k.amount <= Budget[c]
    BY <1>2, SameCounting
  <2>3. Atomic!WithReservation(file, k.id, k.day, k.amount) = t
    BY SameChanges
  <2> HIDE DEF t
  <2>4. Atomic!Reserve(c, k.id, k.day, k.amount)
    BY <1>4, <2>1, <2>2, <2>3, SameOperators
       DEF Atomic!Reserve, Atomic!Publish
  <2> QED
    BY <1>3, <2>4, SameOperators DEF Atomic!Next
<1> QED
  BY <1>5, <1>6

\* The rename of a commit or rollback is the whole of it.
LEMMA FinishWriteImplements ==
  ASSUME LedgerInv, NEW c \in Client, NEW outcome \in WriteOutcome,
         FinishWrite(c, outcome)
  PROVE  [Atomic!Next]_(Atomic!vars)
<1> DEFINE h == handle[c]
           done == call[c].kind = "commit"
           t == Finished(file, h.id, h.day, done)
<1>1. TypeOK /\ CallsAgree /\ CopiesAreCurrent
  BY DEF LedgerInv
<1>2. /\ IsFinish(c) /\ snap[c] = file /\ IsPending(c)
      /\ call[c].id = h.id /\ call[c].day = h.day
  BY <1>1 DEF FinishWrite, CopiesAreCurrent, CallsAgree
<1>3. /\ h.id \in DOMAIN file[h.day].held
      /\ write_classified(t, outcome)
      /\ handle' = [handle EXCEPT ![c].state =
                      IF outcome = "NotApplied" THEN @
                      ELSE IF done THEN "Committed" ELSE "RolledBack"]
  BY <1>2 DEF FinishWrite
<1>4. CASE outcome = "NotApplied"
  <2>1. h \in Reservation
    BY <1>1, <1>2 DEF TypeOK, IsPending
  <2>2. handle' = handle
    BY <1>1, <1>3, <1>4, <2>1 DEF TypeOK, Reservation
  <2> QED
    BY <1>3, <1>4, <2>2, NotAppliedIsNothing DEF Atomic!vars
<1>5. CASE outcome # "NotApplied"
  <2>1. /\ Atomic!Publish(t)
        /\ handle' = [handle EXCEPT ![c].state =
                        IF done THEN "Committed" ELSE "RolledBack"]
    BY <1>3, <1>5, WriteIsPublish
  <2>2. done \in BOOLEAN
    OBVIOUS
  <2> HIDE DEF done
  <2>3. Atomic!Finished(file, h.id, h.day, done) = t
    BY SameChanges
  <2> HIDE DEF t
  <2>4. Atomic!Finish(c, done)
    BY <1>2, <1>3, <2>1, <2>3, SameOperators
       DEF Atomic!Finish, Atomic!Publish, IsPending
  <2> QED
    BY <2>2, <2>4 DEF Atomic!Next
<1> QED
  BY <1>4, <1>5

\* A query may at most sync what was already visible.
LEMMA QueryWriteImplements ==
  ASSUME LedgerInv, NEW c \in Client, NEW outcome \in WriteOutcome,
         QueryWrite(c, outcome)
  PROVE  [Atomic!Next]_(Atomic!vars)
<1>1. snap[c] = file
  BY DEF LedgerInv, CopiesAreCurrent, QueryWrite
<1>2. file' = file /\ durable' \in {durable, file} /\ handle' = handle
  BY <1>1 DEF QueryWrite, write_classified
<1> QED
  BY <1>2 DEF Atomic!Next, Atomic!Sync, Atomic!vars

\* Every step of the ledger is a step of the promise or leaves it unchanged.
LEMMA LedgerStepImplements ==
  ASSUME LedgerInv, [LedgerNext]_ledgerVars
  PROVE  [Atomic!Next]_(Atomic!vars)
<1>1. ASSUME NEW c \in Client, Boot(c) \/ LockAndRead(c) \/ AccessFails(c)
      PROVE  [Atomic!Next]_(Atomic!vars)
  BY <1>1 DEF Boot, LockAndRead, AccessFails, Atomic!vars
<1>2. ASSUME NEW c \in Client, Calls(c)
      PROVE  [Atomic!Next]_(Atomic!vars)
  <2>1. CASE DropHandle(c)
    <3>1. Atomic!Forget(c)
      BY <2>1, SameOperators DEF DropHandle, Atomic!Forget
    <3> QED
      BY <3>1 DEF Atomic!Next
  <2>2. CASE UNCHANGED <<file, durable, handle>>
    BY <2>2 DEF Atomic!vars
  <2> QED
    BY <1>2, <2>1, <2>2 DEF Calls, CallReserve, CallReserveGuarded,
       CallFinish, CallQuery, Begin
<1>3. ASSUME NEW c \in Client, Section(c)
      PROVE  [Atomic!Next]_(Atomic!vars)
  <2>1. ASSUME Refuse(c) PROVE [Atomic!Next]_(Atomic!vars)
    BY <2>1 DEF Refuse, Atomic!vars
  <2> QED
    BY <1>3, <2>1, ReserveWriteImplements, FinishWriteImplements,
       QueryWriteImplements
       DEF Section, ReserveDuplicate, ReserveOverflow, ReserveOverBudget,
           FinishMissing
<1>4. ASSUME NEW c \in Client, Crash(c)
      PROVE  [Atomic!Next]_(Atomic!vars)
  <2>1. CASE handle[c] = None
    BY <1>4, <2>1 DEF Crash, LedgerInv, TypeOK, Atomic!vars
  <2>2. CASE handle[c] # None
    <3>1. Atomic!Forget(c)
      BY <1>4, <2>2, SameOperators DEF Crash, Atomic!Forget
    <3> QED
      BY <3>1 DEF Atomic!Next
  <2> QED
    BY <2>1, <2>2
<1>5. CASE Midnight
  BY <1>5 DEF Midnight, Atomic!vars
<1>6. CASE PowerLoss
  <2>1. Atomic!PowerLoss
    BY <1>6, SameOperators DEF PowerLoss, Atomic!PowerLoss
  <2> QED
    BY <2>1 DEF Atomic!Next
<1>7. CASE UNCHANGED ledgerVars
  BY <1>7 DEF ledgerVars, Atomic!vars
<1> QED
  BY <1>1, <1>2, <1>3, <1>4, <1>5, <1>6, <1>7 DEF LedgerNext

\* Lock, read, write, rename, crash and power loss (ledger.rs:76-245) together
\* implement operations that read and change the ledger in a single step: no
\* client ever sees or loses half of another's operation.
THEOREM LedgerIsAtomic == LedgerSpec => AtomicSpec
<1>1. LedgerInit => Atomic!Init
  BY SameOperators DEF LedgerInit, Atomic!Init
<1>2. LedgerInv /\ [LedgerNext]_ledgerVars => [Atomic!Next]_(Atomic!vars)
  BY LedgerStepImplements
<1> QED
  BY <1>1, <1>2, LedgerInvariant, PTL DEF LedgerSpec, AtomicSpec, Atomic!Spec
-----------------------------------------------------------------------------
(***************************************************************************)
(* Conservation: reservations that their clients can still commit or roll  *)
(* back stand in the ledger, each for itself, and what counts against a    *)
(* day changes only by the grant or the rollback of one and by exactly its *)
(* amount.                                                                 *)
(*                                                                         *)
(* An anonymous reservation is inserted under hex(pid) hex(COUNTER); one   *)
(* that finds its id taken replaces the reservation that has it.  So the   *)
(* results stand on IdsDiffer: that no two reservations of the processes   *)
(* that make anonymous ones and share the file get one id.  The code does  *)
(* nothing to make it true, and where process ids repeat it is false.      *)
(***************************************************************************)

\* The processes of the clients in A number their reservations apart.
IdsDiffer(A) ==
  \A c, d \in A : \A b \in DOMAIN PidOf[c], e \in DOMAIN PidOf[d] :
    \A m, n \in 0 .. (MaxCalls - 1) :
      AnonymousId(PidOf[c][b], m) = AnonymousId(PidOf[d][e], n) =>
        c = d /\ b = e /\ m = n
-----------------------------------------------------------------------------
(* The inductive invariant: an id is used once.                            *)

\* The id was given out by COUNTER in some process of a client in A.
Issued(A, i) ==
  \E c \in A : \E b \in 1 .. boot[c], n \in 0 .. (MaxCalls - 1) :
    /\ b = boot[c] => n < calls[c]
    /\ i = AnonymousId(PidOf[c][b], n)

\* The id stands in a version of the file or in a client's handle.
Used(i) ==
  \/ \E d \in Day : i \in DOMAIN file[d].held \/ i \in DOMAIN durable[d].held
  \/ \E c \in Client : handle[c] # None /\ handle[c].id = i

UsedAreIssued(A) == \A i \in Id \ Guard : Used(i) => Issued(A, i)

\* Only the clients in A reserve anonymously, each time under a new id.
CallsAreFresh(A) ==
  \A c \in Client : call[c].kind = "reserve" =>
    /\ c \in A /\ calls[c] >= 1
    /\ call[c].id = AnonymousId(PidOf[c][boot[c]], calls[c] - 1)
    /\ ~Used(call[c].id)

\* What GuardsAreExclusive says of guards, of every pending reservation.
PendingAreExclusive ==
  \A c \in Client : IsPending(c) =>
    LET h == handle[c] IN
    /\ h.id \in DOMAIN file[h.day].held
    /\ file[h.day].held[h.id] = h.amount
    /\ \A b \in Client \ {c} :
         IsPending(b) => <<handle[b].id, handle[b].day>> # <<h.id, h.day>>

CountingInv(A) ==
  LedgerInv /\ UsedAreIssued(A) /\ CallsAreFresh(A) /\ PendingAreExclusive
-----------------------------------------------------------------------------
(* An id that COUNTER gives out is new.                                    *)

\* A process that is up is one of its client's processes.
LEMMA BootedProcess ==
  ASSUME TypeOK, CallsAgree, NEW c \in Client, pc[c] # "down"
  PROVE  boot[c] \in 1 .. boot[c] /\ boot[c] \in DOMAIN PidOf[c]
<1>1. boot[c] \in Nat /\ boot[c] <= Len(PidOf[c]) /\ boot[c] >= 1
  BY DEF TypeOK, CallsAgree
<1> QED
  BY <1>1, PidCount

\* An issued id was issued by one of the processes that have started.
LEMMA IssuedByProcess ==
  ASSUME NEW A \in SUBSET Client, TypeOK, NEW i, Issued(A, i)
  PROVE  \E d \in A : \E e \in DOMAIN PidOf[d], n \in 0 .. (MaxCalls - 1) :
           /\ e = boot[d] => n < calls[d]
           /\ i = AnonymousId(PidOf[d][e], n)
<1>1. PICK d \in A : \E b \in 1 .. boot[d], n \in 0 .. (MaxCalls - 1) :
        (b = boot[d] => n < calls[d]) /\ i = AnonymousId(PidOf[d][b], n)
  BY DEF Issued
<1>2. 1 .. boot[d] \subseteq DOMAIN PidOf[d]
  <2>1. boot[d] \in Nat /\ boot[d] <= Len(PidOf[d])
    BY DEF TypeOK
  <2> QED
    BY <2>1, PidCount
<1> QED
  BY <1>1, <1>2

\* The id of the next anonymous reservation was not issued before.
LEMMA NextIdIsNew ==
  ASSUME NEW A \in SUBSET Client, IdsDiffer(A), CountingInv(A),
         NEW c \in A, pc[c] # "down", calls[c] < MaxCalls
  PROVE  ~Used(AnonymousId(PidOf[c][boot[c]], calls[c]))
<1> DEFINE id == AnonymousId(PidOf[c][boot[c]], calls[c])
<1>1. TypeOK /\ CallsAgree /\ UsedAreIssued(A)
  BY DEF CountingInv, LedgerInv
<1>2. boot[c] \in DOMAIN PidOf[c]
  BY <1>1, BootedProcess
<1>3. calls[c] \in 0 .. (MaxCalls - 1)
  BY <1>1, LedgerAssumption DEF TypeOK
<1>4. id \in AnonymousIds
  BY <1>2, <1>3 DEF AnonymousIds
<1>5. id \in Id \ Guard
  BY <1>4, GuardsAreNotAnonymous DEF Id
<1>6. ~Issued(A, id)
  <2> SUFFICES ASSUME Issued(A, id) PROVE FALSE
    OBVIOUS
  <2>1. PICK d \in A :
          \E e \in DOMAIN PidOf[d], n \in 0 .. (MaxCalls - 1) :
            /\ e = boot[d] => n < calls[d]
            /\ id = AnonymousId(PidOf[d][e], n)
    <3> HIDE DEF id
    <3> QED BY <1>1, IssuedByProcess
  <2>2. PICK e \in DOMAIN PidOf[d], n \in 0 .. (MaxCalls - 1) :
          /\ e = boot[d] => n < calls[d]
          /\ id = AnonymousId(PidOf[d][e], n)
    BY <2>1
  <2>3. c = d /\ boot[c] = e /\ calls[c] = n
    BY <1>2, <1>3, <2>2 DEF IdsDiffer
  <2> QED
    BY <1>3, <2>2, <2>3
<1> HIDE DEF id
<1>7. ~Used(id)
  BY <1>1, <1>5, <1>6 DEF UsedAreIssued
<1> QED
  BY <1>7 DEF id

\* The number that COUNTER had before a call is one that it can have.
LEMMA CallBefore ==
  ASSUME NEW n \in 0 .. MaxCalls, n >= 1
  PROVE  n - 1 \in 0 .. (MaxCalls - 1) /\ n - 1 < n
<1>1. MaxCalls \in Nat
  BY LedgerAssumption
<1> QED
  BY <1>1

\* Two anonymous reservations in progress have different ids.
LEMMA CallsHaveOwnIds ==
  ASSUME NEW A \in SUBSET Client, IdsDiffer(A), CountingInv(A),
         NEW c \in Client, NEW d \in Client, c # d,
         call[c].kind = "reserve", call[d].kind = "reserve"
  PROVE  call[c].id # call[d].id
<1>1. TypeOK /\ CallsAgree /\ CallsAreFresh(A)
  BY DEF CountingInv, LedgerInv
<1>2. ASSUME NEW b \in Client, call[b].kind = "reserve"
      PROVE  /\ b \in A /\ boot[b] \in DOMAIN PidOf[b]
             /\ calls[b] - 1 \in 0 .. (MaxCalls - 1)
             /\ call[b].id = AnonymousId(PidOf[b][boot[b]], calls[b] - 1)
  <2>1. pc[b] # "down"
    BY <1>1, <1>2 DEF CallsAgree, None
  <2>2. boot[b] \in DOMAIN PidOf[b]
    BY <1>1, <2>1, BootedProcess
  <2>3. calls[b] \in 0 .. MaxCalls
    BY <1>1 DEF TypeOK
  <2>4. /\ b \in A /\ calls[b] >= 1
        /\ call[b].id = AnonymousId(PidOf[b][boot[b]], calls[b] - 1)
    BY <1>1, <1>2 DEF CallsAreFresh
  <2> QED
    BY <2>2, <2>3, <2>4, CallBefore
<1> QED
  BY <1>2 DEF IdsDiffer
-----------------------------------------------------------------------------
(* Every step keeps the invariant.                                         *)

\* What is left of both versions of the file and of the handles.
NothingAdded ==
  /\ \A d \in Day :
       /\ DOMAIN file'[d].held
            \subseteq DOMAIN file[d].held \cup DOMAIN durable[d].held
       /\ DOMAIN durable'[d].held
            \subseteq DOMAIN file[d].held \cup DOMAIN durable[d].held
  /\ \A c \in Client :
       \/ handle'[c] = None
       \/ handle[c] # None /\ handle'[c].id = handle[c].id

\* A process that begins makes its calls later; one that goes on makes none.
NoReserveBegun ==
  \A c \in Client :
    /\ call'[c].kind = "reserve" =>
         call'[c] = call[c] /\ boot'[c] = boot[c] /\ calls'[c] = calls[c]
    /\ \/ boot'[c] = boot[c] /\ calls'[c] = calls[c]
       \/ boot'[c] = boot[c] + 1

\* Ids that were issued stay issued when the client goes on counting, or goes
\* on to its next process.
LEMMA IssuedStays ==
  ASSUME NEW A \in SUBSET Client, TypeOK, NEW i, Issued(A, i),
         \A c \in Client : \/ boot'[c] = boot[c] /\ calls'[c] \in Nat
                              /\ calls'[c] >= calls[c]
                           \/ boot'[c] = boot[c] + 1
  PROVE  Issued(A, i)'
<1>1. PICK c \in A :
        \E b \in 1 .. boot[c], n \in 0 .. (MaxCalls - 1) :
          /\ b = boot[c] => n < calls[c]
          /\ i = AnonymousId(PidOf[c][b], n)
  BY DEF Issued
<1>2. PICK b \in 1 .. boot[c], n \in 0 .. (MaxCalls - 1) :
        /\ b = boot[c] => n < calls[c]
        /\ i = AnonymousId(PidOf[c][b], n)
  BY <1>1
<1>3. boot[c] \in Nat /\ calls[c] \in Nat
  BY LedgerAssumption DEF TypeOK
<1>4. b \in 1 .. boot'[c] /\ (b = boot'[c] => n < calls'[c])
  BY <1>2, <1>3
<1> QED
  BY <1>2, <1>4 DEF Issued

\* A step that adds no id and begins no anonymous reservation.
LEMMA NothingAddedInv ==
  ASSUME NEW A \in SUBSET Client, CountingInv(A), NothingAdded, NoReserveBegun
  PROVE  UsedAreIssued(A)' /\ CallsAreFresh(A)'
<1>1. TypeOK /\ UsedAreIssued(A) /\ CallsAreFresh(A)
  BY DEF CountingInv, LedgerInv
<1>2. \A i : Used(i)' => Used(i)
  BY DEF Used, NothingAdded
<1>3. UsedAreIssued(A)'
  <2> SUFFICES ASSUME NEW i \in Id \ Guard, Used(i)' PROVE Issued(A, i)'
    BY DEF UsedAreIssued
  <2>1. Issued(A, i)
    BY <1>1, <1>2 DEF UsedAreIssued
  <2>2. \A c \in Client : \/ boot'[c] = boot[c] /\ calls'[c] \in Nat
                             /\ calls'[c] >= calls[c]
                          \/ boot'[c] = boot[c] + 1
    BY <1>1, LedgerAssumption DEF NoReserveBegun, TypeOK
  <2> QED
    BY <1>1, <2>1, <2>2, IssuedStays
<1>4. CallsAreFresh(A)'
  <2> SUFFICES ASSUME NEW c \in Client, call'[c].kind = "reserve"
               PROVE  /\ c \in A /\ calls'[c] >= 1
                      /\ call'[c].id
                           = AnonymousId(PidOf[c][boot'[c]], calls'[c] - 1)
                      /\ ~Used(call[c].id)' /\ call'[c] = call[c]
    BY DEF CallsAreFresh, Used
  <2>1. call'[c] = call[c] /\ boot'[c] = boot[c] /\ calls'[c] = calls[c]
    BY DEF NoReserveBegun
  <2>2. /\ c \in A /\ calls[c] >= 1 /\ ~Used(call[c].id)
        /\ call[c].id = AnonymousId(PidOf[c][boot[c]], calls[c] - 1)
    BY <1>1, <2>1 DEF CallsAreFresh
  <2>3. ~Used(call[c].id)'
    BY <1>2, <2>1, <2>2 DEF Used, NothingAdded
  <2> QED
    BY <2>1, <2>2, <2>3
<1> QED
  BY <1>3, <1>4

\* Handles that stay pending, and their reservations, are as they were.
NothingChanged ==
  \A c \in Client : IsPending(c)' =>
    /\ IsPending(c) /\ handle'[c] = handle[c]
    /\ LET h == handle[c] IN
       h.id \in DOMAIN file[h.day].held =>
         /\ h.id \in DOMAIN file'[h.day].held
         /\ file'[h.day].held[h.id] = file[h.day].held[h.id]

\* What pends goes on pending for itself when nothing of it changes.
LEMMA NothingChangedInv ==
  ASSUME PendingAreExclusive, NothingChanged
  PROVE  PendingAreExclusive'
BY DEF PendingAreExclusive, NothingChanged

\* COUNTER gives the new call an id that is used nowhere.
LEMMA CallReserveCounts ==
  ASSUME NEW A \in SUBSET Client, IdsDiffer(A), CountingInv(A), NEW c \in A,
         NEW amount \in Amount, CallReserve(c, amount)
  PROVE  UsedAreIssued(A)' /\ CallsAreFresh(A)' /\ PendingAreExclusive'
<1> DEFINE id == AnonymousId(PidOf[c][boot[c]], calls[c])
<1>1. /\ TypeOK /\ UsedAreIssued(A) /\ CallsAreFresh(A)
      /\ PendingAreExclusive
  BY DEF CountingInv, LedgerInv
<1>2. /\ pc[c] = "idle" /\ calls[c] < MaxCalls
      /\ calls' = [calls EXCEPT ![c] = @ + 1]
      /\ call' = [call EXCEPT ![c] = [kind |-> "reserve", id |-> id,
                                      day |-> today, amount |-> amount]]
      /\ UNCHANGED <<file, durable, handle, boot>>
  BY DEF CallReserve, Begin
<1>3. ~Used(id)
  BY <1>2, NextIdIsNew
<1>4. \A i : Used(i)' <=> Used(i)
  BY <1>2 DEF Used
<1> HIDE DEF id
<1>5. UsedAreIssued(A)'
  <2> SUFFICES ASSUME NEW i \in Id \ Guard, Used(i)' PROVE Issued(A, i)'
    BY DEF UsedAreIssued
  <2>1. Issued(A, i)
    BY <1>1, <1>4 DEF UsedAreIssued
  <2>2. \A d \in Client : boot'[d] = boot[d] /\ calls'[d] \in Nat
                            /\ calls'[d] >= calls[d]
    BY <1>1, <1>2, LedgerAssumption DEF TypeOK
  <2> QED
    BY <1>1, <2>1, <2>2, IssuedStays
<1>6. CallsAreFresh(A)'
  <2> SUFFICES ASSUME NEW d \in Client, call'[d].kind = "reserve"
               PROVE  /\ d \in A /\ calls'[d] >= 1
                      /\ call'[d].id
                           = AnonymousId(PidOf[d][boot'[d]], calls'[d] - 1)
                      /\ ~Used(call[d].id)'
    BY DEF CallsAreFresh
  <2>1. CASE d = c
    <3>1. calls[c] \in Nat
      BY <1>1, LedgerAssumption DEF TypeOK
    <3>2. calls'[c] = calls[c] + 1 /\ call'[c].id = id /\ boot'[c] = boot[c]
      BY <1>1, <1>2 DEF TypeOK
    <3>3. calls'[c] >= 1 /\ calls'[c] - 1 = calls[c]
      BY <3>1, <3>2
    <3>4. ~Used(call[c].id)'
      BY <1>2, <1>3, <3>2 DEF Used
    <3> QED
      BY <2>1, <3>2, <3>3, <3>4 DEF id
  <2>2. CASE d # c
    <3>1. call'[d] = call[d] /\ calls'[d] = calls[d] /\ boot'[d] = boot[d]
      BY <1>1, <1>2, <2>2 DEF TypeOK
    <3>2. /\ d \in A /\ calls[d] >= 1 /\ ~Used(call[d].id)
          /\ call[d].id = AnonymousId(PidOf[d][boot[d]], calls[d] - 1)
      BY <1>1, <3>1 DEF CallsAreFresh
    <3>3. ~Used(call[d].id)'
      BY <1>2, <3>1, <3>2 DEF Used
    <3> QED
      BY <3>1, <3>2, <3>3
  <2> QED
    BY <2>1, <2>2
<1>7. PendingAreExclusive'
  BY <1>1, <1>2, NothingChangedInv DEF NothingChanged, IsPending
<1> QED
  BY <1>5, <1>6, <1>7

\* What a reservation is asked for, and what its write leaves.
LEMMA ReserveWriteFacts ==
  ASSUME NEW A \in SUBSET Client, CountingInv(A), NEW c \in Client,
         NEW outcome \in WriteOutcome,
         ReserveWrite(c, outcome)
  PROVE  LET k == call[c]
             t == WithReservation(file, k.id, k.day, k.amount)
         IN  /\ k.id \in Id /\ k.day \in Day /\ k.amount \in Sats
             /\ k.kind \in {"reserve", "reserve_guarded"}
             /\ handle[c] = None
             /\ k.id \notin DOMAIN file[k.day].held
             /\ call' = [call EXCEPT ![c] = None]
             /\ UNCHANGED <<boot, calls>>
             /\ IF outcome = "NotApplied"
                THEN UNCHANGED <<file, durable, handle>>
                ELSE /\ file' = t /\ durable' \in {durable, t}
                     /\ handle' = [handle EXCEPT ![c] =
                                     [id |-> k.id, day |-> k.day,
                                      amount |-> k.amount,
                                      state |-> "Pending"]]
<1> DEFINE k == call[c]
<1>1. TypeOK /\ CallsAgree /\ CopiesAreCurrent /\ CallsAreFresh(A)
  BY DEF CountingInv, LedgerInv
<1>2. snap[c] = file /\ IsReserve(c) /\ ~Duplicate(c)
  BY <1>1 DEF ReserveWrite, CopiesAreCurrent
<1>3. k.id \in Id /\ k.day \in Day /\ k.amount \in Sats
  <2>1. k \in Call /\ k.kind \in {"reserve", "reserve_guarded"}
    BY <1>1, <1>2 DEF TypeOK, IsReserve
  <2> HIDE DEF k
  <2> QED
    BY <2>1, CallNamesReservation
<1>4. k.id \notin DOMAIN file[k.day].held
  <2>1. CASE k.kind = "reserve_guarded"
    BY <1>2, <2>1 DEF Duplicate
  <2>2. CASE k.kind = "reserve"
    BY <1>1, <1>3, <2>2 DEF CallsAreFresh, Used
  <2> QED
    BY <1>2, <2>1, <2>2 DEF IsReserve
<1>5. handle[c] = None
  BY <1>1, <1>2 DEF CallsAgree
<1>6. call' = [call EXCEPT ![c] = None] /\ UNCHANGED <<boot, calls>>
  BY DEF ReserveWrite, Return
<1>7. CASE outcome = "NotApplied"
  <2>1. file' = file /\ durable' = durable
    BY <1>7 DEF ReserveWrite, write_classified
  <2>2. handle' = handle
    BY <1>1, <1>7 DEF ReserveWrite, TypeOK
  <2> QED
    BY <1>2, <1>3, <1>4, <1>5, <1>6, <1>7, <2>1, <2>2 DEF IsReserve
<1>8. CASE outcome # "NotApplied"
  BY <1>2, <1>3, <1>4, <1>5, <1>6, <1>8
     DEF IsReserve, ReserveWrite, write_classified
<1> QED
  BY <1>7, <1>8

\* The write uses the id of its own call and no other.
LEMMA ReserveWriteCounts ==
  ASSUME NEW A \in SUBSET Client, IdsDiffer(A), CountingInv(A),
         NEW c \in Client, NEW outcome \in WriteOutcome, ReserveWrite(c, outcome)
  PROVE  UsedAreIssued(A)' /\ CallsAreFresh(A)' /\ PendingAreExclusive'
<1> DEFINE k == call[c]
           t == WithReservation(file, k.id, k.day, k.amount)
           h == [id |-> k.id, day |-> k.day, amount |-> k.amount,
                 state |-> "Pending"]
<1>1. TypeOK /\ CallsAgree /\ UsedAreIssued(A) /\ CallsAreFresh(A) /\ PendingAreExclusive
      /\ GuardsAreExclusive
  BY DEF CountingInv, LedgerInv
<1>2. /\ k.id \in Id /\ k.day \in Day /\ k.amount \in Sats
      /\ k.kind \in {"reserve", "reserve_guarded"}
      /\ handle[c] = None
      /\ k.id \notin DOMAIN file[k.day].held
      /\ call' = [call EXCEPT ![c] = None]
      /\ UNCHANGED <<boot, calls>>
      /\ IF outcome = "NotApplied"
         THEN UNCHANGED <<file, durable, handle>>
         ELSE /\ file' = t /\ durable' \in {durable, t}
              /\ handle' = [handle EXCEPT ![c] = h]
  BY ReserveWriteFacts
<1>3. CASE outcome = "NotApplied"
  <2>1. NothingAdded /\ NothingChanged
    BY <1>2, <1>3 DEF NothingAdded, NothingChanged, IsPending
  <2>2. NoReserveBegun
    BY <1>1, <1>2 DEF NoReserveBegun, TypeOK, None
  <2> QED
    BY <1>1, <2>1, <2>2, NothingAddedInv, NothingChangedInv
<1>4. CASE outcome # "NotApplied"
  <2>1. /\ file' = t /\ durable' \in {durable, t}
        /\ handle' = [handle EXCEPT ![c] = h]
        /\ handle'[c] = h
        /\ \A b \in Client \ {c} : handle'[b] = handle[b]
    BY <1>1, <1>2, <1>4 DEF TypeOK
  <2>2. /\ DOMAIN t[k.day].held = DOMAIN file[k.day].held \cup {k.id}
        /\ t[k.day].held[k.id] = k.amount
        /\ \A i \in DOMAIN file[k.day].held \ {k.id} :
             t[k.day].held[i] = file[k.day].held[i]
        /\ \A d \in Day \ {k.day} : t[d] = file[d]
    <3>1. IsLedger(file)
      BY <1>1 DEF TypeOK
    <3> HIDE DEF k
    <3> QED BY <1>2, <3>1, HeldWithReservation
  <2>3. h.id = k.id /\ h.day = k.day /\ h.amount = k.amount
    OBVIOUS
  <2> HIDE DEF t, h
  <2>4. ASSUME NEW i, Used(i)' PROVE Used(i) \/ i = k.id
    BY <2>1, <2>2, <2>3, <2>4 DEF Used
  <2>5. UsedAreIssued(A)'
    <3> SUFFICES ASSUME NEW i \in Id \ Guard, Used(i)' PROVE Issued(A, i)'
      BY DEF UsedAreIssued
    <3>1. Issued(A, i)
      <4>1. CASE Used(i)
        BY <1>1, <4>1 DEF UsedAreIssued
      <4>2. CASE i = k.id
        <5>1. k.kind = "reserve"
          BY <1>1, <1>2, <4>2 DEF CallsAgree
        <5>2. c \in A /\ boot[c] \in 1 .. boot[c] /\ calls[c] \in 0 .. MaxCalls
              /\ calls[c] >= 1
              /\ i = AnonymousId(PidOf[c][boot[c]], calls[c] - 1)
          BY <1>1, <4>2, <5>1, BootedProcess
             DEF CallsAreFresh, CallsAgree, TypeOK, None
        <5>3. calls[c] - 1 \in 0 .. (MaxCalls - 1) /\ calls[c] - 1 < calls[c]
          BY <5>2, CallBefore
        <5> QED
          BY <5>2, <5>3 DEF Issued
      <4> QED
        BY <2>4, <4>1, <4>2
    <3>2. \A d \in Client : boot'[d] = boot[d] /\ calls'[d] \in Nat
                              /\ calls'[d] >= calls[d]
      BY <1>1, <1>2, LedgerAssumption DEF TypeOK
    <3> QED
      BY <1>1, <3>1, <3>2, IssuedStays
  <2>6. CallsAreFresh(A)'
    <3> SUFFICES ASSUME NEW d \in Client, call'[d].kind = "reserve"
                 PROVE  /\ d \in A /\ calls'[d] >= 1
                        /\ call'[d].id
                             = AnonymousId(PidOf[d][boot'[d]], calls'[d] - 1)
                        /\ ~Used(call[d].id)'
      BY DEF CallsAreFresh
    <3>1. d # c /\ call'[d] = call[d]
      BY <1>1, <1>2 DEF TypeOK, None
    <3>2. /\ d \in A /\ calls[d] >= 1 /\ ~Used(call[d].id)
          /\ call[d].id = AnonymousId(PidOf[d][boot[d]], calls[d] - 1)
      BY <1>1, <3>1 DEF CallsAreFresh
    <3>3. call[d].id # k.id
      <4>1. CASE k.kind = "reserve"
        BY <3>1, <4>1, CallsHaveOwnIds
      <4>2. CASE k.kind = "reserve_guarded"
        BY <1>1, <3>1, <4>2 DEF CallsAgree
      <4> QED
        BY <1>2, <4>1, <4>2
    <3>4. ~Used(call[d].id)'
      BY <2>1, <2>2, <2>3, <3>1, <3>2, <3>3 DEF Used
    <3> QED
      BY <1>2, <3>1, <3>2, <3>4
  <2>7. PendingAreExclusive'
    <3>1. \A b \in Client \ {c} : IsPending(b)' <=> IsPending(b)
      BY <2>1 DEF IsPending
    <3>2. \A b \in Client : IsPending(b) => handle[b].day \in Day
      BY <1>1 DEF TypeOK, IsPending, Reservation
    <3>3. \A b \in Client : IsPending(b) =>
            <<handle[b].id, handle[b].day>> # <<k.id, k.day>>
      BY <1>1, <1>2 DEF PendingAreExclusive
    <3>4. \A b \in Client : IsPending(b)' =>
            /\ handle'[b].id \in DOMAIN file'[handle'[b].day].held
            /\ file'[handle'[b].day].held[handle'[b].id] = handle'[b].amount
      <4> SUFFICES ASSUME NEW b \in Client, IsPending(b)'
                   PROVE  /\ handle'[b].id \in DOMAIN file'[handle'[b].day].held
                          /\ file'[handle'[b].day].held[handle'[b].id]
                               = handle'[b].amount
        OBVIOUS
      <4>1. CASE b = c
        BY <2>1, <2>2, <2>3, <4>1
      <4>2. CASE b # c
        <5>1. handle'[b] = handle[b] /\ IsPending(b)
          BY <2>1, <3>1, <4>2
        <5>2. /\ handle[b].id \in DOMAIN file[handle[b].day].held
              /\ file[handle[b].day].held[handle[b].id] = handle[b].amount
          BY <1>1, <5>1 DEF PendingAreExclusive
        <5>3. CASE handle[b].day = k.day
          <6>1. handle[b].id \in DOMAIN file[k.day].held \ {k.id}
            BY <3>3, <5>1, <5>2, <5>3
          <6>2. /\ handle[b].id \in DOMAIN t[k.day].held
                /\ t[k.day].held[handle[b].id]
                     = file[k.day].held[handle[b].id]
            BY <2>2, <6>1
          <6> QED
            BY <2>1, <5>1, <5>2, <5>3, <6>2
        <5>4. CASE handle[b].day # k.day
          <6>1. handle[b].day \in Day \ {k.day}
            BY <3>2, <5>1, <5>4
          <6>2. t[handle[b].day] = file[handle[b].day]
            BY <2>2, <6>1
          <6> QED
            BY <2>1, <5>1, <5>2, <6>2
        <5> QED
          BY <5>3, <5>4
      <4> QED
        BY <4>1, <4>2
    <3>5. \A a, b \in Client : IsPending(a)' /\ IsPending(b)' /\ a # b =>
            <<handle'[b].id, handle'[b].day>>
              # <<handle'[a].id, handle'[a].day>>
      BY <1>1, <2>1, <2>3, <3>1, <3>3 DEF PendingAreExclusive
    <3> QED
      BY <3>4, <3>5 DEF PendingAreExclusive
  <2> QED
    BY <2>5, <2>6, <2>7
<1> QED
  BY <1>3, <1>4

\* The handle of a commit or rollback, and what its write leaves.
LEMMA FinishWriteFacts ==
  ASSUME NEW A \in SUBSET Client, CountingInv(A), NEW c \in Client,
         NEW outcome \in WriteOutcome,
         FinishWrite(c, outcome)
  PROVE  LET h == handle[c]
             t == Finished(file, h.id, h.day, call[c].kind = "commit")
         IN  /\ h \in Reservation /\ IsPending(c)
             /\ h.id \in DOMAIN file[h.day].held
             /\ file[h.day].held[h.id] = h.amount
             /\ call' = [call EXCEPT ![c] = None]
             /\ UNCHANGED <<boot, calls>>
             /\ IF outcome = "NotApplied"
                THEN UNCHANGED <<file, durable, handle>>
                ELSE /\ file' = t /\ durable' \in {durable, t}
                     /\ handle' = [handle EXCEPT ![c] =
                          [h EXCEPT !.state =
                             IF call[c].kind = "commit" THEN "Committed"
                             ELSE "RolledBack"]]
<1>1. TypeOK /\ CallsAgree /\ CopiesAreCurrent /\ PendingAreExclusive
  BY DEF CountingInv, LedgerInv
<1>2. snap[c] = file /\ IsFinish(c) /\ IsPending(c)
      /\ call[c].id = handle[c].id /\ call[c].day = handle[c].day
  BY <1>1 DEF FinishWrite, CopiesAreCurrent, CallsAgree
<1>3. handle[c] \in Reservation /\ IsPending(c)
  BY <1>1, <1>2 DEF TypeOK, IsPending
<1>4. /\ handle[c].id \in DOMAIN file[handle[c].day].held
      /\ file[handle[c].day].held[handle[c].id] = handle[c].amount
  BY <1>1, <1>2 DEF FinishWrite, PendingAreExclusive
<1>5. call' = [call EXCEPT ![c] = None] /\ UNCHANGED <<boot, calls>>
  BY DEF FinishWrite, Return
<1>6. CASE outcome = "NotApplied"
  <2>1. file' = file /\ durable' = durable
    BY <1>6 DEF FinishWrite, write_classified
  <2>2. handle' = handle
    BY <1>1, <1>3, <1>6 DEF FinishWrite, TypeOK, Reservation
  <2> QED
    BY <1>3, <1>4, <1>5, <1>6, <2>1, <2>2
<1>7. CASE outcome # "NotApplied"
  <2>1. /\ file' = Finished(file, handle[c].id, handle[c].day,
                            call[c].kind = "commit")
        /\ durable' \in {durable, file'}
    BY <1>2, <1>7 DEF FinishWrite, write_classified
  <2>2. handle' = [handle EXCEPT ![c] =
                     [handle[c] EXCEPT !.state =
                        IF call[c].kind = "commit" THEN "Committed"
                        ELSE "RolledBack"]]
    BY <1>1, <1>7 DEF FinishWrite, TypeOK
  <2> QED
    BY <1>3, <1>4, <1>5, <1>7, <2>1, <2>2
<1> QED
  BY <1>6, <1>7

\* A commit or rollback removes its own id and adds none.
LEMMA FinishWriteCounts ==
  ASSUME NEW A \in SUBSET Client, CountingInv(A), NEW c \in Client,
         NEW outcome \in WriteOutcome,
         FinishWrite(c, outcome)
  PROVE  UsedAreIssued(A)' /\ CallsAreFresh(A)' /\ PendingAreExclusive'
<1> DEFINE h == handle[c]
           done == call[c].kind = "commit"
           st == IF done THEN "Committed" ELSE "RolledBack"
           t == Finished(file, h.id, h.day, done)
<1>1. TypeOK /\ PendingAreExclusive
  BY DEF CountingInv, LedgerInv
<1>2. /\ h \in Reservation /\ IsPending(c)
      /\ call' = [call EXCEPT ![c] = None]
      /\ UNCHANGED <<boot, calls>>
      /\ IF outcome = "NotApplied"
         THEN UNCHANGED <<file, durable, handle>>
         ELSE /\ file' = t /\ durable' \in {durable, t}
              /\ handle' = [handle EXCEPT ![c] = [h EXCEPT !.state = st]]
  BY FinishWriteFacts
<1>3. NoReserveBegun
  BY <1>1, <1>2 DEF NoReserveBegun, TypeOK, None
<1>4. h.id \in Id /\ h.day \in Day /\ h # None
  BY <1>2 DEF Reservation, None
<1>5. /\ DOMAIN t[h.day].held = DOMAIN file[h.day].held \ {h.id}
      /\ \A i \in DOMAIN file[h.day].held \ {h.id} :
           t[h.day].held[i] = file[h.day].held[i]
      /\ \A d \in Day \ {h.day} : t[d] = file[d]
  <2>1. done \in BOOLEAN /\ IsLedger(file)
    BY <1>1 DEF TypeOK
  <2> HIDE DEF h, done
  <2> QED BY <1>4, <2>1, HeldFinished
<1>6. /\ [h EXCEPT !.state = st].id = h.id
      /\ [h EXCEPT !.state = st].state # "Pending"
  BY <1>2 DEF Reservation
<1> HIDE DEF t, st, done
<1>7. NothingAdded
  BY <1>1, <1>2, <1>4, <1>5, <1>6 DEF NothingAdded, TypeOK
<1>8. NothingChanged
  <2>1. ASSUME NEW b \in Client, IsPending(b)'
        PROVE  /\ IsPending(b) /\ handle'[b] = handle[b]
               /\ outcome # "NotApplied" => b # c
    BY <1>1, <1>2, <1>6, <2>1 DEF IsPending, TypeOK
  <2>2. ASSUME NEW b \in Client \ {c}, IsPending(b)
        PROVE  /\ handle[b].day \in Day
               /\ <<handle[b].id, handle[b].day>> # <<h.id, h.day>>
    BY <1>1, <1>2, <2>2
       DEF PendingAreExclusive, TypeOK, IsPending, Reservation
  <2> QED
    BY <1>2, <1>5, <2>1, <2>2 DEF NothingChanged
<1> QED
  BY <1>1, <1>3, <1>7, <1>8, NothingAddedInv, NothingChangedInv

\* Steps that leave the file as it is read alone and make no handle.
QuietStep ==
  /\ file' = file /\ durable' \in {durable, file}
  /\ \A c \in Client : handle'[c] \in {handle[c], None}

\* Every step writes one reservation, finishes one, loses the power or is quiet.
LEMMA StepKinds ==
  ASSUME NEW A \in SUBSET Client, CountingInv(A), [LedgerNext]_ledgerVars
  PROVE  \/ \E c \in Client, outcome \in WriteOutcome :
              ReserveWrite(c, outcome) \/ FinishWrite(c, outcome)
         \/ \E c \in Client, amount \in Amount : CallReserve(c, amount)
         \/ PowerLoss
         \/ QuietStep /\ NoReserveBegun
<1>1. TypeOK /\ CallsAgree /\ CopiesAreCurrent
  BY DEF CountingInv, LedgerInv
<1>2. ASSUME NEW c \in Client, Boot(c) \/ LockAndRead(c) \/ AccessFails(c)
      PROVE  QuietStep /\ NoReserveBegun
  <2>1. CASE Boot(c)
    <3>1. call[c] = None
      BY <1>1, <2>1 DEF Boot, CallsAgree
    <3>2. \A b \in Client :
            IF b = c THEN boot'[b] = boot[b] + 1
            ELSE boot'[b] = boot[b] /\ calls'[b] = calls[b]
      BY <1>1, <2>1 DEF Boot, TypeOK
    <3> QED
      BY <1>1, <2>1, <3>1, <3>2 DEF Boot, QuietStep, NoReserveBegun, None
  <2>2. CASE LockAndRead(c)
    BY <1>1, <2>2 DEF LockAndRead, QuietStep, NoReserveBegun
  <2>3. CASE AccessFails(c)
    BY <1>1, <2>3 DEF AccessFails, QuietStep, NoReserveBegun, None, TypeOK
  <2> QED
    BY <1>2, <2>1, <2>2, <2>3
<1>3. ASSUME NEW c \in Client, Calls(c)
      PROVE  \/ \E amount \in Amount : CallReserve(c, amount)
             \/ QuietStep /\ NoReserveBegun
  <2>1. ASSUME NEW guard \in Guard, CallReserveGuarded(c, guard)
        PROVE  QuietStep /\ NoReserveBegun
    BY <1>1, <2>1
       DEF CallReserveGuarded, Begin, QuietStep, NoReserveBegun, TypeOK
  <2>2. ASSUME NEW kind \in {"commit", "rollback"}, CallFinish(c, kind)
        PROVE  QuietStep /\ NoReserveBegun
    BY <1>1, <2>2 DEF CallFinish, Begin, QuietStep, NoReserveBegun, TypeOK
  <2>3. CASE CallQuery(c)
    BY <1>1, <2>3 DEF CallQuery, Begin, QuietStep, NoReserveBegun, TypeOK
  <2>4. CASE DropHandle(c)
    BY <1>1, <2>4 DEF DropHandle, QuietStep, NoReserveBegun, TypeOK
  <2> QED
    BY <1>3, <2>1, <2>2, <2>3, <2>4 DEF Calls
<1>4. ASSUME NEW c \in Client, Section(c)
      PROVE  \/ \E outcome \in WriteOutcome :
                  ReserveWrite(c, outcome) \/ FinishWrite(c, outcome)
             \/ QuietStep /\ NoReserveBegun
  <2>1. ASSUME Return(c) PROVE NoReserveBegun
    BY <1>1, <2>1 DEF Return, NoReserveBegun, None, TypeOK
  <2>2. ASSUME Refuse(c) PROVE QuietStep /\ NoReserveBegun
    BY <2>1, <2>2 DEF Refuse, QuietStep
  <2>3. ASSUME NEW outcome \in WriteOutcome, QueryWrite(c, outcome)
        PROVE  QuietStep /\ NoReserveBegun
    BY <1>1, <2>1, <2>3
       DEF QueryWrite, write_classified, CopiesAreCurrent, QuietStep
  <2> QED
    BY <1>4, <2>2, <2>3
       DEF Section, ReserveDuplicate, ReserveOverflow, ReserveOverBudget,
           FinishMissing
<1>5. ASSUME NEW c \in Client, Crash(c)
      PROVE  QuietStep /\ NoReserveBegun
  BY <1>1, <1>5 DEF Crash, QuietStep, NoReserveBegun, None, TypeOK
<1>6. CASE Midnight
  BY <1>6 DEF Midnight, QuietStep, NoReserveBegun
<1>7. CASE UNCHANGED ledgerVars
  BY <1>7 DEF ledgerVars, QuietStep, NoReserveBegun
<1> QED
  BY <1>2, <1>3, <1>4, <1>5, <1>6, <1>7 DEF LedgerNext

\* CountingInv is inductive, where the clients outside A make no anonymous
\* reservations.
LEMMA CountingNextInv ==
  ASSUME NEW A \in SUBSET Client, IdsDiffer(A), CountingInv(A),
         [LedgerNext]_ledgerVars,
         \A c \in Client \ A : call'[c].kind # "reserve"
  PROVE  CountingInv(A)'
<1>1. TypeOK /\ PendingAreExclusive /\ LedgerInv'
  BY LedgerNextInv DEF CountingInv, LedgerInv
<1>2. CASE QuietStep /\ NoReserveBegun
  <2>1. NothingAdded
    BY <1>2 DEF QuietStep, NothingAdded
  <2>2. NothingChanged
    BY <1>2 DEF QuietStep, NothingChanged, IsPending
  <2> QED
    BY <1>1, <1>2, <2>1, <2>2, NothingAddedInv, NothingChangedInv
       DEF CountingInv
<1>3. CASE PowerLoss
  <2>1. NothingAdded
    BY <1>3 DEF PowerLoss, NothingAdded
  <2>2. NoReserveBegun
    BY <1>3 DEF PowerLoss, NoReserveBegun, None
  <2>3. PendingAreExclusive'
    BY <1>3 DEF PowerLoss, PendingAreExclusive, IsPending
  <2> QED
    BY <1>1, <2>1, <2>2, <2>3, NothingAddedInv DEF CountingInv
<1>4. ASSUME NEW c \in Client, NEW amount \in Amount, CallReserve(c, amount)
      PROVE  CountingInv(A)'
  <2>1. call'[c].kind = "reserve"
    BY <1>1, <1>4 DEF CallReserve, Begin, TypeOK
  <2>2. c \in A
    BY <2>1
  <2> QED
    BY <1>1, <1>4, <2>2, CallReserveCounts DEF CountingInv
<1>5. ASSUME NEW c \in Client, NEW outcome \in WriteOutcome,
             ReserveWrite(c, outcome) \/ FinishWrite(c, outcome)
      PROVE  CountingInv(A)'
  BY <1>1, <1>5, ReserveWriteCounts, FinishWriteCounts DEF CountingInv
<1> QED
  BY <1>2, <1>3, <1>4, <1>5, StepKinds

\* Nothing is held and nobody calls in the beginning.
LEMMA InitCountingInv ==
  ASSUME NEW A \in SUBSET Client, LedgerInit
  PROVE  CountingInv(A)
<1>1. DOMAIN empty.held = {}
  BY DEF empty
<1>2. \A i : ~Used(i)
  BY <1>1 DEF LedgerInit, Used, EmptyLedger
<1>3. UsedAreIssued(A) /\ CallsAreFresh(A) /\ PendingAreExclusive
  BY <1>2 DEF UsedAreIssued, CallsAreFresh, PendingAreExclusive, LedgerInit,
     None, IsPending
<1> QED
  BY <1>3, InitLedgerInv DEF CountingInv
-----------------------------------------------------------------------------
(* What counts is conserved.                                               *)

\* A pending handle differs from none and from the handle it becomes.
LEMMA QuietConserves ==
  ASSUME TypeOK, \A d \in Day : file'[d] = file[d],
         \A c \in Client : handle'[c] \in {handle[c], None}
  PROVE  Conserves
<1>1. ASSUME NEW c \in Client, NEW d \in Day
      PROVE  ~Granted(c, d) /\ ~RolledBack(c, d)
  <2>1. ~Granted(c, d)
    BY DEF Granted
  <2>2. ASSUME RolledBack(c, d) PROVE FALSE
    <3>1. handle[c] \in Reservation /\ handle[c].state = "Pending"
      BY <2>2 DEF RolledBack, IsPending, TypeOK
    <3>2. handle'[c] \in Reservation /\ handle'[c].state = "RolledBack"
      BY <2>2, <3>1 DEF RolledBack, Reservation
    <3>3. handle'[c] # None
      BY <3>2 DEF Reservation, None
    <3> QED
      BY <3>1, <3>2, <3>3
  <2> QED
    BY <2>1, <2>2
<1> QED
  BY <1>1 DEF Conserves

\* A grant adds its amount to its day: its id was new.
LEMMA ReserveWriteConserves ==
  ASSUME NEW A \in SUBSET Client, CountingInv(A), NEW c \in Client,
         NEW outcome \in WriteOutcome,
         ReserveWrite(c, outcome)
  PROVE  Conserves
<1> DEFINE k == call[c]
           t == WithReservation(file, k.id, k.day, k.amount)
           h == [id |-> k.id, day |-> k.day, amount |-> k.amount,
                 state |-> "Pending"]
<1>1. TypeOK
  BY DEF CountingInv, LedgerInv
<1>2. /\ k.id \in Id /\ k.day \in Day /\ k.amount \in Sats
      /\ handle[c] = None
      /\ k.id \notin DOMAIN file[k.day].held
      /\ IF outcome = "NotApplied"
         THEN UNCHANGED <<file, durable, handle>>
         ELSE /\ file' = t /\ durable' \in {durable, t}
              /\ handle' = [handle EXCEPT ![c] = h]
  BY ReserveWriteFacts
<1>3. CASE outcome = "NotApplied"
  BY <1>1, <1>2, <1>3, QuietConserves
<1>4. CASE outcome # "NotApplied"
  <2>1. /\ Counting(t[k.day]) = Counting(file[k.day]) + k.amount
        /\ \A d \in Day \ {k.day} : t[d] = file[d]
    <3> HIDE DEF k
    <3> QED BY <1>1, <1>2, CountingWithReservation DEF TypeOK
  <2>2. /\ h.day = k.day /\ h.amount = k.amount /\ h # None
        /\ h.state = "Pending"
    BY DEF None
  <2>3. /\ file' = t /\ handle'[c] = h
        /\ \A b \in Client \ {c} : handle'[b] = handle[b]
    BY <1>1, <1>2, <1>4 DEF TypeOK
  <2> HIDE DEF t, h, k
  <2>4. Granted(c, k.day) /\ \A d \in Day \ {k.day} : ~Granted(c, d)
    BY <1>2, <2>2, <2>3 DEF Granted
  <2>5. \A b \in Client \ {c}, d \in Day : ~Granted(b, d)
    BY <2>3 DEF Granted
  <2>6. ASSUME NEW b \in Client, NEW d \in Day, RolledBack(b, d) PROVE FALSE
    <3>1. b # c
      BY <1>2, <2>6 DEF RolledBack, IsPending
    <3>2. handle[b] \in Reservation /\ handle[b].state = "Pending"
      BY <1>1, <2>6 DEF RolledBack, IsPending, TypeOK
    <3>3. handle'[b].state = "RolledBack"
      BY <2>6, <3>2 DEF RolledBack, Reservation
    <3> QED
      BY <2>3, <3>1, <3>2, <3>3
  <2>7. ASSUME NEW d \in Day
        PROVE  LET before == Counting(file[d])
                   after  == Counting(file'[d])
               IN  /\ \A b \in Client :
                        /\ Granted(b, d) => after = before + handle'[b].amount
                        /\ RolledBack(b, d) => after = before - handle[b].amount
                   /\ \/ after = before
                      \/ \E b \in Client : Granted(b, d) \/ RolledBack(b, d)
                      \/ MachineDied
    BY <2>1, <2>2, <2>3, <2>4, <2>5, <2>6
  <2> QED
    BY <2>7 DEF Conserves
<1> QED
  BY <1>3, <1>4

\* A commit moves its amount within the day; a rollback takes off exactly the
\* amount of its own handle.
LEMMA FinishWriteConserves ==
  ASSUME NEW A \in SUBSET Client, CountingInv(A), NEW c \in Client,
         NEW outcome \in WriteOutcome,
         FinishWrite(c, outcome)
  PROVE  Conserves
<1> DEFINE h == handle[c]
           done == call[c].kind = "commit"
           st == IF done THEN "Committed" ELSE "RolledBack"
           t == Finished(file, h.id, h.day, done)
<1>1. TypeOK
  BY DEF CountingInv, LedgerInv
<1>2. /\ h \in Reservation /\ IsPending(c)
      /\ h.id \in DOMAIN file[h.day].held
      /\ file[h.day].held[h.id] = h.amount
      /\ IF outcome = "NotApplied"
         THEN UNCHANGED <<file, durable, handle>>
         ELSE /\ file' = t /\ durable' \in {durable, t}
              /\ handle' = [handle EXCEPT ![c] = [h EXCEPT !.state = st]]
  BY FinishWriteFacts
<1>3. CASE outcome = "NotApplied"
  BY <1>1, <1>2, <1>3, QuietConserves
<1>4. CASE outcome # "NotApplied"
  <2>1. h.id \in Id /\ h.day \in Day /\ h # None
    BY <1>2 DEF Reservation, None
  <2>2. /\ Counting(t[h.day]) = IF done THEN Counting(file[h.day])
                                ELSE Counting(file[h.day]) - h.amount
        /\ \A d \in Day \ {h.day} : t[d] = file[d]
    <3>1. done \in BOOLEAN /\ IsLedger(file)
      BY <1>1 DEF TypeOK
    <3> HIDE DEF h, done
    <3> QED BY <1>2, <2>1, <3>1, CountingFinished
  <2>3. /\ file' = t /\ handle'[c] = [h EXCEPT !.state = st]
        /\ \A b \in Client \ {c} : handle'[b] = handle[b]
    BY <1>1, <1>2, <1>4 DEF TypeOK
  <2>4. [h EXCEPT !.state = st].state = st
    BY <1>2 DEF Reservation
  <2>5. done \/ st = "RolledBack"
    OBVIOUS
  <2> HIDE DEF t, st, done
  <2>6. \A b \in Client, d \in Day : ~Granted(b, d)
    BY <2>1, <2>3 DEF Granted
  <2>7. ASSUME NEW b \in Client, NEW d \in Day, RolledBack(b, d)
        PROVE  b = c /\ d = h.day /\ st = "RolledBack"
    <3>1. handle[b] \in Reservation /\ handle[b].state = "Pending"
      BY <1>1, <2>7 DEF RolledBack, IsPending, TypeOK
    <3>2. handle'[b].state = "RolledBack" /\ handle[b].day = d
      BY <2>7, <3>1 DEF RolledBack, Reservation
    <3> QED
      BY <2>3, <2>4, <3>1, <3>2
  <2>8. ~done => RolledBack(c, h.day)
    BY <1>2, <2>1, <2>3, <2>5 DEF RolledBack
  <2>9. st = "RolledBack" => ~done
    BY DEF st
  <2>10. ASSUME NEW d \in Day
        PROVE  LET before == Counting(file[d])
                   after  == Counting(file'[d])
               IN  /\ \A b \in Client :
                        /\ Granted(b, d) => after = before + handle'[b].amount
                        /\ RolledBack(b, d) => after = before - handle[b].amount
                   /\ \/ after = before
                      \/ \E b \in Client : Granted(b, d) \/ RolledBack(b, d)
                      \/ MachineDied
    BY <2>1, <2>2, <2>3, <2>6, <2>7, <2>8, <2>9
  <2> QED
    BY <2>10 DEF Conserves
<1> QED
  BY <1>3, <1>4

\* What a power loss takes away it takes with every client.
LEMMA PowerLossConserves ==
  ASSUME TypeOK, PowerLoss
  PROVE  Conserves
<1>1. CASE file' = file
  BY <1>1, QuietConserves DEF PowerLoss
<1>2. CASE file' = durable
  <2>1. MachineDied
    BY <1>2 DEF PowerLoss, MachineDied
  <2>2. ASSUME NEW c \in Client, NEW d \in Day
        PROVE  ~Granted(c, d) /\ ~RolledBack(c, d)
    <3>1. handle'[c] = None
      BY DEF PowerLoss
    <3>2. ~Granted(c, d)
      BY <3>1 DEF Granted
    <3>3. ASSUME RolledBack(c, d) PROVE FALSE
      <4>1. handle[c] \in Reservation
        BY <3>3 DEF RolledBack, IsPending, TypeOK
      <4>2. handle'[c] \in Reservation
        BY <3>3, <4>1 DEF RolledBack, Reservation
      <4> QED
        BY <3>1, <4>2 DEF Reservation, None
    <3> QED
      BY <3>2, <3>3
  <2> QED
    BY <2>1, <2>2 DEF Conserves
<1> QED
  BY <1>1, <1>2 DEF PowerLoss

\* Every step conserves what counts.
LEMMA LedgerStepConserves ==
  ASSUME NEW A \in SUBSET Client, CountingInv(A), [LedgerNext]_ledgerVars
  PROVE  Conserves
<1>1. TypeOK
  BY DEF CountingInv, LedgerInv
<1>2. ASSUME NEW c \in Client, NEW amount \in Amount, CallReserve(c, amount)
      PROVE  Conserves
  BY <1>1, <1>2, QuietConserves DEF CallReserve, Begin
<1>3. CASE QuietStep
  BY <1>1, <1>3, QuietConserves DEF QuietStep
<1> QED
  BY <1>1, <1>2, <1>3, StepKinds, ReserveWriteConserves,
     FinishWriteConserves, PowerLossConserves
-----------------------------------------------------------------------------
(* Theorems.                                                               *)

\* As long as no two anonymous reservations get one id, an id is used once,
\* and every reservation its client can still commit or roll back stands in
\* the ledger, with its amount and for that client alone.
THEOREM CountingInvariant ==
  ASSUME IdsDiffer(Client)
  PROVE  LedgerSpec => []CountingInv(Client)
<1>1. LedgerInit => CountingInv(Client)
  BY InitCountingInv
<1>2. CountingInv(Client) /\ [LedgerNext]_ledgerVars => CountingInv(Client)'
  BY CountingNextInv
<1> QED
  BY <1>1, <1>2, PTL DEF LedgerSpec

\* As long as no two anonymous reservations get one id, what counts against a
\* day grows and shrinks only with a reservation that is granted or rolled back
\* and by exactly its amount (ledger.rs:90-245): a commit moves it from one
\* sum to the other, and a dead client's reservation stays.
THEOREM CountingIsConserved ==
  ASSUME IdsDiffer(Client)
  PROVE  LedgerSpec => CountingConserved
<1>1. CountingInv(Client) /\ [LedgerNext]_ledgerVars
        => [Conserves]_ledgerVars
  BY LedgerStepConserves
<1>2. LedgerSpec => []CountingInv(Client)
  BY CountingInvariant
<1> QED
  BY <1>1, <1>2, PTL DEF LedgerSpec, CountingConserved
=============================================================================
