--------------------------- MODULE LedgerEntries ---------------------------
(***************************************************************************)
(* The content of the daily spend ledger, src/src/state/ledger.rs: what an *)
(* entry holds, how it is counted and how one operation changes it.        *)
(***************************************************************************)
EXTENDS Integers, FiniteSets, Sequences

CONSTANTS
  Client,     \* tasks that share the ledger file
  Guard,      \* digests of (request scope, payment hash): reserve_guarded's ids
  Price,      \* Price[g]: amount of the invoice whose payment hash is in g
  Amount,     \* the amounts reserve is called with, in sats
  Budget,     \* Budget[c] is policy.daily_budget_sats of c's configuration
  PidOf,      \* PidOf[c] are the ids of c's processes, one after another
  MaxCalls,   \* bound: anonymous reservations per process
  LastDay,    \* bound: the days are 1 .. LastDay
  U64Max,     \* the largest u64 (2^64 - 1 in the code)
  Radix       \* base of the two numbers in an anonymous id (16 in the code)

Day == 1 .. LastDay

None == [kind |-> "none"]

ASSUME LedgerAssumption ==
  /\ IsFiniteSet(Client) /\ Client # {}
  /\ U64Max \in Nat /\ LastDay \in Nat /\ LastDay >= 1
  /\ MaxCalls \in Nat
  /\ Amount \subseteq 0 .. U64Max /\ Price \in [Guard -> 0 .. U64Max]
  /\ Budget \in [Client -> 0 .. U64Max]
  /\ Radix \in Nat /\ Radix > 1
  /\ PidOf \in [Client -> Seq(Nat \ {0})]
-----------------------------------------------------------------------------
(* Identities.                                                             *)

\* hex(pid) followed by hex(counter) with no separator, read as one number.
Width(n) == CHOOSE k \in 1 .. (n + 1) :
              n < Radix ^ k /\ (k > 1 => Radix ^ (k - 1) <= n)

AnonymousId(pid, n) == pid * Radix ^ Width(n) + n

AnonymousIds ==
  UNION {{AnonymousId(PidOf[c][b], n) :
            b \in DOMAIN PidOf[c], n \in 0 .. (MaxCalls - 1)} : c \in Client}

\* "guard-..." is not a hexadecimal number, so the two kinds of id never meet.
ASSUME GuardsAreNotAnonymous == \A g \in Guard : g \notin AnonymousIds

Id == Guard \cup AnonymousIds

Sats == 0 .. U64Max

Reservation ==
  [id : Id, day : Day, amount : Sats,
   state : {"Pending", "Committed", "RolledBack"}]
-----------------------------------------------------------------------------
(* Entries.                                                                *)

empty == [committed |-> 0, held |-> [i \in {} |-> 0]]

EmptyLedger == [d \in Day |-> empty]

\* The sats held by a day's reservations, one element for each sat.
HeldSats(held) == UNION {{i} \X (1 .. held[i]) : i \in DOMAIN held}

reservation_total(e) == Cardinality(HeldSats(e.held))

\* What counts against the day's limit: committed plus reserved.
Counting(e) == e.committed + reservation_total(e)

IsEntry(e) ==
  /\ e = [committed |-> e.committed, held |-> e.held]
  /\ e.committed \in Nat
  /\ IsFiniteSet(DOMAIN e.held) /\ DOMAIN e.held \subseteq Id
  /\ e.held \in [DOMAIN e.held -> Sats]

IsLedger(s) == s = [d \in Day |-> s[d]] /\ \A d \in Day : IsEntry(s[d])

WithReservation(s, id, day, amount) ==
  [s EXCEPT ![day].held = [i \in DOMAIN @ \cup {id} |->
                             IF i = id THEN amount ELSE @[i]]]

WithoutReservation(s, id, day) ==
  [s EXCEPT ![day].held = [i \in DOMAIN @ \ {id} |-> @[i]]]

\* MUTANT of Finished: a committed amount is not added.
FinishedUncounted(s, id, day, commit) == WithoutReservation(s, id, day)

\* finish_classified on a reservation the day still holds.
Finished(s, id, day, commit) ==
  IF commit
  THEN [WithoutReservation(s, id, day) EXCEPT
          ![day].committed = @ + s[day].held[id]]
  ELSE WithoutReservation(s, id, day)
=============================================================================
