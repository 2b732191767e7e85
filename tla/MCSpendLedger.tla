--------------------------- MODULE MCSpendLedger ---------------------------
(* Instances of SpendLedger for TLC: two clients, the first with the larger *)
(* daily budget and a second process after its first one ended.            *)
EXTENDS SpendLedger

CONSTANTS c1, c2, g1

MCPrice == [g \in {g1} |-> 1]

MCBudget == [c \in Client |-> IF c = c1 THEN 3 ELSE 2]

\* The second process of c1 has the id of c2's, as in another container, and its
\* first one an id of its own.
MCSomePids == [c \in Client |-> IF c = c1 THEN <<1, 2>> ELSE <<2>>]

\* Bound: the second day is for the guards, anonymous reservations and the second
\* process of c1 are of the first.
MCDays == today = 1 \/ (boot[c1] < 2 /\ \A c \in Client : calls[c] = 0)
=============================================================================
