------------------------ MODULE MCPaymentTransaction ------------------------
(* Instances of PaymentTransaction for TLC.                                 *)
EXTENDS PaymentTransaction

CONSTANTS c1, c2, g1, w1, w2

MCPrice == [g \in {g1} |-> 1]

MCBudget == [c \in Client |-> IF c = c1 THEN 3 ELSE 2]

\* The second process of c1 is a retry after the first one died or gave up.
MCRetry == [c \in Client |-> IF c = c1 THEN <<1, 2>> ELSE <<3>>]

\* Every process has the same id, one container after the other.
MCSamePid == [c \in Client |-> IF c = c1 THEN <<1, 1>> ELSE <<1>>]

\* All requesters hold the same challenge in the same request scope.
MCGuardOf == [c \in Requester |-> g1]

\* All clients are configured with one wallet.
MCSharedWallet == [c \in Client |-> w1]

\* A wallet for each client.
MCOwnWallet == [c \in Client |-> IF c = c1 THEN w1 ELSE w2]

\* The machine stays up and nobody clears the markers of dead processes.
MCUnattendedNext ==
  (\E c \in Client : Step(c)) \/ Resolve \/ DayPasses

MCUnattendedSpec == Init /\ [][MCUnattendedNext]_vars

\* Bound: only c1 and the wallets go on after midnight, beside what c2 left.
MCMidnight == today = 1 \/ stage[c2] = "down"
=============================================================================
