---------------------------- MODULE MCRequestFlow ----------------------------
(* Instances of RequestFlow for TLC.                                        *)
EXTENDS RequestFlow, TLC

CONSTANTS p1, p2, c1, c2

\* The limits the program gives: c1 is single-use, c2 lasts until it expires.
MCMaxUses == [c \in Credential |-> IF c = c1 THEN 1 ELSE Unlimited]

\* The requests are alike.
MCSymmetry == Permutations(Process)
=============================================================================
