--------------------------- MODULE MCErrandFunds ---------------------------
(***************************************************************************)
(* ErrandFunds on small instances.  The rewards are chosen so that the     *)
(* commission of one rounds down to zero and that of the other is charged, *)
(* and the balances so that a publisher may or may not afford both.        *)
(***************************************************************************)
EXTENDS ErrandFundsProps, TLC

CONSTANTS e1, u1

MCReward == [e \in Errands |-> IF e = e1 THEN 3 ELSE 1]
MCOpening == [u \in Users |-> IF u = u1 THEN 3 ELSE 1]

\* Callers are interchangeable; errands and users are not (rewards and balances).
CallerSymmetry == Permutations(Callers)
=============================================================================
