--------------------------- MODULE EscrowContract ---------------------------
(***************************************************************************)
(* What escrow promises about money, with no escrow account, no ledger, no *)
(* status and no caller in sight: the reward of an errand leaves its       *)
(* payer's purse once, and comes out once, either whole to the payer or    *)
(* split between one runner and the platform.                              *)
(***************************************************************************)
EXTENDS Naturals

CONSTANTS Errands, Users, NoOne, Platform,
          Price,     \* [Errands -> Nat], the reward of an errand
          Cut,       \* [Errands -> Nat], the platform's share of it
          Opening    \* [Users -> Nat], the purses at the start

VARIABLES stage,     \* [Errands -> {"none", "held", "paid", "returned"}]
          payer,     \* [Errands -> Users \cup {NoOne}], whose money was held
          purse      \* [Users \cup {Platform} -> Nat]

Init == /\ stage = [e \in Errands |-> "none"]
        /\ payer = [e \in Errands |-> NoOne]
        /\ purse = [a \in Users \cup {Platform} |-> IF a \in Users THEN Opening[a] ELSE 0]

Hold(e, u) ==
    /\ stage[e] = "none" /\ purse[u] >= Price[e]
    /\ stage' = [stage EXCEPT ![e] = "held"]
    /\ payer' = [payer EXCEPT ![e] = u]
    /\ purse' = [purse EXCEPT ![u] = @ - Price[e]]

Pay(e, u) ==
    /\ stage[e] = "held"
    /\ stage' = [stage EXCEPT ![e] = "paid"]
    /\ purse' = [purse EXCEPT ![u] = @ + (Price[e] - Cut[e]), ![Platform] = @ + Cut[e]]
    /\ UNCHANGED payer

Return(e) ==
    /\ stage[e] = "held"
    /\ stage' = [stage EXCEPT ![e] = "returned"]
    /\ purse' = [purse EXCEPT ![payer[e]] = @ + Price[e]]
    /\ UNCHANGED payer

Next == \E e \in Errands : Return(e) \/ \E u \in Users : Hold(e, u) \/ Pay(e, u)

Spec == Init /\ [][Next]_<<stage, payer, purse>>
=============================================================================
