---------------------------- MODULE ErrandStatus ----------------------------
(***************************************************************************)
(* The life of an errand, as the enum ErrandStatus.java fixes it: the      *)
(* statuses and the edges allowedTargets() lists.  CLOSED is declared and  *)
(* allowed but no code path ever writes it.                                *)
(***************************************************************************)

Status == {"DRAFT", "PUBLISHED", "LOCKED", "ACCEPTED", "PICKED_UP", "DELIVERED",
           "SETTLED", "CLOSED", "CANCELLED", "DISPUTED", "REFUNDED"}

\* The edges of the state machine.  LOCKED -> LOCKED is the legal self-loop of a
\* confirmation timeout that hands the errand to the next candidate.
Transitions ==
    {<<"DRAFT", "PUBLISHED">>, <<"DRAFT", "CANCELLED">>,
     <<"PUBLISHED", "LOCKED">>, <<"PUBLISHED", "CANCELLED">>,
     <<"LOCKED", "ACCEPTED">>, <<"LOCKED", "LOCKED">>,
     <<"LOCKED", "PUBLISHED">>, <<"LOCKED", "CANCELLED">>,
     <<"ACCEPTED", "PICKED_UP">>, <<"ACCEPTED", "DISPUTED">>,
     <<"ACCEPTED", "CANCELLED">>,
     <<"PICKED_UP", "DELIVERED">>, <<"PICKED_UP", "DISPUTED">>,
     <<"DELIVERED", "SETTLED">>, <<"DELIVERED", "DISPUTED">>,
     <<"DISPUTED", "SETTLED">>, <<"DISPUTED", "REFUNDED">>,
     <<"SETTLED", "CLOSED">>, <<"REFUNDED", "CLOSED">>}

CanTransit(from, to) == <<from, to>> \in Transitions
=============================================================================
