---------------------------- MODULE MCErrandGrab ----------------------------
(***************************************************************************)
(* ErrandGrab on small instances: the requests of two runners and one or   *)
(* two timeout handlers.                                                   *)
(***************************************************************************)
EXTENDS ErrandGrabProps, TLC

CONSTANTS a, b, q1, q2

MCRunnerOf == [q \in Requests |-> IF q = q2 THEN b ELSE a]
=============================================================================
