----------------------------- MODULE MCIntents ------------------------------
(***************************************************************************)
(* IntentService on small instances: a waiting call beside a repeat of it, *)
(* another question of its session, an asynchronous call of another        *)
(* session, or a socket; and an asynchronous call with its repeat.         *)
(***************************************************************************)
EXTENDS IntentProps

CONSTANTS c1, c2, s1, s2, q1, q2

Call1(s, q, m) == [session |-> s, query |-> q, mode |-> m]
Case(x, y, n) == [calls |-> [c \in Tasks |-> IF c = c1 THEN x ELSE y], luck |-> n]

MCCases ==
    {Case(Call1(s1, q1, "sync"), Call1(s1, q1, "sync"), 0),
     Case(Call1(s1, q1, "sync"), Call1(s1, q1, "socket"), 1),
     Case(Call1(s1, q1, "async"), Call1(s1, q1, "async"), 1),
     Case(Call1(s1, q1, "sync"), Call1(s1, q2, "async"), 0),
     Case(Call1(s1, q1, "sync"), Call1(s2, q1, "async"), 0)}
=============================================================================
