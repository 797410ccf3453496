----------------------------- MODULE RemoteCall -----------------------------
(***************************************************************************)
(* A call to Redis or to the database as the Python code sees it: it       *)
(* answers, or it raises; and a call that raises may still have taken      *)
(* effect, when only the answer was lost.  External: the clients are       *)
(* libraries, and the code catches what they raise at the call.            *)
(***************************************************************************)
EXTENDS Naturals

VARIABLE luck      \* bound of the model: mishaps (failed calls, crashes, stops,
                   \* expired keys) that may still happen

Outcomes == {"ok", "lost", "refused"}
Effect(o) == o # "refused"
Ok(o) == o = "ok"

Mishap == luck > 0 /\ luck' = luck - 1
Call(o) == IF Ok(o) THEN UNCHANGED luck ELSE Mishap
=============================================================================
