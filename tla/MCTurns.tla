------------------------------- MODULE MCTurns -------------------------------
(***************************************************************************)
(* Turns on small instances: two turns of one session in one process, one  *)
(* after the other or at once, with preferences remembered, withdrawn and  *)
(* dispatched; sessions that share buyer, process and cache; a session     *)
(* that wanders between two workers; a model that keeps failing; and two   *)
(* workers over one directory of files.                                    *)
(***************************************************************************)
EXTENDS TurnProps

CONSTANTS t1, t2, t3, s1, s2, b1, b2, w1, w2

Like(x) == [kind |-> "like", statement |-> x]
Dislike(x) == [kind |-> "dislike", statement |-> x]
Call2(tool, pref) == [tool |-> tool, pref |-> pref]
Dispatches == Call2("dispatch", Like("small"))

Turn(s, p, script) ==
    [session |-> s, process |-> p, buyer |-> b1, query |-> "q", after |-> {}, cacheable |-> TRUE,
     budget |-> 0, script |-> script]
Order(s, p, script) == [Turn(s, p, script) EXCEPT !.cacheable = FALSE]
Then(d, turn) == [turn EXCEPT !.after = {d}]
Off == [Turn(s1, w1, << >>) EXCEPT !.after = Turns]   \* never comes

Case(x, y, z, list, n) ==
    [calls |-> (t1 :> x @@ t2 :> y @@ t3 :> z), luck |-> n, storage |-> "sql",
     prefs |-> (b1 :> list @@ b2 :> << >>)]

Many == <<Dislike("plastic"), Like("small"), Like("plastic")>>
Remember(p) == Call2("remember", p)
Forget(x) == Call2("forget", Like(x))

\* One session: overlapping turns, or a second turn after a crash, with the same tools again.
Chatting == Case(Turn(s1, w1, <<Remember(Dislike("small")), Remember(Dislike("small"))>>),
                 Order(s1, w1, << >>), Off, << >>, 0)
Repeating == Case(Turn(s1, w1, <<Remember(Dislike("small")), Dispatches>>),
                  Then(t1, Order(s1, w1, <<Dispatches, Dispatches>>)), Off, << >>, 1)
Crashing == Case(Turn(s1, w1, <<Remember(Dislike("small"))>>), Then(t1, Turn(s1, w1, << >>)), Off, Many, 2)
Twins == Case(Order(s1, w1, << >>), Order(s1, w1, << >>), Off, << >>, 1)
Afterwards == Case(Order(s1, w1, << >>), Order(s1, w1, << >>), [Order(s1, w1, << >>) EXCEPT !.after = {t1, t2}], Many, 0)
\* The last preference is withdrawn, and the session goes on.
Withdrawing == Case(Order(s1, w1, <<Forget("plastic")>>), Then(t1, Order(s1, w1, << >>)), Off, <<Dislike("plastic")>>, 1)
\* Two sessions of a buyer: the cache, while a preference comes or goes.
Changing == Case(Turn(s1, w1, <<Forget("plastic")>>), Turn(s2, w1, << >>), Off, Many, 1)
Cached == Case(Turn(s1, w1, <<Forget("plastic")>>), Then(t1, Turn(s2, w2, << >>)), Then(t2, Turn(s2, w1, << >>)), Many, 2)
Sharing == Case(Turn(s1, w1, << >>), Turn(s2, w2, << >>), Off, Many, 1)
Apart == Case(Turn(s1, w1, << >>), [Turn(s2, w1, << >>) EXCEPT !.buyer = b2],
              [Turn(s2, w2, << >>) EXCEPT !.query = "r"], << >>, 0)
\* The session of three turns goes to one worker, to the other and back.
Wandering == Case(Order(s1, w1, << >>), Then(t1, Order(s1, w2, <<Forget("plastic")>>)), Then(t2, Order(s1, w1, << >>)), Many, 2)
Splitting == Case(Order(s1, w1, << >>), Order(s1, w2, << >>), Off, Many, 1)
\* A model that keeps failing, and subagents that compete for its slot.
Within(n, turn) == [turn EXCEPT !.budget = n]
Struggling == Case(Within(3, Turn(s1, w1, <<Dispatches>>)), Off, Off, Many, 7)
Competing == Case(Order(s1, w1, <<Dispatches, Dispatches>>), Order(s2, w1, <<Dispatches>>), Off, << >>, 1)
\* Files: two workers and one buyer, one session or two.
InFiles(case) == [case EXCEPT !.storage = "file"]
Filing == InFiles(Case(Order(s1, w1, <<Remember(Dislike("small")), Forget("plastic")>>),
                       Order(s2, w2, <<Remember(Like("small"))>>), Off, Many, 0))
Tearing == InFiles(Case(Order(s1, w1, <<Forget("plastic")>>), Order(s2, w2, <<Remember(Like("small"))>>), Off, Many, 1))
Refiling == InFiles(Case(Order(s1, w1, << >>), Order(s1, w2, <<Forget("small")>>), Off, Many, 1))
Together == InFiles(Case(Order(s1, w1, <<Remember(Dislike("small"))>>), Order(s2, w1, <<Forget("plastic")>>), Off, Many, 0))

MCCases == {Filing, Tearing, Refiling, Together, Chatting, Repeating, Twins, Afterwards, Crashing, Withdrawing,
            Changing, Cached, Sharing, Apart, Wandering, Splitting, Struggling, Competing}
=============================================================================
