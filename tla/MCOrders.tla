------------------------------ MODULE MCOrders -------------------------------
(***************************************************************************)
(* Orders on small instances: creates that compete for stock and number,   *)
(* creates the domain refuses, cancellations from both processes, the      *)
(* same in memory, the breaker under failing queries, and searches.        *)
(***************************************************************************)
EXTENDS OrderProps

CONSTANTS c1, c2, c3, c4, agent, api

MCCurrency == [x |-> "CNY", y |-> "CNY", z |-> "USD"]
MCInitialStock == [x |-> 2, y |-> 1, z |-> 1]

Product1(id, price, currency, category, shipsTo, terms) ==
    [id |-> id, price |-> price, currency |-> currency, category |-> category,
     shipsTo |-> shipsTo, terms |-> terms]
MCProducts ==
    <<Product1("case", 45900, "CNY", "travel", {"CN", "US"}, {"travel", "case"}),
      Product1("tent", 82350, "USD", "outdoor", {"CN", "US", "BR"}, {"travel", "tent"}),
      Product1("plug", 1995, "USD", "digital", {"US"}, {"plug"}),
      Product1("lamp", 20001, "EUR", "home", {"CN", "JP"}, {"lamp", "case"})>>
MCVectorHits == {<< >>, <<"gone">>, <<"tent", "gone", "case">>, <<"plug", "lamp", "tent">>}

NoSpec == [terms |-> {}, category |-> "", shipTo |-> Nowhere, topK |-> 1, cap |-> NoLimit, currency |-> "CNY"]
Request(kind, p, guarded) ==
    [kind |-> kind, process |-> p, guarded |-> guarded, items |-> << >>, address |-> TRUE,
     target |-> 1, reason |-> TRUE, spec |-> NoSpec]
Item(s, q) == [sku |-> s, quantity |-> q]
Create(items) == [Request("create", agent, TRUE) EXCEPT !.items = items]
Cancels(p, guarded) == Request("cancel", p, guarded)
Asks(n) == [Request("query", agent, TRUE) EXCEPT !.target = n]
AsksHere(p, n) == [Asks(n) EXCEPT !.process = p]
Searches(spec) == [Request("search", agent, TRUE) EXCEPT !.spec = spec]
None == Request("none", agent, FALSE)

NoRows == [n \in Numbers |-> Nothing]
OneRow == [NoRows EXCEPT ![1] = OrderOf(Before, "CONFIRMED", <<Item("x", 1), Item("y", 1)>>)]
Case(breaker, storage, calls, table, n) ==
    [setup |-> [breaker |-> breaker, storage |-> storage], luck |-> n, rows |-> table,
     ask |-> (c1 :> calls[1] @@ c2 :> calls[2] @@ c3 :> calls[3] @@ c4 :> calls[4])]

Competing == <<Create(<<Item("x", 1), Item("y", 1)>>), Create(<<Item("x", 2), Item("y", 1)>>),
               Cancels(api, FALSE), None>>
Apart == <<Create(<<Item("x", 1)>>), Create(<<Item("x", 1), Item("y", 1)>>), Cancels(agent, TRUE), None>>
Refusable == <<Create(<<Item("x", 1), Item("y", -1), Item("z", -1)>>), Create(<<Item("x", 1), Item("z", 1)>>),
               Create(<<Item("y", 1), Item("x", 0)>>), Create(<<Item("x", 1), Item("w", 1)>>)>>
Incompletes == <<Create(<< >>), [Create(<<Item("x", 1)>>) EXCEPT !.address = FALSE],
                 [Cancels(agent, TRUE) EXCEPT !.reason = FALSE], Asks(1)>>
Cancelling == <<Cancels(agent, TRUE), Cancels(api, FALSE), Asks(1), None>>
Failing == <<Asks(2), AsksHere(api, 2), Asks(1), AsksHere(api, 2)>>
FailingHere == <<Asks(2), Asks(2), Asks(1), Asks(2)>>

Specs ==
    {[terms |-> {"travel", "case"}, category |-> "travel", shipTo |-> to, topK |-> k, cap |-> cap, currency |-> cur] :
        to \in {Nowhere, "CN", "US", "BR"}, k \in {0, 1, 3}, cap \in {NoLimit, 45899, 46000}, cur \in {"CNY", "USD", "JPY", "BRL"}}

MCCases ==
    {Case("local", "sql", Competing, NoRows, 2), Case("local", "sql", Apart, NoRows, 2),
     Case("local", "sql", Refusable, NoRows, 0), Case("local", "file", Refusable, NoRows, 0),
     Case("local", "sql", Incompletes, OneRow, 0), Case("local", "file", Incompletes, NoRows, 0),
     Case("local", "sql", Cancelling, OneRow, 2), Case("shared", "sql", Cancelling, OneRow, 2),
     Case("local", "file", Apart, NoRows, 1), Case("local", "file", Competing, NoRows, 1),
     Case("shared", "sql", Failing, OneRow, 1), Case("local", "sql", FailingHere, OneRow, 1)}
    \cup {Case("local", "sql", <<Searches(spec), None, None, None>>, NoRows, 1) : spec \in Specs}
=============================================================================
