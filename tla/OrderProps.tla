----------------------------- MODULE OrderProps ------------------------------
(***************************************************************************)
(* What orders, stock, circuit breakers and searches must keep, whatever   *)
(* the calls of both processes, the database, Redis and crashes do.        *)
(***************************************************************************)
EXTENDS Orders

\* Types of the state of registry, stock, table and calls.
TypeOK ==
    LET OrderRow == [by : Calls \cup {Before}, status : {"CONFIRMED", "CANCELLED"}, lines : Lines]
    IN  /\ setup \in [breaker : {"local", "shared"}, storage : {"sql", "file"}]
        /\ luck \in Nat
        /\ ToolTypeOK
        /\ stock \in [Processes -> [Skus -> Nat]]
        /\ rows \in [Stores -> [Numbers -> OrderRow \cup {Nothing}]]
        /\ counter \in [Processes -> {0} \cup Numbers]
        /\ number \in [Calls -> {0} \cup Numbers]
        /\ order \in [Calls -> OrderRow \cup {Nothing}]
        /\ seen \in [Calls -> OrderRow \cup {Nothing}]
        /\ excuse \subseteq ({"inflated", "unsaved", "doubt"} \X Calls)
                            \cup ({"collision", "twice"} \X Numbers) \cup ({"restarted"} \X Processes)

Restarted(p) == <<"restarted", p>> \in excuse
Collided(n) == <<"collision", n>> \in excuse
InDoubt(c) == {<<"unsaved", c>>, <<"doubt", c>>} \cap excuse # {}

\* The line of negative quantity a create was refused for.
Inflation(items, s) ==
    LET line == items[Min({i \in DOMAIN items : ~Positive(items[i])})]
    IN  IF line.sku = s THEN line.quantity ELSE 0

\* What the answer of a call says it took out of its process's stock.
Taken(c, s) ==
    CASE Tool(c) = "create" /\ (answer[c] = "ok" \/ InDoubt(c)) -> Units(Items(c), Len(Items(c)), s)
      [] Tool(c) = "create" /\ <<"inflated", c>> \in excuse -> Inflation(Items(c), s)
      [] Tool(c) = "cancel" /\ (answer[c] = "ok" \/ InDoubt(c)) ->
             0 - Units(order[c].lines, Len(order[c].lines), s)
      [] OTHER -> 0

AtRest(p) == \A c \in Calls : Process(c) = p => at[c] \notin {"numbering", "saving", "writing"}

\* While no call is half way, the stock of a process lacks what its answers say it
\* sold: a refused order of several lines gives all of them back, and what is left
\* over is exactly what a call with a failed save or a timeout took, or what a line
\* of negative quantity added (sku.py:30, order_line.py:21).
StockMatchesAnswers ==
    \A p \in Processes, s \in Skus : AtRest(p) /\ ~Restarted(p) =>
        stock[p][s] = InitialStock[s] -
            SumFunctionOnSet([c \in Calls |-> Taken(c, s)], {c \in Calls : Process(c) = p})

Kept(c) ==
    LET row == rows[Store(c)][NumberOf(c)] IN
    /\ row # Nothing
    /\ IF Tool(c) = "cancel" THEN row.status = "CANCELLED"
       ELSE /\ row.by = c /\ row.lines = Items(c)
            /\ row.status = "CANCELLED" => Restocks(number[c]) # {}

\* An order a buyer was told of is stored as it was asked for, a cancellation that was
\* told is stored too, and a refused order is not: unless two creates took one number
\* (repositories.py:248), a process lost its memory, or a commit's answer was lost.
AnswersMatchStore ==
    \A c \in Calls :
        /\ Tool(c) \in {"create", "cancel"} /\ answer[c] = "ok" =>
               Kept(c) \/ Collided(NumberOf(c)) \/ (~Sql /\ Restarted(Process(c)))
        /\ Tool(c) = "create" /\ answer[c] = "error" /\ <<"doubt", c>> \notin excuse =>
               \A x \in Stores, n \in Numbers : rows[x][n] # Nothing => rows[x][n].by # c

\* The stock of an order goes back once, although two cancellations may both read it
\* CONFIRMED: only when they overlapped, or the first one's save failed after it gave
\* the stock back (order_usecases.py:90 before :96).
ReturnedOnce ==
    \A c, d \in Calls :
        LET n == ask[c].target IN
        c # d /\ Store(c) = Store(d) /\ {c, d} \subseteq Restocks(n) =>
            \/ <<"twice", n>> \in excuse \/ Collided(n) \/ InDoubt(c) \/ InDoubt(d)
            \/ answer[c] = "lost" \/ answer[d] = "lost" \/ (~Sql /\ Restarted(Process(c)))

\* A circuit opens only after Threshold failures with no success in between, also when
\* the calls of several processes load and save one state in Redis; except when a copy
\* loaded before a success was saved after it (shared_breaker.py:87 to :96).
OpensOnlyAfterFailures ==
    \A x \in Places, t \in Tools : circuit[x][t].opened # 0 => streak[x][t] >= Threshold \/ stale

\* m and n differ by half of slack at most.
Near(m, n, slack) == 2 * m <= 2 * n + slack /\ 2 * n <= 2 * m + slack

LandedExactly(card, p, spec) ==
    LET to == spec.shipTo
        unit == RatesToCny[spec.currency]
        price == p.price * RatesToCny[p.currency]
        excess == Max({0, price - DeMinimis[to] * 1000})
        exact == price + BaseFreight[to] * 1000 + (excess \div 1000) * Duties(p.category)[to]
    IN  card.landed # << >> =>
            /\ Near(card.landed[1].total * unit, exact, 3 * unit + 2000)
            /\ card.landed[1].exempt <=> excess < 500

Honest(spec, f) ==
    LET shown == {f.hits[i].id : i \in DOMAIN f.hits} IN
    /\ \A id \in shown :
          LET p == ProductOf(id) IN
          /\ spec.shipTo \in p.shipsTo \cup {Nowhere}
          /\ spec.cap # NoLimit =>
                 IF p.currency = spec.currency THEN p.price <= spec.cap
                 ELSE p.price * RatesToCny[p.currency] * 2 <= (2 * spec.cap + 1) * RatesToCny[spec.currency]
    /\ shown \cap Range(f.filteredOut) = {}
    /\ Len(f.hits) <= spec.topK /\ Cardinality(shown) = Len(f.hits)
    /\ f.hits = << >> /\ f.filteredOut = << >> /\ f.strategy = "keyword_2gram" =>
           \A p \in Range(Products) : p.terms \cap spec.terms = {}
    /\ \A i \in DOMAIN f.hits : LandedExactly(f.hits[i], ProductOf(f.hits[i].id), spec)

\* A product shown can be delivered and is within the cap in the currency asked for, no
\* product is shown twice or both shown and reported as filtered, and when a search by
\* keywords reports nothing at all, no product shares a term with it.  The landed price of a
\* card is price, freight and duty of the exact sum, to within one and a half of the minor
\* unit asked for (each of the three is rounded once) and one of the CNY the duty is
\* reckoned in, and exempt exactly when the price is within the allowance.
SearchHonest == \A c \in Calls : found[c] # << >> => Honest(ask[c].spec, found[c][1])
=============================================================================
