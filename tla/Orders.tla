------------------------------- MODULE Orders --------------------------------
(***************************************************************************)
(* The tools of the trading and the search agent, and the REST calls over  *)
(* the same use cases.  Stock lives in the memory of each process; orders  *)
(* live in a database, or in the memory of each process when the           *)
(* deployment has none.                                                    *)
(*                                                                         *)
(* One action is what a call does between two awaits that suspend it: the  *)
(* in-memory repositories never do, a statement of the database does.      *)
(*                                                                         *)
(* Definitions marked "wrong:" are not part of the model: each is a bug    *)
(* this code could have had, kept to test that the properties notice it.   *)
(***************************************************************************)
EXTENDS ToolCall, Catalog

CONSTANTS Skus, Currency,       \* Currency in [Skus -> STRING], of Sku.price
          InitialStock,         \* [Skus -> Nat], what build_seed_products puts there
          NumberBound,          \* bound of the model on order numbers
          VectorHits,           \* what the vector index may answer
          Cases,                \* set of [setup, ask, rows, luck] to start from
          Nothing, Before       \* no order; the caller of an order of an earlier run

ASSUME OrdersAssumption == InitialStock \in [Skus -> Nat] /\ NumberBound \in Nat /\ IsFiniteSet(Calls)
ASSUME StoresAssumption == "db" \notin Processes /\ Before \notin Calls

\* GBX-000001 and on.
Numbers == 1 .. NumberBound

\* What a request may ask for, an unknown sku and a quantity below one included.
Asked == Seq([sku : Skus \cup STRING, quantity : Int])
Lines == Seq([sku : Skus, quantity : Nat \ {0}])
Order == [by : Calls \cup {Before}, status : {"CONFIRMED", "CANCELLED"}, lines : Asked]

\* The index has one point for each product, named by the id of the product.
ASSUME HitsAssumption == \A hits \in VectorHits : hits \in Seq(STRING) /\ IsInjective(hits)
ASSUME NothingAssumption == Nothing \notin Order

\* An earlier run left orders numbered from one on, without a gap; OrderLine refused a
\* quantity below one.
ASSUME CasesAssumption ==
    \A case \in Cases :
        /\ case.setup \in [breaker : {"local", "shared"}, storage : {"sql", "file"}]
        /\ case.luck \in Nat
        /\ \A c \in Calls : case.ask[c].process \in Processes /\ case.ask[c].items \in Asked
                           /\ case.ask[c].target \in Numbers
                           /\ case.ask[c].spec \in SearchSpec /\ IsFiniteSet(case.ask[c].spec.terms)
        /\ case.rows \in [Numbers -> {r \in Order : r.by = Before /\ r.lines \in Lines} \cup {Nothing}]
        /\ \E k \in 0 .. NumberBound : \A n \in Numbers : case.rows[n] # Nothing <=> n <= k

VARIABLES stock,      \* [Processes -> [Skus -> Nat]]
          rows,       \* [Stores -> [Numbers -> Order or Nothing]]
          counter,    \* [Processes -> Nat], of InMemoryOrderRepository
          number,     \* [Calls -> order number or 0], the one a create was given
          order,      \* [Calls -> Order or Nothing], the object a call saves
          seen,       \* [Calls -> Order or Nothing], what merge() found in the table
          found,      \* [Calls -> result of a search]
          excuse      \* history: what an answer may not tell

dataVars == <<stock, rows, counter, number, order, seen, found, excuse>>
vars == <<setup, ask, luck, toolVars, dataVars>>

OrderOf(by, status, lines) == [by |-> by, status |-> status, lines |-> lines]
Stores == Processes \cup {"db"}
Sql == setup.storage = "sql"
Store(c) == IF Sql THEN "db" ELSE Process(c)
Items(c) == ask[c].items
NumberOf(c) == IF Tool(c) = "create" THEN number[c] ELSE ask[c].target
Excuse(e) == excuse' = excuse \cup {e}

-----------------------------------------------------------------------------
(* Stock: Sku.deduct_stock and restore_stock over the first n lines of a call. *)

Quantities(lines) == [i \in DOMAIN lines |-> lines[i].quantity]
LinesOf(lines, n, s) == {i \in 1 .. n : lines[i].sku = s}
Units(lines, n, s) == SumFunctionOnSet(Quantities(lines), LinesOf(lines, n, s))

Positive(l) == l.quantity >= 0
Restored(lines, n, s) ==
    SumFunctionOnSet(Quantities(lines), {i \in LinesOf(lines, n, s) : Positive(lines[i])})

\* wrong: the rollback leaves out the last line deducted
RestockedShort(shelf, lines, n) ==
    [s \in Skus |-> shelf[s] + IF n = 0 THEN 0 ELSE Restored(lines, n - 1, s)]

\* The loop of a cancellation, and of the except branch of a create.  Only the last line
\* deducted can be negative, and restore_stock refuses it: what deduct_stock added to
\* the stock for it stays there.
Restocked(shelf, lines, n) == [s \in Skus |-> shelf[s] + Restored(lines, n, s)]

Deducted(shelf, lines, n) == [s \in Skus |-> shelf[s] - Units(lines, n, s)]
HasStock(shelf, l) == shelf[l.sku] >= l.quantity

\* A line of an unknown sku, or of one the lines before it left too few of.
Short(shelf, items, i) ==
    items[i].sku \notin Skus \/ ~HasStock(Deducted(shelf, items, i - 1), items[i])

\* wrong: the stock is not compared with the quantity
DeductionUnchecked(shelf, items) ==
    [shelf |-> Deducted(shelf, items, Len(items)), taken |-> Len(items),
     raised |-> \E i \in DOMAIN items : items[i].sku \notin Skus]

\* The loop of PlaceOrderUseCase up to the line that raises: an unknown sku and a
\* shortage raise before the deduction, OrderLine's check of the quantity after it.
Deduction(shelf, items) ==
    LET raising == {i \in DOMAIN items : Short(shelf, items, i) \/ items[i].quantity <= 0}
        last == Min(raising)
        n == IF raising = {} THEN Len(items)
             ELSE IF Short(shelf, items, last) THEN last - 1 ELSE last
    IN  [shelf |-> Deducted(shelf, items, n), taken |-> n, raised |-> raising # {}]

MixedCurrencies(items) == Cardinality({Currency[items[i].sku] : i \in DOMAIN items}) > 1

-----------------------------------------------------------------------------
(* create_order_tool                                                         *)

\* Order.place and confirm: a CREATED order is never seen outside.
Placed(c) == OrderOf(c, "CONFIRMED", Items(c))

Incomplete(c) == Items(c) = << >> \/ ~ask[c].address

\* An exception after n lines were deducted.
Refuse(c, shelf, n) ==
    /\ stock' = [stock EXCEPT ![Process(c)] = Restocked(shelf, Items(c), n)]
    /\ IF \E i \in 1 .. n : ~Positive(Items(c)[i]) THEN Excuse(<<"inflated", c>>)
                                                   ELSE UNCHANGED excuse
    /\ Leave(c, "error")

\* The items are deducted; a database suspends the call before it gives a number.
Deduct(c) ==
    LET d == Deduction(stock[Process(c)], Items(c)) IN
    /\ at[c] = "running" /\ Tool(c) = "create" /\ Sql
    /\ IF Incomplete(c) THEN Leave(c, "error") /\ UNCHANGED <<stock, excuse>>
       ELSE IF d.raised THEN Refuse(c, d.shelf, d.taken)
       ELSE /\ stock' = [stock EXCEPT ![Process(c)] = d.shelf]
            /\ at' = [at EXCEPT ![c] = "numbering"]
            /\ UNCHANGED <<answer, clock, circuit, copy, streak, stale, excuse>>
    /\ UNCHANGED <<luck, rows, counter, number, order, seen, found>>

\* Without a database the whole use case runs in one go.
CreateInMemory(c) ==
    LET p == Process(c)
        d == Deduction(stock[p], Items(c)) IN
    /\ at[c] = "running" /\ Tool(c) = "create" /\ ~Sql
    /\ counter[p] < NumberBound
    /\ IF Incomplete(c) THEN Leave(c, "error") /\ UNCHANGED <<stock, counter, number, order, rows, excuse>>
       ELSE IF d.raised THEN Refuse(c, d.shelf, d.taken) /\ UNCHANGED <<counter, number, order, rows>>
       ELSE /\ counter' = [counter EXCEPT ![p] = @ + 1]
            /\ IF MixedCurrencies(Items(c))
               THEN Refuse(c, d.shelf, d.taken) /\ UNCHANGED <<number, order, rows>>
               ELSE LET new == Placed(c) IN
                    /\ stock' = [stock EXCEPT ![p] = d.shelf]
                    /\ number' = [number EXCEPT ![c] = counter[p] + 1]
                    /\ order' = [order EXCEPT ![c] = new]
                    /\ rows' = [rows EXCEPT ![p][counter[p] + 1] = new]
                    /\ Leave(c, "ok")
                    /\ UNCHANGED excuse
    /\ UNCHANGED <<luck, seen, found>>

\* wrong: the numbers start again at the orders still confirmed
CountConfirmed == Cardinality({n \in Numbers : rows["db"][n] # Nothing /\ rows["db"][n].status = "CONFIRMED"})

CountRows == Cardinality({n \in Numbers : rows["db"][n] # Nothing})

Holds(d, n) == Tool(d) = "create" /\ number[d] = n /\ at[d] \in {"saving", "writing"}

\* next_order_id, and Order.place: both still inside the try.
NextOrderId(c, o) ==
    LET n == CountRows + 1 IN
    /\ at[c] = "numbering" /\ n \in Numbers /\ o \in {"ok", "refused"} /\ Call(o)
    /\ IF o = "refused" \/ MixedCurrencies(Items(c))
       THEN Refuse(c, stock[Process(c)], Len(Items(c))) /\ UNCHANGED <<number, order>>
       ELSE /\ number' = [number EXCEPT ![c] = n]
            /\ order' = [order EXCEPT ![c] = Placed(c)]
            /\ at' = [at EXCEPT ![c] = "saving"]
            /\ IF \E d \in Calls \ {c} : Holds(d, n) THEN Excuse(<<"collision", n>>)
                                                     ELSE UNCHANGED excuse
            /\ UNCHANGED <<stock, answer, clock, circuit, copy, streak, stale>>
    /\ UNCHANGED <<rows, counter, seen, found>>

-----------------------------------------------------------------------------
(* SqlOrderRepository.save, outside the try of both use cases.               *)

\* merge() looks the row up.
Merge(c, o) ==
    /\ at[c] = "saving" /\ o \in {"ok", "refused"} /\ Call(o)
    /\ IF o = "ok"
       THEN /\ seen' = [seen EXCEPT ![c] = rows["db"][NumberOf(c)]]
            /\ at' = [at EXCEPT ![c] = "writing"]
            /\ UNCHANGED <<answer, clock, circuit, copy, streak, stale, excuse>>
       ELSE Leave(c, "error") /\ Excuse(<<"unsaved", c>>) /\ UNCHANGED seen
    /\ UNCHANGED <<stock, rows, counter, number, order, found>>

\* An UPDATE sets the columns that differ from what merge() saw; the lines are rewritten.
Written(now, old, new) ==
    IF old = Nothing THEN new
    ELSE [by |-> IF new.by = old.by THEN now.by ELSE new.by,
          status |-> IF new.status = old.status THEN now.status ELSE new.status,
          lines |-> new.lines]

Clash(c) == seen[c] = Nothing /\ rows["db"][NumberOf(c)] # Nothing
Saved(c) == [rows EXCEPT !["db"][NumberOf(c)] = Written(@, seen[c], order[c])]

\* The statements and the commit.  An INSERT meets a row that came in between: IntegrityError.
Commit(c, o) ==
    /\ at[c] = "writing" /\ Call(o)
    /\ IF Clash(c)
       THEN o = "ok" /\ Leave(c, "error") /\ Excuse(<<"unsaved", c>>) /\ UNCHANGED rows
       ELSE /\ rows' = IF Effect(o) THEN Saved(c) ELSE rows
            /\ Leave(c, IF Ok(o) THEN "ok" ELSE "error")
            /\ CASE o = "ok" -> UNCHANGED excuse
                 [] o = "lost" -> Excuse(<<"doubt", c>>)
                 [] o = "refused" -> Excuse(<<"unsaved", c>>)
    /\ UNCHANGED <<stock, counter, number, order, seen, found>>

-----------------------------------------------------------------------------
(* cancel_order_tool and the REST cancellation, query_order_tool, search     *)

FindById(c) == rows[Store(c)][ask[c].target]

\* wrong: a cancelled order is cancelled again
CancellableAgain(c, row) == row # Nothing /\ ask[c].reason

Cancellable(c, row) == row # Nothing /\ row.status = "CONFIRMED" /\ ask[c].reason

Cancelled(row) == OrderOf(row.by, "CANCELLED", row.lines)

Restocks(n) == {d \in Calls : Tool(d) = "cancel" /\ ask[d].target = n /\ order[d] # Nothing}

\* The order is read, cancelled and its lines go back to the stock of this process.
Cancel(c, o) ==
    LET row == FindById(c)
        new == Cancelled(row)
        p == Process(c) IN
    /\ at[c] = "running" /\ Tool(c) = "cancel"
    /\ o = "ok" \/ (o = "refused" /\ Sql)
    /\ Call(o)
    /\ IF o = "refused" \/ ~Cancellable(c, row)
       THEN Leave(c, "error") /\ UNCHANGED <<stock, order, rows, excuse>>
       ELSE /\ stock' = [stock EXCEPT ![p] = Restocked(@, row.lines, Len(row.lines))]
            /\ order' = [order EXCEPT ![c] = new]
            /\ IF \E d \in Restocks(ask[c].target) : at[d] \in {"saving", "writing"}
               THEN Excuse(<<"twice", ask[c].target>>) ELSE UNCHANGED excuse
            /\ IF Sql THEN /\ at' = [at EXCEPT ![c] = "saving"]
                           /\ UNCHANGED <<answer, clock, circuit, copy, streak, stale, rows>>
                      ELSE rows' = [rows EXCEPT ![p][ask[c].target] = new] /\ Leave(c, "ok")
    /\ UNCHANGED <<counter, number, seen, found>>

Query(c, o) ==
    /\ at[c] = "running" /\ Tool(c) = "query"
    /\ o = "ok" \/ (o = "refused" /\ Sql)
    /\ Call(o)
    /\ Leave(c, IF o = "ok" /\ FindById(c) # Nothing THEN "ok" ELSE "error")
    /\ UNCHANGED dataVars

\* Embedder, index and reranker suspend the call, but it reads nothing that changes.
Search(c) ==
    /\ at[c] = "running" /\ Tool(c) = "search"
    /\ \E hits \in VectorHits \cup {Down}, ranked \in BOOLEAN :
       \E recall \in Recalls(ask[c].spec, hits, ranked) :
          LET result == Result(ask[c].spec, recall) IN
          /\ found' = [found EXCEPT ![c] = result]
          /\ Leave(c, IF result = << >> THEN "error" ELSE "ok")
    /\ UNCHANGED <<luck, stock, rows, counter, number, order, seen, excuse>>

-----------------------------------------------------------------------------
\* wait_for cancels the tool at the await it stands at: CancelledError is no Exception,
\* so nothing is rolled back, and a commit under way may have been carried out.
Suspended(c) == \/ at[c] \in {"numbering", "saving", "writing"}
                \/ at[c] = "running" /\ (Tool(c) = "search" \/ (Sql /\ Tool(c) \in {"cancel", "query"}))

TimeOut(c) ==
    /\ Guarded(c) /\ Suspended(c) /\ Mishap
    /\ Leave(c, "error")
    /\ \/ rows' = rows /\ (IF at[c] = "running" THEN UNCHANGED excuse ELSE Excuse(<<"unsaved", c>>))
       \/ at[c] = "writing" /\ ~Clash(c) /\ rows' = Saved(c) /\ Excuse(<<"doubt", c>>)
    /\ UNCHANGED <<stock, counter, number, order, seen, found>>

\* A process dies and is started again: stock, circuits and orders in memory start anew.
Crash(p) ==
    LET open == {c \in Calls : Process(c) = p /\ at[c] \notin {"idle", "end"}} IN
    /\ Mishap
    /\ at' = [c \in Calls |-> IF c \in open THEN "end" ELSE at[c]]
    /\ answer' = [c \in Calls |-> IF c \in open THEN "lost" ELSE answer[c]]
    /\ circuit' = [circuit EXCEPT ![p] = [t \in Tools |-> Closed]]
    /\ streak' = [streak EXCEPT ![p] = [t \in Tools |-> 0]]
    /\ stock' = [stock EXCEPT ![p] = InitialStock]
    /\ counter' = [counter EXCEPT ![p] = 0]
    /\ rows' = [rows EXCEPT ![p] = [n \in Numbers |-> Nothing]]
    /\ Excuse(<<"restarted", p>>)
    /\ UNCHANGED <<clock, copy, stale, number, order, seen, found>>

Middleware(c) ==
    /\ \/ Enter(c)
       \/ \E o \in Outcomes : \/ Admit(c, o) \/ Mark(c, o) \/ RecordSuccess(c, o)
                              \/ LoadFailure(c, o) \/ SaveFailure(c, o)
    /\ UNCHANGED dataVars

Body(c) ==
    \/ Deduct(c) \/ CreateInMemory(c) \/ Search(c) \/ TimeOut(c)
    \/ \E o \in Outcomes : NextOrderId(c, o) \/ Merge(c, o) \/ Commit(c, o) \/ Cancel(c, o) \/ Query(c, o)

Next ==
    /\ UNCHANGED <<setup, ask>>
    /\ \/ \E c \in Calls : Tool(c) \in Tools /\ (Middleware(c) \/ Body(c))
       \/ \E p \in Processes : Crash(p)
       \/ Tick /\ UNCHANGED dataVars

Init ==
    /\ \E case \in Cases :
          /\ setup = case.setup /\ ask = case.ask /\ luck = case.luck
          /\ rows = [x \in Stores |-> IF x = "db" THEN case.rows ELSE [n \in Numbers |-> Nothing]]
    /\ ToolInit
    /\ stock = [p \in Processes |-> InitialStock]
    /\ counter = [p \in Processes |-> 0]
    /\ number = [c \in Calls |-> 0]
    /\ order = [c \in Calls |-> Nothing]
    /\ seen = [c \in Calls |-> Nothing]
    /\ found = [c \in Calls |-> << >>]
    /\ excuse = {}

Spec == Init /\ [][Next]_vars
=============================================================================
