---------------------------- MODULE StockProofs -----------------------------
(***************************************************************************)
(* Stock, types and searches of OrderProps, proved for every set of calls, *)
(* skus, products and cases: what the loops over the lines of a call do to *)
(* a shelf, and what every call has taken at each step of it; how far an   *)
(* amount of a card is from the exact one, and what a ranking of the       *)
(* catalogue holds.                                                        *)
(***************************************************************************)
EXTENDS OrderProofs, DataLemmas

(* Lines.  Sums over the first n of them.                                  *)
LEMMA LinesAsked ==
    ASSUME NEW items \in Asked
    PROVE  /\ Len(items) \in Nat /\ DOMAIN items = 1 .. Len(items)
           /\ \A i \in 1 .. Len(items) : items[i].quantity \in Int /\ items[i].sku \in Skus \cup STRING
<1> DEFINE Item == [sku : Skus \cup STRING, quantity : Int]
<1>1. items \in Seq(Item)
  BY DEF Asked
<1>2. \A i \in 1 .. Len(items) : items[i] \in Item
  <2>. HIDE DEF Item
  <2>. QED BY <1>1
<1>. QED BY <1>1, <1>2

LEMMA LinesFinite ==
    ASSUME NEW items \in Asked, NEW n \in 0 .. Len(items), NEW s
    PROVE  /\ IsFiniteSet(LinesOf(items, n, s)) /\ LinesOf(items, n, s) \subseteq 1 .. n
           /\ Weights(Quantities(items), LinesOf(items, n, s))
           /\ \A i \in 1 .. Len(items) : Quantities(items)[i] = items[i].quantity
<1>1. IsFiniteSet(1 .. n)
  BY LinesAsked, FS_Interval
<1>2. LinesOf(items, n, s) \subseteq 1 .. n
  BY DEF LinesOf
<1>3. \A i \in 1 .. Len(items) : Quantities(items)[i] = items[i].quantity
  BY LinesAsked DEF Quantities
<1>4. \A i \in 1 .. n : i \in 1 .. Len(items)
  BY LinesAsked
<1>. QED BY <1>1, <1>2, <1>3, <1>4, FS_Subset, LinesAsked DEF Weights

LEMMA UnitsInt ==
    ASSUME NEW items \in Asked, NEW n \in 0 .. Len(items), NEW s
    PROVE  Units(items, n, s) \in Int
BY LinesFinite, SumUnfolds DEF Units

LEMMA UnitsStart == ASSUME NEW items, NEW s PROVE Units(items, 0, s) = 0
<1>1. LinesOf(items, 0, s) = {}
  BY DEF LinesOf
<1>. QED BY <1>1, SumEmpty DEF Units

\* What line n adds for a sku.
Adds(items, n, s) == IF items[n].sku = s THEN items[n].quantity ELSE 0

LEMMA UnitsStep ==
    ASSUME NEW items \in Asked, NEW n \in 1 .. Len(items), NEW s
    PROVE  Units(items, n, s) = Units(items, n - 1, s) + Adds(items, n, s)
<1>1. n - 1 \in 0 .. Len(items) /\ n \in 0 .. Len(items)
  BY LinesAsked
<1>2. Units(items, n - 1, s) \in Int
  BY <1>1, UnitsInt
<1>3. CASE items[n].sku = s
  <2>1. LinesOf(items, n, s) = LinesOf(items, n - 1, s) \cup {n} /\ n \notin LinesOf(items, n - 1, s)
    BY <1>3 DEF LinesOf
  <2>2. SumFunctionOnSet(Quantities(items), LinesOf(items, n, s)) = Units(items, n - 1, s) + Quantities(items)[n]
    <3> DEFINE S == LinesOf(items, n - 1, s)
               w == Quantities(items)
    <3>1. IsFiniteSet(S) /\ Weights(w, S \cup {n})
      BY <1>1, <2>1, LinesFinite
    <3>. HIDE DEF S, w
    <3>2. SumFunctionOnSet(w, S \cup {n}) = SumFunctionOnSet(w, S) + w[n]
      BY <2>1, <3>1, SumWith DEF S
    <3>. QED BY <2>1, <3>2 DEF S, w, Units
  <2>. QED BY <1>1, <1>3, <2>2, LinesFinite DEF Units, Adds
<1>4. CASE items[n].sku # s
  <2>1. LinesOf(items, n, s) = LinesOf(items, n - 1, s)
    BY <1>4 DEF LinesOf
  <2>. QED BY <1>2, <1>4, <2>1 DEF Units, Adds
<1>. QED BY <1>3, <1>4

\* The loop that gives lines back: all of them, unless the last is negative.
LEMMA RestoredAll ==
    ASSUME NEW items \in Asked, NEW n \in 0 .. Len(items), \A i \in 1 .. n : Positive(items[i]), NEW s
    PROVE  Restored(items, n, s) = Units(items, n, s)
<1>1. {i \in LinesOf(items, n, s) : Positive(items[i])} = LinesOf(items, n, s)
  BY DEF LinesOf
<1>. QED BY <1>1 DEF Restored, Units

LEMMA RestoredButLast ==
    ASSUME NEW items \in Asked, NEW n \in 1 .. Len(items), \A i \in 1 .. n - 1 : Positive(items[i]),
           ~Positive(items[n]), NEW s
    PROVE  Restored(items, n, s) = Units(items, n - 1, s)
<1>1. {i \in LinesOf(items, n, s) : Positive(items[i])} = LinesOf(items, n - 1, s)
  BY LinesAsked DEF LinesOf
<1>. QED BY <1>1 DEF Restored, Units

LEMMA UnitsNat ==
    ASSUME NEW items \in Asked, NEW n \in 0 .. Len(items), \A i \in 1 .. n : Positive(items[i]), NEW s
    PROVE  Units(items, n, s) \in Nat
<1>1. \A i \in LinesOf(items, n, s) : Quantities(items)[i] \in Nat
  <2>1. \A i \in LinesOf(items, n, s) : i \in 1 .. n /\ i \in 1 .. Len(items)
    BY LinesAsked DEF LinesOf
  <2>. QED BY <2>1, LinesFinite, LinesAsked DEF Positive
<1>. QED BY <1>1, LinesFinite, SumNatural DEF Units

\* The loop that takes lines out never takes more than there is.
LEMMA DeductedNat ==
    ASSUME NEW shelf \in [Skus -> Nat], NEW items \in Asked, NEW n \in 0 .. Len(items),
           \A i \in 1 .. n : ~Short(shelf, items, i)
    PROVE  Deducted(shelf, items, n) \in [Skus -> Nat]
<1>. DEFINE Bad == {k \in 0 .. n : \E s \in Skus : ~(shelf[s] - Units(items, k, s) \in Nat)}
<1>1. Bad = {}
  <2>1. SUFFICES ASSUME Bad # {} PROVE FALSE
    OBVIOUS
  <2>2. Bad \subseteq Nat
    BY LinesAsked
  <2>3. PICK k \in Bad : \A j \in Bad : k <= j
    <3>. HIDE DEF Bad
    <3>. QED BY <2>1, <2>2, NatMin
  <2>4. PICK s \in Skus : ~(shelf[s] - Units(items, k, s) \in Nat)
    BY <2>3
  <2>5. k # 0
    BY <2>4, UnitsStart
  <2>6. k \in 1 .. n /\ k - 1 \in 0 .. n /\ k \in 1 .. Len(items) /\ k - 1 \in 0 .. Len(items)
    BY <2>5, LinesAsked
  <2>7. k - 1 \notin Bad
    <3>. HIDE DEF Bad
    <3>. QED BY <2>3, <2>6
  <2>8. \A r \in Skus : shelf[r] - Units(items, k - 1, r) \in Nat
    BY <2>6, <2>7
  <2>9. Units(items, k, s) = Units(items, k - 1, s) + Adds(items, k, s)
    BY <2>6, UnitsStep
  <2>10. Units(items, k - 1, s) \in Int /\ items[k].quantity \in Int
    BY <2>6, UnitsInt, LinesAsked
  <2>11. items[k].sku \in Skus /\ shelf[items[k].sku] - Units(items, k - 1, items[k].sku) >= items[k].quantity
    BY <2>6 DEF Short, HasStock, Deducted
  <2>12. shelf[s] \in Nat
    OBVIOUS
  <2>13. CASE items[k].sku = s
    BY <2>4, <2>9, <2>10, <2>11, <2>12, <2>13 DEF Adds
  <2>14. CASE items[k].sku # s
    BY <2>4, <2>8, <2>9, <2>10, <2>14 DEF Adds
  <2>. QED BY <2>13, <2>14
<1>2. \A s \in Skus : shelf[s] - Units(items, n, s) \in Nat
  BY <1>1, LinesAsked
<1>. QED BY <1>2 DEF Deducted

\* The line a create stops at: the ones before it are bought, and it raises.
Raising(shelf, items) == {i \in DOMAIN items : Short(shelf, items, i) \/ items[i].quantity <= 0}

LEMMA Stops ==
    ASSUME NEW shelf, NEW items \in Asked, Raising(shelf, items) # {}
    PROVE  \E last \in 1 .. Len(items) :
              /\ last = Min(Raising(shelf, items))
              /\ Short(shelf, items, last) \/ items[last].quantity <= 0
              /\ \A i \in 1 .. last - 1 : ~Short(shelf, items, i) /\ items[i].quantity > 0
<1> DEFINE R == Raising(shelf, items)
<1>1. R \subseteq 1 .. Len(items) /\ R \subseteq Nat /\ R # {}
  BY LinesAsked DEF Raising
<1>2. PICK last \in R : \A j \in R : last <= j
  <2>. HIDE DEF R
  <2>. QED BY <1>1, NatMin
<1>3. last = Min(R)
  <2>1. \A x \in R : (\A y \in R : x <= y) => x = last
    BY <1>1, <1>2
  <2>. HIDE DEF R
  <2>. QED BY <1>2, <2>1 DEF Min
<1>4. ASSUME NEW i \in 1 .. last - 1
      PROVE  ~Short(shelf, items, i) /\ items[i].quantity > 0
  <2>1. i \in 1 .. Len(items) /\ i \notin R
    BY <1>1, <1>2, LinesAsked
  <2>. QED BY <2>1, LinesAsked DEF Raising
<1>. QED BY <1>1, <1>2, <1>3, <1>4 DEF Raising

LEMMA DeductionDone ==
    ASSUME NEW shelf \in [Skus -> Nat], NEW items \in Asked, ~Deduction(shelf, items).raised
    PROVE  /\ items \in Lines
           /\ Deduction(shelf, items).shelf \in [Skus -> Nat]
           /\ \A s \in Skus : Deduction(shelf, items).shelf[s] = shelf[s] - Units(items, Len(items), s)
<1>1. Raising(shelf, items) = {}
  BY DEF Deduction, Raising
<1>2. Deduction(shelf, items).shelf = Deducted(shelf, items, Len(items))
  BY <1>1 DEF Deduction, Raising
<1>3. \A i \in 1 .. Len(items) : ~Short(shelf, items, i) /\ items[i].quantity > 0
  BY <1>1, LinesAsked DEF Raising
<1>4. Len(items) \in 0 .. Len(items)
  BY LinesAsked
<1>5. Deducted(shelf, items, Len(items)) \in [Skus -> Nat]
  BY <1>3, <1>4, DeductedNat
<1>6. items \in Lines
  <2> DEFINE Item == [sku : Skus, quantity : Nat \ {0}]
             AnyItem == [sku : Skus \cup STRING, quantity : Int]
  <2>1. \A i \in 1 .. Len(items) : items[i].sku \in Skus /\ items[i].quantity \in Nat \ {0}
    BY <1>3, LinesAsked DEF Short
  <2>2. items \in Seq(AnyItem)
    BY DEF Asked
  <2>3. \A i \in 1 .. Len(items) : items[i] \in AnyItem
    <3>. HIDE DEF AnyItem
    <3>. QED BY <2>2
  <2>4. \A i \in 1 .. Len(items) : items[i] \in Item
    BY <2>1, <2>3
  <2>5. items \in Seq(Item)
    <3>. HIDE DEF Item, AnyItem
    <3>. QED BY <2>2, <2>4
  <2>. QED BY <2>5 DEF Lines
<1>. QED BY <1>2, <1>5, <1>6 DEF Deducted

\* What is left of a create that raised: the shelf as it was, and what the line of
\* negative quantity added.
LEMMA DeductionRaised ==
    ASSUME NEW shelf \in [Skus -> Nat], NEW items \in Asked, Deduction(shelf, items).raised
    PROVE  LET d == Deduction(shelf, items)
               back == Restocked(d.shelf, items, d.taken)
               inflated == \E i \in 1 .. d.taken : ~Positive(items[i])
           IN  /\ d.taken \in 0 .. Len(items) /\ back \in [Skus -> Nat]
               /\ \A s \in Skus : back[s] + (IF inflated THEN Inflation(items, s) ELSE 0) = shelf[s]
<1>1. Raising(shelf, items) # {}
  BY DEF Deduction, Raising
<1>2. PICK last \in 1 .. Len(items) :
         /\ last = Min(Raising(shelf, items))
         /\ Short(shelf, items, last) \/ items[last].quantity <= 0
         /\ \A i \in 1 .. last - 1 : ~Short(shelf, items, i) /\ items[i].quantity > 0
  BY <1>1, Stops
<1> DEFINE n == IF Short(shelf, items, last) THEN last - 1 ELSE last
           back == Restocked(Deducted(shelf, items, n), items, n)
<1>3. Deduction(shelf, items) = [shelf |-> Deducted(shelf, items, n), taken |-> n, raised |-> TRUE]
  BY <1>1, <1>2 DEF Deduction, Raising
<1>4. n \in 0 .. Len(items) /\ last - 1 \in 0 .. Len(items) /\ Len(items) \in Nat
  BY LinesAsked
<1>5. \A i \in 1 .. last - 1 : Positive(items[i])
  <2>1. \A i \in 1 .. last - 1 : i \in 1 .. Len(items)
    BY LinesAsked
  <2>. QED BY <1>2, <2>1, LinesAsked DEF Positive
<1>6. items[last].quantity \in Int
  BY LinesAsked
<1>7. \A s \in Skus : back[s] = shelf[s] - Units(items, n, s) + Restored(items, n, s)
  BY DEF Restocked, Deducted
<1>8. \A s \in Skus : Units(items, n, s) \in Int /\ Units(items, last - 1, s) \in Int
  BY <1>4, UnitsInt
<1>9. CASE \A i \in 1 .. n : Positive(items[i])
  <2>1. \A s \in Skus : Restored(items, n, s) = Units(items, n, s)
    BY <1>4, <1>9, RestoredAll
  <2>2. \A s \in Skus : back[s] = shelf[s] /\ shelf[s] \in Nat
    <3>. HIDE DEF back, n
    <3>. QED BY <1>7, <1>8, <2>1
  <2>3. back \in [Skus -> Nat]
    BY <2>2 DEF Restocked
  <2>. HIDE DEF back, n
  <2>4. Restocked(Deduction(shelf, items).shelf, items, Deduction(shelf, items).taken) = back
        /\ Deduction(shelf, items).taken = n
    BY <1>3 DEF back
  <2>. QED BY <1>4, <1>9, <2>2, <2>3, <2>4
<1>10. CASE \E i \in 1 .. n : ~Positive(items[i])
  <2>1. n = last /\ ~Short(shelf, items, last) /\ ~Positive(items[last])
    <3>1. PICK i \in 1 .. n : ~Positive(items[i])
      BY <1>10
    <3>2. i = last
      BY <1>4, <1>5, <3>1
    <3>. QED BY <1>4, <3>1, <3>2
  <2> DEFINE Bad == {i \in DOMAIN items : ~Positive(items[i])}
  <2>2. Min(Bad) = last
    <3>1. last \in Bad /\ Bad \subseteq Nat /\ \A y \in Bad : last <= y
      BY <1>5, <2>1, LinesAsked
    <3>2. \A x \in Bad : (\A y \in Bad : x <= y) => x = last
      BY <3>1
    <3>. HIDE DEF Bad
    <3>. QED BY <3>1, <3>2 DEF Min
  <2>3. \A s \in Skus : Inflation(items, s) = Adds(items, last, s)
    BY <2>2 DEF Inflation, Adds
  <2>4. \A s \in Skus : Restored(items, n, s) = Units(items, last - 1, s)
    BY <1>5, <2>1, RestoredButLast
  <2>5. \A s \in Skus : Units(items, n, s) = Units(items, last - 1, s) + Adds(items, last, s)
    BY <2>1, UnitsStep
  <2>6. \A s \in Skus : Adds(items, last, s) \in Int /\ Adds(items, last, s) <= 0
    BY <1>6, <2>1 DEF Adds, Positive
  <2>. HIDE DEF back, n
  <2>7. \A s \in Skus : back[s] \in Nat /\ back[s] + Adds(items, last, s) = shelf[s]
    <3>. TAKE s \in Skus
    <3>1. back[s] = shelf[s] - (Units(items, last - 1, s) + Adds(items, last, s)) + Units(items, last - 1, s)
      BY <1>7, <2>4, <2>5
    <3>2. shelf[s] \in Nat /\ Units(items, last - 1, s) \in Int
      BY <1>8
    <3>. QED BY <3>1, <3>2, <2>6
  <2>8. back \in [Skus -> Nat]
    BY <2>7 DEF Restocked, back
  <2>9. Restocked(Deduction(shelf, items).shelf, items, Deduction(shelf, items).taken) = back
        /\ Deduction(shelf, items).taken = n
    BY <1>3 DEF back
  <2>. QED BY <1>4, <1>10, <2>3, <2>7, <2>8, <2>9
<1>. QED BY <1>9, <1>10

\* Lines of an order go back as they were taken.
LEMMA RestockedLines ==
    ASSUME NEW shelf \in [Skus -> Nat], NEW lines \in Lines
    PROVE  /\ lines \in Asked
           /\ Restocked(shelf, lines, Len(lines)) \in [Skus -> Nat]
           /\ \A s \in Skus : Restocked(shelf, lines, Len(lines))[s] = shelf[s] + Units(lines, Len(lines), s)
           /\ \A i \in 1 .. Len(lines) : Positive(lines[i])
<1> DEFINE Item == [sku : Skus, quantity : Nat \ {0}]
           AnyItem == [sku : Skus \cup STRING, quantity : Int]
<1>1. lines \in Seq(Item)
  BY DEF Lines
<1>2. \A i \in 1 .. Len(lines) : lines[i] \in Item
  <2>. HIDE DEF Item
  <2>. QED BY <1>1
<1>3. \A i \in 1 .. Len(lines) : lines[i] \in AnyItem /\ Positive(lines[i])
  BY <1>2 DEF Positive
<1>4. lines \in Seq(AnyItem)
  <2>. HIDE DEF Item, AnyItem
  <2>. QED BY <1>1, <1>3
<1>5. lines \in Asked
  BY <1>4 DEF Asked
<1>6. Len(lines) \in 0 .. Len(lines)
  BY <1>5, LinesAsked
<1>7. \A s \in Skus : /\ Restored(lines, Len(lines), s) = Units(lines, Len(lines), s)
                      /\ Units(lines, Len(lines), s) \in Nat
  BY <1>3, <1>5, <1>6, RestoredAll, UnitsNat
<1>. QED BY <1>3, <1>5, <1>7 DEF Restocked

-----------------------------------------------------------------------------
(* What a call has taken out of the stock of its process, at every step: its *)
(* answer says the same of it once it has one.                               *)
Midway(c) == at[c] \in {"numbering", "saving", "writing"}
Inflated(c) == <<"inflated", c>> \in excuse

Debt(c, s) ==
    CASE Tool(c) = "create" /\ (Midway(c) \/ answer[c] = "ok" \/ InDoubt(c)) ->
             Units(Items(c), Len(Items(c)), s)
      [] Tool(c) = "create" /\ Inflated(c) -> Inflation(Items(c), s)
      [] Tool(c) = "cancel" /\ (Midway(c) \/ answer[c] = "ok" \/ InDoubt(c)) ->
             0 - Units(order[c].lines, Len(order[c].lines), s)
      [] OTHER -> 0

\* Rows and the orders that calls hold have lines of known skus and positive quantity.
StockShape ==
    /\ stock \in [Processes -> [Skus -> Nat]]
    /\ \A x \in Stores, n \in Numbers : rows[x][n] # Nothing => rows[x][n].lines \in Lines
    /\ \A c \in Calls : /\ order[c] # Nothing => order[c].lines \in Lines
                        /\ seen[c] # Nothing => seen[c].lines \in Lines
                        /\ at[c] = "numbering" => Items(c) \in Lines
                        /\ Inflated(c) => /\ Tool(c) = "create" /\ ~InDoubt(c)
                                          /\ answer[c] \in {"error", "lost"}
                                          /\ \E i \in DOMAIN Items(c) : ~Positive(Items(c)[i])
                        /\ Tool(c) = "cancel" /\ InDoubt(c) => order[c] # Nothing

\* Also between two steps of a call the stock lacks what the calls have taken.
StockBalanced ==
    \A p \in Processes, s \in Skus : ~Restarted(p) =>
        stock[p][s] = InitialStock[s] -
            SumFunctionOnSet([c \in Calls |-> Debt(c, s)], {c \in Calls : Process(c) = p})

StockInv == StockShape /\ StockBalanced

LEMMA InflationInt ==
    ASSUME NEW items \in Asked, NEW s, \E i \in DOMAIN items : ~Positive(items[i])
    PROVE  Inflation(items, s) \in Int
<1> DEFINE Bad == {i \in DOMAIN items : ~Positive(items[i])}
<1>1. Bad \subseteq 1 .. Len(items) /\ Bad \subseteq Nat /\ Bad # {}
  BY LinesAsked
<1>2. PICK k \in Bad : \A j \in Bad : k <= j
  <2>. HIDE DEF Bad
  <2>. QED BY <1>1, NatMin
<1>3. Min(Bad) \in Bad
  <2>. HIDE DEF Bad
  <2>. QED BY <1>2 DEF Min
<1>4. items[Min(Bad)].quantity \in Int
  BY <1>1, <1>3, LinesAsked
<1>. QED BY <1>4 DEF Inflation

LEMMA DebtInt ==
    ASSUME OrderInv, StockShape, NEW c \in Calls, NEW s
    PROVE  Debt(c, s) \in Int
<1>1. Items(c) \in Asked /\ Units(Items(c), Len(Items(c)), s) \in Int
  <2>1. Items(c) \in Asked
    BY DEF OrderInv, OrderShape
  <2>2. Len(Items(c)) \in 0 .. Len(Items(c))
    BY <2>1, LinesAsked
  <2>. QED BY <2>1, <2>2, UnitsInt
<1>2. Inflated(c) => Inflation(Items(c), s) \in Int
  BY <1>1, InflationInt DEF StockShape
<1>3. order[c] # Nothing => Units(order[c].lines, Len(order[c].lines), s) \in Int
  <2>. SUFFICES ASSUME order[c] # Nothing
                PROVE  Units(order[c].lines, Len(order[c].lines), s) \in Int
    OBVIOUS
  <2>1. order[c].lines \in Asked
    BY DEF OrderInv, OrderShape, Order
  <2>2. Len(order[c].lines) \in 0 .. Len(order[c].lines)
    BY <2>1, LinesAsked
  <2>. QED BY <2>1, <2>2, UnitsInt
<1>4. Tool(c) = "cancel" /\ (Midway(c) \/ answer[c] = "ok" \/ InDoubt(c)) => order[c] # Nothing
  BY DEF OrderInv, Stages, Half, Midway, StockShape
<1> DEFINE U == Units(Items(c), Len(Items(c)), s)
           B == Units(order[c].lines, Len(order[c].lines), s)
           I == Inflation(Items(c), s)
<1>. HIDE DEF U, B, I
<1>5. Debt(c, s) = CASE Tool(c) = "create" /\ (Midway(c) \/ answer[c] = "ok" \/ InDoubt(c)) -> U
                     [] Tool(c) = "create" /\ Inflated(c) -> I
                     [] Tool(c) = "cancel" /\ (Midway(c) \/ answer[c] = "ok" \/ InDoubt(c)) -> 0 - B
                     [] OTHER -> 0
  BY DEF Debt, U, B, I
<1>6. U \in Int /\ (Inflated(c) => I \in Int) /\ (order[c] # Nothing => B \in Int)
  BY <1>1, <1>2, <1>3 DEF U, B, I
<1>. QED BY <1>4, <1>5, <1>6

LEMMA DebtIntNow == OrderInv /\ StockShape => \A c \in Calls : \A s : Debt(c, s) \in Int
BY DebtInt

LEMMA DebtIntNext == (OrderInv /\ StockShape => \A c \in Calls : \A s : Debt(c, s) \in Int)'
BY DebtIntNow, PTL

\* A call that has not begun, and one that ended without stock.
LEMMA DebtNone ==
    ASSUME NEW c, NEW s, ~Midway(c), ~InDoubt(c), ~Inflated(c),
           answer[c] # "ok" \/ Tool(c) \notin {"create", "cancel"}
    PROVE  Debt(c, s) = 0
BY DEF Debt

LEMMA DebtCreate ==
    ASSUME NEW c, NEW s, Tool(c) = "create", Midway(c) \/ answer[c] = "ok" \/ InDoubt(c), ~Inflated(c)
    PROVE  Debt(c, s) = Units(Items(c), Len(Items(c)), s)
BY DEF Debt

LEMMA DebtInflated ==
    ASSUME NEW c, NEW s, Tool(c) = "create", ~Midway(c), answer[c] # "ok", ~InDoubt(c), Inflated(c)
    PROVE  Debt(c, s) = Inflation(Items(c), s)
BY DEF Debt

LEMMA DebtCancel ==
    ASSUME NEW c, NEW s, Tool(c) = "cancel", Midway(c) \/ answer[c] = "ok" \/ InDoubt(c)
    PROVE  Debt(c, s) = 0 - Units(order[c].lines, Len(order[c].lines), s)
BY DEF Debt

LEMMA DebtSame ==
    ASSUME Fixed, NEW c, order'[c] = order[c],
           Midway(c)' \/ (answer[c] = "ok")' \/ InDoubt(c)' <=> Midway(c) \/ answer[c] = "ok" \/ InDoubt(c),
           Inflated(c)' <=> Inflated(c)
    PROVE  \A s : Debt(c, s)' = Debt(c, s)
<1>. TAKE s
<1>1. Tool(c)' = Tool(c) /\ Items(c)' = Items(c)
  BY StoreMeans
<1>2. /\ Units(Items(c), Len(Items(c)), s)' = Units(Items(c), Len(Items(c)), s)
      /\ Inflation(Items(c), s)' = Inflation(Items(c), s)
      /\ Units(order[c].lines, Len(order[c].lines), s)' = Units(order[c].lines, Len(order[c].lines), s)
  BY <1>1
<1>. QED BY <1>1, <1>2 DEF Debt

\* A step in which one call, and the stock of its process, change by the same.
LEMMA BalanceKept ==
    ASSUME OrderInv, OrderInv', StockInv, StockShape', Fixed, NEW c \in Calls,
           \A q \in Processes : q # Process(c) => stock'[q] = stock[q],
           \A s \in Skus : stock'[Process(c)][s] + Debt(c, s)' = stock[Process(c)][s] + Debt(c, s),
           \A d \in Calls : d # c => \A s : Debt(d, s)' = Debt(d, s),
           \A q : Restarted(q) => Restarted(q)'
    PROVE  StockBalanced'
<1>. SUFFICES ASSUME NEW p \in Processes, NEW s \in Skus, ~Restarted(p)'
              PROVE  stock'[p][s] = InitialStock[s] -
                         SumFunctionOnSet([d \in Calls |-> Debt(d, s)'], {d \in Calls : Process(d) = p})
  BY FixedMeans DEF StockBalanced
<1> DEFINE w == [d \in Calls |-> Debt(d, s)]
           v == [d \in Calls |-> Debt(d, s)']
           S == {d \in Calls : Process(d) = p}
<1>1. IsFiniteSet(S)
  BY OrdersAssumption, FS_Subset
<1>2. \A d \in Calls : Debt(d, s) \in Int
  BY DebtInt DEF StockInv
<1>3. \A d \in Calls : Debt(d, s)' \in Int
  BY DebtIntNext DEF StockInv
<1>4. Weights(w, S) /\ Weights(v, S)
  BY <1>2, <1>3 DEF Weights
<1>5. stock[p][s] = InitialStock[s] - SumFunctionOnSet(w, S)
  BY DEF StockInv, StockBalanced
<1>6. stock[p][s] \in Nat /\ InitialStock[s] \in Nat /\ stock'[p][s] \in Nat
  BY OrdersAssumption DEF StockInv, StockShape
<1>7. SumFunctionOnSet(w, S) \in Int /\ SumFunctionOnSet(v, S) \in Int
  BY <1>1, <1>4, SumUnfolds
<1>8. CASE Process(c) = p
  <2>1. c \in S /\ \A y \in S : y # c => v[y] = w[y]
    BY <1>8
  <2>2. SumFunctionOnSet(v, S) + w[c] = SumFunctionOnSet(w, S) + v[c]
    <3>. HIDE DEF w, v, S
    <3>. QED BY <1>1, <1>4, <2>1, SumChanged
  <2>3. stock'[p][s] + v[c] = stock[p][s] + w[c] /\ w[c] \in Int /\ v[c] \in Int
    BY <1>2, <1>3, <1>8
  <2>. HIDE DEF w, v, S
  <2>4. stock'[p][s] = InitialStock[s] - SumFunctionOnSet(v, S)
    BY <1>5, <1>6, <1>7, <2>2, <2>3
  <2>. QED BY <2>4 DEF v, S
<1>9. CASE Process(c) # p
  <2>1. \A y \in S : w[y] = v[y]
    BY <1>9
  <2>2. SumFunctionOnSet(w, S) = SumFunctionOnSet(v, S)
    <3>. HIDE DEF w, v, S
    <3>. QED BY <1>1, <1>4, <2>1, SumSame
  <2>. QED BY <1>5, <1>9, <2>2
<1>. QED BY <1>8, <1>9

(* One call steps: the parts of the invariant it can disturb.              *)
Tells(c) ==
    \/ excuse' = excuse
    \/ \E k \in {"inflated", "unsaved", "doubt"} : excuse' = excuse \cup {<<k, c>>}
    \/ \E k \in {"collision", "twice"} : \E n : excuse' = excuse \cup {<<k, n>>}

LEMMA TellsMeans ==
    ASSUME NEW c, Tells(c)
    PROVE  /\ \A d : d # c => (InDoubt(d)' <=> InDoubt(d)) /\ (Inflated(d)' <=> Inflated(d))
           /\ \A q : Restarted(q)' <=> Restarted(q)
           /\ InDoubt(c) => InDoubt(c)'
BY DoubtMeans, DoubtMeansNext DEF Tells, Inflated, Restarted

LEMMA TellsOne ==
    ASSUME NEW c
    PROVE  /\ excuse' = excuse \/ Excuse(<<"twice", c>>) \/ Excuse(<<"collision", c>>)
                => /\ \A d : (InDoubt(d)' <=> InDoubt(d)) /\ (Inflated(d)' <=> Inflated(d))
                   /\ \A d : Tells(d)
           /\ Excuse(<<"unsaved", c>>) \/ Excuse(<<"doubt", c>>)
                => Tells(c) /\ InDoubt(c)' /\ (Inflated(c)' <=> Inflated(c))
           /\ Excuse(<<"inflated", c>>) => Tells(c) /\ Inflated(c)' /\ (InDoubt(c)' <=> InDoubt(c))
BY DoubtMeans, DoubtMeansNext DEF Tells, Excuse, Inflated

OthersSame(c) ==
    \A d \in Calls : d # c => /\ at'[d] = at[d] /\ answer'[d] = answer[d]
                              /\ order'[d] = order[d] /\ seen'[d] = seen[d]

LEMMA CallKept ==
    ASSUME OrderInv, OrderInv', StockInv, Fixed, NEW c \in Calls, Tells(c), OthersSame(c),
           stock' \in [Processes -> [Skus -> Nat]],
           \A q \in Processes : q # Process(c) => stock'[q] = stock[q],
           \A s \in Skus : stock'[Process(c)][s] + Debt(c, s)' = stock[Process(c)][s] + Debt(c, s),
           \A x \in Stores, n \in Numbers : rows'[x][n] # Nothing => rows'[x][n].lines \in Lines,
           order'[c] # Nothing => order'[c].lines \in Lines,
           seen'[c] # Nothing => seen'[c].lines \in Lines,
           at'[c] = "numbering" => Items(c) \in Lines,
           Inflated(c)' => /\ Tool(c) = "create" /\ ~InDoubt(c)' /\ answer'[c] \in {"error", "lost"}
                           /\ \E i \in DOMAIN Items(c) : ~Positive(Items(c)[i]),
           Tool(c) = "cancel" /\ InDoubt(c)' => order'[c] # Nothing
    PROVE  StockInv'
<1>1. StockShape'
  <2>1. ASSUME NEW d \in Calls
        PROVE  /\ order'[d] # Nothing => order'[d].lines \in Lines
               /\ seen'[d] # Nothing => seen'[d].lines \in Lines
               /\ at'[d] = "numbering" => Items(d) \in Lines
               /\ Inflated(d)' => /\ Tool(d) = "create" /\ ~InDoubt(d)'
                                  /\ answer'[d] \in {"error", "lost"}
                                  /\ \E i \in DOMAIN Items(d) : ~Positive(Items(d)[i])
               /\ Tool(d) = "cancel" /\ InDoubt(d)' => order'[d] # Nothing
    <3>1. CASE d = c
      BY <3>1
    <3>2. CASE d # c
      BY <3>2, TellsMeans DEF StockInv, StockShape, OthersSame
    <3>. QED BY <3>1, <3>2
  <2>. QED BY <2>1, StoreMeans DEF StockShape
<1>2. ASSUME NEW d \in Calls, d # c
      PROVE  \A s : Debt(d, s)' = Debt(d, s)
  <2>1. /\ order'[d] = order[d] /\ at'[d] = at[d] /\ answer'[d] = answer[d]
        /\ (InDoubt(d)' <=> InDoubt(d)) /\ (Inflated(d)' <=> Inflated(d))
    BY <1>2, TellsMeans DEF OthersSame
  <2>. QED BY <2>1, DebtSame DEF Midway
<1>3. \A q : Restarted(q) => Restarted(q)'
  BY TellsMeans
<1>4. StockBalanced'
  BY <1>1, <1>2, <1>3, BalanceKept
<1>. QED BY <1>1, <1>4 DEF StockInv

\* Most steps touch neither the stock nor what the call has taken.
LEMMA DebtKept ==
    ASSUME OrderInv, OrderInv', StockInv, Fixed, NEW c \in Calls, Tells(c), OthersSame(c),
           stock' = stock, order'[c] = order[c],
           Midway(c)' \/ (answer[c] = "ok")' \/ InDoubt(c)' <=> Midway(c) \/ answer[c] = "ok" \/ InDoubt(c),
           Inflated(c)' <=> Inflated(c), Inflated(c) => ~InDoubt(c)',
           Inflated(c) => answer'[c] \in {"error", "lost"},
           \A x \in Stores, n \in Numbers : rows'[x][n] # Nothing => rows'[x][n].lines \in Lines,
           seen'[c] # Nothing => seen'[c].lines \in Lines,
           at'[c] # "numbering",
           Tool(c) = "cancel" /\ InDoubt(c)' => order[c] # Nothing
    PROVE  StockInv'
<1>1. \A s : Debt(c, s)' = Debt(c, s)
  BY DebtSame
<1>2. \A s \in Skus : stock'[Process(c)][s] + Debt(c, s)' = stock[Process(c)][s] + Debt(c, s)
  BY <1>1
<1>3. stock' \in [Processes -> [Skus -> Nat]]
  BY DEF StockInv, StockShape
<1>4. /\ order[c] # Nothing => order[c].lines \in Lines
      /\ Inflated(c) => Tool(c) = "create" /\ \E i \in DOMAIN Items(c) : ~Positive(Items(c)[i])
  BY DEF StockInv, StockShape
<1>. QED BY <1>2, <1>3, <1>4, CallKept

LEMMA Fresh ==
    ASSUME OrderInv, StockInv, NEW c \in Calls, at[c] \in Inside
    PROVE  answer[c] = "none" /\ ~InDoubt(c) /\ ~Inflated(c)
BY DEF OrderInv, Stages, Inside, Done, StockInv, StockShape

LEMMA RowsAreLines ==
    ASSUME OrderInv, StockInv, NEW c \in Calls
    PROVE  /\ \A x \in Stores, n \in Numbers : rows[x][n] # Nothing => rows[x][n].lines \in Lines
           /\ order[c] # Nothing => order[c].lines \in Lines
           /\ seen[c] # Nothing => seen[c].lines \in Lines
           /\ Process(c) \in Processes /\ Items(c) \in Asked /\ ask[c].target \in Numbers
           /\ stock \in [Processes -> [Skus -> Nat]]
BY DEF OrderInv, OrderShape, StockInv, StockShape

\* A create gives back what it took.
LEMMA RefuseKept ==
    ASSUME OrderInv, OrderInv', BreakerInv, StockInv, Fixed, NEW c \in Calls,
           at[c] \in Inside, Tool(c) = "create",
           NEW shelf, NEW n \in 0 .. Len(Items(c)), Refuse(c, shelf, n), UNCHANGED <<order, seen, rows>>,
           Restocked(shelf, Items(c), n) \in [Skus -> Nat],
           \A s \in Skus : Restocked(shelf, Items(c), n)[s] +
                              (IF \E i \in 1 .. n : ~Positive(Items(c)[i]) THEN Inflation(Items(c), s) ELSE 0)
                           = stock[Process(c)][s] + Debt(c, s)
    PROVE  StockInv'
<1> DEFINE neg == \E i \in 1 .. n : ~Positive(Items(c)[i])
           back == Restocked(shelf, Items(c), n)
<1>1. answer[c] = "none" /\ ~InDoubt(c) /\ ~Inflated(c)
  BY Fresh
<1>2. /\ at'[c] \in {"recording", "end"} /\ answer'[c] = "error"
      /\ \A d \in Calls : d # c => at'[d] = at[d] /\ answer'[d] = answer[d]
  BY LeaveAfter DEF Refuse
<1>3. IF neg THEN Excuse(<<"inflated", c>>) ELSE excuse' = excuse
  BY DEF Refuse
<1>4. Tells(c) /\ ~InDoubt(c)' /\ (Inflated(c)' <=> neg)
  BY <1>1, <1>3, TellsOne
<1>5. OthersSame(c)
  BY <1>2 DEF OthersSame
<1>6. stock' = [stock EXCEPT ![Process(c)] = back]
  BY DEF Refuse
<1>7. /\ stock' \in [Processes -> [Skus -> Nat]] /\ stock'[Process(c)] = back
      /\ \A q \in Processes : q # Process(c) => stock'[q] = stock[q]
  <2>. HIDE DEF back
  <2>1. back \in [Skus -> Nat]
    BY DEF back
  <2>. QED BY <1>6, <2>1, RowsAreLines
<1>8. \A s \in Skus : Debt(c, s)' = IF neg THEN Inflation(Items(c), s) ELSE 0
  <2>. TAKE s \in Skus
  <2>1. Tool(c)' = Tool(c) /\ Items(c)' = Items(c)
    BY StoreMeans
  <2>2. ~Midway(c)' /\ answer'[c] = "error"
    BY <1>2 DEF Midway
  <2>. HIDE DEF neg
  <2>3. CASE neg
    BY <1>4, <2>1, <2>2, <2>3 DEF Debt
  <2>4. CASE ~neg
    BY <1>4, <2>1, <2>2, <2>4 DEF Debt
  <2>. QED BY <2>3, <2>4
<1>9. \A s \in Skus : stock'[Process(c)][s] + Debt(c, s)' = stock[Process(c)][s] + Debt(c, s)
  BY <1>7, <1>8
<1>10. neg => \E i \in DOMAIN Items(c) : ~Positive(Items(c)[i])
  BY RowsAreLines, LinesAsked
<1>. HIDE DEF neg, back
<1>. QED BY <1>2, <1>4, <1>5, <1>7, <1>9, <1>10, RowsAreLines, CallKept

LEMMA ShelfIs ==
    ASSUME OrderInv, StockInv, NEW c \in Calls
    PROVE  stock[Process(c)] \in [Skus -> Nat] /\ Len(Items(c)) \in 0 .. Len(Items(c))
BY RowsAreLines, LinesAsked

\* The refusal that a deduction ends in.
LEMMA RaisedKept ==
    ASSUME OrderInv, OrderInv', BreakerInv, StockInv, Fixed, NEW c \in Calls,
           at[c] = "running", Tool(c) = "create",
           NEW d, d = Deduction(stock[Process(c)], Items(c)), d.raised,
           Refuse(c, d.shelf, d.taken), UNCHANGED <<order, seen, rows>>
    PROVE  StockInv'
<1> DEFINE back == Restocked(d.shelf, Items(c), d.taken)
           inflated == \E i \in 1 .. d.taken : ~Positive(Items(c)[i])
<1>1. /\ d.taken \in 0 .. Len(Items(c)) /\ back \in [Skus -> Nat]
      /\ \A s \in Skus : back[s] + (IF inflated THEN Inflation(Items(c), s) ELSE 0) = stock[Process(c)][s]
  BY ShelfIs, RowsAreLines, DeductionRaised
<1>2. \A s : Debt(c, s) = 0
  BY Fresh, DebtNone DEF Inside, Midway
<1>3. \A s \in Skus : stock[Process(c)][s] = stock[Process(c)][s] + Debt(c, s)
  BY <1>2, ShelfIs
<1>4. \A s \in Skus : back[s] + (IF inflated THEN Inflation(Items(c), s) ELSE 0) = stock[Process(c)][s] + Debt(c, s)
  <2>. HIDE DEF back, inflated
  <2>. QED BY <1>1, <1>3
<1>. QED BY <1>1, <1>4, RefuseKept DEF Inside

\* A refusal of a create whose lines were all deducted, with d.shelf not yet in the stock
\* or with it there.
LEMMA AllBack ==
    ASSUME NEW items \in Lines, NEW shelf \in [Skus -> Nat], NEW left \in [Skus -> Nat],
           \A s \in Skus : left[s] = shelf[s] - Units(items, Len(items), s)
    PROVE  LET back == Restocked(left, items, Len(items))
               inflated == \E i \in 1 .. Len(items) : ~Positive(items[i])
           IN  back \in [Skus -> Nat] /\ ~inflated /\ \A s \in Skus : back[s] = shelf[s]
<1>1. items \in Asked /\ Len(items) \in 0 .. Len(items)
  BY RestockedLines, LinesAsked
<1>2. \A s \in Skus : Units(items, Len(items), s) \in Int
  BY <1>1, UnitsInt
<1>3. /\ Restocked(left, items, Len(items)) \in [Skus -> Nat]
      /\ \A s \in Skus : Restocked(left, items, Len(items))[s] = left[s] + Units(items, Len(items), s)
      /\ \A i \in 1 .. Len(items) : Positive(items[i])
  BY RestockedLines
<1>4. \A s \in Skus : left[s] \in Nat /\ shelf[s] \in Nat
  OBVIOUS
<1>. QED BY <1>2, <1>3, <1>4

LEMMA DeductKept ==
    ASSUME OrderInv, OrderInv', BreakerInv, StockInv, Fixed, NEW c \in Calls, Deduct(c)
    PROVE  StockInv'
<1> DEFINE p == Process(c)
           d == Deduction(stock[p], Items(c))
<1>1. /\ at[c] = "running" /\ Tool(c) = "create" /\ UNCHANGED <<order, seen, rows>>
      /\ \/ Leave(c, "error") /\ UNCHANGED <<stock, excuse>>
         \/ d.raised /\ Refuse(c, d.shelf, d.taken)
         \/ /\ ~d.raised
            /\ stock' = [stock EXCEPT ![p] = d.shelf] /\ at' = [at EXCEPT ![c] = "numbering"]
            /\ UNCHANGED <<answer, excuse>>
  BY DEF Deduct
<1>2. answer[c] = "none" /\ ~InDoubt(c) /\ ~Inflated(c) /\ ~Midway(c)
  BY <1>1, Fresh DEF Inside, Midway
<1>3. CASE Leave(c, "error") /\ UNCHANGED <<stock, excuse>>
  <2>1. /\ at'[c] \in {"recording", "end"} /\ answer'[c] = "error"
        /\ \A q \in Calls : q # c => at'[q] = at[q] /\ answer'[q] = answer[q]
    BY <1>3, LeaveAfter
  <2>2. /\ OthersSame(c) /\ Tells(c) /\ (Inflated(c)' <=> Inflated(c)) /\ (InDoubt(c)' <=> InDoubt(c))
        /\ ~Midway(c)'
    BY <1>1, <1>3, <2>1, TellsOne DEF OthersSame, Midway
  <2>. QED BY <1>1, <1>2, <1>3, <2>1, <2>2, DebtKept, RowsAreLines
<1>4. CASE d.raised /\ Refuse(c, d.shelf, d.taken)
  <2>. HIDE DEF d
  <2>. QED BY <1>1, <1>4, RaisedKept DEF d
<1>5. CASE /\ ~d.raised
           /\ stock' = [stock EXCEPT ![p] = d.shelf] /\ at' = [at EXCEPT ![c] = "numbering"]
           /\ UNCHANGED <<answer, excuse>>
  <2>1. /\ Items(c) \in Lines /\ d.shelf \in [Skus -> Nat]
        /\ \A s \in Skus : d.shelf[s] = stock[p][s] - Units(Items(c), Len(Items(c)), s)
    BY <1>5, ShelfIs, RowsAreLines, DeductionDone
  <2>2. /\ stock' \in [Processes -> [Skus -> Nat]] /\ stock'[p] = d.shelf
        /\ \A q \in Processes : q # p => stock'[q] = stock[q]
    <3>. HIDE DEF d
    <3>. QED BY <1>5, <2>1, RowsAreLines
  <2>3. at'[c] = "numbering" /\ OthersSame(c) /\ Midway(c)'
    BY <1>1, <1>5 DEF OthersSame, BreakerInv, ToolTypeOK, Midway
  <2>4. Tells(c) /\ (Inflated(c)' <=> Inflated(c)) /\ (InDoubt(c)' <=> InDoubt(c))
    BY <1>5, TellsOne
  <2>5. ASSUME NEW s \in Skus
        PROVE  stock'[p][s] + Debt(c, s)' = stock[p][s] + Debt(c, s)
    <3>1. Debt(c, s) = 0
      BY <1>2, DebtNone
    <3>2. Debt(c, s)' = Units(Items(c), Len(Items(c)), s)
      BY <1>1, <1>2, <2>3, <2>4, StoreMeans DEF Debt
    <3>3. Units(Items(c), Len(Items(c)), s) \in Int /\ stock[p][s] \in Nat
      BY ShelfIs, RowsAreLines, UnitsInt
    <3>. HIDE DEF d
    <3>. QED BY <2>1, <2>2, <3>1, <3>2, <3>3
  <2>. HIDE DEF d
  <2>. QED BY <1>1, <1>2, <2>1, <2>2, <2>3, <2>4, <2>5, CallKept, RowsAreLines
<1>. QED BY <1>1, <1>3, <1>4, <1>5

LEMMA InMemoryKept ==
    ASSUME OrderInv, OrderInv', BreakerInv, StockInv, Fixed, NEW c \in Calls, CreateInMemory(c)
    PROVE  StockInv'
<1> DEFINE p == Process(c)
           d == Deduction(stock[p], Items(c))
           new == Placed(c)
<1>1. /\ at[c] = "running" /\ Tool(c) = "create" /\ UNCHANGED seen
      /\ \/ Leave(c, "error") /\ UNCHANGED <<stock, order, rows, excuse>>
         \/ d.raised /\ Refuse(c, d.shelf, d.taken) /\ UNCHANGED <<order, rows>>
         \/ ~d.raised /\ Refuse(c, d.shelf, d.taken) /\ UNCHANGED <<order, rows>>
         \/ /\ ~d.raised
            /\ stock' = [stock EXCEPT ![p] = d.shelf]
            /\ order' = [order EXCEPT ![c] = new]
            /\ rows' = [rows EXCEPT ![p][counter[p] + 1] = new]
            /\ Leave(c, "ok") /\ UNCHANGED excuse
  BY DEF CreateInMemory
<1>2. answer[c] = "none" /\ ~InDoubt(c) /\ ~Inflated(c) /\ ~Midway(c)
  BY <1>1, Fresh DEF Inside, Midway
<1>3. CASE Leave(c, "error") /\ UNCHANGED <<stock, order, rows, excuse>>
  <2>1. /\ at'[c] \in {"recording", "end"} /\ answer'[c] = "error"
        /\ \A q \in Calls : q # c => at'[q] = at[q] /\ answer'[q] = answer[q]
    BY <1>3, LeaveAfter
  <2>2. /\ OthersSame(c) /\ Tells(c) /\ (Inflated(c)' <=> Inflated(c)) /\ (InDoubt(c)' <=> InDoubt(c))
        /\ ~Midway(c)'
    BY <1>1, <1>3, <2>1, TellsOne DEF OthersSame, Midway
  <2>. QED BY <1>1, <1>2, <1>3, <2>1, <2>2, DebtKept, RowsAreLines
<1>4. CASE d.raised /\ Refuse(c, d.shelf, d.taken) /\ UNCHANGED <<order, rows>>
  <2>. HIDE DEF d
  <2>. QED BY <1>1, <1>4, RaisedKept DEF d
<1>5. ASSUME ~d.raised
      PROVE  /\ Items(c) \in Lines /\ d.shelf \in [Skus -> Nat] /\ d.taken = Len(Items(c))
             /\ \A s \in Skus : d.shelf[s] = stock[p][s] - Units(Items(c), Len(Items(c)), s)
  <2>1. d.taken = Len(Items(c))
    BY <1>5 DEF Deduction
  <2>. HIDE DEF d
  <2>. QED BY <1>5, <2>1, ShelfIs, RowsAreLines, DeductionDone DEF d
<1>6. CASE ~d.raised /\ Refuse(c, d.shelf, d.taken) /\ UNCHANGED <<order, rows>>
  <2> DEFINE back == Restocked(d.shelf, Items(c), d.taken)
             inflated == \E i \in 1 .. d.taken : ~Positive(Items(c)[i])
  <2>1. back \in [Skus -> Nat] /\ ~inflated /\ \A s \in Skus : back[s] = stock[p][s]
    <3>. HIDE DEF d
    <3>1. stock[p] \in [Skus -> Nat] /\ d.taken = Len(Items(c))
      BY <1>5, <1>6, ShelfIs
    <3>2. LET b == Restocked(d.shelf, Items(c), Len(Items(c)))
              some == \E i \in 1 .. Len(Items(c)) : ~Positive(Items(c)[i])
          IN  b \in [Skus -> Nat] /\ ~some /\ \A s \in Skus : b[s] = stock[p][s]
      BY <1>5, <1>6, <3>1, AllBack
    <3>. QED BY <3>1, <3>2
  <2>2. \A s : Debt(c, s) = 0
    BY <1>2, DebtNone
  <2>3. \A s \in Skus : back[s] + (IF inflated THEN Inflation(Items(c), s) ELSE 0) = stock[p][s] + Debt(c, s)
    <3>. HIDE DEF back, inflated
    <3>. QED BY <2>1, <2>2
  <2>. HIDE DEF d
  <2>. QED BY <1>1, <1>5, <1>6, <2>1, <2>3, ShelfIs, RefuseKept DEF Inside
<1>7. CASE /\ ~d.raised
           /\ stock' = [stock EXCEPT ![p] = d.shelf]
           /\ order' = [order EXCEPT ![c] = new]
           /\ rows' = [rows EXCEPT ![p][counter[p] + 1] = new]
           /\ Leave(c, "ok") /\ UNCHANGED excuse
  <2>1. /\ at'[c] \in {"recording", "end"} /\ answer'[c] = "ok"
        /\ \A q \in Calls : q # c => at'[q] = at[q] /\ answer'[q] = answer[q]
    BY <1>7, LeaveAfter
  <2>2. /\ Tells(c) /\ (Inflated(c)' <=> Inflated(c)) /\ (InDoubt(c)' <=> InDoubt(c))
    BY <1>7, TellsOne
  <2>3. order'[c] = new /\ OthersSame(c) /\ new.lines = Items(c)
    BY <1>1, <1>7, <2>1 DEF OthersSame, OrderInv, OrderShape, Placed, OrderOf
  <2>4. /\ stock' \in [Processes -> [Skus -> Nat]] /\ stock'[p] = d.shelf
        /\ \A q \in Processes : q # p => stock'[q] = stock[q]
    <3>. HIDE DEF d
    <3>. QED BY <1>5, <1>7, RowsAreLines
  <2>5. ASSUME NEW s \in Skus
        PROVE  stock'[p][s] + Debt(c, s)' = stock[p][s] + Debt(c, s)
    <3>1. Debt(c, s) = 0
      BY <1>2, DebtNone
    <3>2. Debt(c, s)' = Units(Items(c), Len(Items(c)), s)
      BY <1>1, <1>2, <2>1, <2>2, StoreMeans DEF Debt
    <3>3. Units(Items(c), Len(Items(c)), s) \in Int /\ stock[p][s] \in Nat
      BY ShelfIs, RowsAreLines, UnitsInt
    <3>. HIDE DEF d
    <3>. QED BY <1>5, <1>7, <2>4, <3>1, <3>2, <3>3
  <2>6. \A x \in Stores, n \in Numbers : rows'[x][n] # Nothing => rows'[x][n].lines \in Lines
    <3>1. \A x \in Stores, n \in Numbers : rows'[x][n] = rows[x][n] \/ rows'[x][n] = new
      <4>. HIDE DEF new
      <4>. QED BY <1>7 DEF OrderInv, OrderShape
    <3>. HIDE DEF new, d
    <3>. QED BY <1>5, <1>7, <2>3, <3>1, RowsAreLines
  <2>. HIDE DEF d, new
  <2>. QED BY <1>1, <1>2, <1>5, <1>7, <2>1, <2>2, <2>3, <2>4, <2>5, <2>6, CallKept, RowsAreLines
<1>. QED BY <1>1, <1>3, <1>4, <1>6, <1>7

LEMMA NumberKept ==
    ASSUME OrderInv, OrderInv', BreakerInv, StockInv, Fixed, NEW c \in Calls, NEW o, NextOrderId(c, o)
    PROVE  StockInv'
<1> DEFINE p == Process(c)
<1>1. /\ at[c] = "numbering" /\ Tool(c) = "create" /\ UNCHANGED <<rows, seen>>
      /\ \/ Refuse(c, stock[p], Len(Items(c))) /\ UNCHANGED order
         \/ /\ order' = [order EXCEPT ![c] = Placed(c)] /\ at' = [at EXCEPT ![c] = "saving"]
            /\ (\E n : Excuse(<<"collision", n>>)) \/ excuse' = excuse
            /\ UNCHANGED <<stock, answer>>
  BY DEF NextOrderId, OrderInv, Stages
<1>2. answer[c] = "none" /\ ~InDoubt(c) /\ ~Inflated(c) /\ Midway(c) /\ Items(c) \in Lines
  BY <1>1, Fresh DEF Inside, Midway, StockInv, StockShape
<1>3. CASE Refuse(c, stock[p], Len(Items(c))) /\ UNCHANGED order
  <2>1. /\ Restocked(stock[p], Items(c), Len(Items(c))) \in [Skus -> Nat]
        /\ \A s \in Skus : Restocked(stock[p], Items(c), Len(Items(c)))[s]
                           = stock[p][s] + Units(Items(c), Len(Items(c)), s)
        /\ ~\E i \in 1 .. Len(Items(c)) : ~Positive(Items(c)[i])
    BY <1>2, ShelfIs, RestockedLines
  <2>2. \A s : Debt(c, s) = Units(Items(c), Len(Items(c)), s)
    BY <1>1, <1>2, DebtCreate
  <2>3. \A s \in Skus : Restocked(stock[p], Items(c), Len(Items(c)))[s] \in Nat
    BY <2>1
  <2>4. \A s \in Skus : Restocked(stock[p], Items(c), Len(Items(c)))[s] +
                           (IF \E i \in 1 .. Len(Items(c)) : ~Positive(Items(c)[i])
                            THEN Inflation(Items(c), s) ELSE 0)
                        = stock[p][s] + Debt(c, s)
    BY <2>1, <2>2, <2>3
  <2>. QED BY <1>1, <1>3, <2>1, <2>4, ShelfIs, RefuseKept DEF Inside
<1>4. CASE /\ order' = [order EXCEPT ![c] = Placed(c)] /\ at' = [at EXCEPT ![c] = "saving"]
           /\ (\E n : Excuse(<<"collision", n>>)) \/ excuse' = excuse
           /\ UNCHANGED <<stock, answer>>
  <2>1. Tells(c) /\ (Inflated(c)' <=> Inflated(c)) /\ (InDoubt(c)' <=> InDoubt(c))
    BY <1>4, TellsOne
  <2>2. /\ at'[c] = "saving" /\ OthersSame(c) /\ order'[c] = Placed(c) /\ Placed(c).lines = Items(c)
        /\ Midway(c)'
    BY <1>1, <1>4 DEF OthersSame, BreakerInv, ToolTypeOK, Midway, OrderInv, OrderShape, Placed, OrderOf
  <2>3. ASSUME NEW s \in Skus
        PROVE  Debt(c, s)' = Debt(c, s)
    <3>1. Debt(c, s) = Units(Items(c), Len(Items(c)), s)
      BY <1>1, <1>2, DebtCreate
    <3>2. Debt(c, s)' = Units(Items(c), Len(Items(c)), s)
      BY <1>1, <1>2, <2>1, <2>2, StoreMeans DEF Debt
    <3>. QED BY <3>1, <3>2
  <2>4. \A s \in Skus : stock'[p][s] + Debt(c, s)' = stock[p][s] + Debt(c, s)
    BY <1>4, <2>3
  <2>. QED BY <1>1, <1>2, <1>4, <2>1, <2>2, <2>4, CallKept, RowsAreLines
<1>. QED BY <1>1, <1>3, <1>4

LEMMA SavedLines ==
    ASSUME OrderInv, StockInv, NEW c \in Calls, order[c] # Nothing
    PROVE  \A x \in Stores, n \in Numbers : Saved(c)[x][n] # Nothing => Saved(c)[x][n].lines \in Lines
<1> DEFINE new(r) == Written(r, seen[c], order[c])
           k == NumberOf(c)
<1>1. \A r : new(r).lines = order[c].lines
  BY DEF Written
<1>2. \A x \in Stores, n \in Numbers : Saved(c)[x][n] = rows[x][n] \/ Saved(c)[x][n] = new(rows["db"][k])
  <2>. HIDE DEF new
  <2>1. Saved(c) = [rows EXCEPT !["db"][k] = new(rows["db"][k])]
    BY DEF Saved, new, OrderInv, OrderShape, Stores
  <2>. HIDE DEF k
  <2>. QED BY <2>1 DEF OrderInv, OrderShape
<1>. HIDE DEF new, k
<1>. QED BY <1>1, <1>2, RowsAreLines

\* From the deduction to the end of the save: what a call has taken is settled, whether
\* the save succeeds, fails or is cut off.
LEMMA SettledKept ==
    ASSUME OrderInv, OrderInv', BreakerInv, StockInv, Fixed, NEW c \in Calls, Midway(c),
           UNCHANGED <<stock, order>>,
           \/ at' = [at EXCEPT ![c] = "writing"] /\ UNCHANGED <<answer, excuse>>
           \/ Leave(c, "ok") /\ UNCHANGED excuse
           \/ Leave(c, "error") /\ (Excuse(<<"unsaved", c>>) \/ Excuse(<<"doubt", c>>)),
           \/ rows' = rows
           \/ order[c] # Nothing /\ rows' = Saved(c),
           \/ seen' = seen
           \/ \E x \in Stores, n \in Numbers : seen' = [seen EXCEPT ![c] = rows[x][n]]
    PROVE  StockInv'
<1>1. answer[c] = "none" /\ ~InDoubt(c) /\ ~Inflated(c)
  BY Fresh DEF Inside, Midway
<1>2. Tells(c) /\ (Inflated(c)' <=> Inflated(c))
  BY TellsOne
<1>3. OthersSame(c) /\ at'[c] # "numbering" /\ (Midway(c)' \/ answer'[c] = "ok" \/ InDoubt(c)')
  <2>1. CASE at' = [at EXCEPT ![c] = "writing"] /\ UNCHANGED <<answer, excuse>>
    BY <2>1 DEF OthersSame, BreakerInv, ToolTypeOK, Midway, OrderInv, OrderShape
  <2>2. CASE \E v \in {"ok", "error"} : Leave(c, v) /\ (v = "ok" \/ InDoubt(c)')
    BY <2>2, LeaveAfter DEF OthersSame, OrderInv, OrderShape
  <2>3. Excuse(<<"unsaved", c>>) \/ Excuse(<<"doubt", c>>) => InDoubt(c)'
    BY TellsOne
  <2>. QED BY <2>1, <2>2, <2>3
<1>4. \A x \in Stores, n \in Numbers : rows'[x][n] # Nothing => rows'[x][n].lines \in Lines
  BY SavedLines, RowsAreLines
<1>5. seen'[c] # Nothing => seen'[c].lines \in Lines
  BY RowsAreLines DEF OrderInv, OrderShape
<1>6. Tool(c) = "cancel" => order[c] # Nothing
  BY DEF Midway, OrderInv, Stages, Half
<1>7. order'[c] = order[c]
  OBVIOUS
<1>. QED BY <1>1, <1>2, <1>3, <1>4, <1>5, <1>6, <1>7, DebtKept

LEMMA FoundNew ==
    ASSUME OrderInv, NEW c \in Calls, FindById(c) # Nothing
    PROVE  Cancelled(FindById(c)) # Nothing
<1>1. Store(c) \in Stores /\ ask[c].target \in Numbers
  BY DEF Store, Stores, OrderInv, OrderShape
<1>2. FindById(c) \in Order
  BY <1>1 DEF FindById, OrderInv, OrderShape
<1>. QED BY <1>2, OrderFields, OrderOfIsOrder DEF Cancelled

\* A cancellation gives the lines of the row back, once.
LEMMA CancelStockKept ==
    ASSUME OrderInv, OrderInv', BreakerInv, StockInv, Fixed, NEW c \in Calls, NEW o, Cancel(c, o)
    PROVE  StockInv'
<1> DEFINE p == Process(c)
           row == FindById(c)
           new == Cancelled(row)
<1>1. /\ at[c] = "running" /\ Tool(c) = "cancel" /\ UNCHANGED seen
      /\ \/ Leave(c, "error") /\ UNCHANGED <<stock, order, rows, excuse>>
         \/ /\ row # Nothing
            /\ stock' = [stock EXCEPT ![p] = Restocked(@, row.lines, Len(row.lines))]
            /\ order' = [order EXCEPT ![c] = new]
            /\ (\E n : Excuse(<<"twice", n>>)) \/ excuse' = excuse
            /\ \/ at' = [at EXCEPT ![c] = "saving"] /\ UNCHANGED <<answer, rows>>
               \/ rows' = [rows EXCEPT ![p][ask[c].target] = new] /\ Leave(c, "ok")
  BY DEF Cancel, Cancellable
<1>2. answer[c] = "none" /\ ~InDoubt(c) /\ ~Inflated(c) /\ ~Midway(c)
  BY <1>1, Fresh DEF Inside, Midway
<1>3. CASE Leave(c, "error") /\ UNCHANGED <<stock, order, rows, excuse>>
  <2>1. /\ at'[c] \in {"recording", "end"} /\ answer'[c] = "error"
        /\ \A q \in Calls : q # c => at'[q] = at[q] /\ answer'[q] = answer[q]
    BY <1>3, LeaveAfter
  <2>2. /\ OthersSame(c) /\ Tells(c) /\ (Inflated(c)' <=> Inflated(c)) /\ (InDoubt(c)' <=> InDoubt(c))
        /\ ~Midway(c)'
    BY <1>1, <1>3, <2>1, TellsOne DEF OthersSame, Midway
  <2>. QED BY <1>1, <1>2, <1>3, <2>1, <2>2, DebtKept, RowsAreLines
<1>4. CASE /\ row # Nothing
           /\ stock' = [stock EXCEPT ![p] = Restocked(@, row.lines, Len(row.lines))]
           /\ order' = [order EXCEPT ![c] = new]
           /\ (\E n : Excuse(<<"twice", n>>)) \/ excuse' = excuse
           /\ \/ at' = [at EXCEPT ![c] = "saving"] /\ UNCHANGED <<answer, rows>>
              \/ rows' = [rows EXCEPT ![p][ask[c].target] = new] /\ Leave(c, "ok")
  <2>1. Store(c) \in Stores /\ row.lines \in Lines /\ new.lines = row.lines /\ new # Nothing
    BY <1>4, RowsAreLines, FoundNew DEF Store, Stores, FindById, Cancelled, OrderOf
  <2>. HIDE DEF row
  <2>2. /\ Restocked(stock[p], row.lines, Len(row.lines)) \in [Skus -> Nat]
        /\ \A s \in Skus : Restocked(stock[p], row.lines, Len(row.lines))[s]
                           = stock[p][s] + Units(row.lines, Len(row.lines), s)
        /\ \A s : Units(row.lines, Len(row.lines), s) \in Int
    BY <2>1, ShelfIs, RestockedLines, LinesAsked, UnitsInt
  <2> DEFINE back == Restocked(stock[p], row.lines, Len(row.lines))
  <2>3. stock' = [stock EXCEPT ![p] = back]
    BY <1>4
  <2>4. /\ stock' \in [Processes -> [Skus -> Nat]] /\ stock'[p] = back
        /\ \A q \in Processes : q # p => stock'[q] = stock[q]
    <3>. HIDE DEF back
    <3>1. back \in [Skus -> Nat]
      BY <2>2 DEF back
    <3>. QED BY <2>3, <3>1, RowsAreLines
  <2>5. Tells(c) /\ (Inflated(c)' <=> Inflated(c)) /\ (InDoubt(c)' <=> InDoubt(c))
    BY <1>4, TellsOne
  <2>6. /\ order'[c] = new
        /\ \A d \in Calls : d # c => order'[d] = order[d]
    BY <1>4 DEF OrderInv, OrderShape
  <2>7. OthersSame(c) /\ at'[c] # "numbering" /\ (Midway(c)' \/ answer'[c] = "ok")
    <3>1. CASE at' = [at EXCEPT ![c] = "saving"] /\ UNCHANGED <<answer, rows>>
      BY <1>1, <2>6, <3>1 DEF OthersSame, BreakerInv, ToolTypeOK, Midway
    <3>2. CASE Leave(c, "ok")
      BY <1>1, <2>6, <3>2, LeaveAfter DEF OthersSame
    <3>. QED BY <1>4, <3>1, <3>2
  <2>8. ASSUME NEW s \in Skus
        PROVE  stock'[p][s] + Debt(c, s)' = stock[p][s] + Debt(c, s)
    <3>1. Debt(c, s) = 0
      BY <1>2, DebtNone
    <3>2. Debt(c, s)' = 0 - Units(new.lines, Len(new.lines), s)
      <4>. HIDE DEF new
      <4>. QED BY <1>1, <1>2, <2>5, <2>6, <2>7, StoreMeans DEF Debt
    <3>3. Units(row.lines, Len(row.lines), s) \in Int /\ stock[p][s] \in Nat
      BY <2>2, ShelfIs
    <3>4. stock'[p][s] = stock[p][s] + Units(row.lines, Len(row.lines), s)
      BY <2>2, <2>4
    <3>. HIDE DEF new
    <3>. QED BY <2>1, <3>1, <3>2, <3>3, <3>4
  <2>9. \A x \in Stores, n \in Numbers : rows'[x][n] # Nothing => rows'[x][n].lines \in Lines
    <3>1. \A x \in Stores, n \in Numbers : rows'[x][n] = rows[x][n] \/ rows'[x][n] = new
      <4>. HIDE DEF new
      <4>1. rows \in [Stores -> [Numbers -> Order \cup {Nothing}]]
        BY DEF OrderInv, OrderShape
      <4>2. CASE rows' = rows
        BY <4>2
      <4>3. CASE rows' = [rows EXCEPT ![p][ask[c].target] = new]
        BY <4>1, <4>3
      <4>. QED BY <1>4, <4>2, <4>3
    <3>. HIDE DEF new
    <3>. QED BY <2>1, <3>1, RowsAreLines
  <2>. HIDE DEF new, back
  <2>. QED BY <1>1, <1>2, <2>1, <2>4, <2>5, <2>6, <2>7, <2>8, <2>9, CallKept, RowsAreLines
<1>. QED BY <1>1, <1>3, <1>4

LEMMA MiddlewareStock ==
    ASSUME OrderInv, OrderInv', BreakerInv, StockInv, Fixed, NEW c \in Calls, Middleware(c)
    PROVE  StockInv'
<1>. at \in [Calls -> Steps] /\ answer \in [Calls -> {"none", "ok", "error", "refused", "lost"}]
  BY DEF BreakerInv, ToolTypeOK
<1>1. UNCHANGED <<stock, rows, counter, number, order, seen, excuse>>
  BY DEF Middleware, dataVars
<1>8. /\ \A d \in Calls : d # c => at'[d] = at[d] /\ answer'[d] = answer[d]
      /\ \/ at[c] = "idle" /\ at'[c] \in {"marking", "running"} /\ answer'[c] = answer[c]
         \/ at[c] = "idle" /\ at'[c] = "end" /\ answer'[c] = "refused"
         \/ at[c] = "marking" /\ at'[c] = "running" /\ answer'[c] = answer[c]
         \/ at[c] = "recording" /\ answer[c] = "ok" /\ at'[c] = "end" /\ answer'[c] = "ok"
         \/ at[c] = "recording" /\ answer[c] = "error" /\ at'[c] = "counting" /\ answer'[c] = "error"
         \/ at[c] = "counting" /\ at'[c] = "end" /\ answer'[c] = "error"
  BY DEF Middleware, Enter, Admit, Mark, RecordSuccess, LoadFailure, SaveFailure, End
<1>9. at[c] = "counting" => answer[c] = "error"
  BY DEF OrderInv, Stages
<1>2. /\ \A d \in Calls : d # c => at'[d] = at[d] /\ answer'[d] = answer[d]
      /\ ~Midway(c) /\ ~Midway(c)'
      /\ answer'[c] = answer[c] \/ (at[c] = "idle" /\ answer'[c] = "refused")
  BY <1>8, <1>9 DEF Midway
<1>3. at[c] = "idle" => answer[c] = "none" /\ ~Inflated(c)
  BY DEF OrderInv, Stages, Done, StockInv, StockShape
<1>4. /\ Tells(c) /\ (Inflated(c)' <=> Inflated(c)) /\ (InDoubt(c)' <=> InDoubt(c))
      /\ OthersSame(c)
  BY <1>1, <1>2, TellsOne DEF OthersSame
<1>5. /\ Inflated(c) => ~InDoubt(c) /\ answer[c] \in {"error", "lost"}
      /\ Tool(c) = "cancel" /\ InDoubt(c) => order[c] # Nothing
  BY DEF StockInv, StockShape
<1>6. at'[c] # "numbering"
  BY <1>2 DEF Midway
<1>7. (Midway(c)' \/ (answer[c] = "ok")' \/ InDoubt(c)') <=> (Midway(c) \/ answer[c] = "ok" \/ InDoubt(c))
  BY <1>2, <1>3, <1>4
<1>. QED BY <1>1, <1>2, <1>3, <1>4, <1>5, <1>6, <1>7, DebtKept, RowsAreLines

LEMMA OtherToolKept ==
    ASSUME OrderInv, OrderInv', BreakerInv, StockInv, Fixed, NEW c \in Calls,
           at[c] \in Inside, ~Midway(c), NEW v \in {"ok", "error"}, Leave(c, v),
           v = "ok" => Tool(c) \notin {"create", "cancel"},
           UNCHANGED <<stock, rows, order, seen, excuse>>
    PROVE  StockInv'
<1>1. answer[c] = "none" /\ ~InDoubt(c) /\ ~Inflated(c)
  BY Fresh
<1>2. /\ at'[c] \in {"recording", "end"} /\ answer'[c] = v
      /\ \A q \in Calls : q # c => at'[q] = at[q] /\ answer'[q] = answer[q]
  BY LeaveAfter
<1>3. /\ Tells(c) /\ (Inflated(c)' <=> Inflated(c)) /\ (InDoubt(c)' <=> InDoubt(c)) /\ OthersSame(c)
      /\ ~Midway(c)'
  BY <1>2, TellsOne DEF OthersSame, Midway
<1>4. \A s \in Skus : Debt(c, s) = 0 /\ Debt(c, s)' = 0
  BY <1>1, <1>2, <1>3, StoreMeans, DebtNone DEF Debt
<1>5. \A s \in Skus : stock'[Process(c)][s] + Debt(c, s)' = stock[Process(c)][s] + Debt(c, s)
  BY <1>4
<1>. QED BY <1>1, <1>2, <1>3, <1>5, CallKept, RowsAreLines

LEMMA CrashStock ==
    ASSUME OrderInv, OrderInv', BreakerInv, StockInv, Fixed, NEW p \in Processes, Crash(p)
    PROVE  StockInv'
<1> DEFINE open == {d \in Calls : Process(d) = p /\ at[d] \notin {"idle", "end"}}
<1>1. /\ at' = [d \in Calls |-> IF d \in open THEN "end" ELSE at[d]]
      /\ answer' = [d \in Calls |-> IF d \in open THEN "lost" ELSE answer[d]]
      /\ stock' = [stock EXCEPT ![p] = InitialStock]
      /\ rows' = [rows EXCEPT ![p] = [n \in Numbers |-> Nothing]]
      /\ excuse' = excuse \cup {<<"restarted", p>>} /\ UNCHANGED <<order, seen>>
  BY DEF Crash, Excuse
<1>2. /\ \A d : (InDoubt(d)' <=> InDoubt(d)) /\ (Inflated(d)' <=> Inflated(d))
      /\ \A q : Restarted(q) => Restarted(q)'
      /\ Restarted(p)'
  BY <1>1, DoubtMeans, DoubtMeansNext DEF Inflated, Restarted
<1>3. \A d \in Calls : /\ at'[d] \in {at[d], "end"} /\ answer'[d] \in {answer[d], "lost"}
                       /\ Process(d) # p => at'[d] = at[d] /\ answer'[d] = answer[d]
  BY <1>1
<1>4. /\ stock' \in [Processes -> [Skus -> Nat]]
      /\ \A q \in Processes : q # p => stock'[q] = stock[q]
  BY <1>1, OrdersAssumption DEF StockInv, StockShape
<1>5. \A x \in Stores, n \in Numbers : rows'[x][n] # Nothing => rows'[x][n].lines \in Lines
  <2>1. \A x \in Stores, n \in Numbers : rows'[x][n] = rows[x][n] \/ rows'[x][n] = Nothing
    BY <1>1 DEF OrderInv, OrderShape
  <2>. QED BY <2>1 DEF StockInv, StockShape
<1>6. StockShape'
  <2>1. ASSUME NEW d \in Calls
        PROVE  /\ order'[d] # Nothing => order'[d].lines \in Lines
               /\ seen'[d] # Nothing => seen'[d].lines \in Lines
               /\ at'[d] = "numbering" => Items(d) \in Lines
               /\ Inflated(d)' => /\ Tool(d) = "create" /\ ~InDoubt(d)'
                                  /\ answer'[d] \in {"error", "lost"}
                                  /\ \E i \in DOMAIN Items(d) : ~Positive(Items(d)[i])
               /\ Tool(d) = "cancel" /\ InDoubt(d)' => order'[d] # Nothing
    BY <1>1, <1>2, <1>3 DEF StockInv, StockShape
  <2>. QED BY <1>4, <1>5, <2>1, StoreMeans DEF StockShape
<1>7. ASSUME NEW q \in Processes, NEW s \in Skus, ~Restarted(q)'
      PROVE  stock'[q][s] = InitialStock[s] -
                 SumFunctionOnSet([d \in Calls |-> Debt(d, s)'], {d \in Calls : Process(d) = q})
  <2> DEFINE w == [d \in Calls |-> Debt(d, s)]
             v == [d \in Calls |-> Debt(d, s)']
             S == {d \in Calls : Process(d) = q}
  <2>1. q # p
    BY <1>2, <1>7
  <2>2. \A d \in S : v[d] = w[d]
    <3>1. ASSUME NEW d \in S
          PROVE  \A r : Debt(d, r)' = Debt(d, r)
      BY <1>1, <1>2, <1>3, <2>1, DebtSame DEF Midway
    <3>. QED BY <3>1
  <2>3. IsFiniteSet(S) /\ Weights(w, S)
    BY OrdersAssumption, FS_Subset, DebtInt DEF StockInv, Weights
  <2>4. SumFunctionOnSet(v, S) = SumFunctionOnSet(w, S)
    <3>. HIDE DEF w, v, S
    <3>. QED BY <2>2, <2>3, SumSame
  <2>5. stock[q][s] = InitialStock[s] - SumFunctionOnSet(w, S)
    BY <1>2, <1>7 DEF StockInv, StockBalanced
  <2>. QED BY <1>4, <2>1, <2>4, <2>5
<1>8. StockBalanced'
  BY <1>7, FixedMeans DEF StockBalanced
<1>. QED BY <1>6, <1>8 DEF StockInv

LEMMA BodyStock ==
    ASSUME OrderInv, OrderInv', BreakerInv, StockInv, Fixed, NEW c \in Calls, Body(c)
    PROVE  StockInv'
<1>1. CASE Deduct(c)
  BY <1>1, DeductKept
<1>2. CASE CreateInMemory(c)
  BY <1>2, InMemoryKept
<1>3. CASE Search(c)
  <2>1. /\ at[c] = "running" /\ Tool(c) = "search" /\ UNCHANGED <<stock, rows, order, seen, excuse>>
        /\ Leave(c, "ok") \/ Leave(c, "error")
    BY <1>3 DEF Search
  <2>. QED BY <2>1, OtherToolKept DEF Inside, Midway
<1>4. CASE TimeOut(c)
  <2>1. /\ Leave(c, "error") /\ UNCHANGED <<stock, order, seen>>
        /\ \/ at[c] = "running" /\ UNCHANGED <<rows, excuse>>
           \/ Midway(c) /\ UNCHANGED rows /\ Excuse(<<"unsaved", c>>)
           \/ at[c] = "writing" /\ rows' = Saved(c) /\ Excuse(<<"doubt", c>>)
    BY <1>4 DEF TimeOut, Suspended, Midway
  <2>2. CASE at[c] = "running" /\ UNCHANGED <<rows, excuse>>
    BY <2>1, <2>2, OtherToolKept DEF Inside, Midway
  <2>3. CASE Midway(c) /\ UNCHANGED rows /\ Excuse(<<"unsaved", c>>)
    BY <2>1, <2>3, SettledKept
  <2>4. CASE at[c] = "writing" /\ rows' = Saved(c) /\ Excuse(<<"doubt", c>>)
    <3>1. Midway(c) /\ order[c] # Nothing
      BY <2>4 DEF Midway, OrderInv, Stages, Half
    <3>. QED BY <2>1, <2>4, <3>1, SettledKept
  <2>. QED BY <2>1, <2>2, <2>3, <2>4
<1>5. ASSUME NEW o \in Outcomes, NextOrderId(c, o)
      PROVE  StockInv'
  BY <1>5, NumberKept
<1>6. ASSUME NEW o \in Outcomes, Merge(c, o)
      PROVE  StockInv'
  <2>1. NumberOf(c) \in Numbers /\ "db" \in Stores
    BY <1>6 DEF Merge, OrderInv, OrderShape, Stages, Half, NumberOf, Stores
  <2>2. /\ Midway(c) /\ UNCHANGED <<stock, rows, order>>
        /\ \/ /\ seen' = [seen EXCEPT ![c] = rows["db"][NumberOf(c)]]
              /\ at' = [at EXCEPT ![c] = "writing"] /\ UNCHANGED <<answer, excuse>>
           \/ Leave(c, "error") /\ Excuse(<<"unsaved", c>>) /\ UNCHANGED seen
    BY <1>6 DEF Merge, Midway
  <2>. QED BY <2>1, <2>2, SettledKept
<1>7. ASSUME NEW o \in Outcomes, Commit(c, o)
      PROVE  StockInv'
  <2>1. at[c] = "writing" /\ Midway(c) /\ order[c] # Nothing
    BY <1>7 DEF Commit, Midway, OrderInv, Stages, Half
  <2>2. /\ UNCHANGED <<stock, order, seen>>
        /\ rows' = rows \/ rows' = Saved(c)
        /\ \/ Leave(c, "ok") /\ UNCHANGED excuse
           \/ Leave(c, "error") /\ (Excuse(<<"unsaved", c>>) \/ Excuse(<<"doubt", c>>))
    BY <1>7 DEF Commit, Outcomes, Ok
  <2>. QED BY <2>1, <2>2, SettledKept
<1>8. ASSUME NEW o \in Outcomes, Cancel(c, o)
      PROVE  StockInv'
  BY <1>8, CancelStockKept
<1>9. ASSUME NEW o \in Outcomes, Query(c, o)
      PROVE  StockInv'
  <2>1. /\ at[c] = "running" /\ Tool(c) = "query" /\ UNCHANGED <<stock, rows, order, seen, excuse>>
        /\ Leave(c, "ok") \/ Leave(c, "error")
    BY <1>9 DEF Query, dataVars
  <2>. QED BY <2>1, OtherToolKept DEF Inside, Midway
<1>. QED BY <1>1, <1>2, <1>3, <1>4, <1>5, <1>6, <1>7, <1>8, <1>9 DEF Body

LEMMA StockStart == Init => StockInv
<1>. SUFFICES ASSUME Init PROVE StockInv
  OBVIOUS
<1>1. OrderInv
  BY OrderStart
<1>2. PICK case \in Cases :
         rows = [x \in Stores |-> IF x = "db" THEN case.rows ELSE [n \in Numbers |-> Nothing]]
  BY DEF Init
<1>3. case.rows \in [Numbers -> {r \in Order : r.by = Before /\ r.lines \in Lines} \cup {Nothing}]
  BY CasesAssumption
<1>4. /\ at = [c \in Calls |-> "idle"] /\ answer = [c \in Calls |-> "none"]
      /\ order = [c \in Calls |-> Nothing] /\ seen = [c \in Calls |-> Nothing]
      /\ stock = [p \in Processes |-> InitialStock] /\ excuse = {}
  BY DEF Init, ToolInit
<1>5. \A c \in Calls : ~Midway(c) /\ ~InDoubt(c) /\ ~Inflated(c) /\ answer[c] = "none"
  BY <1>4, DoubtMeans DEF Midway, Inflated
<1>6. StockShape
  <2>1. \A x \in Stores, n \in Numbers : rows[x][n] # Nothing => rows[x][n].lines \in Lines
    <3>. TAKE x \in Stores, n \in Numbers
    <3>1. rows[x][n] = Nothing \/ rows[x][n] = case.rows[n]
      BY <1>2
    <3>. QED BY <1>3, <3>1
  <2>. QED BY <1>4, <1>5, <2>1, OrdersAssumption DEF StockShape
<1>7. StockBalanced
  <2>. SUFFICES ASSUME NEW p \in Processes, NEW s \in Skus
                PROVE  stock[p][s] = InitialStock[s] -
                           SumFunctionOnSet([c \in Calls |-> Debt(c, s)], {c \in Calls : Process(c) = p})
    BY DEF StockBalanced
  <2> DEFINE w == [c \in Calls |-> Debt(c, s)]
             S == {c \in Calls : Process(c) = p}
  <2>1. \A c \in S : w[c] = 0
    BY <1>5, DebtNone
  <2>2. IsFiniteSet(S)
    BY OrdersAssumption, FS_Subset
  <2>3. SumFunctionOnSet(w, S) = 0
    <3>. HIDE DEF w, S
    <3>. QED BY <2>1, <2>2, SumZero
  <2>4. stock[p][s] = InitialStock[s] /\ InitialStock[s] \in Nat
    BY <1>4, OrdersAssumption
  <2>. HIDE DEF w, S
  <2>5. stock[p][s] = InitialStock[s] - SumFunctionOnSet(w, S)
    BY <2>3, <2>4
  <2>. QED BY <2>5 DEF w, S
<1>. QED BY <1>6, <1>7 DEF StockInv

LEMMA StockStep == OrderInv /\ OrderInv' /\ BreakerInv /\ StockInv /\ [Next]_vars => StockInv'
<1>. SUFFICES ASSUME OrderInv, OrderInv', BreakerInv, StockInv, [Next]_vars PROVE StockInv'
  OBVIOUS
<1>1. CASE UNCHANGED <<setup, ask, at, answer, stock, rows, order, seen, excuse>>
  <2>1. Fixed /\ (\A d : InDoubt(d)' <=> InDoubt(d)) /\ (\A d : Inflated(d)' <=> Inflated(d))
    BY <1>1 DEF Fixed, InDoubt, Inflated
  <2>2. StockShape'
    BY <1>1, <2>1, StoreMeans DEF StockInv, StockShape
  <2>3. \A d \in Calls : \A s : Debt(d, s)' = Debt(d, s)
    BY <1>1, <2>1, DebtSame DEF Midway
  <2>4. \A s : [d \in Calls |-> Debt(d, s)'] = [d \in Calls |-> Debt(d, s)]
    BY <2>3
  <2>5. \A q : Restarted(q)' <=> Restarted(q)
    BY <1>1 DEF Restarted
  <2>6. StockBalanced'
    <3>. SUFFICES ASSUME NEW p \in Processes, NEW s \in Skus, ~Restarted(p)'
                  PROVE  stock'[p][s] = InitialStock[s] -
                             SumFunctionOnSet([d \in Calls |-> Debt(d, s)'], {d \in Calls : Process(d) = p})
      BY <2>1, FixedMeans DEF StockBalanced
    <3>. QED BY <1>1, <2>4, <2>5 DEF StockInv, StockBalanced
  <2>. QED BY <2>2, <2>6 DEF StockInv
<1>2. CASE Next
  <2>1. Fixed
    BY <1>2 DEF Next, Fixed
  <2>2. ASSUME NEW c \in Calls, Middleware(c)
        PROVE  StockInv'
    BY <2>1, <2>2, MiddlewareStock
  <2>3. ASSUME NEW c \in Calls, Body(c)
        PROVE  StockInv'
    BY <2>1, <2>3, BodyStock
  <2>4. ASSUME NEW p \in Processes, Crash(p)
        PROVE  StockInv'
    BY <2>1, <2>4, CrashStock
  <2>5. CASE Tick /\ UNCHANGED dataVars
    BY <1>1, <2>1, <2>5 DEF Tick, dataVars, Fixed
  <2>. QED BY <1>2, <2>2, <2>3, <2>4, <2>5 DEF Next
<1>. QED BY <1>1, <1>2 DEF vars, toolVars, dataVars

LEMMA StockSafe == Spec => []StockInv
BY StockStart, StockStep, OrderSafe, BreakerSafe, PTL DEF Spec

\* The stock of a process is what its answers say: a create that fails at any line or
\* await gives every line back (order_usecases.py:60), a cancellation gives back what the
\* order took (:91), and what is missing beside that is told apart call by call; for
\* orders of any length, any number of calls and any stock.
THEOREM StockSafety == Spec => []StockMatchesAnswers
<1>1. OrderInv /\ StockInv => StockMatchesAnswers
  <2>. SUFFICES ASSUME OrderInv, StockInv, NEW p \in Processes, NEW s \in Skus,
                       AtRest(p), ~Restarted(p)
                PROVE  stock[p][s] = InitialStock[s] -
                           SumFunctionOnSet([c \in Calls |-> Taken(c, s)], {c \in Calls : Process(c) = p})
    BY DEF StockMatchesAnswers
  <2> DEFINE w == [c \in Calls |-> Debt(c, s)]
             v == [c \in Calls |-> Taken(c, s)]
             S == {c \in Calls : Process(c) = p}
  <2>1. \A c \in S : w[c] = v[c]
    <3>1. \A c \in S : ~Midway(c)
      BY DEF AtRest, Midway
    <3>2. \A c \in S : Debt(c, s) = Taken(c, s)
      BY <3>1 DEF Debt, Taken, Inflated
    <3>. QED BY <3>2
  <2>2. IsFiniteSet(S) /\ Weights(w, S)
    BY OrdersAssumption, FS_Subset, DebtInt DEF StockInv, Weights
  <2>3. SumFunctionOnSet(v, S) = SumFunctionOnSet(w, S)
    <3>. HIDE DEF w, v, S
    <3>. QED BY <2>1, <2>2, SumSame
  <2>4. stock[p][s] = InitialStock[s] - SumFunctionOnSet(w, S)
    BY DEF StockInv, StockBalanced
  <2>. QED BY <2>3, <2>4
<1>. QED BY <1>1, OrderSafe, StockSafe, PTL

-----------------------------------------------------------------------------
(* Types.                                                                    *)
Excuses == ({"inflated", "unsaved", "doubt"} \X Calls)
           \cup ({"collision", "twice"} \X Numbers) \cup ({"restarted"} \X Processes)

Told ==
    /\ setup \in [breaker : {"local", "shared"}, storage : {"sql", "file"}]
    /\ luck \in Nat /\ excuse \subseteq Excuses

LEMMA LuckAfter == ASSUME luck \in Nat, Next PROVE luck' \in Nat
<1>1. luck' = luck \/ Mishap => luck' \in Nat
  BY DEF Mishap
<1>2. \A o : Call(o) => luck' = luck \/ Mishap
  BY DEF Call
<1>3. ASSUME NEW c \in Calls, Middleware(c)
      PROVE  luck' = luck \/ Mishap
  BY <1>2, <1>3 DEF Middleware, Enter, Admit, Mark, RecordSuccess, LoadFailure, SaveFailure
<1>4. ASSUME NEW c \in Calls, Body(c)
      PROVE  luck' = luck \/ Mishap
  BY <1>2, <1>4 DEF Body, Deduct, CreateInMemory, Search, TimeOut, NextOrderId, Merge, Commit, Cancel, Query
<1>5. ASSUME NEW p \in Processes, Crash(p)
      PROVE  luck' = luck \/ Mishap
  BY <1>5 DEF Crash
<1>6. Tick => luck' = luck
  BY DEF Tick
<1>. QED BY <1>1, <1>3, <1>4, <1>5, <1>6 DEF Next

LEMMA ExcuseNext ==
    ASSUME OrderInv, Next
    PROVE  excuse' = excuse \/ \E e \in Excuses : Excuse(e)
<1>1. ASSUME NEW c \in Calls, Middleware(c)
      PROVE  excuse' = excuse
  BY <1>1 DEF Middleware, dataVars
<1>2. ASSUME NEW p \in Processes, Crash(p)
      PROVE  \E e \in Excuses : Excuse(e)
  BY <1>2 DEF Crash, Excuses
<1>3. Tick /\ UNCHANGED dataVars => excuse' = excuse
  BY DEF dataVars
<1>4. ASSUME NEW c \in Calls, Body(c)
      PROVE  excuse' = excuse \/ \E e \in Excuses : Excuse(e)
  <2>1. \A k \in {"inflated", "unsaved", "doubt"} : <<k, c>> \in Excuses
    BY DEF Excuses
  <2>2. \A k \in {"collision", "twice"}, n \in Numbers : <<k, n>> \in Excuses
    BY DEF Excuses
  <2>3. ask[c].target \in Numbers
    BY DEF OrderInv, OrderShape
  <2>4. \A shelf, n : Refuse(c, shelf, n) => excuse' = excuse \/ Excuse(<<"inflated", c>>)
    BY DEF Refuse
  <2>5. CASE Deduct(c) \/ CreateInMemory(c) \/ Search(c)
    BY <2>1, <2>4, <2>5 DEF Deduct, CreateInMemory, Search
  <2>6. CASE TimeOut(c)
    BY <2>1, <2>6 DEF TimeOut
  <2>7. ASSUME NEW o \in Outcomes, NextOrderId(c, o)
        PROVE  excuse' = excuse \/ \E e \in Excuses : Excuse(e)
    BY <2>1, <2>2, <2>4, <2>7 DEF NextOrderId
  <2>8. ASSUME NEW o \in Outcomes, Merge(c, o) \/ Commit(c, o)
        PROVE  excuse' = excuse \/ \E e \in Excuses : Excuse(e)
    BY <2>1, <2>8 DEF Merge, Commit, Outcomes
  <2>9. ASSUME NEW o \in Outcomes, Cancel(c, o) \/ Query(c, o)
        PROVE  excuse' = excuse \/ \E e \in Excuses : Excuse(e)
    BY <2>2, <2>3, <2>9 DEF Cancel, Query, dataVars
  <2>. QED BY <1>4, <2>5, <2>6, <2>7, <2>8, <2>9 DEF Body
<1>. QED BY <1>1, <1>2, <1>3, <1>4 DEF Next

LEMMA ToldSafe == Spec => []Told
<1>1. Init => Told
  <2>. SUFFICES ASSUME Init PROVE Told
    OBVIOUS
  <2>. PICK case \in Cases : setup = case.setup /\ luck = case.luck
    BY DEF Init
  <2>. QED BY CasesAssumption DEF Init, Told
<1>2. Told /\ OrderInv /\ [Next]_vars => Told'
  <2>1. ASSUME Told, OrderInv, Next PROVE Told'
    <3>1. luck' \in Nat
      BY <2>1, LuckAfter DEF Told
    <3>2. excuse' \subseteq Excuses
      BY <2>1, ExcuseNext DEF Told, Excuse
    <3>. QED BY <2>1, <3>1, <3>2 DEF Told, Next
  <2>2. ASSUME Told, UNCHANGED vars PROVE Told'
    BY <2>2 DEF Told, vars, dataVars
  <2>. QED BY <2>1, <2>2
<1>. QED BY <1>1, <1>2, OrderSafe, PTL DEF Spec

\* The types of registry, stock, table and calls: no sequence of lines, refusals and
\* cancellations makes a stock negative (sku.py:30), and no row has a line of an unknown
\* sku or of a quantity below one (order_line.py:21).
THEOREM OrderTypesSafe == Spec => []TypeOK
<1>1. OrderInv /\ BreakerInv /\ StockInv /\ Told => TypeOK
  <2>. SUFFICES ASSUME OrderInv, BreakerInv, StockInv, Told PROVE TypeOK
    OBVIOUS
  <2> DEFINE OrderRow == [by : Calls \cup {Before}, status : {"CONFIRMED", "CANCELLED"}, lines : Lines]
  <2>1. \A r \in Order : r.lines \in Lines => r \in OrderRow
    BY DEF Order
  <2>2. 0 .. NumberBound = {0} \cup Numbers
    BY OrdersAssumption DEF Numbers
  <2>3. /\ rows \in [Stores -> [Numbers -> Order \cup {Nothing}]]
        /\ order \in [Calls -> Order \cup {Nothing}] /\ seen \in [Calls -> Order \cup {Nothing}]
        /\ number \in [Calls -> {0} \cup Numbers] /\ counter \in [Processes -> {0} \cup Numbers]
    BY <2>2 DEF OrderInv, OrderShape
  <2>4. /\ \A x \in Stores, n \in Numbers : rows[x][n] # Nothing => rows[x][n].lines \in Lines
        /\ \A c \in Calls : /\ order[c] # Nothing => order[c].lines \in Lines
                            /\ seen[c] # Nothing => seen[c].lines \in Lines
    BY DEF StockInv, StockShape
  <2>5. rows \in [Stores -> [Numbers -> OrderRow \cup {Nothing}]]
    <3>. HIDE DEF OrderRow
    <3>1. \A x \in Stores, n \in Numbers : rows[x][n] \in OrderRow \cup {Nothing}
      BY <2>1, <2>3, <2>4
    <3>2. \A x \in Stores : rows[x] \in [Numbers -> OrderRow \cup {Nothing}]
      BY <2>3, <3>1
    <3>. QED BY <2>3, <3>2
  <2>6. order \in [Calls -> OrderRow \cup {Nothing}] /\ seen \in [Calls -> OrderRow \cup {Nothing}]
    <3>. HIDE DEF OrderRow
    <3>. QED BY <2>1, <2>3, <2>4
  <2>. QED BY <2>3, <2>5, <2>6 DEF TypeOK, BreakerInv, StockInv, StockShape, Told, Excuses
<1>. QED BY <1>1, OrderSafe, BreakerSafe, StockSafe, ToldSafe, PTL

-----------------------------------------------------------------------------
(* Money: how far a rounded amount is from the exact one.                    *)

Currencies == DOMAIN RatesToCny
Rates == {1000, 7100, 7800, 9100, 48, 910, 4700, 5200, 5300}

LEMMA RatesAre ==
    /\ Currencies = {"CNY", "USD", "EUR", "GBP", "JPY", "HKD", "AUD", "CAD", "SGD"}
    /\ RatesToCny["CNY"] = 1000
    /\ \A x \in Currencies : RatesToCny[x] \in Rates
BY DEF Currencies, Rates, RatesToCny

(* round() is off by a half at most. *)
LEMMA RoundedNear ==
    ASSUME NEW a \in Nat, NEW b \in Rates
    PROVE  /\ Rounded(a, b) \in Nat
           /\ Near(Rounded(a, b) * b, a, b)
<1> DEFINE q == a \div b
           r == a % b
<1>1. b \in Nat \ {0}
  BY DEF Rates
<1>2. q \in Nat /\ r \in 0 .. b - 1 /\ a = b * q + r
  BY DEF Rates
<1>3. Rounded(a, b) = IF 2 * r > b \/ (2 * r = b /\ q % 2 = 1) THEN q + 1 ELSE q
  BY DEF Rounded
<1>. HIDE DEF q, r
<1>4. CASE Rounded(a, b) = q + 1 /\ 2 * r >= b
  BY <1>1, <1>2, <1>4 DEF Near
<1>5. CASE Rounded(a, b) = q /\ 2 * r <= b
  BY <1>1, <1>2, <1>5 DEF Near
<1>. QED BY <1>1, <1>2, <1>3, <1>4, <1>5

LEMMA ConvertNear ==
    ASSUME NEW a \in Nat, NEW from \in Currencies, NEW to \in Currencies
    PROVE  /\ Convert(a, from, to) \in Nat
           /\ Near(Convert(a, from, to) * RatesToCny[to], a * RatesToCny[from], RatesToCny[to])
<1>1. /\ RatesToCny[from] \in Nat /\ RatesToCny[to] \in Nat
      /\ RatesToCny[to] \in Rates
  BY RatesAre DEF Rates
<1>2. a * RatesToCny[from] \in Nat
  BY <1>1
<1>3. CASE from = to
  <2>1. Convert(a, from, to) = a
    BY <1>3 DEF Convert
  <2>. QED BY <1>1, <1>2, <1>3, <2>1 DEF Near
<1>4. CASE from # to
  <2> DEFINE x == a * RatesToCny[from]
             y == RatesToCny[to]
  <2>1. Convert(a, from, to) = Rounded(x, y)
    BY <1>4 DEF Convert
  <2>2. x \in Nat /\ y \in Rates
    BY <1>1, <1>2
  <2>. HIDE DEF x, y
  <2>3. Convert(a, from, to) \in Nat /\ Near(Convert(a, from, to) * y, x, y)
    BY <2>1, <2>2, RoundedNear DEF Near
  <2>. QED BY <2>3 DEF x, y
<1>. QED BY <1>3, <1>4

\* Within the cap after rounding is within the cap by half a minor unit.
LEMMA WithinCap ==
    ASSUME NEW a \in Nat, NEW from \in Currencies, NEW to \in Currencies, NEW cap \in Int,
           Convert(a, from, to) <= cap
    PROVE  IF from = to THEN a <= cap
           ELSE a * RatesToCny[from] * 2 <= (2 * cap + 1) * RatesToCny[to]
<1>1. CASE from = to
  BY <1>1 DEF Convert
<1>2. CASE from # to
  <2> DEFINE x == RatesToCny[from]
             y == RatesToCny[to]
             n == Convert(a, from, to)
  <2>1. x \in Nat /\ y \in Nat
    BY RatesAre DEF Rates
  <2>2. n \in Nat /\ 2 * (a * x) <= 2 * (n * y) + y /\ n <= cap
    BY <2>1, ConvertNear DEF Near
  <2>. HIDE DEF x, y, n
  <2>3. n * y <= cap * y
    BY <2>1, <2>2
  <2>4. a * x * 2 <= (2 * cap + 1) * y
    <3>1. (2 * cap + 1) * y = 2 * (cap * y) + y /\ a * x * 2 = 2 * (a * x)
      BY <2>1
    <3>. QED BY <2>1, <2>2, <2>3, <3>1
  <2>. QED BY <1>2, <2>4 DEF x, y
<1>. QED BY <1>1, <1>2

Destinations == DOMAIN BaseFreight
Allowances == {500000, 568000, 117000, 50000, 212000}

LEMMA RulesAre ==
    ASSUME NEW to \in Destinations, NEW category
    PROVE  /\ to \in {"CN", "US", "EU", "JP", "SG"}
           /\ Duties(category)[to] \in 0 .. 130
           /\ DeMinimis[to] \in Allowances
           /\ BaseFreight[to] \in {2500, 6500, 7500, 4500, 4000}
<1>1. to \in {"CN", "US", "EU", "JP", "SG"}
  BY DEF Destinations, BaseFreight
<1>. QED BY <1>1 DEF Allowances, Duties, DeMinimis, BaseFreight

\* One piece goes for the base freight.
LEMMA FreightOfOne ==
    ASSUME NEW to \in Destinations
    PROVE  FreightCny(to, 1) = BaseFreight[to]
<1>1. BaseFreight[to] \in {2500, 6500, 7500, 4500, 4000}
  BY RulesAre
<1>2. \A b \in {2500, 6500, 7500, 4500, 4000} : Rounded(b * (10 + 6 * (1 - 1)), 10) = b
  BY DEF Rounded
<1>. QED BY <1>1, <1>2 DEF FreightCny

\* No price is exactly half a minor unit above an allowance, where rounding to even
\* would exempt it.
LEMMA NoTieAtAllowance ==
    ASSUME NEW a \in Nat, NEW x \in Rates,
           NEW d \in Allowances
    PROVE  a * x # d * 1000 + 500
<1>1. CASE x = 1000
  BY <1>1 DEF Allowances
<1>2. CASE x = 7100
  BY <1>2 DEF Allowances
<1>3. CASE x = 7800
  BY <1>3 DEF Allowances
<1>4. CASE x = 9100
  BY <1>4 DEF Allowances
<1>5. CASE x = 48
  BY <1>5 DEF Allowances
<1>6. CASE x = 910
  BY <1>6 DEF Allowances
<1>7. CASE x = 4700
  BY <1>7 DEF Allowances
<1>8. CASE x = 5200
  BY <1>8 DEF Allowances
<1>9. CASE x = 5300
  BY <1>9 DEF Allowances
<1>. QED BY <1>1, <1>2, <1>3, <1>4, <1>5, <1>6, <1>7, <1>8, <1>9 DEF Rates


\* What exceeds an allowance of d, by the rounded price and by the exact one.
LEMMA ExcessNear ==
    ASSUME NEW price \in Nat, NEW d \in Nat, NEW cny \in Nat,
           Near(cny * 1000, price, 1000), price # d * 1000 + 500,
           NEW taxable, taxable = IF cny > d THEN cny - d ELSE 0,
           NEW excess, excess = IF price > d * 1000 THEN price - d * 1000 ELSE 0
    PROVE  /\ taxable \in Nat /\ excess \div 1000 \in Nat
           /\ taxable = excess \div 1000 \/ taxable = (excess \div 1000) + 1
           /\ taxable = 0 <=> excess < 500
<1> DEFINE e == excess \div 1000
           r == excess % 1000
<1>1. excess \in Nat /\ taxable \in Nat
  OBVIOUS
<1>2. e \in Nat /\ r \in 0 .. 999 /\ excess = 1000 * e + r
  BY <1>1
<1>3. 2 * (cny * 1000) <= 2 * price + 1000 /\ 2 * price <= 2 * (cny * 1000) + 1000
  BY DEF Near
<1>. HIDE DEF e, r
<1>4. taxable = e \/ taxable = e + 1
  BY <1>1, <1>2, <1>3
<1>5. taxable = 0 <=> excess < 500
  BY <1>1, <1>3
<1>. QED BY <1>1, <1>2, <1>4, <1>5 DEF e

\* The landed price of one piece, against the exact sum in thousandths of the CNY unit.
LEMMA LandedNear ==
    ASSUME NEW p \in Product, NEW to \in Destinations, NEW cur \in Currencies, NEW price, NEW excess,
           price = p.price * RatesToCny[p.currency],
           excess = IF price > DeMinimis[to] * 1000 THEN price - DeMinimis[to] * 1000 ELSE 0
    PROVE  LET unit == RatesToCny[cur]
               exact == price + BaseFreight[to] * 1000 + (excess \div 1000) * Duties(p.category)[to]
               quote == Quote(p, to, 1, cur)
           IN  /\ Near(quote.total * unit, exact, 3 * unit + 2000)
               /\ quote.exempt <=> excess < 500
<1> DEFINE unit == RatesToCny[cur]
           d == DeMinimis[to]
           b == BaseFreight[to]
           rate == Duties(p.category)[to]
           cny == Convert(p.price, p.currency, "CNY")
           taxable == Taxable(cny, to)
           duty == Rounded(taxable * rate, 1000)
           subtotal == Convert(p.price, p.currency, cur)
           freight == Convert(FreightCny(to, 1), "CNY", cur)
           tariff == Convert(duty, "CNY", cur)
           quote == Quote(p, to, 1, cur)
           e == excess \div 1000
<1>1. quote.total = subtotal + freight + tariff /\ quote.exempt = (taxable = 0)
  <2>1. quote = [subtotal |-> subtotal, freight |-> freight, tariff |-> tariff,
                 total |-> subtotal + freight + tariff, exempt |-> taxable = 0]
    BY DEF Quote
  <2>. HIDE DEF quote, subtotal, freight, tariff, taxable
  <2>. QED BY <2>1, Zenon
<1>. HIDE DEF unit, d, b, rate, cny, taxable, duty, subtotal, freight, tariff, quote, e
<1>2. /\ p.price \in Nat /\ p.currency \in Currencies /\ "CNY" \in Currencies
      /\ RatesToCny["CNY"] = 1000 /\ unit \in Nat
      /\ RatesToCny[p.currency] \in Rates
  BY RatesAre DEF Product, Currencies, Rates, unit
<1>3. rate \in 0 .. 130 /\ b \in Nat /\ FreightCny(to, 1) = b /\ d \in Allowances /\ d \in Nat
  BY RulesAre, FreightOfOne DEF Allowances, rate, b, d
<1>4. price \in Nat /\ price # d * 1000 + 500
  <2>1. price \in Nat
    BY <1>2 DEF Rates
  <2>. QED BY <1>2, <1>3, <2>1, NoTieAtAllowance
<1>5. subtotal \in Nat /\ Near(subtotal * unit, price, unit)
  BY <1>2, ConvertNear DEF subtotal, unit
<1>6. cny \in Nat /\ Near(cny * 1000, price, 1000)
  <2>1. cny \in Nat /\ Near(cny * RatesToCny["CNY"], price, RatesToCny["CNY"])
    BY <1>2, ConvertNear DEF cny
  <2>. QED BY <1>2, <2>1
<1>7. freight \in Nat /\ Near(freight * unit, b * 1000, unit)
  <2>1. freight \in Nat /\ Near(freight * unit, b * RatesToCny["CNY"], unit)
    BY <1>2, <1>3, ConvertNear DEF freight, unit
  <2>. QED BY <1>2, <2>1
<1>8. taxable = IF cny > d THEN cny - d ELSE 0
  BY DEF Taxable, taxable, d
<1>9. excess = IF price > d * 1000 THEN price - d * 1000 ELSE 0
  BY DEF d
<1>10. taxable \in Nat /\ e \in Nat /\ (taxable = e \/ taxable = e + 1) /\ (taxable = 0 <=> excess < 500)
  BY <1>3, <1>4, <1>6, <1>8, <1>9, ExcessNear DEF e
<1>11. duty \in Nat /\ e * rate \in Nat /\ Near(duty * 1000, e * rate, 2000)
  <2> DEFINE v == taxable * rate
             w == e * rate
  <2>1. v \in Nat /\ w \in Nat /\ rate \in 0 .. 130
    BY <1>3, <1>10
  <2>2. v = w \/ v = w + rate
    <3>1. CASE taxable = e
      BY <3>1
    <3>2. CASE taxable = e + 1
      BY <1>3, <1>10, <3>2
    <3>. QED BY <1>10, <3>1, <3>2
  <2>3. duty = Rounded(v, 1000)
    BY DEF duty
  <2>. HIDE DEF v, w
  <2>4. duty \in Nat /\ 2 * (duty * 1000) <= 2 * v + 1000 /\ 2 * v <= 2 * (duty * 1000) + 1000
    BY <2>1, <2>3, RoundedNear DEF Near, Rates
  <2>5. Near(duty * 1000, w, 2000)
    BY <2>1, <2>2, <2>4 DEF Near
  <2>. QED BY <2>1, <2>4, <2>5 DEF w
<1>12. tariff \in Nat /\ Near(tariff * unit, duty * 1000, unit)
  <2>1. tariff \in Nat /\ Near(tariff * unit, duty * RatesToCny["CNY"], unit)
    BY <1>2, <1>11, ConvertNear DEF tariff, unit
  <2>. QED BY <1>2, <2>1
<1>13. Near((subtotal + freight + tariff) * unit, price + b * 1000 + e * rate, 3 * unit + 2000)
  <2> DEFINE s == subtotal * unit
             f == freight * unit
             t == tariff * unit
             sum == (subtotal + freight + tariff) * unit
             owed == e * rate
  <2>1. s \in Nat /\ f \in Nat /\ t \in Nat /\ sum = s + f + t
    BY <1>2, <1>5, <1>7, <1>12
  <2>2. /\ b \in Nat /\ price \in Nat /\ unit \in Nat /\ duty \in Nat /\ owed \in Nat
        /\ Near(s, price, unit) /\ Near(f, b * 1000, unit) /\ Near(t, duty * 1000, unit)
        /\ Near(duty * 1000, owed, 2000)
    BY <1>2, <1>3, <1>4, <1>5, <1>7, <1>11, <1>12
  <2>. HIDE DEF s, f, t, sum, owed
  <2>3. Near(sum, price + b * 1000 + owed, 3 * unit + 2000)
    BY <2>1, <2>2 DEF Near
  <2>. QED BY <2>3 DEF sum, owed
<1>14. quote.exempt <=> excess < 500
  BY <1>1, <1>10, Zenon
<1>. QED BY <1>1, <1>13, <1>14 DEF unit, b, rate, e, quote

\* The card of a product tells its landed price.
LEMMA LandedRight ==
    ASSUME NEW p \in Product, NEW spec \in SearchSpec
    PROVE  LandedExactly(Card(p, spec), p, spec)
<1> DEFINE card == Card(p, spec)
           to == spec.shipTo
           cur == spec.currency
           price == p.price * RatesToCny[p.currency]
           excess == Max({0, price - DeMinimis[to] * 1000})
           exact == price + BaseFreight[to] * 1000 + (excess \div 1000) * Duties(p.category)[to]
           unit == RatesToCny[cur]
           quote == Quote(p, to, 1, cur)
<1>. SUFFICES ASSUME card.landed # << >>
              PROVE  /\ Near(card.landed[1].total * unit, exact, 3 * unit + 2000)
                     /\ card.landed[1].exempt <=> excess < 500
  BY Zenon DEF LandedExactly
<1>1. card.landed = <<quote>> /\ to \in Destinations /\ Convertible(p.currency, cur)
  BY Zenon DEF Card, Quoted, Destinations
<1>2. cur \in Currencies /\ p.currency \in Currencies /\ p.price \in Nat
  BY <1>1 DEF Convertible, Currencies, Product
<1>. HIDE DEF price, excess, exact, quote, card
<1>3. price \in Nat /\ DeMinimis[to] \in Nat
  <2>1. RatesToCny[p.currency] \in Nat
    BY <1>2, RatesAre DEF Rates
  <2>2. DeMinimis[to] \in Nat
    BY <1>1, RulesAre DEF Allowances
  <2>. QED BY <1>2, <2>1, <2>2 DEF price
<1>4. excess = IF price > DeMinimis[to] * 1000 THEN price - DeMinimis[to] * 1000 ELSE 0
  <2> DEFINE x == price - DeMinimis[to] * 1000
  <2>1. x \in Int /\ (x > 0 <=> price > DeMinimis[to] * 1000)
    BY <1>3
  <2>2. excess = Max({0, x})
    BY DEF excess
  <2>3. Max({0, x}) = IF x > 0 THEN x ELSE 0
    <3>. HIDE DEF x
    <3>. QED BY <2>1 DEF Max
  <2>. QED BY <2>1, <2>2, <2>3
<1>5. card.landed[1] = quote
  BY <1>1
<1>6. price = p.price * RatesToCny[p.currency]
  BY DEF price
<1>7. /\ Near(quote.total * unit, exact, 3 * unit + 2000)
      /\ quote.exempt <=> excess < 500
  BY <1>1, <1>2, <1>4, <1>6, LandedNear DEF quote, exact
<1>. QED BY <1>5, <1>7

-----------------------------------------------------------------------------
(* The keyword recall.                                                       *)

(* The score of a product counts terms. *)
LEMMA ScoreIs ==
    ASSUME NEW spec \in SearchSpec, IsFiniteSet(spec.terms), NEW p \in Product
    PROVE  /\ KeywordScore(spec, p) \in Nat
           /\ KeywordScore(spec, p) > 0 <=> spec.terms \cap p.terms # {}
<1> DEFINE matched == spec.terms \cap p.terms
<1>1. IsFiniteSet(matched)
  BY FS_Subset
<1>2. Cardinality(matched) \in Nat /\ (Cardinality(matched) = 0 <=> matched = {})
  BY <1>1, FS_CardinalityType, FS_EmptySet
<1>. HIDE DEF matched
<1>3. KeywordScore(spec, p) = IF matched = {} THEN 0
            ELSE Cardinality(matched) + IF spec.category = p.category THEN 3 ELSE 0
  BY DEF KeywordScore, matched
<1>. QED BY <1>2, <1>3 DEF matched

(* _keyword_recall ranks every product that shares a term with the query, once. *)
LEMMA KeywordsRanked ==
    ASSUME NEW spec \in SearchSpec, IsFiniteSet(spec.terms)
    PROVE  /\ KeywordRecall(spec) \in Seq(Range(Products)) /\ IsInjective(KeywordRecall(spec))
           /\ \A p \in Range(Products) : spec.terms \cap p.terms # {} => p \in Range(KeywordRecall(spec))
<1> DEFINE M == Matching(spec)
           n == Cardinality(M)
           score(j) == KeywordScore(spec, Products[j])
           before == [i \in M |-> Better(spec, i)]
           taker(k) == CHOOSE i \in M : Cardinality(Better(spec, i)) = k - 1
           line == KeywordRecall(spec)
<1>1. /\ Products \in Seq(Product) /\ DOMAIN Products = 1 .. Len(Products) /\ Len(Products) \in Nat
      /\ \A i, j \in DOMAIN Products : Products[i] = Products[j] => i = j
  BY ProductsAssumption DEF IsInjective
<1>2. M \subseteq DOMAIN Products /\ IsFiniteSet(M)
  <2>1. IsFiniteSet(DOMAIN Products) /\ M \in SUBSET DOMAIN Products
    BY <1>1, FS_Interval DEF Matching
  <2>. HIDE DEF M
  <2>. QED BY <2>1, FS_Subset
<1>3. \A i \in DOMAIN Products : Products[i] \in Product /\ Products[i] \in Range(Products)
  BY <1>1 DEF Range
<1>4. \A i \in M : i \in Nat /\ score(i) \in Nat
  BY <1>1, <1>2, <1>3, ScoreIs
<1>5. \A i \in M : before[i] = {j \in M : score(j) > score(i) \/ (score(j) = score(i) /\ j < i)}
  BY DEF Better
<1>6. /\ before \in [M -> SUBSET M] /\ \A i \in M : i \notin before[i]
      /\ \A i, j \in M : i \in before[j] => before[i] \subseteq before[j]
      /\ \A i, j \in M : i = j \/ i \in before[j] \/ j \in before[i]
  <2>. HIDE DEF score
  <2>1. before \in [M -> SUBSET M]
    BY DEF Better
  <2>. HIDE DEF M
  <2>. HIDE DEF before
  <2>. QED BY <1>4, <1>5, <2>1
<1>7. /\ n \in Nat
      /\ \A i, j \in M : Cardinality(before[i]) = Cardinality(before[j]) => i = j
      /\ \A k \in 1 .. n : \E i \in M : Cardinality(before[i]) = k - 1
  <2>. HIDE DEF M, before
  <2>. QED BY <1>2, <1>6, LinedUp
<1>8. \A k \in 1 .. n : taker(k) \in M /\ Cardinality(before[taker(k)]) = k - 1
  <2>. HIDE DEF M
  <2>. QED BY <1>7
<1>9. line = [k \in 1 .. n |-> Products[taker(k)]]
  BY DEF KeywordRecall
<1>. HIDE DEF M, n, score, before, taker, line
<1>10. line \in Seq(Range(Products)) /\ Len(line) = n
  BY <1>2, <1>3, <1>7, <1>8, <1>9
<1>11. IsInjective(line)
  <2>. SUFFICES ASSUME NEW k \in 1 .. n, NEW l \in 1 .. n, line[k] = line[l] PROVE k = l
    BY <1>9 DEF IsInjective
  <2>1. taker(k) = taker(l)
    BY <1>1, <1>2, <1>8, <1>9
  <2>2. k - 1 = l - 1
    BY <1>8, <2>1
  <2>. QED BY <1>7, <2>2
<1>12. ASSUME NEW p \in Range(Products), spec.terms \cap p.terms # {}
       PROVE  p \in Range(line)
  <2>1. PICK i \in DOMAIN Products : p = Products[i]
    BY DEF Range
  <2>2. i \in M
    BY <1>3, <1>12, <2>1, ScoreIs DEF M, Matching
  <2> DEFINE k == Cardinality(before[i]) + 1
  <2>3. k \in 1 .. n /\ Cardinality(before[i]) = k - 1
    <3>1. IsFiniteSet(before[i]) /\ before[i] \in SUBSET M /\ before[i] # M
      BY <1>2, <1>6, <2>2, FS_Subset
    <3>2. Cardinality(before[i]) \in Nat /\ Cardinality(before[i]) <= n /\ Cardinality(before[i]) # n
      BY <1>2, <3>1, FS_Subset, FS_CardinalityType DEF n
    <3>. QED BY <1>7, <3>2
  <2>. HIDE DEF k
  <2>4. taker(k) = i
    BY <1>7, <1>8, <2>2, <2>3
  <2>. QED BY <1>9, <2>1, <2>3, <2>4 DEF Range
<1>. QED BY <1>10, <1>11, <1>12 DEF line

-----------------------------------------------------------------------------
(* What is recalled: products of the catalogue, each of them once.           *)

Line(list) == list \in Seq(Range(Products)) /\ IsInjective(list)

LEMMA ProductsAre ==
    /\ Range(Products) \subseteq Product
    /\ \A p \in Range(Products) : p.id \in Known /\ ProductOf(p.id) = p
    /\ \A id \in Known : ProductOf(id) \in Range(Products) /\ ProductOf(id).id = id
<1>1. Products \in Seq(Product) /\ \A i, j \in DOMAIN Products : Products[i].id = Products[j].id => i = j
  BY ProductsAssumption DEF IsInjective
<1>2. Range(Products) \subseteq Product
  BY <1>1 DEF Range
<1>3. \A p, q \in Range(Products) : p.id = q.id => p = q
  BY <1>1 DEF Range
<1>4. \A id \in Known : ProductOf(id) \in Range(Products) /\ ProductOf(id).id = id
  BY DEF Known, ProductOf
<1>5. \A p \in Range(Products) : p.id \in Known
  BY DEF Known
<1>. QED BY <1>2, <1>3, <1>4, <1>5

LEMMA VectorsRecalled ==
    ASSUME NEW hits \in VectorHits
    PROVE  Line(VectorRecall(hits))
<1> DEFINE known == Filtered(hits, Known)
<1>1. hits \in Seq(STRING) /\ IsInjective(hits)
  BY HitsAssumption
<1>2. known \in Seq(STRING) /\ IsInjective(known) /\ Range(known) \subseteq Known
  BY <1>1, FilteredType, FilteredKeeps
<1>3. VectorRecall(hits) = [i \in DOMAIN known |-> ProductOf(known[i])]
  BY DEF VectorRecall
<1>. HIDE DEF known
<1>4. /\ DOMAIN known = 1 .. Len(known) /\ Len(known) \in Nat
      /\ \A i \in DOMAIN known : known[i] \in Known
  BY <1>2 DEF Range
<1>5. VectorRecall(hits) \in Seq(Range(Products))
  BY <1>3, <1>4, ProductsAre
<1>6. \A i, j \in DOMAIN known : ProductOf(known[i]) = ProductOf(known[j]) => i = j
  BY <1>2, <1>4, ProductsAre DEF IsInjective
<1>. QED BY <1>3, <1>5, <1>6 DEF Line, IsInjective

\* An order of the scores changes neither what is recalled nor how often.
LEMMA RerankedLine ==
    ASSUME NEW list, Line(list), NEW other \in Reranked(list)
    PROVE  Line(other)
<1>1. /\ DOMAIN list = 1 .. Len(list) /\ Len(list) \in Nat /\ IsInjective(list)
      /\ \A i \in DOMAIN list : list[i] \in Range(Products)
  BY DEF Line
<1> DEFINE n == Len(list)
<1>2. Cardinality(DOMAIN list) = n
  <2>1. 1 \in Int /\ n \in Int /\ (IF 1 > n THEN 0 ELSE n - 1 + 1) = n
    BY <1>1
  <2>. HIDE DEF n
  <2>2. Cardinality(1 .. n) = n
    BY <2>1, FS_Interval
  <2>. QED BY <1>1, <2>2 DEF n
<1>3. PICK o \in SetToSeqs(DOMAIN list) : other = [i \in DOMAIN o |-> list[o[i]]]
  BY DEF Reranked
<1>4. /\ DOMAIN o = 1 .. n /\ \A i \in 1 .. n : o[i] \in DOMAIN list
      /\ \A i, j \in 1 .. n : o[i] = o[j] => i = j
  <2>. HIDE DEF n
  <2>. QED BY <1>2, Zenon DEF SetToSeqs
<1>5. other \in Seq(Range(Products))
  BY <1>1, <1>3, <1>4
<1>6. \A i, j \in 1 .. n : list[o[i]] = list[o[j]] => i = j
  BY <1>1, <1>4 DEF IsInjective
<1>. QED BY <1>3, <1>4, <1>5, <1>6 DEF Line, IsInjective

LEMMA Recalled ==
    ASSUME NEW spec \in SearchSpec, IsFiniteSet(spec.terms), NEW hits \in VectorHits \cup {Down},
           NEW ranked \in BOOLEAN, NEW recall \in Recalls(spec, hits, ranked)
    PROVE  /\ Line(recall.scored)
           /\ recall.strategy = "keyword_2gram" => recall.scored = KeywordRecall(spec)
<1>1. Line(KeywordRecall(spec))
  BY KeywordsRanked DEF Line
<1>2. hits # Down => Line(VectorRecall(hits))
  BY VectorsRecalled
<1>3. hits # Down => \A list \in Reranked(VectorRecall(hits)) : Line(list)
  BY <1>2, RerankedLine
<1>4. CASE recall = [strategy |-> "keyword_2gram", scored |-> KeywordRecall(spec)]
  BY <1>1, <1>4
<1>5. CASE hits # Down /\ \E list \in Reranked(VectorRecall(hits)) :
                recall = [strategy |-> "embedding_rerank", scored |-> list]
  BY <1>3, <1>5
<1>6. CASE hits # Down /\ recall = [strategy |-> "embedding_only", scored |-> VectorRecall(hits)]
  BY <1>2, <1>6
<1>7. \/ recall = [strategy |-> "keyword_2gram", scored |-> KeywordRecall(spec)]
      \/ hits # Down /\ \E list \in Reranked(VectorRecall(hits)) :
             recall = [strategy |-> "embedding_rerank", scored |-> list]
      \/ hits # Down /\ recall = [strategy |-> "embedding_only", scored |-> VectorRecall(hits)]
  BY Zenon DEF Recalls
<1>. QED BY <1>4, <1>5, <1>6, <1>7

-----------------------------------------------------------------------------
(* The answer.                                                               *)

\* The smaller of two is each of them at most, and one of them.
LEMMA MinOfTwo ==
    ASSUME NEW a \in Int, NEW b \in Int
    PROVE  Min({a, b}) = IF a <= b THEN a ELSE b
BY DEF Min

\* What was found for a query is an honest answer to it.
LEMMA ResultHonest ==
    ASSUME NEW spec \in SearchSpec, IsFiniteSet(spec.terms), NEW recall, Line(recall.scored),
           recall.strategy = "keyword_2gram" => recall.scored = KeywordRecall(spec),
           Result(spec, recall) # << >>
    PROVE  Honest(spec, Result(spec, recall)[1])
<1> DEFINE S == Range(recall.scored)
           failing == {p \in S : Undeliverable(p, spec) \/ OverCap(p, spec)}
           kept == Filtered(recall.scored, S \ failing)
           dropped == Filtered(recall.scored, failing)
           h == Min({spec.topK, Len(kept)})
           d == Min({FilteredOutLimit, Len(dropped)})
           f == [hits |-> [i \in 1 .. h |-> Card(kept[i], spec)], candidates |-> Len(kept),
                 strategy |-> recall.strategy, filteredOut |-> [i \in 1 .. d |-> dropped[i].id]]
           shown == {f.hits[i].id : i \in DOMAIN f.hits}
<1>1. Valid(spec) /\ (\A p \in S : ~Unconvertible(p, spec)) /\ Result(spec, recall)[1] = f
  <2>1. Result(spec, recall) = IF ~Valid(spec) \/ \E p \in S : Unconvertible(p, spec) THEN << >> ELSE <<f>>
    BY DEF Result
  <2>. HIDE DEF S, f
  <2>. QED BY <2>1
<1>2. S \subseteq Range(Products) /\ S \subseteq Product /\ failing \subseteq S
  BY ProductsAre DEF Line, Range
<1>. HIDE DEF failing, S
<1>3. /\ kept \in Seq(Range(Products)) /\ IsInjective(kept) /\ Range(kept) = S \ failing
      /\ dropped \in Seq(Range(Products)) /\ Range(dropped) = failing
  <2> DEFINE list == recall.scored
  <2>1. list \in Seq(Range(Products)) /\ IsInjective(list) /\ Range(list) = S
    BY DEF Line, S
  <2>. HIDE DEF list
  <2>2. \A T : /\ Filtered(list, T) \in Seq(Range(Products)) /\ IsInjective(Filtered(list, T))
               /\ Range(Filtered(list, T)) = S \cap T
    BY <2>1, FilteredType, FilteredKeeps
  <2>3. S \cap (S \ failing) = S \ failing /\ S \cap failing = failing
    BY <1>2
  <2>. QED BY <2>2, <2>3 DEF list, kept, dropped
<1>. HIDE DEF kept, dropped
<1>4. /\ Len(kept) \in Nat /\ DOMAIN kept = 1 .. Len(kept) /\ \A i \in 1 .. Len(kept) : kept[i] \in S \ failing
      /\ Len(dropped) \in Nat /\ DOMAIN dropped = 1 .. Len(dropped)
      /\ \A i \in 1 .. Len(dropped) : dropped[i] \in failing
  BY <1>3 DEF Range
<1>5. spec.topK \in Nat /\ spec.topK > 0
  BY <1>1 DEF Valid, SearchSpec
<1>6. h = (IF spec.topK <= Len(kept) THEN spec.topK ELSE Len(kept))
      /\ d = IF 3 <= Len(dropped) THEN 3 ELSE Len(dropped)
  BY <1>4, <1>5, MinOfTwo DEF FilteredOutLimit
<1>. HIDE DEF h, d
<1>7. /\ h \in Nat /\ h <= spec.topK /\ h <= Len(kept) /\ (h = 0 => Len(kept) = 0)
      /\ d \in Nat /\ d <= Len(dropped) /\ (d = 0 => Len(dropped) = 0)
  <2> DEFINE a == spec.topK
             b == Len(kept)
             e == Len(dropped)
  <2>1. a \in Nat /\ a > 0 /\ b \in Nat /\ e \in Nat
    BY <1>4, <1>5
  <2>2. h = (IF a <= b THEN a ELSE b) /\ d = IF 3 <= e THEN 3 ELSE e
    BY <1>6
  <2>. HIDE DEF a, b, e
  <2>3. /\ h \in Nat /\ h <= a /\ h <= b /\ (h = 0 => b = 0)
        /\ d \in Nat /\ d <= e /\ (d = 0 => e = 0)
    BY <2>1, <2>2
  <2>. QED BY <2>3 DEF a, b, e
<1>8. /\ f.hits = [i \in 1 .. h |-> Card(kept[i], spec)] /\ f.filteredOut = [i \in 1 .. d |-> dropped[i].id]
      /\ f.strategy = recall.strategy
  OBVIOUS
<1>. HIDE DEF f, shown
<1>9. \A i \in 1 .. h : /\ kept[i] \in S \ failing /\ f.hits[i] = Card(kept[i], spec)
                        /\ f.hits[i].id = kept[i].id /\ ProductOf(kept[i].id) = kept[i]
  <2>. SUFFICES ASSUME NEW i \in 1 .. h
                PROVE  /\ kept[i] \in S \ failing /\ f.hits[i] = Card(kept[i], spec)
                       /\ f.hits[i].id = kept[i].id /\ ProductOf(kept[i].id) = kept[i]
    OBVIOUS
  <2>1. kept[i] \in S \ failing
    BY <1>4, <1>7
  <2>2. f.hits[i] = Card(kept[i], spec)
    BY <1>8
  <2>3. Card(kept[i], spec).id = kept[i].id
    BY DEF Card
  <2>. QED BY <1>2, <2>1, <2>2, <2>3, ProductsAre
<1>10. DOMAIN f.hits = 1 .. h /\ Len(f.hits) = h /\ shown = {kept[i].id : i \in 1 .. h}
  <2>1. DOMAIN f.hits = 1 .. h
    BY <1>8
  <2>2. Len(f.hits) = h
    BY <1>7, <1>8
  <2>3. shown = {f.hits[i].id : i \in 1 .. h}
    BY <2>1 DEF shown
  <2>4. \A i \in 1 .. h : f.hits[i].id = kept[i].id
    BY <1>9
  <2>5. shown = {kept[i].id : i \in 1 .. h}
    BY <2>3, <2>4
  <2>. QED BY <2>1, <2>2, <2>5
<1>11. ASSUME NEW id \in shown
       PROVE  LET p == ProductOf(id) IN
              /\ spec.shipTo \in p.shipsTo \cup {Nowhere}
              /\ spec.cap # NoLimit =>
                     IF p.currency = spec.currency THEN p.price <= spec.cap
                     ELSE p.price * RatesToCny[p.currency] * 2 <= (2 * spec.cap + 1) * RatesToCny[spec.currency]
  <2> DEFINE p == ProductOf(id)
  <2>1. p \in S \ failing
    BY <1>9, <1>10
  <2>2. ~Undeliverable(p, spec) /\ ~OverCap(p, spec) /\ ~Unconvertible(p, spec) /\ p \in Product
    BY <1>1, <1>2, <2>1 DEF failing
  <2>. HIDE DEF p
  <2>3. spec.shipTo \in p.shipsTo \cup {Nowhere}
    BY <2>2 DEF Undeliverable
  <2>4. ASSUME spec.cap # NoLimit
        PROVE  IF p.currency = spec.currency THEN p.price <= spec.cap
               ELSE p.price * RatesToCny[p.currency] * 2 <= (2 * spec.cap + 1) * RatesToCny[spec.currency]
    <3>1. p.price \in Nat /\ p.currency \in Currencies /\ spec.currency \in Currencies /\ spec.cap \in Int
      BY <2>2, <2>4 DEF Unconvertible, Convertible, Product, SearchSpec, Currencies
    <3>2. Convert(p.price, p.currency, spec.currency) <= spec.cap
      <4>1. Convert(p.price, p.currency, spec.currency) \in Nat
        BY <3>1, ConvertNear
      <4>2. ~(Convert(p.price, p.currency, spec.currency) > spec.cap)
        BY <2>2, <2>4 DEF OverCap
      <4>. HIDE DEF p
      <4>. QED BY <3>1, <4>1, <4>2
    <3>. QED BY <3>1, <3>2, WithinCap
  <2>. QED BY <2>3, <2>4 DEF p
<1>12. shown \cap Range(f.filteredOut) = {}
  <2>. SUFFICES ASSUME NEW id \in shown, id \in Range(f.filteredOut) PROVE FALSE
    OBVIOUS
  <2>1. PICK i \in 1 .. h : id = kept[i].id
    BY <1>10
  <2>2. PICK j \in 1 .. d : id = dropped[j].id
    BY <1>8 DEF Range
  <2>3. kept[i] \in S \ failing /\ dropped[j] \in failing
    BY <1>4, <1>7, <1>9
  <2>4. kept[i] = dropped[j]
    <3>1. ProductOf(kept[i].id) = kept[i] /\ ProductOf(dropped[j].id) = dropped[j]
      BY <1>2, <2>3, ProductsAre
    <3>. QED BY <2>1, <2>2, <3>1
  <2>. QED BY <2>3, <2>4
<1>13. Len(f.hits) <= spec.topK /\ Cardinality(shown) = Len(f.hits)
  <2> DEFINE name == [i \in 1 .. h |-> kept[i].id]
  <2>1. \A i, j \in 1 .. h : kept[i].id = kept[j].id => i = j
    BY <1>3, <1>4, <1>7, <1>9 DEF IsInjective
  <2>2. name \in Injection(1 .. h, shown) /\ name \in Surjection(1 .. h, shown)
    BY <1>10, <2>1 DEF Injection, Surjection, IsInjective
  <2>3. IsFiniteSet(1 .. h) /\ Cardinality(1 .. h) = h
    <3>1. 1 \in Int /\ h \in Int /\ (IF 1 > h THEN 0 ELSE h - 1 + 1) = h
      BY <1>7
    <3>. QED BY <3>1, FS_Interval
  <2>. HIDE DEF name
  <2>4. Cardinality(shown) = Cardinality(1 .. h)
    BY <2>2, <2>3, FS_Surjection
  <2>. QED BY <1>7, <1>10, <2>3, <2>4
<1>14. ASSUME f.hits = << >>, f.filteredOut = << >>, f.strategy = "keyword_2gram"
       PROVE  \A p \in Range(Products) : p.terms \cap spec.terms = {}
  <2>1. h = 0 /\ d = 0
    BY <1>7, <1>8, <1>14
  <2>2. S = {}
    BY <1>2, <1>3, <1>7, <2>1 DEF Range
  <2>3. Range(KeywordRecall(spec)) = {}
    BY <1>8, <1>14, <2>2 DEF S
  <2>. QED BY <2>3, KeywordsRanked
<1>15. ASSUME NEW i \in DOMAIN f.hits
       PROVE  LandedExactly(f.hits[i], ProductOf(f.hits[i].id), spec)
  BY <1>2, <1>9, <1>10, LandedRight
<1>. QED BY <1>1, <1>11, <1>12, <1>13, <1>14, <1>15 DEF Honest, shown

-----------------------------------------------------------------------------
(* Searches.                                                                 *)

Searches == \A c \in Calls : ask[c].spec \in SearchSpec /\ IsFiniteSet(ask[c].spec.terms)

SearchInv == Searches /\ DOMAIN found = Calls /\ SearchHonest

\* Only a search touches what was found.
LEMMA FoundNext ==
    ASSUME Next
    PROVE  found' = found \/ \E c \in Calls : Search(c)
<1>1. ASSUME NEW c \in Calls, Middleware(c)
      PROVE  found' = found
  BY <1>1 DEF Middleware, dataVars
<1>2. ASSUME NEW c \in Calls, Body(c)
      PROVE  found' = found \/ Search(c)
  <2>1. Deduct(c) \/ CreateInMemory(c) \/ TimeOut(c) => found' = found
    BY DEF Deduct, CreateInMemory, TimeOut
  <2>2. ASSUME NEW o, NextOrderId(c, o) \/ Merge(c, o) \/ Commit(c, o) PROVE found' = found
    BY <2>2 DEF NextOrderId, Merge, Commit
  <2>3. ASSUME NEW o, Cancel(c, o) \/ Query(c, o) PROVE found' = found
    BY <2>3 DEF Cancel, Query, dataVars
  <2>. QED BY <1>2, <2>1, <2>2, <2>3 DEF Body
<1>3. ASSUME NEW p \in Processes, Crash(p)
      PROVE  found' = found
  BY <1>3 DEF Crash
<1>4. Tick /\ UNCHANGED dataVars => found' = found
  BY DEF dataVars
<1>. QED BY <1>1, <1>2, <1>3, <1>4 DEF Next

LEMMA SearchKeeps ==
    ASSUME SearchInv, ask' = ask, NEW c \in Calls, Search(c)
    PROVE  SearchInv'
<1> DEFINE spec == ask[c].spec
<1>1. spec \in SearchSpec /\ IsFiniteSet(spec.terms)
  BY DEF SearchInv, Searches
<1>2. PICK hits \in VectorHits \cup {Down}, ranked \in BOOLEAN :
          \E recall \in Recalls(spec, hits, ranked) :
              found' = [found EXCEPT ![c] = Result(spec, recall)]
  BY Zenon DEF Search
<1>3. PICK recall \in Recalls(spec, hits, ranked) : found' = [found EXCEPT ![c] = Result(spec, recall)]
  BY <1>2
<1>. HIDE DEF spec
<1>4. Result(spec, recall) # << >> => Honest(spec, Result(spec, recall)[1])
  BY <1>1, Recalled, ResultHonest
<1>5. DOMAIN found' = Calls /\ found'[c] = Result(spec, recall)
      /\ \A d \in Calls : d # c => found'[d] = found[d]
  BY <1>3 DEF SearchInv
<1>6. ASSUME NEW d \in Calls, found'[d] # << >>
      PROVE  Honest(ask[d].spec, found'[d][1])
  <2>1. CASE d = c
    BY <1>4, <1>5, <1>6, <2>1 DEF spec
  <2>2. CASE d # c
    BY <1>5, <1>6, <2>2 DEF SearchInv, SearchHonest
  <2>. QED BY <2>1, <2>2
<1>. QED BY <1>5, <1>6 DEF SearchInv, Searches, SearchHonest

\* Whatever the vectors answer and in whatever order the reranker puts it, an answer of
\* the search shows what can be delivered within the cap, each product once, at its landed
\* price, and the fall-back to keywords misses no match (catalog_search.py:104).
THEOREM SearchSafe == Spec => []SearchHonest
<1>1. Init => SearchInv
  <2>. SUFFICES ASSUME Init PROVE SearchInv
    OBVIOUS
  <2>1. PICK case \in Cases : ask = case.ask
    BY DEF Init
  <2>2. Searches
    BY <2>1, CasesAssumption DEF Searches
  <2>3. DOMAIN found = Calls /\ \A c \in Calls : found[c] = << >>
    BY DEF Init
  <2>. QED BY <2>2, <2>3 DEF SearchInv, SearchHonest
<1>2. SearchInv /\ [Next]_vars => SearchInv'
  <2>1. ASSUME SearchInv, Next, found' = found PROVE SearchInv'
    BY <2>1 DEF SearchInv, Searches, SearchHonest, Next
  <2>2. ASSUME SearchInv, Next, NEW c \in Calls, Search(c) PROVE SearchInv'
    BY <2>2, SearchKeeps DEF Next
  <2>3. ASSUME SearchInv, UNCHANGED vars PROVE SearchInv'
    BY <2>3 DEF SearchInv, Searches, SearchHonest, vars, dataVars
  <2>. QED BY <2>1, <2>2, <2>3, FoundNext
<1>3. SearchInv => SearchHonest
  BY DEF SearchInv
<1>. QED BY <1>1, <1>2, <1>3, PTL DEF Spec
=============================================================================
