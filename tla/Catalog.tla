------------------------------- MODULE Catalog -------------------------------
(***************************************************************************)
(* CatalogSearchUseCase as operators: recall by vectors, rerank, recall by *)
(* keywords as the way out, the hard constraints, and the landed price of  *)
(* each card (TariffSchedule, ExchangeRateTable).  Embedder, vector index  *)
(* and reranker are parameters: what they answer, or Down when they raise. *)
(*                                                                         *)
(* Money is in minor units and rates in thousandths; a product of floats   *)
(* the code rounds is rounded here exactly, half to even as round() does.  *)
(***************************************************************************)
EXTENDS Integers, Sequences, FiniteSets, SequencesExt, Lists

CONSTANTS Products,      \* Seq of [id, price, currency, category, shipsTo, terms]
          Down, NoLimit, Nowhere

FilteredOutLimit == 3

RatesToCny == [CNY |-> 1000, USD |-> 7100, EUR |-> 7800, GBP |-> 9100, JPY |-> 48,
               HKD |-> 910, AUD |-> 4700, CAD |-> 5200, SGD |-> 5300]

\* Money.of refuses a currency that has no rate; a repository holds an id once.
Product == [id : STRING, price : Nat, currency : DOMAIN RatesToCny, category : STRING,
            shipsTo : SUBSET STRING, terms : SUBSET STRING]
ASSUME ProductsAssumption ==
    Products \in Seq(Product) /\ IsInjective([i \in DOMAIN Products |-> Products[i].id])

\* A currency, a destination and a number of products may be anything the model asked for.
SearchSpec == [terms : SUBSET STRING, category : STRING, shipTo : STRING \cup {Nowhere},
               topK : Int, cap : {NoLimit} \cup Int, currency : STRING]

Duties(category) == [CN |-> IF category = "digital" THEN 130 ELSE 90,
                     US |-> CASE category = "digital" -> 0 [] category = "travel" -> 75
                              [] category = "outdoor" -> 75 [] category = "home" -> 50
                              [] OTHER -> 60,
                     EU |-> 120, JP |-> 80, SG |-> 70]
DeMinimis == [CN |-> 500000, US |-> 568000, EU |-> 117000, JP |-> 50000, SG |-> 212000]
BaseFreight == [CN |-> 2500, US |-> 6500, EU |-> 7500, JP |-> 4500, SG |-> 4000]

Rounded(a, b) ==
    LET q == a \div b
        twice == 2 * (a % b)
    IN  IF twice > b \/ (twice = b /\ q % 2 = 1) THEN q + 1 ELSE q

Convertible(from, to) == from = to \/ {from, to} \subseteq DOMAIN RatesToCny
Convert(amount, from, to) ==
    IF from = to THEN amount ELSE Rounded(amount * RatesToCny[from], RatesToCny[to])

\* wrong: the duty is taken on the whole price, not on what exceeds the allowance
TaxableWhole(cny, to) == IF cny > DeMinimis[to] THEN cny ELSE 0

Taxable(cny, to) == IF cny > DeMinimis[to] THEN cny - DeMinimis[to] ELSE 0

FreightCny(to, quantity) == Rounded(BaseFreight[to] * (10 + 6 * (quantity - 1)), 10)

Quoted(p, to) == to \in DOMAIN BaseFreight
Quote(p, to, quantity, currency) ==
    LET taxable == Taxable(Convert(p.price, p.currency, "CNY"), to)
        subtotal == Convert(p.price, p.currency, currency)
        freight == Convert(FreightCny(to, quantity), "CNY", currency)
        tariff == Convert(Rounded(taxable * Duties(p.category)[to], 1000), "CNY", currency)
    IN  [subtotal |-> subtotal, freight |-> freight, tariff |-> tariff,
         total |-> subtotal + freight + tariff, exempt |-> taxable = 0]

ProductOf(id) == CHOOSE p \in Range(Products) : p.id = id
Known == {p.id : p \in Range(Products)}

-----------------------------------------------------------------------------
VectorRecall(hits) ==
    LET known == Filtered(hits, Known) IN [i \in DOMAIN known |-> ProductOf(known[i])]

KeywordScore(spec, p) ==
    LET matched == spec.terms \cap p.terms
    IN  IF matched = {} THEN 0
        ELSE Cardinality(matched) + IF spec.category = p.category THEN 3 ELSE 0

\* By falling score, equal ones in the order of the repository: each product stands
\* after as many as are better.
Matching(spec) == {i \in DOMAIN Products : KeywordScore(spec, Products[i]) > 0}
Better(spec, i) ==
    LET score(j) == KeywordScore(spec, Products[j])
    IN  {j \in Matching(spec) : score(j) > score(i) \/ (score(j) = score(i) /\ j < i)}
KeywordRecall(spec) ==
    [k \in 1 .. Cardinality(Matching(spec)) |->
        Products[CHOOSE i \in Matching(spec) : Cardinality(Better(spec, i)) = k - 1]]

\* _rerank: any order of the scores, equal ones in the order of the vectors.
Reranked(list) == {[i \in DOMAIN o |-> list[o[i]]] : o \in SetToSeqs(DOMAIN list)}

\* What a search can go on with: the strategy and the candidates in order.  hits is the
\* vector index's answer or Down, an element of ranks the order of the reranker's scores.
Recalls(spec, hits, ranked) ==
    IF hits = Down \/ VectorRecall(hits) = << >>
    THEN {[strategy |-> "keyword_2gram", scored |-> KeywordRecall(spec)]}
    ELSE IF ranked
         THEN {[strategy |-> "embedding_rerank", scored |-> list] : list \in Reranked(VectorRecall(hits))}
         ELSE {[strategy |-> "embedding_only", scored |-> VectorRecall(hits)]}

Undeliverable(p, spec) == spec.shipTo # Nowhere /\ spec.shipTo \notin p.shipsTo

OverCap(p, spec) == spec.cap # NoLimit /\ Convert(p.price, p.currency, spec.currency) > spec.cap

\* An unknown target currency is noticed by the first conversion it comes to, and the
\* ValueError ends the search.
Unconvertible(p, spec) ==
    ~Convertible(p.currency, spec.currency) /\ (Undeliverable(p, spec) \/ spec.cap # NoLimit)

\* Without rules for the destination the card says so instead of a price.
Card(p, spec) ==
    LET quotable == spec.shipTo # Nowhere /\ Quoted(p, spec.shipTo) /\ Convertible(p.currency, spec.currency)
    IN  [id |-> p.id,
         landed |-> IF quotable THEN <<Quote(p, spec.shipTo, 1, spec.currency)>> ELSE << >>,
         unavailable |-> spec.shipTo # Nowhere /\ ~quotable]

Valid(spec) == spec.terms # {} /\ spec.topK > 0

\* The answer of execute() on one recall, or << >> for the error it raises.
Result(spec, recall) ==
    IF ~Valid(spec) \/ \E p \in Range(recall.scored) : Unconvertible(p, spec) THEN << >>
    ELSE LET failing == {p \in Range(recall.scored) : Undeliverable(p, spec) \/ OverCap(p, spec)}
             kept == Filtered(recall.scored, Range(recall.scored) \ failing)
             dropped == Filtered(recall.scored, failing)
         IN  <<[hits |-> [i \in 1 .. Min({spec.topK, Len(kept)}) |-> Card(kept[i], spec)],
                candidates |-> Len(kept),
                strategy |-> recall.strategy,
                filteredOut |-> [i \in 1 .. Min({FilteredOutLimit, Len(dropped)}) |-> dropped[i].id]]>>
=============================================================================
