----------------------------- MODULE DataLemmas -----------------------------
(***************************************************************************)
(* Facts about data that need induction, for the proofs of the components: *)
(* sums over finite sets, filters of lists, ranks.  The provers cannot     *)
(* instantiate the induction theorems of the library, which take an        *)
(* operator; each proof here takes a minimal counterexample instead        *)
(* (WFMin), which is a set.                                                *)
(***************************************************************************)
EXTENDS Integers, FiniteSets, Functions, Lists, FiniteSetTheorems, SequenceTheorems,
        WellFoundedInduction, TLAPS

(* A set of finite sets that is not empty has a minimal element. *)
LEMMA SetMin ==
    ASSUME NEW T, T # {}, \A x \in T : IsFiniteSet(x)
    PROVE  \E x \in T : \A y \in T : ~(y \subseteq x /\ y # x)
<1>. DEFINE S == UNION T
            R == StrictSubsetOrdering(S)
<1>1. IsWellFoundedOn(R, FiniteSubsetsOf(S))
  BY FS_StrictSubsetOrderingWellFounded
<1>2. T \subseteq FiniteSubsetsOf(S)
  BY DEF FiniteSubsetsOf
<1>3. PICK x \in T : \A y \in T : ~ (<<y, x>> \in R)
  <2>. HIDE DEF R, S
  <2>. QED BY <1>1, <1>2, WFMin
<1>4. \A y \in T : ~(y \subseteq x /\ y # x)
  BY <1>3 DEF StrictSubsetOrdering
<1>. QED BY <1>4

(* A set of natural numbers that is not empty has a least element. *)
LEMMA NatMin ==
    ASSUME NEW T, T \subseteq Nat, T # {}
    PROVE  \E x \in T : \A y \in T : x <= y
<1>. DEFINE R == OpToRel(<, Nat)
<1>1. IsWellFoundedOn(R, Nat)
  BY NatLessThanWellFounded
<1>2. PICK x \in T : \A y \in T : ~ (<<y, x>> \in R)
  <2>. HIDE DEF R
  <2>. QED BY <1>1, WFMin
<1>3. \A y \in T : ~(y < x)
  BY <1>2 DEF OpToRel
<1>. HIDE DEF R
<1>. QED BY <1>3

-----------------------------------------------------------------------------
(* Sums: SumFunctionOnSet folds over the subsets of the set, taking the      *)
(* element CHOOSE picks away; the sum does not depend on that choice.        *)

Pick(s) == CHOOSE x \in s : TRUE

\* The functions that satisfy the recursion of the sum on the subsets of a set.
Sums(w, S) ==
    {g \in [SUBSET S -> Int] :
        \A s \in SUBSET S : g[s] = IF s = {} THEN 0 ELSE w[Pick(s)] + g[s \ {Pick(s)}]}

Weights(w, S) == \A x \in S : w[x] \in Int

(* Two of them agree where both are defined. *)
LEMMA SumsAgree ==
    ASSUME NEW w, NEW S, NEW T, NEW g \in Sums(w, S), NEW h \in Sums(w, T),
           NEW U, IsFiniteSet(U), U \subseteq S, U \subseteq T
    PROVE  g[U] = h[U]
<1>. DEFINE Bad == {s \in SUBSET U : g[s] # h[s]}
<1>1. SUFFICES ASSUME Bad # {} PROVE FALSE
  OBVIOUS
<1>2. \A x \in Bad : IsFiniteSet(x)
  BY FS_Subset
<1>3. PICK s \in Bad : \A y \in Bad : ~(y \subseteq s /\ y # s)
  <2>. HIDE DEF Bad
  <2>. QED BY <1>1, <1>2, SetMin
<1>4. s \in SUBSET S /\ s \in SUBSET T /\ s # {}
  BY DEF Sums
<1>5. Pick(s) \in s
  BY <1>4 DEF Pick
<1>6. g[s \ {Pick(s)}] = h[s \ {Pick(s)}]
  BY <1>3, <1>5
<1>. QED BY <1>4, <1>6 DEF Sums

(* There is one, whatever the set. *)
LEMMA SumsExist ==
    ASSUME NEW w, NEW S, IsFiniteSet(S), Weights(w, S)
    PROVE  Sums(w, S) # {}
<1>. DEFINE Bad == {T \in SUBSET S : Sums(w, T) = {}}
<1>1. SUFFICES ASSUME Bad # {} PROVE FALSE
  OBVIOUS
<1>2. \A x \in Bad : IsFiniteSet(x)
  BY FS_Subset
<1>3. PICK T \in Bad : \A y \in Bad : ~(y \subseteq T /\ y # T)
  <2>. HIDE DEF Bad
  <2>. QED BY <1>1, <1>2, SetMin
<1>. DEFINE G(U) == CHOOSE g : g \in Sums(w, U)
            At(U) == G(U)[U]
            Top == IF T = {} THEN 0 ELSE w[Pick(T)] + At(T \ {Pick(T)})
            h == [U \in SUBSET T |-> IF U = T THEN Top ELSE At(U)]
<1>4. \A U \in SUBSET T : U # T => G(U) \in Sums(w, U)
  BY <1>3
<1>5. \A U \in SUBSET T : U # {} => Pick(U) \in U
  BY DEF Pick
<1>6. \A U \in SUBSET T : U # T => At(U) \in Int
  BY <1>4 DEF Sums
<1>7. Top \in Int
  <2>1. T # {} => T \ {Pick(T)} \in SUBSET T /\ T \ {Pick(T)} # T /\ Pick(T) \in S
    BY <1>5
  <2>. HIDE DEF At
  <2>. QED BY <2>1, <1>6 DEF Weights
<1>8. h \in [SUBSET T -> Int]
  BY <1>6, <1>7
<1>9. ASSUME NEW U \in SUBSET T
      PROVE  h[U] = IF U = {} THEN 0 ELSE w[Pick(U)] + h[U \ {Pick(U)}]
  <2>1. CASE U = T
    BY <2>1, <1>5
  <2>2. CASE U # T /\ U = {}
    BY <2>2, <1>4 DEF Sums
  <2>3. CASE U # T /\ U # {}
    <3>. DEFINE V == U \ {Pick(U)}
    <3>1. V \in SUBSET T /\ V # T /\ V \subseteq U /\ IsFiniteSet(V)
      BY <2>3, <1>5, FS_Subset
    <3>2. G(U) \in Sums(w, U) /\ G(V) \in Sums(w, V)
      BY <2>3, <3>1, <1>4
    <3>3. G(U)[V] = G(V)[V]
      <4>. HIDE DEF G, V
      <4>. QED BY <3>1, <3>2, SumsAgree
    <3>4. At(U) = w[Pick(U)] + G(U)[V]
      <4>. HIDE DEF G
      <4>. QED BY <2>3, <3>2 DEF Sums
    <3>. QED BY <2>3, <3>1, <3>3, <3>4
  <2>. QED BY <2>1, <2>2, <2>3
<1>10. h \in Sums(w, T)
  <2>. HIDE DEF h
  <2>. QED BY <1>8, <1>9 DEF Sums
<1>. QED BY <1>3, <1>10

(* What the sum is: zero for the empty set, and one element less at a time. *)
LEMMA SumUnfolds ==
    ASSUME NEW w, NEW S, IsFiniteSet(S), Weights(w, S)
    PROVE  /\ SumFunctionOnSet(w, S) \in Int
           /\ \A g \in Sums(w, S) : SumFunctionOnSet(w, S) = g[S]
<1>. DEFINE F(g) == [s \in SUBSET S |-> IF s = {} THEN 0 ELSE w[Pick(s)] + g[s \ {Pick(s)}]]
            iter == CHOOSE g : g = F(g)
<1>1. PICK g \in Sums(w, S) : TRUE
  BY SumsExist
<1>2. g = F(g)
  BY <1>1 DEF Sums
<1>3. iter = F(iter)
  <2>. HIDE DEF F
  <2>. QED BY <1>2
<1>4. SumFunctionOnSet(w, S) = iter[S]
  BY DEF SumFunctionOnSet, FoldFunctionOnSet, MapThenFoldSet, Pick
<1>. HIDE DEF iter
<1>5. ASSUME NEW s \in SUBSET S
      PROVE  iter[s] = IF s = {} THEN 0 ELSE w[Pick(s)] + iter[s \ {Pick(s)}]
  BY <1>3
<1>. DEFINE Bad == {s \in SUBSET S : iter[s] # g[s]}
<1>6. Bad = {}
  <2>1. SUFFICES ASSUME Bad # {} PROVE FALSE
    OBVIOUS
  <2>2. \A x \in Bad : IsFiniteSet(x)
    BY FS_Subset
  <2>3. PICK s \in Bad : \A y \in Bad : ~(y \subseteq s /\ y # s)
    <3>. HIDE DEF Bad
    <3>. QED BY <2>1, <2>2, SetMin
  <2>4. s # {} /\ s \in SUBSET S
    BY <1>5 DEF Sums
  <2>5. Pick(s) \in s
    BY <2>4 DEF Pick
  <2>6. iter[s \ {Pick(s)}] = g[s \ {Pick(s)}]
    BY <2>3, <2>5
  <2>. QED BY <1>5, <2>4, <2>6 DEF Sums
<1>7. \A h \in Sums(w, S) : h[S] = g[S]
  BY SumsAgree
<1>8. iter[S] = g[S] /\ g[S] \in Int
  BY <1>6 DEF Sums
<1>. QED BY <1>4, <1>7, <1>8

LEMMA SumEmpty == ASSUME NEW w PROVE SumFunctionOnSet(w, {}) = 0
<1>1. IsFiniteSet({}) /\ Weights(w, {})
  BY FS_EmptySet DEF Weights
<1>2. PICK g \in Sums(w, {}) : TRUE
  BY <1>1, SumsExist
<1>. QED BY <1>1, <1>2, SumUnfolds DEF Sums

LEMMA SumPicked ==
    ASSUME NEW w, NEW S, IsFiniteSet(S), Weights(w, S), S # {}
    PROVE  SumFunctionOnSet(w, S) = w[Pick(S)] + SumFunctionOnSet(w, S \ {Pick(S)})
<1>. DEFINE V == S \ {Pick(S)}
<1>1. V \subseteq S /\ IsFiniteSet(V) /\ Weights(w, V)
  BY FS_Subset DEF Weights
<1>2. PICK g \in Sums(w, S), h \in Sums(w, V) : TRUE
  BY <1>1, SumsExist
<1>3. g[S] = w[Pick(S)] + g[V]
  BY DEF Sums
<1>4. g[V] = h[V]
  BY <1>1, <1>2, SumsAgree
<1>5. SumFunctionOnSet(w, S) = g[S] /\ SumFunctionOnSet(w, V) = h[V]
  BY <1>1, SumUnfolds
<1>. QED BY <1>3, <1>4, <1>5

(* Any element may be taken out first. *)
LEMMA SumWithout ==
    ASSUME NEW w, NEW S, IsFiniteSet(S), Weights(w, S), NEW x \in S
    PROVE  SumFunctionOnSet(w, S) = w[x] + SumFunctionOnSet(w, S \ {x})
<1>. DEFINE Bad == {U \in SUBSET S : \E y \in U : SumFunctionOnSet(w, U) # w[y] + SumFunctionOnSet(w, U \ {y})}
<1>1. SUFFICES ASSUME Bad # {} PROVE FALSE
  OBVIOUS
<1>2. \A U \in Bad : IsFiniteSet(U)
  BY FS_Subset
<1>3. PICK U \in Bad : \A V \in Bad : ~(V \subseteq U /\ V # U)
  <2>. HIDE DEF Bad
  <2>. QED BY <1>1, <1>2, SetMin
<1>4. PICK y \in U : SumFunctionOnSet(w, U) # w[y] + SumFunctionOnSet(w, U \ {y})
  OBVIOUS
<1>. DEFINE c == Pick(U)
            A == U \ {c}
            B == U \ {y}
<1>5. c \in U
  BY <1>4 DEF Pick
<1>6. /\ IsFiniteSet(U) /\ IsFiniteSet(A) /\ IsFiniteSet(B) /\ IsFiniteSet(A \ {y}) /\ IsFiniteSet(B \ {c})
     /\ Weights(w, U) /\ Weights(w, A) /\ Weights(w, B) /\ Weights(w, A \ {y}) /\ Weights(w, B \ {c})
  BY FS_Subset DEF Weights
<1>7. SumFunctionOnSet(w, U) = w[c] + SumFunctionOnSet(w, A)
  BY <1>4, <1>6, SumPicked
<1>8. c # y
  BY <1>4, <1>7
<1>. HIDE DEF c
<1>9. SumFunctionOnSet(w, A) = w[y] + SumFunctionOnSet(w, A \ {y})
  <2>1. A \in SUBSET S /\ A \subseteq U /\ A # U /\ y \in A
    BY <1>5, <1>8
  <2>2. A \notin Bad
    <3>. HIDE DEF A, Bad
    <3>. QED BY <1>3, <2>1
  <2>. HIDE DEF A
  <2>. QED BY <2>1, <2>2
<1>10. SumFunctionOnSet(w, B) = w[c] + SumFunctionOnSet(w, B \ {c})
  <2>1. B \in SUBSET S /\ B \subseteq U /\ B # U /\ c \in B
    BY <1>5, <1>8
  <2>2. B \notin Bad
    <3>. HIDE DEF B, Bad
    <3>. QED BY <1>3, <2>1
  <2>. HIDE DEF B
  <2>. QED BY <2>1, <2>2
<1>11. A \ {y} = B \ {c}
  OBVIOUS
<1>12. w[c] \in Int /\ w[y] \in Int /\ SumFunctionOnSet(w, A \ {y}) \in Int
  BY <1>5, <1>6, SumUnfolds DEF Weights
<1>. HIDE DEF A
<1>13. SumFunctionOnSet(w, U) = w[c] + (w[y] + SumFunctionOnSet(w, A \ {y}))
  BY <1>7, <1>9
<1>14. SumFunctionOnSet(w, B) = w[c] + SumFunctionOnSet(w, A \ {y})
  <2>. HIDE DEF B
  <2>. QED BY <1>10, <1>11
<1>15. SumFunctionOnSet(w, U) = w[y] + SumFunctionOnSet(w, B)
  <2>. HIDE DEF B
  <2>. QED BY <1>12, <1>13, <1>14
<1>. QED BY <1>4, <1>15

(* One element more. *)
LEMMA SumWith ==
    ASSUME NEW w, NEW S, IsFiniteSet(S), NEW x, x \notin S, Weights(w, S \cup {x})
    PROVE  SumFunctionOnSet(w, S \cup {x}) = SumFunctionOnSet(w, S) + w[x]
<1>1. IsFiniteSet(S \cup {x}) /\ (S \cup {x}) \ {x} = S /\ Weights(w, S)
  BY FS_AddElement DEF Weights
<1>2. SumFunctionOnSet(w, S \cup {x}) = w[x] + SumFunctionOnSet(w, S)
  BY <1>1, SumWithout
<1>3. w[x] \in Int /\ SumFunctionOnSet(w, S) \in Int
  BY <1>1, SumUnfolds DEF Weights
<1>. QED BY <1>2, <1>3

(* Only the weights of the elements matter. *)
LEMMA SumSame ==
    ASSUME NEW w, NEW v, NEW S, IsFiniteSet(S), Weights(w, S), \A x \in S : w[x] = v[x]
    PROVE  SumFunctionOnSet(w, S) = SumFunctionOnSet(v, S)
<1>1. Sums(w, S) = Sums(v, S)
  <2>1. ASSUME NEW s \in SUBSET S, s # {} PROVE w[Pick(s)] = v[Pick(s)]
    BY <2>1 DEF Pick
  <2>. QED BY <2>1 DEF Sums
<1>2. Weights(v, S)
  BY DEF Weights
<1>3. PICK g \in Sums(w, S) : TRUE
  BY SumsExist
<1>. QED BY <1>1, <1>2, <1>3, SumUnfolds

(* A sum of natural numbers is one, and not below any of them. *)
LEMMA SumNatural ==
    ASSUME NEW w, NEW S, IsFiniteSet(S), \A x \in S : w[x] \in Nat
    PROVE  SumFunctionOnSet(w, S) \in Nat /\ \A x \in S : w[x] <= SumFunctionOnSet(w, S)
<1>. DEFINE Bad == {U \in SUBSET S : SumFunctionOnSet(w, U) \notin Nat}
<1>1. Bad = {}
  <2>1. SUFFICES ASSUME Bad # {} PROVE FALSE
    OBVIOUS
  <2>2. \A U \in Bad : IsFiniteSet(U)
    BY FS_Subset
  <2>3. PICK U \in Bad : \A V \in Bad : ~(V \subseteq U /\ V # U)
    <3>. HIDE DEF Bad
    <3>. QED BY <2>1, <2>2, SetMin
  <2>4. U # {}
    BY SumEmpty
  <2>5. PICK x \in U : TRUE
    BY <2>4
  <2>6. IsFiniteSet(U) /\ Weights(w, U)
    BY FS_Subset DEF Weights
  <2>7. SumFunctionOnSet(w, U) = w[x] + SumFunctionOnSet(w, U \ {x})
    BY <2>6, SumWithout
  <2>8. SumFunctionOnSet(w, U \ {x}) \in Nat
    BY <2>3, <2>5
  <2>. QED BY <2>7, <2>8
<1>2. ASSUME NEW x \in S PROVE w[x] <= SumFunctionOnSet(w, S)
  <2>1. SumFunctionOnSet(w, S) = w[x] + SumFunctionOnSet(w, S \ {x})
    BY SumWithout DEF Weights
  <2>2. SumFunctionOnSet(w, S \ {x}) \in Nat
    BY <1>1
  <2>. QED BY <2>1, <2>2
<1>. QED BY <1>1, <1>2

(* One weight changed changes the sum by as much. *)
LEMMA SumChanged ==
    ASSUME NEW w, NEW v, NEW S, IsFiniteSet(S), Weights(w, S), Weights(v, S), NEW x \in S,
           \A y \in S : y # x => v[y] = w[y]
    PROVE  SumFunctionOnSet(v, S) + w[x] = SumFunctionOnSet(w, S) + v[x]
<1>. DEFINE T == S \ {x}
<1>1. IsFiniteSet(T) /\ Weights(w, T) /\ Weights(v, T) /\ \A y \in T : w[y] = v[y]
  BY FS_Subset DEF Weights
<1>2. /\ SumFunctionOnSet(w, S) = w[x] + SumFunctionOnSet(w, T)
      /\ SumFunctionOnSet(v, S) = v[x] + SumFunctionOnSet(v, T)
  BY SumWithout
<1>. HIDE DEF T
<1>3. SumFunctionOnSet(w, T) = SumFunctionOnSet(v, T) /\ SumFunctionOnSet(w, T) \in Int
  BY <1>1, SumSame, SumUnfolds
<1>4. w[x] \in Int /\ v[x] \in Int
  BY DEF Weights
<1>. QED BY <1>2, <1>3, <1>4

(* A sum of zeros. *)
LEMMA SumZero ==
    ASSUME NEW w, NEW S, IsFiniteSet(S), \A x \in S : w[x] = 0
    PROVE  SumFunctionOnSet(w, S) = 0
<1>. DEFINE Bad == {U \in SUBSET S : SumFunctionOnSet(w, U) # 0}
<1>1. SUFFICES ASSUME Bad # {} PROVE FALSE
  OBVIOUS
<1>2. \A U \in Bad : IsFiniteSet(U)
  BY FS_Subset
<1>3. PICK U \in Bad : \A V \in Bad : ~(V \subseteq U /\ V # U)
  <2>. HIDE DEF Bad
  <2>. QED BY <1>1, <1>2, SetMin
<1>4. PICK x \in U : TRUE
  BY SumEmpty
<1>5. SumFunctionOnSet(w, U) = w[x] + SumFunctionOnSet(w, U \ {x})
  BY <1>2, SumWithout DEF Weights
<1>6. SumFunctionOnSet(w, U \ {x}) = 0
  BY <1>3, <1>4
<1>. QED BY <1>5, <1>6

-----------------------------------------------------------------------------
(* Lists: what Filtered returns, by a least counterexample.                  *)

\* The functions that satisfy the recursion of Filtered up to n.
Filters(list, S, n) ==
    {f \in [0 .. n -> Seq(S)] :
        \A i \in 0 .. n :
            f[i] = IF i = 0 THEN << >>
                   ELSE IF list[i] \in S THEN Append(f[i - 1], list[i]) ELSE f[i - 1]}

(* There is one up to every n. *)
LEMMA FiltersExist ==
    ASSUME NEW list, NEW S, NEW n \in Nat
    PROVE  Filters(list, S, n) # {}
<1>. DEFINE Bad == {i \in Nat : Filters(list, S, i) = {}}
<1>1. SUFFICES ASSUME Bad # {} PROVE FALSE
  OBVIOUS
<1>2. PICK i \in Bad : \A j \in Bad : i <= j
  <2>1. Bad \subseteq Nat
    OBVIOUS
  <2>. HIDE DEF Bad
  <2>. QED BY <1>1, <2>1, NatMin
<1>3. i \in Nat /\ Filters(list, S, i) = {}
  OBVIOUS
<1>4. i # 0
  <2>1. [j \in 0 .. 0 |-> << >>] \in Filters(list, S, 0)
    BY DEF Filters
  <2>. QED BY <1>3, <2>1
<1>5. PICK f : f \in Filters(list, S, i - 1)
  <2>1. i - 1 \in Nat /\ ~(i <= i - 1)
    BY <1>3, <1>4
  <2>. QED BY <2>1, <1>2
<1>. DEFINE g == [j \in 0 .. i |-> IF j < i THEN f[j]
                                   ELSE IF list[i] \in S THEN Append(f[i - 1], list[i]) ELSE f[i - 1]]
<1>6. f[i - 1] \in Seq(S) /\ \A j \in 0 .. i - 1 : f[j] \in Seq(S)
  BY <1>3, <1>4, <1>5 DEF Filters
<1>7. g \in [0 .. i -> Seq(S)]
  BY <1>3, <1>4, <1>6
<1>8. \A j \in 0 .. i : g[j] = IF j = 0 THEN << >>
                               ELSE IF list[j] \in S THEN Append(g[j - 1], list[j]) ELSE g[j - 1]
  <2>. TAKE j \in 0 .. i
  <2>1. CASE j = i
    BY <2>1, <1>3, <1>4
  <2>2. CASE j < i
    <3>1. j \in 0 .. i - 1 /\ g[j] = f[j]
      BY <2>2, <1>3
    <3>2. j # 0 => j - 1 \in 0 .. i /\ g[j - 1] = f[j - 1]
      BY <2>2, <1>3
    <3>3. f[j] = IF j = 0 THEN << >> ELSE IF list[j] \in S THEN Append(f[j - 1], list[j]) ELSE f[j - 1]
      BY <3>1, <1>5 DEF Filters
    <3>. HIDE DEF g
    <3>. QED BY <3>1, <3>2, <3>3
  <2>. QED BY <2>1, <2>2, <1>3
<1>9. g \in Filters(list, S, i)
  <2>. HIDE DEF g
  <2>. QED BY <1>7, <1>8 DEF Filters
<1>. QED BY <1>3, <1>9

(* Filtered is the last value of any of them. *)
LEMMA FilteredIs ==
    ASSUME NEW T, NEW list \in Seq(T), NEW S, NEW f \in Filters(list, S, Len(list))
    PROVE  Filtered(list, S) = f[Len(list)]
<1>. DEFINE n == Len(list)
            Rec(h) == [i \in 0 .. n |->
                          IF i = 0 THEN << >>
                          ELSE IF list[i] \in S THEN Append(h[i - 1], list[i]) ELSE h[i - 1]]
            g == CHOOSE h : h = Rec(h)
<1>1. n \in Nat
  OBVIOUS
<1>2. f = Rec(f)
  BY <1>1 DEF Filters
<1>3. g = Rec(g)
  <2>. HIDE DEF Rec
  <2>. QED BY <1>2
<1>4. Filtered(list, S) = g[n]
  BY DEF Filtered
<1>5. \A i \in 0 .. n : g[i] = f[i]
  <2>. DEFINE Bad == {i \in 0 .. n : g[i] # f[i]}
  <2>1. SUFFICES ASSUME Bad # {} PROVE FALSE
    OBVIOUS
  <2>2. PICK i \in Bad : \A j \in Bad : i <= j
    <3>1. Bad \subseteq Nat
      BY <1>1
    <3>. HIDE DEF Bad
    <3>. QED BY <2>1, <3>1, NatMin
  <2>3. i \in 0 .. n /\ g[i] # f[i]
    OBVIOUS
  <2>4. g[i] = IF i = 0 THEN << >> ELSE IF list[i] \in S THEN Append(g[i - 1], list[i]) ELSE g[i - 1]
    <3>. HIDE DEF g, n
    <3>. QED BY <1>3, <2>3
  <2>5. f[i] = IF i = 0 THEN << >> ELSE IF list[i] \in S THEN Append(f[i - 1], list[i]) ELSE f[i - 1]
    <3>. HIDE DEF g, n
    <3>. QED BY <1>2, <2>3
  <2>6. i # 0 => g[i - 1] = f[i - 1]
    <3>1. i # 0 => i - 1 \in 0 .. n /\ ~(i <= i - 1)
      BY <2>3, <1>1
    <3>. QED BY <3>1, <2>2
  <2>. QED
    <3>. HIDE DEF g, n
    <3>. QED BY <2>3, <2>4, <2>5, <2>6
<1>. QED BY <1>1, <1>4, <1>5

(* What filters a list keeps the elements of the list that are in S, and is no longer. *)
LEMMA FilteredType ==
    ASSUME NEW T, NEW list \in Seq(T), NEW S
    PROVE  Filtered(list, S) \in Seq(T) /\ Len(Filtered(list, S)) <= Len(list)
<1>. DEFINE n == Len(list)
<1>1. PICK f : f \in Filters(list, S, n)
  BY FiltersExist
<1>2. Filtered(list, S) = f[n]
  BY <1>1, FilteredIs
<1>3. \A i \in 0 .. n : f[i] \in Seq(T) /\ Len(f[i]) <= i
  <2>. DEFINE Bad == {i \in 0 .. n : ~(f[i] \in Seq(T) /\ Len(f[i]) <= i)}
  <2>1. SUFFICES ASSUME Bad # {} PROVE FALSE
    OBVIOUS
  <2>2. PICK i \in Bad : \A j \in Bad : i <= j
    <3>1. Bad \subseteq Nat
      OBVIOUS
    <3>. HIDE DEF Bad
    <3>. QED BY <2>1, <3>1, NatMin
  <2>3. i \in 0 .. n /\ i \in Nat /\ ~(f[i] \in Seq(T) /\ Len(f[i]) <= i)
    OBVIOUS
  <2>4. f[i] = IF i = 0 THEN << >> ELSE IF list[i] \in S THEN Append(f[i - 1], list[i]) ELSE f[i - 1]
    BY <2>3, <1>1 DEF Filters
  <2>5. i # 0 => f[i - 1] \in Seq(T) /\ Len(f[i - 1]) <= i - 1 /\ list[i] \in T
    <3>1. i # 0 => i - 1 \in 0 .. n /\ ~(i <= i - 1) /\ i \in 1 .. Len(list)
      BY <2>3
    <3>. QED BY <3>1, <2>2
  <2>6. CASE i = 0
    BY <2>6, <2>3, <2>4
  <2>7. CASE i # 0
    <3>1. Append(f[i - 1], list[i]) \in Seq(T) /\ Len(Append(f[i - 1], list[i])) = Len(f[i - 1]) + 1
      BY <2>7, <2>5, AppendProperties
    <3>. QED BY <3>1, <2>7, <2>3, <2>4, <2>5
  <2>. QED BY <2>6, <2>7
<1>. QED BY <1>2, <1>3

\* One element more.
LEMMA FilteredAppend ==
    ASSUME NEW T, NEW list \in Seq(T), NEW S, NEW x \in T
    PROVE  Filtered(Append(list, x), S) = IF x \in S THEN Append(Filtered(list, S), x) ELSE Filtered(list, S)
<1>. DEFINE n == Len(list)
            more == Append(list, x)
<1>1. n \in Nat /\ more \in Seq(T) /\ Len(more) = n + 1 /\ more[n + 1] = x
      /\ \A i \in 1 .. n : more[i] = list[i]
  BY AppendProperties, LenProperties
<1>2. PICK f : f \in Filters(more, S, n + 1)
  <2>1. n + 1 \in Nat
    BY <1>1
  <2>. HIDE DEF n, more
  <2>. QED BY <2>1, FiltersExist
<1>. DEFINE g == [i \in 0 .. n |-> f[i]]
<1>. HIDE DEF n, more
<1>3. \A i \in 0 .. n + 1 :
          f[i] \in Seq(S)
          /\ f[i] = IF i = 0 THEN << >> ELSE IF more[i] \in S THEN Append(f[i - 1], more[i]) ELSE f[i - 1]
  BY <1>2 DEF Filters
<1>4. g \in Filters(list, S, n)
  <2>1. \A i \in 0 .. n : i \in 0 .. n + 1 /\ (i # 0 => i \in 1 .. n /\ i - 1 \in 0 .. n)
    BY <1>1
  <2>2. g \in [0 .. n -> Seq(S)]
    BY <1>3, <2>1
  <2>3. \A i \in 0 .. n :
            g[i] = IF i = 0 THEN << >> ELSE IF list[i] \in S THEN Append(g[i - 1], list[i]) ELSE g[i - 1]
    <3>. TAKE i \in 0 .. n
    <3>1. g[i] = f[i] /\ (i # 0 => g[i - 1] = f[i - 1] /\ more[i] = list[i])
      BY <1>1, <2>1
    <3>. HIDE DEF g
    <3>. QED BY <1>3, <2>1, <3>1
  <2>. HIDE DEF g
  <2>. QED BY <2>2, <2>3 DEF Filters
<1>5. Filtered(list, S) = f[n]
  <2>1. Filtered(list, S) = g[n]
    BY <1>4, FilteredIs DEF n
  <2>. QED BY <1>1, <2>1
<1>6. Filtered(more, S) = f[n + 1]
  BY <1>1, <1>2, FilteredIs
<1>7. f[n + 1] = IF x \in S THEN Append(f[n], x) ELSE f[n]
  <2>1. n + 1 \in 0 .. n + 1 /\ n + 1 # 0 /\ n + 1 - 1 = n
    BY <1>1
  <2>. QED BY <1>1, <1>3, <2>1
<1>. QED BY <1>5, <1>6, <1>7 DEF more

LEMMA RangeAppend ==
    ASSUME NEW T, NEW list \in Seq(T), NEW x \in T
    PROVE  /\ Range(Append(list, x)) = Range(list) \cup {x}
           /\ IsInjective(list) /\ x \notin Range(list) => IsInjective(Append(list, x))
<1>. DEFINE n == Len(list)
            more == Append(list, x)
<1>1. n \in Nat /\ DOMAIN list = 1 .. n /\ DOMAIN more = 1 .. n + 1 /\ more[n + 1] = x
      /\ \A i \in 1 .. n : more[i] = list[i]
  BY AppendProperties, LenProperties
<1>2. 1 .. n + 1 = (1 .. n) \cup {n + 1}
  BY <1>1
<1>. HIDE DEF n, more
<1>3. Range(more) = Range(list) \cup {x}
  BY <1>1, <1>2 DEF Range
<1>4. IsInjective(list) /\ x \notin Range(list) => IsInjective(more)
  BY <1>1, <1>2 DEF Range, IsInjective
<1>. QED BY <1>3, <1>4 DEF more

\* What filters a list keeps those elements that are in S, each as often as it was.
LEMMA FilteredKeeps ==
    ASSUME NEW T, NEW list \in Seq(T), NEW S
    PROVE  /\ Range(Filtered(list, S)) = Range(list) \cap S
           /\ IsInjective(list) => IsInjective(Filtered(list, S))
<1>. DEFINE n == Len(list)
            Before(i) == {list[j] : j \in 1 .. i}
<1>1. n \in Nat /\ DOMAIN list = 1 .. n /\ Range(list) = Before(n)
  BY LenProperties DEF Range
<1>2. PICK f : f \in Filters(list, S, n)
  <2>. HIDE DEF n
  <2>. QED BY <1>1, FiltersExist
<1>3. Filtered(list, S) = f[n]
  BY <1>2, FilteredIs
<1>. DEFINE Good(i) == f[i] \in Seq(S) /\ Range(f[i]) = Before(i) \cap S
                       /\ (IsInjective(list) => IsInjective(f[i]))
<1>4. \A i \in 0 .. n : Good(i)
  <2>. DEFINE Bad == {i \in 0 .. n : ~Good(i)}
  <2>1. SUFFICES ASSUME Bad # {} PROVE FALSE
    OBVIOUS
  <2>2. PICK i \in Bad : \A j \in Bad : i <= j
    <3>1. Bad \subseteq Nat
      OBVIOUS
    <3>. HIDE DEF Bad
    <3>. QED BY <2>1, <3>1, NatMin
  <2>3. i \in 0 .. n /\ i \in Nat /\ ~Good(i)
    OBVIOUS
  <2>. HIDE DEF n
  <2>4. f[i] = IF i = 0 THEN << >> ELSE IF list[i] \in S THEN Append(f[i - 1], list[i]) ELSE f[i - 1]
    BY <2>3, <1>2 DEF Filters
  <2>5. i # 0
    <3>1. Range(<< >>) = {} /\ IsInjective(<< >>) /\ << >> \in Seq(S)
      BY DEF Range, IsInjective
    <3>2. Before(0) = {}
      OBVIOUS
    <3>. HIDE DEF Before
    <3>. QED BY <2>3, <2>4, <3>1, <3>2
  <2>6. i - 1 \in 0 .. n /\ i \in 1 .. n
    BY <1>1, <2>3, <2>5
  <2>7. Good(i - 1)
    <3>1. ~(i <= i - 1)
      BY <2>3
    <3>. HIDE DEF Good
    <3>. QED BY <2>2, <2>6, <3>1
  <2>8. Before(i) = Before(i - 1) \cup {list[i]}
    <3>1. 1 .. i = (1 .. i - 1) \cup {i}
      BY <2>3, <2>5
    <3>. QED BY <3>1
  <2>9. IsInjective(list) => list[i] \notin Before(i - 1)
    <3>1. \A j \in 1 .. i - 1 : j \in 1 .. n /\ j # i
      BY <2>6, <1>1
    <3>. QED BY <2>6, <3>1, <1>1 DEF IsInjective
  <2>. HIDE DEF Before
  <2>10. CASE list[i] \in S
    <3>1. f[i] = Append(f[i - 1], list[i])
      BY <2>4, <2>5, <2>10
    <3>2. f[i] \in Seq(S) /\ Range(f[i]) = Range(f[i - 1]) \cup {list[i]}
          /\ (IsInjective(f[i - 1]) /\ list[i] \notin Range(f[i - 1]) => IsInjective(f[i]))
      BY <2>7, <2>10, <3>1, RangeAppend, AppendProperties
    <3>. QED BY <2>3, <2>7, <2>8, <2>9, <2>10, <3>2
  <2>11. CASE list[i] \notin S
    BY <2>3, <2>4, <2>5, <2>7, <2>8, <2>11
  <2>. QED BY <2>10, <2>11
<1>. QED
  <2>1. n \in 0 .. n
    BY <1>1
  <2>. HIDE DEF n, Before
  <2>. QED BY <1>1, <1>3, <1>4, <2>1

-----------------------------------------------------------------------------
(* Elements in line: each place is taken by exactly one of them. *)
LEMMA LinedUp ==
    ASSUME NEW M, IsFiniteSet(M), NEW before \in [M -> SUBSET M],
           \A i \in M : i \notin before[i],
           \A i, j \in M : i \in before[j] => before[i] \subseteq before[j],
           \A i, j \in M : i = j \/ i \in before[j] \/ j \in before[i]
    PROVE  /\ Cardinality(M) \in Nat
           /\ \A i, j \in M : Cardinality(before[i]) = Cardinality(before[j]) => i = j
           /\ \A k \in 1 .. Cardinality(M) : \E i \in M : Cardinality(before[i]) = k - 1
<1> DEFINE n == Cardinality(M)
           rank == [i \in M |-> Cardinality(before[i])]
           T == 0 .. n - 1
<1>1. n \in Nat
  BY FS_CardinalityType
<1>2. \A i \in M : IsFiniteSet(before[i]) /\ rank[i] \in Nat
  BY FS_Subset, FS_CardinalityType
<1>3. \A i \in M : rank[i] \in T
  <2>. SUFFICES ASSUME NEW i \in M PROVE rank[i] < n
    BY <1>1, <1>2
  <2>1. before[i] \in SUBSET M /\ before[i] # M
    OBVIOUS
  <2>2. Cardinality(before[i]) <= Cardinality(M) /\ Cardinality(before[i]) # Cardinality(M)
    BY <2>1, FS_Subset
  <2>. QED BY <1>1, <1>2, <2>2
<1>4. \A i, j \in M : i \in before[j] => rank[i] # rank[j]
  <2>. SUFFICES ASSUME NEW i \in M, NEW j \in M, i \in before[j] PROVE rank[i] # rank[j]
    OBVIOUS
  <2>1. before[i] \in SUBSET before[j] /\ before[i] # before[j]
    OBVIOUS
  <2>. QED BY <1>2, <2>1, FS_Subset
<1>5. \A i, j \in M : rank[i] = rank[j] => i = j
  BY <1>4
<1>6. IsFiniteSet(T) /\ Cardinality(T) = n
  <2>1. 0 \in Int /\ n - 1 \in Int /\ (IF 0 > n - 1 THEN 0 ELSE n - 1 - 0 + 1) = n
    BY <1>1
  <2>. HIDE DEF n
  <2>. QED BY <2>1, FS_Interval
<1>. HIDE DEF T
<1>7. rank \in Injection(M, T)
  BY <1>3, <1>5 DEF Injection, IsInjective
<1>8. rank \in Surjection(M, T)
  <2>. HIDE DEF rank
  <2>. QED BY <1>6, <1>7, FS_Injection
<1>9. \A t \in T : \E i \in M : rank[i] = t
  BY <1>8 DEF Surjection
<1>10. ASSUME NEW k \in 1 .. Cardinality(M) PROVE \E i \in M : Cardinality(before[i]) = k - 1
  <2>1. k - 1 \in T
    BY <1>1 DEF T
  <2>. QED BY <1>9, <2>1
<1>. QED BY <1>1, <1>5, <1>10
=============================================================================
