-------------------------- MODULE HierarchyLemmas --------------------------
(***************************************************************************)
(* Facts about the display-names of a hierarchy, of any shape and size,    *)
(* and about the sums of the quotas in it, which the proofs of several     *)
(* modules rest on.                                                        *)
(*                                                                         *)
(* Both are defined by recursion, the names along the parents, the sums    *)
(* along the elements of a finite set.  The proofs are by minimal          *)
(* counterexample: among the namespaces for which a fact fails there would *)
(* be one at the least depth, but its parent is less deep; among the sets  *)
(* for which it fails there would be one without a smaller one in it.      *)
(***************************************************************************)
EXTENDS Integers, Sequences, Functions, TLAPS, WellFoundedInduction, FiniteSetTheorems

(***************************************************************************)
(* Every nonempty set of naturals has a least element.                     *)
(***************************************************************************)
LEMMA LeastNatural ==
    ASSUME NEW T \in SUBSET Nat, T # {}
    PROVE  \E m \in T : \A x \in T : m <= x
  <1>1. PICK m \in T : \A x \in T : ~ (<<x, m>> \in OpToRel(<, Nat))
    BY NatLessThanWellFounded, WFMin
  <1>2. \A x \in T : ~ (x < m)
    BY <1>1 DEF OpToRel
  <1>3. QED
    BY <1>2

\* The nodes N below the root R, with the display-names D: each is the parent's name and its own.
Above(D, n) == D[n][Len(D[n]) - 1]

IsHierarchy(N, R, D) ==
    /\ R \in N
    /\ D \in [N -> Seq(N)]
    /\ D[R] = <<R>>
    /\ \A n \in N \ {R} : Len(D[n]) > 1 /\ D[n] = Append(D[Above(D, n)], n)

\* The name at position i is that of a namespace at depth i, whose display-name is the part up to it.
WellNamed(N, R, D, n) ==
    /\ D[n][1] = R
    /\ D[n][Len(D[n])] = n
    /\ \A i \in 1..Len(D[n]) : /\ D[n][i] \in N
                               /\ Len(D[D[n][i]]) = i
                               /\ \A j \in 1..i : D[D[n][i]][j] = D[n][j]

(***************************************************************************)
(* A display-name is one longer than the parent's, which it begins with.   *)
(***************************************************************************)
LEMMA NameOfParent ==
    ASSUME NEW N, NEW R, NEW D, IsHierarchy(N, R, D), NEW n \in N \ {R}
    PROVE  /\ Above(D, n) \in N
           /\ Len(D[Above(D, n)]) \in Nat /\ Len(D[n]) = Len(D[Above(D, n)]) + 1
           /\ \A i \in 1..Len(D[Above(D, n)]) : D[n][i] = D[Above(D, n)][i]
           /\ D[n][Len(D[n])] = n
  <1>1. D[n] \in Seq(N) /\ Len(D[n]) > 1 /\ D[n] = Append(D[Above(D, n)], n)
    BY DEF IsHierarchy
  <1>2. Above(D, n) \in N
    BY <1>1 DEF Above
  <1>3. D[Above(D, n)] \in Seq(N)
    BY <1>2 DEF IsHierarchy
  <1>4. QED
    BY <1>1, <1>2, <1>3

(***************************************************************************)
(* A display-name begins with the root, ends with the namespace, and each  *)
(* name in it is that of a namespace at that depth and on that way.        *)
(***************************************************************************)
LEMMA NamesOnTheWay ==
    ASSUME NEW N, NEW R, NEW D, IsHierarchy(N, R, D), NEW n \in N
    PROVE  D[n] \in Seq(N) /\ Len(D[n]) \in Nat \ {0} /\ WellNamed(N, R, D, n)
  <1>r. R \in N /\ D[R] = <<R>> /\ Len(<<R>>) = 1 /\ <<R>>[1] = R
    BY DEF IsHierarchy
  <1>0. \A m \in N : D[m] \in Seq(N) /\ Len(D[m]) \in Nat \ {0}
    <2> SUFFICES ASSUME NEW m \in N PROVE D[m] \in Seq(N) /\ Len(D[m]) \in Nat \ {0}
      OBVIOUS
    <2>1. D[m] \in Seq(N) /\ Len(D[m]) \in Nat
      BY DEF IsHierarchy
    <2>2. m # R => Len(D[m]) > 1
      BY DEF IsHierarchy
    <2>3. QED
      BY <1>r, <2>1, <2>2
  <1> DEFINE T == {Len(D[m]) : m \in {k \in N : ~WellNamed(N, R, D, k)}}
  <1>1. SUFFICES ASSUME T # {} PROVE FALSE
    BY <1>0
  <1>2. T \in SUBSET Nat
    BY <1>0
  <1> HIDE DEF T
  <1>3. PICK d \in T : \A x \in T : d <= x
    BY <1>1, <1>2, LeastNatural
  <1>4. PICK m \in N : ~WellNamed(N, R, D, m) /\ d = Len(D[m])
    BY <1>3 DEF T
  <1>5. CASE m = R
    <2>1. \A i \in 1..1 : i = 1
      OBVIOUS
    <2>2. WellNamed(N, R, D, R)
      BY <1>r, <2>1 DEF WellNamed
    <2>3. QED
      BY <1>4, <1>5, <2>2
  <1>6. CASE m # R
    <2> DEFINE p == Above(D, m)
    <2>1. /\ p \in N /\ Len(D[p]) \in Nat /\ Len(D[m]) = Len(D[p]) + 1
          /\ \A i \in 1..Len(D[p]) : D[m][i] = D[p][i]
          /\ D[m][Len(D[m])] = m
      BY <1>6, NameOfParent
    <2> HIDE DEF p
    <2>2. WellNamed(N, R, D, p)
      <3>1. Len(D[p]) < d
        BY <1>4, <2>1
      <3>2. Len(D[p]) \notin T
        BY <1>2, <1>3, <2>1, <3>1
      <3>3. QED
        BY <2>1, <3>2 DEF T
    <2>3. Len(D[p]) # 0
      BY <1>0, <2>1
    <2>4. ASSUME NEW i \in 1..Len(D[m])
          PROVE  D[m][i] \in N /\ Len(D[D[m][i]]) = i /\ \A j \in 1..i : D[D[m][i]][j] = D[m][j]
      <3>1. CASE i = Len(D[m])
        BY <2>1, <3>1
      <3>2. CASE i # Len(D[m])
        <4>1. i \in 1..Len(D[p]) /\ \A j \in 1..i : j \in 1..Len(D[p])
          BY <2>1, <3>2
        <4>2. QED
          BY <2>1, <2>2, <4>1 DEF WellNamed
      <3>3. QED
        BY <3>1, <3>2
    <2>5. D[m][1] = R
      BY <2>1, <2>2, <2>3 DEF WellNamed
    <2>6. WellNamed(N, R, D, m)
      BY <2>1, <2>4, <2>5 DEF WellNamed
    <2>7. QED
      BY <1>4, <2>6
  <1>7. QED
    BY <1>5, <1>6

(***************************************************************************)
(* Sorting: in a strict total order of 1..d, given by what is below each,  *)
(* every number of predecessors from 0 to d - 1 is that of some element.   *)
(***************************************************************************)
LEMMA EveryRank ==
    ASSUME NEW d \in Nat,
           NEW Below \in [1..d -> SUBSET (1..d)],
           \A x \in 1..d : x \notin Below[x],
           \A x, y, z \in 1..d : x \in Below[y] /\ y \in Below[z] => x \in Below[z],
           \A x, y \in 1..d : x = y \/ x \in Below[y] \/ y \in Below[x]
    PROVE  \A i \in 1..d : \E x \in 1..d : Cardinality(Below[x]) = i - 1
  <1> DEFINE rank == [x \in 1..d |-> Cardinality(Below[x])]
  <1>1. IsFiniteSet(1..d) /\ Cardinality(1..d) = d /\ IsFiniteSet(0..(d - 1)) /\ Cardinality(0..(d - 1)) = d
    <2>1. IsFiniteSet(1..d) /\ Cardinality(1..d) = IF 1 > d THEN 0 ELSE d - 1 + 1
      BY FS_Interval
    <2>2. 0 \in Int /\ d - 1 \in Int
      OBVIOUS
    <2>3. IsFiniteSet(0..(d - 1)) /\ Cardinality(0..(d - 1)) = IF 0 > d - 1 THEN 0 ELSE d - 1 - 0 + 1
      BY <2>2, FS_Interval
    <2>4. QED
      BY <2>1, <2>3
  <1>2. ASSUME NEW x \in 1..d
        PROVE  IsFiniteSet(Below[x]) /\ Cardinality(Below[x]) \in 0..(d - 1)
    <2>1. IsFiniteSet((1..d) \ {x}) /\ Cardinality((1..d) \ {x}) = d - 1
      BY <1>1, FS_RemoveElement
    <2>2. Below[x] \in SUBSET ((1..d) \ {x})
      OBVIOUS
    <2>3. IsFiniteSet(Below[x]) /\ Cardinality(Below[x]) <= d - 1
      BY <2>1, <2>2, FS_Subset
    <2>4. Cardinality(Below[x]) \in Nat
      BY <2>3, FS_CardinalityType
    <2>5. QED
      BY <2>3, <2>4
  <1>3. ASSUME NEW x \in 1..d, NEW y \in 1..d, x \in Below[y]
        PROVE  Cardinality(Below[x]) # Cardinality(Below[y])
    <2>1. Below[x] \in SUBSET Below[y] /\ Below[x] # Below[y]
      BY <1>3
    <2>2. QED
      BY <1>2, <2>1, FS_Subset
  <1>4. rank \in Injection(1..d, 0..(d - 1))
    <2>1. rank \in [1..d -> 0..(d - 1)]
      BY <1>2
    <2>2. \A x, y \in 1..d : rank[x] = rank[y] => x = y
      BY <1>3
    <2>3. QED
      BY <2>1, <2>2 DEF Injection, IsInjective
  <1>5. rank \in Surjection(1..d, 0..(d - 1))
    BY <1>1, <1>4, FS_Injection
  <1>6. \A i \in 1..d : i - 1 \in 0..(d - 1)
    OBVIOUS
  <1>7. QED
    BY <1>5, <1>6 DEF Surjection
-----------------------------------------------------------------------------
(***************************************************************************)
(* Among sets of members of a finite set there is one that is not in the   *)
(* collection any more when any of its elements is taken away.             *)
(***************************************************************************)
LEMMA MinimalSet ==
    ASSUME NEW S, IsFiniteSet(S), NEW Bad \in SUBSET (SUBSET S), Bad # {}
    PROVE  \E t \in Bad : \A x \in t : t \ {x} \notin Bad
  <1> DEFINE Sizes == {Cardinality(t) : t \in Bad}
  <1>1. \A t \in Bad : IsFiniteSet(t) /\ Cardinality(t) \in Nat
    BY FS_Subset, FS_CardinalityType
  <1>2. Sizes \in SUBSET Nat /\ Sizes # {}
    BY <1>1
  <1>3. \E m \in Sizes : \A x \in Sizes : m <= x
    <2> HIDE DEF Sizes
    <2> QED
      BY <1>2, LeastNatural
  <1>4. PICK t \in Bad : \A u \in Bad : Cardinality(t) <= Cardinality(u)
    BY <1>3
  <1>5. \A x \in t : Cardinality(t \ {x}) = Cardinality(t) - 1
    BY <1>1, FS_RemoveElement
  <1>6. QED
    BY <1>1, <1>4, <1>5
-----------------------------------------------------------------------------
(***************************************************************************)
(* SumFunctionOnSet is a recursive function on the subsets of a finite     *)
(* set.                                                                    *)
(***************************************************************************)
Pick(s) == CHOOSE x \in s : TRUE

\* F sums up f over the members of D, a set of sets closed under removing the element picked.
Sums(F, f, D) == F = [s \in D |-> IF s = {} THEN 0 ELSE f[Pick(s)] + F[s \ {Pick(s)}]]

IsSum(F, f, S) == Sums(F, f, SUBSET S)

(***************************************************************************)
(* The library's definition, which folds over the set, is such a function. *)
(***************************************************************************)
LEMMA SumIsChosen ==
    ASSUME NEW f, NEW S
    PROVE  SumFunctionOnSet(f, S) = (CHOOSE F : Sums(F, f, SUBSET S))[S]
  BY SMT DEF SumFunctionOnSet, FoldFunctionOnSet, MapThenFoldSet, Sums, Pick

(***************************************************************************)
(* A nonempty set has an element to pick.                                  *)
(***************************************************************************)
LEMMA PickOne ==
    ASSUME NEW s, s # {}
    PROVE  Pick(s) \in s
  BY Zenon DEF Pick

(***************************************************************************)
(* It exists: sets of at most n elements need the sums of those of at most *)
(* n - 1 only.                                                             *)
(***************************************************************************)
LEMMA SumExists ==
    ASSUME NEW f, NEW S, IsFiniteSet(S)
    PROVE  \E F : Sums(F, f, SUBSET S)
  <1> DEFINE L(n) == {s \in SUBSET S : Cardinality(s) <= n}
             Bad == {n \in Nat : ~ \E F : Sums(F, f, L(n))}
  <1>0. \A s \in SUBSET S : IsFiniteSet(s) /\ Cardinality(s) \in Nat /\ (Cardinality(s) = 0 <=> s = {})
    BY FS_Subset, FS_CardinalityType, FS_EmptySet
  <1>1. Bad = {}
    <2>1. SUFFICES ASSUME Bad # {} PROVE FALSE
      OBVIOUS
    <2>2. PICK m \in Bad : \A x \in Bad : m <= x
      <3>1. Bad \in SUBSET Nat
        OBVIOUS
      <3> HIDE DEF Bad
      <3>2. QED
        BY <2>1, <3>1, LeastNatural
    <2>3. m # 0
      <3>1. SUFFICES ASSUME m = 0 PROVE \E F : Sums(F, f, L(m))
        OBVIOUS
      <3>2. \A s \in L(m) : s = {}
        BY <1>0, <3>1
      <3> DEFINE Z == [s \in L(m) |-> 0]
      <3>3. Sums(Z, f, L(m))
        BY <3>2 DEF Sums
      <3> HIDE DEF Z, L
      <3>4. QED
        BY <3>3
    <2>4. m - 1 \in Nat /\ m - 1 \notin Bad
      <3>1. m \in Nat
        OBVIOUS
      <3> HIDE DEF Bad
      <3>2. QED
        BY <2>2, <2>3, <3>1
    <2>5. PICK G : Sums(G, f, L(m - 1))
      BY <2>4
    <2> DEFINE H == [s \in L(m) |-> IF s = {} THEN 0 ELSE f[Pick(s)] + G[s \ {Pick(s)}]]
    <2>6. ASSUME NEW s \in L(m), s # {} PROVE s \ {Pick(s)} \in L(m - 1) /\ s \ {Pick(s)} \in L(m)
      <3>1. Cardinality(s \ {Pick(s)}) = Cardinality(s) - 1 /\ s \ {Pick(s)} \in SUBSET S
        BY <1>0, <2>6, PickOne, FS_RemoveElement
      <3>2. Cardinality(s) \in Nat /\ Cardinality(s) <= m
        BY <1>0
      <3>3. QED
        BY <3>1, <3>2
    <2>7. ASSUME NEW s \in L(m - 1) PROVE H[s] = G[s]
      <3>1. s \in L(m)
        BY <1>0
      <3>2. G[s] = IF s = {} THEN 0 ELSE f[Pick(s)] + G[s \ {Pick(s)}]
        BY <2>5 DEF Sums
      <3>3. QED
        BY <3>1, <3>2
    <2>8. ASSUME NEW s \in L(m) PROVE H[s] = IF s = {} THEN 0 ELSE f[Pick(s)] + H[s \ {Pick(s)}]
      BY <2>6, <2>7
    <2>9. Sums(H, f, L(m))
      <3>1. H = [s \in L(m) |-> H[s]]
        OBVIOUS
      <3> HIDE DEF H
      <3>2. [s \in L(m) |-> H[s]] = [s \in L(m) |-> IF s = {} THEN 0 ELSE f[Pick(s)] + H[s \ {Pick(s)}]]
        BY <2>8
      <3>3. QED
        BY <3>1, <3>2 DEF Sums
    <2>10. QED
      <3> HIDE DEF H, L
      <3> QED
        BY <2>9
  <1>2. Cardinality(S) \in Nat /\ L(Cardinality(S)) = SUBSET S
    BY FS_CardinalityType, FS_Subset
  <1>3. QED
    BY <1>1, <1>2

(***************************************************************************)
(* It is the same function on the subsets of a smaller set.                *)
(***************************************************************************)
LEMMA SumsAgree ==
    ASSUME NEW f, NEW S, IsFiniteSet(S), NEW F, IsSum(F, f, S),
           NEW T \in SUBSET S, NEW G, IsSum(G, f, T)
    PROVE  F[T] = G[T]
  <1> DEFINE Bad == {t \in SUBSET T : F[t] # G[t]}
  <1>1. SUFFICES ASSUME Bad # {} PROVE FALSE
    OBVIOUS
  <1>2. PICK t \in Bad : \A x \in t : t \ {x} \notin Bad
    <2>1. Bad \in SUBSET (SUBSET S)
      OBVIOUS
    <2> HIDE DEF Bad
    <2>2. QED
      BY <1>1, <2>1, MinimalSet
  <1>3. /\ F[t] = IF t = {} THEN 0 ELSE f[Pick(t)] + F[t \ {Pick(t)}]
        /\ G[t] = IF t = {} THEN 0 ELSE f[Pick(t)] + G[t \ {Pick(t)}]
    BY DEF IsSum, Sums
  <1>4. QED
    BY <1>2, <1>3, PickOne

(***************************************************************************)
(* So a sum is one term and the sum of the others.                         *)
(***************************************************************************)
LEMMA SumRecursion ==
    ASSUME NEW f, NEW S, IsFiniteSet(S)
    PROVE  /\ S = {} => SumFunctionOnSet(f, S) = 0
           /\ S # {} => SumFunctionOnSet(f, S) = f[Pick(S)] + SumFunctionOnSet(f, S \ {Pick(S)})
  <1> DEFINE F == CHOOSE F : IsSum(F, f, S)
             T == S \ {Pick(S)}
             G == CHOOSE G : IsSum(G, f, T)
  <1>1. IsFiniteSet(T) /\ T \in SUBSET S
    BY FS_Subset
  <1>2. IsSum(F, f, S) /\ IsSum(G, f, T)
    BY <1>1, SumExists DEF IsSum
  <1>3. SumFunctionOnSet(f, S) = F[S] /\ SumFunctionOnSet(f, T) = G[T]
    BY SumIsChosen DEF IsSum
  <1>5. F[S] = IF S = {} THEN 0 ELSE f[Pick(S)] + F[T]
    <2> HIDE DEF F
    <2> QED
      BY <1>2 DEF IsSum, Sums
  <1>4. F[T] = G[T]
    <2> HIDE DEF F, G, T
    <2> QED
      BY <1>1, <1>2, SumsAgree
  <1> HIDE DEF F, G, T
  <1>6. QED
    BY <1>3, <1>4, <1>5 DEF T
-----------------------------------------------------------------------------
(***************************************************************************)
(* A sum of integers is an integer.                                        *)
(***************************************************************************)
LEMMA SumType ==
    ASSUME NEW f, NEW S, IsFiniteSet(S), \A x \in S : f[x] \in Int
    PROVE  SumFunctionOnSet(f, S) \in Int
  <1> DEFINE Bad == {t \in SUBSET S : SumFunctionOnSet(f, t) \notin Int}
  <1>1. SUFFICES ASSUME Bad # {} PROVE FALSE
    OBVIOUS
  <1>2. PICK t \in Bad : \A x \in t : t \ {x} \notin Bad
    <2>1. Bad \in SUBSET (SUBSET S)
      OBVIOUS
    <2> HIDE DEF Bad
    <2>2. QED
      BY <1>1, <2>1, MinimalSet
  <1>3. IsFiniteSet(t)
    BY FS_Subset
  <1>4. SumFunctionOnSet(f, t) \notin Int
    OBVIOUS
  <1>5. t # {}
    <2>1. t = {} => SumFunctionOnSet(f, t) = 0
      BY <1>3, SumRecursion
    <2>2. QED
      BY <1>4, <2>1
  <1>6. Pick(t) \in t /\ f[Pick(t)] \in Int
    BY <1>5, PickOne
  <1>7. SumFunctionOnSet(f, t \ {Pick(t)}) \in Int
    BY <1>2, <1>6
  <1>8. QED
    BY <1>3, <1>4, <1>5, <1>6, <1>7, SumRecursion

(***************************************************************************)
(* The order does not matter: any element can be taken out of the sum.     *)
(***************************************************************************)
LEMMA SumWithout ==
    ASSUME NEW f, NEW S, IsFiniteSet(S), \A x \in S : f[x] \in Int, NEW x \in S
    PROVE  SumFunctionOnSet(f, S) = f[x] + SumFunctionOnSet(f, S \ {x})
  <1> DEFINE Sum(t) == SumFunctionOnSet(f, t)
             Bad == {t \in SUBSET S : \E y \in t : Sum(t) # f[y] + Sum(t \ {y})}
  <1>1. SUFFICES ASSUME Bad # {} PROVE FALSE
    OBVIOUS
  <1>2. PICK t \in Bad : \A z \in t : t \ {z} \notin Bad
    <2>1. Bad \in SUBSET (SUBSET S)
      OBVIOUS
    <2> HIDE DEF Bad
    <2>2. QED
      BY <1>1, <2>1, MinimalSet
  <1>3. PICK y \in t : Sum(t) # f[y] + Sum(t \ {y})
    OBVIOUS
  <1> DEFINE p == Pick(t)
  <1>4. p \in t /\ IsFiniteSet(t) /\ \A u \in SUBSET t : IsFiniteSet(u) /\ Sum(u) \in Int
    BY PickOne, FS_Subset, SumType
  <1>5. Sum(t) = f[p] + Sum(t \ {p})
    BY <1>4, SumRecursion
  <1>6. p # y
    BY <1>3, <1>5
  <1> DEFINE r == t \ {p, y}
  <1>7. Sum(t \ {p}) = f[y] + Sum(r)
    <2>1. (t \ {p}) \ {y} = r
      OBVIOUS
    <2>2. Sum(t \ {p}) = f[y] + Sum((t \ {p}) \ {y})
      BY <1>2, <1>4, <1>6
    <2>3. QED
      BY <2>1, <2>2
  <1>8. Sum(t \ {y}) = f[p] + Sum(r)
    <2>1. (t \ {y}) \ {p} = r
      OBVIOUS
    <2>2. Sum(t \ {y}) = f[p] + Sum((t \ {y}) \ {p})
      BY <1>2, <1>4, <1>6
    <2>3. QED
      BY <2>1, <2>2
  <1>9. Sum(r) \in Int /\ f[p] \in Int /\ f[y] \in Int
    BY <1>4
  <1> HIDE DEF Sum, p, r, Bad
  <1>10. f[p] + (f[y] + Sum(r)) = f[y] + (f[p] + Sum(r))
    BY <1>9
  <1>11. QED
    BY <1>3, <1>5, <1>7, <1>8, <1>10

(***************************************************************************)
(* Sums are compared term by term; terms that are missing count as zero.   *)
(***************************************************************************)
LEMMA SumAtMost ==
    ASSUME NEW S, IsFiniteSet(S), NEW A \in SUBSET S, NEW B \in SUBSET S, NEW f, NEW g,
           \A x \in A : f[x] \in Int, \A x \in B : g[x] \in Int,
           \A x \in A \cap B : f[x] <= g[x], \A x \in A \ B : f[x] <= 0, \A x \in B \ A : 0 <= g[x]
    PROVE  SumFunctionOnSet(f, A) <= SumFunctionOnSet(g, B)
  <1> DEFINE F(t) == SumFunctionOnSet(f, t \cap A)
             G(t) == SumFunctionOnSet(g, t \cap B)
             Bad == {t \in SUBSET S : ~(F(t) <= G(t))}
  <1>1. SUFFICES ASSUME Bad # {} PROVE FALSE
    <2>1. S \cap A = A /\ S \cap B = B
      OBVIOUS
    <2>2. QED
      BY <2>1
  <1>2. PICK t \in Bad : \A z \in t : t \ {z} \notin Bad
    <2>1. Bad \in SUBSET (SUBSET S)
      OBVIOUS
    <2> HIDE DEF Bad
    <2>2. QED
      BY <1>1, <2>1, MinimalSet
  <1>3. \A u \in SUBSET t : IsFiniteSet(u \cap A) /\ IsFiniteSet(u \cap B) /\ F(u) \in Int /\ G(u) \in Int
    BY FS_Subset, SumType
  <1>4. CASE t = {}
    <2>1. F(t) = 0 /\ G(t) = 0
      <3>1. t \cap A = {} /\ t \cap B = {}
        BY <1>4
      <3>2. QED
        BY <1>3, <1>4, <3>1, SumRecursion
    <2>2. QED
      BY <2>1
  <1>5. CASE t # {}
    <2>1. PICK x : x \in t
      BY <1>5
    <2>2. F(t \ {x}) <= G(t \ {x})
      BY <1>2, <2>1
    <2>3. F(t) = IF x \in A THEN f[x] + F(t \ {x}) ELSE F(t \ {x})
      <3>1. CASE x \in A
        <4>1. (t \cap A) \ {x} = (t \ {x}) \cap A
          OBVIOUS
        <4>2. IsFiniteSet(t \cap A) /\ x \in t \cap A /\ \A y \in t \cap A : f[y] \in Int
          BY <1>3, <2>1, <3>1
        <4>3. SumFunctionOnSet(f, t \cap A) = f[x] + SumFunctionOnSet(f, (t \cap A) \ {x})
          <5> DEFINE u == t \cap A
          <5> HIDE DEF u, Bad, F, G
          <5> QED
            BY <4>2, SumWithout DEF u
        <4>4. QED
          BY <3>1, <4>1, <4>3
      <3>2. CASE x \notin A
        <4>1. t \cap A = (t \ {x}) \cap A
          BY <3>2
        <4>2. QED
          BY <3>2, <4>1
      <3>3. QED
        BY <3>1, <3>2
    <2>4. G(t) = IF x \in B THEN g[x] + G(t \ {x}) ELSE G(t \ {x})
      <3>1. CASE x \in B
        <4>1. (t \cap B) \ {x} = (t \ {x}) \cap B
          OBVIOUS
        <4>2. IsFiniteSet(t \cap B) /\ x \in t \cap B /\ \A y \in t \cap B : g[y] \in Int
          BY <1>3, <2>1, <3>1
        <4>3. SumFunctionOnSet(g, t \cap B) = g[x] + SumFunctionOnSet(g, (t \cap B) \ {x})
          <5> DEFINE u == t \cap B
          <5> HIDE DEF u, Bad, F, G
          <5> QED
            BY <4>2, SumWithout DEF u
        <4>4. QED
          BY <3>1, <4>1, <4>3
      <3>2. CASE x \notin B
        <4>1. t \cap B = (t \ {x}) \cap B
          BY <3>2
        <4>2. QED
          BY <3>2, <4>1
      <3>3. QED
        BY <3>1, <3>2
    <2>5. F(t \ {x}) \in Int /\ G(t \ {x}) \in Int
      BY <1>3
    <2>6. /\ x \in A => f[x] \in Int
          /\ x \in B => g[x] \in Int
          /\ x \in A /\ x \in B => f[x] <= g[x]
          /\ x \in A /\ x \notin B => f[x] <= 0
          /\ x \notin A /\ x \in B => 0 <= g[x]
      OBVIOUS
    <2>7. ~(F(t) <= G(t))
      OBVIOUS
    <2> HIDE DEF F, G, Bad
    <2>8. QED
      BY <2>2, <2>3, <2>4, <2>5, <2>6, <2>7
  <1>6. QED
    BY <1>4, <1>5

(***************************************************************************)
(* Two sums of which each term of one is a term of the other, or zero, are *)
(* the same.                                                               *)
(***************************************************************************)
LEMMA SumSame ==
    ASSUME NEW S, IsFiniteSet(S), NEW A \in SUBSET S, NEW B \in SUBSET S, NEW f, NEW g,
           \A x \in A : f[x] \in Int, \A x \in B : g[x] \in Int,
           \A x \in A \cap B : f[x] = g[x], \A x \in A \ B : f[x] = 0, \A x \in B \ A : g[x] = 0
    PROVE  SumFunctionOnSet(f, A) = SumFunctionOnSet(g, B)
  <1>1. IsFiniteSet(A) /\ IsFiniteSet(B)
    BY FS_Subset
  <1>2. SumFunctionOnSet(f, A) \in Int /\ SumFunctionOnSet(g, B) \in Int
    BY <1>1, SumType
  <1>3. SumFunctionOnSet(f, A) <= SumFunctionOnSet(g, B)
    BY SumAtMost
  <1>4. SumFunctionOnSet(g, B) <= SumFunctionOnSet(f, A)
    BY SumAtMost
  <1>5. QED
    BY <1>2, <1>3, <1>4

(***************************************************************************)
(* SumFunction of a function with a changed value.                         *)
(***************************************************************************)
LEMMA SumChanged ==
    ASSUME NEW S, IsFiniteSet(S), NEW f \in [S -> Int], NEW x \in S, NEW g \in [S -> Int],
           \A y \in S \ {x} : g[y] = f[y]
    PROVE  /\ SumFunction(f) \in Int
           /\ SumFunction(g) = SumFunction(f) - f[x] + g[x]
  <1>1. DOMAIN f = S /\ DOMAIN g = S /\ S \ {x} \in SUBSET S /\ IsFiniteSet(S \ {x})
    BY FS_Subset
  <1>2. SumFunctionOnSet(f, S \ {x}) = SumFunctionOnSet(g, S \ {x})
    BY <1>1, SumSame
  <1>3. /\ SumFunctionOnSet(f, S) = f[x] + SumFunctionOnSet(f, S \ {x})
        /\ SumFunctionOnSet(g, S) = g[x] + SumFunctionOnSet(g, S \ {x})
    BY SumWithout
  <1>4. SumFunctionOnSet(f, S \ {x}) \in Int /\ f[x] \in Int /\ g[x] \in Int
    BY <1>1, SumType
  <1>5. SumFunction(f) = SumFunctionOnSet(f, S) /\ SumFunction(g) = SumFunctionOnSet(g, S)
    BY <1>1 DEF SumFunction
  <1>6. QED
    BY <1>2, <1>3, <1>4, <1>5
=============================================================================
