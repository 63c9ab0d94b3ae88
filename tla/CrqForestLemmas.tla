-------------------------- MODULE CrqForestLemmas --------------------------
(***************************************************************************)
(* What the operations on the forest of the namespace DB do with its       *)
(* entries, and what a rebuild puts into it, for any hierarchy.            *)
(***************************************************************************)
EXTENDS CrqForest, HierarchyLemmas, SequenceTheorems

(***************************************************************************)
(* The depths are strings when they are sorted, and several namespaces may *)
(* have the same; the order is a total one all the same, so there is an    *)
(* i-th namespace for every i.                                             *)
(***************************************************************************)
LEMMA SortedPlaceIn ==
    ASSUME NEW p, NEW depth, Len(p) \in Nat, \A i \in 2..Len(p) : depth[p[i]] \in Nat, NEW i \in 1..(Len(p) - 1)
    PROVE  SortedPlace(p, depth, i) \in 1..(Len(p) - 1)
  <1> DEFINE d == Len(p) - 1
             a == [x \in 1..d |-> depth[p[x + 1]]]
             Below == [x \in 1..d |-> {y \in 1..d : SortedBefore(p, depth, y, x)}]
  <1>0. d \in Nat /\ i \in 1..d
    OBVIOUS
  <1>1. \A x \in 1..d : a[x] \in Nat
    <2>1. \A x \in 1..d : x + 1 \in 2..Len(p)
      OBVIOUS
    <2>2. QED
      BY <2>1
  <1>2. \A x \in 1..d : x \in Int /\ a[x] \in Int /\ FirstDigit(a[x]) \in Int
    BY <1>0, <1>1 DEF FirstDigit
  <1>3. \A x, y \in 1..d : y \in Below[x] <=> StringLess(a[y], a[x]) \/ (a[y] = a[x] /\ y > x)
    BY DEF SortedBefore
  <1>4. Below \in [1..d -> SUBSET (1..d)]
    OBVIOUS
  <1> HIDE DEF Below, d, a
  <1> DEFINE Less(f, g, u, v, x, y) == f < g \/ (f = g /\ u < v) \/ (u = v /\ x > y)
             f == [x \in 1..d |-> FirstDigit(a[x])]
  <1>10. \A x, y \in 1..d : x \in Below[y] <=> Less(f[x], f[y], a[x], a[y], x, y)
    BY <1>3 DEF StringLess
  <1>11. \A x \in 1..d : x \in Int /\ a[x] \in Int /\ f[x] \in Int
    BY <1>2
  <1>12. \A x, y \in 1..d : a[x] = a[y] => f[x] = f[y]
    OBVIOUS
  <1> HIDE DEF f
  <1>5. \A x \in 1..d : x \notin Below[x]
    BY <1>10, <1>11
  <1>6. \A x, y, z \in 1..d : x \in Below[y] /\ y \in Below[z] => x \in Below[z]
    <2> SUFFICES ASSUME NEW x \in 1..d, NEW y \in 1..d, NEW z \in 1..d, x \in Below[y], y \in Below[z]
                 PROVE  x \in Below[z]
      OBVIOUS
    <2>1. Less(f[x], f[y], a[x], a[y], x, y) /\ Less(f[y], f[z], a[y], a[z], y, z)
      BY <1>10
    <2>2. /\ x \in Int /\ a[x] \in Int /\ f[x] \in Int
          /\ y \in Int /\ a[y] \in Int /\ f[y] \in Int
          /\ z \in Int /\ a[z] \in Int /\ f[z] \in Int
      BY <1>11
    <2>3. (a[x] = a[y] => f[x] = f[y]) /\ (a[y] = a[z] => f[y] = f[z])
      BY <1>12
    <2>4. Less(f[x], f[z], a[x], a[z], x, z)
      BY <2>1, <2>2, <2>3
    <2>5. QED
      BY <1>10, <2>4
  <1>7. \A x, y \in 1..d : x = y \/ x \in Below[y] \/ y \in Below[x]
    BY <1>10, <1>11
  <1>8. \E x \in 1..d : Cardinality(Below[x]) = i - 1
    BY <1>0, <1>4, <1>5, <1>6, <1>7, EveryRank
  <1>9. \E x \in 1..(Len(p) - 1) : Cardinality({y \in 1..(Len(p) - 1) : SortedBefore(p, depth, y, x)}) = i - 1
    BY <1>8 DEF Below, d
  <1>20. QED
    BY <1>9 DEF SortedPlace

(***************************************************************************)
(* With depths of one digit that are those of the path, the order of the   *)
(* strings is that of the path.                                            *)
(***************************************************************************)
LEMMA SortedPlaceShallow ==
    ASSUME NEW p, NEW depth, Len(p) \in 1..10, \A i \in 2..Len(p) : depth[p[i]] = i - 1, NEW i \in 1..(Len(p) - 1)
    PROVE  SortedPlace(p, depth, i) = i
  <1> DEFINE d == Len(p) - 1
  <1>0. ASSUME NEW x \in 1..d PROVE depth[p[x + 1]] = x
    <2>1. x + 1 \in 2..Len(p) /\ (x + 1) - 1 = x
      OBVIOUS
    <2>2. QED
      BY <2>1
  <1>1. ASSUME NEW x \in 1..d PROVE Cardinality({y \in 1..d : SortedBefore(p, depth, y, x)}) = x - 1
    <2>1. \A y \in 1..d : SortedBefore(p, depth, y, x) <=> StringLess(y, x)
      BY <1>0 DEF SortedBefore
    <2>2. d \in 0..9
      OBVIOUS
    <2> HIDE DEF d
    <2>3. {y \in 1..d : SortedBefore(p, depth, y, x)} = 1..(x - 1)
      BY <2>1, <2>2 DEF StringLess, FirstDigit
    <2>4. x \in Int /\ x >= 1 /\ 1 \in Int /\ x - 1 \in Int
      BY <2>2
    <2>5. Cardinality(1..(x - 1)) = IF 1 > x - 1 THEN 0 ELSE (x - 1) - 1 + 1
      BY <2>4, FS_Interval
    <2>6. Cardinality(1..(x - 1)) = x - 1
      BY <2>4, <2>5
    <2>7. QED
      BY <2>3, <2>6
  <1>2. SortedPlace(p, depth, i) = CHOOSE x \in 1..d : x - 1 = i - 1
    BY <1>1 DEF SortedPlace
  <1>3. d \in Int
    OBVIOUS
  <1> HIDE DEF d
  <1>4. QED
    BY <1>2, <1>3 DEF d
-----------------------------------------------------------------------------
(***************************************************************************)
(* The list of a set: its elements, appended one by one as they are        *)
(* picked.                                                                 *)
(***************************************************************************)
Lists(F, D) == F = [s \in D |-> IF s = {} THEN <<>> ELSE Append(F[s \ {Pick(s)}], Pick(s))]

ListOf(S) == FoldSet(LAMBDA n, list : Append(list, n), <<>>, S)

\* l has each element of S once, and nothing else.
Enumerates(l, S) ==
    /\ l \in Seq(S)
    /\ \A x \in S : \E i \in 1..Len(l) : l[i] = x
    /\ \A i, j \in 1..Len(l) : l[i] = l[j] => i = j

(***************************************************************************)
(* The library's fold is such a function.                                  *)
(***************************************************************************)
LEMMA ListIsChosen ==
    ASSUME NEW S
    PROVE  ListOf(S) = (CHOOSE F : Lists(F, SUBSET S))[S]
  BY SMT DEF ListOf, FoldSet, MapThenFoldSet, Lists, Pick

(***************************************************************************)
(* It exists: sets of at most n elements need the lists of those of at     *)
(* most n - 1 only.                                                        *)
(***************************************************************************)
LEMMA ListsExist ==
    ASSUME NEW S, IsFiniteSet(S)
    PROVE  \E F : Lists(F, SUBSET S)
  <1> DEFINE L(n) == {s \in SUBSET S : Cardinality(s) <= n}
             Bad == {n \in Nat : ~ \E F : Lists(F, L(n))}
  <1>0. \A s \in SUBSET S : IsFiniteSet(s) /\ Cardinality(s) \in Nat /\ (Cardinality(s) = 0 <=> s = {})
    BY FS_Subset, FS_CardinalityType, FS_EmptySet
  <1>1. Bad = {}
    <2>1. SUFFICES ASSUME Bad # {} PROVE FALSE
      OBVIOUS
    <2>2. PICK m \in Bad : \A x \in Bad : m <= x
      <3>1. Bad \in SUBSET Nat
        OBVIOUS
      <3> HIDE DEF Bad
      <3>2. QED
        BY <2>1, <3>1, LeastNatural
    <2>3. m # 0
      <3>1. SUFFICES ASSUME m = 0 PROVE \E F : Lists(F, L(m))
        OBVIOUS
      <3>2. \A s \in L(m) : s = {}
        BY <1>0, <3>1
      <3> DEFINE Z == [s \in L(m) |-> <<>>]
      <3>3. Lists(Z, L(m))
        BY <3>2 DEF Lists
      <3> HIDE DEF Z, L
      <3>4. QED
        BY <3>3
    <2>4. m - 1 \in Nat /\ m - 1 \notin Bad
      <3>1. m \in Nat
        OBVIOUS
      <3> HIDE DEF Bad
      <3>2. QED
        BY <2>2, <2>3, <3>1
    <2>5. PICK G : Lists(G, L(m - 1))
      BY <2>4
    <2> DEFINE H == [s \in L(m) |-> IF s = {} THEN <<>> ELSE Append(G[s \ {Pick(s)}], Pick(s))]
    <2>6. ASSUME NEW s \in L(m), s # {} PROVE s \ {Pick(s)} \in L(m - 1) /\ s \ {Pick(s)} \in L(m)
      <3>1. Cardinality(s \ {Pick(s)}) = Cardinality(s) - 1 /\ s \ {Pick(s)} \in SUBSET S
        BY <1>0, <2>6, PickOne, FS_RemoveElement
      <3>2. Cardinality(s) \in Nat /\ Cardinality(s) <= m
        BY <1>0
      <3>3. QED
        BY <3>1, <3>2
    <2>7. ASSUME NEW s \in L(m - 1) PROVE H[s] = G[s]
      <3>1. s \in L(m)
        BY <1>0
      <3>2. G[s] = IF s = {} THEN <<>> ELSE Append(G[s \ {Pick(s)}], Pick(s))
        BY <2>5 DEF Lists
      <3>3. QED
        BY <3>1, <3>2
    <2>8. ASSUME NEW s \in L(m) PROVE H[s] = IF s = {} THEN <<>> ELSE Append(H[s \ {Pick(s)}], Pick(s))
      BY <2>6, <2>7
    <2>9. Lists(H, L(m))
      <3>1. H = [s \in L(m) |-> H[s]]
        OBVIOUS
      <3> HIDE DEF H
      <3>2. [s \in L(m) |-> H[s]] = [s \in L(m) |-> IF s = {} THEN <<>> ELSE Append(H[s \ {Pick(s)}], Pick(s))]
        BY <2>8
      <3>3. QED
        BY <3>1, <3>2 DEF Lists
    <2>10. QED
      <3> HIDE DEF H, L
      <3> QED
        BY <2>9
  <1>2. Cardinality(S) \in Nat /\ L(Cardinality(S)) = SUBSET S
    BY FS_CardinalityType, FS_Subset
  <1>3. QED
    BY <1>1, <1>2

(***************************************************************************)
(* So the list of a finite set has each of its elements once.              *)
(***************************************************************************)
LEMMA ListEnumerates ==
    ASSUME NEW S, IsFiniteSet(S)
    PROVE  Enumerates(ListOf(S), S)
  <1> DEFINE F == CHOOSE F : Lists(F, SUBSET S)
             Bad == {t \in SUBSET S : ~Enumerates(F[t], t)}
  <1>1. Lists(F, SUBSET S)
    BY ListsExist
  <1>2. ListOf(S) = F[S]
    BY ListIsChosen
  <1> HIDE DEF F
  <1>3. SUFFICES ASSUME Bad # {} PROVE FALSE
    BY <1>2
  <1>4. PICK t \in Bad : \A x \in t : t \ {x} \notin Bad
    <2>1. Bad \in SUBSET (SUBSET S)
      OBVIOUS
    <2> HIDE DEF Bad
    <2>2. QED
      BY <1>3, <2>1, MinimalSet
  <1>5. F[t] = IF t = {} THEN <<>> ELSE Append(F[t \ {Pick(t)}], Pick(t))
    BY <1>1 DEF Lists
  <1>6. ~Enumerates(F[t], t)
    OBVIOUS
  <1>7. CASE t = {}
    BY <1>5, <1>6, <1>7 DEF Enumerates
  <1>8. CASE t # {}
    <2> DEFINE x == Pick(t)
               l == F[t \ {x}]
    <2>1. x \in t
      BY <1>8, PickOne
    <2>2. Enumerates(l, t \ {x})
      BY <1>4, <2>1
    <2>3. F[t] = Append(l, x)
      BY <1>5, <1>8
    <2> HIDE DEF x, l, Bad
    <2>4. l \in Seq(t \ {x}) /\ l \in Seq(t) /\ Len(l) \in Nat
      BY <2>2 DEF Enumerates
    <2>5. /\ Append(l, x) \in Seq(t) /\ Len(Append(l, x)) = Len(l) + 1
          /\ \A i \in 1..Len(l) : Append(l, x)[i] = l[i] /\ l[i] \in t \ {x}
          /\ Append(l, x)[Len(l) + 1] = x
      BY <2>1, <2>4
    <2>6. \A i \in 1..(Len(l) + 1) : i \in 1..Len(l) \/ i = Len(l) + 1
      BY <2>4
    <2>7. \A y \in t : \E i \in 1..(Len(l) + 1) : Append(l, x)[i] = y
      BY <2>2, <2>4, <2>5 DEF Enumerates
    <2>8. \A i, j \in 1..(Len(l) + 1) : Append(l, x)[i] = Append(l, x)[j] => i = j
      BY <2>2, <2>5, <2>6 DEF Enumerates
    <2>9. QED
      BY <1>6, <2>3, <2>5, <2>7, <2>8 DEF Enumerates
  <1>9. QED
    BY <1>7, <1>8
-----------------------------------------------------------------------------
(***************************************************************************)
(* A forest F over the names S, and the keys under which it has n.         *)
(***************************************************************************)
Forest(F, S) ==
    /\ DOMAIN F \subseteq S
    /\ \A k \in DOMAIN F : F[k] \in Seq(S)

Holders(F, n) == {k \in DOMAIN F : k = n \/ \E i \in 1..Len(F[k]) : F[k][i] = n}

\* Every name is in it at most once, as a key or as an entry of one list.
Tidy(F) ==
    /\ \A k \in DOMAIN F : \A i \in 1..Len(F[k]) : F[k][i] \notin DOMAIN F
    /\ \A k \in DOMAIN F : \A i, j \in 1..Len(F[k]) : F[k][i] = F[k][j] => i = j
    /\ \A k, l \in DOMAIN F : \A i \in 1..Len(F[k]), j \in 1..Len(F[l]) : F[k][i] = F[l][j] => k = l

(***************************************************************************)
(* KeysOf in terms of positions.                                           *)
(***************************************************************************)
LEMMA KeysOfHolders ==
    ASSUME NEW S, Forest(crqForest, S), NEW n
    PROVE  KeysOf(n) = Holders(crqForest, n)
  <1>1. ASSUME NEW k \in Keys PROVE n \in Range(crqForest[k]) <=> \E i \in 1..Len(crqForest[k]) : crqForest[k][i] = n
    <2>1. DOMAIN crqForest[k] = 1..Len(crqForest[k])
      BY DEF Forest, Keys
    <2>2. QED
      BY <2>1 DEF Range
  <1>2. QED
    BY <1>1 DEF KeysOf, Holders, Keys

(***************************************************************************)
(* The same of the next state.                                             *)
(***************************************************************************)
LEMMA KeysOfHoldersNext ==
    ASSUME NEW S, Forest(crqForest', S), NEW n
    PROVE  KeysOf(n)' = Holders(crqForest', n)
  <1>1. ASSUME NEW k \in Keys'
        PROVE  n \in Range(crqForest'[k]) <=> \E i \in 1..Len(crqForest'[k]) : crqForest'[k][i] = n
    <2>1. DOMAIN crqForest'[k] = 1..Len(crqForest'[k])
      BY DEF Forest, Keys
    <2>2. QED
      BY <2>1 DEF Range
  <1>2. QED
    BY <1>1 DEF KeysOf, Holders, Keys

(***************************************************************************)
(* A set whose elements are all the same has at most one.                  *)
(***************************************************************************)
LEMMA AtMostOne ==
    ASSUME NEW T, \A x, y \in T : x = y
    PROVE  Cardinality(T) <= 1 /\ (T = {} => Cardinality(T) = 0)
  <1>1. CASE T = {}
    BY <1>1, FS_EmptySet
  <1>2. CASE T # {}
    <2>1. PICK x : T = {x}
      BY <1>2
    <2>2. Cardinality({x}) = 1
      BY FS_Singleton
    <2>3. Cardinality(T) = 1
      BY <2>1, <2>2
    <2>4. QED
      BY <1>2, <2>3
  <1>3. QED
    BY <1>1, <1>2

(***************************************************************************)
(* In a tidy forest every name is at most once.                            *)
(***************************************************************************)
LEMMA TidyIsOnce ==
    ASSUME NEW S, Forest(crqForest, S), Tidy(crqForest), NEW n
    PROVE  InForestOnce(n) /\ \A a, b \in KeysOf(n) : a = b
  <1>1. \A a, b \in KeysOf(n) : a = b
    <2>1. KeysOf(n) = Holders(crqForest, n)
      BY KeysOfHolders
    <2>2. \A a, b \in Holders(crqForest, n) : a = b
      BY DEF Holders, Tidy
    <2>3. QED
      BY <2>1, <2>2
  <1>2. Cardinality(KeysOf(n)) <= 1
    BY <1>1, AtMostOne
  <1>3. ASSUME NEW k \in Keys
        PROVE  Cardinality({i \in DOMAIN crqForest[k] : crqForest[k][i] = n}) <= (IF k = n THEN 0 ELSE 1)
    <2> DEFINE T == {i \in DOMAIN crqForest[k] : crqForest[k][i] = n}
    <2>1. DOMAIN crqForest[k] = 1..Len(crqForest[k])
      BY DEF Forest, Keys
    <2>2. \A x, y \in T : x = y
      BY <2>1 DEF Tidy, Keys
    <2>3. k = n => T = {}
      BY <2>1 DEF Tidy, Keys
    <2> HIDE DEF T
    <2>4. Cardinality(T) <= 1 /\ (T = {} => Cardinality(T) = 0)
      BY <2>2, AtMostOne
    <2>5. QED
      BY <2>3, <2>4 DEF T
  <1>4. QED
    BY <1>1, <1>2, <1>3 DEF InForestOnce

(***************************************************************************)
(* addNSToKey keeps the forest one, and puts one name in.                  *)
(***************************************************************************)
LEMMA AddedForest ==
    ASSUME NEW S, Forest(crqForest, S), NEW k \in S, NEW n \in S
    PROVE  Forest(AddNSToKey(k, n), S)
  <1>1. DOMAIN AddNSToKey(k, n) = Keys \cup {k}
    BY DEF AddNSToKey
  <1>2. ASSUME NEW j \in Keys \cup {k} PROVE AddNSToKey(k, n)[j] \in Seq(S)
    BY <1>2 DEF AddNSToKey, Forest, Keys
  <1>3. QED
    BY <1>1, <1>2 DEF Forest, Keys

(***************************************************************************)
(* If neither name is elsewhere, the forest stays tidy, and only the keys  *)
(* of these two change.                                                    *)
(***************************************************************************)
LEMMA AddedTidy ==
    ASSUME NEW S, Forest(crqForest, S), Tidy(crqForest), NEW k \in S, NEW n \in S,
           Holders(crqForest, n) = {}, Holders(crqForest, k) \subseteq {k}
    PROVE  /\ Tidy(AddNSToKey(k, n))
           /\ \A m : Holders(AddNSToKey(k, n), m) = IF m \in {n, k} THEN {k} ELSE Holders(crqForest, m)
  <1> DEFINE F == AddNSToKey(k, n)
             old == IF k \in Keys THEN crqForest[k] ELSE <<>>
  <1>1. DOMAIN F = Keys \cup {k} /\ n \notin Keys
    BY DEF AddNSToKey, Holders, Keys
  <1>2. \A j \in Keys \ {k} : F[j] = crqForest[j]
    BY DEF AddNSToKey
  <1>3. old \in Seq(S)
    BY DEF Forest, Keys
  <1>4. F[k] = IF k = n THEN <<>> ELSE Append(old, n)
    BY DEF AddNSToKey
  <1>5. \A j \in Keys : \A i \in 1..Len(crqForest[j]) : crqForest[j][i] # n /\ crqForest[j][i] # k
    BY DEF Holders, Tidy, Keys
  <1>6. CASE k = n
    <2>1. Len(F[k]) = 0
      BY <1>4, <1>6
    <2>2. k \notin Keys
      BY <1>1, <1>6
    <2>3. \A j \in Keys : F[j] = crqForest[j] /\ j # k
      BY <1>2, <2>2
    <2>4. \A i \in 1..Len(F[k]) : FALSE
      BY <2>1
    <2> HIDE DEF F
    <2>5. Tidy(F)
      BY <1>1, <1>5, <2>3, <2>4 DEF Tidy, Keys
    <2>6. \A m : Holders(F, m) = IF m \in {n, k} THEN {k} ELSE Holders(crqForest, m)
      BY <1>1, <1>5, <1>6, <2>3, <2>4 DEF Holders, Keys
    <2>7. QED
      BY <2>5, <2>6 DEF F
  <1>7. CASE k # n
    <2>1. /\ Len(old) \in Nat /\ Len(F[k]) = Len(old) + 1 /\ F[k][Len(old) + 1] = n
          /\ \A i \in 1..Len(old) : F[k][i] = old[i]
      BY <1>3, <1>4, <1>7
    <2>2. \A i \in 1..Len(F[k]) : i \in 1..Len(old) \/ (i = Len(old) + 1 /\ F[k][i] = n)
      BY <2>1
    <2>3. \A i \in 1..Len(old) : k \in Keys /\ old = crqForest[k]
      OBVIOUS
    <2>4. Len(old) + 1 \in 1..Len(F[k]) /\ \A i \in 1..Len(old) : i \in 1..Len(F[k])
      BY <2>1
    <2>5. k \in Keys => old = crqForest[k]
      OBVIOUS
    <2> HIDE DEF F, old
    <2>6. \A j \in DOMAIN F : \A i \in 1..Len(F[j]) :
            \/ j \in Keys /\ i \in 1..Len(crqForest[j]) /\ F[j][i] = crqForest[j][i]
            \/ j = k /\ i = Len(old) + 1 /\ F[j][i] = n
      BY <1>1, <1>2, <2>1, <2>2, <2>3
    <2>7. \A j \in Keys : \A i \in 1..Len(crqForest[j]) : i \in 1..Len(F[j]) /\ F[j][i] = crqForest[j][i]
      BY <1>2, <2>1, <2>4, <2>5
    <2>8. Tidy(F)
      <3>1. \A j \in DOMAIN F : \A i \in 1..Len(F[j]) : F[j][i] \notin DOMAIN F
        BY <1>1, <1>5, <1>7, <2>6 DEF Tidy, Keys
      <3>2. \A j \in DOMAIN F : \A a, b \in 1..Len(F[j]) : F[j][a] = F[j][b] => a = b
        BY <1>5, <2>6 DEF Tidy, Keys
      <3>3. \A j, l \in DOMAIN F : \A a \in 1..Len(F[j]), b \in 1..Len(F[l]) : F[j][a] = F[l][b] => j = l
        BY <1>5, <2>6 DEF Tidy, Keys
      <3>4. QED
        BY <3>1, <3>2, <3>3 DEF Tidy
    <2>9. ASSUME NEW m PROVE Holders(F, m) = IF m \in {n, k} THEN {k} ELSE Holders(crqForest, m)
      <3>1. CASE m = n
        <4>1. k \in Holders(F, m)
          BY <1>1, <2>1, <2>4, <3>1 DEF Holders
        <4>2. \A j \in Holders(F, m) : j = k
          BY <1>1, <1>5, <1>7, <2>6, <3>1 DEF Holders
        <4>3. QED
          BY <3>1, <4>1, <4>2
      <3>2. CASE m = k
        <4>1. k \in Holders(F, m)
          BY <1>1, <3>2 DEF Holders
        <4>2. \A j \in Holders(F, m) : j = k
          BY <1>5, <1>7, <2>6, <3>2 DEF Holders
        <4>3. QED
          BY <3>2, <4>1, <4>2
      <3>3. CASE m \notin {n, k}
        <4>1. \A j \in Holders(F, m) : j \in Holders(crqForest, m)
          BY <1>1, <2>6, <3>3 DEF Holders, Keys
        <4>2. \A j \in Holders(crqForest, m) : j \in Holders(F, m)
          BY <1>1, <2>7 DEF Holders, Keys
        <4>3. QED
          BY <3>3, <4>1, <4>2
      <3>4. QED
        BY <3>1, <3>2, <3>3
    <2>10. QED
      BY <2>8, <2>9 DEF F
  <1>8. QED
    BY <1>6, <1>7

\* r is s without its element at i.
WithoutAt(r, s, i) ==
    /\ Len(r) = Len(s) - 1
    /\ \A j \in 1..(Len(s) - 1) : r[j] = IF j < i THEN s[j] ELSE s[j + 1]

(***************************************************************************)
(* A sequence without the first of its elements that is e.                 *)
(***************************************************************************)
LEMMA RemovedFirst ==
    ASSUME NEW S, NEW s \in Seq(S), NEW e, NEW m \in 1..Len(s), s[m] = e
    PROVE  /\ RemoveFirst(s, e) \in Seq(S)
           /\ \E i \in 1..Len(s) : s[i] = e /\ WithoutAt(RemoveFirst(s, e), s, i)
  <1> DEFINE I == {i \in 1..Len(s) : s[i] = e}
             i == Min(I)
             a == SubSeq(s, 1, i - 1)
             b == SubSeq(s, i + 1, Len(s))
  <1>1. I \in SUBSET Nat /\ I # {}
    OBVIOUS
  <1>2. \E x \in I : \A y \in I : x <= y
    <2> HIDE DEF I
    <2> QED
      BY <1>1, LeastNatural
  <1>3. i \in I
    BY <1>2 DEF Min
  <1>4. RemoveFirst(s, e) = a \o b
    <2>1. SelectInSeq(s, LAMBDA v : v = e) = i
      BY <1>1 DEF SelectInSeq
    <2>2. QED
      BY <2>1 DEF RemoveFirst, RemoveAt
  <1>5. i \in 1..Len(s) /\ s[i] = e /\ Len(s) \in Nat
    BY <1>3
  <1> HIDE DEF I, i
  <1>6. a \in Seq(S) /\ Len(a) = i - 1 /\ \A j \in 1..(i - 1) : a[j] = s[j]
    BY <1>5, SubSeqProperties
  <1>7. b \in Seq(S) /\ Len(b) = Len(s) - i /\ \A j \in 1..(Len(s) - i) : b[j] = s[i + j]
    BY <1>5, SubSeqProperties
  <1> HIDE DEF a, b
  <1>8. /\ a \o b \in Seq(S) /\ Len(a \o b) = Len(s) - 1
        /\ \A j \in 1..(Len(s) - 1) : (a \o b)[j] = IF j <= i - 1 THEN a[j] ELSE b[j - (i - 1)]
    <2>1. /\ a \o b \in Seq(S) /\ Len(a \o b) = Len(a) + Len(b)
          /\ \A j \in 1..(Len(a) + Len(b)) : (a \o b)[j] = IF j <= Len(a) THEN a[j] ELSE b[j - Len(a)]
      BY <1>6, <1>7, ConcatProperties
    <2>2. Len(a) + Len(b) = Len(s) - 1
      BY <1>5, <1>6, <1>7
    <2>3. QED
      BY <1>6, <2>1, <2>2
  <1>9. ASSUME NEW j \in 1..(Len(s) - 1) PROVE (a \o b)[j] = IF j < i THEN s[j] ELSE s[j + 1]
    <2>1. CASE j < i
      BY <1>5, <1>6, <1>8, <2>1
    <2>2. CASE ~(j < i)
      <3>1. j - (i - 1) \in 1..(Len(s) - i) /\ i + (j - (i - 1)) = j + 1
        BY <1>5, <2>2
      <3>2. QED
        BY <1>5, <1>7, <1>8, <2>2, <3>1
    <2>3. QED
      BY <2>1, <2>2
  <1>10. WithoutAt(a \o b, s, i)
    BY <1>8, <1>9 DEF WithoutAt
  <1>11. QED
    BY <1>4, <1>5, <1>8, <1>10

(***************************************************************************)
(* RemoveNS keeps the forest one; it takes one entry out of the list of k. *)
(***************************************************************************)
LEMMA RemovedForest ==
    ASSUME NEW S, Forest(crqForest, S), NEW k \in Keys, NEW n
    PROVE  Forest(RemoveNS(n, k), S)
  <1>1. DOMAIN RemoveNS(n, k) = Keys /\ \A j \in Keys \ {k} : RemoveNS(n, k)[j] = crqForest[j]
    BY DEF RemoveNS, Keys
  <1>2. RemoveNS(n, k)[k] = RemoveFirst(crqForest[k], n) /\ crqForest[k] \in Seq(S)
    BY DEF RemoveNS, Keys, Forest
  <1>3. RemoveFirst(crqForest[k], n) \in Seq(S)
    <2>1. CASE \E m \in 1..Len(crqForest[k]) : crqForest[k][m] = n
      BY <1>2, <2>1, RemovedFirst
    <2>2. CASE ~ \E m \in 1..Len(crqForest[k]) : crqForest[k][m] = n
      <3>1. RemoveFirst(crqForest[k], n) = crqForest[k]
        BY <2>2 DEF RemoveFirst
      <3>2. QED
        BY <1>2, <3>1
    <2>3. QED
      BY <2>1, <2>2
  <1>4. QED
    BY <1>1, <1>2, <1>3 DEF Forest, Keys

(***************************************************************************)
(* In a tidy forest that takes the name out, and nothing else.             *)
(***************************************************************************)
LEMMA RemovedTidy ==
    ASSUME NEW S, Forest(crqForest, S), Tidy(crqForest), NEW k \in Keys, NEW n, n # k
    PROVE  /\ Tidy(RemoveNS(n, k))
           /\ \A m : Holders(RemoveNS(n, k), m) = IF m = n THEN Holders(crqForest, n) \ {k} ELSE Holders(crqForest, m)
  <1> DEFINE F == RemoveNS(n, k)
             s == crqForest[k]
  <1>1. DOMAIN F = Keys /\ \A j \in Keys \ {k} : F[j] = crqForest[j]
    BY DEF RemoveNS, Keys
  <1>2. F[k] = RemoveFirst(s, n) /\ s \in Seq(S) /\ Len(s) \in Nat
    BY DEF RemoveNS, Keys, Forest
  <1>3. CASE ~ \E m \in 1..Len(s) : s[m] = n
    <2>1. F[k] = s
      BY <1>2, <1>3 DEF RemoveFirst
    <2>2. \A j \in Keys : F[j] = crqForest[j]
      BY <1>1, <2>1
    <2>3. k \notin Holders(crqForest, n)
      BY <1>3 DEF Holders
    <2> HIDE DEF F
    <2>4. Tidy(F)
      BY <1>1, <2>2 DEF Tidy, Keys
    <2>5. \A m : Holders(F, m) = Holders(crqForest, m)
      BY <1>1, <2>2 DEF Holders, Keys
    <2>6. QED
      BY <2>3, <2>4, <2>5 DEF F
  <1>4. CASE \E m \in 1..Len(s) : s[m] = n
    <2>1. PICK i \in 1..Len(s) :
             /\ s[i] = n
             /\ Len(F[k]) = Len(s) - 1
             /\ \A j \in 1..(Len(s) - 1) : F[k][j] = IF j < i THEN s[j] ELSE s[j + 1]
      <3> HIDE DEF F, s
      <3>1. PICK m \in 1..Len(s) : s[m] = n
        BY <1>4
      <3>2. \E i \in 1..Len(s) : s[i] = n /\ WithoutAt(RemoveFirst(s, n), s, i)
        BY <1>2, <3>1, RemovedFirst
      <3>3. QED
        BY <1>2, <3>2 DEF WithoutAt
    <2> HIDE DEF F
    \* Where an entry of the new list was, and where one of the old list is.
    <2>2. \A j \in 1..Len(F[k]) : \E x \in 1..Len(s) :
            x # i /\ F[k][j] = s[x] /\ x = (IF j < i THEN j ELSE j + 1)
      BY <1>2, <2>1
    <2>3. \A x \in 1..Len(s) : x # i => \E j \in 1..Len(F[k]) : F[k][j] = s[x]
      <3> SUFFICES ASSUME NEW x \in 1..Len(s), x # i PROVE \E j \in 1..Len(F[k]) : F[k][j] = s[x]
        OBVIOUS
      <3>1. CASE x < i
        <4>1. x \in 1..Len(F[k]) /\ F[k][x] = s[x]
          BY <1>2, <2>1, <3>1
        <4>2. QED
          BY <4>1
      <3>2. CASE ~(x < i)
        <4>1. x - 1 \in 1..Len(F[k]) /\ F[k][x - 1] = s[x]
          BY <1>2, <2>1, <3>2
        <4>2. QED
          BY <4>1
      <3>3. QED
        BY <3>1, <3>2
    <2>4. \A a, b \in 1..Len(F[k]) : F[k][a] = F[k][b] => a = b
      <3> SUFFICES ASSUME NEW a \in 1..Len(F[k]), NEW b \in 1..Len(F[k]), F[k][a] = F[k][b] PROVE a = b
        OBVIOUS
      <3>1. PICK x \in 1..Len(s) : x # i /\ F[k][a] = s[x] /\ x = (IF a < i THEN a ELSE a + 1)
        BY <2>2
      <3>2. PICK y \in 1..Len(s) : y # i /\ F[k][b] = s[y] /\ y = (IF b < i THEN b ELSE b + 1)
        BY <2>2
      <3>3. x = y
        BY <3>1, <3>2 DEF Tidy, Keys
      <3>4. QED
        BY <1>2, <2>1, <3>1, <3>2, <3>3
    <2>5. \A j \in DOMAIN F : \A a \in 1..Len(F[j]) : \E x \in 1..Len(crqForest[j]) : crqForest[j][x] = F[j][a]
      BY <1>1, <2>2
    <2>6. Tidy(F)
      <3>1. \A j \in DOMAIN F : \A a \in 1..Len(F[j]) : F[j][a] \notin DOMAIN F
        BY <1>1, <2>5 DEF Tidy, Keys
      <3>2. \A j \in DOMAIN F : \A a, b \in 1..Len(F[j]) : F[j][a] = F[j][b] => a = b
        BY <1>1, <2>4 DEF Tidy, Keys
      <3>3. \A j, l \in DOMAIN F : \A a \in 1..Len(F[j]), b \in 1..Len(F[l]) : F[j][a] = F[l][b] => j = l
        BY <1>1, <2>5 DEF Tidy, Keys
      <3>4. QED
        BY <3>1, <3>2, <3>3 DEF Tidy
    <2>7. \A x \in 1..Len(s) : x # i => s[x] # n
      BY <2>1 DEF Tidy, Keys
    <2>8. \A a \in 1..Len(F[k]) : F[k][a] # n
      BY <2>2, <2>7
    <2>9. ASSUME NEW m PROVE Holders(F, m) = IF m = n THEN Holders(crqForest, n) \ {k} ELSE Holders(crqForest, m)
      <3>1. CASE m = n
        <4>1. \A j \in Holders(F, m) : j \in Holders(crqForest, n) \ {k}
          BY <1>1, <2>5, <2>8, <3>1 DEF Holders, Keys
        <4>2. \A j \in Holders(crqForest, n) \ {k} : j \in Holders(F, m)
          BY <1>1, <3>1 DEF Holders, Keys
        <4>3. QED
          BY <3>1, <4>1, <4>2
      <3>2. CASE m # n
        <4>1. \A j \in Holders(F, m) : j \in Holders(crqForest, m)
          BY <1>1, <2>5 DEF Holders, Keys
        <4>2. \A j \in Holders(crqForest, m) : j \in Holders(F, m)
          BY <1>1, <2>1, <2>3, <3>2 DEF Holders, Keys
        <4>3. QED
          BY <3>2, <4>1, <4>2
      <3>3. QED
        BY <3>1, <3>2
    <2>10. QED
      BY <2>6, <2>9 DEF F
  <1>5. QED
    BY <1>3, <1>4

(***************************************************************************)
(* DeleteKey takes out the key and, with it, its list.                     *)
(***************************************************************************)
LEMMA DeletedForest ==
    ASSUME NEW S, Forest(crqForest, S), NEW k
    PROVE  /\ Forest(DeleteKey(k), S)
           /\ Tidy(crqForest) => Tidy(DeleteKey(k))
           /\ \A m : Holders(DeleteKey(k), m) = Holders(crqForest, m) \ {k}
  <1> DEFINE F == DeleteKey(k)
  <1>1. DOMAIN F = Keys \ {k} /\ \A j \in DOMAIN F : F[j] = crqForest[j]
    BY DEF DeleteKey
  <1> HIDE DEF F
  <1>2. Forest(F, S)
    BY <1>1 DEF Forest, Keys
  <1>3. Tidy(crqForest) => Tidy(F)
    BY <1>1 DEF Tidy, Keys
  <1>4. \A m : Holders(F, m) = Holders(crqForest, m) \ {k}
    BY <1>1 DEF Holders, Keys
  <1>5. QED
    BY <1>2, <1>3, <1>4 DEF F
-----------------------------------------------------------------------------
(***************************************************************************)
(* The rebuild.  Members(P, depth, k): what the paths that have the key k  *)
(* add under it.                                                           *)
(***************************************************************************)
DeepPaths(P) == {p \in P : Len(p) - 1 > RqDepth}

Members(P, depth, k) == UNION {HierarchyMembers(p, depth) : p \in {l \in DeepPaths(P) : HierarchyKey(l, depth) = k}}

\* The paths P consist, below the root, of names in S.
PathsIn(P, S) == \A p \in P : Len(p) \in Nat /\ \A i \in 2..Len(p) : p[i] \in S

(***************************************************************************)
(* Each key gets the list of its members.                                  *)
(***************************************************************************)
LEMMA RebuiltLists ==
    ASSUME NEW P, NEW depth
    PROVE  /\ DOMAIN Rebuilt(P, depth) = {HierarchyKey(p, depth) : p \in DeepPaths(P)}
           /\ \A k \in DOMAIN Rebuilt(P, depth) : Rebuilt(P, depth)[k] = ListOf(Members(P, depth, k))
  BY DEF Rebuilt, DeepPaths, Members, ListOf

(***************************************************************************)
(* However the depths compare, keys and members are names on the paths.    *)
(***************************************************************************)
LEMMA RebuiltForest ==
    ASSUME NEW S, IsFiniteSet(S), NEW P, PathsIn(P, S), NEW depth \in [S -> Nat], RqDepth \in Nat
    PROVE  Forest(Rebuilt(P, depth), S)
  <1>1. ASSUME NEW p \in DeepPaths(P), NEW i \in (RqDepth + 1)..(Len(p) - 1)
        PROVE  i \in 1..(Len(p) - 1) /\ SortedPath(p, depth)[i] \in S
    <2>1. Len(p) \in Nat /\ Len(p) - 1 \in Nat /\ i \in 1..(Len(p) - 1)
      BY DEF DeepPaths, PathsIn
    <2>2. SortedPlace(p, depth, i) \in 1..(Len(p) - 1)
      <3>1. \A j \in 2..Len(p) : depth[p[j]] \in Nat
        BY DEF DeepPaths, PathsIn
      <3>2. QED
        BY <2>1, <3>1, SortedPlaceIn
    <2>3. SortedPlace(p, depth, i) + 1 \in 2..Len(p)
      BY <2>1, <2>2
    <2>4. SortedPath(p, depth)[i] = p[SortedPlace(p, depth, i) + 1]
      BY <2>1 DEF SortedPath
    <2>5. QED
      BY <2>1, <2>3, <2>4 DEF PathsIn, DeepPaths
  <1>2. ASSUME NEW p \in DeepPaths(P) PROVE HierarchyKey(p, depth) \in S /\ HierarchyMembers(p, depth) \subseteq S
    <2>1. Len(p) \in Nat /\ RqDepth + 1 \in (RqDepth + 1)..(Len(p) - 1)
      BY DEF DeepPaths, PathsIn
    <2>2. HierarchyKey(p, depth) \in S
      BY <1>1, <2>1 DEF HierarchyKey
    <2>3. \A i \in (RqDepth + 2)..(Len(p) - 1) : i \in (RqDepth + 1)..(Len(p) - 1)
      BY <2>1
    <2>4. HierarchyMembers(p, depth) \subseteq S
      BY <1>1, <2>3 DEF HierarchyMembers
    <2>5. QED
      BY <2>2, <2>4
  <1>3. ASSUME NEW k \in DOMAIN Rebuilt(P, depth) PROVE Rebuilt(P, depth)[k] \in Seq(S)
    <2>1. Members(P, depth, k) \in SUBSET S
      BY <1>2 DEF Members
    <2>2. IsFiniteSet(Members(P, depth, k))
      BY <2>1, FS_Subset
    <2>3. ListOf(Members(P, depth, k)) \in Seq(Members(P, depth, k))
      BY <2>2, ListEnumerates DEF Enumerates
    <2>4. ListOf(Members(P, depth, k)) \in Seq(S)
      <3> DEFINE M == Members(P, depth, k)
                 l == ListOf(M)
      <3> HIDE DEF M, l
      <3>1. l \in Seq(M) /\ M \subseteq S
        BY <2>1, <2>3 DEF M, l
      <3>2. l \in Seq(S)
        BY <3>1
      <3>3. QED
        BY <3>2 DEF M, l
    <2>5. QED
      BY <2>4, RebuiltLists
  <1>4. DOMAIN Rebuilt(P, depth) \subseteq S
    <2>1. DOMAIN Rebuilt(P, depth) = {HierarchyKey(p, depth) : p \in DeepPaths(P)}
      BY RebuiltLists
    <2>2. QED
      BY <1>2, <2>1
  <1>5. QED
    BY <1>3, <1>4 DEF Forest

\* The paths are those of one tree of fewer than ten levels: a name has one place, at its depth, and one way to it.
OneTree(P, depth) ==
    /\ \A p \in P : Len(p) <= 10 /\ \A i \in 2..Len(p) : depth[p[i]] = i - 1
    /\ \A p, q \in P : \A i \in 2..Len(p), j \in 2..Len(q) :
          p[i] = q[j] => i = j /\ \A x \in 1..i : p[x] = q[x]

(***************************************************************************)
(* Then the key of a path is its first name below the depths of            *)
(* ResourceQuotas, and its members are the names after it.                 *)
(***************************************************************************)
LEMMA ShallowKey ==
    ASSUME NEW p, Len(p) \in Nat, Len(p) <= 10, Len(p) - 1 > RqDepth, RqDepth \in Nat,
           NEW depth, \A i \in 2..Len(p) : depth[p[i]] = i - 1
    PROVE  /\ HierarchyKey(p, depth) = p[RqDepth + 2]
           /\ \A m : m \in HierarchyMembers(p, depth) <=> \E i \in (RqDepth + 3)..Len(p) : p[i] = m
  <1>1. ASSUME NEW i \in 1..(Len(p) - 1) PROVE SortedPath(p, depth)[i] = p[i + 1]
    <2>0. ASSUME NEW d \in Nat, d <= 10, d - 1 > RqDepth PROVE d \in 1..10
      BY <2>0
    <2>1. Len(p) \in 1..10
      BY <2>0
    <2>2. SortedPlace(p, depth, i) = i
      BY <2>1, SortedPlaceShallow
    <2>3. QED
      BY <2>2 DEF SortedPath
  <1>2. RqDepth + 1 \in 1..(Len(p) - 1) /\ (RqDepth + 1) + 1 = RqDepth + 2
    OBVIOUS
  <1>3. HierarchyKey(p, depth) = p[RqDepth + 2]
    BY <1>1, <1>2 DEF HierarchyKey
  <1>4. ASSUME NEW m PROVE m \in HierarchyMembers(p, depth) <=> \E i \in (RqDepth + 3)..Len(p) : p[i] = m
    <2>1. ASSUME NEW i \in (RqDepth + 2)..(Len(p) - 1)
          PROVE  SortedPath(p, depth)[i] = p[i + 1] /\ i + 1 \in (RqDepth + 3)..Len(p)
      <3>1. i \in 1..(Len(p) - 1) /\ i + 1 \in (RqDepth + 3)..Len(p)
        OBVIOUS
      <3>2. QED
        BY <1>1, <3>1
    <2>2. \A i \in (RqDepth + 3)..Len(p) : i - 1 \in (RqDepth + 2)..(Len(p) - 1) /\ (i - 1) + 1 = i
      OBVIOUS
    <2>3. ASSUME m \in HierarchyMembers(p, depth) PROVE \E i \in (RqDepth + 3)..Len(p) : p[i] = m
      <3>1. PICK i \in (RqDepth + 2)..(Len(p) - 1) : m = SortedPath(p, depth)[i]
        BY <2>3 DEF HierarchyMembers
      <3>2. QED
        BY <2>1, <3>1
    <2>4. ASSUME NEW i \in (RqDepth + 3)..Len(p), p[i] = m PROVE m \in HierarchyMembers(p, depth)
      <3>1. i - 1 \in (RqDepth + 2)..(Len(p) - 1) /\ SortedPath(p, depth)[i - 1] = m
        BY <2>1, <2>2, <2>4
      <3>2. QED
        BY <3>1 DEF HierarchyMembers
    <2>5. QED
      BY <2>3, <2>4
  <1>5. QED
    BY <1>3, <1>4

(***************************************************************************)
(* A rebuild from the paths of one tree is tidy, and has each name below   *)
(* the depths of ResourceQuotas that is on a path, under the first such    *)
(* name of its path.                                                       *)
(***************************************************************************)
LEMMA RebuiltTidy ==
    ASSUME NEW S, IsFiniteSet(S), NEW P, PathsIn(P, S), NEW depth, OneTree(P, depth), RqDepth \in Nat
    PROVE  /\ Tidy(Rebuilt(P, depth))
           /\ \A m, k : k \in Holders(Rebuilt(P, depth), m) <=>
                \E p \in P : \E i \in (RqDepth + 2)..Len(p) : p[i] = m /\ p[RqDepth + 2] = k
  <1> DEFINE F == Rebuilt(P, depth)
             r == RqDepth + 2
             U(k) == Members(P, depth, k)
  <1>0. r \in Nat /\ r >= 2 /\ \A p \in P : Len(p) \in Nat
    BY DEF PathsIn
  <1>1. \A p : p \in DeepPaths(P) <=> p \in P /\ r \in r..Len(p)
    BY <1>0 DEF DeepPaths
  <1>2. ASSUME NEW p \in DeepPaths(P)
        PROVE  /\ HierarchyKey(p, depth) = p[r]
               /\ \A m : m \in HierarchyMembers(p, depth) <=> \E i \in (r + 1)..Len(p) : p[i] = m
    <2>1. Len(p) \in Nat /\ Len(p) <= 10 /\ Len(p) - 1 > RqDepth /\ \A i \in 2..Len(p) : depth[p[i]] = i - 1
      BY DEF DeepPaths, PathsIn, OneTree
    <2>2. RqDepth + 3 = r + 1
      OBVIOUS
    <2>3. QED
      BY <2>1, <2>2, ShallowKey
  <1>3. ASSUME NEW k PROVE /\ k \in DOMAIN F <=> \E p \in DeepPaths(P) : p[r] = k
                           /\ \A m : m \in U(k) <=> \E p \in DeepPaths(P) : \E i \in (r + 1)..Len(p) : p[i] = m /\ p[r] = k
    <2>1. k \in DOMAIN F <=> \E p \in DeepPaths(P) : p[r] = k
      <3>1. DOMAIN F = {HierarchyKey(p, depth) : p \in DeepPaths(P)}
        BY RebuiltLists
      <3> HIDE DEF F, r
      <3>2. QED
        BY <1>2, <3>1
    <2>2. ASSUME NEW m PROVE m \in U(k) <=> \E p \in DeepPaths(P) : m \in HierarchyMembers(p, depth) /\ HierarchyKey(p, depth) = k
      BY DEF Members
    <2> HIDE DEF U, F, r
    <2>3. QED
      BY <1>2, <2>1, <2>2
  <1>4. ASSUME NEW k \in DOMAIN F PROVE Enumerates(F[k], U(k))
    <2>1. U(k) \in SUBSET S
      <3>1. ASSUME NEW p \in DeepPaths(P), NEW i \in (r + 1)..Len(p) PROVE p[i] \in S
        BY <1>0 DEF DeepPaths, PathsIn
      <3>2. QED
        BY <1>3, <3>1
    <2>2. IsFiniteSet(U(k))
      BY <2>1, FS_Subset
    <2>3. QED
      BY <2>2, ListEnumerates, RebuiltLists
  <1>5. ASSUME NEW k \in DOMAIN F, NEW m
        PROVE  (\E i \in 1..Len(F[k]) : F[k][i] = m) <=> m \in U(k)
    <2>1. F[k] \in Seq(U(k)) /\ \A x \in U(k) : \E i \in 1..Len(F[k]) : F[k][i] = x
      BY <1>4 DEF Enumerates
    <2>2. \A i \in 1..Len(F[k]) : F[k][i] \in U(k)
      BY <2>1
    <2>3. QED
      BY <2>1, <2>2
  \* A name at two places of two paths is at one place.
  <1>6. ASSUME NEW p \in DeepPaths(P), NEW q \in DeepPaths(P), NEW i \in r..Len(p), NEW j \in r..Len(q), p[i] = q[j]
        PROVE  i = j /\ p[r] = q[r]
    <2>1. p \in P /\ q \in P /\ i \in 2..Len(p) /\ j \in 2..Len(q) /\ r \in 1..i
      BY <1>0 DEF DeepPaths
    <2>2. QED
      BY <1>6, <2>1 DEF OneTree
  <1>7. \A p \in DeepPaths(P) : r \in r..Len(p) /\ \A i \in (r + 1)..Len(p) : i \in r..Len(p) /\ i # r
    BY <1>0 DEF DeepPaths
  <1> HIDE DEF F, r, U
  <1>8. Tidy(F)
    <2>1. ASSUME NEW k \in DOMAIN F, NEW m \in U(k) PROVE m \notin DOMAIN F
      <3>1. PICK p \in DeepPaths(P) : \E i \in (r + 1)..Len(p) : p[i] = m /\ p[r] = k
        BY <1>3
      <3>2. PICK i \in (r + 1)..Len(p) : p[i] = m
        BY <3>1
      <3>3. ASSUME NEW q \in DeepPaths(P), q[r] = m PROVE FALSE
        BY <1>6, <1>7, <3>2, <3>3
      <3>4. QED
        BY <1>3, <3>3
    <2>2. ASSUME NEW k \in DOMAIN F, NEW l \in DOMAIN F, NEW m \in U(k), m \in U(l) PROVE k = l
      <3>1. PICK p \in DeepPaths(P) : \E i \in (r + 1)..Len(p) : p[i] = m /\ p[r] = k
        BY <1>3
      <3>2. PICK q \in DeepPaths(P) : \E j \in (r + 1)..Len(q) : q[j] = m /\ q[r] = l
        BY <1>3, <2>2
      <3>3. QED
        BY <1>6, <1>7, <3>1, <3>2
    <2>3. \A k \in DOMAIN F : \A i \in 1..Len(F[k]) : F[k][i] \in U(k)
      BY <1>5
    <2>4. \A k \in DOMAIN F : \A i, j \in 1..Len(F[k]) : F[k][i] = F[k][j] => i = j
      BY <1>4 DEF Enumerates
    <2>5. QED
      BY <2>1, <2>2, <2>3, <2>4 DEF Tidy
  <1>9. ASSUME NEW m, NEW k
        PROVE  k \in Holders(F, m) <=> \E p \in P : \E i \in r..Len(p) : p[i] = m /\ p[r] = k
    <2>1. k \in Holders(F, m) <=> k \in DOMAIN F /\ (k = m \/ m \in U(k))
      BY <1>5 DEF Holders
    <2>2. ASSUME k \in Holders(F, m) PROVE \E p \in P : \E i \in r..Len(p) : p[i] = m /\ p[r] = k
      <3>1. CASE k = m
        BY <1>1, <1>3, <2>1, <2>2, <3>1
      <3>2. CASE m \in U(k)
        BY <1>1, <1>3, <1>7, <3>2
      <3>3. QED
        BY <2>1, <2>2, <3>1, <3>2
    <2>3. ASSUME NEW p \in P, NEW i \in r..Len(p), p[i] = m, p[r] = k PROVE k \in Holders(F, m)
      <3>1. r \in r..Len(p) /\ (i = r \/ i \in (r + 1)..Len(p))
        BY <1>0
      <3>2. p \in DeepPaths(P)
        BY <1>1, <3>1
      <3>3. QED
        BY <1>3, <2>1, <2>3, <3>1, <3>2
    <2>4. QED
      BY <2>2, <2>3
  <1>10. QED
    BY <1>8, <1>9 DEF F, r
-----------------------------------------------------------------------------
(***************************************************************************)
(* A list without repetitions is as long as the set of its elements.       *)
(***************************************************************************)
LEMMA ListLength ==
    ASSUME NEW T, IsFiniteSet(T), NEW l \in Seq(T), \A i, j \in 1..Len(l) : l[i] = l[j] => i = j
    PROVE  /\ Len(l) <= Cardinality(T)
           /\ (\A x \in T : \E i \in 1..Len(l) : l[i] = x) => Len(l) = Cardinality(T)
  <1>1. Len(l) \in Nat /\ l \in [1..Len(l) -> T] /\ DOMAIN l = 1..Len(l)
    OBVIOUS
  <1>2. l \in Injection(1..Len(l), T)
    BY <1>1 DEF Injection, IsInjective
  <1>3. Cardinality(1..Len(l)) = Len(l)
    <2>1. 1 \in Int /\ Len(l) \in Int
      BY <1>1
    <2>2. Cardinality(1..Len(l)) = IF 1 > Len(l) THEN 0 ELSE Len(l) - 1 + 1
      BY <2>1, FS_Interval
    <2>3. QED
      BY <1>1, <2>2
  <1>4. Cardinality(1..Len(l)) <= Cardinality(T)
    BY <1>2, FS_Injection
  <1>5. ASSUME \A x \in T : \E i \in 1..Len(l) : l[i] = x PROVE Cardinality(1..Len(l)) = Cardinality(T)
    <2>1. l \in Surjection(1..Len(l), T)
      BY <1>1, <1>5 DEF Surjection
    <2>2. QED
      BY <1>2, <2>1, FS_Injection
  <1>6. QED
    BY <1>3, <1>4, <1>5
=============================================================================
