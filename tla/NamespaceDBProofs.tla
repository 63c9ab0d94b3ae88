------------------------- MODULE NamespaceDBProofs -------------------------
(***************************************************************************)
(* What is proved of NamespaceDB, for any hierarchy of fewer than ten      *)
(* levels (TypeOK for any), any limit and any number of failures and       *)
(* restarts.                                                               *)
(*                                                                         *)
(* The worker looks a namespace up, decides, and adds it in different      *)
(* critical sections, while the namespace controller deletes.  The         *)
(* invariants say what of the look-up is still true when it is used, and   *)
(* why: only the worker adds, and what a Subnamespace is under is not      *)
(* being deleted.                                                          *)
(***************************************************************************)
EXTENDS NamespaceDB, CrqForestLemmas

\* Depths of one digit: sorted as strings they are in the order of the numbers.
Shallow == \A n \in Nodes : Depth(n) < 10

\* n and the namespaces above it.
Way(n) == {DisplayName[n][i] : i \in 1..Len(DisplayName[n])}

Leaves == {m \in sns \cap namespaces : \A c \in sns : Parent(c) # m}

(***************************************************************************)
(* The display-names are those of a hierarchy.                             *)
(***************************************************************************)
LEMMA Names ==
    /\ IsHierarchy(Nodes, Root, DisplayName)
    /\ SNSs \subseteq Nodes /\ Root \in Nodes /\ Root \notin SNSs /\ NoKey \notin Nodes /\ IsFiniteSet(SNSs)
    /\ \A n \in Nodes :
        /\ DisplayName[n] \in Seq(Nodes) /\ Len(DisplayName[n]) \in Nat \ {0} /\ Depth(n) \in Nat
        /\ WellNamed(Nodes, Root, DisplayName, n)
    /\ \A n \in SNSs : Parent(n) \in Nodes /\ Depth(n) = Depth(Parent(n)) + 1
    /\ Depth(Root) = 0 /\ RqDepth \in Nat
  <1>1. IsHierarchy(Nodes, Root, DisplayName)
    BY TreeAssumption DEF IsHierarchy, Above, SNSs, Parent
  <1>2. \A n \in SNSs : Parent(n) = Above(DisplayName, n)
    BY DEF Parent, Above
  <1>3. \A n \in SNSs : Parent(n) \in Nodes /\ Len(DisplayName[n]) = Len(DisplayName[Parent(n)]) + 1
    BY <1>1, <1>2, NameOfParent DEF SNSs
  <1>4. \A n \in Nodes : /\ DisplayName[n] \in Seq(Nodes) /\ Len(DisplayName[n]) \in Nat \ {0}
                         /\ WellNamed(Nodes, Root, DisplayName, n)
    BY <1>1, NamesOnTheWay
  <1>5. \A n \in Nodes : Depth(n) \in Nat
    BY <1>4 DEF Depth
  <1>6. \A n \in SNSs : Depth(n) = Depth(Parent(n)) + 1
    BY <1>3, <1>4 DEF Depth
  <1>7. Depth(Root) = 0
    BY TreeAssumption DEF Depth
  <1>8. SNSs \in SUBSET Nodes /\ IsFiniteSet(SNSs)
    BY TreeAssumption, FS_Subset DEF SNSs
  <1>9. QED
    BY <1>1, <1>3, <1>4, <1>5, <1>6, <1>7, <1>8, TreeAssumption, ParameterAssumption DEF SNSs

(***************************************************************************)
(* A namespace that is on the way to another is there at its depth.        *)
(***************************************************************************)
LEMMA WayPositions ==
    ASSUME NEW n \in Nodes
    PROVE  /\ \A x : x \in Way(n) <=> x \in Nodes /\ Depth(x) + 1 \in 1..Len(DisplayName[n])
                                                  /\ DisplayName[n][Depth(x) + 1] = x
           /\ \A i \in 1..Len(DisplayName[n]) : /\ DisplayName[n][i] \in Way(n)
                                                /\ Depth(DisplayName[n][i]) + 1 = i
                                                /\ i > 1 => DisplayName[n][i] \in SNSs
           /\ Len(DisplayName[n]) = Depth(n) + 1
           /\ n \in Way(n)
  <1>1. /\ Len(DisplayName[n]) \in Nat \ {0} /\ DisplayName[n][Len(DisplayName[n])] = n
        /\ \A i \in 1..Len(DisplayName[n]) : DisplayName[n][i] \in Nodes /\ Len(DisplayName[DisplayName[n][i]]) = i
    BY Names DEF WellNamed
  <1>2. Len(DisplayName[n]) = Depth(n) + 1
    BY <1>1 DEF Depth
  <1>3. \A i \in 1..Len(DisplayName[n]) : Depth(DisplayName[n][i]) + 1 = i
    BY <1>1 DEF Depth
  <1>4. \A i \in 1..Len(DisplayName[n]) : i > 1 => DisplayName[n][i] \in SNSs
    <2>1. Depth(Root) = 0
      BY Names
    <2>2. \A i \in 1..Len(DisplayName[n]) : i > 1 => DisplayName[n][i] # Root
      BY <1>3, <2>1
    <2>3. QED
      BY <1>1, <2>2 DEF SNSs
  <1>5. n \in Way(n)
    BY <1>1 DEF Way
  <1>6. \A i \in 1..Len(DisplayName[n]) : DisplayName[n][i] \in Way(n)
    BY DEF Way
  <1>7. ASSUME NEW x PROVE x \in Way(n) <=> x \in Nodes /\ Depth(x) + 1 \in 1..Len(DisplayName[n])
                                                  /\ DisplayName[n][Depth(x) + 1] = x
    BY <1>1, <1>3 DEF Way
  <1>8. QED
    BY <1>2, <1>3, <1>4, <1>5, <1>6, <1>7

(***************************************************************************)
(* The way to a namespace is the way to its parent, and itself.            *)
(***************************************************************************)
LEMMA WayToParent ==
    ASSUME NEW n \in SNSs
    PROVE  Way(n) = Way(Parent(n)) \cup {n} /\ n \notin Way(Parent(n))
  <1> DEFINE p == Parent(n)
  <1>1. n \in Nodes /\ p \in Nodes /\ Depth(n) = Depth(p) + 1 /\ Depth(p) \in Nat
    BY Names
  <1>2. \A i \in 1..Len(DisplayName[p]) : DisplayName[n][i] = DisplayName[p][i]
    <2>1. p = Above(DisplayName, n)
      BY DEF Parent, Above
    <2>2. QED
      BY <2>1, Names, NameOfParent DEF SNSs
  <1>3. Len(DisplayName[n]) = Depth(p) + 2 /\ Len(DisplayName[p]) = Depth(p) + 1
    BY <1>1, WayPositions
  <1>4. DisplayName[n][Depth(p) + 2] = n
    BY <1>1, <1>3, Names DEF WellNamed
  <1> HIDE DEF p
  <1>5. \A i \in 1..(Depth(p) + 2) : i \in 1..(Depth(p) + 1) \/ i = Depth(p) + 2
    BY <1>1
  <1>6. \A i \in 1..(Depth(p) + 1) : i \in 1..(Depth(p) + 2)
    BY <1>1
  <1>7. Way(n) = Way(p) \cup {n}
    <2>1. Depth(p) + 2 \in 1..(Depth(p) + 2)
      BY <1>1
    <2>2. QED
      BY <1>2, <1>3, <1>4, <1>5, <1>6, <2>1 DEF Way
  <1>8. n \notin Way(p)
    <2>1. Depth(n) + 1 \notin 1..Len(DisplayName[p])
      BY <1>1, <1>3
    <2>2. QED
      BY <1>1, <2>1, WayPositions
  <1>9. QED
    BY <1>7, <1>8 DEF p

(***************************************************************************)
(* What is on the way to a namespace has the same way so far; and the way  *)
(* goes on from parent to child.                                           *)
(***************************************************************************)
LEMMA WayIsOne ==
    ASSUME NEW n \in Nodes, NEW x \in Way(n)
    PROVE  /\ x \in Nodes /\ Way(x) \subseteq Way(n) /\ Depth(x) <= Depth(n)
           /\ \A i \in 1..(Depth(x) + 1) : DisplayName[x][i] = DisplayName[n][i]
           /\ x # n => \E c \in SNSs : c \in Way(n) /\ Parent(c) = x
  <1>1. x \in Nodes /\ Depth(x) + 1 \in 1..Len(DisplayName[n]) /\ DisplayName[n][Depth(x) + 1] = x
    BY WayPositions
  <1>2. Len(DisplayName[n]) = Depth(n) + 1 /\ Depth(n) \in Nat /\ Depth(x) \in Nat
    BY <1>1, Names, WayPositions
  <1>3. \A i \in 1..(Depth(x) + 1) : DisplayName[x][i] = DisplayName[n][i]
    <2> DEFINE d == Depth(x) + 1
    <2>1. d \in 1..Len(DisplayName[n]) /\ DisplayName[n][d] = x
      BY <1>1
    <2> HIDE DEF d
    <2>2. \A i \in 1..d : DisplayName[DisplayName[n][d]][i] = DisplayName[n][i]
      BY <2>1, Names DEF WellNamed
    <2>3. QED
      BY <2>1, <2>2 DEF d
  <1>4. Way(x) \subseteq Way(n)
    <2>1. Len(DisplayName[x]) = Depth(x) + 1
      BY <1>1, WayPositions
    <2>2. \A i \in 1..(Depth(x) + 1) : i \in 1..Len(DisplayName[n])
      BY <1>1, <1>2
    <2>3. QED
      BY <1>3, <2>1, <2>2 DEF Way
  <1>5. ASSUME x # n PROVE \E c \in SNSs : c \in Way(n) /\ Parent(c) = x
    <2> DEFINE c == DisplayName[n][Depth(x) + 2]
    <2>1. Depth(x) # Depth(n)
      <3>1. DisplayName[n][Depth(n) + 1] = n
        BY <1>2, Names DEF WellNamed
      <3>2. QED
        BY <1>1, <1>5, <3>1
    <2>2. Depth(x) + 2 \in 1..Len(DisplayName[n]) /\ Depth(x) + 2 > 1
      BY <1>1, <1>2, <2>1
    <2>3. c \in Way(n) /\ c \in SNSs /\ Depth(c) + 1 = Depth(x) + 2
      BY <2>2, WayPositions
    <2>4. \A j \in 1..(Depth(x) + 2) : DisplayName[c][j] = DisplayName[n][j]
      BY <2>2, Names DEF WellNamed
    <2> HIDE DEF c
    <2>5. Parent(c) = x
      <3>1. Len(DisplayName[c]) = Depth(x) + 2
        BY <2>3, Names, WayPositions
      <3>2. Parent(c) = DisplayName[c][Depth(x) + 1]
        BY <1>2, <3>1 DEF Parent
      <3>3. QED
        BY <1>1, <1>2, <2>4, <3>2
    <2>6. QED
      BY <2>3, <2>5
  <1>6. QED
    BY <1>1, <1>2, <1>3, <1>4, <1>5

(***************************************************************************)
(* The first namespace on the way that has a ClusterResourceQuota.         *)
(***************************************************************************)
LEMMA FirstOnTheWay ==
    /\ ~BelowRQ(Root)
    /\ \A n \in Nodes : BelowRQ(n) => /\ n \in SNSs /\ FirstCRQ(n) \in Way(n) /\ FirstCRQ(n) \in SNSs
                                      /\ BelowRQ(FirstCRQ(n)) /\ FirstCRQ(FirstCRQ(n)) = FirstCRQ(n)
    /\ \A n \in Nodes : \A x \in Way(n) : BelowRQ(x) => BelowRQ(n) /\ FirstCRQ(x) = FirstCRQ(n)
    /\ \A n \in SNSs : BelowRQ(n) /\ ~BelowRQ(Parent(n)) => FirstCRQ(n) = n
  <1>1. ~BelowRQ(Root)
    BY Names DEF BelowRQ
  <1>2. ASSUME NEW n \in Nodes, NEW x \in Way(n), BelowRQ(x) PROVE BelowRQ(n) /\ FirstCRQ(x) = FirstCRQ(n)
    <2>1. /\ x \in Nodes /\ Depth(x) <= Depth(n) /\ Depth(x) \in Nat /\ Depth(n) \in Nat /\ Depth(x) > RqDepth
          /\ \A i \in 1..(Depth(x) + 1) : DisplayName[x][i] = DisplayName[n][i]
      BY <1>2, WayIsOne, Names DEF BelowRQ
    <2>2. RqDepth \in Nat
      BY Names
    <2>3. (RqDepth + 1) + 1 \in 1..(Depth(x) + 1)
      BY <2>1, <2>2
    <2>4. QED
      BY <2>1, <2>2, <2>3 DEF BelowRQ, FirstCRQ, Ancestor
  <1>3. ASSUME NEW n \in Nodes, BelowRQ(n)
        PROVE  /\ n \in SNSs /\ FirstCRQ(n) \in Way(n) /\ FirstCRQ(n) \in SNSs
               /\ BelowRQ(FirstCRQ(n)) /\ FirstCRQ(FirstCRQ(n)) = FirstCRQ(n)
    <2>1. n \in SNSs
      BY <1>1, <1>3 DEF SNSs
    <2>2. Depth(n) \in Nat /\ RqDepth \in Nat /\ Depth(n) > RqDepth /\ Len(DisplayName[n]) = Depth(n) + 1
      BY <1>3, Names, WayPositions DEF BelowRQ
    <2>3. (RqDepth + 1) + 1 \in 1..Len(DisplayName[n]) /\ (RqDepth + 1) + 1 > 1
      BY <2>2
    <2>4. /\ FirstCRQ(n) \in Way(n) /\ FirstCRQ(n) \in SNSs
          /\ Depth(FirstCRQ(n)) + 1 = (RqDepth + 1) + 1
      BY <2>3, WayPositions DEF FirstCRQ, Ancestor
    <2>5. FirstCRQ(n) \in Nodes /\ Depth(FirstCRQ(n)) \in Nat
      BY <2>4, Names
    <2>6. BelowRQ(FirstCRQ(n))
      BY <2>2, <2>4, <2>5 DEF BelowRQ
    <2>7. QED
      BY <1>2, <2>1, <2>4, <2>6
  <1>4. ASSUME NEW n \in SNSs, BelowRQ(n), ~BelowRQ(Parent(n)) PROVE FirstCRQ(n) = n
    <2>1. Depth(n) = RqDepth + 1 /\ n \in Nodes
      BY <1>4, Names DEF BelowRQ
    <2>2. Len(DisplayName[n]) = (RqDepth + 1) + 1
      BY <2>1, WayPositions
    <2>3. QED
      BY <2>1, <2>2, Names DEF FirstCRQ, Ancestor, WellNamed
  <1>5. QED
    BY <1>1, <1>2, <1>3, <1>4
-----------------------------------------------------------------------------
(***************************************************************************)
(* The paths of the leaves, from which the DB is built.                    *)
(***************************************************************************)
LEMMA LeafPathsAre ==
    ASSUME sns \subseteq SNSs
    PROVE  /\ \A p : p \in LeafPaths <=> \E l \in Leaves : p = DisplayName[l]
           /\ Leaves \subseteq SNSs
           /\ PathsIn(LeafPaths, SNSs) /\ Depths \in [SNSs -> Nat]
           /\ Shallow => OneTree(LeafPaths, Depths)
  <1>1. LeafPaths = {DisplayName[l] : l \in Leaves} /\ Leaves \subseteq SNSs
    BY DEF LeafPaths, Leaves
  <1>2. PathsIn(LeafPaths, SNSs)
    <2> SUFFICES ASSUME NEW l \in Leaves
                 PROVE  Len(DisplayName[l]) \in Nat /\ \A i \in 2..Len(DisplayName[l]) : DisplayName[l][i] \in SNSs
      BY <1>1 DEF PathsIn
    <2>1. l \in Nodes /\ Len(DisplayName[l]) \in Nat
      BY <1>1, Names
    <2>2. \A i \in 2..Len(DisplayName[l]) : i \in 1..Len(DisplayName[l]) /\ i > 1
      BY <2>1
    <2>3. QED
      BY <2>1, <2>2, WayPositions
  <1>3. ASSUME Shallow PROVE OneTree(LeafPaths, Depths)
    <2>1. ASSUME NEW a \in Leaves
          PROVE  Len(DisplayName[a]) <= 10 /\ \A i \in 2..Len(DisplayName[a]) : Depths[DisplayName[a][i]] = i - 1
      <3>1. a \in Nodes /\ Depth(a) < 10 /\ Depth(a) \in Nat
        BY <1>1, <1>3, Names DEF Shallow
      <3>2. Len(DisplayName[a]) = Depth(a) + 1
        BY <3>1, WayPositions
      <3>3. ASSUME NEW i \in 2..Len(DisplayName[a]) PROVE Depths[DisplayName[a][i]] = i - 1
        <4>1. i \in 1..Len(DisplayName[a]) /\ i > 1
          BY <3>1, <3>2
        <4>2. DisplayName[a][i] \in SNSs /\ Depth(DisplayName[a][i]) + 1 = i
          BY <3>1, <4>1, WayPositions
        <4>3. Depth(DisplayName[a][i]) = i - 1
          BY <4>2, Names
        <4>4. QED
          BY <4>2, <4>3 DEF Depths
      <3>4. QED
        BY <3>1, <3>2, <3>3
    <2>2. ASSUME NEW a \in Leaves, NEW b \in Leaves,
                 NEW i \in 2..Len(DisplayName[a]), NEW j \in 2..Len(DisplayName[b]),
                 DisplayName[a][i] = DisplayName[b][j]
          PROVE  i = j /\ \A x \in 1..i : DisplayName[a][x] = DisplayName[b][x]
      <3> DEFINE m == DisplayName[a][i]
      <3>1. a \in Nodes /\ b \in Nodes
        BY <1>1, Names
      <3>2. i \in 1..Len(DisplayName[a]) /\ j \in 1..Len(DisplayName[b])
        BY <3>1, Names
      <3>3. m \in Way(a) /\ Depth(m) + 1 = i
        BY <3>1, <3>2, WayPositions
      <3>4. m \in Way(b) /\ Depth(m) + 1 = j
        BY <2>2, <3>1, <3>2, WayPositions
      <3> HIDE DEF m
      <3>5. /\ \A x \in 1..(Depth(m) + 1) : DisplayName[m][x] = DisplayName[a][x]
            /\ \A x \in 1..(Depth(m) + 1) : DisplayName[m][x] = DisplayName[b][x]
        BY <3>1, <3>3, <3>4, WayIsOne
      <3>6. QED
        BY <3>3, <3>4, <3>5
    <2>3. QED
      BY <1>1, <2>1, <2>2 DEF OneTree
  <1>4. Depths \in [SNSs -> Nat]
    BY Names DEF Depths
  <1>5. QED
    BY <1>1, <1>2, <1>3, <1>4

(***************************************************************************)
(* A rebuild has the namespaces on the way to a leaf that are below the    *)
(* depths of ResourceQuotas, each under the first of its way.              *)
(***************************************************************************)
LEMMA RebuiltHolders ==
    ASSUME sns \subseteq SNSs, Shallow
    PROVE  /\ Tidy(Rebuilt(LeafPaths, Depths))
           /\ \A m \in Nodes : Holders(Rebuilt(LeafPaths, Depths), m) =
                IF BelowRQ(m) /\ \E l \in Leaves : m \in Way(l) THEN {FirstCRQ(m)} ELSE {}
  <1>0. RqDepth \in Nat /\ IsFiniteSet(SNSs) /\ PathsIn(LeafPaths, SNSs) /\ OneTree(LeafPaths, Depths) /\ Leaves \subseteq Nodes
    BY Names, LeafPathsAre
  <1>1. /\ Tidy(Rebuilt(LeafPaths, Depths))
        /\ \A m, k : k \in Holders(Rebuilt(LeafPaths, Depths), m) <=>
             \E p \in LeafPaths : \E i \in (RqDepth + 2)..Len(p) : p[i] = m /\ p[RqDepth + 2] = k
    BY <1>0, RebuiltTidy
  <1>2. ASSUME NEW m \in Nodes, NEW k \in Holders(Rebuilt(LeafPaths, Depths), m)
        PROVE  BelowRQ(m) /\ (\E l \in Leaves : m \in Way(l)) /\ k = FirstCRQ(m)
    <2>1. PICK l \in Leaves : \E i \in (RqDepth + 2)..Len(DisplayName[l]) :
                DisplayName[l][i] = m /\ DisplayName[l][RqDepth + 2] = k
      BY <1>1, <1>2, LeafPathsAre
    <2>2. PICK i \in (RqDepth + 2)..Len(DisplayName[l]) : DisplayName[l][i] = m /\ DisplayName[l][RqDepth + 2] = k
      BY <2>1
    <2>3. l \in Nodes /\ Len(DisplayName[l]) \in Nat /\ i \in 1..Len(DisplayName[l])
      BY <1>0, Names
    <2>4. m \in Way(l) /\ Depth(m) + 1 = i /\ Depth(m) \in Nat
      BY <2>2, <2>3, WayPositions, Names
    <2>5. BelowRQ(m)
      BY <1>0, <2>4 DEF BelowRQ
    <2>6. FirstCRQ(m) = FirstCRQ(l) /\ (RqDepth + 1) + 1 = RqDepth + 2
      BY <1>0, <2>3, <2>4, <2>5, FirstOnTheWay
    <2>7. QED
      BY <2>2, <2>4, <2>5, <2>6 DEF FirstCRQ, Ancestor
  <1>3. ASSUME NEW m \in Nodes, BelowRQ(m), NEW l \in Leaves, m \in Way(l)
        PROVE  FirstCRQ(m) \in Holders(Rebuilt(LeafPaths, Depths), m)
    <2>1. l \in Nodes /\ Depth(m) + 1 \in 1..Len(DisplayName[l]) /\ DisplayName[l][Depth(m) + 1] = m
      BY <1>0, <1>3, WayPositions
    <2>2. Depth(m) + 1 \in (RqDepth + 2)..Len(DisplayName[l])
      BY <1>0, <1>3, <2>1, Names DEF BelowRQ
    <2>3. FirstCRQ(m) = FirstCRQ(l) /\ (RqDepth + 1) + 1 = RqDepth + 2
      BY <1>0, <1>3, <2>1, FirstOnTheWay
    <2>4. DisplayName[l][RqDepth + 2] = FirstCRQ(m)
      BY <2>3 DEF FirstCRQ, Ancestor
    <2>5. DisplayName[l] \in LeafPaths
      BY LeafPathsAre
    <2>6. QED
      BY <1>1, <2>1, <2>2, <2>4, <2>5
  <1>4. QED
    BY <1>1, <1>2, <1>3
-----------------------------------------------------------------------------
(***************************************************************************)
(* The types, part by part, with what TypeOK leaves open.                  *)
(***************************************************************************)
OrNoKey == SNSs \cup {NoKey}

ClusterTypes ==
    /\ sns \subseteq SNSs /\ namespaces \subseteq Nodes /\ Root \in namespaces
    /\ terminating \subseteq namespaces /\ terminating \subseteq SNSs
    /\ admission \in [SNSs -> [at : {"idle", "count"}, key : OrNoKey]]

WorkerTypes ==
    /\ worker \in [at : {"idle", "namespace", "ensure", "parent", "crq", "add"}, sns : Nodes, key : OrNoKey]
    /\ worker.at # "idle" => worker.sns \in SNSs
    /\ worker.at = "add" => worker.key \in SNSs

CleanerTypes ==
    /\ cleaner \in [at : {"idle", "db", "sns", "finalizer"}, sns : Nodes, key : OrNoKey]
    /\ cleaner.at # "idle" => cleaner.sns \in SNSs

CountTypes == failures \in 0..MaxFailures /\ early \in BOOLEAN /\ crowded \in BOOLEAN /\ late \in BOOLEAN

Types == Forest(crqForest, SNSs) /\ ClusterTypes /\ WorkerTypes /\ CleanerTypes /\ CountTypes

(***************************************************************************)
(* A key is a subnamespace, or there is none.                              *)
(***************************************************************************)
LEMMA KeyType == ASSUME Forest(crqForest, SNSs), NEW n PROVE Key(n) \subseteq OrNoKey /\ Key(n) # {}
  BY DEF Forest, Key, KeysOf, Keys, OrNoKey

(***************************************************************************)
(* The types hold at the start.                                            *)
(***************************************************************************)
LEMMA InitTypes == Init => Types
  <1> SUFFICES ASSUME Init PROVE Types
    OBVIOUS
  <1>1. ClusterTypes
    BY Names, ParameterAssumption DEF Init, ClusterTypes, NotAsking, OrNoKey
  <1>2. Forest(crqForest, SNSs)
    <2>1. sns \subseteq SNSs
      BY <1>1 DEF ClusterTypes
    <2>2. Forest(Rebuilt(LeafPaths, Depths), SNSs)
      BY <2>1, Names, LeafPathsAre, RebuiltForest
    <2>3. QED
      BY <2>2 DEF Init
  <1>3. WorkerTypes /\ CleanerTypes
    BY Names DEF Init, WorkerTypes, CleanerTypes, Idle, OrNoKey
  <1>4. CountTypes
    <2>1. failures = 0 /\ 0 \in 0..MaxFailures
      BY ParameterAssumption DEF Init
    <2>2. early \in BOOLEAN /\ crowded \in BOOLEAN /\ late \in BOOLEAN
      BY DEF Init
    <2>3. QED
      BY <2>1, <2>2 DEF CountTypes
  <1>5. QED
    BY <1>1, <1>2, <1>3, <1>4 DEF Types

(***************************************************************************)
(* And every step keeps them.                                              *)
(***************************************************************************)
LEMMA TypesStep == ASSUME Types, [Next]_vars PROVE Types'
  <1> USE DEF Types
  <1>0. SNSs \subseteq Nodes /\ Root \in Nodes /\ Root \notin SNSs
    BY Names
  <1>1. ASSUME NEW n \in SNSs, AdmitKey(n) PROVE Types'
    <2>1. PICK k \in Key(Parent(n)) : admission' = [admission EXCEPT ![n] = [at |-> "count", key |-> k]]
      BY <1>1 DEF AdmitKey
    <2>2. k \in OrNoKey
      BY KeyType
    <2>3. ClusterTypes'
      BY <1>1, <2>1, <2>2 DEF AdmitKey, ClusterTypes, cluster
    <2>4. QED
      BY <1>1, <2>3 DEF AdmitKey, cluster, history, WorkerTypes, CleanerTypes, CountTypes
  <1>2. ASSUME NEW n \in SNSs, AdmitCount(n) PROVE Types'
    <2>1. ClusterTypes'
      BY <1>2 DEF AdmitCount, ClusterTypes, NotAsking, OrNoKey
    <2>2. CountTypes'
      BY <1>2 DEF AdmitCount, CountTypes
    <2>3. QED
      BY <1>2, <2>1, <2>2 DEF AdmitCount, WorkerTypes, CleanerTypes
  <1>3. ASSUME NEW n \in SNSs, DeleteNamespace(n) PROVE Types'
    BY <1>3 DEF DeleteNamespace, ClusterTypes, WorkerTypes, CleanerTypes, CountTypes, history
  <1>4. ASSUME NEW n \in SNSs, Reconcile(n) PROVE Types'
    <2>1. WorkerTypes'
      BY <1>0, <1>4 DEF Reconcile, WorkerTypes, Idle, OrNoKey
    <2>2. QED
      BY <1>4, <2>1 DEF Reconcile, ClusterTypes, CleanerTypes, CountTypes, history, cluster
  <1>5. ASSUME NEW n \in SNSs, CleanUp(n) PROVE Types'
    <2>1. PICK k \in Key(n) : cleaner' = [at |-> IF k = NoKey THEN "sns" ELSE "db", sns |-> n, key |-> k]
      BY <1>5 DEF CleanUp
    <2>2. k \in OrNoKey
      BY KeyType
    <2>3. CleanerTypes'
      BY <1>0, <1>5, <2>1, <2>2 DEF CleanerTypes
    <2>4. QED
      BY <1>5, <2>3 DEF CleanUp, ClusterTypes, WorkerTypes, CountTypes, history, cluster
  <1>6. ASSUME CreateSNSNamespace PROVE Types'
    BY <1>0, <1>6 DEF CreateSNSNamespace, Step, ClusterTypes, WorkerTypes, CleanerTypes, CountTypes, history
  <1>7. ASSUME EnsureSNSInDB PROVE Types'
    <2>1. WorkerTypes'
      BY <1>0, <1>7 DEF EnsureSNSInDB, Step, WorkerTypes, Idle, OrNoKey
    <2>2. QED
      BY <1>7, <2>1 DEF EnsureSNSInDB, ClusterTypes, CleanerTypes, CountTypes, history, cluster
  <1>8. ASSUME AddNS PROVE Types'
    <2>1. PICK k \in Key(Parent(worker.sns)) :
            worker' = [worker EXCEPT !.at = IF k # NoKey THEN "add" ELSE "crq", !.key = k]
      BY <1>8 DEF AddNS
    <2>2. k \in OrNoKey
      BY KeyType
    <2>3. WorkerTypes'
      BY <1>8, <2>1, <2>2 DEF AddNS, WorkerTypes, OrNoKey
    <2>4. QED
      BY <1>8, <2>3 DEF AddNS, ClusterTypes, CleanerTypes, CountTypes, history, cluster
  <1>9. ASSUME CRQFound PROVE Types'
    <2>1. WorkerTypes'
      BY <1>9 DEF CRQFound, WorkerTypes, OrNoKey
    <2>2. QED
      BY <1>9, <2>1 DEF CRQFound, ClusterTypes, CleanerTypes, CountTypes, history, cluster
  <1>10. ASSUME CRQNotFound PROVE Types'
    <2>1. WorkerTypes'
      BY <1>0, <1>10 DEF CRQNotFound, WorkerTypes, Idle, OrNoKey
    <2>2. QED
      BY <1>10, <2>1 DEF CRQNotFound, ClusterTypes, CleanerTypes, CountTypes, history, cluster
  <1>11. ASSUME AddNSAdd PROVE Types'
    <2>1. worker.key \in SNSs /\ worker.sns \in SNSs
      BY <1>11 DEF AddNSAdd, WorkerTypes
    <2>2. Forest(AddNSToKey(worker.key, worker.sns), SNSs)
      BY <2>1, AddedForest
    <2>3. WorkerTypes'
      BY <1>0, <1>11 DEF AddNSAdd, WorkerTypes, Idle, OrNoKey
    <2>4. Forest(crqForest, SNSs)'
      BY <1>11, <2>2 DEF AddNSAdd
    <2>5. QED
      BY <1>11, <2>3, <2>4 DEF AddNSAdd, ClusterTypes, CleanerTypes, CountTypes, cluster
  <1>12. ASSUME DeleteNamespaceFromDB PROVE Types'
    <2>1. Forest(crqForest, SNSs)'
      <3>1. Forest(DeleteKey(cleaner.key), SNSs)
        BY DeletedForest
      <3>2. cleaner.key \in Keys => Forest(RemoveNS(cleaner.sns, cleaner.key), SNSs)
        BY RemovedForest
      <3>3. \/ crqForest' = DeleteKey(cleaner.key)
            \/ cleaner.key \in Keys /\ crqForest' = RemoveNS(cleaner.sns, cleaner.key)
            \/ crqForest' = crqForest
        BY <1>12, Zenon DEF DeleteNamespaceFromDB
      <3>4. QED
        BY <3>1, <3>2, <3>3
    <2>2. CleanerTypes'
      BY <1>0, <1>12 DEF DeleteNamespaceFromDB, CleanerTypes, Idle, OrNoKey
    <2>3. QED
      BY <1>12, <2>1, <2>2 DEF DeleteNamespaceFromDB, ClusterTypes, WorkerTypes, CountTypes, cluster, history
  <1>13. ASSUME DeleteSNS PROVE Types'
    <2>1. CleanerTypes'
      BY <1>13 DEF DeleteSNS, CleanerTypes
    <2>2. QED
      BY <1>13, <2>1 DEF DeleteSNS, ClusterTypes, WorkerTypes, CountTypes, history
  <1>14. ASSUME DeleteNSFinalizer PROVE Types'
    <2>1. CleanerTypes'
      BY <1>0, <1>14 DEF DeleteNSFinalizer, CleanerTypes, Idle, OrNoKey
    <2>2. ClusterTypes'
      BY <1>0, <1>14 DEF DeleteNSFinalizer, ClusterTypes, CleanerTypes
    <2>3. QED
      BY <1>14, <2>1, <2>2 DEF DeleteNSFinalizer, WorkerTypes, CountTypes, history
  <1>15. ASSUME Fail PROVE Types'
    <2>1. WorkerTypes' /\ CleanerTypes'
      BY <1>0, <1>15 DEF Fail, WorkerTypes, CleanerTypes, Idle, OrNoKey
    <2>2. CountTypes'
      BY <1>15, ParameterAssumption DEF Fail, CountTypes, history
    <2>3. QED
      BY <1>15, <2>1, <2>2 DEF Fail, ClusterTypes, cluster
  <1>16. ASSUME Restart PROVE Types'
    <2>1. Forest(crqForest, SNSs)'
      <3>1. Forest(Rebuilt(LeafPaths, Depths), SNSs)
        BY Names, LeafPathsAre, RebuiltForest DEF ClusterTypes
      <3>2. QED
        BY <1>16, <3>1 DEF Restart
    <2>2. WorkerTypes' /\ CleanerTypes'
      BY <1>0, <1>16 DEF Restart, WorkerTypes, CleanerTypes, Idle, OrNoKey
    <2>3. CountTypes'
      <3>1. failures' \in 0..MaxFailures
        BY <1>16, ParameterAssumption DEF Restart, CountTypes
      <3>2. early' \in BOOLEAN
        BY <1>16 DEF Restart
      <3>3. QED
        BY <1>16, <3>1, <3>2 DEF Restart, CountTypes
    <2>4. ClusterTypes'
      BY <1>16 DEF Restart, ClusterTypes, NotAsking, OrNoKey
    <2>5. QED
      BY <2>1, <2>2, <2>3, <2>4
  <1>17. ASSUME UNCHANGED vars PROVE Types'
    BY <1>17 DEF vars, ClusterTypes, WorkerTypes, CleanerTypes, CountTypes
  <1>18. QED
    BY <1>1, <1>2, <1>3, <1>4, <1>5, <1>6, <1>7, <1>8, <1>9, <1>10, <1>11, <1>12, <1>13, <1>14, <1>15, <1>16, <1>17
       DEF Next, Work, Clean

(***************************************************************************)
(* The type invariant of NamespaceDB, for a hierarchy of any depth.        *)
(***************************************************************************)
THEOREM NdbTyping == Spec => []TypeOK
  <1>1. Types => TypeOK
    BY Names DEF Types, TypeOK, Forest, Keys, ClusterTypes, WorkerTypes, CleanerTypes, CountTypes, OrNoKey
  <1>2. QED
    BY <1>1, InitTypes, TypesStep, PTL DEF Spec
-----------------------------------------------------------------------------
(***************************************************************************)
(* The cluster: what a Subnamespace is under is there and is not being     *)
(* deleted; a namespace that is not being deleted has its Subnamespace.    *)
(***************************************************************************)
Alive == namespaces \ terminating

ClusterInv ==
    /\ \A c \in sns : \A x \in Way(c) : x # c => x \in Alive
    /\ \A n \in SNSs : n \in Alive => n \in sns
    /\ worker.at = "namespace" => worker.sns \in sns /\ worker.sns \notin namespaces
    /\ cleaner.at # "idle" => cleaner.sns \in terminating

(***************************************************************************)
(* Above what is alive, or has a Subnamespace, all is alive.               *)
(***************************************************************************)
LEMMA AliveAbove ==
    ASSUME Types, ClusterInv, NEW n \in Alive, NEW x \in Way(n)
    PROVE  x \in Alive
  <1>1. CASE n = Root
    <2>1. Way(Root) = {Root}
      BY TreeAssumption DEF Way
    <2>2. QED
      BY <1>1, <2>1
  <1>2. CASE n # Root
    <2>1. n \in SNSs
      BY <1>2 DEF Types, ClusterTypes, Alive, SNSs
    <2>2. QED
      BY <2>1 DEF ClusterInv
  <1>3. QED
    BY <1>1, <1>2

(***************************************************************************)
(* It holds at the start.                                                  *)
(***************************************************************************)
LEMMA InitCluster == Init => ClusterInv
  <1> SUFFICES ASSUME Init PROVE ClusterInv
    OBVIOUS
  <1>1. sns = Started /\ Alive = Started \cup {Root} /\ Started \subseteq SNSs
    BY ParameterAssumption DEF Init, Alive
  <1>2. ASSUME NEW c \in Started, NEW x \in Way(c), x # c PROVE x \in Started \cup {Root}
    <2> DEFINE T == {Depth(m) : m \in {y \in Started : ~(Way(y) \subseteq Started \cup {Root})}}
    <2>1. SUFFICES ASSUME T # {} PROVE FALSE
      BY <1>1
    <2>2. T \in SUBSET Nat
      BY <1>1, Names
    <2>3. PICK d \in T : \A y \in T : d <= y
      <3> HIDE DEF T
      <3> QED
        BY <2>1, <2>2, LeastNatural
    <2>4. PICK m \in Started : d = Depth(m) /\ ~(Way(m) \subseteq Started \cup {Root})
      BY <2>3
    <2>5. m \in SNSs /\ Parent(m) \in Started \cup {Root} /\ Depth(m) = Depth(Parent(m)) + 1 /\ Depth(Parent(m)) \in Nat
      BY <1>1, Names, ParameterAssumption
    <2>6. Way(m) = Way(Parent(m)) \cup {m}
      BY <2>5, WayToParent
    <2>7. Way(Root) = {Root}
      BY TreeAssumption DEF Way
    <2>8. Parent(m) # Root /\ Parent(m) \in Started /\ ~(Way(Parent(m)) \subseteq Started \cup {Root})
      BY <2>4, <2>5, <2>6, <2>7
    <2>9. Depth(Parent(m)) \in T
      BY <2>8
    <2> HIDE DEF T
    <2>10. d <= Depth(Parent(m))
      BY <2>3, <2>9
    <2>11. QED
      BY <2>4, <2>5, <2>10
  <1>3. worker.at = "idle" /\ cleaner.at = "idle"
    BY DEF Init, Idle
  <1>4. QED
    BY <1>1, <1>2, <1>3, Names DEF ClusterInv

(***************************************************************************)
(* And every step keeps it.                                                *)
(***************************************************************************)
LEMMA ClusterStep == ASSUME Types, ClusterInv, [Next]_vars PROVE ClusterInv'
  <1>t. ClusterTypes /\ WorkerTypes /\ CleanerTypes
    BY DEF Types
  <1>1. ASSUME NEW n \in SNSs, AdmitCount(n) PROVE ClusterInv'
    <2>1. CASE sns' = sns
      BY <1>1, <2>1 DEF AdmitCount, ClusterInv, Alive
    <2>2. CASE sns' # sns
      <3>1. sns' = sns \cup {n} /\ Parent(n) \in Alive
        BY <1>1, <2>2 DEF AdmitCount, Alive
      <3>2. Way(n) = Way(Parent(n)) \cup {n}
        BY WayToParent
      <3>3. \A x \in Way(n) : x # n => x \in Alive
        BY <3>1, <3>2, AliveAbove
      <3>4. QED
        BY <1>1, <3>1, <3>3 DEF AdmitCount, ClusterInv, Alive
    <2>3. QED
      BY <2>1, <2>2
  <1>2. ASSUME NEW n \in SNSs, DeleteNamespace(n) PROVE ClusterInv'
    <2>1. ASSUME NEW c \in sns, NEW x \in Way(c), x # c PROVE x # n
      <3>1. SUFFICES ASSUME x = n PROVE FALSE
        OBVIOUS
      <3>2. c \in Nodes
        BY <1>t, Names DEF ClusterTypes
      <3>3. PICK d \in SNSs : d \in Way(c) /\ Parent(d) = n
        BY <2>1, <3>1, <3>2, WayIsOne
      <3>4. d \in sns
        BY <3>3 DEF ClusterInv
      <3>5. QED
        BY <1>2, <3>3, <3>4 DEF DeleteNamespace
    <2>2. \A c \in sns : \A x \in Way(c) : x # c => x \in Alive'
      BY <1>2, <2>1 DEF DeleteNamespace, ClusterInv, Alive
    <2>3. QED
      BY <1>2, <2>2 DEF DeleteNamespace, ClusterInv, Alive
  <1>3. ASSUME NEW n \in SNSs, Reconcile(n) PROVE ClusterInv'
    <2>1. worker'.at = "namespace" => worker'.sns \in sns /\ worker'.sns \notin namespaces
      BY <1>3 DEF Reconcile, Idle
    <2>2. QED
      BY <1>3, <2>1 DEF Reconcile, ClusterInv, Alive, cluster
  <1>4. ASSUME NEW n \in SNSs, CleanUp(n) PROVE ClusterInv'
    <2>1. cleaner'.sns \in terminating
      BY <1>4 DEF CleanUp
    <2>2. QED
      BY <1>4, <2>1 DEF CleanUp, ClusterInv, Alive, cluster
  <1>5. ASSUME CreateSNSNamespace PROVE ClusterInv'
    <2>1. worker'.at = "ensure" /\ worker.sns \in sns
      BY <1>5, <1>t DEF CreateSNSNamespace, Step, WorkerTypes, ClusterInv
    <2>2. QED
      BY <1>5, <2>1 DEF CreateSNSNamespace, ClusterInv, Alive
  <1>6. ASSUME UNCHANGED cluster,
               worker'.at # "namespace" \/ UNCHANGED worker,
               cleaner'.at = "idle" \/ UNCHANGED cleaner \/ (cleaner.at # "idle" /\ cleaner'.sns = cleaner.sns)
        PROVE  ClusterInv'
    BY <1>6 DEF ClusterInv, Alive, cluster
  <1>7. ASSUME DeleteSNS PROVE ClusterInv'
    <2>1. cleaner'.sns = cleaner.sns /\ cleaner.sns \in terminating
      BY <1>7, <1>t DEF DeleteSNS, CleanerTypes, ClusterInv
    <2>2. worker.at = "namespace" => worker.sns # cleaner.sns
      BY <1>t, <2>1 DEF ClusterInv, ClusterTypes
    <2>3. QED
      BY <1>7, <2>1, <2>2 DEF DeleteSNS, ClusterInv, Alive
  <1>8. ASSUME DeleteNSFinalizer PROVE ClusterInv'
    <2>1. cleaner.sns \in terminating
      BY <1>8 DEF DeleteNSFinalizer, ClusterInv
    <2>2. Alive' = Alive /\ cleaner'.at = "idle"
      BY <1>8, <2>1 DEF DeleteNSFinalizer, Alive, Idle
    <2>3. QED
      BY <1>8, <2>2 DEF DeleteNSFinalizer, ClusterInv
  <1>9. ASSUME (\E n \in SNSs : AdmitKey(n)) \/ EnsureSNSInDB \/ AddNS \/ CRQFound \/ CRQNotFound \/ AddNSAdd
        PROVE  ClusterInv'
    <2>1. UNCHANGED cluster /\ UNCHANGED cleaner
      BY <1>9 DEF AdmitKey, EnsureSNSInDB, AddNS, CRQFound, CRQNotFound, AddNSAdd
    <2>2. worker'.at # "namespace" \/ UNCHANGED worker
      <3>1. AddNS => worker'.at # "namespace"
        BY <1>t DEF AddNS, WorkerTypes
      <3>2. EnsureSNSInDB \/ CRQFound \/ CRQNotFound \/ AddNSAdd => worker'.at # "namespace"
        <4>1. EnsureSNSInDB => worker'.at # "namespace"
          BY <1>t DEF EnsureSNSInDB, Step, Idle, WorkerTypes
        <4>2. CRQFound => worker'.at # "namespace"
          BY <1>t DEF CRQFound, WorkerTypes
        <4>3. CRQNotFound \/ AddNSAdd => worker'.at # "namespace"
          BY DEF CRQNotFound, AddNSAdd, Idle
        <4>4. QED
          BY <4>1, <4>2, <4>3
      <3>3. (\E n \in SNSs : AdmitKey(n)) => UNCHANGED worker
        BY DEF AdmitKey
      <3>4. QED
        BY <1>9, <3>1, <3>2, <3>3
    <2>3. QED
      BY <1>6, <2>1, <2>2
  <1>10. ASSUME DeleteNamespaceFromDB PROVE ClusterInv'
    BY <1>6, <1>10, <1>t DEF DeleteNamespaceFromDB, Idle, CleanerTypes
  <1>11. ASSUME Fail \/ Restart PROVE ClusterInv'
    BY <1>6, <1>11 DEF Fail, Restart, Idle, cluster
  <1>12. ASSUME UNCHANGED vars PROVE ClusterInv'
    BY <1>12 DEF vars, ClusterInv, Alive
  <1>13. QED
    BY <1>1, <1>2, <1>3, <1>4, <1>5, <1>7, <1>8, <1>9, <1>10, <1>11, <1>12 DEF Next, Work, Clean
-----------------------------------------------------------------------------
(***************************************************************************)
(* The entries: each namespace is in the DB once, under one that is on its *)
(* way; what the worker is about to add is not in it, and the key it was   *)
(* given is in it as a key or not any more.                                *)
(***************************************************************************)
EntryInv ==
    /\ Tidy(crqForest)
    /\ \A n \in SNSs : KeysOf(n) \subseteq Way(n)
    /\ worker.at \in {"parent", "crq", "add"} => KeysOf(worker.sns) = {} /\ BelowRQ(worker.sns)
    /\ worker.at = "add" => worker.key \in Way(worker.sns) /\ KeysOf(worker.key) \subseteq {worker.key}

(***************************************************************************)
(* What a look-up returns.                                                 *)
(***************************************************************************)
LEMMA LookedUp ==
    ASSUME Types, Tidy(crqForest), NEW n \in Nodes, NEW k \in Key(n)
    PROVE  /\ k = NoKey => KeysOf(n) = {}
           /\ k # NoKey => n \in SNSs /\ k \in SNSs /\ KeysOf(n) = {k} /\ KeysOf(k) = {k}
  <1>0. Forest(crqForest, SNSs)
    BY DEF Types
  <1>1. NoKey \notin SNSs /\ Keys \subseteq SNSs
    BY <1>0, Names DEF Forest, Keys
  <1>2. k = NoKey => KeysOf(n) = {}
    BY <1>1 DEF Key, KeysOf
  <1>3. ASSUME k # NoKey PROVE n \in SNSs /\ k \in SNSs /\ KeysOf(n) = {k} /\ KeysOf(k) = {k}
    <2>1. k \in KeysOf(n) /\ k \in Keys /\ k \in KeysOf(k)
      BY <1>3 DEF Key, KeysOf
    <2>2. (\A a, b \in KeysOf(n) : a = b) /\ (\A a, b \in KeysOf(k) : a = b)
      BY <1>0, TidyIsOnce
    <2>3. n \in SNSs
      <3>1. KeysOf(n) = Holders(crqForest, n)
        BY <1>0, KeysOfHolders
      <3>2. n = k \/ \E i \in 1..Len(crqForest[k]) : crqForest[k][i] = n
        BY <2>1, <3>1 DEF Holders
      <3>3. crqForest[k] \in Seq(SNSs)
        BY <1>0, <2>1 DEF Forest, Keys
      <3>4. QED
        BY <1>1, <2>1, <3>2, <3>3
    <2>4. QED
      BY <1>1, <2>1, <2>2, <2>3
  <1>4. QED
    BY <1>2, <1>3

(***************************************************************************)
(* What the steps that change the DB do: AddNSAdd adds the namespace, ...  *)
(***************************************************************************)
LEMMA AddEffect ==
    ASSUME Types, EntryInv, AddNSAdd
    PROVE  /\ Tidy(crqForest)'
           /\ \A m : KeysOf(m)' = IF m \in {worker.sns, worker.key} THEN {worker.key} ELSE KeysOf(m)
           /\ worker.sns \in SNSs /\ worker.key \in SNSs /\ worker.key \in Way(worker.sns)
           /\ KeysOf(worker.sns) = {} /\ BelowRQ(worker.sns) /\ KeysOf(worker.key) \subseteq {worker.key}
           /\ worker'.at = "idle"
  <1>1. worker.sns \in SNSs /\ worker.key \in SNSs /\ Forest(crqForest, SNSs)
    BY DEF Types, WorkerTypes, AddNSAdd
  <1>2. /\ KeysOf(worker.sns) = {} /\ BelowRQ(worker.sns) /\ KeysOf(worker.key) \subseteq {worker.key}
        /\ worker.key \in Way(worker.sns)
    BY DEF EntryInv, AddNSAdd
  <1>3. \A m : KeysOf(m) = Holders(crqForest, m)
    BY <1>1, KeysOfHolders
  <1>4. Tidy(crqForest)
    BY DEF EntryInv
  <1>5. /\ Tidy(AddNSToKey(worker.key, worker.sns))
        /\ \A m : Holders(AddNSToKey(worker.key, worker.sns), m) =
                    IF m \in {worker.sns, worker.key} THEN {worker.key} ELSE Holders(crqForest, m)
    BY <1>1, <1>2, <1>3, <1>4, AddedTidy
  <1>6. Types'
    BY TypesStep DEF Next, Work
  <1>7. \A m : KeysOf(m)' = Holders(crqForest', m)
    <2>1. Forest(crqForest', SNSs)
      BY <1>6 DEF Types
    <2>2. QED
      BY <2>1, KeysOfHoldersNext
  <1>8. QED
    BY <1>1, <1>2, <1>3, <1>5, <1>7 DEF AddNSAdd, Idle

(***************************************************************************)
(* ... deleteNamespaceFromNamespaceDB removes it from the list, or with it *)
(* the whole list, ...                                                     *)
(***************************************************************************)
LEMMA DeleteEffect ==
    ASSUME Types, EntryInv, DeleteNamespaceFromDB
    PROVE  /\ Tidy(crqForest)'
           /\ \/ /\ cleaner.key = cleaner.sns
                 /\ \A m : KeysOf(m)' = KeysOf(m) \ {cleaner.key}
                 /\ cleaner' = [cleaner EXCEPT !.at = "sns"]
              \/ /\ \A m : KeysOf(m)' = IF m = cleaner.sns THEN KeysOf(m) \ {cleaner.key} ELSE KeysOf(m)
                 /\ cleaner' = [cleaner EXCEPT !.at = "sns"]
              \/ /\ \A m : KeysOf(m)' = KeysOf(m)
                 /\ cleaner' = Idle
  <1> DEFINE n == cleaner.sns
             k == cleaner.key
  <1>1. Forest(crqForest, SNSs) /\ Tidy(crqForest)
    BY DEF Types, EntryInv
  <1>2. \A m : KeysOf(m) = Holders(crqForest, m)
    BY <1>1, KeysOfHolders
  <1>3. \A m : KeysOf(m)' = Holders(crqForest', m)
    <2>1. Types'
      BY TypesStep DEF Next, Clean
    <2>2. Forest(crqForest', SNSs)
      BY <2>1 DEF Types
    <2>3. QED
      BY <2>2, KeysOfHoldersNext
  <1>4. CASE k = n
    <2>1. crqForest' = DeleteKey(k) /\ cleaner' = [cleaner EXCEPT !.at = "sns"]
      BY <1>4, Zenon DEF DeleteNamespaceFromDB
    <2>2. Tidy(DeleteKey(k)) /\ \A m : Holders(DeleteKey(k), m) = Holders(crqForest, m) \ {k}
      BY <1>1, DeletedForest
    <2>3. QED
      BY <1>2, <1>3, <1>4, <2>1, <2>2
  <1>5. CASE k # n /\ k \in Keys
    <2>1. crqForest' = RemoveNS(n, k) /\ cleaner' = [cleaner EXCEPT !.at = "sns"]
      BY <1>5, Zenon DEF DeleteNamespaceFromDB
    <2>2. /\ Tidy(RemoveNS(n, k))
          /\ \A m : Holders(RemoveNS(n, k), m) = IF m = n THEN Holders(crqForest, n) \ {k} ELSE Holders(crqForest, m)
      BY <1>1, <1>5, RemovedTidy
    <2>3. QED
      BY <1>2, <1>3, <2>1, <2>2
  <1>6. CASE k # n /\ k \notin Keys
    <2>1. crqForest' = crqForest /\ cleaner' = Idle
      BY <1>6, Zenon DEF DeleteNamespaceFromDB
    <2>2. QED
      BY <1>1, <1>2, <1>3, <2>1
  <1>7. QED
    BY <1>4, <1>5, <1>6

(***************************************************************************)
(* ... and a restart has the namespaces on the way to a leaf.              *)
(***************************************************************************)
LEMMA RestartEffect ==
    ASSUME Shallow, Types, Restart
    PROVE  /\ Tidy(crqForest)'
           /\ \A m \in Nodes : KeysOf(m)' =
                IF BelowRQ(m) /\ \E l \in Leaves : m \in Way(l) THEN {FirstCRQ(m)} ELSE {}
  <1>1. Types'
    BY TypesStep DEF Next
  <1>2. Forest(crqForest', SNSs) /\ crqForest' = Rebuilt(LeafPaths, Depths) /\ sns \subseteq SNSs
    BY <1>1 DEF Types, ClusterTypes, Restart
  <1>3. \A m : KeysOf(m)' = Holders(crqForest', m)
    BY <1>2, KeysOfHoldersNext
  <1>4. QED
    BY <1>2, <1>3, RebuiltHolders

(***************************************************************************)
(* The DB is built the same way when the operator starts.                  *)
(***************************************************************************)
LEMMA InitEffect ==
    ASSUME Shallow, Init
    PROVE  /\ Tidy(crqForest)
           /\ \A m \in Nodes : KeysOf(m) =
                IF BelowRQ(m) /\ \E l \in Leaves : m \in Way(l) THEN {FirstCRQ(m)} ELSE {}
  <1>1. Forest(crqForest, SNSs) /\ sns \subseteq SNSs /\ crqForest = Rebuilt(LeafPaths, Depths)
    BY InitTypes DEF Types, ClusterTypes, Init
  <1>2. \A m : KeysOf(m) = Holders(crqForest, m)
    BY <1>1, KeysOfHolders
  <1>3. QED
    BY <1>1, <1>2, RebuiltHolders

(***************************************************************************)
(* So the entries are right at the start.                                  *)
(***************************************************************************)
LEMMA InitEntries == ASSUME Shallow, Init PROVE EntryInv
  <1>1. \A n \in SNSs : KeysOf(n) \subseteq Way(n)
    BY InitEffect, FirstOnTheWay, Names
  <1>2. worker.at = "idle"
    BY DEF Init, Idle
  <1>3. QED
    BY <1>1, <1>2, InitEffect DEF EntryInv

(***************************************************************************)
(* Every step keeps the entries right.                                     *)
(***************************************************************************)
LEMMA EntryStep == ASSUME Shallow, Types, EntryInv, [Next]_vars PROVE EntryInv'
  <1>t. ClusterTypes /\ WorkerTypes /\ CleanerTypes
    BY DEF Types
  <1>1. ASSUME UNCHANGED <<crqForest, worker>> PROVE EntryInv'
    BY <1>1 DEF EntryInv, KeysOf, Keys
  <1>2. ASSUME UNCHANGED crqForest, worker'.at \notin {"parent", "crq", "add"} PROVE EntryInv'
    BY <1>2 DEF EntryInv, KeysOf, Keys
  <1>3. ASSUME EnsureSNSInDB PROVE EntryInv'
    <2>1. CASE worker' = Idle
      BY <1>2, <1>3, <2>1 DEF EnsureSNSInDB, Idle
    <2>2. CASE worker' # Idle
      <3>1. KeysOf(worker.sns) = {} /\ BelowRQ(worker.sns) /\ worker'.at = "parent" /\ worker'.sns = worker.sns
        BY <1>3, <1>t, <2>2 DEF EnsureSNSInDB, Step, WorkerTypes
      <3>2. QED
        BY <1>3, <3>1 DEF EnsureSNSInDB, EntryInv, KeysOf, Keys
    <2>3. QED
      BY <2>1, <2>2
  <1>4. ASSUME AddNS PROVE EntryInv'
    <2>1. PICK k \in Key(Parent(worker.sns)) :
            worker' = [worker EXCEPT !.at = IF k # NoKey THEN "add" ELSE "crq", !.key = k]
      BY <1>4 DEF AddNS
    <2>2. worker.sns \in SNSs /\ Parent(worker.sns) \in Nodes /\ KeysOf(worker.sns) = {} /\ BelowRQ(worker.sns)
      BY <1>4, <1>t, Names DEF AddNS, WorkerTypes, EntryInv
    <2>3. worker'.sns = worker.sns /\ worker'.key = k /\ (k = NoKey => worker'.at = "crq")
      BY <1>t, <2>1 DEF WorkerTypes
    <2>4. k # NoKey => k \in Way(worker.sns) /\ KeysOf(k) = {k}
      BY <2>2, LookedUp, WayToParent DEF EntryInv
    <2>5. (KeysOf(worker.sns) = {})' /\ KeysOf(k)' = KeysOf(k)
      BY <1>4, <2>2, <2>3 DEF AddNS, KeysOf, Keys
    <2>6. (worker.at = "add" => worker.key \in Way(worker.sns) /\ KeysOf(worker.key) \subseteq {worker.key})'
      <3>1. worker'.at = "add" => k # NoKey
        BY <2>3
      <3>2. KeysOf(worker.key)' = KeysOf(k)'
        BY <2>3 DEF KeysOf, Keys
      <3>3. QED
        BY <2>3, <2>4, <2>5, <3>1, <3>2
    <2>7. UNCHANGED crqForest
      BY <1>4 DEF AddNS
    <2>8. (Tidy(crqForest) /\ \A n \in SNSs : KeysOf(n) \subseteq Way(n))'
      BY <2>7 DEF EntryInv, KeysOf, Keys
    <2>9. QED
      BY <2>2, <2>3, <2>5, <2>6, <2>8 DEF EntryInv
  <1>5. ASSUME CRQFound PROVE EntryInv'
    <2>1. worker'.sns = worker.sns /\ worker'.key = worker.sns /\ KeysOf(worker.sns) = {} /\ BelowRQ(worker.sns)
          /\ worker.sns \in SNSs
      BY <1>5, <1>t DEF CRQFound, WorkerTypes, EntryInv
    <2>2. worker.sns \in Way(worker.sns)
      BY <2>1, Names, WayPositions
    <2>3. UNCHANGED crqForest
      BY <1>5 DEF CRQFound
    <2>4. QED
      BY <2>1, <2>2, <2>3 DEF EntryInv, KeysOf, Keys
  <1>6. ASSUME AddNSAdd PROVE EntryInv'
    <2>1. ASSUME NEW n \in SNSs PROVE KeysOf(n)' \subseteq Way(n)
      <3>1. KeysOf(n)' = IF n \in {worker.sns, worker.key} THEN {worker.key} ELSE KeysOf(n)
        BY <1>6, AddEffect
      <3>2. worker.key \in Way(worker.sns) /\ n \in Way(n) /\ KeysOf(n) \subseteq Way(n)
        BY <1>6, AddEffect, Names, WayPositions DEF EntryInv
      <3>3. QED
        BY <3>1, <3>2
    <2>2. Tidy(crqForest)' /\ worker'.at = "idle"
      BY <1>6, AddEffect
    <2>3. QED
      BY <2>1, <2>2 DEF EntryInv
  <1>7. ASSUME DeleteNamespaceFromDB PROVE EntryInv'
    <2>1. Tidy(crqForest)' /\ \A m : KeysOf(m)' \subseteq KeysOf(m)
      BY <1>7, DeleteEffect
    <2>2. UNCHANGED worker
      BY <1>7 DEF DeleteNamespaceFromDB
    <2>3. KeysOf(worker.sns)' \subseteq KeysOf(worker.sns) /\ KeysOf(worker.key)' \subseteq KeysOf(worker.key)
      BY <2>1, <2>2 DEF KeysOf, Keys
    <2>4. QED
      BY <2>1, <2>2, <2>3 DEF EntryInv
  <1>8. ASSUME Restart PROVE EntryInv'
    <2>1. /\ Tidy(crqForest)'
          /\ \A m \in Nodes : KeysOf(m)' =
               IF BelowRQ(m) /\ \E l \in Leaves : m \in Way(l) THEN {FirstCRQ(m)} ELSE {}
      BY <1>8, RestartEffect
    <2>2. \A n \in SNSs : KeysOf(n)' \subseteq Way(n)
      BY <2>1, FirstOnTheWay, Names
    <2>3. worker'.at = "idle"
      BY <1>8 DEF Restart, Idle
    <2>4. QED
      BY <2>1, <2>2, <2>3 DEF EntryInv
  <1>9. ASSUME \/ \E n \in SNSs : AdmitKey(n) \/ AdmitCount(n) \/ DeleteNamespace(n) \/ CleanUp(n)
               \/ DeleteSNS \/ DeleteNSFinalizer \/ UNCHANGED vars
        PROVE  EntryInv'
    <2>1. UNCHANGED <<crqForest, worker>>
      BY <1>9 DEF AdmitKey, AdmitCount, DeleteNamespace, CleanUp, DeleteSNS, DeleteNSFinalizer, vars
    <2>2. QED
      BY <1>1, <2>1
  <1>10. ASSUME (\E n \in SNSs : Reconcile(n)) \/ CreateSNSNamespace \/ CRQNotFound PROVE EntryInv'
    <2>1. UNCHANGED crqForest
      BY <1>10 DEF Reconcile, CreateSNSNamespace, CRQNotFound
    <2>2. worker'.at \notin {"parent", "crq", "add"}
      <3>1. ASSUME NEW n \in SNSs, Reconcile(n) PROVE worker'.at \in {"ensure", "namespace"}
        BY <3>1 DEF Reconcile, Idle
      <3>2. CreateSNSNamespace => worker'.at = "ensure"
        BY <1>t DEF CreateSNSNamespace, Step, WorkerTypes
      <3>3. CRQNotFound => worker'.at = "idle"
        BY DEF CRQNotFound, Idle
      <3>4. QED
        BY <1>10, <3>1, <3>2, <3>3
    <2>3. QED
      BY <1>2, <2>1, <2>2
  <1>11. ASSUME Fail PROVE EntryInv'
    <2>1. UNCHANGED crqForest /\ (worker' = Idle \/ UNCHANGED worker)
      BY <1>11 DEF Fail
    <2>2. QED
      BY <1>1, <1>2, <2>1 DEF Idle
  <1>12. QED
    BY <1>3, <1>4, <1>5, <1>6, <1>7, <1>8, <1>9, <1>10, <1>11 DEF Next, Work, Clean

\* The part of the invariant that holds whatever happened.
BaseInv == Types /\ ClusterInv /\ EntryInv

(***************************************************************************)
(* It holds in every state of a hierarchy of fewer than ten levels.        *)
(***************************************************************************)
LEMMA BaseStep == ASSUME Shallow, BaseInv, [Next]_vars PROVE BaseInv'
  BY TypesStep, ClusterStep, EntryStep DEF BaseInv

(***************************************************************************)
(* A namespace is in the DB at most once, as a key or as one entry of one  *)
(* list, in every hierarchy of fewer than ten levels, however the look-up  *)
(* and the addition of EnsureSNSInDB and the deletions of cleanUp          *)
(* interleave, and after every restart.                                    *)
(***************************************************************************)
THEOREM OneEntryEach == Shallow => (Spec => []AtMostOneEntry)
  <1> SUFFICES ASSUME Shallow PROVE Spec => []AtMostOneEntry
    OBVIOUS
  <1>1. Init => BaseInv
    BY InitTypes, InitCluster, InitEntries DEF BaseInv
  <1>2. BaseInv /\ [Next]_vars => BaseInv'
    BY BaseStep
  <1>3. BaseInv => AtMostOneEntry
    BY TidyIsOnce DEF BaseInv, Types, EntryInv, AtMostOneEntry
  <1>4. QED
    BY <1>1, <1>2, <1>3, PTL DEF Spec
-----------------------------------------------------------------------------
(***************************************************************************)
(* Deletion: as long as no namespace was added while it was being deleted, *)
(* what is in the DB has its Subnamespace, and cleanUp knows the only key  *)
(* of what it deletes until it has taken it out.                           *)
(***************************************************************************)
GoneInv ==
    ~late =>
        /\ \A n \in SNSs : KeysOf(n) # {} => n \in sns
        /\ cleaner.at \in {"sns", "finalizer"} => KeysOf(cleaner.sns) = {}
        /\ cleaner.at = "db" => KeysOf(cleaner.sns) \subseteq {cleaner.key}

(***************************************************************************)
(* What a leaf's way has in the DB after a rebuild has its Subnamespace.   *)
(***************************************************************************)
LEMMA LeavesHaveSNS ==
    ASSUME ClusterInv, NEW m \in SNSs, NEW l \in Leaves, m \in Way(l)
    PROVE  m \in sns
  BY DEF ClusterInv, Leaves

(***************************************************************************)
(* It holds at the start, ...                                              *)
(***************************************************************************)
LEMMA InitGone == ASSUME Shallow, Init PROVE GoneInv
  <1>1. ClusterInv
    BY InitCluster
  <1>2. ASSUME NEW n \in SNSs, KeysOf(n) # {} PROVE n \in sns
    <2>1. \E l \in Leaves : n \in Way(l)
      BY <1>2, InitEffect, Names
    <2>2. QED
      BY <1>1, <2>1, LeavesHaveSNS
  <1>3. cleaner.at = "idle"
    BY DEF Init, Idle
  <1>4. QED
    BY <1>2, <1>3 DEF GoneInv

(***************************************************************************)
(* ... and every step keeps it: the worker adds nothing that is being      *)
(* deleted (or that is late), nor a key that is, for the key is above.     *)
(***************************************************************************)
LEMMA GoneStep == ASSUME Shallow, BaseInv, GoneInv, [Next]_vars PROVE GoneInv'
  <1>t. Types /\ ClusterInv /\ EntryInv /\ ClusterTypes /\ WorkerTypes /\ CleanerTypes
    BY DEF BaseInv, Types
  <1>1. ASSUME UNCHANGED <<crqForest, late>>, sns \subseteq sns', UNCHANGED cleaner \/ cleaner'.at = "idle"
        PROVE  GoneInv'
    BY <1>1 DEF GoneInv, KeysOf, Keys
  <1>2. ASSUME NEW n \in SNSs, CleanUp(n) PROVE GoneInv'
    <2>1. PICK k \in Key(n) : cleaner' = [at |-> IF k = NoKey THEN "sns" ELSE "db", sns |-> n, key |-> k]
      BY <1>2 DEF CleanUp
    <2>2. (k = NoKey => KeysOf(n) = {}) /\ (k # NoKey => KeysOf(n) = {k})
      BY <1>t, Names, LookedUp DEF EntryInv
    <2>3. UNCHANGED <<crqForest, sns, late>>
      BY <1>2 DEF CleanUp, cluster, history
    <2>4. cleaner'.sns = n /\ cleaner'.key = k /\ (IF k = NoKey THEN cleaner'.at = "sns" ELSE cleaner'.at = "db")
      BY <2>1
    <2>5. KeysOf(cleaner.sns)' = KeysOf(n)
      BY <2>3, <2>4 DEF KeysOf, Keys
    <2>6. QED
      BY <2>2, <2>3, <2>4, <2>5 DEF GoneInv, KeysOf, Keys
  <1>3. ASSUME AddNSAdd PROVE GoneInv'
    <2>1. SUFFICES ASSUME ~late' PROVE GoneInv'
      BY DEF GoneInv
    <2>2. ~late /\ worker.sns \in sns /\ worker.sns \notin terminating /\ UNCHANGED <<sns, cleaner>>
      BY <1>3, <2>1 DEF AddNSAdd, cluster
    <2>3. /\ \A m : KeysOf(m)' = IF m \in {worker.sns, worker.key} THEN {worker.key} ELSE KeysOf(m)
          /\ worker.key \in SNSs /\ worker.key \in Way(worker.sns)
      BY <1>3, <1>t, AddEffect
    <2>4. worker.key \in sns /\ worker.key \notin terminating
      BY <1>t, <2>2, <2>3 DEF ClusterInv, Alive
    <2>5. \A n \in SNSs : KeysOf(n)' # {} => n \in sns
      BY <2>2, <2>3, <2>4 DEF GoneInv
    <2>6. cleaner.at # "idle" => KeysOf(cleaner.sns)' = KeysOf(cleaner.sns)
      <3>1. KeysOf(cleaner.sns)' = IF cleaner.sns \in {worker.sns, worker.key} THEN {worker.key} ELSE KeysOf(cleaner.sns)
        <4> DEFINE c == cleaner.sns
        <4>1. KeysOf(cleaner.sns)' = KeysOf(c)'
          BY <2>2 DEF KeysOf, Keys
        <4>2. UNCHANGED c
          BY <2>2
        <4>3. ASSUME NEW d, d = c PROVE KeysOf(cleaner.sns)' = KeysOf(d)'
          BY <2>2, <4>3 DEF KeysOf, Keys
        <4>4. QED
          BY <2>3, <4>3
      <3>2. QED
        BY <1>t, <2>2, <2>4, <3>1 DEF ClusterInv
    <2>7. QED
      BY <2>2, <2>5, <2>6 DEF GoneInv
  <1>4. ASSUME DeleteNamespaceFromDB PROVE GoneInv'
    <2>1. SUFFICES ASSUME ~late' PROVE GoneInv'
      BY DEF GoneInv
    <2>2. ~late /\ UNCHANGED sns /\ cleaner.at = "db" /\ KeysOf(cleaner.sns) \subseteq {cleaner.key}
      BY <1>4, <2>1 DEF DeleteNamespaceFromDB, cluster, history, GoneInv
    <2>3. \A m : KeysOf(m)' \subseteq KeysOf(m)
      BY <1>4, <1>t, DeleteEffect
    <2>4. \/ cleaner'.at = "idle"
          \/ cleaner'.at = "sns" /\ cleaner'.sns = cleaner.sns /\ \A m : m = cleaner.sns => KeysOf(m)' = KeysOf(m) \ {cleaner.key}
      BY <1>4, <1>t, DeleteEffect DEF Idle, CleanerTypes
    <2>5. cleaner'.at = "sns" => KeysOf(cleaner.sns)' = {}
      <3>1. ASSUME cleaner'.at = "sns", NEW d, d = cleaner.sns PROVE KeysOf(cleaner.sns)' = KeysOf(d)'
        BY <2>4, <3>1 DEF KeysOf, Keys
      <3>2. ASSUME cleaner'.at = "sns", NEW d, d = cleaner.sns PROVE KeysOf(d)' = {}
        BY <2>2, <2>4, <3>2
      <3>3. QED
        BY <3>1, <3>2
    <2>6. \A n \in SNSs : KeysOf(n)' # {} => n \in sns
      BY <2>2, <2>3 DEF GoneInv
    <2>7. cleaner'.at \in {"idle", "sns"}
      BY <2>4
    <2>8. QED
      BY <2>2, <2>5, <2>6, <2>7 DEF GoneInv
  <1>5. ASSUME DeleteSNS PROVE GoneInv'
    <2>1. /\ UNCHANGED <<crqForest, late>> /\ sns' = sns \ {cleaner.sns} /\ cleaner.at = "sns"
          /\ cleaner'.at = "finalizer" /\ cleaner'.sns = cleaner.sns
      BY <1>5, <1>t DEF DeleteSNS, history, CleanerTypes
    <2>2. QED
      BY <2>1 DEF GoneInv, KeysOf, Keys
  <1>6. ASSUME Restart PROVE GoneInv'
    <2>1. ASSUME NEW n \in SNSs, KeysOf(n)' # {} PROVE n \in sns
      <3>1. \E l \in Leaves : n \in Way(l)
        BY <1>6, <1>t, <2>1, RestartEffect, Names
      <3>2. QED
        BY <1>t, <3>1, LeavesHaveSNS
    <2>2. cleaner'.at = "idle" /\ UNCHANGED sns
      BY <1>6 DEF Restart, Idle
    <2>3. QED
      BY <2>1, <2>2 DEF GoneInv
  <1>7. ASSUME \/ \E n \in SNSs : AdmitKey(n) \/ AdmitCount(n) \/ DeleteNamespace(n) \/ Reconcile(n)
               \/ CreateSNSNamespace \/ EnsureSNSInDB \/ AddNS \/ CRQFound \/ CRQNotFound
               \/ DeleteNSFinalizer \/ Fail \/ UNCHANGED vars
        PROVE  GoneInv'
    <2>1. UNCHANGED <<crqForest, late>>
      BY <1>7 DEF AdmitKey, AdmitCount, DeleteNamespace, Reconcile, CreateSNSNamespace, EnsureSNSInDB, AddNS,
                  CRQFound, CRQNotFound, DeleteNSFinalizer, Fail, vars, history
    <2>2. sns \subseteq sns'
      BY <1>7 DEF AdmitKey, AdmitCount, DeleteNamespace, Reconcile, CreateSNSNamespace, EnsureSNSInDB, AddNS,
                  CRQFound, CRQNotFound, DeleteNSFinalizer, Fail, vars, cluster
    <2>3. UNCHANGED cleaner \/ cleaner'.at = "idle"
      <3>1. CASE DeleteNSFinalizer
        BY <3>1 DEF DeleteNSFinalizer, Idle
      <3>2. CASE Fail
        BY <3>2 DEF Fail, Idle
      <3>3. CASE \E n \in SNSs : AdmitKey(n) \/ AdmitCount(n) \/ DeleteNamespace(n) \/ Reconcile(n)
        BY <3>3 DEF AdmitKey, AdmitCount, DeleteNamespace, Reconcile
      <3>4. CASE CreateSNSNamespace \/ EnsureSNSInDB \/ AddNS \/ CRQFound \/ CRQNotFound
        BY <3>4 DEF CreateSNSNamespace, EnsureSNSInDB, AddNS, CRQFound, CRQNotFound
      <3>5. CASE UNCHANGED vars
        BY <3>5 DEF vars
      <3>6. QED
        BY <1>7, <3>1, <3>2, <3>3, <3>4, <3>5
    <2>4. QED
      BY <1>1, <2>1, <2>2, <2>3
  <1>8. QED
    BY <1>2, <1>3, <1>4, <1>5, <1>6, <1>7 DEF Next, Work, Clean

(***************************************************************************)
(* A namespace that is gone with its Subnamespace is not in the DB, after  *)
(* any failures and restarts in the middle of cleanUp, unless it was added *)
(* while it was being deleted.                                             *)
(***************************************************************************)
THEOREM DeletedStaysOut == Shallow => (Spec => []DeletedIsNotInDB)
  <1> SUFFICES ASSUME Shallow PROVE Spec => []DeletedIsNotInDB
    OBVIOUS
  <1>1. Init => BaseInv /\ GoneInv
    BY InitTypes, InitCluster, InitEntries, InitGone DEF BaseInv
  <1>2. BaseInv /\ GoneInv /\ [Next]_vars => BaseInv' /\ GoneInv'
    BY BaseStep, GoneStep
  <1>3. GoneInv => DeletedIsNotInDB
    BY DEF GoneInv, DeletedIsNotInDB
  <1>4. QED
    BY <1>1, <1>2, <1>3, PTL DEF Spec
-----------------------------------------------------------------------------
(***************************************************************************)
(* The keys: as long as no Subnamespace was there before its parent was in *)
(* the DB and none was added while it was being deleted,                   *)
(*  - every entry is under the first of its way;                           *)
(*  - the parent of a Subnamespace is in the DB if it belongs there;       *)
(*  - so is that of the namespace the worker looks at, while it lives;     *)
(*  - the worker makes a new key only below a parent without one;          *)
(*  - any other key it, or a webhook, has looked up is the first.          *)
(***************************************************************************)
FirstKeys == \A n \in SNSs : KeysOf(n) # {} => BelowRQ(n) /\ KeysOf(n) = {FirstCRQ(n)}

ParentsIn == \A c \in sns : ~Awaited(Parent(c))

WorkerKey ==
    LET p == Parent(worker.sns)
    IN  /\ worker.at # "idle" /\ p \in Alive => ~Awaited(p)
        /\ worker.at = "crq" /\ p \in Alive => ~BelowRQ(p)
        /\ worker.at = "add" /\ worker.key = worker.sns /\ p \in Alive => ~BelowRQ(p)
        /\ worker.at = "add" /\ worker.key # worker.sns => BelowRQ(p) /\ worker.key = FirstCRQ(worker.sns)

AskedKeys == \A n \in SNSs : admission[n].at = "count" /\ admission[n].key # NoKey =>
                                BelowRQ(Parent(n)) /\ admission[n].key = FirstCRQ(n)

FirstInv == ~early /\ ~late => FirstKeys /\ ParentsIn /\ WorkerKey /\ AskedKeys

(***************************************************************************)
(* At the start there is a leaf below every namespace.                     *)
(***************************************************************************)
LEMMA StartedHaveLeaves ==
    ASSUME Shallow, Init, NEW n \in Started
    PROVE  \E l \in Leaves : n \in Way(l)
  <1> DEFINE Out == {y \in Started : ~ \E l \in Leaves : y \in Way(l)}
             T == {9 - Depth(m) : m \in Out}
  <1>0. sns = Started /\ sns \subseteq namespaces /\ Started \subseteq SNSs
    BY ParameterAssumption DEF Init
  <1>1. SUFFICES ASSUME T # {} PROVE FALSE
    OBVIOUS
  <1>2. \A m \in Started : m \in Nodes /\ Depth(m) \in Nat /\ Depth(m) < 10
    BY <1>0, Names DEF Shallow
  <1>3. T \in SUBSET Nat
    BY <1>2
  <1>4. PICK d \in T : \A y \in T : d <= y
    <2> HIDE DEF T
    <2> QED
      BY <1>1, <1>3, LeastNatural
  <1>5. PICK m \in Out : d = 9 - Depth(m)
    BY <1>4
  <1>6. m \in Started /\ m \in Way(m)
    BY <1>2, WayPositions
  <1>7. m \notin Leaves
    BY <1>5, <1>6
  <1>8. PICK c \in Started : Parent(c) = m
    BY <1>0, <1>6, <1>7 DEF Leaves
  <1>9. m \in Way(c) /\ Depth(c) = Depth(m) + 1
    BY <1>0, <1>6, <1>8, WayToParent, Names
  <1>10. \A l \in Leaves : c \in Way(l) => m \in Way(l)
    <2>1. \A l \in Leaves : l \in Nodes
      BY <1>0, Names DEF Leaves
    <2>2. QED
      BY <1>9, <2>1, WayIsOne
  <1>11. c \in Out
    BY <1>5, <1>8, <1>10
  <1>12. 9 - Depth(c) \in T
    BY <1>11
  <1> HIDE DEF T, Out
  <1>13. d <= 9 - Depth(c)
    BY <1>4, <1>12
  <1>14. QED
    BY <1>2, <1>5, <1>6, <1>8, <1>9, <1>13

(***************************************************************************)
(* So the keys are right at the start.                                     *)
(***************************************************************************)
LEMMA InitFirst == ASSUME Shallow, Init PROVE FirstInv
  <1>1. FirstKeys
    BY InitEffect, Names DEF FirstKeys
  <1>2. ASSUME NEW c \in sns PROVE ~Awaited(Parent(c))
    <2>1. c \in SNSs /\ Parent(c) \in Started \cup {Root} /\ Parent(c) \in Nodes
      BY Names, ParameterAssumption DEF Init
    <2>2. CASE Parent(c) = Root
      BY <2>2, FirstOnTheWay DEF Awaited
    <2>3. CASE Parent(c) \in Started
      BY <2>1, <2>3, StartedHaveLeaves, InitEffect DEF Awaited
    <2>4. QED
      BY <2>1, <2>2, <2>3
  <1>3. worker.at = "idle" /\ \A n \in SNSs : admission[n].at = "idle"
    BY DEF Init, Idle, NotAsking
  <1>4. WorkerKey /\ AskedKeys
    BY <1>3 DEF WorkerKey, AskedKeys
  <1>5. QED
    BY <1>1, <1>2, <1>4 DEF FirstInv, ParentsIn

(***************************************************************************)
(* What is in the DB and is not being deleted stays there: its key is      *)
(* above it, and so is not being deleted either.                           *)
(***************************************************************************)
LEMMA AliveStaysIn ==
    ASSUME BaseInv, FirstKeys, [Next]_vars, ~Restart, NEW p \in Alive, ~Awaited(p)
    PROVE  ~Awaited(p)'
  <1>t. Types /\ ClusterInv /\ EntryInv
    BY DEF BaseInv
  <1>0. p \in Nodes
    BY <1>t DEF Types, ClusterTypes, Alive
  <1>1. SUFFICES ASSUME BelowRQ(p), KeysOf(p) # {} PROVE KeysOf(p)' # {}
    BY DEF Awaited
  <1>2. p \in SNSs /\ FirstCRQ(p) \in Way(p) /\ KeysOf(p) = {FirstCRQ(p)}
    BY <1>0, <1>1, FirstOnTheWay DEF FirstKeys
  <1>3. CASE UNCHANGED crqForest
    BY <1>1, <1>3 DEF KeysOf, Keys
  <1>4. CASE AddNSAdd
    BY <1>1, <1>4, <1>t, AddEffect
  <1>5. CASE DeleteNamespaceFromDB
    <2>1. cleaner.sns \in terminating
      BY <1>5, <1>t DEF ClusterInv, DeleteNamespaceFromDB
    <2>2. p # cleaner.sns /\ FirstCRQ(p) # cleaner.sns
      BY <1>2, <1>t, <2>1, AliveAbove DEF Alive
    <2>3. KeysOf(p)' = KeysOf(p) \/ (cleaner.key = cleaner.sns /\ KeysOf(p)' = KeysOf(p) \ {cleaner.key})
      BY <1>5, <1>t, <2>2, DeleteEffect
    <2>4. QED
      BY <1>2, <2>2, <2>3
  <1>6. QED
    BY <1>3, <1>4, <1>5 DEF Next, Work, Clean, vars, AdmitKey, AdmitCount, DeleteNamespace, Reconcile, CleanUp,
       CreateSNSNamespace, EnsureSNSInDB, AddNS, CRQFound, CRQNotFound, DeleteSNS, DeleteNSFinalizer, Fail

(***************************************************************************)
(* The steps, part by part.  An addition goes under the first: the look-up *)
(* of the parent's key is still right, as the parent is alive.             *)
(***************************************************************************)
LEMMA FirstKeysStep ==
    ASSUME BaseInv, FirstKeys, WorkerKey, [Next]_vars, ~Restart, ~late'
    PROVE  FirstKeys'
  <1>t. Types /\ ClusterInv /\ EntryInv
    BY DEF BaseInv
  <1>1. CASE UNCHANGED crqForest
    BY <1>1 DEF FirstKeys, KeysOf, Keys
  <1>2. CASE AddNSAdd
    <2> DEFINE w == worker.sns
               k == worker.key
    <2>1. /\ \A m : KeysOf(m)' = IF m \in {w, k} THEN {k} ELSE KeysOf(m)
          /\ w \in SNSs /\ k \in SNSs /\ BelowRQ(w)
      BY <1>2, <1>t, AddEffect
    <2>2. w \in sns /\ worker.at = "add"
      BY <1>2 DEF AddNSAdd
    <2>3. Parent(w) \in Alive
      <3>1. Parent(w) \in Nodes /\ Parent(w) \in Way(w) /\ Parent(w) # w
        <4>1. Parent(w) \in Nodes /\ Parent(w) \in Way(Parent(w))
          BY <2>1, Names, WayPositions
        <4>2. Way(w) = Way(Parent(w)) \cup {w} /\ w \notin Way(Parent(w))
          BY <2>1, WayToParent
        <4>3. QED
          BY <4>1, <4>2
      <3>2. QED
        BY <1>t, <2>2, <3>1 DEF ClusterInv
    <2>4. CASE k = w
      <3>1. FirstCRQ(w) = w
        BY <2>1, <2>2, <2>3, <2>4, FirstOnTheWay DEF WorkerKey
      <3>2. QED
        BY <2>1, <2>4, <3>1 DEF FirstKeys
    <2>5. CASE k # w
      <3>1. k = FirstCRQ(w)
        BY <2>2, <2>5 DEF WorkerKey
      <3>2. BelowRQ(k) /\ FirstCRQ(k) = k
        BY <2>1, <3>1, FirstOnTheWay, Names
      <3>3. QED
        BY <2>1, <3>1, <3>2 DEF FirstKeys
    <2>6. QED
      BY <2>4, <2>5
  <1>3. CASE DeleteNamespaceFromDB
    <2>1. \A m : KeysOf(m)' \subseteq KeysOf(m)
      BY <1>3, <1>t, DeleteEffect
    <2>2. QED
      BY <2>1 DEF FirstKeys
  <1>4. QED
    BY <1>1, <1>2, <1>3 DEF Next, Work, Clean, vars, AdmitKey, AdmitCount, DeleteNamespace, Reconcile, CleanUp,
       CreateSNSNamespace, EnsureSNSInDB, AddNS, CRQFound, CRQNotFound, DeleteSNS, DeleteNSFinalizer, Fail

(***************************************************************************)
(* A Subnamespace is admitted below a parent that is in the DB.            *)
(***************************************************************************)
LEMMA ParentsInStep ==
    ASSUME BaseInv, FirstKeys, ParentsIn, [Next]_vars, ~Restart, ~early'
    PROVE  ParentsIn'
  <1>t. Types /\ ClusterInv /\ ClusterTypes
    BY DEF BaseInv, Types
  <1>1. ASSUME NEW c \in sns PROVE ~Awaited(Parent(c))'
    <2>1. c \in SNSs /\ Parent(c) \in Nodes
      BY <1>t, Names DEF ClusterTypes
    <2>2. Parent(c) \in Way(c) /\ Parent(c) # c
      <3>1. Parent(c) \in Way(Parent(c))
        BY <2>1, WayPositions
      <3>2. Way(c) = Way(Parent(c)) \cup {c} /\ c \notin Way(Parent(c))
        BY <2>1, WayToParent
      <3>3. QED
        BY <3>1, <3>2
    <2>3. Parent(c) \in Alive
      BY <1>t, <2>2 DEF ClusterInv
    <2>4. QED
      BY <2>3, AliveStaysIn DEF ParentsIn
  <1>2. ASSUME NEW n \in SNSs, AdmitCount(n) PROVE ParentsIn'
    <2>1. CASE sns' = sns
      BY <1>1, <2>1 DEF ParentsIn
    <2>2. CASE sns' # sns
      <3>1. sns' = sns \cup {n} /\ ~Awaited(Parent(n)) /\ UNCHANGED crqForest
        BY <1>2, <2>2 DEF AdmitCount
      <3>2. ~Awaited(Parent(n))'
        BY <3>1 DEF Awaited, KeysOf, Keys
      <3>3. QED
        BY <1>1, <3>1, <3>2 DEF ParentsIn
    <2>3. QED
      BY <2>1, <2>2
  <1>3. ASSUME sns' \subseteq sns PROVE ParentsIn'
    BY <1>1, <1>3 DEF ParentsIn
  <1>4. (\E n \in SNSs : AdmitCount(n)) \/ sns' \subseteq sns
    BY DEF Next, Work, Clean, vars, cluster, AdmitKey, DeleteNamespace, Reconcile, CleanUp,
       CreateSNSNamespace, EnsureSNSInDB, AddNS, CRQFound, CRQNotFound, AddNSAdd,
       DeleteNamespaceFromDB, DeleteSNS, DeleteNSFinalizer, Fail
  <1>5. QED
    BY <1>2, <1>3, <1>4

(***************************************************************************)
(* What the worker has looked up remains right.                            *)
(***************************************************************************)
LEMMA WorkerKeyStep ==
    ASSUME BaseInv, FirstKeys, ParentsIn, WorkerKey, [Next]_vars, ~Restart
    PROVE  WorkerKey'
  <1>t. Types /\ ClusterInv /\ EntryInv /\ ClusterTypes /\ WorkerTypes
    BY DEF BaseInv, Types
  <1> DEFINE p == Parent(worker.sns)
  <1>0. \A q \in Alive : ~Awaited(q) => ~Awaited(q)'
    BY AliveStaysIn
  <1>1. ASSUME UNCHANGED worker, Alive' \subseteq Alive PROVE WorkerKey'
    <2>1. worker.at # "idle" /\ p \in Alive' => ~Awaited(p)
      BY <1>1 DEF WorkerKey
    <2>2. worker.at # "idle" /\ p \in Alive' => ~Awaited(Parent(worker.sns))'
      <3>1. ASSUME NEW q, q = p, worker.at # "idle", p \in Alive' PROVE ~Awaited(q)'
        BY <1>0, <1>1, <2>1, <3>1
      <3>2. ASSUME NEW q, q = p PROVE Awaited(Parent(worker.sns))' <=> Awaited(q)'
        BY <1>1, <3>2 DEF Awaited, KeysOf, Keys
      <3>3. QED
        BY <3>1, <3>2
    <2>3. QED
      BY <1>1, <2>2 DEF WorkerKey
  <1>2. ASSUME worker'.at = "idle" PROVE WorkerKey'
    BY <1>2 DEF WorkerKey
  <1>3. ASSUME NEW n \in SNSs, Reconcile(n) PROVE WorkerKey'
    <2>1. worker'.sns = n /\ worker'.at \in {"ensure", "namespace"} /\ n \in sns /\ UNCHANGED crqForest
      BY <1>3 DEF Reconcile, Idle
    <2>2. ~Awaited(Parent(n))
      BY <2>1 DEF ParentsIn
    <2>3. ~Awaited(Parent(worker.sns))'
      BY <2>1, <2>2 DEF Awaited, KeysOf, Keys
    <2>4. QED
      BY <2>1, <2>3 DEF WorkerKey
  <1>4. ASSUME worker'.sns = worker.sns, worker.at # "idle", UNCHANGED crqForest,
               worker'.at \in {"ensure", "parent"}, p \in Alive' => p \in Alive
        PROVE  WorkerKey'
    <2>1. p \in Alive' => ~Awaited(p)
      BY <1>4 DEF WorkerKey
    <2>2. Awaited(Parent(worker.sns))' <=> Awaited(p)
      BY <1>4 DEF Awaited, KeysOf, Keys
    <2>3. QED
      BY <1>4, <2>1, <2>2 DEF WorkerKey
  <1>5. ASSUME CreateSNSNamespace PROVE WorkerKey'
    <2>1. /\ worker'.sns = worker.sns /\ worker.at # "idle" /\ worker'.at = "ensure" /\ UNCHANGED crqForest
          /\ worker.sns \in SNSs
      BY <1>5, <1>t DEF CreateSNSNamespace, Step, WorkerTypes
    <2>2. p # worker.sns
      BY <2>1, Names
    <2>3. p \in Alive' => p \in Alive
      BY <1>5, <2>2 DEF CreateSNSNamespace, Alive
    <2>4. QED
      BY <1>4, <2>1, <2>3
  <1>6. ASSUME EnsureSNSInDB PROVE WorkerKey'
    <2>1. CASE worker' = Idle
      BY <1>2, <2>1 DEF Idle
    <2>2. CASE worker' # Idle
      <3>1. /\ worker'.sns = worker.sns /\ worker.at # "idle" /\ worker'.at = "parent" /\ UNCHANGED crqForest
            /\ Alive' = Alive
        BY <1>6, <1>t, <2>2 DEF EnsureSNSInDB, Step, WorkerTypes, cluster, Alive
      <3>2. QED
        BY <1>4, <3>1
    <2>3. QED
      BY <2>1, <2>2
  <1>7. ASSUME AddNS PROVE WorkerKey'
    <2>1. PICK k \in Key(p) : worker' = [worker EXCEPT !.at = IF k # NoKey THEN "add" ELSE "crq", !.key = k]
      BY <1>7 DEF AddNS
    <2>2. worker.sns \in SNSs /\ p \in Nodes /\ worker.at = "parent"
      BY <1>7, <1>t, Names DEF AddNS, WorkerTypes
    <2>3. /\ worker'.sns = worker.sns /\ worker'.key = k
          /\ IF k = NoKey THEN worker'.at = "crq" ELSE worker'.at = "add"
      BY <1>t, <2>1 DEF WorkerTypes
    <2>4. UNCHANGED crqForest /\ Alive' = Alive
      BY <1>7 DEF AddNS, cluster, Alive
    <2>5. p \in Alive => ~Awaited(p)
      BY <2>2 DEF WorkerKey
    <2>6. Awaited(Parent(worker.sns))' <=> Awaited(p)
      BY <2>3, <2>4 DEF Awaited, KeysOf, Keys
    <2>7. CASE k = NoKey
      <3>1. p \in Alive => ~BelowRQ(p)
        BY <1>t, <2>2, <2>5, <2>7, LookedUp DEF EntryInv, Awaited
      <3>2. QED
        BY <2>3, <2>4, <2>5, <2>6, <2>7, <3>1 DEF WorkerKey
    <2>8. CASE k # NoKey
      <3>1. p \in SNSs /\ KeysOf(p) = {k}
        BY <1>t, <2>2, <2>8, LookedUp DEF EntryInv
      <3>2. BelowRQ(p) /\ k = FirstCRQ(p) /\ k \in Way(p)
        BY <1>t, <3>1 DEF FirstKeys, EntryInv
      <3>3. p \in Way(worker.sns) /\ worker.sns \notin Way(p)
        BY <2>2, WayToParent, WayPositions
      <3>4. k # worker.sns /\ k = FirstCRQ(worker.sns)
        BY <2>2, <3>2, <3>3, FirstOnTheWay, Names
      <3>5. QED
        BY <2>3, <2>4, <2>5, <2>6, <2>8, <3>2, <3>4 DEF WorkerKey
    <2>9. QED
      BY <2>7, <2>8
  <1>8. ASSUME CRQFound PROVE WorkerKey'
    <2>1. worker'.sns = worker.sns /\ worker'.key = worker.sns /\ worker'.at = "add" /\ worker.at = "crq"
      BY <1>8, <1>t DEF CRQFound, WorkerTypes
    <2>2. UNCHANGED crqForest /\ Alive' = Alive
      BY <1>8 DEF CRQFound, cluster, Alive
    <2>3. p \in Alive => ~Awaited(p) /\ ~BelowRQ(p)
      BY <2>1 DEF WorkerKey
    <2>4. Awaited(Parent(worker.sns))' <=> Awaited(p)
      BY <2>1, <2>2 DEF Awaited, KeysOf, Keys
    <2>5. QED
      BY <2>1, <2>2, <2>3, <2>4 DEF WorkerKey
  <1>9. ASSUME CRQNotFound \/ AddNSAdd PROVE WorkerKey'
    BY <1>2, <1>9 DEF CRQNotFound, AddNSAdd, Idle
  <1>10. ASSUME Fail PROVE WorkerKey'
    <2>1. worker' = Idle \/ UNCHANGED worker
      BY <1>10 DEF Fail
    <2>2. Alive' = Alive
      BY <1>10 DEF Fail, cluster, Alive
    <2>3. QED
      BY <1>1, <1>2, <2>1, <2>2 DEF Idle
  <1>11. ASSUME \/ \E n \in SNSs : AdmitKey(n) \/ AdmitCount(n) \/ DeleteNamespace(n) \/ CleanUp(n)
                \/ DeleteNamespaceFromDB \/ DeleteSNS \/ DeleteNSFinalizer \/ UNCHANGED vars
         PROVE  WorkerKey'
    <2>1. UNCHANGED worker
      BY <1>11 DEF AdmitKey, AdmitCount, DeleteNamespace, CleanUp, DeleteNamespaceFromDB, DeleteSNS,
                   DeleteNSFinalizer, vars
    <2>2. Alive' \subseteq Alive
      BY <1>11 DEF AdmitKey, AdmitCount, DeleteNamespace, CleanUp, DeleteNamespaceFromDB, DeleteSNS,
                   DeleteNSFinalizer, vars, cluster, Alive
    <2>3. QED
      BY <1>1, <2>1, <2>2
  <1>12. QED
    BY <1>3, <1>5, <1>6, <1>7, <1>8, <1>9, <1>10, <1>11 DEF Next, Work, Clean

(***************************************************************************)
(* And so does what a webhook has looked up.                               *)
(***************************************************************************)
LEMMA AskedKeysStep ==
    ASSUME BaseInv, FirstKeys, AskedKeys, [Next]_vars, ~Restart
    PROVE  AskedKeys'
  <1>t. Types /\ EntryInv /\ ClusterTypes
    BY DEF BaseInv, Types
  <1>1. ASSUME NEW n \in SNSs, AdmitKey(n) PROVE AskedKeys'
    <2>1. PICK k \in Key(Parent(n)) : admission' = [admission EXCEPT ![n] = [at |-> "count", key |-> k]]
      BY <1>1 DEF AdmitKey
    <2>2. ASSUME k # NoKey PROVE BelowRQ(Parent(n)) /\ k = FirstCRQ(n)
      <3>1. Parent(n) \in SNSs /\ KeysOf(Parent(n)) = {k}
        BY <1>t, <2>2, LookedUp, Names DEF EntryInv
      <3>2. BelowRQ(Parent(n)) /\ k = FirstCRQ(Parent(n))
        BY <3>1 DEF FirstKeys
      <3>3. Parent(n) \in Way(n)
        BY WayToParent, WayPositions, Names
      <3>4. QED
        BY <3>2, <3>3, FirstOnTheWay, Names
    <2>3. \A m \in SNSs : admission'[m] = IF m = n THEN [at |-> "count", key |-> k] ELSE admission[m]
      BY <1>t, <2>1 DEF ClusterTypes
    <2>4. QED
      BY <2>2, <2>3 DEF AskedKeys
  <1>2. ASSUME NEW n \in SNSs, AdmitCount(n) PROVE AskedKeys'
    <2>1. \A m \in SNSs : admission'[m] = IF m = n THEN NotAsking ELSE admission[m]
      BY <1>t, <1>2 DEF AdmitCount, ClusterTypes
    <2>2. QED
      BY <2>1 DEF AskedKeys, NotAsking
  <1>3. ASSUME UNCHANGED admission PROVE AskedKeys'
    BY <1>3 DEF AskedKeys
  <1>4. QED
    BY <1>1, <1>2, <1>3 DEF Next, Work, Clean, vars, DeleteNamespace, Reconcile, CleanUp,
       CreateSNSNamespace, EnsureSNSInDB, AddNS, CRQFound, CRQNotFound, AddNSAdd,
       DeleteNamespaceFromDB, DeleteSNS, DeleteNSFinalizer, Fail

(***************************************************************************)
(* A restart finds what belongs in the DB on the way to a leaf, or is      *)
(* early.                                                                  *)
(***************************************************************************)
LEMMA FirstStep == ASSUME Shallow, BaseInv, FirstInv, [Next]_vars PROVE FirstInv'
  <1>1. SUFFICES ASSUME ~early', ~late' PROVE (FirstKeys /\ ParentsIn /\ WorkerKey /\ AskedKeys)'
    BY DEF FirstInv
  <1>2. CASE Restart
    <2>1. FirstKeys'
      BY <1>2, RestartEffect, Names DEF FirstKeys, BaseInv
    <2>2. ParentsIn'
      BY <1>1, <1>2 DEF Restart, ParentsIn
    <2>3. worker'.at = "idle" /\ \A n \in SNSs : admission'[n].at = "idle"
      BY <1>2 DEF Restart, Idle, NotAsking
    <2>4. QED
      BY <2>1, <2>2, <2>3 DEF WorkerKey, AskedKeys
  <1>3. CASE ~Restart
    <2>1. ~early /\ ~late
      <3>1. CASE \E n \in SNSs : AdmitCount(n)
        <4>1. PICK n \in SNSs : AdmitCount(n)
          BY <3>1
        <4>2. UNCHANGED late
          BY <4>1 DEF AdmitCount
        <4>3. \/ UNCHANGED early
              \/ early' = (early \/ Awaited(Parent(n)) \/ (admission[n].key = NoKey /\ BelowRQ(Parent(n))))
          BY <4>1, Zenon DEF AdmitCount
        <4>4. ~early
          BY <1>1, <4>3
        <4>5. QED
          BY <1>1, <4>2, <4>4
      <3>2. CASE AddNSAdd
        BY <1>1, <3>2 DEF AddNSAdd
      <3>3. CASE ~AddNSAdd /\ ~ \E n \in SNSs : AdmitCount(n)
        <4>1. UNCHANGED <<early, late>>
          BY <1>3, <3>3 DEF Next, Work, Clean, vars, history, AdmitKey, DeleteNamespace, Reconcile, CleanUp,
             CreateSNSNamespace, EnsureSNSInDB, AddNS, CRQFound, CRQNotFound,
             DeleteNamespaceFromDB, DeleteSNS, DeleteNSFinalizer, Fail
        <4>2. QED
          BY <1>1, <4>1
      <3>4. QED
        BY <3>1, <3>2, <3>3
    <2>2. FirstKeys /\ ParentsIn /\ WorkerKey /\ AskedKeys
      BY <2>1 DEF FirstInv
    <2>3. QED
      BY <1>1, <1>3, <2>2, FirstKeysStep, ParentsInStep, WorkerKeyStep, AskedKeysStep
  <1>4. QED
    BY <1>2, <1>3

(***************************************************************************)
(* Every entry is under the first namespace of its path that has a         *)
(* ClusterResourceQuota, whether AddNS or a rebuild put it there, whatever *)
(* failed, restarted or was deleted, as long as no Subnamespace was there  *)
(* before its parent was in the DB and none was added while it was being   *)
(* deleted.                                                                *)
(***************************************************************************)
THEOREM KeyedByTheFirst == Shallow => (Spec => []KeyedByFirst)
  <1> SUFFICES ASSUME Shallow PROVE Spec => []KeyedByFirst
    OBVIOUS
  <1>1. Init => BaseInv /\ FirstInv
    BY InitTypes, InitCluster, InitEntries, InitFirst DEF BaseInv
  <1>2. BaseInv /\ FirstInv /\ [Next]_vars => BaseInv' /\ FirstInv'
    BY BaseStep, FirstStep
  <1>3. FirstInv => KeyedByFirst
    BY DEF FirstInv, FirstKeys, KeyedByFirst
  <1>4. QED
    BY <1>1, <1>2, <1>3, PTL DEF Spec
-----------------------------------------------------------------------------
(***************************************************************************)
(* The limit.  What KeyCount counts, of a key or of any other name.        *)
(***************************************************************************)
Under(k) == {m \in SNSs : m # k /\ k \in KeysOf(m)}

LEMMA KeyCountIs ==
    ASSUME Types, Tidy(crqForest), NEW k
    PROVE  IsFiniteSet(Under(k)) /\ KeyCount(k) = Cardinality(Under(k))
  <1>1. Forest(crqForest, SNSs) /\ IsFiniteSet(SNSs)
    BY Names DEF Types
  <1>2. IsFiniteSet(Under(k))
    <2>1. Under(k) \in SUBSET SNSs
      BY DEF Under
    <2>2. QED
      BY <1>1, <2>1, FS_Subset
  <1>3. \A m : KeysOf(m) = Holders(crqForest, m)
    BY <1>1, KeysOfHolders
  <1>4. CASE k \notin Keys
    <2>1. Under(k) = {}
      BY <1>4 DEF Under, KeysOf
    <2>2. QED
      BY <1>2, <1>4, <2>1, FS_EmptySet DEF KeyCount
  <1>5. CASE k \in Keys
    <2> DEFINE l == crqForest[k]
    <2>1. l \in Seq(SNSs) /\ k \in DOMAIN crqForest
      BY <1>1, <1>5 DEF Forest, Keys
    <2>2. \A i \in 1..Len(l) : l[i] \in Under(k)
      <3> SUFFICES ASSUME NEW i \in 1..Len(l) PROVE l[i] \in Under(k)
        OBVIOUS
      <3>1. l[i] \in SNSs /\ l[i] # k
        BY <2>1 DEF Tidy
      <3>2. k \in Holders(crqForest, l[i])
        BY <2>1 DEF Holders
      <3>3. QED
        BY <1>3, <3>1, <3>2 DEF Under
    <2>3. \A x \in Under(k) : \E i \in 1..Len(l) : l[i] = x
      BY <1>3 DEF Under, Holders
    <2>4. \A i, j \in 1..Len(l) : l[i] = l[j] => i = j
      BY <2>1 DEF Tidy
    <2>5. l \in Seq(Under(k))
      <3>1. l \in [1..Len(l) -> Under(k)] /\ Len(l) \in Nat
        <4>1. l \in [1..Len(l) -> SNSs] /\ Len(l) \in Nat
          BY <2>1
        <4> HIDE DEF l
        <4>2. QED
          BY <2>2, <4>1
      <3> HIDE DEF l
      <3>2. QED
        BY <3>1, SeqDef
    <2> HIDE DEF l
    <2>6. Len(l) = Cardinality(Under(k))
      BY <1>2, <2>3, <2>4, <2>5, ListLength
    <2>7. QED
      BY <1>2, <1>5, <2>6 DEF KeyCount, l
  <1>6. QED
    BY <1>4, <1>5

(***************************************************************************)
(* The Subnamespaces that count under a key are within the limit: also the *)
(* ones that are not in the DB yet, as long as none was admitted next to   *)
(* one of those.                                                           *)
(***************************************************************************)
CountInv == ~early /\ ~late /\ ~crowded => \A k \in SNSs : Cardinality(Counted(sns, k)) <= MaxSNS

(***************************************************************************)
(* A Subnamespace is admitted when fewer than the limit are in the list:   *)
(* all that count are.                                                     *)
(***************************************************************************)
LEMMA AdmittedWithin ==
    ASSUME BaseInv, FirstInv, ~early, ~late, NEW n \in SNSs, AdmitCount(n), ~early', ~crowded',
           sns' = sns \cup {n}, n \notin sns, NEW k \in SNSs, Cardinality(Counted(sns, k)) <= MaxSNS
    PROVE  Cardinality(Counted(sns', k)) <= MaxSNS
  <1>t. Types /\ EntryInv /\ ClusterTypes /\ FirstKeys /\ AskedKeys /\ Tidy(crqForest)
    BY DEF BaseInv, Types, FirstInv, EntryInv
  <1>1. IsFiniteSet(Counted(sns, k))
    <2>1. Counted(sns, k) \in SUBSET SNSs /\ IsFiniteSet(SNSs)
      BY <1>t, Names DEF Counted, ClusterTypes
    <2>2. QED
      BY <2>1, FS_Subset
  <1>2. CASE ~(n # k /\ BelowRQ(n) /\ FirstCRQ(n) = k)
    <2>1. Counted(sns', k) = Counted(sns, k)
      BY <1>2 DEF Counted
    <2>2. QED
      BY <2>1
  <1>3. CASE n # k /\ BelowRQ(n) /\ FirstCRQ(n) = k
    <2>1. BelowRQ(Parent(n))
      BY <1>3, FirstOnTheWay
    <2>2. /\ ~(admission[n].key # NoKey /\ TooMany(admission[n].key))
          /\ early' = (early \/ Awaited(Parent(n)) \/ (admission[n].key = NoKey /\ BelowRQ(Parent(n))))
          /\ crowded' = (crowded \/ \E m \in sns : Awaited(m) /\ BelowRQ(n) /\ FirstCRQ(m) = FirstCRQ(n))
      <3>1. sns' # sns
        OBVIOUS
      <3>2. QED
        BY <3>1, Zenon DEF AdmitCount
    <2>3. admission[n].key # NoKey /\ admission[n].at = "count"
      <3>1. ~(admission[n].key = NoKey /\ BelowRQ(Parent(n)))
        BY <2>2, Zenon
      <3>2. QED
        BY <2>1, <3>1 DEF AdmitCount
    <2>4. admission[n].key = k
      BY <1>3, <1>t, <2>3 DEF AskedKeys
    <2>5. ~(KeyCount(k) >= MaxSNS)
      BY <2>2, <2>3, <2>4 DEF TooMany
    <2>6. ~ \E m \in sns : Awaited(m) /\ BelowRQ(n) /\ FirstCRQ(m) = FirstCRQ(n)
      BY <2>2, Zenon
    <2>7. Counted(sns, k) \subseteq Under(k)
      <3> SUFFICES ASSUME NEW m \in Counted(sns, k) PROVE m \in Under(k)
        OBVIOUS
      <3>1. m \in sns /\ m # k /\ BelowRQ(m) /\ FirstCRQ(m) = k /\ m \in SNSs
        BY <1>t DEF Counted, ClusterTypes
      <3>2. KeysOf(m) # {}
        BY <1>3, <2>6, <3>1 DEF Awaited
      <3>3. QED
        BY <1>t, <3>1, <3>2 DEF FirstKeys, Under
    <2>8. IsFiniteSet(Under(k)) /\ KeyCount(k) = Cardinality(Under(k))
      BY <1>t, KeyCountIs
    <2>9. Cardinality(Counted(sns, k)) <= KeyCount(k) /\ Cardinality(Counted(sns, k)) \in Nat /\ KeyCount(k) \in Nat
      <3>1. Counted(sns, k) \in SUBSET Under(k)
        BY <2>7
      <3>2. QED
        BY <1>1, <2>8, <3>1, FS_Subset, FS_CardinalityType
    <2>10. Cardinality(Counted(sns', k)) <= Cardinality(Counted(sns, k)) + 1
      <3>1. Counted(sns', k) = Counted(sns, k) \cup {n}
        BY <1>3 DEF Counted
      <3>2. n \notin Counted(sns, k)
        BY DEF Counted
      <3>3. Cardinality(Counted(sns, k) \cup {n}) = Cardinality(Counted(sns, k)) + 1
        BY <1>1, <3>2, FS_AddElement
      <3>4. QED
        BY <2>9, <3>1, <3>3
    <2>11. Cardinality(Counted(sns', k)) \in Nat
      <3>1. Counted(sns', k) = Counted(sns, k) \cup {n}
        BY <1>3 DEF Counted
      <3>2. QED
        BY <1>1, <3>1, FS_AddElement, FS_CardinalityType
    <2>12. QED
      BY <2>5, <2>9, <2>10, <2>11, ParameterAssumption
  <1>4. QED
    BY <1>2, <1>3

(***************************************************************************)
(* Every step keeps the limit.                                             *)
(***************************************************************************)
LEMMA CountStep == ASSUME BaseInv, FirstInv, CountInv, [Next]_vars PROVE CountInv'
  <1>t. Types /\ ClusterTypes
    BY DEF BaseInv, Types
  <1>1. SUFFICES ASSUME ~early', ~late', ~crowded', NEW k \in SNSs PROVE Cardinality(Counted(sns', k)) <= MaxSNS
    BY DEF CountInv, Counted, BelowRQ, FirstCRQ
  <1>2. ASSUME NEW n \in SNSs, AdmitCount(n), sns' # sns PROVE Cardinality(Counted(sns', k)) <= MaxSNS
    <2>1. sns' = sns \cup {n} /\ UNCHANGED late
      BY <1>2 DEF AdmitCount
    <2>2. /\ early' = (early \/ Awaited(Parent(n)) \/ (admission[n].key = NoKey /\ BelowRQ(Parent(n))))
          /\ crowded' = (crowded \/ \E m \in sns : Awaited(m) /\ BelowRQ(n) /\ FirstCRQ(m) = FirstCRQ(n))
      BY <1>2, Zenon DEF AdmitCount
    <2>3. ~early
      BY <1>1, <2>2, Zenon
    <2>4. ~crowded
      BY <1>1, <2>2, Zenon
    <2>5. ~late
      BY <1>1, <2>1
    <2>6. Cardinality(Counted(sns, k)) <= MaxSNS
      BY <2>3, <2>4, <2>5 DEF CountInv
    <2>7. n \notin sns
      BY <1>2, <2>1
    <2>8. QED
      BY <1>1, <1>2, <2>1, <2>3, <2>5, <2>6, <2>7, AdmittedWithin
  <1>3. ASSUME sns' \subseteq sns, ~early, ~late, ~crowded PROVE Cardinality(Counted(sns', k)) <= MaxSNS
    <2>1. Counted(sns, k) \in SUBSET SNSs /\ IsFiniteSet(SNSs) /\ Counted(sns', k) \in SUBSET Counted(sns, k)
      BY <1>t, <1>3, Names DEF Counted, ClusterTypes
    <2>2. IsFiniteSet(Counted(sns, k))
      BY <2>1, FS_Subset
    <2>3. IsFiniteSet(Counted(sns', k)) /\ Cardinality(Counted(sns', k)) <= Cardinality(Counted(sns, k))
      BY <2>1, <2>2, FS_Subset
    <2>4. Cardinality(Counted(sns, k)) <= MaxSNS
      BY <1>3 DEF CountInv
    <2>5. QED
      BY <2>2, <2>3, <2>4, FS_CardinalityType, ParameterAssumption
  <1>4. ASSUME ~ \E n \in SNSs : AdmitCount(n) /\ sns' # sns
        PROVE  sns' \subseteq sns /\ ~early /\ ~late /\ ~crowded
    <2>1. CASE \E n \in SNSs : AdmitCount(n)
      <3>1. PICK n \in SNSs : AdmitCount(n)
        BY <2>1
      <3>2. sns' = sns /\ UNCHANGED late
        BY <1>4, <3>1 DEF AdmitCount
      <3>3. \/ UNCHANGED <<early, crowded>>
            \/ /\ early' = (early \/ Awaited(Parent(n)) \/ (admission[n].key = NoKey /\ BelowRQ(Parent(n))))
               /\ crowded' = (crowded \/ \E m \in sns : Awaited(m) /\ BelowRQ(n) /\ FirstCRQ(m) = FirstCRQ(n))
        BY <3>1, Zenon DEF AdmitCount
      <3>4. ~early
        BY <1>1, <3>3, Zenon
      <3>5. ~crowded
        BY <1>1, <3>3, Zenon
      <3>6. QED
        BY <1>1, <3>2, <3>4, <3>5
    <2>2. CASE AddNSAdd
      BY <1>1, <2>2 DEF AddNSAdd, cluster
    <2>3. CASE Restart
      <3>1. early' = (early \/ \E n \in sns : Awaited(Parent(n))') /\ UNCHANGED <<sns, late, crowded>>
        BY <2>3, Zenon DEF Restart
      <3>2. ~early
        BY <1>1, <3>1, Zenon
      <3>3. QED
        BY <1>1, <3>1, <3>2
    <2>4. CASE ~AddNSAdd /\ ~Restart /\ ~ \E n \in SNSs : AdmitCount(n)
      <3>1. UNCHANGED <<early, late, crowded>>
        BY <2>4 DEF Next, Work, Clean, vars, history, AdmitKey, DeleteNamespace, Reconcile, CleanUp,
           CreateSNSNamespace, EnsureSNSInDB, AddNS, CRQFound, CRQNotFound,
           DeleteNamespaceFromDB, DeleteSNS, DeleteNSFinalizer, Fail
      <3>2. sns' \subseteq sns
        BY <2>4 DEF Next, Work, Clean, vars, cluster, AdmitKey, DeleteNamespace, Reconcile, CleanUp,
           CreateSNSNamespace, EnsureSNSInDB, AddNS, CRQFound, CRQNotFound,
           DeleteNamespaceFromDB, DeleteSNS, DeleteNSFinalizer, Fail
      <3>3. QED
        BY <1>1, <3>1, <3>2
    <2>5. QED
      BY <2>1, <2>2, <2>3, <2>4
  <1>5. QED
    BY <1>2, <1>3, <1>4

(***************************************************************************)
(* The limit on the namespaces below a key holds for creations that come   *)
(* one at a time: what is in a list has a Subnamespace that counts under   *)
(* its key.                                                                *)
(***************************************************************************)
THEOREM LimitHolds == Shallow => (Spec => []WithinMaxSNS)
  <1> SUFFICES ASSUME Shallow PROVE Spec => []WithinMaxSNS
    OBVIOUS
  <1> DEFINE Inv == BaseInv /\ GoneInv /\ FirstInv /\ CountInv
  <1>1. Init => Inv
    <2>1. Init => CountInv
      BY StartedAssumption DEF Init, CountInv
    <2>2. QED
      BY <2>1, InitTypes, InitCluster, InitEntries, InitGone, InitFirst DEF BaseInv
  <1>2. Inv /\ [Next]_vars => Inv'
    BY BaseStep, GoneStep, FirstStep, CountStep
  <1>3. Inv => WithinMaxSNS
    <2> SUFFICES ASSUME Inv, ~early, ~crowded, ~late, NEW k \in Keys PROVE KeyCount(k) <= MaxSNS
      BY DEF WithinMaxSNS
    <2>t. Types /\ ClusterTypes /\ Tidy(crqForest) /\ FirstKeys /\ Forest(crqForest, SNSs)
      BY DEF BaseInv, Types, EntryInv, FirstInv
    <2>1. k \in SNSs
      BY <2>t DEF Forest, Keys
    <2>2. Under(k) \subseteq Counted(sns, k)
      BY <2>t DEF Under, Counted, FirstKeys, GoneInv
    <2>3. IsFiniteSet(Counted(sns, k))
      <3>1. Counted(sns, k) \in SUBSET SNSs /\ IsFiniteSet(SNSs)
        BY <2>t, Names DEF Counted, ClusterTypes
      <3>2. QED
        BY <3>1, FS_Subset
    <2>4. Cardinality(Under(k)) <= Cardinality(Counted(sns, k)) /\ Cardinality(Under(k)) \in Nat
          /\ Cardinality(Counted(sns, k)) \in Nat
      <3>1. Under(k) \in SUBSET Counted(sns, k)
        BY <2>2
      <3>2. QED
        BY <2>3, <3>1, FS_Subset, FS_CardinalityType
    <2>5. Cardinality(Counted(sns, k)) <= MaxSNS
      BY <2>1 DEF CountInv
    <2>6. KeyCount(k) = Cardinality(Under(k))
      BY <2>t, KeyCountIs
    <2>7. QED
      BY <2>4, <2>5, <2>6, ParameterAssumption
  <1>4. QED
    BY <1>1, <1>2, <1>3, PTL DEF Spec
=============================================================================
