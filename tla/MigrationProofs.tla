-------------------------- MODULE MigrationProofs --------------------------
(***************************************************************************)
(* What is proved of Migration, for every hierarchy and every move in it,  *)
(* whatever fails and however often the operator restarts.                 *)
(*                                                                         *)
(* The invariants of Migration speak of a migration that is over; the      *)
(* inductive ones say where it stands at each step of the pass: which of   *)
(* the two Subnamespaces exist (Place), how much of the subtree has been   *)
(* rewritten (Walk), how far the two Updatequotas have carried the quota   *)
(* (QuotaInv), and how much of the subtree is under which key (DbInv).     *)
(***************************************************************************)
EXTENDS Migration, CrqForestLemmas

Phases    == {"absent", "None", "InProgress", "Complete", "Error"}
UpqPhases == {"absent", "None", "Complete", "Error"}
Objects   == [phase : Phases, rev : Nat]
Workers   == [at : Positions, phase : Phases, rev : Nat, src : Nodes, todo : SUBSET SNSs, n : Nodes,
              oldKey : SNSs \cup {NoKey}, newKey : SNSs \cup {NoKey}]

\* The positions before the new Subnamespace is there, and those after the old one is gone.
Early   == {"increase", "upq", "inprogress", "monitor", "create"}
Walking == {"annotations", "labels", "selector"}
After   == Walking \cup {"keys", "remove", "add", "upqBack", "decrease", "complete"}

Old    == Parent(current)
HasOld == <<Old, current>> \in DOMAIN sns
HasNew == <<to, current>> \in DOMAIN sns

\* The types of what TypeOK leaves open.
Shapes ==
    /\ mh \in Objects /\ cached \in Objects /\ worker \in Workers
    /\ upq \in [Nodes -> [k : Nat, phase : UpqPhases]]
    /\ increases \in Nat
    /\ torn \in BOOLEAN /\ halfway \in BOOLEAN /\ lost \in BOOLEAN /\ raced \in BOOLEAN /\ keyMoved \in BOOLEAN
    /\ mh.phase = "absent" => mh.rev = 0
    /\ worker.at \in Walking \cup {"remove", "add"} => worker.n \in worker.todo
    /\ \A x \in DOMAIN sns : sns[x] = "Migrated" => x = <<to, current>>

\* Without the object nothing has begun; with it, the destination is not below the namespace.
Begun ==
    /\ mh.phase = "absent" =>
        /\ worker.at = "idle" /\ cached.phase = "absent" /\ label = Old
        /\ \A p \in Nodes : <<p, current>> \in DOMAIN sns <=> p = Old
    /\ mh.phase # "absent" => current \notin Range(DisplayName[to]) /\ to # Old

\* The Subnamespaces of the others stay; the namespace has one or both.
Place ==
    /\ \A n \in SNSs \ {current} : <<Parent(n), n>> \in DOMAIN sns
    /\ ~torn =>
        /\ HasOld \/ HasNew
        /\ \A p \in Nodes : <<p, current>> \in DOMAIN sns => p \in {Old, to}
        /\ worker.at \notin {"idle", "error"} => worker.src = Old
        /\ worker.at \in Early \cup {"delete"} => HasOld
        /\ worker.at = "delete" => HasNew
        /\ worker.at \in After => ~HasOld
        /\ ~halfway /\ worker.at # "delete" /\ to # Old => ~(HasOld /\ HasNew)
        /\ mh.phase = "Complete" => ~HasOld /\ worker.at \in {"idle", "error"}

\* How far the rewriting of the subtree is.
Walk ==
    ~lost =>
        /\ worker.at \in Walking =>
            /\ Subtree \ worker.todo \subseteq annotated
            /\ worker.at # "annotations" => worker.n \in annotated
            /\ current \notin worker.todo \/ (worker.at = "selector" /\ worker.n = current) => label = to
        /\ worker.at \in After \ Walking \/ mh.phase = "Complete" => annotated = Subtree /\ label = to

MigInv == TypeOK /\ Shapes /\ Begun /\ Place /\ Walk

\* The quota that moves; there is none to move if it is zero.
Moving == InitialHard[current]

\* An Updatequota of the migration has a way to go.
Issued ==
    \A s \in Nodes :
        IF upq[s].phase = "absent" THEN upq[s] = NoUpq
        ELSE /\ mh.phase # "absent"
             /\ (s = Root /\ to # Root) \/ (s = Old /\ s # Root)
             /\ upq[s].k \in 1..Len(UpqPath(s))

\* The first one is Complete before anything is created, the second is there before the end.
Awaited ==
    Moving > 0 =>
        /\ worker.at \in {"create", "delete"} \cup After \/ mh.phase = "Complete" => upq[Root].phase = "Complete"
        /\ worker.at \in {"decrease", "complete"} \/ mh.phase = "Complete" => upq[Old].phase # "absent"

Underway == hard[current] = Moving /\ Issued /\ Awaited

\* The root was raised before a pass gets anywhere.
Raised ==
    Moving > 0 /\ (worker.at \notin {"idle", "increase", "error"} \/ "InProgress" \in {mh.phase, cached.phase})
    => increases > 0

\* What the root was lent, if it was lent it only once.
AtRoot ==
    increases <= 1 =>
        /\ HasOld \/ worker.at \in After \ {"complete"} =>
                hard[Root] = InitialHard[Root] + (IF increases = 1 THEN Moving ELSE 0)
        /\ worker.at = "complete" \/ mh.phase = "Complete" => hard[Root] = InitialHard[Root]

Balance == Raised /\ AtRoot

\* What the Updatequotas have moved on their way so far.
Given(n) ==
    IF OnPath(n, to) /\ (upq[Root].phase = "Complete" \/ Depth(n) < upq[Root].k) THEN Moving ELSE 0

Taken(n) ==
    IF OnPath(n, Old) /\ Old # Root /\ (upq[Old].phase = "Complete" \/ Depth(n) > Depth(Old) + 1 - upq[Old].k)
    THEN Moving ELSE 0

Moved == \A n \in SNSs \ {current} : hard[n] = InitialHard[n] + Given(n) - Taken(n)

QuotaInv == ~torn => Underway /\ Balance /\ Moved

\* The depth that the selector of m has in the new place.
NewDepth(m) == Len(NewPath(m)) - 1

\* The other Subnamespaces are where they were.
Elsewhere == \A x \in DOMAIN sns : x[2] # current => x[1] = Parent(x[2])

\* The depths in the selectors: the old ones may stay below the namespace until the walk has passed.
Deep ==
    /\ \A m \in SNSs \ Subtree : crqAt[m] \in {0, Depth(m)}
    /\ \A m \in Subtree : crqAt[m] \in {0, Depth(m), NewDepth(m)}
    /\ worker.at \in Walking => \A m \in Subtree \ worker.todo : crqAt[m] \in {0, NewDepth(m)}
    /\ worker.at \in After \ Walking \/ mh.phase = "Complete" => \A m \in Subtree : crqAt[m] \in {0, NewDepth(m)}

\* The walk visits parents first.
Downward ==
    worker.at \in Walking =>
        /\ Parent(worker.n) \notin worker.todo
        /\ \A m \in Subtree \ {current} : Parent(m) \in worker.todo => m \in worker.todo

SelInv == Elsewhere /\ Downward /\ (~torn /\ ~lost => Deep)
-----------------------------------------------------------------------------
(***************************************************************************)
(* The names of the display-names.                                         *)
(***************************************************************************)
LEMMA Names ==
    /\ IsHierarchy(Nodes, Root, DisplayName)
    /\ SNSs \subseteq Nodes /\ Root \in Nodes /\ Root \notin SNSs /\ NoKey \notin Nodes
    /\ \A n \in Nodes :
        /\ DisplayName[n] \in Seq(Nodes) /\ Len(DisplayName[n]) \in Nat \ {0} /\ Depth(n) \in Nat
        /\ WellNamed(Nodes, Root, DisplayName, n)
    /\ \A n \in SNSs : Parent(n) \in Nodes /\ Depth(n) = Depth(Parent(n)) + 1 /\ Parent(n) # n
  <1>1. IsHierarchy(Nodes, Root, DisplayName)
    BY MigrationAssumption DEF IsHierarchy, Above, SNSs, Parent
  <1>2. \A n \in SNSs : Parent(n) = Above(DisplayName, n)
    BY DEF Parent, Above
  <1>3. \A n \in SNSs : Parent(n) \in Nodes /\ Len(DisplayName[n]) = Len(DisplayName[Parent(n)]) + 1
    BY <1>1, <1>2, NameOfParent DEF SNSs
  <1>4. \A n \in Nodes : /\ DisplayName[n] \in Seq(Nodes) /\ Len(DisplayName[n]) \in Nat \ {0}
                         /\ WellNamed(Nodes, Root, DisplayName, n)
    BY <1>1, NamesOnTheWay
  <1>5. \A n \in Nodes : Depth(n) \in Nat
    BY <1>4 DEF Depth
  <1>6. \A n \in SNSs : Depth(n) = Depth(Parent(n)) + 1
    BY <1>3, <1>4 DEF Depth
  <1>7. QED
    BY <1>1, <1>3, <1>4, <1>5, <1>6, MigrationAssumption DEF SNSs

(***************************************************************************)
(* Only the first name is the root's; a subnamespace is on its own way and *)
(* in the subtree of itself.                                               *)
(***************************************************************************)
LEMMA OnTheWay ==
    /\ \A n \in Nodes : \A i \in 2..Len(DisplayName[n]) : DisplayName[n][i] \in SNSs
    /\ \A n \in Nodes : n \in Range(DisplayName[n])
    /\ \A n \in Nodes : \A x \in Range(DisplayName[n]) :
        /\ x \in Nodes /\ Len(DisplayName[x]) \in 1..Len(DisplayName[n])
        /\ DisplayName[n][Len(DisplayName[x])] = x
    /\ current \in SNSs => current \in Subtree
  <1>1. \A n \in Nodes : /\ DisplayName[n] \in Seq(Nodes) /\ Len(DisplayName[n]) \in Nat \ {0}
                         /\ DOMAIN DisplayName[n] = 1..Len(DisplayName[n])
                         /\ WellNamed(Nodes, Root, DisplayName, n)
    BY Names
  <1>2. \A n \in Nodes : Range(DisplayName[n]) = {DisplayName[n][i] : i \in 1..Len(DisplayName[n])}
    BY <1>1 DEF Range
  <1>3. Len(DisplayName[Root]) = 1
    BY MigrationAssumption
  <1>4. ASSUME NEW n \in Nodes, NEW i \in 2..Len(DisplayName[n]) PROVE DisplayName[n][i] \in SNSs
    <2>1. i \in 1..Len(DisplayName[n]) /\ i # 1
      BY <1>1
    <2>2. DisplayName[n][i] \in Nodes /\ Len(DisplayName[DisplayName[n][i]]) = i
      BY <1>1, <2>1 DEF WellNamed
    <2>3. QED
      BY <1>3, <2>1, <2>2 DEF SNSs
  <1>5. \A n \in Nodes : n \in Range(DisplayName[n])
    <2> SUFFICES ASSUME NEW n \in Nodes PROVE n \in Range(DisplayName[n])
      OBVIOUS
    <2>1. Len(DisplayName[n]) \in 1..Len(DisplayName[n]) /\ DisplayName[n][Len(DisplayName[n])] = n
      BY <1>1 DEF WellNamed
    <2>2. QED
      BY <1>2, <2>1
  <1>6. ASSUME NEW n \in Nodes, NEW x \in Range(DisplayName[n])
        PROVE  /\ x \in Nodes /\ Len(DisplayName[x]) \in 1..Len(DisplayName[n])
               /\ DisplayName[n][Len(DisplayName[x])] = x
    <2>1. PICK i \in 1..Len(DisplayName[n]) : x = DisplayName[n][i]
      BY <1>2
    <2>2. QED
      BY <1>1, <2>1 DEF WellNamed
  <1>7. current \in SNSs => current \in Subtree
    BY <1>5, Names DEF Subtree
  <1>8. QED
    BY <1>4, <1>5, <1>6, <1>7

(***************************************************************************)
(* The new path of a namespace of the subtree: the path of the destination *)
(* and then what was its own, from the current namespace on.               *)
(***************************************************************************)
LEMMA NewPathNames ==
    ASSUME current \in SNSs, to \in Nodes, NEW n \in Subtree
    PROVE  /\ NewPath(n) \in Seq(Nodes)
           /\ Len(NewPath(n)) = Len(DisplayName[to]) + Len(DisplayName[n]) - Len(DisplayName[current]) + 1
           /\ Len(DisplayName[n]) >= Len(DisplayName[current])
           /\ \A i \in 1..Len(DisplayName[to]) : NewPath(n)[i] = DisplayName[to][i]
           /\ \A i \in (Len(DisplayName[to]) + 1)..Len(NewPath(n)) :
                NewPath(n)[i] = DisplayName[n][Len(DisplayName[current]) + i - Len(DisplayName[to]) - 1]
  <1> DEFINE a == DisplayName[to]
             b == DisplayName[n]
             c == Len(DisplayName[current])
  <1>1. n \in SNSs /\ n \in Nodes /\ current \in Nodes /\ current \in Range(b)
    BY Names DEF Subtree
  <1>2. a \in Seq(Nodes) /\ b \in Seq(Nodes) /\ Len(a) \in Nat /\ Len(b) \in Nat
    BY <1>1, Names
  <1>3. c \in 1..Len(b)
    BY <1>1, OnTheWay
  <1>4. NewPath(n) = a \o SubSeq(b, c, Len(b))
    BY DEF NewPath
  <1> HIDE DEF a, b, c
  <1>5. /\ SubSeq(b, c, Len(b)) \in Seq(Nodes) /\ Len(SubSeq(b, c, Len(b))) = Len(b) - c + 1
        /\ \A i \in 1..(Len(b) - c + 1) : SubSeq(b, c, Len(b))[i] = b[c + i - 1]
    <2>1. c \in 1..(Len(b) + 1) /\ c \in Int /\ Len(b) \in Int
      BY <1>2, <1>3
    <2>2. \A j \in c..Len(b) : b[j] \in Nodes
      BY <1>2, <1>3
    <2>3. QED
      BY <1>2, <1>3, <2>1, <2>2
  <1> DEFINE t == SubSeq(b, c, Len(b))
  <1>6. t \in Seq(Nodes) /\ Len(t) = Len(b) - c + 1 /\ \A i \in 1..Len(t) : t[i] = b[c + i - 1]
    BY <1>5
  <1> HIDE DEF t
  <1>7. /\ a \o t \in Seq(Nodes) /\ Len(a \o t) = Len(a) + Len(t)
        /\ \A i \in 1..Len(a) : (a \o t)[i] = a[i]
        /\ \A i \in (Len(a) + 1)..(Len(a) + Len(t)) : (a \o t)[i] = t[i - Len(a)]
    <2>1. /\ a \o t \in Seq(Nodes) /\ Len(a \o t) = Len(a) + Len(t)
          /\ \A i \in 1..Len(a) + Len(t) : (a \o t)[i] = IF i <= Len(a) THEN a[i] ELSE t[i - Len(a)]
      BY <1>2, <1>6, ConcatProperties
    <2>2. Len(a) \in Nat /\ Len(t) \in Nat
      BY <1>2, <1>6
    <2>3. QED
      BY <2>1, <2>2
  <1>8. \A i \in (Len(a) + 1)..(Len(a) + Len(t)) : (a \o t)[i] = b[c + i - Len(a) - 1]
    <2> SUFFICES ASSUME NEW i \in (Len(a) + 1)..(Len(a) + Len(t)) PROVE (a \o t)[i] = b[c + i - Len(a) - 1]
      OBVIOUS
    <2>1. i - Len(a) \in 1..Len(t)
      BY <1>2, <1>3, <1>6
    <2>2. c + (i - Len(a)) - 1 = c + i - Len(a) - 1
      BY <1>2, <1>3
    <2>3. QED
      BY <1>6, <1>7, <2>1, <2>2
  <1>9. NewPath(n) = a \o t
    BY <1>4 DEF t
  <1>10. /\ NewPath(n) \in Seq(Nodes)
         /\ Len(NewPath(n)) = Len(a) + Len(b) - c + 1
         /\ Len(b) >= c
         /\ \A i \in 1..Len(a) : NewPath(n)[i] = a[i]
         /\ \A i \in (Len(a) + 1)..Len(NewPath(n)) : NewPath(n)[i] = b[c + i - Len(a) - 1]
    <2>1. Len(a \o t) = Len(a) + Len(b) - c + 1
      BY <1>2, <1>3, <1>6, <1>7
    <2>2. Len(b) >= c
      BY <1>2, <1>3
    <2>3. QED
      BY <1>7, <1>8, <1>9, <2>1, <2>2
  <1>11. QED
    BY <1>10 DEF a, b, c

(***************************************************************************)
(* Whatever the annotations say, all names but the first are those of      *)
(* subnamespaces.                                                          *)
(***************************************************************************)
LEMMA PathNames ==
    ASSUME current \in SNSs, to \in Nodes, annotated \subseteq Subtree, NEW n \in SNSs
    PROVE  Path(n) \in Seq(Nodes) /\ Len(Path(n)) \in Nat /\ \A i \in 2..Len(Path(n)) : Path(n)[i] \in SNSs
  <1>1. n \in Nodes /\ current \in Nodes
    BY Names
  <1>2. CASE n \notin annotated
    BY <1>1, <1>2, Names, OnTheWay DEF Path
  <1>3. CASE n \in annotated
    <2>1. n \in Subtree /\ Path(n) = NewPath(n)
      BY <1>3 DEF Path
    <2> DEFINE a == Len(DisplayName[to])
               b == Len(DisplayName[n])
               c == Len(DisplayName[current])
    <2>2. a \in Nat \ {0} /\ b \in Nat \ {0} /\ c \in Nat /\ c > 1
      BY <1>1, Names, MigrationAssumption
    <2>3. /\ Path(n) \in Seq(Nodes) /\ Len(Path(n)) = a + b - c + 1 /\ b >= c
          /\ \A i \in 1..a : Path(n)[i] = DisplayName[to][i]
          /\ \A i \in (a + 1)..Len(Path(n)) : Path(n)[i] = DisplayName[n][c + i - a - 1]
      <3>1. /\ NewPath(n) \in Seq(Nodes) /\ Len(NewPath(n)) = a + b - c + 1 /\ b >= c
            /\ \A i \in 1..a : NewPath(n)[i] = DisplayName[to][i]
            /\ \A i \in (a + 1)..Len(NewPath(n)) : NewPath(n)[i] = DisplayName[n][c + i - a - 1]
        BY <2>1, NewPathNames
      <3> HIDE DEF a, b, c
      <3>2. QED
        BY <2>1, <3>1
    <2>4. /\ \A i \in 2..a : DisplayName[to][i] \in SNSs
          /\ \A i \in 2..b : DisplayName[n][i] \in SNSs
      BY <1>1, OnTheWay
    <2> HIDE DEF a, b, c
    <2>5. ASSUME NEW i \in 2..Len(Path(n)) PROVE Path(n)[i] \in SNSs
      <3>1. CASE i <= a
        <4>1. i \in 1..a /\ i \in 2..a
          BY <2>2, <3>1
        <4>2. QED
          BY <2>3, <2>4, <4>1
      <3>2. CASE ~(i <= a)
        <4>1. i \in (a + 1)..Len(Path(n)) /\ c + i - a - 1 \in 2..b
          BY <2>2, <2>3, <3>2
        <4>2. QED
          BY <2>3, <2>4, <4>1
      <3>3. QED
        BY <3>1, <3>2
    <2>6. Path(n) \in Seq(Nodes)
      BY <2>3
    <2>7. Len(Path(n)) \in Nat
      BY <2>6
    <2>8. QED
      BY <2>5, <2>6, <2>7
  <1>4. QED
    BY <1>2, <1>3

(***************************************************************************)
(* What a restart builds has subnamespaces only.                           *)
(***************************************************************************)
LEMMA RebuiltNames ==
    ASSUME current \in SNSs, to \in Nodes, annotated \subseteq Subtree
    PROVE  /\ Forest(Rebuilt(LeafPaths, Depths), SNSs)
           /\ PathsIn(LeafPaths, SNSs)
           /\ IsFiniteSet(SNSs) /\ RqDepth \in Nat
  <1>1. PathsIn(LeafPaths, SNSs)
    BY PathNames DEF PathsIn, LeafPaths
  <1>2. Depths \in [SNSs -> Nat]
    <2> SUFFICES ASSUME NEW n \in SNSs PROVE DepthOf(n) \in Nat
      BY DEF Depths
    <2>1. Len(Path(n)) \in Nat \ {0}
      <3>1. CASE n \notin annotated
        BY <3>1, Names DEF Path
      <3>2. CASE n \in annotated
        <4>1. n \in Subtree /\ Path(n) = NewPath(n) /\ n \in Nodes /\ current \in Nodes
          BY <3>2, Names DEF Path
        <4>2. /\ Len(NewPath(n)) = Len(DisplayName[to]) + Len(DisplayName[n]) - Len(DisplayName[current]) + 1
              /\ Len(DisplayName[n]) >= Len(DisplayName[current])
          BY <4>1, NewPathNames
        <4>3. Len(DisplayName[to]) \in Nat /\ Len(DisplayName[n]) \in Nat /\ Len(DisplayName[current]) \in Nat
          BY <4>1, Names
        <4>4. \A a, b, c \in Nat : b >= c => a + b - c + 1 \in Nat \ {0}
          OBVIOUS
        <4>5. Len(NewPath(n)) \in Nat \ {0}
          BY <4>2, <4>3, <4>4
        <4>6. QED
          BY <4>1, <4>5
      <3>3. QED
        BY <3>1, <3>2
    <2>2. QED
      BY <2>1 DEF DepthOf
  <1>3. IsFiniteSet(SNSs) /\ RqDepth \in Nat
    <2>1. SNSs \in SUBSET Nodes
      BY DEF SNSs
    <2>2. QED
      BY <2>1, MigrationAssumption, FS_Subset
  <1>4. QED
    BY <1>1, <1>2, <1>3, RebuiltForest

\* The types, part by part.
ObjectTypes ==
    /\ mh \in Objects /\ cached \in Objects /\ cached.rev <= mh.rev
    /\ current \in SNSs /\ to \in Nodes /\ queued \in BOOLEAN
    /\ label \in {Parent(current), to}
    /\ failures \in 0..MaxFailures /\ touches \in 0..MaxTouches /\ increases \in Nat
    /\ mh.phase = "absent" => mh.rev = 0

WorkerTypes ==
    /\ worker \in Workers /\ worker.todo \subseteq Subtree /\ worker.rev <= mh.rev
    /\ worker.at \in Walking \cup {"remove", "add"} => worker.n \in worker.todo

ClusterTypes ==
    /\ DOMAIN sns \subseteq Nodes \X SNSs
    /\ \A x \in DOMAIN sns : sns[x] = "Migrated" => x = <<to, current>>
    /\ annotated \subseteq Subtree
    /\ crqAt \in [SNSs -> Nat] /\ hard \in [Nodes -> Int]
    /\ upq \in [Nodes -> [k : Nat, phase : UpqPhases]]

KeyTypes == Keys \subseteq SNSs

HistoryTypes ==
    torn \in BOOLEAN /\ halfway \in BOOLEAN /\ lost \in BOOLEAN /\ raced \in BOOLEAN /\ keyMoved \in BOOLEAN

Types == ObjectTypes /\ WorkerTypes /\ ClusterTypes /\ KeyTypes /\ HistoryTypes

(***************************************************************************)
(* These are the types of TypeOK and those that it leaves open.            *)
(***************************************************************************)
LEMMA TypesAreTypes == Types <=> TypeOK /\ Shapes
  BY DEF Types, ObjectTypes, WorkerTypes, ClusterTypes, KeyTypes, HistoryTypes, TypeOK, Shapes, Objects, Workers,
         Phases, UpqPhases
(***************************************************************************)
(* The types hold at the start.                                            *)
(***************************************************************************)
LEMMA InitTypes == Init => Types
  <1> SUFFICES ASSUME Init PROVE Types
    OBVIOUS
  <1>1. ObjectTypes
    <2>1. mh \in Objects /\ cached \in Objects /\ cached.rev <= mh.rev /\ mh.rev = 0
      BY DEF Init, Objects, Phases
    <2>2. /\ current \in SNSs /\ to \in Nodes /\ queued \in BOOLEAN /\ label = Parent(current)
          /\ failures = 0 /\ touches = 0 /\ increases = 0
      BY DEF Init
    <2>3. QED
      BY <2>1, <2>2, MigrationAssumption DEF ObjectTypes
  <1>2. WorkerTypes
    BY MigrationAssumption, Names DEF Init, WorkerTypes, Workers, Positions, Phases, Walking, Idle
  <1>3. ClusterTypes
    <2>1. DOMAIN sns \subseteq Nodes \X SNSs /\ \A x \in DOMAIN sns : sns[x] = "Created"
      BY Names DEF Init
    <2>2. crqAt \in [SNSs -> Nat]
      BY Names DEF Init
    <2>3. hard \in [Nodes -> Int]
      BY MigrationAssumption DEF Init
    <2>4. upq \in [Nodes -> [k : Nat, phase : UpqPhases]] /\ annotated = {}
      BY DEF Init, NoUpq, UpqPhases
    <2>5. QED
      BY <2>1, <2>2, <2>3, <2>4 DEF ClusterTypes
  <1>4. KeyTypes
    BY <1>1, <1>3, RebuiltNames DEF Forest, Init, KeyTypes, Keys, ObjectTypes, ClusterTypes
  <1>5. HistoryTypes
    BY DEF Init, HistoryTypes
  <1>6. QED
    BY <1>1, <1>2, <1>3, <1>4, <1>5 DEF Types

(***************************************************************************)
(* What the worker does with its record: it goes on, stops, or takes the   *)
(* next node, and the types stay.                                          *)
(***************************************************************************)
LEMMA WorkerMoves ==
    ASSUME ObjectTypes, WorkerTypes, UNCHANGED current, mh' \in Objects, mh.rev <= mh'.rev
    PROVE  /\ UNCHANGED worker => WorkerTypes'
           /\ worker' = Idle => WorkerTypes'
           /\ \A at \in Positions :
                /\ at \in Walking \cup {"remove", "add"} => worker.n \in worker.todo
                /\ Step(at)
                => WorkerTypes'
           /\ \A at \in Positions, then \in Positions \ (Walking \cup {"remove", "add"}) :
                NextNode(at, then) => WorkerTypes'
  <1>s. Subtree' = Subtree /\ Subtree \subseteq SNSs /\ SNSs \subseteq Nodes /\ Root \in Nodes
    BY Names DEF Subtree
  <1>r. worker.rev \in Nat /\ worker.rev <= mh.rev /\ mh.rev \in Nat /\ mh'.rev \in Nat /\ worker.rev <= mh'.rev /\ 0 <= mh'.rev
    BY DEF ObjectTypes, Objects, WorkerTypes, Workers
  <1>1. UNCHANGED worker => WorkerTypes'
    BY <1>s, <1>r DEF WorkerTypes
  <1>2. Idle \in Workers /\ Idle.todo = {} /\ Idle.rev = 0 /\ Idle.at = "idle"
    BY <1>s DEF Idle, Workers, Positions, Phases
  <1>3. worker' = Idle => WorkerTypes'
    BY <1>2, <1>r DEF WorkerTypes, Walking
  <1>4. ASSUME NEW at \in Positions, at \in Walking \cup {"remove", "add"} => worker.n \in worker.todo, Step(at)
        PROVE  WorkerTypes'
    <2>1. worker' \in Workers /\ worker'.at = at /\ worker'.todo = worker.todo /\ worker'.n = worker.n
                               /\ worker'.rev = worker.rev
      BY <1>4 DEF Step, WorkerTypes, Workers
    <2>2. QED
      BY <1>4, <1>s, <1>r, <2>1 DEF WorkerTypes
  <1>5. ASSUME NEW at \in Positions, NEW then \in Positions \ (Walking \cup {"remove", "add"}), NextNode(at, then)
        PROVE  WorkerTypes'
    <2> DEFINE rest == worker.todo \ {worker.n}
    <2>1. worker \in Workers /\ worker.todo \subseteq Subtree
      BY DEF WorkerTypes
    <2>2. CASE rest = {}
      <3>1. worker' = [worker EXCEPT !.at = then, !.todo = {}]
        BY <1>5, <2>2 DEF NextNode
      <3>2. worker' \in Workers /\ worker'.at = then /\ worker'.todo = {} /\ worker'.rev = worker.rev
        BY <2>1, <3>1 DEF Workers
      <3>3. QED
        BY <1>s, <1>r, <3>2 DEF WorkerTypes
    <2>3. CASE rest # {}
      <3>1. PICK m \in rest : worker' = [worker EXCEPT !.at = at, !.todo = rest, !.n = m]
        BY <1>5, <2>3 DEF NextNode
      <3>2. m \in Nodes /\ rest \in SUBSET SNSs /\ rest \subseteq Subtree
        BY <1>s, <2>1
      <3>3. worker' \in Workers /\ worker'.todo = rest /\ worker'.rev = worker.rev /\ worker'.n = m
        BY <2>1, <3>1, <3>2 DEF Workers
      <3>4. QED
        BY <1>s, <1>r, <3>2, <3>3 DEF WorkerTypes
    <2>4. QED
      BY <2>2, <2>3
  <1>6. QED
    BY <1>1, <1>3, <1>4, <1>5

(***************************************************************************)
(* Creating the new Subnamespace adds at most that one.                    *)
(***************************************************************************)
LEMMA NewDomain ==
    /\ DOMAIN WithNewSNS = DOMAIN sns \cup {<<to, current>>}
    /\ \A x \in DOMAIN sns : WithNewSNS[x] = sns[x]
  BY DEF WithNewSNS

(***************************************************************************)
(* EnsureSNSInDB adds no key but the namespace.                            *)
(***************************************************************************)
LEMMA EnsuredKeys ==
    ASSUME NEW p, NEW n, n \in SNSs, Keys \subseteq SNSs, EnsureSNSInDB(p, n)
    PROVE  Keys' \subseteq SNSs
  <1>1. \/ crqForest' = crqForest \/ crqForest' = AddNSToKey(n, n)
         \/ \E k \in Key(p) \ {NoKey} : crqForest' = AddNSToKey(k, n)
    <2>1. \/ crqForest' = crqForest
          \/ \E k \in Key(p) : crqForest' = IF k # NoKey THEN AddNSToKey(k, n)
                                           ELSE IF crqAt'[n] > 0 THEN AddNSToKey(n, n) ELSE crqForest
      BY DEF EnsureSNSInDB
    <2>2. QED
      BY <2>1
  <1>2. \A k : DOMAIN AddNSToKey(k, n) = Keys \cup {k}
    BY DEF AddNSToKey
  <1>3. \A k \in Key(p) \ {NoKey} : k \in Keys
    BY DEF Key, KeysOf
  <1>4. \A k : crqForest' = AddNSToKey(k, n) => Keys' = Keys \cup {k}
    <2>1. Keys' = DOMAIN crqForest'
      BY DEF Keys
    <2>2. QED
      BY <1>2, <2>1
  <1>5. CASE crqForest' = crqForest
    BY <1>5 DEF Keys
  <1>6. CASE crqForest' = AddNSToKey(n, n)
    BY <1>4, <1>6
  <1>7. ASSUME NEW k \in Key(p) \ {NoKey}, crqForest' = AddNSToKey(k, n) PROVE Keys' \subseteq SNSs
    BY <1>3, <1>4, <1>7
  <1>8. QED
    BY <1>1, <1>5, <1>6, <1>7

(***************************************************************************)
(* The history variables are Booleans.                                     *)
(***************************************************************************)
LEMMA HistoryStep == ASSUME HistoryTypes, [Next]_vars PROVE HistoryTypes'
  <1> USE DEF HistoryTypes, object, cluster, bounds, history
  <1>1. CreateMH => HistoryTypes'
    BY DEF CreateMH
  <1>2. TouchMH => HistoryTypes'
    BY DEF TouchMH
  <1>3. Watch => HistoryTypes'
    BY DEF Watch
  <1>4. Reconcile => HistoryTypes'
    BY DEF Reconcile
  <1>5. IncreaseRootResources => HistoryTypes'
    BY DEF IncreaseRootResources
  <1>6. CreateFirstUPQ => HistoryTypes'
    BY DEF CreateFirstUPQ
  <1>7. UpdateInProgress => HistoryTypes'
    BY DEF UpdateInProgress
  <1>8. MonitorMigrationUPQ => HistoryTypes'
    BY DEF MonitorMigrationUPQ
  <1>9. CreateNewSNS => HistoryTypes'
    BY DEF CreateNewSNS
  <1>10. DeleteOldSNS => HistoryTypes'
    BY DEF DeleteOldSNS
  <1>11. AppendAnnotations => HistoryTypes'
    BY DEF AppendAnnotations
  <1>12. AppendLabels => HistoryTypes'
    BY DEF AppendLabels
  <1>13. UpdateCRQSelector => HistoryTypes'
    BY DEF UpdateCRQSelector
  <1>14. LookUpKeys => HistoryTypes'
    BY DEF LookUpKeys
  <1>15. RemoveFromOldKey => HistoryTypes'
    BY DEF RemoveFromOldKey
  <1>16. AddToNewKey => HistoryTypes'
    BY DEF AddToNewKey
  <1>17. CreateSecondUPQ => HistoryTypes'
    BY DEF CreateSecondUPQ
  <1>18. DecreaseRootResources => HistoryTypes'
    BY DEF DecreaseRootResources
  <1>19. UpdateComplete => HistoryTypes'
    BY DEF UpdateComplete
  <1>20. UpdateError => HistoryTypes'
    BY DEF UpdateError
  <1>21. CreateNewSNSFails => HistoryTypes'
    BY DEF CreateNewSNSFails
  <1>22. DeleteOldSNSFails => HistoryTypes'
    BY DEF DeleteOldSNSFails
  <1>23. Fail => HistoryTypes'
    BY DEF Fail
  <1>24. Restart => HistoryTypes'
    BY DEF Restart
  <1>25. \A s \in Nodes : MoveQuota(s) => HistoryTypes'
    BY DEF MoveQuota
  <1>26. \A x \in DOMAIN sns : InitMigrated(x[1], x[2]) \/ SyncSNS(x[1], x[2]) => HistoryTypes'
    BY DEF InitMigrated, SyncSNS, EnsureSNSInDB
  <1>27. UNCHANGED vars => HistoryTypes'
    BY DEF vars
  <1>28. QED
    BY <1>1, <1>2, <1>3, <1>4, <1>5, <1>6, <1>7, <1>8, <1>9, <1>10, <1>11, <1>12, <1>13, <1>14, <1>15, <1>16, <1>17, <1>18, <1>19, <1>20, <1>21, <1>22, <1>23, <1>24, <1>25, <1>26, <1>27 DEF Next, Work, Subnamespaces

(***************************************************************************)
(* Every step keeps the types.                                             *)
(***************************************************************************)
LEMMA TypesStep == ASSUME Types, [Next]_vars PROVE Types'
  <1> USE DEF object, cluster, bounds, history
  <1>0. ObjectTypes /\ WorkerTypes /\ ClusterTypes /\ KeyTypes
    BY DEF Types
  <1>h. HistoryTypes'
    BY HistoryStep DEF Types
  <1>s. UNCHANGED current => Subtree' = Subtree
    BY DEF Subtree
  <1>c. /\ MaxFailures \in Nat /\ MaxTouches \in Nat
        /\ SNSs \subseteq Nodes /\ Root \in Nodes /\ NoKey \notin Nodes /\ Parent(current) \in Nodes
        /\ current \in Subtree /\ Subtree \subseteq SNSs
    BY <1>0, MigrationAssumption, Names, OnTheWay DEF ObjectTypes, Subtree
  <1>o. /\ mh \in [phase : Phases, rev : Nat] /\ cached \in [phase : Phases, rev : Nat] /\ cached.rev <= mh.rev
        /\ mh.rev \in Nat /\ cached.rev \in Nat /\ worker \in Workers /\ worker.rev \in Nat
    BY <1>0 DEF ObjectTypes, WorkerTypes, Workers, Objects
  <1>m. UNCHANGED <<mh, current>> => mh' \in Objects /\ mh.rev <= mh'.rev
    BY <1>0, <1>o DEF ObjectTypes
  <1>1. CASE CreateMH
    <2>0. mh' \in Objects /\ mh'.rev = 1 /\ UNCHANGED current
      BY <1>1 DEF CreateMH, Objects, Phases
    <2>r. mh.rev <= mh'.rev /\ cached.rev <= mh'.rev /\ mh'.phase = "None"
      BY <1>0, <1>o, <1>1, <2>0 DEF CreateMH, ObjectTypes
    <2>1. ObjectTypes'
      BY <1>0, <1>c, <2>0, <2>r, <1>1 DEF CreateMH, ObjectTypes
    <2>2. WorkerTypes'
      BY <1>0, <1>1, <2>0, <2>r, WorkerMoves DEF CreateMH
    <2>3. ClusterTypes'
      BY <1>0, <1>1, <1>s, <1>c, <1>o DEF CreateMH, ObjectTypes, WorkerTypes, ClusterTypes, Workers, UpqPhases
    <2>4. KeyTypes'
      BY <1>0, <1>1 DEF CreateMH, WorkerTypes, Workers, KeyTypes, Keys
    <2>5. QED
      BY <1>h, <2>1, <2>2, <2>3, <2>4 DEF Types
  <1>2. CASE TouchMH
    <2>0. mh' \in Objects /\ mh.rev <= mh'.rev /\ UNCHANGED current
      BY <1>o, <1>2 DEF TouchMH, Objects
    <2>a. mh'.phase # "absent"
      BY <1>o, <1>2 DEF TouchMH
    <2>r. cached.rev <= mh'.rev
      BY <1>o, <2>0 DEF Objects
    <2>1. ObjectTypes'
      BY <1>0, <1>c, <2>0, <2>a, <2>r, <1>2 DEF TouchMH, ObjectTypes
    <2>2. WorkerTypes'
      BY <1>0, <1>2, <2>0, WorkerMoves DEF TouchMH
    <2>3. ClusterTypes'
      BY <1>0, <1>2, <1>s, <1>c, <1>o DEF TouchMH, ObjectTypes, WorkerTypes, ClusterTypes, Workers, UpqPhases
    <2>4. KeyTypes'
      BY <1>0, <1>2 DEF TouchMH, WorkerTypes, Workers, KeyTypes, Keys
    <2>5. QED
      BY <1>h, <2>1, <2>2, <2>3, <2>4 DEF Types
  <1>3. CASE Watch
    <2>0. UNCHANGED <<mh, current>>
      BY <1>3 DEF Watch
    <2>1. ObjectTypes'
      BY <1>0, <1>c, <1>o, <1>3 DEF Watch, ObjectTypes
    <2>2. WorkerTypes'
      BY <1>0, <1>m, <1>3, <2>0, WorkerMoves DEF Watch, WorkerTypes, Positions, Walking
    <2>3. ClusterTypes'
      BY <1>0, <1>3, <1>s, <1>c, <1>o DEF Watch, ObjectTypes, WorkerTypes, ClusterTypes, Workers, UpqPhases
    <2>4. KeyTypes'
      BY <1>0, <1>3 DEF Watch, WorkerTypes, Workers, KeyTypes, Keys
    <2>5. QED
      BY <1>h, <2>1, <2>2, <2>3, <2>4 DEF Types
  <1>4. CASE Reconcile
    <2>0. UNCHANGED <<mh, current>>
      BY <1>4 DEF Reconcile
    <2>1. ObjectTypes'
      BY <1>0, <1>c, <1>o, <1>4 DEF Reconcile, ObjectTypes
    <2>2. WorkerTypes'
      <3>1. CASE UNCHANGED worker
        BY <1>0, <1>m, <2>0, <3>1, WorkerMoves
      <3>2. CASE \E at \in {"error", "monitor", "increase", "inprogress"} : Begin(at)
        <4>1. PICK at \in {"error", "monitor", "increase", "inprogress"} : Begin(at)
          BY <3>2
        <4>2. label \in Nodes /\ Idle \in [at : {"idle"}, phase : Phases, rev : {0}, src : Nodes, todo : {{}}, n : Nodes,
                                           oldKey : {NoKey}, newKey : {NoKey}]
          BY <1>0, <1>c DEF ObjectTypes, Idle, Phases
        <4>3. worker' \in Workers /\ worker'.at = at /\ worker'.todo = {} /\ worker'.rev = cached.rev
          BY <1>o, <4>1, <4>2 DEF Begin, Workers, Positions
        <4>4. QED
          BY <1>o, <2>0, <4>1, <4>3 DEF WorkerTypes, Walking
      <3>3. QED
        BY <1>4, <3>1, <3>2 DEF Reconcile
    <2>3. ClusterTypes'
      BY <1>0, <1>4, <1>s, <1>c, <1>o DEF Reconcile, Begin, Idle, ShouldReconcile, ObjectTypes, WorkerTypes, ClusterTypes, Workers, UpqPhases
    <2>4. KeyTypes'
      BY <1>0, <1>4 DEF Reconcile, Begin, Idle, ShouldReconcile, WorkerTypes, Workers, KeyTypes, Keys
    <2>5. QED
      BY <1>h, <2>1, <2>2, <2>3, <2>4 DEF Types
  <1>5. CASE IncreaseRootResources
    <2>0. UNCHANGED <<mh, current>>
      BY <1>5 DEF IncreaseRootResources
    <2>1. ObjectTypes'
      BY <1>0, <1>c, <1>o, <1>5 DEF IncreaseRootResources, ObjectTypes
    <2>2. WorkerTypes'
      BY <1>0, <1>m, <1>5, <2>0, WorkerMoves DEF IncreaseRootResources, WorkerTypes, Positions, Walking
    <2>3. ClusterTypes'
      BY <1>0, <1>5, <1>s, <1>c, <1>o DEF IncreaseRootResources, Step, ObjectTypes, WorkerTypes, ClusterTypes, Workers, UpqPhases
    <2>4. KeyTypes'
      BY <1>0, <1>5 DEF IncreaseRootResources, Step, WorkerTypes, Workers, KeyTypes, Keys
    <2>5. QED
      BY <1>h, <2>1, <2>2, <2>3, <2>4 DEF Types
  <1>6. CASE CreateFirstUPQ
    <2>0. UNCHANGED <<mh, current>>
      BY <1>6 DEF CreateFirstUPQ
    <2>1. ObjectTypes'
      BY <1>0, <1>c, <1>o, <1>6 DEF CreateFirstUPQ, ObjectTypes
    <2>2. WorkerTypes'
      BY <1>0, <1>m, <1>6, <2>0, WorkerMoves DEF CreateFirstUPQ, WorkerTypes, Positions, Walking
    <2>3. ClusterTypes'
      BY <1>0, <1>6, <1>s, <1>c, <1>o DEF CreateFirstUPQ, Step, CreateMigrationUPQ, ObjectTypes, WorkerTypes, ClusterTypes, Workers, UpqPhases
    <2>4. KeyTypes'
      BY <1>0, <1>6 DEF CreateFirstUPQ, Step, CreateMigrationUPQ, WorkerTypes, Workers, KeyTypes, Keys
    <2>5. QED
      BY <1>h, <2>1, <2>2, <2>3, <2>4 DEF Types
  <1>7. CASE UpdateInProgress
    <2>0. mh' \in Objects /\ mh.rev <= mh'.rev /\ UNCHANGED current
      BY <1>o, <1>7 DEF UpdateInProgress, UpdateMHStatus, Objects, Phases
    <2>a. mh'.phase = "absent" => mh'.rev = 0
      BY <1>0, <1>7 DEF UpdateInProgress, UpdateMHStatus, ObjectTypes
    <2>r. cached.rev <= mh'.rev
      BY <1>o, <2>0 DEF Objects
    <2>1. ObjectTypes'
      BY <1>0, <1>c, <2>0, <2>a, <2>r, <1>7 DEF UpdateInProgress, ObjectTypes
    <2>2. WorkerTypes'
      <3>1. worker'.at = "monitor" /\ worker'.todo = worker.todo /\ worker'.rev <= mh'.rev
            /\ worker' = [worker EXCEPT !.at = "monitor", !.rev = worker'.rev] /\ worker'.rev \in Nat
        <4>1. CASE Fresh
          <5>1. worker' = [worker EXCEPT !.at = "monitor", !.rev = worker.rev + 1] /\ mh'.rev = worker.rev + 1
            BY <1>7, <4>1 DEF UpdateInProgress, UpdateMHStatus, Fresh
          <5>2. QED
            BY <1>o, <5>1 DEF Workers
        <4>2. CASE ~Fresh
          <5>1. worker' = [worker EXCEPT !.at = "monitor", !.rev = worker.rev] /\ mh' = mh
            BY <1>7, <4>2 DEF UpdateInProgress, UpdateMHStatus
          <5>2. QED
            BY <1>0, <1>o, <5>1 DEF Workers, WorkerTypes
        <4>3. QED
          BY <4>1, <4>2
      <3>2. worker' \in Workers
        BY <1>o, <3>1 DEF Workers, Positions
      <3>3. QED
        BY <1>0, <1>s, <2>0, <3>1, <3>2 DEF WorkerTypes, Walking
    <2>3. ClusterTypes'
      BY <1>0, <1>7, <1>s, <1>c, <1>o DEF UpdateInProgress, UpdateMHStatus, Fresh, ObjectTypes, WorkerTypes, ClusterTypes, Workers, UpqPhases
    <2>4. KeyTypes'
      BY <1>0, <1>7 DEF UpdateInProgress, UpdateMHStatus, Fresh, WorkerTypes, Workers, KeyTypes, Keys
    <2>5. QED
      BY <1>h, <2>1, <2>2, <2>3, <2>4 DEF Types
  <1>8. CASE MonitorMigrationUPQ
    <2>0. UNCHANGED <<mh, current>>
      BY <1>8 DEF MonitorMigrationUPQ
    <2>1. ObjectTypes'
      BY <1>0, <1>c, <1>o, <1>8 DEF MonitorMigrationUPQ, ObjectTypes
    <2>2. WorkerTypes'
      BY <1>0, <1>m, <1>8, <2>0, WorkerMoves DEF MonitorMigrationUPQ, WorkerTypes, Positions, Walking
    <2>3. ClusterTypes'
      BY <1>0, <1>8, <1>s, <1>c, <1>o DEF MonitorMigrationUPQ, Step, Idle, ObjectTypes, WorkerTypes, ClusterTypes, Workers, UpqPhases
    <2>4. KeyTypes'
      BY <1>0, <1>8 DEF MonitorMigrationUPQ, Step, Idle, WorkerTypes, Workers, KeyTypes, Keys
    <2>5. QED
      BY <1>h, <2>1, <2>2, <2>3, <2>4 DEF Types
  <1>9. CASE CreateNewSNS
    <2>0. UNCHANGED <<mh, current>>
      BY <1>9 DEF CreateNewSNS
    <2>1. ObjectTypes'
      BY <1>0, <1>c, <1>o, <1>9 DEF CreateNewSNS, ObjectTypes
    <2>2. WorkerTypes'
      BY <1>0, <1>m, <1>9, <2>0, WorkerMoves DEF CreateNewSNS, WorkerTypes, Positions, Walking
    <2>3. ClusterTypes'
      <3>1. DOMAIN WithNewSNS \subseteq Nodes \X SNSs
            /\ \A x \in DOMAIN WithNewSNS : WithNewSNS[x] = "Migrated" => x = <<to, current>>
        BY <1>0, <1>c, NewDomain DEF ObjectTypes, ClusterTypes
      <3>2. /\ sns' \in {sns, WithNewSNS}
            /\ UNCHANGED <<current, to, annotated, crqAt, hard, upq>>
        BY <1>9 DEF CreateNewSNS
      <3>3. QED
        BY <1>0, <1>s, <3>1, <3>2 DEF ClusterTypes
    <2>4. KeyTypes'
      BY <1>0, <1>9 DEF CreateNewSNS, Step, WithNewSNS, WorkerTypes, Workers, KeyTypes, Keys
    <2>5. QED
      BY <1>h, <2>1, <2>2, <2>3, <2>4 DEF Types
  <1>10. CASE DeleteOldSNS
    <2>0. UNCHANGED <<mh, current>>
      BY <1>10 DEF DeleteOldSNS
    <2>1. ObjectTypes'
      BY <1>0, <1>c, <1>o, <1>10 DEF DeleteOldSNS, ObjectTypes
    <2>2. WorkerTypes'
      <3>1. worker' = [worker EXCEPT !.at = "annotations", !.todo = Subtree, !.n = current]
        BY <1>10 DEF DeleteOldSNS
      <3>2. worker' \in Workers /\ worker'.todo = Subtree /\ worker'.n = current /\ worker'.rev = worker.rev
        BY <1>o, <1>c, <3>1 DEF Workers, Positions
      <3>3. QED
        BY <1>0, <1>s, <1>c, <2>0, <3>2 DEF WorkerTypes
    <2>3. ClusterTypes'
      <3>1. \A P : /\ DOMAIN WithoutSNS(P) \subseteq DOMAIN sns
                   /\ \A x \in DOMAIN WithoutSNS(P) : WithoutSNS(P)[x] = sns[x]
        BY DEF WithoutSNS, Restrict
      <3>2. /\ sns' = sns \/ \E P : sns' = WithoutSNS(P)
            /\ UNCHANGED <<current, to, annotated, crqAt, hard, upq>>
        BY <1>10 DEF DeleteOldSNS
      <3>3. QED
        BY <1>0, <1>s, <3>1, <3>2 DEF ClusterTypes
    <2>4. KeyTypes'
      BY <1>0, <1>10 DEF DeleteOldSNS, WithoutSNS, WorkerTypes, Workers, KeyTypes, Keys
    <2>5. QED
      BY <1>h, <2>1, <2>2, <2>3, <2>4 DEF Types
  <1>11. CASE AppendAnnotations
    <2>0. UNCHANGED <<mh, current>>
      BY <1>11 DEF AppendAnnotations
    <2>1. ObjectTypes'
      BY <1>0, <1>c, <1>o, <1>11 DEF AppendAnnotations, ObjectTypes
    <2>2. WorkerTypes'
      BY <1>0, <1>m, <1>11, <2>0, WorkerMoves DEF AppendAnnotations, WorkerTypes, Positions, Walking
    <2>3. ClusterTypes'
      <3>1. annotated' \subseteq Subtree /\ UNCHANGED <<sns, current, to, crqAt, hard, upq>>
        BY <1>0, <1>11 DEF AppendAnnotations, WorkerTypes, ClusterTypes, Walking
      <3>2. QED
        BY <1>0, <1>s, <3>1 DEF ClusterTypes
    <2>4. KeyTypes'
      BY <1>0, <1>11 DEF AppendAnnotations, Step, WorkerTypes, Workers, KeyTypes, Keys
    <2>5. QED
      BY <1>h, <2>1, <2>2, <2>3, <2>4 DEF Types
  <1>12. CASE AppendLabels
    <2>0. UNCHANGED <<mh, current>>
      BY <1>12 DEF AppendLabels
    <2>1. ObjectTypes'
      BY <1>0, <1>c, <1>o, <1>12 DEF AppendLabels, ObjectTypes
    <2>2. WorkerTypes'
      BY <1>0, <1>m, <1>12, <2>0, WorkerMoves DEF AppendLabels, WorkerTypes, Positions, Walking
    <2>3. ClusterTypes'
      BY <1>0, <1>12, <1>s, <1>c, <1>o DEF AppendLabels, Step, ObjectTypes, WorkerTypes, ClusterTypes, Workers, UpqPhases
    <2>4. KeyTypes'
      BY <1>0, <1>12 DEF AppendLabels, Step, WorkerTypes, Workers, KeyTypes, Keys
    <2>5. QED
      BY <1>h, <2>1, <2>2, <2>3, <2>4 DEF Types
  <1>13. CASE UpdateCRQSelector
    <2>0. UNCHANGED <<mh, current>>
      BY <1>13 DEF UpdateCRQSelector
    <2>1. ObjectTypes'
      BY <1>0, <1>c, <1>o, <1>13 DEF UpdateCRQSelector, ObjectTypes
    <2>2. WorkerTypes'
      BY <1>0, <1>m, <1>13, <2>0, WorkerMoves DEF UpdateCRQSelector, WorkerTypes, Positions, Walking
    <2>3. ClusterTypes'
      <3>1. worker.n \in Subtree
        BY <1>0, <1>13 DEF UpdateCRQSelector, WorkerTypes, Walking
      <3>2. Len(NewPath(worker.n)) - 1 \in Nat
        <4> DEFINE a == Len(DisplayName[to])
                   b == Len(DisplayName[worker.n])
                   c == Len(DisplayName[current])
        <4>1. /\ Len(NewPath(worker.n)) = Len(DisplayName[to]) + Len(DisplayName[worker.n]) - Len(DisplayName[current]) + 1
              /\ Len(DisplayName[worker.n]) >= Len(DisplayName[current])
          BY <1>0, <3>1, NewPathNames DEF ObjectTypes
        <4>2. Len(DisplayName[to]) \in Nat \ {0} /\ Len(DisplayName[worker.n]) \in Nat /\ Len(DisplayName[current]) \in Nat
          BY <1>0, <1>c, <3>1, Names DEF ObjectTypes
        <4>3. Len(NewPath(worker.n)) = a + b - c + 1 /\ b >= c /\ a \in Nat /\ b \in Nat /\ c \in Nat
          BY <4>1, <4>2
        <4> HIDE DEF a, b, c
        <4>4. QED
          BY <4>3
      <3>3. /\ crqAt' = [crqAt EXCEPT ![worker.n] = IF @ > 0 THEN Len(NewPath(worker.n)) - 1 ELSE 0]
            /\ UNCHANGED <<sns, current, to, annotated, hard, upq>>
        BY <1>13 DEF UpdateCRQSelector
      <3>4. crqAt' \in [SNSs -> Nat]
        BY <1>0, <3>2, <3>3 DEF ClusterTypes
      <3>5. QED
        BY <1>0, <1>s, <3>3, <3>4 DEF ClusterTypes
    <2>4. KeyTypes'
      BY <1>0, <1>13 DEF UpdateCRQSelector, NextNode, WorkerTypes, Workers, KeyTypes, Keys
    <2>5. QED
      BY <1>h, <2>1, <2>2, <2>3, <2>4 DEF Types
  <1>14. CASE LookUpKeys
    <2>0. UNCHANGED <<mh, current>>
      BY <1>14 DEF LookUpKeys
    <2>1. ObjectTypes'
      BY <1>0, <1>c, <1>o, <1>14 DEF LookUpKeys, ObjectTypes
    <2>2. WorkerTypes'
      <3>1. PICK i \in Key(current), j \in Key(to) :
                worker' = [worker EXCEPT !.at = "remove", !.todo = Subtree, !.n = current, !.oldKey = i, !.newKey = j]
        BY <1>14 DEF LookUpKeys
      <3>2. i \in SNSs \cup {NoKey} /\ j \in SNSs \cup {NoKey}
        BY <1>0 DEF Key, KeysOf, KeyTypes
      <3>3. worker' \in Workers /\ worker'.todo = Subtree /\ worker'.n = current /\ worker'.rev = worker.rev
        BY <1>o, <1>c, <3>1, <3>2 DEF Workers, Positions
      <3>4. QED
        BY <1>0, <1>s, <1>c, <2>0, <3>3 DEF WorkerTypes
    <2>3. ClusterTypes'
      BY <1>0, <1>14, <1>s, <1>c, <1>o DEF LookUpKeys, Key, KeysOf, ObjectTypes, WorkerTypes, ClusterTypes, Workers, UpqPhases
    <2>4. KeyTypes'
      BY <1>0, <1>14 DEF LookUpKeys, Key, KeysOf, WorkerTypes, Workers, KeyTypes, Keys
    <2>5. QED
      BY <1>h, <2>1, <2>2, <2>3, <2>4 DEF Types
  <1>15. CASE RemoveFromOldKey
    <2>0. UNCHANGED <<mh, current>>
      BY <1>15 DEF RemoveFromOldKey
    <2>1. ObjectTypes'
      BY <1>0, <1>c, <1>o, <1>15 DEF RemoveFromOldKey, ObjectTypes
    <2>2. WorkerTypes'
      BY <1>0, <1>m, <1>15, <2>0, WorkerMoves DEF RemoveFromOldKey, WorkerTypes, Positions, Walking
    <2>3. ClusterTypes'
      BY <1>0, <1>15, <1>s, <1>c, <1>o DEF RemoveFromOldKey, Step, RemoveNS, ObjectTypes, WorkerTypes, ClusterTypes, Workers, UpqPhases
    <2>4. KeyTypes'
      BY <1>0, <1>15 DEF RemoveFromOldKey, Step, RemoveNS, WorkerTypes, Workers, KeyTypes, Keys
    <2>5. QED
      BY <1>h, <2>1, <2>2, <2>3, <2>4 DEF Types
  <1>16. CASE AddToNewKey
    <2>0. UNCHANGED <<mh, current>>
      BY <1>16 DEF AddToNewKey
    <2>1. ObjectTypes'
      BY <1>0, <1>c, <1>o, <1>16 DEF AddToNewKey, ObjectTypes
    <2>2. WorkerTypes'
      BY <1>0, <1>m, <1>16, <2>0, WorkerMoves DEF AddToNewKey, WorkerTypes, Positions, Walking
    <2>3. ClusterTypes'
      BY <1>0, <1>16, <1>s, <1>c, <1>o DEF AddToNewKey, NextNode, AddNSToKey, ObjectTypes, WorkerTypes, ClusterTypes, Workers, UpqPhases
    <2>4. KeyTypes'
      BY <1>0, <1>16 DEF AddToNewKey, NextNode, AddNSToKey, WorkerTypes, Workers, KeyTypes, Keys
    <2>5. QED
      BY <1>h, <2>1, <2>2, <2>3, <2>4 DEF Types
  <1>17. CASE CreateSecondUPQ
    <2>0. UNCHANGED <<mh, current>>
      BY <1>17 DEF CreateSecondUPQ
    <2>1. ObjectTypes'
      BY <1>0, <1>c, <1>o, <1>17 DEF CreateSecondUPQ, ObjectTypes
    <2>2. WorkerTypes'
      BY <1>0, <1>m, <1>17, <2>0, WorkerMoves DEF CreateSecondUPQ, WorkerTypes, Positions, Walking
    <2>3. ClusterTypes'
      BY <1>0, <1>17, <1>s, <1>c, <1>o DEF CreateSecondUPQ, Step, CreateMigrationUPQ, ObjectTypes, WorkerTypes, ClusterTypes, Workers, UpqPhases
    <2>4. KeyTypes'
      BY <1>0, <1>17 DEF CreateSecondUPQ, Step, CreateMigrationUPQ, WorkerTypes, Workers, KeyTypes, Keys
    <2>5. QED
      BY <1>h, <2>1, <2>2, <2>3, <2>4 DEF Types
  <1>18. CASE DecreaseRootResources
    <2>0. UNCHANGED <<mh, current>>
      BY <1>18 DEF DecreaseRootResources
    <2>1. ObjectTypes'
      BY <1>0, <1>c, <1>o, <1>18 DEF DecreaseRootResources, ObjectTypes
    <2>2. WorkerTypes'
      BY <1>0, <1>m, <1>18, <2>0, WorkerMoves DEF DecreaseRootResources, WorkerTypes, Positions, Walking
    <2>3. ClusterTypes'
      BY <1>0, <1>18, <1>s, <1>c, <1>o DEF DecreaseRootResources, Step, ObjectTypes, WorkerTypes, ClusterTypes, Workers, UpqPhases
    <2>4. KeyTypes'
      BY <1>0, <1>18 DEF DecreaseRootResources, Step, WorkerTypes, Workers, KeyTypes, Keys
    <2>5. QED
      BY <1>h, <2>1, <2>2, <2>3, <2>4 DEF Types
  <1>19. CASE UpdateComplete
    <2>0. mh' \in Objects /\ mh.rev <= mh'.rev /\ UNCHANGED current
      BY <1>o, <1>19 DEF UpdateComplete, UpdateMHStatus, Objects, Phases
    <2>a. mh'.phase = "absent" => mh'.rev = 0
      BY <1>0, <1>19 DEF UpdateComplete, UpdateMHStatus, ObjectTypes
    <2>r. cached.rev <= mh'.rev
      BY <1>o, <2>0 DEF Objects
    <2>1. ObjectTypes'
      BY <1>0, <1>c, <2>0, <2>a, <2>r, <1>19 DEF UpdateComplete, ObjectTypes
    <2>2. WorkerTypes'
      BY <1>0, <2>0, <1>19, WorkerMoves DEF UpdateComplete
    <2>3. ClusterTypes'
      BY <1>0, <1>19, <1>s, <1>c, <1>o DEF UpdateComplete, UpdateMHStatus, Fresh, Idle, ObjectTypes, WorkerTypes, ClusterTypes, Workers, UpqPhases
    <2>4. KeyTypes'
      BY <1>0, <1>19 DEF UpdateComplete, UpdateMHStatus, Fresh, Idle, WorkerTypes, Workers, KeyTypes, Keys
    <2>5. QED
      BY <1>h, <2>1, <2>2, <2>3, <2>4 DEF Types
  <1>20. CASE UpdateError
    <2>0. mh' \in Objects /\ mh.rev <= mh'.rev /\ UNCHANGED current
      BY <1>o, <1>20 DEF UpdateError, UpdateMHStatus, Objects, Phases
    <2>a. mh'.phase = "absent" => mh'.rev = 0
      BY <1>0, <1>20 DEF UpdateError, UpdateMHStatus, ObjectTypes
    <2>r. cached.rev <= mh'.rev
      BY <1>o, <2>0 DEF Objects
    <2>1. ObjectTypes'
      BY <1>0, <1>c, <2>0, <2>a, <2>r, <1>20 DEF UpdateError, ObjectTypes
    <2>2. WorkerTypes'
      BY <1>0, <2>0, <1>20, WorkerMoves DEF UpdateError
    <2>3. ClusterTypes'
      BY <1>0, <1>20, <1>s, <1>c, <1>o DEF UpdateError, UpdateMHStatus, Fresh, Idle, ObjectTypes, WorkerTypes, ClusterTypes, Workers, UpqPhases
    <2>4. KeyTypes'
      BY <1>0, <1>20 DEF UpdateError, UpdateMHStatus, Fresh, Idle, WorkerTypes, Workers, KeyTypes, Keys
    <2>5. QED
      BY <1>h, <2>1, <2>2, <2>3, <2>4 DEF Types
  <1>21. CASE CreateNewSNSFails
    <2>0. UNCHANGED <<mh, current>>
      BY <1>21 DEF CreateNewSNSFails
    <2>1. ObjectTypes'
      BY <1>0, <1>c, <1>o, <1>21 DEF CreateNewSNSFails, ObjectTypes
    <2>2. WorkerTypes'
      BY <1>0, <1>m, <1>21, <2>0, WorkerMoves DEF CreateNewSNSFails, WorkerTypes, Positions, Walking
    <2>3. ClusterTypes'
      <3>1. DOMAIN WithNewSNS \subseteq Nodes \X SNSs
            /\ \A x \in DOMAIN WithNewSNS : WithNewSNS[x] = "Migrated" => x = <<to, current>>
        BY <1>0, <1>c, NewDomain DEF ObjectTypes, ClusterTypes
      <3>2. /\ sns' \in {sns, WithNewSNS}
            /\ UNCHANGED <<current, to, annotated, crqAt, hard, upq>>
        BY <1>21 DEF CreateNewSNSFails
      <3>3. QED
        BY <1>0, <1>s, <3>1, <3>2 DEF ClusterTypes
    <2>4. KeyTypes'
      BY <1>0, <1>21 DEF CreateNewSNSFails, Step, WithNewSNS, WorkerTypes, Workers, KeyTypes, Keys
    <2>5. QED
      BY <1>h, <2>1, <2>2, <2>3, <2>4 DEF Types
  <1>22. CASE DeleteOldSNSFails
    <2>0. UNCHANGED <<mh, current>>
      BY <1>22 DEF DeleteOldSNSFails
    <2>1. ObjectTypes'
      BY <1>0, <1>c, <1>o, <1>22 DEF DeleteOldSNSFails, ObjectTypes
    <2>2. WorkerTypes'
      BY <1>0, <1>m, <1>22, <2>0, WorkerMoves DEF DeleteOldSNSFails, WorkerTypes, Positions, Walking
    <2>3. ClusterTypes'
      <3>1. \A P : /\ DOMAIN WithoutSNS(P) \subseteq DOMAIN sns
                   /\ \A x \in DOMAIN WithoutSNS(P) : WithoutSNS(P)[x] = sns[x]
        BY DEF WithoutSNS, Restrict
      <3>2. /\ sns' = sns \/ \E P : sns' = WithoutSNS(P)
            /\ UNCHANGED <<current, to, annotated, crqAt, hard, upq>>
        BY <1>22 DEF DeleteOldSNSFails
      <3>3. QED
        BY <1>0, <1>s, <3>1, <3>2 DEF ClusterTypes
    <2>4. KeyTypes'
      BY <1>0, <1>22 DEF DeleteOldSNSFails, Step, WithoutSNS, WorkerTypes, Workers, KeyTypes, Keys
    <2>5. QED
      BY <1>h, <2>1, <2>2, <2>3, <2>4 DEF Types
  <1>23. CASE Fail
    <2>0. UNCHANGED <<mh, current>>
      BY <1>23 DEF Fail
    <2>1. ObjectTypes'
      <3>1. failures' \in 0..MaxFailures
        BY <1>0, <1>c, <1>23 DEF Fail, ObjectTypes
      <3>2. queued' \in BOOLEAN
        BY <1>0, <1>23 DEF Fail, ObjectTypes
      <3>3. UNCHANGED <<mh, cached, current, to, label, touches, increases>>
        BY <1>23 DEF Fail
      <3>4. QED
        BY <1>0, <3>1, <3>2, <3>3 DEF ObjectTypes
    <2>2. WorkerTypes'
      BY <1>0, <1>m, <1>23, <2>0, WorkerMoves DEF Fail, WorkerTypes, Positions, Walking
    <2>3. ClusterTypes'
      <3>1. upq' = upq \/ \E s \in Nodes : upq' = [upq EXCEPT ![s].phase = "Error"]
        BY <1>23 DEF Fail
      <3>2. upq' \in [Nodes -> [k : Nat, phase : UpqPhases]]
        BY <1>0, <3>1 DEF ClusterTypes, UpqPhases
      <3>3. UNCHANGED <<sns, current, to, annotated, crqAt, hard>>
        BY <1>23 DEF Fail
      <3>4. QED
        BY <1>0, <1>s, <3>2, <3>3 DEF ClusterTypes
    <2>4. KeyTypes'
      BY <1>0, <1>23 DEF Fail, Step, Idle, WorkerTypes, Workers, KeyTypes, Keys
    <2>5. QED
      BY <1>h, <2>1, <2>2, <2>3, <2>4 DEF Types
  <1>24. CASE Restart
    <2>0. UNCHANGED <<mh, current>>
      BY <1>24 DEF Restart
    <2>1. ObjectTypes'
      BY <1>0, <1>c, <1>o, <1>24 DEF Restart, ObjectTypes
    <2>2. WorkerTypes'
      BY <1>0, <1>m, <1>24, <2>0, WorkerMoves DEF Restart, WorkerTypes, Positions, Walking
    <2>3. ClusterTypes'
      BY <1>0, <1>24, <1>s, <1>c, <1>o DEF Restart, Idle, ObjectTypes, WorkerTypes, ClusterTypes, Workers, UpqPhases
    <2>4. KeyTypes'
      BY <1>0, <1>24, RebuiltNames DEF Forest, Restart, ObjectTypes, ClusterTypes, KeyTypes, Keys
    <2>5. QED
      BY <1>h, <2>1, <2>2, <2>3, <2>4 DEF Types
  <1>25. ASSUME NEW s \in Nodes, MoveQuota(s) PROVE Types'
    <2>1. ObjectTypes'
      BY <1>0, <1>25 DEF MoveQuota, ObjectTypes
    <2>2. WorkerTypes'
      BY <1>0, <1>25, <1>s DEF MoveQuota, WorkerTypes
    <2>3. ClusterTypes'
      <3>1. hard' \in [Nodes -> Int] /\ UNCHANGED <<sns, current, to, annotated, crqAt>>
        <4>1. Amount(s) \in Int
          BY <1>0, <1>c DEF Amount, ObjectTypes, ClusterTypes
        <4>2. QED
          BY <1>0, <1>25, <4>1 DEF MoveQuota, ClusterTypes
      <3>2. upq' \in [Nodes -> [k : Nat, phase : UpqPhases]]
        <4>1. \/ upq' = [upq EXCEPT ![s].phase = "Complete"]
              \/ upq' = [upq EXCEPT ![s].k = @ + 1]
              \/ upq' = [upq EXCEPT ![s].phase = "Error"]
          BY <1>25 DEF MoveQuota
        <4>2. QED
          BY <1>0, <4>1 DEF ClusterTypes, UpqPhases
      <3>3. QED
        BY <1>0, <1>s, <3>1, <3>2 DEF ClusterTypes
    <2>4. KeyTypes'
      BY <1>0, <1>25 DEF MoveQuota, KeyTypes, Keys
    <2>5. QED
      BY <1>h, <2>1, <2>2, <2>3, <2>4 DEF Types
  <1>26. ASSUME NEW x \in DOMAIN sns, InitMigrated(x[1], x[2]) PROVE Types'
    <2> DEFINE p == x[1]
               n == x[2]
    <2>0. x = <<p, n>> /\ p = to /\ n = current
      BY <1>0, <1>26 DEF InitMigrated, ClusterTypes
    <2>1. ObjectTypes'
      BY <1>0, <1>26, <2>0 DEF InitMigrated, ObjectTypes
    <2>2. WorkerTypes'
      BY <1>0, <1>26, <1>s DEF InitMigrated, WorkerTypes
    <2>3. ClusterTypes'
      <3>1. Len(Path(p)) \in Nat
        BY <1>0
      <3>2. QED
        BY <1>0, <1>26, <1>s, <2>0, <3>1, Names, OnTheWay DEF InitMigrated, ObjectTypes, ClusterTypes
    <2>4. KeyTypes'
      BY <1>0, <1>26, <2>0, EnsuredKeys DEF InitMigrated, ObjectTypes, KeyTypes
    <2>5. QED
      BY <1>h, <2>1, <2>2, <2>3, <2>4 DEF Types
  <1>27. ASSUME NEW x \in DOMAIN sns, SyncSNS(x[1], x[2]) PROVE Types'
    <2> DEFINE p == x[1]
               n == x[2]
    <2>0. x = <<p, n>> /\ p \in Nodes /\ n \in SNSs
      BY <1>0, <1>27 DEF SyncSNS, ClusterTypes
    <2>1. ObjectTypes'
      BY <1>0, <1>27 DEF SyncSNS, ObjectTypes
    <2>2. WorkerTypes'
      BY <1>0, <1>27, <1>s DEF SyncSNS, WorkerTypes
    <2>3. ClusterTypes'
      <3>1. Len(Path(p)) \in Nat
        BY <1>0
      <3>2. QED
        BY <1>0, <1>27, <1>s, <2>0, <3>1 DEF SyncSNS, ObjectTypes, ClusterTypes
    <2>4. KeyTypes'
      BY <1>0, <1>27, <2>0, EnsuredKeys DEF SyncSNS, KeyTypes
    <2>5. QED
      BY <1>h, <2>1, <2>2, <2>3, <2>4 DEF Types
  <1>28. CASE UNCHANGED vars
    BY <1>0, <1>h, <1>28, <1>s DEF vars, Types, ObjectTypes, WorkerTypes, ClusterTypes, KeyTypes, Keys
  <1>29. QED
    BY <1>1, <1>2, <1>3, <1>4, <1>5, <1>6, <1>7, <1>8, <1>9, <1>10, <1>11, <1>12, <1>13, <1>14, <1>15, <1>16, <1>17, <1>18, <1>19, <1>20, <1>21, <1>22, <1>23, <1>24, <1>25, <1>26, <1>27, <1>28 DEF Next, Work, Subnamespaces

(***************************************************************************)
(* No step changes what the object says, or takes the object away.         *)
(***************************************************************************)
LEMMA ObjectStays ==
    ASSUME [Next]_vars
    PROVE  UNCHANGED <<current, to>> /\ (mh'.phase = "absent" => mh.phase = "absent")
  <1> USE DEF object, cluster, bounds, history
  <1>1. CreateMH => UNCHANGED <<current, to>> /\ (mh'.phase = "absent" => mh.phase = "absent")
    BY DEF CreateMH
  <1>2. TouchMH => UNCHANGED <<current, to>> /\ (mh'.phase = "absent" => mh.phase = "absent")
    BY DEF TouchMH
  <1>3. Watch => UNCHANGED <<current, to>> /\ (mh'.phase = "absent" => mh.phase = "absent")
    BY DEF Watch
  <1>4. Reconcile => UNCHANGED <<current, to>> /\ (mh'.phase = "absent" => mh.phase = "absent")
    BY DEF Reconcile
  <1>5. IncreaseRootResources => UNCHANGED <<current, to>> /\ (mh'.phase = "absent" => mh.phase = "absent")
    BY DEF IncreaseRootResources
  <1>6. CreateFirstUPQ => UNCHANGED <<current, to>> /\ (mh'.phase = "absent" => mh.phase = "absent")
    BY DEF CreateFirstUPQ
  <1>7. UpdateInProgress => UNCHANGED <<current, to>> /\ (mh'.phase = "absent" => mh.phase = "absent")
    BY DEF UpdateInProgress, UpdateMHStatus
  <1>8. MonitorMigrationUPQ => UNCHANGED <<current, to>> /\ (mh'.phase = "absent" => mh.phase = "absent")
    BY DEF MonitorMigrationUPQ
  <1>9. CreateNewSNS => UNCHANGED <<current, to>> /\ (mh'.phase = "absent" => mh.phase = "absent")
    BY DEF CreateNewSNS
  <1>10. DeleteOldSNS => UNCHANGED <<current, to>> /\ (mh'.phase = "absent" => mh.phase = "absent")
    BY DEF DeleteOldSNS
  <1>11. AppendAnnotations => UNCHANGED <<current, to>> /\ (mh'.phase = "absent" => mh.phase = "absent")
    BY DEF AppendAnnotations
  <1>12. AppendLabels => UNCHANGED <<current, to>> /\ (mh'.phase = "absent" => mh.phase = "absent")
    BY DEF AppendLabels
  <1>13. UpdateCRQSelector => UNCHANGED <<current, to>> /\ (mh'.phase = "absent" => mh.phase = "absent")
    BY DEF UpdateCRQSelector
  <1>14. LookUpKeys => UNCHANGED <<current, to>> /\ (mh'.phase = "absent" => mh.phase = "absent")
    BY DEF LookUpKeys
  <1>15. RemoveFromOldKey => UNCHANGED <<current, to>> /\ (mh'.phase = "absent" => mh.phase = "absent")
    BY DEF RemoveFromOldKey
  <1>16. AddToNewKey => UNCHANGED <<current, to>> /\ (mh'.phase = "absent" => mh.phase = "absent")
    BY DEF AddToNewKey
  <1>17. CreateSecondUPQ => UNCHANGED <<current, to>> /\ (mh'.phase = "absent" => mh.phase = "absent")
    BY DEF CreateSecondUPQ
  <1>18. DecreaseRootResources => UNCHANGED <<current, to>> /\ (mh'.phase = "absent" => mh.phase = "absent")
    BY DEF DecreaseRootResources
  <1>19. UpdateComplete => UNCHANGED <<current, to>> /\ (mh'.phase = "absent" => mh.phase = "absent")
    BY DEF UpdateComplete, UpdateMHStatus
  <1>20. UpdateError => UNCHANGED <<current, to>> /\ (mh'.phase = "absent" => mh.phase = "absent")
    BY DEF UpdateError, UpdateMHStatus
  <1>21. CreateNewSNSFails => UNCHANGED <<current, to>> /\ (mh'.phase = "absent" => mh.phase = "absent")
    BY DEF CreateNewSNSFails
  <1>22. DeleteOldSNSFails => UNCHANGED <<current, to>> /\ (mh'.phase = "absent" => mh.phase = "absent")
    BY DEF DeleteOldSNSFails
  <1>23. Fail => UNCHANGED <<current, to>> /\ (mh'.phase = "absent" => mh.phase = "absent")
    BY DEF Fail
  <1>24. Restart => UNCHANGED <<current, to>> /\ (mh'.phase = "absent" => mh.phase = "absent")
    BY DEF Restart
  <1>25. \A s \in Nodes : MoveQuota(s) => UNCHANGED <<current, to>> /\ (mh'.phase = "absent" => mh.phase = "absent")
    BY DEF MoveQuota
  <1>26. \A x \in DOMAIN sns : InitMigrated(x[1], x[2]) \/ SyncSNS(x[1], x[2]) => UNCHANGED <<current, to>> /\ (mh'.phase = "absent" => mh.phase = "absent")
    BY DEF InitMigrated, SyncSNS
  <1>27. UNCHANGED vars => UNCHANGED <<current, to>> /\ (mh'.phase = "absent" => mh.phase = "absent")
    BY DEF vars
  <1>28. QED
    BY <1>1, <1>2, <1>3, <1>4, <1>5, <1>6, <1>7, <1>8, <1>9, <1>10, <1>11, <1>12, <1>13, <1>14, <1>15, <1>16, <1>17, <1>18, <1>19, <1>20, <1>21, <1>22, <1>23, <1>24, <1>25, <1>26, <1>27 DEF Next, Work, Subnamespaces

(***************************************************************************)
(* Nothing begins before the object is created, and the webhook saw to it  *)
(* that the destination is not below the namespace.                        *)
(***************************************************************************)
LEMMA BegunStep == ASSUME Types, Begun, [Next]_vars PROVE Begun'
  <1>0. UNCHANGED <<current, to>> /\ (mh'.phase = "absent" => mh.phase = "absent")
    BY ObjectStays
  <1>1. CASE mh.phase # "absent"
    <2>1. current \notin Range(DisplayName[to]) /\ to # Old
      BY <1>1 DEF Begun
    <2>2. mh'.phase # "absent"
      BY <1>0, <1>1
    <2>3. QED
      BY <1>0, <2>1, <2>2 DEF Begun, Old
  <1>2. CASE mh.phase = "absent"
    <2>0. /\ worker.at = "idle" /\ cached.phase = "absent" /\ label = Old
          /\ \A p \in Nodes : <<p, current>> \in DOMAIN sns <=> p = Old
      BY <1>2 DEF Begun
    <2> USE DEF object, cluster, bounds, history
    <2>1. CASE CreateMH
      <3>1. current \notin Range(DisplayName[to]) /\ to # Old /\ mh'.phase # "absent"
        BY <2>0, <2>1 DEF CreateMH, ValidateMigrationLoop
      <3>2. QED
        BY <1>0, <3>1 DEF Begun, Old
    <2>2. ASSUME UNCHANGED <<mh, worker, label>>, cached'.phase = "absent", DOMAIN sns' = DOMAIN sns
          PROVE  Begun'
      BY <1>0, <1>2, <2>0, <2>2 DEF Begun, Old
    <2>3. CASE Watch
      BY <1>2, <2>2, <2>3 DEF Watch
    <2>4. CASE Reconcile
      BY <2>0, <2>2, <2>4 DEF Reconcile, ShouldReconcile
    <2>5. CASE Fail
      BY <2>0, <2>2, <2>5 DEF Fail
    <2>6. ASSUME NEW s \in Nodes, MoveQuota(s) PROVE Begun'
      BY <2>0, <2>2, <2>6 DEF MoveQuota
    <2>7. ASSUME NEW x \in DOMAIN sns, InitMigrated(x[1], x[2]) PROVE Begun'
      <3>1. x = <<to, current>> /\ x[1] = to
        <4>1. DOMAIN sns \subseteq Nodes \X SNSs
          BY DEF Types, ClusterTypes
        <4>2. x = <<x[1], x[2]>>
          BY <4>1
        <4>3. QED
          BY <2>7, <4>2 DEF Types, ClusterTypes, InitMigrated
      <3>2. to = Old
        BY <2>0, <3>1 DEF Types, ObjectTypes
      <3>3. QED
        BY <2>0, <2>2, <2>7, <3>1, <3>2 DEF InitMigrated
    <2>8. ASSUME NEW x \in DOMAIN sns, SyncSNS(x[1], x[2]) PROVE Begun'
      BY <2>0, <2>2, <2>8 DEF SyncSNS
    <2>9. CASE UNCHANGED vars
      BY <2>0, <2>2, <2>9 DEF vars
    <2>10. ~ (Work \/ CreateNewSNSFails \/ DeleteOldSNSFails \/ Restart \/ TouchMH)
      BY <1>2, <2>0 DEF Work, CreateNewSNSFails, DeleteOldSNSFails, Restart, TouchMH,
            IncreaseRootResources, CreateFirstUPQ, UpdateInProgress, MonitorMigrationUPQ, CreateNewSNS, DeleteOldSNS, AppendAnnotations, AppendLabels, UpdateCRQSelector, LookUpKeys, RemoveFromOldKey, AddToNewKey, CreateSecondUPQ, DecreaseRootResources, UpdateComplete, UpdateError
    <2>11. QED
      BY <2>1, <2>3, <2>4, <2>5, <2>6, <2>7, <2>8, <2>9, <2>10 DEF Next, Subnamespaces
  <1>3. QED
    BY <1>1, <1>2

(***************************************************************************)
(* Taking the next node, or going on to the step after the last one,       *)
(* changes nothing else in the record of the worker.                       *)
(***************************************************************************)
LEMMA WorkerRecord ==
    ASSUME WorkerTypes
    PROVE  /\ \A at :
                Step(at) =>
                    /\ worker'.at = at
                    /\ \A f \in {"src", "todo", "n", "oldKey", "newKey"} : worker'[f] = worker[f]
           /\ \A at, then :
                NextNode(at, then) =>
                    /\ \A f \in {"src", "oldKey", "newKey"} : worker'[f] = worker[f]
                    /\ worker'.todo = worker.todo \ {worker.n}
                    /\ \/ worker'.todo = {} /\ worker'.at = then
                       \/ worker'.at = at /\ worker'.n \in worker'.todo /\ Parent(worker'.n) \notin worker'.todo
  <1>0. worker \in Workers
    BY DEF WorkerTypes
  <1>1. ASSUME NEW at, Step(at)
        PROVE  /\ worker'.at = at
               /\ \A f \in {"src", "todo", "n", "oldKey", "newKey"} : worker'[f] = worker[f]
    BY <1>0, <1>1 DEF Step, Workers
  <1>2. ASSUME NEW at, NEW then, NextNode(at, then)
        PROVE  /\ \A f \in {"src", "oldKey", "newKey"} : worker'[f] = worker[f]
               /\ worker'.todo = worker.todo \ {worker.n}
               /\ \/ worker'.todo = {} /\ worker'.at = then
                  \/ worker'.at = at /\ worker'.n \in worker'.todo /\ Parent(worker'.n) \notin worker'.todo
    <2> DEFINE rest == worker.todo \ {worker.n}
    <2>1. CASE rest = {}
      <3>1. worker' = [worker EXCEPT !.at = then, !.todo = {}]
        BY <1>2, <2>1 DEF NextNode
      <3>2. QED
        BY <1>0, <2>1, <3>1 DEF Workers
    <2>2. CASE rest # {}
      <3>1. PICK m \in rest : Parent(m) \notin rest /\ worker' = [worker EXCEPT !.at = at, !.todo = rest, !.n = m]
        BY <1>2, <2>2 DEF NextNode
      <3>2. QED
        BY <1>0, <3>1 DEF Workers
    <2>3. QED
      BY <2>1, <2>2
  <1>3. QED
    BY <1>1, <1>2

(***************************************************************************)
(* A pass begins at the step that the phase asks for, or with an error     *)
(* when the old Subnamespace is not there.                                 *)
(***************************************************************************)
LEMMA PassBegins ==
    ASSUME Reconcile
    PROVE  \/ UNCHANGED <<worker, torn>>
           \/ /\ worker.at = "idle" /\ torn' = (torn \/ label = to) /\ ShouldReconcile(cached.phase)
              /\ \E at \in {"error", "monitor", "increase", "inprogress"} :
                    /\ Begin(at)
                    /\ at # "error" => <<label, current>> \in DOMAIN sns
                    /\ at = "monitor" => cached.phase # "None"
                    /\ at = "inprogress" => ~QuotaObjExists
                    /\ at = "increase" => QuotaObjExists
  <1> DEFINE at == IF <<label, current>> \notin DOMAIN sns THEN "error"
                   ELSE IF cached.phase # "None" THEN "monitor"
                   ELSE IF QuotaObjExists THEN "increase"
                   ELSE "inprogress"
  <1>1. CASE UNCHANGED <<worker, torn>>
    BY <1>1
  <1>2. CASE ~UNCHANGED <<worker, torn>>
    <2>1. worker.at = "idle" /\ torn' = (torn \/ label = to) /\ ShouldReconcile(cached.phase) /\ Begin(at)
      BY <1>2 DEF Reconcile
    <2>2. /\ at \in {"error", "monitor", "increase", "inprogress"}
          /\ at # "error" => <<label, current>> \in DOMAIN sns
          /\ at = "monitor" => cached.phase # "None"
          /\ at = "inprogress" => ~QuotaObjExists
          /\ at = "increase" => QuotaObjExists
      OBVIOUS
    <2> HIDE DEF at
    <2>3. QED
      BY <2>1, <2>2
  <1>3. QED
    BY <1>1, <1>2

(***************************************************************************)
(* The places stay where they are while the Subnamespaces do and the       *)
(* worker moves within the early or the late steps, or stops.              *)
(***************************************************************************)
LEMMA PlaceMoves ==
    ASSUME Place, UNCHANGED <<current, to, torn>>, DOMAIN sns' = DOMAIN sns, halfway => halfway',
           mh'.phase = "Complete" => mh.phase = "Complete",
           \/ UNCHANGED worker
           \/ worker'.at \in {"idle", "error"} /\ (worker.at = "delete" => halfway')
           \/ worker'.src = worker.src /\ worker.at \in Early /\ worker'.at \in Early
           \/ worker'.src = worker.src /\ worker.at \in After /\ worker'.at \in After
    PROVE  Place'
  <1>1. Old' = Old /\ HasOld' = HasOld /\ HasNew' = HasNew
    BY DEF Old, HasOld, HasNew
  <1>2. \A n \in SNSs \ {current} : <<Parent(n), n>> \in DOMAIN sns'
    BY DEF Place
  <1>3. ASSUME ~torn PROVE Place'
    <2>1. /\ HasOld \/ HasNew
          /\ \A p \in Nodes : <<p, current>> \in DOMAIN sns => p \in {Old, to}
          /\ worker.at \notin {"idle", "error"} => worker.src = Old
          /\ worker.at \in Early \cup {"delete"} => HasOld
          /\ worker.at = "delete" => HasNew
          /\ worker.at \in After => ~HasOld
          /\ ~halfway /\ worker.at # "delete" /\ to # Old => ~(HasOld /\ HasNew)
          /\ mh.phase = "Complete" => ~HasOld /\ worker.at \in {"idle", "error"}
      BY <1>3 DEF Place
    <2>2. /\ worker'.at \notin {"idle", "error"} => worker'.src = Old
          /\ worker'.at \in Early \cup {"delete"} => HasOld
          /\ worker'.at = "delete" => HasNew
          /\ worker'.at \in After => ~HasOld
          /\ ~halfway' /\ worker'.at # "delete" /\ to # Old => ~(HasOld /\ HasNew)
          /\ mh'.phase = "Complete" => ~HasOld /\ worker'.at \in {"idle", "error"}
      BY <2>1 DEF Early, After, Walking
    <2>3. QED
      BY <1>1, <1>2, <2>1, <2>2 DEF Place
  <1>4. CASE torn
    BY <1>2, <1>4 DEF Place
  <1>5. QED
    BY <1>3, <1>4

(***************************************************************************)
(* createNewSNS comes before deleteOldSNS, which undoes it when it fails:  *)
(* each step keeps the account of which of the two Subnamespaces exist.    *)
(***************************************************************************)
LEMMA PlaceStep == ASSUME Types, Begun, Place, [Next]_vars PROVE Place'
  <1> USE DEF object, cluster, bounds, history
  <1>0. UNCHANGED <<current, to>> /\ current \in SNSs /\ Old \in Nodes /\ Old' = Old
    BY ObjectStays, Names DEF Types, ObjectTypes, Old
  <1>w. WorkerTypes
    BY DEF Types
  <1>f. \A n \in SNSs \ {current} : <<Parent(n), n>> \in DOMAIN sns
    BY DEF Place
  <1>1. CASE CreateMH
    BY <1>1, <1>0, PlaceMoves DEF CreateMH, Early, After, Walking
  <1>2. CASE TouchMH
    BY <1>2, <1>0, PlaceMoves DEF TouchMH, Early, After, Walking
  <1>3. CASE Watch
    BY <1>3, <1>0, PlaceMoves DEF Watch, Early, After, Walking
  <1>4. CASE Reconcile
    <2>1. UNCHANGED <<mh, sns, halfway>>
      BY <1>4 DEF Reconcile
    <2>2. CASE UNCHANGED <<worker, torn>>
      BY <1>0, <2>1, <2>2, PlaceMoves
    <2>3. CASE ~UNCHANGED <<worker, torn>>
      <3>1. /\ worker.at = "idle" /\ torn' = (torn \/ label = to) /\ worker'.src = label
            /\ \/ worker'.at = "error"
               \/ worker'.at \in Early /\ <<label, current>> \in DOMAIN sns
        <4>1. PICK at \in {"error", "monitor", "increase", "inprogress"} :
                /\ Begin(at)
                /\ at # "error" => <<label, current>> \in DOMAIN sns
          BY <1>4, <2>3, PassBegins
        <4>2. worker'.at = at /\ worker'.src = label
          BY <4>1 DEF Begin, Idle
        <4>3. worker.at = "idle" /\ torn' = (torn \/ label = to)
          BY <1>4, <2>3, PassBegins
        <4>4. QED
          BY <4>1, <4>2, <4>3 DEF Early
      <3>2. ASSUME ~torn' PROVE worker'.src = Old /\ (worker'.at = "error" \/ (worker'.at \in Early /\ HasOld))
        <4>1. ~torn /\ label # to /\ label \in {Parent(current), to}
          BY <3>1, <3>2 DEF Types, ObjectTypes, HistoryTypes
        <4>2. label = Old
          BY <4>1 DEF Old
        <4>3. QED
          BY <3>1, <4>2 DEF HasOld
      <3>3. ~torn' => ~torn
        BY <3>1 DEF Types, HistoryTypes
      <3>4. ASSUME ~torn'
            PROVE  /\ HasOld \/ HasNew
                   /\ \A p \in Nodes : <<p, current>> \in DOMAIN sns => p \in {Old, to}
                   /\ ~halfway /\ to # Old => ~(HasOld /\ HasNew)
                   /\ mh.phase = "Complete" => ~HasOld
        BY <3>1, <3>3, <3>4 DEF Place
      <3>5. HasOld' = HasOld /\ HasNew' = HasNew
        BY <1>0, <2>1 DEF HasOld, HasNew
      <3>6. QED
        BY <1>0, <1>f, <2>1, <3>1, <3>2, <3>4, <3>5 DEF Place, Early, After, Walking
    <2>4. QED
      BY <2>2, <2>3
  <1>5. CASE IncreaseRootResources
    BY <1>5, <1>0, PlaceMoves DEF IncreaseRootResources, Step, Early, After, Walking
  <1>6. CASE CreateFirstUPQ
    <2>1. UNCHANGED <<mh, sns, torn, halfway>>
      BY <1>6 DEF CreateFirstUPQ
    <2>2. worker.at = "upq" /\ worker'.src = worker.src /\ worker'.at \in {"error", "inprogress"}
      BY <1>6, <1>w, WorkerRecord DEF CreateFirstUPQ
    <2>3. QED
      BY <1>0, <2>1, <2>2, PlaceMoves DEF Early, After, Walking
  <1>7. CASE UpdateInProgress
    <2>1. mh'.phase = "Complete" => mh.phase = "Complete"
      <3>1. mh' = mh \/ mh'.phase # "Complete"
        BY <1>7 DEF UpdateInProgress, UpdateMHStatus
      <3>2. QED
        BY <3>1
    <2>2. /\ UNCHANGED <<sns, torn, halfway>> /\ worker'.at = "monitor"
          /\ worker.at = "inprogress" /\ worker'.src = worker.src
      BY <1>7 DEF UpdateInProgress, Idle, Types, WorkerTypes, Workers
    <2>3. QED
      BY <1>0, <2>1, <2>2, PlaceMoves DEF Early
  <1>8. CASE MonitorMigrationUPQ
    <2>1. UNCHANGED <<mh, sns, torn, halfway>>
      BY <1>8 DEF MonitorMigrationUPQ
    <2>2. /\ worker.at = "monitor"
          /\ worker'.at = "idle" \/ (worker'.src = worker.src /\ worker'.at \in {"error", "create"})
      BY <1>8, <1>w, WorkerRecord DEF MonitorMigrationUPQ, Idle
    <2>3. QED
      BY <1>0, <2>1, <2>2, PlaceMoves DEF Early, After, Walking
  <1>9. CASE CreateNewSNS
    <2>1. CASE UNCHANGED sns /\ Step("error")
      BY <1>0, <1>9, <2>1, PlaceMoves DEF CreateNewSNS, Step, Types, WorkerTypes, Workers
    <2>2. CASE sns' = WithNewSNS /\ Step("delete")
      <3>1. /\ DOMAIN sns' = DOMAIN sns \cup {<<to, current>>}
            /\ worker.at = "create" /\ worker'.at = "delete" /\ worker'.src = worker.src /\ UNCHANGED <<mh, torn, halfway>>
        BY <1>9, <2>2, NewDomain DEF CreateNewSNS, Step, Types, WorkerTypes, Workers
      <3>2. \A n \in SNSs \ {current} : <<Parent(n), n>> \in DOMAIN sns'
        BY <1>f, <3>1
      <3>3. ASSUME ~torn
            PROVE  /\ HasOld' /\ HasNew' /\ worker.src = Old /\ mh.phase # "Complete"
                   /\ \A p \in Nodes : <<p, current>> \in DOMAIN sns' => p \in {Old, to}
        BY <1>0, <3>1, <3>3 DEF Place, HasOld, HasNew, Early
      <3>4. QED
        BY <1>0, <3>1, <3>2, <3>3 DEF Place, Early, After, Walking
    <2>3. QED
      BY <1>9, <2>1, <2>2 DEF CreateNewSNS
  <1>10. CASE DeleteOldSNS
    <2>1. /\ DOMAIN sns' = DOMAIN sns \ {<<worker.src, current>>}
          /\ worker.at = "delete" /\ worker'.at = "annotations" /\ worker'.src = worker.src /\ UNCHANGED <<mh, torn, halfway>>
      BY <1>10 DEF DeleteOldSNS, WithoutSNS, Restrict, Types, WorkerTypes, Workers
    <2>2. \A n \in SNSs \ {current} : <<Parent(n), n>> \in DOMAIN sns'
      BY <1>f, <2>1
    <2>3. to # Old
      BY <2>1 DEF Begun
    <2>4. ASSUME ~torn
          PROVE  /\ ~HasOld' /\ HasNew' /\ worker.src = Old /\ mh.phase # "Complete"
                 /\ \A p \in Nodes : <<p, current>> \in DOMAIN sns' => p \in {Old, to}
      <3>1. /\ HasNew /\ worker.src = Old /\ mh.phase # "Complete"
            /\ \A p \in Nodes : <<p, current>> \in DOMAIN sns => p \in {Old, to}
        BY <2>1, <2>4 DEF Place
      <3>2. QED
        BY <1>0, <2>1, <2>3, <3>1 DEF HasOld, HasNew
    <2>5. QED
      BY <1>0, <2>1, <2>2, <2>4 DEF Place, Early, After, Walking
  <1>11. CASE AppendAnnotations
    <2>1. UNCHANGED <<mh, sns, torn, halfway>>
      BY <1>11 DEF AppendAnnotations
    <2>2. worker.at = "annotations" /\ worker'.src = worker.src /\ worker'.at \in {"labels", "selector"}
      BY <1>11, <1>w, WorkerRecord DEF AppendAnnotations
    <2>3. QED
      BY <1>0, <2>1, <2>2, PlaceMoves DEF Early, After, Walking
  <1>12. CASE AppendLabels
    BY <1>12, <1>0, PlaceMoves DEF AppendLabels, Step, Early, After, Walking
  <1>13. CASE UpdateCRQSelector
    <2>1. UNCHANGED <<mh, sns, torn, halfway>>
      BY <1>13 DEF UpdateCRQSelector
    <2>2. worker.at = "selector" /\ worker'.src = worker.src /\ worker'.at \in {"annotations", "keys"}
      BY <1>13, <1>w, WorkerRecord DEF UpdateCRQSelector
    <2>3. QED
      BY <1>0, <2>1, <2>2, PlaceMoves DEF Early, After, Walking
  <1>14. CASE LookUpKeys
    BY <1>14, <1>0, PlaceMoves DEF LookUpKeys, Key, KeysOf, Early, After, Walking
  <1>15. CASE RemoveFromOldKey
    <2>1. UNCHANGED <<mh, sns, torn, halfway>>
      BY <1>15 DEF RemoveFromOldKey
    <2>2. worker.at = "remove" /\ worker'.src = worker.src /\ worker'.at \in {"add", "error"}
      BY <1>15, <1>w, WorkerRecord DEF RemoveFromOldKey
    <2>3. QED
      BY <1>0, <2>1, <2>2, PlaceMoves DEF Early, After, Walking
  <1>16. CASE AddToNewKey
    <2>1. UNCHANGED <<mh, sns, torn, halfway>>
      BY <1>16 DEF AddToNewKey
    <2>2. worker.at = "add" /\ worker'.src = worker.src /\ worker'.at \in {"remove", "upqBack", "complete"}
      BY <1>16, <1>w, WorkerRecord DEF AddToNewKey
    <2>3. QED
      BY <1>0, <2>1, <2>2, PlaceMoves DEF Early, After, Walking
  <1>17. CASE CreateSecondUPQ
    BY <1>17, <1>0, PlaceMoves DEF CreateSecondUPQ, Step, CreateMigrationUPQ, Early, After, Walking
  <1>18. CASE DecreaseRootResources
    BY <1>18, <1>0, PlaceMoves DEF DecreaseRootResources, Step, Early, After, Walking
  <1>19. CASE UpdateComplete
    <2>1. UNCHANGED <<sns, torn, halfway>> /\ worker'.at = "idle" /\ worker.at = "complete"
      BY <1>19 DEF UpdateComplete, Idle
    <2>2. /\ \A n \in SNSs \ {current} : <<Parent(n), n>> \in DOMAIN sns'
          /\ HasOld' = HasOld /\ HasNew' = HasNew
      BY <1>0, <1>f, <2>1 DEF HasOld, HasNew
    <2>3. ~torn => /\ HasNew /\ ~HasOld
                   /\ \A p \in Nodes : <<p, current>> \in DOMAIN sns' => p \in {Old, to}
      BY <2>1 DEF Place, After
    <2>4. QED
      BY <1>0, <2>1, <2>2, <2>3 DEF Place, Early, After, Walking
  <1>20. CASE UpdateError
    <2>1. mh'.phase = "Complete" => mh.phase = "Complete"
      <3>1. mh' = mh \/ mh'.phase # "Complete"
        BY <1>20 DEF UpdateError, UpdateMHStatus
      <3>2. QED
        BY <3>1
    <2>2. /\ UNCHANGED <<sns, torn, halfway>> /\ worker'.at = "idle"
          /\ worker.at = "error"
      BY <1>20 DEF UpdateError, Idle, Types, WorkerTypes, Workers
    <2>3. QED
      BY <1>0, <2>1, <2>2, PlaceMoves DEF Early
  <1>21. CASE CreateNewSNSFails
    <2>1. DOMAIN sns' = DOMAIN sns \cup {<<to, current>>} /\ torn' = TRUE
      BY <1>21, NewDomain DEF CreateNewSNSFails
    <2>2. QED
      BY <1>0, <1>f, <2>1 DEF Place
  <1>22. CASE DeleteOldSNSFails
    <2>1. /\ sns' = WithoutSNS({to}) \/ sns' = sns \/ sns' = WithoutSNS({worker.src, to})
          /\ torn' = TRUE \/ (torn' = torn /\ sns' = WithoutSNS({to}))
          /\ worker.at = "delete" /\ worker'.at = "error" /\ UNCHANGED <<mh, halfway>>
      BY <1>22 DEF DeleteOldSNSFails, Step, Types, WorkerTypes, Workers
    <2>2. \A P : DOMAIN WithoutSNS(P) = DOMAIN sns \ {<<p, current>> : p \in P}
      BY DEF WithoutSNS, Restrict
    <2>3. \A n \in SNSs \ {current} : <<Parent(n), n>> \in DOMAIN sns'
      BY <1>f, <2>1, <2>2
    <2>4. ASSUME ~torn'
          PROVE  /\ HasOld' /\ ~HasNew' /\ mh.phase # "Complete"
                 /\ \A p \in Nodes : <<p, current>> \in DOMAIN sns' => p \in {Old, to}
      <3>1. DOMAIN sns' = DOMAIN sns \ {<<to, current>>} /\ ~torn
        <4>1. {<<p, current>> : p \in {to}} = {<<to, current>>}
          OBVIOUS
        <4>2. sns' = WithoutSNS({to}) /\ torn' = torn
          BY <2>1, <2>4
        <4>3. QED
          BY <2>2, <2>4, <4>1, <4>2
      <3>2. HasOld /\ mh.phase # "Complete" /\ to # Old
            /\ \A p \in Nodes : <<p, current>> \in DOMAIN sns => p \in {Old, to}
        BY <2>1, <3>1 DEF Place, Begun
      <3>3. QED
        BY <1>0, <3>1, <3>2 DEF HasOld, HasNew
    <2>5. QED
      BY <1>0, <2>1, <2>3, <2>4 DEF Place, Early, After, Walking
  <1>23. CASE Fail
    <2>1. UNCHANGED <<mh, sns, torn, halfway>>
      BY <1>23 DEF Fail
    <2>2. UNCHANGED worker \/ (worker.at # "delete" /\ worker'.at \in {"idle", "error"})
      BY <1>23, <1>w, WorkerRecord DEF Fail, Idle
    <2>3. QED
      BY <1>0, <2>1, <2>2, PlaceMoves DEF Early, After, Walking
  <1>24. CASE Restart
    BY <1>24, <1>0, PlaceMoves DEF Restart, Idle, Early, After, Walking
  <1>25. \A s \in Nodes : MoveQuota(s) => Place'
    BY <1>0, PlaceMoves DEF MoveQuota
  <1>26. \A x \in DOMAIN sns : InitMigrated(x[1], x[2]) => Place'
    BY <1>0, PlaceMoves DEF InitMigrated
  <1>27. \A x \in DOMAIN sns : SyncSNS(x[1], x[2]) => Place'
    BY <1>0, PlaceMoves DEF SyncSNS
  <1>28. CASE UNCHANGED vars
    BY <1>28, PlaceMoves DEF vars
  <1>29. QED
    BY <1>1, <1>2, <1>3, <1>4, <1>5, <1>6, <1>7, <1>8, <1>9, <1>10, <1>11, <1>12, <1>13, <1>14, <1>15, <1>16, <1>17, <1>18, <1>19, <1>20, <1>21, <1>22, <1>23, <1>24, <1>25, <1>26, <1>27, <1>28 DEF Next, Work, Subnamespaces

(***************************************************************************)
(* What has been rewritten stays so while the worker moves within the      *)
(* steps after the walk, or is elsewhere.                                  *)
(***************************************************************************)
LEMMA WalkMoves ==
    ASSUME Walk, UNCHANGED <<current, to, lost>>, annotated \subseteq annotated', annotated' \subseteq Subtree,
           label = to => label' = to,
           mh'.phase = "Complete" => mh.phase = "Complete" \/ worker.at = "complete",
           \/ UNCHANGED worker
           \/ worker'.at \notin After
           \/ worker.at \in After \ Walking /\ worker'.at \in After \ Walking
    PROVE  Walk'
  <1>s. Subtree' = Subtree
    BY DEF Subtree
  <1>1. CASE lost
    BY <1>1 DEF Walk
  <1>2. CASE ~lost
    <2>1. /\ worker.at \in Walking =>
                /\ Subtree \ worker.todo \subseteq annotated
                /\ worker.at # "annotations" => worker.n \in annotated
                /\ current \notin worker.todo \/ (worker.at = "selector" /\ worker.n = current) => label = to
          /\ worker.at \in After \ Walking \/ mh.phase = "Complete" => annotated = Subtree /\ label = to
      BY <1>2 DEF Walk
    <2>2. worker'.at \in Walking => UNCHANGED worker
      BY DEF After, Walking
    <2>3. worker'.at \in Walking =>
                /\ Subtree \ worker'.todo \subseteq annotated'
                /\ worker'.at # "annotations" => worker'.n \in annotated'
                /\ current \notin worker'.todo \/ (worker'.at = "selector" /\ worker'.n = current) => label' = to
      BY <2>1, <2>2
    <2>4. worker'.at \in After \ Walking \/ mh'.phase = "Complete" => annotated' = Subtree /\ label' = to
      BY <2>1 DEF After, Walking
    <2>5. QED
      BY <1>s, <2>3, <2>4 DEF Walk
  <1>3. QED
    BY <1>1, <1>2

(***************************************************************************)
(* UpdateNSBasedOnParent visits the current namespace and all below it,    *)
(* and rewrites each unless a conflict loses it.                           *)
(***************************************************************************)
LEMMA WalkStep == ASSUME Types, Types', Begun, Walk, [Next]_vars PROVE Walk'
  <1> USE DEF object, cluster, bounds, history
  <1>0. /\ UNCHANGED <<current, to>> /\ Subtree' = Subtree /\ annotated \subseteq Subtree /\ annotated' \subseteq Subtree
        /\ current \in Subtree
    BY ObjectStays, OnTheWay DEF Types, ObjectTypes, ClusterTypes, Subtree
  <1>w. WorkerTypes
    BY DEF Types
  <1>1. CASE CreateMH
    <2>1. UNCHANGED worker
      BY <1>1, <1>w, WorkerRecord DEF CreateMH, Idle, WorkerTypes, Workers, After, Walking
    <2>2. mh'.phase = "Complete" => mh.phase = "Complete" \/ worker.at = "complete"
      BY <1>1 DEF CreateMH
    <2>3. UNCHANGED <<lost, annotated, label>>
      BY <1>1 DEF CreateMH
    <2>4. QED
      BY <1>0, <2>1, <2>2, <2>3, WalkMoves
  <1>2. CASE TouchMH
    <2>1. UNCHANGED worker
      BY <1>2, <1>w, WorkerRecord DEF TouchMH, Idle, WorkerTypes, Workers, After, Walking
    <2>2. mh'.phase = "Complete" => mh.phase = "Complete" \/ worker.at = "complete"
      BY <1>2 DEF TouchMH
    <2>3. UNCHANGED <<lost, annotated, label>>
      BY <1>2 DEF TouchMH
    <2>4. QED
      BY <1>0, <2>1, <2>2, <2>3, WalkMoves
  <1>3. CASE Watch
    <2>1. UNCHANGED worker
      BY <1>3, <1>w, WorkerRecord DEF Watch, Idle, WorkerTypes, Workers, After, Walking
    <2>2. mh'.phase = "Complete" => mh.phase = "Complete" \/ worker.at = "complete"
      BY <1>3 DEF Watch
    <2>3. UNCHANGED <<lost, annotated, label>>
      BY <1>3 DEF Watch
    <2>4. QED
      BY <1>0, <2>1, <2>2, <2>3, WalkMoves
  <1>4. CASE Reconcile
    <2>1. UNCHANGED worker \/ worker'.at \notin After
      BY <1>4, PassBegins DEF Begin, Idle, After, Walking
    <2>2. mh'.phase = "Complete" => mh.phase = "Complete" \/ worker.at = "complete"
      BY <1>4 DEF Reconcile
    <2>3. UNCHANGED <<lost, annotated, label>>
      BY <1>4 DEF Reconcile
    <2>4. QED
      BY <1>0, <2>1, <2>2, <2>3, WalkMoves
  <1>5. CASE IncreaseRootResources
    <2>1. worker'.at \notin After
      BY <1>5, <1>w, WorkerRecord DEF IncreaseRootResources, Idle, WorkerTypes, Workers, After, Walking
    <2>2. mh'.phase = "Complete" => mh.phase = "Complete" \/ worker.at = "complete"
      BY <1>5 DEF IncreaseRootResources
    <2>3. UNCHANGED <<lost, annotated, label>>
      BY <1>5 DEF IncreaseRootResources
    <2>4. QED
      BY <1>0, <2>1, <2>2, <2>3, WalkMoves
  <1>6. CASE CreateFirstUPQ
    <2>1. worker'.at \notin After
      BY <1>6, <1>w, WorkerRecord DEF CreateFirstUPQ, Idle, WorkerTypes, Workers, After, Walking
    <2>2. mh'.phase = "Complete" => mh.phase = "Complete" \/ worker.at = "complete"
      BY <1>6 DEF CreateFirstUPQ
    <2>3. UNCHANGED <<lost, annotated, label>>
      BY <1>6 DEF CreateFirstUPQ
    <2>4. QED
      BY <1>0, <2>1, <2>2, <2>3, WalkMoves
  <1>7. CASE UpdateInProgress
    <2>1. worker'.at \notin After
      BY <1>7, <1>w, WorkerRecord DEF UpdateInProgress, Idle, WorkerTypes, Workers, After, Walking
    <2>2. mh'.phase = "Complete" => mh.phase = "Complete" \/ worker.at = "complete"
      BY <1>7 DEF UpdateInProgress, UpdateMHStatus
    <2>3. UNCHANGED <<lost, annotated, label>>
      BY <1>7 DEF UpdateInProgress
    <2>4. QED
      BY <1>0, <2>1, <2>2, <2>3, WalkMoves
  <1>8. CASE MonitorMigrationUPQ
    <2>1. worker'.at \notin After
      BY <1>8, <1>w, WorkerRecord DEF MonitorMigrationUPQ, Idle, WorkerTypes, Workers, After, Walking
    <2>2. mh'.phase = "Complete" => mh.phase = "Complete" \/ worker.at = "complete"
      BY <1>8 DEF MonitorMigrationUPQ
    <2>3. UNCHANGED <<lost, annotated, label>>
      BY <1>8 DEF MonitorMigrationUPQ
    <2>4. QED
      BY <1>0, <2>1, <2>2, <2>3, WalkMoves
  <1>9. CASE CreateNewSNS
    <2>1. worker'.at \notin After
      BY <1>9, <1>w, WorkerRecord DEF CreateNewSNS, Idle, WorkerTypes, Workers, After, Walking
    <2>2. mh'.phase = "Complete" => mh.phase = "Complete" \/ worker.at = "complete"
      BY <1>9 DEF CreateNewSNS
    <2>3. UNCHANGED <<lost, annotated, label>>
      BY <1>9 DEF CreateNewSNS
    <2>4. QED
      BY <1>0, <2>1, <2>2, <2>3, WalkMoves
  <1>10. CASE DeleteOldSNS
    <2>1. /\ worker'.at = "annotations" /\ worker'.todo = Subtree /\ worker.at = "delete"
          /\ UNCHANGED <<mh, lost, annotated, label>>
      BY <1>10 DEF DeleteOldSNS, Types, WorkerTypes, Workers
    <2>2. ~lost /\ mh.phase = "Complete" => annotated = Subtree /\ label = to
      BY DEF Walk
    <2>3. QED
      BY <1>0, <2>1, <2>2 DEF Walk, After, Walking
  <1>11. CASE AppendAnnotations
    <2>1. CASE lost'
      BY <2>1 DEF Walk
    <2>2. CASE ~lost'
      <3>1. /\ worker.at = "annotations" /\ worker'.at = "labels" /\ worker'.todo = worker.todo /\ worker'.n = worker.n
            /\ annotated' = annotated \cup {worker.n} /\ ~lost /\ UNCHANGED <<mh, label>>
        BY <1>11, <1>w, <2>2, WorkerRecord DEF AppendAnnotations
      <3>2. /\ Subtree \ worker.todo \subseteq annotated
            /\ current \notin worker.todo => label = to
            /\ mh.phase = "Complete" => annotated = Subtree /\ label = to
        BY <3>1 DEF Walk, Walking
      <3>3. QED
        BY <1>0, <3>1, <3>2 DEF Walk, After, Walking
    <2>3. QED
      BY <2>1, <2>2
  <1>12. CASE AppendLabels
    <2>1. CASE lost
      BY <1>12, <2>1 DEF AppendLabels, Walk
    <2>2. CASE ~lost
      <3>1. /\ worker.at = "labels" /\ worker'.at = "selector" /\ worker'.todo = worker.todo /\ worker'.n = worker.n
            /\ label' = IF worker.n = current THEN to ELSE label
            /\ UNCHANGED <<mh, annotated>>
        BY <1>12, <1>w, WorkerRecord DEF AppendLabels
      <3>2. /\ Subtree \ worker.todo \subseteq annotated /\ worker.n \in annotated
            /\ current \notin worker.todo => label = to
            /\ mh.phase = "Complete" => annotated = Subtree /\ label = to
        BY <2>2, <3>1 DEF Walk, Walking
      <3>3. QED
        BY <1>0, <3>1, <3>2 DEF Walk, After, Walking
    <2>3. QED
      BY <2>1, <2>2
  <1>13. CASE UpdateCRQSelector
    <2>0. /\ worker.at = "selector" /\ UNCHANGED <<mh, lost, annotated, label>>
          /\ worker'.todo = worker.todo \ {worker.n}
          /\ \/ worker'.todo = {} /\ worker'.at = "keys"
             \/ worker'.at = "annotations"
      BY <1>13, <1>w, WorkerRecord DEF UpdateCRQSelector
    <2>1. CASE lost
      BY <2>0, <2>1 DEF Walk
    <2>2. CASE ~lost
      <3>1. /\ Subtree \ worker.todo \subseteq annotated /\ worker.n \in annotated
            /\ current \notin worker.todo \/ worker.n = current => label = to
            /\ mh.phase = "Complete" => annotated = Subtree /\ label = to
        BY <2>0, <2>2 DEF Walk, Walking
      <3>2. Subtree \ worker'.todo \subseteq annotated /\ (current \notin worker'.todo => label = to)
        BY <2>0, <3>1
      <3>3. QED
        BY <1>0, <2>0, <3>1, <3>2 DEF Walk, After, Walking
    <2>3. QED
      BY <2>1, <2>2
  <1>14. CASE LookUpKeys
    <2>1. worker.at \in After \ Walking /\ worker'.at \in After \ Walking
      BY <1>14, <1>w, WorkerRecord DEF LookUpKeys, Idle, WorkerTypes, Workers, After, Walking
    <2>2. mh'.phase = "Complete" => mh.phase = "Complete" \/ worker.at = "complete"
      BY <1>14 DEF LookUpKeys
    <2>3. UNCHANGED <<lost, annotated, label>>
      BY <1>14 DEF LookUpKeys
    <2>4. QED
      BY <1>0, <2>1, <2>2, <2>3, WalkMoves
  <1>15. CASE RemoveFromOldKey
    <2>1. worker.at \in After \ Walking /\ worker'.at \in (After \ Walking) \cup {"error"}
      BY <1>15, <1>w, WorkerRecord DEF RemoveFromOldKey, Idle, WorkerTypes, Workers, After, Walking
    <2>2. mh'.phase = "Complete" => mh.phase = "Complete" \/ worker.at = "complete"
      BY <1>15 DEF RemoveFromOldKey
    <2>3. UNCHANGED <<lost, annotated, label>>
      BY <1>15 DEF RemoveFromOldKey
    <2>4. QED
      BY <1>0, <2>1, <2>2, <2>3, WalkMoves DEF After, Walking
  <1>16. CASE AddToNewKey
    <2>1. worker.at \in After \ Walking /\ worker'.at \in After \ Walking
      BY <1>16, <1>w, WorkerRecord DEF AddToNewKey, Idle, WorkerTypes, Workers, After, Walking
    <2>2. mh'.phase = "Complete" => mh.phase = "Complete" \/ worker.at = "complete"
      BY <1>16 DEF AddToNewKey
    <2>3. UNCHANGED <<lost, annotated, label>>
      BY <1>16 DEF AddToNewKey
    <2>4. QED
      BY <1>0, <2>1, <2>2, <2>3, WalkMoves
  <1>17. CASE CreateSecondUPQ
    <2>1. worker.at \in After \ Walking /\ worker'.at \in After \ Walking
      BY <1>17, <1>w, WorkerRecord DEF CreateSecondUPQ, Idle, WorkerTypes, Workers, After, Walking
    <2>2. mh'.phase = "Complete" => mh.phase = "Complete" \/ worker.at = "complete"
      BY <1>17 DEF CreateSecondUPQ
    <2>3. UNCHANGED <<lost, annotated, label>>
      BY <1>17 DEF CreateSecondUPQ
    <2>4. QED
      BY <1>0, <2>1, <2>2, <2>3, WalkMoves
  <1>18. CASE DecreaseRootResources
    <2>1. worker.at \in After \ Walking /\ worker'.at \in After \ Walking
      BY <1>18, <1>w, WorkerRecord DEF DecreaseRootResources, Idle, WorkerTypes, Workers, After, Walking
    <2>2. mh'.phase = "Complete" => mh.phase = "Complete" \/ worker.at = "complete"
      BY <1>18 DEF DecreaseRootResources
    <2>3. UNCHANGED <<lost, annotated, label>>
      BY <1>18 DEF DecreaseRootResources
    <2>4. QED
      BY <1>0, <2>1, <2>2, <2>3, WalkMoves
  <1>19. CASE UpdateComplete
    <2>1. worker'.at \notin After
      BY <1>19, <1>w, WorkerRecord DEF UpdateComplete, Idle, WorkerTypes, Workers, After, Walking
    <2>2. mh'.phase = "Complete" => mh.phase = "Complete" \/ worker.at = "complete"
      BY <1>19 DEF UpdateComplete, UpdateMHStatus
    <2>3. UNCHANGED <<lost, annotated, label>>
      BY <1>19 DEF UpdateComplete
    <2>4. QED
      BY <1>0, <2>1, <2>2, <2>3, WalkMoves
  <1>20. CASE UpdateError
    <2>1. worker'.at \notin After
      BY <1>20, <1>w, WorkerRecord DEF UpdateError, Idle, WorkerTypes, Workers, After, Walking
    <2>2. mh'.phase = "Complete" => mh.phase = "Complete" \/ worker.at = "complete"
      BY <1>20 DEF UpdateError, UpdateMHStatus
    <2>3. UNCHANGED <<lost, annotated, label>>
      BY <1>20 DEF UpdateError
    <2>4. QED
      BY <1>0, <2>1, <2>2, <2>3, WalkMoves
  <1>21. CASE CreateNewSNSFails
    <2>1. worker'.at \notin After
      BY <1>21, <1>w, WorkerRecord DEF CreateNewSNSFails, Idle, WorkerTypes, Workers, After, Walking
    <2>2. mh'.phase = "Complete" => mh.phase = "Complete" \/ worker.at = "complete"
      BY <1>21 DEF CreateNewSNSFails
    <2>3. UNCHANGED <<lost, annotated, label>>
      BY <1>21 DEF CreateNewSNSFails
    <2>4. QED
      BY <1>0, <2>1, <2>2, <2>3, WalkMoves
  <1>22. CASE DeleteOldSNSFails
    <2>1. worker'.at \notin After
      BY <1>22, <1>w, WorkerRecord DEF DeleteOldSNSFails, Idle, WorkerTypes, Workers, After, Walking
    <2>2. mh'.phase = "Complete" => mh.phase = "Complete" \/ worker.at = "complete"
      BY <1>22 DEF DeleteOldSNSFails
    <2>3. UNCHANGED <<lost, annotated, label>>
      BY <1>22 DEF DeleteOldSNSFails
    <2>4. QED
      BY <1>0, <2>1, <2>2, <2>3, WalkMoves
  <1>23. CASE Fail
    <2>1. UNCHANGED worker \/ worker'.at \notin After
      BY <1>23, <1>w, WorkerRecord DEF Fail, Idle, WorkerTypes, Workers, After, Walking
    <2>2. mh'.phase = "Complete" => mh.phase = "Complete" \/ worker.at = "complete"
      BY <1>23 DEF Fail
    <2>3. UNCHANGED <<lost, annotated, label>>
      BY <1>23 DEF Fail
    <2>4. QED
      BY <1>0, <2>1, <2>2, <2>3, WalkMoves
  <1>24. CASE Restart
    <2>1. worker'.at \notin After
      BY <1>24, <1>w, WorkerRecord DEF Restart, Idle, WorkerTypes, Workers, After, Walking
    <2>2. mh'.phase = "Complete" => mh.phase = "Complete" \/ worker.at = "complete"
      BY <1>24 DEF Restart
    <2>3. UNCHANGED <<lost, annotated, label>>
      BY <1>24 DEF Restart
    <2>4. QED
      BY <1>0, <2>1, <2>2, <2>3, WalkMoves
  <1>25. \A s \in Nodes : MoveQuota(s) => Walk'
    BY <1>0, WalkMoves DEF MoveQuota
  <1>26. ASSUME NEW x \in DOMAIN sns, InitMigrated(x[1], x[2]) PROVE Walk'
    <2>1. x = <<to, current>> /\ x[1] = to
      <3>1. DOMAIN sns \subseteq Nodes \X SNSs
        BY DEF Types, ClusterTypes
      <3>2. x = <<x[1], x[2]>>
        BY <3>1
      <3>3. QED
        BY <1>26, <3>2 DEF Types, ClusterTypes, InitMigrated
    <2>2. label' = to /\ annotated \subseteq annotated' /\ UNCHANGED <<mh, lost, worker>>
      BY <1>26, <2>1 DEF InitMigrated
    <2>3. QED
      BY <1>0, <2>2, WalkMoves
  <1>27. \A x \in DOMAIN sns : SyncSNS(x[1], x[2]) => Walk'
    BY <1>0, WalkMoves DEF SyncSNS
  <1>28. CASE UNCHANGED vars
    BY <1>0, <1>28, WalkMoves DEF vars
  <1>29. QED
    BY <1>1, <1>2, <1>3, <1>4, <1>5, <1>6, <1>7, <1>8, <1>9, <1>10, <1>11, <1>12, <1>13, <1>14, <1>15, <1>16, <1>17, <1>18, <1>19, <1>20, <1>21, <1>22, <1>23, <1>24, <1>25, <1>26, <1>27, <1>28 DEF Next, Work, Subnamespaces

(***************************************************************************)
(* The inductive invariant holds at the start.                             *)
(***************************************************************************)
LEMMA InitMigInv == Init => MigInv
  <1> SUFFICES ASSUME Init PROVE MigInv
    OBVIOUS
  <1>1. Types
    BY InitTypes
  <1>2. \A x : x \in DOMAIN sns <=> \E n \in SNSs : x = <<Parent(n), n>>
    BY DEF Init
  <1>3. /\ current \in SNSs /\ label = Old /\ mh.phase = "absent" /\ cached.phase = "absent" /\ worker.at = "idle"
    BY DEF Init, Old, Idle
  <1>4. \A p : <<p, current>> \in DOMAIN sns <=> p = Old
    BY <1>2, <1>3 DEF Old
  <1>5. Begun
    BY <1>3, <1>4 DEF Begun
  <1>6. Place
    BY <1>2, <1>3, <1>4 DEF Place, HasOld, HasNew, Early, After, Walking
  <1>7. Walk
    BY <1>3 DEF Walk, After, Walking
  <1>8. QED
    BY <1>1, <1>5, <1>6, <1>7, TypesAreTypes DEF MigInv

(***************************************************************************)
(* Every step keeps it.                                                    *)
(***************************************************************************)
LEMMA MigInvStep == ASSUME MigInv, [Next]_vars PROVE MigInv'
  <1>1. Types /\ Begun /\ Place /\ Walk
    BY TypesAreTypes DEF MigInv
  <1>2. Types'
    BY <1>1, TypesStep
  <1>3. Begun' /\ Place' /\ Walk'
    BY <1>1, <1>2, BegunStep, PlaceStep, WalkStep
  <1>4. (TypeOK /\ Shapes)'
    BY <1>2, TypesAreTypes, PTL
  <1>5. QED
    BY <1>3, <1>4 DEF MigInv

(***************************************************************************)
(* Where a migration stands, at every step of every pass.                  *)
(***************************************************************************)
THEOREM MigrationInvariance == Spec => []MigInv
  <1>1. Init => MigInv
    BY InitMigInv
  <1>2. MigInv /\ [Next]_vars => MigInv'
    BY MigInvStep
  <1>3. QED
    BY <1>1, <1>2, PTL DEF Spec

(***************************************************************************)
(* The types are right.                                                    *)
(***************************************************************************)
THEOREM MigrationTyping == Spec => []TypeOK
  <1>1. MigInv => TypeOK
    BY DEF MigInv
  <1>2. QED
    BY <1>1, MigrationInvariance, PTL

(***************************************************************************)
(* The way to a namespace leads through the parents of those on it.        *)
(***************************************************************************)
LEMMA ParentOnTheWay ==
    ASSUME NEW n \in Nodes, NEW x \in SNSs, x \in Range(DisplayName[n])
    PROVE  Parent(x) \in Range(DisplayName[n])
  <1>1. /\ Len(DisplayName[n]) \in Nat /\ DOMAIN DisplayName[n] = 1..Len(DisplayName[n])
        /\ WellNamed(Nodes, Root, DisplayName, n)
    BY Names
  <1>2. /\ Len(DisplayName[x]) \in 1..Len(DisplayName[n]) /\ Len(DisplayName[x]) > 1
        /\ DisplayName[n][Len(DisplayName[x])] = x
    BY OnTheWay, MigrationAssumption
  <1> DEFINE i == Len(DisplayName[x]) - 1
  <1>3. i \in 1..Len(DisplayName[x]) /\ i \in 1..Len(DisplayName[n])
    BY <1>1, <1>2
  <1>4. Parent(x) = DisplayName[n][i]
    BY <1>1, <1>2, <1>3 DEF WellNamed, Parent
  <1>5. QED
    BY <1>1, <1>3, <1>4 DEF Range

(***************************************************************************)
(* Of some subnamespaces one is nearest to the root: its parent is none    *)
(* of them.                                                                *)
(***************************************************************************)
LEMMA Nearest ==
    ASSUME NEW S \in SUBSET SNSs, S # {}
    PROVE  \E n \in S : Parent(n) \in Nodes \ S
  <1> DEFINE T == {Depth(n) : n \in S}
  <1>1. T \in SUBSET Nat /\ T # {}
    BY Names
  <1> HIDE DEF T
  <1>2. PICK d \in T : \A x \in T : d <= x
    BY <1>1, LeastNatural
  <1>3. PICK n \in S : d = Depth(n)
    BY <1>2 DEF T
  <1>4. Parent(n) \in Nodes /\ Depth(n) = Depth(Parent(n)) + 1 /\ Depth(Parent(n)) \in Nat
    BY Names
  <1>5. Parent(n) \notin S
    <2>1. ASSUME Parent(n) \in S PROVE FALSE
      <3>1. Depth(Parent(n)) \in T
        BY <2>1 DEF T
      <3>2. d <= Depth(Parent(n))
        BY <1>2, <3>1
      <3>3. QED
        BY <1>3, <1>4, <3>2
    <2>2. QED
      BY <2>1
  <1>6. QED
    BY <1>4, <1>5

(***************************************************************************)
(* Every namespace can always be reached from the root: createNewSNS comes *)
(* before deleteOldSNS, and the destination is not below the namespace.    *)
(* Were a set of namespaces cut off, the one nearest to the root would be  *)
(* the migrated one, with its destination in the set; but then the part of *)
(* the set on the way to the destination would be cut off, too.            *)
(***************************************************************************)
THEOREM AlwaysRooted == Spec => []StaysRooted
  <1>1. ASSUME MigInv PROVE StaysRooted
    <2>0. Types /\ Begun /\ Place
      BY <1>1, TypesAreTypes DEF MigInv
    <2>1. current \in SNSs /\ to \in Nodes
      BY <2>0 DEF Types, ObjectTypes
    <2>2. SUFFICES ASSUME ~torn, NEW S \in SUBSET SNSs, S # {}
                   PROVE  \E n \in S, p \in Nodes \ S : <<p, n>> \in DOMAIN sns
      BY DEF StaysRooted
    <2>3. /\ HasOld \/ HasNew
          /\ \A n \in SNSs \ {current} : <<Parent(n), n>> \in DOMAIN sns
      BY <2>0, <2>2 DEF Place
    <2>4. PICK n \in S : Parent(n) \in Nodes \ S
      BY <2>2, Nearest
    <2>5. CASE n # current \/ HasOld
      BY <2>3, <2>4, <2>5 DEF HasOld, Old
    <2>6. CASE n = current /\ ~HasOld /\ to \notin S
      BY <2>1, <2>3, <2>6 DEF HasNew
    <2>7. CASE n = current /\ ~HasOld /\ to \in S
      <3> DEFINE W == S \cap Range(DisplayName[to])
      <3>1. to \in W
        BY <2>1, <2>7, OnTheWay
      <3>2. PICK m \in W : Parent(m) \in Nodes \ W
        BY <3>1, Nearest
      <3>3. Parent(m) \in Range(DisplayName[to])
        BY <2>1, ParentOnTheWay
      <3>4. m # current
        <4>1. mh.phase # "absent"
          BY <2>0, <2>7, Names, <2>1 DEF Begun, HasOld, Old
        <4>2. QED
          BY <2>0, <4>1 DEF Begun
      <3>5. QED
        BY <2>3, <3>2, <3>3, <3>4
    <2>8. QED
      BY <2>5, <2>6, <2>7
  <1>2. QED
    BY <1>1, MigrationInvariance, PTL

(***************************************************************************)
(* Complete means that the whole subtree has moved.                        *)
(***************************************************************************)
THEOREM WholeSubtreeMoves == Spec => []MovedAsAWhole
  <1>1. ASSUME MigInv, mh.phase = "Complete", ~torn
        PROVE  Parents = {to} /\ (~lost => label = to /\ annotated = Subtree)
    <2>1. Types /\ Place /\ Walk
      BY <1>1, TypesAreTypes DEF MigInv
    <2>2. /\ HasNew /\ ~HasOld /\ to \in Nodes
          /\ \A p \in Nodes : <<p, current>> \in DOMAIN sns => p \in {Old, to}
      BY <1>1, <2>1 DEF Place, Types, ObjectTypes
    <2>3. Parents = {to}
      BY <2>2 DEF Parents, HasOld, HasNew
    <2>4. QED
      BY <1>1, <2>1, <2>3 DEF Walk
  <1>2. MigInv => MovedAsAWhole
    BY <1>1 DEF MovedAsAWhole
  <1>3. QED
    BY <1>2, MigrationInvariance, PTL

(***************************************************************************)
(* A migration that failed leaves one Subnamespace, the old or the new.    *)
(***************************************************************************)
THEOREM FailureLeavesOne == Spec => []FailedIsInOnePlace
  <1>1. ASSUME MigInv, mh.phase = "Error", worker = Idle, ~torn, ~halfway
        PROVE  Cardinality(Parents) = 1
    <2>1. Types /\ Begun /\ Place
      BY <1>1, TypesAreTypes DEF MigInv
    <2>2. /\ (HasOld \/ HasNew) /\ to # Old /\ to \in Nodes /\ Old \in Nodes
          /\ ~(HasOld /\ HasNew)
          /\ \A p \in Nodes : <<p, current>> \in DOMAIN sns => p \in {Old, to}
      BY <1>1, <2>1, Names DEF Begun, Place, Types, ObjectTypes, Idle, Old
    <2>3. \E p : Parents = {p}
      BY <2>2 DEF Parents, HasOld, HasNew
    <2>4. QED
      BY <2>3, FS_Singleton
  <1>2. MigInv => FailedIsInOnePlace
    BY <1>1 DEF FailedIsInOnePlace
  <1>3. QED
    BY <1>2, MigrationInvariance, PTL

(***************************************************************************)
(* On the way to a namespace there is one subnamespace at each depth.      *)
(***************************************************************************)
LEMMA OnePerDepth ==
    ASSUME NEW p \in Nodes, NEW x \in SNSs, OnPath(x, p)
    PROVE  /\ Depth(x) \in 1..Depth(p)
           /\ \A y \in SNSs : OnPath(y, p) /\ Depth(y) = Depth(x) => y = x
  <1>1. \A y \in SNSs : OnPath(y, p) => /\ Len(DisplayName[y]) \in 1..Len(DisplayName[p])
                                        /\ Len(DisplayName[y]) > 1
                                        /\ DisplayName[p][Len(DisplayName[y])] = y
    BY OnTheWay, MigrationAssumption DEF OnPath
  <1>2. Len(DisplayName[p]) \in Nat
    BY Names
  <1>3. Depth(x) \in 1..Depth(p)
    BY <1>1, <1>2 DEF Depth
  <1>4. ASSUME NEW y \in SNSs, OnPath(y, p), Depth(y) = Depth(x) PROVE y = x
    <2>1. Len(DisplayName[y]) \in Nat /\ Len(DisplayName[x]) \in Nat
      BY <1>1, <1>2, <1>4
    <2>2. Len(DisplayName[y]) = Len(DisplayName[x])
      BY <1>4, <2>1 DEF Depth
    <2>3. QED
      BY <1>1, <1>4, <2>2
  <1>5. QED
    BY <1>3, <1>4

(***************************************************************************)
(* An Updatequota of the migration visits each subnamespace on its way     *)
(* once: downwards to the destination, or upwards from the old parent.     *)
(***************************************************************************)
LEMMA UpqWay ==
    ASSUME current \in SNSs, to \in Nodes, current \notin Range(DisplayName[to]), NEW s \in Nodes,
           (s = Root /\ to # Root) \/ (s = Old /\ s # Root)
    PROVE  /\ Len(UpqPath(s)) = IF s = Root THEN Depth(to) ELSE Depth(Old)
           /\ Len(UpqPath(s)) \in Nat \ {0}
           /\ \A k \in 1..Len(UpqPath(s)) :
                LET n == UpqPath(s)[k] IN
                /\ n \in SNSs \ {current}
                /\ s = Root => OnPath(n, to) /\ Depth(n) = k
                /\ s # Root => OnPath(n, Old) /\ Depth(n) = Depth(Old) + 1 - k
  <1> DEFINE e == IF s = Root THEN to ELSE Old
             D == DisplayName[e]
             L == Len(D)
  <1>1. e \in SNSs /\ e \in Nodes
    BY Names DEF SNSs, Old
  <1>2. D \in Seq(Nodes) /\ L \in Nat /\ L > 1 /\ Depth(e) = L - 1
    BY <1>1, Names, MigrationAssumption DEF Depth
  <1>3. \A i \in 2..L : D[i] \in SNSs /\ D[i] \in Range(D) /\ Depth(D[i]) = i - 1
    <2> SUFFICES ASSUME NEW i \in 2..L PROVE D[i] \in SNSs /\ D[i] \in Range(D) /\ Depth(D[i]) = i - 1
      OBVIOUS
    <2>1. i \in 1..L
      BY <1>2
    <2>2. D[i] \in SNSs
      BY <1>1, OnTheWay
    <2>3. DOMAIN D = 1..L
      BY <1>2
    <2>4. D[i] \in Range(D)
      BY <2>1, <2>3 DEF Range
    <2>5. Len(DisplayName[D[i]]) = i
      BY <1>1, <2>1, Names DEF WellNamed
    <2>6. QED
      BY <2>2, <2>4, <2>5 DEF Depth
  <1>4. current \notin Range(D)
    <2>1. CASE s = Root
      BY <2>1
    <2>2. CASE s # Root
      <3>1. e = Old
        BY <2>2
      <3>2. Depth(current) = Depth(Old) + 1 /\ Depth(Old) \in Nat
        BY <1>1, <3>1, Names DEF Old
      <3>3. OnPath(current, Old) => Depth(current) \in 1..Depth(Old)
        BY <1>1, <3>1, OnePerDepth
      <3>4. QED
        BY <3>1, <3>2, <3>3 DEF OnPath
    <2>3. QED
      BY <2>1, <2>2
  <1> HIDE DEF D, L
  <1>5. /\ Tail(D) \in Seq(Nodes) /\ Len(Tail(D)) = L - 1
        /\ \A i \in 1..(L - 1) : Tail(D)[i] = D[i + 1]
    BY <1>2 DEF L
  <1>6. CASE s = Root
    <2>1. UpqPath(s) = Tail(D) /\ e = to
      BY <1>6 DEF UpqPath, D
    <2>2. ASSUME NEW k \in 1..(L - 1)
          PROVE  Tail(D)[k] \in SNSs \ {current} /\ Tail(D)[k] \in Range(D) /\ Depth(Tail(D)[k]) = k
      <3>1. k + 1 \in 2..L /\ k = (k + 1) - 1 /\ Tail(D)[k] = D[k + 1]
        BY <1>2, <1>5
      <3>2. QED
        BY <1>3, <1>4, <3>1
    <2>3. Range(D) = Range(DisplayName[to])
      BY <2>1 DEF D
    <2>4. QED
      BY <1>2, <1>5, <1>6, <2>1, <2>2, <2>3 DEF OnPath
  <1>7. CASE s # Root
    <2> DEFINE T == Tail(D)
    <2>0. s = Old /\ e = Old
      BY <1>7
    <2>1. UpqPath(s) = Reverse(T)
      BY <1>7, <2>0 DEF UpqPath, D
    <2> HIDE DEF T
    <2>2. T \in Seq(Nodes) /\ Len(T) = L - 1 /\ \A i \in 1..(L - 1) : T[i] = D[i + 1]
      BY <1>5 DEF T
    <2>3. Reverse(T) = [i \in 1..Len(T) |-> T[(Len(T) - i) + 1]]
      BY DEF Reverse
    <2>4. Len(Reverse(T)) = L - 1 /\ \A k \in 1..(L - 1) : Reverse(T)[k] = T[(L - 1 - k) + 1]
      BY <1>2, <2>2, <2>3
    <2>5. ASSUME NEW k \in 1..(L - 1)
          PROVE  Reverse(T)[k] \in SNSs \ {current} /\ Reverse(T)[k] \in Range(D) /\ Depth(Reverse(T)[k]) = (L - 1) + 1 - k
      <3> DEFINE i == (L - 1 - k) + 1
      <3>1. i \in 1..(L - 1) /\ i + 1 \in 2..L /\ (i + 1) - 1 = (L - 1) + 1 - k
        BY <1>2
      <3>2. Reverse(T)[k] = D[i + 1]
        BY <2>2, <2>4, <3>1
      <3> HIDE DEF i
      <3>3. QED
        BY <1>3, <1>4, <3>1, <3>2
    <2>6. Range(D) = Range(DisplayName[Old]) /\ Depth(Old) = L - 1
      BY <1>2, <2>0 DEF D
    <2>7. QED
      BY <1>2, <1>7, <2>1, <2>4, <2>5, <2>6 DEF OnPath
  <1>8. QED
    BY <1>6, <1>7

(***************************************************************************)
(* What has been moved stays so while the two Updatequotas are as far as   *)
(* they were.                                                              *)
(***************************************************************************)
LEMMA MovedKeeps ==
    ASSUME Moved, UNCHANGED <<current, to>>, \A n \in SNSs : hard'[n] = hard[n],
           \A s \in {Root, Old} : /\ upq'[s].k = upq[s].k
                                  /\ upq'[s].phase = "Complete" <=> upq[s].phase = "Complete"
    PROVE  Moved'
  <1>1. Old' = Old
    BY DEF Old
  <1>2. \A n \in SNSs : Given(n)' = Given(n) /\ Taken(n)' = Taken(n)
    BY <1>1 DEF Given, Taken, OnPath, Moving
  <1>3. QED
    BY <1>2 DEF Moved

(***************************************************************************)
(* Steps that leave the quota, the Updatequotas and the count of the       *)
(* raises alone, and how the worker may go on in them.                     *)
(***************************************************************************)
LEMMA QuotaKeeps ==
    ASSUME Types, Begun, QuotaInv, torn => torn', UNCHANGED <<current, to, hard, upq, increases>>,
           mh'.phase = "absent" => mh.phase = "absent",
           ~torn' =>
           /\ HasOld' => HasOld
           /\ worker'.at \in {"create", "delete"} \cup After \/ mh'.phase = "Complete" =>
                \/ worker.at \in {"create", "delete"} \cup After \/ mh.phase = "Complete"
                \/ hard[current] > 0 => upq[Root].phase = "Complete"
           /\ worker'.at \in {"decrease", "complete"} \/ mh'.phase = "Complete" =>
                \/ worker.at \in {"decrease", "complete"} \/ mh.phase = "Complete"
                \/ ~(hard[current] > 0)
           /\ worker'.at \notin {"idle", "increase", "error"} \/ "InProgress" \in {mh'.phase, cached'.phase} =>
                \/ worker.at \notin {"idle", "increase", "error"} \/ "InProgress" \in {mh.phase, cached.phase}
                \/ ~(hard[current] > 0)
           /\ worker'.at \in After \ {"complete"} => HasOld \/ worker.at \in After \ {"complete"}
           /\ worker'.at = "complete" \/ mh'.phase = "Complete" =>
                \/ worker.at = "complete" \/ mh.phase = "Complete"
                \/ ~(hard[current] > 0) /\ worker.at = "add"
    PROVE  QuotaInv'
  <1>0. /\ Old' = Old /\ current \in SNSs /\ Moving \in Nat /\ Moving' = Moving
        /\ Root \in Nodes /\ InitialHard[Root] \in Nat
    BY Names, MigrationAssumption DEF Types, ObjectTypes, Old, Moving
  <1>1. SUFFICES ASSUME ~torn' PROVE (Underway /\ Balance /\ Moved)'
    BY DEF QuotaInv
  <1>2. hard[current] = Moving /\ Issued /\ Awaited /\ Raised /\ AtRoot /\ Moved
    BY <1>1 DEF QuotaInv, Underway, Balance
  <1>3. Moved'
    BY <1>2, MovedKeeps
  <1>4. Issued'
    BY <1>0, <1>2 DEF Issued, UpqPath
  <1>5. Awaited'
    BY <1>0, <1>1, <1>2 DEF Awaited
  <1>6. Raised'
    BY <1>0, <1>1, <1>2 DEF Raised
  <1>7. AtRoot'
    <2>1. increases \in Nat
      BY DEF Types, ObjectTypes
    <2>2. SUFFICES ASSUME increases <= 1
                   PROVE  /\ HasOld' \/ worker'.at \in After \ {"complete"} =>
                                hard[Root] = InitialHard[Root] + (IF increases = 1 THEN Moving ELSE 0)
                          /\ worker'.at = "complete" \/ mh'.phase = "Complete" => hard[Root] = InitialHard[Root]
      BY <1>0 DEF AtRoot
    <2>3. /\ HasOld \/ worker.at \in After \ {"complete"} =>
                hard[Root] = InitialHard[Root] + (IF increases = 1 THEN Moving ELSE 0)
          /\ worker.at = "complete" \/ mh.phase = "Complete" => hard[Root] = InitialHard[Root]
      BY <1>2, <2>2 DEF AtRoot
    <2>4. HasOld' \/ worker'.at \in After \ {"complete"} =>
                hard[Root] = InitialHard[Root] + (IF increases = 1 THEN Moving ELSE 0)
      BY <1>1, <2>3
    <2>5. ASSUME worker'.at = "complete" \/ mh'.phase = "Complete" PROVE hard[Root] = InitialHard[Root]
      <3>1. CASE worker.at = "complete" \/ mh.phase = "Complete"
        BY <2>3, <3>1
      <3>2. CASE Moving = 0 /\ worker.at = "add"
        BY <1>0, <2>3, <3>2 DEF After
      <3>3. QED
        BY <1>0, <1>1, <1>2, <2>5, <3>1, <3>2
    <2>6. QED
      BY <2>4, <2>5
  <1>8. (hard[current] = Moving)'
    BY <1>0, <1>2
  <1>9. QED
    BY <1>3, <1>4, <1>5, <1>6, <1>7, <1>8 DEF Underway, Balance

(***************************************************************************)
(* Creating an Updatequota of the migration: it starts at the beginning of *)
(* its way, or is taken for the one that is there.                         *)
(***************************************************************************)
LEMMA UpqCreated ==
    ASSUME Types, Begun, Issued, mh.phase # "absent", UNCHANGED <<current, to, mh>>,
           NEW s \in Nodes, (s = Root /\ to # Root) \/ (s = Old /\ s # Root), CreateMigrationUPQ(s)
    PROVE  /\ Issued' /\ upq'[s].phase # "absent"
           /\ \A r \in Nodes :
                /\ upq'[r].k = upq[r].k
                /\ upq'[r].phase = "Complete" <=> upq[r].phase = "Complete"
                /\ upq[r].phase # "absent" => upq'[r].phase # "absent"
  <1>0. /\ upq \in [Nodes -> [k : Nat, phase : UpqPhases]] /\ Old' = Old /\ current \in SNSs /\ to \in Nodes
        /\ current \notin Range(DisplayName[to])
    BY DEF Types, ClusterTypes, ObjectTypes, Old, Begun
  <1>1. CASE upq[s].phase # "absent"
    <2>1. upq' = upq
      BY <1>1 DEF CreateMigrationUPQ
    <2>2. Issued'
      BY <1>0, <2>1 DEF Issued, UpqPath
    <2>3. QED
      BY <1>1, <2>1, <2>2
  <1>2. CASE upq[s].phase = "absent"
    <2>1. upq' = [upq EXCEPT ![s].phase = "None"]
      BY <1>2 DEF CreateMigrationUPQ
    <2>2. /\ \A r \in Nodes \ {s} : upq'[r] = upq[r]
          /\ upq'[s].k = upq[s].k /\ upq'[s].phase = "None"
      BY <1>0, <2>1
    <2>3. upq[s].k = 1
      BY <1>2 DEF Issued, NoUpq
    <2>4. Len(UpqPath(s)) \in Nat \ {0}
      BY <1>0, UpqWay
    <2>5. upq'[s].k \in 1..Len(UpqPath(s))
      BY <2>2, <2>3, <2>4
    <2>6. \A r : UpqPath(r)' = UpqPath(r)
      BY DEF UpqPath
    <2>7. Issued'
      BY <1>0, <2>2, <2>5, <2>6 DEF Issued
    <2>8. ASSUME NEW r \in Nodes
          PROVE  /\ upq'[r].k = upq[r].k
                 /\ upq'[r].phase = "Complete" <=> upq[r].phase = "Complete"
                 /\ upq[r].phase # "absent" => upq'[r].phase # "absent"
      <3>1. CASE r = s
        BY <1>2, <2>2, <3>1
      <3>2. CASE r # s
        BY <2>2, <3>2
      <3>3. QED
        BY <3>1, <3>2
    <2>9. upq'[s].phase # "absent"
      BY <2>2
    <2>10. QED
      BY <2>7, <2>8, <2>9
  <1>3. QED
    BY <1>1, <1>2

(***************************************************************************)
(* One write of an Updatequota moves the amount one subnamespace on.       *)
(***************************************************************************)
LEMMA QuotaMoves ==
    ASSUME Types, Begun, hard[current] = Moving, Issued, Moved, UNCHANGED <<current, to>>,
           NEW s \in Nodes, MoveQuota(s)
    PROVE  /\ hard'[Root] = hard[Root] /\ hard'[current] = Moving /\ Issued' /\ Moved'
           /\ \A r \in Nodes :
                /\ upq[r].phase = "Complete" => upq'[r].phase = "Complete"
                /\ upq[r].phase # "absent" => upq'[r].phase # "absent"
  <1> DEFINE k == upq[s].k
             n == UpqPath(s)[k]
             len == Len(UpqPath(s))
  <1>0. /\ upq \in [Nodes -> [k : Nat, phase : UpqPhases]] /\ hard \in [Nodes -> Int] /\ Old' = Old /\ Moving' = Moving
        /\ current \in SNSs /\ to \in Nodes /\ Old \in Nodes /\ Root \in Nodes /\ Root \notin SNSs /\ SNSs \subseteq Nodes
        /\ Moving \in Nat /\ \A m \in SNSs : InitialHard[m] \in Nat /\ hard[m] \in Int
    BY Names, MigrationAssumption DEF Types, ClusterTypes, ObjectTypes, Old, Moving
  <1>1. upq[s].phase = "None" /\ UNCHANGED mh
    BY DEF MoveQuota, object
  <1>2. /\ mh.phase # "absent" /\ k \in 1..len
        /\ (s = Root /\ to # Root) \/ (s = Old /\ s # Root)
    BY <1>1 DEF Issued
  <1>3. current \notin Range(DisplayName[to])
    BY <1>2 DEF Begun
  <1>4. /\ len = IF s = Root THEN Depth(to) ELSE Depth(Old)
        /\ len \in Nat \ {0}
        /\ n \in SNSs \ {current}
        /\ s = Root => OnPath(n, to) /\ Depth(n) = k
        /\ s # Root => OnPath(n, Old) /\ Depth(n) = Depth(Old) + 1 - k
    BY <1>0, <1>2, <1>3, UpqWay
  <1>5. \A r : UpqPath(r)' = UpqPath(r)
    BY DEF UpqPath
  <1>6. CASE UNCHANGED hard /\ upq' = [upq EXCEPT ![s].phase = "Error"]
    <2>1. /\ \A r \in Nodes \ {s} : upq'[r] = upq[r]
          /\ upq'[s].k = upq[s].k /\ upq'[s].phase = "Error"
      BY <1>0, <1>6
    <2>2. Issued'
      BY <1>0, <1>1, <1>2, <1>5, <2>1 DEF Issued
    <2>3. Moved'
      BY <1>0, <1>1, <1>6, <2>1, MovedKeeps
    <2>4. QED
      BY <1>0, <1>1, <1>6, <2>1, <2>2, <2>3
  <1>7. CASE /\ hard' = [hard EXCEPT ![n] = @ + Amount(s)]
             /\ upq' = IF k = len THEN [upq EXCEPT ![s].phase = "Complete"] ELSE [upq EXCEPT ![s].k = @ + 1]
    <2> HIDE DEF n, k, len
    <2>1. /\ Amount(s) \in Int /\ \A m \in Nodes \ {n} : hard'[m] = hard[m]
          /\ hard'[n] = hard[n] + Amount(s) /\ Amount(s) = IF s = Root THEN Moving ELSE 0 - Moving
      BY <1>0, <1>4, <1>7 DEF Amount
    <2>2. /\ \A r \in Nodes \ {s} : upq'[r] = upq[r]
          /\ \/ k = len /\ upq'[s].phase = "Complete" /\ upq'[s].k = k
             \/ k # len /\ upq'[s].phase = "None" /\ upq'[s].k = k + 1
      <3>1. CASE k = len
        BY <1>0, <1>7, <3>1 DEF k
      <3>2. CASE k # len
        BY <1>0, <1>1, <1>7, <3>2 DEF k
      <3>3. QED
        BY <3>1, <3>2
    <2>3. hard'[Root] = hard[Root] /\ hard'[current] = Moving
      BY <1>0, <1>4, <2>1
    <2>4. Issued'
      <3>1. upq'[s].k \in 1..len /\ upq'[s].phase # "absent"
        BY <1>2, <1>4, <2>2
      <3>2. QED
        BY <1>0, <1>1, <1>2, <1>5, <2>2, <3>1 DEF Issued, len
    <2>5. Moved'
      <3> SUFFICES ASSUME NEW m \in SNSs \ {current}
                   PROVE  hard'[m] = InitialHard[m] + Given(m)' - Taken(m)'
        BY <1>0 DEF Moved
      <3>0. /\ hard[m] = InitialHard[m] + Given(m) - Taken(m)
            /\ Given(m) \in {0, Moving} /\ Taken(m) \in {0, Moving} /\ hard[m] \in Int /\ InitialHard[m] \in Nat
            /\ Depth(m) \in Int /\ Depth(Old) \in Int /\ Depth(to) \in Int
        BY <1>0, Names DEF Moved, Given, Taken
      <3>1. CASE s = Root
        <4>1. Taken(m)' = Taken(m)
          BY <1>0, <2>2, <3>1 DEF Taken, OnPath
        <4>2. Given(m)' = Given(m) + IF m = n THEN Moving ELSE 0
          <5>1. OnPath(m, to) => Depth(m) <= len /\ (Depth(m) = k => m = n)
            BY <1>0, <1>4, <3>1, OnePerDepth
          <5>2. Given(m)' = IF OnPath(m, to) /\ (upq'[s].phase = "Complete" \/ Depth(m) < upq'[s].k) THEN Moving ELSE 0
            BY <1>0, <3>1 DEF Given, OnPath
          <5>3. Given(m) = IF OnPath(m, to) /\ Depth(m) < k THEN Moving ELSE 0
            BY <1>1, <3>1 DEF Given, k
          <5>4. k \in Int /\ len \in Int /\ k <= len
            BY <1>2, <1>4
          <5>5. CASE m = n
            BY <1>0, <1>4, <2>2, <3>0, <3>1, <5>2, <5>3, <5>4, <5>5
          <5>6. CASE m # n
            <6>1. CASE ~OnPath(m, to)
              BY <1>0, <5>2, <5>3, <5>6, <6>1
            <6>2. CASE OnPath(m, to)
              <7>1. Depth(m) # k /\ Depth(m) <= len
                BY <5>1, <5>6, <6>2
              <7>2. Depth(m) < k <=> (upq'[s].phase = "Complete" \/ Depth(m) < upq'[s].k)
                BY <2>2, <3>0, <5>4, <7>1
              <7>3. QED
                BY <1>0, <5>2, <5>3, <5>6, <6>2, <7>2
            <6>3. QED
              BY <6>1, <6>2
          <5>7. QED
            BY <5>5, <5>6
        <4>3. hard'[m] = hard[m] + IF m = n THEN Moving ELSE 0
          BY <1>0, <2>1, <3>1
        <4>4. QED
          BY <1>0, <3>0, <4>1, <4>2, <4>3
      <3>2. CASE s # Root
        <4>0. s = Old /\ Old # Root
          BY <1>2, <3>2
        <4>1. Given(m)' = Given(m)
          BY <1>0, <2>2, <3>2 DEF Given, OnPath
        <4>2. Taken(m)' = Taken(m) + IF m = n THEN Moving ELSE 0
          <5>1. OnPath(m, Old) => Depth(m) >= 1 /\ (Depth(m) = Depth(Old) + 1 - k => m = n)
            BY <1>0, <1>4, <3>2, OnePerDepth
          <5>2. Taken(m)' = IF OnPath(m, Old) /\ (upq'[s].phase = "Complete" \/ Depth(m) > Depth(Old) + 1 - upq'[s].k)
                            THEN Moving ELSE 0
            BY <1>0, <4>0 DEF Taken, OnPath
          <5>3. Taken(m) = IF OnPath(m, Old) /\ Depth(m) > Depth(Old) + 1 - k THEN Moving ELSE 0
            BY <1>1, <4>0 DEF Taken, k
          <5>4. k \in Int /\ len \in Int /\ k <= len /\ len = Depth(Old)
            BY <1>2, <1>4, <3>2
          <5>5. CASE m = n
            <6>1. OnPath(m, Old) /\ Depth(m) = Depth(Old) + 1 - k
              BY <1>4, <3>2, <5>5
            <6>2. upq'[s].phase = "Complete" \/ Depth(m) > Depth(Old) + 1 - upq'[s].k
              BY <2>2, <3>0, <5>4, <6>1
            <6>3. ~(Depth(m) > Depth(Old) + 1 - k)
              BY <3>0, <5>4, <6>1
            <6>4. QED
              BY <1>0, <5>2, <5>3, <5>5, <6>1, <6>2, <6>3
          <5>6. CASE m # n
            <6>1. CASE ~OnPath(m, Old)
              BY <1>0, <5>2, <5>3, <5>6, <6>1
            <6>2. CASE OnPath(m, Old)
              <7>1. Depth(m) # Depth(Old) + 1 - k /\ Depth(m) >= 1
                BY <5>1, <5>6, <6>2
              <7>2. Depth(m) > Depth(Old) + 1 - k
                    <=> (upq'[s].phase = "Complete" \/ Depth(m) > Depth(Old) + 1 - upq'[s].k)
                BY <2>2, <3>0, <5>4, <7>1
              <7>3. QED
                BY <1>0, <5>2, <5>3, <5>6, <6>2, <7>2
            <6>3. QED
              BY <6>1, <6>2
          <5>7. QED
            BY <5>5, <5>6
        <4>3. hard'[m] = hard[m] - IF m = n THEN Moving ELSE 0
          BY <1>0, <2>1, <3>0, <3>2
        <4>4. QED
          BY <1>0, <3>0, <4>1, <4>2, <4>3
      <3>3. QED
        BY <3>1, <3>2
    <2>6. QED
      BY <1>1, <2>2, <2>3, <2>4, <2>5
  <1>8. QED
    BY <1>6, <1>7 DEF MoveQuota
(***************************************************************************)
(* The old Subnamespace never comes back, and what tore the account stays. *)
(***************************************************************************)
LEMMA OldNeverBack ==
    ASSUME Types, Begun, [Next]_vars
    PROVE  (HasOld' => HasOld) /\ (torn => torn')
  <1> USE DEF object, cluster, bounds, history
  <1>0. UNCHANGED <<current, to>> /\ Old' = Old
    BY ObjectStays DEF Old
  <1>1. ASSUME DOMAIN sns' \subseteq DOMAIN sns, torn => torn' PROVE (HasOld' => HasOld) /\ (torn => torn')
    BY <1>0, <1>1 DEF HasOld
  <1>2. CASE CreateMH \/ TouchMH \/ Watch
    BY <1>1, <1>2 DEF CreateMH, TouchMH, Watch
  <1>3. CASE Reconcile
    BY <1>1, <1>3, PassBegins DEF Reconcile, Types, HistoryTypes
  <1>4. CASE IncreaseRootResources \/ CreateFirstUPQ \/ UpdateInProgress \/ MonitorMigrationUPQ
    BY <1>1, <1>4 DEF IncreaseRootResources, CreateFirstUPQ, UpdateInProgress, MonitorMigrationUPQ
  <1>5. CASE CreateNewSNS \/ CreateNewSNSFails
    <2>1. worker.at = "create" /\ DOMAIN sns' \subseteq DOMAIN sns \cup {<<to, current>>} /\ (torn => torn')
      BY <1>5, NewDomain DEF CreateNewSNS, CreateNewSNSFails
    <2>2. to # Old
      BY <2>1 DEF Begun
    <2>3. QED
      BY <1>0, <2>1, <2>2 DEF HasOld
  <1>6. CASE DeleteOldSNS \/ DeleteOldSNSFails
    <2>1. \A P : DOMAIN WithoutSNS(P) \subseteq DOMAIN sns
      BY DEF WithoutSNS, Restrict
    <2>2. DOMAIN sns' \subseteq DOMAIN sns /\ (torn => torn')
      BY <1>6, <2>1 DEF DeleteOldSNS, DeleteOldSNSFails
    <2>3. QED
      BY <1>1, <2>2
  <1>7. CASE AppendAnnotations \/ AppendLabels \/ UpdateCRQSelector \/ LookUpKeys \/ RemoveFromOldKey \/ AddToNewKey
    BY <1>1, <1>7 DEF AppendAnnotations, AppendLabels, UpdateCRQSelector, LookUpKeys, RemoveFromOldKey, AddToNewKey
  <1>8. CASE CreateSecondUPQ \/ DecreaseRootResources \/ UpdateComplete \/ UpdateError
    BY <1>1, <1>8 DEF CreateSecondUPQ, DecreaseRootResources, UpdateComplete, UpdateError
  <1>9. CASE Fail \/ Restart
    BY <1>1, <1>9 DEF Fail, Restart
  <1>10. ASSUME NEW s \in Nodes, MoveQuota(s) PROVE (HasOld' => HasOld) /\ (torn => torn')
    BY <1>1, <1>10 DEF MoveQuota
  <1>11. ASSUME NEW x \in DOMAIN sns, InitMigrated(x[1], x[2]) \/ SyncSNS(x[1], x[2])
         PROVE  (HasOld' => HasOld) /\ (torn => torn')
    BY <1>1, <1>11 DEF InitMigrated, SyncSNS
  <1>12. CASE UNCHANGED vars
    BY <1>1, <1>12 DEF vars
  <1>13. QED
    BY <1>2, <1>3, <1>4, <1>5, <1>6, <1>7, <1>8, <1>9, <1>10, <1>11, <1>12 DEF Next, Work, Subnamespaces

(***************************************************************************)
(* A step of the Updatequotas: one is created, one write is made, or one   *)
(* fails.  The root keeps what it has.                                     *)
(***************************************************************************)
LEMMA UpqGoesOn ==
    ASSUME Types, QuotaInv, ~torn, UNCHANGED <<current, to, mh, cached, sns, increases>>,
           hard'[Root] = hard[Root], hard'[current] = Moving, Issued', Moved',
           \A r \in Nodes :
             /\ upq[r].phase = "Complete" => upq'[r].phase = "Complete"
             /\ upq[r].phase # "absent" => upq'[r].phase # "absent",
           \/ worker' = worker
           \/ worker.at = "upq" /\ worker'.at = "inprogress"
           \/ worker.at = "upqBack" /\ worker'.at = "decrease" /\ upq'[Old].phase # "absent"
    PROVE  QuotaInv'
  <1>0. /\ Old' = Old /\ Moving' = Moving /\ HasOld' = HasOld
        /\ Root \in Nodes /\ Old \in Nodes
    BY Names, MigrationAssumption DEF Types, ObjectTypes, Old, Moving, HasOld
  <1>1. Awaited /\ Raised /\ AtRoot
    BY DEF QuotaInv, Underway, Balance
  <1>2. Awaited'
    BY <1>0, <1>1 DEF Awaited, After, Walking
  <1>3. Raised'
    BY <1>0, <1>1 DEF Raised
  <1>4. AtRoot'
    BY <1>0, <1>1 DEF AtRoot, After, Walking
  <1>5. QED
    BY <1>0, <1>2, <1>3, <1>4 DEF QuotaInv, Underway, Balance
(***************************************************************************)
(* Every step keeps the account of the quota: the root is raised before a  *)
(* pass gets anywhere, the first Updatequota is Complete before anything   *)
(* is created, the second one is there before the root is lowered.         *)
(***************************************************************************)
LEMMA QuotaStep == ASSUME Types, Begun, Place, QuotaInv, [Next]_vars PROVE QuotaInv'
  <1> USE DEF object, cluster, bounds, history
  <1>0. /\ UNCHANGED <<current, to>> /\ (mh'.phase = "absent" => mh.phase = "absent")
        /\ (HasOld' => HasOld) /\ (torn => torn') /\ Old' = Old /\ Moving' = Moving
    BY ObjectStays, OldNeverBack DEF Old, Moving
  <1>w. WorkerTypes /\ worker \in Workers /\ mh \in Objects /\ cached \in Objects
    BY DEF Types, WorkerTypes, ObjectTypes
  <1>h. /\ current \in SNSs /\ to \in Nodes /\ Old \in Nodes /\ Root \in Nodes /\ Root \notin SNSs /\ current # Root
        /\ SNSs \subseteq Nodes /\ hard \in [Nodes -> Int] /\ increases \in Nat /\ torn \in BOOLEAN
        /\ upq \in [Nodes -> [k : Nat, phase : UpqPhases]]
        /\ Moving \in Nat /\ InitialHard[Root] \in Nat
    BY Names, MigrationAssumption DEF Types, ObjectTypes, ClusterTypes, HistoryTypes, Old, Moving
  <1>a. ASSUME ~torn
        PROVE  /\ hard[current] = Moving /\ Issued /\ Awaited /\ Raised /\ AtRoot /\ Moved
               /\ worker.at \notin {"idle", "error"} => worker.src = Old
               /\ worker.at \in Early \cup {"delete"} => HasOld
               /\ worker.at \in After => ~HasOld
               /\ mh.phase = "Complete" => worker.at \in {"idle", "error"}
    BY <1>a DEF QuotaInv, Underway, Balance, Place
  <1>1. CASE CreateMH
    <2>1. worker.at = "idle" /\ cached.phase = "absent" /\ mh'.phase = "None"
      BY <1>1 DEF CreateMH, Begun
    <2>2. QED
      BY <1>0, <1>1, <2>1, QuotaKeeps DEF CreateMH, After, Walking
  <1>2. CASE TouchMH
    <2>1. mh'.phase = mh.phase
      BY <1>2, <1>w DEF TouchMH, Objects
    <2>2. QED
      BY <1>0, <1>2, <2>1, QuotaKeeps DEF TouchMH
  <1>3. CASE Watch
    BY <1>0, <1>3, QuotaKeeps DEF Watch
  <1>4. CASE Reconcile
    <2>1. UNCHANGED <<mh, cached, hard, upq, increases>>
      BY <1>4 DEF Reconcile
    <2>2. CASE UNCHANGED <<worker, torn>>
      BY <1>0, <2>1, <2>2, QuotaKeeps
    <2>3. CASE ~UNCHANGED <<worker, torn>>
      <3>1. PICK at \in {"error", "monitor", "increase", "inprogress"} :
              Begin(at) /\ (at = "monitor" => cached.phase # "None") /\ (at = "inprogress" => ~QuotaObjExists)
        BY <1>4, <2>3, PassBegins
      <3>2. worker'.at = at
        BY <3>1 DEF Begin, Idle
      <3>3. cached.phase \in {"None", "InProgress"}
        BY <1>4, <1>w, <2>3, PassBegins DEF ShouldReconcile, Objects, Phases
      <3>4. at = "monitor" => cached.phase = "InProgress"
        BY <3>1, <3>3
      <3>5. QED
        BY <1>0, <2>1, <3>1, <3>2, <3>4, QuotaKeeps DEF After, Walking, QuotaObjExists
    <2>4. QED
      BY <2>2, <2>3
  <1>5. CASE IncreaseRootResources
    <2>1. /\ UNCHANGED <<mh, cached, sns, upq, torn>> /\ worker.at = "increase" /\ worker'.at = "upq"
          /\ increases' = increases + 1 /\ hard' = [hard EXCEPT ![Root] = @ + hard[current]]
      BY <1>5, <1>w, WorkerRecord DEF IncreaseRootResources
    <2>2. hard'[Root] = hard[Root] + hard[current] /\ \A n \in SNSs : hard'[n] = hard[n]
      BY <1>h, <2>1
    <2>3. SUFFICES ASSUME ~torn PROVE (Underway /\ Balance /\ Moved)'
      BY <2>1 DEF QuotaInv
    <2>4. hard'[current] = Moving
      BY <1>a, <1>h, <2>2, <2>3
    <2>5. Issued'
      BY <1>0, <1>a, <2>1, <2>3 DEF Issued, UpqPath
    <2>6. Awaited'
      BY <1>0, <1>a, <2>1, <2>3 DEF Awaited, After, Walking
    <2>7. Raised'
      BY <1>h, <2>1 DEF Raised
    <2>8. AtRoot'
      <3>1. mh.phase # "Complete" /\ HasOld /\ hard[current] = Moving
        BY <1>a, <2>1, <2>3 DEF Early
      <3>2. ASSUME increases' <= 1 PROVE hard'[Root] = InitialHard[Root] + Moving /\ increases' = 1
        <4>1. increases = 0
          BY <1>h, <2>1, <3>2
        <4>2. hard[Root] = InitialHard[Root] + 0
          BY <1>a, <2>3, <3>1, <4>1 DEF AtRoot
        <4>3. QED
          BY <1>h, <2>1, <2>2, <3>1, <4>1, <4>2
      <3>3. mh'.phase # "Complete" /\ worker'.at # "complete"
        BY <2>1, <3>1
      <3>4. QED
        BY <1>0, <3>2, <3>3 DEF AtRoot
    <2>9. Moved'
      <3>1. \A s \in {Root, Old} : upq'[s].k = upq[s].k /\ (upq'[s].phase = "Complete" <=> upq[s].phase = "Complete")
        BY <2>1
      <3>2. QED
        BY <1>0, <1>a, <2>2, <2>3, <3>1, MovedKeeps
    <2>10. QED
      BY <1>0, <2>4, <2>5, <2>6, <2>7, <2>8, <2>9 DEF Underway, Balance
  <1>6. CASE CreateFirstUPQ
    <2>1. worker.at = "upq" /\ UNCHANGED <<mh, cached, sns, hard, torn, increases>>
      BY <1>6 DEF CreateFirstUPQ
    <2>2. CASE to = Root
      BY <1>0, <1>6, <1>w, <2>1, <2>2, WorkerRecord, QuotaKeeps DEF CreateFirstUPQ, After, Walking
    <2>3. CASE to # Root
      <3>1. worker'.at = "inprogress" /\ CreateMigrationUPQ(Root)
        BY <1>6, <1>w, <2>3, WorkerRecord DEF CreateFirstUPQ
      <3>2. SUFFICES ASSUME ~torn PROVE QuotaInv'
        BY <2>1 DEF QuotaInv
      <3>3. mh.phase # "absent"
        BY <2>1 DEF Begun
      <3>4. /\ Issued'
            /\ \A r \in Nodes :
                /\ upq'[r].k = upq[r].k
                /\ upq'[r].phase = "Complete" <=> upq[r].phase = "Complete"
                /\ upq[r].phase # "absent" => upq'[r].phase # "absent"
        BY <1>0, <1>a, <1>h, <2>1, <2>3, <3>1, <3>2, <3>3, UpqCreated
      <3>5. Moved'
        BY <1>0, <1>a, <1>h, <2>1, <3>2, <3>4, MovedKeeps
      <3>6. hard'[Root] = hard[Root] /\ hard'[current] = Moving
        BY <1>a, <2>1, <3>2
      <3>7. QED
        BY <1>0, <2>1, <3>1, <3>2, <3>4, <3>5, <3>6, UpqGoesOn
    <2>4. QED
      BY <2>2, <2>3
  <1>7. CASE UpdateInProgress
    <2>1. /\ worker.at = "inprogress" /\ worker'.at = "monitor" /\ UNCHANGED <<cached, hard, upq, increases>>
          /\ mh' = mh \/ mh'.phase = "InProgress"
      BY <1>7, <1>w DEF UpdateInProgress, UpdateMHStatus, Workers
    <2>2. mh'.phase = mh.phase \/ mh'.phase = "InProgress"
      BY <2>1
    <2>3. QED
      BY <1>0, <2>1, <2>2, QuotaKeeps DEF After, Walking
  <1>8. CASE MonitorMigrationUPQ
    <2>1. /\ worker.at = "monitor" /\ UNCHANGED <<mh, cached, hard, upq, increases>>
          /\ \/ (QuotaObjExists => upq[Root].phase = "Complete") /\ worker'.at = "create"
             \/ worker'.at \in {"idle", "error"}
      BY <1>8, <1>w, WorkerRecord DEF MonitorMigrationUPQ, Idle
    <2>2. QED
      BY <1>0, <2>1, QuotaKeeps DEF QuotaObjExists, After, Walking
  <1>9. CASE CreateNewSNS
    <2>1. worker.at = "create" /\ worker'.at \in {"delete", "error"} /\ UNCHANGED <<mh, cached, hard, upq, increases>>
      BY <1>9, <1>w, WorkerRecord DEF CreateNewSNS
    <2>2. QED
      BY <1>0, <2>1, QuotaKeeps DEF After, Walking
  <1>10. CASE DeleteOldSNS
    <2>1. worker.at = "delete" /\ worker'.at = "annotations" /\ UNCHANGED <<mh, cached, hard, upq, increases, torn>>
      BY <1>10, <1>w DEF DeleteOldSNS, Workers
    <2>2. ~torn => HasOld
      BY <1>a, <2>1
    <2>3. QED
      BY <1>0, <2>1, <2>2, QuotaKeeps DEF After, Walking
  <1>11. CASE AppendAnnotations
    <2>1. /\ worker.at = "annotations" /\ worker'.at \in {"labels", "selector"}
          /\ UNCHANGED <<mh, cached, hard, upq, increases>>
      BY <1>11, <1>w, WorkerRecord DEF AppendAnnotations
    <2>2. QED
      BY <1>0, <2>1, QuotaKeeps DEF After, Walking
  <1>12. CASE AppendLabels
    <2>1. worker.at = "labels" /\ worker'.at = "selector" /\ UNCHANGED <<mh, cached, hard, upq, increases>>
      BY <1>12, <1>w, WorkerRecord DEF AppendLabels
    <2>2. QED
      BY <1>0, <2>1, QuotaKeeps DEF After, Walking
  <1>13. CASE UpdateCRQSelector
    <2>1. /\ worker.at = "selector" /\ worker'.at \in {"annotations", "keys"}
          /\ UNCHANGED <<mh, cached, hard, upq, increases>>
      BY <1>13, <1>w, WorkerRecord DEF UpdateCRQSelector
    <2>2. QED
      BY <1>0, <2>1, QuotaKeeps DEF After, Walking
  <1>14. CASE LookUpKeys
    <2>1. worker.at = "keys" /\ worker'.at = "remove" /\ UNCHANGED <<mh, cached, hard, upq, increases>>
      BY <1>14, <1>w DEF LookUpKeys, Workers
    <2>2. QED
      BY <1>0, <2>1, QuotaKeeps DEF After, Walking
  <1>15. CASE RemoveFromOldKey
    <2>1. worker.at = "remove" /\ worker'.at \in {"add", "error"} /\ UNCHANGED <<mh, cached, hard, upq, increases>>
      BY <1>15, <1>w, WorkerRecord DEF RemoveFromOldKey
    <2>2. QED
      BY <1>0, <2>1, QuotaKeeps DEF After, Walking
  <1>16. CASE AddToNewKey
    <2>1. UNCHANGED <<mh, cached, hard, upq, increases>>
      BY <1>16 DEF AddToNewKey
    <2>2. /\ worker.at = "add" /\ worker'.at \in {"remove", "upqBack", "complete"}
          /\ worker'.at = "complete" => ~(hard[current] > 0)
      <3>1. NextNode("remove", IF QuotaObjExists THEN "upqBack" ELSE "complete")
        BY <1>16 DEF AddToNewKey
      <3>2. worker'.at \in {"remove", IF QuotaObjExists THEN "upqBack" ELSE "complete"}
        BY <1>w, <3>1, WorkerRecord
      <3>3. QED
        BY <1>16, <3>2 DEF AddToNewKey, QuotaObjExists
    <2>3. QED
      BY <1>0, <2>1, <2>2, QuotaKeeps DEF After, Walking
  <1>17. CASE CreateSecondUPQ
    <2>1. /\ worker.at = "upqBack" /\ worker'.at = "decrease" /\ CreateMigrationUPQ(worker.src)
          /\ UNCHANGED <<mh, cached, sns, hard, torn, increases>>
      BY <1>17, <1>w, WorkerRecord DEF CreateSecondUPQ
    <2>2. SUFFICES ASSUME ~torn PROVE QuotaInv'
      BY <2>1 DEF QuotaInv
    <2>3. mh.phase # "absent" /\ to # Old
      BY <2>1 DEF Begun
    <2>4. worker.src = Old
      BY <1>a, <2>1, <2>2
    <2>5. (Old = Root /\ to # Root) \/ (Old = Old /\ Old # Root)
      BY <2>3
    <2>6. /\ Issued' /\ upq'[Old].phase # "absent"
          /\ \A r \in Nodes :
                /\ upq'[r].k = upq[r].k
                /\ upq'[r].phase = "Complete" <=> upq[r].phase = "Complete"
                /\ upq[r].phase # "absent" => upq'[r].phase # "absent"
      BY <1>0, <1>a, <1>h, <2>1, <2>2, <2>3, <2>4, <2>5, UpqCreated
    <2>7. Moved'
      BY <1>0, <1>a, <1>h, <2>1, <2>2, <2>6, MovedKeeps
    <2>8. hard'[Root] = hard[Root] /\ hard'[current] = Moving
      BY <1>a, <2>1, <2>2
    <2>9. QED
      BY <1>0, <2>1, <2>2, <2>6, <2>7, <2>8, UpqGoesOn
  <1>18. CASE DecreaseRootResources
    <2>1. /\ UNCHANGED <<mh, cached, sns, upq, torn, increases>> /\ worker.at = "decrease" /\ worker'.at = "complete"
          /\ hard' = [hard EXCEPT ![Root] = @ - hard[current]]
      BY <1>18, <1>w, WorkerRecord DEF DecreaseRootResources
    <2>2. hard'[Root] = hard[Root] - hard[current] /\ \A n \in SNSs : hard'[n] = hard[n]
      BY <1>h, <2>1
    <2>3. SUFFICES ASSUME ~torn PROVE (Underway /\ Balance /\ Moved)'
      BY <2>1 DEF QuotaInv
    <2>4. hard'[current] = Moving
      BY <1>a, <1>h, <2>2, <2>3
    <2>5. Issued'
      BY <1>0, <1>a, <2>1, <2>3 DEF Issued, UpqPath
    <2>6. Awaited'
      BY <1>0, <1>a, <2>1, <2>3 DEF Awaited, After
    <2>7. Raised'
      BY <1>0, <1>a, <2>1, <2>3 DEF Raised
    <2>8. AtRoot'
      <3>1. mh.phase # "Complete" /\ ~HasOld /\ hard[current] = Moving
        BY <1>a, <2>1, <2>3 DEF After
      <3>2. ASSUME increases' <= 1 PROVE hard'[Root] = InitialHard[Root]
        <4>1. Moving > 0 => increases = 1
          BY <1>a, <1>h, <2>1, <2>3, <3>2 DEF Raised
        <4>2. hard[Root] = InitialHard[Root] + (IF increases = 1 THEN Moving ELSE 0)
          BY <1>a, <2>1, <2>3, <3>2 DEF AtRoot, After
        <4>3. hard[Root] = InitialHard[Root] + Moving
          BY <1>h, <4>1, <4>2
        <4>4. QED
          BY <1>h, <2>2, <3>1, <4>3
      <3>3. ~HasOld' /\ worker'.at = "complete"
        BY <1>0, <2>1, <3>1
      <3>4. QED
        BY <1>0, <3>2, <3>3 DEF AtRoot
    <2>9. Moved'
      <3>1. \A s \in {Root, Old} : upq'[s].k = upq[s].k /\ (upq'[s].phase = "Complete" <=> upq[s].phase = "Complete")
        BY <2>1
      <3>2. QED
        BY <1>0, <1>a, <2>2, <2>3, <3>1, MovedKeeps
    <2>10. QED
      BY <1>0, <2>4, <2>5, <2>6, <2>7, <2>8, <2>9 DEF Underway, Balance
  <1>19. CASE UpdateComplete
    <2>1. /\ worker.at = "complete" /\ worker'.at = "idle" /\ UNCHANGED <<cached, hard, upq, increases>>
          /\ mh' = mh \/ mh'.phase = "Complete"
      BY <1>19 DEF UpdateComplete, UpdateMHStatus, Idle
    <2>2. mh'.phase = mh.phase \/ mh'.phase = "Complete"
      BY <2>1
    <2>3. QED
      BY <1>0, <2>1, <2>2, QuotaKeeps DEF After, Walking
  <1>20. CASE UpdateError
    <2>1. /\ worker.at = "error" /\ worker'.at = "idle" /\ UNCHANGED <<cached, hard, upq, increases>>
          /\ mh' = mh \/ mh'.phase = "Error"
      BY <1>20 DEF UpdateError, UpdateMHStatus, Idle
    <2>2. mh'.phase = mh.phase \/ mh'.phase = "Error"
      BY <2>1
    <2>3. QED
      BY <1>0, <2>1, <2>2, QuotaKeeps DEF After, Walking
  <1>21. CASE CreateNewSNSFails
    BY <1>21 DEF CreateNewSNSFails, QuotaInv
  <1>22. CASE DeleteOldSNSFails
    <2>1. worker.at = "delete" /\ worker'.at = "error" /\ UNCHANGED <<mh, cached, hard, upq, increases>>
      BY <1>22, <1>w, WorkerRecord DEF DeleteOldSNSFails
    <2>2. QED
      BY <1>0, <2>1, QuotaKeeps DEF After, Walking
  <1>23. CASE Fail
    <2>1. UNCHANGED <<mh, cached, sns, hard, torn, increases>>
      BY <1>23 DEF Fail
    <2>2. CASE UNCHANGED upq
      <3>1. worker'.at \in {"idle", "error"} \/ UNCHANGED worker
        BY <1>23, <1>w, WorkerRecord DEF Fail, Idle
      <3>2. QED
        BY <1>0, <2>1, <2>2, <3>1, QuotaKeeps DEF After, Walking
    <2>3. CASE ~UNCHANGED upq
      <3>1. PICK s \in Nodes : upq[s].phase = "None" /\ upq' = [upq EXCEPT ![s].phase = "Error"] /\ UNCHANGED worker
        BY <1>23, <2>3 DEF Fail
      <3>2. /\ \A r \in Nodes \ {s} : upq'[r] = upq[r]
            /\ upq'[s].k = upq[s].k /\ upq'[s].phase = "Error" /\ upq[s].phase = "None"
        BY <1>h, <3>1
      <3>3. ASSUME NEW r \in Nodes
            PROVE  /\ upq'[r].k = upq[r].k
                   /\ upq'[r].phase = "Complete" <=> upq[r].phase = "Complete"
                   /\ upq[r].phase = "Complete" => upq'[r].phase = "Complete"
                   /\ upq[r].phase # "absent" => upq'[r].phase # "absent"
        BY <3>2
      <3>4. SUFFICES ASSUME ~torn PROVE QuotaInv'
        BY <2>1 DEF QuotaInv
      <3>5. Moved'
        BY <1>0, <1>a, <1>h, <2>1, <3>3, <3>4, MovedKeeps
      <3>6. Issued'
        <4>1. \A r : UpqPath(r)' = UpqPath(r)
          BY <1>0 DEF UpqPath
        <4>2. QED
          BY <1>0, <1>a, <2>1, <3>2, <3>4, <4>1 DEF Issued
      <3>7. hard'[Root] = hard[Root] /\ hard'[current] = Moving
        BY <1>a, <2>1, <3>4
      <3>8. QED
        BY <1>0, <2>1, <3>1, <3>3, <3>4, <3>5, <3>6, <3>7, UpqGoesOn
    <2>4. QED
      BY <2>2, <2>3
  <1>24. CASE Restart
    BY <1>0, <1>24, QuotaKeeps DEF Restart, Idle, After, Walking
  <1>25. ASSUME NEW s \in Nodes, MoveQuota(s) PROVE QuotaInv'
    <2>1. UNCHANGED <<mh, cached, worker, sns, torn, increases>>
      BY <1>25 DEF MoveQuota
    <2>2. SUFFICES ASSUME ~torn PROVE QuotaInv'
      BY <2>1 DEF QuotaInv
    <2>3. /\ hard'[Root] = hard[Root] /\ hard'[current] = Moving /\ Issued' /\ Moved'
          /\ \A r \in Nodes :
                /\ upq[r].phase = "Complete" => upq'[r].phase = "Complete"
                /\ upq[r].phase # "absent" => upq'[r].phase # "absent"
      BY <1>0, <1>25, <1>a, <2>2, QuotaMoves
    <2>4. QED
      BY <1>0, <2>1, <2>2, <2>3, UpqGoesOn
  <1>26. ASSUME NEW x \in DOMAIN sns, InitMigrated(x[1], x[2]) \/ SyncSNS(x[1], x[2]) PROVE QuotaInv'
    BY <1>0, <1>26, QuotaKeeps DEF InitMigrated, SyncSNS
  <1>27. CASE UNCHANGED vars
    BY <1>0, <1>27, QuotaKeeps DEF vars
  <1>28. QED
    BY <1>1, <1>2, <1>3, <1>4, <1>5, <1>6, <1>7, <1>8, <1>9, <1>10, <1>11, <1>12, <1>13, <1>14, <1>15, <1>16, <1>17,
       <1>18, <1>19, <1>20, <1>21, <1>22, <1>23, <1>24, <1>25, <1>26, <1>27 DEF Next, Work, Subnamespaces
(***************************************************************************)
(* The account holds at the start.                                         *)
(***************************************************************************)
LEMMA InitQuotaInv == Init => QuotaInv
  <1> SUFFICES ASSUME Init PROVE QuotaInv
    OBVIOUS
  <1>1. /\ current \in SNSs /\ to \in Nodes /\ Old \in Nodes /\ Root \in Nodes /\ SNSs \subseteq Nodes
        /\ Moving \in Nat /\ \A n \in Nodes : InitialHard[n] \in Nat
    BY Names, MigrationAssumption DEF Init, Old, Moving
  <1>2. /\ hard = InitialHard /\ increases = 0 /\ mh.phase = "absent" /\ cached.phase = "absent" /\ worker.at = "idle"
        /\ \A n \in Nodes : upq[n] = NoUpq
    BY DEF Init, Idle
  <1>3. hard[current] = Moving
    BY <1>2 DEF Moving
  <1>4. Issued
    BY <1>2 DEF Issued, NoUpq
  <1>5. Awaited
    BY <1>2 DEF Awaited, After, Walking
  <1>6. Balance
    BY <1>1, <1>2 DEF Balance, Raised, AtRoot, After, Walking
  <1>7. ASSUME NEW n \in SNSs \ {current} PROVE Given(n) = 0 /\ Taken(n) = 0
    <2>1. \A s \in {Root, Old} : upq[s].phase = "absent" /\ upq[s].k = 1
      BY <1>1, <1>2 DEF NoUpq
    <2>2. n \in Nodes /\ Depth(n) \in Nat /\ Depth(n) > 0
      <3>1. n \in SNSs /\ Parent(n) \in Nodes /\ Depth(n) = Depth(Parent(n)) + 1 /\ Depth(Parent(n)) \in Nat
        BY <1>7, Names
      <3>2. QED
        BY <1>1, <3>1
    <2>3. ~(Depth(n) < upq[Root].k)
      BY <2>1, <2>2
    <2>4. OnPath(n, Old) => ~(Depth(n) > Depth(Old) + 1 - upq[Old].k)
      <3>1. Depth(Old) \in Nat
        BY <1>1, Names
      <3>2. OnPath(n, Old) => Depth(n) \in 1..Depth(Old)
        BY <1>1, <1>7, OnePerDepth
      <3>3. QED
        BY <2>1, <2>2, <3>1, <3>2
    <2>5. QED
      BY <2>1, <2>3, <2>4 DEF Given, Taken
  <1>8. Moved
    BY <1>1, <1>2, <1>7 DEF Moved
  <1>9. QED
    BY <1>3, <1>4, <1>5, <1>6, <1>8 DEF QuotaInv, Underway

(***************************************************************************)
(* Where the quota stands, at every step of every pass and every write of  *)
(* the Updatequotas.                                                       *)
(***************************************************************************)
THEOREM QuotaInvariance == Spec => [](MigInv /\ QuotaInv)
  <1>1. Init => MigInv /\ QuotaInv
    BY InitMigInv, InitQuotaInv
  <1>2. MigInv /\ QuotaInv /\ [Next]_vars => (MigInv /\ QuotaInv)'
    <2> SUFFICES ASSUME MigInv, QuotaInv, [Next]_vars PROVE (MigInv /\ QuotaInv)'
      OBVIOUS
    <2>1. Types /\ Begun /\ Place
      BY TypesAreTypes DEF MigInv
    <2>2. QED
      BY <2>1, MigInvStep, QuotaStep
  <1>3. QED
    BY <1>1, <1>2, PTL DEF Spec

(***************************************************************************)
(* increaseRootResources is undone: the root namespace has the quota it    *)
(* had when the migration is Complete, if it was raised only once.         *)
(***************************************************************************)
THEOREM RootIsRestored == Spec => []RootRestored
  <1>1. MigInv /\ QuotaInv => RootRestored
    BY DEF QuotaInv, Balance, AtRoot, RootRestored
  <1>2. QED
    BY <1>1, QuotaInvariance, PTL

(***************************************************************************)
(* The quota follows the subnamespace: once both Updatequotas are Complete *)
(* the ancestors in the new place have the amount more and those in the    *)
(* old place have it less, however often a step was repeated.              *)
(***************************************************************************)
THEOREM QuotaIsMovedOnce == Spec => []QuotaFollows
  <1>1. ASSUME MigInv, QuotaInv PROVE QuotaFollows
    <2> SUFFICES ASSUME mh.phase = "Complete", ~torn, \A s \in Nodes : upq[s].phase \in {"absent", "Complete"},
                        NEW n \in SNSs \ {current}
                 PROVE  hard[n] = InitialHard[n] + Lent(n) - Back(n)
      BY DEF QuotaFollows
    <2>1. Types /\ Awaited /\ Moved /\ Issued
      BY <1>1, TypesAreTypes DEF MigInv, QuotaInv, Underway
    <2>2. /\ current \in SNSs /\ Old \in Nodes /\ Root \in Nodes /\ Moving \in Nat
          /\ hard[n] = InitialHard[n] + Given(n) - Taken(n)
      BY <2>1, Names, MigrationAssumption DEF Types, ObjectTypes, Old, Moving, Moved
    <2>3. Moving > 0 => upq[Root].phase = "Complete" /\ upq[Old].phase = "Complete"
      BY <2>1, <2>2 DEF Awaited
    <2>4. Given(n) = Lent(n)
      BY <2>2, <2>3 DEF Given, Lent, Moving
    <2>5. OnPath(n, Old) => Old # Root
      <3>1. OnPath(n, Old) => Depth(n) \in 1..Depth(Old)
        BY <2>2, OnePerDepth
      <3>2. Depth(Root) = 0
        BY MigrationAssumption DEF Depth
      <3>3. QED
        BY <3>1, <3>2
    <2>6. Taken(n) = Back(n)
      BY <2>2, <2>3, <2>5 DEF Taken, Back, Moving, Old
    <2>7. QED
      BY <2>2, <2>4, <2>6
  <1>2. QED
    BY <1>1, QuotaInvariance, PTL
-----------------------------------------------------------------------------
(***************************************************************************)
(* A namespace on the way to another one has its own way in common with    *)
(* it, so that what is on its way is on the other's.                       *)
(***************************************************************************)
LEMMA WayInCommon ==
    ASSUME NEW n \in Nodes, NEW m \in Nodes, m \in Range(DisplayName[n])
    PROVE  /\ Len(DisplayName[m]) \in 1..Len(DisplayName[n])
           /\ \A j \in 1..Len(DisplayName[m]) : DisplayName[m][j] = DisplayName[n][j]
           /\ Range(DisplayName[m]) \subseteq Range(DisplayName[n])
  <1>1. \A x \in Nodes : /\ DisplayName[x] \in Seq(Nodes) /\ Len(DisplayName[x]) \in Nat \ {0}
                         /\ DOMAIN DisplayName[x] = 1..Len(DisplayName[x])
                         /\ WellNamed(Nodes, Root, DisplayName, x)
    BY Names
  <1>2. Len(DisplayName[m]) \in 1..Len(DisplayName[n]) /\ DisplayName[n][Len(DisplayName[m])] = m
    BY OnTheWay
  <1>3. \A j \in 1..Len(DisplayName[m]) : DisplayName[m][j] = DisplayName[n][j]
    BY <1>1, <1>2 DEF WellNamed
  <1>4. \A j \in 1..Len(DisplayName[m]) : j \in 1..Len(DisplayName[n])
    BY <1>1, <1>2
  <1>5. Range(DisplayName[m]) \subseteq Range(DisplayName[n])
    BY <1>1, <1>3, <1>4 DEF Range
  <1>6. QED
    BY <1>2, <1>3, <1>5

(***************************************************************************)
(* The depth of a namespace is the length of its parent's path, before the *)
(* migration and after it.                                                 *)
(***************************************************************************)
LEMMA ParentPaths ==
    ASSUME current \in SNSs, to \in Nodes, NEW m \in SNSs
    PROVE  /\ m \notin Subtree => Parent(m) \notin Subtree
           /\ m \in Subtree \ {current} => Parent(m) \in Subtree /\ NewDepth(m) = Len(NewPath(Parent(m)))
           /\ Parent(m) \in Nodes /\ Depth(m) = Len(DisplayName[Parent(m)])
           /\ Parent(current) \notin Subtree /\ NewDepth(current) = Len(DisplayName[to])
  <1>1. /\ m \in Nodes /\ Parent(m) \in Nodes /\ Depth(m) = Depth(Parent(m)) + 1 /\ current \in Nodes
        /\ Parent(current) \in Nodes /\ Depth(current) = Depth(Parent(current)) + 1
        /\ \A x \in Nodes : Len(DisplayName[x]) \in Nat \ {0}
    BY Names
  <1>2. Depth(m) = Len(DisplayName[Parent(m)]) /\ Len(DisplayName[m]) = Len(DisplayName[Parent(m)]) + 1
    BY <1>1 DEF Depth
  <1>3. Range(DisplayName[Parent(m)]) \subseteq Range(DisplayName[m])
    BY <1>1, ParentOnTheWay, OnTheWay, WayInCommon
  <1>4. m \notin Subtree => Parent(m) \notin Subtree
    BY <1>3 DEF Subtree
  <1>5. ASSUME m \in Subtree \ {current} PROVE Parent(m) \in Subtree /\ NewDepth(m) = Len(NewPath(Parent(m)))
    <2>1. Len(DisplayName[current]) \in 1..Len(DisplayName[m]) /\ DisplayName[m][Len(DisplayName[current])] = current
      BY <1>1, <1>5, OnTheWay DEF Subtree
    <2>2. DisplayName[m][Len(DisplayName[m])] = m
      BY <1>1, Names DEF WellNamed
    <2>3. Len(DisplayName[current]) \in 1..Len(DisplayName[Parent(m)])
      BY <1>1, <1>2, <1>5, <2>1, <2>2
    <2>4. Parent(m) \in Range(DisplayName[m])
      BY <1>1, ParentOnTheWay, OnTheWay
    <2>5. DisplayName[Parent(m)][Len(DisplayName[current])] = current
      BY <1>1, <2>1, <2>3, <2>4, WayInCommon
    <2>6. current \in Range(DisplayName[Parent(m)])
      <3>1. DOMAIN DisplayName[Parent(m)] = 1..Len(DisplayName[Parent(m)])
        BY <1>1, Names
      <3>2. QED
        BY <2>3, <2>5, <3>1 DEF Range
    <2>7. Parent(m) # Root
      <3>1. DisplayName[Root] = <<Root>> /\ current # Root /\ Len(DisplayName[current]) > 1
        BY MigrationAssumption DEF SNSs
      <3>2. Len(DisplayName[Root]) = 1
        BY <3>1
      <3>3. Len(DisplayName[Parent(m)]) >= Len(DisplayName[current])
        BY <2>3
      <3>4. ASSUME Parent(m) = Root PROVE FALSE
        <4>1. 1 >= Len(DisplayName[current]) /\ Len(DisplayName[current]) \in Nat
          BY <1>1, <3>2, <3>3, <3>4
        <4>2. QED
          BY <3>1, <4>1
      <3>5. QED
        BY <3>4
    <2>8. Parent(m) \in Subtree
      BY <1>1, <2>6, <2>7 DEF Subtree, SNSs
    <2>9. /\ Len(NewPath(m)) = Len(DisplayName[to]) + Len(DisplayName[m]) - Len(DisplayName[current]) + 1
          /\ Len(NewPath(Parent(m))) =
                Len(DisplayName[to]) + Len(DisplayName[Parent(m)]) - Len(DisplayName[current]) + 1
      BY <1>5, <2>8, NewPathNames
    <2>10. /\ Len(DisplayName[to]) \in Nat /\ Len(DisplayName[m]) \in Nat /\ Len(DisplayName[current]) \in Nat
           /\ Len(DisplayName[Parent(m)]) \in Nat
      BY <1>1
    <2>11. Len(NewPath(m)) - 1 = Len(NewPath(Parent(m)))
      <3> DEFINE a == Len(DisplayName[to])
                 b == Len(DisplayName[Parent(m)])
                 c == Len(DisplayName[current])
      <3>1. Len(NewPath(m)) = a + (b + 1) - c + 1 /\ Len(NewPath(Parent(m))) = a + b - c + 1
        BY <1>2, <2>9
      <3>2. a \in Nat /\ b \in Nat /\ c \in Nat
        BY <2>10
      <3> HIDE DEF a, b, c
      <3>3. QED
        BY <3>1, <3>2
    <2>12. QED
      BY <2>8, <2>11 DEF NewDepth
  <1>6. Parent(current) \notin Subtree
    <2>1. ASSUME Parent(current) \in Subtree PROVE FALSE
      <3>1. Len(DisplayName[current]) \in 1..Len(DisplayName[Parent(current)])
        BY <1>1, <2>1, OnTheWay DEF Subtree
      <3>2. QED
        BY <1>1, <3>1 DEF Depth
    <2>2. QED
      BY <2>1
  <1>7. NewDepth(current) = Len(DisplayName[to])
    <2>1. current \in Subtree
      BY OnTheWay
    <2>2. Len(NewPath(current)) = Len(DisplayName[to]) + Len(DisplayName[current]) - Len(DisplayName[current]) + 1
      BY <2>1, NewPathNames
    <2>3. QED
      BY <1>1, <2>2 DEF NewDepth
  <1>8. QED
    BY <1>1, <1>2, <1>4, <1>5, <1>6, <1>7

(***************************************************************************)
(* No step moves another Subnamespace, and while the selectors stay and    *)
(* the worker does not go on to another namespace they are as they were.   *)
(***************************************************************************)
LEMMA SelKeeps ==
    ASSUME SelInv, UNCHANGED <<current, to, crqAt>>, torn => torn', lost => lost',
           DOMAIN sns' \subseteq DOMAIN sns \cup {<<to, current>>},
           worker'.at \in Walking =>
              worker.at \in Walking /\ worker'.todo = worker.todo /\ worker'.n = worker.n,
           worker'.at \in After \ Walking \/ mh'.phase = "Complete" =>
              worker.at \in After \ Walking \/ mh.phase = "Complete"
    PROVE  SelInv'
  <1>0. Subtree' = Subtree /\ \A m : NewDepth(m)' = NewDepth(m)
    BY DEF Subtree, NewDepth, NewPath
  <1>1. Elsewhere'
    <2> SUFFICES ASSUME NEW x \in DOMAIN sns', x[2] # current PROVE x[1] = Parent(x[2])
      BY DEF Elsewhere
    <2>1. x \in DOMAIN sns
      <3>1. x # <<to, current>>
        OBVIOUS
      <3>2. QED
        BY <3>1
    <2>2. QED
      BY <2>1 DEF SelInv, Elsewhere
  <1>2. Downward'
    BY <1>0 DEF SelInv, Downward
  <1>3. ~torn' /\ ~lost' => Deep'
    BY <1>0 DEF SelInv, Deep
  <1>4. QED
    BY <1>1, <1>2, <1>3 DEF SelInv
(***************************************************************************)
(* The subnamespace controller gives a ClusterResourceQuota the depth that *)
(* the annotations of the parent say, or deletes it, or leaves it alone.   *)
(***************************************************************************)
LEMMA SelSet ==
    ASSUME Types, Begun, Place, Walk, SelInv, UNCHANGED <<current, to, torn, lost, worker, mh>>,
           DOMAIN sns' = DOMAIN sns, NEW p \in Nodes, NEW m \in SNSs, <<p, m>> \in DOMAIN sns,
           crqAt' \in [SNSs -> Nat], \A x \in SNSs \ {m} : crqAt'[x] = crqAt[x],
           crqAt'[m] \in {0, crqAt[m], Len(Path(p))}
    PROVE  SelInv'
  <1>0. /\ Subtree' = Subtree /\ \A x : NewDepth(x)' = NewDepth(x)
        /\ current \in SNSs /\ to \in Nodes /\ annotated \subseteq Subtree /\ current \in Subtree
        /\ Subtree \subseteq SNSs
    BY OnTheWay DEF Subtree, NewDepth, NewPath, Types, ObjectTypes, ClusterTypes
  <1>1. Elsewhere' /\ Downward'
    BY <1>0 DEF SelInv, Elsewhere, Downward
  <1>2. SUFFICES ASSUME ~torn, ~lost PROVE Deep'
    BY <1>1 DEF SelInv
  <1>3. Deep /\ Downward
    BY <1>2 DEF SelInv
  <1>4. /\ m \notin Subtree => Parent(m) \notin Subtree
        /\ m \in Subtree \ {current} => Parent(m) \in Subtree /\ NewDepth(m) = Len(NewPath(Parent(m)))
        /\ Depth(m) = Len(DisplayName[Parent(m)])
        /\ Parent(current) \notin Subtree /\ NewDepth(current) = Len(DisplayName[to])
    BY <1>0, ParentPaths
  <1>5. m # current => p = Parent(m)
    BY DEF SelInv, Elsewhere
  <1>6. m = current => p = Old \/ p = to
    BY <1>2 DEF Place
  <1>7. to \notin Subtree \/ to = Old \/ ~HasNew
    <2>1. CASE mh.phase = "absent"
      BY <1>0, <2>1 DEF Begun, HasNew
    <2>2. CASE mh.phase # "absent"
      BY <2>2 DEF Begun, Subtree
    <2>3. QED
      BY <2>1, <2>2
  <1>8. ASSUME m \notin Subtree PROVE Len(Path(p)) = Depth(m)
    BY <1>0, <1>4, <1>5, <1>8 DEF Path
  <1>9. ASSUME m \in Subtree PROVE Len(Path(p)) \in {Depth(m), NewDepth(m)}
    <2>1. CASE m # current
      BY <1>4, <1>5, <1>9, <2>1 DEF Path
    <2>2. CASE m = current /\ p = Old
      BY <1>0, <1>4, <2>2 DEF Path, Old
    <2>3. CASE m = current /\ p = to /\ p # Old
      <3>1. to \notin Subtree
        BY <1>7, <2>3 DEF HasNew
      <3>2. QED
        BY <1>0, <1>4, <2>3, <3>1 DEF Path
    <2>4. QED
      BY <1>6, <2>1, <2>2, <2>3
  <1>10. ASSUME m \in Subtree,
                \/ worker.at \in Walking /\ m \notin worker.todo
                \/ worker.at \in After \ Walking \/ mh.phase = "Complete"
         PROVE  Len(Path(p)) = NewDepth(m)
    <2>1. ~HasOld
      BY <1>2, <1>10 DEF Place, After
    <2>2. CASE m = current
      <3>1. p = to /\ p # Old
        BY <1>6, <2>1, <2>2 DEF HasOld
      <3>2. to \notin Subtree
        BY <1>7, <2>2, <3>1 DEF HasNew
      <3>3. QED
        BY <1>0, <1>4, <2>2, <3>1, <3>2 DEF Path
    <2>3. CASE m # current
      <3>1. p = Parent(m) /\ p \in Subtree /\ NewDepth(m) = Len(NewPath(p))
        BY <1>4, <1>5, <1>10, <2>3
      <3>2. p \in annotated
        <4>1. CASE worker.at \in Walking /\ m \notin worker.todo
          <5>1. p \notin worker.todo
            BY <1>3, <1>10, <2>3, <3>1, <4>1 DEF Downward
          <5>2. QED
            BY <1>2, <3>1, <4>1, <5>1 DEF Walk
        <4>2. CASE worker.at \in After \ Walking \/ mh.phase = "Complete"
          BY <1>2, <3>1, <4>2 DEF Walk
        <4>3. QED
          BY <1>10, <4>1, <4>2
      <3>3. QED
        BY <3>1, <3>2 DEF Path
    <2>4. QED
      BY <2>2, <2>3
  <1>11. \A x \in SNSs \ Subtree : crqAt'[x] \in {0, Depth(x)}
    BY <1>3, <1>8 DEF Deep
  <1>12. \A x \in Subtree : crqAt'[x] \in {0, Depth(x), NewDepth(x)}
    BY <1>0, <1>3, <1>9 DEF Deep
  <1>13. worker.at \in Walking => \A x \in Subtree \ worker.todo : crqAt'[x] \in {0, NewDepth(x)}
    BY <1>0, <1>3, <1>10 DEF Deep
  <1>14. worker.at \in After \ Walking \/ mh.phase = "Complete" => \A x \in Subtree : crqAt'[x] \in {0, NewDepth(x)}
    BY <1>0, <1>3, <1>10 DEF Deep
  <1>15. QED
    BY <1>0, <1>11, <1>12, <1>13, <1>14 DEF Deep

(***************************************************************************)
(* Every step keeps the account of the selectors: the walk goes from the   *)
(* parents to the children and leaves each with the depth of its new place.*)
(***************************************************************************)
LEMMA SelStep == ASSUME Types, Types', Begun, Place, Walk, SelInv, [Next]_vars PROVE SelInv'
  <1> USE DEF object, cluster, bounds, history
  <1>0. /\ UNCHANGED <<current, to>> /\ (torn => torn') /\ Subtree' = Subtree /\ \A x : NewDepth(x)' = NewDepth(x)
        /\ current \in SNSs /\ to \in Nodes /\ current \in Subtree /\ Subtree \subseteq SNSs
    BY ObjectStays, OldNeverBack, OnTheWay DEF Types, ObjectTypes, Subtree, NewDepth, NewPath
  <1>w. WorkerTypes /\ worker \in Workers /\ mh \in Objects
    BY DEF Types, WorkerTypes, ObjectTypes
  <1>c. crqAt \in [SNSs -> Nat] /\ crqAt' \in [SNSs -> Nat] /\ DOMAIN sns \subseteq Nodes \X SNSs
    BY DEF Types, ClusterTypes
  <1>1. CASE CreateMH
    BY <1>0, <1>1, SelKeeps DEF CreateMH
  <1>2. CASE TouchMH
    <2>1. mh'.phase = mh.phase
      BY <1>2, <1>w DEF TouchMH, Objects
    <2>2. QED
      BY <1>0, <1>2, <2>1, SelKeeps DEF TouchMH
  <1>3. CASE Watch
    BY <1>0, <1>3, SelKeeps DEF Watch
  <1>4. CASE Reconcile
    <2>1. UNCHANGED <<mh, sns, crqAt, lost>>
      BY <1>4 DEF Reconcile
    <2>2. CASE UNCHANGED worker
      BY <1>0, <2>1, <2>2, SelKeeps
    <2>3. CASE ~UNCHANGED worker
      <3>1. PICK at \in {"error", "monitor", "increase", "inprogress"} : Begin(at)
        BY <1>4, <2>3, PassBegins
      <3>2. worker'.at = at
        BY <3>1 DEF Begin, Idle
      <3>3. QED
        BY <1>0, <2>1, <3>1, <3>2, SelKeeps DEF After, Walking
    <2>4. QED
      BY <2>2, <2>3
  <1>5. CASE IncreaseRootResources
    <2>1. worker'.at = "upq" /\ UNCHANGED <<mh, sns, crqAt, lost>>
      BY <1>5, <1>w, WorkerRecord DEF IncreaseRootResources
    <2>2. QED
      BY <1>0, <2>1, SelKeeps DEF After, Walking
  <1>6. CASE CreateFirstUPQ
    <2>1. worker'.at \in {"error", "inprogress"} /\ UNCHANGED <<mh, sns, crqAt, lost>>
      BY <1>6, <1>w, WorkerRecord DEF CreateFirstUPQ
    <2>2. QED
      BY <1>0, <2>1, SelKeeps DEF After, Walking
  <1>7. CASE UpdateInProgress
    <2>1. worker'.at = "monitor" /\ UNCHANGED <<sns, crqAt, lost>> /\ (mh' = mh \/ mh'.phase = "InProgress")
      BY <1>7, <1>w DEF UpdateInProgress, UpdateMHStatus, Workers
    <2>2. mh'.phase = mh.phase \/ mh'.phase = "InProgress"
      BY <2>1
    <2>3. QED
      BY <1>0, <2>1, <2>2, SelKeeps DEF After, Walking
  <1>8. CASE MonitorMigrationUPQ
    <2>1. worker'.at \in {"create", "error", "idle"} /\ UNCHANGED <<mh, sns, crqAt, lost>>
      BY <1>8, <1>w, WorkerRecord DEF MonitorMigrationUPQ, Idle
    <2>2. QED
      BY <1>0, <2>1, SelKeeps DEF After, Walking
  <1>9. CASE CreateNewSNS \/ CreateNewSNSFails
    <2>1. /\ worker'.at \in {"delete", "error"} /\ UNCHANGED <<mh, crqAt, lost>>
          /\ DOMAIN sns' \subseteq DOMAIN sns \cup {<<to, current>>}
      BY <1>9, <1>w, WorkerRecord, NewDomain DEF CreateNewSNS, CreateNewSNSFails
    <2>2. QED
      BY <1>0, <2>1, SelKeeps DEF After, Walking
  <1>10. CASE DeleteOldSNS
    <2>1. /\ worker.at = "delete" /\ worker'.at = "annotations" /\ worker'.todo = Subtree /\ worker'.n = current
          /\ UNCHANGED <<mh, crqAt, torn, lost>>
      BY <1>10, <1>w DEF DeleteOldSNS, Workers
    <2>2. DOMAIN sns' \subseteq DOMAIN sns
      BY <1>10 DEF DeleteOldSNS, WithoutSNS, Restrict
    <2>3. Elsewhere'
      BY <1>0, <2>2 DEF SelInv, Elsewhere
    <2>4. Downward'
      BY <1>0, <2>1, ParentPaths DEF Downward
    <2>5. ASSUME ~torn, ~lost PROVE Deep'
      <3>1. Deep /\ mh.phase # "Complete"
        BY <2>1, <2>5 DEF SelInv, Place
      <3>2. worker'.at \in Walking /\ worker'.at \notin After \ Walking /\ mh'.phase # "Complete"
        BY <2>1, <3>1 DEF Walking
      <3>3. Subtree \ worker'.todo = {}
        BY <2>1
      <3>4. QED
        BY <1>0, <2>1, <3>1, <3>2, <3>3 DEF Deep
    <2>6. QED
      BY <2>1, <2>3, <2>4, <2>5 DEF SelInv
  <1>11. CASE AppendAnnotations
    <2>1. /\ worker.at = "annotations" /\ worker'.at \in {"labels", "selector"} /\ worker'.todo = worker.todo
          /\ worker'.n = worker.n /\ UNCHANGED <<mh, sns, crqAt>> /\ (lost => lost')
      BY <1>11, <1>w, WorkerRecord DEF AppendAnnotations
    <2>2. QED
      BY <1>0, <2>1, SelKeeps DEF After, Walking
  <1>12. CASE AppendLabels
    <2>1. /\ worker.at = "labels" /\ worker'.at = "selector" /\ worker'.todo = worker.todo
          /\ worker'.n = worker.n /\ UNCHANGED <<mh, sns, crqAt, lost>>
      BY <1>12, <1>w, WorkerRecord DEF AppendLabels
    <2>2. QED
      BY <1>0, <2>1, SelKeeps DEF After, Walking
  <1>13. CASE UpdateCRQSelector
    <2>1. /\ worker.at = "selector" /\ UNCHANGED <<mh, sns, torn, lost>>
          /\ crqAt' = [crqAt EXCEPT ![worker.n] = IF @ > 0 THEN Len(NewPath(worker.n)) - 1 ELSE 0]
      BY <1>13 DEF UpdateCRQSelector
    <2>2. worker.n \in worker.todo /\ worker.todo \subseteq Subtree /\ worker.n \in SNSs
      BY <1>0, <1>w, <2>1 DEF WorkerTypes, Walking
    <2>3. /\ \A x \in SNSs \ {worker.n} : crqAt'[x] = crqAt[x]
          /\ crqAt'[worker.n] \in {0, NewDepth(worker.n)}
      BY <1>c, <2>1, <2>2 DEF NewDepth
    <2>4. /\ worker'.todo = worker.todo \ {worker.n}
          /\ \/ worker'.todo = {} /\ worker'.at = "keys"
             \/ worker'.at = "annotations" /\ worker'.n \in worker'.todo /\ Parent(worker'.n) \notin worker'.todo
      BY <1>13, <1>w, WorkerRecord DEF UpdateCRQSelector
    <2>5. Elsewhere'
      BY <1>0, <2>1 DEF SelInv, Elsewhere
    <2>6. /\ Parent(worker.n) \notin worker.todo
          /\ \A m \in Subtree \ {current} : Parent(m) \in worker.todo => m \in worker.todo
      BY <2>1 DEF SelInv, Downward, Walking
    <2>7. Downward'
      <3>1. \A m \in Subtree \ {current} : Parent(m) \in worker'.todo => m \in worker'.todo
        BY <2>4, <2>6
      <3>2. worker'.at \in Walking => Parent(worker'.n) \notin worker'.todo
        BY <2>4 DEF Walking
      <3>3. QED
        BY <1>0, <3>1, <3>2 DEF Downward
    <2>8. ASSUME ~torn, ~lost PROVE Deep'
      <3>1. /\ Deep /\ mh.phase # "Complete"
            /\ \A m \in Subtree \ worker.todo : crqAt[m] \in {0, NewDepth(m)}
        BY <2>1, <2>8 DEF SelInv, Place, Deep, Walking
      <3>2. \A m \in Subtree \ worker'.todo : crqAt'[m] \in {0, NewDepth(m)}
        BY <1>0, <2>3, <2>4, <3>1
      <3>3. \A m \in SNSs \ Subtree : crqAt'[m] \in {0, Depth(m)}
        BY <2>2, <2>3, <3>1 DEF Deep
      <3>4. \A m \in Subtree : crqAt'[m] \in {0, Depth(m), NewDepth(m)}
        BY <1>0, <2>3, <3>1 DEF Deep
      <3>5. worker'.at \in After \ Walking => worker'.todo = {}
        BY <2>4 DEF Walking
      <3>6. mh'.phase # "Complete"
        BY <2>1, <3>1
      <3>7. QED
        BY <1>0, <3>2, <3>3, <3>4, <3>5, <3>6 DEF Deep
    <2>9. QED
      BY <2>1, <2>5, <2>7, <2>8 DEF SelInv
  <1>14. CASE LookUpKeys
    <2>1. worker.at = "keys" /\ worker'.at = "remove" /\ UNCHANGED <<mh, sns, crqAt, lost>>
      BY <1>14, <1>w DEF LookUpKeys, Workers
    <2>2. QED
      BY <1>0, <2>1, SelKeeps DEF After, Walking
  <1>15. CASE RemoveFromOldKey
    <2>1. worker.at = "remove" /\ worker'.at \in {"add", "error"} /\ UNCHANGED <<mh, sns, crqAt, lost>>
      BY <1>15, <1>w, WorkerRecord DEF RemoveFromOldKey
    <2>2. QED
      BY <1>0, <2>1, SelKeeps DEF After, Walking
  <1>16. CASE AddToNewKey
    <2>1. worker.at = "add" /\ worker'.at \in {"remove", "upqBack", "complete"} /\ UNCHANGED <<mh, sns, crqAt, lost>>
      <3>1. PICK then \in {"upqBack", "complete"} : NextNode("remove", then)
        BY <1>16 DEF AddToNewKey
      <3>2. worker'.at \in {"remove", then}
        BY <1>w, <3>1, WorkerRecord
      <3>3. QED
        BY <1>16, <3>2 DEF AddToNewKey
    <2>2. QED
      BY <1>0, <2>1, SelKeeps DEF After, Walking
  <1>17. CASE CreateSecondUPQ
    <2>1. worker.at = "upqBack" /\ worker'.at = "decrease" /\ UNCHANGED <<mh, sns, crqAt, lost>>
      BY <1>17, <1>w, WorkerRecord DEF CreateSecondUPQ
    <2>2. QED
      BY <1>0, <2>1, SelKeeps DEF After, Walking
  <1>18. CASE DecreaseRootResources
    <2>1. worker.at = "decrease" /\ worker'.at = "complete" /\ UNCHANGED <<mh, sns, crqAt, lost>>
      BY <1>18, <1>w, WorkerRecord DEF DecreaseRootResources
    <2>2. QED
      BY <1>0, <2>1, SelKeeps DEF After, Walking
  <1>19. CASE UpdateComplete
    <2>1. worker.at = "complete" /\ worker'.at = "idle" /\ UNCHANGED <<sns, crqAt, lost>>
      BY <1>19 DEF UpdateComplete, Idle
    <2>2. QED
      BY <1>0, <2>1, SelKeeps DEF After, Walking
  <1>20. CASE UpdateError
    <2>1. worker'.at = "idle" /\ UNCHANGED <<sns, crqAt, lost>> /\ (mh' = mh \/ mh'.phase = "Error")
      BY <1>20 DEF UpdateError, UpdateMHStatus, Idle
    <2>2. mh'.phase = mh.phase \/ mh'.phase = "Error"
      BY <2>1
    <2>3. QED
      BY <1>0, <2>1, <2>2, SelKeeps DEF After, Walking
  <1>21. CASE DeleteOldSNSFails
    <2>1. worker'.at = "error" /\ UNCHANGED <<mh, crqAt, lost>>
      BY <1>21, <1>w, WorkerRecord DEF DeleteOldSNSFails
    <2>2. DOMAIN sns' \subseteq DOMAIN sns
      <3>1. \A P : DOMAIN WithoutSNS(P) \subseteq DOMAIN sns
        BY DEF WithoutSNS, Restrict
      <3>2. QED
        BY <1>21, <3>1 DEF DeleteOldSNSFails
    <2>3. QED
      BY <1>0, <2>1, <2>2, SelKeeps DEF After, Walking
  <1>22. CASE Fail
    <2>1. UNCHANGED <<mh, sns, crqAt, lost>>
      BY <1>22 DEF Fail
    <2>2. UNCHANGED worker \/ worker'.at \in {"idle", "error"}
      BY <1>22, <1>w, WorkerRecord DEF Fail, Idle
    <2>3. QED
      BY <1>0, <2>1, <2>2, SelKeeps DEF After, Walking
  <1>23. CASE Restart
    BY <1>0, <1>23, SelKeeps DEF Restart, Idle, After, Walking
  <1>24. ASSUME NEW s \in Nodes, MoveQuota(s) PROVE SelInv'
    BY <1>0, <1>24, SelKeeps DEF MoveQuota
  <1>25. ASSUME NEW x \in DOMAIN sns, InitMigrated(x[1], x[2]) PROVE SelInv'
    <2>1. x[1] \in Nodes /\ x[2] \in SNSs /\ <<x[1], x[2]>> \in DOMAIN sns
      BY <1>25, <1>c DEF InitMigrated
    <2>2. UNCHANGED <<torn, lost, worker, mh>> /\ DOMAIN sns' = DOMAIN sns
      BY <1>25 DEF InitMigrated
    <2>3. /\ \A y \in SNSs \ {x[2]} : crqAt'[y] = crqAt[y]
          /\ crqAt'[x[2]] \in {0, crqAt[x[2]], Len(Path(x[1]))}
      BY <1>25, <1>c, <2>1 DEF InitMigrated
    <2>4. QED
      BY <1>0, <1>c, <2>1, <2>2, <2>3, SelSet
  <1>26. ASSUME NEW x \in DOMAIN sns, SyncSNS(x[1], x[2]) PROVE SelInv'
    <2>1. x[1] \in Nodes /\ x[2] \in SNSs /\ <<x[1], x[2]>> \in DOMAIN sns
      BY <1>26, <1>c DEF SyncSNS
    <2>2. UNCHANGED <<torn, lost, worker, mh, sns>>
      BY <1>26 DEF SyncSNS
    <2>3. /\ \A y \in SNSs \ {x[2]} : crqAt'[y] = crqAt[y]
          /\ crqAt'[x[2]] \in {0, crqAt[x[2]], Len(Path(x[1]))}
      BY <1>26, <1>c, <2>1 DEF SyncSNS
    <2>4. QED
      BY <1>0, <1>c, <2>1, <2>2, <2>3, SelSet
  <1>27. CASE UNCHANGED vars
    BY <1>0, <1>27, SelKeeps DEF vars
  <1>28. QED
    BY <1>1, <1>2, <1>3, <1>4, <1>5, <1>6, <1>7, <1>8, <1>9, <1>10, <1>11, <1>12, <1>13, <1>14, <1>15, <1>16, <1>17,
       <1>18, <1>19, <1>20, <1>21, <1>22, <1>23, <1>24, <1>25, <1>26, <1>27 DEF Next, Work, Subnamespaces
(***************************************************************************)
(* The account of the selectors holds at the start.                        *)
(***************************************************************************)
LEMMA InitSelInv == Init => SelInv
  <1> SUFFICES ASSUME Init PROVE SelInv
    OBVIOUS
  <1>1. worker.at = "idle" /\ mh.phase = "absent" /\ Subtree \subseteq SNSs
    BY DEF Init, Idle, Subtree
  <1>2. Elsewhere
    BY DEF Init, Elsewhere
  <1>3. \A m \in SNSs : crqAt[m] \in {0, Depth(m)}
    BY DEF Init
  <1>4. QED
    BY <1>1, <1>2, <1>3 DEF SelInv, Downward, Deep, After, Walking

(***************************************************************************)
(* Where the selectors stand, at every step of the walk.                   *)
(***************************************************************************)
THEOREM SelectorInvariance == Spec => [](MigInv /\ SelInv)
  <1>1. Init => MigInv /\ SelInv
    BY InitMigInv, InitSelInv
  <1>2. MigInv /\ SelInv /\ [Next]_vars => (MigInv /\ SelInv)'
    <2> SUFFICES ASSUME MigInv, SelInv, [Next]_vars PROVE (MigInv /\ SelInv)'
      OBVIOUS
    <2>1. Types /\ Begun /\ Place /\ Walk
      BY TypesAreTypes DEF MigInv
    <2>2. Types'
      BY <2>1, TypesStep
    <2>3. QED
      BY <2>1, <2>2, MigInvStep, SelStep
  <1>3. QED
    BY <1>1, <1>2, PTL DEF Spec

(***************************************************************************)
(* Where a namespace m is found on the new way to n: on the way to the     *)
(* destination, where it is not below the migrated namespace, or from that *)
(* one on, where it is and has its new depth.                              *)
(***************************************************************************)
LEMMA OnTheNewWay ==
    ASSUME current \in SNSs, to \in Nodes, current \notin Range(DisplayName[to]),
           NEW n \in Subtree, NEW m \in SNSs, m \in Range(NewPath(n))
    PROVE  \/ m \notin Subtree /\ Depth(m) + 1 \in 1..Len(NewPath(n)) /\ NewPath(n)[Depth(m) + 1] = m
           \/ m \in Subtree /\ NewDepth(m) + 1 \in 1..Len(NewPath(n)) /\ NewPath(n)[NewDepth(m) + 1] = m
  <1> DEFINE a == Len(DisplayName[to])
             b == Len(DisplayName[n])
             c == Len(DisplayName[current])
             l == Len(NewPath(n))
             e == Len(DisplayName[m])
  <1>1. n \in Nodes /\ n \in SNSs /\ m \in Nodes /\ current \in Nodes /\ current \in Range(DisplayName[n])
    BY Names DEF Subtree
  <1>2. /\ NewPath(n) \in Seq(Nodes) /\ l = a + b - c + 1 /\ b >= c
        /\ \A i \in 1..a : NewPath(n)[i] = DisplayName[to][i]
        /\ \A i \in (a + 1)..l : NewPath(n)[i] = DisplayName[n][c + i - a - 1]
    BY NewPathNames
  <1>3. a \in Nat \ {0} /\ b \in Nat \ {0} /\ c \in Nat \ {0} /\ l \in Nat /\ e \in Nat \ {0}
    <2>1. a \in Nat \ {0} /\ b \in Nat \ {0} /\ c \in Nat \ {0} /\ e \in Nat \ {0}
      BY <1>1, Names
    <2>2. NewPath(n) \in Seq(Nodes)
      BY <1>2
    <2>3. l \in Nat
      BY <2>2
    <2>4. QED
      BY <2>1, <2>3
  <1>4. Depth(m) + 1 = e
    BY <1>3 DEF Depth
  <1>5. PICK i \in 1..l : NewPath(n)[i] = m
    <2>1. NewPath(n) \in Seq(Nodes)
      BY <1>2
    <2>2. DOMAIN NewPath(n) = 1..l
      BY <2>1
    <2>3. QED
      BY <2>2 DEF Range
  <1>6. ASSUME i <= a
        PROVE  m \notin Subtree /\ Depth(m) + 1 \in 1..l /\ NewPath(n)[Depth(m) + 1] = m
    <2>1. i \in 1..a
      BY <1>3, <1>6
    <2>2. DisplayName[to][i] = m
      BY <1>2, <1>5, <2>1
    <2>3. m \in Range(DisplayName[to])
      <3>1. DOMAIN DisplayName[to] = 1..a
        BY Names
      <3>2. QED
        BY <2>1, <2>2, <3>1 DEF Range
    <2>4. m \notin Subtree
      BY <1>1, <2>3, WayInCommon DEF Subtree
    <2>5. e \in 1..a /\ DisplayName[to][e] = m
      BY <2>3, OnTheWay
    <2> HIDE DEF a, b, c, l, e
    <2>6. e \in 1..l
      BY <1>2, <1>3, <2>5
    <2>7. QED
      BY <1>2, <1>4, <2>4, <2>5, <2>6
  <1>7. ASSUME ~(i <= a)
        PROVE  m \in Subtree /\ NewDepth(m) + 1 \in 1..l /\ NewPath(n)[NewDepth(m) + 1] = m
    <2> DEFINE j == c + i - a - 1
    <2>1. i \in (a + 1)..l /\ j \in 1..b /\ j >= c
      <3> HIDE DEF a, b, c, l, e
      <3>1. QED
        BY <1>2, <1>3, <1>7
    <2>2. DisplayName[n][j] = m
      BY <1>2, <1>5, <2>1
    <2>3. e = j /\ \A k \in 1..j : DisplayName[m][k] = DisplayName[n][k]
      <3>1. WellNamed(Nodes, Root, DisplayName, n)
        BY <1>1, Names
      <3> HIDE DEF j
      <3>2. QED
        BY <2>1, <2>2, <3>1 DEF WellNamed
    <2>4. DisplayName[n][c] = current
      BY <1>1, OnTheWay
    <2>5. c \in 1..j
      <3> HIDE DEF a, b, c, l, e
      <3>1. QED
        BY <1>3, <2>1
    <2>6. DisplayName[m][c] = current
      BY <2>3, <2>4, <2>5
    <2>7. m \in Subtree
      <3>1. DOMAIN DisplayName[m] = 1..e
        BY <1>1, Names
      <3>2. c \in 1..e
        <4> HIDE DEF a, b, c, l, e, j
        <4>1. QED
          BY <2>3, <2>5
      <3>3. QED
        BY <2>6, <3>1, <3>2 DEF Subtree, Range
    <2>8. Len(NewPath(m)) = a + e - c + 1
      BY <2>7, NewPathNames
    <2> HIDE DEF a, b, c, e, l
    <2>9. NewDepth(m) + 1 = i
      <3>1. Len(NewPath(m)) = i
        BY <1>3, <2>3, <2>8
      <3>2. QED
        BY <1>3, <3>1 DEF NewDepth
    <2>10. QED
      BY <1>5, <2>7, <2>9
  <1>8. QED
    BY <1>6, <1>7

(***************************************************************************)
(* After the migration every ClusterResourceQuota limits the namespaces    *)
(* below its own, in their new places, and none that is not below it, save *)
(* those that moved up.                                                    *)
(***************************************************************************)
THEOREM QuotasSelectTheSubtree == Spec => []SelectedByAncestors
  <1>1. ASSUME MigInv, SelInv PROVE SelectedByAncestors
    <2> SUFFICES ASSUME mh.phase = "Complete", ~torn, ~lost, NEW m \in SNSs, NEW n \in SNSs, crqAt[m] > 0
                 PROVE  /\ Ancestry(m, n) => n \in Selected(m)
                        /\ n \in Selected(m) /\ DepthOf(n) >= Depth(n) => Ancestry(m, n)
      BY DEF SelectedByAncestors
    <2>1. Types /\ Begun /\ Walk /\ Deep
      BY <1>1, TypesAreTypes DEF MigInv, SelInv
    <2>2. /\ current \in SNSs /\ to \in Nodes /\ current \notin Range(DisplayName[to]) /\ annotated = Subtree
          /\ crqAt[m] \in Nat /\ annotated \subseteq Subtree
      BY <2>1 DEF Types, ObjectTypes, ClusterTypes, Begun, Walk
    <2>3. crqAt[m] = IF m \in Subtree THEN NewDepth(m) ELSE Depth(m)
      BY <2>1 DEF Deep
    <2>4. n \in Nodes /\ m \in Nodes /\ NoKey \notin Nodes /\ Depth(n) \in Nat
      BY Names
    <2>5. Path(n) \in Seq(Nodes) /\ Len(Path(n)) \in Nat /\ DOMAIN Path(n) = 1..Len(Path(n))
      BY <2>2, PathNames
    <2> DEFINE d == crqAt[m]
    <2>6. ASSUME Ancestry(m, n) PROVE n \in Selected(m)
      <3>1. d + 1 \in 1..Len(Path(n)) /\ Path(n)[d + 1] = m
        <4>1. CASE n \in Subtree
          <5>1. Path(n) = NewPath(n)
            BY <2>2, <4>1 DEF Path
          <5>2. m \in Range(NewPath(n))
            BY <2>6, <5>1 DEF Ancestry
          <5>3. QED
            BY <2>2, <2>3, <4>1, <5>1, <5>2, OnTheNewWay
        <4>2. CASE n \notin Subtree
          <5>1. Path(n) = DisplayName[n]
            BY <2>2, <4>2 DEF Path
          <5>2. m \in Range(DisplayName[n])
            BY <2>6, <5>1 DEF Ancestry
          <5>3. m \notin Subtree
            BY <2>4, <4>2, <5>2, WayInCommon DEF Subtree
          <5>4. Len(DisplayName[m]) \in 1..Len(DisplayName[n]) /\ DisplayName[n][Len(DisplayName[m])] = m
            BY <2>4, <5>2, OnTheWay
          <5>5. d + 1 = Len(DisplayName[m])
            <6>1. Len(DisplayName[m]) \in Nat
              BY <2>4, Names
            <6>2. QED
              BY <2>3, <5>3, <6>1 DEF Depth
          <5>6. QED
            BY <5>1, <5>4, <5>5
        <4>3. QED
          BY <4>1, <4>2
      <3>2. d <= DepthOf(n)
        BY <2>2, <2>5, <3>1 DEF DepthOf
      <3>3. Selector(n, d) = m
        <4>1. d \in Int /\ DepthOf(n) \in Int
          BY <2>2, <2>5 DEF DepthOf
        <4> HIDE DEF d
        <4>2. Selector(n, d) = Path(n)[d + 1]
          BY <3>2, <4>1 DEF Selector
        <4>3. QED
          BY <3>1, <4>2
      <3>4. QED
        BY <3>3 DEF Selected
    <2>7. ASSUME n \in Selected(m), DepthOf(n) >= Depth(n) PROVE Ancestry(m, n)
      <3>1. Selector(n, d) = m /\ DepthOf(n) \in Int
        BY <2>5, <2>7 DEF Selected, DepthOf
      <3>2. d <= DepthOf(n)
        <4>1. ASSUME ~(d <= DepthOf(n)) PROVE FALSE
          <5>1. ~(d <= Depth(n))
            BY <2>2, <2>4, <2>7, <3>1, <4>1
          <5>2. Selector(n, d) = NoKey
            BY <4>1, <5>1 DEF Selector
          <5>3. QED
            BY <2>4, <3>1, <5>2
        <4>2. QED
          BY <4>1
      <3>3. Path(n)[d + 1] = m
        BY <2>2, <3>1, <3>2 DEF Selector
      <3>4. d + 1 \in DOMAIN Path(n)
        BY <2>2, <2>5, <3>2 DEF DepthOf
      <3>5. QED
        BY <3>3, <3>4 DEF Ancestry, Range
    <2>8. QED
      BY <2>6, <2>7
  <1>2. QED
    BY <1>1, SelectorInvariance, PTL
-----------------------------------------------------------------------------
(***************************************************************************)
(* On the way to a namespace of the subtree, the names from the migrated   *)
(* one on are in the subtree; on the way to another one, none is.          *)
(***************************************************************************)
LEMMA BelowCurrent ==
    ASSUME current \in SNSs, NEW n \in Nodes, NEW j \in 1..Len(DisplayName[n])
    PROVE  /\ DisplayName[n][j] \in Subtree <=>
                 j >= Len(DisplayName[current]) /\ current \in Range(DisplayName[n])
           /\ Len(DisplayName[current]) \in Nat /\ Len(DisplayName[current]) > 1
  <1> DEFINE x == DisplayName[n][j]
             c == Len(DisplayName[current])
  <1>1. /\ \A m \in Nodes : /\ Len(DisplayName[m]) \in Nat \ {0} /\ DOMAIN DisplayName[m] = 1..Len(DisplayName[m])
                            /\ WellNamed(Nodes, Root, DisplayName, m)
        /\ current \in Nodes
    BY Names
  <1>2. x \in Nodes /\ Len(DisplayName[x]) = j /\ \A i \in 1..j : DisplayName[x][i] = DisplayName[n][i]
    BY <1>1 DEF WellNamed
  <1>3. c \in Nat /\ c > 1
    BY <1>1, MigrationAssumption
  <1>4. ASSUME x \in Subtree PROVE j >= c /\ current \in Range(DisplayName[n])
    <2>1. c \in 1..Len(DisplayName[x]) /\ DisplayName[x][c] = current
      BY <1>2, <1>4, OnTheWay DEF Subtree
    <2>2. c \in 1..j /\ c \in 1..Len(DisplayName[n])
      BY <1>1, <1>2, <2>1
    <2>3. DisplayName[n][c] = current
      BY <1>2, <2>1, <2>2
    <2>4. QED
      BY <1>1, <2>2, <2>3 DEF Range
  <1>5. ASSUME j >= c, current \in Range(DisplayName[n]) PROVE x \in Subtree
    <2>1. DisplayName[n][c] = current /\ c \in 1..j
      BY <1>1, <1>3, <1>5, OnTheWay
    <2>2. DisplayName[x][c] = current /\ c \in DOMAIN DisplayName[x]
      BY <1>1, <1>2, <2>1
    <2>3. x \in SNSs
      <3>1. j \in 2..Len(DisplayName[n])
        BY <1>1, <1>3, <1>5
      <3>2. QED
        BY <3>1, OnTheWay
    <2>4. QED
      BY <2>2, <2>3 DEF Subtree, Range
  <1>6. QED
    BY <1>3, <1>4, <1>5

\* The annotations of the subtree are all old or all new, and the destination is not in it.
Whole == annotated = {} \/ (annotated = Subtree /\ current \notin Range(DisplayName[to]))

(***************************************************************************)
(* Then the paths that the annotations tell are those of one tree: what is *)
(* on a path has its own path in common with it; and the names of the      *)
(* subtree come after the migrated one.                                    *)
(***************************************************************************)
LEMMA TreePaths ==
    ASSUME current \in SNSs, to \in Nodes, Whole, NEW n \in SNSs, NEW i \in 2..Len(Path(n))
    PROVE  /\ Path(n)[i] \in SNSs /\ Len(Path(Path(n)[i])) = i
           /\ \A j \in 1..i : Path(Path(n)[i])[j] = Path(n)[j]
           /\ Path(n)[i] \in Subtree =>
                \E c \in 2..i : Path(n)[c] = current /\ \A j \in c..Len(Path(n)) : Path(n)[j] \in Subtree
  <1> DEFINE x == Path(n)[i]
             a == Len(DisplayName[to])
             b == Len(DisplayName[n])
             c == Len(DisplayName[current])
  <1>1. n \in Nodes /\ current \in Nodes /\ current \in Subtree
    BY Names, OnTheWay
  <1>2. \A m \in Nodes : /\ Len(DisplayName[m]) \in Nat \ {0} /\ DOMAIN DisplayName[m] = 1..Len(DisplayName[m])
                         /\ WellNamed(Nodes, Root, DisplayName, m)
    BY Names
  <1>3. a \in Nat \ {0} /\ b \in Nat \ {0} /\ c \in Nat /\ c > 1
    BY <1>1, <1>2, MigrationAssumption
  <1>4. \A m \in Nodes : \A j \in 2..Len(DisplayName[m]) :
            /\ DisplayName[m][j] \in SNSs /\ Len(DisplayName[DisplayName[m][j]]) = j
            /\ \A y \in 1..j : DisplayName[DisplayName[m][j]][y] = DisplayName[m][y]
    <2> SUFFICES ASSUME NEW m \in Nodes, NEW j \in 2..Len(DisplayName[m])
                 PROVE  /\ DisplayName[m][j] \in SNSs /\ Len(DisplayName[DisplayName[m][j]]) = j
                        /\ \A y \in 1..j : DisplayName[DisplayName[m][j]][y] = DisplayName[m][y]
      OBVIOUS
    <2>1. j \in 1..Len(DisplayName[m]) /\ DisplayName[m][j] \in SNSs
      BY <1>2, OnTheWay
    <2>2. QED
      BY <1>2, <2>1 DEF WellNamed
  <1>5. CASE n \notin annotated
    <2>1. Path(n) = DisplayName[n] /\ i \in 2..b /\ i \in 1..b
      BY <1>3, <1>5 DEF Path
    <2>2. Path(x) = DisplayName[x]
      <3>1. CASE annotated = {}
        BY <3>1 DEF Path
      <3>2. CASE annotated = Subtree
        <4>1. current \notin Range(DisplayName[n])
          BY <1>5, <3>2 DEF Subtree
        <4>2. x \notin Subtree
          BY <1>1, <2>1, <4>1, BelowCurrent
        <4>3. QED
          BY <3>2, <4>2 DEF Path
      <3>3. QED
        BY <3>1, <3>2 DEF Whole
    <2>3. x \in SNSs /\ Len(Path(x)) = i /\ \A j \in 1..i : Path(x)[j] = Path(n)[j]
      BY <1>1, <1>4, <2>1, <2>2
    <2>4. ASSUME x \in Subtree
          PROVE  \E y \in 2..i : Path(n)[y] = current /\ \A j \in y..Len(Path(n)) : Path(n)[j] \in Subtree
      <3>1. current \in Range(DisplayName[n]) /\ i >= c
        BY <1>1, <2>1, <2>4, BelowCurrent
      <3>2. DisplayName[n][c] = current /\ c \in 2..i
        BY <1>1, <1>3, <3>1, OnTheWay
      <3>3. ASSUME NEW j \in c..b PROVE DisplayName[n][j] \in Subtree
        <4>1. j \in 1..b /\ j >= c
          BY <1>3
        <4>2. QED
          BY <1>1, <3>1, <4>1, BelowCurrent
      <3>4. QED
        BY <2>1, <3>2, <3>3
    <2>5. QED
      BY <2>3, <2>4
  <1>6. CASE n \in annotated
    <2>1. annotated = Subtree /\ current \notin Range(DisplayName[to]) /\ n \in Subtree /\ Path(n) = NewPath(n)
          /\ current \in Range(DisplayName[n])
      BY <1>6 DEF Whole, Path, Subtree
    <2>2. /\ Len(Path(n)) = a + b - c + 1 /\ b >= c
          /\ \A j \in 1..a : Path(n)[j] = DisplayName[to][j]
          /\ \A j \in (a + 1)..Len(Path(n)) : Path(n)[j] = DisplayName[n][c + j - a - 1]
      BY <2>1, NewPathNames
    <2>3. ASSUME NEW j \in (a + 1)..Len(Path(n))
          PROVE  c + j - a - 1 \in 2..b /\ c + j - a - 1 >= c /\ Path(n)[j] \in Subtree
      <3>1. c + j - a - 1 \in 2..b /\ c + j - a - 1 \in 1..b /\ c + j - a - 1 >= c
        <4> HIDE DEF a, b, c
        <4>1. QED
          BY <1>3, <2>2
      <3>2. QED
        BY <1>1, <2>1, <2>2, <3>1, BelowCurrent
    <2>4. CASE i <= a
      <3>1. i \in 1..a /\ i \in 2..a /\ x = DisplayName[to][i] /\ \A j \in 1..i : j \in 1..a
        BY <1>3, <2>2, <2>4
      <3>2. x \notin Subtree
        BY <2>1, <3>1, BelowCurrent
      <3>3. Path(x) = DisplayName[x]
        BY <2>1, <3>2 DEF Path
      <3>4. x \in SNSs /\ Len(DisplayName[x]) = i /\ \A j \in 1..i : DisplayName[x][j] = DisplayName[to][j]
        BY <1>4, <3>1
      <3>5. \A j \in 1..i : Path(n)[j] = DisplayName[to][j]
        BY <2>2, <3>1
      <3>6. QED
        BY <3>2, <3>3, <3>4, <3>5
    <2>5. CASE ~(i <= a)
      <3> DEFINE y == c + i - a - 1
      <3>1. i \in (a + 1)..Len(Path(n)) /\ a + 1 \in (a + 1)..Len(Path(n)) /\ a + 1 \in 2..i
        <4> HIDE DEF a, b, c
        <4>1. QED
          BY <1>3, <2>2, <2>5
      <3>2. x = DisplayName[n][y] /\ y \in 2..b /\ y >= c /\ x \in Subtree
        BY <2>2, <2>3, <3>1
      <3>3. x \in SNSs /\ Len(DisplayName[x]) = y /\ \A j \in 1..y : DisplayName[x][j] = DisplayName[n][j]
        <4>1. /\ DisplayName[n][y] \in SNSs /\ Len(DisplayName[DisplayName[n][y]]) = y
              /\ \A j \in 1..y : DisplayName[DisplayName[n][y]][j] = DisplayName[n][j]
          <5>1. y \in 2..Len(DisplayName[n])
            BY <3>2
          <5> HIDE DEF y
          <5>2. QED
            BY <1>1, <1>4, <5>1
        <4> HIDE DEF x, y
        <4>2. QED
          BY <3>2, <4>1
      <3>4. Path(x) = NewPath(x)
        BY <2>1, <3>2 DEF Path
      <3>5. /\ Len(Path(x)) = a + y - c + 1
            /\ \A j \in 1..a : Path(x)[j] = DisplayName[to][j]
            /\ \A j \in (a + 1)..Len(Path(x)) : Path(x)[j] = DisplayName[x][c + j - a - 1]
        <4> HIDE DEF x
        <4>1. /\ Len(NewPath(x)) = a + Len(DisplayName[x]) - c + 1
              /\ \A j \in 1..a : NewPath(x)[j] = DisplayName[to][j]
              /\ \A j \in (a + 1)..Len(NewPath(x)) : NewPath(x)[j] = DisplayName[x][c + j - a - 1]
          BY <3>2, NewPathNames
        <4> HIDE DEF a, b, c, y
        <4>2. QED
          BY <3>3, <3>4, <4>1
      <3>6. Len(Path(x)) = i
        <4>1. y \in Int /\ y = c + i - a - 1
          BY <3>2
        <4> HIDE DEF a, b, c, y
        <4>2. QED
          BY <1>3, <3>5, <4>1
      <3>7. ASSUME NEW j \in 1..i PROVE Path(x)[j] = Path(n)[j]
        <4>1. CASE j <= a
          <5>1. j \in 1..a
            BY <1>3, <4>1
          <5>2. QED
            BY <2>2, <3>5, <5>1
        <4>2. CASE ~(j <= a)
          <5>1. j \in (a + 1)..i /\ j \in (a + 1)..Len(Path(n)) /\ c + j - a - 1 \in 1..y
            <6>1. y \in Int /\ y = c + i - a - 1
              BY <3>2
            <6> HIDE DEF a, b, c, y
            <6>2. QED
              BY <1>3, <2>2, <4>2, <6>1
          <5>2. QED
            BY <2>2, <3>3, <3>5, <3>6, <5>1
        <4>3. QED
          BY <4>1, <4>2
      <3>8. Path(n)[a + 1] = current
        <4>1. c + (a + 1) - a - 1 = c
          BY <1>3
        <4>2. DisplayName[n][c] = current
          BY <1>1, <2>1, OnTheWay
        <4>3. QED
          BY <2>2, <3>1, <4>1, <4>2
      <3>9. \E z \in 2..i : Path(n)[z] = current /\ \A j \in z..Len(Path(n)) : Path(n)[j] \in Subtree
        BY <2>3, <3>1, <3>8
      <3>10. QED
        BY <3>2, <3>3, <3>6, <3>7, <3>9
    <2>6. QED
      BY <2>4, <2>5
  <1>7. QED
    BY <1>5, <1>6

(***************************************************************************)
(* The depth annotations are strings, which sort like numbers as long as   *)
(* no namespace, where it is or where it may go, is ten levels deep.       *)
(***************************************************************************)
Shallow == \A m, n \in Nodes : Depth(m) + Depth(n) < 10

\* What is left of the walk through the DB, and of what it knows.
InDB == worker.at \in {"remove", "add"}
Left == IF worker.at = "remove" THEN worker.todo ELSE IF worker.at = "add" THEN worker.todo \ {worker.n} ELSE {}

DownDB ==
    InDB =>
        /\ current \in worker.todo => worker.n = current /\ worker.todo = Subtree
        /\ Parent(worker.n) \notin worker.todo
        /\ \A m \in Subtree \ {current} : Parent(m) \in worker.todo => m \in worker.todo

\* The subtree is under one key, or is on its way from one to another, or has keys of its own.
Together ==
    /\ \A n \in Subtree \ Left : Holders(crqForest, n) \ Subtree \subseteq Holders(crqForest, current)
    /\ \A n \in Left : Holders(crqForest, n) \ Subtree \subseteq Holders(crqForest, current) \cup {worker.oldKey}

WalkKeys ==
    InDB => worker.oldKey \in Keys \cup {NoKey} /\ worker.newKey \in (Keys \ Subtree) \cup {NoKey}

BetweenKeys ==
    InDB /\ worker.newKey # NoKey =>
        /\ \A n \in Subtree : n \notin Keys
        /\ \A n \in Subtree \ worker.todo : Holders(crqForest, n) = {worker.newKey}
        /\ \A n \in worker.todo : Holders(crqForest, n) \subseteq {worker.oldKey}
        /\ worker.at = "add" => Holders(crqForest, worker.n) = {}

Undisturbed == ~raced /\ ~keyMoved /\ ~mixed

OrderInDB == Tidy(crqForest) /\ Together /\ WalkKeys /\ BetweenKeys

DbInv == Forest(crqForest, SNSs) /\ DownDB /\ (Undisturbed => OrderInDB)

(***************************************************************************)
(* A rebuild of the DB from paths of one tree is in order.                 *)
(***************************************************************************)
LEMMA RebuiltInOrder ==
    ASSUME current \in SNSs, to \in Nodes, Whole, Shallow,
           NEW F, F = Rebuilt(LeafPaths, Depths)
    PROVE  /\ Tidy(F)
           /\ \A n \in Subtree : Holders(F, n) \ Subtree \subseteq Holders(F, current)
  <1> DEFINE P == LeafPaths
             r == RqDepth + 2
  <1>1. annotated \subseteq Subtree
    BY DEF Whole
  <1>2. PathsIn(P, SNSs) /\ IsFiniteSet(SNSs) /\ RqDepth \in Nat
    BY <1>1, RebuiltNames
  <1>3. \A p \in P : \E n \in SNSs : p = Path(n)
    BY DEF LeafPaths
  <1>4. ASSUME NEW n \in SNSs PROVE Len(Path(n)) \in Nat /\ Len(Path(n)) <= 10
    <2>1. n \in Nodes /\ current \in Nodes /\ Len(DisplayName[n]) \in Nat \ {0} /\ Len(DisplayName[to]) \in Nat \ {0}
          /\ Len(DisplayName[current]) \in Nat /\ Len(DisplayName[current]) > 1
      BY Names, MigrationAssumption
    <2> DEFINE a == Len(DisplayName[to])
               b == Len(DisplayName[n])
               c == Len(DisplayName[current])
    <2>2. a \in Nat \ {0} /\ b \in Nat \ {0} /\ c \in Nat /\ c > 1
      BY <2>1
    <2>3. (a - 1) + (b - 1) < 10
      BY <2>1 DEF Shallow, Depth
    <2>4. CASE n \notin annotated
      <3>1. Len(Path(n)) = b
        BY <2>4 DEF Path
      <3> HIDE DEF a, b, c
      <3>2. QED
        BY <2>2, <2>3, <3>1
    <2>5. CASE n \in annotated
      <3>1. Path(n) = NewPath(n) /\ n \in Subtree
        BY <1>1, <2>5 DEF Path
      <3>2. Len(Path(n)) = a + b - c + 1 /\ b >= c
        BY <3>1, NewPathNames
      <3> HIDE DEF a, b, c
      <3>3. QED
        BY <2>2, <2>3, <3>2
    <2>6. QED
      BY <2>4, <2>5
  <1>5. OneTree(P, Depths)
    <2>1. ASSUME NEW p \in P, NEW i \in 2..Len(p) PROVE Depths[p[i]] = i - 1
      <3>1. PICK n \in SNSs : p = Path(n)
        BY <1>3
      <3>2. p[i] \in SNSs /\ Len(Path(p[i])) = i
        BY <3>1, TreePaths
      <3>3. QED
        BY <3>2 DEF Depths, DepthOf
    <2>2. ASSUME NEW p \in P, NEW q \in P, NEW i \in 2..Len(p), NEW j \in 2..Len(q), p[i] = q[j]
          PROVE  i = j /\ \A x \in 1..i : p[x] = q[x]
      <3>1. PICK m \in SNSs : p = Path(m)
        BY <1>3
      <3>2. PICK n \in SNSs : q = Path(n)
        BY <1>3
      <3>3. Len(Path(p[i])) = i /\ \A x \in 1..i : Path(p[i])[x] = p[x]
        BY <3>1, TreePaths
      <3>4. Len(Path(q[j])) = j /\ \A x \in 1..j : Path(q[j])[x] = q[x]
        BY <3>2, TreePaths
      <3>5. QED
        BY <2>2, <3>3, <3>4
    <2>3. \A p \in P : Len(p) <= 10
      BY <1>3, <1>4
    <2>4. QED
      BY <2>1, <2>2, <2>3 DEF OneTree
  <1> HIDE DEF P
  <1>6. /\ Tidy(F)
        /\ \A m, k : k \in Holders(F, m) <=> \E p \in P : \E i \in r..Len(p) : p[i] = m /\ p[r] = k
    BY <1>2, <1>5, RebuiltTidy DEF P
  <1>7. ASSUME NEW n \in Subtree, NEW k \in Holders(F, n), k \notin Subtree PROVE k \in Holders(F, current)
    <2>1. PICK p \in P : \E i \in r..Len(p) : p[i] = n /\ p[r] = k
      BY <1>6
    <2>2. PICK i \in r..Len(p) : p[i] = n /\ p[r] = k
      BY <2>1
    <2>3. PICK l \in SNSs : p = Path(l)
      BY <1>3, <2>1 DEF P
    <2>4. Len(p) \in Nat /\ r \in Nat /\ r >= 2 /\ i \in 2..Len(p)
      BY <1>2, <1>4, <2>3
    <2>5. PICK c \in 2..i : p[c] = current /\ \A j \in c..Len(p) : p[j] \in Subtree
      <3>1. i \in 2..Len(Path(l)) /\ Path(l)[i] \in Subtree
        BY <2>2, <2>3, <2>4
      <3>2. \E c \in 2..i : Path(l)[c] = current /\ \A j \in c..Len(Path(l)) : Path(l)[j] \in Subtree
        BY <3>1, TreePaths
      <3>3. QED
        BY <2>3, <3>2
    <2>6. c \in r..Len(p)
      <3>1. ASSUME ~(r <= c) PROVE FALSE
        <4>1. r \in c..Len(p)
          BY <2>4, <3>1
        <4>2. QED
          BY <1>7, <2>2, <2>5, <4>1
      <3>2. QED
        BY <2>4, <3>1
    <2>7. QED
      BY <1>6, <2>1, <2>2, <2>5, <2>6
  <1>8. QED
    BY <1>6, <1>7

(***************************************************************************)
(* It stays in order while the DB does and the worker is not in the walk   *)
(* through it, or does nothing.                                            *)
(***************************************************************************)
LEMMA DbKeeps ==
    ASSUME DbInv, UNCHANGED <<current, crqForest>>, Undisturbed' => Undisturbed,
           UNCHANGED worker \/ (~InDB /\ ~InDB')
    PROVE  DbInv'
  <1>1. Subtree' = Subtree /\ Keys' = Keys
    BY DEF Subtree, Keys
  <1>2. Forest(crqForest, SNSs)' /\ (Tidy(crqForest) => Tidy(crqForest)')
    BY DEF DbInv
  <1>3. CASE UNCHANGED worker
    <2>1. Left' = Left /\ (InDB' <=> InDB)
      BY <1>3 DEF Left, InDB
    <2>2. DownDB'
      BY <1>1, <1>3, <2>1 DEF DbInv, DownDB
    <2>3. Undisturbed => (Together /\ WalkKeys /\ BetweenKeys)'
      BY <1>1, <1>3, <2>1 DEF DbInv, OrderInDB, Together, WalkKeys, BetweenKeys
    <2>4. QED
      BY <1>2, <2>2, <2>3 DEF DbInv, OrderInDB
  <1>4. CASE ~InDB /\ ~InDB'
    <2>1. Left' = {} /\ Left = {}
      BY <1>4 DEF Left, InDB
    <2>2. DownDB' /\ WalkKeys' /\ BetweenKeys'
      BY <1>4 DEF DownDB, WalkKeys, BetweenKeys
    <2>3. Undisturbed => Together'
      BY <1>1, <2>1 DEF DbInv, OrderInDB, Together
    <2>4. QED
      BY <1>2, <2>2, <2>3 DEF DbInv, OrderInDB
  <1>5. QED
    BY <1>3, <1>4

(***************************************************************************)
(* The walk begins at the namespace itself, and in an order in which the   *)
(* parents come first.                                                     *)
(***************************************************************************)
LEMMA DbLookUp ==
    ASSUME Types, DbInv, LookUpKeys
    PROVE  DbInv'
  <1> USE DEF object, cluster, bounds, history
  <1>1. UNCHANGED <<current, crqForest>> /\ worker.at = "keys" /\ worker \in Workers
    BY DEF LookUpKeys, Types, WorkerTypes
  <1>2. Subtree' = Subtree /\ Keys' = Keys /\ Left = {} /\ Forest(crqForest, SNSs)
    BY <1>1 DEF Subtree, Keys, Left, DbInv
  <1>3. current \in SNSs /\ to \in Nodes /\ current \in Subtree /\ Parent(current) \notin Subtree
    BY OnTheWay, ParentPaths DEF Types, ObjectTypes
  <1>4. PICK i \in Key(current), j \in Key(to) :
           /\ worker' = [worker EXCEPT !.at = "remove", !.todo = Subtree, !.n = current, !.oldKey = i, !.newKey = j]
           /\ keyMoved' = (keyMoved \/ (j # NoKey /\ Subtree \cap Keys # {}))
    BY DEF LookUpKeys
  <1>5. /\ worker'.at = "remove" /\ worker'.todo = Subtree /\ worker'.n = current
        /\ worker'.oldKey = i /\ worker'.newKey = j
    BY <1>1, <1>4 DEF Workers
  <1>6. InDB' /\ Left' = Subtree
    BY <1>5 DEF InDB, Left
  <1>7. DownDB'
    BY <1>1, <1>2, <1>3, <1>5 DEF DownDB
  <1>8. ASSUME Undisturbed' PROVE OrderInDB'
    <2>1. ~keyMoved'
      BY <1>8 DEF Undisturbed
    <2>2. ~keyMoved /\ (j = NoKey \/ Subtree \cap Keys = {})
      BY <1>4, <2>1, Zenon
    <2>3. UNCHANGED <<raced, mixed>>
      BY DEF LookUpKeys
    <2>4. Undisturbed
      BY <1>8, <2>2, <2>3 DEF Undisturbed
    <2>5. Tidy(crqForest) /\ Together
      BY <2>4 DEF DbInv, OrderInDB
    <2>6. \A n \in Subtree : Holders(crqForest, n) \ Subtree \subseteq Holders(crqForest, current)
      BY <1>2, <2>5 DEF Together
    <2>7. /\ \/ i = NoKey /\ Holders(crqForest, current) = {}
             \/ i \in Keys /\ Holders(crqForest, current) = {i}
          /\ j \in Keys \cup {NoKey}
      <3>1. KeysOf(current) = Holders(crqForest, current) /\ \A a, b \in KeysOf(current) : a = b
        BY <1>2, <2>5, KeysOfHolders, TidyIsOnce
      <3>2. KeysOf(current) \subseteq Keys /\ KeysOf(to) \subseteq Keys
        BY DEF KeysOf
      <3>3. j \in Keys \cup {NoKey}
        BY <3>2 DEF Key
      <3>4. CASE KeysOf(current) = {}
        <4>1. i = NoKey
          BY <3>4 DEF Key
        <4>2. QED
          BY <3>1, <3>3, <3>4, <4>1
      <3>5. CASE KeysOf(current) # {}
        <4>1. i \in KeysOf(current)
          BY <3>5 DEF Key
        <4>2. KeysOf(current) = {i}
          BY <3>1, <4>1
        <4>3. QED
          BY <3>1, <3>2, <3>3, <4>1, <4>2
      <3>6. QED
        BY <3>4, <3>5
    <2>8. Together'
      BY <1>1, <1>2, <1>5, <1>6, <2>6 DEF Together
    <2>9. WalkKeys'
      BY <1>2, <1>5, <2>2, <2>7 DEF WalkKeys
    <2>10. BetweenKeys'
      <3> SUFFICES ASSUME j # NoKey
                   PROVE  /\ \A n \in Subtree : n \notin Keys
                          /\ \A n \in Subtree : Holders(crqForest, n) \subseteq {i}
        BY <1>1, <1>2, <1>5 DEF BetweenKeys
      <3>1. Subtree \cap Keys = {}
        BY <2>2
      <3>2. \A n : Holders(crqForest, n) \subseteq Keys
        BY DEF Holders, Keys
      <3>3. QED
        BY <2>6, <2>7, <3>1, <3>2
    <2>11. QED
      BY <1>1, <2>5, <2>8, <2>9, <2>10 DEF OrderInDB
  <1>9. QED
    BY <1>1, <1>2, <1>7, <1>8 DEF DbInv

(***************************************************************************)
(* A key is not in its own list, so removing it from there does nothing.   *)
(***************************************************************************)
LEMMA RemovedSelf ==
    ASSUME NEW S, Forest(crqForest, S), Tidy(crqForest), NEW k \in Keys
    PROVE  Tidy(RemoveNS(k, k)) /\ \A m : Holders(RemoveNS(k, k), m) = Holders(crqForest, m)
  <1> DEFINE F == RemoveNS(k, k)
  <1>1. DOMAIN F = Keys /\ \A j \in Keys \ {k} : F[j] = crqForest[j]
    BY DEF RemoveNS, Keys
  <1>2. F[k] = RemoveFirst(crqForest[k], k)
    BY DEF RemoveNS, Keys
  <1>3. ~ \E m \in 1..Len(crqForest[k]) : crqForest[k][m] = k
    BY DEF Tidy, Keys
  <1>4. RemoveFirst(crqForest[k], k) = crqForest[k]
    BY <1>3 DEF RemoveFirst
  <1>5. DOMAIN F = DOMAIN crqForest /\ \A j \in DOMAIN crqForest : F[j] = crqForest[j]
    BY <1>1, <1>2, <1>4 DEF Keys
  <1> HIDE DEF F
  <1>6. Tidy(F) /\ \A m : Holders(F, m) = Holders(crqForest, m)
    BY <1>5 DEF Tidy, Holders
  <1>7. QED
    BY <1>6 DEF F

(***************************************************************************)
(* Removing a namespace from the old key.                                  *)
(***************************************************************************)
LEMMA DbRemove ==
    ASSUME Types, DbInv, RemoveFromOldKey
    PROVE  DbInv'
  <1> USE DEF object, cluster, bounds, history
  <1> DEFINE n == worker.n
             o == worker.oldKey
             H(m) == Holders(crqForest, m)
  <1>1. /\ UNCHANGED <<current, raced, keyMoved, mixed>> /\ worker.at = "remove" /\ WorkerTypes /\ worker \in Workers
        /\ n \in worker.todo /\ worker.todo \subseteq Subtree
    BY DEF RemoveFromOldKey, Types, WorkerTypes
  <1>2. /\ Subtree' = Subtree /\ Left = worker.todo /\ Forest(crqForest, SNSs) /\ InDB
        /\ (Undisturbed' <=> Undisturbed)
    BY <1>1 DEF Subtree, Left, DbInv, InDB, Undisturbed
  <1>3. current \in Subtree
    BY OnTheWay DEF Types, ObjectTypes
  <1>4. /\ Undisturbed => OrderInDB
        /\ DownDB
    BY DEF DbInv
  <1>5. NoKey \notin SNSs /\ \A m : H(m) \subseteq Keys /\ NoKey \notin H(m)
    BY <1>2, Names DEF Forest, Holders, Keys
  <1>6. ASSUME worker'.at = "add", \A f \in {"src", "todo", "n", "oldKey", "newKey"} : worker'[f] = worker[f],
               Keys' = Keys, Forest(crqForest', SNSs),
               Undisturbed =>
                  /\ Tidy(crqForest') /\ \A m \in Subtree \ {n} : Holders(crqForest', m) = H(m)
                  /\ Holders(crqForest', n) \subseteq H(n)
                  /\ H(n) \subseteq Holders(crqForest', n) \cup {o}
                  /\ o \notin Subtree => o \notin Holders(crqForest', n)
                  /\ BetweenKeys /\ worker.newKey # NoKey => Holders(crqForest', n) = {}
        PROVE  DbInv'
    <2>1. /\ worker'.todo = worker.todo /\ worker'.n = n /\ worker'.oldKey = o /\ worker'.newKey = worker.newKey
          /\ InDB' /\ Left' = worker.todo \ {n}
      BY <1>6 DEF InDB, Left
    <2>2. DownDB'
      BY <1>1, <1>2, <1>4, <2>1 DEF DownDB
    <2>3. ASSUME Undisturbed PROVE OrderInDB'
      <3>1. Together /\ WalkKeys /\ BetweenKeys
        BY <1>4, <2>3 DEF OrderInDB
      <3>2. WalkKeys'
        BY <1>2, <1>6, <2>1, <3>1 DEF WalkKeys
      <3>3. BetweenKeys'
        <4> SUFFICES ASSUME worker.newKey # NoKey
                     PROVE  /\ \A m \in Subtree : m \notin Keys
                            /\ \A m \in Subtree \ worker.todo : Holders(crqForest', m) = {worker.newKey}
                            /\ \A m \in worker.todo : Holders(crqForest', m) \subseteq {o}
                            /\ Holders(crqForest', n) = {}
          BY <1>2, <1>6, <2>1 DEF BetweenKeys
        <4>1. /\ \A m \in Subtree : m \notin Keys
              /\ \A m \in Subtree \ worker.todo : H(m) = {worker.newKey}
              /\ \A m \in worker.todo : H(m) \subseteq {o}
          BY <1>2, <3>1 DEF BetweenKeys
        <4>2. Holders(crqForest', n) = {}
          BY <1>6, <2>3, <3>1
        <4>3. QED
          BY <1>1, <1>6, <2>3, <4>1, <4>2
      <3>4. Together'
        <4>1. /\ \A m \in Subtree \ worker.todo : H(m) \ Subtree \subseteq H(current)
              /\ \A m \in worker.todo : H(m) \ Subtree \subseteq H(current) \cup {o}
          BY <1>2, <3>1 DEF Together
        <4>2. CASE n = current
          <5>1. worker.todo = Subtree
            BY <1>1, <1>2, <1>4, <4>2 DEF DownDB
          <5>2. \A m \in Subtree \ {n} : Holders(crqForest', m) \ Subtree \subseteq Holders(crqForest', current) \cup {o}
            BY <1>6, <2>3, <4>1, <4>2, <5>1
          <5>3. QED
            BY <1>1, <1>2, <2>1, <4>2, <5>1, <5>2 DEF Together
        <4>3. CASE n # current
          <5>1. Holders(crqForest', current) = H(current)
            BY <1>3, <1>6, <2>3, <4>3
          <5>2. \A m \in Subtree \ worker.todo : Holders(crqForest', m) \ Subtree \subseteq Holders(crqForest', current)
            BY <1>1, <1>6, <2>3, <4>1, <5>1
          <5>3. \A m \in worker.todo \ {n} : Holders(crqForest', m) \ Subtree \subseteq Holders(crqForest', current) \cup {o}
            BY <1>1, <1>6, <2>3, <4>1, <5>1
          <5>4. Holders(crqForest', n) \ Subtree \subseteq Holders(crqForest', current)
            BY <1>1, <1>6, <2>3, <4>1, <5>1
          <5>5. QED
            BY <1>1, <1>2, <2>1, <5>2, <5>3, <5>4 DEF Together
        <4>4. QED
          BY <4>2, <4>3
      <3>5. QED
        BY <1>6, <2>3, <3>2, <3>3, <3>4 DEF OrderInDB
    <2>4. QED
      BY <1>2, <1>6, <2>2, <2>3 DEF DbInv
  <1>7. CASE o \in {NoKey, current} /\ Step("add") /\ UNCHANGED crqForest
    <2>1. /\ worker'.at = "add"
          /\ \A f \in {"src", "todo", "n", "oldKey", "newKey"} : worker'[f] = worker[f]
      BY <1>1, <1>7, WorkerRecord
    <2>2. Keys' = Keys
      BY <1>7 DEF Keys
    <2>3. ASSUME BetweenKeys, worker.newKey # NoKey PROVE H(n) = {}
      <3>1. H(n) \subseteq {o} /\ current \notin Keys
        BY <1>1, <1>2, <1>3, <2>3 DEF BetweenKeys
      <3>2. QED
        BY <1>5, <1>7, <3>1
    <2>4. o \notin Subtree => o \notin H(n)
      BY <1>3, <1>5, <1>7
    <2>5. QED
      BY <1>2, <1>4, <1>6, <1>7, <2>1, <2>2, <2>3, <2>4 DEF OrderInDB
  <1>8. CASE o \in Keys \ {current} /\ crqForest' = RemoveNS(n, o) /\ Step("add")
    <2>1. /\ worker'.at = "add"
          /\ \A f \in {"src", "todo", "n", "oldKey", "newKey"} : worker'[f] = worker[f]
      BY <1>1, <1>8, WorkerRecord
    <2>2. Keys' = Keys
      BY <1>8 DEF Keys, RemoveNS
    <2>3. Forest(crqForest', SNSs)
      BY <1>2, <1>8, RemovedForest
    <2>4. ASSUME Undisturbed
          PROVE  /\ Tidy(crqForest') /\ \A m \in Subtree \ {n} : Holders(crqForest', m) = H(m)
                 /\ Holders(crqForest', n) \subseteq H(n)
                 /\ H(n) \subseteq Holders(crqForest', n) \cup {o}
                 /\ o \notin Subtree => o \notin Holders(crqForest', n)
                 /\ BetweenKeys /\ worker.newKey # NoKey => Holders(crqForest', n) = {}
      <3>0. Tidy(crqForest)
        BY <1>4, <2>4 DEF OrderInDB
      <3>1. CASE n = o
        <4>1. Tidy(crqForest') /\ \A m : Holders(crqForest', m) = H(m)
          BY <1>2, <1>8, <3>0, <3>1, RemovedSelf
        <4>2. ~ (BetweenKeys /\ worker.newKey # NoKey)
          BY <1>1, <1>2, <1>8, <3>1 DEF BetweenKeys
        <4>3. QED
          BY <1>1, <3>1, <4>1, <4>2
      <3>2. CASE n # o
        <4>1. Tidy(crqForest') /\ \A m : Holders(crqForest', m) = IF m = n THEN H(n) \ {o} ELSE H(m)
          BY <1>2, <1>8, <3>0, <3>2, RemovedTidy
        <4>2. BetweenKeys /\ worker.newKey # NoKey => H(n) \subseteq {o}
          BY <1>1, <1>2 DEF BetweenKeys
        <4>3. QED
          BY <4>1, <4>2
      <3>3. QED
        BY <3>1, <3>2
    <2>5. QED
      BY <1>6, <2>1, <2>2, <2>3, <2>4
  <1>9. CASE o \notin Keys \cup {NoKey, current} /\ Step("error") /\ UNCHANGED crqForest
    <2>1. worker'.at = "error" /\ ~InDB'
      BY <1>1, <1>9, WorkerRecord DEF InDB
    <2>2. ~Undisturbed
      BY <1>2, <1>4, <1>9 DEF OrderInDB, WalkKeys
    <2>3. QED
      BY <1>2, <1>9, <2>1, <2>2 DEF DbInv, DownDB
  <1>10. QED
    BY <1>7, <1>8, <1>9 DEF RemoveFromOldKey

(***************************************************************************)
(* Adding it to the new one, and going on to the next.                     *)
(***************************************************************************)
LEMMA DbAdd ==
    ASSUME Types, DbInv, AddToNewKey
    PROVE  DbInv'
  <1> USE DEF object, cluster, bounds, history
  <1> DEFINE n == worker.n
             k == worker.newKey
             rest == worker.todo \ {n}
             H(m) == Holders(crqForest, m)
             G(m) == Holders(crqForest', m)
  <1>1. /\ UNCHANGED <<current, raced, keyMoved, mixed>> /\ worker.at = "add" /\ WorkerTypes /\ worker \in Workers
        /\ n \in worker.todo /\ worker.todo \subseteq Subtree /\ Subtree \subseteq SNSs
    BY DEF AddToNewKey, Types, WorkerTypes, Subtree
  <1>2. /\ Subtree' = Subtree /\ Left = rest /\ Forest(crqForest, SNSs) /\ InDB
        /\ (Undisturbed' <=> Undisturbed) /\ DownDB /\ (Undisturbed => OrderInDB)
    BY <1>1 DEF Subtree, Left, DbInv, InDB, Undisturbed
  <1>3. current \in Subtree /\ k \in SNSs \cup {NoKey} /\ NoKey \notin SNSs
    BY <1>1, OnTheWay, Names DEF Types, ObjectTypes, Workers
  <1>4. PICK then \in {"upqBack", "complete"} : NextNode("remove", then)
    BY DEF AddToNewKey
  <1>5. /\ worker'.oldKey = worker.oldKey /\ worker'.newKey = k /\ worker'.todo = rest
        /\ \/ worker'.todo = {} /\ worker'.at = then
           \/ worker'.at = "remove" /\ worker'.n \in worker'.todo /\ Parent(worker'.n) \notin worker'.todo
    BY <1>1, <1>4, WorkerRecord
  <1>6. /\ Left' = rest
        /\ InDB' => worker'.at = "remove" /\ Parent(worker'.n) \notin rest
    BY <1>5 DEF Left, InDB
  <1>7. current \notin rest
    BY <1>1, <1>2 DEF DownDB
  <1>8. DownDB'
    <2>1. Parent(n) \notin worker.todo /\ \A m \in Subtree \ {current} : Parent(m) \in worker.todo => m \in worker.todo
      BY <1>2 DEF DownDB
    <2>2. \A m \in Subtree \ {current} : Parent(m) \in rest => m \in rest
      BY <2>1
    <2>3. QED
      BY <1>1, <1>2, <1>5, <1>6, <1>7, <2>2 DEF DownDB
  <1>9. CASE k = NoKey
    <2>1. UNCHANGED crqForest
      BY <1>9 DEF AddToNewKey
    <2>2. Keys' = Keys
      BY <2>1 DEF Keys
    <2>3. ASSUME Undisturbed PROVE OrderInDB'
      <3>1. OrderInDB
        BY <1>2, <2>3
      <3>2. Together'
        BY <1>1, <1>2, <1>5, <1>6, <2>1, <3>1 DEF OrderInDB, Together
      <3>3. WalkKeys'
        BY <1>2, <1>5, <2>2, <3>1 DEF OrderInDB, WalkKeys
      <3>4. BetweenKeys'
        BY <1>5, <1>9 DEF BetweenKeys
      <3>5. QED
        BY <2>1, <3>1, <3>2, <3>3, <3>4 DEF OrderInDB
    <2>4. QED
      BY <1>2, <1>8, <2>1, <2>3 DEF DbInv
  <1>10. CASE k # NoKey
    <2>1. crqForest' = AddNSToKey(k, n) /\ k \in SNSs /\ n \in SNSs
      BY <1>1, <1>3, <1>10 DEF AddToNewKey
    <2>2. Forest(crqForest', SNSs)
      BY <1>2, <2>1, AddedForest
    <2>3. ASSUME Undisturbed PROVE OrderInDB'
      <3>1. Tidy(crqForest) /\ WalkKeys /\ BetweenKeys
        BY <1>2, <2>3 DEF OrderInDB
      <3>2. k \in Keys /\ k \notin Subtree /\ k # n /\ worker.oldKey \in Keys \cup {NoKey}
        BY <1>1, <1>2, <1>10, <3>1 DEF WalkKeys
      <3>3. /\ \A m \in Subtree : m \notin Keys
            /\ \A m \in Subtree \ worker.todo : H(m) = {k}
            /\ \A m \in worker.todo : H(m) \subseteq {worker.oldKey}
            /\ H(n) = {}
        BY <1>1, <1>2, <1>10, <3>1 DEF BetweenKeys
      <3>4. H(k) \subseteq {k}
        BY <3>1, <3>2 DEF Tidy, Holders, Keys
      <3>5. Tidy(crqForest') /\ \A m : G(m) = IF m \in {n, k} THEN {k} ELSE H(m)
        <4> HIDE DEF n, k
        <4>1. Tidy(AddNSToKey(k, n)) /\ \A m : Holders(AddNSToKey(k, n), m) = IF m \in {n, k} THEN {k} ELSE H(m)
          BY <1>2, <2>1, <3>1, <3>3, <3>4, AddedTidy
        <4>2. QED
          BY <2>1, <4>1
      <3>6. Keys' = Keys
        BY <2>1, <3>2 DEF Keys, AddNSToKey
      <3>7. \A m \in Subtree \ rest : G(m) = {k}
        BY <1>1, <3>2, <3>3, <3>5
      <3>8. \A m \in rest : G(m) \subseteq {worker.oldKey}
        BY <1>1, <3>2, <3>3, <3>5
      <3>9. Together'
        <4>1. G(current) = {k}
          BY <1>3, <1>7, <3>7
        <4>2. QED
          BY <1>1, <1>2, <1>5, <1>6, <3>7, <3>8, <4>1 DEF Together
      <3>10. WalkKeys'
        BY <1>2, <1>5, <3>2, <3>6 DEF WalkKeys
      <3>11. BetweenKeys'
        BY <1>2, <1>5, <1>6, <3>3, <3>6, <3>7, <3>8 DEF BetweenKeys
      <3>12. QED
        BY <3>5, <3>9, <3>10, <3>11 DEF OrderInDB
    <2>4. QED
      BY <1>2, <1>8, <2>2, <2>3 DEF DbInv
  <1>11. QED
    BY <1>9, <1>10

(***************************************************************************)
(* The subnamespace controller adds a namespace only where it is missing,  *)
(* under the key of its parent.                                            *)
(***************************************************************************)
LEMMA DbEnsured ==
    ASSUME Types, Elsewhere, DbInv, UNCHANGED <<current, worker, keyMoved, mixed>>,
           NEW p \in Nodes, NEW n \in SNSs, <<p, n>> \in DOMAIN sns, EnsureSNSInDB(p, n)
    PROVE  DbInv'
  <1> DEFINE H(m) == Holders(crqForest, m)
             G(m) == Holders(crqForest', m)
  <1>1. /\ worker \in Workers /\ worker.todo \subseteq Subtree /\ Subtree \subseteq SNSs /\ current \in Subtree
        /\ InDB => worker.n \in worker.todo
    BY OnTheWay DEF Types, WorkerTypes, ObjectTypes, Subtree, InDB
  <1>2. /\ Subtree' = Subtree /\ Left' = Left /\ Forest(crqForest, SNSs) /\ (InDB' <=> InDB)
        /\ DownDB /\ (Undisturbed => OrderInDB) /\ DownDB'
    BY DEF Subtree, Left, DbInv, InDB, DownDB
  <1>3. raced' = (raced \/ (crqForest' # crqForest /\ InDB /\ n \in worker.todo /\ worker.newKey # NoKey))
    BY DEF EnsureSNSInDB, InDB
  <1>4. Undisturbed' => Undisturbed /\ ~ (crqForest' # crqForest /\ InDB /\ n \in worker.todo /\ worker.newKey # NoKey)
    <2>1. ~raced' => ~raced /\ ~ (crqForest' # crqForest /\ InDB /\ n \in worker.todo /\ worker.newKey # NoKey)
      BY <1>3, Zenon
    <2>2. QED
      BY <2>1 DEF Undisturbed
  <1>5. \/ crqForest' = crqForest
        \/ KeysOf(n) = {} /\ \E k \in Keys : crqForest' = AddNSToKey(k, n) /\ k \in KeysOf(p)
        \/ KeysOf(n) = {} /\ crqForest' = AddNSToKey(n, n)
    <2>1. CASE KeysOf(n) # {} \/ IsRQ(p)
      BY <2>1 DEF EnsureSNSInDB
    <2>2. CASE ~ (KeysOf(n) # {} \/ IsRQ(p))
      <3>1. PICK k \in Key(p) : crqForest' = IF k # NoKey THEN AddNSToKey(k, n)
                                            ELSE IF crqAt'[n] > 0 THEN AddNSToKey(n, n) ELSE crqForest
        BY <2>2 DEF EnsureSNSInDB
      <3>2. k # NoKey => k \in KeysOf(p) /\ k \in Keys
        BY DEF Key, KeysOf
      <3>3. QED
        BY <2>2, <3>1, <3>2
    <2>3. QED
      BY <2>1, <2>2
  <1>6. CASE crqForest' = crqForest
    BY <1>4, <1>6, DbKeeps
  <1>7. ASSUME NEW k \in SNSs, crqForest' = AddNSToKey(k, n), KeysOf(n) = {}, k = n \/ (k \in Keys /\ k \in KeysOf(p))
        PROVE  DbInv'
    <2>1. Forest(crqForest', SNSs)
      BY <1>2, <1>7, AddedForest
    <2>2. H(n) = {} /\ KeysOf(p) = H(p)
      BY <1>2, <1>7, KeysOfHolders
    <2>3. ASSUME Undisturbed' PROVE OrderInDB'
      <3>1. Undisturbed /\ Tidy(crqForest) /\ Together /\ WalkKeys /\ BetweenKeys
        BY <1>2, <1>4, <2>3 DEF OrderInDB
      <3>2. H(k) \subseteq {k}
        BY <1>7, <2>2, <3>1 DEF Tidy, Holders, Keys
      <3>3. Tidy(crqForest') /\ \A m : G(m) = IF m \in {n, k} THEN {k} ELSE H(m)
        BY <1>2, <1>7, <2>2, <3>1, <3>2, AddedTidy
      <3>4. /\ \A m : m # n => G(m) = H(m)
            /\ G(n) = {k}
        <4>1. k # n => H(k) = {k}
          BY <1>7, <3>2 DEF Holders, Keys
        <4>2. QED
          BY <3>3, <4>1
      <3>5. Keys' = Keys \cup {k} /\ (k # n => k \in Keys)
        BY <1>7 DEF Keys, AddNSToKey
      <3>6. crqForest' # crqForest
        BY <2>2, <3>4
      <3>7. InDB /\ worker.newKey # NoKey => n \notin Subtree
        <4>1. ASSUME InDB, worker.newKey # NoKey, n \in Subtree PROVE FALSE
          <5>1. n \notin worker.todo
            BY <1>4, <2>3, <3>6, <4>1
          <5>2. H(n) = {worker.newKey}
            BY <3>1, <4>1, <5>1 DEF BetweenKeys
          <5>3. QED
            BY <2>2, <5>2
        <4>2. QED
          BY <4>1
      <3>8. WalkKeys'
        BY <1>2, <3>1, <3>5 DEF WalkKeys
      <3>9. BetweenKeys'
        <4> SUFFICES ASSUME InDB, worker.newKey # NoKey
                     PROVE  /\ \A m \in Subtree : m \notin Keys'
                            /\ \A m \in Subtree \ worker.todo : G(m) = {worker.newKey}
                            /\ \A m \in worker.todo : G(m) \subseteq {worker.oldKey}
                            /\ worker.at = "add" => G(worker.n) = {}
          BY <1>2 DEF BetweenKeys
        <4>1. /\ \A m \in Subtree : m \notin Keys
              /\ \A m \in Subtree \ worker.todo : H(m) = {worker.newKey}
              /\ \A m \in worker.todo : H(m) \subseteq {worker.oldKey}
              /\ worker.at = "add" => H(worker.n) = {}
          BY <3>1 DEF BetweenKeys
        <4>2. n \notin Subtree /\ \A m \in Subtree : G(m) = H(m)
          BY <3>4, <3>7
        <4>3. QED
          BY <1>1, <3>5, <4>1, <4>2
      <3>10. Together'
        <4>1. /\ \A m \in Subtree \ Left : H(m) \ Subtree \subseteq H(current)
              /\ \A m \in Left : H(m) \ Subtree \subseteq H(current) \cup {worker.oldKey}
          BY <3>1 DEF Together
        <4>2. H(current) \subseteq G(current)
          BY <2>2, <3>4
        <4>3. ASSUME n \in Subtree, n # current, k # n, k \notin Subtree
              PROVE  k \in H(current) \/ (n \in Left /\ k = worker.oldKey)
          <5>1. p = Parent(n)
            <6>1. <<p, n>>[2] = n /\ <<p, n>>[1] = p
              OBVIOUS
            <6>2. QED
              BY <4>3, <6>1 DEF Elsewhere
          <5>2. p \in Subtree
            BY <4>3, <5>1, ParentPaths DEF Types, ObjectTypes
          <5>3. k \in H(p)
            BY <1>7, <2>2, <4>3
          <5>4. CASE p \notin Left
            BY <4>1, <4>3, <5>2, <5>3, <5>4
          <5>5. CASE p \in Left
            <6>1. InDB /\ p \in worker.todo
              BY <5>5 DEF Left, InDB
            <6>2. n \in worker.todo /\ n # worker.n
              BY <1>2, <4>3, <5>1, <6>1 DEF DownDB
            <6>3. n \in Left
              BY <6>1, <6>2 DEF Left, InDB
            <6>4. QED
              BY <4>1, <4>3, <5>3, <5>5, <6>3
          <5>6. QED
            BY <5>4, <5>5
        <4>4. G(n) = {k} /\ (n \in Subtree /\ k = n => k \in Subtree)
          BY <3>4
        <4>5. ASSUME NEW m \in Subtree
              PROVE  /\ m \notin Left => G(m) \ Subtree \subseteq G(current)
                     /\ m \in Left => G(m) \ Subtree \subseteq G(current) \cup {worker.oldKey}
          <5>1. CASE m = n
            BY <4>2, <4>3, <4>4, <5>1
          <5>2. CASE m # n
            BY <3>4, <4>1, <4>2, <5>2
          <5>3. QED
            BY <5>1, <5>2
        <4>6. Left \subseteq Subtree
          BY <1>1 DEF Left
        <4>7. QED
          BY <1>2, <4>5, <4>6 DEF Together
      <3>11. QED
        BY <3>3, <3>8, <3>9, <3>10 DEF OrderInDB
    <2>4. QED
      BY <1>2, <2>1, <2>3 DEF DbInv
  <1>8. Keys \subseteq SNSs
    BY <1>2 DEF Forest, Keys
  <1>9. QED
    BY <1>5, <1>6, <1>7, <1>8

(***************************************************************************)
(* A restart builds the DB anew.                                           *)
(***************************************************************************)
LEMMA DbRestart ==
    ASSUME Shallow, Types, Begun, Restart
    PROVE  DbInv'
  <1> USE DEF object, cluster, bounds, history
  <1>1. /\ UNCHANGED current /\ worker' = Idle /\ crqForest' = Rebuilt(LeafPaths, Depths)
        /\ current \in SNSs /\ to \in Nodes /\ annotated \subseteq Subtree /\ current \notin Range(DisplayName[to])
    BY DEF Restart, Types, ObjectTypes, ClusterTypes, Begun
  <1>2. Subtree' = Subtree /\ ~InDB' /\ Left' = {}
    BY <1>1 DEF Subtree, InDB, Left, Idle
  <1>3. Forest(crqForest', SNSs)
    BY <1>1, RebuiltNames
  <1>4. DownDB' /\ WalkKeys' /\ BetweenKeys'
    BY <1>2 DEF DownDB, WalkKeys, BetweenKeys
  <1>5. ASSUME Undisturbed' PROVE Tidy(crqForest') /\ Together'
    <2>1. mixed' = (mixed \/ annotated \notin {{}, Subtree}) /\ ~mixed'
      BY <1>5 DEF Restart, Undisturbed
    <2>2. ~ (annotated \notin {{}, Subtree})
      BY <2>1, Zenon
    <2>3. Whole
      BY <1>1, <2>2 DEF Whole
    <2>4. /\ Tidy(crqForest')
          /\ \A n \in Subtree : Holders(crqForest', n) \ Subtree \subseteq Holders(crqForest', current)
      BY <1>1, <2>3, RebuiltInOrder
    <2>5. QED
      BY <1>1, <1>2, <2>4 DEF Together
  <1>6. QED
    BY <1>3, <1>4, <1>5 DEF DbInv, OrderInDB

(***************************************************************************)
(* The DB is in order at the start.                                        *)
(***************************************************************************)
LEMMA InitDbInv == ASSUME Shallow, Init PROVE DbInv
  <1>1. /\ current \in SNSs /\ to \in Nodes /\ annotated = {} /\ worker = Idle
        /\ crqForest = Rebuilt(LeafPaths, Depths)
    BY DEF Init
  <1>2. ~InDB /\ Left = {}
    BY <1>1 DEF InDB, Left, Idle
  <1>3. Forest(crqForest, SNSs)
    BY <1>1, RebuiltNames
  <1>4. Whole
    BY <1>1 DEF Whole
  <1>5. Tidy(crqForest) /\ \A n \in Subtree : Holders(crqForest, n) \ Subtree \subseteq Holders(crqForest, current)
    BY <1>1, <1>4, RebuiltInOrder
  <1>6. QED
    BY <1>2, <1>3, <1>5 DEF DbInv, OrderInDB, DownDB, Together, WalkKeys, BetweenKeys

(***************************************************************************)
(* Every step keeps it in order.                                           *)
(***************************************************************************)
LEMMA DbStep ==
    ASSUME Shallow, Types, Begun, Elsewhere, DbInv, [Next]_vars
    PROVE  DbInv'
  <1> USE DEF object, cluster, bounds, history
  <1>w. WorkerTypes /\ worker \in Workers
    BY DEF Types, WorkerTypes
  <1>k. ASSUME UNCHANGED <<current, crqForest, raced, keyMoved, mixed>>,
               UNCHANGED worker \/ (worker.at \notin {"remove", "add"} /\ worker'.at \notin {"remove", "add"})
        PROVE  DbInv'
    BY <1>k, DbKeeps DEF InDB, Undisturbed
  <1>i. Idle.at = "idle"
    BY DEF Idle
  <1>1. CASE CreateMH
    BY <1>1, <1>k DEF CreateMH
  <1>2. CASE TouchMH
    BY <1>2, <1>k DEF TouchMH
  <1>3. CASE Watch
    BY <1>3, <1>k DEF Watch
  <1>4. CASE Reconcile
    <2>1. UNCHANGED <<current, crqForest, raced, keyMoved, mixed>> /\ worker.at = "idle"
      BY <1>4 DEF Reconcile
    <2>2. UNCHANGED worker \/ worker'.at \in {"error", "monitor", "increase", "inprogress"}
      <3>1. CASE ~UNCHANGED worker
        <4>1. PICK at \in {"error", "monitor", "increase", "inprogress"} : Begin(at)
          BY <1>4, <3>1, PassBegins
        <4>2. worker'.at = at
          BY <4>1 DEF Begin, Idle
        <4>3. QED
          BY <4>1, <4>2
      <3>2. QED
        BY <3>1
    <2>3. QED
      BY <1>k, <2>1, <2>2
  <1>5. CASE IncreaseRootResources
    <2>1. worker'.at = "upq"
      BY <1>5, <1>w, WorkerRecord DEF IncreaseRootResources
    <2>2. QED
      BY <1>5, <1>k, <2>1 DEF IncreaseRootResources
  <1>6. CASE CreateFirstUPQ
    <2>1. worker'.at \in {"error", "inprogress"}
      BY <1>6, <1>w, WorkerRecord DEF CreateFirstUPQ
    <2>2. QED
      BY <1>6, <1>k, <2>1 DEF CreateFirstUPQ
  <1>7. CASE UpdateInProgress
    <2>1. worker'.at = "monitor"
      BY <1>7, <1>w DEF UpdateInProgress, Workers
    <2>2. QED
      BY <1>7, <1>k, <2>1 DEF UpdateInProgress
  <1>8. CASE MonitorMigrationUPQ
    <2>1. worker'.at \in {"create", "error", "idle"}
      BY <1>8, <1>w, <1>i, WorkerRecord DEF MonitorMigrationUPQ
    <2>2. QED
      BY <1>8, <1>k, <2>1 DEF MonitorMigrationUPQ
  <1>9. CASE CreateNewSNS
    <2>1. worker'.at \in {"delete", "error"}
      BY <1>9, <1>w, WorkerRecord DEF CreateNewSNS
    <2>2. QED
      BY <1>9, <1>k, <2>1 DEF CreateNewSNS
  <1>10. CASE DeleteOldSNS
    <2>1. worker'.at = "annotations"
      BY <1>10, <1>w DEF DeleteOldSNS, Workers
    <2>2. QED
      BY <1>10, <1>k, <2>1 DEF DeleteOldSNS
  <1>11. CASE AppendAnnotations
    <2>1. worker'.at \in {"labels", "selector"}
      BY <1>11, <1>w, WorkerRecord DEF AppendAnnotations
    <2>2. QED
      BY <1>11, <1>k, <2>1 DEF AppendAnnotations
  <1>12. CASE AppendLabels
    <2>1. worker'.at = "selector"
      BY <1>12, <1>w, WorkerRecord DEF AppendLabels
    <2>2. QED
      BY <1>12, <1>k, <2>1 DEF AppendLabels
  <1>13. CASE UpdateCRQSelector
    <2>1. worker'.at \in {"annotations", "keys"}
      BY <1>13, <1>w, WorkerRecord DEF UpdateCRQSelector
    <2>2. QED
      BY <1>13, <1>k, <2>1 DEF UpdateCRQSelector
  <1>14. CASE LookUpKeys
    BY <1>14, DbLookUp
  <1>15. CASE RemoveFromOldKey
    BY <1>15, DbRemove
  <1>16. CASE AddToNewKey
    BY <1>16, DbAdd
  <1>17. CASE CreateSecondUPQ
    <2>1. worker'.at = "decrease"
      BY <1>17, <1>w, WorkerRecord DEF CreateSecondUPQ
    <2>2. QED
      BY <1>17, <1>k, <2>1 DEF CreateSecondUPQ
  <1>18. CASE DecreaseRootResources
    <2>1. worker'.at = "complete"
      BY <1>18, <1>w, WorkerRecord DEF DecreaseRootResources
    <2>2. QED
      BY <1>18, <1>k, <2>1 DEF DecreaseRootResources
  <1>19. CASE UpdateComplete
    BY <1>19, <1>i, <1>k DEF UpdateComplete
  <1>20. CASE UpdateError
    BY <1>20, <1>i, <1>k DEF UpdateError
  <1>21. CASE CreateNewSNSFails
    <2>1. worker'.at = "error"
      BY <1>21, <1>w, WorkerRecord DEF CreateNewSNSFails
    <2>2. QED
      BY <1>21, <1>k, <2>1 DEF CreateNewSNSFails
  <1>22. CASE DeleteOldSNSFails
    <2>1. worker'.at = "error"
      BY <1>22, <1>w, WorkerRecord DEF DeleteOldSNSFails
    <2>2. QED
      BY <1>22, <1>k, <2>1 DEF DeleteOldSNSFails
  <1>23. CASE Fail
    <2>1. \/ worker.at \notin {"remove", "add"} /\ Step("error")
          \/ worker.at \notin {"remove", "add"} /\ worker' = Idle
          \/ UNCHANGED worker
      BY <1>23 DEF Fail
    <2>2. \/ worker.at \notin {"remove", "add"} /\ worker'.at \in {"error", "idle"}
          \/ UNCHANGED worker
      BY <1>w, <1>i, <2>1, WorkerRecord
    <2>3. UNCHANGED <<current, crqForest, raced, keyMoved, mixed>>
      BY <1>23 DEF Fail
    <2>4. QED
      BY <1>k, <2>2, <2>3
  <1>24. CASE Restart
    BY <1>24, DbRestart
  <1>25. ASSUME NEW s \in Nodes, MoveQuota(s) PROVE DbInv'
    BY <1>25, <1>k DEF MoveQuota
  <1>26. ASSUME NEW x \in DOMAIN sns, InitMigrated(x[1], x[2]) \/ SyncSNS(x[1], x[2]) PROVE DbInv'
    <2>1. /\ UNCHANGED <<current, worker, keyMoved, mixed>>
          /\ <<x[1], x[2]>> \in DOMAIN sns /\ EnsureSNSInDB(x[1], x[2])
      BY <1>26 DEF InitMigrated, SyncSNS
    <2>2. x[1] \in Nodes /\ x[2] \in SNSs
      BY DEF Types, ClusterTypes
    <2>3. QED
      BY <2>1, <2>2, DbEnsured
  <1>27. CASE UNCHANGED vars
    BY <1>27, <1>k DEF vars
  <1>28. QED
    BY <1>1, <1>2, <1>3, <1>4, <1>5, <1>6, <1>7, <1>8, <1>9, <1>10, <1>11, <1>12, <1>13, <1>14, <1>15, <1>16, <1>17, <1>18, <1>19, <1>20, <1>21, <1>22, <1>23, <1>24, <1>25, <1>26, <1>27 DEF Next, Work, Subnamespaces

(***************************************************************************)
(* MigrateNSHierarchy leaves no namespace in the DB twice, in any          *)
(* hierarchy of fewer than ten levels, whatever fails and whenever the     *)
(* operator restarts, save for the three disturbances that OnceInDB names. *)
(***************************************************************************)
THEOREM OnceAfterMigration == Shallow => (Spec => []OnceInDB)
  <1> SUFFICES ASSUME Shallow PROVE Spec => []OnceInDB
    OBVIOUS
  <1>1. Init => DbInv
    BY InitDbInv
  <1>2. MigInv /\ SelInv /\ DbInv /\ [Next]_vars => DbInv'
    <2> SUFFICES ASSUME MigInv, SelInv, DbInv, [Next]_vars PROVE DbInv'
      OBVIOUS
    <2>1. Types /\ Begun /\ Elsewhere
      BY TypesAreTypes DEF MigInv, SelInv
    <2>2. QED
      BY <2>1, DbStep
  <1>3. DbInv => OnceInDB
    <2> SUFFICES ASSUME DbInv, Undisturbed, NEW n \in SNSs PROVE InForestOnce(n)
      BY DEF OnceInDB, Undisturbed
    <2>1. Forest(crqForest, SNSs) /\ Tidy(crqForest)
      BY DEF DbInv, OrderInDB
    <2>2. QED
      BY <2>1, TidyIsOnce
  <1>4. QED
    BY <1>1, <1>2, <1>3, SelectorInvariance, PTL DEF Spec
=============================================================================
