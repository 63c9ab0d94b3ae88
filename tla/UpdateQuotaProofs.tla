------------------------- MODULE UpdateQuotaProofs -------------------------
(***************************************************************************)
(* Proofs about UpdateQuota, for every hierarchy, any number of            *)
(* Updatequotas between any of its subnamespaces, any rounding unit and    *)
(* any number of failures.                                                 *)
(*                                                                         *)
(* The argument: the list of subnamespaces an Updatequota moves quota at   *)
(* visits each of them once (MovesAreDistinct), because a name determines  *)
(* its depth and the two ways meet at the deepest common name only.  What  *)
(* has been stored is then a matter of how far the mover is along that     *)
(* list: everything before it (Progress), and with nothing disturbing the  *)
(* controller nothing beyond it, and nothing before it begins (Fresh).     *)
(***************************************************************************)
EXTENDS UpdateQuota, SubnamespaceQuotaProofs, HierarchyLemmas

\* The moves the mover has stored, if none of them failed.
Passed(k) ==
    \/ mover.at = "move" /\ k < mover.k
    \/ mover.at = "wait" /\ k <= mover.k
    \/ mover.at = "status"

Progress ==
    mover.at # "idle" /\ mover.outcome = "Complete" =>
        \A k \in 1..MoveCount(mover.upq) : Passed(k) => Moved(mover.upq, k) >= 1

InHand(u) == mover.at # "idle" /\ mover.upq = u

Fresh ==
    failures = 0 /\ touches = 0 =>
        /\ \A u \in Upqs : InHand(u) => upqPhase[u] = "None" /\ mover.fresh
        /\ \A u \in Upqs : \A k \in 1..MoveCount(u) :
            /\ Moved(u, k) <= 1
            /\ upqPhase[u] \in {"absent", "None"} /\ ~InHand(u) => Moved(u, k) = 0
            /\ InHand(u) /\ ~Passed(k) => Moved(u, k) = 0

UpqIInv == IInv /\ UpqTypeOK /\ CompleteMeansMoved /\ Progress /\ Fresh

(***************************************************************************)
(* With users who ask for nothing, no restart and no wait that gave up:    *)
(* every subnamespace is Created and its request in force, but for the one *)
(* the mover waits for, and only for that one the copy a worker holds may  *)
(* be of an earlier request.                                               *)
(***************************************************************************)
Undisturbed == timeouts = 0 /\ failures = 0 /\ updates = 0

AllInPlace ==
    \A n \in SNSs : Exists(n) =>
        /\ phase[n] = "Created" /\ HasQuota(n) /\ n \in namespaces /\ isRq[n] = RqFlag(n)
        /\ spec[n] \in Nat /\ SubnamespaceObject(n) \in Nat

Waiting(n) == mover.at = "wait" /\ MoveAt(mover.upq, mover.k) = n

InForceOrWaiting ==
    /\ mover.at = "wait" => mover.spec = spec[MoveAt(mover.upq, mover.k)]
    /\ \A n \in SNSs : Exists(n) /\ SubnamespaceObject(n) # spec[n] => Waiting(n)

CopyIsCurrent ==
    worker.at # "idle" =>
        /\ worker.at \in {"sync", "syncQuota", "syncUpdate", "syncStatus"}
        /\ worker.spec \in Nat
        /\ worker.spec # spec[worker.sns] => SubnamespaceObject(worker.sns) # spec[worker.sns]

CalmState == AllInPlace /\ InForceOrWaiting /\ CopyIsCurrent

Calm == Undisturbed => ~raced /\ CalmState
-----------------------------------------------------------------------------
(***************************************************************************)
(* A nonempty set of naturals with a bound has a greatest element.         *)
(***************************************************************************)
LEMMA GreatestNatural ==
    ASSUME NEW T \in SUBSET Nat, T # {}, NEW b \in Nat, \A x \in T : x <= b
    PROVE  Max(T) \in T /\ \A x \in T : x <= Max(T)
  <1> DEFINE D == {d \in Nat : b - d \in T}
  <1>1. D \in SUBSET Nat /\ D # {}
    <2>1. PICK x \in T : TRUE
      OBVIOUS
    <2>2. b - x \in Nat /\ b - (b - x) = x
      BY <2>1
    <2>3. QED
      BY <2>1, <2>2
  <1>2. PICK m \in D : \A d \in D : m <= d
    BY <1>1, LeastNatural
  <1>3. b - m \in T /\ m \in Nat
    BY <1>2
  <1>4. ASSUME NEW x \in T PROVE b - m >= x
    <2>1. b - x \in Nat /\ b - (b - x) = x
      OBVIOUS
    <2>2. b - x \in D
      BY <2>1
    <2>3. m <= b - x
      BY <1>2, <2>2
    <2>4. QED
      BY <1>3, <2>1, <2>3
  <1>5. Max(T) \in T /\ \A y \in T : Max(T) >= y
    BY <1>3, <1>4 DEF Max
  <1>6. QED
    BY <1>5

(***************************************************************************)
(* A display-name begins with the root, and the name at position i is that *)
(* of a namespace at depth i.                                              *)
(***************************************************************************)
NameAtItsDepth(n) ==
    /\ DisplayName[n][1] = Root
    /\ \A i \in 1..Len(DisplayName[n]) : /\ DisplayName[n][i] \in Nodes
                                         /\ Len(DisplayName[DisplayName[n][i]]) = i

(***************************************************************************)
(* Every name is at its depth, in every display-name of a hierarchy.       *)
(***************************************************************************)
LEMMA DisplayNameFacts ==
    ASSUME NEW n \in Nodes
    PROVE  Len(DisplayName[n]) \in Nat \ {0} /\ NameAtItsDepth(n)
  <1>1. IsHierarchy(Nodes, Root, DisplayName)
    BY TreeAssumption DEF IsHierarchy, Above, SNSs, Parent
  <1>2. QED
    BY <1>1, NamesOnTheWay DEF WellNamed, NameAtItsDepth

(***************************************************************************)
(* The way of an Updatequota: the ancestor is above or at both ends, and   *)
(* every move is at a subnamespace.                                        *)
(***************************************************************************)
LEMMA AncestorFacts ==
    ASSUME NEW u \in Upqs
    PROVE  /\ Source[u] \in Nodes /\ Dest[u] \in Nodes
           /\ AncestorDepth(u) \in 1..Len(DisplayName[Source[u]])
           /\ AncestorDepth(u) \in 1..Len(DisplayName[Dest[u]])
           /\ \A i \in 1..Len(DisplayName[Source[u]]) : \A j \in 1..Len(DisplayName[Dest[u]]) :
                DisplayName[Dest[u]][j] = DisplayName[Source[u]][i] => i = j /\ i <= AncestorDepth(u)
  <1> DEFINE s == DisplayName[Source[u]]
             d == DisplayName[Dest[u]]
             T == {i \in 1..Len(s) : \E j \in 1..Len(d) : d[j] = s[i]}
  <1>1. Source[u] \in Nodes /\ Dest[u] \in Nodes
    BY UpqAssumption
  <1>2. /\ Len(s) \in Nat \ {0} /\ Len(d) \in Nat \ {0} /\ s[1] = Root /\ d[1] = Root
        /\ \A i \in 1..Len(s) : Len(DisplayName[s[i]]) = i
        /\ \A j \in 1..Len(d) : Len(DisplayName[d[j]]) = j
    BY <1>1, DisplayNameFacts DEF NameAtItsDepth
  <1> HIDE DEF s, d
  <1>3. \A i \in 1..Len(s) : \A j \in 1..Len(d) : d[j] = s[i] => i = j
    BY <1>2
  <1>4. 1 \in T /\ T \in SUBSET Nat /\ \A i \in T : i <= Len(s)
    BY <1>2
  <1>5. Max(T) \in T /\ \A i \in T : i <= Max(T)
    <2> HIDE DEF T
    <2> QED
      BY <1>2, <1>4, GreatestNatural
  <1>6. AncestorDepth(u) = Max(T)
    BY DEF AncestorDepth, s, d
  <1>7. \A i \in 1..Len(s) : \A j \in 1..Len(d) : d[j] = s[i] => i \in T
    OBVIOUS
  <1>8. Max(T) \in 1..Len(s) /\ Max(T) \in 1..Len(d)
    BY <1>3, <1>5
  <1>9. QED
    <2> HIDE DEF T
    <2> QED
      BY <1>1, <1>3, <1>5, <1>6, <1>7, <1>8 DEF s, d

(***************************************************************************)
(* An Updatequota changes subnamespaces only, as many as its list is long: *)
(* neither getSnsListUp nor getSnsListDown reaches the root.               *)
(***************************************************************************)
LEMMA MoveFacts ==
    ASSUME NEW u \in Upqs
    PROVE  /\ UpCount(u) \in Nat /\ DownCount(u) \in Nat /\ MoveCount(u) \in Nat
           /\ \A k \in 1..MoveCount(u) : MoveAt(u, k) \in SNSs
  <1> DEFINE s == DisplayName[Source[u]]
             d == DisplayName[Dest[u]]
             a == AncestorDepth(u)
  <1>1. /\ Len(s) \in Nat /\ Len(d) \in Nat /\ a \in 1..Len(s) /\ a \in 1..Len(d)
        /\ \A i \in 1..Len(s) : s[i] \in Nodes /\ Len(DisplayName[s[i]]) = i
        /\ \A j \in 1..Len(d) : d[j] \in Nodes /\ Len(DisplayName[d[j]]) = j
    BY AncestorFacts, DisplayNameFacts DEF NameAtItsDepth
  <1>r. Len(DisplayName[Root]) = 1
    <2>1. DisplayName[Root] = <<Root>> /\ Len(<<Root>>) = 1
      BY TreeAssumption
    <2>2. QED
      BY <2>1
  <1>2. UpCount(u) = Len(s) - a /\ DownCount(u) = Len(d) - a /\ MoveCount(u) = (Len(s) - a) + (Len(d) - a)
    BY DEF UpCount, DownCount, MoveCount
  <1> HIDE DEF s, d, a
  <1>3. UpCount(u) \in Nat /\ DownCount(u) \in Nat /\ MoveCount(u) \in Nat
    BY <1>1, <1>2
  <1>4. ASSUME NEW k \in 1..MoveCount(u)
        PROVE  MoveAt(u, k) \in SNSs
    <2>1. CASE k <= Len(s) - a
      <3>1. MoveAt(u, k) = s[Len(s) + 1 - k]
        BY <1>2, <2>1 DEF MoveAt, IsUp, s
      <3>2. Len(s) + 1 - k \in 1..Len(s) /\ Len(s) + 1 - k # 1
        BY <1>1, <2>1
      <3>3. QED
        BY <1>1, <1>r, <3>1, <3>2 DEF SNSs
    <2>2. CASE ~(k <= Len(s) - a)
      <3>1. MoveAt(u, k) = d[a + k - (Len(s) - a)]
        BY <1>2, <2>2 DEF MoveAt, IsUp, d, a
      <3>2. a + k - (Len(s) - a) \in 1..Len(d) /\ a + k - (Len(s) - a) # 1
        BY <1>1, <1>2, <2>2
      <3>3. QED
        BY <1>1, <1>r, <3>1, <3>2 DEF SNSs
    <2>3. QED
      BY <2>1, <2>2
  <1>5. QED
    BY <1>3, <1>4

(***************************************************************************)
(* No subnamespace is on the way twice.                                    *)
(***************************************************************************)
LEMMA MovesAreDistinct ==
    ASSUME NEW u \in Upqs, NEW j \in 1..MoveCount(u), NEW k \in 1..MoveCount(u), MoveAt(u, j) = MoveAt(u, k)
    PROVE  j = k
  <1> DEFINE s == DisplayName[Source[u]]
             d == DisplayName[Dest[u]]
             a == AncestorDepth(u)
  <1>1. /\ Len(s) \in Nat /\ Len(d) \in Nat /\ a \in 1..Len(s) /\ a \in 1..Len(d)
        /\ \A i \in 1..Len(s) : Len(DisplayName[s[i]]) = i
        /\ \A i \in 1..Len(d) : Len(DisplayName[d[i]]) = i
        /\ \A i \in 1..Len(s) : \A l \in 1..Len(d) : d[l] = s[i] => i <= a
    BY AncestorFacts, DisplayNameFacts DEF NameAtItsDepth
  <1>2. MoveCount(u) = (Len(s) - a) + (Len(d) - a)
    BY DEF UpCount, DownCount, MoveCount
  <1>3. \A i : MoveAt(u, i) = IF i <= Len(s) - a THEN s[Len(s) + 1 - i] ELSE d[a + i - (Len(s) - a)]
    BY DEF MoveAt, IsUp, UpCount
  <1> HIDE DEF s, d, a
  <1> DEFINE Up(i)   == i <= Len(s) - a
             Pos(i)  == IF Up(i) THEN Len(s) + 1 - i ELSE a + i - (Len(s) - a)
  <1>4. ASSUME NEW i \in 1..MoveCount(u)
        PROVE  /\ Up(i) => Pos(i) \in 1..Len(s) /\ MoveAt(u, i) = s[Pos(i)]
               /\ ~Up(i) => Pos(i) \in 1..Len(d) /\ MoveAt(u, i) = d[Pos(i)]
               /\ Pos(i) > a /\ Pos(i) \in Int
    <2>1. Up(i) => Pos(i) \in 1..Len(s) /\ Pos(i) > a
      BY <1>1, <1>2
    <2>2. ~Up(i) => Pos(i) \in 1..Len(d) /\ Pos(i) > a
      BY <1>1, <1>2
    <2>3. MoveAt(u, i) = IF Up(i) THEN s[Pos(i)] ELSE d[Pos(i)]
      BY <1>3
    <2>4. Pos(i) \in Int
      BY <1>1
    <2>5. QED
      BY <2>1, <2>2, <2>3, <2>4
  <1>5. (Up(j) <=> Up(k)) /\ Pos(j) = Pos(k) => j = k
    BY <1>1
  <1> HIDE DEF Up, Pos
  <1>6. Up(j) => Up(k)
    <2>1. SUFFICES ASSUME Up(j), ~Up(k) PROVE FALSE
      OBVIOUS
    <2>2. Pos(j) \in 1..Len(s) /\ Pos(k) \in 1..Len(d) /\ d[Pos(k)] = s[Pos(j)] /\ Pos(j) > a
      BY <1>4, <2>1
    <2>3. QED
      BY <1>1, <2>2
  <1>7. Up(k) => Up(j)
    <2>1. SUFFICES ASSUME Up(k), ~Up(j) PROVE FALSE
      OBVIOUS
    <2>2. Pos(k) \in 1..Len(s) /\ Pos(j) \in 1..Len(d) /\ d[Pos(j)] = s[Pos(k)] /\ Pos(k) > a
      BY <1>4, <2>1
    <2>3. QED
      BY <1>1, <2>2
  <1>8. Pos(j) = Pos(k)
    <2>1. CASE Up(j)
      BY <1>1, <1>4, <1>6, <2>1
    <2>2. CASE ~Up(j)
      BY <1>1, <1>4, <1>7, <2>2
    <2>3. QED
      BY <2>1, <2>2
  <1>9. QED
    BY <1>5, <1>6, <1>7, <1>8
-----------------------------------------------------------------------------
Movers == [upq : Upqs, at : {"idle", "move", "wait", "status"}, k : Nat \ {0}, spec : Int,
           fresh : BOOLEAN, outcome : {"Complete", "Error"}]

\* Where a mover stands on its way.
OnTheWay(mv) == mv.at \in {"move", "wait"} => mv.k \in 1..MoveCount(mv.upq)

(***************************************************************************)
(* The mover that does nothing.                                            *)
(***************************************************************************)
LEMMA AtRestType ==
    AtRest \in Movers /\ AtRest.at = "idle" /\ AtRest.k = 1 /\ AtRest.outcome = "Complete"
  <1>1. (CHOOSE u \in Upqs : TRUE) \in Upqs /\ Unset \in Int
    BY UpqAssumption DEF Unset
  <1>2. QED
    BY <1>1 DEF AtRest, Movers

(***************************************************************************)
(* After a move comes the next one, and after the last the status.         *)
(***************************************************************************)
LEMMA NextMoveFacts ==
    ASSUME mover \in Movers, mover.at = "wait", OnTheWay(mover), NEW mv, mv = NextMove(mover.k)
    PROVE  /\ mv \in Movers /\ OnTheWay(mv)
           /\ mv.upq = mover.upq /\ mv.fresh = mover.fresh /\ mv.outcome = mover.outcome
           /\ \/ mv.at = "move" /\ mv.k = mover.k + 1
              \/ mv.at = "status" /\ mover.k = MoveCount(mover.upq)
  <1>1. mover.upq \in Upqs /\ mover.k \in 1..MoveCount(mover.upq) /\ MoveCount(mover.upq) \in Nat
    BY MoveFacts DEF OnTheWay, Movers
  <1>2. CASE mover.k < MoveCount(mover.upq)
    <2>1. mv = [mover EXCEPT !.k = mover.k + 1, !.at = "move"]
      BY <1>2 DEF NextMove
    <2>2. mover.k + 1 \in Nat \ {0} /\ mover.k + 1 \in 1..MoveCount(mover.upq)
      BY <1>1, <1>2
    <2>3. QED
      BY <2>1, <2>2 DEF Movers, OnTheWay
  <1>3. CASE ~(mover.k < MoveCount(mover.upq))
    <2>1. mv = [mover EXCEPT !.k = mover.k, !.at = "status"]
      BY <1>3 DEF NextMove
    <2>2. mover.k = MoveCount(mover.upq)
      BY <1>1, <1>3
    <2>3. QED
      BY <2>1, <2>2 DEF Movers, OnTheWay
  <1>4. QED
    BY <1>2, <1>3

(***************************************************************************)
(* The quantity a move computes is an integer.                             *)
(***************************************************************************)
LEMMA NewQuotaType ==
    ASSUME NEW u \in Upqs, NEW k \in Nat, NEW q \in Int
    PROVE  NewQuota(u, k, q) \in Int
  <1>1. \A x \in Int : Value(x) \in Int
    <2> SUFFICES ASSUME NEW x \in Int PROVE Value(x) \in Int
      OBVIOUS
    <2>1. Unit \in Int /\ Unit > 0
      BY UpqAssumption
    <2>2. x + Unit - 1 \in Int
      BY <2>1
    <2>3. (x + Unit - 1) \div Unit \in Int
      BY <2>1, <2>2
    <2>4. ((x + Unit - 1) \div Unit) * Unit \in Int
      BY <2>1, <2>3
    <2>5. QED
      BY <2>4 DEF Value
  <1>2. Amount[u] \in Int
    BY UpqAssumption
  <1>3. Value(q) \in Int /\ Value(Amount[u]) \in Int
    BY <1>1, <1>2
  <1>4. QED
    BY <1>3 DEF NewQuota

(***************************************************************************)
(* The write of a Subnamespace by the mover keeps what SubnamespaceQuota   *)
(* promises: it is one more write that admission let through.              *)
(***************************************************************************)
LEMMA StoreMoveIInv ==
    ASSUME IInv, NEW n \in SNSs, NEW q \in Int, Admitted(n, q), StoreMove(n, q),
           failures' \in 0..MaxFailures
    PROVE  IInv'
  <1>0. TypeOK /\ Requested
    BY DEF IInv
  <1>1. q \in Quantities /\ (Exists(n) => q # NoObject)
    <2>1. q >= 0 \/ q = spec[n]
      BY DEF Admitted
    <2>2. q >= 0 => q \in Nat
      OBVIOUS
    <2>3. spec[n] \in Quantities /\ (Exists(n) => spec[n] # NoObject)
      BY <1>0 DEF TypeOK, Requested
    <2>4. QED
      BY <2>1, <2>2, <2>3, QuantityFacts
  <1>2. /\ Outdated(n) \in [at : Steps, sns : Nodes, spec : Quantities, fresh : BOOLEAN,
                            requests : [SNSs -> Quantities], total : Quantities, objFresh : BOOLEAN]
        /\ Outdated(n).at = worker.at /\ Outdated(n).sns = worker.sns /\ Outdated(n).spec = worker.spec
    BY <1>0 DEF TypeOK, Outdated
  <1>3. (worker' = worker \/ worker' = Outdated(n)) /\ (queue' = queue \/ queue' = queue \cup {n})
    BY DEF StoreMove
  <1>4. /\ UNCHANGED <<phase, isRq, status, namespaces, rq, crq, used, updates>>
        /\ spec' = [spec EXCEPT ![n] = q] /\ raced' = (raced \/ ~SettledAround(n))
    BY DEF StoreMove, objs
  <1>5. TypeOK'
    <2>1. raced' \in BOOLEAN
      BY <1>4
    <2>2. spec' \in [SNSs -> Quantities] /\ queue' \subseteq SNSs
      BY <1>0, <1>1, <1>3, <1>4 DEF TypeOK
    <2>3. /\ worker' \in [at : Steps, sns : Nodes, spec : Quantities, fresh : BOOLEAN,
                          requests : [SNSs -> Quantities], total : Quantities, objFresh : BOOLEAN]
          /\ worker'.at # "idle" => worker'.sns \in SNSs
      <3>1. CASE worker' = worker
        BY <1>0, <3>1 DEF TypeOK
      <3>2. CASE worker' = Outdated(n)
        BY <1>0, <1>2, <3>2 DEF TypeOK
      <3>3. QED
        BY <1>3, <3>1, <3>2
    <2>4. /\ phase' \in [SNSs -> Phases] /\ isRq' \in [SNSs -> {"", "true", "false"}]
          /\ status' \in [SNSs -> [requests : [SNSs -> Quantities], total : Quantities]]
          /\ namespaces' \subseteq Nodes /\ rq' \in [Nodes -> Quantities] /\ crq' \in [Nodes -> Quantities]
          /\ used' \in [Nodes -> Nat] /\ updates' \in 0..MaxUpdates
      BY <1>0, <1>4 DEF TypeOK
    <2>5. QED
      BY <2>1, <2>2, <2>3, <2>4 DEF TypeOK
  <1>6. QED
    BY <1>0, <1>1, <1>2, <1>3, <1>4, <1>5, QuietStep DEF TypeOK, Exists, Requested

(***************************************************************************)
(* What a stored move counts as: one more at its place and no other.       *)
(***************************************************************************)
LEMMA StoreMoveCounts ==
    ASSUME UpqTypeOK, NEW u \in Upqs, u = mover.upq, NEW k \in 1..MoveCount(u), k = mover.k,
           NEW q, StoreMove(MoveAt(u, k), q)
    PROVE  /\ moved' \in [Upqs -> [Nodes -> Nat]]
           /\ Moved(u, k)' = Moved(u, k) + 1
           /\ \A v \in Upqs : \A j \in 1..MoveCount(v) : ~(v = u /\ j = k) => Moved(v, j)' = Moved(v, j)
           /\ \A v \in Upqs : \A j \in 1..MoveCount(v) : Moved(v, j) \in Nat
  <1> DEFINE n == MoveAt(u, k)
  <1>1. n \in Nodes /\ \A v \in Upqs : \A j \in 1..MoveCount(v) : MoveAt(v, j) \in Nodes
    BY MoveFacts DEF SNSs
  <1>2. moved' = [moved EXCEPT ![u][n] = @ + 1] /\ moved \in [Upqs -> [Nodes -> Nat]]
    BY DEF StoreMove, UpqTypeOK
  <1>3. \A v \in Upqs : \A j \in 1..MoveCount(v) : ~(v = u /\ j = k) => v # u \/ MoveAt(v, j) # n
    BY MovesAreDistinct
  <1> HIDE DEF n
  <1>4. moved' \in [Upqs -> [Nodes -> Nat]]
    BY <1>1, <1>2
  <1>5. moved'[u][n] = moved[u][n] + 1
    BY <1>1, <1>2
  <1>6. \A v \in Upqs : \A m \in Nodes : v # u \/ m # n => moved'[v][m] = moved[v][m]
    BY <1>1, <1>2
  <1>7. \A v \in Upqs : \A m \in Nodes : moved[v][m] \in Nat
    BY <1>2
  <1>8. QED
    BY <1>1, <1>3, <1>4, <1>5, <1>6, <1>7 DEF Moved, n
-----------------------------------------------------------------------------
(***************************************************************************)
(* The parts of the invariant hold initially.                              *)
(***************************************************************************)
LEMMA UpqInitIInv == UpqInit => UpqIInv
  <1> SUFFICES ASSUME UpqInit PROVE UpqIInv
    OBVIOUS
  <1>1. IInv
    BY InitIInv DEF UpqInit
  <1>2. /\ upqPhase = [u \in Upqs |-> "absent"] /\ upqQueue = {} /\ mover = AtRest
        /\ touches = 0 /\ timeouts = 0 /\ moved = [u \in Upqs |-> [n \in Nodes |-> 0]]
    BY DEF UpqInit
  <1>3. UpqTypeOK
    <2>1. mover \in Movers /\ mover.at = "idle" /\ touches \in 0..MaxTouches
      BY <1>2, AtRestType, UpqAssumption
    <2>2. QED
      BY <1>2, <2>1 DEF UpqTypeOK, Movers
  <1>4. CompleteMeansMoved /\ Progress
    BY <1>2, AtRestType DEF CompleteMeansMoved, Progress
  <1>5. Fresh
    <2>1. \A u \in Upqs : \A k \in 1..MoveCount(u) : Moved(u, k) = 0
      BY <1>2, MoveFacts DEF Moved, SNSs
    <2>2. \A u : ~InHand(u)
      BY <1>2, AtRestType DEF InHand
    <2>3. QED
      BY <2>1, <2>2 DEF Fresh
  <1>6. QED
    BY <1>1, <1>3, <1>4, <1>5 DEF UpqIInv

(***************************************************************************)
(* What Move does, in each of its outcomes.                                *)
(***************************************************************************)
LEMMA MoveEffects ==
    ASSUME IInv, UpqTypeOK, Move
    PROVE  \E u \in Upqs : \E k \in 1..MoveCount(u) : \E q \in Int :
             LET n == MoveAt(u, k)
             IN  /\ u = mover.upq /\ k = mover.k /\ mover.at = "move" /\ n \in SNSs
                 /\ q = NewQuota(u, k, spec[n])
                 /\ UNCHANGED <<upqPhase, upqQueue, touches, timeouts>>
                 /\ \/ /\ Admitted(n, q) /\ StoreMove(n, q) /\ failures' = failures
                       /\ mover' = [mover EXCEPT !.at = "wait", !.spec = q]
                    \/ /\ UNCHANGED <<vars, moved>>
                       /\ mover' = [mover EXCEPT !.at = "status", !.outcome = "Error"]
                    \/ /\ failures < MaxFailures /\ failures' = failures + 1
                       /\ mover' = [mover EXCEPT !.at = "status", !.outcome = "Error"]
                       /\ \/ Admitted(n, q) /\ StoreMove(n, q)
                          \/ UNCHANGED <<sns, objs, queue, worker, updates, raced, moved>>
  <1> DEFINE u == mover.upq
             k == mover.k
             n == MoveAt(u, k)
             q == NewQuota(u, k, spec[n])
  <1>1. mover.at = "move" /\ u \in Upqs /\ k \in 1..MoveCount(u)
    BY DEF Move, UpqTypeOK
  <1>2. n \in SNSs
    BY <1>1, MoveFacts
  <1>3. k \in Nat /\ spec[n] \in Int
    <2>1. k \in Nat
      BY DEF UpqTypeOK
    <2>2. spec[n] \in Quantities
      BY <1>2 DEF IInv, TypeOK
    <2>3. QED
      BY <2>1, <2>2 DEF Quantities, Unset, NoObject
  <1>4. q \in Int
    BY <1>1, <1>3, NewQuotaType
  <1>5. /\ UNCHANGED <<upqPhase, upqQueue, touches, timeouts>>
        /\ \/ /\ Admitted(n, q) /\ StoreMove(n, q) /\ failures' = failures
              /\ mover' = [mover EXCEPT !.at = "wait", !.spec = q]
           \/ /\ UNCHANGED <<vars, moved>>
              /\ mover' = [mover EXCEPT !.at = "status", !.outcome = "Error"]
           \/ /\ failures < MaxFailures /\ failures' = failures + 1
              /\ mover' = [mover EXCEPT !.at = "status", !.outcome = "Error"]
              /\ \/ Admitted(n, q) /\ StoreMove(n, q)
                 \/ UNCHANGED <<sns, objs, queue, worker, updates, raced, moved>>
    BY DEF Move, GiveUp
  <1> HIDE DEF q, n, u, k
  <1>6. n = MoveAt(u, k) /\ q = NewQuota(u, k, spec[n])
    BY DEF n, q
  <1>7. QED
    BY <1>1, <1>2, <1>4, <1>5, <1>6 DEF u, k

(***************************************************************************)
(* Nothing but a failed call changes in the cluster.                       *)
(***************************************************************************)
LEMMA FailureIInv ==
    ASSUME IInv, UNCHANGED <<sns, objs, queue, worker, updates, raced>>,
           failures < MaxFailures, failures' = failures + 1
    PROVE  IInv'
  <1>0. TypeOK
    BY DEF IInv
  <1>1. failures' \in 0..MaxFailures
    <2>1. failures \in 0..MaxFailures /\ MaxFailures \in Nat
      BY <1>0, ParameterAssumption DEF TypeOK
    <2>2. QED
      BY <2>1
  <1>2. UNCHANGED <<phase, spec, isRq, status, namespaces, rq, crq, used, queue, worker, updates, raced>>
    BY DEF sns, objs
  <1>3. TypeOK'
    BY <1>0, <1>1, <1>2 DEF TypeOK
  <1>4. QED
    BY <1>2, <1>3 DEF IInv, CreatedHasQuotaObject, SubnamespaceObject, Prepared, HasObject,
        Requested, Syncing, Exists

(***************************************************************************)
(* The subnamespace side's invariant is about the subnamespace side only.  *)
(***************************************************************************)
LEMMA UnchangedIInv ==
    ASSUME IInv, UNCHANGED vars
    PROVE  IInv'
  BY DEF vars, IInv, TypeOK, CreatedHasQuotaObject, SubnamespaceObject, Prepared, HasObject,
    Requested, Syncing, Exists

(***************************************************************************)
(* Running the updatequota controller next to the subnamespace controller  *)
(* keeps what is proved of the latter alone.                               *)
(***************************************************************************)
LEMMA CarriedOver ==
    ASSUME IInv, UpqTypeOK, UpqNext
    PROVE  IInv'
  <1>1. CASE SubnamespaceStep
    BY <1>1, UsersIInv, QueueIInv, CreateIInv, SyncIInv DEF SubnamespaceStep, Work
  <1>2. CASE UpqRestart
    BY <1>2, QueueIInv DEF UpqRestart
  <1>3. CASE WaitOver \/ WaitTimeout \/ Status \/ \E u \in Upqs : CreateUpq(u) \/ TouchUpq(u) \/ ReconcileUpq(u)
    <2>1. UNCHANGED vars
      BY <1>3 DEF WaitOver, WaitTimeout, Status, CreateUpq, TouchUpq, ReconcileUpq
    <2>2. QED
      BY <2>1, UnchangedIInv
  <1>4. CASE WaitFails \/ StatusFails
    BY <1>4, FailureIInv DEF WaitFails, StatusFails
  <1>5. CASE Move
    <2>1. PICK n \in SNSs, q \in Int :
            \/ Admitted(n, q) /\ StoreMove(n, q) /\ failures' = failures
            \/ UNCHANGED vars
            \/ /\ failures < MaxFailures /\ failures' = failures + 1
               /\ \/ Admitted(n, q) /\ StoreMove(n, q)
                  \/ UNCHANGED <<sns, objs, queue, worker, updates, raced>>
      BY <1>5, MoveEffects
    <2>2. failures \in 0..MaxFailures /\ MaxFailures \in Nat
      BY ParameterAssumption DEF IInv, TypeOK
    <2>3. CASE Admitted(n, q) /\ StoreMove(n, q) /\ failures' \in 0..MaxFailures
      BY <2>1, <2>3, StoreMoveIInv
    <2>4. CASE UNCHANGED vars
      BY <2>4, UnchangedIInv
    <2>5. CASE /\ failures < MaxFailures /\ failures' = failures + 1
               /\ UNCHANGED <<sns, objs, queue, worker, updates, raced>>
      BY <2>5, FailureIInv
    <2>6. failures < MaxFailures /\ failures' = failures + 1 => failures' \in 0..MaxFailures
      BY <2>2
    <2>7. QED
      BY <2>1, <2>2, <2>3, <2>4, <2>5, <2>6
  <1>6. QED
    BY <1>1, <1>2, <1>3, <1>4, <1>5 DEF UpqNext, UpqWork
-----------------------------------------------------------------------------
(***************************************************************************)
(* Steps of the subnamespace side, which leave the updatequota controller  *)
(* and its objects alone.                                                  *)
(***************************************************************************)
MoverInv == UpqTypeOK /\ CompleteMeansMoved /\ Progress /\ Fresh

(***************************************************************************)
(* They keep what is said of the updatequota controller.                   *)
(***************************************************************************)
LEMMA SubnamespaceStepMover ==
    ASSUME IInv, IInv', MoverInv, UNCHANGED upqVars, failures' = failures \/ failures' = failures + 1
    PROVE  MoverInv'
  <1>1. failures' = 0 => failures = 0
    <2>1. failures \in 0..MaxFailures /\ MaxFailures \in Nat
      BY ParameterAssumption DEF IInv, TypeOK
    <2>2. QED
      BY <2>1
  <1>2. UNCHANGED <<upqPhase, upqQueue, mover, touches, timeouts, moved>>
    BY DEF upqVars
  <1>3. UpqTypeOK'
    BY <1>2 DEF MoverInv, UpqTypeOK
  <1>4. CompleteMeansMoved' /\ Progress'
    BY <1>2 DEF MoverInv, CompleteMeansMoved, Progress, Moved, Passed
  <1>5. Fresh'
    BY <1>1, <1>2 DEF MoverInv, Fresh, Moved, Passed, InHand
  <1>6. QED
    BY <1>3, <1>4, <1>5 DEF MoverInv

(***************************************************************************)
(* Users create an Updatequota, or write one.                              *)
(***************************************************************************)
LEMMA UpqUsersMover ==
    ASSUME IInv, MoverInv, NEW u \in Upqs, CreateUpq(u) \/ TouchUpq(u)
    PROVE  MoverInv'
  <1>0. UpqTypeOK /\ CompleteMeansMoved /\ Progress /\ Fresh
    BY DEF MoverInv
  <1>1. CASE CreateUpq(u)
    <2>1. /\ upqPhase[u] = "absent" /\ upqPhase' = [upqPhase EXCEPT ![u] = "None"]
          /\ upqQueue' = upqQueue \cup {u} /\ UNCHANGED <<mover, touches, timeouts, moved, failures>>
      BY <1>1 DEF CreateUpq, vars
    <2>2. UpqTypeOK'
      BY <1>0, <2>1 DEF UpqTypeOK
    <2>3. CompleteMeansMoved' /\ Progress'
      BY <1>0, <2>1 DEF UpqTypeOK, CompleteMeansMoved, Progress, Moved, Passed
    <2>4. Fresh'
      BY <1>0, <2>1 DEF UpqTypeOK, Fresh, Moved, Passed, InHand
    <2>5. QED
      BY <2>2, <2>3, <2>4 DEF MoverInv
  <1>2. CASE TouchUpq(u)
    <2>1. /\ touches < MaxTouches /\ touches' = touches + 1 /\ upqQueue' = upqQueue \cup {u}
          /\ mover' = mover \/ mover' = [mover EXCEPT !.fresh = FALSE]
          /\ UNCHANGED <<upqPhase, timeouts, moved>>
      BY <1>2 DEF TouchUpq
    <2>2. touches' \in 0..MaxTouches /\ touches' # 0
      <3>1. touches \in 0..MaxTouches /\ MaxTouches \in Nat
        BY <1>0, UpqAssumption DEF UpqTypeOK
      <3>2. QED
        BY <2>1, <3>1
    <2>3. /\ mover' \in Movers /\ mover'.at = mover.at /\ mover'.upq = mover.upq /\ mover'.k = mover.k
          /\ mover'.outcome = mover.outcome
      BY <1>0, <2>1 DEF UpqTypeOK, Movers
    <2>4. UpqTypeOK'
      BY <1>0, <2>1, <2>2, <2>3 DEF UpqTypeOK, Movers
    <2>5. CompleteMeansMoved' /\ Progress'
      BY <1>0, <2>1, <2>3 DEF CompleteMeansMoved, Progress, Moved, Passed
    <2>6. QED
      BY <2>2, <2>4, <2>5 DEF MoverInv, Fresh
  <1>3. QED
    BY <1>1, <1>2

(***************************************************************************)
(* The controller takes up an Updatequota that is not ended.               *)
(***************************************************************************)
LEMMA ReconcileUpqMover ==
    ASSUME IInv, MoverInv, NEW u \in Upqs, ReconcileUpq(u)
    PROVE  MoverInv'
  <1>0. UpqTypeOK /\ CompleteMeansMoved /\ Progress /\ Fresh
    BY DEF MoverInv
  <1>1. /\ mover.at = "idle" /\ upqQueue' = upqQueue \ {u}
        /\ UNCHANGED <<upqPhase, touches, timeouts, moved, failures>>
    BY DEF ReconcileUpq, vars
  <1>2. CASE mover' = AtRest
    <2>1. mover' \in Movers /\ mover'.at = "idle"
      BY <1>2, AtRestType
    <2>2. UpqTypeOK'
      BY <1>0, <1>1, <2>1 DEF UpqTypeOK, Movers
    <2>3. CompleteMeansMoved' /\ Progress'
      BY <1>0, <1>1, <2>1 DEF CompleteMeansMoved, Progress, Moved
    <2>4. Fresh'
      BY <1>0, <1>1, <2>1 DEF Fresh, Moved, Passed, InHand
    <2>5. QED
      BY <2>2, <2>3, <2>4 DEF MoverInv
  <1>3. CASE /\ upqPhase[u] # "absent" /\ ShouldReconcile(upqPhase[u])
             /\ mover' = [AtRest EXCEPT !.upq = u, !.fresh = TRUE,
                                        !.at = IF MoveCount(u) = 0 THEN "status" ELSE "move"]
    <2>1. upqPhase[u] = "None"
      BY <1>0, <1>3 DEF UpqTypeOK, ShouldReconcile
    <2>2. MoveCount(u) \in Nat
      BY MoveFacts
    <2>3. /\ mover' \in Movers /\ mover'.upq = u /\ mover'.fresh /\ mover'.k = 1
          /\ mover'.at = IF MoveCount(u) = 0 THEN "status" ELSE "move"
      BY <1>3, AtRestType DEF Movers
    <2>4. UpqTypeOK'
      <3>1. mover'.at \in {"move", "wait"} => mover'.k \in 1..MoveCount(u)
        BY <2>2, <2>3
      <3>2. QED
        BY <1>0, <1>1, <2>3, <3>1 DEF UpqTypeOK, Movers
    <2>5. \A k \in 1..MoveCount(u) : ~Passed(k)'
      BY <2>2, <2>3 DEF Passed
    <2>6. CompleteMeansMoved' /\ Progress'
      BY <1>0, <1>1, <2>3, <2>5 DEF CompleteMeansMoved, Progress, Moved
    <2>7. Fresh'
      <3>1. SUFFICES ASSUME failures = 0, touches = 0, NEW v \in Upqs
                     PROVE  /\ InHand(v)' => upqPhase'[v] = "None" /\ mover'.fresh
                            /\ \A k \in 1..MoveCount(v) :
                                /\ Moved(v, k)' <= 1
                                /\ upqPhase'[v] \in {"absent", "None"} /\ ~InHand(v)' => Moved(v, k)' = 0
                                /\ InHand(v)' /\ ~Passed(k)' => Moved(v, k)' = 0
        BY <1>1 DEF Fresh
      <3>2. ~InHand(v) /\ (InHand(v)' => v = u)
        BY <1>1, <2>3 DEF InHand
      <3>3. \A k \in 1..MoveCount(v) : Moved(v, k)' = Moved(v, k)
        BY <1>1 DEF Moved
      <3>4. QED
        BY <1>0, <1>1, <2>1, <2>3, <3>1, <3>2, <3>3 DEF Fresh
    <2>8. QED
      BY <2>4, <2>6, <2>7 DEF MoverInv
  <1>4. QED
    BY <1>2, <1>3 DEF ReconcileUpq

(***************************************************************************)
(* A move is stored once, at the place the mover has reached.              *)
(***************************************************************************)
LEMMA MoveMover ==
    ASSUME IInv, MoverInv, Move
    PROVE  MoverInv'
  <1>0. UpqTypeOK /\ CompleteMeansMoved /\ Progress /\ Fresh
    BY DEF MoverInv
  <1>1. PICK u \in Upqs : \E k \in 1..MoveCount(u) : \E q \in Int :
             LET n == MoveAt(u, k)
             IN  /\ u = mover.upq /\ k = mover.k /\ mover.at = "move" /\ n \in SNSs
                 /\ q = NewQuota(u, k, spec[n])
                 /\ UNCHANGED <<upqPhase, upqQueue, touches, timeouts>>
                 /\ \/ /\ Admitted(n, q) /\ StoreMove(n, q) /\ failures' = failures
                       /\ mover' = [mover EXCEPT !.at = "wait", !.spec = q]
                    \/ /\ UNCHANGED <<vars, moved>>
                       /\ mover' = [mover EXCEPT !.at = "status", !.outcome = "Error"]
                    \/ /\ failures < MaxFailures /\ failures' = failures + 1
                       /\ mover' = [mover EXCEPT !.at = "status", !.outcome = "Error"]
                       /\ \/ Admitted(n, q) /\ StoreMove(n, q)
                          \/ UNCHANGED <<sns, objs, queue, worker, updates, raced, moved>>
    BY <1>0, MoveEffects, Zenon
  <1>2. PICK k \in 1..MoveCount(u), q \in Int :
             /\ u = mover.upq /\ k = mover.k /\ mover.at = "move" /\ MoveAt(u, k) \in SNSs
             /\ UNCHANGED <<upqPhase, upqQueue, touches, timeouts>>
             /\ \/ /\ StoreMove(MoveAt(u, k), q) /\ failures' = failures
                   /\ mover' = [mover EXCEPT !.at = "wait", !.spec = q]
                \/ /\ failures' = failures /\ moved' = moved
                   /\ mover' = [mover EXCEPT !.at = "status", !.outcome = "Error"]
                \/ /\ failures' = failures + 1
                   /\ mover' = [mover EXCEPT !.at = "status", !.outcome = "Error"]
                   /\ StoreMove(MoveAt(u, k), q) \/ moved' = moved
    <2>1. UNCHANGED vars => failures' = failures
      BY DEF vars
    <2>2. QED
      BY <1>1, <2>1
  <1>3. failures \in Nat /\ MoveCount(u) \in Nat
    <2>1. failures \in 0..MaxFailures /\ MaxFailures \in Nat
      BY ParameterAssumption DEF IInv, TypeOK
    <2>2. QED
      BY <2>1, MoveFacts
  <1>4. /\ moved' \in [Upqs -> [Nodes -> Nat]]
        /\ \A v \in Upqs : \A j \in 1..MoveCount(v) : Moved(v, j) \in Nat
        /\ \A v \in Upqs : \A j \in 1..MoveCount(v) : ~(v = u /\ j = k) => Moved(v, j)' = Moved(v, j)
        /\ \/ Moved(u, k)' = Moved(u, k) + 1
           \/ Moved(u, k)' = Moved(u, k) /\ mover'.at # "wait"
    <2>1. CASE StoreMove(MoveAt(u, k), q)
      BY <1>0, <1>2, <2>1, StoreMoveCounts
    <2>2. CASE moved' = moved /\ mover' = [mover EXCEPT !.at = "status", !.outcome = "Error"]
      <3>1. moved \in [Upqs -> [Nodes -> Nat]] /\ mover'.at = "status"
        BY <1>0, <2>2 DEF UpqTypeOK
      <3>2. \A v \in Upqs : \A j \in 1..MoveCount(v) : MoveAt(v, j) \in Nodes
        BY MoveFacts DEF SNSs
      <3>3. QED
        BY <2>2, <3>1, <3>2 DEF Moved
    <2>3. QED
      BY <1>2, <2>1, <2>2
  <1>5. \A v \in Upqs : \A j \in 1..MoveCount(v) : Moved(v, j)' >= Moved(v, j)
    BY <1>4
  <1>6. /\ mover' \in Movers /\ mover'.upq = u /\ mover'.k = k /\ mover'.fresh = mover.fresh
        /\ \/ mover'.at = "wait" /\ mover'.outcome = mover.outcome /\ Moved(u, k)' = Moved(u, k) + 1
           \/ mover'.at = "status" /\ mover'.outcome = "Error"
    <2>1. CASE mover' = [mover EXCEPT !.at = "wait", !.spec = q]
      BY <1>0, <1>2, <1>4, <2>1 DEF UpqTypeOK, Movers
    <2>2. CASE mover' = [mover EXCEPT !.at = "status", !.outcome = "Error"]
      BY <1>0, <1>2, <2>2 DEF UpqTypeOK, Movers
    <2>3. QED
      BY <1>2, <2>1, <2>2
  <1>7. UpqTypeOK'
    BY <1>0, <1>2, <1>4, <1>6 DEF UpqTypeOK, Movers
  <1>8. CompleteMeansMoved'
    <2>1. SUFFICES ASSUME NEW v \in Upqs, upqPhase[v] = "Complete", NEW j \in 1..MoveCount(v)
                   PROVE  Moved(v, j)' >= 1
      BY <1>2 DEF CompleteMeansMoved
    <2>2. Moved(v, j) >= 1 /\ Moved(v, j)' >= Moved(v, j) /\ Moved(v, j) \in Nat
      BY <1>0, <1>4, <1>5, <2>1 DEF CompleteMeansMoved
    <2>3. Moved(v, j)' \in Nat
      BY <1>4, <2>2
    <2>4. QED
      BY <2>2, <2>3
  <1>9. Progress'
    <2>1. SUFFICES ASSUME mover'.at = "wait", mover.outcome = "Complete", NEW j \in 1..MoveCount(u), j <= k
                   PROVE  Moved(u, j)' >= 1
      BY <1>6 DEF Progress, Passed
    <2>2. CASE j = k
      BY <1>4, <2>1, <2>2
    <2>3. CASE j # k
      <3>1. j < k
        BY <1>3, <2>1, <2>3
      <3>2. Moved(u, j) >= 1
        BY <1>0, <1>2, <2>1, <3>1 DEF Progress, Passed
      <3>3. QED
        BY <1>4, <2>3, <3>2
    <2>4. QED
      BY <2>2, <2>3
  <1>10. Fresh'
    <2>1. SUFFICES ASSUME failures' = 0, touches' = 0
                   PROVE  /\ \A v \in Upqs : InHand(v)' => upqPhase'[v] = "None" /\ mover'.fresh
                          /\ \A v \in Upqs : \A j \in 1..MoveCount(v) :
                                /\ Moved(v, j)' <= 1
                                /\ upqPhase'[v] \in {"absent", "None"} /\ ~InHand(v)' => Moved(v, j)' = 0
                                /\ InHand(v)' /\ ~Passed(j)' => Moved(v, j)' = 0
      BY DEF Fresh
    <2>2. failures = 0 /\ touches = 0
      BY <1>2, <1>3, <2>1
    <2>3. \A v : (InHand(v) <=> v = u) /\ (InHand(v)' <=> v = u)
      BY <1>2, <1>6 DEF InHand
    <2>4. Moved(u, k) = 0
      BY <1>0, <1>2, <1>3, <2>2, <2>3 DEF Fresh, Passed
    <2>5. \A j \in 1..MoveCount(u) : ~Passed(j)' => ~Passed(j) /\ j # k
      BY <1>2, <1>3, <1>6 DEF Passed
    <2>6. \A v \in Upqs : InHand(v)' => upqPhase'[v] = "None" /\ mover'.fresh
      BY <1>0, <1>2, <1>6, <2>2, <2>3 DEF Fresh
    <2>7. ASSUME NEW v \in Upqs, NEW j \in 1..MoveCount(v)
          PROVE  /\ Moved(v, j)' <= 1
                 /\ upqPhase'[v] \in {"absent", "None"} /\ ~InHand(v)' => Moved(v, j)' = 0
                 /\ InHand(v)' /\ ~Passed(j)' => Moved(v, j)' = 0
      <3>1. /\ Moved(v, j) <= 1
            /\ upqPhase[v] \in {"absent", "None"} /\ ~InHand(v) => Moved(v, j) = 0
            /\ InHand(v) /\ ~Passed(j) => Moved(v, j) = 0
        BY <1>0, <2>2 DEF Fresh
      <3>2. CASE v = u /\ j = k
        BY <1>4, <2>3, <2>4, <2>5, <3>2
      <3>3. CASE ~(v = u /\ j = k)
        <4>1. Moved(v, j)' = Moved(v, j)
          BY <1>4, <3>3
        <4>2. QED
          BY <1>2, <2>3, <2>5, <3>1, <3>3, <4>1
      <3>4. QED
        BY <3>2, <3>3
    <2>8. QED
      BY <2>6, <2>7
  <1>11. QED
    BY <1>7, <1>8, <1>9, <1>10 DEF MoverInv

(***************************************************************************)
(* The wait ends, one way or another.                                      *)
(***************************************************************************)
LEMMA WaitMover ==
    ASSUME IInv, MoverInv, WaitOver \/ WaitTimeout \/ WaitFails
    PROVE  MoverInv'
  <1>0. UpqTypeOK /\ CompleteMeansMoved /\ Progress /\ Fresh
    BY DEF MoverInv
  <1>1. /\ mover.at = "wait" /\ timeouts' \in {0, 1}
        /\ UNCHANGED <<upqPhase, upqQueue, touches, moved>>
        /\ \/ failures' = failures /\ mover' = NextMove(mover.k)
           \/ failures' = failures + 1 /\ mover' = [mover EXCEPT !.at = "status", !.outcome = "Error"]
    BY <1>0 DEF WaitOver, WaitTimeout, WaitFails, GiveUp, vars, UpqTypeOK
  <1>2. failures' = 0 => failures = 0
    <2>1. failures \in 0..MaxFailures /\ MaxFailures \in Nat
      BY ParameterAssumption DEF IInv, TypeOK
    <2>2. QED
      BY <1>1, <2>1
  <1>3. mover \in Movers /\ OnTheWay(mover) /\ MoveCount(mover.upq) \in Nat
    BY <1>0, MoveFacts DEF UpqTypeOK, Movers, OnTheWay
  <1>4. /\ mover' \in Movers /\ OnTheWay(mover') /\ mover'.upq = mover.upq /\ mover'.fresh = mover.fresh
        /\ \/ /\ mover'.outcome = mover.outcome
              /\ \/ mover'.at = "move" /\ mover'.k = mover.k + 1
                 \/ mover'.at = "status" /\ mover.k = MoveCount(mover.upq)
           \/ mover'.at = "status" /\ mover'.outcome = "Error"
    <2>1. CASE mover' = NextMove(mover.k)
      BY <1>1, <1>3, <2>1, NextMoveFacts
    <2>2. CASE mover' = [mover EXCEPT !.at = "status", !.outcome = "Error"]
      BY <1>3, <2>2 DEF Movers, OnTheWay
    <2>3. QED
      BY <1>1, <2>1, <2>2
  <1>5. /\ mover.k \in Nat
        /\ \A j \in 1..MoveCount(mover.upq) : /\ Passed(j) => Passed(j)'
                                              /\ Passed(j)' /\ mover'.outcome = "Complete" => Passed(j)
    <2>1. mover.k \in Nat
      BY <1>3 DEF Movers
    <2>2. QED
      BY <1>1, <1>3, <1>4, <2>1 DEF Passed
  <1>6. UpqTypeOK'
    BY <1>0, <1>1, <1>4 DEF UpqTypeOK, Movers, OnTheWay
  <1>7. CompleteMeansMoved'
    BY <1>0, <1>1 DEF CompleteMeansMoved, Moved
  <1>8. Progress'
    <2>1. SUFFICES ASSUME mover'.outcome = "Complete", NEW j \in 1..MoveCount(mover.upq), Passed(j)'
                   PROVE  moved'[mover.upq][MoveAt(mover.upq, j)] >= 1
      BY <1>4 DEF Progress, Moved
    <2>2. mover.outcome = "Complete" /\ Passed(j)
      BY <1>4, <1>5, <2>1
    <2>3. QED
      BY <1>0, <1>1, <2>2 DEF Progress, Moved
  <1>9. Fresh'
    <2>1. SUFFICES ASSUME failures = 0, touches = 0, NEW v \in Upqs
                   PROVE  /\ InHand(v)' => upqPhase'[v] = "None" /\ mover'.fresh
                          /\ \A j \in 1..MoveCount(v) :
                                /\ Moved(v, j)' <= 1
                                /\ upqPhase'[v] \in {"absent", "None"} /\ ~InHand(v)' => Moved(v, j)' = 0
                                /\ InHand(v)' /\ ~Passed(j)' => Moved(v, j)' = 0
      BY <1>1, <1>2 DEF Fresh
    <2>2. InHand(v)' <=> InHand(v)
      BY <1>1, <1>4 DEF InHand
    <2>3. \A j \in 1..MoveCount(v) : Moved(v, j)' = Moved(v, j)
      BY <1>1 DEF Moved
    <2>4. \A j \in 1..MoveCount(v) : InHand(v) /\ ~Passed(j)' => ~Passed(j)
      BY <1>5 DEF InHand
    <2>5. QED
      BY <1>0, <1>1, <1>4, <2>1, <2>2, <2>3, <2>4 DEF Fresh
  <1>10. QED
    BY <1>6, <1>7, <1>8, <1>9 DEF MoverInv

(***************************************************************************)
(* The outcome is recorded, or not, and the mover rests; it also rests     *)
(* after a restart.                                                        *)
(***************************************************************************)
LEMMA StatusMover ==
    ASSUME IInv, MoverInv, Status \/ StatusFails \/ UpqRestart
    PROVE  MoverInv'
  <1>0. UpqTypeOK /\ CompleteMeansMoved /\ Progress /\ Fresh
    BY DEF MoverInv
  <1>1. mover' = AtRest /\ mover' \in Movers /\ mover'.at = "idle" /\ UNCHANGED <<touches, timeouts, moved>>
    BY AtRestType DEF Status, StatusFails, UpqRestart
  <1>2. /\ mover.upq \in Upqs
        /\ \/ upqPhase' = upqPhase
           \/ upqPhase' = [upqPhase EXCEPT ![mover.upq] = "Error"]
           \/ /\ mover.at = "status"
              /\ upqPhase' = [upqPhase EXCEPT ![mover.upq] = mover.outcome]
    BY <1>0 DEF Status, StatusFails, UpqRestart, UpqTypeOK
  <1>3. upqQueue' \subseteq Upqs
    BY <1>0 DEF Status, StatusFails, UpqRestart, UpqTypeOK
  <1>4. UpqTypeOK'
    <2>1. mover.outcome \in {"Complete", "Error"}
      BY <1>0 DEF UpqTypeOK
    <2>2. upqPhase' \in [Upqs -> {"absent", "None", "Complete", "Error"}]
      BY <1>0, <1>2, <2>1 DEF UpqTypeOK
    <2>3. QED
      BY <1>0, <1>1, <1>3, <2>2 DEF UpqTypeOK, Movers
  <1>5. CompleteMeansMoved'
    <2>1. SUFFICES ASSUME NEW v \in Upqs, upqPhase'[v] = "Complete", NEW j \in 1..MoveCount(v)
                   PROVE  Moved(v, j) >= 1
      BY <1>1 DEF CompleteMeansMoved, Moved
    <2>2. CASE upqPhase[v] = "Complete"
      BY <1>0, <2>2 DEF CompleteMeansMoved
    <2>3. CASE upqPhase[v] # "Complete"
      <3>1. v = mover.upq /\ mover.at = "status" /\ mover.outcome = "Complete"
        BY <1>0, <1>2, <2>1, <2>3 DEF UpqTypeOK
      <3>2. QED
        BY <1>0, <3>1 DEF Progress, Passed
    <2>4. QED
      BY <2>2, <2>3
  <1>6. Progress'
    BY <1>1 DEF Progress
  <1>7. Fresh'
    <2>1. CASE failures' = failures + 1
      <3>1. failures \in 0..MaxFailures /\ MaxFailures \in Nat
        BY ParameterAssumption DEF IInv, TypeOK
      <3>2. failures' # 0
        BY <2>1, <3>1
      <3>3. QED
        BY <3>2 DEF Fresh
    <2>2. CASE Status
      <3>1. SUFFICES ASSUME failures = 0, touches = 0, NEW v \in Upqs
                     PROVE  /\ InHand(v)' => upqPhase'[v] = "None" /\ mover'.fresh
                            /\ \A j \in 1..MoveCount(v) :
                                /\ Moved(v, j)' <= 1
                                /\ upqPhase'[v] \in {"absent", "None"} /\ ~InHand(v)' => Moved(v, j)' = 0
                                /\ InHand(v)' /\ ~Passed(j)' => Moved(v, j)' = 0
        BY <1>1, <2>2 DEF Fresh, Status, vars
      <3>2. ~InHand(v)' /\ \A j \in 1..MoveCount(v) : Moved(v, j)' = Moved(v, j)
        BY <1>1 DEF InHand, Moved
      <3>3. \A j \in 1..MoveCount(v) : Moved(v, j) <= 1
        BY <1>0, <3>1 DEF Fresh
      <3>4. mover.fresh /\ InHand(mover.upq) /\ \A w : InHand(w) => w = mover.upq
        BY <1>0, <1>2, <2>2, <3>1 DEF Fresh, InHand, Status
      <3>5. upqPhase'[v] \in {"absent", "None"} => upqPhase'[v] = upqPhase[v] /\ ~InHand(v)
        BY <1>0, <2>2, <3>4 DEF Status, UpqTypeOK
      <3>6. upqPhase'[v] \in {"absent", "None"} => \A j \in 1..MoveCount(v) : Moved(v, j) = 0
        BY <1>0, <3>1, <3>5 DEF Fresh
      <3>7. QED
        BY <3>2, <3>3, <3>6
    <2>3. QED
      BY <2>1, <2>2 DEF StatusFails, UpqRestart, Restart
  <1>8. QED
    BY <1>4, <1>5, <1>6, <1>7 DEF MoverInv
-----------------------------------------------------------------------------
(***************************************************************************)
(* Every behaviour keeps the inductive invariant.                          *)
(***************************************************************************)
THEOREM UpqInvariance == UpqSpec => []UpqIInv
  <1>1. UpqIInv /\ [UpqNext]_allVars => UpqIInv'
    <2> SUFFICES ASSUME IInv, MoverInv, [UpqNext]_allVars PROVE IInv' /\ MoverInv'
      BY DEF UpqIInv, MoverInv
    <2>1. CASE UNCHANGED allVars
      <3>1. UNCHANGED vars /\ UNCHANGED upqVars /\ failures' = failures
        BY <2>1 DEF allVars, vars
      <3>2. QED
        BY <3>1, UnchangedIInv, SubnamespaceStepMover
    <2>2. CASE UpqNext
      <3>1. IInv'
        BY <2>2, CarriedOver DEF MoverInv
      <3>2. CASE SubnamespaceStep
        <4>1. UNCHANGED upqVars /\ (failures' = failures \/ failures' = failures + 1)
          BY <3>2 DEF SubnamespaceStep, Users, Work, Fail, CreateSNS, UpdateSNS, Consume, Reconcile,
            Setup, InitNamespace, InitQuota, InitAnnotate, InitCreated, SyncList, SyncQuota, SyncStatus,
            UpdateQuotaObject
        <4>2. QED
          BY <3>1, <4>1, SubnamespaceStepMover
      <3>3. QED
        BY <2>2, <3>1, <3>2, UpqUsersMover, ReconcileUpqMover, MoveMover, WaitMover, StatusMover
          DEF UpqNext, UpqWork
    <2>3. QED
      BY <2>1, <2>2
  <1>2. QED
    BY <1>1, UpqInitIInv, PTL DEF UpqSpec

(***************************************************************************)
(* The updatequota controller's state keeps its type: in particular it     *)
(* never runs past the end of its list of subnamespaces.                   *)
(***************************************************************************)
THEOREM UpqTyping == UpqSpec => []UpqTypeOK
  <1>1. UpqIInv => UpqTypeOK
    BY DEF UpqIInv
  <1>2. QED
    BY <1>1, UpqInvariance, PTL

(***************************************************************************)
(* Complete is said only of an operation all of whose moves were stored,   *)
(* after any restarts, timeouts, denials and writes by others.             *)
(***************************************************************************)
THEOREM CompleteIsHonest == UpqSpec => []CompleteMeansMoved
  <1>1. UpqIInv => CompleteMeansMoved
    BY DEF UpqIInv
  <1>2. QED
    BY <1>1, UpqInvariance, PTL

(***************************************************************************)
(* With no restart, no failed call and nobody writing the object, no move  *)
(* is stored twice, whatever the way from source to destination.           *)
(***************************************************************************)
THEOREM MovedOnce == UpqSpec => []MovedOnceUndisturbed
  <1>1. UpqIInv => MovedOnceUndisturbed
    BY DEF UpqIInv, Fresh, MovedOnceUndisturbed
  <1>2. QED
    BY <1>1, UpqInvariance, PTL

(***************************************************************************)
(* The updatequota controller's writes never leave a Created Subnamespace  *)
(* without its namespace or its quota object.                              *)
(***************************************************************************)
THEOREM CreatedStaysComplete == UpqSpec => []CreatedHasQuotaObject
  <1>1. UpqIInv => CreatedHasQuotaObject
    BY DEF UpqIInv, IInv
  <1>2. QED
    BY <1>1, UpqInvariance, PTL
-----------------------------------------------------------------------------
(***************************************************************************)
(* No user asks for anything: the case the comment on ensureSnsEqualQuota  *)
(* is about, Updatequotas alone.                                           *)
(***************************************************************************)
QuietUsers == \A n \in SNSs : Requests[n] = {}

(***************************************************************************)
(* At the start every request is in force.                                 *)
(***************************************************************************)
LEMMA InitCalm == UpqInit => Calm
  <1> SUFFICES ASSUME UpqInit PROVE ~raced /\ CalmState
    BY DEF Calm
  <1>1. worker.at = "idle" /\ mover.at = "idle" /\ ~raced
    BY IdleType, AtRestType DEF UpqInit, Init
  <1>2. ASSUME NEW n \in SNSs, Exists(n)
        PROVE  /\ phase[n] = "Created" /\ HasQuota(n) /\ n \in namespaces /\ isRq[n] = RqFlag(n)
               /\ spec[n] \in Nat /\ SubnamespaceObject(n) = spec[n]
    <2>1. InitialSpec[n] # NoObject /\ phase[n] = "Created" /\ n \in Nodes /\ n # Root
      BY <1>2 DEF UpqInit, Init, Exists, SNSs
    <2>2. InitialSpec[n] \in Nat /\ HasQuota(n)
      BY <2>1, InitialAssumption DEF HasQuota, IsSNSUpper
    <2>3. n \in namespaces /\ isRq[n] = RqFlag(n) /\ spec[n] = InitialSpec[n]
      BY <2>1 DEF UpqInit, Init
    <2>4. SubnamespaceObject(n) = InitialSpec[n]
      BY <2>1 DEF UpqInit, Init, SubnamespaceObject
    <2>5. QED
      BY <2>1, <2>2, <2>3, <2>4
  <1>3. QED
    BY <1>1, <1>2 DEF CalmState, AllInPlace, InForceOrWaiting, CopyIsCurrent

(***************************************************************************)
(* A step that changes no request and no quota object, and leaves worker   *)
(* and mover at work on what they were at work on.                         *)
(***************************************************************************)
LEMMA CalmKept ==
    ASSUME CalmState, UNCHANGED <<phase, spec, namespaces, rq, crq>>,
           \A n \in SNSs : Exists(n) => isRq'[n] = isRq[n] \/ isRq'[n] = RqFlag(n),
           \/ worker'.at = "idle"
           \/ /\ worker'.sns = worker.sns /\ worker'.spec = worker.spec /\ worker.at # "idle"
              /\ worker'.at \in {"sync", "syncQuota", "syncUpdate", "syncStatus"},
           \/ mover'.at = mover.at /\ mover'.upq = mover.upq /\ mover'.k = mover.k /\ mover'.spec = mover.spec
           \/ mover'.at # "wait" /\ mover.at # "wait"
    PROVE  CalmState'
  <1>1. \A n : SubnamespaceObject(n)' = SubnamespaceObject(n)
    BY DEF SubnamespaceObject
  <1>2. AllInPlace'
    BY <1>1 DEF CalmState, AllInPlace, Exists
  <1>3. InForceOrWaiting'
    BY <1>1 DEF CalmState, InForceOrWaiting, Waiting, Exists
  <1>4. CopyIsCurrent'
    <2>1. SUFFICES ASSUME worker'.at # "idle" PROVE CopyIsCurrent'
      BY DEF CopyIsCurrent
    <2>2. SubnamespaceObject(worker.sns)' = IF IsRQ(worker'.sns, SelfOffset) THEN rq'[worker'.sns] ELSE crq'[worker'.sns]
      BY DEF SubnamespaceObject
    <2>3. SubnamespaceObject(worker.sns)' = SubnamespaceObject(worker.sns)
      BY <2>1, <2>2 DEF SubnamespaceObject
    <2>4. QED
      BY <2>1, <2>3 DEF CalmState, CopyIsCurrent
  <1>5. QED
    BY <1>2, <1>3, <1>4 DEF CalmState

(***************************************************************************)
(* The subnamespace controller at work: it only brings the quota object of *)
(* the subnamespace the mover waits for in line with its new request.      *)
(***************************************************************************)
LEMMA SubnamespaceStepCalm ==
    ASSUME IInv, IInv', CalmState, QuietUsers, SubnamespaceStep, failures' = failures
    PROVE  CalmState' /\ raced' = raced
  <1>0. TypeOK /\ Requested /\ AllInPlace /\ InForceOrWaiting /\ CopyIsCurrent
    BY DEF IInv, CalmState
  <1>1. UNCHANGED mover
    BY DEF SubnamespaceStep, upqVars
  <1>2. CASE Users
    <2>1. PICK n \in SNSs, u \in Loads : Consume(n, u)
      BY <1>2 DEF Users, QuietUsers
    <2>2. UNCHANGED <<phase, spec, isRq, namespaces, rq, crq, raced>>
      BY <2>1 DEF Consume, sns
    <2>3. worker'.at = worker.at /\ worker'.sns = worker.sns /\ worker'.spec = worker.spec
      BY <1>0, <2>1 DEF Consume, TypeOK
    <2>4. QED
      BY <1>0, <1>1, <2>2, <2>3, CalmKept DEF CopyIsCurrent
  <1>3. ASSUME NEW n \in SNSs, Reconcile(n)
        PROVE  CalmState' /\ raced' = raced
    <2>1. UNCHANGED <<phase, spec, isRq, namespaces, rq, crq, raced>>
      BY <1>3 DEF Reconcile, sns, objs
    <2>2. /\ worker'.sns = n /\ worker'.spec = spec[n]
          /\ worker'.at = CASE phase[n] = "None"    -> "setup"
                            [] phase[n] = "Missing" -> "initNamespace"
                            [] phase[n] = "Created" -> "sync"
                            [] OTHER                -> "idle"
      BY <1>3 DEF Reconcile, Idle
    <2>3. phase[n] \in {"Created", "absent"}
      BY <1>0 DEF AllInPlace, Exists, TypeOK, Phases
    <2>4. worker'.at = "idle" \/ (worker'.at = "sync" /\ phase[n] = "Created")
      BY <2>2, <2>3
    <2>5. AllInPlace' /\ InForceOrWaiting'
      BY <1>0, <1>1, <2>1 DEF AllInPlace, InForceOrWaiting, Waiting, Exists, SubnamespaceObject
    <2>6. CopyIsCurrent'
      BY <1>0, <2>1, <2>2, <2>4 DEF CopyIsCurrent, AllInPlace, Exists
    <2>7. QED
      BY <2>1, <2>5, <2>6 DEF CalmState
  <1>4. CASE Work
    <2>1. worker.at \in {"sync", "syncQuota", "syncUpdate", "syncStatus"} /\ worker.spec \in Nat
      <3>1. worker.at # "idle"
        BY <1>4 DEF Work, Setup, InitNamespace, InitQuota, InitAnnotate, InitCreated, SyncList, SyncQuota,
          SyncStatus, UpdateQuotaObject
      <3>2. QED
        BY <1>0, <3>1 DEF CopyIsCurrent
    <2>2. PICK n \in SNSs :
            /\ n = worker.sns /\ phase[n] = "Created" /\ Exists(n) /\ HasQuota(n)
            /\ spec[n] \in Nat /\ SubnamespaceObject(n) \in Nat
            /\ worker.spec # spec[n] => SubnamespaceObject(n) # spec[n]
      BY <1>0, <2>1 DEF TypeOK, Requested, AllInPlace, CopyIsCurrent
    <2>3. CASE SyncList
      <3>1. /\ UNCHANGED <<phase, spec, isRq, namespaces, rq, crq, raced>>
            /\ worker'.at = "syncQuota" /\ worker'.sns = worker.sns /\ worker'.spec = worker.spec
        BY <1>0, <2>3 DEF SyncList, sns, objs, TypeOK
      <3>2. QED
        BY <1>1, <2>1, <3>1, CalmKept
    <2>4. CASE SyncStatus
      <3>1. UNCHANGED <<phase, spec, namespaces, rq, crq, raced>> /\ worker'.at = "idle"
        BY <2>4, IdleType DEF SyncStatus, Requeue, Finish, objs
      <3>2. isRq' = isRq \/ isRq' = [isRq EXCEPT ![n] = RqFlag(n)]
        BY <2>2, <2>4 DEF SyncStatus
      <3>3. \A m \in SNSs : isRq'[m] = isRq[m] \/ isRq'[m] = RqFlag(m)
        BY <1>0, <3>2 DEF TypeOK
      <3>4. QED
        BY <1>1, <3>1, <3>3, CalmKept
    <2>5. CASE SyncQuota \/ UpdateQuotaObject
      <3>1. /\ UNCHANGED <<phase, spec, isRq, namespaces, raced>>
            /\ worker'.at \in {"syncUpdate", "syncStatus"} /\ worker'.sns = n /\ worker'.spec = worker.spec
            /\ SubnamespaceObject(n)' = SubnamespaceObject(n) \/ SubnamespaceObject(n)' = worker.spec
            /\ \A m \in SNSs : m # n => SubnamespaceObject(m)' = SubnamespaceObject(m)
        <4>1. /\ SubnamespaceObject(n) \in Quantities /\ OtherObject(n) \in Quantities /\ DropOther(n) \in Quantities
              /\ CreateDefaultSNSResourceQuota(DropOther(n)) \in Quantities
              /\ worker.spec \in Quantities /\ worker.spec # Unset
          BY <1>0, <2>1, ObjectType, QuantityFacts
        <4>2. PICK q \in Quantities, x \in Quantities :
                  /\ SetObjects(n, q, x) /\ (q = SubnamespaceObject(n) \/ q = worker.spec)
                  /\ \/ worker' = [worker EXCEPT !.at = "syncUpdate", !.objFresh = TRUE]
                     \/ worker' = [worker EXCEPT !.at = "syncStatus", !.objFresh = TRUE]
                     \/ worker' = [worker EXCEPT !.at = "syncStatus"]
                  /\ UNCHANGED <<phase, spec, isRq, namespaces, raced>>
          <5>1. CASE UpdateQuotaObject
            <6>1. /\ worker.at = "syncUpdate"
                  /\ worker' = [worker EXCEPT !.at = IF worker.at = "initUpdate" THEN "initAnnotate" ELSE "syncStatus"]
                  /\ SetObjects(n, IF worker.objFresh THEN worker.spec ELSE SubnamespaceObject(n), OtherObject(n))
                  /\ UNCHANGED <<phase, spec, isRq, namespaces, raced>>
              BY <2>1, <2>2, <5>1 DEF UpdateQuotaObject, Step, sns
            <6>2. QED
              BY <4>1, <6>1
          <5>2. CASE SyncQuota
            <6>1. /\ UNCHANGED <<phase, isRq, namespaces, raced>>
                  /\ \/ /\ SetObjects(n, SubnamespaceObject(n), IF IsRQ(n, SelfOffset) THEN DropOther(n)
                                                  ELSE CreateDefaultSNSResourceQuota(DropOther(n)))
                        /\ worker' = [worker EXCEPT !.at = "syncUpdate", !.objFresh = TRUE]
                        /\ UNCHANGED spec
                     \/ EnsureFromSpec(n, DropOther(n), "syncUpdate", "syncStatus")
              BY <2>2, <4>1, <5>2 DEF SyncQuota, EnsureFromUsed, UsedUnknown
            <6>2. CASE EnsureFromSpec(n, DropOther(n), "syncUpdate", "syncStatus")
              BY <4>1, <6>1, <6>2 DEF EnsureFromSpec
            <6>3. QED
              BY <4>1, <6>1, <6>2
          <5>3. QED
            BY <2>5, <5>1, <5>2
        <4>3. /\ SubnamespaceObject(n)' = q
              /\ \A m \in SNSs : m # n => SubnamespaceObject(m)' = SubnamespaceObject(m)
          BY <1>0, <4>2, SetObjectsFacts
        <4>4. worker'.at \in {"syncUpdate", "syncStatus"} /\ worker'.sns = n /\ worker'.spec = worker.spec
          BY <1>0, <2>2, <4>2 DEF TypeOK
        <4>5. QED
          BY <4>2, <4>3, <4>4
      <3>2. AllInPlace'
        BY <1>0, <2>1, <2>2, <3>1 DEF AllInPlace, Exists
      <3>3. InForceOrWaiting'
        <4>1. \A m \in SNSs : Exists(m) /\ SubnamespaceObject(m)' # spec[m] => SubnamespaceObject(m) # spec[m]
          BY <2>2, <3>1
        <4>2. QED
          BY <1>0, <1>1, <3>1, <4>1 DEF InForceOrWaiting, Waiting, Exists
      <3>4. CopyIsCurrent'
        <4>1. worker.spec # spec[n] => SubnamespaceObject(n)' # spec[n]
          BY <2>2, <3>1
        <4>2. SubnamespaceObject(worker.sns)' = SubnamespaceObject(n)'
          BY <3>1 DEF SubnamespaceObject
        <4>3. QED
          BY <2>1, <3>1, <4>1, <4>2 DEF CopyIsCurrent
      <3>5. QED
        BY <3>1, <3>2, <3>3, <3>4 DEF CalmState
    <2>6. QED
      BY <1>4, <2>1, <2>3, <2>4, <2>5 DEF Work, Setup, InitNamespace, InitQuota, InitAnnotate, InitCreated
  <1>5. ~Fail
    <2>1. failures \in 0..MaxFailures /\ MaxFailures \in Nat
      BY <1>0, ParameterAssumption DEF TypeOK
    <2>2. QED
      BY <2>1 DEF Fail
  <1>6. QED
    BY <1>2, <1>3, <1>4, <1>5 DEF SubnamespaceStep

(***************************************************************************)
(* A move is made when everything is in force, so next to nothing that is  *)
(* not, and the mover then waits for the request it has changed.           *)
(***************************************************************************)
LEMMA StoreMoveCalm ==
    ASSUME IInv, CalmState, NEW n \in SNSs, NEW q \in Int, Admitted(n, q), StoreMove(n, q),
           mover.at = "move", mover \in Movers, mover' = [mover EXCEPT !.at = "wait", !.spec = q],
           n = MoveAt(mover.upq, mover.k)
    PROVE  CalmState' /\ raced' = raced
  <1>0. TypeOK /\ Requested /\ AllInPlace /\ InForceOrWaiting /\ CopyIsCurrent
    BY DEF IInv, CalmState
  <1>1. /\ spec' = [spec EXCEPT ![n] = q] /\ UNCHANGED <<phase, isRq, namespaces, rq, crq>>
        /\ worker' = IF q # spec[n] THEN Outdated(n) ELSE worker
    BY DEF StoreMove, objs
  <1>2. \A m \in SNSs : Exists(m) => SubnamespaceObject(m) = spec[m]
    BY <1>0 DEF InForceOrWaiting, Waiting
  <1>3. raced' = raced
    <2>1. \A m \in SNSs : Settled(m)
      BY <1>0, <1>2 DEF Settled, AllInPlace
    <2>2. raced' = (raced \/ ~SettledAround(n)) /\ raced \in BOOLEAN
      BY <1>0 DEF StoreMove, TypeOK
    <2>3. SettledAround(n)
      BY <2>1 DEF SettledAround
    <2>4. QED
      BY <2>2, <2>3
  <1>4. Exists(n) => q \in Nat
    <2>1. q >= 0 \/ q = spec[n]
      BY DEF Admitted
    <2>2. Exists(n) => spec[n] \in Nat
      BY <1>0 DEF AllInPlace
    <2>3. QED
      BY <2>1, <2>2
  <1>5. spec'[n] = q /\ \A m \in SNSs : m # n => spec'[m] = spec[m]
    BY <1>0, <1>1 DEF TypeOK
  <1>6. \A m : SubnamespaceObject(m)' = SubnamespaceObject(m)
    BY <1>1 DEF SubnamespaceObject
  <1>7. AllInPlace'
    BY <1>0, <1>1, <1>4, <1>5, <1>6 DEF AllInPlace, Exists
  <1>8. mover'.at = "wait" /\ mover'.upq = mover.upq /\ mover'.k = mover.k /\ mover'.spec = q
    BY DEF Movers
  <1>9. InForceOrWaiting'
    <2>1. MoveAt(mover'.upq, mover'.k) = n
      BY <1>8
    <2>2. \A m \in SNSs : Exists(m)' /\ SubnamespaceObject(m)' # spec'[m] => m = n
      BY <1>1, <1>2, <1>5, <1>6 DEF Exists
    <2>3. QED
      BY <1>5, <1>8, <2>1, <2>2 DEF InForceOrWaiting, Waiting
  <1>10. CopyIsCurrent'
    <2>1. worker'.at = worker.at /\ worker'.sns = worker.sns /\ worker'.spec = worker.spec
      BY <1>0, <1>1 DEF TypeOK, Outdated
    <2>2. SUFFICES ASSUME worker.at # "idle" PROVE CopyIsCurrent'
      BY <2>1 DEF CopyIsCurrent
    <2>3. worker.sns \in SNSs /\ Exists(worker.sns)
      BY <1>0, <2>2 DEF TypeOK, Requested
    <2>4. worker.spec = spec[worker.sns] /\ SubnamespaceObject(worker.sns) = spec[worker.sns]
      BY <1>0, <1>2, <2>2, <2>3 DEF CopyIsCurrent
    <2>5. SubnamespaceObject(worker.sns)' = SubnamespaceObject(worker.sns)
      BY <1>1, <2>1 DEF SubnamespaceObject
    <2>6. QED
      BY <1>0, <2>1, <2>2, <2>4, <2>5 DEF CopyIsCurrent
  <1>11. QED
    BY <1>3, <1>7, <1>9, <1>10 DEF CalmState

(***************************************************************************)
(* No step of anybody disturbs the calm, as long as users ask for nothing. *)
(***************************************************************************)
LEMMA CalmStep ==
    ASSUME UpqIInv, UpqIInv', Calm, QuietUsers, UpqNext
    PROVE  Calm'
  <1>1. SUFFICES ASSUME Undisturbed' PROVE ~raced' /\ CalmState'
    BY DEF Calm
  <1>2. IInv /\ IInv' /\ UpqTypeOK /\ mover \in Movers
    BY DEF UpqIInv, UpqTypeOK, Movers
  <1>3. failures \in Nat /\ updates \in Nat
    <2>1. failures \in 0..MaxFailures /\ MaxFailures \in Nat /\ updates \in 0..MaxUpdates /\ MaxUpdates \in Nat
      BY <1>2, ParameterAssumption DEF IInv, TypeOK
    <2>2. QED
      BY <2>1
  <1>4. failures' = 0 /\ timeouts' = 0 /\ updates' = 0
    BY <1>1 DEF Undisturbed
  <1>5. CASE SubnamespaceStep
    <2>1. /\ UNCHANGED timeouts /\ (failures' = failures \/ failures' = failures + 1)
          /\ updates' = updates \/ updates' = updates + 1
      BY <1>5 DEF SubnamespaceStep, upqVars, Users, Work, Fail, CreateSNS, UpdateSNS, Consume, Reconcile,
        Setup, InitNamespace, InitQuota, InitAnnotate, InitCreated, SyncList, SyncQuota, SyncStatus,
        UpdateQuotaObject
    <2>2. failures = 0 /\ updates = 0 /\ timeouts = 0
      BY <1>3, <1>4, <2>1
    <2>3. CalmState /\ ~raced
      BY <2>2 DEF Calm, Undisturbed
    <2>4. CalmState' /\ raced' = raced
      BY <1>2, <1>4, <1>5, <2>2, <2>3, SubnamespaceStepCalm
    <2>5. QED
      BY <2>3, <2>4
  <1>6. CASE Status \/ \E u \in Upqs : CreateUpq(u) \/ TouchUpq(u) \/ ReconcileUpq(u)
    <2>1. UNCHANGED vars /\ UNCHANGED timeouts
      BY <1>6 DEF Status, CreateUpq, TouchUpq, ReconcileUpq
    <2>2. UNCHANGED <<phase, spec, isRq, namespaces, rq, crq, worker, updates, failures, raced>>
      BY <2>1 DEF vars
    <2>3. CalmState /\ ~raced
      BY <1>4, <2>1, <2>2 DEF Calm, Undisturbed
    <2>4. \/ mover'.at = mover.at /\ mover'.upq = mover.upq /\ mover'.k = mover.k /\ mover'.spec = mover.spec
          \/ mover'.at # "wait" /\ mover.at # "wait"
      <3>1. CASE Status
        BY <3>1, AtRestType DEF Status
      <3>2. ASSUME NEW u \in Upqs, CreateUpq(u) \/ TouchUpq(u)
            PROVE  mover'.at = mover.at /\ mover'.upq = mover.upq /\ mover'.k = mover.k /\ mover'.spec = mover.spec
        BY <1>2, <3>2 DEF CreateUpq, TouchUpq, Movers
      <3>3. ASSUME NEW u \in Upqs, ReconcileUpq(u)
            PROVE  mover'.at # "wait" /\ mover.at # "wait"
        BY <3>3, AtRestType DEF ReconcileUpq, Movers
      <3>4. QED
        BY <1>6, <3>1, <3>2, <3>3
    <2>5. CalmState'
      BY <2>2, <2>3, <2>4, CalmKept DEF CalmState, CopyIsCurrent
    <2>6. QED
      BY <2>2, <2>3, <2>5
  <1>7. CASE Move
    <2>1. PICK n \in SNSs, q \in Int :
              /\ n = MoveAt(mover.upq, mover.k) /\ mover.at = "move" /\ UNCHANGED timeouts
              /\ \/ /\ Admitted(n, q) /\ StoreMove(n, q) /\ failures' = failures
                    /\ mover' = [mover EXCEPT !.at = "wait", !.spec = q]
                 \/ /\ UNCHANGED vars
                    /\ mover' = [mover EXCEPT !.at = "status", !.outcome = "Error"]
                 \/ failures' = failures + 1
      BY <1>2, <1>7, MoveEffects
    <2>2. CASE /\ Admitted(n, q) /\ StoreMove(n, q) /\ failures' = failures
               /\ mover' = [mover EXCEPT !.at = "wait", !.spec = q]
      <3>1. updates' = updates
        BY <2>2 DEF StoreMove
      <3>2. CalmState /\ ~raced
        BY <1>4, <2>1, <2>2, <3>1 DEF Calm, Undisturbed
      <3>3. CalmState' /\ raced' = raced
        BY <1>2, <2>1, <2>2, <3>2, StoreMoveCalm
      <3>4. QED
        BY <3>2, <3>3
    <2>3. CASE UNCHANGED vars /\ mover' = [mover EXCEPT !.at = "status", !.outcome = "Error"]
      <3>1. /\ UNCHANGED <<phase, spec, isRq, namespaces, rq, crq, worker, updates, failures, raced>>
            /\ mover'.at # "wait"
        BY <1>2, <2>3 DEF vars, Movers
      <3>2. CalmState /\ ~raced
        BY <1>4, <2>1, <3>1 DEF Calm, Undisturbed
      <3>3. CalmState'
        BY <2>1, <3>1, <3>2, CalmKept DEF CalmState, CopyIsCurrent
      <3>4. QED
        BY <3>1, <3>2, <3>3
    <2>4. QED
      BY <1>3, <1>4, <2>1, <2>2, <2>3
  <1>8. CASE WaitOver
    <2>1. /\ UNCHANGED <<phase, spec, isRq, namespaces, rq, crq, worker, updates, failures, raced, timeouts>>
          /\ mover.at = "wait"
      BY <1>8 DEF WaitOver, vars
    <2>2. CalmState /\ ~raced
      BY <1>4, <2>1 DEF Calm, Undisturbed
    <2>3. PICK n \in SNSs : n = MoveAt(mover.upq, mover.k)
      BY <1>2, <2>1, MoveFacts DEF UpqTypeOK
    <2>4. /\ SubnamespaceObject(n) < 0 \/ SubnamespaceObject(n) = mover.spec
          /\ mover' = NextMove(mover.k)
      BY <1>8, <2>3 DEF WaitOver
    <2>5. Exists(n) => SubnamespaceObject(n) = spec[n]
      <3>1. mover.spec = spec[n] /\ (Exists(n) => SubnamespaceObject(n) \in Nat)
        BY <2>1, <2>2, <2>3 DEF CalmState, InForceOrWaiting, AllInPlace
      <3>2. QED
        BY <2>4, <3>1
    <2>6. mover'.at # "wait"
      BY <1>2, <2>1, <2>4, NextMoveFacts DEF UpqTypeOK, OnTheWay
    <2>7. AllInPlace' /\ CopyIsCurrent'
      BY <2>1, <2>2 DEF CalmState, AllInPlace, CopyIsCurrent, Exists, SubnamespaceObject
    <2>8. InForceOrWaiting'
      <3>1. \A m \in SNSs : Exists(m) => SubnamespaceObject(m) = spec[m]
        BY <2>2, <2>3, <2>5 DEF CalmState, InForceOrWaiting, Waiting
      <3>2. QED
        BY <2>1, <2>6, <3>1 DEF InForceOrWaiting, Exists, SubnamespaceObject
    <2>9. QED
      BY <2>1, <2>2, <2>7, <2>8 DEF CalmState
  <1>9. ~WaitTimeout
    BY <1>4 DEF WaitTimeout
  <1>10. ~WaitFails /\ ~StatusFails /\ ~UpqRestart
    BY <1>3, <1>4 DEF WaitFails, StatusFails, UpqRestart, Restart
  <1>11. QED
    BY <1>5, <1>6, <1>7, <1>8, <1>9, <1>10 DEF UpqNext, UpqWork

(***************************************************************************)
(* The wait of ensureSnsEqualQuota does prevent the race its comment names:*)
(* with Updatequotas alone, as long as it does not give up and nothing     *)
(* fails, no move is ever judged next to one that is not in force yet,     *)
(* in any hierarchy and with any number of Updatequotas at work.           *)
(***************************************************************************)
THEOREM WaitIsEnough == QuietUsers => (UpqSpec => []WaitPreventsRaces)
  <1> SUFFICES ASSUME QuietUsers PROVE UpqSpec => []WaitPreventsRaces
    OBVIOUS
  <1>1. UpqIInv /\ UpqIInv' /\ Calm /\ [UpqNext]_allVars => Calm'
    <2> SUFFICES ASSUME UpqIInv, UpqIInv', Calm, [UpqNext]_allVars PROVE Calm'
      OBVIOUS
    <2>1. CASE UNCHANGED allVars
      BY <2>1 DEF allVars, vars, upqVars, Calm, Undisturbed, CalmState, AllInPlace, InForceOrWaiting,
        CopyIsCurrent, Waiting, Exists, SubnamespaceObject
    <2>2. QED
      BY <2>1, CalmStep
  <1>2. Calm => WaitPreventsRaces
    BY DEF Calm, Undisturbed, WaitPreventsRaces
  <1>3. QED
    BY <1>1, <1>2, InitCalm, UpqInvariance, PTL DEF UpqSpec
-----------------------------------------------------------------------------
(***************************************************************************)
(* What a stored move does to the request: nothing, or it is a write like  *)
(* a user's.                                                               *)
(***************************************************************************)
LEMMA StoreMoveFit ==
    ASSUME SameKind, IInv, IInv', FitInv, NEW u \in Upqs, NEW k \in Nat, NEW n \in SNSs, NEW q \in Int,
           q = NewQuota(u, k, spec[n]), Admitted(n, q), StoreMove(n, q)
    PROVE  FitInv'
  <1>0. TypeOK /\ TypeOK' /\ Present
    BY DEF IInv, FitInv
  <1>1. /\ spec' = [spec EXCEPT ![n] = q] /\ UNCHANGED <<phase, isRq, namespaces, rq, crq>>
        /\ raced' = (raced \/ ~SettledAround(n))
        /\ worker' = IF q # spec[n] THEN Outdated(n) ELSE worker
    BY DEF StoreMove, objs
  <1>2. CASE q = spec[n]
    <2>1. UNCHANGED <<spec, worker, phase, isRq, namespaces, rq, crq>>
      <3>1. spec \in [SNSs -> Quantities]
        BY <1>0 DEF TypeOK
      <3>2. spec' = spec
        BY <1>1, <1>2, <3>1
      <3>3. QED
        BY <1>1, <1>2, <3>2
    <2>2. Present'
      BY <1>0, <2>1 DEF Present, Exists
    <2>3. CASE raced'
      BY <2>2, <2>3 DEF FitInv
    <2>4. CASE ~raced'
      <3>1. InStep /\ Emptied /\ Fits
        BY <1>1, <2>4 DEF FitInv
      <3>2. InStep' /\ Emptied' /\ Fits'
        BY <2>1, <3>1 DEF InStep, Emptied, Fits, Settled, Exists, SubnamespaceObject, AllocatedIn, Limit
      <3>3. QED
        BY <2>2, <3>2 DEF FitInv
    <2>5. QED
      BY <2>3, <2>4
  <1>3. CASE q # spec[n]
    <2>1. spec[n] \in Nat /\ q \in Nat
      <3>1. spec[n] \in Quantities /\ q >= 0
        BY <1>0, <1>3 DEF TypeOK, Admitted
      <3>2. ~(spec[n] < 0)
        BY <1>3 DEF NewQuota
      <3>3. QED
        BY <3>1, <3>2 DEF Quantities, Unset, NoObject
    <2>2. Exists(n) /\ UpdateAllowed(n, q, isRq[n])
      BY <1>0, <2>1, QuantityFacts DEF Present, Admitted
    <2>3. /\ worker'.at = worker.at /\ worker'.sns = worker.sns /\ worker'.spec = worker.spec
          /\ worker'.fresh => worker.fresh
          /\ worker.sns = n => ~worker'.fresh
      BY <1>0, <1>1, <1>3 DEF Outdated, TypeOK
    <2>4. QED
      BY <1>1, <2>1, <2>2, <2>3, UpdateFit
  <1>4. QED
    BY <1>2, <1>3

(***************************************************************************)
(* The updatequota controller next to the webhook and the subnamespace     *)
(* controller: its writes are admitted like a user's, so what is promised  *)
(* below a subnamespace still fits, whatever fails in the middle of an     *)
(* operation.                                                              *)
(***************************************************************************)
THEOREM MovesFit == SameKind /\ InitialFits => (UpqSpec => []FitsInParentWhenSettled)
  <1> SUFFICES ASSUME SameKind, InitialFits PROVE UpqSpec => []FitsInParentWhenSettled
    OBVIOUS
  <1>1. UpqInit => FitInv
    BY InitFit DEF UpqInit
  <1>2. UpqIInv /\ UpqIInv' /\ FitInv /\ [UpqNext]_allVars => FitInv'
    <2> SUFFICES ASSUME UpqIInv, UpqIInv', FitInv, [UpqNext]_allVars PROVE FitInv'
      OBVIOUS
    <2>1. IInv /\ IInv' /\ UpqTypeOK
      BY DEF UpqIInv
    <2>2. CASE [Next]_vars
      BY <2>1, <2>2, NextFit
    <2>3. CASE UNCHANGED <<sns, objs, worker, raced>>
      <3>1. UNCHANGED <<phase, spec, isRq, namespaces, rq, crq, worker, raced>>
        BY <2>3 DEF sns, objs
      <3>2. QED
        BY <3>1 DEF FitInv, Present, InStep, Emptied, Fits, Settled, Exists, SubnamespaceObject, AllocatedIn, Limit
    <2>4. CASE Move
      <3>1. PICK u \in Upqs : \E k \in 1..MoveCount(u) : \E q \in Int :
              LET n == MoveAt(u, k)
              IN  /\ n \in SNSs /\ q = NewQuota(u, k, spec[n])
                  /\ \/ Admitted(n, q) /\ StoreMove(n, q)
                     \/ UNCHANGED vars
                     \/ UNCHANGED <<sns, objs, worker, raced>>
        BY <2>1, <2>4, MoveEffects
      <3>2. PICK k \in 1..MoveCount(u), n \in SNSs, q \in Int :
              /\ q = NewQuota(u, k, spec[n])
              /\ \/ Admitted(n, q) /\ StoreMove(n, q)
                 \/ UNCHANGED vars
                 \/ UNCHANGED <<sns, objs, worker, raced>>
        BY <3>1
      <3>3. k \in Nat
        BY MoveFacts
      <3>4. CASE Admitted(n, q) /\ StoreMove(n, q)
        BY <2>1, <3>2, <3>3, <3>4, StoreMoveFit
      <3>5. QED
        BY <2>2, <2>3, <3>2, <3>4
    <2>5. QED
      BY <2>2, <2>3, <2>4 DEF UpqNext, UpqWork, SubnamespaceStep, UpqRestart, CreateUpq, TouchUpq, ReconcileUpq,
        WaitOver, WaitTimeout, WaitFails, Status, StatusFails, Next, allVars
  <1>3. FitInv => FitsInParentWhenSettled
    BY DEF FitInv, Fits, FitsInParentWhenSettled, Allocated, AllocatedIn, Limit
  <1>4. QED
    BY <1>1, <1>2, <1>3, UpqInvariance, PTL DEF UpqSpec
-----------------------------------------------------------------------------
(***************************************************************************)
(* Quota is conserved.  What has to be known besides the balance itself:   *)
(* the subnamespaces that were there at the start still are, each with a   *)
(* quota in its request, and a current copy says what the request says, so *)
(* that the controller never replaces such a request by what is used.      *)
(***************************************************************************)
CurrentCopy == worker.at # "idle" /\ worker.fresh => worker.spec = spec[worker.sns]

Original == {n \in SNSs : InitialSpec[n] # NoObject}

Ledger ==
    updates = 0 => \A n \in Original : Exists(n) /\ spec[n] \in Nat /\ spec[n] = InitialSpec[n] + Net(n)

(***************************************************************************)
(* What EnsureSubnamespaceObject does to the request and to the copy of it *)
(* the worker holds.                                                       *)
(***************************************************************************)
LEMMA EnsureCopy ==
    ASSUME TypeOK, NEW n \in SNSs, n = worker.sns, NEW x, NEW update, NEW next,
           \/ EnsureFromSpec(n, x, update, next)
           \/ EnsureFromUsed(n, x, update, next)
           \/ UsedUnknown(n, x) /\ Requeue(n)
           \/ UsedUnknown(n, x) /\ Step(next)
    PROVE  /\ \A m \in SNSs : m # n => spec'[m] = spec[m]
           /\ spec'[n] = spec[n] \/ (worker.fresh /\ worker.spec = Unset)
           /\ \/ worker'.at = "idle"
              \/ /\ worker'.sns = n /\ worker'.fresh = worker.fresh
                 /\ worker.fresh /\ worker.spec = spec[n] => worker'.spec = spec'[n]
  <1>1. CASE EnsureFromSpec(n, x, update, next)
    BY <1>1 DEF EnsureFromSpec, TypeOK
  <1>2. CASE EnsureFromUsed(n, x, update, next)
    <2>1. worker.spec = Unset
      BY <1>2 DEF EnsureFromUsed
    <2>2. CASE Requeue(n) /\ UNCHANGED spec
      BY <2>2, IdleType DEF Requeue
    <2>3. CASE /\ spec' = IF worker.fresh THEN [spec EXCEPT ![n] = used[n]] ELSE spec
               /\ worker' = [worker EXCEPT !.at = IF IsZeroed(SubnamespaceObject(n)) THEN update ELSE next,
                                           !.spec = used[n], !.objFresh = TRUE]
      BY <2>1, <2>3 DEF TypeOK
    <2>4. QED
      BY <1>2, <2>2, <2>3 DEF EnsureFromUsed
  <1>3. CASE UsedUnknown(n, x) /\ (Requeue(n) \/ Step(next))
    BY <1>3, IdleType DEF UsedUnknown, Requeue, Step, TypeOK
  <1>4. QED
    BY <1>1, <1>2, <1>3

(***************************************************************************)
(* The webhook and the subnamespace controller write a request that says   *)
(* something only when a user asks for it.                                 *)
(***************************************************************************)
LEMMA RequestsKept ==
    ASSUME IInv, CurrentCopy, Next
    PROVE  /\ CurrentCopy'
           /\ \A m \in SNSs : Exists(m) =>
                /\ Exists(m)'
                /\ HasQuota(m) /\ spec[m] \in Nat /\ updates' = updates => spec'[m] = spec[m]
  <1> DEFINE Kept == \A m \in SNSs : Exists(m) =>
                /\ Exists(m)'
                /\ HasQuota(m) /\ spec[m] \in Nat /\ updates' = updates => spec'[m] = spec[m]
  <1>0. TypeOK /\ Requested
    BY DEF IInv
  <1>1. ASSUME NEW n \in SNSs, NEW q \in Requests[n], CreateSNS(n, q)
        PROVE  CurrentCopy' /\ Kept
    <2>1. \A m \in SNSs \ {n} : spec'[m] = spec[m] /\ (Exists(m) => Exists(m)')
      BY <1>0, <1>1 DEF CreateSNS, TypeOK, Exists
    <2>2. ~Exists(n) /\ worker' = worker /\ (worker.at # "idle" => worker.sns \in SNSs \ {n})
      BY <1>0, <1>1 DEF CreateSNS, TypeOK, Requested
    <2>3. QED
      BY <2>1, <2>2 DEF CurrentCopy
  <1>2. ASSUME NEW n \in SNSs, NEW q \in Requests[n], UpdateSNS(n, q)
        PROVE  CurrentCopy' /\ Kept
    <2>1. updates' # updates
      <3>1. updates \in 0..MaxUpdates /\ updates' = updates + 1 /\ MaxUpdates \in Nat
        BY <1>0, <1>2, ParameterAssumption DEF TypeOK, UpdateSNS
      <3>2. QED
        BY <3>1
    <2>2. (\A m \in SNSs \ {n} : spec'[m] = spec[m]) /\ \A m \in SNSs : Exists(m) => Exists(m)'
      BY <1>0, <1>2 DEF UpdateSNS, TypeOK, Exists
    <2>3. /\ worker'.at = worker.at /\ worker'.sns = worker.sns /\ worker'.spec = worker.spec
          /\ worker'.fresh => worker.fresh /\ worker.sns # n
          /\ worker.at # "idle" => worker.sns \in SNSs
      BY <1>0, <1>2 DEF UpdateSNS, Outdated, TypeOK
    <2>4. QED
      BY <2>1, <2>2, <2>3 DEF CurrentCopy
  <1>3. ASSUME NEW n \in SNSs, NEW u \in Loads, Consume(n, u)
        PROVE  CurrentCopy' /\ Kept
    <2>1. /\ worker'.at = worker.at /\ worker'.sns = worker.sns /\ worker'.spec = worker.spec
          /\ worker'.fresh = worker.fresh
      BY <1>0, <1>3 DEF TypeOK, Consume
    <2>2. QED
      BY <1>3, <2>1 DEF Consume, sns, Exists, CurrentCopy
  <1>4. ASSUME NEW n \in SNSs, Reconcile(n)
        PROVE  CurrentCopy' /\ Kept
    <2>1. worker'.sns = n /\ worker'.spec = spec[n]
      BY <1>4 DEF Reconcile, Idle
    <2>2. QED
      BY <1>4, <2>1 DEF Reconcile, sns, Exists, CurrentCopy
  <1>5. CASE \/ Fail \/ Restart \/ Setup \/ InitNamespace \/ InitAnnotate \/ InitCreated
             \/ SyncList \/ SyncStatus \/ UpdateQuotaObject
    <2>1. spec' = spec
      BY <1>5 DEF Fail, Restart, Setup, InitNamespace, InitAnnotate, InitCreated, SyncList, SyncStatus,
        UpdateQuotaObject, sns
    <2>2. \A m \in SNSs : Exists(m) => Exists(m)'
      <3>1. phase' = phase \/ \E f \in {"Missing", "Created"} : phase' = [phase EXCEPT ![worker.sns] = f]
        BY <1>5 DEF Fail, Restart, Setup, InitNamespace, InitAnnotate, InitCreated, SyncList, SyncStatus,
          UpdateQuotaObject, sns
      <3>2. QED
        BY <1>0, <3>1 DEF TypeOK, Exists
    <2>3. \/ worker' = Idle
          \/ \E at \in Steps : worker' = [worker EXCEPT !.at = at]
          \/ worker' = [worker EXCEPT !.at = "syncQuota", !.requests = ChildrenRequests(worker.sns),
                                      !.total = worker.spec]
      BY <1>5 DEF Fail, Restart, Setup, InitNamespace, InitAnnotate, InitCreated, SyncList, SyncStatus,
        UpdateQuotaObject, Finish, Requeue, Step, Steps
    <2>4. worker.at = "idle" => worker' = Idle
      BY <1>5 DEF Fail, Restart, Setup, InitNamespace, InitAnnotate, InitCreated, SyncList, SyncStatus,
        UpdateQuotaObject, Finish, Requeue
    <2>5. \/ worker'.at = "idle"
          \/ /\ worker.at # "idle" /\ worker'.sns = worker.sns /\ worker'.spec = worker.spec
             /\ worker'.fresh = worker.fresh
      BY <1>0, <2>3, <2>4, IdleType DEF TypeOK
    <2>6. QED
      BY <2>1, <2>2, <2>5 DEF CurrentCopy
  <1>6. CASE InitQuota \/ SyncQuota
    <2>1. PICK n \in SNSs : n = worker.sns /\ worker.at # "idle"
      BY <1>0, <1>6 DEF TypeOK, InitQuota, SyncQuota
    <2>2. phase' = phase
      BY <1>6 DEF InitQuota, SyncQuota
    <2>3. /\ \A m \in SNSs : m # n => spec'[m] = spec[m]
          /\ spec'[n] = spec[n] \/ (worker.fresh /\ worker.spec = Unset) \/ ~HasQuota(n)
          /\ \/ worker'.at = "idle"
             \/ /\ worker'.sns = n /\ worker'.fresh = worker.fresh
                /\ worker.fresh /\ worker.spec = spec[n] => worker'.spec = spec'[n]
      <3>1. CASE \/ EnsureFromSpec(n, OtherObject(n), "initUpdate", "initAnnotate")
                 \/ EnsureFromUsed(n, OtherObject(n), "initUpdate", "initAnnotate")
                 \/ UsedUnknown(n, OtherObject(n)) /\ Requeue(n)
        BY <1>0, <2>1, <3>1, EnsureCopy
      <3>2. CASE \/ EnsureFromSpec(n, DropOther(n), "syncUpdate", "syncStatus")
                 \/ EnsureFromUsed(n, DropOther(n), "syncUpdate", "syncStatus")
                 \/ UsedUnknown(n, DropOther(n)) /\ Step("syncStatus")
        BY <1>0, <2>1, <3>2, EnsureCopy
      <3>3. CASE spec' = spec /\ (Step("initAnnotate") \/ worker' = [worker EXCEPT !.at = "syncUpdate", !.objFresh = TRUE])
        BY <1>0, <2>1, <3>3 DEF Step, TypeOK
      <3>4. CASE /\ ~HasQuota(n)
                 /\ spec' = IF worker.fresh THEN [spec EXCEPT ![n] = Unset] ELSE spec
                 /\ worker' = [worker EXCEPT !.at = "syncStatus", !.spec = Unset]
        BY <1>0, <2>1, <3>4 DEF TypeOK
      <3>5. CASE InitQuota
        BY <2>1, <3>1, <3>3, <3>5 DEF InitQuota
      <3>6. CASE SyncQuota
        BY <2>1, <3>2, <3>3, <3>4, <3>6 DEF SyncQuota
      <3>7. QED
        BY <1>6, <3>5, <3>6
    <2>4. Unset \notin Nat
      BY DEF Unset
    <2>5. QED
      BY <2>1, <2>2, <2>3, <2>4 DEF CurrentCopy, Exists
  <1>7. QED
    BY <1>1, <1>2, <1>3, <1>4, <1>5, <1>6 DEF Next, Users, Work

(***************************************************************************)
(* What an Updatequota brought to a subnamespace is an integer, and nothing*)
(* before it stored a move.                                                *)
(***************************************************************************)
LEMMA BroughtType ==
    ASSUME UpqTypeOK, NEW n \in SNSs
    PROVE  /\ [u \in Upqs |-> Brought(u, n)] \in [Upqs -> Int]
           /\ Net(n) \in Int
           /\ (\A u \in Upqs : moved[u][n] = 0) => Net(n) = 0
  <1> DEFINE f == [u \in Upqs |-> Brought(u, n)]
  <1>1. \A u \in Upqs : Amount[u] \in Nat /\ moved[u][n] \in Nat
    BY UpqAssumption, ParentType DEF UpqTypeOK
  <1>2. ASSUME NEW u \in Upqs
        PROVE  Brought(u, n) \in Int /\ (moved[u][n] = 0 => Brought(u, n) = 0)
    <2> DEFINE a == Amount[u]
               c == moved[u][n]
    <2>1. a \in Int /\ c \in Int
      BY <1>1
    <2>2. Brought(u, n) = -(a * c) \/ Brought(u, n) = a * c
      BY DEF Brought
    <2> HIDE DEF a, c
    <2>3. a * c \in Int /\ (c = 0 => a * c = 0)
      BY <2>1
    <2>4. QED
      BY <2>2, <2>3 DEF c
  <1>3. f \in [Upqs -> Int] /\ Net(n) = SumFunctionOnSet(f, Upqs)
    BY <1>2 DEF Net, SumFunction
  <1>4. (\A u \in Upqs : moved[u][n] = 0) => \A u \in Upqs : f[u] = 0
    BY <1>2
  <1> HIDE DEF f
  <1>5. SumFunctionOnSet(f, Upqs) \in Int
    BY <1>3, SumType, UpqAssumption
  <1>6. ASSUME \A u \in Upqs : f[u] = 0
        PROVE  SumFunctionOnSet(f, Upqs) = 0
    <2>1. SumFunctionOnSet(f, {}) = 0
      BY SumRecursion, FS_EmptySet
    <2>2. {} \in SUBSET Upqs /\ Upqs \in SUBSET Upqs /\ IsFiniteSet(Upqs)
      BY UpqAssumption
    <2>3. SumFunctionOnSet(f, Upqs) <= SumFunctionOnSet(f, {})
      BY <1>3, <1>6, <2>2, SumAtMost
    <2>4. SumFunctionOnSet(f, {}) <= SumFunctionOnSet(f, Upqs)
      BY <1>3, <1>6, <2>2, SumAtMost
    <2>5. QED
      BY <1>5, <2>1, <2>3, <2>4
  <1>7. QED
    BY <1>3, <1>4, <1>5, <1>6 DEF f

(***************************************************************************)
(* On the way up an Updatequota takes, on the way down it brings: which of *)
(* the two a subnamespace sees is determined by its place on the way.      *)
(***************************************************************************)
LEMMA UpOrDown ==
    ASSUME NEW u \in Upqs, NEW k \in 1..MoveCount(u)
    PROVE  MoveAt(u, k) \in {MoveAt(u, j) : j \in 1..UpCount(u)} <=> IsUp(u, k)
  <1>1. UpCount(u) \in Nat /\ DownCount(u) \in Nat /\ MoveCount(u) = UpCount(u) + DownCount(u)
    BY MoveFacts DEF MoveCount
  <1>2. ASSUME IsUp(u, k) PROVE k \in 1..UpCount(u)
    BY <1>1, <1>2 DEF IsUp
  <1>3. ASSUME NEW j \in 1..UpCount(u), MoveAt(u, k) = MoveAt(u, j) PROVE IsUp(u, k)
    <2>1. j \in 1..MoveCount(u) /\ j <= UpCount(u)
      BY <1>1
    <2>2. j = k
      BY <1>3, <2>1, MovesAreDistinct
    <2>3. QED
      BY <2>1, <2>2 DEF IsUp
  <1>4. QED
    BY <1>2, <1>3

(***************************************************************************)
(* With quantities that are whole units nothing is rounded.                *)
(***************************************************************************)
LEMMA WholeUnits ==
    ASSUME Unit = 1, NEW u \in Upqs, NEW k, NEW q \in Nat
    PROVE  NewQuota(u, k, q) = IF IsUp(u, k) THEN q - Amount[u] ELSE q + Amount[u]
  <1>1. \A x \in Nat : Value(x) = x
    <2> SUFFICES ASSUME NEW x \in Nat PROVE Value(x) = x
      OBVIOUS
    <2>1. Value(x) = ((x + 1 - 1) \div 1) * 1
      BY DEF Value
    <2>2. x + 1 - 1 = x /\ x \div 1 = x /\ x * 1 = x
      OBVIOUS
    <2>3. QED
      BY <2>1, <2>2
  <1>2. Amount[u] \in Nat
    BY UpqAssumption
  <1>3. QED
    BY <1>1, <1>2 DEF NewQuota

(***************************************************************************)
(* A stored move changes the request by what it adds to the balance.       *)
(***************************************************************************)
LEMMA StoreMoveLedger ==
    ASSUME Unit = 1, UpqIInv, UpqIInv', CurrentCopy, Ledger, NEW u \in Upqs, u = mover.upq,
           NEW k \in 1..MoveCount(u), k = mover.k, NEW n \in SNSs, n = MoveAt(u, k),
           NEW q \in Int, q = NewQuota(u, k, spec[n]), Admitted(n, q), StoreMove(n, q)
    PROVE  CurrentCopy' /\ Ledger'
  <1>0. TypeOK /\ UpqTypeOK /\ UpqTypeOK'
    BY DEF UpqIInv, IInv
  <1>1. /\ spec' = [spec EXCEPT ![n] = q] /\ UNCHANGED <<phase, updates>>
        /\ worker' = IF q # spec[n] THEN Outdated(n) ELSE worker
        /\ moved' = [moved EXCEPT ![u][n] = @ + 1]
    BY DEF StoreMove
  <1>2. spec'[n] = q /\ \A m \in SNSs : m # n => spec'[m] = spec[m]
    BY <1>0, <1>1 DEF TypeOK
  <1>3. CurrentCopy'
    <2>1. /\ worker'.at = worker.at /\ worker'.sns = worker.sns /\ worker'.spec = worker.spec
          /\ worker'.fresh => worker.fresh /\ (worker.sns = n => q = spec[n])
          /\ worker.at # "idle" => worker.sns \in SNSs
      BY <1>0, <1>1 DEF Outdated, TypeOK
    <2>2. QED
      BY <1>2, <2>1 DEF CurrentCopy
  <1>4. /\ moved'[u][n] = moved[u][n] + 1 /\ moved[u][n] \in Nat
        /\ \A v \in Upqs : \A m \in SNSs : v # u \/ m # n => moved'[v][m] = moved[v][m]
    <2>1. moved \in [Upqs -> [Nodes -> Nat]] /\ SNSs \subseteq Nodes /\ n \in Nodes
      BY <1>0, ParentType DEF UpqTypeOK
    <2>2. QED
      BY <1>1, <2>1
  <1>5. ASSUME NEW m \in SNSs, m # n PROVE Net(m)' = Net(m)
    <2>1. \A v \in Upqs : Brought(v, m)' = Brought(v, m)
      BY <1>4, <1>5 DEF Brought
    <2>2. QED
      BY <2>1 DEF Net
  <1>6. Net(n)' = Net(n) + (IF IsUp(u, k) THEN -Amount[u] ELSE Amount[u])
    <2> DEFINE f == [v \in Upqs |-> Brought(v, n)]
               g == [v \in Upqs |-> Brought(v, n)']
               a == Amount[u]
               c == moved[u][n]
    <2>1. f \in [Upqs -> Int]
      BY <1>0, BroughtType
    <2>2. \A v \in Upqs \ {u} : g[v] = f[v]
      BY <1>4 DEF Brought
    <2>3. f[u] = (IF IsUp(u, k) THEN -(a * c) ELSE a * c) /\ g[u] = (IF IsUp(u, k) THEN -(a * (c + 1)) ELSE a * (c + 1))
      BY <1>4, UpOrDown DEF Brought
    <2>4. Net(n) = SumFunction(f) /\ Net(n)' = SumFunction(g)
      BY DEF Net
    <2>5. a \in Int /\ c \in Int
      BY <1>4, UpqAssumption
    <2>6. DOMAIN g = Upqs /\ g = [v \in Upqs |-> g[v]]
      OBVIOUS
    <2> HIDE DEF f, g, a, c
    <2>7. a * (c + 1) = a * c + a /\ a * c \in Int
      BY <2>5
    <2>8. g[u] \in Int /\ \A v \in Upqs : g[v] \in Int
      BY <2>1, <2>2, <2>3, <2>5, <2>7
    <2>9. g \in [Upqs -> Int]
      BY <2>6, <2>8
    <2>10. SumFunction(f) \in Int /\ SumFunction(g) = SumFunction(f) - f[u] + g[u]
      BY <2>1, <2>2, <2>9, SumChanged, UpqAssumption
    <2>11. QED
      BY <2>3, <2>4, <2>5, <2>7, <2>10 DEF a
  <1>7. Ledger'
    <2> SUFFICES ASSUME updates' = 0, NEW m \in Original
                 PROVE  Exists(m)' /\ spec'[m] \in Nat /\ spec'[m] = InitialSpec[m] + Net(m)'
      BY DEF Ledger
    <2>1. m \in SNSs /\ Exists(m) /\ spec[m] \in Nat /\ spec[m] = InitialSpec[m] + Net(m)
      BY <1>1 DEF Ledger, Original
    <2>2. Exists(m)'
      BY <1>1, <2>1 DEF Exists
    <2>3. CASE m # n
      BY <1>2, <1>5, <2>1, <2>2, <2>3
    <2>4. CASE m = n
      <3>1. q = IF IsUp(u, k) THEN spec[n] - Amount[u] ELSE spec[n] + Amount[u]
        BY <2>1, <2>4, WholeUnits
      <3>2. q \in Nat
        BY <2>1, <2>4 DEF Admitted
      <3>3. Net(n) \in Int /\ InitialSpec[n] \in Int /\ Amount[u] \in Int
        <4>1. InitialSpec[n] \in Nat
          BY <2>4, InitialAssumption DEF Original
        <4>2. QED
          BY <1>0, <4>1, BroughtType, UpqAssumption
      <3>4. spec[n] = InitialSpec[n] + Net(n)
        BY <2>1, <2>4
      <3>5. q = InitialSpec[n] + Net(n)'
        BY <1>6, <3>1, <3>3, <3>4
      <3>6. QED
        BY <1>2, <2>2, <2>4, <3>2, <3>5
    <2>5. QED
      BY <2>3, <2>4
  <1>8. QED
    BY <1>3, <1>7

(***************************************************************************)
(* Quota is neither made nor lost by Updatequotas, as long as quantities   *)
(* are whole units and users leave the requests alone: not by retries, by  *)
(* failed calls whose write was stored, by restarts in the middle of an    *)
(* operation, nor by the controller's own writes of the requests.          *)
(***************************************************************************)
THEOREM NothingIsLost == Unit = 1 => (UpqSpec => []QuotaConserved)
  <1> SUFFICES ASSUME Unit = 1 PROVE UpqSpec => []QuotaConserved
    OBVIOUS
  <1> DEFINE Inv == CurrentCopy /\ Ledger
  <1>1. UpqInit => Inv
    <2> SUFFICES ASSUME UpqInit PROVE Inv
      OBVIOUS
    <2>1. CurrentCopy
      BY IdleType DEF UpqInit, Init, CurrentCopy
    <2>2. UpqTypeOK
      BY UpqInitIInv DEF UpqIInv
    <2>3. ASSUME NEW n \in Original
          PROVE  Exists(n) /\ spec[n] \in Nat /\ spec[n] = InitialSpec[n] + Net(n)
      <3>1. n \in SNSs /\ InitialSpec[n] \in Nat /\ n \in Nodes
        BY <2>3, InitialAssumption, ParentType DEF Original
      <3>2. Exists(n) /\ spec[n] = InitialSpec[n]
        BY <2>3, <3>1 DEF UpqInit, Init, Exists, Original
      <3>3. \A u \in Upqs : moved[u][n] = 0
        BY <3>1 DEF UpqInit
      <3>4. Net(n) = 0
        BY <2>2, <3>1, <3>3, BroughtType
      <3>5. QED
        BY <3>1, <3>2, <3>4
    <2>4. QED
      BY <2>1, <2>3 DEF Ledger
  <1>2. UpqIInv /\ UpqIInv' /\ Inv /\ [UpqNext]_allVars => Inv'
    <2> SUFFICES ASSUME UpqIInv, UpqIInv', CurrentCopy, Ledger, [UpqNext]_allVars PROVE CurrentCopy' /\ Ledger'
      OBVIOUS
    <2>0. IInv /\ UpqTypeOK /\ updates \in Nat
      <3>1. updates \in 0..MaxUpdates /\ MaxUpdates \in Nat
        BY ParameterAssumption DEF UpqIInv, IInv, TypeOK
      <3>2. QED
        BY <3>1 DEF UpqIInv
    <2>1. CASE Next /\ UNCHANGED moved
      <3>1. updates' = updates \/ updates' = updates + 1
        BY <2>1 DEF Next, Users, Work, Fail, Restart, CreateSNS, UpdateSNS, Consume, Reconcile,
          Setup, InitNamespace, InitQuota, InitAnnotate, InitCreated, SyncList, SyncQuota, SyncStatus,
          UpdateQuotaObject
      <3>2. updates' = 0 => updates = 0 /\ updates' = updates
        BY <2>0, <3>1
      <3>3. \A n \in Original : n \in SNSs /\ HasQuota(n)
        BY InitialAssumption DEF Original, HasQuota, IsSNSUpper
      <3>4. \A n : Net(n)' = Net(n)
        BY <2>1 DEF Net, Brought
      <3>5. CurrentCopy' /\ \A m \in SNSs : Exists(m) =>
                /\ Exists(m)'
                /\ HasQuota(m) /\ spec[m] \in Nat /\ updates' = updates => spec'[m] = spec[m]
        BY <2>0, <2>1, RequestsKept
      <3>6. QED
        BY <3>2, <3>3, <3>4, <3>5 DEF Ledger
    <2>2. CASE UNCHANGED <<phase, spec, worker, updates, moved>>
      BY <2>2 DEF CurrentCopy, Ledger, Exists, Net, Brought
    <2>3. CASE Move
      <3>1. PICK u \in Upqs : \E k \in 1..MoveCount(u) : \E q \in Int :
              LET n == MoveAt(u, k)
              IN  /\ u = mover.upq /\ k = mover.k /\ n \in SNSs /\ q = NewQuota(u, k, spec[n])
                  /\ \/ Admitted(n, q) /\ StoreMove(n, q)
                     \/ UNCHANGED <<vars, moved>>
                     \/ UNCHANGED <<sns, worker, updates, moved>>
        BY <2>0, <2>3, MoveEffects
      <3>2. PICK k \in 1..MoveCount(u), n \in SNSs, q \in Int :
              /\ n = MoveAt(u, k) /\ u = mover.upq /\ k = mover.k /\ q = NewQuota(u, k, spec[n])
              /\ \/ Admitted(n, q) /\ StoreMove(n, q)
                 \/ UNCHANGED <<vars, moved>>
                 \/ UNCHANGED <<sns, worker, updates, moved>>
        BY <3>1
      <3>3. CASE Admitted(n, q) /\ StoreMove(n, q)
        BY <3>2, <3>3, StoreMoveLedger
      <3>4. QED
        BY <2>2, <3>2, <3>3 DEF vars, sns
    <2>4. CASE UNCHANGED <<vars, moved>>
      BY <2>2, <2>4 DEF vars
    <2>5. CASE UNCHANGED <<sns, worker, updates, moved>>
      BY <2>2, <2>5 DEF sns
    <2>6. QED
      BY <2>1, <2>3, <2>4, <2>5 DEF UpqNext, UpqWork, SubnamespaceStep, UpqRestart, CreateUpq, TouchUpq,
        ReconcileUpq, WaitOver, WaitTimeout, WaitFails, Status, StatusFails, Next, allVars, upqVars
  <1>3. Inv => QuotaConserved
    <2>1. \A n \in SNSs : InitialSpec[n] >= 0 => n \in Original
      BY DEF Original, NoObject
    <2>2. QED
      BY <2>1 DEF Ledger, QuotaConserved
  <1>4. QED
    BY <1>1, <1>2, <1>3, UpqInvariance, PTL DEF UpqSpec
=============================================================================
