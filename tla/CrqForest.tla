----------------------------- MODULE CrqForest -----------------------------
(***************************************************************************)
(* internal/namespacedb, the data structure: an in-memory forest of the    *)
(* namespaces that are bound to a ClusterResourceQuota.  A key is the      *)
(* first such namespace on its path from the root; its value lists the     *)
(* namespaces below it.  Each operation here is one critical section of    *)
(* the mutex.                                                              *)
(***************************************************************************)
EXTENDS Integers, SequencesExt

CONSTANT RqDepth    \* the rq-depth annotation of the root namespace

VARIABLE crqForest  \* [keys -> sequences of namespaces]

NoKey == ""

Keys == DOMAIN crqForest

\* Key ranges over a Go map, in no particular order: any key that fits may be returned.
KeysOf(n) == {k \in Keys : k = n \/ n \in Range(crqForest[k])}

Key(n) == IF KeysOf(n) = {} THEN {NoKey} ELSE KeysOf(n)

KeyCount(k) == IF k \in Keys THEN Len(crqForest[k]) ELSE 0

AddNSToKey(k, n) ==
    [j \in Keys \cup {k} |-> IF j # k THEN crqForest[j]
                             ELSE IF k = n THEN <<>>
                             ELSE Append(IF k \in Keys THEN crqForest[k] ELSE <<>>, n)]

\* The loop goes on over the slice it deletes from: this is what it does as long as n is in it only once.
RemoveNS(n, k) == [crqForest EXCEPT ![k] = RemoveFirst(@, n)]

DeleteKey(k) == [j \in Keys \ {k} |-> crqForest[j]]

InForestOnce(n) ==
    /\ Cardinality(KeysOf(n)) <= 1
    /\ \A k \in Keys : Cardinality({i \in DOMAIN crqForest[k] : crqForest[k][i] = n}) <= (IF k = n THEN 0 ELSE 1)
-----------------------------------------------------------------------------
(***************************************************************************)
(* Init of the DB, from what exists in the cluster.  addHierarchy takes    *)
(* the path of each leaf (p, the slice of its display-name), sorts it by   *)
(* the depth annotations, which are strings, and takes the entry at index  *)
(* rqDepth for the key and the ones after it for its members.              *)
(***************************************************************************)
FirstDigit(i) == IF i < 10 THEN i ELSE i \div 10

\* Two decimal strings of at most two digits, compared as strings.
StringLess(i, j) ==
    \/ FirstDigit(i) < FirstDigit(j)
    \/ FirstDigit(i) = FirstDigit(j) /\ i < j

(***************************************************************************)
(* The namespace at the depth y of the path comes before the one at the    *)
(* depth x; depth: the annotations.  Those with the same annotation stay   *)
(* in the order of NSListUp, from the leaf up (the sort of a short slice   *)
(* is by insertion).                                                       *)
(***************************************************************************)
SortedBefore(p, depth, y, x) ==
    LET a == depth[p[y + 1]]
        b == depth[p[x + 1]]
    IN  StringLess(a, b) \/ (a = b /\ y > x)

\* The one that comes i-th (from 1) in the sorted path.
SortedPlace(p, depth, i) ==
    CHOOSE x \in 1..(Len(p) - 1) : Cardinality({y \in 1..(Len(p) - 1) : SortedBefore(p, depth, y, x)}) = i - 1

SortedPath(p, depth) == [i \in 1..(Len(p) - 1) |-> p[SortedPlace(p, depth, i) + 1]]

\* Fault: the path is sorted the other way round.
HierarchyKeyLast(p, depth) == SortedPath(p, depth)[Len(p) - 1 - RqDepth]

HierarchyKey(p, depth) == SortedPath(p, depth)[RqDepth + 1]

HierarchyMembers(p, depth) == {SortedPath(p, depth)[i] : i \in (RqDepth + 2)..(Len(p) - 1)}

\* paths: those of the leaves that have a Subnamespace.
Rebuilt(paths, depth) ==
    LET deep == {p \in paths : Len(p) - 1 > RqDepth}
    IN  [k \in {HierarchyKey(p, depth) : p \in deep} |->
            FoldSet(LAMBDA n, list : Append(list, n), <<>>,
                    UNION {HierarchyMembers(p, depth) : p \in {l \in deep : HierarchyKey(l, depth) = k}})]
=============================================================================
