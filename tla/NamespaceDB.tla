---------------------------- MODULE NamespaceDB ----------------------------
(***************************************************************************)
(* internal/namespacedb at work: who changes the forest of CrqForest and   *)
(* when.  The webhook counts its lists to limit the size of a hierarchy.   *)
(*                                                                         *)
(* A mutex guards each operation, not a sequence of them, so an action is  *)
(* one critical section.  Three goroutines meet here: the worker of the    *)
(* subnamespace controller (EnsureSNSInDB), the worker of the namespace    *)
(* controller (cleanUp) and the webhooks (validateKeyCountInDB).  Of those *)
(* controllers the module keeps what decides when they come here: which    *)
(* Subnamespaces and namespaces exist.                                     *)
(*                                                                         *)
(* There are no ResourcePools here, and nothing migrates (Migration).      *)
(***************************************************************************)
EXTENDS CrqForest

CONSTANTS
    Nodes,          \* the names: the root namespace and every subnamespace
    Root,           \* the root namespace of the hierarchy
    DisplayName,    \* [Nodes -> Seq(Nodes)], the slice of the display-name: root, ..., node
    MaxSNS,         \* the limit on the namespaces below a key
    Started,        \* the subnamespaces that exist when the operator starts
    MaxFailures     \* bound on failed API calls and restarts of the operator

Depth(n)  == Len(DisplayName[n]) - 1
Parent(n) == DisplayName[n][Len(DisplayName[n]) - 1]
SNSs      == Nodes \ {Root}

ASSUME TreeAssumption ==
    /\ IsFiniteSet(Nodes)
    /\ Root \in Nodes
    /\ NoKey \notin Nodes
    /\ DisplayName \in [Nodes -> Seq(Nodes)]
    /\ DisplayName[Root] = <<Root>>
    /\ \A n \in SNSs :
        /\ Len(DisplayName[n]) > 1
        /\ DisplayName[n] = Append(DisplayName[Parent(n)], n)

ASSUME ParameterAssumption ==
    /\ RqDepth \in Nat /\ MaxSNS \in Nat /\ MaxFailures \in Nat
    /\ Started \subseteq SNSs
    /\ \A n \in Started : Parent(n) \in Started \cup {Root}

VARIABLES
    sns,            \* the Subnamespaces that exist
    namespaces,     \* the namespaces that exist
    terminating,    \* those that have a deletion timestamp
    admission,      \* [SNSs -> ...] the creation being validated: has the key been looked up, and which
    worker,         \* the reconciliation of the subnamespace controller in progress
    cleaner,        \* the cleanUp in progress
    failures,       \* number of failed calls and restarts
    early,          \* history: a Subnamespace was there before its parent, which belongs in the DB, was in it
    crowded,        \* history: one was admitted next to one that is not in the DB yet
    late            \* history: a namespace was added that is being deleted

cluster == <<sns, namespaces, terminating>>
history == <<early, crowded, late>>
vars    == <<crqForest, sns, namespaces, terminating, admission, worker, cleaner, failures,
             early, crowded, late>>
-----------------------------------------------------------------------------
\* The path of every leaf in a namespace that has a Subnamespace.
LeafPaths == {DisplayName[n] : n \in {m \in sns \cap namespaces : \A c \in sns : Parent(c) # m}}

\* The depth annotations.
Depths == [n \in SNSs |-> Depth(n)]

Ancestor(n, d) == DisplayName[n][d + 1]
-----------------------------------------------------------------------------
Idle      == [at |-> "idle", sns |-> Root, key |-> NoKey]
NotAsking == [at |-> "idle", key |-> NoKey]

BelowRQ(n) == Depth(n) > RqDepth

FirstCRQ(n) == Ancestor(n, RqDepth + 1)

\* The subnamespaces among S that count under the key k.
Counted(S, k) == {n \in S : n # k /\ BelowRQ(n) /\ FirstCRQ(n) = k}

\* What exists at the start was admitted under the same limit.
ASSUME StartedAssumption == \A k \in SNSs : Cardinality(Counted(Started, k)) <= MaxSNS

Init ==
    /\ sns = Started
    /\ namespaces = Started \cup {Root}
    /\ terminating = {}
    /\ crqForest = Rebuilt(LeafPaths, Depths)
    /\ admission = [n \in SNSs |-> NotAsking]
    /\ worker = Idle
    /\ cleaner = Idle
    /\ failures = 0
    /\ early = FALSE
    /\ crowded = FALSE
    /\ late = FALSE

(***************************************************************************)
(* validateKeyCountInDB on the creation of n: Key and KeyCount are two     *)
(* critical sections.  validateUniqueSNSName denies a name in use.         *)
(***************************************************************************)
AdmitKey(n) ==
    /\ admission[n] = NotAsking
    /\ n \notin namespaces \cup sns
    /\ Parent(n) \in namespaces \ terminating
    /\ \E k \in Key(Parent(n)) : admission' = [admission EXCEPT ![n] = [at |-> "count", key |-> k]]
    /\ UNCHANGED <<crqForest, cluster, worker, cleaner, failures, history>>

\* Fault: one more than the limit gets in.
TooManyOffByOne(k) == KeyCount(k) > MaxSNS

TooMany(k) == KeyCount(k) >= MaxSNS

\* n belongs in the DB (as do all below it) and is not there yet.
Awaited(n) == BelowRQ(n) /\ KeysOf(n) = {}

AdmitCount(n) ==
    /\ admission[n].at = "count"
    /\ admission' = [admission EXCEPT ![n] = NotAsking]
    /\ LET k == admission[n].key
           denied == (k # NoKey /\ TooMany(k)) \/ Parent(n) \notin namespaces \ terminating
       IN  \/ denied /\ UNCHANGED <<sns, early, crowded>>
           \/ /\ ~denied
              /\ sns' = sns \cup {n}
              /\ early' = (early \/ Awaited(Parent(n)) \/ (k = NoKey /\ BelowRQ(Parent(n))))
              /\ crowded' = (crowded \/ \E m \in sns : Awaited(m) /\ BelowRQ(n) /\ FirstCRQ(m) = FirstCRQ(n))
    /\ UNCHANGED <<crqForest, namespaces, terminating, worker, cleaner, failures, late>>

(***************************************************************************)
(* A user deletes the namespace n: allowed for a leaf.  The role           *)
(* annotation the webhook reads, which the namespace controller keeps, is  *)
(* taken to be up to date.                                                 *)
(***************************************************************************)
DeleteNamespace(n) ==
    /\ n \in namespaces \ terminating
    /\ \A c \in sns : Parent(c) # n
    /\ terminating' = terminating \cup {n}
    /\ UNCHANGED <<crqForest, sns, namespaces, admission, worker, cleaner, failures, history>>
-----------------------------------------------------------------------------
(***************************************************************************)
(* The subnamespace controller, which reconciles every Subnamespace again  *)
(* and again (its own writes, events and the periodic resync enqueue it).  *)
(* init creates the namespace and, like sync, the quota object, and calls  *)
(* EnsureSNSInDB.                                                          *)
(***************************************************************************)
Step(at) == worker' = [worker EXCEPT !.at = at]

Reconcile(n) ==
    /\ worker.at = "idle"
    /\ n \in sns
    /\ worker' = [Idle EXCEPT !.sns = n, !.at = IF n \in namespaces THEN "ensure" ELSE "namespace"]
    /\ UNCHANGED <<crqForest, cluster, admission, cleaner, failures, history>>

CreateSNSNamespace ==
    /\ worker.at = "namespace"
    /\ namespaces' = namespaces \cup {worker.sns}
    /\ Step("ensure")
    /\ UNCHANGED <<crqForest, sns, terminating, admission, cleaner, failures, history>>

\* Fault: EnsureSNSInDB adds without looking.
EnsureSNSInDBBlind ==
    /\ worker.at = "ensure"
    /\ IF ~BelowRQ(worker.sns) THEN worker' = Idle ELSE Step("parent")
    /\ UNCHANGED <<crqForest, cluster, admission, cleaner, failures, history>>

\* EnsureSNSInDB: a namespace that has a key, or is at a depth of ResourceQuotas, needs nothing.
EnsureSNSInDB ==
    /\ worker.at = "ensure"
    /\ IF KeysOf(worker.sns) # {} \/ ~BelowRQ(worker.sns) THEN worker' = Idle ELSE Step("parent")
    /\ UNCHANGED <<crqForest, cluster, admission, cleaner, failures, history>>

\* Fault: the empty key is not told from the others.
AddNSNoKeyCheck ==
    /\ worker.at = "parent"
    /\ \E k \in Key(Parent(worker.sns)) : worker' = [worker EXCEPT !.at = "add", !.key = k]
    /\ UNCHANGED <<crqForest, cluster, admission, cleaner, failures, history>>

\* Fault: without a key of its parent the namespace is left out.
AddNSNoNewKey ==
    /\ worker.at = "parent"
    /\ \E k \in Key(Parent(worker.sns)) :
           worker' = IF k # NoKey THEN [worker EXCEPT !.at = "add", !.key = k] ELSE Idle
    /\ UNCHANGED <<crqForest, cluster, admission, cleaner, failures, history>>

(***************************************************************************)
(* AddNS: under the key of the parent, or as a key of its own if there is  *)
(* none and the ClusterResourceQuota is found.  It was created just before *)
(* but is read through a cache that may not show it yet.                   *)
(***************************************************************************)
AddNS ==
    /\ worker.at = "parent"
    /\ \E k \in Key(Parent(worker.sns)) :
           worker' = [worker EXCEPT !.at = IF k # NoKey THEN "add" ELSE "crq", !.key = k]
    /\ UNCHANGED <<crqForest, cluster, admission, cleaner, failures, history>>

CRQFound ==
    /\ worker.at = "crq"
    /\ worker' = [worker EXCEPT !.at = "add", !.key = worker.sns]
    /\ UNCHANGED <<crqForest, cluster, admission, cleaner, failures, history>>

CRQNotFound ==
    /\ worker.at = "crq"
    /\ worker' = Idle
    /\ UNCHANGED <<crqForest, cluster, admission, cleaner, failures, history>>

AddNSAdd ==
    /\ worker.at = "add"
    /\ crqForest' = AddNSToKey(worker.key, worker.sns)
    /\ worker' = Idle
    /\ late' = (late \/ worker.sns \notin sns \ terminating)
    /\ UNCHANGED <<cluster, admission, cleaner, failures, early, crowded>>

-----------------------------------------------------------------------------
(***************************************************************************)
(* The namespace controller: cleanUp of a namespace that is terminating.   *)
(* deleteNamespaceFromNamespaceDB is two critical sections.                *)
(***************************************************************************)
CleanUp(n) ==
    /\ cleaner.at = "idle"
    /\ n \in terminating
    /\ \E k \in Key(n) :
           cleaner' = [at |-> IF k = NoKey THEN "sns" ELSE "db", sns |-> n, key |-> k]
    /\ UNCHANGED <<crqForest, cluster, admission, worker, failures, history>>

\* Fault: a namespace that is a key is left where it is.
DeleteFromListsOnly ==
    /\ cleaner.at = "db"
    /\ crqForest' = IF cleaner.key \in Keys THEN RemoveNS(cleaner.sns, cleaner.key) ELSE crqForest
    /\ cleaner' = [cleaner EXCEPT !.at = "sns"]
    /\ UNCHANGED <<cluster, admission, worker, failures, history>>

DeleteNamespaceFromDB ==
    LET n == cleaner.sns
        k == cleaner.key
    IN  /\ cleaner.at = "db"
        /\ crqForest' = IF k = n THEN DeleteKey(k) ELSE IF k \in Keys THEN RemoveNS(n, k) ELSE crqForest
        /\ cleaner' = IF k # n /\ k \notin Keys THEN Idle ELSE [cleaner EXCEPT !.at = "sns"]
        /\ UNCHANGED <<cluster, admission, worker, failures, history>>

\* The quota object and the Subnamespace are deleted.
DeleteSNS ==
    /\ cleaner.at = "sns"
    /\ sns' = sns \ {cleaner.sns}
    /\ cleaner' = [cleaner EXCEPT !.at = "finalizer"]
    /\ UNCHANGED <<crqForest, namespaces, terminating, admission, worker, failures, history>>

DeleteNSFinalizer ==
    /\ cleaner.at = "finalizer"
    /\ namespaces' = namespaces \ {cleaner.sns}
    /\ terminating' = terminating \ {cleaner.sns}
    /\ cleaner' = Idle
    /\ UNCHANGED <<crqForest, sns, admission, worker, failures, history>>
-----------------------------------------------------------------------------
(***************************************************************************)
(* A call fails, in either controller, and the item is taken up again; or  *)
(* the operator restarts (DeleteKey holds only the read lock, so a reader  *)
(* that meets it can be the cause) and builds the DB anew.                 *)
(***************************************************************************)
Fail ==
    /\ failures < MaxFailures
    /\ failures' = failures + 1
    /\ \/ /\ worker.at # "idle"
          /\ worker' = Idle
          /\ UNCHANGED cleaner
       \/ /\ cleaner.at # "idle"
          /\ cleaner' = Idle
          /\ UNCHANGED worker
    /\ UNCHANGED <<crqForest, cluster, admission, history>>

Restart ==
    /\ failures < MaxFailures
    /\ failures' = failures + 1
    /\ crqForest' = Rebuilt(LeafPaths, Depths)
    /\ worker' = Idle
    /\ cleaner' = Idle
    /\ admission' = [n \in SNSs |-> NotAsking]
    /\ early' = (early \/ \E n \in sns : Awaited(Parent(n))')
    /\ UNCHANGED <<sns, namespaces, terminating, crowded, late>>

Work ==
    \/ CreateSNSNamespace \/ EnsureSNSInDB
    \/ AddNS \/ CRQFound \/ CRQNotFound \/ AddNSAdd

Clean == DeleteNamespaceFromDB \/ DeleteSNS \/ DeleteNSFinalizer

Next ==
    \/ \E n \in SNSs : AdmitKey(n) \/ AdmitCount(n) \/ DeleteNamespace(n)
    \/ \E n \in SNSs : Reconcile(n) \/ CleanUp(n)
    \/ Work \/ Clean
    \/ Fail \/ Restart

(***************************************************************************)
(* The worker runs, every Subnamespace gets its turn again (the workqueue  *)
(* is first in first out and the informers resync), and the cache catches  *)
(* up with the ClusterResourceQuotas.  Nothing is assumed of users.        *)
(***************************************************************************)
Fairness ==
    /\ WF_vars(Work)
    /\ \A n \in SNSs : SF_vars(Reconcile(n)) /\ SF_vars(worker.sns = n /\ CRQFound)

Spec == Init /\ [][Next]_vars /\ Fairness
-----------------------------------------------------------------------------
TypeOK ==
    /\ Keys \subseteq SNSs
    /\ \A k \in Keys : crqForest[k] \in Seq(SNSs)
    /\ sns \subseteq SNSs
    /\ namespaces \subseteq Nodes
    /\ terminating \subseteq namespaces
    /\ \A n \in SNSs : admission[n].at \in {"idle", "count"} /\ admission[n].key \in Nodes \cup {NoKey}
    /\ worker.at \in {"idle", "namespace", "ensure", "parent", "crq", "add"}
    /\ worker.at = "add" => worker.key \in SNSs /\ worker.sns \in SNSs
    /\ cleaner.at \in {"idle", "db", "sns", "finalizer"}
    /\ failures \in 0..MaxFailures
    /\ early \in BOOLEAN /\ crowded \in BOOLEAN /\ late \in BOOLEAN

(***************************************************************************)
(* A namespace is in the DB at most once, as a key or as one entry of one  *)
(* list, although EnsureSNSInDB looks and adds in different critical       *)
(* sections and cleanUp runs in between: RemoveNS deletes from the slice   *)
(* it ranges over, and KeyCount counts entries.                            *)
(***************************************************************************)
AtMostOneEntry == \A n \in SNSs : InForestOnce(n)

(***************************************************************************)
(* Whatever failed, restarted or was deleted: as long as no Subnamespace   *)
(* was there before its parent was in the DB (created under a parent half  *)
(* initialised, or found without a namespace by a restart, which then      *)
(* leaves out its parent) and none was added while it was being deleted,   *)
(* every entry is under the first namespace of its path that has a         *)
(* ClusterResourceQuota, whether AddNS or a rebuild put it there.          *)
(***************************************************************************)
KeyedByFirst ==
    ~early /\ ~late => \A n \in SNSs : KeysOf(n) # {} => BelowRQ(n) /\ KeysOf(n) = {FirstCRQ(n)}

(***************************************************************************)
(* The limit holds for creations that come one at a time.                  *)
(***************************************************************************)
WithinMaxSNS == ~early /\ ~crowded /\ ~late => \A k \in Keys : KeyCount(k) <= MaxSNS

(***************************************************************************)
(* A subnamespace that belongs in the DB gets there, unless it is deleted, *)
(* although AddNS takes a ClusterResourceQuota that the cache does not     *)
(* show yet for one that does not exist.                                   *)
(***************************************************************************)
EventuallyInDB == \A n \in SNSs : n \in sns /\ Awaited(n) ~> n \notin sns \/ ~Awaited(n)

(***************************************************************************)
(* namespacedb.go: a key is "the first namespace in a hierarchy that is    *)
(* bound to a CRQ and not RQ".                                             *)
(***************************************************************************)
KeyIsTheFirst == \A k \in Keys : BelowRQ(k) /\ k = FirstCRQ(k)

(***************************************************************************)
(* deleteNamespaceFromNamespaceDB: a namespace that is gone, with its      *)
(* Subnamespace, is not in the DB, also after a failed cleanUp or a        *)
(* restart in the middle of it; unless EnsureSNSInDB, which does not look  *)
(* at the deletion, added it while it was being deleted.                   *)
(***************************************************************************)
DeletedIsNotInDB == ~late => \A n \in SNSs : n \notin namespaces \cup sns => KeysOf(n) = {}
=============================================================================
