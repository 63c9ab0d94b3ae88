----------------------------- MODULE Migration -----------------------------
(***************************************************************************)
(* internal/migrationhierarchy: a MigrationHierarchy object moves a        *)
(* subnamespace, with all that is below it, under another parent.  Its     *)
(* controller raises the quota of the root namespace, has an Updatequota   *)
(* carry the amount from the root to the new parent, and waits for it; it  *)
(* then creates the Subnamespace under the new parent, deletes the old     *)
(* one, rewrites labels, annotations and quota selectors of the whole      *)
(* subtree, moves the subtree in the namespace DB, has a second            *)
(* Updatequota carry the amount from the old parent to the root, and       *)
(* lowers the root again.  It is one long pass of many API calls on a copy *)
(* of the object that was read from a cache.                               *)
(*                                                                         *)
(* Next to it run the updatequota controller (its writes, one at a time),  *)
(* the subnamespace controller (init of the migrated Subnamespace and sync *)
(* of all of them, each taken as one step, with the quota object in force) *)
(* and users.  One object is followed.  There are no ResourcePools, nobody *)
(* creates or deletes subnamespaces, and every user has the permissions.   *)
(***************************************************************************)
EXTENDS CrqForest, SequencesExt

CONSTANTS
    Nodes,          \* the root namespace and every subnamespace
    Root,
    DisplayName,    \* [Nodes -> Seq(Nodes)] at the start: root, ..., node
    InitialHard,    \* [Nodes -> Nat] the quota of each, at the start
    SecondaryRoots, \* the namespaces with the is-secondary-root annotation
    MaxSNS,         \* the limit on the namespaces below a key
    MaxFailures,    \* bound on failed calls and restarts of the operator
    MaxTouches,     \* bound on writes by others that outdate a copy of the controller
    MaxIncreases    \* bound on the raises of the root before a pass that works on an outdated copy

SNSs      == Nodes \ {Root}
Depth(n)  == Len(DisplayName[n]) - 1
Parent(n) == DisplayName[n][Len(DisplayName[n]) - 1]

ASSUME MigrationAssumption ==
    /\ IsFiniteSet(Nodes) /\ Root \in Nodes /\ NoKey \notin Nodes
    /\ DisplayName \in [Nodes -> Seq(Nodes)]
    /\ DisplayName[Root] = <<Root>>
    /\ \A n \in SNSs :
        /\ Len(DisplayName[n]) > 1
        /\ DisplayName[n] = Append(DisplayName[Parent(n)], n)
    /\ InitialHard \in [Nodes -> Nat]
    /\ SecondaryRoots \subseteq Nodes
    /\ RqDepth \in Nat /\ MaxSNS \in Nat /\ MaxFailures \in Nat /\ MaxTouches \in Nat /\ MaxIncreases \in Nat

VARIABLES
    mh,         \* Status.Phase ("absent": no object) and resourceVersion of the object
    cached,     \* the same, as the cache shows it
    current, to,    \* its Spec
    queued,     \* the object is in the workqueue
    worker,     \* the reconciliation in progress
    sns,        \* [<<parent, name>> of the Subnamespaces -> Status.Phase]
    label,      \* the parent label of the current namespace
    annotated,  \* the namespaces whose annotations were rewritten
    crqAt,      \* [SNSs -> Nat] the depth in the selector of the ClusterResourceQuota, 0: there is none
    hard,       \* [Nodes -> Nat] the quota in force; the root's is its ResourceQuota
    upq,        \* [namespaces -> ...] the Updatequotas named after the object
    failures, touches,
    torn,       \* history: a pass began over with the namespace relabelled, or a failed call had its effect
    halfway,    \* history: the operator stopped with the new Subnamespace created and the old one not deleted
    lost,       \* history: the rewriting of a namespace was lost to a conflict
    raced,      \* history: the subnamespace controller added a namespace that was about to be added
    keyMoved,   \* history: a key was moved under another key
    mixed,      \* history: a restart found the subtree rewritten in part
    increases   \* history: how often the root was raised

cluster == <<sns, label, annotated, crqAt, hard, upq>>
bounds  == <<failures, touches>>
history == <<torn, halfway, lost, raced, keyMoved, mixed, increases>>
object  == <<mh, cached, current, to, queued>>
vars    == <<crqForest, mh, cached, current, to, queued, worker, sns, label, annotated, crqAt, hard, upq,
             failures, touches, torn, halfway, lost, raced, keyMoved, mixed, increases>>
-----------------------------------------------------------------------------
(***************************************************************************)
(* What the annotations of a namespace say.  GetAllChildren and            *)
(* UpdateAllNSChildrenOfNs follow the Subnamespaces, which stay where they *)
(* are below the current namespace.                                        *)
(***************************************************************************)
Subtree == {n \in SNSs : current \in Range(DisplayName[n])}

NewPath(n) == DisplayName[to] \o SubSeq(DisplayName[n], Len(DisplayName[current]), Len(DisplayName[n]))

Path(n)    == IF n \in annotated THEN NewPath(n) ELSE DisplayName[n]
DepthOf(n) == Len(Path(n)) - 1
Depths     == [n \in SNSs |-> DepthOf(n)]

(***************************************************************************)
(* The crq-selector-d annotation.  AppendAnnotations overwrites but never  *)
(* removes: the selectors of depths that the namespace no longer has stay. *)
(***************************************************************************)
Selector(n, d) ==
    CASE d <= DepthOf(n) -> Path(n)[d + 1]
      [] d > DepthOf(n) /\ d <= Depth(n) -> DisplayName[n][d + 1]
      [] OTHER -> NoKey

Selected(m) == {n \in SNSs : crqAt[m] > 0 /\ Selector(n, crqAt[m]) = m}

Under(p)     == {n \in SNSs : <<p, n>> \in DOMAIN sns}
LabelOf(n)   == IF n = current THEN label ELSE Parent(n)
SumHard(S)   == FoldSet(LAMBDA n, sum : sum + hard[n], 0, S)
IsRQ(p)      == Len(Path(p)) <= RqDepth    \* of a child of p

\* DoesSubnamespaceObjectExist: a quota object that is not zero.
QuotaObjExists == hard[current] > 0

LeafPaths == {Path(n) : n \in {m \in SNSs : Under(m) = {} /\ \E p \in Nodes : <<p, m>> \in DOMAIN sns}}
-----------------------------------------------------------------------------
Idle == [at |-> "idle", phase |-> "None", rev |-> 0, src |-> Root, todo |-> {}, n |-> Root,
         oldKey |-> NoKey, newKey |-> NoKey]

NoUpq == [k |-> 1, phase |-> "absent"]

Init ==
    /\ mh = [phase |-> "absent", rev |-> 0]
    /\ cached = mh
    /\ current \in SNSs
    /\ to \in Nodes
    /\ queued = FALSE
    /\ worker = Idle
    /\ sns = [p \in {<<Parent(n), n>> : n \in SNSs} |-> "Created"]
    /\ label = Parent(current)
    /\ annotated = {}
    /\ crqAt = [n \in SNSs |-> IF Depth(n) > RqDepth THEN Depth(n) ELSE 0]
    /\ hard = InitialHard
    /\ upq = [n \in Nodes |-> NoUpq]
    /\ crqForest = Rebuilt(LeafPaths, Depths)
    /\ failures = 0 /\ touches = 0
    /\ torn = FALSE /\ halfway = FALSE /\ lost = FALSE /\ raced = FALSE /\ keyMoved = FALSE
    /\ mixed = FALSE
    /\ increases = 0

(***************************************************************************)
(* handleCreate of the webhook.  getNSChildrenNum counts the namespaces    *)
(* that the ClusterResourceQuota of the current one selects, itself too.   *)
(***************************************************************************)
ValidateSecondaryRoot ==
    LET a == DisplayName[current][2]
        b == DisplayName[to][2]
    IN  a \in SecondaryRoots \/ b \in SecondaryRoots => a = b

ValidateKeyCountInDB(k) == crqAt[current] > 0 /\ KeyCount(k) + Cardinality(Selected(current)) < MaxSNS

\* Fault: the destination may be below the current namespace.
NoLoopCheck == TRUE

ValidateMigrationLoop == current \notin Range(DisplayName[to])

CreateMH ==
    /\ mh.phase = "absent"
    /\ current # to
    /\ to # label
    /\ ValidateMigrationLoop
    /\ to # Root => ValidateSecondaryRoot
    /\ \E i \in Key(current), j \in Key(to) : i # NoKey /\ j # NoKey => ValidateKeyCountInDB(j)
    /\ mh' = [phase |-> "None", rev |-> 1]
    /\ UNCHANGED <<crqForest, cached, current, to, queued, worker, cluster, bounds, history>>

\* Somebody writes the object; the webhook denies only changes of its Spec.
TouchMH ==
    /\ mh.phase \in {"None", "InProgress"}
    /\ touches < MaxTouches
    /\ touches' = touches + 1
    /\ mh' = [mh EXCEPT !.rev = @ + 1]
    /\ UNCHANGED <<crqForest, cached, current, to, queued, worker, cluster, failures, history>>

\* The cache catches up, and the event enqueues the object.
Watch ==
    /\ cached # mh
    /\ cached' = mh
    /\ queued' = TRUE
    /\ UNCHANGED <<crqForest, mh, current, to, worker, cluster, bounds, history>>
-----------------------------------------------------------------------------
(***************************************************************************)
(* Reconcile, and what reconcile reads before it does anything.  The old   *)
(* Subnamespace is the one under the parent that the label names; without  *)
(* it there is no quota object either, which is an error.                  *)
(***************************************************************************)
ShouldReconcile(p) == p \notin {"absent", "Complete", "Error"}

Begin(at) == worker' = [Idle EXCEPT !.at = at, !.phase = cached.phase, !.rev = cached.rev, !.src = label]

Reconcile ==
    /\ worker.at = "idle"
    /\ queued
    /\ cached # mh => increases < MaxIncreases
    /\ queued' = FALSE
    /\ \/ /\ ~ShouldReconcile(cached.phase)
          /\ UNCHANGED <<worker, torn>>
       \/ /\ ShouldReconcile(cached.phase)
          /\ torn' = (torn \/ label = to)
          /\ Begin(IF <<label, current>> \notin DOMAIN sns THEN "error"
                   ELSE IF cached.phase # "None" THEN "monitor"
                   ELSE IF QuotaObjExists THEN "increase"
                   ELSE "inprogress")
    /\ UNCHANGED <<crqForest, mh, cached, current, to, cluster, bounds, halfway, lost, raced, keyMoved, mixed, increases>>

Step(at) == worker' = [worker EXCEPT !.at = at]

IncreaseRootResources ==
    /\ worker.at = "increase"
    /\ hard' = [hard EXCEPT ![Root] = @ + hard[current]]
    /\ increases' = increases + 1
    /\ Step("upq")
    /\ UNCHANGED <<crqForest, object, sns, label, annotated, crqAt, upq, bounds, torn, halfway, lost, raced, keyMoved, mixed>>

\* CreateObject: an Updatequota of that name in that namespace is taken for this one.
CreateMigrationUPQ(s) ==
    upq' = IF upq[s].phase = "absent" THEN [upq EXCEPT ![s].phase = "None"] ELSE upq

(***************************************************************************)
(* From the root to the crq-pointer of the new parent's Subnamespace.  The *)
(* root has no Subnamespace: the webhook denies the empty destination.     *)
(***************************************************************************)
CreateFirstUPQ ==
    /\ worker.at = "upq"
    /\ \/ to = Root /\ Step("error") /\ UNCHANGED upq
       \/ to # Root /\ Step("inprogress") /\ CreateMigrationUPQ(Root)
    /\ UNCHANGED <<crqForest, object, sns, label, annotated, crqAt, hard, bounds, history>>

\* updateMHStatus: UpdateObject on the copy, to which a conflict is no error.
Fresh == worker.rev = mh.rev

UpdateMHStatus(p) == mh' = IF Fresh THEN [phase |-> p, rev |-> mh.rev + 1] ELSE mh

UpdateInProgress ==
    /\ worker.at = "inprogress"
    /\ UpdateMHStatus("InProgress")
    /\ worker' = [worker EXCEPT !.at = "monitor", !.rev = IF Fresh THEN @ + 1 ELSE @]
    /\ UNCHANGED <<crqForest, cached, current, to, queued, cluster, bounds, history>>

MonitorMigrationUPQ ==
    /\ worker.at = "monitor"
    /\ \/ (QuotaObjExists => upq[Root].phase = "Complete") /\ Step("create") /\ UNCHANGED queued
       \/ QuotaObjExists /\ upq[Root].phase = "Error" /\ Step("error") /\ UNCHANGED queued
       \/ /\ QuotaObjExists /\ upq[Root].phase \in {"absent", "None"}
          /\ worker' = Idle
          /\ queued' = TRUE
    /\ UNCHANGED <<crqForest, mh, cached, current, to, cluster, bounds, history>>
-----------------------------------------------------------------------------
WithoutSNS(parents) == Restrict(sns, DOMAIN sns \ {<<p, current>> : p \in parents})

\* An object of that name is taken for the new one.
WithNewSNS == [p \in DOMAIN sns \cup {<<to, current>>} |-> IF p \in DOMAIN sns THEN sns[p] ELSE "Migrated"]

(***************************************************************************)
(* createNewSNS.  The admission of a Subnamespace counts the siblings by   *)
(* their label, before the API server sees whether it is there already.    *)
(***************************************************************************)
CreateAllowed ==
    /\ \E k \in Key(to) : k # NoKey => KeyCount(k) < MaxSNS
    /\ SumHard({n \in SNSs : LabelOf(n) = to}) + hard[current] <= hard[to]

CreateNewSNS ==
    /\ worker.at = "create"
    /\ \/ CreateAllowed /\ sns' = WithNewSNS /\ Step("delete")
       \/ ~CreateAllowed /\ Step("error") /\ UNCHANGED sns
    /\ UNCHANGED <<crqForest, object, label, annotated, crqAt, hard, upq, bounds, history>>

(***************************************************************************)
(* deleteOldSNS.  It looks for the new parent in the annotation parent of  *)
(* the old Subnamespace, which nothing sets (parent is a label, of the     *)
(* namespace), and so always deletes.                                      *)
(***************************************************************************)
DeleteOldSNS ==
    /\ worker.at = "delete"
    /\ sns' = WithoutSNS({worker.src})
    /\ worker' = [worker EXCEPT !.at = "annotations", !.todo = Subtree, !.n = current]
    /\ UNCHANGED <<crqForest, object, label, annotated, crqAt, hard, upq, bounds, history>>

\* The creation is carried out and reported as failed.
CreateNewSNSFails ==
    /\ worker.at = "create"
    /\ failures < MaxFailures
    /\ failures' = failures + 1
    /\ CreateAllowed
    /\ sns' = WithNewSNS
    /\ torn' = TRUE
    /\ Step("error")
    /\ UNCHANGED <<crqForest, object, label, annotated, crqAt, hard, upq, touches, halfway, lost, raced, keyMoved, mixed, increases>>

\* Fault: the new Subnamespace is left behind.
DeleteOldSNSNoUndo ==
    /\ worker.at = "delete"
    /\ failures < MaxFailures
    /\ failures' = failures + 1
    /\ Step("error")
    /\ UNCHANGED <<crqForest, object, cluster, touches, history>>

(***************************************************************************)
(* The deletion fails and the new Subnamespace is deleted instead.  The    *)
(* old one may be gone nevertheless, or the new one stay as well.          *)
(***************************************************************************)
DeleteOldSNSFails ==
    /\ worker.at = "delete"
    /\ failures < MaxFailures
    /\ failures' = failures + 1
    /\ \/ sns' = WithoutSNS({to}) /\ UNCHANGED torn
       \/ sns' \in {sns, WithoutSNS({worker.src, to})} /\ torn' = TRUE
    /\ Step("error")
    /\ UNCHANGED <<crqForest, object, label, annotated, crqAt, hard, upq, touches, halfway, lost, raced, keyMoved, mixed, increases>>

(***************************************************************************)
(* UpdateNSBasedOnParent, for the current namespace and then all below it, *)
(* parents first: annotations, labels, the selector of the                 *)
(* ClusterResourceQuota.  A conflict with a write by somebody else loses   *)
(* the annotations, and with them the labels.                              *)
(***************************************************************************)
AppendAnnotations ==
    /\ worker.at = "annotations"
    /\ \/ /\ annotated' = annotated \cup {worker.n}
          /\ Step("labels")
          /\ UNCHANGED <<touches, lost>>
       \/ /\ touches < MaxTouches
          /\ touches' = touches + 1
          /\ lost' = TRUE
          /\ Step("selector")
          /\ UNCHANGED annotated
    /\ UNCHANGED <<crqForest, object, sns, label, crqAt, hard, upq, failures, torn, halfway, raced, keyMoved, mixed, increases>>

AppendLabels ==
    /\ worker.at = "labels"
    /\ label' = IF worker.n = current THEN to ELSE label
    /\ Step("selector")
    /\ UNCHANGED <<crqForest, object, sns, annotated, crqAt, hard, upq, bounds, history>>

\* Fault: what is below the migrated namespace is forgotten.
OnlyCurrent(at, then) == worker' = [worker EXCEPT !.at = then, !.todo = {}]

\* The node that is next in line, after n.
NextNode(at, then) ==
    LET rest == worker.todo \ {worker.n}
    IN  IF rest = {} THEN worker' = [worker EXCEPT !.at = then, !.todo = {}]
        ELSE \E m \in rest : /\ Parent(m) \notin rest
                             /\ worker' = [worker EXCEPT !.at = at, !.todo = rest, !.n = m]

\* Fault: the selector is left as it was.
KeepCRQSelector ==
    /\ worker.at = "selector"
    /\ NextNode("annotations", "keys")
    /\ UNCHANGED <<crqForest, object, sns, label, annotated, crqAt, hard, upq, bounds, history>>

UpdateCRQSelector ==
    /\ worker.at = "selector"
    /\ crqAt' = [crqAt EXCEPT ![worker.n] = IF @ > 0 THEN Len(NewPath(worker.n)) - 1 ELSE 0]
    /\ NextNode("annotations", "keys")
    /\ UNCHANGED <<crqForest, object, sns, label, annotated, hard, upq, bounds, history>>
-----------------------------------------------------------------------------
(***************************************************************************)
(* MigrateNSHierarchy: the keys are looked up once, then each namespace of *)
(* the subtree is removed from the old one, unless that is the migrated    *)
(* namespace itself, and added to the new one, in critical sections of     *)
(* their own.                                                              *)
(***************************************************************************)
LookUpKeys ==
    /\ worker.at = "keys"
    /\ \E i \in Key(current), j \in Key(to) :
           /\ worker' = [worker EXCEPT !.at = "remove", !.todo = Subtree, !.n = current, !.oldKey = i, !.newKey = j]
           /\ keyMoved' = (keyMoved \/ (j # NoKey /\ Subtree \cap Keys # {}))
    /\ UNCHANGED <<crqForest, object, cluster, bounds, torn, halfway, lost, raced, mixed, increases>>

\* Fault: the namespace is left under its old key.
RemoveFromNoKey ==
    /\ worker.at = "remove"
    /\ Step("add")
    /\ UNCHANGED <<crqForest, object, cluster, bounds, history>>

RemoveFromOldKey ==
    /\ worker.at = "remove"
    /\ \/ worker.oldKey \in {NoKey, current} /\ Step("add") /\ UNCHANGED crqForest
       \/ /\ worker.oldKey \in Keys \ {current}
          /\ crqForest' = RemoveNS(worker.n, worker.oldKey)
          /\ Step("add")
       \/ /\ worker.oldKey \notin Keys \cup {NoKey, current}
          /\ Step("error")
          /\ UNCHANGED crqForest
    /\ UNCHANGED <<object, cluster, bounds, history>>

\* Fault: the absence of a key is not noticed.
AddToAnyKey ==
    /\ worker.at = "add"
    /\ crqForest' = AddNSToKey(worker.newKey, worker.n)
    /\ NextNode("remove", "complete")
    /\ UNCHANGED <<object, cluster, bounds, history>>

AddToNewKey ==
    /\ worker.at = "add"
    /\ crqForest' = IF worker.newKey = NoKey THEN crqForest ELSE AddNSToKey(worker.newKey, worker.n)
    /\ NextNode("remove", IF QuotaObjExists THEN "upqBack" ELSE "complete")
    /\ UNCHANGED <<object, cluster, bounds, history>>
-----------------------------------------------------------------------------
\* Fault: the old parent keeps the quota.
NoSecondUPQ ==
    /\ worker.at = "upqBack"
    /\ Step("decrease")
    /\ UNCHANGED <<crqForest, object, cluster, bounds, history>>

\* From the old parent to the root.  The migration does not wait for it.
CreateSecondUPQ ==
    /\ worker.at = "upqBack"
    /\ CreateMigrationUPQ(worker.src)
    /\ Step("decrease")
    /\ UNCHANGED <<crqForest, object, sns, label, annotated, crqAt, hard, bounds, history>>

\* Fault: the root keeps what it was lent.
NoDecrease ==
    /\ worker.at = "decrease"
    /\ Step("complete")
    /\ UNCHANGED <<crqForest, object, cluster, bounds, history>>

DecreaseRootResources ==
    /\ worker.at = "decrease"
    /\ hard' = [hard EXCEPT ![Root] = @ - hard[current]]
    /\ Step("complete")
    /\ UNCHANGED <<crqForest, object, sns, label, annotated, crqAt, upq, bounds, history>>

UpdateComplete ==
    /\ worker.at = "complete"
    /\ UpdateMHStatus("Complete")
    /\ worker' = Idle
    /\ UNCHANGED <<crqForest, cached, current, to, queued, cluster, bounds, history>>

\* Fault: after a conflict the error is forgotten and so is the object.
ErrorForgotten ==
    /\ worker.at = "error"
    /\ UpdateMHStatus("InProgress")
    /\ worker' = Idle
    /\ UNCHANGED <<crqForest, cached, current, to, queued, cluster, bounds, history>>

\* Every error ends the pass like this; it is returned, so the object is enqueued.
UpdateError ==
    /\ worker.at = "error"
    /\ UpdateMHStatus("Error")
    /\ worker' = Idle
    /\ queued' = TRUE
    /\ UNCHANGED <<crqForest, cached, current, to, cluster, bounds, history>>
-----------------------------------------------------------------------------
(***************************************************************************)
(* The updatequota controller, one write at a time.  One end is the root,  *)
(* which is the common ancestor: the amount is added on the way down to    *)
(* the new parent, or subtracted on the way up from the old one.  A denied *)
(* write ends it, what was written stays.                                  *)
(***************************************************************************)
UpqPath(s) == IF s = Root THEN Tail(DisplayName[to]) ELSE Reverse(Tail(DisplayName[s]))

Amount(s) == IF s = Root THEN hard[current] ELSE 0 - hard[current]

\* handleUpdate of the Subnamespace: siblings are counted by their label, children by their Subnamespace.
MoveAllowed(s, n) ==
    /\ SumHard({m \in SNSs : LabelOf(m) = LabelOf(n)}) + Amount(s) <= hard[LabelOf(n)]
    /\ SumHard(Under(n)) <= hard[n] + Amount(s)

MoveQuota(s) ==
    LET n == UpqPath(s)[upq[s].k]
    IN  /\ upq[s].phase = "None"
        /\ \/ /\ MoveAllowed(s, n)
              /\ hard' = [hard EXCEPT ![n] = @ + Amount(s)]
              /\ upq' = IF upq[s].k = Len(UpqPath(s)) THEN [upq EXCEPT ![s].phase = "Complete"]
                                                   ELSE [upq EXCEPT ![s].k = @ + 1]
           \/ /\ ~MoveAllowed(s, n)
              /\ upq' = [upq EXCEPT ![s].phase = "Error"]
              /\ UNCHANGED hard
        /\ UNCHANGED <<crqForest, object, worker, sns, label, annotated, crqAt, bounds, history>>

(***************************************************************************)
(* The subnamespace controller.  EnsureSNSInDB: a namespace that is in the *)
(* DB, or at a depth of ResourceQuotas, stays as it is; the others go      *)
(* under the key of their parent, or become one if they have a             *)
(* ClusterResourceQuota.                                                   *)
(***************************************************************************)
EnsureSNSInDB(p, n) ==
    /\ crqForest' \in
           IF KeysOf(n) # {} \/ IsRQ(p) THEN {crqForest}
           ELSE {IF k # NoKey THEN AddNSToKey(k, n)
                 ELSE IF crqAt'[n] > 0 THEN AddNSToKey(n, n) ELSE crqForest : k \in Key(p)}
    /\ raced' = (raced \/ (crqForest' # crqForest /\ worker.at \in {"remove", "add"}
                                                  /\ n \in worker.todo /\ worker.newKey # NoKey))

(***************************************************************************)
(* init of a Subnamespace in phase Migrated: the labels and annotations of *)
(* its namespace, its quota object, the DB, and phase Created.  It skips   *)
(* setup, so the Subnamespace has no owner.                                *)
(***************************************************************************)
InitMigrated(p, n) ==
    /\ <<p, n>> \in DOMAIN sns
    /\ sns[<<p, n>>] = "Migrated"
    /\ annotated' = annotated \cup {n}
    /\ label' = p
    /\ crqAt' = [crqAt EXCEPT ![n] = IF @ = 0 /\ ~IsRQ(p) THEN Len(Path(p)) ELSE @]
    /\ EnsureSNSInDB(p, n)
    /\ sns' = [sns EXCEPT ![<<p, n>>] = "Created"]
    /\ UNCHANGED <<object, worker, hard, upq, bounds, torn, halfway, lost, keyMoved, mixed, increases>>

\* sync: the kind of the quota object follows the depth (a quota of zero is not deleted), and the DB.
SyncSNS(p, n) ==
    /\ <<p, n>> \in DOMAIN sns
    /\ sns[<<p, n>>] = "Created"
    /\ crqAt' = [crqAt EXCEPT ![n] = CASE IsRQ(p) /\ hard[n] > 0 -> 0
                                       [] ~IsRQ(p) /\ @ = 0 -> Len(Path(p))
                                       [] OTHER -> @]
    /\ EnsureSNSInDB(p, n)
    /\ UNCHANGED <<object, worker, sns, label, annotated, hard, upq, bounds, torn, halfway, lost, keyMoved, mixed, increases>>
-----------------------------------------------------------------------------
(***************************************************************************)
(* A call of the controller fails: most failures are recorded as Error,    *)
(* the failure to record a phase is only returned.  An Updatequota may     *)
(* fail for reasons of its own.                                            *)
(***************************************************************************)
Fail ==
    /\ failures < MaxFailures
    /\ failures' = failures + 1
    /\ \/ /\ worker.at \in {"increase", "upq", "monitor", "create", "annotations", "labels", "selector",
                            "keys", "upqBack", "decrease", "complete"}
          /\ Step("error")
          /\ UNCHANGED <<queued, upq>>
       \/ /\ worker.at \in {"inprogress", "error"}
          /\ worker' = Idle
          /\ queued' = TRUE
          /\ UNCHANGED upq
       \/ \E s \in Nodes :
          /\ upq[s].phase = "None"
          /\ upq' = [upq EXCEPT ![s].phase = "Error"]
          /\ UNCHANGED <<queued, worker>>
    /\ UNCHANGED <<crqForest, mh, cached, current, to, sns, label, annotated, crqAt, hard, touches, history>>

\* The operator restarts: it lists the objects and builds the DB anew.
Restart ==
    /\ failures < MaxFailures
    /\ failures' = failures + 1
    /\ mh.phase # "absent"
    /\ cached' = mh
    /\ queued' = TRUE
    /\ worker' = Idle
    /\ crqForest' = Rebuilt(LeafPaths, Depths)
    /\ halfway' = (halfway \/ worker.at = "delete")
    /\ mixed' = (mixed \/ annotated \notin {{}, Subtree})
    /\ UNCHANGED <<mh, current, to, cluster, touches, torn, lost, raced, keyMoved, increases>>

Work ==
    \/ IncreaseRootResources \/ CreateFirstUPQ \/ UpdateInProgress \/ MonitorMigrationUPQ
    \/ CreateNewSNS \/ DeleteOldSNS \/ AppendAnnotations \/ AppendLabels \/ UpdateCRQSelector
    \/ LookUpKeys \/ RemoveFromOldKey \/ AddToNewKey
    \/ CreateSecondUPQ \/ DecreaseRootResources \/ UpdateComplete \/ UpdateError

Subnamespaces == \E p \in DOMAIN sns : InitMigrated(p[1], p[2]) \/ SyncSNS(p[1], p[2])

Next ==
    \/ CreateMH \/ TouchMH \/ Watch \/ Reconcile \/ Work
    \/ \E s \in Nodes : MoveQuota(s)
    \/ Subnamespaces
    \/ CreateNewSNSFails \/ DeleteOldSNSFails \/ Fail \/ Restart

(***************************************************************************)
(* The workers of the migration and updatequota controllers run, and the   *)
(* cache catches up.  Nothing is assumed of users and of the others.       *)
(***************************************************************************)
Fairness ==
    /\ WF_vars(Reconcile \/ Work)
    /\ WF_vars(Watch)
    /\ WF_vars(\E s \in Nodes : MoveQuota(s))

Spec == Init /\ [][Next]_vars /\ Fairness
-----------------------------------------------------------------------------
Positions == {"idle", "increase", "upq", "inprogress", "monitor", "create", "delete", "annotations", "labels",
              "selector", "keys", "remove", "add", "upqBack", "decrease", "complete", "error"}

TypeOK ==
    /\ mh.phase \in {"absent", "None", "InProgress", "Complete", "Error"} /\ mh.rev \in Nat
    /\ cached.rev <= mh.rev
    /\ current \in SNSs /\ to \in Nodes /\ queued \in BOOLEAN
    /\ worker.at \in Positions /\ worker.todo \subseteq Subtree /\ worker.rev <= mh.rev
    /\ DOMAIN sns \subseteq Nodes \X SNSs
    /\ label \in {Parent(current), to}
    /\ annotated \subseteq Subtree
    /\ crqAt \in [SNSs -> Nat] /\ hard \in [Nodes -> Int]
    /\ \A n \in Nodes : upq[n].phase \in {"absent", "None", "Complete", "Error"}
    /\ Keys \subseteq SNSs
    /\ failures \in 0..MaxFailures /\ touches \in 0..MaxTouches

Parents == {p \in Nodes : <<p, current>> \in DOMAIN sns}

(***************************************************************************)
(* createNewSNS, deleteOldSNS and the webhook's check of loops: every      *)
(* namespace can always be reached from the root through Subnamespaces,    *)
(* whatever fails and whenever the operator restarts, unless a pass is     *)
(* started over after the label changed, or a call that was carried out is *)
(* reported as failed.                                                     *)
(***************************************************************************)
StaysRooted ==
    ~torn => \A S \in (SUBSET SNSs) \ {{}} : \E n \in S, p \in Nodes \ S : <<p, n>> \in DOMAIN sns

(***************************************************************************)
(* Complete means that the whole subtree is where the object says: one     *)
(* Subnamespace, the label, the annotations of every namespace below.      *)
(***************************************************************************)
MovedAsAWhole ==
    mh.phase = "Complete" /\ ~torn =>
        /\ Parents = {to}
        /\ ~lost => label = to /\ annotated = Subtree

(***************************************************************************)
(* A migration that was turned down or failed, at any step, leaves the     *)
(* namespace in one place, the old or the new (deleteOldSNS undoes the     *)
(* creation); unless the operator stopped between the two, and what it     *)
(* started over then failed.                                               *)
(***************************************************************************)
FailedIsInOnePlace == mh.phase = "Error" /\ worker = Idle /\ ~torn /\ ~halfway => Cardinality(Parents) = 1

(***************************************************************************)
(* increaseRootResources is temporary: the root is as before once the      *)
(* migration is Complete, if it was raised only once.                      *)
(***************************************************************************)
RootRestored ==
    mh.phase = "Complete" /\ ~torn /\ increases <= 1 => hard[Root] = InitialHard[Root]

OnPath(n, p) == n \in Range(DisplayName[p])

Lent(n) == IF OnPath(n, to) THEN InitialHard[current] ELSE 0
Back(n) == IF OnPath(n, Parent(current)) THEN InitialHard[current] ELSE 0

(***************************************************************************)
(* The quota follows the subnamespace, once: whatever was restarted or     *)
(* repeated, every ancestor in the new place has the amount more and every *)
(* ancestor in the old place has it less, ancestors of both are unchanged, *)
(* as soon as both Updatequotas are Complete.                              *)
(***************************************************************************)
QuotaFollows ==
    mh.phase = "Complete" /\ ~torn /\ (\A s \in Nodes : upq[s].phase \in {"absent", "Complete"}) =>
        \A n \in SNSs \ {current} : hard[n] = InitialHard[n] + Lent(n) - Back(n)

(***************************************************************************)
(* MigrateNSHierarchy leaves no namespace in the DB twice, whatever fails  *)
(* and is started over, unless it puts a key under another one, the        *)
(* subnamespace controller adds the namespace in between, or the DB was    *)
(* rebuilt when the annotations of the subtree were rewritten in part      *)
(* (paths of both places, sorted by depths of both).                       *)
(***************************************************************************)
OnceInDB == ~raced /\ ~keyMoved /\ ~mixed => \A n \in SNSs : InForestOnce(n)

Ancestry(m, n) == m \in Range(Path(n))

(***************************************************************************)
(* After the migration every ClusterResourceQuota limits all namespaces    *)
(* below its own, in the new place; and no others, unless the namespace    *)
(* moved up (its selectors of the depths it lost stay).                    *)
(***************************************************************************)
SelectedByAncestors ==
    mh.phase = "Complete" /\ ~torn /\ ~lost =>
        \A m, n \in SNSs : crqAt[m] > 0 =>
            /\ Ancestry(m, n) => n \in Selected(m)
            /\ n \in Selected(m) /\ DepthOf(n) >= Depth(n) => Ancestry(m, n)

(***************************************************************************)
(* The migration ends, and does not wait for ever for an Updatequota.      *)
(***************************************************************************)
MigrationEnds == mh.phase # "absent" ~> mh.phase \in {"Complete", "Error"}

(***************************************************************************)
(* deleteOldSNS: "If the subnamespace parent is already the toNS for some  *)
(* reason, don't do anything."                                             *)
(***************************************************************************)
KeepsSubnamespace == worker.src = to /\ worker.at \notin {"idle", "error"} => Parents # {}
=============================================================================
