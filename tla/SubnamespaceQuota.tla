------------------------- MODULE SubnamespaceQuota -------------------------
(***************************************************************************)
(* Subnamespaces and their quota (internal/subnamespace): the admission    *)
(* webhook of the Subnamespace kind, its controller (setup, init, sync),   *)
(* and the quota objects the controller keeps (internal/quota).            *)
(*                                                                         *)
(* The Subnamespace is the request; the quota object (a ResourceQuota down *)
(* to depth rqDepth, a ClusterResourceQuota below it) is what is enforced. *)
(* Admission decides on the quota objects of the parent, the siblings and  *)
(* the children, which the controller brings up to date later: requests    *)
(* that are admitted and not yet in force are what the properties below    *)
(* are about.                                                              *)
(*                                                                         *)
(* One observed resource stands for all of them: every check is made       *)
(* resource by resource.  The ResourcePool label is given when the         *)
(* Subnamespace is created and stays.                                      *)
(***************************************************************************)
EXTENDS Integers, Sequences, FiniteSets, Functions

CONSTANTS
    Nodes,          \* the names: the root namespace and every subnamespace
    Root,           \* the root namespace of the hierarchy
    DisplayName,    \* [Nodes -> Seq(Nodes)], the slice of the display-name: root, ..., node
    RqDepth,        \* the rq-depth annotation of the root namespace
    Pools,          \* the subnamespaces labelled as ResourcePool
    InitialSpec,    \* [Nodes -> Quantities]: the hierarchy at the start, NoObject for what is still to be created
    Requests,       \* [SNSs -> sets of quantities]: the quotas users ask for
    Loads,          \* the amounts workloads use
    MaxUpdates,     \* bound on the updates users make
    MaxFailures     \* bound on failed API calls and restarts of the operator

(***************************************************************************)
(* A quantity of the resource; a Hard list that does not mention it; an    *)
(* object that does not exist.                                             *)
(***************************************************************************)
Unset    == -1
NoObject == -2
Quantities == Nat \cup {Unset, NoObject}

\* What a Go map lookup in a Hard list yields: the zero Quantity when the key is missing.
Hard(q) == IF q < 0 THEN 0 ELSE q

Depth(n)  == Len(DisplayName[n]) - 1
Parent(n) == DisplayName[n][Len(DisplayName[n]) - 1]
SNSs      == Nodes \ {Root}

ASSUME TreeAssumption ==
    /\ IsFiniteSet(Nodes)
    /\ Root \in Nodes
    /\ DisplayName \in [Nodes -> Seq(Nodes)]
    /\ DisplayName[Root] = <<Root>>
    /\ \A n \in SNSs :
        /\ Len(DisplayName[n]) > 1
        /\ DisplayName[n] = Append(DisplayName[Parent(n)], n)

ASSUME ParameterAssumption ==
    /\ RqDepth \in Nat
    /\ Pools \subseteq SNSs
    /\ InitialSpec \in [Nodes -> Quantities]
    /\ InitialSpec[Root] \in Nat
    /\ Requests \in [SNSs -> SUBSET (Nat \cup {Unset})]
    /\ Loads \subseteq Nat
    /\ MaxUpdates \in Nat
    /\ MaxFailures \in Nat

\* The subnamespaces that exist at the start are settled regular ones or upper pools.
ASSUME InitialAssumption ==
    \A n \in SNSs : InitialSpec[n] # NoObject =>
        /\ InitialSpec[n] \in Nat
        /\ InitialSpec[Parent(n)] # NoObject
        /\ Parent(n) \notin Pools

VARIABLES
    phase,      \* [SNSs -> ...] Status.Phase, "absent" when there is no such Subnamespace
    spec,       \* [SNSs -> Quantities] Spec.ResourceQuotaSpec
    isRq,       \* [SNSs -> ...] the is-rq annotation
    status,     \* [SNSs -> ...] Status.Namespaces and the spec Status.Total was computed from
    namespaces, \* the namespaces that exist
    rq, crq,    \* [Nodes -> Quantities] the ResourceQuota and ClusterResourceQuota named after the node
    used,       \* [Nodes -> Nat] Used in the status of its quota object
    queue,      \* the workqueue of the controller
    worker,     \* the reconciliation in progress
    updates,    \* number of updates users made
    failures,   \* number of failed calls and restarts
    raced       \* history: a request was admitted next to one that was not in force yet

sns  == <<phase, spec, isRq, status>>
objs == <<namespaces, rq, crq, used>>
vars == <<phase, spec, isRq, status, namespaces, rq, crq, used, queue, worker, updates, failures, raced>>
-----------------------------------------------------------------------------
(***************************************************************************)
(* ResourcePools and the kind of the quota object.                         *)
(***************************************************************************)
IsSNSUpper(n) == n \in Pools /\ Parent(n) \notin Pools

\* A regular subnamespace or an upper ResourcePool has a quota object of its own.
HasQuota(n) == n \notin Pools \/ IsSNSUpper(n)

SelfOffset   == 0
ParentOffset == -1
ChildOffset  == 1

IsRQ(n, offset) ==
    /\ Depth(n) + offset <= RqDepth
    /\ offset = ParentOffset \/ n \notin Pools

SubnamespaceObject(n) == IF IsRQ(n, SelfOffset) THEN rq[n] ELSE crq[n]

\* The value of the is-rq annotation.
RqFlag(n) == IF IsRQ(n, SelfOffset) THEN "true" ELSE "false"

SubnamespaceParentObject(n) == IF IsRQ(n, ParentOffset) THEN rq[Parent(n)] ELSE crq[Parent(n)]

Exists(n)   == phase[n] # "absent"
Children(n) == {c \in SNSs : Parent(c) = n}

(***************************************************************************)
(* The sums admission works with.  The kind of quota object looked up for  *)
(* the siblings is that of the subnamespace itself, and for the children   *)
(* that of a child of the same sort.                                       *)
(***************************************************************************)
SubnamespaceSiblingObjects(n) ==
    LET kind == IF IsRQ(n, SelfOffset) THEN rq ELSE crq
    IN  SumFunction([s \in Children(Parent(n)) \cap namespaces |-> Hard(kind[s])])

SubnamespaceChildrenObjects(n) ==
    LET kind == IF IsRQ(n, ChildOffset) THEN rq ELSE crq
    IN  SumFunction([c \in {d \in Children(n) : Exists(d)} |-> Hard(kind[c])])

(***************************************************************************)
(* handleCreate, for a subnamespace n that asks for q.                     *)
(***************************************************************************)
ValidateResourceQuotaParams(n, q) == HasQuota(n) => q # Unset

\* Fault: what the siblings hold is not subtracted.
EnoughIgnoringSiblings(n, q) ==
    SubnamespaceParentObject(n) \in {NoObject, Unset} \/ SubnamespaceParentObject(n) >= Hard(q)

ValidateEnoughResourcesInParentSNS(n, q) ==
    LET parent == SubnamespaceParentObject(n)
    IN  parent \in {NoObject, Unset} \/ parent - SubnamespaceSiblingObjects(n) - Hard(q) >= 0

CreateAllowed(n, q) ==
    /\ n \notin namespaces
    /\ n \in Pools \/ Parent(n) \notin Pools
    /\ ValidateResourceQuotaParams(n, q)
    /\ ValidateEnoughResourcesInParentSNS(n, q)

(***************************************************************************)
(* handleUpdate, for a Subnamespace n written with request q and is-rq     *)
(* annotation a.  Every write of the object passes it, the controller's    *)
(* writes of labels, annotations and status too.                           *)
(***************************************************************************)
ValidateUpdateSnsRequest(n, q) ==
    /\ Hard(SubnamespaceParentObject(n)) - SubnamespaceSiblingObjects(n) - q + Hard(spec[n]) >= 0
    /\ q - used[n] >= 0

\* Fault: a decrease is checked against what is used only.
ChildrenNotChecked(n, q) == q - used[n] >= 0

ValidateEnoughResourcesForChildren(n, q) == q - SubnamespaceChildrenObjects(n) >= 0

UpdateAllowed(n, q, a) ==
    /\ n \notin Pools => q # Unset
    /\ HasQuota(n) /\ q # Unset =>
        /\ (IF a = "true" THEN rq[n] ELSE crq[n]) # NoObject => ValidateUpdateSnsRequest(n, q)
        /\ ValidateEnoughResourcesForChildren(n, q)
-----------------------------------------------------------------------------
\* The reconciliation in progress: which Subnamespace, the step it is at, the copy of the
\* Subnamespace (its spec, and whether its resourceVersion is still current), the children
\* and spec sync computes the status from, and whether its copy of the quota object is current.
Idle == [at |-> "idle", sns |-> Root, spec |-> Unset, fresh |-> FALSE,
         requests |-> [c \in SNSs |-> NoObject], total |-> NoObject, objFresh |-> FALSE]

\* Status.Namespaces as sync computes it: the requests of the children that exist.
ChildrenRequests(n) == [c \in SNSs |-> IF c \in Children(n) /\ Exists(c) THEN spec[c] ELSE NoObject]

\* The request of n is in force: the quota object agrees with it, and the annotation says
\* which kind of object it is.
Settled(n) ==
    Exists(n) =>
        /\ n \in namespaces
        /\ HasQuota(n) => SubnamespaceObject(n) = spec[n]
        /\ isRq[n] = RqFlag(n)

\* What admission of a request for n looks at is settled.
SettledAround(n) ==
    \A m \in SNSs : m = n \/ m = Parent(n) \/ m \in Children(Parent(n)) \cup Children(n) => Settled(m)

Init ==
    LET there(n) == InitialSpec[n] # NoObject
    IN  /\ phase = [n \in SNSs |-> IF there(n) THEN "Created" ELSE "absent"]
        /\ spec = [n \in SNSs |-> InitialSpec[n]]
        /\ isRq = [n \in SNSs |-> IF there(n) THEN RqFlag(n) ELSE ""]
        /\ status = [n \in SNSs |->
                        IF there(n)
                        THEN [requests |-> [c \in SNSs |-> IF Parent(c) = n THEN InitialSpec[c] ELSE NoObject],
                              total |-> InitialSpec[n]]
                        ELSE [requests |-> [c \in SNSs |-> NoObject], total |-> NoObject]]
        /\ namespaces = {n \in Nodes : there(n)}
        /\ rq = [n \in Nodes |-> IF ~there(n) THEN NoObject
                                 ELSE IF n = Root \/ IsRQ(n, SelfOffset) THEN InitialSpec[n] ELSE Unset]
        /\ crq = [n \in Nodes |-> IF n # Root /\ there(n) /\ ~IsRQ(n, SelfOffset)
                                  THEN InitialSpec[n] ELSE NoObject]
        /\ used = [n \in Nodes |-> 0]
        /\ queue = {}
        /\ worker = Idle
        /\ updates = 0
        /\ failures = 0
        /\ raced = FALSE

(***************************************************************************)
(* Users.  An accepted write makes the watch enqueue the Subnamespace, and *)
(* the copy a worker holds of it outdated.                                 *)
(***************************************************************************)
Outdated(n) == IF worker.sns = n THEN [worker EXCEPT !.fresh = FALSE] ELSE worker

CreateSNS(n, q) ==
    /\ ~Exists(n)
    /\ Parent(n) \in namespaces
    /\ CreateAllowed(n, q)
    /\ phase' = [phase EXCEPT ![n] = "None"]
    /\ spec' = [spec EXCEPT ![n] = q]
    /\ queue' = queue \cup {n}
    /\ raced' = (raced \/ ~SettledAround(n))
    /\ UNCHANGED <<isRq, status, objs, worker, updates, failures>>

UpdateSNS(n, q) ==
    /\ Exists(n)
    /\ updates < MaxUpdates
    /\ q # spec[n]
    /\ UpdateAllowed(n, q, isRq[n])
    /\ spec' = [spec EXCEPT ![n] = q]
    /\ queue' = queue \cup {n}
    /\ worker' = Outdated(n)
    /\ updates' = updates + 1
    /\ raced' = (raced \/ ~SettledAround(n))
    /\ UNCHANGED <<phase, isRq, status, objs, failures>>

\* Workloads use what the quota object in force lets them; the cluster's quota controller
\* records it in the object's status, which makes the copy a worker holds of it outdated.
Consume(n, u) ==
    /\ Exists(n)
    /\ HasQuota(n)
    /\ u # used[n]
    /\ u <= SubnamespaceObject(n)
    /\ used' = [used EXCEPT ![n] = u]
    /\ worker' = IF worker.sns = n THEN [worker EXCEPT !.objFresh = FALSE] ELSE worker
    /\ UNCHANGED <<sns, namespaces, rq, crq, queue, updates, failures, raced>>
-----------------------------------------------------------------------------
(***************************************************************************)
(* The controller: one worker, which reads the Subnamespace and then works *)
(* on that copy.  UpdateObject on the copy has no effect when the object   *)
(* has been written meanwhile (the conflict is swallowed), and fails when  *)
(* the webhook denies it.                                                  *)
(***************************************************************************)
Reconcile(n) ==
    /\ worker.at = "idle"
    /\ n \in queue
    /\ queue' = queue \ {n}
    /\ worker' = [Idle EXCEPT !.sns = n, !.spec = spec[n], !.fresh = TRUE,
                              !.at = CASE phase[n] = "None"    -> "setup"
                                       [] phase[n] = "Missing" -> "initNamespace"
                                       [] phase[n] = "Created" -> "sync"
                                       [] OTHER                -> "idle"]
    /\ UNCHANGED <<sns, objs, updates, failures, raced>>

Step(at) == worker' = [worker EXCEPT !.at = at]
Finish   == worker' = Idle

\* The call returned an error: the item goes back to the queue.
Requeue(n) ==
    /\ worker' = Idle
    /\ queue' = queue \cup {n}

Denied(n, a) == worker.fresh /\ ~UpdateAllowed(n, worker.spec, a)

Setup ==
    LET n == worker.sns
    IN  /\ worker.at = "setup"
        /\ \/ /\ Denied(n, isRq[n])
              /\ Requeue(n)
              /\ UNCHANGED phase
           \/ /\ ~Denied(n, isRq[n])
              /\ phase' = IF worker.fresh THEN [phase EXCEPT ![n] = "Missing"] ELSE phase
              /\ queue' = queue \cup {n}
              /\ Finish
        /\ UNCHANGED <<spec, isRq, status, objs, updates, failures, raced>>

InitNamespace ==
    /\ worker.at = "initNamespace"
    /\ namespaces' = namespaces \cup {worker.sns}
    /\ Step("initQuota")
    /\ UNCHANGED <<sns, rq, crq, used, queue, updates, failures, raced>>

(***************************************************************************)
(* The quota object of n becomes q, its object of the other kind x.        *)
(***************************************************************************)
SetObjects(n, q, x) ==
    /\ rq' = [rq EXCEPT ![n] = IF IsRQ(n, SelfOffset) THEN q ELSE x]
    /\ crq' = [crq EXCEPT ![n] = IF IsRQ(n, SelfOffset) THEN x ELSE q]

OtherObject(n) == IF IsRQ(n, SelfOffset) THEN crq[n] ELSE rq[n]

IsZeroed(o) == o \in {Unset, 0}

CreateDefaultSNSResourceQuota(o) == IF o = NoObject THEN Unset ELSE o

(***************************************************************************)
(* EnsureSubnamespaceObject, called by init and by sync, x the object of   *)
(* the other kind.  The quota object is created from the spec, or filled   *)
(* in (step update) when it is there and zeroed.                           *)
(***************************************************************************)
\* Fault: an object that is there is filled in, a missing one is not created.
EnsureNoCreate(n, x, update, next) ==
    /\ worker.spec # Unset
    /\ SetObjects(n, SubnamespaceObject(n), x)
    /\ worker' = [worker EXCEPT !.at = IF IsZeroed(SubnamespaceObject(n)) THEN update ELSE next]
    /\ UNCHANGED <<spec, queue>>

EnsureFromSpec(n, x, update, next) ==
    LET o == SubnamespaceObject(n)
    IN  /\ worker.spec # Unset
        /\ SetObjects(n, IF o = NoObject THEN worker.spec ELSE o, x)
        /\ worker' = [worker EXCEPT !.at = IF IsZeroed(o) THEN update ELSE next, !.objFresh = TRUE]
        /\ UNCHANGED <<spec, queue>>

(***************************************************************************)
(* Without a quota in the spec, the spec is set to what the quota object   *)
(* reports as used: a write of the Subnamespace like any other.            *)
(***************************************************************************)
EnsureFromUsed(n, x, update, next) ==
    LET o == SubnamespaceObject(n)
        denied == worker.fresh /\ ~UpdateAllowed(n, used[n], isRq[n])
    IN  /\ worker.spec = Unset
        /\ o >= 0
        /\ SetObjects(n, o, x)
        /\ \/ /\ denied
              /\ Requeue(n)
              /\ UNCHANGED spec
           \/ /\ ~denied
              /\ spec' = IF worker.fresh THEN [spec EXCEPT ![n] = used[n]] ELSE spec
              /\ queue' = queue \cup {n}
              /\ worker' = [worker EXCEPT !.at = IF IsZeroed(o) THEN update ELSE next,
                                          !.spec = used[n], !.objFresh = TRUE]

\* It is not reported yet (never, for an object that limits nothing).
UsedUnknown(n, x) ==
    LET o == SubnamespaceObject(n)
    IN  /\ worker.spec = Unset
        /\ SetObjects(n, IF o = NoObject THEN 0 ELSE o, x)
        /\ UNCHANGED spec

InitQuota ==
    LET n == worker.sns
    IN  /\ worker.at = "initQuota"
        /\ \/ /\ ~HasQuota(n)
              /\ rq' = [rq EXCEPT ![n] = CreateDefaultSNSResourceQuota(@)]
              /\ Step("initAnnotate")
              /\ UNCHANGED <<crq, spec, queue>>
           \/ HasQuota(n) /\ EnsureFromSpec(n, OtherObject(n), "initUpdate", "initAnnotate")
           \/ HasQuota(n) /\ EnsureFromUsed(n, OtherObject(n), "initUpdate", "initAnnotate")
           \/ HasQuota(n) /\ UsedUnknown(n, OtherObject(n)) /\ Requeue(n)
        /\ UNCHANGED <<phase, isRq, status, namespaces, used, updates, failures, raced>>

(***************************************************************************)
(* quota.UpdateObject: a conflict with the quota controller is swallowed   *)
(* like any other.                                                         *)
(***************************************************************************)
UpdateQuotaObject ==
    LET n == worker.sns
    IN  /\ worker.at \in {"initUpdate", "syncUpdate"}
        /\ SetObjects(n, IF worker.objFresh THEN worker.spec ELSE SubnamespaceObject(n), OtherObject(n))
        /\ Step(IF worker.at = "initUpdate" THEN "initAnnotate" ELSE "syncStatus")
        /\ UNCHANGED <<sns, namespaces, used, queue, updates, failures, raced>>

InitAnnotate ==
    LET n == worker.sns
    IN  /\ worker.at = "initAnnotate"
        /\ \/ /\ Denied(n, RqFlag(n))
              /\ Requeue(n)
              /\ UNCHANGED isRq
           \/ /\ ~Denied(n, RqFlag(n))
              /\ isRq' = IF worker.fresh THEN [isRq EXCEPT ![n] = RqFlag(n)] ELSE isRq
              /\ queue' = queue \cup {n}
              /\ Step("initCreated")
        /\ UNCHANGED <<phase, spec, status, objs, updates, failures, raced>>

InitCreated ==
    LET n == worker.sns
    IN  /\ worker.at = "initCreated"
        /\ \/ /\ Denied(n, RqFlag(n))
              /\ Requeue(n)
              /\ UNCHANGED phase
           \/ /\ ~Denied(n, RqFlag(n))
              /\ phase' = IF worker.fresh THEN [phase EXCEPT ![n] = "Created"] ELSE phase
              /\ queue' = queue \cup {n}
              /\ Finish
        /\ UNCHANGED <<spec, isRq, status, objs, updates, failures, raced>>
-----------------------------------------------------------------------------
(***************************************************************************)
(* sync: first the children are listed and the status is computed, then    *)
(* the quota object is brought in line, then the status is written.        *)
(***************************************************************************)
SyncList ==
    /\ worker.at = "sync"
    /\ worker' = [worker EXCEPT !.at = "syncQuota",
                                !.requests = ChildrenRequests(worker.sns), !.total = worker.spec]
    /\ UNCHANGED <<sns, objs, queue, updates, failures, raced>>

\* An object of the other kind is left from before; default and zeroed ones stay.
DropOther(n) == IF OtherObject(n) > 0 THEN NoObject ELSE OtherObject(n)

SyncQuota ==
    LET n == worker.sns
        o == SubnamespaceObject(n)
    IN  /\ worker.at = "syncQuota"
        /\ \/ /\ HasQuota(n) /\ o > 0
              /\ SetObjects(n, o, IF IsRQ(n, SelfOffset) THEN DropOther(n)
                                  ELSE CreateDefaultSNSResourceQuota(DropOther(n)))
              /\ worker' = [worker EXCEPT !.at = "syncUpdate", !.objFresh = TRUE]
              /\ UNCHANGED <<spec, queue>>
           \/ HasQuota(n) /\ o <= 0 /\ EnsureFromSpec(n, DropOther(n), "syncUpdate", "syncStatus")
           \/ HasQuota(n) /\ o <= 0 /\ EnsureFromUsed(n, DropOther(n), "syncUpdate", "syncStatus")
           \/ /\ HasQuota(n) /\ o <= 0
              /\ UsedUnknown(n, DropOther(n))
              /\ Step("syncStatus")
              /\ UNCHANGED queue
           \/ /\ ~HasQuota(n)
              /\ SetObjects(n, NoObject, OtherObject(n))
              /\ spec' = IF worker.fresh THEN [spec EXCEPT ![n] = Unset] ELSE spec
              /\ queue' = IF spec' # spec THEN queue \cup {n} ELSE queue
              /\ worker' = [worker EXCEPT !.at = "syncStatus", !.spec = Unset]
        /\ UNCHANGED <<phase, isRq, status, namespaces, used, updates, failures, raced>>

\* Fault: the parent is not enqueued.
ParentIsNotTold(n) == {}

\* Fault: the root, which has no Subnamespace, is enqueued too.
RootIsTold(n) == {Parent(n)}

\* The event sent on SNSEvents for the parent; the root namespace has no Subnamespace.
ParentEvent(n) == {Parent(n)} \ {Root}

\* enqueueChildrenRPToSNSConversionEvents: the upper ResourcePools among the children that are
\* not marked as such yet, which their own first sync does together with their status.
ChildrenEvents(n) ==
    {c \in Children(n) : worker.requests[c] # NoObject /\ IsSNSUpper(c) /\ status[c].total = NoObject}

(***************************************************************************)
(* syncSNSAnnotations, updateSNSResourcesStatus if anything changed, and   *)
(* the events, among them the one that makes the parent recompute its own  *)
(* status.                                                                 *)
(***************************************************************************)
SyncStatus ==
    LET n == worker.sns
        new == [requests |-> worker.requests, total |-> worker.total]
    IN  /\ worker.at = "syncStatus"
        /\ \/ /\ Denied(n, RqFlag(n))
              /\ Requeue(n)
              /\ UNCHANGED <<isRq, status>>
           \/ /\ ~Denied(n, RqFlag(n))
              /\ isRq' = IF worker.fresh THEN [isRq EXCEPT ![n] = RqFlag(n)] ELSE isRq
              /\ status' = IF worker.fresh THEN [status EXCEPT ![n] = new] ELSE status
              /\ queue' = queue \cup ParentEvent(n) \cup ChildrenEvents(n)
                                \cup (IF <<isRq', status'>> # <<isRq, status>> THEN {n} ELSE {})
              /\ Finish
        /\ UNCHANGED <<phase, spec, objs, updates, failures, raced>>
-----------------------------------------------------------------------------
(***************************************************************************)
(* A call to the API server fails, or the operator is restarted, which     *)
(* enqueues every Subnamespace again.                                      *)
(***************************************************************************)
Fail ==
    /\ worker.at # "idle"
    /\ failures < MaxFailures
    /\ failures' = failures + 1
    /\ Requeue(worker.sns)
    /\ UNCHANGED <<sns, objs, updates, raced>>

Restart ==
    /\ failures < MaxFailures
    /\ failures' = failures + 1
    /\ Finish
    /\ queue' = {n \in SNSs : Exists(n)}
    /\ UNCHANGED <<sns, objs, updates, raced>>

Work ==
    \/ Setup
    \/ InitNamespace \/ InitQuota \/ InitAnnotate \/ InitCreated
    \/ SyncList \/ SyncQuota \/ SyncStatus
    \/ UpdateQuotaObject

Users ==
    \E n \in SNSs :
        \/ \E q \in Requests[n] : CreateSNS(n, q) \/ UpdateSNS(n, q)
        \/ \E u \in Loads : Consume(n, u)

Next ==
    \/ Users
    \/ \E n \in SNSs : Reconcile(n)
    \/ Work
    \/ Fail
    \/ Restart

(***************************************************************************)
(* The worker runs, and the workqueue is first in first out: an item that  *)
(* waits gets its turn.  Nothing is assumed of users.                      *)
(***************************************************************************)
Fairness ==
    /\ WF_vars(Work)
    /\ \A n \in SNSs : SF_vars(Reconcile(n))

Spec == Init /\ [][Next]_vars /\ Fairness
-----------------------------------------------------------------------------
Phases == {"absent", "None", "Missing", "Created"}
Steps  == {"idle", "setup", "initNamespace", "initQuota", "initUpdate", "initAnnotate", "initCreated",
           "sync", "syncQuota", "syncUpdate", "syncStatus"}

TypeOK ==
    /\ phase \in [SNSs -> Phases]
    /\ spec \in [SNSs -> Quantities]
    /\ isRq \in [SNSs -> {"", "true", "false"}]
    /\ status \in [SNSs -> [requests : [SNSs -> Quantities], total : Quantities]]
    /\ namespaces \subseteq Nodes
    /\ rq \in [Nodes -> Quantities]
    /\ crq \in [Nodes -> Quantities]
    /\ used \in [Nodes -> Nat]
    /\ queue \subseteq SNSs
    /\ worker \in [at : Steps, sns : Nodes, spec : Quantities, fresh : BOOLEAN,
                    requests : [SNSs -> Quantities], total : Quantities, objFresh : BOOLEAN]
    /\ worker.at # "idle" => worker.sns \in SNSs
    /\ updates \in 0..MaxUpdates
    /\ failures \in 0..MaxFailures
    /\ raced \in BOOLEAN

(***************************************************************************)
(* A Subnamespace that says Created has its namespace, and its quota       *)
(* object of the kind its depth and label call for, whatever failed or was *)
(* written in between.                                                     *)
(***************************************************************************)
CreatedHasQuotaObject ==
    \A n \in SNSs : phase[n] = "Created" =>
        /\ n \in namespaces
        /\ HasQuota(n) => SubnamespaceObject(n) # NoObject

(***************************************************************************)
(* The requests of the subnamespaces below n.                              *)
(***************************************************************************)
Allocated(n) == SumFunction([c \in {d \in Children(n) : HasQuota(d)} |-> Hard(spec[c])])

(***************************************************************************)
(* Admission keeps what is promised to the children within the quota of    *)
(* their parent (the checks on create, on increase and on decrease taken   *)
(* together), as long as each request is judged when the ones around it    *)
(* are in force.                                                           *)
(***************************************************************************)
FitsInParentWhenSettled ==
    ~raced => \A n \in Nodes \ Pools :
        n = Root \/ Exists(n) => Allocated(n) <= IF n = Root THEN rq[Root] ELSE Hard(spec[n])

(***************************************************************************)
(* Once users leave it alone, every request is put in force: the quota     *)
(* objects equal the specs, and every status shows the children's present  *)
(* requests (which the child's sync must tell its parent about).           *)
(***************************************************************************)
InForce ==
    \A n \in SNSs : Exists(n) =>
        /\ phase[n] = "Created"
        /\ Settled(n)
        /\ status[n] = [requests |-> ChildrenRequests(n), total |-> spec[n]]

EventuallyInForce == <>[]InForce
=============================================================================
