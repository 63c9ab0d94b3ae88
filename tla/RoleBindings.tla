---------------------------- MODULE RoleBindings ----------------------------
(***************************************************************************)
(* internal/rolebinding and internal/namespace: every RoleBinding of a     *)
(* namespace is copied to its children, by two controllers.  The           *)
(* RoleBinding controller copies a RoleBinding to the children that it     *)
(* finds, and deletes the copies when it is deleted; the namespace         *)
(* controller copies the parent's RoleBindings to a namespace that is new. *)
(* Each namespace also has a view, a ClusterRoleBinding with the subjects  *)
(* of its RoleBindings, and a role annotation (has it children or not)     *)
(* that the deletion webhook goes by.                                      *)
(*                                                                         *)
(* An action is what a worker does up to a write that others can see.  The *)
(* events of a write enqueue at once; late ones are late workers.  Users   *)
(* bind subjects at the root.  Every RoleBinding is one that HNS           *)
(* propagates; there are no ResourcePools and nothing migrates, so the     *)
(* hierarchy labels never change.                                          *)
(***************************************************************************)
EXTENDS Integers, FiniteSets

CONSTANTS
    Nodes,              \* the root namespace and every subnamespace
    Root,
    Parent,             \* [Nodes \ {Root} -> Nodes]
    Names,              \* of RoleBindings
    Subject,            \* [Names -> subjects], one each
    ServiceAccounts,    \* the names whose subject is a ServiceAccount
    MaxOps,             \* bound on what users do
    MaxFailures         \* bound on failed calls, conflicts and restarts of the operator

SNSs     == Nodes \ {Root}
Subjects == {Subject[x] : x \in Names}

ASSUME RoleBindingsAssumption ==
    /\ Root \in Nodes
    /\ Parent \in [SNSs -> Nodes] /\ \A n \in SNSs : Parent[n] # n
    /\ Names # {} /\ DOMAIN Subject = Names /\ ServiceAccounts \subseteq Names
    /\ MaxOps \in Nat /\ MaxFailures \in Nat

VARIABLES
    sns,        \* [SNSs -> ...] the Subnamespaces: absent, new, or created (owned, and with a namespace)
    ns,         \* [Nodes -> ...] the namespaces: absent, active or terminating
    finalizer,  \* the namespaces that have the finalizer of HNS
    role,       \* [SNSs -> ...] the role annotation: leaf or none
    rbs,        \* [Nodes \X Names -> ...] the RoleBindings: absent, new, ready (with a finalizer) or deleting
    hasView,    \* the namespaces whose view exists
    view,       \* [Nodes -> SUBSET Subjects]
    nsQueue, nsWorker,  \* the namespace controller
    rbQueue, rbWorker,  \* the RoleBinding controller
    ops, failures,
    slipped,    \* history: a namespace was deleted with a child its controller had yet to notice
    bare,       \* history: a namespace was deleted before it had a finalizer
    late,       \* history: a namespace was gone while its controller still worked on it
    unsafe,     \* history: a RoleBinding without a finalizer, or on its way out, was copied or seen to
    unseen,     \* history: a subject had no view to be added to
    missed      \* history: a copy was taken for granted (it was being deleted), or an init failed halfway

cluster == <<sns, ns, finalizer, role, rbs, hasView, view>>
bounds  == <<ops, failures>>
history == <<slipped, bare, late, unsafe, unseen, missed>>
nsCtrl  == <<nsQueue, nsWorker>>
rbCtrl  == <<rbQueue, rbWorker>>
vars    == <<sns, ns, finalizer, role, rbs, hasView, view, nsQueue, nsWorker, rbQueue, rbWorker,
             ops, failures, slipped, bare, late, unsafe, unseen, missed>>
-----------------------------------------------------------------------------
Children(n) == {c \in SNSs : Parent[c] = n /\ sns[c] # "absent"}

NSIdle == [at |-> "idle", n |-> Root, todo |-> {}]
RBIdle == [at |-> "idle", rb |-> <<Root, CHOOSE x \in Names : TRUE>>, todo |-> {}]

\* Some subnamespaces are there, and some names are bound in all of them.
Start(there, bound) ==
    /\ \A n \in there : Parent[n] \in there \cup {Root}
    /\ sns = [n \in SNSs |-> IF n \in there THEN "created" ELSE "absent"]
    /\ ns = [n \in Nodes |-> IF n \in there \cup {Root} THEN "active" ELSE "absent"]
    /\ finalizer = there
    /\ role = [n \in SNSs |-> IF \E c \in there : Parent[c] = n THEN "none" ELSE "leaf"]
    /\ rbs = [b \in Nodes \X Names |->
                 IF b[1] \in there \cup {Root} /\ b[2] \in bound THEN "ready" ELSE "absent"]
    /\ hasView = there
    /\ view = [n \in Nodes |-> IF n \in there THEN {Subject[x] : x \in bound \ ServiceAccounts} ELSE {}]
    /\ nsQueue = {} /\ nsWorker = NSIdle
    /\ rbQueue = {} /\ rbWorker = RBIdle
    /\ ops = 0 /\ failures = 0
    /\ slipped = FALSE /\ bare = FALSE /\ late = FALSE /\ unsafe = FALSE /\ unseen = FALSE /\ missed = FALSE

Init == \E there \in SUBSET SNSs, bound \in SUBSET Names : Start(there, bound)
-----------------------------------------------------------------------------
(***************************************************************************)
(* Users, and the webhooks that answer them.                               *)
(***************************************************************************)
UserOp == ops < MaxOps /\ ops' = ops + 1

CreateRB(x) ==
    /\ UserOp
    /\ rbs[<<Root, x>>] = "absent"
    /\ rbs' = [rbs EXCEPT ![<<Root, x>>] = "new"]
    /\ rbQueue' = rbQueue \cup {<<Root, x>>}
    /\ UNCHANGED <<sns, ns, finalizer, role, hasView, view, nsCtrl, rbWorker, failures, history>>

ValidateParentRoleBinding(n, x) == n # Root => rbs[<<Parent[n], x>>] \in {"absent", "deleting"}

DeleteRBAllowed(n, x) == ns[n] = "terminating" \/ ValidateParentRoleBinding(n, x)

\* An object with a finalizer stays until its controller is done with it.
Deleted(state) == IF state = "new" THEN "absent" ELSE IF state = "ready" THEN "deleting" ELSE state

DeleteRB(n, x) ==
    /\ UserOp
    /\ rbs[<<n, x>>] \in {"new", "ready"}
    /\ DeleteRBAllowed(n, x)
    /\ rbs' = [rbs EXCEPT ![<<n, x>>] = Deleted(@)]
    /\ rbQueue' = rbQueue \cup {<<n, x>>}
    /\ UNCHANGED <<sns, ns, finalizer, role, hasView, view, nsCtrl, rbWorker, failures, history>>

CreateSNS(n) ==
    /\ UserOp
    /\ sns[n] = "absent" /\ ns[n] = "absent" /\ ns[Parent[n]] = "active"
    /\ sns' = [sns EXCEPT ![n] = "new"]
    /\ UNCHANGED <<ns, finalizer, role, rbs, hasView, view, nsCtrl, rbCtrl, failures, history>>

\* Fault: the role does not matter.
AnyRole(n) == TRUE

ValidateNamespaceRole(n) == role[n] = "leaf"

\* The namespace controller has yet to see that n has a child.
Unnoticed(n) ==
    Children(n) # {} /\ (n \in nsQueue \/ nsWorker.n = n \/ \E c \in Children(n) : sns[c] = "new")

DeleteNamespace(n) ==
    /\ UserOp
    /\ ns[n] = "active"
    /\ ValidateNamespaceRole(n)
    /\ ns' = [ns EXCEPT ![n] = "terminating"]
    /\ nsQueue' = nsQueue \cup {n}
    /\ slipped' = (slipped \/ Unnoticed(n))
    /\ bare' = (bare \/ n \notin finalizer)
    /\ UNCHANGED <<sns, finalizer, role, rbs, hasView, view, nsWorker, rbCtrl, failures,
                   late, unsafe, unseen, missed>>
-----------------------------------------------------------------------------
(***************************************************************************)
(* The subnamespace controller, in short: setup makes the parent namespace *)
(* the owner of the Subnamespace, whose events now enqueue it; init        *)
(* creates the namespace.                                                  *)
(***************************************************************************)
\* Fault: the root namespace is reconciled too.
AnyParentNS(n) == {Parent[n]}

ParentNS(n) == {Parent[n]} \ {Root}

CreateNamespace(n) ==
    /\ sns[n] = "new"
    /\ sns' = [sns EXCEPT ![n] = "created"]
    /\ ns' = [ns EXCEPT ![n] = "active"]
    /\ role' = [role EXCEPT ![n] = "leaf"]
    /\ nsQueue' = nsQueue \cup {n} \cup ParentNS(n)
    /\ UNCHANGED <<finalizer, rbs, hasView, view, nsWorker, rbCtrl, bounds, history>>

(***************************************************************************)
(* The cluster empties a namespace that is terminating, and removes it     *)
(* when nothing is left in it and it has no finalizer.                     *)
(***************************************************************************)
Contents(n) == {b \in Nodes \X Names : b[1] = n /\ rbs[b] # "absent"}

DeleteContents(n) ==
    /\ ns[n] = "terminating"
    /\ Children(n) # {} \/ \E b \in Contents(n) : rbs[b] # "deleting"
    /\ rbs' = [b \in Nodes \X Names |-> IF b[1] = n THEN Deleted(rbs[b]) ELSE rbs[b]]
    /\ rbQueue' = rbQueue \cup Contents(n)
    /\ sns' = [c \in SNSs |-> IF c \in Children(n) THEN "absent" ELSE sns[c]]
    /\ nsQueue' = nsQueue \cup {n}
    /\ UNCHANGED <<ns, finalizer, role, hasView, view, nsWorker, rbWorker, bounds, history>>

RemoveNamespace(n) ==
    /\ ns[n] = "terminating"
    /\ n \notin finalizer /\ Children(n) = {} /\ Contents(n) = {}
    /\ ns' = [ns EXCEPT ![n] = "absent"]
    /\ late' = (late \/ nsWorker.n = n)
    /\ UNCHANGED <<sns, finalizer, role, rbs, hasView, view, nsCtrl, rbCtrl, bounds, slipped, bare, unsafe, unseen, missed>>
-----------------------------------------------------------------------------
(***************************************************************************)
(* Somebody wrote the object since it was read: the conflict is swallowed, *)
(* and the event of that write enqueues the object.                        *)
(***************************************************************************)
Conflict == failures < MaxFailures /\ failures' = failures + 1

RBStep(at)   == rbWorker' = [rbWorker EXCEPT !.at = at]
RBDone(c)    == rbWorker' = [rbWorker EXCEPT !.todo = @ \ {c}]
RBEnd        == rbWorker' = RBIdle /\ UNCHANGED rbQueue
RBRequeue    == rbWorker' = RBIdle /\ rbQueue' = rbQueue \cup {rbWorker.rb}

\* The RoleBinding controller lists the children once, at the start of a pass.
ReconcileRB(b) ==
    /\ rbWorker.at = "idle"
    /\ b \in rbQueue
    /\ rbQueue' = rbQueue \ {b}
    /\ rbWorker' = IF rbs[b] = "absent" THEN RBIdle
                   ELSE [rb |-> b, todo |-> Children(b[1]),
                         at |-> CASE rbs[b] = "deleting" -> "deleteSubjects"
                                  [] rbs[b] = "new"      -> "finalizer"
                                  [] rbs[b] = "ready"    -> "copy"]
    /\ UNCHANGED <<cluster, nsCtrl, bounds, history>>

AddRBFinalizer ==
    LET b == rbWorker.rb
    IN  /\ rbWorker.at = "finalizer"
        /\ \/ /\ rbs[b] = "new"
              /\ rbs' = [rbs EXCEPT ![b] = "ready"]
              /\ rbQueue' = rbQueue \cup {b}
              /\ RBStep("copy")
              /\ UNCHANGED failures
           \/ /\ rbs[b] # "absent"
              /\ Conflict
              /\ rbQueue' = rbQueue \cup {b}
              /\ RBStep("copy")
              /\ UNCHANGED rbs
           \/ /\ rbs[b] = "absent"
              /\ RBRequeue
              /\ UNCHANGED <<rbs, failures>>
        /\ UNCHANGED <<sns, ns, finalizer, role, hasView, view, nsCtrl, ops, history>>

\* EnsureCreate in the child c, from the RoleBinding b: one that is there is taken for the copy.
Copy(b, c) ==
    /\ rbs' = [rbs EXCEPT ![<<c, b[2]>>] = IF @ = "absent" THEN "new" ELSE @]
    /\ rbQueue' = rbQueue \cup IF rbs[<<c, b[2]>>] = "absent" THEN {<<c, b[2]>>} ELSE {}
    /\ unsafe' = (unsafe \/ (rbs[<<c, b[2]>>] = "absent" /\ rbs[b] # "ready"))
    /\ missed' = (missed \/ rbs[<<c, b[2]>>] = "deleting")

CreateRoleBinding(c) ==
    LET b == rbWorker.rb
    IN  /\ rbWorker.at = "copy"
        /\ c \in rbWorker.todo
        /\ \/ /\ ns[c] = "active" \/ rbs[<<c, b[2]>>] # "absent"
              /\ Copy(b, c)
              /\ RBDone(c)
           \/ /\ ns[c] # "active" /\ rbs[<<c, b[2]>>] = "absent"
              /\ RBRequeue
              /\ UNCHANGED <<rbs, unsafe, missed>>
        /\ UNCHANGED <<sns, ns, finalizer, role, hasView, view, nsCtrl, bounds, slipped, bare, late, unseen>>

\* UpdateObject of a view that is absent does nothing.  The root has none.
AddSubjectsToHNSView ==
    LET n == rbWorker.rb[1]
        x == rbWorker.rb[2]
        skip == x \in ServiceAccounts
    IN  /\ rbWorker.at = "copy" /\ rbWorker.todo = {}
        /\ view' = IF skip \/ n \notin hasView THEN view ELSE [view EXCEPT ![n] = @ \cup {Subject[x]}]
        /\ unseen' = (unseen \/ (~skip /\ n \notin hasView \cup {Root}))
        /\ unsafe' = (unsafe \/ rbs[<<n, x>>] \in {"absent", "new"})
        /\ RBEnd
        /\ UNCHANGED <<sns, ns, finalizer, role, rbs, hasView, nsCtrl, bounds, slipped, bare, late, missed>>

\* Fault: the subject stays in the view.
SubjectsStay ==
    /\ rbWorker.at = "deleteSubjects"
    /\ RBStep("delete")
    /\ UNCHANGED <<cluster, nsCtrl, rbQueue, bounds, history>>

DeleteSubjectsFromHNSView ==
    LET n == rbWorker.rb[1]
        x == rbWorker.rb[2]
    IN  /\ rbWorker.at = "deleteSubjects"
        /\ view' = IF x \in ServiceAccounts THEN view ELSE [view EXCEPT ![n] = @ \ {Subject[x]}]
        /\ RBStep("delete")
        /\ UNCHANGED <<sns, ns, finalizer, role, rbs, hasView, nsCtrl, rbQueue, bounds, history>>

DeleteRoleBinding(c) ==
    LET b == <<c, rbWorker.rb[2]>>
    IN  /\ rbWorker.at = "delete"
        /\ c \in rbWorker.todo
        /\ DeleteRBAllowed(c, b[2])
        /\ rbs' = [rbs EXCEPT ![b] = Deleted(@)]
        /\ rbQueue' = rbQueue \cup IF rbs[b] = "absent" THEN {} ELSE {b}
        /\ RBDone(c)
        /\ UNCHANGED <<sns, ns, finalizer, role, hasView, view, nsCtrl, bounds, history>>

\* Fault: the finalizer is removed before the copies are deleted.
DeleteRBFinalizerEarly ==
    /\ rbWorker.at = "delete"
    /\ rbs' = [rbs EXCEPT ![rbWorker.rb] = "absent"]
    /\ RBEnd
    /\ UNCHANGED <<sns, ns, finalizer, role, hasView, view, nsCtrl, bounds, history>>

DeleteRBFinalizer ==
    /\ rbWorker.at = "delete" /\ rbWorker.todo = {}
    /\ \/ rbs' = [rbs EXCEPT ![rbWorker.rb] = "absent"] /\ RBEnd /\ UNCHANGED failures
       \/ Conflict /\ RBRequeue /\ UNCHANGED rbs
    /\ UNCHANGED <<sns, ns, finalizer, role, hasView, view, nsCtrl, ops, history>>
-----------------------------------------------------------------------------
NSStep(at)   == nsWorker' = [nsWorker EXCEPT !.at = at]
NSEnd        == nsWorker' = NSIdle /\ UNCHANGED nsQueue
NSRequeue    == nsWorker' = NSIdle /\ nsQueue' = nsQueue \cup {nsWorker.n}

\* The namespace controller.  The finalizer tells a namespace that is new from one to sync.
ReconcileNS(n) ==
    /\ nsWorker.at = "idle"
    /\ n \in nsQueue
    /\ nsQueue' = nsQueue \ {n}
    /\ nsWorker' = IF ns[n] = "absent" THEN NSIdle
                   ELSE [n |-> n, todo |-> {},
                         at |-> CASE ns[n] = "terminating"  -> "deleteSNS"
                                  [] ns[n] = "active" /\ n \notin finalizer -> "finalizer"
                                  [] ns[n] = "active" /\ n \in finalizer    -> "sync"]
    /\ UNCHANGED <<cluster, rbCtrl, bounds, history>>

\* A deletion in the meantime is a conflict too.
AddNSFinalizer ==
    LET n == nsWorker.n
    IN  /\ nsWorker.at = "finalizer"
        /\ \/ /\ ns[n] = "active"
              /\ finalizer' = finalizer \cup {n}
              /\ nsQueue' = nsQueue \cup {n}
              /\ NSStep("view")
              /\ UNCHANGED failures
           \/ /\ \/ ns[n] = "active" /\ Conflict
                 \/ ns[n] = "terminating" /\ UNCHANGED failures
              /\ nsQueue' = nsQueue \cup {n}
              /\ NSStep("view")
              /\ UNCHANGED finalizer
           \/ /\ ns[n] = "absent"
              /\ NSRequeue
              /\ UNCHANGED <<finalizer, failures>>
        /\ UNCHANGED <<sns, ns, role, rbs, hasView, view, rbCtrl, ops, history>>

CreateHNSView ==
    /\ nsWorker.at \in {"view", "sync"}
    /\ hasView' = hasView \cup {nsWorker.n}
    /\ NSStep(IF nsWorker.at = "view" THEN "list" ELSE "role")
    /\ UNCHANGED <<sns, ns, finalizer, role, rbs, view, nsQueue, rbCtrl, bounds, history>>

\* Fault: nothing is copied to a new namespace.
ListNothing ==
    /\ nsWorker.at = "list"
    /\ NSEnd
    /\ UNCHANGED <<cluster, rbCtrl, bounds, history>>

ListParentRoleBindings ==
    LET found == {x \in Names : rbs[<<Parent[nsWorker.n], x>>] # "absent"}
    IN  /\ nsWorker.at = "list"
        /\ nsWorker' = IF found = {} THEN NSIdle ELSE [nsWorker EXCEPT !.at = "copy", !.todo = found]
        /\ UNCHANGED <<cluster, nsQueue, rbCtrl, bounds, history>>

CreateParentRoleBindingInNS(x) ==
    LET n == nsWorker.n
    IN  /\ nsWorker.at = "copy"
        /\ x \in nsWorker.todo
        /\ \/ /\ ns[n] = "active"
              /\ Copy(<<Parent[n], x>>, n)
              /\ nsWorker' = IF nsWorker.todo = {x} THEN NSIdle ELSE [nsWorker EXCEPT !.todo = @ \ {x}]
              /\ UNCHANGED nsQueue
           \/ /\ ns[n] # "active"
              /\ NSRequeue
              /\ UNCHANGED <<rbs, rbQueue, unsafe, missed>>
        /\ UNCHANGED <<sns, ns, finalizer, role, hasView, view, rbWorker, bounds, slipped, bare, late, unseen>>

UpdateNSRole ==
    LET n == nsWorker.n
        new == IF Children(n) = {} THEN "leaf" ELSE "none"
    IN  /\ nsWorker.at = "role"
        /\ \/ /\ ns[n] = "active"
              /\ role' = [role EXCEPT ![n] = new]
              /\ nsQueue' = nsQueue \cup IF role[n] = new THEN {} ELSE {n}
              /\ nsWorker' = NSIdle
              /\ UNCHANGED failures
           \/ /\ \/ ns[n] = "active" /\ Conflict
                 \/ ns[n] # "active" /\ UNCHANGED failures
              /\ NSRequeue
              /\ UNCHANGED role
        /\ UNCHANGED <<sns, ns, finalizer, rbs, hasView, view, rbCtrl, ops, history>>

\* Fault: the parent is not enqueued.
DeleteSNSUnnoticed ==
    /\ nsWorker.at = "deleteSNS"
    /\ sns' = [sns EXCEPT ![nsWorker.n] = "absent"]
    /\ NSStep("deleteView")
    /\ UNCHANGED <<ns, finalizer, role, rbs, hasView, view, nsQueue, rbCtrl, bounds, history>>

\* cleanUp.  The DB and the quota object, which come first, are in NamespaceDB.
DeleteSNSFromParentNS ==
    LET n == nsWorker.n
    IN  /\ nsWorker.at = "deleteSNS"
        /\ sns' = [sns EXCEPT ![n] = "absent"]
        /\ nsQueue' = nsQueue \cup IF sns[n] = "absent" THEN {} ELSE ParentNS(n)
        /\ NSStep("deleteView")
        /\ UNCHANGED <<ns, finalizer, role, rbs, hasView, view, rbCtrl, bounds, history>>

\* Fault: the view is left behind.
ViewStays ==
    /\ nsWorker.at = "deleteView"
    /\ NSStep("drop")
    /\ UNCHANGED <<cluster, nsQueue, rbCtrl, bounds, history>>

DeleteNSHnsView ==
    /\ nsWorker.at = "deleteView"
    /\ hasView' = hasView \ {nsWorker.n}
    /\ view' = [view EXCEPT ![nsWorker.n] = {}]
    /\ NSStep("drop")
    /\ UNCHANGED <<sns, ns, finalizer, role, rbs, nsQueue, rbCtrl, bounds, history>>

\* Fault: a conflict ends it.
DeleteNSFinalizerOnce ==
    /\ nsWorker.at = "drop"
    /\ \/ finalizer' = finalizer \ {nsWorker.n} /\ UNCHANGED failures
       \/ Conflict /\ UNCHANGED finalizer
    /\ NSEnd
    /\ UNCHANGED <<sns, ns, role, rbs, hasView, view, rbCtrl, ops, history>>

DeleteNSFinalizer ==
    /\ nsWorker.at = "drop"
    /\ \/ finalizer' = finalizer \ {nsWorker.n} /\ UNCHANGED failures
       \/ Conflict /\ UNCHANGED finalizer
    /\ NSRequeue
    /\ UNCHANGED <<sns, ns, role, rbs, hasView, view, rbCtrl, ops, history>>
-----------------------------------------------------------------------------
\* A call fails: the pass ends and its object is taken up again.
Fail ==
    /\ failures < MaxFailures
    /\ failures' = failures + 1
    /\ \/ rbWorker.at # "idle" /\ RBRequeue /\ UNCHANGED <<nsCtrl, missed>>
       \/ /\ nsWorker.at # "idle"
          /\ NSRequeue
          /\ missed' = (missed \/ nsWorker.at \in {"view", "list", "copy"})
          /\ UNCHANGED rbCtrl
    /\ UNCHANGED <<cluster, ops, slipped, bare, late, unsafe, unseen>>

\* The operator restarts: every object is enqueued, which repairs what was missed.
Restart ==
    /\ failures < MaxFailures
    /\ failures' = failures + 1
    /\ nsWorker' = NSIdle
    /\ rbWorker' = RBIdle
    /\ nsQueue' = {n \in SNSs : ns[n] # "absent"}
    /\ rbQueue' = {b \in Nodes \X Names : rbs[b] # "absent"}
    /\ missed' = FALSE
    /\ UNCHANGED <<cluster, ops, slipped, bare, late, unsafe, unseen>>

NSWork ==
    \/ AddNSFinalizer \/ CreateHNSView \/ ListParentRoleBindings
    \/ \E x \in Names : CreateParentRoleBindingInNS(x)
    \/ UpdateNSRole \/ DeleteSNSFromParentNS \/ DeleteNSHnsView \/ DeleteNSFinalizer

RBWork ==
    \/ AddRBFinalizer \/ AddSubjectsToHNSView \/ DeleteSubjectsFromHNSView \/ DeleteRBFinalizer
    \/ \E c \in SNSs : CreateRoleBinding(c) \/ DeleteRoleBinding(c)

Cluster == \E n \in SNSs : CreateNamespace(n) \/ DeleteContents(n) \/ RemoveNamespace(n)

Next ==
    \/ \E x \in Names : CreateRB(x) \/ \E n \in Nodes : DeleteRB(n, x)
    \/ \E n \in SNSs : CreateSNS(n) \/ DeleteNamespace(n) \/ ReconcileNS(n)
    \/ \E b \in Nodes \X Names : ReconcileRB(b)
    \/ NSWork \/ RBWork \/ Cluster
    \/ Fail \/ Restart

(***************************************************************************)
(* The workers run, a queued object gets its turn although others (and     *)
(* itself) come back again and again, and the cluster does its part.       *)
(* Nothing is assumed of users.                                            *)
(***************************************************************************)
Fairness ==
    /\ WF_vars(NSWork) /\ WF_vars(RBWork) /\ WF_vars(Cluster)
    /\ \A n \in SNSs : SF_vars(ReconcileNS(n))
    /\ \A b \in Nodes \X Names : SF_vars(ReconcileRB(b))

Spec == Init /\ [][Next]_vars /\ Fairness
-----------------------------------------------------------------------------
NSWorkers == [at : {"idle", "finalizer", "view", "list", "copy", "sync", "role",
                    "deleteSNS", "deleteView", "drop"},
              n : Nodes, todo : SUBSET Names]
RBWorkers == [at : {"idle", "finalizer", "copy", "deleteSubjects", "delete"},
              rb : Nodes \X Names, todo : SUBSET SNSs]

TypeOK ==
    /\ sns \in [SNSs -> {"absent", "new", "created"}]
    /\ ns \in [Nodes -> {"absent", "active", "terminating"}]
    /\ finalizer \subseteq SNSs
    /\ role \in [SNSs -> {"leaf", "none"}]
    /\ rbs \in [Nodes \X Names -> {"absent", "new", "ready", "deleting"}]
    /\ hasView \subseteq SNSs
    /\ view \in [Nodes -> SUBSET Subjects]
    /\ nsQueue \subseteq SNSs
    /\ rbQueue \subseteq Nodes \X Names
    /\ nsWorker \in NSWorkers
    /\ nsWorker.at # "idle" => nsWorker.n \in SNSs
    /\ rbWorker \in RBWorkers
    /\ ops \in 0..MaxOps /\ failures \in 0..MaxFailures
    /\ slipped \in BOOLEAN /\ bare \in BOOLEAN /\ late \in BOOLEAN /\ unsafe \in BOOLEAN /\ unseen \in BOOLEAN /\ missed \in BOOLEAN

Settled ==
    /\ nsQueue = {} /\ rbQueue = {} /\ nsWorker = NSIdle /\ rbWorker = RBIdle
    /\ \A n \in SNSs : sns[n] # "new" /\ ns[n] # "terminating"

(***************************************************************************)
(* The deletion webhook goes by an annotation.  Still, no namespace is     *)
(* deleted over the head of its children, unless the namespace controller  *)
(* has yet to see that it has one, or a cleanUp that outlived its          *)
(* namespace meets the next one of that name, and deletes its              *)
(* Subnamespace.                                                           *)
(***************************************************************************)
NoOrphanNamespaces ==
    ~slipped /\ ~late => \A n \in SNSs : ns[n] = "active" /\ Parent[n] # Root => ns[Parent[n]] = "active"

(***************************************************************************)
(* Once all is quiet no namespace has a RoleBinding that its parent no     *)
(* longer has, although the children are listed only once and come and go  *)
(* meanwhile; unless one was copied that had no finalizer or was being     *)
(* deleted, or a child had lost its Subnamespace, either with its parent   *)
(* namespace or to a cleanUp that outlived the namespace before it.        *)
(***************************************************************************)
NoOrphanRoleBindings ==
    Settled /\ ~unsafe /\ ~slipped /\ ~late => \A n \in SNSs, x \in Names :
        rbs[<<n, x>>] # "absent" => rbs[<<Parent[n], x>>] # "absent"

(***************************************************************************)
(* Once all is quiet the view of a namespace has the subjects of its       *)
(* RoleBindings and no others, if it was there to be written and not       *)
(* deleted by a cleanUp that outlived the namespace before.  Two           *)
(* RoleBindings with the same subject are another matter: with the one,    *)
(* the subject goes that the other still has.                              *)
(***************************************************************************)
ViewIsRight ==
    (\A x, y \in Names : Subject[x] = Subject[y] => x = y) /\ Settled /\ ~unsafe /\ ~unseen /\ ~late => \A n \in hasView :
        view[n] = {Subject[x] : x \in {y \in Names \ ServiceAccounts : rbs[<<n, y>>] # "absent"}}

(***************************************************************************)
(* cleanUp leaves nothing behind: a namespace that is gone has no          *)
(* Subnamespace and no view, if it had a finalizer to wait for cleanUp and *)
(* no pass went on after it was gone.                                      *)
(***************************************************************************)
CleanUpIsComplete ==
    Settled /\ ~bare /\ ~late => \A n \in SNSs : ns[n] = "absent" => sns[n] = "absent" /\ n \notin hasView

(***************************************************************************)
(* createParentRoleBindingsInNS: "This ensures that if a user has          *)
(* permissions on the parent of a namespace then the user would also have  *)
(* permissions on the child namespace."  Once all is quiet every           *)
(* RoleBinding is in every child, whether the RoleBinding controller or    *)
(* the namespace controller came first; unless the one took a copy that    *)
(* was being deleted for granted, the other failed halfway, or the child   *)
(* had lost its Subnamespace.                                              *)
(***************************************************************************)
CopiedToChildren ==
    Settled /\ ~missed /\ ~slipped /\ ~late => \A n \in SNSs, x \in Names :
        ns[n] = "active" /\ rbs[<<Parent[n], x>>] # "absent" => rbs[<<n, x>>] # "absent"

(***************************************************************************)
(* Once all is quiet the role annotation says whether there are children,  *)
(* whatever order they came, went and were noticed in.                     *)
(***************************************************************************)
RoleFollowsChildren ==
    Settled => \A n \in SNSs : ns[n] = "active" => (role[n] = "leaf") = (Children(n) = {})

(***************************************************************************)
(* Once the users are done all becomes quiet: the controllers do not keep  *)
(* each other busy, and a namespace that is terminating goes, with all     *)
(* that is in it.  Unless one was deleted before it had a finalizer: its   *)
(* Subnamespace may stay, and copying to it fails over and over.           *)
(***************************************************************************)
Settles == <>[](bare \/ Settled)
=============================================================================
