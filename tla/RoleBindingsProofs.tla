------------------------- MODULE RoleBindingsProofs -------------------------
(***************************************************************************)
(* Proofs about RoleBindings, for any hierarchy, any RoleBindings and any  *)
(* number of operations and failures.                                      *)
(*                                                                         *)
(* No namespace is deleted over the head of its children, although the     *)
(* webhook goes by an annotation that lags behind.  The argument: as long  *)
(* as a leaf annotation is wrong, its namespace is in the queue of its     *)
(* controller, under way in its worker, or about to be enqueued by the     *)
(* creation of the child (Noticed); and the worker drops a namespace that  *)
(* it did not sync only after an event enqueued it again (Enqueued).       *)
(***************************************************************************)
EXTENDS RoleBindings, TLAPS

NSStates == {"absent", "active", "terminating"}

\* A Subnamespace is in an active namespace.
InActive == \A n \in SNSs : sns[n] # "absent" /\ Parent[n] # Root => ns[Parent[n]] = "active"

\* An active namespace has its Subnamespace, one that is to be created has none yet.
HasSNS == \A n \in SNSs : /\ ns[n] = "active" => sns[n] = "created"
                          /\ sns[n] = "new" => ns[n] = "absent"

Noticed == \A n \in SNSs : ns[n] = "active" /\ role[n] = "leaf" /\ Children(n) # {} => Unnoticed(n)

CleansUp == nsWorker.at \in {"deleteSNS", "deleteView", "drop"} => ns[nsWorker.n] = "terminating"

\* The worker forgets what it is done with, and what it has yet to sync is enqueued.
Enqueued ==
    /\ nsWorker.at = "idle" => nsWorker.n = Root
    /\ nsWorker.at \in {"view", "list", "copy"} => nsWorker.n \in nsQueue

Safe == InActive /\ HasSNS /\ Noticed /\ CleansUp

Guarded == ~slipped /\ ~late => Safe

IInv == TypeOK /\ Enqueued /\ Guarded
-----------------------------------------------------------------------------
(***************************************************************************)
(* What the constants give: the parents are namespaces, and the idle       *)
(* workers have their type.                                                *)
(***************************************************************************)
LEMMA ConstantTypes ==
    /\ Root \in Nodes
    /\ SNSs \subseteq Nodes
    /\ \A n \in SNSs : Parent[n] \in Nodes /\ ParentNS(n) \subseteq SNSs
    /\ \A n : Children(n) \subseteq SNSs
    /\ \A x \in Names : Subject[x] \in Subjects
    /\ NSIdle \in NSWorkers /\ NSIdle.at = "idle" /\ NSIdle.n = Root
    /\ RBIdle \in RBWorkers
  <1>1. (CHOOSE x \in Names : TRUE) \in Names
    BY RoleBindingsAssumption
  <1>2. RBIdle \in RBWorkers
    BY <1>1, RoleBindingsAssumption DEF RBIdle, RBWorkers
  <1>3. QED
    BY <1>2, RoleBindingsAssumption DEF SNSs, ParentNS, Children, Subjects, NSIdle, NSWorkers

(***************************************************************************)
(* The initial states have their type.                                     *)
(***************************************************************************)
LEMMA InitType == Init => TypeOK
  <1> SUFFICES ASSUME Init PROVE TypeOK
    OBVIOUS
  <1>1. PICK there \in SUBSET SNSs, bound \in SUBSET Names : Start(there, bound)
    BY DEF Init
  <1>2. {Subject[x] : x \in bound \ ServiceAccounts} \subseteq Subjects
    BY DEF Subjects
  <1>3. /\ sns \in [SNSs -> {"absent", "new", "created"}]
        /\ ns \in [Nodes -> NSStates]
        /\ finalizer \subseteq SNSs /\ hasView \subseteq SNSs
        /\ role \in [SNSs -> {"leaf", "none"}]
        /\ rbs \in [Nodes \X Names -> {"absent", "new", "ready", "deleting"}]
    <2>1. rbs \in [Nodes \X Names -> {"absent", "new", "ready", "deleting"}]
      BY <1>1 DEF Start
    <2>2. QED
      BY <1>1, <2>1 DEF Start, NSStates
  <1>4. view \in [Nodes -> SUBSET Subjects]
    <2> DEFINE bindings == {Subject[x] : x \in bound \ ServiceAccounts}
    <2>1. bindings \in SUBSET Subjects
      BY <1>2
    <2> HIDE DEF bindings
    <2>2. view = [n \in Nodes |-> IF n \in there THEN bindings ELSE {}]
      BY <1>1, Zenon DEF Start, bindings
    <2>3. QED
      BY <2>1, <2>2
  <1>5. /\ nsQueue = {} /\ nsWorker = NSIdle /\ rbQueue = {} /\ rbWorker = RBIdle
        /\ ops = 0 /\ failures = 0
        /\ slipped = FALSE /\ bare = FALSE /\ late = FALSE /\ unsafe = FALSE /\ unseen = FALSE /\ missed = FALSE
    BY <1>1 DEF Start
  <1>6. /\ nsQueue \subseteq SNSs /\ rbQueue \subseteq Nodes \X Names
        /\ nsWorker \in NSWorkers /\ rbWorker \in RBWorkers /\ nsWorker.at = "idle"
        /\ ops \in 0..MaxOps /\ failures \in 0..MaxFailures
    BY <1>5, ConstantTypes, RoleBindingsAssumption
  <1>7. /\ slipped \in BOOLEAN /\ bare \in BOOLEAN /\ late \in BOOLEAN
        /\ unsafe \in BOOLEAN /\ unseen \in BOOLEAN /\ missed \in BOOLEAN
    BY <1>5
  <1>8. QED
    BY <1>3, <1>4, <1>6, <1>7 DEF TypeOK, NSStates

(***************************************************************************)
(* Users and the cluster keep the types.                                   *)
(***************************************************************************)
LEMMA UserType ==
    ASSUME TypeOK,
           \/ \E x \in Names : CreateRB(x) \/ \E n \in Nodes : DeleteRB(n, x)
           \/ \E n \in SNSs : CreateSNS(n) \/ DeleteNamespace(n)
           \/ Cluster
    PROVE  TypeOK'
  <1> USE ConstantTypes, RoleBindingsAssumption DEF TypeOK, NSWorkers, RBWorkers
  <1>1. ASSUME NEW x \in Names, CreateRB(x) PROVE TypeOK'
    BY <1>1 DEF CreateRB, UserOp, nsCtrl, history
  <1>2. ASSUME NEW x \in Names, NEW n \in Nodes, DeleteRB(n, x) PROVE TypeOK'
    BY <1>2 DEF DeleteRB, UserOp, Deleted, nsCtrl, history
  <1>3. ASSUME NEW n \in SNSs, CreateSNS(n) PROVE TypeOK'
    BY <1>3 DEF CreateSNS, UserOp, nsCtrl, rbCtrl, history
  <1>4. ASSUME NEW n \in SNSs, DeleteNamespace(n) PROVE TypeOK'
    BY <1>4 DEF DeleteNamespace, UserOp, Unnoticed, rbCtrl
  <1>5. ASSUME NEW n \in SNSs, CreateNamespace(n) PROVE TypeOK'
    BY <1>5 DEF CreateNamespace, rbCtrl, bounds, history
  <1>6. ASSUME NEW n \in SNSs, DeleteContents(n) PROVE TypeOK'
    BY <1>6 DEF DeleteContents, Contents, Deleted, bounds, history
  <1>7. ASSUME NEW n \in SNSs, RemoveNamespace(n) PROVE TypeOK'
    BY <1>7 DEF RemoveNamespace, nsCtrl, rbCtrl, bounds
  <1>8. QED
    BY <1>1, <1>2, <1>3, <1>4, <1>5, <1>6, <1>7 DEF Cluster

(***************************************************************************)
(* The RoleBinding controller keeps the types.                             *)
(***************************************************************************)
LEMMA RBType ==
    ASSUME TypeOK, RBWork \/ \E b \in Nodes \X Names : ReconcileRB(b)
    PROVE  TypeOK'
  <1> USE ConstantTypes, RoleBindingsAssumption DEF TypeOK
  <1>0. /\ rbWorker \in RBWorkers
        /\ rbWorker.rb \in Nodes \X Names /\ rbWorker.todo \subseteq SNSs
        /\ rbWorker.rb[1] \in Nodes /\ rbWorker.rb[2] \in Names
    BY DEF RBWorkers
  <1>1. ASSUME NEW b \in Nodes \X Names, ReconcileRB(b) PROVE TypeOK'
    BY <1>1 DEF ReconcileRB, RBWorkers, cluster, nsCtrl, bounds, history
  <1>2. ASSUME AddRBFinalizer PROVE TypeOK'
    BY <1>0, <1>2 DEF AddRBFinalizer, Conflict, RBStep, RBRequeue, RBWorkers, nsCtrl, history
  <1>3. ASSUME NEW c \in SNSs, CreateRoleBinding(c) PROVE TypeOK'
    <2>1. <<c, rbWorker.rb[2]>> \in Nodes \X Names
      BY <1>0
    <2>2. unsafe' \in BOOLEAN /\ missed' \in BOOLEAN
      BY <1>3, Zenon DEF CreateRoleBinding, Copy
    <2>3. QED
      BY <1>0, <1>3, <2>1, <2>2 DEF CreateRoleBinding, Copy, RBDone, RBRequeue, RBWorkers, nsCtrl, bounds
  <1>4. ASSUME AddSubjectsToHNSView PROVE TypeOK'
    BY <1>0, <1>4 DEF AddSubjectsToHNSView, RBEnd, nsCtrl, bounds
  <1>5. ASSUME DeleteSubjectsFromHNSView PROVE TypeOK'
    BY <1>0, <1>5 DEF DeleteSubjectsFromHNSView, RBStep, RBWorkers, nsCtrl, bounds, history
  <1>6. ASSUME NEW c \in SNSs, DeleteRoleBinding(c) PROVE TypeOK'
    <2>1. <<c, rbWorker.rb[2]>> \in Nodes \X Names
      BY <1>0
    <2>2. QED
      BY <1>0, <1>6, <2>1 DEF DeleteRoleBinding, Deleted, RBDone, RBWorkers, nsCtrl, bounds, history
  <1>7. ASSUME DeleteRBFinalizer PROVE TypeOK'
    BY <1>0, <1>7 DEF DeleteRBFinalizer, Conflict, RBEnd, RBRequeue, nsCtrl, history
  <1>8. QED
    BY <1>1, <1>2, <1>3, <1>4, <1>5, <1>6, <1>7 DEF RBWork

(***************************************************************************)
(* The namespace controller keeps the types.                               *)
(***************************************************************************)
LEMMA NSType ==
    ASSUME TypeOK, NSWork \/ \E n \in SNSs : ReconcileNS(n)
    PROVE  TypeOK'
  <1> USE ConstantTypes, RoleBindingsAssumption DEF TypeOK
  <1>0. /\ nsWorker \in NSWorkers /\ nsWorker.n \in Nodes /\ nsWorker.todo \subseteq Names
        /\ nsWorker.at # "idle" => nsWorker.n \in SNSs /\ Parent[nsWorker.n] \in Nodes
    BY DEF NSWorkers
  <1>1. ASSUME NEW n \in SNSs, ReconcileNS(n) PROVE TypeOK'
    BY <1>1 DEF ReconcileNS, NSWorkers, cluster, rbCtrl, bounds, history
  <1>2. ASSUME AddNSFinalizer PROVE TypeOK'
    BY <1>0, <1>2 DEF AddNSFinalizer, Conflict, NSStep, NSRequeue, NSWorkers, rbCtrl, history
  <1>3. ASSUME CreateHNSView PROVE TypeOK'
    BY <1>0, <1>3 DEF CreateHNSView, NSStep, NSWorkers, rbCtrl, bounds, history
  <1>4. ASSUME ListParentRoleBindings PROVE TypeOK'
    BY <1>0, <1>4 DEF ListParentRoleBindings, NSWorkers, cluster, rbCtrl, bounds, history
  <1>5. ASSUME NEW x \in Names, CreateParentRoleBindingInNS(x) PROVE TypeOK'
    <2>1. nsWorker.n \in SNSs /\ <<nsWorker.n, x>> \in Nodes \X Names
      BY <1>0, <1>5 DEF CreateParentRoleBindingInNS
    <2>2. unsafe' \in BOOLEAN /\ missed' \in BOOLEAN
      BY <1>5, Zenon DEF CreateParentRoleBindingInNS, Copy
    <2>3. rbs' \in [Nodes \X Names -> {"absent", "new", "ready", "deleting"}] /\ rbQueue' \subseteq Nodes \X Names
      BY <1>5, <2>1 DEF CreateParentRoleBindingInNS, Copy
    <2>4. nsWorker' \in NSWorkers /\ nsQueue' \subseteq SNSs /\ (nsWorker'.at # "idle" => nsWorker'.n \in SNSs)
      BY <1>0, <1>5, <2>1 DEF CreateParentRoleBindingInNS, NSRequeue, NSWorkers
    <2>5. QED
      BY <1>5, <2>2, <2>3, <2>4 DEF CreateParentRoleBindingInNS, bounds
  <1>6. ASSUME UpdateNSRole PROVE TypeOK'
    BY <1>0, <1>6 DEF UpdateNSRole, Conflict, NSRequeue, rbCtrl, history
  <1>7. ASSUME DeleteSNSFromParentNS PROVE TypeOK'
    BY <1>0, <1>7 DEF DeleteSNSFromParentNS, NSStep, NSWorkers, rbCtrl, bounds, history
  <1>8. ASSUME DeleteNSHnsView PROVE TypeOK'
    BY <1>0, <1>8 DEF DeleteNSHnsView, NSStep, NSWorkers, rbCtrl, bounds, history
  <1>9. ASSUME DeleteNSFinalizer PROVE TypeOK'
    BY <1>0, <1>9 DEF DeleteNSFinalizer, Conflict, NSRequeue, rbCtrl, history
  <1>10. QED
    BY <1>1, <1>2, <1>3, <1>4, <1>5, <1>6, <1>7, <1>8, <1>9 DEF NSWork

(***************************************************************************)
(* Every step keeps the types.                                             *)
(***************************************************************************)
LEMMA StepType == TypeOK /\ [Next]_vars => TypeOK'
  <1> SUFFICES ASSUME TypeOK, [Next]_vars PROVE TypeOK'
    OBVIOUS
  <1>0. failures' \in 0..MaxFailures \/ ~(Fail \/ Restart)
    BY RoleBindingsAssumption DEF TypeOK, Fail, Restart
  <1>1. CASE Fail
    <2>1. missed' \in BOOLEAN
      BY <1>1, Zenon DEF TypeOK, Fail
    <2>2. nsWorker' \in NSWorkers /\ nsQueue' \subseteq SNSs /\ (nsWorker'.at # "idle" => nsWorker'.n \in SNSs)
      BY <1>1, ConstantTypes DEF TypeOK, Fail, NSRequeue, NSWorkers, nsCtrl
    <2>3. rbWorker' \in RBWorkers /\ rbQueue' \subseteq Nodes \X Names
      BY <1>1, ConstantTypes DEF TypeOK, Fail, RBRequeue, RBWorkers, rbCtrl
    <2>4. QED
      BY <1>0, <1>1, <2>1, <2>2, <2>3 DEF TypeOK, Fail, cluster
  <1>2. CASE Restart
    <2>1. nsQueue' \subseteq SNSs /\ rbQueue' \subseteq Nodes \X Names /\ missed' \in BOOLEAN
      BY <1>2 DEF Restart
    <2>2. nsWorker' \in NSWorkers /\ nsWorker'.at = "idle" /\ rbWorker' \in RBWorkers
      BY <1>2, ConstantTypes DEF Restart
    <2>3. QED
      BY <1>0, <1>2, <2>1, <2>2 DEF TypeOK, Restart, cluster
  <1>3. CASE UNCHANGED vars
    BY <1>3 DEF TypeOK, vars
  <1>4. QED
    BY <1>1, <1>2, <1>3, UserType, RBType, NSType DEF Next
-----------------------------------------------------------------------------
(***************************************************************************)
(* Initially the annotations are right and nothing is under way.           *)
(***************************************************************************)
LEMMA InitIInv == Init => IInv
  <1> SUFFICES ASSUME Init PROVE IInv
    OBVIOUS
  <1>1. PICK there \in SUBSET SNSs, bound \in SUBSET Names : Start(there, bound)
    BY DEF Init
  <1>2. /\ \A n \in SNSs : Parent[n] \in Nodes /\ (sns[n] = "created" <=> n \in there) /\ sns[n] # "new"
        /\ \A n \in Nodes : ns[n] = "active" <=> n \in there \cup {Root}
        /\ \A n \in SNSs : ns[n] = "active" <=> n \in there
        /\ \A n \in there : Parent[n] \in there \cup {Root}
        /\ \A n \in SNSs : role[n] = "leaf" <=> ~\E c \in there : Parent[c] = n
        /\ \A n \in SNSs : sns[n] # "absent" <=> n \in there
        /\ nsWorker.at = "idle" /\ nsWorker.n = Root
    BY <1>1, ConstantTypes DEF Start, SNSs
  <1>3. InActive /\ HasSNS
    BY <1>2 DEF InActive, HasSNS
  <1>4. Noticed
    BY <1>2 DEF Noticed, Children
  <1>5. QED
    BY <1>2, <1>3, <1>4, InitType DEF IInv, Enqueued, Guarded, Safe, CleansUp

(***************************************************************************)
(* The history of slips and late passes is never forgotten.                *)
(***************************************************************************)
LEMMA HistoryKept ==
    ASSUME TypeOK, [Next]_vars
    PROVE  (slipped => slipped') /\ (late => late')
  <1>1. ASSUME NEW n \in SNSs, DeleteNamespace(n) PROVE (slipped => slipped') /\ (late => late')
    BY <1>1, Zenon DEF DeleteNamespace
  <1>2. ASSUME NEW n \in SNSs, RemoveNamespace(n) PROVE (slipped => slipped') /\ (late => late')
    BY <1>2, Zenon DEF RemoveNamespace
  <1>3. CASE UNCHANGED <<slipped, late>>
    BY <1>3
  <1>4. CASE \/ NSWork \/ RBWork \/ Fail \/ Restart \/ UNCHANGED vars
             \/ \E b \in Nodes \X Names : ReconcileRB(b)
             \/ \E n \in SNSs : ReconcileNS(n) \/ CreateSNS(n) \/ CreateNamespace(n) \/ DeleteContents(n)
             \/ \E x \in Names : CreateRB(x) \/ \E n \in Nodes : DeleteRB(n, x)
    BY <1>3, <1>4 DEF NSWork, RBWork, CreateRB, DeleteRB, CreateSNS, ReconcileNS, ReconcileRB,
      AddNSFinalizer, CreateHNSView, ListParentRoleBindings, CreateParentRoleBindingInNS, UpdateNSRole,
      DeleteSNSFromParentNS, DeleteNSHnsView, DeleteNSFinalizer, AddRBFinalizer, AddSubjectsToHNSView,
      DeleteSubjectsFromHNSView, DeleteRBFinalizer, CreateRoleBinding, DeleteRoleBinding, CreateNamespace,
      DeleteContents, Fail, Restart, vars, history
  <1>5. QED
    BY <1>1, <1>2, <1>4, Zenon DEF Next, Cluster

(***************************************************************************)
(* A namespace that the worker has to sync again is in the queue.          *)
(***************************************************************************)
LEMMA StepEnqueued ==
    ASSUME IInv, [Next]_vars
    PROVE  Enqueued'
  <1>0. TypeOK /\ Enqueued
    BY DEF IInv
  <1>1. CASE UNCHANGED nsWorker /\ nsQueue \subseteq nsQueue'
    BY <1>0, <1>1 DEF Enqueued
  <1>2. CASE nsWorker' = NSIdle
    BY <1>2, ConstantTypes DEF Enqueued
  <1>3. ASSUME NEW n \in SNSs, ReconcileNS(n) PROVE Enqueued'
    BY <1>0, <1>3, ConstantTypes DEF ReconcileNS, Enqueued, TypeOK
  <1>4. CASE NSWork
    <2>1. CASE AddNSFinalizer
      BY <1>0, <1>2, <2>1 DEF AddNSFinalizer, NSStep, NSRequeue, Enqueued, TypeOK, NSWorkers
    <2>2. CASE CreateHNSView
      BY <1>0, <2>2 DEF CreateHNSView, NSStep, Enqueued, TypeOK, NSWorkers
    <2>3. CASE ListParentRoleBindings
      BY <1>0, <1>2, <2>3 DEF ListParentRoleBindings, Enqueued, TypeOK, NSWorkers
    <2>4. ASSUME NEW x \in Names, CreateParentRoleBindingInNS(x) PROVE Enqueued'
      BY <1>0, <1>2, <2>4 DEF CreateParentRoleBindingInNS, NSRequeue, Enqueued, TypeOK, NSWorkers
    <2>5. CASE UpdateNSRole
      BY <1>2, <2>5 DEF UpdateNSRole, NSRequeue
    <2>6. CASE DeleteSNSFromParentNS \/ DeleteNSHnsView
      BY <1>0, <2>6 DEF DeleteSNSFromParentNS, DeleteNSHnsView, NSStep, Enqueued, TypeOK, NSWorkers
    <2>7. CASE DeleteNSFinalizer
      BY <1>2, <2>7 DEF DeleteNSFinalizer, NSRequeue
    <2>8. QED
      BY <1>4, <2>1, <2>2, <2>3, <2>4, <2>5, <2>6, <2>7 DEF NSWork
  <1>5. CASE RBWork \/ \E b \in Nodes \X Names : ReconcileRB(b)
    BY <1>1, <1>5 DEF RBWork, ReconcileRB, AddRBFinalizer, AddSubjectsToHNSView, DeleteSubjectsFromHNSView,
        DeleteRBFinalizer, CreateRoleBinding, DeleteRoleBinding, nsCtrl
  <1>6. CASE \/ \E x \in Names : CreateRB(x) \/ \E n \in Nodes : DeleteRB(n, x)
             \/ \E n \in SNSs : CreateSNS(n) \/ DeleteNamespace(n)
             \/ Cluster \/ Fail \/ Restart \/ UNCHANGED vars
    BY <1>1, <1>2, <1>6 DEF CreateRB, DeleteRB, CreateSNS, DeleteNamespace, Cluster, CreateNamespace, DeleteContents,
        RemoveNamespace, Fail, Restart, NSRequeue, nsCtrl, vars
  <1>7. QED
    BY <1>3, <1>4, <1>5, <1>6 DEF Next

(***************************************************************************)
(* Users and the cluster keep what guards the deletion of a namespace: the *)
(* one that is deleted has no children, or it slipped.                     *)
(***************************************************************************)
LEMMA UserGuarded ==
    ASSUME IInv, Safe, ~slipped', ~late', NEW n \in SNSs,
           CreateSNS(n) \/ DeleteNamespace(n) \/ CreateNamespace(n) \/ DeleteContents(n) \/ RemoveNamespace(n)
    PROVE  Safe'
  <1>0. TypeOK /\ InActive /\ HasSNS /\ Noticed /\ CleansUp
    BY DEF IInv, Safe
  <1>1. CASE CreateSNS(n)
    BY <1>0, <1>1, ConstantTypes DEF CreateSNS, nsCtrl, TypeOK, Safe, InActive, HasSNS, Noticed, CleansUp, Children, Unnoticed
  <1>2. CASE DeleteNamespace(n)
    <2>1. Children(n) = {}
      <3>1. ~Unnoticed(n)
        BY <1>2, Zenon DEF DeleteNamespace
      <3>2. QED
        BY <1>0, <1>2, <3>1 DEF DeleteNamespace, ValidateNamespaceRole, Noticed
    <2>2. QED
      BY <1>0, <1>2, <2>1, ConstantTypes DEF DeleteNamespace, TypeOK, Safe, InActive, HasSNS, Noticed, CleansUp, Children, Unnoticed
  <1>3. CASE CreateNamespace(n)
    <2>1. /\ sns[n] = "new" /\ ns[n] = "absent" /\ sns'[n] = "created" /\ ns'[n] = "active"
          /\ \A m \in SNSs : m # n => sns'[m] = sns[m] /\ ns'[m] = ns[m] /\ role'[m] = role[m]
          /\ \A m \in Nodes : m # n => ns'[m] = ns[m]
          /\ nsQueue' = nsQueue \cup {n} \cup ParentNS(n) /\ nsWorker' = nsWorker
      BY <1>0, <1>3, ConstantTypes DEF CreateNamespace, TypeOK, HasSNS
    <2>2. \A m \in SNSs : Children(m)' = Children(m)
      BY <2>1 DEF Children
    <2>3. InActive'
      BY <1>0, <2>1, ConstantTypes DEF InActive
    <2>4. HasSNS' /\ CleansUp'
      BY <1>0, <2>1, ConstantTypes DEF HasSNS, CleansUp, TypeOK
    <2>5. ASSUME NEW m \in SNSs, ns'[m] = "active", role'[m] = "leaf", Children(m)' # {}
          PROVE  Unnoticed(m)'
      <3>1. CASE m = n
        BY <1>0, <2>1, <2>2, <2>5, <3>1 DEF InActive, Children, SNSs
      <3>2. CASE m # n /\ (m \in nsQueue \/ nsWorker.n = m)
        BY <2>1, <2>5, <3>2 DEF Unnoticed
      <3>3. CASE m # n /\ \E c \in Children(m) : sns[c] = "new"
        <4>1. PICK c \in Children(m) : sns[c] = "new"
          BY <3>3
        <4>2. c \in SNSs /\ Parent[c] = m
          BY DEF Children
        <4>3. CASE c = n
          BY <2>1, <2>5, <4>2, <4>3 DEF Unnoticed, ParentNS, SNSs
        <4>4. CASE c # n
          BY <2>1, <2>2, <2>5, <4>1, <4>2, <4>4 DEF Unnoticed
        <4>5. QED
          BY <4>3, <4>4
      <3>4. QED
        BY <1>0, <2>1, <2>2, <2>5, <3>1, <3>2, <3>3 DEF Noticed, Unnoticed
    <2>6. QED
      BY <2>3, <2>4, <2>5 DEF Safe, Noticed
  <1>4. CASE DeleteContents(n)
    <2>1. Children(n) = {}
      BY <1>0, <1>4 DEF DeleteContents, InActive, Children, SNSs
    <2>2. sns' = sns
      BY <1>0, <1>4, <2>1 DEF DeleteContents, TypeOK
    <2>3. UNCHANGED <<ns, role, nsWorker>> /\ nsQueue \subseteq nsQueue'
      BY <1>4 DEF DeleteContents
    <2>4. QED
      BY <1>0, <2>2, <2>3 DEF Safe, InActive, HasSNS, Noticed, CleansUp, Children, Unnoticed
  <1>5. CASE RemoveNamespace(n)
    <2>1. nsWorker.n # n
      BY <1>5, Zenon DEF RemoveNamespace
    <2>2. QED
      BY <1>0, <1>5, <2>1, ConstantTypes DEF RemoveNamespace, nsCtrl, TypeOK, Safe, InActive, HasSNS, Noticed, CleansUp, Children, Unnoticed
  <1>6. QED
    BY <1>1, <1>2, <1>3, <1>4, <1>5

(***************************************************************************)
(* The namespace controller keeps it too: it drops a namespace only when   *)
(* its annotation is right or it is enqueued again.                        *)
(***************************************************************************)
LEMMA NSGuarded ==
    ASSUME IInv, Safe, NSWork \/ \E n \in SNSs : ReconcileNS(n)
    PROVE  Safe'
  <1>0. TypeOK /\ Enqueued /\ InActive /\ HasSNS /\ Noticed /\ CleansUp
    BY DEF IInv, Safe
  <1> DEFINE same == UNCHANGED <<sns, ns, role>>
  <1>1. ASSUME same, nsQueue \subseteq nsQueue', nsWorker.n \in nsQueue' \/ nsWorker'.n = nsWorker.n
        PROVE  InActive' /\ HasSNS' /\ Noticed'
    BY <1>0, <1>1, ConstantTypes DEF InActive, HasSNS, Noticed, Children, Unnoticed
  <1>2. ASSUME NEW n \in SNSs, ReconcileNS(n) PROVE Safe'
    <2>1. UNCHANGED <<sns, ns, role>> /\ nsQueue' = nsQueue \ {n} /\ nsWorker.at = "idle"
      BY <1>2 DEF ReconcileNS, cluster
    <2>2. ns[n] = "absent" \/ nsWorker'.n = n
      BY <1>2 DEF ReconcileNS
    <2>3. CleansUp'
      BY <1>0, <1>2, <2>1, ConstantTypes DEF ReconcileNS, CleansUp, TypeOK
    <2>4. nsWorker.n \notin SNSs
      BY <1>0, <2>1 DEF Enqueued, SNSs
    <2>5. QED
      BY <1>0, <2>1, <2>2, <2>3, <2>4 DEF Safe, InActive, HasSNS, Noticed, Children, Unnoticed
  <1>3. CASE AddNSFinalizer
    BY <1>0, <1>1, <1>3, ConstantTypes DEF AddNSFinalizer, NSStep, NSRequeue, TypeOK, NSWorkers, Safe, CleansUp
  <1>4. CASE CreateHNSView
    BY <1>0, <1>1, <1>4, ConstantTypes DEF CreateHNSView, NSStep, TypeOK, NSWorkers, Safe, CleansUp
  <1>5. CASE ListParentRoleBindings
    BY <1>0, <1>1, <1>5, ConstantTypes DEF ListParentRoleBindings, cluster, TypeOK, NSWorkers, Safe, CleansUp, Enqueued
  <1>6. ASSUME NEW x \in Names, CreateParentRoleBindingInNS(x) PROVE Safe'
    BY <1>0, <1>1, <1>6, ConstantTypes DEF CreateParentRoleBindingInNS, NSRequeue, TypeOK, NSWorkers, Safe, CleansUp, Enqueued
  <1>7. CASE UpdateNSRole
    BY <1>0, <1>7, ConstantTypes DEF UpdateNSRole, NSRequeue, TypeOK, NSWorkers, Safe, InActive, HasSNS, Noticed, CleansUp, Children, Unnoticed
  <1>8. CASE DeleteSNSFromParentNS
    BY <1>0, <1>8, ConstantTypes DEF DeleteSNSFromParentNS, NSStep, TypeOK, NSWorkers, Safe, InActive, HasSNS, Noticed, CleansUp, Children, Unnoticed
  <1>9. CASE DeleteNSHnsView \/ DeleteNSFinalizer
    BY <1>0, <1>1, <1>9, ConstantTypes DEF DeleteNSHnsView, DeleteNSFinalizer, NSStep, NSRequeue, TypeOK, NSWorkers, Safe, CleansUp
  <1>10. QED
    BY <1>2, <1>3, <1>4, <1>5, <1>6, <1>7, <1>8, <1>9 DEF NSWork

(***************************************************************************)
(* Every step preserves the invariant.                                     *)
(***************************************************************************)
LEMMA StepIInv == IInv /\ [Next]_vars => IInv'
  <1> SUFFICES ASSUME IInv, [Next]_vars PROVE IInv'
    OBVIOUS
  <1>0. TypeOK /\ Guarded
    BY DEF IInv
  <1>1. TypeOK' /\ Enqueued'
    BY <1>0, StepType, StepEnqueued
  <1>2. ASSUME ~slipped', ~late' PROVE Safe'
    <2>1. Safe
      BY <1>0, <1>2, HistoryKept DEF Guarded
    <2>2. CASE UNCHANGED <<sns, ns, role, nsQueue, nsWorker>>
      BY <2>1, <2>2 DEF Safe, InActive, HasSNS, Noticed, CleansUp, Children, Unnoticed
    <2>3. CASE \/ \E n \in SNSs : CreateSNS(n) \/ DeleteNamespace(n)
               \/ Cluster
      BY <1>2, <2>1, <2>3, UserGuarded DEF Cluster
    <2>4. CASE NSWork \/ \E n \in SNSs : ReconcileNS(n)
      BY <2>1, <2>4, NSGuarded
    <2>5. CASE \/ \E x \in Names : CreateRB(x) \/ \E n \in Nodes : DeleteRB(n, x)
               \/ RBWork \/ \E b \in Nodes \X Names : ReconcileRB(b)
               \/ UNCHANGED vars
      BY <2>2, <2>5 DEF CreateRB, DeleteRB, RBWork, ReconcileRB, AddRBFinalizer, AddSubjectsToHNSView,
          DeleteSubjectsFromHNSView, DeleteRBFinalizer, CreateRoleBinding, DeleteRoleBinding,
          cluster, nsCtrl, vars
    <2>6. CASE Fail
      BY <1>0, <2>1, <2>2, <2>6, ConstantTypes DEF Fail, NSRequeue, cluster, nsCtrl, TypeOK, Safe, InActive, HasSNS, Noticed, CleansUp,
          Children, Unnoticed
    <2>7. CASE Restart
      BY <1>0, <2>1, <2>7, ConstantTypes DEF Restart, cluster, TypeOK, Safe, InActive, HasSNS, Noticed, CleansUp, Children, Unnoticed
    <2>8. QED
      BY <2>3, <2>4, <2>5, <2>6, <2>7 DEF Next
  <1>3. QED
    BY <1>1, <1>2 DEF IInv, Guarded

(***************************************************************************)
(* Every behaviour keeps the inductive invariant.                          *)
(***************************************************************************)
THEOREM Invariance == Spec => []IInv
  BY InitIInv, StepIInv, PTL DEF Spec

(***************************************************************************)
(* The cluster and both controllers keep their types.                      *)
(***************************************************************************)
THEOREM Typing == Spec => []TypeOK
  <1>1. IInv => TypeOK
    BY DEF IInv
  <1>2. QED
    BY <1>1, Invariance, PTL

(***************************************************************************)
(* No namespace is deleted over the head of its children, in a hierarchy   *)
(* of any shape and size, unless its controller had yet to see one or a    *)
(* cleanUp outlived its namespace.                                         *)
(***************************************************************************)
THEOREM ChildrenKeepTheirParent == Spec => []NoOrphanNamespaces
  <1>1. IInv => NoOrphanNamespaces
    BY DEF IInv, Guarded, Safe, InActive, HasSNS, NoOrphanNamespaces
  <1>2. QED
    BY <1>1, Invariance, PTL
-----------------------------------------------------------------------------
(***************************************************************************)
(* What RoleBindings promises once all is quiet.  Each promise is about    *)
(* states in which the controllers have nothing left to do, so each        *)
(* invariant says of every state what is still to be done where the        *)
(* promise does not hold yet: which object is in a queue, or in the hands  *)
(* of which worker and at which step.                                      *)
(***************************************************************************)
(***************************************************************************)
(* The places where objects are while nothing is assumed of users,         *)
(* failures and restarts.                                                  *)
(***************************************************************************)
\* A Subnamespace that is new has no namespace, and nothing is in a namespace that is gone.
NewHasNoNS  == \A n \in SNSs : sns[n] = "new" => ns[n] = "absent"
GoneIsEmpty == \A n \in SNSs : ns[n] = "absent" =>
                    n \notin finalizer /\ \A x \in Names : rbs[<<n, x>>] = "absent"

\* Only the worker adds the finalizer.
NotYet == nsWorker.at = "finalizer" => nsWorker.n \notin finalizer

\* A wrong role annotation is about to be noticed.
RoleNoticed ==
    \A n \in SNSs : ns[n] = "active" /\ (role[n] = "leaf") # (Children(n) = {}) =>
        n \in nsQueue \/ nsWorker.n = n \/ \E c \in Children(n) : sns[c] = "new"

\* The RoleBinding in the worker's hands is being deleted, and stays so.
Deleting(b) == rbWorker.at \in {"deleteSubjects", "delete"} /\ rbWorker.rb = b

DeletingSeen ==
    \A b \in Nodes \X Names : /\ rbs[b] = "deleting" => b \in rbQueue \/ Deleting(b)
                              /\ Deleting(b) => rbs[b] = "deleting"

\* What the worker has yet to see to are children.
ListedChildren == \A c \in rbWorker.todo : Parent[c] = rbWorker.rb[1]

\* The worker works on a namespace that is there, unless it outlived one.
WorksOnPresent ==
    ~late /\ nsWorker.at # "idle" =>
        ns[nsWorker.n] # "absent"
        /\ (nsWorker.at \in {"deleteSNS", "deleteView", "drop"} => ns[nsWorker.n] = "terminating")

Places == NewHasNoNS /\ GoneIsEmpty /\ NotYet /\ RoleNoticed /\ DeletingSeen /\ ListedChildren /\ WorksOnPresent

(***************************************************************************)
(* cleanUp: a namespace that has lost its finalizer has lost its           *)
(* Subnamespace and its view before, and gets neither again.               *)
(***************************************************************************)
InHand(n, steps) == nsWorker.n = n /\ nsWorker.at \in steps

CleanedUp ==
    ~bare /\ ~late => \A n \in SNSs :
        /\ ns[n] = "absent" => sns[n] # "created" /\ n \notin hasView
        /\ InHand(n, {"deleteView", "drop"}) => sns[n] = "absent"
        /\ InHand(n, {"drop"}) => n \notin hasView
        /\ ns[n] = "terminating" /\ n \notin finalizer =>
            /\ sns[n] = "absent" /\ n \notin hasView
            /\ ~InHand(n, {"finalizer", "view", "list", "copy", "sync", "role"})

(***************************************************************************)
(* A copy is there only where the original is; while the original is being *)
(* deleted, the copies that are left are those the worker has yet to       *)
(* delete.  A namespace that is terminating is emptied anyway.             *)
(***************************************************************************)
Bound(n, x) == rbs[<<n, x>>] \in {"new", "ready"} /\ ns[n] # "terminating"

CopiesOfSomething ==
    ~unsafe /\ ~slipped /\ ~late => \A n \in SNSs, x \in Names : Bound(n, x) =>
        /\ sns[n] # "absent"
        /\ rbs[<<Parent[n], x>>] \in {"ready", "deleting"}
        /\ Deleting(<<Parent[n], x>>) => n \in rbWorker.todo

(***************************************************************************)
(* Where a copy is missing, or on its way out, one of the two controllers  *)
(* is about to make it.                                                    *)
(***************************************************************************)
ToBeCopied(n, x) ==
    LET b == <<Parent[n], x>>
    IN  \/ b \in rbQueue
        \/ rbWorker.rb = b /\ rbWorker.at \in {"finalizer", "copy"} /\ n \in rbWorker.todo
        \/ Deleting(b)
        \/ n \in nsQueue /\ n \notin finalizer
        \/ InHand(n, {"finalizer", "view", "list"})
        \/ InHand(n, {"copy"}) /\ x \in nsWorker.todo

CopiesUnderWay ==
    ~missed /\ ~slipped /\ ~late => \A n \in SNSs, x \in Names :
        /\ ns[n] = "active" /\ rbs[<<Parent[n], x>>] # "absent" /\ rbs[<<n, x>>] \in {"absent", "deleting"}
        => ToBeCopied(n, x)

(***************************************************************************)
(* The view: a subject that is missing is about to be added, one that is   *)
(* there has its RoleBinding, and goes before it.                          *)
(***************************************************************************)
DistinctSubjects == \A x, y \in Names : Subject[x] = Subject[y] => x = y

Viewed == Names \ ServiceAccounts

ViewFollows ==
    DistinctSubjects /\ ~unsafe /\ ~unseen /\ ~late => \A n \in SNSs :
        /\ view[n] \subseteq {Subject[x] : x \in Viewed}
        /\ \A x \in Viewed :
            /\ Bound(n, x) /\ Subject[x] \notin view[n] =>
                \/ <<n, x>> \in rbQueue
                \/ rbWorker.rb = <<n, x>> /\ rbWorker.at \in {"finalizer", "copy"}
            /\ Subject[x] \in view[n] =>
                /\ rbs[<<n, x>>] \in {"ready", "deleting"}
                /\ ~(rbWorker.at = "delete" /\ rbWorker.rb = <<n, x>>)

QuietInv == Places /\ CleanedUp /\ CopiesOfSomething /\ CopiesUnderWay /\ ViewFollows
-----------------------------------------------------------------------------
(***************************************************************************)
(* What the state's types give, in the form that the proofs use.           *)
(***************************************************************************)
LEMMA Shapes ==
    ASSUME TypeOK
    PROVE  /\ DOMAIN sns = SNSs /\ DOMAIN ns = Nodes /\ DOMAIN role = SNSs
           /\ DOMAIN rbs = Nodes \X Names /\ DOMAIN view = Nodes
           /\ nsWorker = [at |-> nsWorker.at, n |-> nsWorker.n, todo |-> nsWorker.todo]
           /\ nsWorker.n \in Nodes /\ nsWorker.todo \subseteq Names
           /\ nsWorker.at # "idle" => nsWorker.n \in SNSs
           /\ rbWorker = [at |-> rbWorker.at, rb |-> rbWorker.rb, todo |-> rbWorker.todo]
           /\ rbWorker.rb \in Nodes \X Names /\ rbWorker.todo \subseteq SNSs
           /\ rbWorker.rb[1] \in Nodes /\ rbWorker.rb[2] \in Names
           /\ rbWorker.rb = <<rbWorker.rb[1], rbWorker.rb[2]>>
           /\ NSIdle = [at |-> "idle", n |-> Root, todo |-> {}]
           /\ RBIdle.at = "idle" /\ RBIdle.todo = {} /\ RBIdle.rb \in Nodes \X Names
  <1>1. nsWorker \in NSWorkers /\ rbWorker \in RBWorkers /\ RBIdle \in RBWorkers
    BY ConstantTypes DEF TypeOK
  <1>2. /\ nsWorker = [at |-> nsWorker.at, n |-> nsWorker.n, todo |-> nsWorker.todo]
        /\ nsWorker.n \in Nodes /\ nsWorker.todo \subseteq Names
    BY <1>1 DEF NSWorkers
  <1>3. /\ rbWorker = [at |-> rbWorker.at, rb |-> rbWorker.rb, todo |-> rbWorker.todo]
        /\ rbWorker.rb \in Nodes \X Names /\ rbWorker.todo \subseteq SNSs
    BY <1>1 DEF RBWorkers
  <1>4. RBIdle.at = "idle" /\ RBIdle.todo = {} /\ RBIdle.rb \in Nodes \X Names
    BY <1>1 DEF RBWorkers, RBIdle
  <1>5. /\ DOMAIN sns = SNSs /\ DOMAIN ns = Nodes /\ DOMAIN role = SNSs
        /\ DOMAIN rbs = Nodes \X Names /\ DOMAIN view = Nodes
    BY DEF TypeOK
  <1>6. QED
    BY <1>2, <1>3, <1>4, <1>5 DEF TypeOK, NSIdle

(***************************************************************************)
(* A pass of the RoleBinding controller begins with the RoleBinding as it  *)
(* is and with the children that are there.                                *)
(***************************************************************************)
LEMMA TakesUp ==
    ASSUME TypeOK, NEW b \in Nodes \X Names, ReconcileRB(b)
    PROVE  /\ UNCHANGED <<rbs, view>> /\ rbQueue' = rbQueue \ {b} /\ rbWorker.at = "idle"
           /\ rbs[b] = "absent" => rbWorker' = RBIdle
           /\ rbs[b] # "absent" => rbWorker'.rb = b /\ rbWorker'.todo = Children(b[1])
           /\ rbs[b] = "deleting" => rbWorker'.at = "deleteSubjects"
           /\ rbs[b] = "new" => rbWorker'.at = "finalizer"
           /\ rbs[b] = "ready" => rbWorker'.at = "copy"
           /\ rbs[b] \in {"absent", "new", "ready", "deleting"}
  <1>1. /\ UNCHANGED <<rbs, view>> /\ rbQueue' = rbQueue \ {b} /\ rbWorker.at = "idle"
        /\ rbWorker' = IF rbs[b] = "absent" THEN RBIdle
                       ELSE [rb |-> b, todo |-> Children(b[1]),
                             at |-> CASE rbs[b] = "deleting" -> "deleteSubjects"
                                      [] rbs[b] = "new"      -> "finalizer"
                                      [] rbs[b] = "ready"    -> "copy"]
    BY DEF ReconcileRB, cluster
  <1>2. rbs[b] \in {"absent", "new", "ready", "deleting"}
    BY DEF TypeOK
  <1>3. QED
    BY <1>1, <1>2

(***************************************************************************)
(* Users who bind subjects, and the RoleBinding controller, touch nothing  *)
(* that is the namespace controller's.                                     *)
(***************************************************************************)
LEMMA RBFrame ==
    ASSUME \/ \E x \in Names : CreateRB(x) \/ \E n \in Nodes : DeleteRB(n, x)
           \/ RBWork \/ \E b \in Nodes \X Names : ReconcileRB(b)
    PROVE  UNCHANGED <<sns, ns, finalizer, role, hasView, nsQueue, nsWorker>>
  BY DEF CreateRB, DeleteRB, RBWork, ReconcileRB, AddRBFinalizer, AddSubjectsToHNSView,
      DeleteSubjectsFromHNSView, DeleteRBFinalizer, CreateRoleBinding, DeleteRoleBinding, cluster, nsCtrl

(***************************************************************************)
(* A namespace that is new, or gone, is empty: nothing is put where there  *)
(* is no active namespace.                                                 *)
(***************************************************************************)
LEMMA StepEmpty ==
    ASSUME IInv, NewHasNoNS, GoneIsEmpty, NotYet, [Next]_vars
    PROVE  NewHasNoNS' /\ GoneIsEmpty' /\ NotYet'
  <1>0. TypeOK
    BY DEF IInv
  <1> USE <1>0, ConstantTypes DEF NewHasNoNS, GoneIsEmpty, NotYet
  <1>1. CASE UNCHANGED <<sns, ns, finalizer, nsWorker>> /\ \A n \in SNSs, x \in Names :
                 ns[n] = "absent" /\ rbs[<<n, x>>] = "absent" => rbs'[<<n, x>>] = "absent"
    BY <1>1
  <1>2. ASSUME NEW x \in Names, CreateRB(x) PROVE NewHasNoNS' /\ GoneIsEmpty' /\ NotYet'
    BY <1>1, <1>2 DEF CreateRB, nsCtrl, TypeOK, SNSs
  <1>3. ASSUME NEW x \in Names, NEW n \in Nodes, DeleteRB(n, x) PROVE NewHasNoNS' /\ GoneIsEmpty' /\ NotYet'
    BY <1>1, <1>3 DEF DeleteRB, Deleted, nsCtrl, TypeOK
  <1>4. CASE RBWork \/ \E b \in Nodes \X Names : ReconcileRB(b)
    <2>1. UNCHANGED <<sns, ns, finalizer, nsWorker>>
      BY <1>4, RBFrame
    <2>2. CASE AddRBFinalizer
      BY <1>1, <2>1, <2>2, Shapes DEF AddRBFinalizer, TypeOK
    <2>3. ASSUME NEW c \in SNSs, CreateRoleBinding(c) PROVE NewHasNoNS' /\ GoneIsEmpty' /\ NotYet'
      BY <1>1, <2>1, <2>3, Shapes DEF CreateRoleBinding, Copy, TypeOK
    <2>4. ASSUME NEW c \in SNSs, DeleteRoleBinding(c) PROVE NewHasNoNS' /\ GoneIsEmpty' /\ NotYet'
      BY <1>1, <2>1, <2>4, Shapes DEF DeleteRoleBinding, Deleted, TypeOK
    <2>5. CASE DeleteRBFinalizer
      BY <1>1, <2>1, <2>5, Shapes DEF DeleteRBFinalizer, TypeOK
    <2>6. CASE UNCHANGED rbs
      BY <1>1, <2>1, <2>6
    <2>7. QED
      BY <1>4, <2>2, <2>3, <2>4, <2>5, <2>6 DEF RBWork, ReconcileRB, AddSubjectsToHNSView, DeleteSubjectsFromHNSView, cluster
  <1>5. ASSUME NEW n \in SNSs, CreateSNS(n) PROVE NewHasNoNS' /\ GoneIsEmpty' /\ NotYet'
    BY <1>5 DEF CreateSNS, nsCtrl, TypeOK
  <1>6. ASSUME NEW n \in SNSs, DeleteNamespace(n) PROVE NewHasNoNS' /\ GoneIsEmpty' /\ NotYet'
    BY <1>6 DEF DeleteNamespace, TypeOK
  <1>7. ASSUME NEW n \in SNSs, CreateNamespace(n) PROVE NewHasNoNS' /\ GoneIsEmpty' /\ NotYet'
    BY <1>7 DEF CreateNamespace, TypeOK
  <1>8. ASSUME NEW n \in SNSs, DeleteContents(n) PROVE NewHasNoNS' /\ GoneIsEmpty' /\ NotYet'
    BY <1>8 DEF DeleteContents, Deleted, TypeOK
  <1>9. ASSUME NEW n \in SNSs, RemoveNamespace(n) PROVE NewHasNoNS' /\ GoneIsEmpty' /\ NotYet'
    BY <1>9 DEF RemoveNamespace, Contents, nsCtrl, TypeOK
  <1>10. ASSUME NEW n \in SNSs, ReconcileNS(n) PROVE NewHasNoNS' /\ GoneIsEmpty' /\ NotYet'
    BY <1>10 DEF ReconcileNS, cluster, TypeOK
  <1>11. CASE NSWork
    <2>1. CASE AddNSFinalizer
      BY <2>1, Shapes DEF AddNSFinalizer, NSStep, NSRequeue
    <2>2. CASE CreateHNSView
      BY <2>2, Shapes DEF CreateHNSView, NSStep
    <2>3. CASE ListParentRoleBindings
      BY <2>3, Shapes DEF ListParentRoleBindings, cluster
    <2>4. ASSUME NEW x \in Names, CreateParentRoleBindingInNS(x) PROVE NewHasNoNS' /\ GoneIsEmpty' /\ NotYet'
      BY <2>4, Shapes DEF CreateParentRoleBindingInNS, Copy, NSRequeue
    <2>5. CASE UpdateNSRole
      BY <2>5, Shapes DEF UpdateNSRole, NSRequeue
    <2>6. CASE DeleteSNSFromParentNS
      BY <2>6, Shapes DEF DeleteSNSFromParentNS, NSStep
    <2>7. CASE DeleteNSHnsView
      BY <2>7, Shapes DEF DeleteNSHnsView, NSStep
    <2>8. CASE DeleteNSFinalizer
      BY <2>8, Shapes DEF DeleteNSFinalizer, NSRequeue
    <2>9. QED
      BY <1>11, <2>1, <2>2, <2>3, <2>4, <2>5, <2>6, <2>7, <2>8 DEF NSWork
  <1>12. CASE Fail \/ Restart
    BY <1>12 DEF Fail, Restart, NSRequeue, cluster, nsCtrl
  <1>13. CASE UNCHANGED vars
    BY <1>13 DEF vars
  <1>14. QED
    BY <1>2, <1>3, <1>4, <1>5, <1>6, <1>7, <1>8, <1>9, <1>10, <1>11, <1>12, <1>13 DEF Next, Cluster

(***************************************************************************)
(* A role annotation is wrong only while its namespace is about to be      *)
(* synced: who changes the children enqueues the parent, and a pass ends   *)
(* with the annotation set or the namespace enqueued.                      *)
(***************************************************************************)
LEMMA StepRoleNoticed ==
    ASSUME IInv, NewHasNoNS, RoleNoticed, [Next]_vars
    PROVE  RoleNoticed'
  <1>0. TypeOK /\ Enqueued
    BY DEF IInv
  <1> USE <1>0, ConstantTypes DEF RoleNoticed
  <1>1. CASE /\ UNCHANGED <<sns, ns, role>> /\ nsQueue \subseteq nsQueue'
             /\ nsWorker.n \in nsQueue' \/ nsWorker'.n = nsWorker.n
    BY <1>1 DEF Children
  <1>2. CASE \/ \E x \in Names : CreateRB(x) \/ \E n \in Nodes : DeleteRB(n, x)
             \/ RBWork \/ \E b \in Nodes \X Names : ReconcileRB(b)
    BY <1>1, <1>2, RBFrame
  <1>3. ASSUME NEW n \in SNSs, CreateSNS(n) PROVE RoleNoticed'
    BY <1>3 DEF CreateSNS, nsCtrl, TypeOK, Children
  <1>4. ASSUME NEW n \in SNSs, DeleteNamespace(n) PROVE RoleNoticed'
    BY <1>4 DEF DeleteNamespace, TypeOK, Children
  <1>5. ASSUME NEW n \in SNSs, CreateNamespace(n) PROVE RoleNoticed'
    <2>1. /\ sns[n] = "new" /\ sns' = [sns EXCEPT ![n] = "created"]
          /\ \A m \in SNSs : m # n => ns'[m] = ns[m] /\ role'[m] = role[m]
          /\ nsQueue' = nsQueue \cup {n} \cup ParentNS(n) /\ nsWorker' = nsWorker
      BY <1>5 DEF CreateNamespace, TypeOK
    <2>2. \A m \in SNSs : Children(m)' = Children(m)
      BY <2>1 DEF Children, TypeOK
    <2>3. ASSUME NEW m \in SNSs, m # n, NEW c \in Children(m), sns[c] = "new"
          PROVE  m \in nsQueue' \/ (c \in Children(m)' /\ sns'[c] = "new")
      BY <2>1, <2>2, <2>3 DEF Children, ParentNS, SNSs, TypeOK
    <2>4. QED
      BY <2>1, <2>2, <2>3
  <1>6. ASSUME NEW n \in SNSs, DeleteContents(n) PROVE RoleNoticed'
    <2>1. \A m \in SNSs : m # n => Children(m)' = Children(m) /\ \A c \in Children(m) : sns'[c] = sns[c]
      BY <1>6 DEF DeleteContents, Children
    <2>2. QED
      BY <1>6, <2>1 DEF DeleteContents
  <1>7. ASSUME NEW n \in SNSs, RemoveNamespace(n) PROVE RoleNoticed'
    BY <1>7 DEF RemoveNamespace, nsCtrl, TypeOK, Children
  <1>8. ASSUME NEW n \in SNSs, ReconcileNS(n) PROVE RoleNoticed'
    <2>1. UNCHANGED <<sns, ns, role>> /\ nsQueue' = nsQueue \ {n} /\ nsWorker.n \notin SNSs
      BY <1>8 DEF ReconcileNS, cluster, Enqueued, SNSs
    <2>2. ns[n] = "absent" \/ nsWorker'.n = n
      BY <1>8 DEF ReconcileNS
    <2>3. QED
      BY <2>1, <2>2 DEF Children
  <1>9. CASE NSWork
    <2>1. CASE AddNSFinalizer
      BY <1>1, <2>1, Shapes DEF AddNSFinalizer, NSStep, NSRequeue
    <2>2. CASE CreateHNSView
      BY <1>1, <2>2, Shapes DEF CreateHNSView, NSStep
    <2>3. CASE ListParentRoleBindings
      BY <1>1, <2>3, Shapes DEF ListParentRoleBindings, cluster, Enqueued
    <2>4. ASSUME NEW x \in Names, CreateParentRoleBindingInNS(x) PROVE RoleNoticed'
      BY <1>1, <2>4, Shapes DEF CreateParentRoleBindingInNS, NSRequeue, Enqueued
    <2>5. CASE UpdateNSRole
      <3>1. UNCHANGED <<sns, ns>> /\ nsQueue \subseteq nsQueue' /\ nsWorker.n \in SNSs
        BY <2>5, Shapes DEF UpdateNSRole, NSRequeue
      <3>2. CASE nsWorker.n \in nsQueue' /\ UNCHANGED role
        BY <1>1, <3>1, <3>2
      <3>3. CASE role' = [role EXCEPT ![nsWorker.n] = IF Children(nsWorker.n) = {} THEN "leaf" ELSE "none"]
        BY <3>1, <3>3 DEF Children, TypeOK
      <3>4. QED
        BY <2>5, <3>2, <3>3 DEF UpdateNSRole, NSRequeue
    <2>6. CASE DeleteSNSFromParentNS
      <3>1. /\ sns' = [sns EXCEPT ![nsWorker.n] = "absent"] /\ UNCHANGED <<ns, role>>
            /\ nsWorker'.n = nsWorker.n /\ nsQueue \subseteq nsQueue' /\ nsWorker.n \in SNSs
            /\ sns[nsWorker.n] # "absent" => ParentNS(nsWorker.n) \subseteq nsQueue'
        BY <2>6, Shapes DEF DeleteSNSFromParentNS, NSStep
      <3>2. CASE sns[nsWorker.n] = "absent"
        <4>1. sns' = sns
          BY <3>1, <3>2 DEF TypeOK
        <4>2. QED
          BY <1>1, <3>1, <4>1
      <3>3. CASE sns[nsWorker.n] # "absent"
        <4>1. ASSUME NEW m \in SNSs, m # Parent[nsWorker.n]
              PROVE  Children(m)' = Children(m) /\ \A c \in Children(m) : sns'[c] = sns[c]
          BY <3>1, <4>1, Shapes DEF Children
        <4>2. QED
          BY <3>1, <3>3, <4>1 DEF ParentNS, SNSs
      <3>4. QED
        BY <3>2, <3>3
    <2>7. CASE DeleteNSHnsView
      BY <1>1, <2>7, Shapes DEF DeleteNSHnsView, NSStep
    <2>8. CASE DeleteNSFinalizer
      BY <1>1, <2>8, Shapes DEF DeleteNSFinalizer, NSRequeue
    <2>9. QED
      BY <1>9, <2>1, <2>2, <2>3, <2>4, <2>5, <2>6, <2>7, <2>8 DEF NSWork
  <1>10. CASE Fail
    BY <1>1, <1>10 DEF Fail, NSRequeue, cluster, nsCtrl
  <1>11. CASE Restart
    BY <1>11 DEF Restart, cluster
  <1>12. CASE UNCHANGED vars
    BY <1>1, <1>12 DEF vars
  <1>13. QED
    BY <1>2, <1>3, <1>4, <1>5, <1>6, <1>7, <1>8, <1>9, <1>10, <1>11, <1>12 DEF Next, Cluster

(***************************************************************************)
(* A RoleBinding that is being deleted is in the queue or in the worker's  *)
(* hands until its finalizer is gone.                                      *)
(***************************************************************************)
LEMMA StepDeletingSeen ==
    ASSUME IInv, DeletingSeen, [Next]_vars
    PROVE  DeletingSeen'
  <1>0. TypeOK
    BY DEF IInv
  <1> USE <1>0, ConstantTypes, Shapes DEF DeletingSeen, Deleting
  <1>1. CASE UNCHANGED <<rbs, rbWorker>> /\ rbQueue \subseteq rbQueue'
    BY <1>1
  <1>2. ASSUME NEW x \in Names, CreateRB(x) PROVE DeletingSeen'
    BY <1>2 DEF CreateRB
  <1>3. ASSUME NEW x \in Names, NEW n \in Nodes, DeleteRB(n, x) PROVE DeletingSeen'
    BY <1>3 DEF DeleteRB, Deleted
  <1>4. ASSUME NEW b \in Nodes \X Names, ReconcileRB(b) PROVE DeletingSeen'
    BY <1>4, TakesUp
  <1>5. CASE RBWork
    <2>1. CASE AddRBFinalizer
      BY <2>1 DEF AddRBFinalizer, RBStep, RBRequeue
    <2>2. ASSUME NEW c \in SNSs, CreateRoleBinding(c) PROVE DeletingSeen'
      BY <2>2 DEF CreateRoleBinding, Copy, RBDone, RBRequeue
    <2>3. CASE AddSubjectsToHNSView
      BY <2>3 DEF AddSubjectsToHNSView, RBEnd
    <2>4. CASE DeleteSubjectsFromHNSView
      BY <2>4 DEF DeleteSubjectsFromHNSView, RBStep
    <2>5. ASSUME NEW c \in SNSs, DeleteRoleBinding(c) PROVE DeletingSeen'
      BY <2>5 DEF DeleteRoleBinding, Deleted, RBDone
    <2>6. CASE DeleteRBFinalizer
      BY <2>6 DEF DeleteRBFinalizer, RBEnd, RBRequeue
    <2>7. QED
      BY <1>5, <2>1, <2>2, <2>3, <2>4, <2>5, <2>6 DEF RBWork
  <1>6. ASSUME NEW n \in SNSs, DeleteContents(n) PROVE DeletingSeen'
    BY <1>6 DEF DeleteContents, Contents, Deleted
  <1>7. ASSUME NEW x \in Names, CreateParentRoleBindingInNS(x) PROVE DeletingSeen'
    BY <1>7 DEF CreateParentRoleBindingInNS, Copy
  <1>8. CASE Fail
    BY <1>8 DEF Fail, RBRequeue, cluster, rbCtrl
  <1>9. CASE Restart
    BY <1>9 DEF Restart, cluster
  <1>10. CASE UNCHANGED vars
    BY <1>1, <1>10 DEF vars
  <1>11. CASE \/ \E n \in SNSs : CreateSNS(n) \/ DeleteNamespace(n) \/ ReconcileNS(n) \/ CreateNamespace(n) \/ RemoveNamespace(n)
              \/ AddNSFinalizer \/ CreateHNSView \/ ListParentRoleBindings
              \/ UpdateNSRole \/ DeleteSNSFromParentNS \/ DeleteNSHnsView \/ DeleteNSFinalizer
    <2>1. UNCHANGED <<rbs, rbWorker, rbQueue>>
      BY <1>11 DEF CreateSNS, DeleteNamespace, ReconcileNS, CreateNamespace, RemoveNamespace, AddNSFinalizer, CreateHNSView,
          ListParentRoleBindings, UpdateNSRole, DeleteSNSFromParentNS, DeleteNSHnsView, DeleteNSFinalizer, cluster, rbCtrl
    <2>2. QED
      BY <1>1, <2>1
  <1>12. QED
    BY <1>2, <1>3, <1>4, <1>5, <1>6, <1>7, <1>8, <1>9, <1>10, <1>11 DEF Next, NSWork, Cluster

(***************************************************************************)
(* The worker has yet to see to children of the namespace it works for.    *)
(***************************************************************************)
LEMMA StepListedChildren ==
    ASSUME IInv, ListedChildren, [Next]_vars
    PROVE  ListedChildren'
  <1>0. TypeOK
    BY DEF IInv
  <1> USE <1>0, Shapes DEF ListedChildren
  <1>1. CASE rbWorker'.todo = {}
    BY <1>1
  <1>2. CASE rbWorker'.rb = rbWorker.rb /\ rbWorker'.todo \subseteq rbWorker.todo
    BY <1>2
  <1>3. ASSUME NEW b \in Nodes \X Names, ReconcileRB(b) PROVE ListedChildren'
    BY <1>1, <1>3, TakesUp DEF Children
  <1>4. CASE RBWork
    <2>1. CASE AddRBFinalizer \/ AddSubjectsToHNSView \/ DeleteSubjectsFromHNSView \/ DeleteRBFinalizer
      BY <1>1, <1>2, <2>1 DEF AddRBFinalizer, AddSubjectsToHNSView, DeleteSubjectsFromHNSView, DeleteRBFinalizer,
          RBStep, RBEnd, RBRequeue
    <2>2. ASSUME NEW c \in SNSs, CreateRoleBinding(c) \/ DeleteRoleBinding(c) PROVE ListedChildren'
      BY <1>1, <1>2, <2>2 DEF CreateRoleBinding, DeleteRoleBinding, RBDone, RBRequeue
    <2>3. QED
      BY <1>4, <2>1, <2>2 DEF RBWork
  <1>5. CASE \/ \E x \in Names : CreateRB(x) \/ \E n \in Nodes : DeleteRB(n, x)
             \/ \E n \in SNSs : CreateSNS(n) \/ DeleteNamespace(n) \/ ReconcileNS(n)
             \/ NSWork \/ Cluster \/ UNCHANGED vars
    BY <1>2, <1>5 DEF CreateRB, DeleteRB, CreateSNS, DeleteNamespace, ReconcileNS, NSWork, AddNSFinalizer, CreateHNSView,
        ListParentRoleBindings, CreateParentRoleBindingInNS, UpdateNSRole, DeleteSNSFromParentNS, DeleteNSHnsView,
        DeleteNSFinalizer, Cluster, CreateNamespace, DeleteContents, RemoveNamespace, rbCtrl, vars
  <1>6. CASE Fail \/ Restart
    BY <1>1, <1>2, <1>6 DEF Fail, Restart, RBRequeue, rbCtrl
  <1>7. QED
    BY <1>3, <1>4, <1>5, <1>6 DEF Next

(***************************************************************************)
(* The namespace that the worker is at stays there, and terminating, until *)
(* the worker is done; or the history says that it did not.                *)
(***************************************************************************)
LEMMA StepWorksOnPresent ==
    ASSUME IInv, NewHasNoNS, WorksOnPresent, [Next]_vars
    PROVE  WorksOnPresent'
  <1>0. TypeOK /\ Enqueued
    BY DEF IInv
  <1>1. SUFFICES ASSUME ~late', nsWorker'.at # "idle"
                 PROVE  /\ ns'[nsWorker'.n] # "absent"
                        /\ nsWorker'.at \in {"deleteSNS", "deleteView", "drop"} => ns'[nsWorker'.n] = "terminating"
    BY Zenon DEF WorksOnPresent
  <1>2. ~late
    BY <1>0, <1>1, HistoryKept
  <1> USE <1>0, <1>1, <1>2, ConstantTypes, Shapes DEF WorksOnPresent
  <1>3. CASE UNCHANGED <<ns, nsWorker>>
    BY <1>3
  <1>4. CASE \/ \E x \in Names : CreateRB(x) \/ \E n \in Nodes : DeleteRB(n, x)
             \/ RBWork \/ \E b \in Nodes \X Names : ReconcileRB(b)
    BY <1>3, <1>4, RBFrame
  <1>5. ASSUME NEW n \in SNSs, CreateSNS(n) \/ DeleteContents(n) PROVE WorksOnPresent'
    BY <1>3, <1>5 DEF CreateSNS, DeleteContents, nsCtrl
  <1>6. ASSUME NEW n \in SNSs, DeleteNamespace(n) PROVE WorksOnPresent'
    BY <1>6 DEF DeleteNamespace
  <1>7. ASSUME NEW n \in SNSs, CreateNamespace(n) PROVE WorksOnPresent'
    BY <1>7 DEF CreateNamespace, NewHasNoNS
  <1>8. ASSUME NEW n \in SNSs, RemoveNamespace(n) PROVE WorksOnPresent'
    <2>1. nsWorker.n # n
      BY <1>8, Zenon DEF RemoveNamespace
    <2>2. QED
      BY <1>8, <2>1 DEF RemoveNamespace, nsCtrl
  <1>9. ASSUME NEW n \in SNSs, ReconcileNS(n) PROVE WorksOnPresent'
    BY <1>9 DEF ReconcileNS, cluster, TypeOK
  <1>10. CASE NSWork
    BY <1>10 DEF NSWork, AddNSFinalizer, CreateHNSView, ListParentRoleBindings, CreateParentRoleBindingInNS,
        UpdateNSRole, DeleteSNSFromParentNS, DeleteNSHnsView, DeleteNSFinalizer, NSStep, NSRequeue, cluster
  <1>11. CASE Fail \/ Restart
    BY <1>3, <1>11 DEF Fail, Restart, NSRequeue, cluster, nsCtrl
  <1>12. CASE UNCHANGED vars
    BY <1>3, <1>12 DEF vars
  <1>13. QED
    BY <1>4, <1>5, <1>6, <1>7, <1>8, <1>9, <1>10, <1>11, <1>12 DEF Next, Cluster

(***************************************************************************)
(* Initially nothing is under way, and every object is where it belongs.   *)
(***************************************************************************)
LEMMA InitPlaces == Init => Places
  <1> SUFFICES ASSUME Init PROVE Places
    OBVIOUS
  <1>1. PICK there \in SUBSET SNSs, bound \in SUBSET Names : Start(there, bound)
    BY DEF Init
  <1>2. /\ \A n \in SNSs : sns[n] = IF n \in there THEN "created" ELSE "absent"
        /\ \A n \in SNSs : ns[n] = IF n \in there THEN "active" ELSE "absent"
        /\ \A n \in SNSs : role[n] = "leaf" <=> ~\E c \in there : Parent[c] = n
        /\ \A b \in Nodes \X Names : rbs[b] = IF b[1] \in there \cup {Root} /\ b[2] \in bound THEN "ready" ELSE "absent"
        /\ finalizer = there /\ nsWorker.at = "idle" /\ rbWorker.at = "idle" /\ rbWorker.todo = {}
    BY <1>1, ConstantTypes DEF Start, SNSs, RBIdle
  <1>3. \A n \in SNSs : Children(n) = {c \in there : Parent[c] = n}
    BY <1>2 DEF Children
  <1>4. \A n \in SNSs \ there, x \in Names : rbs[<<n, x>>] = "absent"
    BY <1>2, ConstantTypes DEF SNSs
  <1>5. NewHasNoNS /\ GoneIsEmpty /\ NotYet
    BY <1>2, <1>4 DEF NewHasNoNS, GoneIsEmpty, NotYet
  <1>6. RoleNoticed
    BY <1>2, <1>3 DEF RoleNoticed
  <1>7. DeletingSeen /\ ListedChildren /\ WorksOnPresent
    BY <1>2 DEF DeletingSeen, ListedChildren, WorksOnPresent, Deleting
  <1>8. QED
    BY <1>5, <1>6, <1>7 DEF Places

(***************************************************************************)
(* Every step keeps the objects where they belong.                         *)
(***************************************************************************)
LEMMA StepPlaces == IInv /\ Places /\ [Next]_vars => Places'
  BY StepEmpty, StepRoleNoticed, StepDeletingSeen, StepListedChildren, StepWorksOnPresent DEF Places
-----------------------------------------------------------------------------
(***************************************************************************)
(* The history of the other hazards is never forgotten, except that a      *)
(* restart repairs what was missed.                                        *)
(***************************************************************************)
LEMMA FlagsKept ==
    ASSUME TypeOK, [Next]_vars
    PROVE  /\ bare => bare'
           /\ unsafe => unsafe'
           /\ unseen => unseen'
           /\ ~Restart => (missed => missed')
  <1> DEFINE Kept == /\ bare => bare'
                     /\ unsafe => unsafe'
                     /\ unseen => unseen'
                     /\ ~Restart => (missed => missed')
  <1>1. ASSUME NEW n \in SNSs, DeleteNamespace(n) PROVE Kept
    BY <1>1, Zenon DEF DeleteNamespace
  <1>2. CASE AddSubjectsToHNSView
    <2>1. (unsafe => unsafe') /\ (unseen => unseen')
      BY <1>2, Zenon DEF AddSubjectsToHNSView
    <2>2. UNCHANGED <<bare, missed>>
      BY <1>2 DEF AddSubjectsToHNSView
    <2>3. QED
      BY <2>1, <2>2
  <1>3. ASSUME NEW c \in SNSs, CreateRoleBinding(c) PROVE Kept
    <2>1. (unsafe => unsafe') /\ (missed => missed')
      <3>1. Copy(rbWorker.rb, c) \/ UNCHANGED <<unsafe, missed>>
        BY <1>3 DEF CreateRoleBinding
      <3>2. ASSUME Copy(rbWorker.rb, c) PROVE (unsafe => unsafe') /\ (missed => missed')
        BY <3>2, Zenon DEF Copy
      <3>3. QED
        BY <3>1, <3>2
    <2>2. UNCHANGED <<bare, unseen>>
      BY <1>3 DEF CreateRoleBinding
    <2>3. QED
      BY <2>1, <2>2
  <1>4. ASSUME NEW x \in Names, CreateParentRoleBindingInNS(x) PROVE Kept
    <2>1. (unsafe => unsafe') /\ (missed => missed')
      <3>1. Copy(<<Parent[nsWorker.n], x>>, nsWorker.n) \/ UNCHANGED <<unsafe, missed>>
        BY <1>4 DEF CreateParentRoleBindingInNS
      <3>2. ASSUME Copy(<<Parent[nsWorker.n], x>>, nsWorker.n) PROVE (unsafe => unsafe') /\ (missed => missed')
        BY <3>2, Zenon DEF Copy
      <3>3. QED
        BY <3>1, <3>2
    <2>2. UNCHANGED <<bare, unseen>>
      BY <1>4 DEF CreateParentRoleBindingInNS
    <2>3. QED
      BY <2>1, <2>2
  <1>5. CASE Fail
    <2>1. UNCHANGED missed \/ missed' = (missed \/ nsWorker.at \in {"view", "list", "copy"})
      BY <1>5 DEF Fail
    <2>2. missed => missed'
      BY <2>1, Zenon
    <2>3. UNCHANGED <<bare, unsafe, unseen>>
      BY <1>5 DEF Fail
    <2>4. QED
      BY <2>2, <2>3
  <1>6. CASE Restart
    BY <1>6, Zenon DEF Restart
  <1>7. CASE UNCHANGED <<bare, unsafe, unseen, missed>>
    BY <1>7
  <1>8. CASE \/ AddNSFinalizer \/ CreateHNSView \/ ListParentRoleBindings \/ UpdateNSRole
             \/ DeleteSNSFromParentNS \/ DeleteNSHnsView \/ DeleteNSFinalizer
             \/ AddRBFinalizer \/ DeleteSubjectsFromHNSView \/ DeleteRBFinalizer
             \/ \E c \in SNSs : DeleteRoleBinding(c)
             \/ \E b \in Nodes \X Names : ReconcileRB(b)
             \/ \E n \in SNSs : ReconcileNS(n) \/ CreateSNS(n) \/ CreateNamespace(n) \/ DeleteContents(n) \/ RemoveNamespace(n)
             \/ \E x \in Names : CreateRB(x) \/ \E n \in Nodes : DeleteRB(n, x)
             \/ UNCHANGED vars
    BY <1>7, <1>8 DEF CreateRB, DeleteRB, CreateSNS, ReconcileNS, ReconcileRB,
      AddNSFinalizer, CreateHNSView, ListParentRoleBindings, UpdateNSRole,
      DeleteSNSFromParentNS, DeleteNSHnsView, DeleteNSFinalizer, AddRBFinalizer,
      DeleteSubjectsFromHNSView, DeleteRBFinalizer, DeleteRoleBinding, CreateNamespace,
      DeleteContents, RemoveNamespace, vars, history
  <1>9. QED
    BY <1>1, <1>2, <1>3, <1>4, <1>5, <1>6, <1>8, Zenon DEF Next, NSWork, RBWork, Cluster

(***************************************************************************)
(* cleanUp deletes the Subnamespace, then the view, then the finalizer,    *)
(* and only then the namespace goes; nobody puts them back.                *)
(***************************************************************************)
LEMMA StepCleanedUp ==
    ASSUME IInv, Places, CleanedUp, [Next]_vars
    PROVE  CleanedUp'
  <1> DEFINE Clean(n) ==
        /\ ns[n] = "absent" => sns[n] # "created" /\ n \notin hasView
        /\ InHand(n, {"deleteView", "drop"}) => sns[n] = "absent"
        /\ InHand(n, {"drop"}) => n \notin hasView
        /\ ns[n] = "terminating" /\ n \notin finalizer =>
            /\ sns[n] = "absent" /\ n \notin hasView
            /\ ~InHand(n, {"finalizer", "view", "list", "copy", "sync", "role"})
  <1>1. SUFFICES ASSUME ~bare', ~late', NEW n \in SNSs PROVE Clean(n)'
    BY Zenon DEF CleanedUp
  <1>0. TypeOK /\ Enqueued
    BY DEF IInv
  <1>2. ~bare /\ ~late
    BY <1>0, <1>1, FlagsKept, HistoryKept
  <1>3. Clean(n)
    BY <1>2 DEF CleanedUp
  <1>4. nsWorker.at # "idle" =>
            ns[nsWorker.n] # "absent"
            /\ (nsWorker.at \in {"deleteSNS", "deleteView", "drop"} => ns[nsWorker.n] = "terminating")
    BY <1>2 DEF Places, WorksOnPresent
  <1>5. NewHasNoNS
    BY DEF Places
  <1> USE <1>0, <1>3, <1>4, ConstantTypes, Shapes DEF InHand
  <1>6. CASE UNCHANGED <<sns, ns, finalizer, hasView, nsWorker>>
    BY <1>6
  <1>7. CASE \/ \E x \in Names : CreateRB(x) \/ \E m \in Nodes : DeleteRB(m, x)
             \/ RBWork \/ \E b \in Nodes \X Names : ReconcileRB(b)
    BY <1>6, <1>7, RBFrame
  <1>8. ASSUME NEW m \in SNSs, CreateSNS(m) PROVE Clean(n)'
    BY <1>8 DEF CreateSNS, nsCtrl
  <1>9. ASSUME NEW m \in SNSs, DeleteNamespace(m) PROVE Clean(n)'
    <2>1. m \in finalizer
      BY <1>1, <1>9, Zenon DEF DeleteNamespace
    <2>2. QED
      BY <1>9, <2>1 DEF DeleteNamespace
  <1>10. ASSUME NEW m \in SNSs, CreateNamespace(m) PROVE Clean(n)'
    BY <1>5, <1>10 DEF CreateNamespace, NewHasNoNS
  <1>11. ASSUME NEW m \in SNSs, DeleteContents(m) PROVE Clean(n)'
    BY <1>11 DEF DeleteContents
  <1>12. ASSUME NEW m \in SNSs, RemoveNamespace(m) PROVE Clean(n)'
    BY <1>12 DEF RemoveNamespace, nsCtrl
  <1>13. ASSUME NEW m \in SNSs, ReconcileNS(m) PROVE Clean(n)'
    BY <1>13 DEF ReconcileNS, cluster, TypeOK
  <1>14. CASE NSWork
    <2>1. CASE AddNSFinalizer
      BY <2>1 DEF AddNSFinalizer, NSStep, NSRequeue
    <2>2. CASE CreateHNSView
      BY <2>2 DEF CreateHNSView, NSStep
    <2>3. CASE ListParentRoleBindings
      BY <2>3 DEF ListParentRoleBindings, cluster
    <2>4. ASSUME NEW x \in Names, CreateParentRoleBindingInNS(x) PROVE Clean(n)'
      BY <2>4 DEF CreateParentRoleBindingInNS, NSRequeue
    <2>5. CASE UpdateNSRole
      BY <2>5 DEF UpdateNSRole, NSRequeue
    <2>6. CASE DeleteSNSFromParentNS
      BY <2>6 DEF DeleteSNSFromParentNS, NSStep
    <2>7. CASE DeleteNSHnsView
      BY <2>7 DEF DeleteNSHnsView, NSStep
    <2>8. CASE DeleteNSFinalizer
      BY <2>8 DEF DeleteNSFinalizer, NSRequeue
    <2>9. QED
      BY <1>14, <2>1, <2>2, <2>3, <2>4, <2>5, <2>6, <2>7, <2>8 DEF NSWork
  <1>15. CASE Fail \/ Restart
    BY <1>15 DEF Fail, Restart, NSRequeue, cluster, nsCtrl
  <1>16. CASE UNCHANGED vars
    BY <1>6, <1>16 DEF vars
  <1>17. QED
    BY <1>7, <1>8, <1>9, <1>10, <1>11, <1>12, <1>13, <1>14, <1>15, <1>16 DEF Next, Cluster

(***************************************************************************)
(* Copies are made only of RoleBindings that are ready, which go only when *)
(* the worker has deleted the copies in all the children; and a child is   *)
(* not forgotten while it is active.                                       *)
(***************************************************************************)
LEMMA StepCopiesOfSomething ==
    ASSUME IInv, Places, CopiesOfSomething, [Next]_vars
    PROVE  CopiesOfSomething'
  <1> DEFINE Founded(n, x) ==
        Bound(n, x) =>
            /\ sns[n] # "absent"
            /\ rbs[<<Parent[n], x>>] \in {"ready", "deleting"}
            /\ Deleting(<<Parent[n], x>>) => n \in rbWorker.todo
  <1>1. SUFFICES ASSUME ~unsafe', ~slipped', ~late', NEW n \in SNSs, NEW x \in Names PROVE Founded(n, x)'
    BY Zenon DEF CopiesOfSomething
  <1>0. TypeOK
    BY DEF IInv
  <1>2. ~unsafe /\ ~slipped /\ ~late
    BY <1>0, <1>1, FlagsKept, HistoryKept
  <1>3. Founded(n, x)
    BY <1>2 DEF CopiesOfSomething
  <1>4. InActive /\ HasSNS /\ CleansUp
    BY <1>2 DEF IInv, Guarded, Safe
  <1>5. NewHasNoNS /\ GoneIsEmpty /\ DeletingSeen /\ ListedChildren
    BY DEF Places
  <1>6. <<n, x>> \in Nodes \X Names /\ <<Parent[n], x>> \in Nodes \X Names /\ <<n, x>> # <<Parent[n], x>>
    BY ConstantTypes, RoleBindingsAssumption
  <1> USE <1>0, <1>3, <1>6, ConstantTypes, Shapes DEF Bound, Deleting
  <1>7. CASE /\ UNCHANGED <<sns, ns, rbs>>
             /\ rbWorker' = rbWorker \/ rbWorker'.at \notin {"deleteSubjects", "delete"}
    BY <1>7
  <1>8. ASSUME NEW y \in Names, CreateRB(y) PROVE Founded(n, x)'
    BY <1>8 DEF CreateRB, SNSs
  <1>9. ASSUME NEW y \in Names, NEW m \in Nodes, DeleteRB(m, y) PROVE Founded(n, x)'
    BY <1>9 DEF DeleteRB, Deleted
  <1>10. ASSUME NEW m \in SNSs, CreateSNS(m) PROVE Founded(n, x)'
    BY <1>10 DEF CreateSNS, rbCtrl
  <1>11. ASSUME NEW m \in SNSs, DeleteNamespace(m) PROVE Founded(n, x)'
    BY <1>11 DEF DeleteNamespace, rbCtrl
  <1>12. ASSUME NEW m \in SNSs, CreateNamespace(m) PROVE Founded(n, x)'
    BY <1>5, <1>12 DEF CreateNamespace, NewHasNoNS, GoneIsEmpty, rbCtrl
  <1>13. ASSUME NEW m \in SNSs, DeleteContents(m) PROVE Founded(n, x)'
    <2>1. n \notin Children(m) \/ m = Root
      BY <1>4, <1>13 DEF DeleteContents, InActive, Children
    <2>2. sns'[n] = sns[n]
      BY <1>13, <2>1 DEF DeleteContents, SNSs
    <2>3. rbs' = [b \in Nodes \X Names |-> IF b[1] = m THEN Deleted(rbs[b]) ELSE rbs[b]]
      BY <1>13 DEF DeleteContents
    <2>4. rbs'[<<n, x>>] = rbs[<<n, x>>] \/ n = m
      BY <2>3
    <2>5. rbs[<<Parent[n], x>>] \in {"ready", "deleting"} => rbs'[<<Parent[n], x>>] \in {"ready", "deleting"}
      BY <2>3 DEF Deleted
    <2>6. QED
      BY <1>13, <2>2, <2>4, <2>5 DEF DeleteContents
  <1>14. ASSUME NEW m \in SNSs, RemoveNamespace(m) PROVE Founded(n, x)'
    BY <1>14 DEF RemoveNamespace, Contents, rbCtrl
  <1>15. ASSUME NEW b \in Nodes \X Names, ReconcileRB(b) PROVE Founded(n, x)'
    BY <1>15, TakesUp, RBFrame DEF Children
  <1>16. CASE RBWork
    <2>0. UNCHANGED <<sns, ns>>
      BY <1>16, RBFrame
    <2>1. CASE AddRBFinalizer
      BY <2>0, <2>1 DEF AddRBFinalizer, RBStep, RBRequeue
    <2>2. ASSUME NEW c \in SNSs, CreateRoleBinding(c) PROVE Founded(n, x)'
      <3>0. rbWorker.at = "copy" /\ c \in rbWorker.todo /\ Parent[c] = rbWorker.rb[1]
        BY <1>5, <2>2 DEF CreateRoleBinding, ListedChildren
      <3>1. rbWorker'.at \notin {"deleteSubjects", "delete"}
        BY <2>2 DEF CreateRoleBinding, RBDone, RBRequeue
      <3>2. CASE rbs' = rbs
        BY <1>7, <2>0, <3>1, <3>2
      <3>3. CASE rbs[<<c, rbWorker.rb[2]>>] = "absent" /\ rbs' # rbs
        <4>1. ns[c] = "active" /\ Copy(rbWorker.rb, c)
          BY <2>2, <3>3 DEF CreateRoleBinding
        <4>2. rbs[rbWorker.rb] = "ready"
          BY <1>1, <3>3, <4>1, Zenon DEF Copy
        <4>3. sns[c] # "absent"
          BY <1>4, <4>1 DEF HasSNS
        <4>4. QED
          BY <2>0, <3>0, <3>1, <3>3, <4>1, <4>2, <4>3 DEF Copy
      <3>4. QED
        <4>1. rbs[<<c, rbWorker.rb[2]>>] # "absent" /\ Copy(rbWorker.rb, c) => rbs' = rbs
          BY DEF Copy, TypeOK
        <4>2. QED
          BY <2>2, <3>2, <3>3, <4>1 DEF CreateRoleBinding
    <2>3. CASE AddSubjectsToHNSView
      BY <1>7, <2>0, <2>3 DEF AddSubjectsToHNSView, RBEnd
    <2>4. CASE DeleteSubjectsFromHNSView
      BY <2>0, <2>4 DEF DeleteSubjectsFromHNSView, RBStep
    <2>5. ASSUME NEW c \in SNSs, DeleteRoleBinding(c) PROVE Founded(n, x)'
      BY <2>0, <2>5 DEF DeleteRoleBinding, Deleted, RBDone
    <2>6. CASE DeleteRBFinalizer
      BY <2>0, <2>6 DEF DeleteRBFinalizer, RBEnd, RBRequeue
    <2>7. QED
      BY <1>16, <2>1, <2>2, <2>3, <2>4, <2>5, <2>6 DEF RBWork
  <1>17. ASSUME NEW y \in Names, CreateParentRoleBindingInNS(y) PROVE Founded(n, x)'
    <2> DEFINE m == nsWorker.n
    <2>0. UNCHANGED <<sns, ns, rbWorker>> /\ m \in SNSs
      BY <1>17 DEF CreateParentRoleBindingInNS
    <2>1. CASE rbs' = rbs
      BY <1>7, <2>0, <2>1
    <2>2. CASE rbs[<<m, y>>] = "absent" /\ rbs' # rbs
      <3>1. ns[m] = "active" /\ Copy(<<Parent[m], y>>, m)
        BY <1>17, <2>2 DEF CreateParentRoleBindingInNS
      <3>2. rbs[<<Parent[m], y>>] = "ready"
        BY <1>1, <2>2, <3>1, Zenon DEF Copy
      <3>3. sns[m] # "absent"
        BY <1>4, <2>0, <3>1 DEF HasSNS
      <3>4. rbs' = [rbs EXCEPT ![<<m, y>>] = "new"]
        BY <2>2, <3>1 DEF Copy
      <3>5. CASE n = m /\ x = y
        BY <1>5, <2>0, <3>2, <3>3, <3>4, <3>5 DEF DeletingSeen
      <3>6. CASE <<n, x>> # <<m, y>>
        BY <2>0, <2>2, <3>4, <3>6
      <3>7. QED
        BY <3>5, <3>6
    <2>3. QED
      BY <1>17, <2>1, <2>2 DEF CreateParentRoleBindingInNS, Copy
  <1>18. CASE DeleteSNSFromParentNS
    BY <1>4, <1>18 DEF DeleteSNSFromParentNS, CleansUp, rbCtrl
  <1>19. CASE \/ AddNSFinalizer \/ CreateHNSView \/ ListParentRoleBindings \/ UpdateNSRole \/ DeleteNSHnsView \/ DeleteNSFinalizer
              \/ \E m \in SNSs : ReconcileNS(m)
              \/ UNCHANGED vars
    BY <1>7, <1>19 DEF AddNSFinalizer, CreateHNSView, ListParentRoleBindings, UpdateNSRole, DeleteNSHnsView,
        DeleteNSFinalizer, ReconcileNS, cluster, rbCtrl, vars
  <1>20. CASE Fail \/ Restart
    BY <1>7, <1>20 DEF Fail, Restart, RBRequeue, cluster, rbCtrl
  <1>21. QED
    BY <1>8, <1>9, <1>10, <1>11, <1>12, <1>13, <1>14, <1>15, <1>16, <1>17, <1>18, <1>19, <1>20 DEF Next, NSWork, Cluster

(***************************************************************************)
(* A RoleBinding is copied to a child by whichever controller comes first: *)
(* a child that the RoleBinding controller did not list is new to the      *)
(* namespace controller, which lists the RoleBindings after that.          *)
(***************************************************************************)
LEMMA StepCopiesUnderWay ==
    ASSUME IInv, Places, CopiesUnderWay, [Next]_vars
    PROVE  CopiesUnderWay'
  <1> DEFINE UnderWay(n, x) ==
        ns[n] = "active" /\ rbs[<<Parent[n], x>>] # "absent" /\ rbs[<<n, x>>] \in {"absent", "deleting"}
        => ToBeCopied(n, x)
  <1>1. SUFFICES ASSUME ~missed', ~slipped', ~late', NEW n \in SNSs, NEW x \in Names PROVE UnderWay(n, x)'
    BY Zenon DEF CopiesUnderWay
  <1>0. TypeOK
    BY DEF IInv
  <1>6. <<n, x>> \in Nodes \X Names /\ <<Parent[n], x>> \in Nodes \X Names /\ <<n, x>> # <<Parent[n], x>>
    BY ConstantTypes, RoleBindingsAssumption
  <1>2. CASE Restart
    BY <1>2, <1>6 DEF Restart, cluster, ToBeCopied
  <1>3. SUFFICES ASSUME ~Restart PROVE UnderWay(n, x)'
    BY <1>2
  <1>4. ~missed /\ ~slipped /\ ~late
    BY <1>0, <1>1, <1>3, FlagsKept, HistoryKept
  <1>5. UnderWay(n, x)
    BY <1>4 DEF CopiesUnderWay
  <1>7. HasSNS
    BY <1>4 DEF IInv, Guarded, Safe
  <1>8. NewHasNoNS /\ GoneIsEmpty /\ NotYet /\ DeletingSeen /\ ListedChildren
    BY DEF Places
  <1> USE <1>0, <1>5, <1>6, ConstantTypes, Shapes DEF ToBeCopied, InHand, Deleting
  <1>9. CASE UNCHANGED <<ns, finalizer, rbs, rbWorker, nsWorker>> /\ nsQueue \subseteq nsQueue' /\ rbQueue \subseteq rbQueue'
    BY <1>9
  <1>10. ASSUME NEW y \in Names, CreateRB(y) PROVE UnderWay(n, x)'
    BY <1>10 DEF CreateRB, nsCtrl, SNSs
  <1>11. ASSUME NEW y \in Names, NEW m \in Nodes, DeleteRB(m, y) PROVE UnderWay(n, x)'
    <2>1. UNCHANGED <<ns, finalizer, rbWorker, nsWorker, nsQueue>> /\ rbQueue' = rbQueue \cup {<<m, y>>}
      BY <1>11 DEF DeleteRB, nsCtrl
    <2>2. rbs' = [rbs EXCEPT ![<<m, y>>] = Deleted(@)] /\ DeleteRBAllowed(m, y)
      BY <1>11 DEF DeleteRB
    <2>3. CASE <<m, y>> = <<n, x>>
      BY <1>8, <2>1, <2>2, <2>3 DEF DeleteRBAllowed, ValidateParentRoleBinding, DeletingSeen, SNSs
    <2>4. CASE <<m, y>> # <<n, x>>
      BY <2>1, <2>2, <2>4
    <2>5. QED
      BY <2>3, <2>4
  <1>12. ASSUME NEW m \in SNSs, CreateSNS(m) PROVE UnderWay(n, x)'
    BY <1>9, <1>12 DEF CreateSNS, nsCtrl, rbCtrl
  <1>13. ASSUME NEW m \in SNSs, DeleteNamespace(m) PROVE UnderWay(n, x)'
    BY <1>13 DEF DeleteNamespace, rbCtrl
  <1>14. ASSUME NEW m \in SNSs, CreateNamespace(m) PROVE UnderWay(n, x)'
    BY <1>8, <1>14 DEF CreateNamespace, NewHasNoNS, GoneIsEmpty, rbCtrl
  <1>15. ASSUME NEW m \in SNSs, DeleteContents(m) PROVE UnderWay(n, x)'
    <2>1. /\ ns[m] = "terminating" /\ UNCHANGED <<ns, finalizer, rbWorker, nsWorker>> /\ nsQueue \subseteq nsQueue'
          /\ rbs' = [b \in Nodes \X Names |-> IF b[1] = m THEN Deleted(rbs[b]) ELSE rbs[b]]
          /\ rbQueue' = rbQueue \cup Contents(m)
      BY <1>15 DEF DeleteContents
    <2>2. CASE n = m
      BY <2>1, <2>2
    <2>3. CASE n # m
      <3>1. rbs'[<<n, x>>] = rbs[<<n, x>>]
        BY <2>1, <2>3
      <3>2. rbs'[<<Parent[n], x>>] # "absent" => rbs[<<Parent[n], x>>] # "absent"
        BY <2>1 DEF Deleted
      <3>3. QED
        BY <2>1, <3>1, <3>2
    <2>4. QED
      BY <2>2, <2>3
  <1>16. ASSUME NEW m \in SNSs, RemoveNamespace(m) PROVE UnderWay(n, x)'
    BY <1>16 DEF RemoveNamespace, nsCtrl, rbCtrl
  <1>17. ASSUME NEW b \in Nodes \X Names, ReconcileRB(b) PROVE UnderWay(n, x)'
    <2>1. UNCHANGED <<ns, sns, finalizer, nsWorker, nsQueue>>
      BY <1>17, RBFrame
    <2>2. ns[n] = "active" => n \in Children(Parent[n])
      BY <1>7 DEF HasSNS, Children
    <2>3. CASE b = <<Parent[n], x>>
      BY <1>17, <2>1, <2>2, <2>3, TakesUp
    <2>4. CASE b # <<Parent[n], x>>
      BY <1>17, <2>1, <2>4, TakesUp
    <2>5. QED
      BY <2>3, <2>4
  <1>18. CASE RBWork
    <2>0. UNCHANGED <<ns, finalizer, nsWorker, nsQueue>>
      BY <1>18, RBFrame
    <2>1. CASE AddRBFinalizer
      BY <2>0, <2>1 DEF AddRBFinalizer, RBStep, RBRequeue
    <2>2. ASSUME NEW c \in SNSs, CreateRoleBinding(c) PROVE UnderWay(n, x)'
      <3>0. /\ rbWorker.at = "copy" /\ c \in rbWorker.todo /\ Parent[c] = rbWorker.rb[1]
            /\ \/ Copy(rbWorker.rb, c) /\ RBDone(c)
               \/ RBRequeue /\ UNCHANGED rbs
        BY <1>8, <2>2 DEF CreateRoleBinding, ListedChildren
      <3>1. CASE RBRequeue /\ UNCHANGED rbs
        BY <2>0, <3>0, <3>1 DEF RBRequeue
      <3>2. CASE Copy(rbWorker.rb, c) /\ RBDone(c)
        <4>1. rbs[<<c, rbWorker.rb[2]>>] # "deleting"
          BY <1>1, <3>2, Zenon DEF Copy
        <4>2. /\ rbs' = [rbs EXCEPT ![<<c, rbWorker.rb[2]>>] = IF @ = "absent" THEN "new" ELSE @]
              /\ rbQueue' = rbQueue \cup IF rbs[<<c, rbWorker.rb[2]>>] = "absent" THEN {<<c, rbWorker.rb[2]>>} ELSE {}
              /\ rbWorker' = [rbWorker EXCEPT !.todo = @ \ {c}]
          BY <3>2 DEF Copy, RBDone
        <4>3. CASE n = c /\ x = rbWorker.rb[2]
          BY <2>0, <4>1, <4>2, <4>3
        <4>4. CASE ~(n = c /\ x = rbWorker.rb[2])
          BY <2>0, <3>0, <4>2, <4>4
        <4>5. QED
          BY <4>3, <4>4
      <3>3. QED
        BY <3>0, <3>1, <3>2
    <2>3. CASE AddSubjectsToHNSView
      BY <2>0, <2>3 DEF AddSubjectsToHNSView, RBEnd
    <2>4. CASE DeleteSubjectsFromHNSView
      BY <2>0, <2>4 DEF DeleteSubjectsFromHNSView, RBStep
    <2>5. ASSUME NEW c \in SNSs, DeleteRoleBinding(c) PROVE UnderWay(n, x)'
      <3> DEFINE b == <<c, rbWorker.rb[2]>>
      <3>1. /\ rbWorker.at = "delete" /\ DeleteRBAllowed(c, rbWorker.rb[2])
            /\ rbs' = [rbs EXCEPT ![b] = Deleted(@)]
            /\ rbQueue' = rbQueue \cup IF rbs[b] = "absent" THEN {} ELSE {b}
            /\ rbWorker' = [rbWorker EXCEPT !.todo = @ \ {c}]
        BY <2>5 DEF DeleteRoleBinding, RBDone
      <3>2. CASE b = <<n, x>>
        BY <1>8, <2>0, <3>1, <3>2 DEF DeleteRBAllowed, ValidateParentRoleBinding, DeletingSeen, SNSs
      <3>3. CASE b # <<n, x>>
        BY <2>0, <3>1, <3>3 DEF Deleted
      <3>4. QED
        BY <3>2, <3>3
    <2>6. CASE DeleteRBFinalizer
      BY <1>8, <2>0, <2>6 DEF DeleteRBFinalizer, RBEnd, RBRequeue, DeletingSeen
    <2>7. QED
      BY <1>18, <2>1, <2>2, <2>3, <2>4, <2>5, <2>6 DEF RBWork
  <1>19. ASSUME NEW m \in SNSs, ReconcileNS(m) PROVE UnderWay(n, x)'
    BY <1>19 DEF ReconcileNS, cluster, rbCtrl
  <1>20. CASE NSWork
    <2>1. CASE AddNSFinalizer
      BY <2>1 DEF AddNSFinalizer, NSStep, NSRequeue, rbCtrl
    <2>2. CASE CreateHNSView
      BY <2>2 DEF CreateHNSView, NSStep, rbCtrl
    <2>3. CASE ListParentRoleBindings
      BY <2>3 DEF ListParentRoleBindings, cluster, rbCtrl
    <2>4. ASSUME NEW y \in Names, CreateParentRoleBindingInNS(y) PROVE UnderWay(n, x)'
      <3> DEFINE m == nsWorker.n
      <3>0. UNCHANGED <<ns, finalizer, rbWorker>> /\ m \in SNSs /\ nsWorker.at = "copy" /\ nsQueue \subseteq nsQueue'
        BY <2>4 DEF CreateParentRoleBindingInNS, NSRequeue
      <3>1. CASE ns[m] = "active"
        <4>1. /\ Copy(<<Parent[m], y>>, m)
              /\ nsWorker' = IF nsWorker.todo = {y} THEN NSIdle ELSE [nsWorker EXCEPT !.todo = @ \ {y}]
          BY <2>4, <3>1 DEF CreateParentRoleBindingInNS
        <4>2. rbs[<<m, y>>] # "deleting"
          BY <1>1, <4>1, Zenon DEF Copy
        <4>3. /\ rbs' = [rbs EXCEPT ![<<m, y>>] = IF @ = "absent" THEN "new" ELSE @]
              /\ rbQueue' = rbQueue \cup IF rbs[<<m, y>>] = "absent" THEN {<<m, y>>} ELSE {}
          BY <4>1 DEF Copy
        <4>4. CASE n = m /\ x = y
          BY <3>0, <4>2, <4>3, <4>4
        <4>5. CASE ~(n = m /\ x = y)
          BY <3>0, <4>1, <4>3, <4>5
        <4>6. QED
          BY <4>4, <4>5
      <3>2. CASE ns[m] # "active"
        <4>1. UNCHANGED <<rbs, rbQueue>> /\ NSRequeue
          BY <2>4, <3>2 DEF CreateParentRoleBindingInNS
        <4>2. QED
          BY <3>0, <3>2, <4>1 DEF NSRequeue
      <3>3. QED
        BY <3>1, <3>2
    <2>5. CASE UpdateNSRole
      BY <2>5 DEF UpdateNSRole, NSRequeue, rbCtrl
    <2>6. CASE DeleteSNSFromParentNS
      BY <2>6 DEF DeleteSNSFromParentNS, NSStep, rbCtrl
    <2>7. CASE DeleteNSHnsView
      BY <2>7 DEF DeleteNSHnsView, NSStep, rbCtrl
    <2>8. CASE DeleteNSFinalizer
      BY <2>8 DEF DeleteNSFinalizer, NSRequeue, rbCtrl
    <2>9. QED
      BY <1>20, <2>1, <2>2, <2>3, <2>4, <2>5, <2>6, <2>7, <2>8 DEF NSWork
  <1>21. CASE Fail
    <2>1. UNCHANGED <<ns, finalizer, rbs>>
      BY <1>21 DEF Fail, cluster
    <2>2. CASE RBRequeue /\ UNCHANGED nsCtrl
      BY <2>1, <2>2 DEF RBRequeue, nsCtrl
    <2>3. CASE NSRequeue /\ UNCHANGED rbCtrl /\ missed' = (missed \/ nsWorker.at \in {"view", "list", "copy"})
      <3>1. nsWorker.at \notin {"view", "list", "copy"}
        BY <1>1, <2>3, Zenon
      <3>2. QED
        BY <1>8, <2>1, <2>3, <3>1 DEF NSRequeue, NotYet, rbCtrl
    <2>4. QED
      BY <1>21, <2>2, <2>3 DEF Fail
  <1>22. CASE UNCHANGED vars
    BY <1>9, <1>22 DEF vars
  <1>23. QED
    BY <1>3, <1>10, <1>11, <1>12, <1>13, <1>14, <1>15, <1>16, <1>17, <1>18, <1>19, <1>20, <1>21, <1>22 DEF Next, Cluster

(***************************************************************************)
(* The subjects of a view follow the RoleBindings: a subject is added by   *)
(* the worker that has the RoleBinding in its hands, and taken out before  *)
(* the RoleBinding goes.                                                   *)
(***************************************************************************)
LEMMA StepViewFollows ==
    ASSUME IInv, Places, ViewFollows, [Next]_vars
    PROVE  ViewFollows'
  <1> DEFINE Known(n) == view[n] \subseteq {Subject[y] : y \in Viewed}
             Added(n, x) ==
                Bound(n, x) /\ Subject[x] \notin view[n] =>
                    \/ <<n, x>> \in rbQueue
                    \/ rbWorker.rb = <<n, x>> /\ rbWorker.at \in {"finalizer", "copy"}
             Held(n, x) ==
                Subject[x] \in view[n] =>
                    /\ rbs[<<n, x>>] \in {"ready", "deleting"}
                    /\ ~(rbWorker.at = "delete" /\ rbWorker.rb = <<n, x>>)
             Right(n, x) == Known(n) /\ Added(n, x) /\ Held(n, x)
  <1>0. TypeOK
    BY DEF IInv
  <1>1. SUFFICES ASSUME DistinctSubjects, ~unsafe', ~unseen', ~late', NEW n \in SNSs
                 PROVE  Known(n)' /\ \A x \in Viewed : Added(n, x)' /\ Held(n, x)'
    BY Zenon DEF ViewFollows
  <1>2. ~unsafe /\ ~unseen /\ ~late
    BY <1>0, <1>1, FlagsKept, HistoryKept
  <1>3. Known(n) /\ \A x \in Viewed : Added(n, x) /\ Held(n, x)
    BY <1>1, <1>2, Zenon DEF ViewFollows
  <1>4. NewHasNoNS /\ GoneIsEmpty /\ DeletingSeen
    BY DEF Places
  <1>5. nsWorker.at \in {"deleteSNS", "deleteView", "drop"} => ns[nsWorker.n] = "terminating"
    BY <1>2 DEF Places, WorksOnPresent
  \* Only three actions write a view.
  <1>6. Known(n)'
    <2>1. CASE UNCHANGED view
      BY <1>3, <2>1
    <2>2. CASE AddSubjectsToHNSView
      <3>1. view'[n] = view[n] \/ (rbWorker.rb[2] \in Viewed /\ view'[n] = view[n] \cup {Subject[rbWorker.rb[2]]})
        BY <1>0, <2>2, ConstantTypes, Shapes DEF AddSubjectsToHNSView, Viewed
      <3>2. QED
        BY <1>3, <3>1
    <2>3. CASE DeleteSubjectsFromHNSView \/ DeleteNSHnsView
      <3>1. view'[n] \subseteq view[n]
        BY <1>0, <2>3, ConstantTypes, Shapes DEF DeleteSubjectsFromHNSView, DeleteNSHnsView
      <3>2. QED
        BY <1>3, <3>1
    <2>4. QED
      BY <2>1, <2>2, <2>3 DEF Next, NSWork, RBWork, Cluster, CreateRB, DeleteRB, CreateSNS, DeleteNamespace, ReconcileNS, ReconcileRB,
          AddNSFinalizer, CreateHNSView, ListParentRoleBindings, CreateParentRoleBindingInNS, UpdateNSRole, DeleteSNSFromParentNS,
          DeleteNSFinalizer, AddRBFinalizer, DeleteRBFinalizer, CreateRoleBinding, DeleteRoleBinding, CreateNamespace, DeleteContents,
          RemoveNamespace, Fail, Restart, cluster, vars
  <1>7. ASSUME NEW x \in Viewed PROVE Added(n, x)' /\ Held(n, x)'
    <2>0. /\ Added(n, x) /\ Held(n, x) /\ x \in Names
          /\ <<n, x>> \in Nodes \X Names
          /\ \A y \in Names : Subject[y] = Subject[x] => y = x
      BY <1>1, <1>3, <1>7, ConstantTypes DEF Viewed, DistinctSubjects
    <2> HIDE <1>1
    <2> USE <1>0, <2>0, ConstantTypes, Shapes DEF Bound, Deleting
    <2>1. CASE UNCHANGED <<ns, rbs, view, rbWorker>> /\ rbQueue \subseteq rbQueue'
      BY <2>1
    <2>2. ASSUME NEW y \in Names, CreateRB(y) PROVE Added(n, x)' /\ Held(n, x)'
      BY <2>2 DEF CreateRB, SNSs
    <2>3. ASSUME NEW y \in Names, NEW m \in Nodes, DeleteRB(m, y) PROVE Added(n, x)' /\ Held(n, x)'
      BY <2>3 DEF DeleteRB, Deleted
    <2>4. ASSUME NEW m \in SNSs, DeleteNamespace(m) PROVE Added(n, x)' /\ Held(n, x)'
      BY <2>4 DEF DeleteNamespace, rbCtrl
    <2>5. ASSUME NEW m \in SNSs, CreateNamespace(m) PROVE Added(n, x)' /\ Held(n, x)'
      BY <1>4, <2>5 DEF CreateNamespace, NewHasNoNS, GoneIsEmpty, rbCtrl
    <2>6. ASSUME NEW m \in SNSs, DeleteContents(m) PROVE Added(n, x)' /\ Held(n, x)'
      <3>1. /\ ns[m] = "terminating" /\ UNCHANGED <<ns, view, rbWorker>> /\ rbQueue \subseteq rbQueue'
            /\ rbs' = [b \in Nodes \X Names |-> IF b[1] = m THEN Deleted(rbs[b]) ELSE rbs[b]]
        BY <2>6 DEF DeleteContents
      <3>2. /\ n # m => rbs'[<<n, x>>] = rbs[<<n, x>>]
            /\ rbs[<<n, x>>] \in {"ready", "deleting"} => rbs'[<<n, x>>] \in {"ready", "deleting"}
        BY <3>1 DEF Deleted
      <3>3. QED
        BY <3>1, <3>2
    <2>7. ASSUME NEW m \in SNSs, RemoveNamespace(m) PROVE Added(n, x)' /\ Held(n, x)'
      BY <2>7 DEF RemoveNamespace, Contents, rbCtrl
    <2>8. ASSUME NEW b \in Nodes \X Names, ReconcileRB(b) PROVE Added(n, x)' /\ Held(n, x)'
      BY <2>8, TakesUp, RBFrame
    <2>9. CASE RBWork
      <3>0. UNCHANGED <<ns, hasView>>
        BY <2>9, RBFrame
      <3>1. CASE AddRBFinalizer
        BY <3>0, <3>1 DEF AddRBFinalizer, RBStep, RBRequeue
      <3>2. ASSUME NEW c \in SNSs, CreateRoleBinding(c) PROVE Added(n, x)' /\ Held(n, x)'
        BY <3>0, <3>2 DEF CreateRoleBinding, Copy, RBDone, RBRequeue
      <3>3. CASE AddSubjectsToHNSView
        <4>1. UNCHANGED <<rbs, rbQueue>> /\ rbWorker' = RBIdle
          BY <3>3 DEF AddSubjectsToHNSView, RBEnd
        <4>2. CASE rbWorker.rb = <<n, x>>
          <5>1. n \in hasView /\ rbs[<<n, x>>] \notin {"absent", "new"}
            <6>1. unseen' = (unseen \/ (rbWorker.rb[2] \notin ServiceAccounts /\ rbWorker.rb[1] \notin hasView \cup {Root}))
              BY <3>3 DEF AddSubjectsToHNSView
            <6>2. rbWorker.rb[1] = n /\ rbWorker.rb[2] = x /\ n # Root /\ x \notin ServiceAccounts
              BY <1>7, <4>2 DEF SNSs, Viewed
            <6>3. n \in hasView
              BY <1>1, <6>1, <6>2, Zenon
            <6>4. unsafe' = (unsafe \/ rbs[<<rbWorker.rb[1], rbWorker.rb[2]>>] \in {"absent", "new"})
              BY <3>3 DEF AddSubjectsToHNSView
            <6>5. rbs[<<n, x>>] \notin {"absent", "new"}
              BY <1>1, <6>2, <6>4, Zenon
            <6>6. QED
              BY <6>3, <6>5
          <5>2. Subject[x] \in view'[n]
            BY <1>7, <3>3, <4>2, <5>1 DEF AddSubjectsToHNSView, Viewed
          <5>3. rbs[<<n, x>>] \in {"ready", "deleting"}
            BY <5>1 DEF TypeOK
          <5>4. QED
            BY <4>1, <5>2, <5>3
        <4>3. CASE rbWorker.rb # <<n, x>>
          <5>1. Subject[x] \in view'[n] <=> Subject[x] \in view[n]
            BY <3>3, <4>3 DEF AddSubjectsToHNSView
          <5>2. QED
            BY <3>0, <4>1, <4>3, <5>1
        <4>4. QED
          BY <4>2, <4>3
      <3>4. CASE DeleteSubjectsFromHNSView
        <4>1. UNCHANGED <<rbs, rbQueue>> /\ rbWorker.at = "deleteSubjects" /\ rbWorker' = [rbWorker EXCEPT !.at = "delete"]
          BY <3>4 DEF DeleteSubjectsFromHNSView, RBStep
        <4>2. CASE rbWorker.rb = <<n, x>>
          <5>1. Subject[x] \notin view'[n]
            BY <1>7, <3>4, <4>2 DEF DeleteSubjectsFromHNSView, Viewed
          <5>2. rbs[<<n, x>>] = "deleting"
            BY <1>4, <4>1, <4>2 DEF DeletingSeen
          <5>3. QED
            BY <4>1, <5>1, <5>2
        <4>3. CASE rbWorker.rb # <<n, x>>
          <5>1. Subject[x] \in view'[n] <=> Subject[x] \in view[n]
            BY <3>4, <4>3 DEF DeleteSubjectsFromHNSView
          <5>2. QED
            BY <3>0, <4>1, <4>3, <5>1
        <4>4. QED
          BY <4>2, <4>3
      <3>5. ASSUME NEW c \in SNSs, DeleteRoleBinding(c) PROVE Added(n, x)' /\ Held(n, x)'
        BY <3>0, <3>5 DEF DeleteRoleBinding, Deleted, RBDone
      <3>6. CASE DeleteRBFinalizer
        BY <3>0, <3>6 DEF DeleteRBFinalizer, RBEnd, RBRequeue
      <3>7. QED
        BY <2>9, <3>1, <3>2, <3>3, <3>4, <3>5, <3>6 DEF RBWork
    <2>10. ASSUME NEW y \in Names, CreateParentRoleBindingInNS(y) PROVE Added(n, x)' /\ Held(n, x)'
      BY <2>10 DEF CreateParentRoleBindingInNS, Copy
    <2>11. CASE DeleteNSHnsView
      BY <1>5, <2>11 DEF DeleteNSHnsView, rbCtrl
    <2>12. CASE \/ AddNSFinalizer \/ CreateHNSView \/ ListParentRoleBindings \/ UpdateNSRole \/ DeleteSNSFromParentNS \/ DeleteNSFinalizer
                \/ \E m \in SNSs : CreateSNS(m) \/ ReconcileNS(m)
                \/ UNCHANGED vars
      BY <2>1, <2>12 DEF AddNSFinalizer, CreateHNSView, ListParentRoleBindings, UpdateNSRole, DeleteSNSFromParentNS,
          DeleteNSFinalizer, CreateSNS, ReconcileNS, cluster, rbCtrl, vars
    <2>13. CASE Fail
      BY <2>13 DEF Fail, RBRequeue, cluster, rbCtrl
    <2>14. CASE Restart
      BY <2>14 DEF Restart, cluster
    <2>15. QED
      BY <2>2, <2>3, <2>4, <2>5, <2>6, <2>7, <2>8, <2>9, <2>10, <2>11, <2>12, <2>13, <2>14 DEF Next, NSWork, Cluster
  <1>8. QED
    BY <1>6, <1>7
-----------------------------------------------------------------------------
(***************************************************************************)
(* Initially nothing is to be done: every child has its parent's           *)
(* RoleBindings and every view its subjects.                               *)
(***************************************************************************)
LEMMA InitQuiet == Init => QuietInv
  <1> SUFFICES ASSUME Init PROVE QuietInv
    OBVIOUS
  <1>1. PICK there \in SUBSET SNSs, bound \in SUBSET Names : Start(there, bound)
    BY DEF Init
  <1> DEFINE shown == {Subject[x] : x \in bound \ ServiceAccounts}
  <1>2. /\ \A n \in SNSs : sns[n] = IF n \in there THEN "created" ELSE "absent"
        /\ \A n \in SNSs : ns[n] = IF n \in there THEN "active" ELSE "absent"
        /\ \A n \in there : Parent[n] \in there \cup {Root}
        /\ hasView = there
        /\ nsWorker.at = "idle" /\ nsWorker.n = Root /\ rbWorker.at = "idle"
    BY <1>1, ConstantTypes DEF Start, SNSs, RBIdle
  <1>3. /\ \A n \in Nodes, x \in Names : rbs[<<n, x>>] = IF n \in there \cup {Root} /\ x \in bound THEN "ready" ELSE "absent"
        /\ \A n \in SNSs, x \in Names : rbs[<<n, x>>] = IF n \in there /\ x \in bound THEN "ready" ELSE "absent"
        /\ \A n \in SNSs, x \in Names : n \in there =>
                rbs[<<Parent[n], x>>] = IF x \in bound THEN "ready" ELSE "absent"
    <2>1. rbs = [b \in Nodes \X Names |-> IF b[1] \in there \cup {Root} /\ b[2] \in bound THEN "ready" ELSE "absent"]
      BY <1>1 DEF Start
    <2>2. \A n \in Nodes, x \in Names : rbs[<<n, x>>] = IF n \in there \cup {Root} /\ x \in bound THEN "ready" ELSE "absent"
      BY <2>1
    <2>3. QED
      BY <1>2, <2>2, ConstantTypes DEF SNSs
  <1>4. \A n \in SNSs : view[n] = IF n \in there THEN shown ELSE {}
    BY <1>1, ConstantTypes DEF Start
  <1>5. CleanedUp
    BY <1>2, ConstantTypes DEF CleanedUp, InHand
  <1>6. CopiesOfSomething
    BY <1>2, <1>3 DEF CopiesOfSomething, Bound, Deleting
  <1>7. CopiesUnderWay
    BY <1>2, <1>3 DEF CopiesUnderWay
  <1>8. ViewFollows
    <2>1. shown \subseteq {Subject[x] : x \in Viewed}
      BY DEF Viewed
    <2>2. DistinctSubjects => \A x \in Viewed : Subject[x] \in shown <=> x \in bound
      BY DEF Viewed, DistinctSubjects
    <2> HIDE DEF shown
    <2>3. QED
      BY <1>2, <1>3, <1>4, <2>1, <2>2 DEF ViewFollows, Bound, Viewed
  <1>9. QED
    BY <1>5, <1>6, <1>7, <1>8, InitPlaces DEF QuietInv

(***************************************************************************)
(* Every behaviour keeps track of what is still to be done.                *)
(***************************************************************************)
THEOREM QuietInvariance == Spec => [](IInv /\ QuietInv)
  <1>1. Init => IInv /\ QuietInv
    BY InitIInv, InitQuiet
  <1>2. IInv /\ QuietInv /\ [Next]_vars => IInv' /\ QuietInv'
    BY StepIInv, StepPlaces, StepCleanedUp, StepCopiesOfSomething, StepCopiesUnderWay, StepViewFollows DEF QuietInv
  <1>3. QED
    BY <1>1, <1>2, PTL DEF Spec

(***************************************************************************)
(* Once all is quiet the role annotation, which the deletion webhook goes  *)
(* by, says whether a namespace has children.                              *)
(***************************************************************************)
THEOREM RolesAreRight == Spec => []RoleFollowsChildren
  <1>1. IInv /\ QuietInv => RoleFollowsChildren
    BY ConstantTypes DEF IInv, QuietInv, Places, RoleNoticed, RoleFollowsChildren, Settled, Children, SNSs
  <1>2. QED
    BY <1>1, QuietInvariance, PTL

(***************************************************************************)
(* cleanUp leaves neither a Subnamespace nor a view behind, if the         *)
(* namespace had its finalizer and no pass outlived it.                    *)
(***************************************************************************)
THEOREM NothingIsLeftBehind == Spec => []CleanUpIsComplete
  <1>1. IInv /\ QuietInv => CleanUpIsComplete
    BY DEF IInv, TypeOK, QuietInv, CleanedUp, CleanUpIsComplete, Settled
  <1>2. QED
    BY <1>1, QuietInvariance, PTL

(***************************************************************************)
(* Once all is quiet no namespace has a RoleBinding that its parent lost,  *)
(* whatever came and went while the controller worked on its list.         *)
(***************************************************************************)
THEOREM CopiesHaveOriginals == Spec => []NoOrphanRoleBindings
  <1>1. ASSUME IInv, QuietInv, Settled, ~unsafe, ~slipped, ~late, NEW n \in SNSs, NEW x \in Names,
               rbs[<<n, x>>] # "absent"
        PROVE  rbs[<<Parent[n], x>>] # "absent"
    <2>1. <<n, x>> \in Nodes \X Names /\ TypeOK
      BY <1>1, ConstantTypes DEF IInv
    <2>2. rbQueue = {} /\ rbWorker.at = "idle" /\ ns[n] # "terminating"
      BY <1>1, <2>1 DEF Settled, RBIdle
    <2>3. rbs[<<n, x>>] # "deleting"
      BY <1>1, <2>1, <2>2 DEF QuietInv, Places, DeletingSeen, Deleting
    <2>4. Bound(n, x)
      BY <1>1, <2>1, <2>2, <2>3 DEF Bound, TypeOK
    <2>5. QED
      BY <1>1, <2>4 DEF QuietInv, CopiesOfSomething
  <1>2. IInv /\ QuietInv => NoOrphanRoleBindings
    BY <1>1, Zenon DEF NoOrphanRoleBindings
  <1>3. QED
    BY <1>2, QuietInvariance, PTL

(***************************************************************************)
(* Once all is quiet every RoleBinding of the parent is in the child,      *)
(* whichever of the two controllers came first.                            *)
(***************************************************************************)
THEOREM ChildrenHaveCopies == Spec => []CopiedToChildren
  <1>1. ASSUME IInv, QuietInv, Settled, ~missed, ~slipped, ~late, NEW n \in SNSs, NEW x \in Names,
               ns[n] = "active", rbs[<<Parent[n], x>>] # "absent"
        PROVE  rbs[<<n, x>>] # "absent"
    <2>1. rbQueue = {} /\ rbWorker.at = "idle" /\ nsQueue = {} /\ nsWorker.at = "idle"
      BY <1>1 DEF Settled, RBIdle, NSIdle
    <2>2. ~ToBeCopied(n, x)
      BY <2>1 DEF ToBeCopied, Deleting, InHand
    <2>3. QED
      BY <1>1, <2>2 DEF QuietInv, CopiesUnderWay
  <1>2. IInv /\ QuietInv => CopiedToChildren
    BY <1>1, Zenon DEF CopiedToChildren
  <1>3. QED
    BY <1>2, QuietInvariance, PTL

(***************************************************************************)
(* Once all is quiet a view has the subjects of the namespace's            *)
(* RoleBindings and no others, if no two RoleBindings share a subject.     *)
(***************************************************************************)
THEOREM ViewsAreRight == Spec => []ViewIsRight
  <1>1. ASSUME IInv, QuietInv, DistinctSubjects, Settled, ~unsafe, ~unseen, ~late, NEW n \in hasView
        PROVE  view[n] = {Subject[x] : x \in {y \in Names \ ServiceAccounts : rbs[<<n, y>>] # "absent"}}
    <2>1. n \in SNSs /\ TypeOK
      BY <1>1 DEF IInv, TypeOK
    <2>2. rbQueue = {} /\ rbWorker.at = "idle" /\ ns[n] # "terminating"
      BY <1>1, <2>1 DEF Settled, RBIdle
    <2>3. \A x \in Viewed : /\ <<n, x>> \in Nodes \X Names
                            /\ rbs[<<n, x>>] \in {"absent", "new", "ready", "deleting"}
                            /\ rbs[<<n, x>>] # "deleting"
      BY <1>1, <2>1, <2>2, ConstantTypes DEF QuietInv, Places, DeletingSeen, Deleting, Viewed, TypeOK
    <2>4. \A x \in Viewed : rbs[<<n, x>>] # "absent" <=> Subject[x] \in view[n]
      BY <1>1, <2>1, <2>2, <2>3 DEF QuietInv, ViewFollows, Bound
    <2>5. view[n] \subseteq {Subject[x] : x \in Viewed}
      BY <1>1, <2>1 DEF QuietInv, ViewFollows
    <2>6. QED
      BY <2>4, <2>5 DEF Viewed
  <1>2. IInv /\ QuietInv => ViewIsRight
    BY <1>1, Zenon DEF ViewIsRight, DistinctSubjects
  <1>3. QED
    BY <1>2, QuietInvariance, PTL
=============================================================================
