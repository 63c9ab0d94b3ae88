---------------------- MODULE SubnamespaceQuotaProofs ----------------------
(***************************************************************************)
(* Proofs about SubnamespaceQuota, for every hierarchy, every rq-depth,    *)
(* any choice of ResourcePools and any number of failures.                 *)
(*                                                                         *)
(* The argument: a Subnamespace becomes Created in the last step of a      *)
(* reconciliation whose earlier steps created the namespace and the quota  *)
(* object.  These steps are interleaved with users, and any of them may    *)
(* fail, so the invariant says what holds at each step of the worker       *)
(* (Prepared), that the worker's copy has a spec to create the object from *)
(* (Requested), and that sync, which may remove quota objects, runs for    *)
(* Created ones only (Syncing).                                            *)
(***************************************************************************)
EXTENDS SubnamespaceQuota, HierarchyLemmas

HasObject(n) == HasQuota(n) => SubnamespaceObject(n) # NoObject

Prepared ==
    /\ worker.at \in {"initQuota", "initUpdate", "initAnnotate", "initCreated"} =>
            worker.sns \in namespaces
    /\ worker.at \in {"initUpdate", "initAnnotate", "initCreated"} => HasObject(worker.sns)

Requested ==
    /\ \A n \in SNSs : Exists(n) => spec[n] # NoObject
    /\ worker.at # "idle" => Exists(worker.sns) /\ worker.spec # NoObject

Syncing ==
    worker.at \in {"sync", "syncQuota", "syncUpdate", "syncStatus"} => phase[worker.sns] = "Created"

IInv == TypeOK /\ CreatedHasQuotaObject /\ Prepared /\ Requested /\ Syncing

(***************************************************************************)
(* The special quantities are quantities and no two of them are equal.     *)
(***************************************************************************)
LEMMA QuantityFacts ==
    /\ Unset \in Quantities /\ NoObject \in Quantities /\ Unset # NoObject
    /\ \A q \in Nat : q \in Quantities /\ q # NoObject /\ q # Unset
    /\ \A q \in Quantities : q > 0 \/ q >= 0 => q # NoObject
  BY DEF Unset, NoObject, Quantities

(***************************************************************************)
(* A subnamespace has a parent among the nodes.                            *)
(***************************************************************************)
LEMMA ParentType ==
    ASSUME NEW n \in SNSs
    PROVE  Parent(n) \in Nodes /\ n \in Nodes
  BY TreeAssumption DEF Parent, SNSs

(***************************************************************************)
(* SetObjects writes the two objects named after n and no other.           *)
(***************************************************************************)
LEMMA SetObjectsFacts ==
    ASSUME TypeOK, NEW n \in SNSs, NEW q \in Quantities, NEW x \in Quantities, SetObjects(n, q, x)
    PROVE  /\ rq' \in [Nodes -> Quantities] /\ crq' \in [Nodes -> Quantities]
           /\ SubnamespaceObject(n)' = q
           /\ \A m \in SNSs : m # n => SubnamespaceObject(m)' = SubnamespaceObject(m)
  <1>1. n \in Nodes /\ SNSs \subseteq Nodes
    BY DEF SNSs
  <1>2. QED
    BY <1>1 DEF SetObjects, SubnamespaceObject, TypeOK

(***************************************************************************)
(* The objects of a node are quantities, and stay so when sync drops one   *)
(* or the default ResourceQuota is created.                                *)
(***************************************************************************)
LEMMA ObjectType ==
    ASSUME TypeOK, NEW n \in SNSs
    PROVE  /\ SubnamespaceObject(n) \in Quantities /\ OtherObject(n) \in Quantities
           /\ DropOther(n) \in Quantities
           /\ CreateDefaultSNSResourceQuota(DropOther(n)) \in Quantities
           /\ CreateDefaultSNSResourceQuota(rq[n]) \in Quantities
  <1>1. n \in Nodes
    BY DEF SNSs
  <1>2. QED
    BY <1>1, QuantityFacts DEF TypeOK, SubnamespaceObject, OtherObject, DropOther,
        CreateDefaultSNSResourceQuota

(***************************************************************************)
(* The worker that does nothing.                                           *)
(***************************************************************************)
LEMMA IdleType ==
    /\ Idle \in [at : Steps, sns : Nodes, spec : Quantities, fresh : BOOLEAN,
                 requests : [SNSs -> Quantities], total : Quantities, objFresh : BOOLEAN]
    /\ Idle.at = "idle"
  BY QuantityFacts, TreeAssumption DEF Idle, Steps

(***************************************************************************)
(* The invariant holds initially.                                          *)
(***************************************************************************)
LEMMA InitIInv == Init => IInv
  <1> SUFFICES ASSUME Init PROVE IInv
    OBVIOUS
  <1>1. /\ InitialSpec \in [Nodes -> Quantities] /\ SNSs \subseteq Nodes
        /\ MaxUpdates \in Nat /\ MaxFailures \in Nat
    BY ParameterAssumption DEF SNSs
  <1>2. worker = Idle /\ worker.at = "idle"
    BY IdleType DEF Init
  <1>3. TypeOK
    <2>1. phase \in [SNSs -> Phases] /\ isRq \in [SNSs -> {"", "true", "false"}]
      BY DEF Init, Phases, RqFlag
    <2>2. spec \in [SNSs -> Quantities] /\ namespaces \subseteq Nodes
      BY <1>1 DEF Init
    <2>3. status \in [SNSs -> [requests : [SNSs -> Quantities], total : Quantities]]
      BY <1>1, QuantityFacts DEF Init
    <2>4. rq \in [Nodes -> Quantities] /\ crq \in [Nodes -> Quantities]
      BY <1>1, QuantityFacts DEF Init
    <2>5. used \in [Nodes -> Nat] /\ updates \in 0..MaxUpdates /\ failures \in 0..MaxFailures
      <3>1. used = [n \in Nodes |-> 0] /\ updates = 0 /\ failures = 0
        BY DEF Init
      <3>2. QED
        BY <1>1, <3>1
    <2>6. queue \subseteq SNSs /\ raced \in BOOLEAN
      BY DEF Init
    <2>7. QED
      BY <1>2, <2>1, <2>2, <2>3, <2>4, <2>5, <2>6, IdleType DEF TypeOK
  <1>4. CreatedHasQuotaObject
    <2> SUFFICES ASSUME NEW n \in SNSs, phase[n] = "Created"
                 PROVE  n \in namespaces /\ SubnamespaceObject(n) # NoObject
      BY DEF CreatedHasQuotaObject
    <2>1. InitialSpec[n] # NoObject
      BY DEF Init
    <2>2. QED
      BY <1>1, <2>1 DEF Init, SubnamespaceObject, SNSs
  <1>5. Requested
    BY <1>2 DEF Init, Requested, Exists
  <1>6. QED
    BY <1>2, <1>3, <1>4, <1>5 DEF IInv, Prepared, Syncing
-----------------------------------------------------------------------------
(***************************************************************************)
(* A step that leaves namespaces, quota objects and requests alone and     *)
(* makes no Subnamespace Created preserves the invariant if the worker     *)
(* stays where it was, or ends its reconciliation.                         *)
(***************************************************************************)
LEMMA QuietStep ==
    ASSUME IInv, TypeOK', UNCHANGED <<namespaces, rq, crq>>,
           \A n \in SNSs : /\ phase'[n] = "Created" => phase[n] = "Created"
                           /\ phase'[n] # "absent" => spec'[n] # NoObject
                           /\ phase[n] # "absent" => phase'[n] # "absent",
           \/ worker'.at = "idle"
           \/ /\ worker'.at = worker.at /\ worker'.sns = worker.sns /\ worker'.spec = worker.spec
              /\ phase'[worker.sns] = phase[worker.sns] \/ phase[worker.sns] = "absent"
    PROVE  IInv'
  <1>0. TypeOK /\ CreatedHasQuotaObject /\ Prepared /\ Requested /\ Syncing
    BY DEF IInv
  <1>1. \A n \in SNSs : SubnamespaceObject(n)' = SubnamespaceObject(n)
    BY DEF SubnamespaceObject
  <1>2. CreatedHasQuotaObject'
    BY <1>0, <1>1 DEF CreatedHasQuotaObject
  <1>3. worker.at # "idle" => worker.sns \in SNSs
    BY <1>0 DEF TypeOK
  <1>4. Requested'
    BY <1>0, <1>3 DEF Requested, Exists
  <1>5. Prepared'
    BY <1>0, <1>1, <1>3 DEF Prepared, HasObject
  <1>6. Syncing'
    BY <1>0, <1>3 DEF Syncing, Requested, Exists
  <1>7. QED
    BY <1>2, <1>4, <1>5, <1>6 DEF IInv

(***************************************************************************)
(* What users and workloads do preserves the invariant.                    *)
(***************************************************************************)
LEMMA UsersIInv ==
    ASSUME IInv, Users
    PROVE  IInv'
  <1>0. TypeOK /\ CreatedHasQuotaObject /\ Prepared /\ Requested /\ Syncing
    BY DEF IInv
  <1>1. ASSUME NEW n \in SNSs, NEW q \in Requests[n], CreateSNS(n, q)
        PROVE  IInv'
    <2>1. q \in Quantities /\ q # NoObject
      BY ParameterAssumption, QuantityFacts
    <2>2. TypeOK'
      BY <1>0, <1>1, <2>1 DEF TypeOK, CreateSNS, Phases, objs
    <2>3. QED
      BY <1>0, <1>1, <2>1, <2>2, QuietStep DEF TypeOK, CreateSNS, objs, Exists, Requested
  <1>2. ASSUME NEW n \in SNSs, NEW q \in Requests[n], UpdateSNS(n, q)
        PROVE  IInv'
    <2>1. q \in Quantities /\ q # NoObject
      BY ParameterAssumption, QuantityFacts
    <2>2. /\ Outdated(n) \in [at : Steps, sns : Nodes, spec : Quantities, fresh : BOOLEAN,
                              requests : [SNSs -> Quantities], total : Quantities, objFresh : BOOLEAN]
          /\ Outdated(n).at = worker.at /\ Outdated(n).sns = worker.sns /\ Outdated(n).spec = worker.spec
      BY <1>0 DEF TypeOK, Outdated
    <2>3. updates' \in 0..MaxUpdates
      <3>1. updates \in 0..MaxUpdates /\ updates < MaxUpdates /\ updates' = updates + 1
        BY <1>0, <1>2 DEF TypeOK, UpdateSNS
      <3>2. QED
        BY <3>1, ParameterAssumption
    <2>4. TypeOK'
      BY <1>0, <1>2, <2>1, <2>2, <2>3 DEF TypeOK, UpdateSNS, objs
    <2>5. QED
      BY <1>0, <1>2, <2>1, <2>2, <2>4, QuietStep DEF TypeOK, UpdateSNS, objs, Exists, Requested
  <1>3. ASSUME NEW n \in SNSs, NEW u \in Loads, Consume(n, u)
        PROVE  IInv'
    <2>1. u \in Nat /\ n \in Nodes
      BY ParameterAssumption, ParentType
    <2>2. TypeOK'
      BY <1>0, <1>3, <2>1 DEF TypeOK, Consume, sns
    <2>3. QED
      BY <1>0, <1>3, <2>2, QuietStep DEF TypeOK, Consume, sns, Exists, Requested
  <1>4. QED
    BY <1>1, <1>2, <1>3 DEF Users

(***************************************************************************)
(* A reconciliation begins, is given up, or is lost with the operator.     *)
(***************************************************************************)
LEMMA QueueIInv ==
    ASSUME IInv, Fail \/ Restart \/ \E n \in SNSs : Reconcile(n)
    PROVE  IInv'
  <1>0. TypeOK /\ CreatedHasQuotaObject /\ Prepared /\ Requested /\ Syncing
    BY DEF IInv
  <1>1. ASSUME NEW n \in SNSs, Reconcile(n)
        PROVE  IInv'
    <2>1. n \in Nodes /\ spec[n] \in Quantities
      BY <1>0, ParentType DEF TypeOK
    <2>2. /\ worker' \in [at : {"idle", "setup", "initNamespace", "sync"}, sns : Nodes, spec : Quantities,
                          fresh : BOOLEAN, requests : [SNSs -> Quantities], total : Quantities,
                          objFresh : BOOLEAN]
          /\ worker'.sns = n /\ worker'.spec = spec[n]
          /\ worker'.at # "idle" => phase[n] # "absent"
          /\ worker'.at = "sync" => phase[n] = "Created"
      BY <1>0, <1>1, <2>1, IdleType DEF TypeOK, Reconcile, Idle
    <2>3. TypeOK'
      BY <1>0, <1>1, <2>2 DEF TypeOK, Reconcile, sns, objs, Steps
    <2>4. UNCHANGED <<phase, spec, namespaces, rq, crq>>
      BY <1>1 DEF Reconcile, sns, objs
    <2>5. CreatedHasQuotaObject'
      BY <1>0, <2>4 DEF CreatedHasQuotaObject, SubnamespaceObject
    <2>6. Requested' /\ Prepared' /\ Syncing'
      BY <1>0, <2>2, <2>4 DEF Requested, Prepared, Syncing, Exists
    <2>7. QED
      BY <2>3, <2>5, <2>6 DEF IInv
  <1>2. CASE Fail \/ Restart
    <2>1. /\ worker' = Idle /\ UNCHANGED <<phase, spec, isRq, status, namespaces, rq, crq, used, updates, raced>>
          /\ queue' \subseteq SNSs
      BY <1>0, <1>2 DEF Fail, Restart, Requeue, Finish, sns, objs, TypeOK
    <2>2. failures' \in 0..MaxFailures
      <3>1. failures \in 0..MaxFailures /\ failures < MaxFailures /\ failures' = failures + 1
        BY <1>0, <1>2 DEF TypeOK, Fail, Restart
      <3>2. QED
        BY <3>1, ParameterAssumption
    <2>3. TypeOK'
      BY <1>0, <2>1, <2>2, IdleType DEF TypeOK
    <2>4. QED
      BY <1>0, <2>1, <2>3, IdleType, QuietStep DEF Requested, Exists
  <1>3. QED
    BY <1>1, <1>2
-----------------------------------------------------------------------------
(***************************************************************************)
(* The worker writes the quota objects of its Subnamespace, leaving one of *)
(* the right kind, and goes on in the same phase or gives up.              *)
(***************************************************************************)
LEMMA ObjectStep ==
    ASSUME IInv, TypeOK', NEW n \in SNSs, worker.sns = n, n \in namespaces,
           UNCHANGED <<phase, namespaces>>,
           HasQuota(n) => SubnamespaceObject(n)' # NoObject,
           \A m \in SNSs : m # n => SubnamespaceObject(m)' = SubnamespaceObject(m),
           \A m \in SNSs : Exists(m) => spec'[m] # NoObject,
           worker'.at \in {"idle", "initUpdate", "initAnnotate", "syncUpdate", "syncStatus"},
           worker'.at # "idle" => worker'.sns = n /\ worker'.spec # NoObject /\ Exists(n),
           worker'.at \in {"syncUpdate", "syncStatus"} => phase[n] = "Created"
    PROVE  IInv'
  <1>0. TypeOK /\ CreatedHasQuotaObject /\ Prepared /\ Requested /\ Syncing
    BY DEF IInv
  <1>1. CreatedHasQuotaObject'
    BY <1>0 DEF CreatedHasQuotaObject
  <1>2. Requested' /\ Syncing'
    BY <1>0 DEF Requested, Syncing, Exists
  <1>3. Prepared'
    BY <1>0 DEF Prepared, HasObject
  <1>4. QED
    BY <1>1, <1>2, <1>3 DEF IInv

(***************************************************************************)
(* EnsureSubnamespaceObject, in each of its outcomes: whatever it finds,   *)
(* it leaves a quota object of the right kind.                             *)
(***************************************************************************)
LEMMA EnsureFacts ==
    ASSUME IInv, NEW n \in SNSs, worker.sns = n, worker.at # "idle",
           NEW x \in Quantities, NEW update \in Steps, NEW next \in Steps,
           \/ EnsureFromSpec(n, x, update, next)
           \/ EnsureFromUsed(n, x, update, next)
           \/ UsedUnknown(n, x) /\ Requeue(n)
           \/ UsedUnknown(n, x) /\ Step(next) /\ UNCHANGED queue
    PROVE  /\ rq' \in [Nodes -> Quantities] /\ crq' \in [Nodes -> Quantities]
           /\ SubnamespaceObject(n)' # NoObject
           /\ \A m \in SNSs : m # n => SubnamespaceObject(m)' = SubnamespaceObject(m)
           /\ spec' \in [SNSs -> Quantities]
           /\ \A m \in SNSs : Exists(m) => spec'[m] # NoObject
           /\ queue' \subseteq SNSs
           /\ worker' \in [at : Steps, sns : Nodes, spec : Quantities, fresh : BOOLEAN,
                           requests : [SNSs -> Quantities], total : Quantities, objFresh : BOOLEAN]
           /\ worker'.at \in {"idle", update, next}
           /\ worker'.at = "idle" \/ (worker'.sns = n /\ worker'.spec # NoObject)
  <1>0. TypeOK /\ Requested /\ worker.spec # NoObject /\ worker.spec \in Quantities
    BY DEF IInv, Requested, TypeOK
  <1>1. SubnamespaceObject(n) \in Quantities /\ used[n] \in Nat /\ n \in Nodes
    BY <1>0, ObjectType, ParentType DEF TypeOK
  <1>2. CASE EnsureFromSpec(n, x, update, next)
    <2>1. PICK q \in Quantities : q # NoObject /\ SetObjects(n, q, x)
      BY <1>0, <1>1, <1>2 DEF EnsureFromSpec
    <2>2. worker' = [worker EXCEPT !.at = IF IsZeroed(SubnamespaceObject(n)) THEN update ELSE next,
                                   !.objFresh = TRUE]
      BY <1>2 DEF EnsureFromSpec
    <2>3. QED
      <3>1. /\ rq' \in [Nodes -> Quantities] /\ crq' \in [Nodes -> Quantities]
            /\ SubnamespaceObject(n)' # NoObject
            /\ \A m \in SNSs : m # n => SubnamespaceObject(m)' = SubnamespaceObject(m)
        BY <1>0, <2>1, SetObjectsFacts
      <3>2. /\ spec' \in [SNSs -> Quantities] /\ queue' \subseteq SNSs
            /\ \A m \in SNSs : Exists(m) => spec'[m] # NoObject
        BY <1>0, <1>2 DEF EnsureFromSpec, TypeOK, Requested
      <3>3. /\ worker' \in [at : Steps, sns : Nodes, spec : Quantities, fresh : BOOLEAN,
                            requests : [SNSs -> Quantities], total : Quantities, objFresh : BOOLEAN]
            /\ worker'.at \in {"idle", update, next}
            /\ worker'.sns = n /\ worker'.spec # NoObject
        BY <1>0, <2>2 DEF TypeOK
      <3>4. QED
        BY <3>1, <3>2, <3>3
  <1>3. CASE EnsureFromUsed(n, x, update, next)
    <2>1. SubnamespaceObject(n) # NoObject /\ SetObjects(n, SubnamespaceObject(n), x)
      BY <1>1, <1>3, QuantityFacts DEF EnsureFromUsed
    <2>2. used[n] \in Quantities /\ used[n] # NoObject
      BY <1>1, QuantityFacts
    <2>3. CASE Requeue(n) /\ UNCHANGED spec
      BY <1>0, <1>1, <2>1, <2>3, SetObjectsFacts, IdleType DEF Requeue, TypeOK, Requested
    <2>4. CASE /\ spec' = IF worker.fresh THEN [spec EXCEPT ![n] = used[n]] ELSE spec
               /\ queue' = queue \cup {n}
               /\ worker' = [worker EXCEPT !.at = IF IsZeroed(SubnamespaceObject(n)) THEN update ELSE next,
                                           !.spec = used[n], !.objFresh = TRUE]
      <3>1. spec' \in [SNSs -> Quantities] /\ \A m \in SNSs : Exists(m) => spec'[m] # NoObject
        BY <1>0, <2>2, <2>4 DEF TypeOK, Requested
      <3>2. QED
        <4>1. /\ rq' \in [Nodes -> Quantities] /\ crq' \in [Nodes -> Quantities]
              /\ SubnamespaceObject(n)' # NoObject
              /\ \A m \in SNSs : m # n => SubnamespaceObject(m)' = SubnamespaceObject(m)
          BY <1>0, <1>1, <2>1, SetObjectsFacts
        <4>2. /\ queue' \subseteq SNSs
              /\ worker' \in [at : Steps, sns : Nodes, spec : Quantities, fresh : BOOLEAN,
                              requests : [SNSs -> Quantities], total : Quantities, objFresh : BOOLEAN]
              /\ worker'.at \in {"idle", update, next}
              /\ worker'.sns = n /\ worker'.spec # NoObject
          BY <1>0, <2>2, <2>4 DEF TypeOK
        <4>3. QED
          BY <3>1, <4>1, <4>2
    <2>5. QED
      BY <1>3, <2>3, <2>4 DEF EnsureFromUsed
  <1>4. CASE UsedUnknown(n, x) /\ (Requeue(n) \/ (Step(next) /\ UNCHANGED queue))
    <2>1. PICK q \in Quantities : q # NoObject /\ SetObjects(n, q, x)
      BY <1>1, <1>4, QuantityFacts DEF UsedUnknown
    <2>2. UNCHANGED spec
      BY <1>4 DEF UsedUnknown
    <2>3. QED
      BY <1>0, <1>1, <1>4, <2>1, <2>2, SetObjectsFacts, IdleType DEF TypeOK, Requested, Requeue, Step
  <1>5. QED
    BY <1>2, <1>3, <1>4

(***************************************************************************)
(* The steps that create a Subnamespace preserve the invariant.            *)
(***************************************************************************)
LEMMA CreateIInv ==
    ASSUME IInv, Setup \/ InitNamespace \/ InitQuota \/ InitAnnotate \/ InitCreated
    PROVE  IInv'
  <1>0. TypeOK /\ CreatedHasQuotaObject /\ Prepared /\ Requested /\ Syncing
    BY DEF IInv
  <1>1. PICK n \in SNSs :
            /\ n = worker.sns /\ worker.at # "idle" /\ n \in Nodes
            /\ Exists(n) /\ worker.spec # NoObject
    BY <1>0, ParentType DEF TypeOK, Requested, Setup, InitNamespace, InitQuota, InitAnnotate, InitCreated
  <1>2. CASE Setup
    <2>1. /\ worker' = Idle /\ queue' = queue \cup {n}
          /\ phase' = phase \/ phase' = [phase EXCEPT ![n] = "Missing"]
          /\ UNCHANGED <<spec, isRq, status, namespaces, rq, crq, used, updates, failures, raced>>
      BY <1>1, <1>2 DEF Setup, Requeue, Finish, objs
    <2>2. TypeOK'
      BY <1>0, <1>1, <2>1, IdleType DEF TypeOK, Phases
    <2>3. QED
      BY <1>0, <1>1, <2>1, <2>2, IdleType, QuietStep DEF TypeOK, Requested, Exists
  <1>3. CASE InitNamespace
    <2>1. /\ worker' = [worker EXCEPT !.at = "initQuota"] /\ namespaces' = namespaces \cup {n}
          /\ UNCHANGED <<phase, spec, isRq, status, rq, crq, used, queue, updates, failures, raced>>
      BY <1>1, <1>3 DEF InitNamespace, Step, sns
    <2>2. TypeOK'
      BY <1>0, <1>1, <2>1 DEF TypeOK, Steps
    <2>3. CreatedHasQuotaObject'
      BY <1>0, <2>1 DEF CreatedHasQuotaObject, SubnamespaceObject
    <2>4. Prepared' /\ Requested' /\ Syncing'
      BY <1>0, <1>1, <2>1 DEF TypeOK, Prepared, Requested, Syncing, Exists
    <2>5. QED
      BY <2>2, <2>3, <2>4 DEF IInv
  <1>4. CASE InitQuota
    <2>1. /\ n \in namespaces
          /\ UNCHANGED <<phase, isRq, status, namespaces, used, updates, failures, raced>>
      BY <1>0, <1>1, <1>4 DEF InitQuota, Prepared
    <2>2. CASE /\ ~HasQuota(n)
               /\ rq' = [rq EXCEPT ![n] = CreateDefaultSNSResourceQuota(@)]
               /\ Step("initAnnotate")
               /\ UNCHANGED <<crq, spec, queue>>
      <3>1. TypeOK'
        BY <1>0, <1>1, <2>1, <2>2, ObjectType DEF TypeOK, Steps, Step
      <3>2. \A m \in SNSs : m # n => SubnamespaceObject(m)' = SubnamespaceObject(m)
        <4>1. ASSUME NEW m \in SNSs, m # n
              PROVE  rq'[m] = rq[m] /\ crq' = crq
          BY <1>0, <1>1, <2>2, <4>1, ParentType DEF TypeOK
        <4>2. QED
          BY <4>1 DEF SubnamespaceObject
      <3>3. worker'.at = "initAnnotate" /\ worker'.sns = n /\ worker'.spec = worker.spec
        BY <1>0, <1>1, <2>2 DEF TypeOK, Step
      <3>4. QED
        BY <1>0, <1>1, <2>1, <2>2, <3>1, <3>2, <3>3, ObjectStep DEF Requested
    <2>3. CASE /\ HasQuota(n)
               /\ \/ EnsureFromSpec(n, OtherObject(n), "initUpdate", "initAnnotate")
                  \/ EnsureFromUsed(n, OtherObject(n), "initUpdate", "initAnnotate")
                  \/ UsedUnknown(n, OtherObject(n)) /\ Requeue(n)
      <3>1. "initUpdate" \in Steps /\ "initAnnotate" \in Steps /\ OtherObject(n) \in Quantities
        BY <1>0, <1>1, ObjectType DEF Steps
      <3>2. /\ rq' \in [Nodes -> Quantities] /\ crq' \in [Nodes -> Quantities]
            /\ SubnamespaceObject(n)' # NoObject
            /\ \A m \in SNSs : m # n => SubnamespaceObject(m)' = SubnamespaceObject(m)
            /\ spec' \in [SNSs -> Quantities]
            /\ \A m \in SNSs : Exists(m) => spec'[m] # NoObject
            /\ queue' \subseteq SNSs
            /\ worker' \in [at : Steps, sns : Nodes, spec : Quantities, fresh : BOOLEAN,
                            requests : [SNSs -> Quantities], total : Quantities, objFresh : BOOLEAN]
            /\ worker'.at \in {"idle", "initUpdate", "initAnnotate"}
            /\ worker'.at = "idle" \/ (worker'.sns = n /\ worker'.spec # NoObject)
        BY <1>1, <2>3, <3>1, EnsureFacts
      <3>3. TypeOK'
        BY <1>0, <1>1, <2>1, <3>2 DEF TypeOK
      <3>4. QED
        BY <1>1, <2>1, <3>2, <3>3, ObjectStep
    <2>4. QED
      BY <1>1, <1>4, <2>2, <2>3 DEF InitQuota
  <1>5. CASE InitAnnotate
    <2>1. /\ queue' = queue \cup {n}
          /\ worker' = Idle \/ worker' = [worker EXCEPT !.at = "initCreated"]
          /\ isRq' = isRq \/ isRq' = [isRq EXCEPT ![n] = RqFlag(n)]
          /\ UNCHANGED <<phase, spec, status, namespaces, rq, crq, used, updates, failures, raced>>
      BY <1>1, <1>5 DEF InitAnnotate, Requeue, Step, objs
    <2>2. RqFlag(n) \in {"", "true", "false"}
      BY DEF RqFlag
    <2>3. TypeOK'
      <3>1. isRq' \in [SNSs -> {"", "true", "false"}]
        BY <1>0, <1>1, <2>1, <2>2 DEF TypeOK
      <3>2. /\ worker' \in [at : Steps, sns : Nodes, spec : Quantities, fresh : BOOLEAN,
                            requests : [SNSs -> Quantities], total : Quantities, objFresh : BOOLEAN]
            /\ worker'.at # "idle" => worker'.sns \in SNSs
        BY <1>0, <1>1, <2>1, IdleType DEF TypeOK, Steps
      <3>3. QED
        BY <1>0, <1>1, <2>1, <3>1, <3>2 DEF TypeOK
    <2>4. worker.at = "initAnnotate"
      BY <1>5 DEF InitAnnotate
    <2>5. CreatedHasQuotaObject'
      BY <1>0, <2>1 DEF CreatedHasQuotaObject, SubnamespaceObject
    <2>6. CASE worker' = Idle
      BY <1>0, <2>1, <2>3, <2>6, IdleType, QuietStep DEF Requested, Exists
    <2>7. CASE worker' = [worker EXCEPT !.at = "initCreated"]
      <3>1. worker'.at = "initCreated" /\ worker'.sns = n /\ worker'.spec = worker.spec
        BY <1>0, <1>1, <2>7 DEF TypeOK
      <3>2. Prepared' /\ Requested' /\ Syncing'
        BY <1>0, <1>1, <2>1, <2>4, <3>1 DEF Prepared, Requested, Syncing, Exists, HasObject, SubnamespaceObject
      <3>3. QED
        BY <2>3, <2>5, <3>2 DEF IInv
    <2>8. QED
      BY <2>1, <2>6, <2>7
  <1>6. CASE InitCreated
    <2>1. /\ worker.at = "initCreated" /\ worker' = Idle /\ queue' = queue \cup {n}
          /\ phase' = phase \/ phase' = [phase EXCEPT ![n] = "Created"]
          /\ UNCHANGED <<spec, isRq, status, namespaces, rq, crq, used, updates, failures, raced>>
      BY <1>1, <1>6 DEF InitCreated, Requeue, Finish, objs
    <2>2. TypeOK'
      BY <1>0, <1>1, <2>1, IdleType DEF TypeOK, Phases
    <2>3. CreatedHasQuotaObject'
      BY <1>0, <1>1, <2>1 DEF TypeOK, CreatedHasQuotaObject, SubnamespaceObject, Prepared, HasObject
    <2>4. Prepared' /\ Requested' /\ Syncing'
      BY <1>0, <1>1, <2>1, IdleType DEF TypeOK, Prepared, Requested, Syncing, Exists
    <2>5. QED
      BY <2>2, <2>3, <2>4 DEF IInv
  <1>7. QED
    BY <1>2, <1>3, <1>4, <1>5, <1>6

(***************************************************************************)
(* The steps of sync, and quota.UpdateObject, preserve the invariant: sync *)
(* deletes quota objects, and never the one a Created Subnamespace needs.  *)
(***************************************************************************)
LEMMA SyncIInv ==
    ASSUME IInv, SyncList \/ SyncQuota \/ SyncStatus \/ UpdateQuotaObject
    PROVE  IInv'
  <1>0. TypeOK /\ CreatedHasQuotaObject /\ Prepared /\ Requested /\ Syncing
    BY DEF IInv
  <1>1. PICK n \in SNSs :
            /\ n = worker.sns /\ worker.at # "idle" /\ n \in Nodes
            /\ Exists(n) /\ worker.spec # NoObject /\ worker.spec \in Quantities
    BY <1>0, ParentType DEF TypeOK, Requested, SyncList, SyncQuota, SyncStatus, UpdateQuotaObject
  <1>2. CASE SyncList
    <2>1. /\ worker' = [worker EXCEPT !.at = "syncQuota", !.requests = ChildrenRequests(n),
                                      !.total = worker.spec]
          /\ worker.at = "sync"
          /\ UNCHANGED <<phase, spec, isRq, status, namespaces, rq, crq, used, queue, updates, failures, raced>>
      BY <1>1, <1>2 DEF SyncList, sns, objs
    <2>2. ChildrenRequests(n) \in [SNSs -> Quantities]
      BY <1>0, QuantityFacts DEF TypeOK, ChildrenRequests
    <2>3. TypeOK'
      BY <1>0, <1>1, <2>1, <2>2 DEF TypeOK, Steps
    <2>4. worker'.at = "syncQuota" /\ worker'.sns = n /\ worker'.spec = worker.spec
      BY <1>0, <1>1, <2>1 DEF TypeOK
    <2>5. CreatedHasQuotaObject'
      BY <1>0, <2>1 DEF CreatedHasQuotaObject, SubnamespaceObject
    <2>6. Prepared' /\ Requested' /\ Syncing'
      BY <1>0, <1>1, <2>1, <2>4 DEF Prepared, Requested, Syncing, Exists
    <2>7. QED
      BY <2>3, <2>5, <2>6 DEF IInv
  <1>3. CASE SyncQuota
    <2>1. /\ phase[n] = "Created" /\ n \in namespaces
          /\ UNCHANGED <<phase, isRq, status, namespaces, used, updates, failures, raced>>
      BY <1>0, <1>1, <1>3 DEF SyncQuota, Syncing, CreatedHasQuotaObject
    <2>2. /\ SubnamespaceObject(n) \in Quantities /\ OtherObject(n) \in Quantities
          /\ DropOther(n) \in Quantities /\ CreateDefaultSNSResourceQuota(DropOther(n)) \in Quantities
      BY <1>0, ObjectType
    <2>3. CASE /\ HasQuota(n) /\ SubnamespaceObject(n) > 0
               /\ SetObjects(n, SubnamespaceObject(n),
                      IF IsRQ(n, SelfOffset) THEN DropOther(n)
                      ELSE CreateDefaultSNSResourceQuota(DropOther(n)))
               /\ worker' = [worker EXCEPT !.at = "syncUpdate", !.objFresh = TRUE]
               /\ UNCHANGED <<spec, queue>>
      <3>1. SubnamespaceObject(n) # NoObject
        BY <2>2, <2>3, QuantityFacts
      <3>2. /\ rq' \in [Nodes -> Quantities] /\ crq' \in [Nodes -> Quantities]
            /\ SubnamespaceObject(n)' = SubnamespaceObject(n)
            /\ \A m \in SNSs : m # n => SubnamespaceObject(m)' = SubnamespaceObject(m)
        BY <1>0, <2>2, <2>3, SetObjectsFacts
      <3>3. TypeOK'
        BY <1>0, <1>1, <2>1, <2>3, <3>2 DEF TypeOK, Steps
      <3>4. worker'.at = "syncUpdate" /\ worker'.sns = n /\ worker'.spec = worker.spec
        BY <1>0, <1>1, <2>3 DEF TypeOK
      <3>5. QED
        BY <1>0, <1>1, <2>1, <2>3, <3>1, <3>2, <3>3, <3>4, ObjectStep DEF Requested
    <2>4. CASE /\ HasQuota(n)
               /\ \/ EnsureFromSpec(n, DropOther(n), "syncUpdate", "syncStatus")
                  \/ EnsureFromUsed(n, DropOther(n), "syncUpdate", "syncStatus")
                  \/ UsedUnknown(n, DropOther(n)) /\ Step("syncStatus") /\ UNCHANGED queue
      <3>1. "syncUpdate" \in Steps /\ "syncStatus" \in Steps
        BY DEF Steps
      <3>2. /\ rq' \in [Nodes -> Quantities] /\ crq' \in [Nodes -> Quantities]
            /\ SubnamespaceObject(n)' # NoObject
            /\ \A m \in SNSs : m # n => SubnamespaceObject(m)' = SubnamespaceObject(m)
            /\ spec' \in [SNSs -> Quantities]
            /\ \A m \in SNSs : Exists(m) => spec'[m] # NoObject
            /\ queue' \subseteq SNSs
            /\ worker' \in [at : Steps, sns : Nodes, spec : Quantities, fresh : BOOLEAN,
                            requests : [SNSs -> Quantities], total : Quantities, objFresh : BOOLEAN]
            /\ worker'.at \in {"idle", "syncUpdate", "syncStatus"}
            /\ worker'.at = "idle" \/ (worker'.sns = n /\ worker'.spec # NoObject)
        BY <1>1, <2>2, <2>4, <3>1, EnsureFacts
      <3>3. TypeOK'
        BY <1>0, <1>1, <2>1, <3>2 DEF TypeOK
      <3>4. QED
        BY <1>1, <2>1, <3>2, <3>3, ObjectStep
    <2>5. CASE /\ ~HasQuota(n)
               /\ SetObjects(n, NoObject, OtherObject(n))
               /\ spec' = IF worker.fresh THEN [spec EXCEPT ![n] = Unset] ELSE spec
               /\ queue' = IF spec' # spec THEN queue \cup {n} ELSE queue
               /\ worker' = [worker EXCEPT !.at = "syncStatus", !.spec = Unset]
      <3>1. /\ rq' \in [Nodes -> Quantities] /\ crq' \in [Nodes -> Quantities]
            /\ \A m \in SNSs : m # n => SubnamespaceObject(m)' = SubnamespaceObject(m)
        BY <1>0, <2>2, <2>5, SetObjectsFacts, QuantityFacts
      <3>2. /\ spec' \in [SNSs -> Quantities] /\ queue' \subseteq SNSs
            /\ \A m \in SNSs : Exists(m) => spec'[m] # NoObject
        BY <1>0, <1>1, <2>5, QuantityFacts DEF TypeOK, Requested
      <3>3. /\ worker' \in [at : Steps, sns : Nodes, spec : Quantities, fresh : BOOLEAN,
                            requests : [SNSs -> Quantities], total : Quantities, objFresh : BOOLEAN]
            /\ worker'.at = "syncStatus" /\ worker'.sns = n /\ worker'.spec # NoObject
        BY <1>0, <1>1, <2>5, QuantityFacts DEF TypeOK, Steps
      <3>4. TypeOK'
        BY <1>0, <1>1, <2>1, <3>1, <3>2, <3>3 DEF TypeOK
      <3>5. QED
        BY <1>1, <2>1, <2>5, <3>1, <3>2, <3>3, <3>4, ObjectStep
    <2>6. QED
      BY <1>1, <1>3, <2>3, <2>4, <2>5 DEF SyncQuota
  <1>4. CASE SyncStatus
    <2>1. /\ worker' = Idle
          /\ UNCHANGED <<phase, spec, namespaces, rq, crq, used, updates, failures, raced>>
      BY <1>4 DEF SyncStatus, Requeue, Finish, objs
    <2>2. /\ isRq' = isRq \/ isRq' = [isRq EXCEPT ![n] = RqFlag(n)]
          /\ \/ status' = status
             \/ status' = [status EXCEPT ![n] = [requests |-> worker.requests, total |-> worker.total]]
      BY <1>1, <1>4 DEF SyncStatus
    <2>3. queue' \subseteq SNSs
      <3>1. ParentEvent(n) \subseteq SNSs /\ ChildrenEvents(n) \subseteq SNSs
        BY ParentType DEF ParentEvent, ChildrenEvents, Children, SNSs
      <3>2. queue' \subseteq queue \cup {n} \cup ParentEvent(n) \cup ChildrenEvents(n)
        BY <1>1, <1>4 DEF SyncStatus, Requeue
      <3>3. QED
        BY <1>0, <1>1, <3>1, <3>2 DEF TypeOK
    <2>4. isRq' \in [SNSs -> {"", "true", "false"}]
      BY <1>0, <2>2 DEF TypeOK, RqFlag
    <2>5. status' \in [SNSs -> [requests : [SNSs -> Quantities], total : Quantities]]
      <3>1. [requests |-> worker.requests, total |-> worker.total]
                \in [requests : [SNSs -> Quantities], total : Quantities]
        BY <1>0 DEF TypeOK
      <3>2. QED
        BY <1>0, <2>2, <3>1 DEF TypeOK
    <2>6. TypeOK'
      BY <1>0, <2>1, <2>3, <2>4, <2>5, IdleType DEF TypeOK
    <2>7. QED
      BY <1>0, <2>1, <2>6, IdleType, QuietStep DEF Requested, Exists
  <1>5. CASE UpdateQuotaObject
    <2>1. /\ worker.at \in {"initUpdate", "syncUpdate"}
          /\ worker' = [worker EXCEPT !.at = IF worker.at = "initUpdate" THEN "initAnnotate" ELSE "syncStatus"]
          /\ UNCHANGED <<phase, spec, isRq, status, namespaces, used, queue, updates, failures, raced>>
      BY <1>5 DEF UpdateQuotaObject, Step, sns
    <2>2. n \in namespaces /\ (HasQuota(n) => SubnamespaceObject(n) # NoObject)
      BY <1>0, <1>1, <2>1 DEF Prepared, Syncing, CreatedHasQuotaObject, HasObject
    <2>3. SubnamespaceObject(n) \in Quantities /\ OtherObject(n) \in Quantities
      BY <1>0, ObjectType
    <2>4. PICK q \in Quantities :
              (q = worker.spec \/ q = SubnamespaceObject(n)) /\ SetObjects(n, q, OtherObject(n))
      BY <1>1, <1>5, <2>3 DEF UpdateQuotaObject
    <2>5. /\ rq' \in [Nodes -> Quantities] /\ crq' \in [Nodes -> Quantities]
          /\ SubnamespaceObject(n)' = q
          /\ \A m \in SNSs : m # n => SubnamespaceObject(m)' = SubnamespaceObject(m)
      BY <1>0, <2>3, <2>4, SetObjectsFacts
    <2>6. TypeOK'
      BY <1>0, <1>1, <2>1, <2>5 DEF TypeOK, Steps
    <2>7. /\ worker'.at \in {"initAnnotate", "syncStatus"} /\ worker'.sns = n /\ worker'.spec = worker.spec
          /\ worker'.at = "syncStatus" => phase[n] = "Created"
      BY <1>0, <1>1, <2>1 DEF TypeOK, Syncing
    <2>8. QED
      BY <1>0, <1>1, <2>1, <2>2, <2>4, <2>5, <2>6, <2>7, ObjectStep DEF Requested
  <1>6. QED
    BY <1>2, <1>3, <1>4, <1>5
-----------------------------------------------------------------------------
(***************************************************************************)
(* Every behaviour keeps the inductive invariant.                          *)
(***************************************************************************)
THEOREM Invariance == Spec => []IInv
  <1>1. IInv /\ [Next]_vars => IInv'
    <2> SUFFICES ASSUME IInv, [Next]_vars PROVE IInv'
      OBVIOUS
    <2>1. CASE UNCHANGED vars
      BY <2>1 DEF vars, IInv, TypeOK, CreatedHasQuotaObject, SubnamespaceObject, Prepared, HasObject,
        Requested, Syncing, Exists
    <2>2. QED
      BY <2>1, UsersIInv, QueueIInv, CreateIInv, SyncIInv DEF Next, Work
  <1>2. QED
    BY <1>1, InitIInv, PTL DEF Spec

(***************************************************************************)
(* Phases, requests, quota objects, queue and worker keep their types: in  *)
(* particular the root namespace, which has no Subnamespace, is never      *)
(* enqueued by the sync of its children.                                   *)
(***************************************************************************)
THEOREM Typing == Spec => []TypeOK
  <1>1. IInv => TypeOK
    BY DEF IInv
  <1>2. QED
    BY <1>1, Invariance, PTL

(***************************************************************************)
(* A Subnamespace that says Created has its namespace and its quota        *)
(* object, in any hierarchy and after any failures.                        *)
(***************************************************************************)
THEOREM CreatedIsComplete == Spec => []CreatedHasQuotaObject
  <1>1. IInv => CreatedHasQuotaObject
    BY DEF IInv
  <1>2. QED
    BY <1>1, Invariance, PTL
-----------------------------------------------------------------------------
(***************************************************************************)
(* FitsInParentWhenSettled is about requests, admission is about quota     *)
(* objects.  The link: what surrounds an admitted request is in force.     *)
(* What is between the two is said by FitInv.                              *)
(***************************************************************************)
\* The objects admission adds up are of one kind: no upper ResourcePool where children have ResourceQuotas.
SameKind == \A n \in SNSs : IsSNSUpper(n) => Depth(n) > RqDepth

\* What the children of n are promised by the requests s.
AllocatedIn(s, n) == SumFunction([c \in {d \in Children(n) : HasQuota(d)} |-> Hard(s[c])])

\* The hierarchy at the start fits.
InitialFits ==
    \A n \in Nodes \ Pools : InitialSpec[n] # NoObject => AllocatedIn(InitialSpec, n) <= InitialSpec[n]

\* Requests and namespaces come together, parents first, and a copy that is current says what the object says.
Present ==
    /\ \A n \in SNSs : ~Exists(n) => spec[n] = NoObject
    /\ \A n \in SNSs : n \in namespaces => Exists(n)
    /\ \A n \in SNSs : Exists(n) => Parent(n) \in namespaces
    /\ \A n \in SNSs \ Pools : spec[n] # Unset
    /\ rq[Root] \in Nat
    /\ worker.at # "idle" /\ worker.fresh => worker.spec = spec[worker.sns]

\* A worker with an earlier request in hand works on one that is not in force: it cannot undo one that is.
InStep ==
    LET n == worker.sns
    IN  worker.at # "idle" /\ HasQuota(n) => worker.spec = spec[n] \/ SubnamespaceObject(n) # spec[n]

Beside(n) == {m \in SNSs \ {n} : m = Parent(n) \/ m \in Children(Parent(n))}

\* An upper ResourcePool without a quota in its request may be given what it uses, which nobody but the webhook
\* judges: what it judges by is in force.
Emptied ==
    \A n \in SNSs : Exists(n) /\ HasQuota(n) /\ spec[n] = Unset =>
        /\ isRq[n] = RqFlag(n)
        /\ SubnamespaceObject(n) = Unset \/ \A m \in Beside(n) : Settled(m)

Limit(n) == IF n = Root THEN rq[Root] ELSE Hard(spec[n])

Fits == \A n \in Nodes \ Pools : n = Root \/ Exists(n) => AllocatedIn(spec, n) <= Limit(n)

FitInv == Present /\ (~raced => InStep /\ Emptied /\ Fits)

(***************************************************************************)
(* Siblings are at the same depth, one below their parent.                 *)
(***************************************************************************)
LEMMA DepthOfChild ==
    ASSUME NEW n \in SNSs
    PROVE  Depth(n) = Depth(Parent(n)) + 1 /\ Depth(n) \in Nat /\ Depth(Parent(n)) \in Nat /\ Parent(n) # n
  <1>1. Parent(n) \in Nodes /\ n \in Nodes
    BY ParentType
  <1>2. DisplayName[n] = Append(DisplayName[Parent(n)], n) /\ Len(DisplayName[n]) > 1
    BY TreeAssumption
  <1>3. DisplayName[Parent(n)] \in Seq(Nodes)
    BY <1>1, TreeAssumption
  <1>4. Len(DisplayName[n]) = Len(DisplayName[Parent(n)]) + 1 /\ Len(DisplayName[Parent(n)]) \in Nat
    BY <1>1, <1>2, <1>3
  <1>5. QED
    BY <1>2, <1>4 DEF Depth

(***************************************************************************)
(* The quota object of a sibling, or of a child, is of the kind that       *)
(* admission looks up.                                                     *)
(***************************************************************************)
LEMMA KindFacts ==
    ASSUME SameKind, NEW n \in SNSs, HasQuota(n)
    PROVE  /\ IsRQ(n, SelfOffset) <=> Depth(n) <= RqDepth
           /\ n \notin Pools => (IsRQ(n, ChildOffset) <=> Depth(n) + 1 <= RqDepth)
           /\ IsRQ(n, ParentOffset) <=> Depth(Parent(n)) <= RqDepth
  <1>1. Depth(n) \in Nat /\ Depth(n) = Depth(Parent(n)) + 1 /\ Depth(Parent(n)) \in Nat /\ RqDepth \in Nat
    BY DepthOfChild, ParameterAssumption
  <1>2. n \in Pools => Depth(n) > RqDepth
    BY DEF SameKind, HasQuota
  <1>3. QED
    BY <1>1, <1>2 DEF IsRQ, SelfOffset, ParentOffset, ChildOffset

(***************************************************************************)
(* The value of a Hard list is a natural number.                           *)
(***************************************************************************)
LEMMA HardType ==
    ASSUME NEW q \in Quantities
    PROVE  /\ Hard(q) \in Nat
           /\ q \in Nat => Hard(q) = q
           /\ q \in {Unset, NoObject} => Hard(q) = 0
  BY DEF Hard, Quantities, Unset, NoObject

(***************************************************************************)
(* A regular subnamespace has children with quota objects only.            *)
(***************************************************************************)
LEMMA ChildrenFacts ==
    ASSUME NEW n \in Nodes
    PROVE  /\ Children(n) \subseteq Nodes /\ Children(n) \subseteq SNSs
           /\ n \notin Pools => \A c \in Children(n) : HasQuota(c)
           /\ IsFiniteSet(Nodes)
  BY TreeAssumption DEF Children, HasQuota, IsSNSUpper, SNSs

(***************************************************************************)
(* If no child of n asks for more, no more is promised below n.            *)
(***************************************************************************)
LEMMA AllocatedAtMost ==
    ASSUME NEW n \in Nodes, NEW s \in [SNSs -> Quantities], NEW t \in [SNSs -> Quantities],
           \A c \in Children(n) : HasQuota(c) => Hard(s[c]) <= Hard(t[c])
    PROVE  AllocatedIn(s, n) <= AllocatedIn(t, n) /\ AllocatedIn(t, n) \in Int
  <1> DEFINE A == {d \in Children(n) : HasQuota(d)}
             f == [c \in A |-> Hard(s[c])]
             g == [c \in A |-> Hard(t[c])]
  <1>1. A \in SUBSET Nodes /\ A \subseteq SNSs /\ IsFiniteSet(Nodes)
    BY ChildrenFacts
  <1>2. /\ \A c \in A : f[c] \in Int /\ g[c] \in Int /\ f[c] <= g[c]
        /\ AllocatedIn(s, n) = SumFunctionOnSet(f, A) /\ AllocatedIn(t, n) = SumFunctionOnSet(g, A)
    BY <1>1, HardType DEF AllocatedIn, SumFunction
  <1>3. IsFiniteSet(A)
    BY <1>1, FS_Subset
  <1> HIDE DEF A, f, g
  <1>4. SumFunctionOnSet(f, A) <= SumFunctionOnSet(g, A)
    <2>1. \A c \in A \cap A : f[c] <= g[c]
      BY <1>2
    <2>2. QED
      BY <1>1, <1>2, <2>1, SumAtMost
  <1>5. SumFunctionOnSet(g, A) \in Int
    BY <1>2, <1>3, SumType
  <1>6. QED
    BY <1>2, <1>4, <1>5

(***************************************************************************)
(* validateEnoughResourcesInParentSNS and its counterpart for updates: if  *)
(* what they look at is in force, what is left of P after the siblings'    *)
(* objects and the request q bounds what is promised with q in place.  x   *)
(* is what the update adds back for the object n has.                      *)
(***************************************************************************)
LEMMA RequestFits ==
    ASSUME SameKind, TypeOK, Present, NEW n \in SNSs, Parent(n) \notin Pools,
           \A m \in Beside(n) : Settled(m),
           NEW q \in Quantities, NEW s \in [SNSs -> Quantities], s[n] = q, \A c \in SNSs \ {n} : s[c] = spec[c],
           NEW P \in Int, NEW x \in Int, P - SubnamespaceSiblingObjects(n) - Hard(q) + x >= 0,
           x <= 0 \/ (n \in namespaces /\ x <= Hard(SubnamespaceObject(n)))
    PROVE  AllocatedIn(s, Parent(n)) <= P
  <1> DEFINE p == Parent(n)
             kind == IF IsRQ(n, SelfOffset) THEN rq ELSE crq
             A == {d \in Children(p) : HasQuota(d)}
             B == Children(p) \cap namespaces
             h == [c \in A |-> Hard(s[c])]
             g == [c \in B |-> Hard(kind[c])]
  <1>1. p \in Nodes /\ n \in Children(p) /\ Children(p) \subseteq SNSs /\ Children(p) \subseteq Nodes
        /\ IsFiniteSet(Nodes) /\ (\A c \in Children(p) : HasQuota(c))
    BY ParentType, ChildrenFacts DEF Children
  <1>2. /\ A \in SUBSET Nodes /\ B \in SUBSET Nodes /\ A \subseteq SNSs /\ n \in A
        /\ \A c \in B : c \in A
    BY <1>1
  <1>3. kind \in [Nodes -> Quantities]
    BY DEF TypeOK
  <1>4. /\ \A c \in A : h[c] \in Int /\ h[c] = Hard(s[c])
        /\ \A c \in B : g[c] \in Int /\ g[c] = Hard(kind[c]) /\ 0 <= g[c]
    BY <1>2, <1>3, HardType
  <1>5. /\ AllocatedIn(s, Parent(n)) = SumFunctionOnSet(h, A)
        /\ SubnamespaceSiblingObjects(n) = SumFunctionOnSet(g, B)
    BY DEF AllocatedIn, SubnamespaceSiblingObjects, SumFunction
  <1>6. \A c \in A \ {n} : /\ c \in B => h[c] <= g[c]
                           /\ c \notin B => h[c] <= 0
    <2> SUFFICES ASSUME NEW c \in A \ {n}
                 PROVE  /\ c \in B => h[c] <= g[c]
                        /\ c \notin B => h[c] <= 0
      OBVIOUS
    <2>1. c \in SNSs /\ HasQuota(c) /\ Parent(c) = p /\ c \in Beside(n) /\ h[c] = Hard(spec[c])
      BY <1>1, <1>2, <1>4 DEF Beside, Children
    <2>2. Settled(c)
      BY <2>1
    <2>3. CASE c \in B
      <3>1. Exists(c)
        BY <2>1, <2>3 DEF Present
      <3>2. SubnamespaceObject(c) = spec[c]
        BY <2>1, <2>2, <3>1 DEF Settled
      <3>3. IsRQ(c, SelfOffset) <=> IsRQ(n, SelfOffset)
        <4>1. Depth(c) = Depth(n)
          BY <2>1, DepthOfChild
        <4>2. QED
          BY <1>1, <2>1, <4>1, KindFacts
      <3>4. kind[c] = spec[c]
        BY <3>2, <3>3 DEF SubnamespaceObject
      <3>5. QED
        BY <1>4, <2>1, <2>3, <3>4
    <2>4. CASE c \notin B
      <3>1. ~Exists(c)
        BY <2>1, <2>2, <2>4 DEF Settled, Children
      <3>2. spec[c] = NoObject
        BY <2>1, <3>1 DEF Present
      <3>3. QED
        BY <2>1, <2>4, <3>2, HardType, QuantityFacts
    <2>5. QED
      BY <2>3, <2>4
  <1>7. Hard(q) \in Nat /\ h[n] = Hard(q) /\ (n \in B => g[n] = Hard(SubnamespaceObject(n)))
    BY <1>2, <1>4, HardType DEF SubnamespaceObject
  <1>8. n \in namespaces => n \in B
    BY <1>1
  <1> HIDE DEF A, B, h, g, p, kind
  <1>9. SumFunctionOnSet(h, A \ {n}) <= SumFunctionOnSet(g, B \ {n})
    <2>1. A \ {n} \in SUBSET Nodes /\ B \ {n} \in SUBSET Nodes
      BY <1>2
    <2>2. \A c \in (A \ {n}) \cap (B \ {n}) : h[c] <= g[c]
      BY <1>6
    <2>3. \A c \in (A \ {n}) \ (B \ {n}) : h[c] <= 0
      BY <1>6
    <2>4. \A c \in (B \ {n}) \ (A \ {n}) : 0 <= g[c]
      BY <1>4
    <2>5. (\A c \in A \ {n} : h[c] \in Int) /\ (\A c \in B \ {n} : g[c] \in Int)
      BY <1>4
    <2>6. QED
      BY <1>1, <2>1, <2>2, <2>3, <2>4, <2>5, SumAtMost
  <1>10. /\ IsFiniteSet(A) /\ IsFiniteSet(B) /\ IsFiniteSet(A \ {n}) /\ IsFiniteSet(B \ {n})
         /\ \A c \in A : h[c] \in Int
         /\ \A c \in B : g[c] \in Int
    BY <1>1, <1>2, <1>4, FS_Subset
  <1>11. SumFunctionOnSet(h, A) = Hard(q) + SumFunctionOnSet(h, A \ {n})
    BY <1>2, <1>7, <1>10, SumWithout
  <1>12. SumFunctionOnSet(h, A \ {n}) \in Int /\ SumFunctionOnSet(g, B \ {n}) \in Int
    BY <1>10, SumType
  <1>13. x + SumFunctionOnSet(g, B \ {n}) <= SumFunctionOnSet(g, B)
    <2>1. CASE n \in B
      <3>1. SumFunctionOnSet(g, B) = g[n] + SumFunctionOnSet(g, B \ {n})
        BY <1>10, <2>1, SumWithout
      <3>2. g[n] \in Int /\ 0 <= g[n] /\ x <= g[n]
        BY <1>4, <1>7, <2>1
      <3>3. QED
        BY <1>12, <3>1, <3>2
    <2>2. CASE n \notin B
      <3>1. B \ {n} = B
        BY <2>2
      <3>2. SumFunctionOnSet(g, B) = SumFunctionOnSet(g, B \ {n})
        BY <3>1, Zenon
      <3>3. x <= 0
        BY <1>8, <2>2
      <3>4. QED
        BY <1>12, <3>2, <3>3
    <2>3. QED
      BY <2>1, <2>2
  <1>14. SumFunctionOnSet(g, B) \in Int
    BY <1>10, SumType
  <1>15. QED
    BY <1>5, <1>7, <1>9, <1>11, <1>12, <1>13, <1>14

(***************************************************************************)
(* validateEnoughResourcesForChildren: if the children's requests are in   *)
(* force, a quota that covers their objects covers their requests.         *)
(***************************************************************************)
LEMMA ChildrenFit ==
    ASSUME SameKind, TypeOK, Present, NEW n \in SNSs \ Pools, \A m \in Children(n) : Settled(m),
           NEW q \in Nat, ValidateEnoughResourcesForChildren(n, q),
           NEW s \in [SNSs -> Quantities], \A c \in Children(n) : s[c] = spec[c]
    PROVE  AllocatedIn(s, n) <= q
  <1> DEFINE kind == IF IsRQ(n, ChildOffset) THEN rq ELSE crq
             A == {d \in Children(n) : HasQuota(d)}
             B == {d \in Children(n) : Exists(d)}
             h == [c \in A |-> Hard(s[c])]
             g == [c \in B |-> Hard(kind[c])]
  <1>1. n \in Nodes /\ Children(n) \subseteq SNSs /\ Children(n) \subseteq Nodes
        /\ IsFiniteSet(Nodes) /\ (\A c \in Children(n) : HasQuota(c))
    BY ParentType, ChildrenFacts
  <1>2. A \in SUBSET Nodes /\ B \in SUBSET Nodes /\ A \subseteq SNSs
    BY <1>1
  <1>3. kind \in [Nodes -> Quantities]
    BY DEF TypeOK
  <1>4. /\ \A c \in A : h[c] \in Int /\ h[c] = Hard(spec[c])
        /\ \A c \in B : g[c] \in Int /\ g[c] = Hard(kind[c]) /\ 0 <= g[c]
    BY <1>2, <1>3, HardType
  <1>5. /\ AllocatedIn(s, n) = SumFunctionOnSet(h, A)
        /\ SubnamespaceChildrenObjects(n) = SumFunctionOnSet(g, B)
    BY DEF AllocatedIn, SubnamespaceChildrenObjects, SumFunction
  <1>6. ASSUME NEW c \in A
        PROVE  /\ c \in B => h[c] <= g[c]
               /\ c \notin B => h[c] <= 0
    <2>1. c \in SNSs /\ HasQuota(c) /\ Parent(c) = n /\ Settled(c) /\ h[c] = Hard(spec[c])
      BY <1>1, <1>4 DEF Children
    <2>2. CASE Exists(c)
      <3>1. SubnamespaceObject(c) = spec[c]
        BY <2>1, <2>2 DEF Settled
      <3>2. IsRQ(c, SelfOffset) <=> IsRQ(n, ChildOffset)
        <4>1. Depth(c) = Depth(n) + 1 /\ HasQuota(n)
          BY <2>1, DepthOfChild DEF HasQuota
        <4>2. QED
          BY <2>1, <4>1, KindFacts
      <3>3. kind[c] = spec[c]
        BY <3>1, <3>2 DEF SubnamespaceObject
      <3>4. QED
        BY <1>4, <2>1, <2>2, <3>3
    <2>3. CASE ~Exists(c)
      <3>1. spec[c] = NoObject
        BY <2>1, <2>3 DEF Present
      <3>2. QED
        BY <2>1, <2>3, <3>1, HardType, QuantityFacts
    <2>4. QED
      BY <2>2, <2>3
  <1> HIDE DEF A, B, h, g, kind
  <1>7. SumFunctionOnSet(h, A) <= SumFunctionOnSet(g, B)
    <2>1. \A c \in A \cap B : h[c] <= g[c]
      BY <1>6
    <2>2. \A c \in A \ B : h[c] <= 0
      BY <1>6
    <2>3. \A c \in B \ A : 0 <= g[c]
      BY <1>4
    <2>4. (\A c \in A : h[c] \in Int) /\ (\A c \in B : g[c] \in Int)
      BY <1>4
    <2>5. QED
      BY <1>1, <1>2, <2>1, <2>2, <2>3, <2>4, SumAtMost
  <1>8. SumFunctionOnSet(h, A) \in Int /\ SumFunctionOnSet(g, B) \in Int
    BY <1>1, <1>2, <1>4, FS_Subset, SumType
  <1>9. q - SumFunctionOnSet(g, B) >= 0
    BY <1>5 DEF ValidateEnoughResourcesForChildren
  <1>10. QED
    BY <1>5, <1>7, <1>8, <1>9

(***************************************************************************)
(* The object admission takes for the parent's is the one that limits the  *)
(* parent, and the parent's request says the same if it is in force.       *)
(***************************************************************************)
LEMMA ParentLimit ==
    ASSUME SameKind, IInv, Present, NEW n \in SNSs, Parent(n) \notin Pools, Parent(n) \in namespaces,
           Parent(n) \in SNSs => Settled(Parent(n))
    PROVE  SubnamespaceParentObject(n) \in Nat /\ SubnamespaceParentObject(n) = Limit(Parent(n))
  <1> DEFINE p == Parent(n)
  <1>1. p \in Nodes /\ TypeOK /\ Requested
    BY ParentType DEF IInv
  <1>2. HasQuota(n)
    BY DEF HasQuota, IsSNSUpper
  <1>3. CASE p = Root
    <2>1. Depth(Root) = 0
      <3>1. DisplayName[Root] = <<Root>> /\ Len(<<Root>>) = 1
        BY TreeAssumption
      <3>2. QED
        BY <3>1 DEF Depth
    <2>2. IsRQ(n, ParentOffset)
      BY <1>2, <1>3, <2>1, KindFacts, ParameterAssumption
    <2>3. QED
      BY <1>3, <2>2 DEF SubnamespaceParentObject, Limit, Present
  <1>4. CASE p # Root
    <2>1. p \in SNSs /\ HasQuota(p) /\ Exists(p)
      BY <1>1, <1>4 DEF SNSs, HasQuota, Present
    <2>2. SubnamespaceObject(p) = spec[p]
      BY <2>1 DEF Settled
    <2>3. IsRQ(n, ParentOffset) <=> IsRQ(p, SelfOffset)
      BY <1>2, <2>1, KindFacts
    <2>4. SubnamespaceParentObject(n) = spec[p]
      BY <2>2, <2>3 DEF SubnamespaceParentObject, SubnamespaceObject
    <2>5. spec[p] \in Nat
      <3>1. spec[p] \in Quantities /\ spec[p] # Unset /\ spec[p] # NoObject
        BY <1>1, <2>1 DEF TypeOK, Present, Requested
      <3>2. QED
        BY <3>1 DEF Quantities
    <2>6. Hard(spec[p]) = spec[p]
      BY <2>5, HardType DEF Quantities
    <2>7. QED
      BY <1>4, <2>4, <2>5, <2>6 DEF Limit
  <1>5. QED
    BY <1>3, <1>4

(***************************************************************************)
(* Whoever has a request of his own among n's neighbours has n among his:  *)
(* while a request for n is judged, none of them is in question.           *)
(***************************************************************************)
LEMMA BesideFacts ==
    ASSUME NEW n \in SNSs, SettledAround(n)
    PROVE  /\ Settled(n)
           /\ \A m \in Beside(n) : Settled(m)
           /\ \A m \in SNSs : n \in Beside(m) => Settled(m)
           /\ Parent(n) \in SNSs => Settled(Parent(n))
           /\ \A m \in Children(n) : Settled(m)
  BY DEF SettledAround, Beside, Children

(***************************************************************************)
(* What is promised below r is a matter of the requests of its children.   *)
(***************************************************************************)
LEMMA OtherAllocated ==
    ASSUME NEW r \in Nodes, NEW n \in SNSs, r # Parent(n), NEW s \in [SNSs -> Quantities],
           NEW t \in [SNSs -> Quantities], \A c \in SNSs \ {n} : t[c] = s[c]
    PROVE  AllocatedIn(t, r) <= AllocatedIn(s, r) /\ AllocatedIn(s, r) \in Int /\ AllocatedIn(t, r) \in Int
  <1>1. \A c \in Children(r) : c \in SNSs \ {n}
    BY DEF Children
  <1>2. \A c \in Children(r) : Hard(t[c]) <= Hard(s[c]) /\ Hard(s[c]) <= Hard(t[c])
    <2> SUFFICES ASSUME NEW c \in Children(r)
                 PROVE  Hard(t[c]) <= Hard(s[c]) /\ Hard(s[c]) <= Hard(t[c])
      OBVIOUS
    <2>1. t[c] = s[c] /\ s[c] \in Quantities
      BY <1>1
    <2>2. Hard(s[c]) \in Nat
      BY <2>1, HardType
    <2>3. QED
      BY <2>1, <2>2
  <1>3. QED
    BY <1>2, AllocatedAtMost

(***************************************************************************)
(* The sums are integers.                                                  *)
(***************************************************************************)
LEMMA AllocatedType ==
    ASSUME NEW n \in Nodes, NEW s \in [SNSs -> Quantities]
    PROVE  AllocatedIn(s, n) \in Int
  <1>1. \A c \in Children(n) : Hard(s[c]) <= Hard(s[c])
    BY ChildrenFacts, HardType
  <1>2. QED
    BY <1>1, AllocatedAtMost

(***************************************************************************)
(* So is what the siblings' quota objects add up to.                       *)
(***************************************************************************)
LEMMA SiblingsType ==
    ASSUME TypeOK, NEW n \in SNSs
    PROVE  SubnamespaceSiblingObjects(n) \in Int
  <1> DEFINE kind == IF IsRQ(n, SelfOffset) THEN rq ELSE crq
             B == Children(Parent(n)) \cap namespaces
             g == [c \in B |-> Hard(kind[c])]
  <1>1. B \in SUBSET Nodes /\ IsFiniteSet(B)
    BY ParentType, ChildrenFacts, FS_Subset
  <1>2. kind \in [Nodes -> Quantities]
    BY DEF TypeOK
  <1>3. \A c \in B : g[c] \in Int
    BY <1>1, <1>2, HardType
  <1>4. SubnamespaceSiblingObjects(n) = SumFunctionOnSet(g, B)
    BY DEF SubnamespaceSiblingObjects, SumFunction
  <1> HIDE DEF g, B
  <1>5. QED
    BY <1>1, <1>3, <1>4, SumType

(***************************************************************************)
(* Nothing is promised below n if nothing is asked for there.              *)
(***************************************************************************)
LEMMA NothingAllocated ==
    ASSUME NEW n \in Nodes, NEW s \in [SNSs -> Quantities], \A c \in Children(n) : s[c] = NoObject
    PROVE  AllocatedIn(s, n) <= 0
  <1> DEFINE A == {d \in Children(n) : HasQuota(d)}
             f == [c \in A |-> Hard(s[c])]
  <1>1. A \in SUBSET Nodes /\ A \subseteq SNSs /\ IsFiniteSet(Nodes)
    BY ChildrenFacts
  <1>2. \A c \in A : f[c] \in Int /\ f[c] <= 0
    BY <1>1, HardType, QuantityFacts
  <1>3. AllocatedIn(s, n) = SumFunctionOnSet(f, A)
    BY DEF AllocatedIn, SumFunction
  <1> HIDE DEF A, f
  <1>4. SumFunctionOnSet(f, A) <= SumFunctionOnSet(f, {})
    <2>1. {} \in SUBSET Nodes /\ A \cap {} = {} /\ A \ {} = A /\ {} \ A = {}
      OBVIOUS
    <2>2. QED
      BY <1>1, <1>2, <2>1, SumAtMost
  <1>5. SumFunctionOnSet(f, {}) = 0
    BY SumRecursion, FS_EmptySet
  <1>6. QED
    BY <1>3, <1>4, <1>5
-----------------------------------------------------------------------------
(***************************************************************************)
(* A change of the request of n alone that leaves everything fitting:      *)
(* what is promised below n's parent stays within its limit, and so does   *)
(* what is promised below n.                                               *)
(***************************************************************************)
LEMMA StillFits ==
    ASSUME TypeOK, TypeOK', Fits, NEW n \in SNSs, \A c \in SNSs \ {n} : spec'[c] = spec[c] /\ (Exists(c)' <=> Exists(c)),
           rq'[Root] = rq[Root],
           Parent(n) \notin Pools /\ (Parent(n) = Root \/ Exists(Parent(n))) => AllocatedIn(spec', Parent(n)) <= Limit(Parent(n)),
           n \notin Pools => AllocatedIn(spec', n) <= Hard(spec'[n])
    PROVE  Fits'
  <1> SUFFICES ASSUME NEW r \in Nodes \ Pools, r = Root \/ Exists(r)'
               PROVE  AllocatedIn(spec', r) <= Limit(r)'
    BY DEF Fits, AllocatedIn
  <1>1. n \in Nodes /\ n # Root /\ Parent(n) # n /\ Parent(n) \in Nodes
    BY ParentType, DepthOfChild DEF SNSs
  <1>2. CASE r = n
    BY <1>1, <1>2 DEF Limit
  <1>3. CASE r # n
    <2>1. (r = Root \/ Exists(r)) /\ Limit(r)' = Limit(r)
      BY <1>3 DEF Limit, SNSs
    <2>2. CASE r = Parent(n)
      BY <2>1, <2>2
    <2>3. CASE r # Parent(n)
      <3>1. AllocatedIn(spec, r) <= Limit(r)
        BY <2>1 DEF Fits
      <3>2. spec \in [SNSs -> Quantities] /\ spec' \in [SNSs -> Quantities]
        BY DEF TypeOK
      <3>3. AllocatedIn(spec', r) <= AllocatedIn(spec, r) /\ AllocatedIn(spec, r) \in Int /\ AllocatedIn(spec', r) \in Int
        BY <2>3, <3>2, OtherAllocated
      <3>4. Limit(r) \in Int
        <4>1. rq[Root] \in Int
          <5>1. rq[Root] \in Quantities
            BY TreeAssumption DEF TypeOK
          <5>2. QED
            BY <5>1 DEF Quantities, Unset, NoObject
        <4>2. r # Root => Hard(spec[r]) \in Nat
          BY <3>2, HardType DEF SNSs
        <4>3. QED
          BY <4>1, <4>2 DEF Limit
      <3>5. QED
        BY <2>1, <3>1, <3>3, <3>4
    <2>4. QED
      BY <2>2, <2>3
  <1>4. QED
    BY <1>2, <1>3

(***************************************************************************)
(* handleCreate.                                                           *)
(***************************************************************************)
LEMMA CreateFit ==
    ASSUME SameKind, IInv, IInv', FitInv, NEW n \in SNSs, NEW q \in Nat \cup {Unset}, CreateSNS(n, q)
    PROVE  FitInv'
  <1>0. TypeOK /\ TypeOK' /\ Requested /\ Present
    BY DEF IInv, FitInv
  <1>1. /\ ~Exists(n) /\ Parent(n) \in namespaces /\ CreateAllowed(n, q)
        /\ raced' = (raced \/ ~SettledAround(n))
        /\ UNCHANGED <<isRq, namespaces, rq, crq, worker>>
    BY DEF CreateSNS, objs
  <1>2. /\ spec'[n] = q /\ Exists(n)'
        /\ \A m \in SNSs \ {n} : spec'[m] = spec[m] /\ (Exists(m)' <=> Exists(m))
    BY <1>0 DEF CreateSNS, Exists, TypeOK
  <1>3. q \in Quantities /\ q # NoObject /\ (HasQuota(n) => q # Unset)
    BY <1>1, QuantityFacts DEF CreateAllowed, ValidateResourceQuotaParams
  <1>4. worker.at # "idle" => worker.sns \in SNSs \ {n}
    BY <1>0, <1>1 DEF TypeOK, Requested
  <1>5. Present'
    BY <1>0, <1>1, <1>2, <1>3, <1>4 DEF Present, HasQuota
  <1>6. ASSUME ~raced' PROVE InStep' /\ Emptied' /\ Fits'
    <2>1. ~raced /\ SettledAround(n) /\ InStep /\ Emptied /\ Fits
      BY <1>1, <1>6 DEF FitInv
    <2>2. \A m \in SNSs : SubnamespaceObject(m)' = SubnamespaceObject(m)
      BY <1>1 DEF SubnamespaceObject
    <2>3. InStep'
      BY <1>1, <1>2, <1>4, <2>1, <2>2 DEF InStep
    <2>4. \A m \in SNSs \ {n} : Settled(m) => Settled(m)'
      BY <1>1, <1>2, <2>2 DEF Settled
    <2>5. Emptied'
      <3> SUFFICES ASSUME NEW m \in SNSs, Exists(m)', HasQuota(m), spec'[m] = Unset
                   PROVE  /\ isRq'[m] = RqFlag(m)
                          /\ SubnamespaceObject(m)' = Unset \/ \A k \in Beside(m) : Settled(k)'
        BY DEF Emptied
      <3>1. m # n /\ Exists(m) /\ spec[m] = Unset
        BY <1>2, <1>3
      <3>2. isRq[m] = RqFlag(m) /\ (SubnamespaceObject(m) = Unset \/ \A k \in Beside(m) : Settled(k))
        BY <2>1, <3>1 DEF Emptied
      <3>3. CASE n \in Beside(m)
        <4>1. Settled(m)
          BY <2>1, <3>3, BesideFacts
        <4>2. QED
          BY <1>1, <2>2, <3>1, <3>2, <4>1 DEF Settled
      <3>4. CASE n \notin Beside(m)
        BY <1>1, <2>2, <2>4, <3>2, <3>4 DEF Beside
      <3>5. QED
        BY <3>3, <3>4
    <2>6. ASSUME Parent(n) \notin Pools PROVE AllocatedIn(spec', Parent(n)) <= Limit(Parent(n))
      <3> DEFINE P == SubnamespaceParentObject(n)
      <3>1. P \in Nat /\ P = Limit(Parent(n))
        BY <1>0, <1>1, <2>1, <2>6, BesideFacts, ParentLimit
      <3>2. P - SubnamespaceSiblingObjects(n) - Hard(q) >= 0
        BY <1>1, <3>1, QuantityFacts DEF CreateAllowed, ValidateEnoughResourcesInParentSNS
      <3>3. SubnamespaceSiblingObjects(n) \in Int /\ Hard(q) \in Nat
        BY <1>0, <1>3, HardType, SiblingsType
      <3> HIDE DEF P
      <3>4. P - SubnamespaceSiblingObjects(n) - Hard(q) + 0 >= 0
        BY <3>1, <3>2, <3>3
      <3>5. P \in Int /\ 0 \in Int /\ 0 <= 0
        BY <3>1
      <3>s. spec' \in [SNSs -> Quantities]
        BY <1>0 DEF TypeOK
      <3>6. AllocatedIn(spec', Parent(n)) <= P
        BY <1>0, <1>2, <1>3, <2>1, <2>6, <3>4, <3>5, <3>s, BesideFacts, RequestFits
      <3>7. QED
        BY <3>1, <3>6
    <2>7. AllocatedIn(spec', n) <= Hard(spec'[n])
      <3>1. \A c \in Children(n) : c \in SNSs \ {n} /\ ~Exists(c)
        <4> SUFFICES ASSUME NEW c \in Children(n) PROVE c \in SNSs \ {n} /\ ~Exists(c)
          OBVIOUS
        <4>1. c \in SNSs /\ Parent(c) = n /\ c # n
          BY DepthOfChild DEF Children
        <4>2. n \notin namespaces
          BY <1>0, <1>1 DEF Present
        <4>3. QED
          BY <1>0, <4>1, <4>2 DEF Present
      <3>2. AllocatedIn(spec', n) <= 0
        BY <1>0, <1>2, <3>1, NothingAllocated, ParentType DEF Present, TypeOK
      <3>3. AllocatedIn(spec', n) \in Int
        BY <1>0, AllocatedAtMost, AllocatedType, ParentType DEF TypeOK
      <3>4. QED
        BY <1>2, <1>3, <3>2, <3>3, HardType
    <2>8. Fits'
      BY <1>0, <1>1, <1>2, <2>1, <2>6, <2>7, StillFits
    <2>9. QED
      BY <2>3, <2>5, <2>8
  <1>7. QED
    BY <1>5, <1>6 DEF FitInv

(***************************************************************************)
(* handleUpdate, for any writer of the request: a user, or the controller  *)
(* of Updatequotas.                                                        *)
(***************************************************************************)
LEMMA UpdateFit ==
    ASSUME SameKind, IInv, IInv', FitInv, NEW n \in SNSs, NEW q \in Nat \cup {Unset},
           Exists(n), UpdateAllowed(n, q, isRq[n]),
           spec' = [spec EXCEPT ![n] = q], UNCHANGED <<phase, isRq, namespaces, rq, crq>>,
           raced' = (raced \/ ~SettledAround(n)),
           worker'.at = worker.at, worker'.sns = worker.sns, worker'.spec = worker.spec,
           worker'.fresh => worker.fresh,
           worker.at # "idle" /\ worker.sns = n /\ q # spec[n] => ~worker'.fresh
    PROVE  FitInv'
  <1>0. TypeOK /\ TypeOK' /\ Requested /\ Present
    BY DEF IInv, FitInv
  <1>2. /\ spec'[n] = q
        /\ \A m \in SNSs \ {n} : spec'[m] = spec[m]
        /\ \A m \in SNSs : Exists(m)' <=> Exists(m)
    BY <1>0 DEF Exists, TypeOK
  <1>3. /\ q \in Quantities /\ q # NoObject /\ (n \notin Pools => q # Unset)
        /\ worker.at # "idle" => worker.sns \in SNSs
    BY <1>0, QuantityFacts DEF UpdateAllowed, TypeOK
  <1>5. Present'
    BY <1>0, <1>2, <1>3 DEF Present
  <1>6. ASSUME ~raced' PROVE InStep' /\ Emptied' /\ Fits'
    <2>1. ~raced /\ SettledAround(n) /\ InStep /\ Emptied /\ Fits
      BY <1>6 DEF FitInv
    <2>2. \A m \in SNSs : SubnamespaceObject(m)' = SubnamespaceObject(m)
      BY DEF SubnamespaceObject
    <2>s. /\ n \in namespaces /\ isRq[n] = RqFlag(n)
          /\ HasQuota(n) => SubnamespaceObject(n) = spec[n]
      BY <2>1, BesideFacts DEF Settled
    <2>3. InStep'
      BY <1>2, <1>3, <2>1, <2>2, <2>s DEF InStep
    <2>4. \A m \in SNSs \ {n} : Settled(m) => Settled(m)'
      BY <1>2, <2>2 DEF Settled
    <2>5. Emptied'
      <3> SUFFICES ASSUME NEW m \in SNSs, Exists(m)', HasQuota(m), spec'[m] = Unset
                   PROVE  /\ isRq'[m] = RqFlag(m)
                          /\ SubnamespaceObject(m)' = Unset \/ \A k \in Beside(m) : Settled(k)'
        BY DEF Emptied
      <3>1. CASE m = n
        <4>1. \A k \in Beside(n) : Settled(k) /\ k \in SNSs \ {n}
          BY <2>1, BesideFacts DEF Beside
        <4>2. QED
          BY <2>4, <2>s, <3>1, <4>1
      <3>2. CASE m # n
        <4>1. Exists(m) /\ spec[m] = Unset
          BY <1>2, <3>2
        <4>2. isRq[m] = RqFlag(m) /\ (SubnamespaceObject(m) = Unset \/ \A k \in Beside(m) : Settled(k))
          BY <2>1, <4>1 DEF Emptied
        <4>3. CASE n \in Beside(m)
          <5>1. Settled(m)
            BY <2>1, <4>3, BesideFacts
          <5>2. QED
            BY <2>2, <4>1, <4>2, <5>1 DEF Settled
        <4>4. CASE n \notin Beside(m)
          BY <2>2, <2>4, <4>2, <4>4 DEF Beside
        <4>5. QED
          BY <4>3, <4>4
      <3>3. QED
        BY <3>1, <3>2
    <2>6. ASSUME Parent(n) \notin Pools, Parent(n) = Root \/ Exists(Parent(n))
          PROVE  AllocatedIn(spec', Parent(n)) <= Limit(Parent(n))
      <3>s. spec \in [SNSs -> Quantities] /\ spec' \in [SNSs -> Quantities] /\ Parent(n) \in Nodes
        BY <1>0, ParentType DEF TypeOK
      <3>h. HasQuota(n) /\ Parent(n) \in namespaces
        BY <1>0, <2>6 DEF HasQuota, IsSNSUpper, Present
      <3>p. /\ SubnamespaceParentObject(n) \in Nat /\ SubnamespaceParentObject(n) = Limit(Parent(n))
            /\ Hard(SubnamespaceParentObject(n)) = SubnamespaceParentObject(n)
        <4>1. SubnamespaceParentObject(n) \in Nat /\ SubnamespaceParentObject(n) = Limit(Parent(n))
          BY <1>0, <2>1, <2>6, <3>h, BesideFacts, ParentLimit
        <4>2. QED
          BY <4>1, HardType, QuantityFacts
      <3>1. CASE q = Unset
        <4>1. \A c \in Children(Parent(n)) : HasQuota(c) => Hard(spec'[c]) <= Hard(spec[c])
          <5> SUFFICES ASSUME NEW c \in Children(Parent(n)) PROVE Hard(spec'[c]) <= Hard(spec[c])
            OBVIOUS
          <5>1. c \in SNSs /\ Hard(spec[c]) \in Nat
            BY <3>s, HardType DEF Children
          <5>2. c = n => Hard(spec'[c]) = 0
            BY <1>2, <1>3, <3>1, HardType
          <5>3. QED
            BY <1>2, <5>1, <5>2
        <4>2. AllocatedIn(spec', Parent(n)) <= AllocatedIn(spec, Parent(n)) /\ AllocatedIn(spec, Parent(n)) \in Int
          BY <3>s, <4>1, AllocatedAtMost
        <4>3. AllocatedIn(spec, Parent(n)) <= Limit(Parent(n))
          BY <2>1, <2>6, <3>s DEF Fits
        <4>4. AllocatedIn(spec', Parent(n)) \in Int /\ Limit(Parent(n)) \in Nat
          BY <3>s, <3>p, AllocatedType
        <4>5. QED
          BY <4>2, <4>3, <4>4
      <3>2. CASE q # Unset
        <4> DEFINE P == SubnamespaceParentObject(n)
                   x == Hard(spec[n])
        <4>1. q \in Nat /\ Hard(q) = q /\ x \in Nat
          BY <1>3, <3>2, <3>s, HardType
        <4>2. (IF isRq[n] = "true" THEN rq[n] ELSE crq[n]) # NoObject
          <5>1. SubnamespaceObject(n) # NoObject
            BY <1>0, <2>s, <3>h DEF Requested
          <5>2. QED
            BY <2>s, <5>1 DEF RqFlag, SubnamespaceObject
        <4>3. ValidateUpdateSnsRequest(n, q)
          BY <3>h, <3>2, <4>2 DEF UpdateAllowed
        <4>4. P - SubnamespaceSiblingObjects(n) - Hard(q) + x >= 0
          BY <3>p, <4>1, <4>3 DEF ValidateUpdateSnsRequest
        <4>5. n \in namespaces /\ x <= Hard(SubnamespaceObject(n))
          BY <2>s, <3>h, <4>1
        <4>6. P \in Int /\ x \in Int
          BY <3>p, <4>1
        <4> HIDE DEF P, x
        <4>7. AllocatedIn(spec', Parent(n)) <= P
          BY <1>0, <1>2, <1>3, <2>1, <2>6, <3>s, <4>4, <4>5, <4>6, BesideFacts, RequestFits
        <4>8. QED
          BY <3>p, <4>7 DEF P
      <3>3. QED
        BY <3>1, <3>2
    <2>7. ASSUME n \notin Pools PROVE AllocatedIn(spec', n) <= Hard(spec'[n])
      <3>1. q \in Nat /\ Hard(q) = q /\ HasQuota(n)
        BY <1>3, <2>7, HardType DEF HasQuota
      <3>2. ValidateEnoughResourcesForChildren(n, q)
        BY <1>3, <2>7, <3>1 DEF UpdateAllowed
      <3>3. \A c \in Children(n) : spec'[c] = spec[c] /\ Settled(c)
        BY <1>2, <2>1, BesideFacts, DepthOfChild DEF Children
      <3>4. spec' \in [SNSs -> Quantities]
        BY <1>0 DEF TypeOK
      <3>5. AllocatedIn(spec', n) <= q
        BY <1>0, <2>7, <3>1, <3>2, <3>3, <3>4, ChildrenFit
      <3>6. QED
        BY <1>2, <3>1, <3>5
    <2>8. Fits'
      BY <1>0, <1>2, <2>1, <2>6, <2>7, StillFits
    <2>9. QED
      BY <2>3, <2>5, <2>8
  <1>7. QED
    BY <1>5, <1>6 DEF FitInv

(***************************************************************************)
(* The request of an upper ResourcePool without quota becomes what is      *)
(* used.  No history variable marks this write; it is judged like any      *)
(* other, and what it is judged by is in force.                            *)
(***************************************************************************)
LEMMA UsedFit ==
    ASSUME SameKind, IInv, IInv', FitInv, NEW n \in SNSs, n = worker.sns, worker.at # "idle", HasQuota(n),
           worker.fresh, worker.spec = Unset, SubnamespaceObject(n) >= 0, UpdateAllowed(n, used[n], isRq[n]),
           spec' = [spec EXCEPT ![n] = used[n]], UNCHANGED <<phase, isRq, namespaces, raced>>,
           \A m \in SNSs : SubnamespaceObject(m)' = SubnamespaceObject(m), rq'[Root] = rq[Root],
           worker'.sns = n, worker'.spec = used[n]
    PROVE  FitInv'
  <1> DEFINE q == used[n]
  <1>0. TypeOK /\ TypeOK' /\ Requested /\ Present
    BY DEF IInv, FitInv
  <1>1. spec[n] = Unset /\ n \in Pools /\ Parent(n) \notin Pools /\ Exists(n)
    BY <1>0 DEF Present, HasQuota, IsSNSUpper, Requested
  <1>2. /\ spec'[n] = q
        /\ \A m \in SNSs \ {n} : spec'[m] = spec[m]
        /\ \A m \in SNSs : Exists(m)' <=> Exists(m)
    BY <1>0 DEF Exists, TypeOK
  <1>3. q \in Nat /\ q \in Quantities /\ q # NoObject /\ q # Unset /\ Hard(q) = q
    BY <1>0, QuantityFacts, HardType, ParentType DEF TypeOK
  <1>4. SubnamespaceObject(n) # Unset /\ SubnamespaceObject(n) # NoObject /\ SubnamespaceObject(n) \in Quantities
    BY <1>0, ObjectType DEF Unset, NoObject
  <1> HIDE DEF q
  <1>5. Present'
    BY <1>0, <1>1, <1>2, <1>3 DEF Present, q
  <1>6. ASSUME ~raced' PROVE InStep' /\ Emptied' /\ Fits'
    <2>1. ~raced /\ InStep /\ Emptied /\ Fits
      BY <1>6 DEF FitInv
    <2>2. isRq[n] = RqFlag(n) /\ \A m \in Beside(n) : Settled(m)
      BY <1>1, <1>4, <2>1 DEF Emptied
    <2>3. InStep'
      BY <1>2 DEF InStep, q
    <2>4. \A m \in SNSs \ {n} : Settled(m) => Settled(m)'
      BY <1>2 DEF Settled
    <2>5. Emptied'
      <3> SUFFICES ASSUME NEW m \in SNSs, Exists(m)', HasQuota(m), spec'[m] = Unset
                   PROVE  /\ isRq'[m] = RqFlag(m)
                          /\ SubnamespaceObject(m)' = Unset \/ \A k \in Beside(m) : Settled(k)'
        BY DEF Emptied
      <3>1. m # n /\ Exists(m) /\ spec[m] = Unset
        BY <1>2, <1>3
      <3>2. isRq[m] = RqFlag(m) /\ (SubnamespaceObject(m) = Unset \/ \A k \in Beside(m) : Settled(k))
        BY <2>1, <3>1 DEF Emptied
      <3>3. ~Settled(n)
        BY <1>1, <1>4 DEF Settled
      <3>4. QED
        BY <2>4, <3>2, <3>3 DEF Beside
    <2>6. AllocatedIn(spec', Parent(n)) <= Limit(Parent(n))
      <3> DEFINE P == SubnamespaceParentObject(n)
      <3>1. Parent(n) \in namespaces /\ (Parent(n) \in SNSs => Settled(Parent(n)))
        BY <1>0, <1>1, <2>2, DepthOfChild DEF Present, Beside
      <3>2. P \in Nat /\ P = Limit(Parent(n)) /\ Hard(P) = P
        BY <1>0, <1>1, <3>1, ParentLimit, HardType, QuantityFacts
      <3>3. (IF isRq[n] = "true" THEN rq[n] ELSE crq[n]) # NoObject
        BY <1>4, <2>2 DEF RqFlag, SubnamespaceObject
      <3>4. ValidateUpdateSnsRequest(n, q)
        BY <1>3, <3>3 DEF UpdateAllowed, q
      <3>5. Hard(spec[n]) = 0
        BY <1>1, HardType, QuantityFacts
      <3>6. P - SubnamespaceSiblingObjects(n) - Hard(q) + 0 >= 0
        BY <1>3, <3>2, <3>4, <3>5 DEF ValidateUpdateSnsRequest
      <3>7. P \in Int /\ 0 \in Int /\ 0 <= 0
        BY <3>2
      <3>8. spec' \in [SNSs -> Quantities]
        BY <1>0 DEF TypeOK
      <3> HIDE DEF P
      <3>9. AllocatedIn(spec', Parent(n)) <= P
        BY <1>0, <1>1, <1>2, <1>3, <2>2, <3>6, <3>7, <3>8, RequestFits
      <3>10. QED
        BY <3>2, <3>9
    <2>7. Fits'
      BY <1>0, <1>1, <1>2, <2>1, <2>6, StillFits
    <2>8. QED
      BY <2>3, <2>5, <2>7
  <1>7. QED
    BY <1>5, <1>6 DEF FitInv
-----------------------------------------------------------------------------
(***************************************************************************)
(* A step that admits no request.  The controller may write the quota      *)
(* object of its Subnamespace, and then from its copy of the request; it   *)
(* may annotate it and create its namespace: what is in force stays so.    *)
(***************************************************************************)
Quiet ==
    LET n == worker.sns
    IN  /\ raced' = raced
        /\ rq'[Root] = rq[Root]
        /\ namespaces \subseteq namespaces'
        /\ \A m \in SNSs :
            /\ Exists(m)' <=> Exists(m)
            /\ m \in namespaces' => Exists(m)
            /\ isRq'[m] \in {isRq[m], RqFlag(m)}
            /\ ~Exists(m) => spec'[m] = NoObject
            /\ HasQuota(m) =>
                /\ spec'[m] = spec[m]
                /\ \/ SubnamespaceObject(m)' = SubnamespaceObject(m)
                   \/ /\ m = n /\ worker.at # "idle"
                      /\ \/ SubnamespaceObject(m)' = worker.spec
                         \/ SubnamespaceObject(m) = NoObject /\ worker'.at = "idle"
        /\ worker'.at # "idle" =>
            /\ worker'.fresh => worker'.spec = spec'[worker'.sns]
            /\ \/ ~HasQuota(worker'.sns)
               \/ worker'.spec = spec'[worker'.sns]
               \/ /\ worker.at # "idle" /\ worker'.sns = n
                  /\ \/ worker'.spec = worker.spec
                     \/ SubnamespaceObject(n)' # spec'[n]

(***************************************************************************)
(* Such a step preserves the invariant.                                    *)
(***************************************************************************)
LEMMA QuietFit ==
    ASSUME IInv, IInv', FitInv, Quiet
    PROVE  FitInv'
  <1>0. TypeOK /\ TypeOK' /\ Requested /\ Present
    BY DEF IInv, FitInv
  <1>1. /\ worker.at # "idle" => worker.sns \in SNSs /\ Exists(worker.sns)
        /\ worker'.at # "idle" => worker'.sns \in SNSs
    BY <1>0 DEF TypeOK, Requested
  <1>2. Present'
    <2>1. \A m \in SNSs \ Pools : HasQuota(m)
      BY DEF HasQuota
    <2>2. QED
      BY <1>0, <2>1 DEF Present, Quiet
  <1>3. ASSUME ~raced' PROVE InStep' /\ Emptied' /\ Fits'
    <2>1. InStep /\ Emptied /\ Fits
      BY <1>3 DEF FitInv, Quiet
    <2>2. ASSUME NEW m \in SNSs, HasQuota(m), Exists(m), SubnamespaceObject(m) = spec[m]
          PROVE  SubnamespaceObject(m)' = spec[m]
      <3>1. spec[m] # NoObject
        BY <1>0, <2>2 DEF Requested
      <3>2. QED
        BY <2>1, <2>2, <3>1 DEF Quiet, InStep
    <2>3. ASSUME NEW m \in SNSs, Settled(m)
          PROVE  Settled(m)'
      BY <2>2, <2>3 DEF Settled, Quiet
    <2>4. InStep'
      <3> SUFFICES ASSUME NEW m \in SNSs, m = worker'.sns, worker'.at # "idle", HasQuota(m), worker'.spec # spec'[m]
                   PROVE  SubnamespaceObject(m)' # spec'[m]
        BY <1>1 DEF InStep
      <3>1. /\ worker.at # "idle" /\ m = worker.sns /\ spec'[m] = spec[m]
            /\ worker'.spec = worker.spec \/ SubnamespaceObject(m)' # spec'[m]
        BY DEF Quiet
      <3>2. CASE worker'.spec = worker.spec
        <4>1. SubnamespaceObject(m) # spec[m] /\ worker.spec # spec[m]
          BY <2>1, <3>1, <3>2 DEF InStep
        <4>2. QED
          BY <3>1, <4>1 DEF Quiet
      <3>3. QED
        BY <3>1, <3>2
    <2>5. Emptied'
      <3> SUFFICES ASSUME NEW m \in SNSs, Exists(m)', HasQuota(m), spec'[m] = Unset
                   PROVE  /\ isRq'[m] = RqFlag(m)
                          /\ SubnamespaceObject(m)' = Unset \/ \A k \in Beside(m) : Settled(k)'
        BY DEF Emptied
      <3>1. Exists(m) /\ spec[m] = Unset
        BY DEF Quiet
      <3>2. isRq[m] = RqFlag(m) /\ (SubnamespaceObject(m) = Unset \/ \A k \in Beside(m) : Settled(k))
        BY <2>1, <3>1 DEF Emptied
      <3>3. isRq'[m] = RqFlag(m)
        BY <3>2 DEF Quiet
      <3>4. QED
        BY <2>2, <2>3, <3>1, <3>2, <3>3 DEF Beside
    <2>6. Fits'
      <3> SUFFICES ASSUME NEW r \in Nodes \ Pools, r = Root \/ Exists(r)'
                   PROVE  AllocatedIn(spec', r) <= Limit(r)'
        BY DEF Fits, AllocatedIn
      <3>1. spec \in [SNSs -> Quantities] /\ spec' \in [SNSs -> Quantities]
        BY <1>0 DEF TypeOK
      <3>2. r # Root => r \in SNSs /\ HasQuota(r) /\ spec'[r] = spec[r] /\ Exists(r)
        BY DEF Quiet, HasQuota, SNSs
      <3>3. Limit(r)' = Limit(r) /\ AllocatedIn(spec, r) <= Limit(r)
        BY <2>1, <3>2 DEF Limit, Fits, Quiet
      <3>4. AllocatedIn(spec', r) <= AllocatedIn(spec, r) /\ AllocatedIn(spec, r) \in Int
        <4>1. \A c \in Children(r) : HasQuota(c) => Hard(spec'[c]) <= Hard(spec[c])
          <5> SUFFICES ASSUME NEW c \in Children(r), HasQuota(c) PROVE Hard(spec'[c]) <= Hard(spec[c])
            OBVIOUS
          <5>1. c \in SNSs /\ spec'[c] = spec[c]
            BY DEF Children, Quiet
          <5>2. Hard(spec[c]) \in Nat
            BY <3>1, <5>1, HardType
          <5>3. QED
            BY <5>1, <5>2
        <4>2. QED
          BY <3>1, <4>1, AllocatedAtMost
      <3>5. Limit(r) \in Int /\ AllocatedIn(spec', r) \in Int
        <4>1. rq[Root] \in Int
          BY <1>0 DEF Present
        <4>2. r # Root => Hard(spec[r]) \in Nat
          BY <3>1, <3>2, HardType
        <4>3. QED
          BY <3>1, <4>1, <4>2, AllocatedType DEF Limit
      <3>6. QED
        BY <3>3, <3>4, <3>5
    <2>7. QED
      BY <2>4, <2>5, <2>6
  <1>4. QED
    BY <1>2, <1>3 DEF FitInv

(***************************************************************************)
(* Steps that leave requests, namespaces and quota objects alone are       *)
(* quiet: the worker begins, goes on, or ends its reconciliation.          *)
(***************************************************************************)
LEMMA NoWriteFit ==
    ASSUME IInv, IInv', FitInv, UNCHANGED <<spec, namespaces, rq, crq, raced>>,
           \A m \in SNSs : (Exists(m)' <=> Exists(m)) /\ isRq'[m] \in {isRq[m], RqFlag(m)},
           \/ worker'.at = "idle"
           \/ worker'.spec = spec[worker'.sns]
           \/ /\ worker.at # "idle" /\ worker'.sns = worker.sns /\ worker'.spec = worker.spec
              /\ worker'.fresh => worker.fresh
    PROVE  FitInv'
  <1>1. Present
    BY DEF FitInv
  <1>2. \A m \in SNSs : SubnamespaceObject(m)' = SubnamespaceObject(m)
    BY DEF SubnamespaceObject
  <1>3. Quiet
    BY <1>1, <1>2 DEF Quiet, Present
  <1>4. QED
    BY <1>3, QuietFit

(***************************************************************************)
(* The steps of the queue, and those of the worker that write no more than *)
(* phase, annotations and status.                                          *)
(***************************************************************************)
LEMMA QueueFit ==
    ASSUME IInv, IInv', FitInv,
           \/ Fail \/ Restart \/ (\E n \in SNSs : Reconcile(n)) \/ (\E n \in SNSs, u \in Loads : Consume(n, u))
           \/ Setup \/ InitAnnotate \/ InitCreated \/ SyncList \/ SyncStatus
    PROVE  FitInv'
  <1>0. TypeOK /\ Requested
    BY DEF IInv
  <1>1. CASE Fail \/ Restart
    BY <1>1, IdleType, NoWriteFit DEF Fail, Restart, Requeue, Finish, sns, objs, Exists
  <1>2. ASSUME NEW n \in SNSs, Reconcile(n)
        PROVE  FitInv'
    <2>1. worker'.sns = n /\ worker'.spec = spec[n]
      BY <1>2 DEF Reconcile, Idle
    <2>2. QED
      BY <1>2, <2>1, NoWriteFit DEF Reconcile, sns, objs, Exists
  <1>3. ASSUME NEW n \in SNSs, NEW u \in Loads, Consume(n, u)
        PROVE  FitInv'
    <2>1. /\ worker'.at = worker.at /\ worker'.sns = worker.sns /\ worker'.spec = worker.spec
          /\ worker'.fresh = worker.fresh
      BY <1>0, <1>3 DEF TypeOK, Consume
    <2>2. QED
      BY <1>3, <2>1, NoWriteFit DEF Consume, sns, Exists
  <1>4. CASE Setup \/ InitAnnotate \/ InitCreated \/ SyncList \/ SyncStatus
    <2>1. PICK n \in SNSs : n = worker.sns /\ worker.at # "idle" /\ Exists(n)
      BY <1>0, <1>4 DEF TypeOK, Requested, Setup, InitAnnotate, InitCreated, SyncList, SyncStatus
    <2>2. UNCHANGED <<spec, namespaces, rq, crq, raced>>
      BY <1>4 DEF Setup, InitAnnotate, InitCreated, SyncList, SyncStatus, sns, objs
    <2>3. \A m \in SNSs : Exists(m)' <=> Exists(m)
      <3>1. phase' = phase \/ \E f \in {"Missing", "Created"} : phase' = [phase EXCEPT ![n] = f]
        BY <1>4, <2>1 DEF Setup, InitAnnotate, InitCreated, SyncList, SyncStatus, sns
      <3>2. QED
        BY <1>0, <2>1, <3>1 DEF TypeOK, Exists
    <2>4. \A m \in SNSs : isRq'[m] \in {isRq[m], RqFlag(m)}
      <3>1. isRq' = isRq \/ isRq' = [isRq EXCEPT ![n] = RqFlag(n)]
        BY <1>4, <2>1 DEF Setup, InitAnnotate, InitCreated, SyncList, SyncStatus, sns
      <3>2. isRq \in [SNSs -> {"", "true", "false"}]
        BY <1>0 DEF TypeOK
      <3>3. ASSUME NEW m \in SNSs
            PROVE  isRq'[m] = isRq[m] \/ isRq'[m] = RqFlag(m)
        BY <3>1, <3>2 DEF RqFlag
      <3>4. QED
        BY <3>3
    <2>5. \/ worker' = Idle
          \/ worker' = [worker EXCEPT !.at = "initCreated"]
          \/ worker' = [worker EXCEPT !.at = "syncQuota", !.requests = ChildrenRequests(worker.sns),
                                      !.total = worker.spec]
      BY <1>4 DEF Setup, InitAnnotate, InitCreated, SyncList, SyncStatus, Finish, Requeue, Step
    <2>6. \/ worker'.at = "idle"
          \/ /\ worker'.sns = worker.sns /\ worker'.spec = worker.spec
             /\ worker'.fresh = worker.fresh
      BY <1>0, <2>5, IdleType DEF TypeOK
    <2>7. QED
      BY <2>1, <2>2, <2>3, <2>4, <2>6, NoWriteFit
  <1>5. QED
    BY <1>1, <1>2, <1>3, <1>4

(***************************************************************************)
(* SetObjects leaves the quota of the root namespace alone.                *)
(***************************************************************************)
LEMMA RootObject ==
    ASSUME TypeOK, NEW n \in SNSs, NEW q \in Quantities, NEW x \in Quantities, SetObjects(n, q, x)
    PROVE  rq'[Root] = rq[Root]
  BY TreeAssumption DEF SetObjects, TypeOK, SNSs

(***************************************************************************)
(* EnsureSubnamespaceObject: an object is created from the request in      *)
(* hand; a request is made of what is used only if it is current.          *)
(***************************************************************************)
LEMMA EnsureFit ==
    ASSUME SameKind, IInv, IInv', FitInv, NEW n \in SNSs, n = worker.sns, worker.at # "idle", HasQuota(n),
           NEW x \in Quantities, NEW update \in Steps, NEW next \in Steps,
           UNCHANGED <<phase, isRq, namespaces, raced>>,
           \/ EnsureFromSpec(n, x, update, next)
           \/ EnsureFromUsed(n, x, update, next)
           \/ UsedUnknown(n, x) /\ Requeue(n)
           \/ UsedUnknown(n, x) /\ Step(next) /\ SubnamespaceObject(n) # NoObject
    PROVE  FitInv'
  <1>0. TypeOK /\ Requested /\ Present
    BY DEF IInv, FitInv
  <1>1. /\ SubnamespaceObject(n) \in Quantities /\ used[n] \in Nat /\ worker.spec \in Quantities
        /\ 0 \in Quantities /\ Exists(n)
    BY <1>0, ObjectType, ParentType, QuantityFacts DEF TypeOK, Requested
  <1>2. \A m \in SNSs : /\ Exists(m)' <=> Exists(m)
                        /\ m \in namespaces' => Exists(m)
                        /\ isRq'[m] \in {isRq[m], RqFlag(m)}
                        /\ ~Exists(m) => spec[m] = NoObject
    BY <1>0 DEF Exists, Present
  <1>3. CASE EnsureFromSpec(n, x, update, next)
    <2>1. PICK q \in Quantities : q \in {worker.spec, SubnamespaceObject(n)} /\ SetObjects(n, q, x)
      BY <1>1, <1>3 DEF EnsureFromSpec
    <2>2. /\ SubnamespaceObject(n)' = q /\ rq'[Root] = rq[Root]
          /\ \A m \in SNSs : m # n => SubnamespaceObject(m)' = SubnamespaceObject(m)
      BY <1>0, <2>1, SetObjectsFacts, RootObject
    <2>3. /\ worker'.spec = worker.spec /\ worker'.sns = n /\ worker'.fresh = worker.fresh /\ spec' = spec
      BY <1>0, <1>3 DEF EnsureFromSpec, TypeOK
    <2>4. Quiet
      BY <1>0, <1>2, <2>1, <2>2, <2>3 DEF Quiet, Present
    <2>5. QED
      BY <2>4, QuietFit
  <1>4. CASE EnsureFromUsed(n, x, update, next)
    <2>1. SetObjects(n, SubnamespaceObject(n), x) /\ SubnamespaceObject(n) >= 0 /\ worker.spec = Unset
      BY <1>4 DEF EnsureFromUsed
    <2>2. rq'[Root] = rq[Root] /\ \A m \in SNSs : SubnamespaceObject(m)' = SubnamespaceObject(m)
      BY <1>0, <1>1, <2>1, SetObjectsFacts, RootObject
    <2>3. CASE Requeue(n) /\ UNCHANGED spec
      <3>1. worker'.at = "idle"
        BY <2>3, IdleType DEF Requeue
      <3>2. Quiet
        BY <1>2, <2>2, <2>3, <3>1 DEF Quiet
      <3>3. QED
        BY <3>2, QuietFit
    <2>4. CASE /\ ~(worker.fresh /\ ~UpdateAllowed(n, used[n], isRq[n]))
               /\ spec' = IF worker.fresh THEN [spec EXCEPT ![n] = used[n]] ELSE spec
               /\ worker' = [worker EXCEPT !.at = IF IsZeroed(SubnamespaceObject(n)) THEN update ELSE next,
                                           !.spec = used[n], !.objFresh = TRUE]
      <3>1. worker'.sns = n /\ worker'.spec = used[n] /\ worker'.fresh = worker.fresh
        BY <1>0, <2>4 DEF TypeOK
      <3>2. CASE worker.fresh
        BY <2>1, <2>2, <2>4, <3>1, <3>2, UsedFit
      <3>3. CASE ~worker.fresh
        <4>1. CASE raced
          <5>1. Present'
            <6>1. spec' = spec
              BY <2>4, <3>3
            <6>2. QED
              BY <1>0, <1>2, <2>2, <3>1, <3>3, <6>1 DEF Present
          <5>2. QED
            BY <4>1, <5>1 DEF FitInv
        <4>2. CASE ~raced
          <5>1. InStep
            BY <4>2 DEF FitInv
          <5>2. SubnamespaceObject(n) # spec[n]
            BY <2>1, <5>1 DEF InStep, Unset
          <5>3. spec' = spec /\ SubnamespaceObject(n)' # spec'[n]
            BY <2>2, <2>4, <3>3, <5>2
          <5>4. Quiet
            BY <1>2, <2>2, <3>1, <3>3, <5>3 DEF Quiet
          <5>5. QED
            BY <5>4, QuietFit
        <4>3. QED
          BY <4>1, <4>2
      <3>4. QED
        BY <3>2, <3>3
    <2>5. QED
      BY <1>4, <2>3, <2>4 DEF EnsureFromUsed
  <1>5. CASE UsedUnknown(n, x) /\ (Requeue(n) \/ (Step(next) /\ SubnamespaceObject(n) # NoObject))
    <2>1. PICK q \in Quantities :
            /\ SetObjects(n, q, x)
            /\ q = SubnamespaceObject(n) \/ (SubnamespaceObject(n) = NoObject /\ worker'.at = "idle")
      BY <1>1, <1>5, IdleType DEF UsedUnknown, Requeue
    <2>2. /\ SubnamespaceObject(n)' = q /\ rq'[Root] = rq[Root] /\ spec' = spec
          /\ \A m \in SNSs : m # n => SubnamespaceObject(m)' = SubnamespaceObject(m)
      BY <1>0, <1>5, <2>1, SetObjectsFacts, RootObject DEF UsedUnknown
    <2>3. \/ worker'.at = "idle"
          \/ worker'.sns = n /\ worker'.spec = worker.spec /\ worker'.fresh = worker.fresh
      BY <1>0, <1>5, IdleType DEF Requeue, Step, TypeOK
    <2>4. Quiet
      BY <1>0, <1>2, <2>1, <2>2, <2>3 DEF Quiet, Present
    <2>5. QED
      BY <2>4, QuietFit
  <1>6. QED
    BY <1>3, <1>4, <1>5

(***************************************************************************)
(* The steps of the worker that write namespaces, quota objects or the     *)
(* request.                                                                *)
(***************************************************************************)
LEMMA WorkFit ==
    ASSUME SameKind, IInv, IInv', FitInv, InitNamespace \/ InitQuota \/ SyncQuota \/ UpdateQuotaObject
    PROVE  FitInv'
  <1>0. TypeOK /\ Requested /\ Syncing /\ CreatedHasQuotaObject /\ Present
    BY DEF IInv, FitInv
  <1>1. PICK n \in SNSs :
            /\ n = worker.sns /\ worker.at # "idle" /\ n \in Nodes /\ Exists(n)
            /\ worker.spec \in Quantities
    BY <1>0, ParentType DEF TypeOK, Requested, InitNamespace, InitQuota, SyncQuota, UpdateQuotaObject
  <1>2. \A m \in SNSs : /\ m \in namespaces => Exists(m)
                        /\ isRq[m] \in {isRq[m], RqFlag(m)}
                        /\ ~Exists(m) => spec[m] = NoObject
    BY <1>0 DEF Present
  <1>3. UNCHANGED <<phase, isRq, raced>> /\ \A m \in SNSs : Exists(m)' <=> Exists(m)
    BY DEF InitNamespace, InitQuota, SyncQuota, UpdateQuotaObject, sns, Exists
  <1>4. /\ SubnamespaceObject(n) \in Quantities /\ OtherObject(n) \in Quantities
        /\ DropOther(n) \in Quantities /\ CreateDefaultSNSResourceQuota(DropOther(n)) \in Quantities
        /\ NoObject \in Quantities
    BY <1>0, ObjectType, QuantityFacts
  <1>5. CASE InitNamespace
    <2>1. /\ namespaces' = namespaces \cup {n} /\ UNCHANGED <<spec, rq, crq>>
          /\ worker' = [worker EXCEPT !.at = "initQuota"]
      BY <1>1, <1>5 DEF InitNamespace, Step, sns
    <2>2. worker'.sns = n /\ worker'.spec = worker.spec /\ worker'.fresh = worker.fresh
      BY <1>0, <1>1, <2>1 DEF TypeOK
    <2>3. \A m \in SNSs : SubnamespaceObject(m)' = SubnamespaceObject(m)
      BY <2>1 DEF SubnamespaceObject
    <2>4. Quiet
      BY <1>0, <1>1, <1>2, <1>3, <2>1, <2>2, <2>3 DEF Quiet, Present
    <2>5. QED
      BY <2>4, QuietFit
  <1>6. CASE InitQuota
    <2>1. namespaces' = namespaces
      BY <1>6 DEF InitQuota
    <2>2. CASE /\ ~HasQuota(n)
               /\ rq' = [rq EXCEPT ![n] = CreateDefaultSNSResourceQuota(@)]
               /\ Step("initAnnotate")
               /\ UNCHANGED <<crq, spec, queue>>
      <3>1. worker'.sns = n /\ worker'.spec = worker.spec /\ worker'.fresh = worker.fresh
        BY <1>0, <1>1, <2>2 DEF TypeOK, Step
      <3>2. \A m \in SNSs : m # n => SubnamespaceObject(m)' = SubnamespaceObject(m)
        <4>1. ASSUME NEW m \in SNSs, m # n
              PROVE  rq'[m] = rq[m] /\ crq' = crq
          BY <1>0, <2>2, <4>1, ParentType DEF TypeOK
        <4>2. QED
          BY <4>1 DEF SubnamespaceObject
      <3>3. rq'[Root] = rq[Root]
        BY <1>0, <2>2, TreeAssumption DEF TypeOK, SNSs
      <3>4. Quiet
        BY <1>0, <1>1, <1>2, <1>3, <2>1, <2>2, <3>1, <3>2, <3>3 DEF Quiet, Present
      <3>5. QED
        BY <3>4, QuietFit
    <2>3. CASE /\ HasQuota(n)
               /\ \/ EnsureFromSpec(n, OtherObject(n), "initUpdate", "initAnnotate")
                  \/ EnsureFromUsed(n, OtherObject(n), "initUpdate", "initAnnotate")
                  \/ UsedUnknown(n, OtherObject(n)) /\ Requeue(n)
      <3>1. "initUpdate" \in Steps /\ "initAnnotate" \in Steps
        BY DEF Steps
      <3>2. QED
        BY <1>1, <1>3, <1>4, <2>1, <2>3, <3>1, EnsureFit
    <2>4. QED
      BY <1>1, <1>6, <2>2, <2>3 DEF InitQuota
  <1>7. CASE SyncQuota
    <2>1. namespaces' = namespaces /\ phase[n] = "Created"
      BY <1>0, <1>1, <1>7 DEF SyncQuota, Syncing
    <2>2. CASE /\ HasQuota(n)
               /\ SetObjects(n, SubnamespaceObject(n),
                      IF IsRQ(n, SelfOffset) THEN DropOther(n)
                      ELSE CreateDefaultSNSResourceQuota(DropOther(n)))
               /\ worker' = [worker EXCEPT !.at = "syncUpdate", !.objFresh = TRUE]
               /\ UNCHANGED <<spec, queue>>
      <3>1. worker'.sns = n /\ worker'.spec = worker.spec /\ worker'.fresh = worker.fresh
        BY <1>0, <1>1, <2>2 DEF TypeOK
      <3>2. rq'[Root] = rq[Root] /\ \A m \in SNSs : SubnamespaceObject(m)' = SubnamespaceObject(m)
        BY <1>0, <1>4, <2>2, SetObjectsFacts, RootObject
      <3>3. Quiet
        BY <1>0, <1>1, <1>2, <1>3, <2>1, <2>2, <3>1, <3>2 DEF Quiet, Present
      <3>4. QED
        BY <3>3, QuietFit
    <2>3. CASE /\ HasQuota(n)
               /\ \/ EnsureFromSpec(n, DropOther(n), "syncUpdate", "syncStatus")
                  \/ EnsureFromUsed(n, DropOther(n), "syncUpdate", "syncStatus")
                  \/ UsedUnknown(n, DropOther(n)) /\ Step("syncStatus")
      <3>1. "syncUpdate" \in Steps /\ "syncStatus" \in Steps /\ SubnamespaceObject(n) # NoObject
        BY <1>0, <2>1, <2>3 DEF Steps, CreatedHasQuotaObject
      <3>2. QED
        BY <1>1, <1>3, <1>4, <2>1, <2>3, <3>1, EnsureFit
    <2>4. CASE /\ ~HasQuota(n)
               /\ SetObjects(n, NoObject, OtherObject(n))
               /\ spec' = IF worker.fresh THEN [spec EXCEPT ![n] = Unset] ELSE spec
               /\ worker' = [worker EXCEPT !.at = "syncStatus", !.spec = Unset]
      <3>1. worker'.sns = n /\ worker'.spec = Unset /\ worker'.fresh = worker.fresh
        BY <1>0, <1>1, <2>4 DEF TypeOK
      <3>2. /\ rq'[Root] = rq[Root]
            /\ \A m \in SNSs : m # n => SubnamespaceObject(m)' = SubnamespaceObject(m)
        BY <1>0, <1>4, <2>4, SetObjectsFacts, RootObject
      <3>3. (worker.fresh => spec'[n] = Unset) /\ \A m \in SNSs : m # n => spec'[m] = spec[m]
        BY <1>0, <2>4 DEF TypeOK
      <3>4. Quiet
        BY <1>0, <1>1, <1>2, <1>3, <2>1, <2>4, <3>1, <3>2, <3>3 DEF Quiet
      <3>5. QED
        BY <3>4, QuietFit
    <2>5. QED
      BY <1>1, <1>7, <2>2, <2>3, <2>4 DEF SyncQuota
  <1>8. CASE UpdateQuotaObject
    <2>1. PICK q \in Quantities :
              q \in {worker.spec, SubnamespaceObject(n)} /\ SetObjects(n, q, OtherObject(n))
      BY <1>1, <1>4, <1>8 DEF UpdateQuotaObject
    <2>2. /\ SubnamespaceObject(n)' = q /\ rq'[Root] = rq[Root]
          /\ \A m \in SNSs : m # n => SubnamespaceObject(m)' = SubnamespaceObject(m)
      BY <1>0, <1>4, <2>1, SetObjectsFacts, RootObject
    <2>3. UNCHANGED <<spec, namespaces>>
      BY <1>8 DEF UpdateQuotaObject, sns
    <2>4. worker'.sns = n /\ worker'.spec = worker.spec /\ worker'.fresh = worker.fresh
      BY <1>0, <1>1, <1>8 DEF UpdateQuotaObject, Step, TypeOK
    <2>5. Quiet
      BY <1>0, <1>1, <1>2, <1>3, <2>1, <2>2, <2>3, <2>4 DEF Quiet, Present
    <2>6. QED
      BY <2>5, QuietFit
  <1>9. QED
    BY <1>5, <1>6, <1>7, <1>8

(***************************************************************************)
(* The hierarchy at the start satisfies the invariant.                     *)
(***************************************************************************)
LEMMA InitFit ==
    ASSUME InitialFits, Init
    PROVE  FitInv
  <1>1. /\ InitialSpec \in [Nodes -> Quantities] /\ SNSs \subseteq Nodes /\ Root \in Nodes
        /\ InitialSpec[Root] \in Nat
    BY ParameterAssumption, TreeAssumption DEF SNSs
  <1>2. worker.at = "idle" /\ rq[Root] = InitialSpec[Root] /\ Root \in namespaces
    BY <1>1, IdleType, QuantityFacts DEF Init
  <1>3. \A n \in SNSs : /\ spec[n] = InitialSpec[n]
                        /\ Exists(n) <=> InitialSpec[n] # NoObject
                        /\ n \in namespaces <=> InitialSpec[n] # NoObject
    BY <1>1 DEF Init, Exists
  <1>4. \A n \in SNSs : spec[n] # Unset
    BY <1>3, InitialAssumption, QuantityFacts
  <1>5. Present
    <2>1. ASSUME NEW n \in SNSs, Exists(n) PROVE Parent(n) \in namespaces
      BY <1>1, <1>2, <1>3, <2>1, InitialAssumption, ParentType DEF SNSs
    <2>2. QED
      BY <1>1, <1>2, <1>3, <1>4, <2>1 DEF Present
  <1>6. Fits
    <2> SUFFICES ASSUME NEW n \in Nodes \ Pools, n = Root \/ Exists(n)
                 PROVE  AllocatedIn(spec, n) <= Limit(n)
      BY DEF Fits
    <2>1. InitialSpec[n] # NoObject /\ Limit(n) = InitialSpec[n]
      <3>1. CASE n = Root
        BY <1>1, <1>2, <3>1, QuantityFacts DEF Limit
      <3>2. CASE n # Root
        <4>1. n \in SNSs /\ InitialSpec[n] # NoObject /\ spec[n] = InitialSpec[n]
          BY <1>3, <3>2 DEF SNSs
        <4>2. InitialSpec[n] \in Nat
          BY <4>1, InitialAssumption
        <4>3. QED
          BY <3>2, <4>1, <4>2, HardType, QuantityFacts DEF Limit
      <3>3. QED
        BY <3>1, <3>2
    <2>2. AllocatedIn(spec, n) = AllocatedIn(InitialSpec, n)
      <3>1. \A c \in {d \in Children(n) : HasQuota(d)} : Hard(spec[c]) = Hard(InitialSpec[c])
        BY <1>3 DEF Children
      <3>2. QED
        BY <3>1 DEF AllocatedIn
    <2>3. QED
      BY <2>1, <2>2 DEF InitialFits
  <1>7. InStep /\ Emptied
    BY <1>2, <1>4 DEF InStep, Emptied
  <1>8. QED
    BY <1>5, <1>6, <1>7 DEF FitInv

(***************************************************************************)
(* Every step of the webhook and the controller preserves FitInv.          *)
(***************************************************************************)
LEMMA NextFit ==
    ASSUME SameKind, IInv, IInv', FitInv, [Next]_vars
    PROVE  FitInv'
  <1>1. CASE UNCHANGED vars
    BY <1>1, NoWriteFit DEF vars, Exists, FitInv, Present, InStep, Emptied, Fits
  <1>2. ASSUME NEW n \in SNSs, NEW q \in Requests[n], CreateSNS(n, q) \/ UpdateSNS(n, q)
        PROVE  FitInv'
    <2>1. q \in Nat \cup {Unset}
      BY ParameterAssumption
    <2>2. CASE CreateSNS(n, q)
      BY <2>1, <2>2, CreateFit
    <2>3. CASE UpdateSNS(n, q)
      <3>1. /\ Exists(n) /\ UpdateAllowed(n, q, isRq[n]) /\ spec' = [spec EXCEPT ![n] = q]
            /\ UNCHANGED <<phase, isRq, namespaces, rq, crq>>
            /\ raced' = (raced \/ ~SettledAround(n)) /\ worker' = Outdated(n)
        BY <2>3 DEF UpdateSNS, objs
      <3>2. /\ worker'.at = worker.at /\ worker'.sns = worker.sns /\ worker'.spec = worker.spec
            /\ worker'.fresh => worker.fresh
            /\ worker.sns = n => ~worker'.fresh
        BY <3>1 DEF Outdated, IInv, TypeOK
      <3>3. QED
        BY <2>1, <3>1, <3>2, UpdateFit
    <2>4. QED
      BY <1>2, <2>2, <2>3
  <1>3. QED
    BY <1>1, <1>2, QueueFit, WorkFit DEF Next, Users, Work

(***************************************************************************)
(* Admission keeps what is promised to the children within the quota of    *)
(* their parent, in every hierarchy that fits at the start and whose upper *)
(* ResourcePools are below the depth of ResourceQuotas, whatever fails and *)
(* however the controller's writes are interleaved with the requests.      *)
(***************************************************************************)
THEOREM RequestsFit == SameKind /\ InitialFits => (Spec => []FitsInParentWhenSettled)
  <1> SUFFICES ASSUME SameKind, InitialFits PROVE Spec => []FitsInParentWhenSettled
    OBVIOUS
  <1>1. Init => FitInv
    BY InitFit
  <1>2. IInv /\ IInv' /\ FitInv /\ [Next]_vars => FitInv'
    BY NextFit
  <1>3. FitInv => FitsInParentWhenSettled
    BY DEF FitInv, Fits, FitsInParentWhenSettled, Allocated, AllocatedIn, Limit
  <1>4. QED
    BY <1>1, <1>2, <1>3, Invariance, PTL DEF Spec
=============================================================================
