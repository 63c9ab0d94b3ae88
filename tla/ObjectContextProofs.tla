------------------------ MODULE ObjectContextProofs ------------------------
(***************************************************************************)
(* Proofs about ObjectContext, for any set of callers and any number of    *)
(* failed reads.                                                           *)
(*                                                                         *)
(* The argument: a resourceVersion names one content.  A copy or a cache   *)
(* entry of the server's version is the server's object (Current), unless  *)
(* its caller has mutated it, and then either the call is over or the      *)
(* write met a conflict, which leaves the copy with an older version for   *)
(* good.  So what a write adds to is what the server has, and a caller     *)
(* that is still running has not written yet (Counted).                    *)
(***************************************************************************)
EXTENDS ObjectContext, TLAPS

Running(c) == pc[c] # "done"

Current ==
    /\ cache.rev <= server.rev
    /\ cache.rev = server.rev => cache = server
    /\ \A c \in Callers :
        /\ object[c].rev <= server.rev
        /\ Running(c) /\ object[c].rev = server.rev => object[c] = server
        /\ pc[c] = "refresh" => object[c].rev < server.rev

Counted ==
    \A c \in Callers :
        /\ server.val[c] <= written[c]
        /\ written[c] <= 1
        /\ Running(c) => written[c] = 0

Told ==
    \A c \in Callers :
        /\ Running(c) => result[c] = "none"
        /\ pc[c] \in {"call", "update", "refresh"} /\ ~object[c].present => missed[c]

IInv == TypeOK /\ Current /\ Counted /\ Told /\ EnsureUpdateIsHonest
-----------------------------------------------------------------------------
(***************************************************************************)
(* The mutated copy is an object of the same version, present or not as    *)
(* before, with one more in the entry of the caller and the others alone.  *)
(***************************************************************************)
LEMMA MutateType ==
    ASSUME TypeOK, NEW c \in Callers
    PROVE  /\ Mutate(c) \in Objects
           /\ Mutate(c).rev = object[c].rev
           /\ Mutate(c).present = object[c].present
           /\ Mutate(c).val[c] = object[c].val[c] + 1
           /\ \A d \in Callers : d # c => Mutate(c).val[d] = object[c].val[d]
  BY DEF TypeOK, Objects, Mutate

(***************************************************************************)
(* A write that is accepted adds one to the entry of a caller that has     *)
(* none there yet, under the next version.                                 *)
(***************************************************************************)
LEMMA StoreType ==
    ASSUME IInv, NEW c \in Callers, Running(c), Accepts(c), Store(c)
    PROVE  /\ server' \in Objects
           /\ written' \in [Callers -> Nat]
           /\ server.present /\ server'.present
           /\ server'.rev = server.rev + 1
           /\ written[c] = 0 /\ written'[c] = 1
           /\ \A d \in Callers : d # c => written'[d] = written[d] /\ server'.val[d] = server.val[d]
           /\ server'.val[c] = server.val[c] + 1
  <1>1. object[c] = server
    BY DEF IInv, Current, Accepts
  <1>2. TypeOK
    BY DEF IInv
  <1>3. server' = [present |-> TRUE, rev |-> server.rev + 1, val |-> Mutate(c).val]
    BY <1>2, MutateType DEF Store, Objects
  <1>4. QED
    BY <1>1, <1>2, <1>3, MutateType DEF IInv, Counted, Store, Accepts, TypeOK, Objects

(***************************************************************************)
(* The invariant holds initially.                                          *)
(***************************************************************************)
LEMMA InitIInv == Init => IInv
  <1> SUFFICES ASSUME Init PROVE IInv
    OBVIOUS
  <1>1. /\ Absent(0) \in Objects /\ Absent(1) \in Objects /\ Fresh(1) \in Objects
        /\ Absent(0).rev = 0 /\ ~Absent(0).present
        /\ Absent(1).rev = 1 /\ Fresh(1).rev = 1
        /\ \A c \in Callers : Absent(1).val[c] = 0 /\ Fresh(1).val[c] = 0
    BY DEF Objects, Absent, Fresh, Untouched
  <1>2. TypeOK
    BY <1>1, MaxGetErrorsAssumption DEF Init, TypeOK, Operations
  <1>3. Current
    BY <1>1 DEF Init, Current
  <1>4. Counted
    <2>1. ASSUME NEW c \in Callers
          PROVE  /\ server.val[c] <= written[c]
                 /\ written[c] <= 1
                 /\ Running(c) => written[c] = 0
      <3>1. server.val[c] = 0
        BY <1>1 DEF Init
      <3>2. written[c] = 0
        BY DEF Init
      <3>3. QED
        BY <3>1, <3>2
    <2>2. QED
      BY <2>1 DEF Counted
  <1>5. Told /\ EnsureUpdateIsHonest
    BY DEF Init, Told, EnsureUpdateIsHonest
  <1>6. QED
    BY <1>2, <1>3, <1>4, <1>5 DEF IInv
-----------------------------------------------------------------------------
(***************************************************************************)
(* A call that mutates its copy and returns: whether or not the write was  *)
(* stored, the invariant is preserved, provided EnsureUpdateObject returns *)
(* nil only for a stored one.                                              *)
(***************************************************************************)
LEMMA MutateAndReturn ==
    ASSUME IInv, NEW c \in Callers, Running(c),
           NEW err \in {"nil", "err"}, Return(c, err),
           object' = [object EXCEPT ![c] = Mutate(c)],
           NEW o \in Operations, op' = [op EXCEPT ![c] = o],
           UNCHANGED <<cache, expired, getErrors, missed>>,
           UNCHANGED <<server, written>> \/ (Accepts(c) /\ Store(c)),
           o = "EnsureUpdateObject" /\ err = "nil" => Accepts(c) /\ Store(c)
    PROVE  IInv'
  <1>0. TypeOK /\ Current /\ Counted /\ Told /\ EnsureUpdateIsHonest
    BY DEF IInv
  <1>1. TypeOK'
    BY <1>0, MutateType, StoreType DEF TypeOK, Return
  <1>2. /\ server.rev \in Nat /\ server'.rev \in Nat /\ server'.rev >= server.rev
        /\ server'.rev = server.rev => server' = server
    BY <1>0, <1>1, StoreType DEF TypeOK, Objects
  <1>3. Current'
    <2>1. /\ cache'.rev <= server'.rev
          /\ cache'.rev = server'.rev => cache' = server'
      <3>1. cache' = cache /\ cache.rev \in Nat
        BY <1>0 DEF TypeOK, Objects
      <3>2. QED
        BY <1>0, <1>2, <3>1 DEF Current
    <2>2. ASSUME NEW d \in Callers, d # c
          PROVE  /\ object'[d].rev <= server'.rev
                 /\ Running(d)' /\ object'[d].rev = server'.rev => object'[d] = server'
                 /\ pc'[d] = "refresh" => object'[d].rev < server'.rev
      <3>1. object'[d] = object[d] /\ pc'[d] = pc[d] /\ object[d].rev \in Nat
        BY <1>0, <2>2 DEF TypeOK, Objects, Return
      <3>2. QED
        BY <1>0, <1>2, <3>1 DEF Current, Running
    <2>3. object'[c].rev <= server'.rev /\ pc'[c] = "done"
      <3>1. object'[c].rev = object[c].rev /\ pc'[c] = "done" /\ object[c].rev \in Nat
        BY <1>0, MutateType DEF TypeOK, Objects, Return
      <3>2. QED
        BY <1>0, <1>2, <3>1 DEF Current
    <2>4. QED
      BY <2>1, <2>2, <2>3 DEF Current, Running
  <1>4. Counted'
    <2>1. CASE UNCHANGED <<server, written>>
      BY <1>0, <2>1 DEF Counted, Running, Return, TypeOK
    <2>2. CASE Accepts(c) /\ Store(c)
      <3>1. ASSUME NEW d \in Callers, d # c
            PROVE  /\ server'.val[d] <= written'[d]
                   /\ written'[d] <= 1
                   /\ Running(d)' => written'[d] = 0
        <4>1. written'[d] = written[d] /\ server'.val[d] = server.val[d] /\ pc'[d] = pc[d]
          BY <1>0, <2>2, <3>1, StoreType DEF TypeOK, Return
        <4>2. QED
          BY <1>0, <4>1 DEF Counted, Running
      <3>2. server'.val[c] <= written'[c] /\ written'[c] <= 1 /\ pc'[c] = "done"
        <4>1. written[c] = 0 /\ written'[c] = 1 /\ server'.val[c] = server.val[c] + 1 /\ pc'[c] = "done"
          BY <1>0, <2>2, StoreType DEF TypeOK, Return
        <4>2. server.val[c] \in Nat /\ server.val[c] <= 0
          BY <1>0, <4>1 DEF Counted, TypeOK, Objects
        <4>3. QED
          BY <4>1, <4>2
      <3>3. QED
        BY <3>1, <3>2 DEF Counted, Running
    <2>3. QED
      BY <2>1, <2>2
  <1>5. Told'
    <2>1. ASSUME NEW d \in Callers, d # c
          PROVE  /\ Running(d)' => result'[d] = "none"
                 /\ pc'[d] \in {"call", "update", "refresh"} /\ ~object'[d].present => missed'[d]
      <3>1. object'[d] = object[d] /\ pc'[d] = pc[d] /\ result'[d] = result[d] /\ missed' = missed
        BY <1>0, <2>1 DEF TypeOK, Return
      <3>2. QED
        BY <1>0, <3>1 DEF Told, Running
    <2>2. pc'[c] = "done"
      BY <1>0 DEF TypeOK, Return
    <2>3. QED
      BY <2>1, <2>2 DEF Told, Running
  <1>6. EnsureUpdateIsHonest'
    <2>1. ASSUME NEW d \in Callers, d # c
          PROVE  op'[d] = "EnsureUpdateObject" /\ result'[d] = "nil" => written'[d] = 1 \/ missed'[d]
      <3>1. op'[d] = op[d] /\ result'[d] = result[d] /\ written'[d] = written[d] /\ missed' = missed
        BY <1>0, <2>1, StoreType DEF TypeOK, Return
      <3>2. QED
        BY <1>0, <3>1 DEF EnsureUpdateIsHonest
    <2>2. op'[c] = "EnsureUpdateObject" /\ result'[c] = "nil" => written'[c] = 1
      <3>1. op'[c] = o /\ result'[c] = err
        BY <1>0 DEF TypeOK, Return
      <3>2. QED
        BY <3>1, StoreType
    <2>3. QED
      BY <2>1, <2>2 DEF EnsureUpdateIsHonest
  <1>7. QED
    BY <1>1, <1>3, <1>4, <1>5, <1>6 DEF IInv

(***************************************************************************)
(* The objects EnsureCreate and EnsureDelete leave in the server.          *)
(***************************************************************************)
LEMMA FreshType ==
    ASSUME NEW r \in Nat
    PROVE  /\ Absent(r) \in Objects /\ Absent(r).rev = r
           /\ Fresh(r) \in Objects /\ Fresh(r).rev = r /\ Fresh(r).present
           /\ \A c \in Callers : Absent(r).val[c] = 0 /\ Fresh(r).val[c] = 0
  BY DEF Objects, Absent, Fresh, Untouched

(***************************************************************************)
(* The object is created or deleted under the next version, by a call that *)
(* returns: the copies of the others are outdated, none of their writes is *)
(* in the new object.                                                      *)
(***************************************************************************)
LEMMA ReplaceAndReturn ==
    ASSUME IInv, NEW c \in Callers, Running(c), Return(c, "nil"),
           NEW o \in Operations \ {"EnsureUpdateObject"}, op' = [op EXCEPT ![c] = o],
           UNCHANGED <<cache, expired, getErrors, written, missed>>,
           server' \in Objects, server'.rev = server.rev + 1,
           \A d \in Callers : server'.val[d] = 0,
           object' = object \/ object' = [object EXCEPT ![c] = server']
    PROVE  IInv'
  <1>0. TypeOK /\ Current /\ Counted /\ Told /\ EnsureUpdateIsHonest
    BY DEF IInv
  <1>1. TypeOK'
    BY <1>0 DEF TypeOK, Return
  <1>2. server.rev \in Nat /\ cache.rev \in Nat /\ cache' = cache
    BY <1>0 DEF TypeOK, Objects
  <1>3. ASSUME NEW d \in Callers, d # c
        PROVE  /\ object'[d] = object[d] /\ pc'[d] = pc[d] /\ op'[d] = op[d]
               /\ result'[d] = result[d] /\ object[d].rev \in Nat
    BY <1>0, <1>3 DEF TypeOK, Objects, Return
  <1>4. /\ object'[c] = object[c] \/ object'[c] = server'
        /\ pc'[c] = "done" /\ op'[c] = o /\ object[c].rev \in Nat
    BY <1>0 DEF TypeOK, Objects, Return
  <1>5. Current'
    <2>1. \A d \in Callers : object[d].rev <= server.rev /\ object[d].rev < server'.rev
      BY <1>0, <1>2, <1>3, <1>4 DEF Current
    <2>2. cache.rev < server'.rev
      BY <1>0, <1>2 DEF Current
    <2>3. QED
      BY <1>2, <1>3, <1>4, <2>1, <2>2 DEF Current, Running
  <1>6. Counted'
    <2>1. ASSUME NEW d \in Callers
          PROVE  /\ server'.val[d] <= written'[d]
                 /\ written'[d] <= 1
                 /\ Running(d)' => written'[d] = 0
      <3>1. written' = written /\ written[d] \in Nat /\ server'.val[d] = 0
        BY <1>0 DEF TypeOK
      <3>2. QED
        BY <1>0, <1>3, <1>4, <3>1 DEF Counted, Running
    <2>2. QED
      BY <2>1 DEF Counted
  <1>7. Told'
    <2>1. missed' = missed
      OBVIOUS
    <2>2. QED
      BY <1>0, <1>3, <1>4, <2>1 DEF Told, Running
  <1>8. EnsureUpdateIsHonest'
    <2>1. missed' = missed /\ written' = written
      OBVIOUS
    <2>2. QED
      BY <1>0, <1>3, <1>4, <2>1 DEF EnsureUpdateIsHonest
  <1>9. QED
    BY <1>1, <1>5, <1>6, <1>7, <1>8 DEF IInv

(***************************************************************************)
(* A call that returns without touching copy or server, and that is not an *)
(* EnsureUpdateObject that met an object it believes present.              *)
(***************************************************************************)
LEMMA JustReturn ==
    ASSUME IInv, NEW c \in Callers, Running(c),
           NEW err \in {"nil", "err"}, Return(c, err),
           NEW o \in Operations, op' = [op EXCEPT ![c] = o],
           UNCHANGED <<server, cache, object, expired, written>>,
           getErrors' \in 0..MaxGetErrors,
           NEW m \in BOOLEAN, missed' = [missed EXCEPT ![c] = m],
           o = "EnsureUpdateObject" /\ err = "nil" => m
    PROVE  IInv'
  <1>0. TypeOK /\ Current /\ Counted /\ Told /\ EnsureUpdateIsHonest
    BY DEF IInv
  <1>1. TypeOK'
    BY <1>0 DEF TypeOK, Return
  <1>2. ASSUME NEW d \in Callers, d # c
        PROVE  pc'[d] = pc[d] /\ op'[d] = op[d] /\ result'[d] = result[d] /\ missed'[d] = missed[d]
    BY <1>0, <1>2 DEF TypeOK, Return
  <1>3. pc'[c] = "done" /\ op'[c] = o /\ result'[c] = err /\ missed'[c] = m
    BY <1>0 DEF TypeOK, Return
  <1>4. server' = server /\ cache' = cache /\ object' = object /\ written' = written
    OBVIOUS
  <1>5. Current'
    BY <1>0, <1>2, <1>3, <1>4 DEF Current, Running
  <1>6. Counted'
    BY <1>0, <1>2, <1>3, <1>4 DEF Counted, Running
  <1>7. Told'
    BY <1>0, <1>2, <1>3, <1>4 DEF Told, Running
  <1>8. EnsureUpdateIsHonest'
    BY <1>0, <1>2, <1>3, <1>4 DEF EnsureUpdateIsHonest
  <1>9. QED
    BY <1>1, <1>5, <1>6, <1>7, <1>8 DEF IInv

(***************************************************************************)
(* A read that succeeds: the copy becomes the cache's object and the call  *)
(* goes on.                                                                *)
(***************************************************************************)
LEMMA ReadAndGoOn ==
    ASSUME IInv, NEW c \in Callers, Running(c),
           object' = [object EXCEPT ![c] = cache],
           NEW p \in {"call", "update"}, pc' = [pc EXCEPT ![c] = p],
           NEW m \in BOOLEAN, missed' = [missed EXCEPT ![c] = m], ~cache.present => m,
           UNCHANGED <<server, cache, op, expired, result, getErrors, written>>
    PROVE  IInv'
  <1>0. TypeOK /\ Current /\ Counted /\ Told /\ EnsureUpdateIsHonest
    BY DEF IInv
  <1>1. TypeOK'
    BY <1>0 DEF TypeOK
  <1>2. ASSUME NEW d \in Callers, d # c
        PROVE  pc'[d] = pc[d] /\ object'[d] = object[d] /\ missed'[d] = missed[d]
    BY <1>0, <1>2 DEF TypeOK
  <1>3. pc'[c] = p /\ object'[c] = cache /\ missed'[c] = m /\ pc[c] # "done"
    BY <1>0 DEF TypeOK, Running
  <1>4. /\ server' = server /\ cache' = cache /\ written' = written
        /\ op' = op /\ result' = result
    OBVIOUS
  <1>5. Current'
    BY <1>0, <1>2, <1>3, <1>4 DEF Current, Running
  <1>6. Counted'
    BY <1>0, <1>2, <1>3, <1>4 DEF Counted, Running
  <1>7. Told'
    <2>1. ~cache.present => m
      OBVIOUS
    <2>2. QED
      BY <1>0, <1>2, <1>3, <1>4, <2>1 DEF Told, Running
  <1>8. EnsureUpdateIsHonest'
    <2>1. result[c] = "none"
      BY <1>0 DEF Told
    <2>2. QED
      BY <1>0, <1>2, <1>4, <2>1 DEF EnsureUpdateIsHonest
  <1>9. QED
    BY <1>1, <1>5, <1>6, <1>7, <1>8 DEF IInv
-----------------------------------------------------------------------------
(***************************************************************************)
(* Every step preserves the invariant.                                     *)
(***************************************************************************)
LEMMA StepIInv == IInv /\ [Next]_vars => IInv'
  <1> SUFFICES ASSUME IInv, [Next]_vars PROVE IInv'
    OBVIOUS
  <1>0. TypeOK /\ Current /\ Counted /\ Told /\ EnsureUpdateIsHonest
    BY DEF IInv
  <1>1. CASE CacheSync
    BY <1>0, <1>1 DEF CacheSync, IInv, TypeOK, Objects, Current, Counted, Told,
        EnsureUpdateIsHonest, Running
  <1>2. ASSUME NEW c \in Callers, New(c)
        PROVE  IInv'
    <2>1. Running(c) /\ UNCHANGED <<server, cache, op, expired, written>>
      BY <1>2 DEF New, Running
    <2>2. op' = [op EXCEPT ![c] = op[c]] /\ op[c] \in Operations
      BY <1>0, <2>1 DEF TypeOK
    <2>3. CASE /\ object' = [object EXCEPT ![c] = cache]
               /\ missed' = [missed EXCEPT ![c] = ~cache.present]
               /\ pc' = [pc EXCEPT ![c] = "call"]
               /\ UNCHANGED <<result, getErrors>>
      <3>1. (~cache.present) \in BOOLEAN
        BY <1>0 DEF TypeOK, Objects
      <3>2. QED
        BY <2>1, <2>3, <3>1, ReadAndGoOn
    <2>4. CASE /\ GetError
               /\ Return(c, "err")
               /\ UNCHANGED <<object, missed>>
      <3>1. getErrors' \in 0..MaxGetErrors
        BY <1>0, <2>4, MaxGetErrorsAssumption DEF TypeOK, GetError
      <3>2. missed[c] \in BOOLEAN /\ missed' = [missed EXCEPT ![c] = missed[c]]
        BY <1>0, <2>4 DEF TypeOK
      <3>3. QED
        BY <2>1, <2>2, <2>4, <3>1, <3>2, JustReturn
    <2>5. QED
      BY <1>2, <2>3, <2>4 DEF New
  <1>3. ASSUME NEW c \in Callers, UpdateObject(c)
        PROVE  IInv'
    <2>1. Running(c) /\ "UpdateObject" \in Operations
      BY <1>3 DEF UpdateObject, Running, Operations
    <2>2. PICK err \in {"nil", "err"} :
              /\ Return(c, err)
              /\ UNCHANGED <<server, written>> \/ (Accepts(c) /\ Store(c))
      BY <1>3 DEF UpdateObject, UpdateFails
    <2>3. QED
      BY <1>3, <2>1, <2>2, MutateAndReturn DEF UpdateObject
  <1>4. ASSUME NEW c \in Callers, EnsureUpdateObject(c)
        PROVE  IInv'
    BY <1>0, <1>4 DEF EnsureUpdateObject, IInv, TypeOK, Operations, Current, Counted, Told,
        EnsureUpdateIsHonest, Running
  <1>5. ASSUME NEW c \in Callers, Expire(c)
        PROVE  IInv'
    BY <1>0, <1>5 DEF Expire, IInv, TypeOK, Current, Counted, Told, EnsureUpdateIsHonest, Running
  <1>6. ASSUME NEW c \in Callers, UpdateAbsent(c)
        PROVE  IInv'
    <2>1. /\ Running(c) /\ missed[c] /\ missed[c] \in BOOLEAN
          /\ op' = [op EXCEPT ![c] = op[c]] /\ op[c] \in Operations
          /\ missed' = [missed EXCEPT ![c] = missed[c]]
      BY <1>0, <1>6 DEF TypeOK, UpdateAbsent, Told, Running
    <2>2. getErrors' \in 0..MaxGetErrors
      BY <1>0, <1>6 DEF TypeOK, UpdateAbsent
    <2>3. QED
      BY <1>6, <2>1, <2>2, JustReturn DEF UpdateAbsent
  <1>7. ASSUME NEW c \in Callers, UpdateStored(c)
        PROVE  IInv'
    <2>1. Running(c) /\ op' = [op EXCEPT ![c] = op[c]] /\ op[c] \in Operations
      BY <1>0, <1>7 DEF TypeOK, UpdateStored, Running
    <2>2. QED
      BY <1>7, <2>1, MutateAndReturn DEF UpdateStored
  <1>8. ASSUME NEW c \in Callers, UpdateConflict(c)
        PROVE  IInv'
    <2>1. /\ object' = [object EXCEPT ![c] = Mutate(c)] /\ pc' = [pc EXCEPT ![c] = "refresh"]
          /\ UNCHANGED <<server, cache, op, expired, result, getErrors, written, missed>>
          /\ pc[c] = "update" /\ object[c].present /\ object[c].rev # server.rev
      BY <1>8 DEF UpdateConflict, Conflicts
    <2>2. TypeOK'
      BY <1>0, <2>1, MutateType DEF TypeOK
    <2>3. ASSUME NEW d \in Callers, d # c
          PROVE  pc'[d] = pc[d] /\ object'[d] = object[d]
      BY <1>0, <2>1, <2>3 DEF TypeOK
    <2>4. /\ pc'[c] = "refresh" /\ object'[c].rev = object[c].rev /\ object'[c].present
          /\ object[c].rev < server.rev
      <3>1. object'[c] = Mutate(c) /\ pc'[c] = "refresh"
        BY <1>0, <2>1 DEF TypeOK
      <3>2. object[c].rev \in Nat /\ server.rev \in Nat /\ object[c].rev <= server.rev
        BY <1>0 DEF TypeOK, Objects, Current
      <3>3. QED
        BY <1>0, <2>1, <3>1, <3>2, MutateType
    <2>5. Current'
      <3>1. \A d \in Callers : object[d].rev \in Nat
        BY <1>0 DEF TypeOK, Objects
      <3>2. server.rev \in Nat
        BY <1>0 DEF TypeOK, Objects
      <3>3. QED
        BY <1>0, <2>1, <2>3, <2>4, <3>1, <3>2 DEF Current, Running
    <2>6. Counted'
      BY <1>0, <2>1, <2>3, <2>4 DEF Counted, Running
    <2>7. Told'
      BY <1>0, <2>1, <2>3, <2>4 DEF Told, Running
    <2>8. EnsureUpdateIsHonest'
      BY <1>0, <2>1 DEF EnsureUpdateIsHonest
    <2>9. QED
      BY <2>2, <2>5, <2>6, <2>7, <2>8 DEF IInv
  <1>9. ASSUME NEW c \in Callers, UpdateError(c)
        PROVE  IInv'
    <2>1. Running(c) /\ op' = [op EXCEPT ![c] = op[c]] /\ op[c] \in Operations
      BY <1>0, <1>9 DEF TypeOK, UpdateError, Running
    <2>2. UNCHANGED <<server, written>> \/ (Accepts(c) /\ Store(c))
      BY <1>9 DEF UpdateError, UpdateFails
    <2>3. QED
      BY <1>9, <2>1, <2>2, MutateAndReturn DEF UpdateError
  <1>10. ASSUME NEW c \in Callers, Refresh(c)
         PROVE  IInv'
    <2>1. pc[c] = "refresh" /\ Running(c) /\ UNCHANGED <<server, cache, op, expired, written>>
      BY <1>10 DEF Refresh, Running
    <2>2. op' = [op EXCEPT ![c] = op[c]] /\ op[c] \in Operations
      BY <1>0, <2>1 DEF TypeOK
    <2>3. CASE /\ cache.present
               /\ object' = [object EXCEPT ![c] = cache]
               /\ pc' = [pc EXCEPT ![c] = "update"]
               /\ UNCHANGED <<result, missed, getErrors>>
      <3>1. missed[c] \in BOOLEAN /\ missed' = [missed EXCEPT ![c] = missed[c]]
        BY <1>0, <2>3 DEF TypeOK
      <3>2. QED
        BY <2>1, <2>3, <3>1, ReadAndGoOn
    <2>4. CASE /\ ~cache.present
               /\ Return(c, "nil")
               /\ missed' = [missed EXCEPT ![c] = TRUE]
               /\ UNCHANGED <<object, getErrors>>
      <3>1. getErrors' \in 0..MaxGetErrors
        BY <1>0, <2>4 DEF TypeOK
      <3>2. QED
        BY <2>1, <2>2, <2>4, <3>1, JustReturn
    <2>5. CASE /\ GetError
               /\ pc' = [pc EXCEPT ![c] = "update"]
               /\ UNCHANGED <<object, result, missed>>
      <3>1. getErrors' \in 0..MaxGetErrors
        BY <1>0, <2>5, MaxGetErrorsAssumption DEF TypeOK, GetError
      <3>2. QED
        BY <1>0, <2>1, <2>5, <3>1 DEF IInv, TypeOK, Current, Counted, Told, EnsureUpdateIsHonest, Running
    <2>6. QED
      BY <1>10, <2>3, <2>4, <2>5 DEF Refresh
  <1>11. ASSUME NEW c \in Callers, EnsureCreate(c)
         PROVE  IInv'
    <2>1. /\ Running(c) /\ "EnsureCreate" \in Operations \ {"EnsureUpdateObject"}
          /\ op' = [op EXCEPT ![c] = "EnsureCreate"]
          /\ UNCHANGED <<cache, expired, getErrors, written, missed>>
      BY <1>11 DEF EnsureCreate, Running, Operations
    <2>2. CASE UNCHANGED <<server, object>> /\ \E err \in {"nil", "err"} : Return(c, err)
      <3>1. missed[c] \in BOOLEAN /\ missed' = [missed EXCEPT ![c] = missed[c]]
        BY <1>0, <2>1 DEF TypeOK
      <3>2. getErrors' \in 0..MaxGetErrors
        BY <1>0, <2>1 DEF TypeOK
      <3>3. QED
        BY <2>1, <2>2, <3>1, <3>2, JustReturn
    <2>3. CASE /\ server' = Fresh(server.rev + 1)
               /\ object' = [object EXCEPT ![c] = Fresh(server.rev + 1)]
               /\ Return(c, "nil")
      <3>1. server.rev + 1 \in Nat
        BY <1>0 DEF TypeOK, Objects
      <3>2. /\ server' \in Objects /\ server'.rev = server.rev + 1
            /\ \A d \in Callers : server'.val[d] = 0
        BY <2>3, <3>1, FreshType
      <3>3. QED
        BY <2>1, <2>3, <3>2, ReplaceAndReturn
    <2>4. QED
      BY <1>11, <2>2, <2>3 DEF EnsureCreate
  <1>12. ASSUME NEW c \in Callers, EnsureDelete(c)
         PROVE  IInv'
    <2>1. /\ Running(c) /\ "EnsureDelete" \in Operations \ {"EnsureUpdateObject"}
          /\ op' = [op EXCEPT ![c] = "EnsureDelete"]
          /\ UNCHANGED <<cache, object, expired, getErrors, written, missed>>
      BY <1>12 DEF EnsureDelete, Running, Operations
    <2>2. CASE UNCHANGED server /\ \E err \in {"nil", "err"} : Return(c, err)
      <3>1. missed[c] \in BOOLEAN /\ missed' = [missed EXCEPT ![c] = missed[c]]
        BY <1>0, <2>1 DEF TypeOK
      <3>2. getErrors' \in 0..MaxGetErrors
        BY <1>0, <2>1 DEF TypeOK
      <3>3. QED
        BY <2>1, <2>2, <3>1, <3>2, JustReturn
    <2>3. CASE server' = Absent(server.rev + 1) /\ Return(c, "nil")
      <3>1. server.rev + 1 \in Nat
        BY <1>0 DEF TypeOK, Objects
      <3>2. /\ server' \in Objects /\ server'.rev = server.rev + 1
            /\ \A d \in Callers : server'.val[d] = 0
        BY <2>3, <3>1, FreshType
      <3>3. QED
        BY <2>1, <2>3, <3>2, ReplaceAndReturn
    <2>4. QED
      BY <1>12, <2>2, <2>3 DEF EnsureDelete
  <1>13. CASE UNCHANGED vars
    BY <1>0, <1>13 DEF vars, IInv, TypeOK, Current, Counted, Told, EnsureUpdateIsHonest, Running
  <1>14. QED
    BY <1>1, <1>2, <1>3, <1>4, <1>5, <1>6, <1>7, <1>8, <1>9, <1>10, <1>11, <1>12, <1>13
    DEF Next, Caller, Done

(***************************************************************************)
(* A write replaces nothing but the object it was computed from.           *)
(***************************************************************************)
LEMMA StepNoLostUpdate ==
    ASSUME IInv, [Next]_vars, server.present, server'.present, NEW d \in Callers
    PROVE  server'.val[d] >= server.val[d]
  <1>0. TypeOK /\ server.val[d] \in Nat
    BY DEF IInv, TypeOK, Objects
  <1>1. CASE server' = server
    BY <1>0, <1>1
  <1>2. ASSUME NEW c \in Callers, Running(c), Accepts(c), Store(c)
        PROVE  server'.val[d] >= server.val[d]
    <2>1. server'.val[d] = server.val[d] \/ server'.val[d] = server.val[d] + 1
      BY <1>2, StoreType
    <2>2. QED
      BY <1>0, <2>1
  <1>3. ~\E r \in Nat : server' = Absent(r)
    BY DEF Absent
  <1>4. ASSUME NEW c \in Callers, Caller(c)
        PROVE  server' = server \/ (Running(c) /\ Accepts(c) /\ Store(c))
    <2>1. server.rev + 1 \in Nat
      BY <1>0 DEF TypeOK, Objects
    <2>2. QED
      BY <1>3, <1>4, <2>1 DEF Caller, New, UpdateObject, EnsureUpdateObject, UpdateAbsent,
        UpdateStored, UpdateConflict, UpdateError, UpdateFails, Refresh, EnsureCreate,
        EnsureDelete, Running
  <1>5. QED
    BY <1>1, <1>2, <1>4 DEF Next, CacheSync, Expire, Done, vars

(***************************************************************************)
(* Every behaviour of the wrapper keeps the inductive invariant.           *)
(***************************************************************************)
THEOREM Invariance == Spec => []IInv
  BY InitIInv, StepIInv, PTL DEF Spec

(***************************************************************************)
(* The state of the callers and of the object keeps its type, so no call   *)
(* returns an error the callers do not know.                               *)
(***************************************************************************)
THEOREM Typing == Spec => []TypeOK
  <1>1. IInv => TypeOK
    BY DEF IInv
  <1>2. QED
    BY <1>1, Invariance, PTL

(***************************************************************************)
(* forceUpdate never applies the mutation of a call twice, for any number  *)
(* of callers and of retries.                                              *)
(***************************************************************************)
THEOREM MutatesAtMostOnce == Spec => []AtMostOnce
  <1>1. IInv => AtMostOnce
    <2> SUFFICES ASSUME IInv, NEW c \in Callers PROVE server.val[c] <= 1
      BY DEF AtMostOnce
    <2>1. server.val[c] \in Nat /\ written[c] \in Nat /\ server.val[c] <= written[c] /\ written[c] <= 1
      BY DEF IInv, TypeOK, Objects, Counted
    <2>2. QED
      BY <2>1
  <1>2. QED
    BY <1>1, Invariance, PTL

(***************************************************************************)
(* EnsureUpdateObject that returns nil has stored its mutation exactly     *)
(* once, or the object was seen not to exist.                              *)
(***************************************************************************)
THEOREM SuccessIsHonest == Spec => []EnsureUpdateIsHonest
  <1>1. IInv => EnsureUpdateIsHonest
    BY DEF IInv
  <1>2. QED
    BY <1>1, Invariance, PTL

(***************************************************************************)
(* No write through the wrapper undoes what another caller has stored.     *)
(***************************************************************************)
THEOREM WritesKeepOthers == Spec => NoLostUpdate
  <1>1. IInv /\ [Next]_vars =>
            [server.present /\ server'.present =>
                \A c \in Callers : server'.val[c] >= server.val[c]]_vars
    BY StepNoLostUpdate
  <1>2. QED
    BY <1>1, Invariance, PTL DEF Spec, NoLostUpdate
-----------------------------------------------------------------------------
(***************************************************************************)
(* A step of a caller either leaves the object and what calls returned, or *)
(* is the step of the atomic object with the same effect and answer.       *)
(***************************************************************************)
LEMMA StepAtomic ==
    ASSUME IInv, [Next]_vars
    PROVE  [Atomic!Next]_(Atomic!object)
  <1>0. /\ TypeOK
        /\ server \in Objects /\ server.val \in [Callers -> Nat] /\ server.rev + 1 \in Nat
        /\ result \in [Callers -> {"none", "nil", "err"}]
    BY DEF IInv, TypeOK, Objects
  <1>1. ASSUME UNCHANGED <<server, result>>
        PROVE  UNCHANGED Atomic!object
    BY <1>1 DEF Atomic!object
  <1>2. ASSUME NEW c \in Callers, NEW err \in {"nil", "err"}, Running(c), Return(c, err)
        PROVE  Atomic!Answer(c, err)
    BY <1>2 DEF IInv, Told, Return, Atomic!Answer
  <1>3. ASSUME NEW c \in Callers, NEW err \in {"nil", "err"}, Running(c), Return(c, err), UNCHANGED server
        PROVE  Atomic!Next
    <2>1. Atomic!Leave(c)
      BY <1>2, <1>3 DEF Atomic!Leave
    <2>2. QED
      BY <2>1 DEF Atomic!Next
  <1>4. ASSUME NEW c \in Callers, NEW err \in {"nil", "err"}, Running(c), Return(c, err),
               Accepts(c), Store(c)
        PROVE  Atomic!Next
    <2>1. server'.val = [server.val EXCEPT ![c] = @ + 1]
      <3>1. server' \in Objects /\ server'.val[c] = server.val[c] + 1
        BY <1>4, StoreType
      <3>2. \A d \in Callers : d # c => server'.val[d] = server.val[d]
        BY <1>4, StoreType
      <3>3. server'.val \in [Callers -> Nat]
        BY <3>1 DEF Objects
      <3>4. QED
        BY <1>0, <3>1, <3>2, <3>3
    <2>2. server.present /\ server'.present /\ server.present \in BOOLEAN /\ server'.present \in BOOLEAN
      BY <1>0, <1>4, StoreType DEF Objects
    <2>3. Atomic!Mutate(c)
      BY <1>2, <1>4, <2>1, <2>2 DEF Atomic!Mutate
    <2>4. QED
      BY <2>3 DEF Atomic!Next
  <1>5. ASSUME NEW c \in Callers, Running(c), Return(c, "nil"), ~server.present,
               server' = Fresh(server.rev + 1)
        PROVE  Atomic!Next
    <2>1. server'.present = TRUE /\ server'.val = Atomic!Untouched
      BY <1>5 DEF Fresh, Untouched, Atomic!Untouched
    <2>2. Atomic!Create(c)
      BY <1>2, <1>5, <2>1 DEF Atomic!Create
    <2>3. QED
      BY <2>2 DEF Atomic!Next
  <1>6. ASSUME NEW c \in Callers, Running(c), Return(c, "nil"), server.present,
               server' = Absent(server.rev + 1)
        PROVE  Atomic!Next
    <2>1. server'.present = FALSE /\ server'.val = Atomic!Untouched
      BY <1>6 DEF Absent, Untouched, Atomic!Untouched
    <2>2. Atomic!Delete(c)
      BY <1>2, <1>6, <2>1 DEF Atomic!Delete
    <2>3. QED
      BY <2>2 DEF Atomic!Next
  <1>7. ASSUME NEW c \in Callers, Caller(c)
        PROVE  Atomic!Next \/ UNCHANGED <<server, result>>
    <2>1. CASE New(c) \/ EnsureUpdateObject(c) \/ UpdateAbsent(c) \/ UpdateConflict(c) \/ Refresh(c)
      BY <1>3, <2>1 DEF New, EnsureUpdateObject, UpdateAbsent, UpdateConflict, Refresh, Running
    <2>2. CASE UpdateObject(c) \/ UpdateStored(c) \/ UpdateError(c)
      BY <1>3, <1>4, <2>2 DEF UpdateObject, UpdateStored, UpdateError, UpdateFails, Running
    <2>3. CASE EnsureCreate(c)
      BY <1>3, <1>5, <2>3 DEF EnsureCreate, Running
    <2>4. CASE EnsureDelete(c)
      BY <1>3, <1>6, <2>4 DEF EnsureDelete, Running
    <2>5. QED
      BY <1>7, <2>1, <2>2, <2>3, <2>4 DEF Caller
  <1>8. CASE CacheSync \/ Done \/ UNCHANGED vars \/ \E c \in Callers : Expire(c)
    BY <1>1, <1>8 DEF CacheSync, Done, vars, Expire
  <1>9. QED
    BY <1>1, <1>7, <1>8 DEF Next

(***************************************************************************)
(* The wrapper implements the atomic object: its callers need not know of  *)
(* caches, copies, versions and retries.                                   *)
(***************************************************************************)
THEOREM Implements == Spec => ImplementsAtomic
  <1>1. Init => Atomic!Init
    <2>1. \A r : Absent(r).present = FALSE /\ Fresh(r).present = TRUE
                /\ Absent(r).val = Atomic!Untouched /\ Fresh(r).val = Atomic!Untouched
      BY DEF Absent, Fresh, Untouched, Atomic!Untouched
    <2>2. QED
      BY <2>1 DEF Init, Atomic!Init
  <1>2. IInv /\ [Next]_vars => [Atomic!Next]_(Atomic!object)
    BY StepAtomic
  <1>3. QED
    BY <1>1, <1>2, Invariance, PTL DEF Spec, ImplementsAtomic, Atomic!Spec
=============================================================================
