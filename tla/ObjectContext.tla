--------------------------- MODULE ObjectContext ---------------------------
(***************************************************************************)
(* internal/objectcontext: the wrapper through which every HNS controller  *)
(* reads and writes the API server.                                        *)
(*                                                                         *)
(* One object is shared by several callers (controller workers, webhooks). *)
(* A caller reads it with New from the informer cache, which lags behind   *)
(* the API server, then calls one of the operations of the wrapper.  A     *)
(* mutation is "add one to my own entry of the object", the least          *)
(* idempotent change there is (subtractSnsQuota and addSnsQuota of the     *)
(* updatequota controller are of this kind), so an object records exactly  *)
(* how often the mutation of each caller went into it.                     *)
(***************************************************************************)
EXTENDS Naturals

CONSTANTS
    Callers,        \* the callers of the wrapper
    MaxGetErrors    \* bound on the reads that fail for another reason than NotFound

ASSUME MaxGetErrorsAssumption == MaxGetErrors \in Nat

VARIABLES
    server,     \* the object in the API server
    cache,      \* the object in the informer cache, from which Get answers
    object,     \* [Callers -> ...] the ObjectContext: Object and present of each caller
    pc,         \* [Callers -> ...] where each caller is
    op,         \* [Callers -> ...] the operation it called
    expired,    \* [Callers -> BOOLEAN] the 2 second context of EnsureUpdateObject has expired
    result,     \* [Callers -> ...] the error the operation returned, "nil" for none
    getErrors,  \* number of failed reads so far
    written,    \* history: [Callers -> Nat] writes of the caller the API server accepted
    missed      \* history: [Callers -> BOOLEAN] the caller was told that the object does not exist

vars == <<server, cache, object, pc, op, expired, result, getErrors, written, missed>>

Untouched == [c \in Callers |-> 0]

(***************************************************************************)
(* An object as stored: does it exist, its resourceVersion, its content.   *)
(***************************************************************************)
Objects == [present : BOOLEAN, rev : Nat, val : [Callers -> Nat]]

Absent(rev) == [present |-> FALSE, rev |-> rev, val |-> Untouched]
Fresh(rev)  == [present |-> TRUE,  rev |-> rev, val |-> Untouched]

Operations == {"none", "UpdateObject", "EnsureUpdateObject", "EnsureCreate", "EnsureDelete"}

TypeOK ==
    /\ server \in Objects
    /\ cache \in Objects
    /\ object \in [Callers -> Objects]
    /\ pc \in [Callers -> {"new", "call", "update", "refresh", "done"}]
    /\ op \in [Callers -> Operations]
    /\ expired \in [Callers -> BOOLEAN]
    /\ result \in [Callers -> {"none", "nil", "err"}]
    /\ getErrors \in 0..MaxGetErrors
    /\ written \in [Callers -> Nat]
    /\ missed \in [Callers -> BOOLEAN]

Init ==
    /\ server \in {Absent(1), Fresh(1)}
    /\ cache = Absent(0)
    /\ object = [c \in Callers |-> Absent(0)]
    /\ pc = [c \in Callers |-> "new"]
    /\ op = [c \in Callers |-> "none"]
    /\ expired = [c \in Callers |-> FALSE]
    /\ result = [c \in Callers |-> "none"]
    /\ getErrors = 0
    /\ written = [c \in Callers |-> 0]
    /\ missed = [c \in Callers |-> FALSE]

Return(c, err) ==
    /\ pc' = [pc EXCEPT ![c] = "done"]
    /\ result' = [result EXCEPT ![c] = err]

(***************************************************************************)
(* The informer's watch delivers the present state of the object.          *)
(***************************************************************************)
CacheSync ==
    /\ cache # server
    /\ cache' = server
    /\ UNCHANGED <<server, object, pc, op, expired, result, getErrors, written, missed>>

(***************************************************************************)
(* A Get that fails with an error other than NotFound.                     *)
(***************************************************************************)
GetError ==
    /\ getErrors < MaxGetErrors
    /\ getErrors' = getErrors + 1

(***************************************************************************)
(* New: Get; NotFound gives an ObjectContext that is not present.          *)
(***************************************************************************)
New(c) ==
    /\ pc[c] = "new"
    /\ \/ /\ object' = [object EXCEPT ![c] = cache]
          /\ missed' = [missed EXCEPT ![c] = ~cache.present]
          /\ pc' = [pc EXCEPT ![c] = "call"]
          /\ UNCHANGED <<result, getErrors>>
       \/ /\ GetError
          /\ Return(c, "err")
          /\ UNCHANGED <<object, missed>>
    /\ UNCHANGED <<server, cache, op, expired, written>>

(***************************************************************************)
(* The mutation the caller passes, applied to its own copy.                *)
(***************************************************************************)
Mutate(c) ==
    [present |-> object[c].present, rev |-> object[c].rev, val |-> [object[c].val EXCEPT ![c] = @ + 1]]

(***************************************************************************)
(* The API server on an Update that carries the resourceVersion of the     *)
(* caller's copy: accepted only when that is the version it holds.         *)
(***************************************************************************)
Accepts(c) == server.present /\ object[c].rev = server.rev

Conflicts(c) == server.present /\ object[c].rev # server.rev

Store(c) ==
    /\ server' = [present |-> TRUE, rev |-> server.rev + 1, val |-> Mutate(c).val]
    /\ written' = [written EXCEPT ![c] = @ + 1]

(***************************************************************************)
(* Update fails with an error that is not a conflict: an admission webhook *)
(* rejects it, the object is gone, or the answer to an accepted write is   *)
(* lost on the way back.                                                   *)
(***************************************************************************)
UpdateFails(c) ==
    \/ UNCHANGED <<server, written>>
    \/ Accepts(c) /\ Store(c)

(***************************************************************************)
(* UpdateObject (and AppendAnnotations, AppendLabels, DeleteAnnotations,   *)
(* which end in it): the mutation is applied, the write is tried once, and *)
(* a conflict is reported as success.                                      *)
(***************************************************************************)
UpdateObject(c) ==
    /\ pc[c] = "call"
    /\ op' = [op EXCEPT ![c] = "UpdateObject"]
    /\ object' = [object EXCEPT ![c] = Mutate(c)]
    /\ \/ /\ ~object[c].present \/ Conflicts(c)
          /\ Return(c, "nil")
          /\ UNCHANGED <<server, written>>
       \/ /\ object[c].present /\ Accepts(c)
          /\ Store(c)
          /\ Return(c, "nil")
       \/ /\ object[c].present
          /\ UpdateFails(c)
          /\ Return(c, "err")
    /\ UNCHANGED <<cache, expired, getErrors, missed>>

(***************************************************************************)
(* EnsureUpdateObject starts the loop of forceUpdate under a 2 second      *)
(* context.                                                                *)
(***************************************************************************)
EnsureUpdateObject(c) ==
    /\ pc[c] = "call"
    /\ op' = [op EXCEPT ![c] = "EnsureUpdateObject"]
    /\ pc' = [pc EXCEPT ![c] = "update"]
    /\ UNCHANGED <<server, cache, object, expired, result, getErrors, written, missed>>

Expire(c) ==
    /\ pc[c] \in {"update", "refresh"}
    /\ ~expired[c]
    /\ expired' = [expired EXCEPT ![c] = TRUE]
    /\ UNCHANGED <<server, cache, object, pc, op, result, getErrors, written, missed>>

(***************************************************************************)
(* update, one turn of the loop of forceUpdate.  Nothing is written for an *)
(* object that is not present, and that is no error.                       *)
(***************************************************************************)
UpdateAbsent(c) ==
    /\ pc[c] = "update"
    /\ ~object[c].present
    /\ Return(c, "nil")
    /\ UNCHANGED <<server, cache, object, op, expired, getErrors, written, missed>>

UpdateStored(c) ==
    /\ pc[c] = "update"
    /\ object[c].present /\ ~expired[c] /\ Accepts(c)
    /\ Store(c)
    /\ object' = [object EXCEPT ![c] = Mutate(c)]
    /\ Return(c, "nil")
    /\ UNCHANGED <<cache, op, expired, getErrors, missed>>

\* Fault: a conflict is taken for success, as in UpdateObject.
UpdateConflictSwallowed(c) ==
    /\ pc[c] = "update"
    /\ object[c].present /\ ~expired[c] /\ Conflicts(c)
    /\ object' = [object EXCEPT ![c] = Mutate(c)]
    /\ Return(c, "nil")
    /\ UNCHANGED <<server, cache, op, expired, getErrors, written, missed>>

\* Fault: the write is sent under the caller's context, which never expires.
UpdateConflictNoDeadline(c) ==
    /\ pc[c] = "update"
    /\ object[c].present /\ Conflicts(c)
    /\ object' = [object EXCEPT ![c] = Mutate(c)]
    /\ pc' = [pc EXCEPT ![c] = "refresh"]
    /\ UNCHANGED <<server, cache, op, expired, result, getErrors, written, missed>>

(***************************************************************************)
(* A conflict leaves the copy mutated and leads to refresh.                *)
(***************************************************************************)
UpdateConflict(c) ==
    /\ pc[c] = "update"
    /\ object[c].present /\ ~expired[c] /\ Conflicts(c)
    /\ object' = [object EXCEPT ![c] = Mutate(c)]
    /\ pc' = [pc EXCEPT ![c] = "refresh"]
    /\ UNCHANGED <<server, cache, op, expired, result, getErrors, written, missed>>

\* Fault: every error, not only a conflict, is retried.
UpdateErrorRetried(c) ==
    /\ pc[c] = "update"
    /\ object[c].present
    /\ UpdateFails(c)
    /\ object' = [object EXCEPT ![c] = Mutate(c)]
    /\ pc' = [pc EXCEPT ![c] = "refresh"]
    /\ UNCHANGED <<cache, op, expired, result, getErrors, missed>>

\* Fault: the error is passed on as a string of its own.
UpdateErrorUnwrapped(c) ==
    /\ pc[c] = "update"
    /\ object[c].present
    /\ UpdateFails(c)
    /\ object' = [object EXCEPT ![c] = Mutate(c)]
    /\ Return(c, "conflict")
    /\ UNCHANGED <<cache, op, expired, getErrors, missed>>

(***************************************************************************)
(* Any other error, that of the expired context included, ends the loop.   *)
(***************************************************************************)
UpdateError(c) ==
    /\ pc[c] = "update"
    /\ object[c].present
    /\ UpdateFails(c)
    /\ object' = [object EXCEPT ![c] = Mutate(c)]
    /\ Return(c, "err")
    /\ UNCHANGED <<cache, op, expired, getErrors, missed>>

\* Fault: only the resourceVersion is taken over, the mutated content is kept.
RefreshVersionOnly(c) ==
    /\ pc[c] = "refresh"
    /\ cache.present
    /\ object' = [object EXCEPT ![c].rev = cache.rev]
    /\ pc' = [pc EXCEPT ![c] = "update"]
    /\ UNCHANGED <<server, cache, op, expired, result, getErrors, written, missed>>

(***************************************************************************)
(* refresh: Get overwrites the copy; NotFound ends the loop without an     *)
(* error; any other failure leaves the mutated copy as it is.              *)
(***************************************************************************)
Refresh(c) ==
    /\ pc[c] = "refresh"
    /\ \/ /\ cache.present
          /\ object' = [object EXCEPT ![c] = cache]
          /\ pc' = [pc EXCEPT ![c] = "update"]
          /\ UNCHANGED <<result, missed, getErrors>>
       \/ /\ ~cache.present
          /\ Return(c, "nil")
          /\ missed' = [missed EXCEPT ![c] = TRUE]
          /\ UNCHANGED <<object, getErrors>>
       \/ /\ GetError
          /\ pc' = [pc EXCEPT ![c] = "update"]
          /\ UNCHANGED <<object, result, missed>>
    /\ UNCHANGED <<server, cache, op, expired, written>>

(***************************************************************************)
(* EnsureCreate: nothing for a present object; AlreadyExists is success.   *)
(***************************************************************************)
EnsureCreate(c) ==
    /\ pc[c] = "call"
    /\ op' = [op EXCEPT ![c] = "EnsureCreate"]
    /\ \/ /\ object[c].present \/ server.present
          /\ Return(c, "nil")
          /\ UNCHANGED <<server, object>>
       \/ /\ ~object[c].present /\ ~server.present
          /\ server' = Fresh(server.rev + 1)
          /\ object' = [object EXCEPT ![c] = Fresh(server.rev + 1)]
          /\ Return(c, "nil")
       \/ /\ ~object[c].present
          /\ Return(c, "err")
          /\ UNCHANGED <<server, object>>
    /\ UNCHANGED <<cache, expired, getErrors, written, missed>>

(***************************************************************************)
(* EnsureDelete: nothing for an absent object; NotFound is success.  The   *)
(* delete carries no resourceVersion.                                      *)
(***************************************************************************)
EnsureDelete(c) ==
    /\ pc[c] = "call"
    /\ op' = [op EXCEPT ![c] = "EnsureDelete"]
    /\ \/ /\ ~object[c].present \/ ~server.present
          /\ Return(c, "nil")
          /\ UNCHANGED server
       \/ /\ object[c].present /\ server.present
          /\ server' = Absent(server.rev + 1)
          /\ Return(c, "nil")
       \/ /\ object[c].present
          /\ Return(c, "err")
          /\ UNCHANGED server
    /\ UNCHANGED <<cache, object, expired, getErrors, written, missed>>

Done ==
    /\ \A c \in Callers : pc[c] = "done"
    /\ UNCHANGED vars

Caller(c) ==
    \/ New(c)
    \/ UpdateObject(c)
    \/ EnsureUpdateObject(c)
    \/ UpdateAbsent(c)
    \/ UpdateStored(c)
    \/ UpdateConflict(c)
    \/ UpdateError(c)
    \/ Refresh(c)
    \/ EnsureCreate(c)
    \/ EnsureDelete(c)

Next ==
    \/ CacheSync
    \/ \E c \in Callers : Caller(c) \/ Expire(c)
    \/ Done

(***************************************************************************)
(* A caller keeps running and its context's deadline passes.  Nothing is   *)
(* assumed of the watch that feeds the cache.                              *)
(***************************************************************************)
Fairness == \A c \in Callers : WF_vars(Caller(c)) /\ WF_vars(Expire(c))

Spec == Init /\ [][Next]_vars /\ Fairness
-----------------------------------------------------------------------------
(***************************************************************************)
(* However often forceUpdate goes round, with stale reads, failed          *)
(* refreshes, lost answers, deletions and re-creations in between, the     *)
(* mutation of a call is in the object at most once.                       *)
(***************************************************************************)
AtMostOnce ==
    \A c \in Callers : server.val[c] <= 1

(***************************************************************************)
(* EnsureUpdateObject returns nil only if its mutation was stored, exactly *)
(* once, or the object was seen not to exist.                              *)
(***************************************************************************)
EnsureUpdateIsHonest ==
    \A c \in Callers :
        op[c] = "EnsureUpdateObject" /\ result[c] = "nil" => written[c] = 1 \/ missed[c]

(***************************************************************************)
(* No write, of whatever operation, takes out of the object a mutation of  *)
(* another caller that is in it.                                           *)
(***************************************************************************)
NoLostUpdate ==
    [][server.present /\ server'.present =>
          \A c \in Callers : server'.val[c] >= server.val[c]]_vars

(***************************************************************************)
(* Every call returns, also when the cache never catches up: the deadline  *)
(* of the context ends the loop of forceUpdate.                            *)
(***************************************************************************)
CallsReturn ==
    \A c \in Callers : pc[c] = "call" ~> pc[c] = "done"

(***************************************************************************)
(* The wrapper implements an object without cache, copies, versions and    *)
(* retries: whatever the loop of forceUpdate does, a call takes effect at  *)
(* the instant it returns, on the object as it then is, and only once.     *)
(***************************************************************************)
Atomic == INSTANCE AtomicObject WITH present <- server.present, val <- server.val, outcome <- result

ImplementsAtomic == Atomic!Spec
=============================================================================
