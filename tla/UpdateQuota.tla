---------------------------- MODULE UpdateQuota ----------------------------
(***************************************************************************)
(* internal/updatequota: an Updatequota object moves an amount of quota    *)
(* from one subnamespace to another.  Its controller subtracts the amount  *)
(* from every subnamespace on the way up to the nearest common ancestor,   *)
(* then adds it to every one on the way down, one EnsureUpdateObject after *)
(* the other, each followed by a wait until the subnamespace controller    *)
(* has put the new spec in force, and records the outcome at the end.      *)
(*                                                                         *)
(* The module runs next to the webhook and the controller of               *)
(* SubnamespaceQuota: every change is admitted, and put in force, there.   *)
(***************************************************************************)
EXTENDS SubnamespaceQuota, FiniteSetsExt

CONSTANTS
    Upqs,           \* the Updatequota objects
    Source, Dest,   \* [Upqs -> Nodes] their Spec
    Amount,         \* [Upqs -> Nat]
    SecondaryRoots, \* the namespaces with the is-secondary-root annotation
    Unit,           \* how many of the model's quantities make one unit of Quantity.Value
    MaxTouches      \* bound on the times users write an Updatequota in progress

ASSUME UpqAssumption ==
    /\ IsFiniteSet(Upqs) /\ Upqs # {}
    /\ Source \in [Upqs -> Nodes]
    /\ Dest \in [Upqs -> Nodes]
    /\ Amount \in [Upqs -> Nat]
    /\ SecondaryRoots \subseteq Nodes
    /\ Unit \in Nat \ {0}
    /\ MaxTouches \in Nat

VARIABLES
    upqPhase,   \* [Upqs -> ...] Status.Phase, "absent" when there is no such object
    upqQueue,   \* the workqueue of the updatequota controller
    mover,      \* its reconciliation in progress
    touches,    \* number of writes of an Updatequota by users
    timeouts,   \* history: ensureSnsEqualQuota gave up
    moved       \* history: [Upqs -> [Nodes -> Nat]], how often the move at a node was stored

upqVars == <<upqPhase, upqQueue, mover, touches, timeouts, moved>>
allVars == <<vars, upqVars>>
-----------------------------------------------------------------------------
(***************************************************************************)
(* GetAncestor: the deepest namespace of the source's display-name that is *)
(* on the destination's.                                                   *)
(***************************************************************************)
AncestorDepth(u) ==
    Max({i \in 1..Len(DisplayName[Source[u]]) :
            \E j \in 1..Len(DisplayName[Dest[u]]) : DisplayName[Dest[u]][j] = DisplayName[Source[u]][i]})

(***************************************************************************)
(* getSnsListUp and getSnsListDown: the source first, up to just below the *)
(* ancestor, then from just below the ancestor to the destination.  With   *)
(* the ancestor at either end one of the two parts is empty.               *)
(***************************************************************************)
UpCount(u)   == Len(DisplayName[Source[u]]) - AncestorDepth(u)
DownCount(u) == Len(DisplayName[Dest[u]]) - AncestorDepth(u)
MoveCount(u) == UpCount(u) + DownCount(u)

IsUp(u, k) == k <= UpCount(u)

MoveAt(u, k) ==
    IF IsUp(u, k) THEN DisplayName[Source[u]][Len(DisplayName[Source[u]]) + 1 - k]
                  ELSE DisplayName[Dest[u]][AncestorDepth(u) + k - UpCount(u)]

(***************************************************************************)
(* Quantity.Value rounds up to a whole unit, so addSnsQuota and subSnsQuota*)
(* round what is there as well as what is moved.  They touch only the      *)
(* resources the Subnamespace lists.                                       *)
(***************************************************************************)
Value(q) == ((q + Unit - 1) \div Unit) * Unit

\* Fault: a retried subtraction is made on top of the one before.
NewQuotaTwice(u, k, q) ==
    IF q < 0 THEN q
    ELSE IF IsUp(u, k) THEN Value(q) - 2 * Value(Amount[u]) ELSE Value(q) + Value(Amount[u])

NewQuota(u, k, q) ==
    IF q < 0 THEN q
    ELSE IF IsUp(u, k) THEN Value(q) - Value(Amount[u]) ELSE Value(q) + Value(Amount[u])
-----------------------------------------------------------------------------
AtRest == [upq |-> CHOOSE u \in Upqs : TRUE, at |-> "idle", k |-> 1, spec |-> Unset,
           fresh |-> FALSE, outcome |-> "Complete"]

UpqInit ==
    /\ Init
    /\ upqPhase = [u \in Upqs |-> "absent"]
    /\ upqQueue = {}
    /\ mover = AtRest
    /\ touches = 0
    /\ timeouts = 0
    /\ moved = [u \in Upqs |-> [n \in Nodes |-> 0]]

(***************************************************************************)
(* handleCreate.  The permissions of the user are not modelled: every user *)
(* has them.                                                               *)
(***************************************************************************)
ValidateSecondaryRoot(u) ==
    LET a == DisplayName[Source[u]][2]
        b == DisplayName[Dest[u]][2]
    IN  a \in SecondaryRoots \/ b \in SecondaryRoots => a = b

ValidateNSQuotaObject(n) == IF n = Root THEN rq[Root] # NoObject ELSE SubnamespaceObject(n) # NoObject

CreateUpq(u) ==
    /\ upqPhase[u] = "absent"
    /\ Source[u] \in namespaces /\ Dest[u] \in namespaces
    /\ AncestorDepth(u) = 1 /\ Source[u] # Root /\ Dest[u] # Root => ValidateSecondaryRoot(u)
    /\ ValidateNSQuotaObject(Source[u]) /\ ValidateNSQuotaObject(Dest[u])
    /\ upqPhase' = [upqPhase EXCEPT ![u] = "None"]
    /\ upqQueue' = upqQueue \cup {u}
    /\ UNCHANGED <<vars, mover, touches, timeouts, moved>>

(***************************************************************************)
(* A user writes the object (a label, say) while its status is empty,      *)
(* which the webhook allows: the copy the controller holds is outdated.    *)
(***************************************************************************)
TouchUpq(u) ==
    /\ upqPhase[u] = "None"
    /\ touches < MaxTouches
    /\ touches' = touches + 1
    /\ upqQueue' = upqQueue \cup {u}
    /\ mover' = IF mover.at # "idle" /\ mover.upq = u THEN [mover EXCEPT !.fresh = FALSE] ELSE mover
    /\ UNCHANGED <<vars, upqPhase, timeouts, moved>>
-----------------------------------------------------------------------------
\* Fault: an object whose operation failed is taken up again.
ShouldReconcileErrors(p) == p # "Complete"

ShouldReconcile(p) == p \notin {"Complete", "Error"}

ReconcileUpq(u) ==
    /\ mover.at = "idle"
    /\ u \in upqQueue
    /\ upqQueue' = upqQueue \ {u}
    /\ mover' = IF upqPhase[u] # "absent" /\ ShouldReconcile(upqPhase[u])
                THEN [AtRest EXCEPT !.upq = u, !.fresh = TRUE,
                                    !.at = IF MoveCount(u) = 0 THEN "status" ELSE "move"]
                ELSE AtRest
    /\ UNCHANGED <<vars, upqPhase, touches, timeouts, moved>>

\* Fault: the list of subnamespaces is run past its end.
NextMovePastEnd(k) == [mover EXCEPT !.k = IF k <= MoveCount(mover.upq) THEN k + 1 ELSE k,
                                    !.at = IF k <= MoveCount(mover.upq) THEN "move" ELSE "status"]

\* After the move at k: the next one, or the status.
NextMove(k) == [mover EXCEPT !.k = IF k < MoveCount(mover.upq) THEN k + 1 ELSE k,
                             !.at = IF k < MoveCount(mover.upq) THEN "move" ELSE "status"]

GiveUp == mover' = [mover EXCEPT !.at = "status", !.outcome = "Error"]

(***************************************************************************)
(* The write of the Subnamespace: admitted like a user's, stored, and      *)
(* noticed by the subnamespace controller.                                 *)
(***************************************************************************)
StoreMove(n, q) ==
    /\ spec' = [spec EXCEPT ![n] = q]
    /\ queue' = IF q # spec[n] THEN queue \cup {n} ELSE queue
    /\ worker' = IF q # spec[n] THEN Outdated(n) ELSE worker
    /\ moved' = [moved EXCEPT ![mover.upq][n] = @ + 1]
    /\ raced' = (raced \/ ~SettledAround(n))
    /\ UNCHANGED <<phase, isRq, status, objs, updates>>

Admitted(n, q) == (q >= 0 \/ q = spec[n]) /\ UpdateAllowed(n, q, isRq[n])

(***************************************************************************)
(* addSnsQuota and subSnsQuota up to the wait: EnsureUpdateObject, which   *)
(* stores the change once or fails.                                        *)
(***************************************************************************)
Move ==
    LET n == MoveAt(mover.upq, mover.k)
        q == NewQuota(mover.upq, mover.k, spec[n])
    IN  /\ mover.at = "move"
        /\ \/ /\ Admitted(n, q)
              /\ StoreMove(n, q)
              /\ mover' = [mover EXCEPT !.at = "wait", !.spec = q]
              /\ UNCHANGED failures
           \/ /\ ~Admitted(n, q)
              /\ GiveUp
              /\ UNCHANGED <<vars, moved>>
           \/ /\ failures < MaxFailures      \* the call fails, its write stored or not
              /\ failures' = failures + 1
              /\ GiveUp
              /\ \/ Admitted(n, q) /\ StoreMove(n, q)
                 \/ UNCHANGED <<sns, objs, queue, worker, updates, raced, moved>>
        /\ UNCHANGED <<upqPhase, upqQueue, touches, timeouts>>

\* Fault: the wait is left out.
NoWait ==
    /\ mover.at = "wait"
    /\ mover' = NextMove(mover.k)
    /\ UNCHANGED <<vars, upqPhase, upqQueue, touches, timeouts, moved>>

(***************************************************************************)
(* ensureSnsEqualQuota: the quota object agrees with the spec that was     *)
(* written in every resource the quota object limits.                      *)
(***************************************************************************)
WaitOver ==
    LET o == SubnamespaceObject(MoveAt(mover.upq, mover.k))
    IN  /\ mover.at = "wait"
        /\ o < 0 \/ o = mover.spec
        /\ mover' = NextMove(mover.k)
        /\ UNCHANGED <<vars, upqPhase, upqQueue, touches, timeouts, moved>>

\* MaxRetries polls are over: the loop ends, and that is not an error.
WaitTimeout ==
    LET o == SubnamespaceObject(MoveAt(mover.upq, mover.k))
    IN  /\ mover.at = "wait"
        /\ ~(o < 0 \/ o = mover.spec)
        /\ mover' = NextMove(mover.k)
        /\ timeouts' = 1
        /\ UNCHANGED <<vars, upqPhase, upqQueue, touches, moved>>

\* The quota object cannot be read.
WaitFails ==
    /\ mover.at = "wait"
    /\ failures < MaxFailures
    /\ failures' = failures + 1
    /\ GiveUp
    /\ UNCHANGED <<sns, objs, queue, worker, updates, raced, upqPhase, upqQueue, touches, timeouts, moved>>

\* Fault: the outcome is not taken from the operation.
StatusAlwaysComplete ==
    LET u == mover.upq
    IN  /\ mover.at = "status"
        /\ upqPhase' = [upqPhase EXCEPT ![u] = "Complete"]
        /\ upqQueue' = upqQueue \cup {u}
        /\ mover' = AtRest
        /\ UNCHANGED <<vars, touches, timeouts, moved>>

\* Fault: a conflict on the status is not followed by another reconciliation.
StatusForgotten ==
    LET u == mover.upq
    IN  /\ mover.at = "status"
        /\ upqPhase' = IF mover.fresh THEN [upqPhase EXCEPT ![u] = mover.outcome] ELSE upqPhase
        /\ upqQueue' = upqQueue \ {u}
        /\ mover' = AtRest
        /\ UNCHANGED <<vars, touches, timeouts, moved>>

(***************************************************************************)
(* updateUPQStatus: UpdateObject on the copy read at the start.  A failed  *)
(* operation returns its error, so the object is enqueued in any case.     *)
(***************************************************************************)
Status ==
    LET u == mover.upq
    IN  /\ mover.at = "status"
        /\ upqPhase' = IF mover.fresh THEN [upqPhase EXCEPT ![u] = mover.outcome] ELSE upqPhase
        /\ upqQueue' = IF mover.fresh \/ mover.outcome = "Error" THEN upqQueue \cup {u} ELSE upqQueue
        /\ mover' = AtRest
        /\ UNCHANGED <<vars, touches, timeouts, moved>>

(***************************************************************************)
(* The write of the status fails, stored or not.  A Complete that failed   *)
(* is followed by an attempt to record Error.                              *)
(***************************************************************************)
StatusFails ==
    LET u == mover.upq
    IN  /\ mover.at = "status"
        /\ failures < MaxFailures
        /\ failures' = failures + 1
        /\ \/ UNCHANGED upqPhase
           \/ /\ mover.fresh
              /\ \E p \in {mover.outcome, "Error"} : upqPhase' = [upqPhase EXCEPT ![u] = p]
        /\ upqQueue' = upqQueue \cup {u}
        /\ mover' = AtRest
        /\ UNCHANGED <<sns, objs, queue, worker, updates, raced, touches, timeouts, moved>>
-----------------------------------------------------------------------------
\* The operator is restarted: both controllers start again from the objects.
UpqRestart ==
    /\ Restart
    /\ mover' = AtRest
    /\ upqQueue' = {u \in Upqs : upqPhase[u] # "absent"}
    /\ UNCHANGED <<upqPhase, touches, timeouts, moved>>

SubnamespaceStep ==
    /\ Users \/ (\E n \in SNSs : Reconcile(n)) \/ Work \/ Fail
    /\ UNCHANGED upqVars

UpqWork == Move \/ WaitOver \/ WaitTimeout \/ WaitFails \/ Status \/ StatusFails

UpqNext ==
    \/ SubnamespaceStep
    \/ \E u \in Upqs : CreateUpq(u) \/ TouchUpq(u) \/ ReconcileUpq(u)
    \/ UpqWork
    \/ UpqRestart

(***************************************************************************)
(* Both workers run and both workqueues are first in first out.            *)
(***************************************************************************)
UpqFairness ==
    /\ WF_allVars(Work /\ UNCHANGED upqVars)
    /\ \A n \in SNSs : SF_allVars(Reconcile(n) /\ UNCHANGED upqVars)
    /\ WF_allVars(UpqWork)
    /\ \A u \in Upqs : SF_allVars(ReconcileUpq(u))

UpqSpec == UpqInit /\ [][UpqNext]_allVars /\ UpqFairness
-----------------------------------------------------------------------------
UpqTypeOK ==
    /\ upqPhase \in [Upqs -> {"absent", "None", "Complete", "Error"}]
    /\ upqQueue \subseteq Upqs
    /\ mover \in [upq : Upqs, at : {"idle", "move", "wait", "status"}, k : Nat \ {0}, spec : Int,
                  fresh : BOOLEAN, outcome : {"Complete", "Error"}]
    /\ mover.at \in {"move", "wait"} => mover.k \in 1..MoveCount(mover.upq)
    /\ touches \in 0..MaxTouches
    /\ timeouts \in {0, 1}
    /\ moved \in [Upqs -> [Nodes -> Nat]]

Moved(u, k) == moved[u][MoveAt(u, k)]

(***************************************************************************)
(* Complete is said only of an operation all of whose moves were stored,   *)
(* whatever restarts, timeouts, denials and writes by others happened.     *)
(***************************************************************************)
CompleteMeansMoved ==
    \A u \in Upqs : upqPhase[u] = "Complete" => \A k \in 1..MoveCount(u) : Moved(u, k) >= 1

(***************************************************************************)
(* With no restart, no failed call and nobody writing the object, no move  *)
(* is stored twice, whether the operation ends in Complete or in Error.    *)
(***************************************************************************)
MovedOnceUndisturbed ==
    failures = 0 /\ touches = 0 =>
        \A u \in Upqs : \A k \in 1..MoveCount(u) : Moved(u, k) <= 1

(***************************************************************************)
(* The comment on ensureSnsEqualQuota: the wait is there because "a race   *)
(* condition can be created if this is not ensured".  As long as it does   *)
(* not give up and nothing restarts, no move is admitted next to one that  *)
(* is not in force yet, also across operations.                            *)
(***************************************************************************)
WaitPreventsRaces == timeouts = 0 /\ failures = 0 /\ updates = 0 => ~raced

(***************************************************************************)
(* Quota is neither made nor lost: each spec is what it was at the start   *)
(* and what the moves stored at it brought or took.                        *)
(***************************************************************************)
Brought(u, n) ==
    IF n \in {MoveAt(u, k) : k \in 1..UpCount(u)} THEN -(Amount[u] * moved[u][n]) ELSE Amount[u] * moved[u][n]

Net(n) == SumFunction([u \in Upqs |-> Brought(u, n)])

QuotaConserved ==
    updates = 0 => \A n \in SNSs : InitialSpec[n] >= 0 => spec[n] = InitialSpec[n] + Net(n)

(***************************************************************************)
(* Every Updatequota ends in Complete or Error.                            *)
(***************************************************************************)
UpqsTerminate ==
    \A u \in Upqs : upqPhase[u] = "None" ~> upqPhase[u] \in {"Complete", "Error"}
=============================================================================
