---------------------------- MODULE AtomicObject ----------------------------
(***************************************************************************)
(* What the callers of internal/objectcontext count on.  There is one      *)
(* object and no cache, copy, version or retry: a call takes effect at the *)
(* instant it returns, on the object as it then is, whole or not at all.   *)
(* The mutation of a caller is "add one to my entry", as in ObjectContext. *)
(***************************************************************************)
EXTENDS Naturals

CONSTANT Callers

VARIABLES
    present,    \* the object exists
    val,        \* [Callers -> Nat] its content
    outcome     \* [Callers -> ...] what the call of each returned, "none" before

object == <<present, val, outcome>>

Untouched == [c \in Callers |-> 0]

Init ==
    /\ present \in BOOLEAN
    /\ val = Untouched
    /\ outcome = [c \in Callers |-> "none"]

Answer(c, err) ==
    /\ outcome[c] = "none"
    /\ outcome' = [outcome EXCEPT ![c] = err]

\* The answer to a mutation that was stored may be lost.
Mutate(c) ==
    /\ present
    /\ val' = [val EXCEPT ![c] = @ + 1]
    /\ \E err \in {"nil", "err"} : Answer(c, err)
    /\ UNCHANGED present

Create(c) ==
    /\ ~present
    /\ present' = TRUE /\ val' = Untouched
    /\ Answer(c, "nil")

Delete(c) ==
    /\ present
    /\ present' = FALSE /\ val' = Untouched
    /\ Answer(c, "nil")

\* There was nothing to do, or it could not be done.
Leave(c) ==
    /\ \E err \in {"nil", "err"} : Answer(c, err)
    /\ UNCHANGED <<present, val>>

Next == \E c \in Callers : Mutate(c) \/ Create(c) \/ Delete(c) \/ Leave(c)

Spec == Init /\ [][Next]_object
=============================================================================
