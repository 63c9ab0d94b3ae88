---------------------------- MODULE MCMigration ----------------------------
(* A hierarchy to move subnamespaces in, and no room to spare at the root. *)
EXTENDS Migration

\* root - (a - b - c, d - e); with rq-depth 1 the keys are b and e.
MCNodes == {"root", "a", "b", "c", "d", "e"}

MCDisplayName ==
    [n \in MCNodes |-> CASE n = "root" -> <<"root">>
                         [] n = "a"    -> <<"root", "a">>
                         [] n = "b"    -> <<"root", "a", "b">>
                         [] n = "c"    -> <<"root", "a", "b", "c">>
                         [] n = "d"    -> <<"root", "d">>
                         [] n = "e"    -> <<"root", "d", "e">>]

MCHard == [n \in MCNodes |-> CASE n = "root" -> 4
                               [] n = "a"    -> 3
                               [] n = "b"    -> 2
                               [] n \in {"c", "d"} -> 1
                               [] n = "e"    -> 0]
=============================================================================
