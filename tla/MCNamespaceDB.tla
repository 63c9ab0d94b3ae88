--------------------------- MODULE MCNamespaceDB ---------------------------
(* Hierarchies for the namespace DB. *)
EXTENDS NamespaceDB

\* root - a - b - (c, d); with rq-depth 1 the key is b.
MCNodes == {"root", "a", "b", "c", "d"}

MCDisplayName ==
    [n \in MCNodes |-> CASE n = "root" -> <<"root">>
                         [] n = "a"    -> <<"root", "a">>
                         [] n = "b"    -> <<"root", "a", "b">>
                         [] n = "c"    -> <<"root", "a", "b", "c">>
                         [] n = "d"    -> <<"root", "a", "b", "d">>]

\* root - b - c; with rq-depth 0 the key is b.
SmallNodes == {"root", "b", "c"}

SmallDisplayName ==
    [n \in SmallNodes |-> CASE n = "root" -> <<"root">>
                            [] n = "b"    -> <<"root", "b">>
                            [] n = "c"    -> <<"root", "b", "c">>]

\* A chain of ten levels below the root.
Levels == <<"root", "n1", "n2", "n3", "n4", "n5", "n6", "n7", "n8", "n9", "n10">>
Chain  == Range(Levels)
ChainDisplayName == [n \in Chain |-> SubSeq(Levels, 1, CHOOSE i \in 1..11 : Levels[i] = n)]
NineLevels == Chain \ {"root", "n10"}
=============================================================================
