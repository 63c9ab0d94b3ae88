--------------------------- MODULE MCUpdateQuota ---------------------------
(* The hierarchy  root - a - (b, c)  and Updatequotas in it. *)
EXTENDS UpdateQuota

MCNodes == {"root", "a", "b", "c"}

MCDisplayName ==
    [n \in MCNodes |-> CASE n = "root" -> <<"root">>
                         [] n = "a"    -> <<"root", "a">>
                         [] n = "b"    -> <<"root", "a", "b">>
                         [] n = "c"    -> <<"root", "a", "c">>]

NoRequests == [n \in MCNodes \ {"root"} |-> {}]

\* a has handed out all it has.
Full == [n \in MCNodes |-> CASE n = "root" -> 6 [] n = "a" -> 4 [] n = "b" -> 2 [] n = "c" -> 2]

\* u1 moves from b to c, u2 from a, which has nothing to give, to the root.
MCUpqs   == {"u1", "u2"}
MCSource == [u \in MCUpqs |-> IF u = "u1" THEN "b" ELSE "a"]
MCDest   == [u \in MCUpqs |-> IF u = "u1" THEN "c" ELSE "root"]
MCAmount == [u \in MCUpqs |-> 1]

\* u1 alone, sideways or down two levels.
OneUpq   == {"u1"}
SourceRoot == [u \in OneUpq |-> "root"]
DestC    == [u \in OneUpq |-> "c"]
Amount1  == [u \in OneUpq |-> 1]
=============================================================================
