------------------------ MODULE MCSubnamespaceQuota ------------------------
(* The hierarchy  root - a - (b, c - d)  and what its users ask for. *)
EXTENDS SubnamespaceQuota

MCNodes == {"root", "a", "b", "c", "d"}

MCDisplayName ==
    [n \in MCNodes |-> CASE n = "root" -> <<"root">>
                         [] n = "a"    -> <<"root", "a">>
                         [] n = "b"    -> <<"root", "a", "b">>
                         [] n = "c"    -> <<"root", "a", "c">>
                         [] n = "d"    -> <<"root", "a", "c", "d">>]

\* At the start there is the root, or the root and a.
OnlyRoot(q) == [n \in MCNodes |-> IF n = "root" THEN q ELSE NoObject]
WithA(q, a) == [OnlyRoot(q) EXCEPT !["a"] = a]

Ask(a, b, c, d) ==
    [n \in MCNodes \ {"root"} |-> CASE n = "a" -> a [] n = "b" -> b [] n = "c" -> c [] n = "d" -> d]

\* a has two units: b and the upper pool c together ask for more, and a may get less.
A2OfTwo  == WithA(2, 2)
AskTight == Ask({1}, {1}, {2, Unset}, {Unset})

\* Any combination of requests fits.
OnlyRoot5 == OnlyRoot(5)
AskAmple  == Ask({2, 3}, {}, {1, 2}, {})

\* b and the upper pool c side by side.
AskNextToPool == Ask({}, {1, 2}, {1, 2}, {})
=============================================================================
