--------------------------- MODULE MCRoleBindings ---------------------------
(* A chain of three namespaces. *)
EXTENDS RoleBindings

\* root - a - b
MCNodes  == {"root", "a", "b"}
MCParent == [n \in {"a", "b"} |-> IF n = "a" THEN "root" ELSE "a"]

MCSubject == [x \in {"x"} |-> "alice"]
=============================================================================
