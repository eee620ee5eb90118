---------------------------- MODULE MCClientBilling ----------------------------
(* Instances of ClientBilling for TLC. *)
EXTENDS ClientBilling, TLC

\* a and b are two attempts of one request, from two processes; c is another
\* request on the same credits; d is the local principal's, with no profile.
MCProcOf == [c \in Calls |-> IF c = "b" THEN "q" ELSE "p"]
MCKeyOf == [c \in Calls |-> CASE c \in {"a", "b"} -> "x" [] c = "c" -> "y" [] OTHER -> "z"]
MCProfileOf == [k \in Keys |-> IF k = "z" THEN None ELSE "A"]

\* Two tools: a cheap one cached for less than the ceiling, a dear one cached
\* for more.  c and b call the dear one.
MCToolOf == [c \in Calls |-> IF c \in {"b", "c"} THEN "dear" ELSE "cheap"]
MCPrice == ("cheap" :> 1) @@ ("dear" :> 2)
MCTtl == ("cheap" :> 1) @@ ("dear" :> 4)
================================================================================
