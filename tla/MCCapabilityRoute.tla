--------------------------- MODULE MCCapabilityRoute ---------------------------
(* Two calls in two processes; a route that names four sources and one that names
   two of them again. *)
EXTENDS CapabilityRoute

MCProcOf == [c \in Calls |-> IF c = "b" THEN "q" ELSE "p"]
MCRoutes ==
  <<[adapterIds |-> <<"free", "gone", "paid">>, selective |-> TRUE],
    [adapterIds |-> <<"paid", "other">>, selective |-> FALSE]>>
MCSays ==
  [free |-> {"poor", "fails"}, paid |-> {"good", "poor", "negative", "notCovered"}, gone |-> {},
   other |-> {}]
MCSeries == {<<>>, <<"h1", "h1">>, <<"bad", "h1", "h2">>}
================================================================================
