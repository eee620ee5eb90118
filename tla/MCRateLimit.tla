------------------------------ MODULE MCRateLimit ------------------------------
(* Four callers in two processes, one of them with a weight no bucket holds. *)
EXTENDS RateLimit

MCProcOf == [a |-> "p", b |-> "p", c |-> "q", d |-> "q"]
MCWeight == [a |-> 2, b |-> 1, c |-> 1, d |-> 3]
MCDeadline == [a |-> None, b |-> 2, c |-> None, d |-> None]

================================================================================
