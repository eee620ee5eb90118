------------------------------- MODULE MCOutbound -------------------------------
(* Outbound for TLC: requests of two processes, four coalesced calls of which one shares with
   nobody, and three calls over the documents of one vendor. *)
EXTENDS Outbound

MCFlightDeadline == [a |-> None, b |-> 1, c |-> 2, u |-> None]

MCSlugs == [d |-> "direct", v |-> "vendor-aggregate", u |-> "unknown"]
MCDocDeadline == [a |-> None, b |-> 1, c |-> 3]
Dex(v, chart) == [cap |-> "dex.volume.history", vendor |-> v, chart |-> chart]
Of(cap) == [cap |-> cap]
Tvl(s) == [cap |-> "protocol.tvl", slug |-> s]
MCAsks ==
  [a |-> {Dex("v", FALSE), Dex("v", TRUE)},
   b |-> {Dex("v", FALSE), Dex("w", TRUE), Of("protocol.incidents")},
   c |-> {Dex("v", TRUE), Of("protocol.list"), Tvl("u"), [cap |-> "chain.tvl.history", vendor |-> "v"]}]
MCTTL == [f \in {"dex", "history", "chains", "protocols", "lite", "hacks"} |-> IF f \in {"hacks", "protocols"} THEN 2 ELSE 1]

MCProcOf == [r \in Requests |-> IF r = "b" THEN "q" ELSE "p"]
MCOverride == [p |-> 1, q |-> None]
MCStart == [r \in Requests |-> [host |-> "home", https |-> TRUE]]
MCDeadline == [r \in Requests |-> IF r = "a" THEN 1 ELSE None]
MCLocations ==
  {[host |-> h, https |-> TRUE] : h \in {"home", "other", "strange"}}
    \cup {[host |-> "home", https |-> FALSE], Unparseable}
================================================================================
