------------------------------ MODULE Singleflight ------------------------------
(****************************************************************************)
(* Coalescing of identical paid calls in one process                        *)
(* (adapters/nansen/singleflight.ts and its use in adapters/nansen/index.ts): *)
(* the first call of a key leads, pays and answers; calls that come before  *)
(* it has settled follow, each to its own deadline.  The leader is never    *)
(* cut short.  All calls share one key, but for those whose answer depends  *)
(* on who asked: each of them has a key of its own.                         *)
(****************************************************************************)
EXTENDS Integers, FiniteSets

CONSTANTS
  Calls,
  Unshared,       \* calls of a capability with shareable: false
  Deadline,       \* call -> deadlineAtMs, or None
  MaxTime,        \* bound: the last instant
  None

FlightAssumption ==
  /\ Unshared \subseteq Calls
  /\ Deadline \in [Calls -> Nat \cup {None}] /\ None \notin Nat
  /\ MaxTime \in Nat /\ None \notin Calls

VARIABLES
  now,
  inFlight,   \* key -> its leader, or None
  pc,         \* call -> where it is
  leaderOf,   \* call -> the call it follows, or itself
  shared,     \* leader -> has it published the coordinates of its reservation
  outcome,    \* call -> what it received, or None
  receipt     \* follower -> what its `coalesced` receipt says: "at", "null" or None

vars == <<now, inFlight, pc, leaderOf, shared, outcome, receipt>>

\* coalescingKey: the hash of the arguments, or a number nobody else gets.
Shared == "args"
Keys == {Shared} \cup Unshared
KeyOf(c) == IF c \in Unshared THEN c ELSE Shared

TypeOK ==
  /\ now \in Nat
  /\ inFlight \in [Keys -> Calls \cup {None}]
  /\ pc \in [Calls -> {"idle", "gated", "paying", "following", "done"}]
  /\ leaderOf \in [Calls -> Calls \cup {None}]
  /\ shared \in [Calls -> BOOLEAN]
  /\ outcome \in [Calls -> {"value", "error", "deadline", None}]
  /\ receipt \in [Calls -> {"at", "null", None}]

Init ==
  /\ now = 0
  /\ inFlight = [k \in Keys |-> None]
  /\ pc = [c \in Calls |-> "idle"]
  /\ leaderOf = [c \in Calls |-> None]
  /\ shared = [c \in Calls |-> FALSE]
  /\ outcome = [c \in Calls |-> None]
  /\ receipt = [c \in Calls |-> None]

\* fn runs to its first await, in the budget gate, before the entry can be seen.
Lead(c) ==
  /\ pc[c] = "idle"
  /\ inFlight[KeyOf(c)] = None
  /\ inFlight' = [inFlight EXCEPT ![KeyOf(c)] = c]
  /\ leaderOf' = [leaderOf EXCEPT ![c] = c]
  /\ pc' = [pc EXCEPT ![c] = "gated"]
  /\ UNCHANGED <<now, shared, outcome, receipt>>

Spent(c) == Deadline[c] # None /\ now >= Deadline[c]

\* What the leader has published by the time a follower settles.
Receipt(l) == IF shared[l] THEN "at" ELSE "null"

Follow(c) ==
  /\ pc[c] = "idle"
  /\ inFlight[KeyOf(c)] # None
  /\ LET l == inFlight[KeyOf(c)]
     IN /\ leaderOf' = [leaderOf EXCEPT ![c] = l]
        /\ \/ /\ ~Spent(c)
              /\ pc' = [pc EXCEPT ![c] = "following"]
              /\ UNCHANGED <<outcome, receipt>>
           \/ /\ Spent(c)
              /\ pc' = [pc EXCEPT ![c] = "done"]
              /\ outcome' = [outcome EXCEPT ![c] = "deadline"]
              /\ receipt' = [receipt EXCEPT ![c] = Receipt(l)]
  /\ UNCHANGED <<now, inFlight, shared>>

\* The gate reserved: fn publishes and goes on to the paid requests.
Reserve(c) ==
  /\ pc[c] = "gated"
  /\ shared' = [shared EXCEPT ![c] = TRUE]
  /\ pc' = [pc EXCEPT ![c] = "paying"]
  /\ UNCHANGED <<now, inFlight, leaderOf, outcome, receipt>>

Followers(l) == {c \in Calls : pc[c] = "following" /\ leaderOf[c] = l}

\* fn settles: the entry goes, the leader and all who still wait receive the same.
Settles(l, what) ==
  LET done == Followers(l) \cup {l}
  IN /\ pc' = [c \in Calls |-> IF c \in done THEN "done" ELSE pc[c]]
     /\ outcome' = [c \in Calls |-> IF c \in done THEN what ELSE outcome[c]]
     /\ receipt' = [c \in Calls |-> IF c \in Followers(l) THEN Receipt(l) ELSE receipt[c]]
     /\ UNCHANGED <<now, leaderOf, shared>>

\* Mutant: the entry goes only when fn succeeds.
RefuseAndStay(c) ==
  /\ pc[c] = "gated"
  /\ Settles(c, "error")
  /\ UNCHANGED inFlight

\* The gate refused, or its free work ran out of time.
Refuse(c) ==
  /\ pc[c] = "gated"
  /\ inFlight' = [inFlight EXCEPT ![KeyOf(c)] = None]
  /\ Settles(c, "error")

Answer(c) ==
  /\ pc[c] = "paying"
  /\ inFlight' = [inFlight EXCEPT ![KeyOf(c)] = None]
  /\ Settles(c, "value")

Fail(c) ==
  /\ pc[c] = "paying"
  /\ inFlight' = [inFlight EXCEPT ![KeyOf(c)] = None]
  /\ Settles(c, "error")

\* The timer of a follower; the leader runs on.
GiveUp(c) ==
  /\ pc[c] = "following"
  /\ Spent(c)
  /\ pc' = [pc EXCEPT ![c] = "done"]
  /\ outcome' = [outcome EXCEPT ![c] = "deadline"]
  /\ receipt' = [receipt EXCEPT ![c] = Receipt(leaderOf[c])]
  /\ UNCHANGED <<now, inFlight, leaderOf, shared>>

Tick ==
  /\ now < MaxTime
  /\ now' = now + 1
  /\ UNCHANGED <<inFlight, pc, leaderOf, shared, outcome, receipt>>

Next ==
  \/ \E c \in Calls :
       \/ Lead(c) \/ Follow(c) \/ Reserve(c) \/ Refuse(c) \/ Answer(c) \/ Fail(c)
       \/ GiveUp(c)
  \/ Tick

Spec == Init /\ [][Next]_vars

--------------------------------------------------------------------------------
(* Properties *)

\* singleflight: identical calls in flight at one time are one payment; a key has a
\* leader exactly while that one runs, so the next call leads whatever became of it;
\* nobody follows a call that has settled, or one whose answer is for another.
Running(c) == pc[c] \in {"gated", "paying"}
OnePayment ==
  /\ \A k \in Keys : \A c \in Calls : KeyOf(c) = k => (Running(c) <=> inFlight[k] = c)
  /\ \A c \in Calls : pc[c] = "following" =>
       Running(leaderOf[c]) /\ KeyOf(leaderOf[c]) = KeyOf(c) /\ leaderOf[c] # c

================================================================================
