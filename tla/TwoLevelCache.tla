----------------------------- MODULE TwoLevelCache -----------------------------
(****************************************************************************)
(* The two-level cache (cache/two-level-store.ts): a hot layer in each      *)
(* process (cache/lru.ts) over one store of rows that the processes share   *)
(* (cache/sqlite-store.ts, pg/cache-store.ts).  A lookup and a store are    *)
(* sequences of statements with awaits between them; what the SQLite store  *)
(* does without an await is a behaviour in which nothing happens between    *)
(* its statements.  The module owns the two layers and the statement each   *)
(* client has under way; its user says what a client does with an answer.   *)
(****************************************************************************)
EXTENDS Integers, Sequences

CONSTANTS
  Procs,
  Clients,
  ProcOf,         \* client -> its process
  Keys,
  Values,
  Ttl,            \* ttlFor(capability)
  NegativeTtl,    \* NEGATIVE_TTL_SECONDS
  MaxTime,        \* bound: the last instant
  Faults,         \* subset of {"store", "evict", "outsized"}
  None

CacheAssumption ==
  /\ ProcOf \in [Clients -> Procs]
  /\ Ttl \in Nat \ {0} /\ NegativeTtl \in 1 .. Ttl /\ MaxTime \in Nat
  /\ None \notin Values

VARIABLES
  now,    \* the clock
  row,    \* key -> the row of cache_entries, or None
  hot,    \* process -> key -> the entry of its hot layer, or None
  stmt    \* client -> the statement it waits for, or None

cacheVars == <<row, hot, stmt>>

Row == [value : Values, created : Nat, expires : Nat]
HotEntry == [value : Values, created : Int, gone : Int]
Statement ==
  [kind : {"select", "delete", "upsert", "sweep"}, key : Keys, applied : BOOLEAN,
   row : Row \cup {None}]

CacheTypeOK ==
  /\ now \in Nat
  /\ row \in [Keys -> Row \cup {None}]
  /\ hot \in [Procs -> [Keys -> HotEntry \cup {None}]]
  /\ stmt \in [Clients -> Statement \cup {None}]

CacheInit ==
  /\ now = 0
  /\ row = [k \in Keys |-> None]
  /\ hot = [p \in Procs |-> [k \in Keys |-> None]]
  /\ stmt = [c \in Clients |-> None]

--------------------------------------------------------------------------------
(* The hot layer.  An entry lives through the instant its TTL ends in. *)

Live(p, k) == hot[p][k] # None /\ now <= hot[p][k].gone

\* A TTL that is over stores nothing; nor does a value over the byte limit, and then
\* the entry that was there stays.
HotSet(p, k, v, ttl, created) ==
  \/ /\ ttl > 0
     /\ hot' = [hot EXCEPT ![p][k] = [value |-> v, created |-> created, gone |-> now + ttl]]
  \/ /\ ttl <= 0 \/ "outsized" \in Faults
     /\ UNCHANGED hot

\* An entry pushed out by others.
Evict(p, k) ==
  /\ "evict" \in Faults
  /\ hot[p][k] # None
  /\ hot' = [hot EXCEPT ![p][k] = None]
  /\ UNCHANGED <<row, stmt>>

--------------------------------------------------------------------------------
(* Statements: sent by a client, applied by the store at some later point. *)

Send(c, kind, k, r) ==
  stmt' = [stmt EXCEPT ![c] = [kind |-> kind, key |-> k, applied |-> FALSE, row |-> r]]

Under(c, kind) == stmt[c] # None /\ stmt[c].kind = kind
Answered(c, kind) == Under(c, kind) /\ stmt[c].applied

\* The statement is over, and the client goes on.
Over(c) == stmt' = [stmt EXCEPT ![c] = None]

Expired(r) == r.expires <= now

ApplySelect(c) ==
  /\ Under(c, "select") /\ ~stmt[c].applied
  /\ stmt' = [stmt EXCEPT ![c].applied = TRUE, ![c].row = row[stmt[c].key]]
  /\ UNCHANGED <<row, hot>>

\* By key alone: it takes whatever row is there by then.
ApplyDelete(c) ==
  /\ Under(c, "delete") /\ ~stmt[c].applied
  /\ row' = [row EXCEPT ![stmt[c].key] = None]
  /\ stmt' = [stmt EXCEPT ![c].applied = TRUE]
  /\ UNCHANGED hot

ApplyUpsert(c) ==
  /\ Under(c, "upsert") /\ ~stmt[c].applied
  /\ row' = [row EXCEPT ![stmt[c].key] = stmt[c].row]
  /\ stmt' = [stmt EXCEPT ![c].applied = TRUE]
  /\ UNCHANGED hot

ApplySweep(c) ==
  /\ Under(c, "sweep") /\ ~stmt[c].applied
  /\ row' = [k \in Keys |-> IF row[k] # None /\ Expired(row[k]) THEN None ELSE row[k]]
  /\ stmt' = [stmt EXCEPT ![c].applied = TRUE]
  /\ UNCHANGED hot

Apply(c) == ApplySelect(c) \/ ApplyDelete(c) \/ ApplyUpsert(c) \/ ApplySweep(c)

--------------------------------------------------------------------------------
(* get: the hot layer, then the row; a fresh row is promoted. *)

SendSelect(c, k) == Send(c, "select", k, None)

\* Mutant: a promoted entry starts a TTL of its own.
PromoteAfresh(p, k, r) == HotSet(p, k, r.value, Ttl, now)

\* With what is left of the TTL of the capability, and back-dated.
Promote(p, k, r) == HotSet(p, k, r.value, Ttl - (now - r.created), r.created)

\* The answer of the SELECT was a fresh row.
ReadFresh(c) ==
  /\ Answered(c, "select")
  /\ stmt[c].row # None /\ ~Expired(stmt[c].row)
  /\ Promote(ProcOf[c], stmt[c].key, stmt[c].row)
  /\ Over(c)
  /\ UNCHANGED row

\* It was an expired one: delete it before saying that there is none.
ReadExpired(c) ==
  /\ Answered(c, "select")
  /\ stmt[c].row # None /\ Expired(stmt[c].row)
  /\ Send(c, "delete", stmt[c].key, None)
  /\ UNCHANGED <<row, hot>>

\* A miss: no row, or the expired one is deleted.
ReadNone(c) ==
  /\ \/ Answered(c, "select") /\ stmt[c].row = None
     \/ Answered(c, "delete")
  /\ Over(c)
  /\ UNCHANGED <<row, hot>>

\* A statement of a lookup fails, applied or not.
ReadFails(c) ==
  /\ "store" \in Faults
  /\ Under(c, "select") \/ Under(c, "delete")
  /\ Over(c)
  /\ UNCHANGED <<row, hot>>

--------------------------------------------------------------------------------
(* set: the row, on every Nth write a sweep, then the hot layer. *)

RowOf(v, ttl) == [value |-> v, created |-> now, expires |-> now + ttl]
TtlOf(r) == r.expires - r.created

SendUpsert(c, k, v, ttl) ==
  /\ Send(c, "upsert", k, RowOf(v, ttl))
  /\ UNCHANGED <<row, hot>>

\* The counter of writes is left open: any write may be the Nth.  The row stays with
\* the statement for what follows the sweep.
StartSweep(c) ==
  /\ Answered(c, "upsert")
  /\ Send(c, "sweep", stmt[c].key, stmt[c].row)
  /\ UNCHANGED <<row, hot>>

\* A sweep that fails is swallowed.
SweepOver(c) == Answered(c, "sweep") \/ ("store" \in Faults /\ Under(c, "sweep"))

Written(c) ==
  /\ Answered(c, "upsert") \/ SweepOver(c)
  /\ LET r == stmt[c].row
     IN HotSet(ProcOf[c], stmt[c].key, r.value, TtlOf(r), now)
  /\ Over(c)
  /\ UNCHANGED row

WriteFails(c) ==
  /\ "store" \in Faults
  /\ Under(c, "upsert")
  /\ Over(c)
  /\ UNCHANGED <<row, hot>>
================================================================================
