------------------------- MODULE SqliteStateClient -------------------------
(***************************************************************************)
(* The connections of one process to its SQLite file: the state client of  *)
(* the engine, the connection of the billing ledger, and the connections   *)
(* of the cache, the budget and the limiter, whose transactions run in one *)
(* turn of the thread.  The driver is synchronous: a statement that waits  *)
(* for the lock of the file holds the only thread, so what waits for a     *)
(* transaction of this process waits in vain, while another process may    *)
(* end its own meanwhile.                                                  *)
(***************************************************************************)
EXTENDS Naturals, Sequences, FiniteSets

CONSTANTS Nil, Callers,
          Way(_),     \* "transaction", "statement": of the engine; "reserve", "complete": of
                      \* the ledger; "store": one turn on a connection of the three stores
          Throws(_),  \* does the body throw after its first write?
          OtherProcess

VARIABLES calls,   \* caller -> where it stands and what it was told
          lines,   \* connection -> the calls that wait for their turn, the first one running
          opened,  \* connection -> the writes of the transaction open on it, or Nil
          lock,    \* who holds the write lock of the file
          stored   \* <<caller, n>>: the durable writes

Connections == {"engine", "ledger"}
On(c) == CASE Way(c) \in {"transaction", "statement"} -> "engine"
           [] Way(c) \in {"reserve", "complete"} -> "ledger"
           [] OTHER -> "stores"
InTransaction(c) == Way(c) \in {"transaction", "reserve"}

LiteInit == /\ calls = [c \in Callers |-> [at |-> "idle", step |-> 0, told |-> Nil]]
            /\ lines = [n \in Connections |-> << >>] /\ opened = [n \in Connections |-> Nil]
            /\ lock = Nil /\ stored = {}

(* A statement that writes gets the lock when its connection has it, when  *)
(* nobody does, or when another process lets go within the wait.           *)
MayWrite(conn) == lock \in {Nil, conn, OtherProcess}
MayBeBusy(conn) == lock \notin {Nil, conn}

Stands(c, at, step, told) == calls' = [calls EXCEPT ![c] = [at |-> at, step |-> step, told |-> told]]
Ends(c, what) == Stands(c, "done", calls[c].step, what)

Queues(c) == Way(c) \in {"transaction", "reserve", "complete"}
Turn(c) == lines[On(c)] # << >> /\ lines[On(c)][1] = c
\* What queued ends at the head of its line, and lets the next one have its turn.
Leaves(c) == lines' = IF Queues(c) THEN [lines EXCEPT ![On(c)] = Tail(@)] ELSE lines

Submits(c) == /\ calls[c].at = "idle" /\ Queues(c)
              /\ calls' = [calls EXCEPT ![c].at = "queued"]
              /\ lines' = [lines EXCEPT ![On(c)] = Append(@, c)]
              /\ UNCHANGED <<opened, lock, stored>>

\* BEGIN takes no lock on the engine's connection; BEGIN IMMEDIATE does, and
\* one that is refused leaves no transaction to roll back.
Begins(c) ==
  /\ calls[c].at = "queued" /\ InTransaction(c) /\ Turn(c) /\ opened[On(c)] = Nil
  /\ Way(c) = "reserve" => MayWrite(On(c))
  /\ Stands(c, "open", 1, calls[c].told)
  /\ opened' = [opened EXCEPT ![On(c)] = {}]
  /\ lock' = IF Way(c) = "reserve" THEN On(c) ELSE lock
  /\ UNCHANGED <<lines, stored>>
BeginRefused(c) ==
  /\ calls[c].at = "queued" /\ InTransaction(c) /\ Turn(c)
  /\ opened[On(c)] # Nil \/ (Way(c) = "reserve" /\ MayBeBusy(On(c)))
  /\ Ends(c, "failed") /\ Leaves(c)
  /\ UNCHANGED <<opened, lock, stored>>

Writes(c) ==
  /\ calls[c].at = "open" /\ calls[c].step <= 2 /\ MayWrite(On(c))
  /\ opened' = [opened EXCEPT ![On(c)] = @ \cup {<<c, calls[c].step>>}]
  /\ lock' = On(c)
  /\ IF Throws(c) /\ calls[c].step = 1 THEN Stands(c, "failing", 1, "refused")
     ELSE Stands(c, "open", calls[c].step + 1, calls[c].told)
  /\ UNCHANGED <<lines, stored>>
\* A write is refused: by the lock, or by a constraint of the table.
WriteRefused(c) ==
  /\ calls[c].at = "open" /\ calls[c].step <= 2
  /\ Stands(c, "failing", calls[c].step, "failed")
  /\ UNCHANGED <<lines, opened, lock, stored>>

Unlocked(conn) == IF lock = conn THEN Nil ELSE lock
Commits(c) ==
  /\ calls[c].at = "open" /\ calls[c].step = 3
  /\ stored' = stored \cup opened[On(c)]
  /\ opened' = [opened EXCEPT ![On(c)] = Nil] /\ lock' = Unlocked(On(c))
  /\ Ends(c, "ok") /\ Leaves(c)
\* A COMMIT that throws is caught like a write that throws, and rolled back.
CommitRefused(c) ==
  /\ calls[c].at = "open" /\ calls[c].step = 3
  /\ Stands(c, "failing", 3, "failed")
  /\ UNCHANGED <<lines, opened, lock, stored>>
RollsBack(c) ==
  /\ calls[c].at = "failing"
  /\ opened' = [opened EXCEPT ![On(c)] = Nil] /\ lock' = Unlocked(On(c))
  /\ Ends(c, calls[c].told) /\ Leaves(c)
  /\ UNCHANGED stored

(* One statement.  It joins the transaction that is open on its connection *)
(* if there is one; otherwise it is a transaction of its own.              *)
Runs(c) == IF Queues(c) THEN calls[c].at = "queued" /\ Turn(c) ELSE calls[c].at = "idle"
Single(c) ==
  /\ Way(c) \in {"statement", "complete"} /\ Runs(c) /\ MayWrite(On(c))
  /\ IF opened[On(c)] = Nil
     THEN stored' = stored \cup {<<c, 1>>} /\ lock' = Nil /\ UNCHANGED opened
     ELSE opened' = [opened EXCEPT ![On(c)] = @ \cup {<<c, 1>>}] /\ lock' = On(c) /\ UNCHANGED stored
  /\ Ends(c, "ok") /\ Leaves(c)
\* It is refused: by the lock, by a constraint, or by the disk.
SingleRefused(c) ==
  /\ Way(c) \in {"statement", "complete"} /\ Runs(c)
  /\ Ends(c, "failed") /\ Leaves(c)
  /\ UNCHANGED <<opened, lock, stored>>

\* The three stores read, compare and write in one turn of the thread.
StoreTurn(c) ==
  /\ Way(c) = "store" /\ calls[c].at = "idle" /\ MayWrite("stores")
  /\ stored' = stored \cup {<<c, 1>>, <<c, 2>>} /\ lock' = Nil
  /\ Ends(c, "ok")
  /\ UNCHANGED <<lines, opened>>
StoreRefused(c) ==
  /\ Way(c) = "store" /\ calls[c].at = "idle"
  /\ Ends(c, "failed")
  /\ UNCHANGED <<lines, opened, lock, stored>>

\* Another process writes to the same file.
OtherLocks == /\ OtherProcess # Nil
              /\ lock' = (IF lock = Nil THEN OtherProcess ELSE Nil) /\ lock \in {Nil, OtherProcess}
              /\ UNCHANGED <<calls, lines, opened, stored>>

LiteNext == \/ OtherLocks
            \/ \E c \in Callers : \/ Submits(c) \/ Begins(c) \/ BeginRefused(c) \/ Writes(c) \/ WriteRefused(c)
                                  \/ Commits(c) \/ CommitRefused(c) \/ RollsBack(c) \/ Single(c) \/ SingleRefused(c)
                                  \/ StoreTurn(c) \/ StoreRefused(c)

(***************************************************************************)
(* Properties                                                              *)
(***************************************************************************)
Kept(c) == {n \in 1..2 : <<c, n>> \in stored}
WritesOf(c) == IF Way(c) \in {"statement", "complete"} THEN {1} ELSE {1, 2}

\* What a call of the ledger, a transaction or a store was told is what the
\* file holds: all of its writes after ok, none of them after a failure.
AnsweredIsStored == \A c \in Callers : Way(c) # "statement" /\ calls[c].at = "done" =>
  Kept(c) = (IF calls[c].told = "ok" THEN WritesOf(c) ELSE {})

=============================================================================
