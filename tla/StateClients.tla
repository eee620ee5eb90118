---------------------------- MODULE StateClients ----------------------------
(***************************************************************************)
(* The clients of the state of one process: those of a Postgres store,     *)
(* and the connections to a SQLite file, for the profile that keeps its    *)
(* state there.  They share nothing.                                       *)
(***************************************************************************)
EXTENDS PgStateClient

CONSTANTS LiteCallers,  \* calls of the SQLite connections
          Way(_), Throws(_), OtherProcess   \* as in SqliteStateClient

VARIABLES liteCalls, lines, opened, lock, liteStored
liteVars == <<liteCalls, lines, opened, lock, liteStored>>

Lite == INSTANCE SqliteStateClient WITH Callers <- LiteCallers, calls <- liteCalls, stored <- liteStored

ASSUME LiteAssumption ==
  \A c \in LiteCallers : Way(c) \in {"transaction", "statement", "reserve", "complete", "store"}

ClientsInit == ClientInit /\ Lite!LiteInit

PgStarts(c) == Start(c) \/ FailsReady(c) \/ TooLate(c)
PgGoesOn == \/ \E c \in Callers : LeavesQueue(c) \/ ConnectFails(c) \/ \E k \in Slots : Connects(c, k) \/ TimesOut(c, k)
            \/ \E k \in Slots : \/ Answers(k) \/ Rejects(k) \/ FallsSilent(k)
                                \/ RunsUnheard(k) \/ SpeaksAgain(k) \/ Breaks(k)

ClientsNext == \/ (PgGoesOn \/ \E c \in Callers : PgStarts(c)) /\ UNCHANGED liteVars
               \/ Lite!LiteNext /\ UNCHANGED clientVars
ClientsSpec == ClientsInit /\ [][ClientsNext]_<<clientVars, liteVars>>

\* On either storage, what a caller was told is what the store holds.
StoredAsTold == AllOrNothing /\ Lite!AnsweredIsStored
=============================================================================
