-------------------------------- MODULE Outbound --------------------------------
(* Three components that call vendors, side by side: a behaviour is one of requests of the
   blockscout adapter, of coalesced calls of the nansen adapter, or of calls of the defillama
   adapter that share documents, by `which`. *)
EXTENDS BlockscoutCall

CONSTANTS
  PaidCalls, Unshared, PaidDeadline,                                  \* Singleflight
  Callers, Asks, Vendors, Slugs, DocDeadline, TTL, MaxDocuments       \* SharedDocuments

VARIABLES
  which,
  inFlight, pc, leaderOf, shared, outcome, receipt,   \* Singleflight
  fetches, held, docPc, ask, uses, stamp              \* SharedDocuments

flightVars == <<inFlight, pc, leaderOf, shared, outcome, receipt>>
docVars == <<fetches, held, docPc, ask, uses, stamp>>

Flight == INSTANCE Singleflight WITH Calls <- PaidCalls, Deadline <- PaidDeadline
Docs == INSTANCE SharedDocuments WITH Deadline <- DocDeadline, pc <- docPc

ASSUME ComponentAssumptions ==
  Flight!FlightAssumption /\ Docs!DocumentsAssumption /\ Docs!AsksAssumption

OutboundInit == which \in {"request", "flight", "document"} /\ Init /\ Flight!Init /\ Docs!Init

OutboundNext ==
  \/ which = "request" /\ Next /\ UNCHANGED <<which, flightVars, docVars>>
  \/ which = "flight" /\ Flight!Next /\ UNCHANGED <<which, storeVars, fetchVars, callVars, docVars>>
  \/ which = "document" /\ Docs!Next /\ UNCHANGED <<which, storeVars, fetchVars, callVars, flightVars>>

OutboundSpec == OutboundInit /\ [][OutboundNext]_<<which, vars, flightVars, docVars>>

\* One payment for the callers that share an answer: see Singleflight.
OnePayment == Flight!OnePayment

\* The age told is the age of the oldest document read: see SharedDocuments.
AgeHonest == Docs!AgeHonest

\* The bound of the documents gives way to those in flight alone, and a fetch that fails fails
\* its own callers and nobody else's document: see SharedDocuments.
DocumentsShared == Docs!OverflowInFlight /\ Docs!FailureIsOwn
================================================================================
