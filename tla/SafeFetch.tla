------------------------------- MODULE SafeFetch -------------------------------
(****************************************************************************)
(* The one way out to vendors (net/safe-fetch.ts): a request is a chain of  *)
(* at most MaxRedirects + 1 hops, each to a host of the allowlist, raced by *)
(* two clocks (the hop's and the deadline of the call), with a cap on the   *)
(* bytes of the answer.  A caller may pass a signal of its own as well, but *)
(* no adapter does.  What follows an await up to the next one is a single   *)
(* step, so a redirect and the checks of the hop it leads to are one.       *)
(* Servers and the runtime's fetch are external.                            *)
(****************************************************************************)
EXTENDS Integers

CONSTANTS
  Fetches,
  Start,          \* fetch -> where it goes first: [host, https]
  Secret,         \* fetches that carry a credential header
  Deadline,       \* fetch -> deadlineAtMs, or None
  Timeout,        \* timeoutMs of a hop
  ConnectBound,   \* what the runtime gives a connection
  MaxRedirects, MaxBytes,
  Allowlist,
  Locations,      \* where a redirect may point: [host, https], or Unparseable
  Lengths,        \* Content-Length of a response, or None
  Chunks,         \* bytes of a piece of a body; NonBinary for one without a size
  Unparseable, NonBinary, None

VARIABLES
  now,
  leg,        \* fetch -> "off", "wire", "reading", "done"
  place,      \* fetch -> currentUrl
  keeps,      \* fetch -> are credentials still among the headers
  followed,   \* fetch -> redirectsFollowed
  hopAt,      \* fetch -> when its hop was issued
  status,     \* fetch -> class of the final response, or None
  seen,       \* fetch -> bytes handed on
  result,     \* fetch -> how it ended, or None
  wire        \* hops issued (history): [fetch, nth, place, credential, at]

fetchVars == <<leg, place, keeps, followed, hopAt, status, seen, result, wire>>

FetchInit ==
  /\ leg = [f \in Fetches |-> "off"]
  /\ place = [f \in Fetches |-> None]
  /\ keeps = [f \in Fetches |-> FALSE]
  /\ followed = [f \in Fetches |-> 0]
  /\ hopAt = [f \in Fetches |-> 0]
  /\ status = [f \in Fetches |-> None]
  /\ seen = [f \in Fetches |-> 0]
  /\ result = [f \in Fetches |-> None]
  /\ wire = {}

Results == {"answer", "insecure", "blocked", "deadline", "timeout", "connect",
            "transport", "tooLarge", "redirects", "badLocation", "unreadable"}

Fails(f, what) ==
  /\ leg' = [leg EXCEPT ![f] = "done"]
  /\ result' = [result EXCEPT ![f] = what]
  /\ UNCHANGED wire

Spent(f) == Deadline[f] # None /\ now >= Deadline[f]

\* assertAllowedHost, by the authority; then the deadline.
Barred(f, to) ==
  CASE to.host \notin Allowlist -> "blocked"
    [] to.host \in Allowlist /\ Spent(f) -> "deadline"
    [] OTHER -> None

Issues(f, nth, to, credential) ==
  /\ leg' = [leg EXCEPT ![f] = "wire"]
  /\ place' = [place EXCEPT ![f] = to]
  /\ keeps' = [keeps EXCEPT ![f] = credential]
  /\ hopAt' = [hopAt EXCEPT ![f] = now]
  /\ wire' = wire \cup {[fetch |-> f, nth |-> nth, place |-> to, credential |-> credential,
                         at |-> now]}
  /\ UNCHANGED result

\* The top of the loop.
Hop(f, nth, to, credential) ==
  \/ /\ Barred(f, to) # None
     /\ Fails(f, Barred(f, to))
     /\ UNCHANGED <<place, keeps, hopAt>>
  \/ /\ Barred(f, to) = None
     /\ Issues(f, nth, to, credential)

Begin(f) ==
  /\ leg[f] = "off"
  /\ \/ /\ ~Start[f].https
        /\ Fails(f, "insecure")
        /\ UNCHANGED <<place, keeps, hopAt>>
     \/ /\ Start[f].https
        /\ Hop(f, 0, Start[f], f \in Secret)
  /\ UNCHANGED <<now, followed, status, seen>>

--------------------------------------------------------------------------------
(* A hop under way: raceWithTimeout.  Whichever comes first decides. *)

Ends(f, what) ==
  /\ Fails(f, what)
  /\ UNCHANGED <<now, place, keeps, followed, hopAt, status, seen>>

\* Mutant: the timer of a hop is cut to what is left of the deadline.
HopTimerClamped(f) ==
  /\ leg[f] = "wire" /\ (now >= hopAt[f] + Timeout \/ Spent(f))
  /\ Ends(f, "timeout")

HopTimerFires(f) == leg[f] = "wire" /\ now >= hopAt[f] + Timeout /\ Ends(f, "timeout")

DeadlineFires(f) == leg[f] = "wire" /\ Spent(f) /\ Ends(f, "deadline")

\* The runtime gives up on the connection, or the request fails for another reason.
RuntimeFails(f) ==
  /\ leg[f] = "wire"
  /\ \/ now >= hopAt[f] + ConnectBound /\ Ends(f, "connect")
     \/ Ends(f, "transport")

Oversized(length) == length # None /\ length > MaxBytes

\* A response without a target: its body is handed on under the cap.
Answers(f, kind) ==
  /\ leg' = [leg EXCEPT ![f] = "reading"]
  /\ status' = [status EXCEPT ![f] = kind]
  /\ UNCHANGED <<now, place, keeps, followed, hopAt, seen, result, wire>>

\* Mutant: only the last host decides whether credentials go along.
RedirectsByTarget(f, to) ==
  /\ followed[f] < MaxRedirects /\ to # Unparseable /\ to.https
  /\ followed' = [followed EXCEPT ![f] = @ + 1]
  /\ Hop(f, followed[f] + 1, to, f \in Secret /\ to.host \in {place[f].host, Start[f].host})
  /\ UNCHANGED <<now, status, seen>>

\* A target on another host loses the credentials for good.
Redirects(f, to) ==
  /\ followed[f] < MaxRedirects /\ to # Unparseable /\ to.https
  /\ followed' = [followed EXCEPT ![f] = @ + 1]
  /\ Hop(f, followed[f] + 1, to, keeps[f] /\ to.host = place[f].host)
  /\ UNCHANGED <<now, status, seen>>

RefusesRedirect(f, to) ==
  \/ followed[f] >= MaxRedirects /\ Ends(f, "redirects")
  \/ followed[f] < MaxRedirects /\ to = Unparseable /\ Ends(f, "badLocation")
  \/ followed[f] < MaxRedirects /\ to # Unparseable /\ ~to.https /\ Ends(f, "insecure")

Responds(f) ==
  /\ leg[f] = "wire"
  /\ \E length \in Lengths :
       \/ Oversized(length) /\ Ends(f, "tooLarge")
       \/ /\ ~Oversized(length)
          /\ \/ \E kind \in {"ok", "degraded", "error"} : Answers(f, kind)
             \/ \E to \in Locations : Redirects(f, to) \/ RefusesRedirect(f, to)

--------------------------------------------------------------------------------
(* The body: capResponseStream. *)

Piece(f) ==
  /\ leg[f] = "reading"
  /\ \E n \in Chunks :
       \/ n = NonBinary /\ Ends(f, "unreadable")
       \/ /\ n # NonBinary /\ seen[f] + n > MaxBytes
          /\ Ends(f, "tooLarge")
       \/ /\ n # NonBinary /\ seen[f] + n <= MaxBytes
          /\ seen' = [seen EXCEPT ![f] = @ + n]
          /\ UNCHANGED <<now, leg, place, keeps, followed, hopAt, status, result,
                         wire>>

EndOfBody(f) == leg[f] = "reading" /\ Ends(f, "answer")

\* The signal of the hop stays with the body: a clock that fires now, or a connection that
\* breaks, is an error of the stream and of none of the classes above.
BodyBreaks(f) == leg[f] = "reading" /\ Ends(f, "unreadable")

--------------------------------------------------------------------------------
(* Properties *)

HopsOf(f) == {h \in wire : h.fetch = f}

\* safeFetch: the error names the clock that ran out and no other: "deadline" says that
\* the budget of the call is spent, "timeout" that one hop had its whole time; and no hop is
\* issued once the budget is spent.
CauseNamed ==
  /\ \A f \in Fetches :
       /\ result[f] = "deadline" => Spent(f)
       /\ result[f] = "timeout" => now >= hopAt[f] + Timeout /\ HopsOf(f) # {}
       /\ result[f] = "redirects" => followed[f] = MaxRedirects
  /\ \A h \in wire : Deadline[h.fetch] # None => h.at < Deadline[h.fetch]

\* safeFetch: whatever servers answer, a request goes only to hosts of the allowlist and
\* over https, and its credential only to the host it was meant for, never again once the
\* chain has left it.
SecretStaysHome ==
  \A h \in wire :
    /\ h.place.host \in Allowlist /\ h.place.https
    /\ h.credential => \A g \in HopsOf(h.fetch) :
         g.nth <= h.nth => g.place.host = Start[h.fetch].host
================================================================================
