---------------------------- MODULE OutboundProofs ----------------------------
(****************************************************************************)
(* Proofs about the components of Outbound.                                 *)
(*   Requests of the blockscout adapter: for any servers, redirects and     *)
(* processes, a credential never leaves the host it was meant for, an error *)
(* names the clock that ran out, and what reached a vendor was counted      *)
(* before.                                                                  *)
(*   Identical paid calls: for any calls, keys and deadlines they pay once. *)
(*   Documents that many calls read: for any callers, deadlines and times,  *)
(* an answer tells the age of its oldest document, and a family gives way   *)
(* to its bound by settled documents alone.                                 *)
(****************************************************************************)
EXTENDS Outbound, Sums, SequenceTheorems, TLAPS

--------------------------------------------------------------------------------
(* The way out *)

Legs == {"off", "wire", "reading", "done"}

FetchTypeOK ==
  /\ now \in Times
  /\ leg \in [Requests -> Legs]
  /\ followed \in [Requests -> 0 .. MaxRedirects]
  /\ hopAt \in [Requests -> Nat]
  /\ keeps \in [Requests -> BOOLEAN]
  /\ place = [r \in Requests |-> place[r]]
  /\ result \in [Requests -> Fetch!Results \cup {None}]
  /\ \A h \in wire : h.fetch \in Requests /\ h.nth \in Nat

\* The hops of a request are numbered in their order, and one under way has been issued.
HopsNumbered ==
  /\ \A h \in wire : h.nth <= followed[h.fetch] /\ leg[h.fetch] # "off"
  /\ \A r \in Requests : leg[r] = "wire" => \E h \in wire : h.fetch = r

NotYet ==
  \A r \in Requests :
    /\ leg[r] # "done" => result[r] = None
    /\ leg[r] = "off" => followed[r] = 0

\* A chain that still carries its credential has not left its host.
NeverLeft ==
  \A r \in Requests :
    leg[r] = "wire" /\ keeps[r] =>
      /\ place[r].host = Start[r].host
      /\ \A h \in wire : h.fetch = r => h.place.host = Start[r].host

FetchInv ==
  FetchTypeOK /\ HopsNumbered /\ NotYet /\ NeverLeft /\ CauseNamed /\ SecretStaysHome

LEMMA TimesAreNat == Times \subseteq Nat
  BY ClockAssumption DEF Times

\* What a clock says of a request it goes on saying.
LEMMA CauseStays ==
  ASSUME FetchInv, now' \in Times, now <= now', NEW r \in Requests,
         hopAt'[r] = hopAt[r], wire \subseteq wire'
  PROVE  /\ Fetch!Spent(r) => Fetch!Spent(r)'
         /\ now >= hopAt[r] + Timeout => now' >= hopAt'[r] + Timeout
         /\ Fetch!HopsOf(r) # {} => Fetch!HopsOf(r)' # {}
<1>1. /\ now \in Nat /\ now' \in Nat /\ hopAt[r] \in Nat /\ Timeout \in Nat
      /\ Deadline[r] # None => Deadline[r] \in Nat
  BY TimesAreNat, CallAssumption DEF FetchInv, FetchTypeOK
<1>2. QED
  BY <1>1 DEF Fetch!Spent, Fetch!HopsOf

\* A request ends, at a hop or before one.
LEMMA FailsStep ==
  ASSUME FetchInv, NEW r \in Requests, NEW what \in Fetch!Results, Fetch!Fails(r, what),
         UNCHANGED <<now, place, keeps, hopAt>>,
         followed' \in [Requests -> 0 .. MaxRedirects],
         \A q \in Requests : followed[q] <= followed'[q] /\ (q # r => followed'[q] = followed[q]),
         leg[r] # "done",
         what = "deadline" => Fetch!Spent(r),
         what = "timeout" => now >= hopAt[r] + Timeout /\ leg[r] = "wire",
         what = "redirects" => followed'[r] = MaxRedirects
  PROVE  FetchInv'
<1>1. /\ leg' \in [Requests -> Legs] /\ leg'[r] = "done"
      /\ result' \in [Requests -> Fetch!Results \cup {None}] /\ result'[r] = what
      /\ \A q \in Requests \ {r} : leg'[q] = leg[q] /\ result'[q] = result[q]
      /\ wire' = wire
  BY DEF Fetch!Fails, FetchInv, FetchTypeOK, Legs
<1>2. FetchTypeOK'
  BY <1>1 DEF FetchInv, FetchTypeOK
<1>3. HopsNumbered'
  <2>1. \A h \in wire : h.nth \in Int /\ followed[h.fetch] \in Int /\ followed'[h.fetch] \in Int
    BY CallAssumption DEF FetchInv, FetchTypeOK
  <2>2. QED
    BY <1>1, <2>1 DEF FetchInv, FetchTypeOK, HopsNumbered
<1>4. NeverLeft' /\ NotYet'
  BY <1>1 DEF FetchInv, FetchTypeOK, NeverLeft, NotYet
<1>5. CauseNamed'
  <2>1. ASSUME NEW q \in Requests
        PROVE /\ result'[q] = "deadline" => Fetch!Spent(q)'
              /\ result'[q] = "timeout" => now' >= hopAt'[q] + Timeout /\ Fetch!HopsOf(q)' # {}
              /\ result'[q] = "redirects" => followed'[q] = MaxRedirects
    <3>1. /\ Fetch!Spent(q) => Fetch!Spent(q)'
          /\ Fetch!HopsOf(q) # {} => Fetch!HopsOf(q)' # {}
      BY <1>1 DEF Fetch!Spent, Fetch!HopsOf
    <3>2. CASE q = r
      <4>1. leg[r] = "wire" => Fetch!HopsOf(r) # {}
        BY DEF FetchInv, HopsNumbered, Fetch!HopsOf
      <4>2. QED
        BY <1>1, <3>1, <3>2, <4>1
    <3>3. CASE q # r
      BY <1>1, <3>1, <3>3 DEF FetchInv, CauseNamed, Fetch!CauseNamed
    <3>4. QED
      BY <3>2, <3>3
  <2>2. QED
    BY <1>1, <2>1 DEF FetchInv, CauseNamed, Fetch!CauseNamed
<1>6. SecretStaysHome'
  BY <1>1 DEF FetchInv, SecretStaysHome, Fetch!SecretStaysHome, Fetch!HopsOf
<1>7. QED
  BY <1>2, <1>3, <1>4, <1>5, <1>6 DEF FetchInv

\* A hop is issued, to a host of the list and within the budget.
LEMMA IssuesStep ==
  ASSUME FetchInv, NEW r \in Requests, NEW k \in Nat, NEW to, NEW credential \in BOOLEAN,
         Fetch!Issues(r, k, to, credential), now' = now,
         to.host \in Allowlist, to.https, ~Fetch!Spent(r), leg[r] # "done",
         followed' \in [Requests -> 0 .. MaxRedirects], followed'[r] = k,
         \A q \in Requests : followed[q] <= followed'[q] /\ (q # r => followed'[q] = followed[q]),
         \A h \in wire : h.fetch = r => h.nth < k,
         credential => /\ to.host = Start[r].host
                       /\ \A h \in wire : h.fetch = r => h.place.host = Start[r].host
  PROVE  FetchInv'
<1> DEFINE new == [fetch |-> r, nth |-> k, place |-> to, credential |-> credential, at |-> now]
<1>1. /\ leg' \in [Requests -> Legs] /\ leg'[r] = "wire" /\ result[r] = None
      /\ keeps' \in [Requests -> BOOLEAN] /\ keeps'[r] = credential
      /\ hopAt' \in [Requests -> Nat]
      /\ place' = [q \in Requests |-> place'[q]] /\ place'[r] = to
      /\ \A q \in Requests \ {r} :
           leg'[q] = leg[q] /\ keeps'[q] = keeps[q] /\ hopAt'[q] = hopAt[q] /\ place'[q] = place[q]
      /\ result' = result
  BY TimesAreNat DEF Fetch!Issues, FetchInv, FetchTypeOK, NotYet, Legs
<1>2. wire' = wire \cup {new}
  BY DEF Fetch!Issues
<1>3. /\ new.fetch = r /\ new.nth = k /\ new.place = to /\ new.credential = credential
      /\ new.at = now
  OBVIOUS
<1> HIDE DEF new
<1>4. FetchTypeOK'
  BY <1>1, <1>2, <1>3 DEF FetchInv, FetchTypeOK
<1>5. HopsNumbered'
  <2>1. \A h \in wire : h.nth \in Int /\ followed[h.fetch] \in Int /\ followed'[h.fetch] \in Int
    BY CallAssumption DEF FetchInv, FetchTypeOK
  <2>2. \A h \in wire' : h.nth <= followed'[h.fetch] /\ leg'[h.fetch] # "off"
    BY <1>1, <1>2, <1>3, <2>1 DEF FetchInv, FetchTypeOK, HopsNumbered
  <2>3. \A q \in Requests : leg'[q] = "wire" => \E h \in wire' : h.fetch = q
    BY <1>1, <1>2, <1>3 DEF FetchInv, HopsNumbered
  <2>4. QED
    BY <2>2, <2>3 DEF HopsNumbered
<1>6. NeverLeft'
  <2>1. ASSUME NEW q \in Requests, leg'[q] = "wire", keeps'[q]
        PROVE place'[q].host = Start[q].host /\ \A h \in wire' : h.fetch = q => h.place.host = Start[q].host
    <3>1. CASE q = r
      BY <1>1, <1>2, <1>3, <2>1, <3>1
    <3>2. CASE q # r
      BY <1>1, <1>2, <1>3, <2>1, <3>2 DEF FetchInv, NeverLeft
    <3>3. QED
      BY <3>1, <3>2
  <2>2. QED
    BY <2>1 DEF NeverLeft
<1>7. CauseNamed'
  <2>1. ASSUME NEW q \in Requests
        PROVE /\ result'[q] = "deadline" => Fetch!Spent(q)'
              /\ result'[q] = "timeout" => now' >= hopAt'[q] + Timeout /\ Fetch!HopsOf(q)' # {}
              /\ result'[q] = "redirects" => followed'[q] = MaxRedirects
    <3>1. CASE q = r
      BY <1>1, <3>1, CallAssumption
    <3>2. CASE q # r
      <4>1. /\ Fetch!Spent(q) => Fetch!Spent(q)'
            /\ Fetch!HopsOf(q) # {} => Fetch!HopsOf(q)' # {}
        BY <1>2 DEF Fetch!Spent, Fetch!HopsOf
      <4>2. QED
        BY <1>1, <3>2, <4>1 DEF FetchInv, CauseNamed, Fetch!CauseNamed
    <3>3. QED
      BY <3>1, <3>2
  <2>2. Deadline[r] # None => now < Deadline[r]
    BY TimesAreNat, CallAssumption DEF Fetch!Spent, FetchInv, FetchTypeOK
  <2>3. \A h \in wire' : Deadline[h.fetch] # None => h.at < Deadline[h.fetch]
    BY <1>2, <1>3, <2>2 DEF FetchInv, CauseNamed, Fetch!CauseNamed
  <2>4. QED
    BY <2>1, <2>3 DEF CauseNamed, Fetch!CauseNamed
<1>8. SecretStaysHome'
  <2>1. \A h \in wire : h.fetch = r => h.nth < k /\ h.nth \in Nat
    BY DEF FetchInv, FetchTypeOK
  <2>2. ASSUME NEW h \in wire'
        PROVE /\ h.place.host \in Allowlist /\ h.place.https
              /\ h.credential => \A g \in Fetch!HopsOf(h.fetch)' :
                   g.nth <= h.nth => g.place.host = Start[h.fetch].host
    <3>1. CASE h = new
      BY <1>2, <1>3, <3>1 DEF Fetch!HopsOf
    <3>2. CASE h \in wire
      <4>1. /\ h.place.host \in Allowlist /\ h.place.https
            /\ h.credential => \A g \in Fetch!HopsOf(h.fetch) :
                 g.nth <= h.nth => g.place.host = Start[h.fetch].host
        BY <3>2 DEF FetchInv, SecretStaysHome, Fetch!SecretStaysHome
      <4>2. h.fetch = r => ~(new.nth <= h.nth)
        BY <1>3, <2>1, <3>2
      <4>3. ASSUME h.credential, NEW g \in Fetch!HopsOf(h.fetch)', g.nth <= h.nth
            PROVE g.place.host = Start[h.fetch].host
        BY <1>2, <1>3, <4>1, <4>2, <4>3 DEF Fetch!HopsOf
      <4>4. QED
        BY <4>1, <4>3
    <3>3. QED
      BY <1>2, <3>1, <3>2
  <2>3. QED
    BY <2>2 DEF SecretStaysHome, Fetch!SecretStaysHome
<1>9. NotYet'
  BY <1>1 DEF FetchInv, NotYet
<1>10. QED
  BY <1>4, <1>5, <1>6, <1>7, <1>8, <1>9 DEF FetchInv

LEMMA BeginStep ==
  ASSUME FetchInv, NEW r \in Requests, Fetch!Begin(r)
  PROVE  FetchInv'
<1>1. /\ leg[r] = "off" /\ now' = now /\ followed' = followed /\ followed[r] = 0
  BY DEF Fetch!Begin, FetchInv, NotYet
<1>2. /\ followed' \in [Requests -> 0 .. MaxRedirects]
      /\ \A q \in Requests : followed[q] <= followed'[q] /\ followed'[q] = followed[q]
  BY <1>1, CallAssumption DEF FetchInv, FetchTypeOK
<1>3. \A h \in wire : h.fetch # r
  BY <1>1 DEF FetchInv, HopsNumbered
<1>4. CASE ~Start[r].https
  <2>1. Fetch!Fails(r, "insecure") /\ UNCHANGED <<now, place, keeps, hopAt>>
    BY <1>1, <1>4 DEF Fetch!Begin
  <2>2. QED
    BY <1>1, <1>2, <2>1, FailsStep DEF Fetch!Results
<1>5. CASE Start[r].https
  <2> DEFINE credential == r \in Secret
  <2>1. Fetch!Hop(r, 0, Start[r], credential)
    BY <1>5 DEF Fetch!Begin
  <2>2. CASE Fetch!Barred(r, Start[r]) # None
    <3>1. Fetch!Fails(r, Fetch!Barred(r, Start[r])) /\ UNCHANGED <<now, place, keeps, hopAt>>
      BY <1>1, <2>1, <2>2 DEF Fetch!Hop
    <3>2. \/ Fetch!Barred(r, Start[r]) = "blocked"
          \/ Fetch!Barred(r, Start[r]) = "deadline" /\ Fetch!Spent(r)
      BY <2>2 DEF Fetch!Barred
    <3>3. CASE Fetch!Barred(r, Start[r]) = "blocked"
      BY <1>1, <1>2, <3>1, <3>3, FailsStep DEF Fetch!Results
    <3>4. CASE Fetch!Barred(r, Start[r]) = "deadline" /\ Fetch!Spent(r)
      BY <1>1, <1>2, <3>1, <3>4, FailsStep DEF Fetch!Results
    <3>5. QED
      BY <3>2, <3>3, <3>4
  <2>3. CASE Fetch!Barred(r, Start[r]) = None
    <3>1. Fetch!Issues(r, 0, Start[r], credential)
      BY <2>1, <2>3 DEF Fetch!Hop
    <3>2. Start[r].host \in Allowlist /\ ~Fetch!Spent(r)
      BY <2>3, CallAssumption DEF Fetch!Barred
    <3>3. credential \in BOOLEAN
      OBVIOUS
    <3> HIDE DEF credential
    <3>4. QED
      BY <1>1, <1>2, <1>3, <1>5, <3>1, <3>2, <3>3, IssuesStep
  <2>4. QED
    BY <2>2, <2>3
<1>6. QED
  BY <1>4, <1>5

LEMMA RedirectsStep ==
  ASSUME FetchInv, NEW r \in Requests, NEW to, leg[r] = "wire", Fetch!Redirects(r, to)
  PROVE  FetchInv'
<1> DEFINE credential == keeps[r] /\ to.host = place[r].host
<1>1. /\ followed[r] < MaxRedirects /\ to.https /\ now' = now
      /\ followed' = [followed EXCEPT ![r] = @ + 1]
      /\ Fetch!Hop(r, followed[r] + 1, to, credential)
  BY DEF Fetch!Redirects
<1>2. /\ followed' \in [Requests -> 0 .. MaxRedirects] /\ followed'[r] = followed[r] + 1
      /\ followed[r] + 1 \in Nat
      /\ \A q \in Requests : followed[q] <= followed'[q] /\ (q # r => followed'[q] = followed[q])
  BY <1>1, CallAssumption DEF FetchInv, FetchTypeOK
<1>3. \A h \in wire : h.fetch = r => h.nth < followed[r] + 1
  BY <1>2, CallAssumption DEF FetchInv, FetchTypeOK, HopsNumbered
<1>4. CASE Fetch!Barred(r, to) # None
  <2>1. Fetch!Fails(r, Fetch!Barred(r, to)) /\ UNCHANGED <<now, place, keeps, hopAt>>
    BY <1>1, <1>4 DEF Fetch!Hop
  <2>2. CASE Fetch!Barred(r, to) = "blocked"
    BY <1>2, <2>1, <2>2, FailsStep DEF Fetch!Results
  <2>3. CASE Fetch!Barred(r, to) = "deadline" /\ Fetch!Spent(r)
    BY <1>2, <2>1, <2>3, FailsStep DEF Fetch!Results
  <2>4. QED
    BY <1>4, <2>2, <2>3 DEF Fetch!Barred
<1>5. CASE Fetch!Barred(r, to) = None
  <2>1. Fetch!Issues(r, followed[r] + 1, to, credential)
    BY <1>1, <1>5 DEF Fetch!Hop
  <2>2. to.host \in Allowlist /\ ~Fetch!Spent(r)
    BY <1>5, CallAssumption DEF Fetch!Barred
  <2>3. credential \in BOOLEAN
    OBVIOUS
  <2>4. credential => /\ to.host = Start[r].host
                      /\ \A h \in wire : h.fetch = r => h.place.host = Start[r].host
    BY DEF FetchInv, NeverLeft
  <2> HIDE DEF credential
  <2>5. QED
    BY <1>1, <1>2, <1>3, <2>1, <2>2, <2>3, <2>4, IssuesStep
<1>6. QED
  BY <1>4, <1>5

\* A hop or the body goes on.
LEMMA GoesOnStep ==
  ASSUME FetchInv, NEW r \in Requests,
         \/ Fetch!HopTimerFires(r) \/ Fetch!DeadlineFires(r) \/ Fetch!RuntimeFails(r)
         \/ Fetch!Responds(r) \/ Fetch!Piece(r) \/ Fetch!EndOfBody(r) \/ Fetch!BodyBreaks(r)
  PROVE  FetchInv'
<1>1. ASSUME NEW what \in Fetch!Results, Fetch!Ends(r, what), leg[r] \in {"wire", "reading"},
             what = "deadline" => Fetch!Spent(r),
             what = "timeout" => now >= hopAt[r] + Timeout /\ leg[r] = "wire",
             what = "redirects" => followed[r] = MaxRedirects
      PROVE  FetchInv'
  <2>1. /\ Fetch!Fails(r, what) /\ UNCHANGED <<now, place, keeps, hopAt>> /\ followed' = followed
        /\ leg[r] # "done"
    BY <1>1 DEF Fetch!Ends
  <2>2. /\ followed' \in [Requests -> 0 .. MaxRedirects]
        /\ \A q \in Requests : followed[q] <= followed'[q] /\ followed'[q] = followed[q]
    BY <2>1, CallAssumption DEF FetchInv, FetchTypeOK
  <2>3. QED
    BY <1>1, <2>1, <2>2, FailsStep
<1>2. CASE Fetch!HopTimerFires(r)
  BY <1>1, <1>2 DEF Fetch!HopTimerFires, Fetch!Results
<1>3. CASE Fetch!DeadlineFires(r)
  BY <1>1, <1>3 DEF Fetch!DeadlineFires, Fetch!Results
<1>4. CASE Fetch!RuntimeFails(r)
  BY <1>1, <1>4 DEF Fetch!RuntimeFails, Fetch!Results
<1>5. CASE Fetch!EndOfBody(r) \/ Fetch!BodyBreaks(r)
  BY <1>1, <1>5 DEF Fetch!EndOfBody, Fetch!BodyBreaks, Fetch!Results
<1>6. ASSUME leg' \in [Requests -> Legs], leg'[r] = "reading", leg[r] \in {"wire", "reading"},
             \A q \in Requests \ {r} : leg'[q] = leg[q],
             UNCHANGED <<now, place, keeps, followed, hopAt, result, wire>>
      PROVE  FetchInv'
  <2>1. FetchTypeOK' /\ HopsNumbered'
    BY <1>6 DEF FetchInv, FetchTypeOK, HopsNumbered
  <2>2. NotYet' /\ NeverLeft'
    BY <1>6 DEF FetchInv, NotYet, NeverLeft
  <2>3. CauseNamed' /\ SecretStaysHome'
    BY <1>6 DEF FetchInv, CauseNamed, Fetch!CauseNamed, SecretStaysHome, Fetch!SecretStaysHome,
                Fetch!Spent, Fetch!HopsOf
  <2>4. QED
    BY <2>1, <2>2, <2>3 DEF FetchInv
<1>7. CASE Fetch!Piece(r)
  <2>1. leg[r] = "reading"
    BY <1>7 DEF Fetch!Piece
  <2>2. CASE Fetch!Ends(r, "unreadable") \/ Fetch!Ends(r, "tooLarge")
    BY <1>1, <2>1, <2>2 DEF Fetch!Results
  <2>3. CASE UNCHANGED <<now, leg, place, keeps, followed, hopAt, status, result, wire>>
    BY <1>6, <2>1, <2>3 DEF FetchInv, FetchTypeOK
  <2>4. QED
    BY <1>7, <2>2, <2>3 DEF Fetch!Piece
<1>8. CASE Fetch!Responds(r)
  <2>1. leg[r] = "wire"
    BY <1>8 DEF Fetch!Responds
  <2>2. CASE Fetch!Ends(r, "tooLarge")
    BY <1>1, <2>1, <2>2 DEF Fetch!Results
  <2>3. ASSUME NEW kind, Fetch!Answers(r, kind) PROVE FetchInv'
    <3>1. /\ leg' \in [Requests -> Legs] /\ leg'[r] = "reading"
          /\ \A q \in Requests \ {r} : leg'[q] = leg[q]
          /\ UNCHANGED <<now, place, keeps, followed, hopAt, result, wire>>
      BY <2>3 DEF Fetch!Answers, FetchInv, FetchTypeOK, Legs
    <3>2. QED
      BY <1>6, <2>1, <3>1
  <2>4. ASSUME NEW to, Fetch!Redirects(r, to) PROVE FetchInv'
    BY <2>1, <2>4, RedirectsStep
  <2>5. ASSUME NEW to, Fetch!RefusesRedirect(r, to) PROVE FetchInv'
    <3>1. followed[r] >= MaxRedirects => followed[r] = MaxRedirects
      BY CallAssumption DEF FetchInv, FetchTypeOK
    <3>2. QED
      BY <1>1, <2>1, <2>5, <3>1 DEF Fetch!RefusesRedirect, Fetch!Results
  <2>6. QED
    BY <1>8, <2>2, <2>3, <2>4, <2>5 DEF Fetch!Responds
<1>9. QED
  BY <1>2, <1>3, <1>4, <1>5, <1>7, <1>8

\* Time passes, or a step concerns no hop.
LEMMA AroundFetch ==
  ASSUME FetchInv, now' \in Times, now <= now', UNCHANGED fetchVars
  PROVE  FetchInv'
<1>1. UNCHANGED <<leg, place, keeps, followed, hopAt, result, wire>>
  BY DEF fetchVars
<1>2. FetchTypeOK' /\ HopsNumbered' /\ NotYet' /\ NeverLeft'
  BY <1>1 DEF FetchInv, FetchTypeOK, HopsNumbered, NotYet, NeverLeft
<1>3. ASSUME NEW q \in Requests
      PROVE /\ result'[q] = "deadline" => Fetch!Spent(q)'
            /\ result'[q] = "timeout" => now' >= hopAt'[q] + Timeout /\ Fetch!HopsOf(q)' # {}
            /\ result'[q] = "redirects" => followed'[q] = MaxRedirects
  <2>1. /\ Fetch!Spent(q) => Fetch!Spent(q)'
        /\ now >= hopAt[q] + Timeout => now' >= hopAt'[q] + Timeout
        /\ Fetch!HopsOf(q) # {} => Fetch!HopsOf(q)' # {}
    BY <1>1, CauseStays
  <2>2. QED
    BY <1>1, <2>1 DEF FetchInv, CauseNamed, Fetch!CauseNamed
<1>4. CauseNamed'
  BY <1>1, <1>3 DEF FetchInv, CauseNamed, Fetch!CauseNamed
<1>5. SecretStaysHome'
  BY <1>1 DEF FetchInv, SecretStaysHome, Fetch!SecretStaysHome, Fetch!HopsOf
<1>6. QED
  BY <1>2, <1>4, <1>5 DEF FetchInv

LEMMA InitFetch == Init => FetchInv
<1> SUFFICES ASSUME Init PROVE FetchInv
  OBVIOUS
<1>1. now \in Times
  BY ClockAssumption DEF Init, Times
<1>2. FetchTypeOK /\ HopsNumbered /\ NotYet /\ NeverLeft
  BY <1>1, CallAssumption
     DEF Init, Fetch!FetchInit, FetchTypeOK, HopsNumbered, NotYet, NeverLeft, Legs
<1>3. CauseNamed /\ SecretStaysHome
  BY CallAssumption DEF Init, Fetch!FetchInit, CauseNamed, Fetch!CauseNamed, SecretStaysHome,
                        Fetch!SecretStaysHome
<1>4. QED
  BY <1>2, <1>3 DEF FetchInv

LEMMA NextFetch == FetchInv /\ [Next]_vars => FetchInv'
<1> SUFFICES ASSUME FetchInv, [Next]_vars PROVE FetchInv'
  OBVIOUS
<1>1. now \in Times /\ now \in Nat
  BY TimesAreNat DEF FetchInv, FetchTypeOK
<1>2. ASSUME UNCHANGED fetchVars, now' = now PROVE FetchInv'
  BY <1>1, <1>2, AroundFetch
<1>3. ASSUME NEW r \in Requests,
             \/ AskGate(r) \/ Admitted(r) \/ Exhausted(r) \/ GateUnavailable(r)
             \/ LimiterRefuses(r) \/ Returns(r)
      PROVE  FetchInv'
  BY <1>2, <1>3 DEF AskGate, Admitted, Exhausted, GateUnavailable, LimiterRefuses, Returns
<1>4. ASSUME NEW r \in Requests, SendsRequest(r) PROVE FetchInv'
  BY <1>4, BeginStep DEF SendsRequest
<1>5. ASSUME NEW r \in Requests, FetchGoesOn(r) PROVE FetchInv'
  BY <1>5, GoesOnStep DEF FetchGoesOn
<1>6. CASE Tick
  <2>1. now' \in Times /\ now <= now' /\ UNCHANGED fetchVars
    BY <1>1, <1>6, ClockAssumption DEF Tick, Times
  <2>2. QED
    BY <2>1, AroundFetch
<1>7. CASE UNCHANGED vars
  BY <1>2, <1>7 DEF vars
<1>8. QED
  BY <1>3, <1>4, <1>5, <1>6, <1>7 DEF Next

--------------------------------------------------------------------------------
(* The calls counted *)

Stages == {"idle", "gating", "queued", "fetching", "done"}

\* Requests past the gate, admitted or not, that were asked about on day d.
Past(d) == {r \in Requests : stage[r] \notin {"idle", "gating"} /\ day[r] = d}

CountTypeOK ==
  /\ usage \in [Days -> [credits : Int, calls : Nat]]
  /\ stage \in [Requests -> Stages]
  /\ day \in [Requests -> Days \cup {None}]
  /\ nth \in [Requests -> Nat]
  /\ answer = [r \in Requests |-> answer[r]]
  /\ \A r \in Requests : stage[r] # "idle" => day[r] \in Days

Bounded ==
  \A d \in Days :
    Cardinality(Counted(d)) <= usage[d].calls /\ usage[d].calls <= Cardinality(Past(d))

OnTheWire == \A h \in wire : stage[h.fetch] \in {"fetching", "done"} /\ Passed(h.fetch)

WithinCeiling == \A r \in Requests : Passed(r) => nth[r] \in 1 .. CeilingInForce(ProcOf[r])

CountInv == CountTypeOK /\ Bounded /\ OnTheWire /\ WithinCeiling

LEMMA SetsFinite ==
  ASSUME NEW S \in SUBSET Requests
  PROVE  IsFiniteSet(S) /\ Cardinality(S) \in Nat
  BY FS_Subset, FS_CardinalityType, CallAssumption

LEMMA DaysAreInt == Days \subseteq Int /\ None \notin Days
<1>1. \A t \in Times : t \div DayLength \in Int
  BY ClockAssumption DEF Times
<1>2. QED
  BY <1>1, NoneAssumption DEF Days, Day

\* Every step that the ledger does not see.
LEMMA UncountedStep ==
  ASSUME CountInv, CountTypeOK', NEW r \in Requests, usage' = usage, nth' = nth,
         \A q \in Requests \ {r} : stage'[q] = stage[q] /\ answer'[q] = answer[q],
         \A q \in Requests : stage[q] # "idle" => day'[q] = day[q],
         stage[r] \notin {"idle", "gating"} => stage'[r] \notin {"idle", "gating"},
         Passed(r)' <=> Passed(r),
         \A h \in wire' : h \in wire \/ h.fetch = r,
         stage'[r] \in {"fetching", "done"} \/ wire' = wire,
         wire' # wire => Passed(r)',
         stage[r] \in {"fetching", "done"} => stage'[r] \in {"fetching", "done"},
         \A h \in wire : h.fetch \in Requests
  PROVE  CountInv'
<1>1. \A q \in Requests : Passed(q)' <=> Passed(q)
  <2>1. SUFFICES ASSUME NEW q \in Requests PROVE Passed(q)' <=> Passed(q)
    OBVIOUS
  <2>2. CASE q = r
    BY <2>2, Zenon
  <2>3. CASE q # r
    BY <2>3 DEF Passed
  <2>4. QED
    BY <2>2, <2>3
<1>2. \A q \in Requests : Passed(q) => stage[q] # "idle"
  BY DEF Passed
<1>3. ASSUME NEW d \in Days
      PROVE Cardinality(Counted(d))' <= usage'[d].calls /\ usage'[d].calls <= Cardinality(Past(d))'
  <2>1. Counted(d)' = Counted(d)
    BY <1>1, <1>2 DEF Counted
  <2>2. Past(d) \subseteq Past(d)'
    BY DEF Past
  <2>3. Past(d)' \in SUBSET Requests /\ Past(d) \in SUBSET Requests
    BY DEF Past
  <2>4. Cardinality(Past(d)) <= Cardinality(Past(d)')
    BY <2>2, <2>3, SetsFinite, FS_Subset
  <2>5. /\ Cardinality(Past(d)) \in Nat /\ Cardinality(Past(d)') \in Nat
        /\ usage[d].calls \in Nat
    BY <2>3, SetsFinite DEF CountInv, CountTypeOK
  <2>6. usage[d].calls <= Cardinality(Past(d)) /\ Cardinality(Counted(d)) <= usage[d].calls
    BY DEF CountInv, Bounded
  <2>7. QED
    BY <2>1, <2>4, <2>5, <2>6
<1>4. Bounded'
  BY <1>3 DEF Bounded
<1>5. OnTheWire'
  <2>1. ASSUME NEW h \in wire'
        PROVE stage'[h.fetch] \in {"fetching", "done"} /\ Passed(h.fetch)'
    <3>1. CASE h \in wire
      <4>1. stage[h.fetch] \in {"fetching", "done"} /\ Passed(h.fetch) /\ h.fetch \in Requests
        BY <3>1 DEF CountInv, OnTheWire
      <4>2. stage'[h.fetch] \in {"fetching", "done"}
        BY <4>1
      <4>3. QED
        BY <1>1, <4>1, <4>2
    <3>2. CASE h \notin wire
      BY <2>1, <3>2
    <3>3. QED
      BY <3>1, <3>2
  <2>2. QED
    BY <2>1 DEF OnTheWire
<1>6. WithinCeiling'
  BY <1>1 DEF CountInv, WithinCeiling, CeilingInForce, Smaller
<1>7. QED
  BY <1>4, <1>5, <1>6 DEF CountInv

LEMMA AdmittedStep ==
  ASSUME CountInv, NEW r \in Requests, Admitted(r), \A h \in wire : h.fetch \in Requests
  PROVE  CountInv'
<1> DEFINE d0 == day[r]
           charged == [credits |-> usage[d0].credits + 0, calls |-> usage[d0].calls + 1]
<1>1. /\ stage[r] = "gating" /\ HasCall(r) /\ d0 \in Days
      /\ usage' = [usage EXCEPT ![d0] = charged]
      /\ nth' = [nth EXCEPT ![r] = usage[d0].calls + 1]
      /\ day' = day /\ wire' = wire
  BY DEF Admitted, Reserve, Charge, fetchVars, CountInv, CountTypeOK
<1>2. \/ stage' = [stage EXCEPT ![r] = "queued"] /\ answer' = answer
      \/ stage' = [stage EXCEPT ![r] = "done"] /\ answer' = [answer EXCEPT ![r] = "storeError"]
  BY DEF Admitted, Goes, Ends
<1>3. usage[d0].credits \in Int /\ usage[d0].calls \in Nat
  BY <1>1 DEF CountInv, CountTypeOK
<1>4. charged \in [credits : Int, calls : Nat] /\ charged.calls = usage[d0].calls + 1
  BY <1>3
<1> HIDE DEF charged
<1>5. /\ usage' \in [Days -> [credits : Int, calls : Nat]]
      /\ usage'[d0] = charged /\ \A d \in Days \ {d0} : usage'[d] = usage[d]
  BY <1>1, <1>4 DEF CountInv, CountTypeOK
<1>6. /\ stage' \in [Requests -> Stages] /\ stage'[r] \in {"queued", "done"}
      /\ stage'[r] = "done" => answer'[r] = "storeError"
      /\ \A q \in Requests \ {r} : stage'[q] = stage[q] /\ answer'[q] = answer[q]
      /\ answer' = [q \in Requests |-> answer'[q]]
  BY <1>2 DEF CountInv, CountTypeOK, Stages
<1>7. CountTypeOK'
  <2>1. nth' \in [Requests -> Nat] /\ day' \in [Requests -> Days \cup {None}]
    BY <1>1, <1>3 DEF CountInv, CountTypeOK
  <2>2. \A q \in Requests : stage'[q] # "idle" => day'[q] \in Days
    BY <1>1, <1>6 DEF CountInv, CountTypeOK
  <2>3. QED
    BY <1>5, <1>6, <2>1, <2>2 DEF CountTypeOK
<1>8. /\ ~Passed(r) /\ \A q \in Requests \ {r} : Passed(q)' = Passed(q)
  BY <1>1, <1>6 DEF Passed
<1>9. ASSUME NEW d \in Days
      PROVE Cardinality(Counted(d))' <= usage'[d].calls /\ usage'[d].calls <= Cardinality(Past(d))'
  <2>1. /\ Counted(d) \in SUBSET Requests /\ Past(d) \in SUBSET Requests
        /\ r \notin Past(d) /\ r \notin Counted(d)
    BY <1>1, <1>8 DEF Counted, Past
  <2>2. /\ IsFiniteSet(Counted(d)) /\ Cardinality(Counted(d)) \in Nat
        /\ IsFiniteSet(Past(d)) /\ Cardinality(Past(d)) \in Nat
    BY <2>1, SetsFinite
  <2>3. /\ Cardinality(Counted(d)) <= usage[d].calls /\ usage[d].calls <= Cardinality(Past(d))
        /\ usage[d].calls \in Nat
    BY DEF CountInv, Bounded, CountTypeOK
  <2>4. CASE d = d0
    <3>1. Past(d)' = Past(d) \cup {r}
      BY <1>1, <1>6, <2>4 DEF Past
    <3>2. Cardinality(Past(d) \cup {r}) = Cardinality(Past(d)) + 1
      BY <2>1, <2>2, FS_AddElement
    <3>3. Counted(d)' = Counted(d) \/ Counted(d)' = Counted(d) \cup {r}
      BY <1>1, <1>8 DEF Counted
    <3>4. Cardinality(Counted(d) \cup {r}) = Cardinality(Counted(d)) + 1
      BY <2>1, <2>2, FS_AddElement
    <3>5. usage'[d].calls = usage[d].calls + 1
      BY <1>4, <1>5, <2>4
    <3>6. Cardinality(Past(d)') = Cardinality(Past(d)) + 1
      BY <3>1, <3>2
    <3>7. Cardinality(Counted(d)') <= Cardinality(Counted(d)) + 1
      BY <2>2, <3>3, <3>4
    <3>8. Cardinality(Counted(d)') \in Nat
      BY <2>2, <3>3, <3>4
    <3>9. QED
      BY <2>2, <2>3, <3>5, <3>6, <3>7, <3>8
  <2>5. CASE d # d0
    <3>1. Past(d)' = Past(d) /\ Counted(d)' = Counted(d)
      BY <1>1, <1>6, <1>8, <2>5 DEF Past, Counted
    <3>2. QED
      BY <1>5, <2>3, <2>5, <3>1
  <2>6. QED
    BY <2>4, <2>5
<1>10. OnTheWire'
  <2>1. \A h \in wire : h.fetch \in Requests \ {r}
    BY <1>1 DEF CountInv, OnTheWire
  <2>2. QED
    BY <1>1, <1>6, <1>8, <2>1 DEF CountInv, OnTheWire
<1>11. WithinCeiling'
  <2>1. CeilingInForce(ProcOf[r]) \in Nat
    BY CallAssumption DEF CeilingInForce, Smaller
  <2>2. CeilingInForce(ProcOf[r]) # None
    BY <2>1, NoneAssumption
  <2>3. usage[d0].calls + 1 <= CeilingInForce(ProcOf[r])
    BY <1>1, <2>2 DEF HasCall, Admits, Within
  <2>4. nth'[r] = usage[d0].calls + 1 /\ \A q \in Requests \ {r} : nth'[q] = nth[q]
    BY <1>1 DEF CountInv, CountTypeOK
  <2>5. nth'[r] \in 1 .. CeilingInForce(ProcOf[r])
    BY <1>3, <2>1, <2>3, <2>4
  <2>6. \A q \in Requests : Passed(q)' => nth'[q] \in 1 .. CeilingInForce(ProcOf[q])
    BY <1>8, <2>4, <2>5 DEF CountInv, WithinCeiling
  <2>7. QED
    BY <2>6 DEF WithinCeiling, CeilingInForce, Smaller
<1>12. QED
  BY <1>7, <1>9, <1>10, <1>11 DEF CountInv, Bounded

\* What a hop adds to the wire is of its own request.
LEMMA WireOfOne ==
  ASSUME NEW r, \/ Fetch!Begin(r) \/ Fetch!HopTimerFires(r) \/ Fetch!DeadlineFires(r)
                \/ Fetch!RuntimeFails(r) \/ Fetch!Responds(r) \/ Fetch!Piece(r)
                \/ Fetch!EndOfBody(r) \/ Fetch!BodyBreaks(r)
  PROVE  \A h \in wire' : h \in wire \/ h.fetch = r
<1>1. ASSUME NEW k, NEW to, NEW credential, Fetch!Hop(r, k, to, credential)
      PROVE \A h \in wire' : h \in wire \/ h.fetch = r
  BY <1>1 DEF Fetch!Hop, Fetch!Issues, Fetch!Fails
<1>2. ASSUME NEW what, Fetch!Ends(r, what) PROVE wire' = wire
  BY <1>2 DEF Fetch!Ends, Fetch!Fails
<1>3. CASE Fetch!Begin(r)
  BY <1>1, <1>3 DEF Fetch!Begin, Fetch!Fails
<1>4. CASE Fetch!HopTimerFires(r) \/ Fetch!DeadlineFires(r) \/ Fetch!RuntimeFails(r)
           \/ Fetch!EndOfBody(r) \/ Fetch!BodyBreaks(r)
  BY <1>2, <1>4 DEF Fetch!HopTimerFires, Fetch!DeadlineFires, Fetch!RuntimeFails,
                    Fetch!EndOfBody, Fetch!BodyBreaks
<1>5. CASE Fetch!Piece(r)
  BY <1>2, <1>5 DEF Fetch!Piece
<1>6. CASE Fetch!Responds(r)
  <2>1. ASSUME NEW to, Fetch!Redirects(r, to) PROVE \A h \in wire' : h \in wire \/ h.fetch = r
    BY <1>1, <2>1 DEF Fetch!Redirects
  <2>2. ASSUME NEW to, Fetch!RefusesRedirect(r, to) PROVE wire' = wire
    BY <1>2, <2>2 DEF Fetch!RefusesRedirect
  <2>3. ASSUME NEW kind, Fetch!Answers(r, kind) PROVE wire' = wire
    BY <2>3 DEF Fetch!Answers
  <2>4. QED
    BY <1>2, <1>6, <2>1, <2>2, <2>3 DEF Fetch!Responds
<1>7. QED
  BY <1>3, <1>4, <1>5, <1>6

LEMMA InitCount == Init => CountInv
<1> SUFFICES ASSUME Init PROVE CountInv
  OBVIOUS
<1>1. CountTypeOK
  BY DEF Init, StoreInit, EmptyRow, CountTypeOK, Stages
<1>2. \A r \in Requests : ~Passed(r)
  BY DEF Init, Passed
<1>3. ASSUME NEW d \in Days
      PROVE Cardinality(Counted(d)) <= usage[d].calls /\ usage[d].calls <= Cardinality(Past(d))
  <2>1. Counted(d) = {} /\ usage[d].calls = 0
    BY <1>2 DEF Counted, Init, StoreInit, EmptyRow
  <2>2. Cardinality(Past(d)) \in Nat
    BY SetsFinite DEF Past
  <2>3. QED
    BY <2>1, <2>2, FS_EmptySet
<1>4. OnTheWire /\ WithinCeiling
  BY <1>2 DEF Init, Fetch!FetchInit, OnTheWire, WithinCeiling
<1>5. QED
  BY <1>1, <1>3, <1>4 DEF CountInv, Bounded

LEMMA NextCount == FetchInv /\ FetchInv' /\ CountInv /\ [Next]_vars => CountInv'
<1> SUFFICES ASSUME FetchInv, FetchInv', CountInv, [Next]_vars PROVE CountInv'
  OBVIOUS
<1>1. CountTypeOK /\ now \in Times /\ \A h \in wire : h.fetch \in Requests
  BY DEF CountInv, FetchInv, FetchTypeOK
<1>2. ASSUME NEW r \in Requests, AskGate(r) PROVE CountInv'
  <2>1. /\ stage[r] = "idle" /\ stage' = [stage EXCEPT ![r] = "gating"] /\ answer' = answer
        /\ day' = [day EXCEPT ![r] = Day(now)]
        /\ usage' = usage /\ nth' = nth /\ wire' = wire
    BY <1>2 DEF AskGate, Goes, storeVars, fetchVars
  <2>2. Day(now) \in Days
    BY <1>1 DEF Days
  <2>3. CountTypeOK' /\ stage'[r] = "gating"
    BY <1>1, <2>1, <2>2 DEF CountTypeOK, Stages
  <2>4. Passed(r)' <=> Passed(r)
    BY <2>1, <2>3 DEF Passed
  <2>5. /\ \A q \in Requests \ {r} : stage'[q] = stage[q] /\ answer'[q] = answer[q]
        /\ \A q \in Requests : stage[q] # "idle" => day'[q] = day[q]
    BY <1>1, <2>1 DEF CountTypeOK
  <2>6. QED
    BY <1>1, <2>1, <2>3, <2>4, <2>5, UncountedStep
<1>3. ASSUME NEW r \in Requests, Admitted(r) PROVE CountInv'
  BY <1>1, <1>3, AdmittedStep
<1>4. ASSUME NEW r \in Requests, NEW what, Ends(r, what), stage[r] \in {"gating", "queued", "fetching"},
             stage[r] = "gating" <=> what \in {"ceiling", "gateUnavailable", "storeError"},
             UNCHANGED <<now, storeVars, fetchVars, day, nth>>
      PROVE  CountInv'
  <2>1. /\ stage' = [stage EXCEPT ![r] = "done"] /\ answer' = [answer EXCEPT ![r] = what]
        /\ day' = day /\ usage' = usage /\ nth' = nth /\ wire' = wire
    BY <1>4 DEF Ends, storeVars, fetchVars
  <2>2. CountTypeOK' /\ stage'[r] = "done" /\ answer'[r] = what
    BY <1>1, <1>4, <2>1 DEF CountTypeOK, Stages
  <2>3. Passed(r)' <=> Passed(r)
    BY <1>4, <2>1, <2>2 DEF Passed
  <2>4. \A q \in Requests \ {r} : stage'[q] = stage[q] /\ answer'[q] = answer[q]
    BY <1>1, <2>1 DEF CountTypeOK
  <2>5. QED
    BY <1>1, <2>1, <2>2, <2>3, <2>4, UncountedStep
<1>5. ASSUME NEW r \in Requests, Exhausted(r) \/ GateUnavailable(r) \/ LimiterRefuses(r) PROVE CountInv'
  BY <1>4, <1>5 DEF Exhausted, GateUnavailable, LimiterRefuses
<1>6. ASSUME NEW r \in Requests, Returns(r) PROVE CountInv'
  <2>1. \A how, kind : AnswerOf(how, kind) \notin {"ceiling", "gateUnavailable", "storeError"}
    BY DEF AnswerOf, PassesThrough
  <2>2. /\ stage[r] = "fetching" /\ UNCHANGED <<now, storeVars, fetchVars, day, nth>>
        /\ \E what : Ends(r, what) /\ what \notin {"ceiling", "gateUnavailable", "storeError"}
    BY <1>6, <2>1 DEF Returns
  <2>3. QED
    BY <1>4, <2>2
<1>7. ASSUME NEW r \in Requests, SendsRequest(r) PROVE CountInv'
  <2>1. /\ stage[r] = "queued" /\ stage' = [stage EXCEPT ![r] = "fetching"] /\ answer' = answer
        /\ day' = day /\ usage' = usage /\ nth' = nth
        /\ \A h \in wire' : h \in wire \/ h.fetch = r
    BY <1>7, WireOfOne DEF SendsRequest, Goes, storeVars
  <2>2. CountTypeOK' /\ stage'[r] = "fetching"
    BY <1>1, <2>1 DEF CountTypeOK, Stages
  <2>3. Passed(r)' /\ Passed(r)
    BY <2>1, <2>2 DEF Passed
  <2>4. \A q \in Requests \ {r} : stage'[q] = stage[q] /\ answer'[q] = answer[q]
    BY <1>1, <2>1 DEF CountTypeOK
  <2>5. QED
    BY <1>1, <2>1, <2>2, <2>3, <2>4, UncountedStep
<1>8. ASSUME NEW r \in Requests, FetchGoesOn(r) PROVE CountInv'
  <2>1. /\ stage[r] = "fetching" /\ stage' = stage /\ answer' = answer
        /\ day' = day /\ usage' = usage /\ nth' = nth
        /\ \A h \in wire' : h \in wire \/ h.fetch = r
    BY <1>8, WireOfOne DEF FetchGoesOn, Wants, storeVars, callVars
  <2>2. CountTypeOK'
    BY <1>1, <2>1 DEF CountTypeOK
  <2>3. Passed(r)' /\ Passed(r)
    BY <2>1 DEF Passed
  <2>4. QED
    BY <1>1, <2>1, <2>2, <2>3, UncountedStep
<1>9. CASE Tick \/ UNCHANGED vars
  <2>1. UNCHANGED <<usage, wire, stage, day, nth, answer>>
    BY <1>9 DEF Tick, vars, storeVars, fetchVars, callVars
  <2>2. CountTypeOK' /\ OnTheWire' /\ WithinCeiling'
    BY <2>1 DEF CountInv, CountTypeOK, OnTheWire, WithinCeiling, Passed, CeilingInForce, Smaller
  <2>3. Bounded'
    BY <2>1 DEF CountInv, Bounded, Counted, Past, Passed
  <2>4. QED
    BY <2>2, <2>3 DEF CountInv
<1>10. QED
  BY <1>2, <1>3, <1>5, <1>6, <1>7, <1>8, <1>9 DEF Next

LEMMA CountFollows == FetchInv /\ CountInv => CallsCounted
<1> SUFFICES ASSUME FetchInv, CountInv PROVE CallsCounted
  OBVIOUS
<1>1. ASSUME NEW h \in wire PROVE day[h.fetch] # None /\ h.fetch \in Counted(day[h.fetch])
  <2>1. h.fetch \in Requests /\ Passed(h.fetch) /\ stage[h.fetch] # "idle"
    BY DEF FetchInv, FetchTypeOK, CountInv, OnTheWire
  <2>2. QED
    BY <2>1, DaysAreInt DEF CountInv, CountTypeOK, Counted
<1>2. ASSUME NEW d \in Days
      PROVE /\ Cardinality(Counted(d)) <= usage[d].calls
            /\ usage[d].calls <= Cardinality({r \in Requests : day[r] = d})
  <2>1. Past(d) \in SUBSET {r \in Requests : day[r] = d}
    BY DEF Past
  <2>2. {r \in Requests : day[r] = d} \in SUBSET Requests /\ Past(d) \in SUBSET Requests
    BY DEF Past
  <2>3. Cardinality(Past(d)) <= Cardinality({r \in Requests : day[r] = d})
    BY <2>1, <2>2, SetsFinite, FS_Subset
  <2>4. /\ Cardinality(Past(d)) \in Nat /\ Cardinality({r \in Requests : day[r] = d}) \in Nat
        /\ usage[d].calls \in Nat
    BY <2>2, SetsFinite DEF CountInv, CountTypeOK
  <2>5. QED
    BY <2>3, <2>4 DEF CountInv, Bounded
<1>3. QED
  BY <1>1, <1>2 DEF CountInv, WithinCeiling, CallsCounted

--------------------------------------------------------------------------------
(* Identical paid calls *)

\* OnePayment is not inductive: an entry must also be of the key it is held under, and who
\* follows must follow a call.
EntriesKeyed ==
  /\ \A k \in Flight!Keys : inFlight[k] # None => Flight!KeyOf(inFlight[k]) = k
  /\ \A c \in PaidCalls : pc[c] = "following" => leaderOf[c] \in PaidCalls

FlightInv == Flight!TypeOK /\ OnePayment /\ EntriesKeyed

LEMMA InitFlight ==
  ASSUME Flight!FlightAssumption, Flight!Init
  PROVE  FlightInv
  BY
     DEF Flight!FlightAssumption, FlightInv, Flight!Init, Flight!TypeOK, OnePayment,
         Flight!OnePayment, EntriesKeyed, Flight!Running, Flight!Keys, Flight!KeyOf, Flight!Shared

\* A leader settles: its entry goes, and with it whoever followed it.
LEMMA SettlesStep ==
  ASSUME Flight!FlightAssumption, FlightInv, NEW l \in PaidCalls, Flight!Running(l),
         NEW what \in {"value", "error"},
         inFlight' = [inFlight EXCEPT ![Flight!KeyOf(l)] = None], Flight!Settles(l, what)
  PROVE  FlightInv'
<1> DEFINE done == Flight!Followers(l) \cup {l}
<1>1. /\ pc' = [c \in PaidCalls |-> IF c \in done THEN "done" ELSE pc[c]]
      /\ outcome' = [c \in PaidCalls |-> IF c \in done THEN what ELSE outcome[c]]
      /\ receipt' = [c \in PaidCalls |-> IF c \in Flight!Followers(l) THEN Flight!Receipt(l) ELSE receipt[c]]
      /\ UNCHANGED <<now, leaderOf, shared>>
  BY DEF Flight!Settles
<1>2. Flight!TypeOK'
  BY <1>1 DEF Flight!FlightAssumption, FlightInv, Flight!TypeOK, Flight!Receipt, Flight!Keys
<1>3. inFlight[Flight!KeyOf(l)] = l /\ Flight!KeyOf(l) \in Flight!Keys
  BY DEF FlightInv, OnePayment, Flight!OnePayment, Flight!Keys, Flight!KeyOf
<1>4. ASSUME NEW k \in Flight!Keys, NEW c \in PaidCalls, Flight!KeyOf(c) = k
      PROVE  Flight!Running(c)' <=> inFlight'[k] = c
  <2>1. CASE c \in done
    <3>1. ~Flight!Running(c)'
      BY <1>1, <2>1 DEF Flight!Running
    <3>2. ~Flight!Running(c) \/ c = l
      BY <2>1 DEF Flight!Followers, Flight!Running
    <3>3. inFlight'[k] # c
      BY <1>3, <1>4, <3>2
         DEF Flight!FlightAssumption, FlightInv, OnePayment, Flight!OnePayment, Flight!TypeOK
    <3>4. QED
      BY <3>1, <3>3
  <2>2. CASE c \notin done
    <3>1. pc'[c] = pc[c] /\ c # l
      BY <1>1, <2>2
    <3>2. inFlight'[k] = c <=> inFlight[k] = c
      BY <1>3, <1>4, <3>1 DEF Flight!FlightAssumption, FlightInv, Flight!TypeOK
    <3>3. QED
      BY <1>4, <3>1, <3>2 DEF FlightInv, OnePayment, Flight!OnePayment, Flight!Running
  <2>3. QED
    BY <2>1, <2>2
<1>5. ASSUME NEW c \in PaidCalls, pc'[c] = "following"
      PROVE  (Flight!Running(leaderOf[c]) /\ Flight!KeyOf(leaderOf[c]) = Flight!KeyOf(c) /\ leaderOf[c] # c)'
  <2>1. c \notin done /\ pc[c] = "following"
    BY <1>1, <1>5
  <2>2. Flight!Running(leaderOf[c]) /\ Flight!KeyOf(leaderOf[c]) = Flight!KeyOf(c) /\ leaderOf[c] # c
    BY <2>1 DEF FlightInv, OnePayment, Flight!OnePayment
  <2>3. leaderOf[c] \in PaidCalls
    BY <2>1 DEF FlightInv, EntriesKeyed
  <2>4. leaderOf[c] \notin done
    BY <2>1, <2>2 DEF Flight!Followers, Flight!Running
  <2>5. QED
    BY <1>1, <2>2, <2>3, <2>4 DEF Flight!Running
<1>6. EntriesKeyed'
  BY <1>1, <1>3 DEF FlightInv, EntriesKeyed, Flight!TypeOK
<1>7. QED
  BY <1>2, <1>4, <1>5, <1>6 DEF FlightInv, OnePayment, Flight!OnePayment

\* A step that leaves every entry, every leader and who runs or follows as they are.
LEMMA Unmoved ==
  ASSUME FlightInv, Flight!TypeOK', UNCHANGED <<inFlight, leaderOf>>,
         \A d : (Flight!Running(d)' <=> Flight!Running(d)) /\ (pc'[d] = "following" => pc[d] = "following")
  PROVE  FlightInv'
  BY DEF FlightInv, OnePayment, Flight!OnePayment, EntriesKeyed

LEMMA NextFlight ==
  ASSUME Flight!FlightAssumption, FlightInv, [Flight!Next]_(Flight!vars)
  PROVE  FlightInv'
<1>1. ASSUME NEW c \in PaidCalls, Flight!Lead(c)
      PROVE  FlightInv'
  <2>1. Flight!KeyOf(c) \in Flight!Keys /\ inFlight[Flight!KeyOf(c)] = None
    BY <1>1 DEF Flight!Lead, Flight!Keys, Flight!KeyOf
  <2>2. Flight!TypeOK' /\ EntriesKeyed'
    BY <1>1, <2>1 DEF Flight!Lead, FlightInv, Flight!TypeOK, EntriesKeyed
  <2>3. ASSUME NEW k \in Flight!Keys, NEW d \in PaidCalls, Flight!KeyOf(d) = k
        PROVE  Flight!Running(d)' <=> inFlight'[k] = d
    BY <1>1, <2>1, <2>3
       DEF Flight!Lead, FlightInv, Flight!TypeOK, OnePayment, Flight!OnePayment, Flight!Running,
           Flight!FlightAssumption
  <2>4. ASSUME NEW d \in PaidCalls, pc'[d] = "following"
        PROVE  (Flight!Running(leaderOf[d]) /\ Flight!KeyOf(leaderOf[d]) = Flight!KeyOf(d) /\ leaderOf[d] # d)'
    <3>1. d # c /\ pc[d] = "following" /\ leaderOf'[d] = leaderOf[d]
      BY <1>1, <2>4 DEF Flight!Lead, FlightInv, Flight!TypeOK
    <3>2. Flight!Running(leaderOf[d]) /\ Flight!KeyOf(leaderOf[d]) = Flight!KeyOf(d) /\ leaderOf[d] # d
      BY <3>1 DEF FlightInv, OnePayment, Flight!OnePayment
    <3>3. leaderOf[d] # c
      BY <1>1, <3>2 DEF Flight!Lead, Flight!Running
    <3>4. QED
      BY <1>1, <3>1, <3>2, <3>3 DEF Flight!Lead, FlightInv, Flight!TypeOK, Flight!Running
  <2>5. QED
    BY <2>2, <2>3, <2>4 DEF FlightInv, OnePayment, Flight!OnePayment
<1>2. ASSUME NEW c \in PaidCalls, Flight!Follow(c)
      PROVE  FlightInv'
  <2> DEFINE l == inFlight[Flight!KeyOf(c)]
  <2>1. /\ Flight!KeyOf(c) \in Flight!Keys /\ l \in PaidCalls /\ pc[c] = "idle"
        /\ leaderOf' = [leaderOf EXCEPT ![c] = l] /\ inFlight' = inFlight
        /\ \E where \in {"following", "done"} : pc' = [pc EXCEPT ![c] = where]
    BY <1>2 DEF Flight!Follow, Flight!Keys, Flight!KeyOf, FlightInv, Flight!TypeOK
  <2>2. Flight!TypeOK'
    BY <1>2, <2>1 DEF Flight!Follow, FlightInv, Flight!TypeOK, Flight!Receipt
  <2>3. \A d : Flight!Running(d)' <=> Flight!Running(d)
    BY <2>1 DEF FlightInv, Flight!TypeOK, Flight!Running
  <2>4. Flight!KeyOf(l) = Flight!KeyOf(c)
    BY <2>1, Flight!FlightAssumption DEF FlightInv, EntriesKeyed, Flight!FlightAssumption
  <2>5. Flight!Running(l) /\ l # c
    BY <2>1, <2>4 DEF FlightInv, OnePayment, Flight!OnePayment, Flight!Running
  <2>6. ASSUME NEW d \in PaidCalls, pc'[d] = "following"
        PROVE  (Flight!Running(leaderOf[d]) /\ Flight!KeyOf(leaderOf[d]) = Flight!KeyOf(d) /\ leaderOf[d] # d /\ leaderOf[d] \in PaidCalls)'
    <3>1. CASE d = c
      BY <2>1, <2>3, <2>4, <2>5, <3>1 DEF FlightInv, Flight!TypeOK
    <3>2. CASE d # c
      <4>1. pc[d] = "following" /\ leaderOf'[d] = leaderOf[d]
        BY <2>1, <2>6, <3>2 DEF FlightInv, Flight!TypeOK
      <4>2. QED
        BY <2>3, <4>1 DEF FlightInv, OnePayment, Flight!OnePayment, EntriesKeyed
    <3>3. QED
      BY <3>1, <3>2
  <2>7. QED
    BY <2>1, <2>2, <2>3, <2>6 DEF FlightInv, OnePayment, Flight!OnePayment, EntriesKeyed
<1>3. ASSUME NEW c \in PaidCalls, Flight!Reserve(c)
      PROVE  FlightInv'
  <2>1. Flight!TypeOK'
    BY <1>3 DEF Flight!Reserve, FlightInv, Flight!TypeOK
  <2>2. \A d : (Flight!Running(d)' <=> Flight!Running(d)) /\ (pc'[d] = "following" => pc[d] = "following")
    BY <1>3 DEF Flight!Reserve, FlightInv, Flight!TypeOK, Flight!Running
  <2>3. QED
    BY <1>3, <2>1, <2>2, Unmoved DEF Flight!Reserve
<1>4. ASSUME NEW c \in PaidCalls, Flight!Refuse(c) \/ Flight!Answer(c) \/ Flight!Fail(c)
      PROVE  FlightInv'
  BY <1>4, SettlesStep DEF Flight!Refuse, Flight!Answer, Flight!Fail, Flight!Running
<1>5. ASSUME NEW c \in PaidCalls, Flight!GiveUp(c)
      PROVE  FlightInv'
  <2>1. Flight!TypeOK'
    BY <1>5 DEF Flight!GiveUp, FlightInv, Flight!TypeOK, Flight!Receipt
  <2>2. \A d : (Flight!Running(d)' <=> Flight!Running(d)) /\ (pc'[d] = "following" => pc[d] = "following")
    BY <1>5 DEF Flight!GiveUp, FlightInv, Flight!TypeOK, Flight!Running
  <2>3. QED
    BY <1>5, <2>1, <2>2, Unmoved DEF Flight!GiveUp
<1>6. CASE Flight!Tick
  BY <1>6
     DEF Flight!Tick, FlightInv, Flight!TypeOK, OnePayment, Flight!OnePayment, EntriesKeyed,
         Flight!Running
<1>7. CASE UNCHANGED Flight!vars
  BY <1>7
     DEF Flight!vars, FlightInv, Flight!TypeOK, OnePayment, Flight!OnePayment, EntriesKeyed,
         Flight!Running
<1>8. QED
  BY <1>1, <1>2, <1>3, <1>4, <1>5, <1>6, <1>7 DEF Flight!Next

\* singleflight.ts: in every behaviour, for every set of calls, keys and deadlines, the calls of
\* a key that is in flight pay once, and a follower waits only for a leader that still runs.
THEOREM PaidOnce == Flight!Spec => []OnePayment
<1>1. Flight!Init => FlightInv
  BY InitFlight, ComponentAssumptions
<1>2. FlightInv /\ [Flight!Next]_(Flight!vars) => FlightInv'
  BY NextFlight, ComponentAssumptions
<1>3. FlightInv => OnePayment
  BY DEF FlightInv
<1>4. QED
  BY <1>1, <1>2, <1>3, PTL DEF Flight!Spec

--------------------------------------------------------------------------------
(* Documents that many calls read *)

Places == {"idle", "waiting", "asking", "answered", "failed", "late"}
DocSet == [family : Docs!Families, vendor : Vendors \cup {None}, chart : BOOLEAN]
Fetches ==
  [doc : DocSet, at : Nat, seen : Nat \cup {None}, state : {"flying", "ok", "failed"}]

DocsTyped ==
  /\ now \in Nat
  /\ fetches \in Seq(Fetches)
  /\ held \in [Docs!Families -> SUBSET DOMAIN fetches]
  /\ docPc \in [Callers -> Places]
  /\ ask = [c \in Callers |-> ask[c]]
  /\ uses \in [Callers -> SUBSET DOMAIN fetches]
  /\ stamp = [c \in Callers |-> stamp[c]]

\* No fetch is dated after the clock, nor after its answer.
Dated(i) ==
  /\ fetches[i].at <= now
  /\ fetches[i].state = "ok" => fetches[i].seen \in Nat /\ fetches[i].at <= fetches[i].seen

\* What a call reads was young when the call came, and is there once the call goes on.
ReadsYoung(c) ==
  docPc[c] \in {"waiting", "asking", "answered"} =>
    /\ ask[c].at \in Nat
    /\ \A i \in uses[c] : ask[c].at - fetches[i].at < TTL[fetches[i].doc.family]
ReadsSettled(c) ==
  docPc[c] \in {"asking", "answered"} =>
    \A i \in uses[c] : fetches[i].state = "ok" /\ stamp[c] <= fetches[i].at

DocsInv ==
  /\ DocsTyped
  /\ \A i \in DOMAIN fetches : Dated(i)
  /\ \A c \in Callers : ReadsYoung(c) /\ ReadsSettled(c)

LEMMA FetchesKnown ==
  ASSUME DocsTyped, NEW i \in DOMAIN fetches
  PROVE  fetches[i] \in Fetches /\ fetches[i].at \in Nat
<1>1. fetches[i] \in Fetches
  BY DEF DocsTyped
<1> QED  BY <1>1 DEF Fetches

LEMMA CountedFinite ==
  ASSUME NEW n \in Nat
  PROVE  IsFiniteSet(1 .. n)
<1>1. 1 \in Int /\ n \in Int
  OBVIOUS
<1> QED  BY <1>1, FS_Interval

LEMMA SameCount == \A S : Docs!Cardinality(S) = Cardinality(S)
  BY DEF Docs!Cardinality, Cardinality

LEMMA SetListed ==
  ASSUME NEW S, IsFiniteSet(S)
  PROVE  /\ Docs!SetToSeq(S) \in Seq(S)
         /\ Docs!Range(Docs!SetToSeq(S)) = S
<1>1. Cardinality(S) \in Nat /\ ExistsBijection(1 .. Cardinality(S), S)
  BY FS_CardinalityType
<1>2. PICK f : f \in Bijection(1 .. Cardinality(S), S)
  BY <1>1 DEF ExistsBijection
<1>3. f \in [1 .. Cardinality(S) -> S] /\ Docs!IsInjective(f)
  BY <1>2 DEF Bijection, Injection, IsInjective, Docs!IsInjective
<1> DEFINE q == Docs!SetToSeq(S)
<1>4. q \in [1 .. Cardinality(S) -> S] /\ Docs!IsInjective(q)
  BY <1>3, SameCount DEF Docs!SetToSeq
<1> HIDE DEF q
<1>5. q \in Injection(1 .. Cardinality(S), S)
  BY <1>4 DEF Injection, IsInjective, Docs!IsInjective
<1>6. IsFiniteSet(1 .. Cardinality(S)) /\ Cardinality(1 .. Cardinality(S)) = Cardinality(S)
  BY <1>1, FS_Interval
<1>7. q \in Surjection(1 .. Cardinality(S), S)
  BY <1>5, <1>6, FS_Injection
<1>8. Docs!Range(q) = S
  BY <1>4, <1>7 DEF Surjection, Docs!Range
<1>9. q \in Seq(S)
  BY <1>1, <1>4
<1> QED  BY <1>8, <1>9 DEF q

LEMMA LeastOf ==
  ASSUME NEW S \in SUBSET Nat, S # {}
  PROVE  Docs!Min(S) \in S /\ \A m \in S : Docs!Min(S) <= m
BY LeastNumber DEF Docs!Min

LEMMA DocumentsKnown ==
  ASSUME Docs!DocumentsAssumption, NEW r \in Docs!RequestsOf
  PROVE  Docs!DocumentsOf(r) \subseteq DocSet /\ IsFiniteSet(Docs!DocumentsOf(r))
<1>1. /\ \A x : IsFiniteSet({x})
      /\ \A x, y : IsFiniteSet({x, y})
      /\ IsFiniteSet({})
  <2>1. \A x : IsFiniteSet({x})
    BY FS_Singleton
  <2>2. ASSUME NEW x, NEW y PROVE IsFiniteSet({x, y})
    <3>1. IsFiniteSet({x})
      BY <2>1
    <3>2. IsFiniteSet({x} \cup {y})
      BY <3>1, FS_AddElement, Zenon
    <3>3. {x, y} = {x} \cup {y}
      BY Zenon
    <3> QED  BY <3>2, <3>3, Zenon
  <2> QED  BY <2>1, <2>2, FS_EmptySet
<1>2. CASE r \in [cap : {"dex.volume.history"}, vendor : Vendors, chart : BOOLEAN]
  <2>1. Docs!DocumentsOf(r) = {Docs!Doc("dex", r.vendor, r.chart)}
    BY <1>2 DEF Docs!DocumentsOf
  <2>2. Docs!Doc("dex", r.vendor, r.chart) \in DocSet
    BY <1>2 DEF Docs!Doc, DocSet, Docs!Families, Docs!Bounded
  <2> QED  BY <1>1, <2>1, <2>2
<1>3. CASE r \in [cap : {"chain.tvl.history"}, vendor : Vendors]
  <2>1. Docs!DocumentsOf(r) = {Docs!Doc("history", r.vendor, FALSE)}
    BY <1>3 DEF Docs!DocumentsOf
  <2>2. Docs!Doc("history", r.vendor, FALSE) \in DocSet
    BY <1>3 DEF Docs!Doc, DocSet, Docs!Families, Docs!Bounded
  <2> QED  BY <1>1, <2>1, <2>2
<1>4. CASE r \in [cap : {"chain.tvl", "protocol.list", "protocol.incidents", "protocol.tvl.history"}]
  <2>1. Docs!DocumentsOf(r) \in
          {{Docs!Single("chains")}, {Docs!Single("protocols"), Docs!Single("lite")},
           {Docs!Single("protocols"), Docs!Single("hacks")}, {}}
    BY <1>4 DEF Docs!DocumentsOf
  <2>2. \A f \in Docs!Singles : Docs!Single(f) \in DocSet
    BY DEF Docs!Single, Docs!Doc, DocSet, Docs!Families
  <2> QED  BY <1>1, <2>1, <2>2 DEF Docs!Singles
<1>5. CASE r \in [cap : {"protocol.tvl"}, slug : DOMAIN Slugs]
  <2>1. Docs!DocumentsOf(r) = {Docs!Single("protocols")}
    BY <1>5 DEF Docs!DocumentsOf
  <2>2. Docs!Single("protocols") \in DocSet
    BY DEF Docs!Single, Docs!Doc, DocSet, Docs!Families, Docs!Singles
  <2> QED  BY <1>1, <2>1, <2>2
<1> QED  BY <1>2, <1>3, <1>4, <1>5 DEF Docs!RequestsOf

\* Where a settled document of S is spared, the room for one more is there.
LEMMA RoomIsMade ==
  ASSUME Docs!DocumentsAssumption, NEW S \in SUBSET Nat, IsFiniteSet(S),
         NEW i \in Docs!Room(S), Docs!Settled(i)
  PROVE  Cardinality(Docs!Room(S)) + 1 <= MaxDocuments
<1> DEFINE n == Cardinality(S) + 1 - MaxDocuments
           T == {j \in S : Docs!Settled(j)}
           upTo(k) == {j \in S : j <= k /\ Docs!Settled(j)}
           gone == Docs!Evicted(S, n)
<1>1. Cardinality(S) \in Nat /\ MaxDocuments \in Nat /\ n \in Int
  BY FS_CardinalityType DEF Docs!DocumentsAssumption
<1>2. \A k : IsFiniteSet(upTo(k)) /\ Cardinality(upTo(k)) \in Nat
  BY FS_Subset, FS_CardinalityType
<1>3. gone = {k \in T : Cardinality(upTo(k)) <= n}
  BY SameCount DEF Docs!Evicted
<1>4. Docs!Room(S) = S \ gone
  BY SameCount DEF Docs!Room
<1> HIDE DEF gone
<1>5. IsFiniteSet(gone) /\ Cardinality(gone) \in Nat
      /\ Cardinality(S \ gone) = Cardinality(S) - Cardinality(gone)
  <2>1. S \cap gone = gone /\ gone \in SUBSET S
    BY <1>3
  <2>2. IsFiniteSet(gone)
    BY <2>1, FS_Subset, Zenon
  <2>3. Cardinality(gone) \in Nat
    BY <2>2, FS_CardinalityType, Zenon
  <2>4. Cardinality(S \ gone) = Cardinality(S) - Cardinality(S \cap gone)
    BY FS_Difference, Zenon
  <2> QED  BY <2>1, <2>2, <2>3, <2>4
<1>6. Cardinality(gone) >= n
  <2> DEFINE spared == {k \in T : ~(Cardinality(upTo(k)) <= n)}
  <2>1. spared \in SUBSET Nat /\ i \in spared
    BY <1>3, <1>4
  <2>2. PICK k \in spared : \A m \in spared : k <= m
    BY <2>1, LeastNumber
  <2>3. k \in Nat /\ upTo(k) \ {k} \subseteq gone
    BY <1>3, <2>1, <2>2
  <2>4. Cardinality(upTo(k) \ {k}) = Cardinality(upTo(k)) - 1
    <3>1. k \in upTo(k)
      BY <2>2, <2>3
    <3> HIDE DEF upTo
    <3> QED  BY <1>2, <3>1, FS_RemoveElement
  <2>5. Cardinality(upTo(k) \ {k}) <= Cardinality(gone)
    BY <1>5, <2>3, FS_Subset
  <2>6. Cardinality(upTo(k)) \in Nat /\ ~(Cardinality(upTo(k)) <= n)
    BY <1>2, <2>2
  <2> HIDE DEF upTo, n, spared
  <2> QED  BY <1>1, <1>5, <2>4, <2>5, <2>6
<1> QED  BY <1>1, <1>4, <1>5, <1>6

--------------------------------------------------------------------------------
LEMMA InitDocs ==
  ASSUME Docs!Init PROVE DocsInv
BY DEF Docs!Init, DocsInv, DocsTyped, Places, Dated, ReadsYoung, ReadsSettled

\* What a call begins: its fetches are appended, each a young one of a document it reads.
LEMMA BeginAppends ==
  ASSUME Docs!DocumentsAssumption, DocsInv, NEW c \in Callers, NEW r \in Docs!RequestsOf,
         Docs!Begin(c, r)
  PROVE  /\ fetches' \in Seq(Fetches)
         /\ Len(fetches) <= Len(fetches')
         /\ \A i \in DOMAIN fetches : fetches'[i] = fetches[i]
         /\ \A i \in DOMAIN fetches' \ DOMAIN fetches :
              fetches'[i].at = now /\ fetches'[i].state = "flying" /\ fetches'[i].doc \in DocSet
         /\ \A f \in Docs!Families :
              held'[f] # held[f] =>
                \E d \in DocSet, i \in DOMAIN fetches' \ DOMAIN fetches :
                  d.family = f /\ held'[f] = Docs!Inserted(d, i)
         /\ docPc'[c] \in {"waiting", "asking", "answered"} =>
              \A i \in uses'[c] :
                \/ i \in DOMAIN fetches' \ DOMAIN fetches
                \/ i \in DOMAIN fetches /\ Docs!Fresh(i)
         /\ docPc'[c] = "asking" => uses'[c] = {}
<1> DEFINE docs == Docs!DocumentsOf(r)
           new == {d \in docs : Docs!Reusable(d) = {}}
           start == Docs!SetToSeq(new)
           id(d) == Len(fetches) + CHOOSE k \in DOMAIN start : start[k] = d
           more == [k \in DOMAIN start |-> Docs!Flying(start[k])]
<1>1. docs \subseteq DocSet /\ IsFiniteSet(new)
  BY DocumentsKnown, FS_Subset
<1>2. /\ start \in Seq(new) /\ Docs!Range(start) = new
      /\ Len(start) \in Nat /\ DOMAIN start = 1 .. Len(start)
      /\ \A k \in DOMAIN start : start[k] \in new
  <2>1. start \in Seq(new) /\ Docs!Range(start) = new
    BY <1>1, SetListed
  <2> HIDE DEF start, new
  <2> QED  BY <2>1
<1>3. /\ fetches \in Seq(Fetches) /\ fetches' = fetches \o more
      /\ Len(fetches) \in Nat /\ DOMAIN fetches = 1 .. Len(fetches)
  BY DEF Docs!Begin, DocsInv, DocsTyped
<1>4. /\ held' = [f \in Docs!Families |->
           IF \E d \in Docs!Range(start) : d.family = f
           THEN LET d == CHOOSE d \in Docs!Range(start) : d.family = f IN Docs!Inserted(d, id(d))
           ELSE held[f]]
      /\ docPc'[c] \in {"waiting", "asking", "answered"} =>
           uses'[c] = (UNION {Docs!Reusable(d) : d \in docs}) \cup {id(d) : d \in Docs!Range(start)}
      /\ docPc'[c] = "asking" => docs = {}
  <2>1. held' = [f \in Docs!Families |->
           IF \E d \in Docs!Range(start) : d.family = f
           THEN LET d == CHOOSE d \in Docs!Range(start) : d.family = f IN Docs!Inserted(d, id(d))
           ELSE held[f]]
    BY DEF Docs!Begin
  <2> DEFINE read == (UNION {Docs!Reusable(d) : d \in docs}) \cup {id(d) : d \in Docs!Range(start)}
  <2>2. \/ docPc' = [docPc EXCEPT ![c] = "late"]
        \/ /\ docPc' = [docPc EXCEPT ![c] = IF docs = {} THEN "asking" ELSE "waiting"]
           /\ uses' = [uses EXCEPT ![c] = read]
    BY DEF Docs!Begin
  <2>3. c \in DOMAIN docPc /\ c \in DOMAIN uses
    BY DEF DocsInv, DocsTyped
  <2> HIDE DEF docs, read
  <2>4. /\ docPc'[c] \in {"waiting", "asking", "answered"} => uses'[c] = read
        /\ docPc'[c] = "asking" => docs = {}
    BY <2>2, <2>3
  <2> QED  BY <2>1, <2>4 DEF read, docs
<1>5. new \subseteq DocSet /\ (docs = {} => new = {})
  BY <1>1
<1>6. \A d \in docs : Docs!Reusable(d) \subseteq {i \in DOMAIN fetches : Docs!Fresh(i)}
  <2>1. ASSUME NEW d \in DocSet PROVE Docs!HeldFor(d) \subseteq DOMAIN fetches
    BY <2>1 DEF Docs!HeldFor, DocSet, DocsInv, DocsTyped
  <2>2. \A d \in DocSet : [d EXCEPT !.chart = TRUE] \in DocSet
    BY DEF DocSet
  <2> QED  BY <1>1, <2>1, <2>2 DEF Docs!Reusable
<1> HIDE DEF docs, new, start
<1>7. /\ \A d \in DocSet : Docs!Flying(d) \in Fetches
      /\ DOMAIN more = 1 .. Len(start)
      /\ \A k \in DOMAIN start : more[k] = Docs!Flying(start[k])
  BY <1>2 DEF Docs!Flying, Fetches, DocsInv, DocsTyped
<1>8. more \in Seq(Fetches) /\ Len(more) = Len(start)
  BY <1>2, <1>5, <1>7
<1> HIDE DEF more
<1>9. /\ fetches' \in Seq(Fetches) /\ Len(fetches') = Len(fetches) + Len(start)
      /\ \A i \in 1 .. Len(fetches) + Len(start) :
           fetches'[i] = IF i <= Len(fetches) THEN fetches[i] ELSE more[i - Len(fetches)]
  <2>1. /\ fetches \o more \in Seq(Fetches)
        /\ Len(fetches \o more) = Len(fetches) + Len(more)
        /\ \A i \in 1 .. Len(fetches) + Len(more) :
             (fetches \o more)[i] = IF i <= Len(fetches) THEN fetches[i] ELSE more[i - Len(fetches)]
    BY <1>3, <1>8, ConcatProperties
  <2> QED  BY <1>3, <1>8, <2>1
<1>10. DOMAIN fetches' \ DOMAIN fetches = {Len(fetches) + k : k \in 1 .. Len(start)}
  <2>1. DOMAIN fetches' = 1 .. Len(fetches) + Len(start)
    BY <1>9
  <2> QED  BY <1>2, <1>3, <2>1
<1>11. \A d \in new : id(d) \in DOMAIN fetches' \ DOMAIN fetches
  <2>1. ASSUME NEW d \in new PROVE (CHOOSE k \in DOMAIN start : start[k] = d) \in 1 .. Len(start)
    BY <1>2 DEF Docs!Range
  <2> QED  BY <1>10, <2>1
<1> HIDE DEF id
<1>12. \A i \in DOMAIN fetches' \ DOMAIN fetches :
         fetches'[i].at = now /\ fetches'[i].state = "flying" /\ fetches'[i].doc \in DocSet
  <2>1. ASSUME NEW k \in 1 .. Len(start) PROVE fetches'[Len(fetches) + k] = Docs!Flying(start[k])
    BY <1>2, <1>3, <1>7, <1>9
  <2>2. \A k \in 1 .. Len(start) : start[k] \in DocSet
    BY <1>2, <1>5
  <2>3. \A d : Docs!Flying(d).at = now /\ Docs!Flying(d).state = "flying" /\ Docs!Flying(d).doc = d
    BY DEF Docs!Flying
  <2> QED  BY <1>10, <2>1, <2>2, <2>3
<1>13. \A f \in Docs!Families :
         held'[f] # held[f] =>
           \E d \in DocSet, i \in DOMAIN fetches' \ DOMAIN fetches :
             d.family = f /\ held'[f] = Docs!Inserted(d, i)
  <2> SUFFICES ASSUME NEW f \in Docs!Families, held'[f] # held[f]
               PROVE  \E d \in new : d.family = f /\ held'[f] = Docs!Inserted(d, id(d))
    BY <1>5, <1>11
  <2>1. \E d \in Docs!Range(start) : d.family = f
    BY <1>4
  <2> DEFINE d == CHOOSE d \in Docs!Range(start) : d.family = f
  <2>2. d \in new /\ d.family = f
    BY <1>2, <2>1
  <2>3. held'[f] = Docs!Inserted(d, id(d))
    BY <1>4, <2>1
  <2> QED  BY <2>2, <2>3
<1>14. /\ Len(fetches) <= Len(fetches')
       /\ \A i \in DOMAIN fetches : fetches'[i] = fetches[i]
  BY <1>2, <1>3, <1>9
<1>15. /\ docPc'[c] \in {"waiting", "asking", "answered"} =>
            \A i \in uses'[c] :
              \/ i \in DOMAIN fetches' \ DOMAIN fetches
              \/ i \in DOMAIN fetches /\ Docs!Fresh(i)
       /\ docPc'[c] = "asking" => uses'[c] = {}
  BY <1>2, <1>4, <1>5, <1>6, <1>11
<1>16. fetches' \in Seq(Fetches)
  BY <1>9
<1> QED
  BY <1>12, <1>13, <1>14, <1>15, <1>16

\* What is inserted is the entry and what the family held before.
LEMMA InsertedFrom ==
  ASSUME DocsInv, NEW d \in DocSet, NEW i
  PROVE  Docs!Inserted(d, i) \subseteq held[d.family] \cup {i}
BY DEF Docs!Inserted, Docs!Room, Docs!Swept

LEMMA BeginDocStep ==
  ASSUME Docs!DocumentsAssumption, DocsInv, NEW c \in Callers, NEW r \in Docs!RequestsOf,
         Docs!Begin(c, r)
  PROVE  DocsInv'
<1> DEFINE old == DOMAIN fetches
           new == DOMAIN fetches' \ DOMAIN fetches
<1>1. /\ fetches' \in Seq(Fetches)
      /\ \A i \in old : fetches'[i] = fetches[i]
      /\ \A i \in new :
           fetches'[i].at = now /\ fetches'[i].state = "flying" /\ fetches'[i].doc \in DocSet
      /\ old \subseteq DOMAIN fetches'
  <2>1. /\ fetches' \in Seq(Fetches) /\ Len(fetches) <= Len(fetches')
        /\ \A i \in old : fetches'[i] = fetches[i]
        /\ \A i \in new :
             fetches'[i].at = now /\ fetches'[i].state = "flying" /\ fetches'[i].doc \in DocSet
    BY BeginAppends
  <2>2. fetches \in Seq(Fetches)
    BY DEF DocsInv, DocsTyped
  <2> QED  BY <2>1, <2>2
<1>2. \A f \in Docs!Families : held'[f] \subseteq DOMAIN fetches'
  <2>1. ASSUME NEW f \in Docs!Families, held'[f] # held[f] PROVE held'[f] \subseteq DOMAIN fetches'
    <3>1. PICK d \in DocSet, i \in new : d.family = f /\ held'[f] = Docs!Inserted(d, i)
      BY <2>1, BeginAppends
    <3>2. held[f] \subseteq old
      BY DEF DocsInv, DocsTyped
    <3> QED  BY <1>1, <3>1, <3>2, InsertedFrom
  <2> QED  BY <1>1, <2>1 DEF DocsInv, DocsTyped
<1>3. /\ now' = now /\ stamp' = stamp
      /\ DOMAIN held' = Docs!Families /\ held' = [f \in Docs!Families |-> held'[f]]
      /\ docPc[c] = "idle"
      /\ \/ docPc' = [docPc EXCEPT ![c] = "late"] /\ ask' = ask /\ uses' = uses
         \/ /\ \/ docPc' = [docPc EXCEPT ![c] = "asking"]
               \/ docPc' = [docPc EXCEPT ![c] = "waiting"]
            /\ ask' = [ask EXCEPT ![c] = [request |-> r, at |-> now]]
            /\ \E read : uses' = [uses EXCEPT ![c] = read]
  <2>1. /\ now' = now /\ stamp' = stamp /\ docPc[c] = "idle"
        /\ DOMAIN held' = Docs!Families /\ held' = [f \in Docs!Families |-> held'[f]]
    BY DEF Docs!Begin
  <2> DEFINE docs == Docs!DocumentsOf(r)
  <2>2. \/ docPc' = [docPc EXCEPT ![c] = "late"] /\ ask' = ask /\ uses' = uses
        \/ /\ docPc' = [docPc EXCEPT ![c] = IF docs = {} THEN "asking" ELSE "waiting"]
           /\ ask' = [ask EXCEPT ![c] = [request |-> r, at |-> now]]
           /\ \E read : uses' = [uses EXCEPT ![c] = read]
    BY DEF Docs!Begin
  <2> HIDE DEF docs
  <2> QED  BY <2>1, <2>2
<1>4. /\ docPc'[c] \in {"waiting", "asking", "answered"} =>
            \A i \in uses'[c] : i \in new \/ (i \in old /\ Docs!Fresh(i))
      /\ docPc'[c] = "asking" => uses'[c] = {}
  BY BeginAppends
<1> HIDE DEF new, old
<1>5. /\ docPc' \in [Callers -> Places]
      /\ \A e \in Callers \ {c} : docPc'[e] = docPc[e] /\ ask'[e] = ask[e] /\ uses'[e] = uses[e]
      /\ docPc'[c] \in {"late", "asking", "waiting"}
      /\ docPc'[c] = "late" => uses'[c] = uses[c]
      /\ docPc'[c] # "late" => ask'[c].at = now
      /\ ask' = [e \in Callers |-> ask'[e]] /\ uses' = [e \in Callers |-> uses'[e]]
  BY <1>3 DEF DocsInv, DocsTyped, Places
<1>6. DocsTyped'
  <2>1. held' \in [Docs!Families -> SUBSET DOMAIN fetches']
    BY <1>2, <1>3
  <2>2. \A e \in Callers : uses'[e] \subseteq DOMAIN fetches'
    BY <1>1, <1>4, <1>5 DEF DocsInv, DocsTyped, old, new
  <2>3. uses' \in [Callers -> SUBSET DOMAIN fetches']
    BY <1>5, <2>2
  <2> QED  BY <1>1, <1>3, <1>5, <2>1, <2>3 DEF DocsInv, DocsTyped
<1>7. \A i \in DOMAIN fetches' : Dated(i)'
  <2>1. ASSUME NEW i \in DOMAIN fetches' PROVE Dated(i)'
    <3>1. CASE i \in old
      BY <1>1, <1>3, <3>1 DEF DocsInv, Dated, old
    <3>2. CASE i \in new
      BY <1>1, <1>3, <3>2 DEF DocsInv, DocsTyped, Dated
    <3> QED  BY <3>1, <3>2 DEF old, new
  <2> QED  BY <2>1
<1>8. ASSUME NEW e \in Callers \ {c} PROVE ReadsYoung(e)' /\ ReadsSettled(e)'
  <2>1. \A i \in uses[e] : fetches'[i] = fetches[i]
    BY <1>1, <1>8 DEF DocsInv, DocsTyped, old
  <2> QED  BY <1>3, <1>5, <1>8, <2>1 DEF DocsInv, ReadsYoung, ReadsSettled
<1>9. ReadsYoung(c)' /\ ReadsSettled(c)'
  <2>1. ASSUME docPc'[c] \in {"waiting", "asking"}, NEW i \in uses'[c]
        PROVE  now - fetches'[i].at < TTL[fetches'[i].doc.family]
    <3>1. CASE i \in old /\ Docs!Fresh(i)
      BY <1>1, <3>1 DEF Docs!Fresh
    <3>2. CASE i \in new
      <4>1. fetches'[i].doc.family \in Docs!Families /\ fetches'[i].at = now /\ now \in Nat
        BY <1>1, <3>2 DEF DocSet, DocsInv, DocsTyped
      <4>2. TTL[fetches'[i].doc.family] \in Nat \ {0}
        BY <4>1 DEF Docs!DocumentsAssumption
      <4> QED  BY <4>1, <4>2
    <3> QED  BY <1>4, <2>1, <3>1, <3>2
  <2>2. now \in Nat
    BY DEF DocsInv, DocsTyped
  <2> QED  BY <1>4, <1>5, <2>1, <2>2 DEF ReadsYoung, ReadsSettled
<1> QED
  <2>1. (\A i \in DOMAIN fetches : Dated(i))'
    BY <1>7
  <2> QED  BY <1>6, <1>8, <1>9, <2>1 DEF DocsInv

LEMMA SettleDocStep ==
  ASSUME DocsInv, NEW i \in DOMAIN fetches, Docs!Settle(i)
  PROVE  DocsInv'
<1>1. /\ fetches' = [fetches EXCEPT ![i] = fetches'[i]]
      /\ fetches'[i].at = fetches[i].at /\ fetches'[i].doc = fetches[i].doc
      /\ fetches'[i] \in Fetches /\ fetches[i].state = "flying"
      /\ fetches'[i].state = "ok" => fetches'[i].seen = now
      /\ UNCHANGED <<now, docPc, ask, uses, stamp>>
  <2> DEFINE f == fetches[i]
  <2>1. /\ f \in Fetches /\ f.state = "flying" /\ now \in Nat
        /\ fetches \in Seq(Fetches) /\ UNCHANGED <<now, docPc, ask, uses, stamp>>
    BY FetchesKnown DEF Docs!Settle, DocsInv, DocsTyped
  <2>2. \/ fetches' = [fetches EXCEPT ![i] = [f EXCEPT !.state = "ok", !.seen = now]]
        \/ fetches' = [fetches EXCEPT ![i] = [f EXCEPT !.state = "failed"]]
    BY <2>1 DEF Docs!Settle
  <2>3. /\ [f EXCEPT !.state = "ok", !.seen = now] \in Fetches
        /\ [f EXCEPT !.state = "failed"] \in Fetches
    BY <2>1 DEF Fetches
  <2>4. \/ fetches'[i] = [f EXCEPT !.state = "ok", !.seen = now]
        \/ fetches'[i] = [f EXCEPT !.state = "failed"]
    BY <2>1, <2>2
  <2>5. /\ fetches'[i].at = f.at /\ fetches'[i].doc = f.doc
        /\ fetches'[i].state = "ok" => fetches'[i].seen = now
    BY <2>1, <2>4 DEF Fetches
  <2> QED  BY <2>1, <2>2, <2>3, <2>4, <2>5
<1>2. /\ fetches' \in Seq(Fetches) /\ DOMAIN fetches' = DOMAIN fetches
      /\ \A j \in DOMAIN fetches \ {i} : fetches'[j] = fetches[j]
  <2> DEFINE changed == fetches'[i]
  <2>1. fetches \in Seq(Fetches)
    BY DEF DocsInv, DocsTyped
  <2>2. changed \in Fetches /\ fetches' = [fetches EXCEPT ![i] = changed]
    BY <1>1
  <2> HIDE DEF changed
  <2> QED  BY <2>1, <2>2
<1>3. held' \in [Docs!Families -> SUBSET DOMAIN fetches]
  <2> DEFINE family == fetches[i].doc.family
  <2>1. held \in [Docs!Families -> SUBSET DOMAIN fetches]
    BY DEF DocsInv, DocsTyped
  <2>2. held' = held \/ held' = [held EXCEPT ![family] = @ \ {i}]
    BY DEF Docs!Settle, Docs!Drops
  <2> HIDE DEF family
  <2> QED  BY <2>1, <2>2
<1>4. DocsTyped'
  BY <1>1, <1>2, <1>3 DEF DocsInv, DocsTyped
<1>5. ASSUME NEW j \in DOMAIN fetches PROVE Dated(j)'
  <2>1. fetches[i].at \in Nat /\ now \in Nat
    BY FetchesKnown DEF DocsInv, DocsTyped
  <2> QED  BY <1>1, <1>2, <1>5, <2>1 DEF DocsInv, Dated
<1>6. ASSUME NEW c \in Callers PROVE ReadsYoung(c)' /\ ReadsSettled(c)'
  <2>1. \A j \in uses[c] : j \in DOMAIN fetches
    BY DEF DocsInv, DocsTyped
  <2>2. \A j \in DOMAIN fetches : fetches'[j].at = fetches[j].at /\ fetches'[j].doc = fetches[j].doc
    BY <1>1, <1>2
  <2>3. ReadsYoung(c) /\ ReadsSettled(c)
    BY DEF DocsInv
  <2>4. ReadsYoung(c)'
    BY <1>1, <2>1, <2>2, <2>3 DEF ReadsYoung
  <2>5. ReadsSettled(c)'
    BY <1>1, <1>2, <2>1, <2>2, <2>3 DEF ReadsSettled
  <2> QED  BY <2>4, <2>5
<1> QED
  <2>1. (\A j \in DOMAIN fetches : Dated(j))'
    BY <1>2, <1>5
  <2> QED  BY <1>4, <1>6, <2>1 DEF DocsInv

LEMMA ReceiveDocStep ==
  ASSUME DocsInv, NEW c \in Callers, Docs!Receive(c)
  PROVE  DocsInv'
<1>1. /\ docPc[c] = "waiting"
      /\ docPc' \in [Callers -> Places] /\ stamp' = [e \in Callers |-> stamp'[e]]
      /\ docPc'[c] \in {"asking", "answered"} => stamp'[c] = Docs!OldestOf(c)
      /\ \A e \in Callers \ {c} : docPc'[e] = docPc[e] /\ stamp'[e] = stamp[e]
      /\ \A i \in uses[c] : fetches[i].state = "ok"
      /\ UNCHANGED <<now, fetches, held, ask, uses>>
  BY DEF Docs!Receive, DocsInv, DocsTyped, Places
<1>2. \A i \in uses[c] : Docs!OldestOf(c) <= fetches[i].at
  <2>1. \A i \in uses[c] : i \in DOMAIN fetches
    BY DEF DocsInv, DocsTyped
  <2>2. {fetches[i].at : i \in uses[c]} \in SUBSET Nat
    BY <2>1, FetchesKnown DEF DocsInv
  <2> QED  BY <2>2, LeastOf DEF Docs!OldestOf
<1>3. DocsTyped'
  BY <1>1 DEF DocsInv, DocsTyped
<1>4. \A e \in Callers : ReadsYoung(e)' /\ ReadsSettled(e)'
  BY <1>1, <1>2 DEF DocsInv, DocsTyped, ReadsYoung, ReadsSettled
<1> QED  BY <1>1, <1>3, <1>4 DEF DocsInv, Dated

LEMMA EndsDocStep ==
  ASSUME DocsInv, NEW c \in Callers,
         Docs!Fail(c) \/ Docs!Leave(c) \/ Docs!AnswerDirectly(c)
  PROVE  DocsInv'
<1>1. /\ docPc' \in [Callers -> Places] /\ uses' \in [Callers -> SUBSET DOMAIN fetches]
      /\ stamp' = [e \in Callers |-> stamp'[e]] /\ ask' = [e \in Callers |-> ask'[e]]
      /\ docPc'[c] \in {"failed", "late"}
         \/ /\ docPc[c] = "asking" /\ docPc'[c] = "answered" /\ ask'[c] = ask[c] /\ uses'[c] = uses[c]
            /\ uses[c] # {} => stamp'[c] = stamp[c]
      /\ \A e \in Callers \ {c} :
           /\ docPc'[e] = docPc[e] /\ stamp'[e] = stamp[e]
           /\ ask'[e] = ask[e] /\ uses'[e] = uses[e]
      /\ UNCHANGED <<now, fetches, held>>
  <2>1. CASE Docs!Fail(c) \/ Docs!Leave(c)
    BY <2>1 DEF Docs!Fail, Docs!Leave, Docs!Forget, DocsInv, DocsTyped, Places
  <2>2. CASE Docs!AnswerDirectly(c)
    BY <2>2 DEF Docs!AnswerDirectly, DocsInv, DocsTyped, Places
  <2> QED  BY <2>1, <2>2
<1>2. DocsTyped'
  BY <1>1 DEF DocsInv, DocsTyped
<1>3. \A e \in Callers : ReadsYoung(e)' /\ ReadsSettled(e)'
  BY <1>1 DEF DocsInv, ReadsYoung, ReadsSettled
<1> QED  BY <1>1, <1>2, <1>3 DEF DocsInv, Dated

LEMMA NextDocs ==
  ASSUME Docs!DocumentsAssumption, Docs!AsksAssumption, DocsInv, [Docs!Next]_(Docs!vars)
  PROVE  DocsInv'
<1>1. ASSUME NEW c \in Callers, NEW r \in Asks[c], Docs!Begin(c, r)
      PROVE  DocsInv'
  BY <1>1, BeginDocStep DEF Docs!AsksAssumption
<1>2. CASE Docs!Tick
  <2>1. now \in Nat /\ now' = now + 1 /\ UNCHANGED <<fetches, held, docPc, ask, uses, stamp>>
    BY <1>2 DEF Docs!Tick, DocsInv, DocsTyped
  <2>2. \A i \in DOMAIN fetches : fetches[i].at \in Nat
    BY FetchesKnown DEF DocsInv
  <2>3. (\A i \in DOMAIN fetches : Dated(i))'
    BY <2>1, <2>2 DEF DocsInv, Dated
  <2> QED  BY <2>1, <2>3 DEF DocsInv, DocsTyped, ReadsYoung, ReadsSettled
<1>3. CASE UNCHANGED Docs!vars
  BY <1>3 DEF Docs!vars, DocsInv, DocsTyped, Dated, ReadsYoung, ReadsSettled
<1> QED
  BY <1>1, <1>2, <1>3, SettleDocStep, ReceiveDocStep, EndsDocStep DEF Docs!Next

\* What an answer says of its age is true of every document in it, for any callers, deadlines
\* and times of the families.
THEOREM AgeIsHonest == Docs!Spec => []AgeHonest
<1>1. Docs!Init => DocsInv
  BY InitDocs
<1>2. DocsInv /\ [Docs!Next]_(Docs!vars) => DocsInv'
  BY NextDocs, ComponentAssumptions
<1>3. DocsInv => AgeHonest
  BY DEF DocsInv, DocsTyped, Dated, ReadsYoung, ReadsSettled, AgeHonest, Docs!AgeHonest
<1> QED  BY <1>1, <1>2, <1>3, PTL DEF Docs!Spec

\* An insertion that leaves more than the bound leaves no settled document.
LEMMA OverflowStep ==
  ASSUME Docs!DocumentsAssumption, Docs!AsksAssumption, DocsInv, Docs!Next,
         NEW f \in Docs!Bounded, ~(held'[f] \subseteq held[f]),
         Cardinality(held'[f]) > MaxDocuments, NEW i \in held'[f]
  PROVE  ~Docs!Settled(i)'
<1>1. ASSUME NEW c \in Callers, NEW r \in Asks[c], Docs!Begin(c, r)
      PROVE  ~Docs!Settled(i)'
  <2>1. r \in Docs!RequestsOf /\ f \in Docs!Families
    BY <1>1 DEF Docs!AsksAssumption, Docs!Families
  <2>2. PICK d \in DocSet, n \in DOMAIN fetches' \ DOMAIN fetches :
          d.family = f /\ held'[f] = Docs!Inserted(d, n)
    BY <1>1, <2>1, BeginAppends
  <2>3. fetches'[n].state = "flying" /\ \A j \in DOMAIN fetches : fetches'[j] = fetches[j]
    BY <1>1, <2>1, BeginAppends
  <2> DEFINE S == Docs!Swept(d)
  <2>4. held'[f] = Docs!Room(S) \cup {n}
    BY <2>2 DEF Docs!Inserted
  <2>5. S \subseteq DOMAIN fetches /\ Docs!Room(S) \subseteq S
    BY <2>1, <2>2 DEF Docs!Swept, Docs!Room, DocsInv, DocsTyped
  <2>6. S \in SUBSET Nat /\ IsFiniteSet(S)
    <3>1. DOMAIN fetches = 1 .. Len(fetches) /\ Len(fetches) \in Nat
      BY DEF DocsInv, DocsTyped
    <3> HIDE DEF S
    <3>2. IsFiniteSet(1 .. Len(fetches))
      BY <3>1, CountedFinite
    <3>3. S \in SUBSET (1 .. Len(fetches))
      BY <2>5, <3>1
    <3>4. IsFiniteSet(S)
      BY <3>2, <3>3, FS_Subset
    <3> QED  BY <3>1, <3>3, <3>4
  <2> HIDE DEF S
  <2>7. CASE i = n
    BY <2>3, <2>7 DEF Docs!Settled
  <2>8. CASE i \in Docs!Room(S)
    <3>1. fetches'[i] = fetches[i]
      BY <2>3, <2>5, <2>8
    <3>2. Cardinality(held'[f]) <= Cardinality(Docs!Room(S)) + 1 /\ Cardinality(Docs!Room(S)) \in Nat
          /\ Cardinality(held'[f]) \in Nat
      BY <2>4, <2>5, <2>6, FS_Subset, FS_AddElement, FS_CardinalityType
    <3>3. Docs!Settled(i) => Cardinality(Docs!Room(S)) + 1 <= MaxDocuments
      BY <2>6, <2>8, RoomIsMade
    <3>4. MaxDocuments \in Nat
      BY DEF Docs!DocumentsAssumption
    <3> QED  BY <3>1, <3>2, <3>3, <3>4 DEF Docs!Settled
  <2> QED  BY <2>4, <2>7, <2>8
<1>2. ASSUME NEW j \in DOMAIN fetches, Docs!Settle(j)
      PROVE  held'[f] \subseteq held[f]
  BY <1>2 DEF Docs!Settle, Docs!Drops, DocsInv, DocsTyped, Docs!Families
<1> QED
  BY <1>1, <1>2
     DEF Docs!Next, Docs!Receive, Docs!Fail, Docs!Leave, Docs!AnswerDirectly, Docs!Tick

\* A fetch that fails takes nothing else away.
LEMMA FailureStep ==
  ASSUME Docs!DocumentsAssumption, Docs!AsksAssumption, DocsInv, Docs!Next,
         NEW i \in DOMAIN fetches, fetches[i].state = "flying", fetches'[i].state = "failed",
         NEW f \in Docs!Families
  PROVE  held[f] \ {i} \subseteq held'[f]
<1>1. ASSUME NEW c \in Callers, NEW r \in Asks[c], Docs!Begin(c, r)
      PROVE  FALSE
  BY <1>1, BeginAppends DEF Docs!AsksAssumption
<1>2. ASSUME NEW j \in DOMAIN fetches, Docs!Settle(j)
      PROVE  held[f] \ {i} \subseteq held'[f]
  <2>1. i = j
    BY <1>2 DEF Docs!Settle, DocsInv, DocsTyped
  <2> QED  BY <1>2, <2>1 DEF Docs!Settle, Docs!Drops, DocsInv, DocsTyped
<1> QED
  BY <1>1, <1>2
     DEF Docs!Next, Docs!Receive, Docs!Fail, Docs!Leave, Docs!AnswerDirectly, Docs!Tick

\* The bound of the documents gives way to those in flight alone, and the failure of a fetch
\* takes away that fetch and no other, for any bound and any callers.
THEOREM DocumentsAreShared == Docs!Spec => DocumentsShared
<1> DEFINE Overflow ==
             \A f \in Docs!Bounded :
               ~(held'[f] \subseteq held[f]) /\ Docs!Cardinality(held'[f]) > MaxDocuments
                 => \A i \in held'[f] : ~Docs!Settled(i)'
           Failure ==
             \A i \in DOMAIN fetches :
               fetches[i].state = "flying" /\ fetches'[i].state = "failed"
                 => \A f \in Docs!Families : held[f] \ {i} \subseteq held'[f]
<1>1. Docs!Init => DocsInv
  BY InitDocs
<1>2. DocsInv /\ [Docs!Next]_(Docs!vars) => DocsInv'
  BY NextDocs, ComponentAssumptions
<1>3. DocsInv /\ [Docs!Next]_(Docs!vars) => [Overflow /\ Failure]_(Docs!vars)
  <2>1. ASSUME DocsInv, Docs!Next PROVE Overflow
    BY <2>1, OverflowStep, SameCount, ComponentAssumptions
  <2>2. ASSUME DocsInv, Docs!Next PROVE Failure
    BY <2>2, FailureStep, ComponentAssumptions
  <2> HIDE DEF Overflow, Failure
  <2> QED  BY <2>1, <2>2
<1> QED
  BY <1>1, <1>2, <1>3, PTL
     DEF Docs!Spec, DocumentsShared, Docs!OverflowInFlight, Docs!FailureIsOwn

--------------------------------------------------------------------------------
(* The theorems *)

\* The credential of a request is sent to the host it was meant for and to no other, whatever
\* redirects the servers answer, and nothing is sent outside the allowlist.
THEOREM Secret_Stays_Home == Spec => []SecretStaysHome
<1>1. FetchInv => SecretStaysHome
  BY DEF FetchInv
<1>2. QED
  BY <1>1, InitFetch, NextFetch, PTL DEF Spec

\* An error names the clock that ran out, and no hop is issued past the budget of the call.
THEOREM Cause_Named == Spec => []CauseNamed
<1>1. FetchInv => CauseNamed
  BY DEF FetchInv
<1>2. QED
  BY <1>1, InitFetch, NextFetch, PTL DEF Spec

\* What reached a vendor was counted before, the ledger counts neither too little nor more than
\* was asked, and no process lets anything past its own ceiling.
THEOREM Calls_Counted == Spec => []CallsCounted
<1>1. Init => FetchInv /\ CountInv
  BY InitFetch, InitCount
<1>2. FetchInv /\ CountInv /\ [Next]_vars => (FetchInv /\ CountInv)'
  BY NextFetch, NextCount
<1>3. QED
  BY <1>1, <1>2, CountFollows, PTL DEF Spec
================================================================================
