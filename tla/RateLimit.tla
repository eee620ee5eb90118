------------------------------- MODULE RateLimit -------------------------------
(****************************************************************************)
(* The limiter of one provider (net/rate-limit.ts): callers in several      *)
(* processes take tokens from one shared bucket (cache/limiter-store.ts,    *)
(* pg/limiter-store.ts), and a process whose store fails takes them from a  *)
(* bucket of its own (net/limiter-store.ts) until a cooldown has passed.    *)
(* A bucket may go into debt: the debt a caller leaves is the wait it is    *)
(* told.  A statement sent to the shared store may be applied late, after   *)
(* its caller has given up on it.                                           *)
(*                                                                          *)
(* An instant is the time in which one token is refilled.                   *)
(****************************************************************************)
EXTENDS Integers, FiniteSets

CONSTANTS
  Callers,        \* calls of throttle
  Procs,
  ProcOf,         \* caller -> its process
  Weight,         \* caller -> tokens it asks for
  Deadline,       \* caller -> deadlineAtMs, or None
  Capacity,       \* TokenBucketConfig.capacity
  MaxWait,        \* MAX_WAIT_MS, in instants
  MinRemainder,   \* MIN_POST_WAIT_REMAINDER_MS
  Cooldown,       \* DEGRADED_COOLDOWN_MS
  MaxTime,        \* bound: the last instant
  StoreFails,     \* may the shared store be late, lost or failing
  Shared,         \* the shared store; the others are named after their process
  None

ASSUME LimiterAssumption ==
  /\ IsFiniteSet(Callers) /\ ProcOf \in [Callers -> Procs]
  /\ Weight \in [Callers -> Nat \ {0}]
  /\ Deadline \in [Callers -> Nat \cup {None}] /\ None \notin Nat
  /\ Capacity \in Nat \ {0} /\ MaxTime \in Nat
  /\ MaxWait \in Nat /\ MinRemainder \in Nat /\ Cooldown \in Nat
  /\ StoreFails \in BOOLEAN /\ Shared \notin Procs

Stores == Procs \cup {Shared}

VARIABLES
  now,            \* the clock
  bucket,         \* store -> [tokens, last]: tokens left, instant of the last refill
  degradedUntil,  \* process -> the instant it may speak to the shared store again
  pc,             \* caller -> where it is in throttle
  nowMs,          \* caller -> the sample of the clock it works with
  served,         \* caller -> the store whose take it acts on, or None
  sent,           \* caller -> its statement at the shared store
  left,           \* caller -> tokensLeft of its applied take
  wake,           \* caller -> the instant its wait is over
  charged,        \* store -> callers whose tokens it holds (history)
  slot,           \* store -> caller -> instant its tokens are earned (history)
  rewound         \* store -> by how much `last` went back, in all (history)

callerVars == <<pc, nowMs, served, sent, left, wake>>
history == <<charged, slot, rewound>>
vars == <<now, bucket, degradedUntil, callerVars, history>>

PCs == {"idle", "taking", "refunding", "waiting", "started", "overslept", "refused"}
Bucket == [tokens : Int, last : Nat]

TypeOK ==
  /\ now \in Nat
  /\ bucket \in [Stores -> Bucket]
  /\ degradedUntil \in [Procs -> Nat]
  /\ pc \in [Callers -> PCs]
  /\ nowMs \in [Callers -> Nat]
  /\ served \in [Callers -> Stores \cup {None}]
  /\ sent \in [Callers -> {"none", "take", "taken", "refund", "refunded"}]
  /\ left \in [Callers -> Int]
  /\ wake \in [Callers -> Nat]
  /\ charged \in [Stores -> SUBSET Callers]
  /\ slot \in [Stores -> [Callers -> Nat]]
  /\ rewound \in [Stores -> Nat]

\* A row that does not exist yet is created by its first take as a full bucket.
Init ==
  /\ now = 0
  /\ bucket = [s \in Stores |-> [tokens |-> Capacity, last |-> 0]]
  /\ degradedUntil = [p \in Procs |-> 0]
  /\ pc = [c \in Callers |-> "idle"]
  /\ nowMs = [c \in Callers |-> 0]
  /\ served = [c \in Callers |-> None]
  /\ sent = [c \in Callers |-> "none"]
  /\ left = [c \in Callers |-> 0]
  /\ wake = [c \in Callers |-> 0]
  /\ charged = [s \in Stores |-> {}]
  /\ slot = [s \in Stores |-> [c \in Callers |-> 0]]
  /\ rewound = [s \in Stores |-> 0]

--------------------------------------------------------------------------------
(* The bucket: one statement refills, takes and reads. *)

AtLeastZero(n) == IF n < 0 THEN 0 ELSE n
AtMost(n, limit) == IF n > limit THEN limit ELSE n

\* Mutant: a refusal to go into debt resets the backlog.
TakeWithoutDebt(b, w, t) ==
  [tokens |-> AtLeastZero(AtMost(b.tokens + AtLeastZero(t - b.last), Capacity) - w),
   last |-> t]

\* `last` becomes t even when t lies behind it: a statement that was applied late.
Take(b, w, t) ==
  [tokens |-> AtMost(b.tokens + AtLeastZero(t - b.last), Capacity) - w, last |-> t]

Refund(b, w) == [b EXCEPT !.tokens = @ + w]

WaitFor(tokensLeft) == AtLeastZero(-tokensLeft)

\* The take of c from s, as the clock sample t orders it.
TakeFrom(s, c, t) ==
  LET after == Take(bucket[s], Weight[c], t)
  IN /\ bucket' = [bucket EXCEPT ![s] = after]
     /\ charged' = [charged EXCEPT ![s] = @ \cup {c}]
     /\ slot' = [slot EXCEPT ![s][c] = t + WaitFor(after.tokens)]
     /\ rewound' = [rewound EXCEPT ![s] = @ + AtLeastZero(bucket[s].last - t)]

--------------------------------------------------------------------------------
(* What throttle does with the tokens it is told, without an await. *)

Worthwhile(c, wait) ==
  Deadline[c] # None =>
    /\ Deadline[c] - now > 0
    /\ Deadline[c] - now - wait >= MinRemainder

Proceed(c, tokensLeft) ==
  \/ /\ tokensLeft >= 0
     /\ pc' = [pc EXCEPT ![c] = "started"]
     /\ UNCHANGED wake
  \/ /\ tokensLeft < 0
     /\ WaitFor(tokensLeft) <= MaxWait
     /\ Worthwhile(c, WaitFor(tokensLeft))
     /\ pc' = [pc EXCEPT ![c] = "waiting"]
     /\ wake' = [wake EXCEPT ![c] = now + WaitFor(tokensLeft)]

Refuses(c, tokensLeft) ==
  /\ tokensLeft < 0
  /\ \/ WaitFor(tokensLeft) > MaxWait
     \/ ~Worthwhile(c, WaitFor(tokensLeft))

\* The sample that goes with the refund: past the first refusal it is a new one.
RefundStamp(c, tokensLeft) ==
  IF WaitFor(tokensLeft) > MaxWait THEN nowMs[c] ELSE now

Degraded(p) == now < degradedUntil[p]
Degrade(p, t) == degradedUntil' = [degradedUntil EXCEPT ![p] = t + Cooldown]

\* The bucket of the process: its take and, when refused, its refund are one step.
TakeFallback(c, t) ==
  LET p == ProcOf[c]
      after == Take(bucket[p], Weight[c], t)
  IN /\ served' = [served EXCEPT ![c] = p]
     /\ \/ /\ Proceed(c, after.tokens)
           /\ TakeFrom(p, c, t)
        \/ /\ Refuses(c, after.tokens)
           /\ pc' = [pc EXCEPT ![c] = "refused"]
           /\ bucket' = [bucket EXCEPT ![p] = Refund(after, Weight[c])]
           /\ rewound' = [rewound EXCEPT ![p] = @ + AtLeastZero(bucket[p].last - t)]
           /\ UNCHANGED <<wake, charged, slot>>

--------------------------------------------------------------------------------
(* The steps of throttle. *)

\* A weight the bucket can never hold.
RefuseUnsatisfiable(c) ==
  /\ pc[c] = "idle"
  /\ Weight[c] > Capacity
  /\ pc' = [pc EXCEPT ![c] = "refused"]
  /\ UNCHANGED <<now, bucket, degradedUntil, nowMs, served, sent, left, wake, history>>

AskShared(c) ==
  /\ pc[c] = "idle"
  /\ Weight[c] <= Capacity
  /\ ~Degraded(ProcOf[c])
  /\ pc' = [pc EXCEPT ![c] = "taking"]
  /\ nowMs' = [nowMs EXCEPT ![c] = now]
  /\ sent' = [sent EXCEPT ![c] = "take"]
  /\ UNCHANGED <<now, bucket, degradedUntil, served, left, wake, history>>

AskFallback(c) ==
  /\ pc[c] = "idle"
  /\ Weight[c] <= Capacity
  /\ Degraded(ProcOf[c])
  /\ nowMs' = [nowMs EXCEPT ![c] = now]
  /\ TakeFallback(c, now)
  /\ UNCHANGED <<now, degradedUntil, sent, left>>

\* The shared store runs the statement, whether or not its caller still waits.
ApplyTake(c) ==
  /\ sent[c] = "take"
  /\ sent' = [sent EXCEPT ![c] = "taken"]
  /\ left' = [left EXCEPT ![c] = Take(bucket[Shared], Weight[c], nowMs[c]).tokens]
  /\ TakeFrom(Shared, c, nowMs[c])
  /\ UNCHANGED <<now, degradedUntil, pc, nowMs, served, wake>>

TakeAnswers(c) ==
  /\ pc[c] = "taking"
  /\ sent[c] = "taken"
  /\ served' = [served EXCEPT ![c] = Shared]
  /\ \/ /\ Proceed(c, left[c])
        /\ UNCHANGED <<nowMs, sent>>
     \/ /\ Refuses(c, left[c])
        /\ pc' = [pc EXCEPT ![c] = "refunding"]
        /\ nowMs' = [nowMs EXCEPT ![c] = RefundStamp(c, left[c])]
        /\ sent' = [sent EXCEPT ![c] = "refund"]
        /\ UNCHANGED wake
  /\ UNCHANGED <<now, bucket, degradedUntil, left, history>>

\* Mutant: the call of the store is not bounded.
TakeNeverFails(c) == FALSE /\ UNCHANGED vars

\* The store throws or STORE_CALL_TIMEOUT_MS is over: the bucket of the process
\* serves the sample taken before the call.
TakeFails(c) ==
  /\ StoreFails
  /\ pc[c] = "taking"
  /\ Degrade(ProcOf[c], nowMs[c])
  /\ TakeFallback(c, nowMs[c])
  /\ UNCHANGED <<now, nowMs, sent, left>>

ApplyRefund(c) ==
  /\ sent[c] = "refund"
  /\ sent' = [sent EXCEPT ![c] = "refunded"]
  /\ bucket' = [bucket EXCEPT ![Shared] = Refund(@, Weight[c])]
  /\ charged' = [charged EXCEPT ![Shared] = @ \ {c}]
  /\ UNCHANGED <<now, degradedUntil, pc, nowMs, served, left, wake, slot, rewound>>

RefundAnswers(c) ==
  /\ pc[c] = "refunding"
  /\ sent[c] = "refunded"
  /\ pc' = [pc EXCEPT ![c] = "refused"]
  /\ UNCHANGED <<now, bucket, degradedUntil, nowMs, served, sent, left, wake, history>>

RefundFails(c) ==
  /\ StoreFails
  /\ pc[c] = "refunding"
  /\ Degrade(ProcOf[c], nowMs[c])
  /\ pc' = [pc EXCEPT ![c] = "refused"]
  /\ UNCHANGED <<now, bucket, nowMs, served, sent, left, wake, history>>

\* Mutant: a caller that overslept gives back tokens that time has earned again.
WakeAndRefund(c) ==
  /\ pc[c] = "waiting"
  /\ now >= wake[c]
  /\ pc' = [pc EXCEPT ![c] = "started"]
  /\ bucket' = [bucket EXCEPT ![served[c]] = Refund(@, Weight[c])]
  /\ UNCHANGED <<now, degradedUntil, nowMs, served, sent, left, wake, history>>

\* A timer may fire late, so the remainder is looked at again; no refund here.
Wake(c) ==
  /\ pc[c] = "waiting"
  /\ now >= wake[c]
  /\ pc' = [pc EXCEPT ![c] = IF Deadline[c] # None /\ Deadline[c] - now < MinRemainder
                             THEN "overslept" ELSE "started"]
  /\ UNCHANGED <<now, bucket, degradedUntil, nowMs, served, sent, left, wake, history>>

Tick ==
  /\ now < MaxTime
  /\ now' = now + 1
  /\ UNCHANGED <<bucket, degradedUntil, callerVars, history>>

Next ==
  \/ \E c \in Callers :
       \/ RefuseUnsatisfiable(c) \/ AskShared(c) \/ AskFallback(c)
       \/ ApplyTake(c) \/ TakeAnswers(c) \/ TakeFails(c)
       \/ ApplyRefund(c) \/ RefundAnswers(c) \/ RefundFails(c)
       \/ Wake(c)
  \/ Tick

Spec == Init /\ [][Next]_vars

\* Timers fire and answers that have come are handled.  The store owes nothing.
Fairness ==
  /\ WF_vars(Tick)
  /\ \A c \in Callers :
       /\ WF_vars(TakeAnswers(c) \/ TakeFails(c))
       /\ WF_vars(RefundAnswers(c) \/ RefundFails(c))
       /\ WF_vars(Wake(c))

LiveSpec == Spec /\ Fairness

--------------------------------------------------------------------------------
(* Properties *)

\* The tokens of a set of callers, one by one: a caller with a weight over the
\* capacity never gets any.
TokensOf(C) == {t \in C \X (1 .. Capacity) : t[2] <= Weight[t[1]]}
Drawn(C) == Cardinality(TokensOf(C))

\* createThrottle: a bucket plus what its callers hold never exceeds a full bucket
\* plus one token for each instant up to its last refill; a statement applied
\* behind a later one (`rewound`) earns its interval again.
Conserved ==
  \A s \in Stores :
    bucket[s].tokens + Drawn(charged[s]) <= Capacity + bucket[s].last + rewound[s]

\* The same at every instant T: what is earned by T covers the callers due by T.
Due(s, T) == {c \in charged[s] : slot[s][c] <= T}
EarnedBeforeDue ==
  \A s \in Stores : \A T \in Nat :
    Drawn(Due(s, T)) <= Capacity + T + rewound[s]

\* What started under a store is covered by a full bucket and the time since, in
\* whatever order takes, refunds, failures and late statements came.
StartedBy(s) == {c \in Callers : pc[c] = "started" /\ served[c] = s}
RateHeld ==
  \A s \in Stores : Drawn(StartedBy(s)) <= Capacity + now + rewound[s]

\* What the two above rest on.  Where the tokens of c are: with the shared store from
\* the moment its take is applied, with its process once that has served it.
Placed(c) ==
  /\ nowMs[c] <= now
  /\ pc[c] = "idle" => sent[c] = "none"
  /\ pc[c] = "taking" => sent[c] \in {"take", "taken"} /\ Weight[c] <= Capacity
  /\ sent[c] # "none" => Weight[c] <= Capacity
  /\ sent[c] \in {"none", "take"} => c \notin charged[Shared]
  /\ sent[c] = "taken" =>
       /\ c \in charged[Shared]
       /\ slot[Shared][c] = nowMs[c] + WaitFor(left[c])
  /\ sent[c] = "refund" => c \in charged[Shared] /\ pc[c] \in {"refunding", "refused"}
  /\ pc[c] \in {"idle", "taking"} => \A p \in Procs : c \notin charged[p]
  /\ pc[c] \in {"waiting", "started"} =>
       /\ served[c] \in Stores
       /\ c \in charged[served[c]]
       /\ served[c] = Shared => sent[c] = "taken"
  /\ pc[c] = "waiting" => slot[served[c]][c] <= wake[c]
  /\ pc[c] = "started" => slot[served[c]][c] <= now
IndInv ==
  TypeOK /\ Conserved /\ EarnedBeforeDue /\ \A c \in Callers : Placed(c)

\* Every call of throttle ends, whether or not the shared store ever answers, or
\* sleeps past the modelled time.
Ended(c) == pc[c] \in {"started", "overslept", "refused"}
ThrottleEnds ==
  \A c \in Callers : pc[c] # "idle" ~> Ended(c) \/ wake[c] > MaxTime
================================================================================
