---------------------------- MODULE RateLimitProofs ----------------------------
(****************************************************************************)
(* Proofs about RateLimit: for any number of callers and processes, and in  *)
(* whatever order takes, refunds, failures and late statements come, what   *)
(* started under a bucket is covered by a full bucket and the time since.   *)
(****************************************************************************)
EXTENDS RateLimit, FiniteSetTheorems, TLAPS

--------------------------------------------------------------------------------
(* The tokens of a set of callers. *)

LEMMA DrawnType ==
  ASSUME NEW C \in SUBSET Callers
  PROVE  IsFiniteSet(TokensOf(C)) /\ Drawn(C) \in Nat
<1>1. IsFiniteSet(C)
  BY FS_Subset, LimiterAssumption
<1>2. IsFiniteSet(1 .. Capacity)
  BY FS_Interval, LimiterAssumption
<1>3. IsFiniteSet(C \X (1 .. Capacity))
  BY <1>1, <1>2, FS_Product
<1>4. TokensOf(C) \in SUBSET (C \X (1 .. Capacity))
  BY DEF TokensOf
<1>5. IsFiniteSet(TokensOf(C))
  BY <1>3, <1>4, FS_Subset
<1>6. QED
  BY <1>5, FS_CardinalityType DEF Drawn

\* A smaller set of callers holds no more tokens.
LEMMA DrawnMonotone ==
  ASSUME NEW C \in SUBSET Callers, NEW D \in SUBSET C
  PROVE  Drawn(D) <= Drawn(C)
<1>1. TokensOf(D) \in SUBSET TokensOf(C)
  BY DEF TokensOf
<1>2. IsFiniteSet(TokensOf(C))
  BY DrawnType
<1>3. QED
  BY <1>1, <1>2, FS_Subset DEF Drawn

LEMMA DrawnOne ==
  ASSUME NEW c \in Callers, Weight[c] <= Capacity
  PROVE  Drawn({c}) = Weight[c]
<1>1. Weight[c] \in Nat /\ 1 \in Int /\ Weight[c] \in Int
  BY LimiterAssumption
<1>2. TokensOf({c}) = {c} \X (1 .. Weight[c])
  BY <1>1, LimiterAssumption DEF TokensOf
<1>3. IsFiniteSet({c}) /\ Cardinality({c}) = 1
  BY FS_Singleton
<1>4. IsFiniteSet(1 .. Weight[c]) /\ Cardinality(1 .. Weight[c]) = Weight[c]
  <2>1. Weight[c] >= 1
    BY LimiterAssumption
  <2>2. QED
    BY <1>1, <2>1, FS_Interval
<1>5. Cardinality({c} \X (1 .. Weight[c])) = 1 * Weight[c]
  <2>1. \A S, T : IsFiniteSet(S) /\ IsFiniteSet(T) =>
          Cardinality(S \X T) = Cardinality(S) * Cardinality(T)
    BY FS_Product
  <2>2. Cardinality({c} \X (1 .. Weight[c])) = Cardinality({c}) * Cardinality(1 .. Weight[c])
    BY <1>3, <1>4, <2>1, Zenon
  <2>3. QED
    BY <1>3, <1>4, <2>2, Zenon
<1>6. Drawn({c}) = Cardinality({c} \X (1 .. Weight[c]))
  BY <1>2 DEF Drawn
<1>7. QED
  BY <1>1, <1>5, <1>6

\* A caller that joins adds its weight.
LEMMA DrawnAdd ==
  ASSUME NEW C \in SUBSET Callers, NEW c \in Callers, c \notin C, Weight[c] <= Capacity
  PROVE  Drawn(C \cup {c}) = Drawn(C) + Weight[c]
<1>1. TokensOf(C \cup {c}) = TokensOf(C) \cup TokensOf({c})
  BY DEF TokensOf
<1>2. TokensOf(C) \cap TokensOf({c}) = {}
  BY DEF TokensOf
<1>3. IsFiniteSet(TokensOf(C)) /\ IsFiniteSet(TokensOf({c}))
  BY DrawnType
<1>4. Cardinality(TokensOf(C) \cap TokensOf({c})) = 0
  BY <1>2, FS_EmptySet
<1>5. Drawn(C \cup {c}) = Drawn(C) + Drawn({c})
  <2>1. Drawn(C) \in Nat /\ Drawn({c}) \in Nat
    BY DrawnType
  <2>2. Cardinality(TokensOf(C) \cup TokensOf({c}))
          = Cardinality(TokensOf(C)) + Cardinality(TokensOf({c}))
              - Cardinality(TokensOf(C) \cap TokensOf({c}))
    BY <1>3, FS_Union
  <2>3. /\ Drawn(C \cup {c}) = Cardinality(TokensOf(C) \cup TokensOf({c}))
        /\ Drawn(C) = Cardinality(TokensOf(C))
        /\ Drawn({c}) = Cardinality(TokensOf({c}))
    BY <1>1 DEF Drawn
  <2>4. QED
    BY <1>4, <2>1, <2>2, <2>3
<1>6. QED
  BY <1>5, DrawnOne

\* A caller that leaves takes its weight with it.
LEMMA DrawnRemove ==
  ASSUME NEW C \in SUBSET Callers, NEW c \in C, Weight[c] <= Capacity
  PROVE  Drawn(C) = Drawn(C \ {c}) + Weight[c]
<1>1. C = (C \ {c}) \cup {c}
  OBVIOUS
<1>2. QED
  BY <1>1, DrawnAdd

--------------------------------------------------------------------------------
(* What the statements of a store preserve. *)

\* A take, however late its sample is: it leaves no more tokens than its interval
\* and the rewinding earned, and everyone due by T is still covered at T.
LEMMA TakeStep ==
  ASSUME TypeOK, Conserved, EarnedBeforeDue,
         NEW s \in Stores, NEW c \in Callers, NEW t \in Nat,
         c \notin charged[s], Weight[c] <= Capacity,
         TakeFrom(s, c, t)
  PROVE  /\ bucket' \in [Stores -> Bucket]
         /\ charged' \in [Stores -> SUBSET Callers]
         /\ slot' \in [Stores -> [Callers -> Nat]]
         /\ rewound' \in [Stores -> Nat]
         /\ Conserved'
         /\ EarnedBeforeDue'
         /\ c \in charged'[s]
         /\ slot'[s][c] = t + WaitFor(Take(bucket[s], Weight[c], t).tokens)
<1> DEFINE after == Take(bucket[s], Weight[c], t)
<1>1. /\ bucket[s] \in Bucket /\ Weight[c] \in Nat /\ Capacity \in Nat
      /\ rewound[s] \in Nat /\ charged[s] \in SUBSET Callers
      /\ bucket[s].tokens \in Int /\ bucket[s].last \in Nat
  BY LimiterAssumption DEF TypeOK, Bucket
<1>2. /\ after \in Bucket
      /\ after.last = t
      /\ after.tokens + Weight[c] <= bucket[s].tokens + AtLeastZero(t - bucket[s].last)
      /\ WaitFor(after.tokens) \in Nat /\ after.tokens \in Int
      /\ AtLeastZero(bucket[s].last - t) \in Nat
  BY <1>1 DEF Take, Bucket, AtMost, AtLeastZero, WaitFor
<1>3. /\ bucket' = [bucket EXCEPT ![s] = after]
      /\ charged' = [charged EXCEPT ![s] = charged[s] \cup {c}]
      /\ slot' = [slot EXCEPT ![s][c] = t + WaitFor(after.tokens)]
      /\ rewound' = [rewound EXCEPT ![s] = rewound[s] + AtLeastZero(bucket[s].last - t)]
  BY DEF TakeFrom
<1>4. /\ bucket'[s] = after
      /\ charged'[s] = charged[s] \cup {c}
      /\ slot'[s][c] = t + WaitFor(after.tokens)
      /\ \A d \in Callers \ {c} : slot'[s][d] = slot[s][d]
      /\ rewound'[s] = rewound[s] + AtLeastZero(bucket[s].last - t)
      /\ \A u \in Stores \ {s} : /\ bucket'[u] = bucket[u] /\ charged'[u] = charged[u]
                                 /\ slot'[u] = slot[u] /\ rewound'[u] = rewound[u]
  BY <1>3 DEF TypeOK
<1>5. /\ bucket' \in [Stores -> Bucket]
      /\ charged' \in [Stores -> SUBSET Callers]
      /\ rewound' \in [Stores -> Nat]
  BY <1>1, <1>2, <1>3 DEF TypeOK
<1>6. slot' \in [Stores -> [Callers -> Nat]]
  <2>1. t + WaitFor(after.tokens) \in Nat
    BY <1>2
  <2>2. QED
    BY <1>3, <2>1 DEF TypeOK
<1>7. Drawn(charged'[s]) = Drawn(charged[s]) + Weight[c] /\ Drawn(charged[s]) \in Nat
  BY <1>1, <1>4, DrawnAdd, DrawnType
<1>8. after.tokens + Drawn(charged'[s]) <= Capacity + t + rewound'[s]
  <2>1. bucket[s].tokens + Drawn(charged[s]) <= Capacity + bucket[s].last + rewound[s]
    BY DEF Conserved
  <2>2. AtLeastZero(t - bucket[s].last) + bucket[s].last
          = t + AtLeastZero(bucket[s].last - t)
    BY <1>1 DEF AtLeastZero
  <2>3. AtLeastZero(t - bucket[s].last) \in Nat
    BY <1>1 DEF AtLeastZero
  <2>4. QED
    BY <1>1, <1>2, <1>4, <1>7, <2>1, <2>2, <2>3
<1>9. Conserved'
  <2> SUFFICES ASSUME NEW u \in Stores
               PROVE  bucket'[u].tokens + Drawn(charged'[u])
                        <= Capacity + bucket'[u].last + rewound'[u]
    BY DEF Conserved, Drawn, TokensOf
  <2>1. CASE u = s
    BY <2>1, <1>2, <1>4, <1>8
  <2>2. CASE u # s
    BY <2>2, <1>4 DEF Conserved
  <2>3. QED
    BY <2>1, <2>2
<1>10. EarnedBeforeDue'
  <2> SUFFICES ASSUME NEW u \in Stores, NEW T \in Nat
               PROVE  Drawn({d \in charged'[u] : slot'[u][d] <= T})
                        <= Capacity + T + rewound'[u]
    BY DEF EarnedBeforeDue, Due, Drawn, TokensOf
  <2>1. CASE u # s
    BY <2>1, <1>4 DEF EarnedBeforeDue, Due
  <2>2. CASE u = s /\ T >= t + WaitFor(after.tokens)
    <3>1. {d \in charged'[s] : slot'[s][d] <= T} \in SUBSET charged'[s]
      OBVIOUS
    <3>2. charged'[s] \in SUBSET Callers
      BY <1>5
    <3>3. Drawn({d \in charged'[s] : slot'[s][d] <= T}) <= Drawn(charged'[s])
      BY <3>1, <3>2, DrawnMonotone
    <3>4. Drawn({d \in charged'[s] : slot'[s][d] <= T}) \in Nat
      BY <3>1, <3>2, DrawnType
    <3>5. Drawn(charged'[s]) <= Capacity + t + rewound'[s] + WaitFor(after.tokens)
      BY <1>1, <1>2, <1>5, <1>7, <1>8 DEF WaitFor, AtLeastZero
    <3>6. rewound'[s] \in Nat /\ Drawn(charged'[s]) \in Nat
      BY <1>5, <3>2, DrawnType
    <3>7. Drawn(charged'[s]) <= Capacity + T + rewound'[s]
      BY <2>2, <3>5, <3>6, <1>1, <1>2
    <3>8. Drawn({d \in charged'[s] : slot'[s][d] <= T}) <= Capacity + T + rewound'[s]
      BY <3>3, <3>4, <3>6, <3>7, <1>1
    <3>9. QED
      BY <2>2, <3>8
  <2>3. CASE u = s /\ ~(T >= t + WaitFor(after.tokens))
    <3>1. ~(slot'[s][c] <= T)
      BY <2>3, <1>2, <1>4
    <3>2. {d \in charged'[s] : slot'[s][d] <= T} = Due(s, T)
      BY <3>1, <1>1, <1>4 DEF Due
    <3>3. Drawn(Due(s, T)) <= Capacity + T + rewound[s]
      BY DEF EarnedBeforeDue
    <3>4. Drawn(Due(s, T)) \in Nat
      <4>1. Due(s, T) \in SUBSET Callers
        BY <1>1 DEF Due
      <4>2. QED
        BY <4>1, DrawnType
    <3>5. rewound[s] <= rewound'[s] /\ rewound'[s] \in Nat
      BY <1>1, <1>2, <1>4
    <3>6. Drawn(Due(s, T)) <= Capacity + T + rewound'[s]
      BY <3>3, <3>4, <3>5, <1>1
    <3>7. QED
      BY <2>3, <3>2, <3>6
  <2>4. QED
    BY <2>1, <2>2, <2>3
<1>11. QED
  BY <1>3, <1>4, <1>5, <1>6, <1>9, <1>10

\* A take that its own process gives back at once: the tokens are those of the
\* refill, and nobody is charged.
LEMMA TakeAndRefundStep ==
  ASSUME TypeOK, Conserved, EarnedBeforeDue,
         NEW s \in Stores, NEW c \in Callers, NEW t \in Nat,
         bucket' = [bucket EXCEPT ![s] = Refund(Take(bucket[s], Weight[c], t), Weight[c])],
         rewound' = [rewound EXCEPT ![s] = @ + AtLeastZero(bucket[s].last - t)],
         UNCHANGED <<charged, slot>>
  PROVE  /\ bucket' \in [Stores -> Bucket]
         /\ rewound' \in [Stores -> Nat]
         /\ Conserved'
         /\ EarnedBeforeDue'
<1> DEFINE after == Refund(Take(bucket[s], Weight[c], t), Weight[c])
<1>1. /\ bucket[s] \in Bucket /\ Weight[c] \in Nat /\ Capacity \in Nat
      /\ rewound[s] \in Nat /\ charged[s] \in SUBSET Callers
      /\ bucket[s].tokens \in Int /\ bucket[s].last \in Nat
  BY LimiterAssumption DEF TypeOK, Bucket
<1>2. /\ after \in Bucket
      /\ after.last = t
      /\ after.tokens <= bucket[s].tokens + AtLeastZero(t - bucket[s].last)
      /\ AtLeastZero(bucket[s].last - t) \in Nat /\ after.tokens \in Int
  BY <1>1 DEF Refund, Take, Bucket, AtMost, AtLeastZero
<1>3. /\ bucket'[s] = after
      /\ rewound'[s] = rewound[s] + AtLeastZero(bucket[s].last - t)
      /\ \A u \in Stores \ {s} : bucket'[u] = bucket[u] /\ rewound'[u] = rewound[u]
  BY DEF TypeOK
<1>4. /\ bucket' \in [Stores -> Bucket]
      /\ rewound' \in [Stores -> Nat]
  BY <1>1, <1>2 DEF TypeOK
<1>5. Conserved'
  <2> SUFFICES ASSUME NEW u \in Stores
               PROVE  bucket'[u].tokens + Drawn(charged[u])
                        <= Capacity + bucket'[u].last + rewound'[u]
    BY DEF Conserved, Drawn, TokensOf
  <2>1. CASE u = s
    <3>1. bucket[s].tokens + Drawn(charged[s]) <= Capacity + bucket[s].last + rewound[s]
      BY DEF Conserved
    <3>2. AtLeastZero(t - bucket[s].last) + bucket[s].last
            = t + AtLeastZero(bucket[s].last - t)
      BY <1>1 DEF AtLeastZero
    <3>3. Drawn(charged[s]) \in Nat /\ AtLeastZero(t - bucket[s].last) \in Nat
      BY <1>1, DrawnType DEF AtLeastZero
    <3>4. QED
      BY <2>1, <3>1, <3>2, <3>3, <1>1, <1>2, <1>3
  <2>2. CASE u # s
    BY <2>2, <1>3 DEF Conserved
  <2>3. QED
    BY <2>1, <2>2
<1>6. EarnedBeforeDue'
  <2> SUFFICES ASSUME NEW u \in Stores, NEW T \in Nat
               PROVE  Drawn(Due(u, T)) <= Capacity + T + rewound'[u]
    BY DEF EarnedBeforeDue, Due, Drawn, TokensOf
  <2>1. Drawn(Due(u, T)) <= Capacity + T + rewound[u]
    BY DEF EarnedBeforeDue
  <2>2. Drawn(Due(u, T)) \in Nat
    <3>1. Due(u, T) \in SUBSET Callers
      BY DEF Due, TypeOK
    <3>2. QED
      BY <3>1, DrawnType
  <2>3. rewound[u] \in Nat /\ rewound'[u] \in Nat /\ rewound[u] <= rewound'[u]
    BY <1>1, <1>2, <1>3, <1>4 DEF TypeOK
  <2>4. QED
    BY <2>1, <2>2, <2>3, <1>1
<1>7. QED
  BY <1>4, <1>5, <1>6

\* A step that leaves the buckets and what they hold alone.
LEMMA StoresUntouched ==
  ASSUME Conserved, EarnedBeforeDue, UNCHANGED <<bucket, history>>
  PROVE  Conserved' /\ EarnedBeforeDue'
<1>1. UNCHANGED <<bucket, charged, slot, rewound>>
  BY DEF history
<1>2. Conserved'
  BY <1>1 DEF Conserved, Drawn, TokensOf
<1>3. EarnedBeforeDue'
  BY <1>1 DEF EarnedBeforeDue, Due, Drawn, TokensOf
<1>4. QED
  BY <1>2, <1>3

--------------------------------------------------------------------------------
(* The invariant. *)

LEMMA InitInv == Init => IndInv
<1> SUFFICES ASSUME Init PROVE IndInv
  OBVIOUS
<1>1. TypeOK
  BY LimiterAssumption DEF Init, TypeOK, PCs, Bucket
<1>2. TokensOf({}) = {}
  BY DEF TokensOf
<1>3. Drawn({}) = 0
  BY <1>2, FS_EmptySet DEF Drawn
<1>4. Conserved
  BY <1>3, LimiterAssumption DEF Init, Conserved
<1>5. EarnedBeforeDue
  <2> SUFFICES ASSUME NEW s \in Stores, NEW T \in Nat
               PROVE  Drawn(Due(s, T)) <= Capacity + T + rewound[s]
    BY DEF EarnedBeforeDue
  <2>1. Due(s, T) = {}
    BY DEF Init, Due
  <2>2. rewound[s] = 0
    BY DEF Init
  <2>3. QED
    BY <2>1, <2>2, <1>3, LimiterAssumption
<1>6. ASSUME NEW c \in Callers PROVE Placed(c)
  BY DEF Init, Placed, Stores
<1>7. QED
  BY <1>1, <1>4, <1>5, <1>6 DEF IndInv

\* A caller whom a step leaves alone stays where it is.
LEMMA OthersPlaced ==
  ASSUME TypeOK, NEW d \in Callers, Placed(d), now' \in Nat, now <= now',
         pc'[d] = pc[d], nowMs'[d] = nowMs[d], served'[d] = served[d],
         sent'[d] = sent[d], left'[d] = left[d], wake'[d] = wake[d],
         \A s \in Stores : /\ d \in charged'[s] <=> d \in charged[s]
                           /\ slot'[s][d] = slot[s][d]
  PROVE  Placed(d)'
<1>1. /\ now \in Nat /\ nowMs[d] \in Nat /\ Shared \in Stores
      /\ \A p \in Procs : p \in Stores
      /\ \A s \in Stores : slot[s][d] \in Nat
  BY DEF TypeOK, Stores
<1>2. nowMs'[d] <= now'
  BY <1>1 DEF Placed
<1>3. pc'[d] = "started" => slot'[served'[d]][d] <= now'
  BY <1>1 DEF Placed
<1>4. QED
  BY <1>1, <1>2, <1>3 DEF Placed, WaitFor

\* What a caller is told by a take it acts on, if it is not refused.
LEMMA ProceedStep ==
  ASSUME TypeOK, NEW c \in Callers, NEW n \in Int, Proceed(c, n)
  PROVE  /\ pc' = [pc EXCEPT ![c] = "started"] \/ pc' = [pc EXCEPT ![c] = "waiting"]
         /\ pc' \in [Callers -> PCs]
         /\ wake' \in [Callers -> Nat]
         /\ \A d \in Callers \ {c} : pc'[d] = pc[d] /\ wake'[d] = wake[d]
         /\ pc'[c] = "started" => WaitFor(n) = 0
         /\ pc'[c] = "waiting" => wake'[c] = now + WaitFor(n)
<1>1. now \in Nat /\ WaitFor(n) \in Nat
  BY DEF TypeOK, WaitFor, AtLeastZero
<1>2. CASE n >= 0
  <2>1. pc' = [pc EXCEPT ![c] = "started"] /\ wake' = wake
    BY <1>2 DEF Proceed
  <2>2. WaitFor(n) = 0
    BY <1>2 DEF WaitFor, AtLeastZero
  <2>3. QED
    BY <2>1, <2>2 DEF TypeOK, PCs
<1>3. CASE n < 0
  <2>1. /\ pc' = [pc EXCEPT ![c] = "waiting"]
        /\ wake' = [wake EXCEPT ![c] = now + WaitFor(n)]
    BY <1>3 DEF Proceed
  <2>2. now + WaitFor(n) \in Nat
    BY <1>1
  <2>3. QED
    BY <2>1, <2>2 DEF TypeOK, PCs
<1>4. QED
  BY <1>2, <1>3

\* The bucket of a process serves c, with the sample t.
LEMMA FallbackStep ==
  ASSUME IndInv, NEW c \in Callers, NEW t \in Nat, t <= now, Weight[c] <= Capacity,
         pc[c] \in {"idle", "taking"}, sent[c] = "taken" => nowMs[c] = t,
         TakeFallback(c, t),
         now' = now, left' = left, sent' = sent,
         nowMs' = [nowMs EXCEPT ![c] = t],
         degradedUntil' \in [Procs -> Nat]
  PROVE  IndInv'
<1> DEFINE p == ProcOf[c]
           after == Take(bucket[p], Weight[c], t)
<1>1. p \in Procs /\ p \in Stores /\ p # Shared /\ Shared \in Stores
  BY LimiterAssumption DEF Stores
<1>2. TypeOK /\ Conserved /\ EarnedBeforeDue /\ Placed(c) /\ c \notin charged[p]
  BY <1>1 DEF IndInv, Placed
<1>3. /\ after.tokens \in Int /\ now \in Nat /\ nowMs' \in [Callers -> Nat]
      /\ nowMs'[c] = t /\ \A d \in Callers \ {c} : nowMs'[d] = nowMs[d]
  BY <1>1, <1>2, LimiterAssumption DEF TypeOK, Bucket, Take, AtMost, AtLeastZero
<1>4. served' = [served EXCEPT ![c] = p] /\ served' \in [Callers -> Stores \cup {None}]
  BY <1>1, <1>2 DEF TakeFallback, TypeOK
<1>5. CASE Proceed(c, after.tokens) /\ TakeFrom(p, c, t)
  <2>1. /\ bucket' \in [Stores -> Bucket]
        /\ charged' \in [Stores -> SUBSET Callers]
        /\ slot' \in [Stores -> [Callers -> Nat]]
        /\ rewound' \in [Stores -> Nat]
        /\ Conserved' /\ EarnedBeforeDue'
        /\ c \in charged'[p]
        /\ slot'[p][c] = t + WaitFor(after.tokens)
    BY <1>1, <1>2, <1>5, TakeStep
  <2>2. /\ pc' \in [Callers -> PCs] /\ wake' \in [Callers -> Nat]
        /\ pc'[c] \in {"started", "waiting"}
        /\ \A d \in Callers \ {c} : pc'[d] = pc[d] /\ wake'[d] = wake[d]
        /\ pc'[c] = "started" => WaitFor(after.tokens) = 0
        /\ pc'[c] = "waiting" => wake'[c] = now + WaitFor(after.tokens)
    <3>1. pc \in [Callers -> PCs]
      BY <1>2 DEF TypeOK
    <3>2. QED
      BY <1>2, <1>3, <1>5, <3>1, ProceedStep
  <2>3. TypeOK'
    BY <1>2, <1>3, <1>4, <2>1, <2>2 DEF TypeOK
  <2>4. \A s \in Stores : \A d \in Callers \ {c} :
          (d \in charged'[s] <=> d \in charged[s]) /\ slot'[s][d] = slot[s][d]
    BY <1>2, <1>5 DEF TakeFrom, TypeOK
  <2>5. charged'[Shared] = charged[Shared] /\ slot'[Shared] = slot[Shared]
    BY <1>1, <1>2, <1>5 DEF TakeFrom, TypeOK
  <2>6. Placed(c)'
    <3>1. WaitFor(after.tokens) \in Nat
      BY <1>3 DEF WaitFor, AtLeastZero
    <3>2. served'[c] = p
      BY <1>2, <1>4 DEF TypeOK
    <3>3. QED
      BY <1>1, <1>2, <1>3, <2>1, <2>2, <2>5, <3>1, <3>2 DEF Placed, WaitFor
  <2>7. ASSUME NEW d \in Callers \ {c} PROVE Placed(d)'
    <3>1. Placed(d) /\ served'[d] = served[d]
      BY <1>4 DEF IndInv, TypeOK
    <3>2. QED
      BY <1>2, <1>3, <2>2, <2>4, <3>1, OthersPlaced
  <2>8. QED
    BY <2>1, <2>3, <2>6, <2>7 DEF IndInv
<1>6. CASE /\ pc' = [pc EXCEPT ![c] = "refused"]
           /\ bucket' = [bucket EXCEPT ![p] = Refund(after, Weight[c])]
           /\ rewound' = [rewound EXCEPT ![p] = @ + AtLeastZero(bucket[p].last - t)]
           /\ UNCHANGED <<wake, charged, slot>>
  <2>1. /\ bucket' \in [Stores -> Bucket]
        /\ rewound' \in [Stores -> Nat]
        /\ Conserved' /\ EarnedBeforeDue'
    BY <1>1, <1>2, <1>6, TakeAndRefundStep
  <2>2. TypeOK'
    BY <1>2, <1>3, <1>4, <1>6, <2>1 DEF TypeOK, PCs
  <2>3. Placed(c)'
    <3>1. pc'[c] = "refused"
      BY <1>2, <1>6 DEF TypeOK
    <3>2. QED
      BY <1>2, <1>3, <1>6, <3>1 DEF Placed, WaitFor
  <2>4. ASSUME NEW d \in Callers \ {c} PROVE Placed(d)'
    <3>1. Placed(d) /\ served'[d] = served[d] /\ pc'[d] = pc[d]
      BY <1>4, <1>6 DEF IndInv, TypeOK
    <3>2. QED
      BY <1>2, <1>3, <1>6, <3>1, OthersPlaced
  <2>5. QED
    BY <2>1, <2>2, <2>3, <2>4 DEF IndInv
<1>7. QED
  BY <1>5, <1>6 DEF TakeFallback

\* A caller's own step that touches no bucket: everyone else stays placed.
LEMMA CallerStep ==
  ASSUME IndInv, NEW c \in Callers, UNCHANGED <<now, bucket, history>>,
         degradedUntil' \in [Procs -> Nat],
         \A d \in Callers \ {c} : /\ pc'[d] = pc[d] /\ nowMs'[d] = nowMs[d]
                                  /\ served'[d] = served[d] /\ sent'[d] = sent[d]
                                  /\ left'[d] = left[d] /\ wake'[d] = wake[d],
         pc' \in [Callers -> PCs], nowMs' \in [Callers -> Nat],
         served' \in [Callers -> Stores \cup {None}],
         sent' \in [Callers -> {"none", "take", "taken", "refund", "refunded"}],
         left' = left, wake' \in [Callers -> Nat],
         Placed(c)'
  PROVE  IndInv'
<1>1. TypeOK /\ now \in Nat /\ UNCHANGED <<charged, slot, rewound>>
  BY DEF IndInv, TypeOK, history
<1>2. TypeOK'
  BY <1>1 DEF TypeOK
<1>3. Conserved' /\ EarnedBeforeDue'
  BY StoresUntouched DEF IndInv
<1>4. ASSUME NEW d \in Callers \ {c} PROVE Placed(d)'
  <2>1. Placed(d)
    BY DEF IndInv
  <2>2. QED
    BY <1>1, <2>1, OthersPlaced
<1>5. QED
  BY <1>2, <1>3, <1>4 DEF IndInv

LEMMA DegradeTyped ==
  ASSUME TypeOK, NEW c \in Callers, NEW t \in Nat, Degrade(ProcOf[c], t)
  PROVE  degradedUntil' \in [Procs -> Nat]
<1>1. t + Cooldown \in Nat
  BY LimiterAssumption
<1>2. QED
  BY <1>1 DEF Degrade, TypeOK

LEMMA ApplyTakeStep ==
  ASSUME IndInv, NEW c \in Callers, ApplyTake(c)
  PROVE  IndInv'
<1> DEFINE after == Take(bucket[Shared], Weight[c], nowMs[c])
<1>1. /\ TypeOK /\ Conserved /\ EarnedBeforeDue /\ Placed(c) /\ Shared \in Stores
      /\ sent[c] = "take" /\ c \notin charged[Shared] /\ Weight[c] <= Capacity
      /\ nowMs[c] \in Nat
  BY DEF IndInv, ApplyTake, Placed, Stores, TypeOK
<1>2. TakeFrom(Shared, c, nowMs[c])
  BY DEF ApplyTake
<1>3. /\ bucket' \in [Stores -> Bucket]
      /\ charged' \in [Stores -> SUBSET Callers]
      /\ slot' \in [Stores -> [Callers -> Nat]]
      /\ rewound' \in [Stores -> Nat]
      /\ Conserved' /\ EarnedBeforeDue'
      /\ c \in charged'[Shared]
      /\ slot'[Shared][c] = nowMs[c] + WaitFor(after.tokens)
  BY <1>1, <1>2, TakeStep
<1>4. after.tokens \in Int
  BY <1>1, LimiterAssumption DEF TypeOK, Bucket, Take, AtMost, AtLeastZero
<1>5. /\ sent' = [sent EXCEPT ![c] = "taken"] /\ left' = [left EXCEPT ![c] = after.tokens]
      /\ UNCHANGED <<now, degradedUntil, pc, nowMs, served, wake>>
  BY DEF ApplyTake
<1>6. TypeOK'
  BY <1>1, <1>3, <1>4, <1>5 DEF TypeOK
<1>7. \A s \in Stores : \A d \in Callers :
        d # c \/ s # Shared =>
          (d \in charged'[s] <=> d \in charged[s]) /\ slot'[s][d] = slot[s][d]
  BY <1>1, <1>2 DEF TakeFrom, TypeOK
<1>8. sent'[c] = "taken" /\ left'[c] = after.tokens
  BY <1>1, <1>5 DEF TypeOK
<1>9. Placed(c)'
  <2>1. \A p \in Procs : p \in Stores /\ p # Shared
    BY LimiterAssumption DEF Stores
  <2>2. \A p \in Procs : c \in charged'[p] <=> c \in charged[p]
    BY <1>7, <2>1
  <2>3. pc[c] \in {"waiting", "started"} => served[c] \in Procs
    BY <1>1 DEF Placed, Stores
  <2>4. pc[c] \in {"waiting", "started"} =>
          c \in charged'[served[c]] /\ slot'[served[c]][c] = slot[served[c]][c]
    BY <1>1, <1>7, <2>1, <2>2, <2>3 DEF Placed
  <2>5. QED
    BY <1>1, <1>3, <1>5, <1>8, <2>2, <2>3, <2>4 DEF Placed, WaitFor, Stores
<1>10. ASSUME NEW d \in Callers \ {c} PROVE Placed(d)'
  <2>1. /\ Placed(d) /\ sent'[d] = sent[d] /\ left'[d] = left[d] /\ now \in Nat
        /\ pc'[d] = pc[d] /\ nowMs'[d] = nowMs[d] /\ served'[d] = served[d]
        /\ wake'[d] = wake[d] /\ now' = now
    BY <1>1, <1>5 DEF IndInv, TypeOK
  <2>2. QED
    BY <1>1, <1>7, <2>1, OthersPlaced
<1>11. QED
  BY <1>3, <1>6, <1>9, <1>10 DEF IndInv

LEMMA ApplyRefundStep ==
  ASSUME IndInv, NEW c \in Callers, ApplyRefund(c)
  PROVE  IndInv'
<1>1. /\ TypeOK /\ Conserved /\ EarnedBeforeDue /\ Placed(c) /\ Shared \in Stores
      /\ sent[c] = "refund" /\ c \in charged[Shared] /\ Weight[c] <= Capacity
      /\ pc[c] \in {"refunding", "refused"}
  BY DEF IndInv, ApplyRefund, Placed, Stores
<1>2. /\ sent' = [sent EXCEPT ![c] = "refunded"]
      /\ bucket' = [bucket EXCEPT ![Shared] = Refund(bucket[Shared], Weight[c])]
      /\ charged' = [charged EXCEPT ![Shared] = charged[Shared] \ {c}]
      /\ UNCHANGED <<now, degradedUntil, pc, nowMs, served, left, wake, slot, rewound>>
  BY DEF ApplyRefund
<1>3. /\ bucket[Shared] \in Bucket /\ Weight[c] \in Nat
      /\ charged[Shared] \in SUBSET Callers /\ bucket[Shared].tokens \in Int
      /\ bucket[Shared].last \in Nat /\ rewound[Shared] \in Nat
  BY <1>1, LimiterAssumption DEF TypeOK, Bucket
<1>4. /\ Refund(bucket[Shared], Weight[c]) \in Bucket
      /\ Refund(bucket[Shared], Weight[c]).tokens = bucket[Shared].tokens + Weight[c]
      /\ Refund(bucket[Shared], Weight[c]).last = bucket[Shared].last
  BY <1>3 DEF Refund, Bucket
<1>5. TypeOK'
  BY <1>1, <1>2, <1>3, <1>4 DEF TypeOK
<1>6. Conserved'
  <2> SUFFICES ASSUME NEW u \in Stores
               PROVE  bucket'[u].tokens + Drawn(charged'[u])
                        <= Capacity + bucket'[u].last + rewound[u]
    BY <1>2 DEF Conserved, Drawn, TokensOf
  <2>1. CASE u = Shared
    <3>1. bucket'[u] = Refund(bucket[Shared], Weight[c])
          /\ charged'[u] = charged[Shared] \ {c}
      BY <1>1, <1>2, <2>1 DEF TypeOK
    <3>2. Drawn(charged[Shared]) = Drawn(charged'[u]) + Weight[c]
      BY <1>1, <1>3, <3>1, DrawnRemove
    <3>3. Drawn(charged'[u]) \in Nat
      BY <1>3, <3>1, DrawnType
    <3>4. bucket[Shared].tokens + Drawn(charged[Shared])
            <= Capacity + bucket[Shared].last + rewound[Shared]
      BY <1>1 DEF Conserved
    <3>5. QED
      BY <1>3, <1>4, <2>1, <3>1, <3>2, <3>3, <3>4
  <2>2. CASE u # Shared
    BY <1>1, <1>2, <2>2 DEF Conserved, TypeOK
  <2>3. QED
    BY <2>1, <2>2
<1>7. EarnedBeforeDue'
  <2> SUFFICES ASSUME NEW u \in Stores, NEW T \in Nat
               PROVE  Drawn(Due(u, T)') <= Capacity + T + rewound[u]
    BY <1>2 DEF EarnedBeforeDue, Due, Drawn, TokensOf
  <2>1. Due(u, T)' \in SUBSET Due(u, T) /\ Due(u, T) \in SUBSET Callers
    BY <1>1, <1>2 DEF Due, TypeOK
  <2>2. /\ Drawn(Due(u, T)') <= Drawn(Due(u, T))
        /\ Drawn(Due(u, T)') \in Nat /\ Drawn(Due(u, T)) \in Nat
    BY <2>1, DrawnMonotone, DrawnType
  <2>3. Drawn(Due(u, T)) <= Capacity + T + rewound[u]
    BY <1>1 DEF EarnedBeforeDue
  <2>4. rewound[u] \in Nat
    BY <1>1 DEF TypeOK
  <2>5. QED
    BY <2>2, <2>3, <2>4, LimiterAssumption
<1>8. Placed(c)'
  <2>1. sent'[c] = "refunded" /\ \A p \in Procs : charged'[p] \subseteq charged[p]
    BY <1>1, <1>2 DEF TypeOK, Stores
  <2>2. QED
    BY <1>1, <1>2, <2>1 DEF Placed, WaitFor
<1>9. ASSUME NEW d \in Callers \ {c} PROVE Placed(d)'
  <2>1. Placed(d) /\ sent'[d] = sent[d] /\ now \in Nat
    BY <1>1, <1>2 DEF IndInv, TypeOK
  <2>2. \A s \in Stores : d \in charged'[s] <=> d \in charged[s]
    BY <1>1, <1>2 DEF TypeOK
  <2>3. QED
    BY <1>1, <1>2, <2>1, <2>2, OthersPlaced
<1>10. QED
  BY <1>5, <1>6, <1>7, <1>8, <1>9 DEF IndInv

LEMMA TakeAnswersStep ==
  ASSUME IndInv, NEW c \in Callers, TakeAnswers(c)
  PROVE  IndInv'
<1>1. /\ TypeOK /\ Placed(c) /\ Shared \in Stores /\ pc[c] = "taking" /\ sent[c] = "taken"
      /\ c \in charged[Shared] /\ slot[Shared][c] = nowMs[c] + WaitFor(left[c])
      /\ left[c] \in Int /\ now \in Nat /\ nowMs[c] \in Nat /\ nowMs[c] <= now
      /\ WaitFor(left[c]) \in Nat
  BY DEF IndInv, TakeAnswers, Placed, Stores, TypeOK, WaitFor, AtLeastZero
<1>2. /\ served' = [served EXCEPT ![c] = Shared]
      /\ UNCHANGED <<now, bucket, degradedUntil, left, history>>
      /\ UNCHANGED <<charged, slot>>
      /\ served' \in [Callers -> Stores \cup {None}] /\ served'[c] = Shared
  BY <1>1 DEF TakeAnswers, history, TypeOK
<1>3. CASE Proceed(c, left[c]) /\ UNCHANGED <<nowMs, sent>>
  <2>1. /\ pc' \in [Callers -> PCs] /\ wake' \in [Callers -> Nat]
        /\ pc'[c] \in {"started", "waiting"}
        /\ \A d \in Callers \ {c} : pc'[d] = pc[d] /\ wake'[d] = wake[d]
        /\ pc'[c] = "started" => WaitFor(left[c]) = 0
        /\ pc'[c] = "waiting" => wake'[c] = now + WaitFor(left[c])
    <3>1. pc \in [Callers -> PCs]
      BY <1>1 DEF TypeOK
    <3>2. QED
      BY <1>1, <1>3, <3>1, ProceedStep
  <2>2. Placed(c)'
    BY <1>1, <1>2, <1>3, <2>1 DEF Placed, WaitFor
  <2>3. QED
    BY <1>1, <1>2, <1>3, <2>1, <2>2, CallerStep DEF TypeOK
<1>4. CASE /\ Refuses(c, left[c])
           /\ pc' = [pc EXCEPT ![c] = "refunding"]
           /\ nowMs' = [nowMs EXCEPT ![c] = RefundStamp(c, left[c])]
           /\ sent' = [sent EXCEPT ![c] = "refund"]
           /\ UNCHANGED wake
  <2>1. RefundStamp(c, left[c]) \in Nat /\ RefundStamp(c, left[c]) <= now
    BY <1>1 DEF RefundStamp
  <2>2. /\ pc'[c] = "refunding" /\ sent'[c] = "refund"
        /\ nowMs'[c] = RefundStamp(c, left[c])
    BY <1>1, <1>4 DEF TypeOK
  <2>3. Placed(c)'
    BY <1>1, <1>2, <2>1, <2>2 DEF Placed
  <2>4. QED
    BY <1>1, <1>2, <1>4, <2>1, <2>3, CallerStep DEF TypeOK, PCs
<1>5. QED
  BY <1>3, <1>4 DEF TakeAnswers

LEMMA NextInv == IndInv /\ [Next]_vars => IndInv'
<1> SUFFICES ASSUME IndInv, [Next]_vars PROVE IndInv'
  OBVIOUS
<1>0. TypeOK /\ now \in Nat /\ \A c \in Callers : Placed(c)
  BY DEF IndInv, TypeOK
<1>1. ASSUME NEW c \in Callers, RefuseUnsatisfiable(c) PROVE IndInv'
  <2>1. pc' = [pc EXCEPT ![c] = "refused"] /\ pc'[c] = "refused"
        /\ UNCHANGED <<now, bucket, degradedUntil, nowMs, served, sent, left, wake, history>>
    BY <1>0, <1>1 DEF RefuseUnsatisfiable, TypeOK
  <2>2. Placed(c)'
    BY <1>0, <1>1, <2>1 DEF RefuseUnsatisfiable, Placed, history
  <2>3. QED
    BY <1>0, <2>1, <2>2, CallerStep DEF TypeOK, PCs
<1>2. ASSUME NEW c \in Callers, AskShared(c) PROVE IndInv'
  <2>1. /\ pc' = [pc EXCEPT ![c] = "taking"] /\ pc'[c] = "taking"
        /\ nowMs' = [nowMs EXCEPT ![c] = now] /\ nowMs'[c] = now
        /\ sent' = [sent EXCEPT ![c] = "take"] /\ sent'[c] = "take"
        /\ UNCHANGED <<now, bucket, degradedUntil, served, left, wake, history>>
    BY <1>0, <1>2 DEF AskShared, TypeOK
  <2>2. Placed(c)'
    BY <1>0, <1>2, <2>1 DEF AskShared, Placed, history
  <2>3. QED
    BY <1>0, <2>1, <2>2, CallerStep DEF TypeOK, PCs
<1>3. ASSUME NEW c \in Callers, AskFallback(c) PROVE IndInv'
  <2>1. /\ pc[c] = "idle" /\ Weight[c] <= Capacity /\ sent[c] = "none"
        /\ nowMs' = [nowMs EXCEPT ![c] = now] /\ TakeFallback(c, now)
        /\ now' = now /\ left' = left /\ sent' = sent
        /\ degradedUntil' \in [Procs -> Nat]
    BY <1>0, <1>3 DEF AskFallback, Placed, TypeOK
  <2>2. /\ now <= now /\ pc[c] \in {"idle", "taking"}
        /\ sent[c] = "taken" => nowMs[c] = now
    BY <1>0, <2>1
  <2>3. QED
    BY <1>0, <2>1, <2>2, FallbackStep
<1>4. ASSUME NEW c \in Callers, TakeFails(c) PROVE IndInv'
  <2>1. /\ pc[c] = "taking" /\ Weight[c] <= Capacity
        /\ nowMs[c] \in Nat /\ nowMs[c] <= now
        /\ TakeFallback(c, nowMs[c])
        /\ now' = now /\ left' = left /\ sent' = sent
    BY <1>0, <1>4 DEF TakeFails, Placed, TypeOK
  <2>2. nowMs' = [nowMs EXCEPT ![c] = nowMs[c]]
    BY <1>0, <1>4 DEF TakeFails, TypeOK
  <2>3. degradedUntil' \in [Procs -> Nat]
    BY <1>0, <1>4, <2>1, DegradeTyped DEF TakeFails
  <2>4. QED
    BY <2>1, <2>2, <2>3, FallbackStep
<1>5. ASSUME NEW c \in Callers, RefundAnswers(c) PROVE IndInv'
  <2>1. pc' = [pc EXCEPT ![c] = "refused"] /\ pc'[c] = "refused" /\ pc[c] = "refunding"
        /\ UNCHANGED <<now, bucket, degradedUntil, nowMs, served, sent, left, wake, history>>
    BY <1>0, <1>5 DEF RefundAnswers, TypeOK
  <2>2. Placed(c)'
    BY <1>0, <2>1 DEF Placed, history, WaitFor
  <2>3. QED
    BY <1>0, <2>1, <2>2, CallerStep DEF TypeOK, PCs
<1>6. ASSUME NEW c \in Callers, RefundFails(c) PROVE IndInv'
  <2>1. pc' = [pc EXCEPT ![c] = "refused"] /\ pc'[c] = "refused" /\ pc[c] = "refunding"
        /\ UNCHANGED <<now, bucket, nowMs, served, sent, left, wake, history>>
    BY <1>0, <1>6 DEF RefundFails, TypeOK
  <2>2. degradedUntil' \in [Procs -> Nat]
    <3>1. nowMs[c] \in Nat
      BY <1>0 DEF TypeOK
    <3>2. QED
      BY <1>0, <1>6, <3>1, DegradeTyped DEF RefundFails
  <2>3. Placed(c)'
    BY <1>0, <2>1 DEF Placed, history, WaitFor
  <2>4. QED
    BY <1>0, <2>1, <2>2, <2>3, CallerStep DEF TypeOK, PCs
<1>7. ASSUME NEW c \in Callers, Wake(c) PROVE IndInv'
  <2>1. /\ pc[c] = "waiting" /\ now >= wake[c] /\ wake[c] \in Nat
        /\ pc'[c] \in {"started", "overslept"} /\ pc' \in [Callers -> PCs]
        /\ \A d \in Callers \ {c} : pc'[d] = pc[d]
        /\ UNCHANGED <<now, bucket, degradedUntil, nowMs, served, sent, left, wake, history>>
    BY <1>0, <1>7 DEF Wake, TypeOK, PCs
  <2>2. served[c] \in Stores /\ slot[served[c]][c] \in Nat /\ slot[served[c]][c] <= now
    BY <1>0, <2>1 DEF Placed, TypeOK
  <2>3. Placed(c)'
    BY <1>0, <2>1, <2>2 DEF Placed, history, WaitFor
  <2>4. QED
    BY <1>0, <2>1, <2>3, CallerStep DEF TypeOK
<1>8. ASSUME Tick PROVE IndInv'
  <2>1. /\ now' \in Nat /\ now <= now'
        /\ UNCHANGED <<bucket, degradedUntil, callerVars, history>>
    BY <1>0, <1>8 DEF Tick
  <2>2. TypeOK'
    BY <1>0, <2>1 DEF TypeOK, callerVars, history
  <2>3. Conserved' /\ EarnedBeforeDue'
    BY <2>1, StoresUntouched DEF IndInv
  <2>4. ASSUME NEW d \in Callers PROVE Placed(d)'
    BY <1>0, <2>1, OthersPlaced DEF callerVars, history
  <2>5. QED
    BY <2>2, <2>3, <2>4 DEF IndInv
<1>9. ASSUME UNCHANGED vars PROVE IndInv'
  <2>1. UNCHANGED <<bucket, history>>
    BY <1>9 DEF vars
  <2>2. Conserved' /\ EarnedBeforeDue'
    BY <2>1, StoresUntouched DEF IndInv
  <2>3. TypeOK'
    BY <1>0, <1>9 DEF TypeOK, vars, callerVars, history
  <2>4. ASSUME NEW d \in Callers PROVE Placed(d)'
    BY <1>0, <1>9, OthersPlaced DEF vars, callerVars, history
  <2>5. QED
    BY <2>2, <2>3, <2>4 DEF IndInv
<1>10. QED
  BY <1>1, <1>2, <1>3, <1>4, <1>5, <1>6, <1>7, <1>8, <1>9,
     ApplyTakeStep, ApplyRefundStep, TakeAnswersStep DEF Next

--------------------------------------------------------------------------------
(* The results. *)

\* createThrottle and its stores: the model is typed, and a bucket with what its
\* callers hold never exceeds a full bucket and what time has earned.
THEOREM LimiterInvariant == Spec => []IndInv
<1>1. QED
  BY InitInv, NextInv, PTL DEF Spec

\* The tokens of every bucket are conserved.
THEOREM TokensConserved == Spec => []Conserved
<1>1. IndInv => Conserved
  BY DEF IndInv
<1>2. QED
  BY <1>1, LimiterInvariant, PTL

\* What starts under a bucket is covered by a full bucket and the time since, for any
\* number of callers, whatever the store does and in whatever order.
THEOREM RateIsHeld == Spec => []RateHeld
<1>1. IndInv => RateHeld
  <2> SUFFICES ASSUME IndInv, NEW s \in Stores
               PROVE  Drawn(StartedBy(s)) <= Capacity + now + rewound[s]
    BY DEF RateHeld
  <2>1. TypeOK /\ now \in Nat /\ rewound[s] \in Nat
    BY DEF IndInv, TypeOK
  <2>2. StartedBy(s) \in SUBSET Due(s, now) /\ Due(s, now) \in SUBSET Callers
    BY <2>1 DEF IndInv, Placed, StartedBy, Due, TypeOK
  <2>3. /\ Drawn(StartedBy(s)) <= Drawn(Due(s, now))
        /\ Drawn(StartedBy(s)) \in Nat /\ Drawn(Due(s, now)) \in Nat
    BY <2>2, DrawnMonotone, DrawnType
  <2>4. Drawn(Due(s, now)) <= Capacity + now + rewound[s]
    BY <2>1 DEF IndInv, EarnedBeforeDue
  <2>5. QED
    BY <2>1, <2>3, <2>4, LimiterAssumption
<1>2. QED
  BY <1>1, LimiterInvariant, PTL
================================================================================
