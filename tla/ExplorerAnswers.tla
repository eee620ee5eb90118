----------------------------- MODULE ExplorerAnswers -----------------------------
(****************************************************************************)
(* What the blockscout adapter makes of an answer                           *)
(* (adapters/blockscout/index.ts and sanitize.ts): holders of a token,      *)
(* labels of an address, gas prices and activity of a chain.                *)
(*                                                                          *)
(* A body is a tree: a leaf [leaf |-> v], a list [items |-> <<..>>] or an   *)
(* object [fields |-> key -> body].                                         *)
(****************************************************************************)
EXTENDS Integers, Sequences, SequencesExt, FiniteSetsExt, Functions

CONSTANTS
  Absent, Garbage, Throws,
  DroppedKeys,      \* DROPPED_KEYS, DROPPED_PATTERNS and FORBIDDEN_KEYS
  MaxDepth,         \* MAX_DEPTH
  HoldersPage,      \* HOLDERS_PAGE
  MaxLabelTags      \* MAX_LABEL_TAGS

IsNumber(v) == v \notin {Absent, Garbage}

Strips(key, depth) == key \in DroppedKeys

\* sanitizeBlockscoutBody: prose and links leave the body wherever they are.
RECURSIVE Strip(_, _)
Strip(body, depth) ==
  IF depth > MaxDepth THEN [leaf |-> Absent]
  ELSE IF "items" \in DOMAIN body
       THEN [items |-> [i \in DOMAIN body.items |-> Strip(body.items[i], depth + 1)]]
  ELSE IF "fields" \in DOMAIN body
       THEN [fields |-> [k \in {k \in DOMAIN body.fields : ~Strips(k, depth)} |->
                           Strip(body.fields[k], depth + 1)]]
  ELSE body

Sanitize(body) == Strip(body, 0)

\* A request of entity.labels this provider would answer with something else than asked.
LabelsRefused(args) == args.query \/ ~args.address \/ args.exhaustive

----------------------------------------------------------------------------
(* token.holders: rows are [hash, amount, cut, tokenId, tags]; hash and amount are valid
   or Garbage, tokenId valid, Absent or Garbage. *)

Usable(row) ==
  /\ row.hash # Garbage
  /\ IsNumber(row.amount)
  /\ ~row.cut
  /\ row.tokenId # Garbage

\* extractTags: the entries with a name; one the vendor has not ranked comes after the others.
Tags(entries) ==
  LET named == SelectSeq(entries, LAMBDA e : IsNumber(e.name))
  IN [i \in DOMAIN named |->
       [named[i] EXCEPT !.ordinal = IF IsNumber(@) THEN @ ELSE -1]]

\* readRowLabel: a name before a generic tag, then the larger ordinal.
Ranked(tags) ==
  SortSeq(tags, LAMBDA a, b : \/ a.named /\ ~b.named
                              \/ a.named = b.named /\ a.ordinal > b.ordinal)
RowLabel(entries) == IF Tags(entries) = <<>> THEN Absent ELSE Head(Ranked(Tags(entries))).name

\* normalizeHolders. body: Garbage, or its items and whether it names a next page.
Holders(body) ==
  IF body = Garbage THEN Throws
  ELSE LET page == SubSeq(body.items, 1, Min({HoldersPage, Len(body.items)}))
           usable == SelectSeq(page, Usable)
       IN IF page # <<>> /\ usable = <<>> THEN Throws
          ELSE [holders |-> [i \in DOMAIN usable |->
                               [hash |-> usable[i].hash, amount |-> usable[i].amount,
                                label |-> RowLabel(usable[i].tags)]],
                dropped |-> Len(page) - Len(usable),
                truncated |-> \/ Len(body.items) > Len(page)
                              \/ body.next
                              \/ Len(usable) < Len(page)]

\* normalizeLabels: the names of an address from the best, and its other tags.
Labels(entries) ==
  LET tags == Tags(entries)
      by(s) == SortSeq(s, LAMBDA a, b : a.ordinal > b.ordinal)
      named == by(SelectSeq(tags, LAMBDA t : t.named))
      others == by(SelectSeq(tags, LAMBDA t : ~t.named))
      top(s) == [i \in 1..Min({MaxLabelTags, Len(s)}) |-> s[i].name]
  IN [name |-> IF named = <<>> THEN Absent ELSE Head(named).name,
      labels |-> top(named), tags |-> top(others)]

----------------------------------------------------------------------------
(* gas.price and chain.transactions, both of the stats document. *)

\* finiteOrNull, intOrNull
OrNull(v) == IF IsNumber(v) THEN v ELSE Absent

\* All three tiers or none of them.
Tiers(p) ==
  IF \A k \in {"slow", "average", "fast"} : OrNull(p[k]) # Absent
  THEN [slow |-> p.slow, average |-> p.average, fast |-> p.fast] ELSE Absent

\* normalizeGasPrice; statsContainer refuses a body without data.
GasPrice(stats) ==
  IF stats = Garbage THEN Throws
  ELSE [gwei |-> OrNull(stats.average), tiers |-> Tiers(stats), measuredAt |-> OrNull(stats.stamp)]

\* normalizeChainTransactions
ChainTransactions(stats) ==
  IF stats = Garbage THEN Throws ELSE [k \in DOMAIN stats |-> OrNull(stats[k])]
==================================================================================
