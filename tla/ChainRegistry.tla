------------------------------- MODULE ChainRegistry -------------------------------
(****************************************************************************)
(* The registry of chains.  A script rewrites its file from three catalogs  *)
(* (scripts/sync-chain-registry.ts), people write the curated columns into  *)
(* it by hand, and the server resolves what a caller typed and says which   *)
(* capabilities a chain has (registry-core.ts, coverage.ts).                *)
(* A name is its slug; Normal is what is left of it without punctuation.    *)
(* The file is sorted by caip2: two snapshots are one when their rows are.  *)
(* The script writes it in place: a write that is cut short leaves a file   *)
(* that does not parse, which no later run reads and a person puts back     *)
(* from version control, where people have what they curated.               *)
(****************************************************************************)
EXTENDS Naturals, Sequences, SequencesExt, FiniteSetsExt, Functions, TLC

CONSTANTS
  None,
  Broken,             \* what is in a file that does not parse
  Normal,             \* name -> the name without punctuation, where that differs
  Catalogs,           \* the catalogs a run of the script may fetch
  CuratedRows,        \* rows no catalog carries: [caip2, slug, aliases]
  CuratedAliases,     \* caip2 -> aliases no catalog proposes
  Hosts, Approvable,  \* what may be written as the RPC hosts of a chain, and what is one
  Routes, Adapters,   \* [capability, adapterIds], and adapter id -> the (caip2, capability) it supports
  MaxRuns             \* bound: runs of the script

VARIABLES
  registry,           \* the rows of registry.data.json, None before the first run, or Broken
  lost,               \* what a broken file was written over, or None
  syncedAt,
  runs

registryVars == <<registry, lost, syncedAt, runs>>

Norm(name) == IF name \in DOMAIN Normal THEN Normal[name] ELSE name
RowsIn(file) == IF file \in {None, Broken} THEN <<>> ELSE file
Rows == RowsIn(registry)
RowOf(rows, caip2) == SelectSeq(rows, LAMBDA r : r.caip2 = caip2)
OrElse(v, w) == IF v # None THEN v ELSE w
OnlyOf(s) == IF Len(s) = 1 THEN s[1] ELSE None
FirstOf(s) == IF s # <<>> THEN s[1] ELSE None

----------------------------------------------------------------------------
(* The join of the catalogs. *)

Platform(cg, dl) ==
  LET byId == SelectSeq(cg, LAMBDA p : dl.id # None /\ p.id = dl.id)
      shared == SelectSeq(cg, LAMBDA p : dl.gecko # None /\ p.native = dl.gecko)
      exact == SelectSeq(shared, LAMBDA p : Norm(p.name) = Norm(dl.name))
      named == FirstOf(SelectSeq(cg, LAMBDA p : Norm(p.name) = Norm(dl.name)))
      found == IF byId # <<>> THEN byId[1]
               ELSE OrElse(IF Len(shared) > 1 THEN OnlyOf(exact) ELSE OnlyOf(shared), named)
  IN IF found # None /\ dl.id # None /\ found.id # None /\ found.id # dl.id THEN None ELSE found

\* The first row of an id, and no row of a test network.
Eip(eips, id) == FirstOf(SelectSeq(eips, LAMBDA e : id # None /\ e.id = id /\ ~e.test))

ChainId(dl, cg) == IF dl.id # None THEN dl.id ELSE IF cg # None THEN cg.id ELSE None
Caip2(dl, id) == IF id # None THEN "eip155:" \o id ELSE "other:" \o dl.name

Proposed(dl, cg, eip, caip2) ==
  SelectSeq(<<dl.name, IF cg # None THEN cg.coin ELSE None, dl.gecko, IF eip # None THEN eip.short ELSE None>>,
            LAMBDA a : a # None)
  \o (IF caip2 \in DOMAIN CuratedAliases THEN CuratedAliases[caip2] ELSE <<>>)

CarriedAlive(prev) == LET alive == prev # None /\ ~prev.deprecated
                      IN [hosts |-> IF alive THEN prev.hosts ELSE None,
                          nansen |-> IF alive THEN prev.nansen ELSE None]

\* What a row is given by hand, carried from the previous snapshot.
Carried(prev) == [hosts |-> IF prev # None THEN prev.hosts ELSE None,
                  nansen |-> IF prev # None THEN prev.nansen ELSE None]

NewRow(caip2, slug, defillama, coingecko, decimals, prev) ==
  [caip2 |-> caip2, slug |-> slug, aliases |-> <<>>, defillama |-> defillama, coingecko |-> coingecko,
   decimals |-> OrElse(decimals, IF prev # None THEN prev.decimals ELSE None), deprecated |-> FALSE]
  @@ Carried(prev)

\* The names of the previous snapshot are taken before a chain is given one.
Reserved(prev) ==
  [slugs |-> FoldLeft(LAMBDA t, r : (r.slug :> r.caip2) @@ t, <<>>, prev),
   aliases |-> FoldLeft(LAMBDA t, r : FoldLeft(LAMBDA u, a : (a :> r.caip2) @@ u, t, r.aliases), <<>>, prev)]

TakenByOther(taken, name, caip2) == name \in DOMAIN taken /\ taken[name] # caip2

PlaceRow(acc, row, names) ==
  [acc EXCEPT !.out = Append(@, row), !.slugs = (row.slug :> row.caip2) @@ @,
              !.proposed = (row.caip2 :> names) @@ @]

Curated(prev) ==
  FoldLeft(LAMBDA acc, c :
             IF TakenByOther(acc.slugs, c.slug, c.caip2) THEN acc
             ELSE LET before == FirstOf(RowOf(prev, c.caip2))
                  IN PlaceRow(acc, NewRow(c.caip2, c.slug, None,
                                          IF before # None THEN before.coingecko ELSE None, None, before),
                              c.aliases),
           [out |-> <<>>, slugs |-> Reserved(prev).slugs, proposed |-> <<>>], CuratedRows)

\* One row of the catalog: a second name of a chain is proposed as its alias, a slug another
\* chain has is told apart by the id, and without one the row is skipped.
JoinRow(acc, dl, catalogs, prev) ==
  LET cg == Platform(catalogs.coingecko, dl)
      id == ChainId(dl, cg)
      eip == Eip(catalogs.eip155, id)
      caip2 == Caip2(dl, id)
      slug == IF TakenByOther(acc.slugs, dl.name, caip2) THEN dl.name \o "-" \o id ELSE dl.name
  IN IF caip2 \in DOMAIN acc.proposed
     THEN IF \E c \in Range(CuratedRows) : c.caip2 = caip2 THEN acc
          ELSE [acc EXCEPT !.proposed[caip2] = Append(@, dl.name)]
     ELSE IF id = None /\ TakenByOther(acc.slugs, dl.name, caip2) THEN acc
     ELSE PlaceRow(acc, NewRow(caip2, slug, dl.name, IF cg # None THEN cg.coin ELSE None,
                               IF eip # None THEN eip.decimals ELSE None, FirstOf(RowOf(prev, caip2))),
                   Proposed(dl, cg, eip, caip2))

\* A chain that vanished keeps its row, with a mark.
Vanished(prev, out) ==
  LET gone == SelectSeq(prev, LAMBDA r : RowOf(out, r.caip2) = <<>>)
  IN [i \in DOMAIN gone |-> [gone[i] EXCEPT !.deprecated = TRUE]]

\* A name proposed for a row: not the slug of another chain, not its alias.
GiveAlias(acc, i, name, slugs) ==
  LET row == acc.out[i]
  IN IF name \in Range(row.aliases) \/ TakenByOther(slugs, name, row.caip2)
        \/ TakenByOther(acc.aliases, name, row.caip2)
     THEN acc
     ELSE [acc EXCEPT !.out[i].aliases = Append(@, name), !.aliases = (name :> row.caip2) @@ @]

GiveAliases(out, proposed, slugs, aliases) ==
  FoldLeft(LAMBDA acc, i :
             FoldLeft(LAMBDA a, name : GiveAlias(a, i, name, slugs), acc,
                      IF out[i].caip2 \in DOMAIN proposed THEN proposed[out[i].caip2] ELSE <<>>),
           [out |-> out, aliases |-> aliases], [i \in DOMAIN out |-> i]).out

JoinCatalogs(catalogs, prev) ==
  LET joined == FoldLeft(LAMBDA acc, dl : JoinRow(acc, dl, catalogs, prev), Curated(prev), catalogs.defillama)
      out == joined.out \o Vanished(prev, joined.out)
  IN GiveAliases(out, joined.proposed, joined.slugs, Reserved(prev).aliases)

----------------------------------------------------------------------------
(* The loader. *)

Others(rows, i) == {rows[j] : j \in DOMAIN rows \ {i}}

Loads(rows) ==
  /\ rows # <<>>
  /\ \A i \in DOMAIN rows :
       /\ rows[i].hosts = None \/ rows[i].hosts \in Approvable
       /\ \A r \in Others(rows, i) :
            /\ r.caip2 # rows[i].caip2 /\ r.slug # rows[i].slug
            /\ \A a \in Range(rows[i].aliases) :
                 a # r.slug /\ a # r.caip2 /\ a \notin Range(r.aliases)

Keys(r) == {r.caip2, r.slug} \cup Range(r.aliases)

Having(column, key) ==
  SelectSeq(Rows, LAMBDA r : key \in IF column = "aliases" THEN Range(r.aliases) ELSE {r[column]})
ByNormalizedFirst(key) ==
  FirstOf(SelectSeq(Rows, LAMBDA r : \E k \in Keys(r) : Norm(k) = Norm(key)))
ByNormalized(key) ==
  LET having == SelectSeq(Rows, LAMBDA r : \E k \in Keys(r) : Norm(k) = Norm(key))
  IN OnlyOf(having)

\* The chain a caller means: by its id, its slug, an alias, or a spelling that is nobody else's.
TryResolve(key) ==
  OrElse(FirstOf(Having("caip2", key)),
    OrElse(FirstOf(Having("slug", key)),
      OrElse(FirstOf(Having("aliases", key)), ByNormalized(key))))

ListChains == SelectSeq(Rows, LAMBDA r : ~r.deprecated)

----------------------------------------------------------------------------
(* Coverage. *)

RouteCovers(route, r) ==
  \E a \in Range(route.adapterIds) :
    a \in DOMAIN Adapters /\ (Adapters[a] = None \/ <<r.caip2, route.capability>> \in Adapters[a])

RoutesFor(capability) == {route \in Range(Routes) : route.capability = capability}

CoveredSet(capability) ==
  {r.caip2 : r \in {r \in Range(ListChains) : \E route \in RoutesFor(capability) : RouteCovers(route, r)}}

IsCovered(capability, r) == ~r.deprecated /\ r.caip2 \in CoveredSet(capability)

ServedSlugs(capability, limit) ==
  LET served == SelectSeq(ListChains, LAMBDA r : r.caip2 \in CoveredSet(capability))
  IN [slugs |-> [i \in 1..Min({limit, Len(served)}) |-> served[i].slug], total |-> Len(served)]

CapabilitiesFor(r) ==
  IF r.deprecated THEN {}
  ELSE {route.capability : route \in {route \in Range(Routes) : RouteCovers(route, r)}}

----------------------------------------------------------------------------

RegistryInit == registry = None /\ lost = None /\ syncedAt = None /\ runs = 0

\* loadPrevious: no file is a beginning, a file that does not parse is an error.
Readable == registry # Broken

Writes(rows) ==
  \/ /\ registry' = IF Range(rows) = Range(Rows) THEN registry ELSE rows
     /\ syncedAt' = IF Range(rows) = Range(Rows) THEN syncedAt ELSE runs
     /\ UNCHANGED lost
  \/ /\ registry' = Broken /\ lost' = registry
     /\ UNCHANGED syncedAt

\* A run of the script writes what the loader takes, and nothing else.
Sync(catalogs) ==
  /\ runs < MaxRuns
  /\ runs' = runs + 1
  /\ LET rows == JoinCatalogs(catalogs, Rows)
     IN IF ~Readable \/ (\E c \in DOMAIN catalogs : catalogs[c] = <<>>) \/ ~Loads(rows)
        THEN UNCHANGED <<registry, lost, syncedAt>>
        ELSE Writes(rows)

\* A person puts the file back, or deletes it to begin again.
Restore ==
  /\ registry = Broken
  /\ registry' \in {lost, None} /\ lost' = None
  /\ UNCHANGED <<syncedAt, runs>>

\* A person fills the curated columns of a row.
Curate(i, hosts, nansen) ==
  /\ i \in DOMAIN Rows
  /\ Rows[i].hosts = None
  /\ registry' = [registry EXCEPT ![i].hosts = hosts, ![i].nansen = nansen]
  /\ UNCHANGED <<lost, syncedAt, runs>>

RegistryNext ==
  \/ Restore
  \/ \E c \in Catalogs : Sync(c)
  \/ \E i \in DOMAIN Rows, h \in Hosts : Curate(i, h, "n")

----------------------------------------------------------------------------

\* What a person wrote by hand survives every run of the script that writes a snapshot, the runs
\* in which a catalog lost the chain and those after a write that was cut short among them, and
\* no chain the registry ever had is forgotten (sync-chain-registry.ts loadPrevious, joinCatalogs).
CurationKept ==
  [][runs' # runs /\ registry' # Broken =>
       LET known == IF registry = Broken THEN RowsIn(lost) ELSE Rows
       IN \A i \in DOMAIN known :
            \E r \in Range(registry') :
              /\ r.caip2 = known[i].caip2 /\ r.hosts = known[i].hosts /\ r.nansen = known[i].nansen
              /\ known[i].decimals # None => r.decimals # None]_registryVars

\* What a caller typed means one chain: its id, slug and aliases are its own whatever other chains
\* are spelled like, and a spelling two chains share resolves to neither; and the three answers
\* about what is served, of the pair, of the chain and of the capability, are one
\* (registry-core.ts buildIndexes, tryResolve; coverage.ts).
ResolvesToOne ==
  Loads(Rows) =>
    \A i \in DOMAIN Rows :
      LET r == Rows[i]
      IN /\ \A k \in Keys(r) : TryResolve(k) = r
         /\ \A k \in {Norm(k) : k \in Keys(r)} : TryResolve(k) # None =>
              \/ k \in Keys(TryResolve(k))
              \/ \A j \in DOMAIN Rows : j # i => k \notin {Norm(n) : n \in Keys(Rows[j])}
         /\ \A route \in Range(Routes) :
              LET told == ServedSlugs(route.capability, Len(Rows))
              IN /\ IsCovered(route.capability, r) <=> route.capability \in CapabilitiesFor(r)
                 /\ IsCovered(route.capability, r) <=> r.slug \in Range(told.slugs)
                 /\ told.total = Len(told.slugs)

====================================================================================
