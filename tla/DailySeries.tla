------------------------------- MODULE DailySeries -------------------------------
(****************************************************************************)
(* Daily series of the defillama adapter (adapters/defillama/daily-series.ts *)
(* and the three normalizers that use it).  An instant is a whole number;   *)
(* DayLength of them are a day.  A figure the vendor sends is a number,     *)
(* Absent, or Garbage: present and not a finite number that is not negative. *)
(****************************************************************************)
EXTENDS Integers, Sequences, SequencesExt, FiniteSetsExt

CONSTANTS
  Absent, Garbage,
  Throws,        \* the normalizer throws
  DayLength,
  Earliest       \* EARLIEST_PLAUSIBLE_TS_MS

IsNumber(v) == v \notin {Absent, Garbage}

Day(t) == (t \div DayLength) * DayLength

\* 100 * a / b, rounded down; null on a zero base.
Percent(a, b) == IF b = 0 THEN Absent ELSE (100 * a) \div b

Readable(entries, maxTs) ==
  SelectSeq(entries, LAMBDA e : IsNumber(e.at) /\ e.at \in Earliest..(maxTs + DayLength))

\* Mutant: the first value of a day wins.
FirstOfDay(s, d) == s[Min({i \in DOMAIN s : Day(s[i].at) = d})].value
\* The sort by day is stable: the last value of a day is the last one sent for it.
ValueOfDay(s, d) == s[Max({i \in DOMAIN s : Day(s[i].at) = d})].value

BucketDailyPoints(entries, maxTs) ==
  LET s == Readable(entries, maxTs)
      days == {Day(s[i].at) : i \in DOMAIN s}
      sorted == SetToSortSeq(days, <)
  IN IF \E i \in DOMAIN s : ~IsNumber(s[i].value)
     THEN Throws
     ELSE [points |-> [i \in DOMAIN sorted |-> [ts |-> sorted[i], value |-> ValueOfDay(s, sorted[i])]],
           duplicates |-> Len(s) - Len(sorted)]

\* A history that starts inside the window is covered from there.
CoveredDays(points, from, to, days) ==
  IF points = <<>> THEN days ELSE ((to - from) \div DayLength) + 1

WindowDailySeries(b, days, includeSeries, now) ==
  LET to == Day(IF b.points = <<>> THEN now ELSE Last(b.points).ts)
      requestedFrom == to - (days - 1) * DayLength
      windowed == SelectSeq(b.points, LAMBDA p : p.ts \in requestedFrom..to)
      series == IF includeSeries THEN windowed ELSE <<>>
      from == IF series # <<>> /\ Head(b.points).ts > requestedFrom
              THEN Head(b.points).ts ELSE requestedFrom
      covered == IF series = <<>> /\ ~includeSeries THEN 0
                 ELSE CoveredDays(series, from, to, days)
  IN [from |-> from, to |-> to,
      days |-> IF series = <<>> THEN days ELSE covered,
      series |-> series,
      gapDays |-> Max({0, covered - Len(series)}),
      truncated |-> includeSeries /\ b.duplicates > 0]

\* Of an even number, the mean of the two in the middle, rounded down.
Median(values) ==
  LET s == SortSeq(values, <)
      mid == Len(s) \div 2
  IN IF Len(s) % 2 = 1 THEN s[mid + 1] ELSE (s[mid] + s[mid + 1]) \div 2

\* RECENT_LEVEL_POINTS and MIN_RECENT_LEVEL_POINTS.
RecentLevelPoints == 7
MinRecentLevelPoints == 3

\* The change measured to another endpoint than the last.
Alternative(first, value) == [value |-> value, abs |-> value - first, pct |-> Percent(value - first, first)]

Trailing(series) == SubSeq(series, Max({2, Len(series) - RecentLevelPoints}), Len(series) - 1)

ChangeAcross(series) ==
  IF Len(series) < 2 THEN Absent
  ELSE LET first == Head(series).value
           last == Last(series).value
           trailing == Trailing(series)
           values == [i \in DOMAIN trailing |-> trailing[i].value]
       IN [fromTs |-> Head(series).ts, toTs |-> Last(series).ts,
           abs |-> last - first, pct |-> Percent(last - first, first),
           prevPoint |-> IF Len(series) < 3 THEN Absent
                         ELSE Alternative(first, series[Len(series) - 1].value),
           recentLevel |-> IF Len(values) < MinRecentLevelPoints THEN Absent
                           ELSE Alternative(first, Median(values))]

----------------------------------------------------------------------------

Unreadable(entries, b) == b = Throws \/ (entries # <<>> /\ b.points = <<>>)

\* normalizeChainTvlHistory
ChainTvlHistory(entries, days, fetchedAt) ==
  LET b == BucketDailyPoints(entries, fetchedAt)
  IN IF Unreadable(entries, b) THEN Throws
     ELSE LET w == WindowDailySeries(b, days, TRUE, fetchedAt)
          IN [window |-> w, change |-> ChangeAcross(w.series)]

\* normalizeProtocolTvlHistory: the first chain of the document that is the one asked for.
\* perChain is a sequence of [slug, entries], as the vendor's names map to slugs.
ProtocolTvlHistory(perChain, slug, days, fetchedAt) ==
  LET mine == SelectSeq(perChain, LAMBDA c : c.slug = slug)
  IN IF mine = <<>>
     THEN [deployed |-> FALSE, change |-> Absent,
           window |-> [from |-> fetchedAt, to |-> fetchedAt, days |-> 0, series |-> <<>>,
                       gapDays |-> 0, truncated |-> FALSE]]
     ELSE LET h == ChainTvlHistory(Head(mine).entries, days, fetchedAt)
          IN IF h = Throws THEN Throws
             ELSE [deployed |-> TRUE, change |-> h.change, window |-> h.window]

\* optionalUsd: an absent aggregate is null, one that is present and unusable throws.
OptionalUsd(v) == IF v = Garbage THEN Throws ELSE v

\* The day the 24 h total is of: the last complete one, where its volume is the same.
AsOf(h24, series, today) ==
  LET complete == SelectSeq(series, LAMBDA p : p.ts # today)
  IN IF IsNumber(h24) /\ complete # <<>> /\ Last(complete).value > 0 /\ Last(complete).value = h24
     THEN Last(complete).ts ELSE Absent

\* normalizeDexVolume. body: the chain it answers for, its chart and its totals.
DexVolume(body, vendor, days, includeSeries, fetchedAt) ==
  LET b == BucketDailyPoints(body.chart, fetchedAt)
  IN IF \/ body.chain # vendor
        \/ Unreadable(body.chart, b)
        \/ \E k \in DOMAIN body.totals : OptionalUsd(body.totals[k]) = Throws
     THEN Throws
     ELSE LET w == WindowDailySeries(b, days, includeSeries, fetchedAt)
              today == Day(fetchedAt)
          IN [window |-> w,
              partial |-> {p \in Range(w.series) : p.ts = today},
              totals |-> body.totals,
              asOf |-> AsOf(body.totals.h24, w.series, today)]
==================================================================================
