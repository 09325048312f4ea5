---------------------------- MODULE CostQueries ----------------------------
(***************************************************************************)
(* What the dashboard asks of the database.  A page is several statements, *)
(* each a transaction of its own, while the daemon inserts, replaces and   *)
(* reprices rows of token_usage; the cost of a window is read from the     *)
(* daily_cost_cache, whole local days, and corrected at both ends by what  *)
(* token_usage says.  Time is in instants, DayLen of them a day; a zone    *)
(* says how far local clocks are ahead of UTC, with one change.            *)
(***************************************************************************)
EXTENDS Sums, SequencesExt

CONSTANTS
  Kind,        \* what a row may say: [sess, model, tok, cost]; model 0 is the empty name
  Listed,      \* sessions with a row in sessions; the others' rows are orphans
  Zone,        \* time zones: [first, then, from]
  DayLen, WeekLen, MonthLen, RecentDays, \* a day in instants, a week, month and "7d" in days
  LastInstant, MaxRows, MaxWrites, MaxPages  \* bounds

\* Nothing a row costs is negative.
ASSUME CostsAssumption ==
  /\ IsFiniteSet(Kind)
  /\ \A k \in Kind : /\ k = [sess |-> k.sess, model |-> k.model, tok |-> k.tok, cost |-> k.cost]
                     /\ k.tok \in Nat /\ k.cost \in Nat
  /\ {DayLen, WeekLen, MonthLen, RecentDays} \subseteq Nat \ {0}
  /\ {LastInstant, MaxRows, MaxWrites, MaxPages} \subseteq Nat

\* No zone skips or repeats a midnight.
ASSUME ZoneAssumption ==
  \A z \in Zone : /\ {z.first, z.then} \subseteq 0 .. DayLen /\ z.from \in Int
                  /\ \A h \in 0 .. DayLen :
                       (z.first <= h /\ h < z.then) \/ (z.then <= h /\ h < z.first)
                         => (z.from + h) % DayLen # 0

VARIABLES
  stored,   \* token_usage: Kinds with [ts, copy], which tell rows apart
  dayCost,  \* daily_cost_cache: day |-> cost
  zone,     \* the local zone of the process
  instant,
  drifted,  \* history: the cache was not rebuilt since the zone or a price changed
  page,     \* the request being served, a sequence of queries
  written,  \* cost of the rows written or deleted since it began
  doubt,    \* history: drifted at some moment of it
  writes, pages

costVars == <<stored, dayCost, zone, instant, drifted, page, written, doubt, writes, pages>>

-----------------------------------------------------------------------------
(* The calendar.                                                           *)

LocalDay(z, t) == (t + IF t < z.from THEN z.first ELSE z.then) \div DayLen
DayStart(z, d) == Min({t \in (d - 1) * DayLen .. d * DayLen : LocalDay(z, t) >= d})
WeekStart(d, start) == d - ((d - start + WeekLen) % WeekLen)
MonthStart(d) == d - (d % MonthLen)

Day == 0 .. LastInstant \div DayLen + 2
ModelName == {k.model : k \in Kind}
SessionId == {k.sess : k \in Kind}

Cost(R) == SumOn([r \in R |-> r.cost], R)
Keys(by) == CASE by = "day" -> Day [] by = "model" -> ModelName [] by = "session" -> SessionId
KeyOf(r, by) ==
  CASE by = "day" -> LocalDay(zone, r.ts) [] by = "model" -> r.model [] by = "session" -> r.sess
Grouped(R, by) == [x \in Keys(by) |-> Cost({r \in R : KeyOf(r, by) = x})]

\* Rows with from <= timestamp < to; by session, joined to sessions.
Between(from, to) == {r \in stored : from <= r.ts /\ r.ts < to}
Joined(R) == {r \in R : r.sess \in Listed}

\* GetFirstTokenDate; a database without rows has none.
FirstTokenDate == DayStart(zone, LocalDay(zone, Min({r.ts : r \in stored})))

-----------------------------------------------------------------------------
(* Statements.                                                             *)

CacheDays(from, to) == [table |-> "cache", from |-> from, to |-> to, sign |-> 1]
Rows(from, to, sign) == [table |-> "usage", from |-> from, to |-> to, sign |-> sign]
When(condition, statement) == IF condition THEN <<statement>> ELSE <<>>

Answer(statement, by) ==
  IF statement.table = "cache"
  THEN [d \in Day |-> IF d \in DOMAIN dayCost /\ statement.from <= d /\ d < statement.to
                      THEN dayCost[d] ELSE 0]
  ELSE LET R == Between(statement.from, statement.to)
           sums == Grouped(IF by = "session" THEN Joined(R) ELSE R, by)
       IN [x \in Keys(by) |-> statement.sign * sums[x]]

Query(by, from, to, statements) ==
  [by |-> by, from |-> from, to |-> to, todo |-> statements, got |-> [x \in Keys(by) |-> 0]]

\* Faulty variant: the first day is taken whole.
CostBetweenWholeDays(from, to) ==
  LET toDay == LocalDay(zone, to)
      whole == to = DayStart(zone, toDay)
  IN Query("day", from, to,
       IF to <= from THEN <<>>
       ELSE <<CacheDays(LocalDay(zone, from), IF whole THEN toDay ELSE toDay + 1)>>
            \o When(~whole, Rows(to, DayStart(zone, toDay + 1), -1)))

CostBetween(from, to) ==
  LET fromStart == DayStart(zone, LocalDay(zone, from))
      toDay == LocalDay(zone, to)
      whole == to = DayStart(zone, toDay)
  IN Query("day", from, to,
       IF to <= from THEN <<>>
       ELSE <<CacheDays(LocalDay(zone, from), IF whole THEN toDay ELSE toDay + 1)>>
            \o When(from > fromStart, Rows(fromStart, from, -1))
            \o When(~whole, Rows(to, DayStart(zone, toDay + 1), -1)))

DailyCostsBetween(from, to) ==
  LET fromStart == DayStart(zone, LocalDay(zone, from))
      end == DayStart(zone, LocalDay(zone, to) + 1)
  IN Query("day", from, to,
       <<CacheDays(LocalDay(zone, from), LocalDay(zone, to) + 1)>>
       \o When(from > fromStart, Rows(fromStart, from, -1))
       \o When(to < end, Rows(to, end, -1)))

DailyCosts(from) ==
  LET end == LastInstant + DayLen IN Query("day", from, end, <<Rows(from, end, 1)>>)
ModelCosts(from, to) == Query("model", from, to, <<Rows(from, to, 1)>>)
SessionCosts(from, to) == Query("session", from, to, <<Rows(from, to, 1)>>)

-----------------------------------------------------------------------------
(* Pages.                                                                  *)

LocalToday == LocalDay(zone, instant)
ThisWeek == DayStart(zone, WeekStart(LocalToday, 1))
RecentStart == DayStart(zone, LocalToday - (RecentDays - 1))

RangeStart(range) ==
  CASE range = "today" -> DayStart(zone, LocalToday)
    [] range = "week" -> ThisWeek
    [] range = "month" -> DayStart(zone, MonthStart(LocalToday))
    [] range = "all" -> IF stored = {} THEN RecentStart ELSE FirstTokenDate
    [] range = "recent" -> RecentStart
PageRange == {"today", "week", "month", "all", "recent"}

handleCosts(from) ==
  <<CostBetween(from, instant), DailyCostsBetween(from, instant), ModelCosts(from, instant),
    CostBetween(from - (instant - from), from)>>

handleStats ==
  <<CostBetween(DayStart(zone, LocalToday), instant), CostBetween(ThisWeek, instant),
    DailyCosts(RecentStart), SessionCosts(ThisWeek, instant)>>

\* The period before is asked for when the client compares.
handleAnalytics(from) ==
  LET before == from - (instant - from)
  IN <<SessionCosts(from, instant), ModelCosts(from, instant),
       SessionCosts(before, from), ModelCosts(before, from)>>

\* The lines of an export, added up by session.
handleExport(from) == <<SessionCosts(from, instant)>>

handleExportReport(from) ==
  <<SessionCosts(from, instant), ModelCosts(from, instant), CostBetween(from, instant)>>

Ask(queries) ==
  /\ page = <<>> /\ pages < MaxPages /\ pages' = pages + 1
  /\ page' = queries /\ written' = 0 /\ doubt' = drifted
  /\ UNCHANGED <<stored, dayCost, zone, instant, drifted, writes>>

AskCosts(range) == Ask(handleCosts(RangeStart(range)))
AskStats == Ask(handleStats)
AskAnalytics(range) == Ask(handleAnalytics(RangeStart(range)))
AskExport(range) == Ask(handleExport(RangeStart(range)))
AskReport(range) == Ask(handleExportReport(RangeStart(range)))

RunStatement(i) ==
  LET q == page[i] IN
  /\ q.todo # <<>> /\ \A j \in 1 .. i - 1 : page[j].todo = <<>>
  /\ page' = [page EXCEPT ![i].todo = Tail(@),
                          ![i].got = [x \in DOMAIN @ |-> @[x] + Answer(Head(q.todo), q.by)[x]]]
  /\ UNCHANGED <<stored, dayCost, zone, instant, drifted, written, doubt, writes, pages>>

Respond ==
  /\ page # <<>> /\ \A i \in DOMAIN page : page[i].todo = <<>>
  /\ page' = <<>> /\ written' = 0 /\ doubt' = FALSE
  /\ UNCHANGED <<stored, dayCost, zone, instant, drifted, writes, pages>>

-----------------------------------------------------------------------------
(* The writers; each of these is one transaction.                          *)

AddCost(d, amount) ==
  dayCost' = [x \in DOMAIN dayCost \cup {d} |->
                (IF x \in DOMAIN dayCost THEN dayCost[x] ELSE 0) + IF x = d THEN amount ELSE 0]

Rebuilt(R, z) ==
  [d \in {LocalDay(z, r.ts) : r \in R} |-> Cost({r \in R : LocalDay(z, r.ts) = d})]

Writing(amount) ==
  /\ writes < MaxWrites /\ writes' = writes + 1
  /\ written' = IF page = <<>> THEN 0 ELSE written + amount

\* What tells it from the rows of that time among S is its copy.
RowOf(k, ts, S, most) ==
  [sess |-> k.sess, model |-> k.model, tok |-> k.tok, cost |-> k.cost, ts |-> ts,
   copy |-> Min({c \in 1 .. most : \A r \in S : r.ts = ts => r.copy # c})]

\* A row of another machine's clock may be a little ahead.
InsertUsage(k, ts) ==
  /\ Cardinality(stored) < MaxRows /\ ts <= instant + 1
  /\ stored' = stored \cup {RowOf(k, ts, stored, MaxRows)}
  /\ AddCost(LocalDay(zone, ts), k.cost)
  /\ Writing(k.cost)
  /\ UNCHANGED <<zone, instant, drifted, page, doubt, pages>>

\* The UPDATE of a day the cache does not have changes nothing.
DeleteUsage(r) ==
  /\ stored' = stored \ {r}
  /\ IF LocalDay(zone, r.ts) \in DOMAIN dayCost THEN AddCost(LocalDay(zone, r.ts), -r.cost)
     ELSE UNCHANGED dayCost
  /\ Writing(r.cost)
  /\ UNCHANGED <<zone, instant, drifted, page, doubt, pages>>

\* BackfillEmptyTokenModel prices a row that has no model; the cache is
\* rebuilt by a later statement.
RepriceUsage(r, k) ==
  /\ r.model = 0 /\ k.sess = r.sess /\ k.model # 0 /\ k.tok = r.tok
  /\ stored' = (stored \ {r}) \cup {[r EXCEPT !.model = k.model, !.cost = k.cost]}
  /\ drifted' = TRUE /\ doubt' = (page # <<>>)
  /\ Writing(k.cost)
  /\ UNCHANGED <<dayCost, zone, instant, page, pages>>

RebuildCache ==
  /\ drifted
  /\ dayCost' = Rebuilt(stored, zone) /\ drifted' = FALSE
  /\ UNCHANGED <<stored, zone, instant, page, written, doubt, writes, pages>>

\* The process starts again in another zone, and opens the database.
Travel(z) ==
  /\ z # zone /\ zone' = z
  /\ dayCost' = IF DOMAIN dayCost = {} THEN Rebuilt(stored, z) ELSE dayCost
  /\ drifted' = (DOMAIN dayCost # {})
  /\ page' = <<>> /\ written' = 0 /\ doubt' = FALSE
  /\ writes < MaxWrites /\ writes' = writes + 1
  /\ UNCHANGED <<stored, instant, pages>>

LaterInstant ==
  /\ instant < LastInstant /\ instant' = instant + 1
  /\ UNCHANGED <<stored, dayCost, zone, drifted, page, written, doubt, writes, pages>>

CostsInitAt(t) ==
  /\ stored = {} /\ dayCost = <<>> /\ zone \in Zone /\ instant = t /\ drifted = FALSE
  /\ page = <<>> /\ written = 0 /\ doubt = FALSE /\ writes = 0 /\ pages = 0

CostsInit == CostsInitAt(0)

CostsNext ==
  \/ \E range \in PageRange : AskCosts(range)
  \/ AskStats
  \/ \E range \in PageRange : AskAnalytics(range)
  \/ \E range \in PageRange : AskExport(range)
  \/ \E range \in PageRange : AskReport(range)
  \/ \E i \in DOMAIN page : RunStatement(i)
  \/ Respond
  \/ \E k \in Kind, ts \in 0 .. LastInstant : InsertUsage(k, ts)
  \/ \E r \in stored : DeleteUsage(r)
  \/ \E r \in stored, k \in Kind : RepriceUsage(r, k)
  \/ RebuildCache
  \/ \E z \in Zone : Travel(z)
  \/ LaterInstant

-----------------------------------------------------------------------------
CostsTypeOK ==
  /\ \A r \in stored : /\ [sess |-> r.sess, model |-> r.model, tok |-> r.tok, cost |-> r.cost] \in Kind
                       /\ r.ts \in 0 .. LastInstant /\ r.copy \in 1 .. MaxRows
  /\ DOMAIN dayCost \subseteq Day /\ \A d \in DOMAIN dayCost : dayCost[d] \in Int
  /\ zone \in Zone /\ instant \in 0 .. LastInstant
  /\ {drifted, doubt} \subseteq BOOLEAN
  /\ \A i \in DOMAIN page : DOMAIN page[i] = {"by", "from", "to", "todo", "got"}
  /\ written \in Nat /\ writes \in 0 .. MaxWrites /\ pages \in 0 .. MaxPages

Distance(a, b) == IF a < b THEN b - a ELSE a - b

\* What the rows say to a query.
Truth(q) ==
  LET R == Between(q.from, q.to) IN Grouped(IF q.by = "session" THEN Joined(R) ELSE R, q.by)

\* Every number of a page whose statements have run is what the rows say,
\* by day, model or session, within what was written while it was served:
\* the windows that are read from the cache and corrected at their ends,
\* and those that are added up from the rows (query.go:873 and 1135).  A
\* cache that waits for its rebuild is no part of the claim.
PagesAddUp ==
  ~doubt =>
    \A i \in DOMAIN page :
      page[i].todo = <<>> =>
        LET truth == Truth(page[i])
        IN SumOn([x \in Keys(page[i].by) |-> Distance(page[i].got[x], truth[x])], Keys(page[i].by)) <= written
=============================================================================
