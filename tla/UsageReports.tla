---------------------------- MODULE UsageReports ----------------------------
(***************************************************************************)
(* The usage reports of the command line.  The same numbers are added up   *)
(* in four places: by SQLite, where the rows are grouped (--no-scan and    *)
(* the reports of one source); in memory, together with what the readers   *)
(* of other agents found (the default); entry by entry by project          *)
(* (--instances); and for one session.  What a row costs follows --mode.   *)
(* The four kinds of tokens are one number here, and the speed of a model  *)
(* is in its price.                                                        *)
(***************************************************************************)
EXTENDS CostQueries

CONSTANTS
  PlatformOf, CwdOf,  \* columns of sessions
  Price,              \* model |-> [base, above]; models it does not know are missing
  Tier,               \* tokens of a request at the base price, if above is not 0
  DropsEnd,           \* sessions of the readers that leave out an entry exactly at the end
  MaxScanned          \* bound on what the readers find

\* No price is negative, and the empty name has none.
ASSUME PricesAssumption ==
  /\ \A k \in Kind : k.model \in Nat
  /\ \A m \in DOMAIN Price : m # 0 /\ Price[m].base \in Nat /\ Price[m].above \in Nat
  /\ {Tier, MaxScanned} \subseteq Nat

VARIABLE scanned      \* entries of the other agents' readers

AnyDate == -1
UTC == [first |-> 0, then |-> 0, from |-> 0]
SumTokens(R) == SumOn([r \in R |-> r.tok], R)
Least(models) == CHOOSE m \in models : \A x \in models : m <= x

-----------------------------------------------------------------------------
(* Prices.                                                                 *)

CalculateCost(p, tok) ==
  IF p.above = 0 \/ tok <= Tier THEN tok * p.base ELSE Tier * p.base + (tok - Tier) * p.above

\* A group is priced as if its first model had used all of it.
recalculateCost(g) ==
  IF g.models = {} \/ Least(g.models) \notin DOMAIN Price THEN g.cost
  ELSE CalculateCost(Price[Least(g.models)], g.tok)

CostOfGroup(g, mode) ==
  IF mode = "calculate" \/ (mode = "auto" /\ g.cost = 0) THEN recalculateCost(g) ELSE g.cost

applyPricingMode(r, mode) ==
  IF mode = "display" \/ (mode = "auto" /\ r.cost > 0) \/ r.model \notin DOMAIN Price THEN r
  ELSE [r EXCEPT !.cost = CalculateCost(Price[r.model], r.tok)]

-----------------------------------------------------------------------------
(* Which rows: the days of --since and --until are UTC days, and the end   *)
(* of the last one belongs to the window.                                  *)

parseDateFlag(d) == IF d = AnyDate THEN AnyDate ELSE d * DayLen
ParseDateFlagUntil(d) == IF d = AnyDate THEN AnyDate ELSE parseDateFlag(d) + DayLen

InWindow(r, a) ==
  LET since == parseDateFlag(a.since)
      until == ParseDateFlagUntil(a.until)
  IN (since # AnyDate => r.ts >= since) /\ (until # AnyDate => r.ts <= until)

Filters(r, a) ==
  /\ InWindow(r, a)
  /\ a.platform # "" => PlatformOf[r.sess] = a.platform
  /\ a.project # "" => CwdOf[r.sess] = a.project

listUsageForBlocks(a) == {r \in Joined(stored) : Filters(r, a)}

\* Faulty variant: the end is left out of what every reader found.
fromAdaptersBefore(a) ==
  {e \in scanned : InWindow(e, a) /\ e.ts # ParseDateFlagUntil(a.until)}

\* What the readers found for a report.  They are given its window, and seven of
\* them leave out an entry exactly at the end; the filter over what they return
\* lets it pass, and comes too late.
fromAdapters(a) ==
  {e \in scanned : InWindow(e, a) /\ (e.sess \in DropsEnd => e.ts # ParseDateFlagUntil(a.until))}

\* Sessions are joined only where they are needed.
UsageOf(a) ==
  IF a.project # "" \/ a.platform # "" \/ a.bucket = "session" THEN listUsageForBlocks(a)
  ELSE {r \in stored : InWindow(r, a)}

-----------------------------------------------------------------------------
(* Groups.  SQLite shifts every time by the offset the zone has now.       *)

Calendar(bucket, d, start) ==
  CASE bucket = "day" -> d [] bucket = "week" -> WeekStart(d, start) [] bucket = "month" -> MonthStart(d)

bucketExpr(a, r) ==
  IF a.bucket = "session" THEN r.sess
  ELSE LET offset == IF instant < a.loc.from THEN a.loc.first ELSE a.loc.then
       IN Calendar(a.bucket, (r.ts + offset) \div DayLen, a.start)

\* Faulty variant: weeks start on the day after the one asked for.
bucketKeyLater(a, r) ==
  IF a.bucket = "session" THEN r.sess ELSE Calendar(a.bucket, LocalDay(a.loc, r.ts), a.start + 1)

bucketKey(a, r) ==
  IF a.bucket = "session" THEN r.sess ELSE Calendar(a.bucket, LocalDay(a.loc, r.ts), a.start)

Group(key, R) ==
  [bucket |-> key, models |-> {r.model : r \in R} \ {0}, tok |-> SumTokens(R), cost |-> Cost(R),
   last |-> Max({r.ts : r \in R})]

GroupRows(R, KeyIn(_), breakdown) ==
  LET Key(r) == <<KeyIn(r), IF breakdown THEN r.model ELSE 0>>
  IN {Group(key[1], {r \in R : Key(r) = key}) : key \in {Key(r) : r \in R}}

AggregateUsage(a, breakdown) == GroupRows(UsageOf(a), LAMBDA r : bucketExpr(a, r), breakdown)
aggregateEntriesInMemory(R, a, breakdown) == GroupRows(R, LAMBDA r : bucketKey(a, r), breakdown)

\* convertAggregateRows and convertSessionRows: one line for each bucket.
Fold(groups, mode) ==
  {LET G == {g \in groups : g.bucket = b}
   IN [bucket |-> b, models |-> UNION {g.models : g \in G}, tok |-> SumTokens(G),
       cost |-> SumOn([g \in G |-> CostOfGroup(g, mode)], G), last |-> Max({g.last : g \in G})] :
   b \in {g.bucket : g \in groups}}

ByModel(a) == a.breakdown \/ a.mode = "auto"

RunAggregate(a) == Fold(AggregateUsage(a, ByModel(a)), a.mode)
RunSession(a) == RunAggregate([a EXCEPT !.bucket = "session"])
RunAggregateAllSource(a) ==
  Fold(aggregateEntriesInMemory(listUsageForBlocks(a) \cup fromAdapters(a), a, ByModel(a)), a.mode)

\* --instances; a session is no bucket here.
RunInstances(a) ==
  LET b == IF a.bucket = "session" THEN [a EXCEPT !.bucket = "day"] ELSE a
  IN GroupRows({applyPricingMode(r, a.mode) : r \in listUsageForBlocks(a)},
               LAMBDA r : <<bucketKey(b, r), CwdOf[r.sess]>>, FALSE)

runSessionDetail(s, a) == {applyPricingMode(r, a.mode) : r \in {x \in listUsageForBlocks(a) : x.sess = s}}

-----------------------------------------------------------------------------
Scan(k, ts) ==
  /\ Cardinality(scanned) < MaxScanned
  /\ scanned' = scanned \cup {RowOf(k, ts, scanned, MaxScanned)}
  /\ UNCHANGED costVars

\* Rows of any age; what the clock says decides the offset of a zone only.  What
\* the readers find is of sessions the database does not know.
ReportsInit == CostsInitAt(LastInstant) /\ scanned = {}
ReportsNext ==
  \/ \E k \in Kind, ts \in 0 .. LastInstant :
       k.sess \notin DropsEnd /\ InsertUsage(k, ts) /\ UNCHANGED scanned
  \/ \E k \in Kind, ts \in 0 .. LastInstant : k.sess \notin Listed /\ Scan(k, ts)

-----------------------------------------------------------------------------
ScannedTypeOK == \A e \in scanned : e.ts \in 0 .. LastInstant /\ e.copy \in 1 .. MaxScanned

Args ==
  [bucket : {"day", "week", "month", "session"}, since : {AnyDate}, until : {AnyDate}, platform : {""},
   project : {""}, breakdown : {FALSE}, mode : {"display"}, loc : Zone \cup {UTC}, start : {1}]
InUTC(bucket) == CHOOSE a \in Args : a.bucket = bucket /\ a.loc = UTC
OneDay(a, d) == [a EXCEPT !.since = d, !.until = d]
ReportDay == 0 .. LastInstant \div DayLen
OffsetAt(z, t) == IF t < z.from THEN z.first ELSE z.then

\* SQLite and the loop in memory group the same rows alike, whatever the
\* bucket, the zone and the window, unless the zone has changed its offset
\* since (aggregate.go:80); then, and for rows of unknown sessions, the
\* sums still differ by those rows only, and what the readers found is added
\* to the rows.
SqlMatchesMemory ==
  \A args \in Args, platform \in {"", "codex"} :
    \A a \in {[args EXCEPT !.platform = platform]}
             \cup {OneDay([args EXCEPT !.platform = platform], d) : d \in ReportDay} :
      LET byModel == platform = ""
          sql == AggregateUsage(a, byModel)
          memory == aggregateEntriesInMemory(listUsageForBlocks(a), a, byModel)
          sameOffset == \A r \in stored : OffsetAt(a.loc, r.ts) = OffsetAt(a.loc, instant)
          missing == IF platform # "" \/ a.bucket = "session" THEN {}
                     ELSE {r \in stored \ Joined(stored) : InWindow(r, a)}
      IN /\ (sameOffset \/ a.bucket = "session") /\ missing = {} => sql = memory
         /\ SumTokens(sql) = SumTokens(memory) + SumTokens(missing)
         /\ SumTokens(RunAggregateAllSource(a)) =
              SumTokens(memory) + SumTokens(fromAdapters(a))

\* Groups whose rows all have a cost or all lack one, and the tokens of a
\* model that stay below its tier together.
Uniform(R, bucket) ==
  \A r, q \in R : r.model = q.model /\ bucketExpr(InUTC(bucket), r) = bucketExpr(InUTC(bucket), q)
                  => (r.cost = 0) = (q.cost = 0)
Small(R) ==
  \A m \in DOMAIN Price : Price[m].above = 0 \/ SumTokens({r \in R : r.model = m}) <= Tier

\* What a report charges is what its rows cost one by one: always as
\* displayed; in mode auto unless rows with and without a cost are grouped,
\* and then never more; recalculated, if models are kept apart; all that
\* below the tier.  The comment of convertAggregateRows (aggregate.go:233-239)
\* claims it of mode auto without the exception.
PricedAlike ==
  LET R == Joined(stored)
      OneByOne(mode) == SumOn([r \in R |-> applyPricingMode(r, mode).cost], R)
  IN stored = R /\ scanned = {} =>
       \A bucket \in {"day", "session"}, byModel \in BOOLEAN :
         LET a(mode) == [InUTC(bucket) EXCEPT !.mode = mode, !.breakdown = byModel]
         IN /\ Cost(RunAggregate(a("display"))) = OneByOne("display")
            /\ Cost(RunInstances(a("auto"))) = OneByOne("auto")
            /\ Small(R) => /\ Cost(RunAggregate(a("auto"))) <= OneByOne("auto")
                           /\ Uniform(R, bucket) => Cost(RunAggregate(a("auto"))) = OneByOne("auto")
                           /\ byModel => Cost(RunAggregate(a("calculate"))) = OneByOne("calculate")
            /\ \A s \in SessionId :
                 LET line == {l \in RunSession(a("display")) : l.bucket = s}
                     detail == runSessionDetail(s, a("display"))
                 IN Cost(detail) = Cost(line) /\ SumTokens(detail) = SumTokens(line)

\* A day that is asked for is complete, and all else its report shows lies
\* at the midnight that ends it, and is shown again for the day after: the
\* rows, and the entries of the readers that do not leave out the end.
DaysComplete ==
  \A d \in ReportDay :
    LET all == [InUTC("day") EXCEPT !.mode = "auto"]
        day == RunAggregateAllSource(OneDay(all, d))
    IN /\ {l \in day : l.bucket = d} = {l \in RunAggregateAllSource(all) : l.bucket = d}
       /\ SumTokens({l \in day : l.bucket # d})
            = SumTokens({r \in Joined(stored) \cup {e \in scanned : e.sess \notin DropsEnd} :
                           r.ts = (d + 1) * DayLen})

\* However a report adds up the rows, it shows the same.
ReportsAgree == SqlMatchesMemory /\ PricedAlike /\ DaysComplete
=============================================================================
