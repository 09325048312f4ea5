----------------------------- MODULE UsageStore -----------------------------
(***************************************************************************)
(* The token-usage half of internal/storage and the daemon steps that      *)
(* write it: token_usage rows, the running totals kept in the sessions     *)
(* table and the derived daily_cost_cache.  One SQLite statement or        *)
(* transaction is one action; everything a handler does in several         *)
(* statements is several actions, so other threads of the daemon and other *)
(* processes (tm clean) run in between.                                    *)
(*                                                                         *)
(* A total is the sum of what each row put into it, and every statement    *)
(* changes it row by row.  The model keeps the summands apart: tokIn[r] is *)
(* what source r contributes at this moment to total_input_tokens (and the *)
(* other token columns) of its session, costIn[r] to total_cost_usd, and   *)
(* cacheIn[r] to the daily_cost_cache row of its day.  Exact summands mean *)
(* exact sums, and no induction over sets is needed to say so.             *)
(***************************************************************************)
EXTENDS Integers

CONSTANTS
  Src,        \* source ids of token_usage events (never the empty string)
  Sess,       \* session ids
  CodexSess,  \* the sessions whose platform is codex
  Model,      \* model names
  NoModel,    \* the empty model column
  Worker,     \* goroutines running processEvent: batchConsumer, handleConn
  Main,       \* the goroutine running Start
  SessOf, TokOf, ModelOf, CostOf,  \* what the event of a source carries
  Reprice,    \* Reprice[r][m]: cost of r's tokens at model m's list price
  MaxFault    \* bound: crashes and failed statements in one behaviour

ASSUME UsageAssumption ==
  /\ CodexSess \subseteq Sess
  /\ NoModel \notin Model
  /\ Main \notin Worker
  /\ SessOf \in [Src -> Sess]
  /\ TokOf \in [Src -> Nat]
  /\ ModelOf \in [Src -> Model \cup {NoModel}]
  /\ CostOf \in [Src -> Nat]
  /\ Reprice \in [Src -> [Model -> Nat]]
  /\ MaxFault \in Nat

VARIABLES
  row,      \* row[r]: token_usage holds a row with source_id r
  model,    \* its model column
  cost,     \* its cost_usd column
  tokIn,    \* r's part of its session's token totals
  costIn,   \* r's part of its session's total_cost_usd
  cacheIn,  \* r's part of daily_cost_cache
  sess,     \* sess[s]: no row, status active, or status ended / stale
  queue,    \* sources handed to the BatchWriter and not yet flushed
  phase,    \* the daemon: down, the startup steps, or up
  todo,     \* the <<session, model>> list repairEmptyTokenModels walks
  job,      \* what each goroutine is in the middle of
  faults,   \* crashes and failed statements so far
  orphan,   \* history: sources inserted while their session had no row
  torn,     \* history: sessions whose reconciliation was cut short
  tornCache \* history: a reconciliation was cut short before its rebuild

rowVars  == <<row, model, cost>>
sumVars  == <<tokIn, costIn>>
runVars  == <<queue, phase, todo, job>>
histVars == <<orphan, torn, tornCache>>
vars == <<row, model, cost, tokIn, costIn, cacheIn, sess, queue, phase, todo,
          job, faults, orphan, torn, tornCache>>

Idle == [pc |-> "idle"]
Enqueuing(r) == [pc |-> "enqueue", src |-> r]
Reconciling(p, s, m, h) == [pc |-> p, sess |-> s, model |-> m, hit |-> h]
MovedTo(j, p, h) == Reconciling(p, j.sess, j.model, h)

\* The statements of reconcileCodexTokenModel, in order.
ReconcilePC == {"backfill", "rebuild", "recent", "rebuildRecent", "totals"}

Job == {Idle} \cup [pc : {"enqueue"}, src : Src]
       \cup [pc : ReconcilePC, sess : Sess, model : Model, hit : BOOLEAN]

Goroutine == Worker \cup {Main}

TypeOK ==
  /\ row \in [Src -> BOOLEAN]
  /\ model \in [Src -> Model \cup {NoModel}]
  /\ cost \in [Src -> Int]
  /\ tokIn \in [Src -> Int]
  /\ costIn \in [Src -> Int]
  /\ cacheIn \in [Src -> Int]
  /\ sess \in [Sess -> {"none", "active", "closed"}]
  /\ queue \in SUBSET Src
  /\ phase \in {"down", "prune", "list", "repair", "up"}
  /\ todo \in SUBSET (Sess \X Model)
  /\ job \in [Goroutine -> Job]
  /\ faults \in 0 .. MaxFault
  /\ orphan \in SUBSET Src
  /\ torn \in SUBSET Sess
  /\ tornCache \in BOOLEAN

Init ==
  /\ row = [r \in Src |-> FALSE]
  /\ model = [r \in Src |-> NoModel]
  /\ cost = [r \in Src |-> 0]
  /\ tokIn = [r \in Src |-> 0]
  /\ costIn = [r \in Src |-> 0]
  /\ cacheIn = [r \in Src |-> 0]
  /\ sess = [s \in Sess |-> "none"]
  /\ queue = {}
  /\ phase = "down"
  /\ todo = {}
  /\ job = [g \in Goroutine |-> Idle]
  /\ faults = 0
  /\ orphan = {}
  /\ torn = {}
  /\ tornCache = FALSE

-----------------------------------------------------------------------------
(* Statements.                                                             *)

Live(s) == sess[s] # "none"
RowsOf(s) == {r \in Src : SessOf[r] = s}
Becomes(g, j) == job' = [job EXCEPT ![g] = j]
Fault == faults < MaxFault /\ faults' = faults + 1

\* UpsertSession: creates the row, or reopens it unless the event is older
\* than the recorded end.  A new row starts with totals of zero.
UpsertSession(s) ==
  \E st \in {"active"} \cup ({sess[s]} \ {"none"}) : sess' = [sess EXCEPT ![s] = st]

\* Faulty variant: the totals are raised without looking at RowsAffected.
InsertBatchIgnoringDuplicates(B) ==
  /\ row' = [r \in Src |-> row[r] \/ r \in B]
  /\ model' = [r \in Src |-> IF r \in B THEN ModelOf[r] ELSE model[r]]
  /\ cost' = [r \in Src |-> IF r \in B THEN CostOf[r] ELSE cost[r]]
  /\ cacheIn' = [r \in Src |-> IF r \in B THEN CostOf[r] ELSE cacheIn[r]]
  /\ tokIn' = [r \in Src |-> tokIn[r] + IF r \in B THEN TokOf[r] ELSE 0]
  /\ costIn' = [r \in Src |-> IF r \in B THEN CostOf[r] ELSE costIn[r]]
  /\ UNCHANGED orphan

\* insertTokenUsageTx for every event of a batch, in one transaction:
\* INSERT OR IGNORE, then the cache and the totals for new rows only.  The
\* UPDATE of a session that has no row changes nothing.
InsertBatch(B) ==
  LET new == {r \in B : ~row[r]}
      counted == {r \in new : Live(SessOf[r])}
  IN  /\ row' = [r \in Src |-> row[r] \/ r \in B]
      /\ model' = [r \in Src |-> IF r \in new THEN ModelOf[r] ELSE model[r]]
      /\ cost' = [r \in Src |-> IF r \in new THEN CostOf[r] ELSE cost[r]]
      /\ cacheIn' = [r \in Src |-> cacheIn[r] + IF r \in new THEN CostOf[r] ELSE 0]
      /\ tokIn' = [r \in Src |-> tokIn[r] + IF r \in counted THEN TokOf[r] ELSE 0]
      /\ costIn' = [r \in Src |-> costIn[r] + IF r \in counted THEN CostOf[r] ELSE 0]
      /\ orphan' = orphan \cup (new \ counted)

\* UPDATE token_usage SET model, cost_usd for the rows in R.
RepriceRows(R, m) ==
  /\ model' = [r \in Src |-> IF r \in R THEN m ELSE model[r]]
  /\ cost' = [r \in Src |-> IF r \in R THEN Reprice[r][m] ELSE cost[r]]

\* rebuildDailyCostCache over the rows R the table holds by then.
RebuildDailyCostCache(R) ==
  /\ cacheIn' = [r \in Src |-> IF r \in R THEN cost[r] ELSE 0]
  /\ tornCache' = FALSE

\* UpdateSessionTokens: the totals of s recomputed from its rows.
RecomputeTotals(s) ==
  LET R == IF Live(s) THEN RowsOf(s) ELSE {}
  IN  /\ tokIn' = [r \in Src |->
                     IF r \in R THEN (IF row[r] THEN TokOf[r] ELSE 0) ELSE tokIn[r]]
      /\ costIn' = [r \in Src |->
                     IF r \in R THEN (IF row[r] THEN cost[r] ELSE 0) ELSE costIn[r]]
      /\ orphan' = orphan \ R
      /\ torn' = torn \ {s}

-----------------------------------------------------------------------------
(* processEvent on a token_usage event: upsert, then hand the event to the *)
(* BatchWriter.  Any source may arrive at any time: offsets live in memory, *)
(* so a restart or a truncated log re-emits what was already stored.  A    *)
(* failed upsert is logged and the event goes on.                          *)

TokenEvent(w, r) ==
  /\ phase = "up" /\ job[w] = Idle
  /\ Becomes(w, Enqueuing(r))
  /\ \/ UpsertSession(SessOf[r]) /\ UNCHANGED faults
     \/ Fault /\ UNCHANGED sess
  /\ UNCHANGED <<rowVars, sumVars, cacheIn, queue, phase, todo, histVars>>

Enqueue(w) ==
  /\ job[w].pc = "enqueue"
  /\ queue' = queue \cup {job[w].src}
  /\ Becomes(w, Idle)
  /\ UNCHANGED <<rowVars, sumVars, cacheIn, sess, phase, todo, faults, histVars>>

\* BatchWriter.flush: the batch leaves the buffer whether or not the
\* transaction commits; an error is only logged.
Flush(B) ==
  /\ phase = "up" /\ B # {} /\ B \subseteq queue
  /\ queue' = queue \ B
  /\ \/ InsertBatch(B) /\ UNCHANGED faults
     \/ Fault /\ UNCHANGED <<rowVars, sumVars, cacheIn, orphan>>
  /\ UNCHANGED <<sess, phase, todo, job, torn, tornCache>>

\* Faulty variant: the day's cost keeps what the deleted row put into it.
DeleteKeepingDailyCost(r) ==
  /\ phase = "up" /\ row[r] /\ SessOf[r] \notin CodexSess
  /\ row' = [row EXCEPT ![r] = FALSE]
  /\ tokIn' = [tokIn EXCEPT ![r] = @ - TokOf[r]]
  /\ costIn' = [costIn EXCEPT ![r] = @ - cost[r]]
  /\ UNCHANGED <<model, cost, cacheIn, sess, runVars, faults, histVars>>

\* DeleteTokenUsageBySourceID, called by the Claude watcher when a better
\* candidate replaces a source it has already emitted.
DeleteTokenUsageBySourceID(r) ==
  /\ phase = "up" /\ row[r] /\ SessOf[r] \notin CodexSess
  /\ row' = [row EXCEPT ![r] = FALSE]
  /\ cacheIn' = [cacheIn EXCEPT ![r] = @ - cost[r]]
  /\ IF Live(SessOf[r])
     THEN /\ tokIn' = [tokIn EXCEPT ![r] = @ - TokOf[r]]
          /\ costIn' = [costIn EXCEPT ![r] = @ - cost[r]]
     ELSE UNCHANGED sumVars
  /\ UNCHANGED <<model, cost, sess, runVars, faults, histVars>>

\* Faulty variant: a status the rest of the code does not know.
EndSessionUnknownStatus(s) ==
  /\ phase = "up" /\ sess[s] = "active"
  /\ sess' = [sess EXCEPT ![s] = "end"]
  /\ UNCHANGED <<rowVars, sumVars, cacheIn, runVars, faults, histVars>>

\* EndSession and MarkStaleSessionsEnded, as far as CleanOldSessions sees
\* them: the session stops being active.
EndSession(s) ==
  /\ phase = "up" /\ sess[s] = "active"
  /\ sess' = [sess EXCEPT ![s] = "closed"]
  /\ UNCHANGED <<rowVars, sumVars, cacheIn, runVars, faults, histVars>>

\* CleanOldSessions, run by tm clean in a process of its own whatever the
\* daemon is doing; how old a closed session is is left open.
CleanOldSessions(S) ==
  /\ S # {} /\ \A s \in S : sess[s] = "closed"
  /\ row' = [r \in Src |-> row[r] /\ SessOf[r] \notin S]
  /\ sess' = [s \in Sess |-> IF s \in S THEN "none" ELSE sess[s]]
  /\ tokIn' = [r \in Src |-> IF SessOf[r] \in S THEN 0 ELSE tokIn[r]]
  /\ costIn' = [r \in Src |-> IF SessOf[r] \in S THEN 0 ELSE costIn[r]]
  /\ RebuildDailyCostCache({r \in Src : row[r] /\ SessOf[r] \notin S})
  /\ orphan' = {r \in orphan : SessOf[r] \notin S}
  /\ torn' = torn \ S
  /\ UNCHANGED <<model, cost, runVars, faults>>

-----------------------------------------------------------------------------
(* reconcileCodexTokenModel, statement by statement.  A session_update of  *)
(* a codex session upserts it and names its model.                         *)

ModelEvent(w, s, m) ==
  /\ phase = "up" /\ job[w] = Idle
  /\ \/ UpsertSession(s) /\ UNCHANGED faults
     \/ Fault /\ UNCHANGED sess
  /\ Becomes(w, Reconciling("backfill", s, m, FALSE))
  /\ UNCHANGED <<rowVars, sumVars, cacheIn, queue, phase, todo, histVars>>

\* Faulty variant: the rows touched by the first backfill are not added up.
AfterBackfillUncounted(g, j, hit) ==
  IF hit THEN MovedTo(j, "rebuild", FALSE)
  ELSE IF g = Main THEN Idle ELSE MovedTo(j, "recent", j.hit)

\* Where the next statement is after a backfill that touched rows or not;
\* the startup repair has no second backfill.
AfterBackfill(g, j, hit) ==
  IF hit THEN MovedTo(j, "rebuild", TRUE)
  ELSE IF g = Main THEN Idle ELSE MovedTo(j, "recent", j.hit)

BackfillEmptyTokenModel(g) ==
  LET j == job[g]
      R == {r \in RowsOf(j.sess) : row[r] /\ model[r] = NoModel}
  IN  /\ j.pc = "backfill"
      /\ RepriceRows(R, j.model)
      /\ Becomes(g, AfterBackfill(g, j, R # {}))
      /\ UNCHANGED <<row, sumVars, cacheIn, sess, queue, phase, todo, faults, histVars>>

\* BackfillRecentCodexTokenModel: at most one row, priced at zero or without
\* a model; or none, when the context is old or nothing lies in its window.
BackfillRecentCodexTokenModel(w) ==
  LET j == job[w]
      Candidate == {r \in RowsOf(j.sess) : /\ row[r] /\ model[r] # j.model
                                           /\ model[r] = NoModel \/ cost[r] = 0}
  IN  /\ j.pc = "recent"
      /\ \/ /\ Becomes(w, IF j.hit THEN MovedTo(j, "totals", j.hit) ELSE Idle)
            /\ UNCHANGED rowVars
         \/ \E r \in Candidate :
              /\ RepriceRows({r}, j.model)
              /\ Becomes(w, MovedTo(j, "rebuildRecent", TRUE))
              /\ UNCHANGED row
      /\ UNCHANGED <<sumVars, cacheIn, sess, queue, phase, todo, faults, histVars>>

AfterRebuild(g, j) ==
  IF j.pc = "rebuild" /\ g # Main THEN MovedTo(j, "recent", j.hit)
  ELSE IF j.hit THEN MovedTo(j, "totals", j.hit) ELSE Idle

Rebuild(g) ==
  /\ job[g].pc \in {"rebuild", "rebuildRecent"}
  /\ RebuildDailyCostCache({r \in Src : row[r]})
  /\ Becomes(g, AfterRebuild(g, job[g]))
  /\ UNCHANGED <<rowVars, sumVars, sess, queue, phase, todo, faults, orphan, torn>>

UpdateSessionTokens(g) ==
  /\ job[g].pc = "totals"
  /\ RecomputeTotals(job[g].sess)
  /\ Becomes(g, Idle)
  /\ UNCHANGED <<rowVars, cacheIn, sess, queue, phase, todo, faults, tornCache>>

-----------------------------------------------------------------------------
(* Faults and restarts.                                                    *)

\* Rows were repriced and the totals (or the cache) still miss it.
OwesTotals(g, s) ==
  /\ job[g].pc \in ReconcilePC \ {"backfill"}
  /\ job[g].sess = s
  /\ job[g].hit
OwesRebuild(g) == job[g].pc \in {"rebuild", "rebuildRecent"}

\* A statement of a reconciliation fails: the handler returns the error,
\* which is logged, and nothing takes the reconciliation up again.
StatementFails(g) ==
  /\ job[g].pc \in ReconcilePC
  /\ Fault
  /\ Becomes(g, Idle)
  /\ torn' = torn \cup {s \in Sess : OwesTotals(g, s)}
  /\ tornCache' = (tornCache \/ OwesRebuild(g))
  /\ UNCHANGED <<rowVars, sumVars, cacheIn, sess, queue, phase, todo, orphan>>

Crash ==
  /\ phase # "down"
  /\ Fault
  /\ phase' = "down" /\ queue' = {} /\ todo' = {}
  /\ job' = [g \in Goroutine |-> Idle]
  /\ torn' = torn \cup {s \in Sess : \E g \in Goroutine : OwesTotals(g, s)}
  /\ tornCache' = (tornCache \/ \E g \in Goroutine : OwesRebuild(g))
  /\ UNCHANGED <<rowVars, sumVars, cacheIn, sess, orphan>>

\* Daemon.Stop waits for every goroutine and for the final flush.
Stop ==
  /\ phase = "up" /\ queue = {} /\ \A g \in Goroutine : job[g] = Idle
  /\ phase' = "down"
  /\ UNCHANGED <<rowVars, sumVars, cacheIn, sess, queue, todo, job, faults, histVars>>

\* Start: MarkStaleSessionsEnded closes some of the active sessions.
StartStaleSweep(S) ==
  /\ phase = "down"
  /\ S \subseteq {s \in Sess : sess[s] = "active"}
  /\ sess' = [s \in Sess |-> IF s \in S THEN "closed" ELSE sess[s]]
  /\ phase' = "prune"
  /\ UNCHANGED <<rowVars, sumVars, cacheIn, queue, todo, job, faults, histVars>>

\* PruneEmptyCodexSessions deletes codex sessions without tokens and tool
\* calls (S: those of them that have no tool call); token rows stay.
PruneEmptyCodexSessions(S) ==
  /\ phase = "prune"
  /\ S \subseteq {s \in CodexSess : Live(s) /\ \A r \in RowsOf(s) : tokIn[r] = 0}
  /\ sess' = [s \in Sess |-> IF s \in S THEN "none" ELSE sess[s]]
  /\ costIn' = [r \in Src |-> IF SessOf[r] \in S THEN 0 ELSE costIn[r]]
  /\ orphan' = {r \in orphan : SessOf[r] \notin S}
               \cup {r \in Src : SessOf[r] \in S /\ row[r]}
  /\ torn' = torn \ S
  /\ phase' = "list"
  /\ UNCHANGED <<rowVars, tokIn, cacheIn, queue, todo, job, faults, tornCache>>

\* ListEmptyModelSessions: the codex sessions with a row without a model,
\* when the other rows agree on one model.
RealModels(s) == {model[r] : r \in {x \in RowsOf(s) : row[x]}} \ {NoModel}

ListEmptyModelSessions ==
  /\ phase = "list"
  /\ todo' = {p \in CodexSess \X Model :
                /\ Live(p[1]) /\ RealModels(p[1]) = {p[2]}
                /\ \E r \in RowsOf(p[1]) : row[r] /\ model[r] = NoModel}
  /\ phase' = "repair"
  /\ UNCHANGED <<rowVars, sumVars, cacheIn, sess, queue, job, faults, histVars>>

RepairEmptyTokenModels(s, m) ==
  /\ phase = "repair" /\ job[Main] = Idle /\ <<s, m>> \in todo
  /\ todo' = todo \ {<<s, m>>}
  /\ Becomes(Main, Reconciling("backfill", s, m, FALSE))
  /\ UNCHANGED <<rowVars, sumVars, cacheIn, sess, queue, phase, faults, histVars>>

StartDone ==
  /\ phase = "repair" /\ todo = {} /\ job[Main] = Idle
  /\ phase' = "up"
  /\ UNCHANGED <<rowVars, sumVars, cacheIn, sess, queue, todo, job, faults, histVars>>

-----------------------------------------------------------------------------
WorkerStep(w) ==
  \/ \E r \in Src : TokenEvent(w, r)
  \/ Enqueue(w)
  \/ \E s \in CodexSess, m \in Model : ModelEvent(w, s, m)
  \/ BackfillRecentCodexTokenModel(w)

ReconcileStep(g) ==
  \/ BackfillEmptyTokenModel(g)
  \/ Rebuild(g)
  \/ UpdateSessionTokens(g)
  \/ StatementFails(g)

StartStep ==
  \/ \E S \in SUBSET Sess : StartStaleSweep(S) \/ PruneEmptyCodexSessions(S)
  \/ ListEmptyModelSessions
  \/ \E s \in CodexSess, m \in Model : RepairEmptyTokenModels(s, m)
  \/ StartDone

Next ==
  \/ \E w \in Worker : WorkerStep(w)
  \/ \E g \in Goroutine : ReconcileStep(g)
  \/ \E B \in SUBSET Src : Flush(B)
  \/ \E r \in Src : DeleteTokenUsageBySourceID(r)
  \/ \E s \in Sess : EndSession(s)
  \/ \E S \in SUBSET Sess : CleanOldSessions(S)
  \/ Crash
  \/ Stop
  \/ StartStep

Spec == Init /\ [][Next]_vars

-----------------------------------------------------------------------------
(* Properties.                                                             *)

OwedTotals(s) == \E g \in Goroutine : OwesTotals(g, s)
OwedRebuild == \E g \in Goroutine : OwesRebuild(g)

\* Every token row is counted exactly once in its session's token totals,
\* however often the watchers re-emit it and whatever deletes, cleans and
\* restarts run in between (db.go insertTokenUsageTx, UpdateSessionTokens,
\* token_usage_delete.go).  Only a row that was inserted while its session
\* had no row is missing, until the totals are recomputed.
TokensExact ==
  \A r \in Src \ orphan :
    tokIn[r] = IF row[r] /\ Live(SessOf[r]) THEN TokOf[r] ELSE 0

\* The same for total_cost_usd, once no reconciliation of the session is
\* between its UPDATE of the rows and its UpdateSessionTokens, and none was
\* cut short there (daemon.go reconcileCodexTokenModel).
CostsExact ==
  \A r \in Src \ orphan :
    SessOf[r] \notin torn /\ ~OwedTotals(SessOf[r]) =>
      costIn[r] = IF row[r] /\ Live(SessOf[r]) THEN cost[r] ELSE 0

\* daily_cost_cache is the sum of the rows, orphaned rows included, once no
\* reconciliation stands between its UPDATE and its rebuild and none was cut
\* short there: increments, subtractions and rebuilds agree in any order.
CacheExact ==
  ~tornCache /\ ~OwedRebuild =>
    \A r \in Src : cacheIn[r] = IF row[r] THEN cost[r] ELSE 0

\* What the three need to be inductive: a session without a row has nothing
\* in its totals, and a token row without a session row is on record as
\* orphaned before an upsert can bring the session back with totals of zero.
AbsentSessions ==
  \A r \in Src : ~Live(SessOf[r]) =>
    /\ tokIn[r] = 0 /\ costIn[r] = 0
    /\ row[r] => r \in orphan

StoreInv == TokensExact /\ CostsExact /\ CacheExact /\ AbsentSessions

\* aggregate.go reads daily, weekly and monthly sums without a JOIN to
\* sessions because "the daemon's invariant guarantees upsert session before
\* insert token_usage": no token row is without its session row.
JoinElisionSafe == \A r \in Src : row[r] => Live(SessOf[r])

=============================================================================
