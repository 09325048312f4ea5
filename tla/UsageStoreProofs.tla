-------------------------- MODULE UsageStoreProofs --------------------------
(***************************************************************************)
(* The totals of UsageStore are exact for every number of sources,         *)
(* sessions, models and goroutines and any number of faults.               *)
(***************************************************************************)
EXTENDS UsageStore, TLAPS

(***************************************************************************)
(* Type correctness.                                                       *)
(***************************************************************************)

\* Each job a goroutine can be given is one of Job.
LEMMA JobTypes ==
  /\ Idle \in Job
  /\ \A r \in Src : Enqueuing(r) \in Job
  /\ \A s \in Sess, m \in Model : Reconciling("backfill", s, m, FALSE) \in Job
BY DEF Job, Idle, Enqueuing, Reconciling, ReconcilePC

\* A job at a reconciliation statement stays one when it moves on.
LEMMA ReconcileJob ==
  ASSUME NEW j \in Job, j.pc \in ReconcilePC
  PROVE  /\ j.sess \in Sess /\ j.model \in Model /\ j.hit \in BOOLEAN
         /\ \A p \in ReconcilePC, h \in BOOLEAN : MovedTo(j, p, h) \in Job
<1>1. j \in [pc : ReconcilePC, sess : Sess, model : Model, hit : BOOLEAN]
  BY DEF Job, Idle, ReconcilePC
<1>2. QED
  BY <1>1 DEF Job, MovedTo, Reconciling

\* A job at the enqueue step names the source it carries.
LEMMA EnqueueJob ==
  ASSUME NEW j \in Job, j.pc = "enqueue"
  PROVE  j.src \in Src
BY DEF Job, Idle, ReconcilePC

\* Handing a goroutine a job of Job keeps the type of job.
LEMMA BecomesType ==
  ASSUME TypeOK, NEW g \in Goroutine, NEW j \in Job, Becomes(g, j)
  PROVE  job' \in [Goroutine -> Job]
BY DEF TypeOK, Becomes

\* A fault stays within its bound.
LEMMA FaultType == ASSUME TypeOK, Fault PROVE faults' \in 0 .. MaxFault
BY UsageAssumption DEF TypeOK, Fault

\* The transaction of a batch keeps the columns it writes in their types.
LEMMA InsertBatchType ==
  ASSUME TypeOK, NEW B \in SUBSET Src, InsertBatch(B)
  PROVE  /\ row' \in [Src -> BOOLEAN]
         /\ model' \in [Src -> Model \cup {NoModel}]
         /\ cost' \in [Src -> Int]
         /\ tokIn' \in [Src -> Int]
         /\ costIn' \in [Src -> Int]
         /\ cacheIn' \in [Src -> Int]
         /\ orphan' \in SUBSET Src
BY UsageAssumption DEF TypeOK, InsertBatch

\* Repricing keeps the two columns it writes in their types.
LEMMA RepriceType ==
  ASSUME TypeOK, NEW R \in SUBSET Src, NEW m \in Model, RepriceRows(R, m)
  PROVE  model' \in [Src -> Model \cup {NoModel}] /\ cost' \in [Src -> Int]
BY UsageAssumption DEF TypeOK, RepriceRows

\* An upsert keeps the sessions table in its type.
LEMMA UpsertType ==
  ASSUME TypeOK, NEW s \in Sess, UpsertSession(s)
  PROVE  sess' \in [Sess -> {"none", "active", "closed"}]
BY DEF TypeOK, UpsertSession

LEMMA InitTypeOK == Init => TypeOK
<1> SUFFICES ASSUME Init PROVE TypeOK
  OBVIOUS
<1>1. 0 \in 0 .. MaxFault
  BY UsageAssumption
<1>2. job \in [Goroutine -> Job]
  BY JobTypes DEF Init
<1>3. tornCache \in BOOLEAN
  BY DEF Init
<1>4. row \in [Src -> BOOLEAN]
  BY DEF Init
<1>5. /\ model \in [Src -> Model \cup {NoModel}] /\ cost \in [Src -> Int]
      /\ tokIn \in [Src -> Int] /\ costIn \in [Src -> Int] /\ cacheIn \in [Src -> Int]
  BY DEF Init
<1>6. /\ sess \in [Sess -> {"none", "active", "closed"}] /\ queue \in SUBSET Src
      /\ phase = "down" /\ todo = {} /\ faults = 0 /\ orphan = {} /\ torn = {}
  BY DEF Init
<1> QED
  BY <1>1, <1>2, <1>3, <1>4, <1>5, <1>6 DEF TypeOK

USE DEF rowVars, sumVars, runVars, histVars

LEMMA NextTypeOK == TypeOK /\ [Next]_vars => TypeOK'
<1> SUFFICES ASSUME TypeOK, [Next]_vars PROVE TypeOK'
  OBVIOUS
<1>1. ASSUME NEW w \in Worker, NEW r \in Src, TokenEvent(w, r) PROVE TypeOK'
  <2>1. job' \in [Goroutine -> Job]
    BY <1>1, JobTypes, BecomesType DEF TokenEvent, Goroutine
  <2>2. sess' \in [Sess -> {"none", "active", "closed"}]
    BY <1>1, UsageAssumption, UpsertType DEF TokenEvent, TypeOK
  <2>3. faults' \in 0 .. MaxFault
    BY <1>1, FaultType DEF TokenEvent, TypeOK
  <2> QED
    BY <1>1, <2>1, <2>2, <2>3 DEF TokenEvent, TypeOK
<1>2. ASSUME NEW w \in Worker, Enqueue(w) PROVE TypeOK'
  <2>1. job[w] \in Job /\ job[w].src \in Src
    BY <1>2, EnqueueJob DEF Enqueue, TypeOK, Goroutine
  <2>2. job' \in [Goroutine -> Job]
    BY <1>2, JobTypes, BecomesType DEF Enqueue, Goroutine
  <2> QED
    BY <1>2, <2>1, <2>2 DEF Enqueue, TypeOK
<1>3. ASSUME NEW w \in Worker, NEW s \in CodexSess, NEW m \in Model, ModelEvent(w, s, m)
      PROVE  TypeOK'
  <2>0. s \in Sess
    BY UsageAssumption
  <2>1. job' \in [Goroutine -> Job]
    BY <1>3, <2>0, JobTypes, BecomesType DEF ModelEvent, Goroutine
  <2>2. sess' \in [Sess -> {"none", "active", "closed"}]
    BY <1>3, <2>0, UpsertType DEF ModelEvent, TypeOK
  <2>3. faults' \in 0 .. MaxFault
    BY <1>3, FaultType DEF ModelEvent, TypeOK
  <2> QED
    BY <1>3, <2>1, <2>2, <2>3 DEF ModelEvent, TypeOK
<1>4. ASSUME NEW w \in Worker, BackfillRecentCodexTokenModel(w) PROVE TypeOK'
  <2> DEFINE j == job[w]
  <2>1. /\ j.model \in Model /\ j.hit \in BOOLEAN
        /\ \A p \in ReconcilePC, h \in BOOLEAN : MovedTo(j, p, h) \in Job
    BY <1>4, ReconcileJob DEF BackfillRecentCodexTokenModel, TypeOK, Goroutine, ReconcilePC
  <2>2. CASE /\ Becomes(w, IF j.hit THEN MovedTo(j, "totals", j.hit) ELSE Idle)
             /\ UNCHANGED rowVars
    <3>1. (IF j.hit THEN MovedTo(j, "totals", j.hit) ELSE Idle) \in Job
      BY <2>1, JobTypes DEF ReconcilePC
    <3>2. job' \in [Goroutine -> Job]
      BY <2>2, <3>1, BecomesType DEF Goroutine
    <3> QED
      BY <1>4, <2>2, <3>2 DEF BackfillRecentCodexTokenModel, TypeOK
  <2>3. ASSUME NEW r \in Src, RepriceRows({r}, j.model), row' = row,
               Becomes(w, MovedTo(j, "rebuildRecent", TRUE))
        PROVE  TypeOK'
    <3>1. job' \in [Goroutine -> Job]
      BY <2>1, <2>3, BecomesType DEF Goroutine, ReconcilePC
    <3>2. model' \in [Src -> Model \cup {NoModel}] /\ cost' \in [Src -> Int]
      BY <2>1, <2>3, RepriceType
    <3> QED
      BY <1>4, <2>3, <3>1, <3>2 DEF BackfillRecentCodexTokenModel, TypeOK
  <2> QED
    BY <1>4, <2>2, <2>3 DEF BackfillRecentCodexTokenModel, RowsOf
<1>5. ASSUME NEW g \in Goroutine, BackfillEmptyTokenModel(g) PROVE TypeOK'
  <2> DEFINE j == job[g]
             R == {r \in RowsOf(j.sess) : row[r] /\ model[r] = NoModel}
  <2>1. /\ j.model \in Model /\ j.hit \in BOOLEAN
        /\ \A p \in ReconcilePC, h \in BOOLEAN : MovedTo(j, p, h) \in Job
    BY <1>5, ReconcileJob DEF BackfillEmptyTokenModel, TypeOK, ReconcilePC
  <2>2. AfterBackfill(g, j, R # {}) \in Job
    BY <2>1, JobTypes DEF AfterBackfill, ReconcilePC
  <2>3. job' \in [Goroutine -> Job]
    BY <1>5, <2>2, BecomesType DEF BackfillEmptyTokenModel
  <2>4. model' \in [Src -> Model \cup {NoModel}] /\ cost' \in [Src -> Int]
    BY <1>5, <2>1, RepriceType DEF BackfillEmptyTokenModel, RowsOf
  <2> QED
    BY <1>5, <2>3, <2>4 DEF BackfillEmptyTokenModel, TypeOK
<1>6. ASSUME NEW g \in Goroutine, Rebuild(g) PROVE TypeOK'
  <2>1. /\ job[g].hit \in BOOLEAN
        /\ \A p \in ReconcilePC, h \in BOOLEAN : MovedTo(job[g], p, h) \in Job
    BY <1>6, ReconcileJob DEF Rebuild, TypeOK, ReconcilePC
  <2>2. AfterRebuild(g, job[g]) \in Job
    BY <2>1, JobTypes DEF AfterRebuild, ReconcilePC
  <2>3. job' \in [Goroutine -> Job]
    BY <1>6, <2>2, BecomesType DEF Rebuild
  <2>4. cacheIn' \in [Src -> Int]
    BY <1>6 DEF Rebuild, RebuildDailyCostCache, TypeOK
  <2>5. tornCache' \in BOOLEAN
    BY <1>6 DEF Rebuild, RebuildDailyCostCache
  <2> QED
    BY <1>6, <2>3, <2>4, <2>5 DEF Rebuild, TypeOK
<1>7. ASSUME NEW g \in Goroutine, UpdateSessionTokens(g) PROVE TypeOK'
  <2>1. job' \in [Goroutine -> Job]
    BY <1>7, JobTypes, BecomesType DEF UpdateSessionTokens
  <2> QED
    BY <1>7, <2>1, UsageAssumption DEF UpdateSessionTokens, RecomputeTotals, TypeOK
<1>8. ASSUME NEW g \in Goroutine, StatementFails(g) PROVE TypeOK'
  <2>1. job' \in [Goroutine -> Job]
    BY <1>8, JobTypes, BecomesType DEF StatementFails
  <2>2. faults' \in 0 .. MaxFault
    BY <1>8, FaultType DEF StatementFails
  <2> QED
    BY <1>8, <2>1, <2>2 DEF StatementFails, TypeOK, OwesRebuild
<1>9. ASSUME NEW B \in SUBSET Src, Flush(B) PROVE TypeOK'
  <2>1. faults' \in 0 .. MaxFault
    BY <1>9, FaultType DEF Flush, TypeOK
  <2>2. CASE InsertBatch(B)
    BY <1>9, <2>1, <2>2, InsertBatchType DEF Flush, TypeOK
  <2>3. CASE ~InsertBatch(B)
    BY <1>9, <2>1, <2>3 DEF Flush, TypeOK
  <2> QED
    BY <2>2, <2>3
<1>10. ASSUME NEW r \in Src, DeleteTokenUsageBySourceID(r) PROVE TypeOK'
  <2>1. TokOf[r] \in Int /\ cost[r] \in Int
    BY UsageAssumption DEF TypeOK
  <2> QED
    BY <1>10, <2>1 DEF DeleteTokenUsageBySourceID, TypeOK
<1>11. ASSUME NEW s \in Sess, EndSession(s) PROVE TypeOK'
  BY <1>11 DEF EndSession, TypeOK
<1>12. ASSUME NEW S \in SUBSET Sess, CleanOldSessions(S) PROVE TypeOK'
  <2>1. cacheIn' \in [Src -> Int]
    BY <1>12 DEF CleanOldSessions, RebuildDailyCostCache, TypeOK
  <2>5. tornCache' \in BOOLEAN
    BY <1>12 DEF CleanOldSessions, RebuildDailyCostCache
  <2> QED
    BY <1>12, <2>1, <2>5 DEF CleanOldSessions, TypeOK
<1>13. CASE Crash
  <2>1. faults' \in 0 .. MaxFault
    BY <1>13, FaultType DEF Crash
  <2> QED
    BY <1>13, <2>1, JobTypes DEF Crash, TypeOK, OwesRebuild
<1>14. CASE Stop
  BY <1>14 DEF Stop, TypeOK
<1>15. ASSUME NEW S \in SUBSET Sess, StartStaleSweep(S) PROVE TypeOK'
  BY <1>15 DEF StartStaleSweep, TypeOK
<1>16. ASSUME NEW S \in SUBSET Sess, PruneEmptyCodexSessions(S) PROVE TypeOK'
  BY <1>16 DEF PruneEmptyCodexSessions, TypeOK
<1>17. CASE ListEmptyModelSessions
  BY <1>17, UsageAssumption DEF ListEmptyModelSessions, TypeOK
<1>18. ASSUME NEW s \in CodexSess, NEW m \in Model, RepairEmptyTokenModels(s, m)
       PROVE  TypeOK'
  <2>1. job' \in [Goroutine -> Job]
    BY <1>18, UsageAssumption, JobTypes, BecomesType DEF RepairEmptyTokenModels, Goroutine
  <2> QED
    BY <1>18, <2>1 DEF RepairEmptyTokenModels, TypeOK
<1>19. CASE StartDone
  BY <1>19 DEF StartDone, TypeOK
<1>20. CASE UNCHANGED vars
  BY <1>20 DEF vars, TypeOK
<1> QED
  BY <1>1, <1>2, <1>3, <1>4, <1>5, <1>6, <1>7, <1>8, <1>9, <1>10, <1>11, <1>12,
     <1>13, <1>14, <1>15, <1>16, <1>17, <1>18, <1>19, <1>20
  DEF Next, WorkerStep, ReconcileStep, StartStep

\* Every state has its type: statuses, jobs and totals never leave the sets
\* the statements of db.go and daemon.go are written for.
THEOREM TypeCorrect == Spec => []TypeOK
BY InitTypeOK, NextTypeOK, PTL DEF Spec

-----------------------------------------------------------------------------
(***************************************************************************)
(* The totals are exact.                                                   *)
(***************************************************************************)

\* What every action does to the obligations of the goroutines: g takes up
\* job j and the others keep theirs.
LEMMA BecomesOwes ==
  ASSUME TypeOK, NEW g \in Goroutine, NEW j, Becomes(g, j)
  PROVE  /\ job'[g] = j
         /\ \A h \in Goroutine \ {g} : job'[h] = job[h]
         /\ \A s \in Sess : OwedTotals(s)' <=>
              \/ j.pc \in ReconcilePC \ {"backfill"} /\ j.sess = s /\ j.hit
              \/ \E h \in Goroutine \ {g} : OwesTotals(h, s)
         /\ OwedRebuild' <=>
              \/ j.pc \in {"rebuild", "rebuildRecent"}
              \/ \E h \in Goroutine \ {g} : OwesRebuild(h)
<1>1. job'[g] = j /\ \A h \in Goroutine \ {g} : job'[h] = job[h]
  BY DEF TypeOK, Becomes
<1>2. \A s \in Sess, h \in Goroutine \ {g} : OwesTotals(h, s)' <=> OwesTotals(h, s)
  BY <1>1 DEF OwesTotals
<1>3. \A h \in Goroutine \ {g} : OwesRebuild(h)' <=> OwesRebuild(h)
  BY <1>1 DEF OwesRebuild
<1>4. \A s \in Sess : OwesTotals(g, s)' <=>
        j.pc \in ReconcilePC \ {"backfill"} /\ j.sess = s /\ j.hit
  BY <1>1 DEF OwesTotals
<1>5. OwesRebuild(g)' <=> j.pc \in {"rebuild", "rebuildRecent"}
  BY <1>1 DEF OwesRebuild
<1>6. QED
  BY <1>1, <1>2, <1>3, <1>4, <1>5 DEF OwedTotals, OwedRebuild

\* A job that owes nothing, taken up by a goroutine that owed nothing,
\* leaves what is owed as it was.
LEMMA NothingNewOwed ==
  ASSUME TypeOK, NEW g \in Goroutine, NEW j, Becomes(g, j),
         job[g].pc \in {"idle", "enqueue", "backfill"},
         j.pc \in {"idle", "enqueue", "backfill"}
  PROVE  (\A s \in Sess : OwedTotals(s)' <=> OwedTotals(s)) /\ (OwedRebuild' <=> OwedRebuild)
<1>1. \A s \in Sess : ~OwesTotals(g, s)
  BY DEF OwesTotals, ReconcilePC
<1>2. ~OwesRebuild(g)
  BY DEF OwesRebuild
<1>3. QED
  BY <1>1, <1>2, BecomesOwes DEF OwedTotals, OwedRebuild, ReconcilePC

\* Jobs that stand still owe what they owed.
LEMMA JobUnchangedOwes ==
  ASSUME job' = job
  PROVE  (\A s \in Sess : OwedTotals(s)' <=> OwedTotals(s)) /\ (OwedRebuild' <=> OwedRebuild)
BY DEF OwedTotals, OwedRebuild, OwesTotals, OwesRebuild

\* An upsert keeps every session row there is.
LEMMA UpsertKeepsLive ==
  ASSUME TypeOK, NEW s \in Sess, UpsertSession(s) \/ sess' = sess
  PROVE  \A t \in Sess : Live(t) => Live(t)'
BY DEF UpsertSession, TypeOK, Live

\* A step that touches no row and no sum, that loses no session row and
\* forgets nothing that is owed or was cut short.  It may create a session
\* row: its rows, if any, are on record as orphaned.
LEMMA QuietStep ==
  ASSUME TypeOK, StoreInv,
         UNCHANGED <<row, cost, tokIn, costIn, cacheIn, orphan>>,
         \A s \in Sess : Live(s) => Live(s)',
         \A s \in Sess : s \in torn \/ OwedTotals(s) => s \in torn' \/ OwedTotals(s)',
         tornCache \/ OwedRebuild => tornCache' \/ OwedRebuild'
  PROVE  StoreInv'
<1>1. TokensExact'
  BY UsageAssumption DEF StoreInv, TokensExact, AbsentSessions
<1>2. CostsExact'
  BY UsageAssumption DEF StoreInv, CostsExact, AbsentSessions
<1>3. CacheExact'
  BY DEF StoreInv, CacheExact
<1>4. AbsentSessions'
  BY UsageAssumption DEF StoreInv, AbsentSessions
<1>5. QED
  BY <1>1, <1>2, <1>3, <1>4 DEF StoreInv

LEMMA InitStoreInv == Init => StoreInv
BY UsageAssumption
DEF Init, StoreInv, TokensExact, CostsExact, CacheExact, AbsentSessions, Live

\* A committed batch.
LEMMA InsertBatchKeepsInv ==
  ASSUME TypeOK, StoreInv, NEW B \in SUBSET Src, InsertBatch(B),
         UNCHANGED <<sess, job, torn, tornCache>>
  PROVE  StoreInv'
<1>0. /\ \A s \in Sess : OwedTotals(s)' <=> OwedTotals(s)
      /\ OwedRebuild' <=> OwedRebuild
  BY JobUnchangedOwes
<1>1. \A s \in Sess : Live(s)' <=> Live(s)
  BY DEF Live
<1>2. ASSUME NEW r \in Src
      PROVE  /\ row'[r] <=> (row[r] \/ r \in B)
             /\ cost'[r] = IF r \in B /\ ~row[r] THEN CostOf[r] ELSE cost[r]
             /\ cacheIn'[r] = cacheIn[r] + IF r \in B /\ ~row[r] THEN CostOf[r] ELSE 0
             /\ tokIn'[r] = tokIn[r] + IF r \in B /\ ~row[r] /\ Live(SessOf[r]) THEN TokOf[r] ELSE 0
             /\ costIn'[r] = costIn[r] + IF r \in B /\ ~row[r] /\ Live(SessOf[r]) THEN CostOf[r] ELSE 0
             /\ r \in orphan' <=> (r \in orphan \/ (r \in B /\ ~row[r] /\ ~Live(SessOf[r])))
             /\ TokOf[r] \in Int /\ CostOf[r] \in Int /\ cacheIn[r] \in Int
             /\ tokIn[r] \in Int /\ costIn[r] \in Int /\ SessOf[r] \in Sess
  <2>1. row'[r] <=> (row[r] \/ r \in B)
    BY DEF InsertBatch, TypeOK
  <2>2. cost'[r] = IF r \in B /\ ~row[r] THEN CostOf[r] ELSE cost[r]
    BY DEF InsertBatch, TypeOK
  <2>3. cacheIn'[r] = cacheIn[r] + IF r \in B /\ ~row[r] THEN CostOf[r] ELSE 0
    BY DEF InsertBatch, TypeOK
  <2>4. tokIn'[r] = tokIn[r] + IF r \in B /\ ~row[r] /\ Live(SessOf[r]) THEN TokOf[r] ELSE 0
    BY DEF InsertBatch, TypeOK
  <2>5. costIn'[r] = costIn[r] + IF r \in B /\ ~row[r] /\ Live(SessOf[r]) THEN CostOf[r] ELSE 0
    BY DEF InsertBatch, TypeOK
  <2>6. r \in orphan' <=> (r \in orphan \/ (r \in B /\ ~row[r] /\ ~Live(SessOf[r])))
    BY DEF InsertBatch, TypeOK
  <2>7. /\ TokOf[r] \in Int /\ CostOf[r] \in Int /\ cacheIn[r] \in Int
        /\ tokIn[r] \in Int /\ costIn[r] \in Int /\ SessOf[r] \in Sess
    BY UsageAssumption DEF TypeOK
  <2> QED
    BY <2>1, <2>2, <2>3, <2>4, <2>5, <2>6, <2>7
<1>3. TokensExact'
  BY <1>1, <1>2 DEF StoreInv, TokensExact, AbsentSessions
<1>4. CostsExact'
  BY <1>0, <1>1, <1>2 DEF StoreInv, CostsExact, AbsentSessions
<1>5. CacheExact'
  BY <1>0, <1>2 DEF StoreInv, CacheExact
<1>6. AbsentSessions'
  BY <1>1, <1>2 DEF StoreInv, AbsentSessions
<1>7. QED
  BY <1>3, <1>4, <1>5, <1>6 DEF StoreInv

\* The UPDATE of a backfill: the rows of one session get another price, and
\* the goroutine owes that session its totals and the cache its rebuild.
LEMMA RepriceKeepsInv ==
  ASSUME TypeOK, StoreInv, NEW g \in Goroutine, job[g].pc \in ReconcilePC,
         NEW t \in Sess, t = job[g].sess, NEW R \in SUBSET RowsOf(t), NEW m \in Model, RepriceRows(R, m),
         NEW p \in {"rebuild", "rebuildRecent"}, Becomes(g, MovedTo(job[g], p, TRUE)),
         UNCHANGED <<row, tokIn, costIn, cacheIn, sess, orphan, torn, tornCache>>
  PROVE  StoreInv'
<1>1. /\ \A s \in Sess : OwedTotals(s) => OwedTotals(s)'
      /\ OwedRebuild' /\ OwedTotals(t)'
  <2>2. \A s \in Sess : OwesTotals(g, s) => s = t
    BY DEF OwesTotals
  <2>3. /\ MovedTo(job[g], p, TRUE).pc = p /\ MovedTo(job[g], p, TRUE).sess = t
        /\ MovedTo(job[g], p, TRUE).hit = TRUE
    BY DEF MovedTo, Reconciling
  <2>4. p \in ReconcilePC \ {"backfill"}
    BY DEF ReconcilePC
  <2>5. job'[g] = MovedTo(job[g], p, TRUE) /\ \A h \in Goroutine \ {g} : job'[h] = job[h]
    BY BecomesOwes
  <2>6. OwesTotals(g, t)' /\ OwesRebuild(g)'
    BY <2>3, <2>4, <2>5 DEF OwesTotals, OwesRebuild
  <2>7. \A s \in Sess, h \in Goroutine \ {g} : OwesTotals(h, s) => OwesTotals(h, s)'
    BY <2>5 DEF OwesTotals
  <2> QED
    BY <2>2, <2>6, <2>7 DEF OwedTotals, OwedRebuild
<1>2. \A s \in Sess : Live(s)' <=> Live(s)
  BY DEF Live
<1>3. \A r \in Src : SessOf[r] # t => cost'[r] = cost[r]
  BY DEF RepriceRows, RowsOf, TypeOK
<1>4. TokensExact'
  BY <1>2, UsageAssumption DEF StoreInv, TokensExact
<1>5. CostsExact'
  BY <1>1, <1>2, <1>3, UsageAssumption DEF StoreInv, CostsExact
<1>6. CacheExact'
  BY <1>1 DEF CacheExact
<1>7. AbsentSessions'
  BY <1>2, UsageAssumption DEF StoreInv, AbsentSessions
<1>8. QED
  BY <1>4, <1>5, <1>6, <1>7 DEF StoreInv

\* rebuildDailyCostCache settles the cache for good, and the goroutine goes
\* on owing the totals.
LEMMA RebuildKeepsInv ==
  ASSUME TypeOK, StoreInv, NEW g \in Goroutine, Rebuild(g)
  PROVE  StoreInv'
<1>1. \A r \in Src : cacheIn'[r] = IF row[r] THEN cost[r] ELSE 0
  BY DEF Rebuild, RebuildDailyCostCache
<1>2. \A s \in Sess : OwesTotals(g, s) => OwesTotals(g, s)'
  BY ReconcileJob DEF Rebuild, AfterRebuild, MovedTo, Reconciling, Becomes, TypeOK,
                      OwesTotals, ReconcilePC
<1>3. \A s \in Sess, h \in Goroutine \ {g} : OwesTotals(h, s) => OwesTotals(h, s)'
  BY DEF Rebuild, Becomes, TypeOK, OwesTotals
<1>4. \A s \in Sess : OwedTotals(s) => OwedTotals(s)'
  BY <1>2, <1>3 DEF OwedTotals
<1>5. \A s \in Sess : Live(s)' <=> Live(s)
  BY DEF Live, Rebuild
<1>6. TokensExact'
  BY <1>5, UsageAssumption DEF Rebuild, StoreInv, TokensExact
<1>7. CostsExact'
  BY <1>4, <1>5, UsageAssumption DEF Rebuild, StoreInv, CostsExact
<1>8. CacheExact'
  BY <1>1 DEF Rebuild, CacheExact
<1>9. AbsentSessions'
  BY <1>5, UsageAssumption DEF Rebuild, StoreInv, AbsentSessions
<1>10. QED
  BY <1>6, <1>7, <1>8, <1>9 DEF StoreInv

\* UpdateSessionTokens settles the totals of its session, orphaned rows and
\* reconciliations that were cut short included.
LEMMA UpdateSessionTokensKeepsInv ==
  ASSUME TypeOK, StoreInv, NEW g \in Goroutine, UpdateSessionTokens(g)
  PROVE  StoreInv'
<1> DEFINE t == job[g].sess
<1>1. \A r \in Src : IF SessOf[r] = t /\ Live(t)
                    THEN /\ tokIn'[r] = IF row[r] THEN TokOf[r] ELSE 0
                         /\ costIn'[r] = IF row[r] THEN cost[r] ELSE 0
                         /\ r \notin orphan'
                    ELSE /\ tokIn'[r] = tokIn[r] /\ costIn'[r] = costIn[r]
                         /\ r \in orphan' <=> r \in orphan
  BY DEF UpdateSessionTokens, RecomputeTotals, RowsOf
<1>2. \A s \in Sess : s # t /\ OwedTotals(s) => OwedTotals(s)'
  <2>1. \A s \in Sess : OwesTotals(g, s) => s = t
    BY DEF OwesTotals
  <2>2. \A s \in Sess, h \in Goroutine \ {g} : OwesTotals(h, s) => OwesTotals(h, s)'
    BY DEF UpdateSessionTokens, Becomes, TypeOK, OwesTotals
  <2> QED
    BY <2>1, <2>2 DEF OwedTotals
<1>3. OwedRebuild => OwedRebuild'
  BY DEF UpdateSessionTokens, Becomes, TypeOK, OwedRebuild, OwesRebuild
<1>4. \A s \in Sess : Live(s)' <=> Live(s)
  BY DEF Live, UpdateSessionTokens
<1>5. torn' = torn \ {t}
  BY DEF UpdateSessionTokens, RecomputeTotals
<1>6. TokensExact'
  BY <1>1, <1>4, UsageAssumption DEF UpdateSessionTokens, StoreInv, TokensExact
<1>7. CostsExact'
  BY <1>1, <1>2, <1>4, <1>5, UsageAssumption
  DEF UpdateSessionTokens, StoreInv, CostsExact, AbsentSessions
<1>8. CacheExact'
  BY <1>3 DEF UpdateSessionTokens, StoreInv, CacheExact
<1>9. AbsentSessions'
  BY <1>1, <1>4, UsageAssumption DEF UpdateSessionTokens, StoreInv, AbsentSessions
<1>10. QED
  BY <1>6, <1>7, <1>8, <1>9 DEF StoreInv

\* DeleteTokenUsageBySourceID takes out of every sum what its row put in.
\* Only rows of sessions that are never repriced are deleted, but the
\* argument does not need that.
LEMMA DeleteKeepsInv ==
  ASSUME TypeOK, StoreInv, NEW d \in Src, DeleteTokenUsageBySourceID(d)
  PROVE  StoreInv'
<1>0. /\ \A s \in Sess : OwedTotals(s)' <=> OwedTotals(s)
      /\ OwedRebuild' <=> OwedRebuild
  BY JobUnchangedOwes DEF DeleteTokenUsageBySourceID
<1>1. \A s \in Sess : Live(s)' <=> Live(s)
  BY DEF Live, DeleteTokenUsageBySourceID
<1>2. /\ row[d] /\ ~row'[d]
      /\ cacheIn'[d] = cacheIn[d] - cost[d]
      /\ Live(SessOf[d]) => /\ tokIn'[d] = tokIn[d] - TokOf[d]
                            /\ costIn'[d] = costIn[d] - cost[d]
      /\ ~Live(SessOf[d]) => tokIn'[d] = tokIn[d] /\ costIn'[d] = costIn[d]
  BY DEF DeleteTokenUsageBySourceID, TypeOK
<1>3. \A r \in Src \ {d} :
        /\ row'[r] <=> row[r]
        /\ cacheIn'[r] = cacheIn[r] /\ tokIn'[r] = tokIn[r] /\ costIn'[r] = costIn[r]
  BY DEF DeleteTokenUsageBySourceID, TypeOK
<1>4. UNCHANGED <<cost, orphan, torn, tornCache>>
  BY DEF DeleteTokenUsageBySourceID
<1>5. /\ TokOf[d] \in Int /\ cost[d] \in Int /\ SessOf \in [Src -> Sess]
      /\ tokIn[d] \in Int /\ costIn[d] \in Int /\ cacheIn[d] \in Int
  BY UsageAssumption DEF TypeOK
<1>6. TokensExact'
  BY <1>1, <1>2, <1>3, <1>4, <1>5 DEF StoreInv, TokensExact
<1>7. CostsExact'
  BY <1>0, <1>1, <1>2, <1>3, <1>4, <1>5 DEF StoreInv, CostsExact
<1>8. CacheExact'
  BY <1>0, <1>2, <1>3, <1>4, <1>5 DEF StoreInv, CacheExact
<1>9. AbsentSessions'
  BY <1>1, <1>2, <1>3, <1>4, <1>5 DEF StoreInv, AbsentSessions
<1>10. QED
  BY <1>6, <1>7, <1>8, <1>9 DEF StoreInv

\* CleanOldSessions removes sessions together with their rows and rebuilds
\* the cache in the same transaction.
LEMMA CleanKeepsInv ==
  ASSUME TypeOK, StoreInv, NEW S \in SUBSET Sess, CleanOldSessions(S)
  PROVE  StoreInv'
<1>0. \A s \in Sess : OwedTotals(s)' <=> OwedTotals(s)
  BY JobUnchangedOwes DEF CleanOldSessions
<1>1. \A s \in Sess : (Live(s)' <=> (Live(s) /\ s \notin S))
  BY DEF Live, CleanOldSessions
<1>2. ASSUME NEW r \in Src
      PROVE  /\ row'[r] <=> (row[r] /\ SessOf[r] \notin S)
             /\ tokIn'[r] = IF SessOf[r] \in S THEN 0 ELSE tokIn[r]
             /\ costIn'[r] = IF SessOf[r] \in S THEN 0 ELSE costIn[r]
             /\ r \in orphan' <=> (r \in orphan /\ SessOf[r] \notin S)
  <2>1. row'[r] <=> (row[r] /\ SessOf[r] \notin S)
    BY DEF CleanOldSessions, TypeOK
  <2>2. /\ tokIn'[r] = IF SessOf[r] \in S THEN 0 ELSE tokIn[r]
        /\ costIn'[r] = IF SessOf[r] \in S THEN 0 ELSE costIn[r]
    BY DEF CleanOldSessions
  <2>3. r \in orphan' <=> (r \in orphan /\ SessOf[r] \notin S)
    BY DEF CleanOldSessions
  <2> QED
    BY <2>1, <2>2, <2>3
<1>3. cost' = cost /\ torn' = torn \ S
  BY DEF CleanOldSessions
<1>4. \A r \in Src : cacheIn'[r] = IF row[r] /\ SessOf[r] \notin S THEN cost[r] ELSE 0
  BY DEF CleanOldSessions, RebuildDailyCostCache
<1>5. TokensExact'
  BY <1>1, <1>2, UsageAssumption DEF StoreInv, TokensExact
<1>6. CostsExact'
  BY <1>0, <1>1, <1>2, <1>3, UsageAssumption DEF StoreInv, CostsExact
<1>7. CacheExact'
  BY <1>2, <1>3, <1>4 DEF CacheExact
<1>8. AbsentSessions'
  BY <1>1, <1>2, UsageAssumption DEF StoreInv, AbsentSessions
<1>9. QED
  BY <1>5, <1>6, <1>7, <1>8 DEF StoreInv

\* PruneEmptyCodexSessions removes sessions and leaves their rows, which
\* become orphans.
LEMMA PruneKeepsInv ==
  ASSUME TypeOK, StoreInv, NEW S \in SUBSET Sess, PruneEmptyCodexSessions(S)
  PROVE  StoreInv'
<1>0. /\ \A s \in Sess : OwedTotals(s)' <=> OwedTotals(s)
      /\ OwedRebuild' <=> OwedRebuild
  BY JobUnchangedOwes DEF PruneEmptyCodexSessions
<1>1. \A s \in Sess : (Live(s)' <=> (Live(s) /\ s \notin S))
  BY DEF Live, PruneEmptyCodexSessions
<1>2. ASSUME NEW r \in Src
      PROVE  /\ SessOf[r] \in S => tokIn[r] = 0
             /\ costIn'[r] = IF SessOf[r] \in S THEN 0 ELSE costIn[r]
             /\ SessOf[r] \in S => (r \in orphan' <=> row[r])
             /\ SessOf[r] \notin S => (r \in orphan' <=> r \in orphan)
  <2>1. SessOf[r] \in S => tokIn[r] = 0
    BY DEF PruneEmptyCodexSessions, RowsOf
  <2>2. costIn'[r] = IF SessOf[r] \in S THEN 0 ELSE costIn[r]
    BY DEF PruneEmptyCodexSessions
  <2>3. SessOf[r] \in S => (r \in orphan' <=> row[r])
    BY DEF PruneEmptyCodexSessions
  <2>4. SessOf[r] \notin S => (r \in orphan' <=> r \in orphan)
    BY DEF PruneEmptyCodexSessions
  <2> QED
    BY <2>1, <2>2, <2>3, <2>4
<1>3. UNCHANGED <<row, cost, tokIn, cacheIn, tornCache>> /\ torn' = torn \ S
  BY DEF PruneEmptyCodexSessions
<1>4. TokensExact'
  BY <1>1, <1>2, <1>3, UsageAssumption DEF StoreInv, TokensExact
<1>5. CostsExact'
  BY <1>0, <1>1, <1>2, <1>3, UsageAssumption DEF StoreInv, CostsExact
<1>6. CacheExact'
  BY <1>0, <1>3 DEF StoreInv, CacheExact
<1>7. AbsentSessions'
  BY <1>1, <1>2, <1>3, UsageAssumption DEF StoreInv, AbsentSessions
<1>8. QED
  BY <1>4, <1>5, <1>6, <1>7 DEF StoreInv

\* The last statement of a reconciliation that found nothing recent to do.
LEMMA RecentKeepsInv ==
  ASSUME TypeOK, StoreInv, NEW w \in Worker, BackfillRecentCodexTokenModel(w)
  PROVE  StoreInv'
<1> DEFINE j == job[w]
<1>1. /\ w \in Goroutine /\ j \in Job /\ j.pc = "recent" /\ j.pc \in ReconcilePC
      /\ j.sess \in Sess /\ j.model \in Model
  BY ReconcileJob DEF BackfillRecentCodexTokenModel, Goroutine, TypeOK, ReconcilePC
<1>2. UNCHANGED <<row, tokIn, costIn, cacheIn, sess, orphan, torn, tornCache>>
  BY DEF BackfillRecentCodexTokenModel
<1>3. ASSUME Becomes(w, IF j.hit THEN MovedTo(j, "totals", j.hit) ELSE Idle), cost' = cost
      PROVE  StoreInv'
  <2>1. /\ job'[w] = IF j.hit THEN MovedTo(j, "totals", j.hit) ELSE Idle
        /\ \A h \in Goroutine \ {w} : job'[h] = job[h]
    BY <1>1, <1>3 DEF Becomes, TypeOK
  <2>2. ASSUME NEW s \in Sess, OwesTotals(w, s) PROVE OwesTotals(w, s)'
    <3>1. j.hit /\ j.sess = s
      BY <2>2 DEF OwesTotals
    <3>2. job'[w] = [pc |-> "totals", sess |-> j.sess, model |-> j.model, hit |-> j.hit]
      BY <2>1, <3>1 DEF MovedTo, Reconciling
    <3>3. job'[w].pc = "totals" /\ job'[w].sess = s /\ job'[w].hit
      BY <3>1, <3>2
    <3> QED
      BY <3>3 DEF OwesTotals, ReconcilePC
  <2>3. ~OwesRebuild(w)
    BY <1>1 DEF OwesRebuild
  <2>4. \A s \in Sess, h \in Goroutine \ {w} : OwesTotals(h, s) => OwesTotals(h, s)'
    BY <2>1 DEF OwesTotals
  <2>5. \A h \in Goroutine \ {w} : OwesRebuild(h) => OwesRebuild(h)'
    BY <2>1 DEF OwesRebuild
  <2>6. \A s \in Sess : OwedTotals(s) => OwedTotals(s)'
    BY <2>2, <2>4 DEF OwedTotals
  <2>7. OwedRebuild => OwedRebuild'
    BY <2>3, <2>5 DEF OwedRebuild
  <2> QED
    BY <1>2, <1>3, <2>6, <2>7, QuietStep DEF Live
<1>4. ASSUME NEW r \in RowsOf(j.sess), RepriceRows({r}, j.model),
             Becomes(w, MovedTo(j, "rebuildRecent", TRUE))
      PROVE  StoreInv'
  BY <1>1, <1>2, <1>4, RepriceKeepsInv
<1>5. QED
  BY <1>3, <1>4 DEF BackfillRecentCodexTokenModel

\* The remaining steps leave rows and sums alone.
LEMMA QuietSteps ==
  ASSUME TypeOK, StoreInv,
         \/ \E w \in Worker, r \in Src : TokenEvent(w, r)
         \/ \E w \in Worker : Enqueue(w)
         \/ \E w \in Worker, s \in CodexSess, m \in Model : ModelEvent(w, s, m)
         \/ \E s \in CodexSess, m \in Model : RepairEmptyTokenModels(s, m)
  PROVE  StoreInv'
<1> USE UsageAssumption DEF Goroutine
<1>1. ASSUME NEW w \in Worker, NEW r \in Src, TokenEvent(w, r)
      PROVE  StoreInv'
  <2>1. /\ \A s \in Sess : OwedTotals(s)' <=> OwedTotals(s)
        /\ OwedRebuild' <=> OwedRebuild
    BY <1>1, NothingNewOwed DEF TokenEvent, Enqueuing, Idle
  <2>2. \A s \in Sess : Live(s) => Live(s)'
    BY <1>1, UpsertKeepsLive DEF TokenEvent
  <2> QED
    BY <1>1, <2>1, <2>2, QuietStep DEF TokenEvent
<1>2. ASSUME NEW w \in Worker, Enqueue(w)
      PROVE  StoreInv'
  <2>1. /\ \A s \in Sess : OwedTotals(s)' <=> OwedTotals(s)
        /\ OwedRebuild' <=> OwedRebuild
    BY <1>2, NothingNewOwed DEF Enqueue, Idle
  <2> QED
    BY <1>2, <2>1, QuietStep DEF Enqueue, Live
<1>3. ASSUME NEW w \in Worker, NEW s \in CodexSess, NEW m \in Model, ModelEvent(w, s, m)
      PROVE  StoreInv'
  <2>1. /\ \A x \in Sess : OwedTotals(x)' <=> OwedTotals(x)
        /\ OwedRebuild' <=> OwedRebuild
    BY <1>3, NothingNewOwed DEF ModelEvent, Reconciling, Idle
  <2>2. \A x \in Sess : Live(x) => Live(x)'
    BY <1>3, UpsertKeepsLive DEF ModelEvent
  <2> QED
    BY <1>3, <2>1, <2>2, QuietStep DEF ModelEvent
<1>4. ASSUME NEW s \in CodexSess, NEW m \in Model, RepairEmptyTokenModels(s, m)
      PROVE  StoreInv'
  <2>1. /\ \A x \in Sess : OwedTotals(x)' <=> OwedTotals(x)
        /\ OwedRebuild' <=> OwedRebuild
    BY <1>4, NothingNewOwed DEF RepairEmptyTokenModels, Reconciling, Idle
  <2> QED
    BY <1>4, <2>1, QuietStep DEF RepairEmptyTokenModels, Live
<1>5. QED
  BY <1>1, <1>2, <1>3, <1>4

\* Steps that leave the goroutines where they are.
LEMMA StandingSteps ==
  ASSUME TypeOK, StoreInv,
         \/ \E B \in SUBSET Src : Flush(B)
         \/ \E s \in Sess : EndSession(s)
         \/ Stop
         \/ \E S \in SUBSET Sess : StartStaleSweep(S)
         \/ ListEmptyModelSessions
         \/ StartDone
         \/ UNCHANGED vars
  PROVE  StoreInv'
<1>1. ASSUME NEW B \in SUBSET Src, Flush(B) PROVE StoreInv'
  <2>1. CASE InsertBatch(B)
    BY <1>1, <2>1, InsertBatchKeepsInv DEF Flush
  <2>2. CASE UNCHANGED <<rowVars, sumVars, cacheIn, orphan>>
    BY <1>1, <2>2, JobUnchangedOwes, QuietStep DEF Flush, Live
  <2> QED
    BY <1>1, <2>1, <2>2 DEF Flush
<1>2. ASSUME NEW s \in Sess, EndSession(s) PROVE StoreInv'
  <2>1. \A x \in Sess : Live(x) => Live(x)'
    BY <1>2 DEF EndSession, Live, TypeOK
  <2> QED
    BY <1>2, <2>1, JobUnchangedOwes, QuietStep DEF EndSession
<1>3. ASSUME Stop PROVE StoreInv'
  BY <1>3, JobUnchangedOwes, QuietStep DEF Stop, Live
<1>4. ASSUME NEW S \in SUBSET Sess, StartStaleSweep(S) PROVE StoreInv'
  <2>1. \A x \in Sess : Live(x) => Live(x)'
    BY <1>4 DEF StartStaleSweep, Live
  <2> QED
    BY <1>4, <2>1, JobUnchangedOwes, QuietStep DEF StartStaleSweep
<1>5. ASSUME ListEmptyModelSessions PROVE StoreInv'
  BY <1>5, JobUnchangedOwes, QuietStep DEF ListEmptyModelSessions, Live
<1>6. ASSUME StartDone PROVE StoreInv'
  BY <1>6, JobUnchangedOwes, QuietStep DEF StartDone, Live
<1>7. ASSUME UNCHANGED vars PROVE StoreInv'
  BY <1>7, JobUnchangedOwes, QuietStep DEF vars, Live
<1>8. QED
  BY <1>1, <1>2, <1>3, <1>4, <1>5, <1>6, <1>7

\* A fault forgets no debt: what was owed goes on record as torn.
LEMMA FaultsKeepInv ==
  ASSUME TypeOK, StoreInv, Crash \/ \E g \in Goroutine : StatementFails(g)
  PROVE  StoreInv'
<1>1. ASSUME Crash PROVE StoreInv'
  <2>1. \A s \in Sess : s \in torn \/ OwedTotals(s) => s \in torn'
    BY <1>1 DEF Crash, OwedTotals
  <2>2. tornCache \/ OwedRebuild => tornCache'
    BY <1>1 DEF Crash, OwedRebuild
  <2> QED
    BY <1>1, <2>1, <2>2, QuietStep DEF Crash, Live
<1>2. ASSUME NEW g \in Goroutine, StatementFails(g) PROVE StoreInv'
  <2>1. \A h \in Goroutine \ {g} : job'[h] = job[h]
    BY <1>2 DEF StatementFails, Becomes, TypeOK
  <2>2. \A s \in Sess, h \in Goroutine \ {g} : OwesTotals(h, s) => OwesTotals(h, s)'
    BY <2>1 DEF OwesTotals
  <2>3. \A h \in Goroutine \ {g} : OwesRebuild(h) => OwesRebuild(h)'
    BY <2>1 DEF OwesRebuild
  <2>4. \A s \in Sess : s \in torn \/ OwesTotals(g, s) => s \in torn'
    BY <1>2 DEF StatementFails
  <2>5. tornCache \/ OwesRebuild(g) => tornCache'
    BY <1>2 DEF StatementFails
  <2>6. \A s \in Sess : s \in torn \/ OwedTotals(s) => s \in torn' \/ OwedTotals(s)'
    BY <2>2, <2>4 DEF OwedTotals
  <2>7. tornCache \/ OwedRebuild => tornCache' \/ OwedRebuild'
    BY <2>3, <2>5 DEF OwedRebuild
  <2> QED
    BY <1>2, <2>6, <2>7, QuietStep DEF StatementFails, Live
<1>3. QED
  BY <1>1, <1>2

\* The first UPDATE of a reconciliation, which may touch no row.
LEMMA BackfillKeepsInv ==
  ASSUME TypeOK, StoreInv, NEW g \in Goroutine, BackfillEmptyTokenModel(g)
  PROVE  StoreInv'
<1> DEFINE R == {r \in RowsOf(job[g].sess) : row[r] /\ model[r] = NoModel}
<1>1. /\ job[g].pc = "backfill" /\ job[g].pc \in ReconcilePC
      /\ job[g].sess \in Sess /\ job[g].model \in Model
  BY ReconcileJob DEF BackfillEmptyTokenModel, TypeOK, ReconcilePC
<1>2. /\ UNCHANGED <<row, tokIn, costIn, cacheIn, sess, orphan, torn, tornCache>>
      /\ RepriceRows(R, job[g].model)
      /\ Becomes(g, AfterBackfill(g, job[g], R # {}))
  BY DEF BackfillEmptyTokenModel
<1>3. CASE R # {}
  <2>1. Becomes(g, MovedTo(job[g], "rebuild", TRUE))
    BY <1>2, <1>3 DEF AfterBackfill
  <2>2. R \in SUBSET RowsOf(job[g].sess)
    OBVIOUS
  <2> QED
    BY <1>1, <1>2, <2>1, <2>2, RepriceKeepsInv
<1>4. CASE R = {}
  <2>1. cost' = cost
    BY <1>2, <1>4 DEF RepriceRows, TypeOK
  <2>2. job'[g] = AfterBackfill(g, job[g], FALSE) /\ \A h \in Goroutine \ {g} : job'[h] = job[h]
    BY <1>2, <1>4 DEF Becomes, TypeOK
  <2>3. \A s \in Sess : ~OwesTotals(g, s)
    BY <1>1 DEF OwesTotals
  <2>4. ~OwesRebuild(g)
    BY <1>1 DEF OwesRebuild
  <2>5. \A s \in Sess, h \in Goroutine \ {g} : OwesTotals(h, s) => OwesTotals(h, s)'
    BY <2>2 DEF OwesTotals
  <2>6. \A h \in Goroutine \ {g} : OwesRebuild(h) => OwesRebuild(h)'
    BY <2>2 DEF OwesRebuild
  <2>7. \A s \in Sess : OwedTotals(s) => OwedTotals(s)'
    BY <2>3, <2>5 DEF OwedTotals
  <2>8. OwedRebuild => OwedRebuild'
    BY <2>4, <2>6 DEF OwedRebuild
  <2> QED
    BY <1>2, <2>1, <2>7, <2>8, QuietStep DEF Live
<1>5. QED
  BY <1>3, <1>4

LEMMA NextStoreInv == TypeOK /\ StoreInv /\ [Next]_vars => StoreInv'
<1> SUFFICES ASSUME TypeOK, StoreInv, [Next]_vars PROVE StoreInv'
  OBVIOUS
<1>1. CASE \E w \in Worker : WorkerStep(w)
  BY <1>1, QuietSteps, RecentKeepsInv DEF WorkerStep
<1>2. CASE \E g \in Goroutine : ReconcileStep(g)
  BY <1>2, BackfillKeepsInv, RebuildKeepsInv, UpdateSessionTokensKeepsInv, FaultsKeepInv
  DEF ReconcileStep
<1>3. CASE \E r \in Src : DeleteTokenUsageBySourceID(r)
  BY <1>3, DeleteKeepsInv
<1>4. CASE \E S \in SUBSET Sess : CleanOldSessions(S)
  BY <1>4, CleanKeepsInv
<1>5. CASE StartStep
  BY <1>5, StandingSteps, PruneKeepsInv, QuietSteps DEF StartStep
<1>6. CASE Crash
  BY <1>6, FaultsKeepInv
<1>7. CASE \/ \E B \in SUBSET Src : Flush(B)
           \/ \E s \in Sess : EndSession(s)
           \/ Stop
           \/ UNCHANGED vars
  BY <1>7, StandingSteps
<1>8. QED
  BY <1>1, <1>2, <1>3, <1>4, <1>5, <1>6, <1>7 DEF Next

-----------------------------------------------------------------------------
(* The results.                                                            *)

LEMMA StoreInvHolds == Spec => []StoreInv
<1>1. Spec => []TypeOK
  BY TypeCorrect
<1>2. QED
  BY <1>1, InitStoreInv, NextStoreInv, PTL DEF Spec

\* However events are repeated, deleted, cleaned and replayed after a crash,
\* each token row counts once in its session's totals (db.go 672-718,
\* 967-983; token_usage_delete.go).
THEOREM TokensCorrect == Spec => []TokensExact
<1>1. StoreInv => TokensExact
  BY DEF StoreInv
<1>2. QED
  BY <1>1, StoreInvHolds, PTL

\* The same for the dollar totals, outside a running or cut-short
\* reconciliation of the session (daemon.go reconcileCodexTokenModel).
THEOREM CostsCorrect == Spec => []CostsExact
<1>1. StoreInv => CostsExact
  BY DEF StoreInv
<1>2. QED
  BY <1>1, StoreInvHolds, PTL

\* daily_cost_cache agrees with the token rows (db.go 374-418), outside a
\* running or cut-short reconciliation.
THEOREM CacheCorrect == Spec => []CacheExact
<1>1. StoreInv => CacheExact
  BY DEF StoreInv
<1>2. QED
  BY <1>1, StoreInvHolds, PTL

=============================================================================
