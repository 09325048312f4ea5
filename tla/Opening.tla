------------------------------ MODULE Opening ------------------------------
(***************************************************************************)
(* What a process does to the database when it opens it: columns that an   *)
(* older version did not have, times that it wrote in other formats, an    *)
(* index that is dropped and made anew, the cache of daily costs.  Each    *)
(* step is a statement that commits by itself, so other processes that are *)
(* opening it too, and a daemon that is already writing, come in between.  *)
(***************************************************************************)
EXTENDS Integers, FiniteSets

CONSTANTS
  Writer,     \* the daemon
  Visitor,    \* commands, which open the database and read it
  ChangeId,   \* sources of file changes, by which a repeated one is recognised
  CacheDay,   \* days with costs
  LastTick,   \* bound: times of events are 1 .. LastTick
  MaxChanges, \* bound: rows written, and openings begun, while a daemon is there
  MaxBreaks   \* bound: statements that fail and processes that die

ASSUME OpeningAssumption ==
  /\ Writer \notin Visitor
  /\ LastTick \in Nat \ {0} /\ {MaxChanges, MaxBreaks} \subseteq Nat

NoValue == 0
User == Visitor \cup {Writer}
Column == {"start", "last", "end"}

VARIABLES
  column,    \* the table has its newest column
  version,   \* user_version
  row,       \* one session: its status, its times, and in which are old formats
  rows,      \* rows[d]: token_usage of the day, each of the same cost
  daily,     \* daily[d]: daily_cost_cache, or NoValue
  unique,    \* idx_file_changes_source exists
  changes,   \* changes[s]: rows of file_changes
  user,      \* user[p]: the step p is about to take, and the update it has in hand
  latest,    \* history: the latest event handled
  overtaken, \* history: an event was handled while someone had a copy of its session in hand
  short,     \* history: a cost was added to an empty cache beside rows it did not have
  twice,     \* history: a repeated change came while there was no index
  changesMade, breaks

openingVars == <<column, version, row, rows, daily, unique, changes, user, latest,
                 overtaken, short, twice, changesMade, breaks>>
dataVars == <<row, rows, daily, changes>>
historyVars == <<latest, overtaken, short, twice>>

NotOpen == [at |-> "shut"]
NoRow == [status |-> "none"]
IsOpen(p) == user[p].at = "open"

OpeningTypeOK ==
  /\ column \in BOOLEAN /\ version \in {0, 1} /\ unique \in BOOLEAN
  /\ row # NoRow => /\ row.status \in {"active", "ended", "stale"}
                    /\ row.time \in [Column -> NoValue .. LastTick]
                    /\ row.old \subseteq Column
  /\ rows \in [CacheDay -> Nat] /\ daily \in [CacheDay -> Nat]
  /\ changes \in [ChangeId -> Nat]
  /\ \A p \in User : user[p].at \in
       {"shut", "open", "column", "alter", "version", "load", "update", "stale", "stamp",
        "drop", "unique", "cacheRows", "tokenRows", "clear", "fill"}
  /\ latest \in 0 .. LastTick /\ changesMade \in 0 .. MaxChanges /\ breaks \in 0 .. MaxBreaks

\* A database of an older version, or none.
OpeningInit ==
  /\ column = FALSE /\ version = 0
  /\ \/ row = NoRow
     \/ \E s \in {"active", "ended", "stale"} :
          row = [status |-> s,
                 time |-> [start |-> 1, last |-> 1, end |-> IF s = "ended" THEN 1 ELSE NoValue],
                 old |-> IF s = "ended" THEN Column ELSE {"start", "last"}]
  /\ rows = [d \in CacheDay |-> IF row = NoRow THEN 0 ELSE 1]
  /\ daily = [d \in CacheDay |-> NoValue]
  /\ unique \in BOOLEAN
  /\ changes = [s \in ChangeId |-> 0]
  /\ user = [p \in User |-> NotOpen]
  /\ latest = 0 /\ overtaken = FALSE /\ short = FALSE /\ twice = FALSE
  /\ changesMade = 0 /\ breaks = 0

Continue(p, step) == user' = [user EXCEPT ![p] = [at |-> step]]
Step(p, from, to) == user[p].at = from /\ Continue(p, to)

-----------------------------------------------------------------------------
(* migrate.                                                                *)

Open(p) ==
  /\ changesMade < MaxChanges /\ changesMade' = changesMade + 1
  /\ Step(p, "shut", "column")
  /\ UNCHANGED <<column, version, dataVars, unique, historyVars, breaks>>

\* addColumnIfMissing looks, and adds.
FindColumn(p) ==
  /\ Step(p, "column", IF column THEN "version" ELSE "alter")
  /\ UNCHANGED <<column, version, dataVars, unique, historyVars, changesMade, breaks>>

\* Another's column is an error, which is only logged.
AddColumn(p) ==
  /\ Step(p, "alter", "version")
  /\ column' = TRUE
  /\ UNCHANGED <<version, dataVars, unique, historyVars, changesMade, breaks>>

\* Faulty variant: the version is set before the work it stands for.
StampedAtOnce(p) ==
  /\ Step(p, "version", IF version = 0 THEN "load" ELSE "drop")
  /\ version' = 1
  /\ UNCHANGED <<column, dataVars, unique, historyVars, changesMade, breaks>>

ReadVersion(p) ==
  /\ Step(p, "version", IF version = 0 THEN "load" ELSE "drop")
  /\ UNCHANGED <<column, version, dataVars, unique, historyVars, changesMade, breaks>>

\* normalizeTimeColumns reads all rows, and the updates it notes name every
\* column that is in an old format, with the time it has now.
LoadTimes(p) ==
  /\ user[p].at = "load"
  /\ user' = [user EXCEPT ![p] =
       IF row = NoRow \/ row.old = {} THEN [at |-> "stale"]
       ELSE [at |-> "update", set |-> row.old, time |-> row.time]]
  /\ UNCHANGED <<column, version, dataVars, unique, historyVars, changesMade, breaks>>

UpdateTimes(p) ==
  /\ Step(p, "update", "stale")
  /\ LET set == user[p].set
     IN row' = [row EXCEPT !.time = [c \in Column |-> IF c \in set THEN user[p].time[c] ELSE @[c]],
                           !.old = @ \ set]
  /\ UNCHANGED <<column, version, rows, daily, unique, changes, historyVars, changesMade, breaks>>

\* The session ends with its last event.
EndsLate == [row EXCEPT !.time["end"] = row.time["last"],
                        !.old = IF "last" \in @ THEN @ \cup {"end"} ELSE @ \ {"end"}]

EndStale(p) ==
  /\ Step(p, "stale", "stamp")
  /\ LET time == row.time
         late == row.status = "stale" /\ (time["end"] = NoValue \/ time["end"] > time["last"])
     IN row' = IF row # NoRow /\ late THEN EndsLate ELSE row
  /\ UNCHANGED <<column, version, rows, daily, unique, changes, historyVars, changesMade, breaks>>

SetVersion(p) ==
  /\ Step(p, "stamp", "drop")
  /\ version' = 1
  /\ UNCHANGED <<column, dataVars, unique, historyVars, changesMade, breaks>>

DropIndex(p) ==
  /\ Step(p, "drop", "unique")
  /\ unique' = FALSE
  /\ UNCHANGED <<column, version, dataVars, historyVars, changesMade, breaks>>

\* Rows that are there twice make it fail, and the opening with it.
CreateIndex(p) ==
  /\ IF ~unique /\ \E s \in ChangeId : changes[s] > 1
     THEN Step(p, "unique", "shut") /\ UNCHANGED unique
     ELSE Step(p, "unique", "cacheRows") /\ unique' = TRUE
  /\ UNCHANGED <<column, version, dataVars, historyVars, changesMade, breaks>>

\* backfillDailyCostCacheIfEmpty counts the rows of both tables.
CountCache(p) ==
  /\ Step(p, "cacheRows", IF \E d \in CacheDay : daily[d] # NoValue THEN "open" ELSE "tokenRows")
  /\ UNCHANGED <<column, version, dataVars, unique, historyVars, changesMade, breaks>>

CountTokens(p) ==
  /\ Step(p, "tokenRows", IF \E d \in CacheDay : rows[d] > 0 THEN "clear" ELSE "open")
  /\ UNCHANGED <<column, version, dataVars, unique, historyVars, changesMade, breaks>>

\* rebuildDailyCostCache, here without a transaction.
ClearCache(p) ==
  /\ Step(p, "clear", "fill")
  /\ daily' = [d \in CacheDay |-> NoValue]
  /\ UNCHANGED <<column, version, row, rows, unique, changes, historyVars, changesMade, breaks>>

\* A day that has a row by now makes the INSERT fail, and the opening.
FillCache(p) ==
  /\ IF \E d \in CacheDay : rows[d] > 0 /\ daily[d] # NoValue
     THEN Step(p, "fill", "shut") /\ UNCHANGED daily
     ELSE /\ Step(p, "fill", "open")
          /\ daily' = [d \in CacheDay |-> IF rows[d] > 0 THEN rows[d] ELSE daily[d]]
  /\ UNCHANGED <<column, version, row, rows, unique, changes, historyVars, changesMade, breaks>>

Close(p) ==
  /\ Step(p, "open", "shut")
  /\ UNCHANGED <<column, version, dataVars, unique, historyVars, changesMade, breaks>>

\* A statement fails, or the process dies.  A column that cannot be added is
\* only logged.
Breaks(p) ==
  /\ user[p].at \notin {"shut", "open"} /\ breaks < MaxBreaks /\ breaks' = breaks + 1
  /\ \/ Continue(p, "shut")
     \/ Step(p, "alter", "version")
  /\ UNCHANGED <<column, version, dataVars, unique, historyVars, changesMade>>

-----------------------------------------------------------------------------
(* The daemon, which has the database open.                                *)

Writes == IsOpen(Writer) /\ changesMade < MaxChanges /\ changesMade' = changesMade + 1

\* UpsertSession.
Upsert(t) ==
  LET old == row.time
      reopened == old["end"] = NoValue \/ t >= old["end"]
      time == [start |-> IF old["start"] > t THEN t ELSE old["start"],
               last |-> IF old["last"] < t THEN t ELSE old["last"],
               end |-> IF reopened THEN NoValue ELSE old["end"]]
  IN /\ Writes /\ column
     /\ row' = IF row = NoRow
               THEN [status |-> "active", old |-> {},
                     time |-> [start |-> t, last |-> t, end |-> NoValue]]
               ELSE [time |-> time, status |-> IF reopened THEN "active" ELSE row.status,
                     old |-> {c \in row.old : time[c] = old[c]}]
     /\ latest' = IF t > latest THEN t ELSE latest
     /\ overtaken' = (overtaken \/ \E p \in User : user[p].at = "update")
     /\ UNCHANGED <<column, version, rows, daily, unique, changes, user, short, twice, breaks>>

\* MarkStaleSessionsEnded.
MarkStale ==
  /\ Writes
  /\ row # NoRow /\ row.status = "active"
  /\ row' = [EndsLate EXCEPT !.status = "stale"]
  /\ UNCHANGED <<column, version, rows, daily, unique, changes, user, historyVars, breaks>>

CacheAddsUp == \A d \in CacheDay : daily[d] = rows[d]

\* InsertTokenUsageBatch: the row and its cost, in one transaction.
InsertTokens(d) ==
  /\ Writes /\ column
  /\ rows' = [rows EXCEPT ![d] = @ + 1]
  /\ daily' = [daily EXCEPT ![d] = @ + 1]
  /\ short' = (short \/ ~CacheAddsUp)
  /\ UNCHANGED <<column, version, row, unique, changes, user, latest, overtaken, twice, breaks>>

\* InsertFileChangeWithSource, of a change that may have come before: the
\* index is what INSERT OR IGNORE goes by.
InsertChange(s) ==
  /\ Writes
  /\ changes' = [changes EXCEPT ![s] = IF unique /\ @ > 0 THEN @ ELSE @ + 1]
  /\ twice' = (twice \/ (~unique /\ changes[s] > 0))
  /\ UNCHANGED <<column, version, row, rows, daily, unique, user, latest, overtaken, short, breaks>>

OpeningNext ==
  \/ \E p \in User :
       \/ Open(p) \/ FindColumn(p) \/ AddColumn(p) \/ ReadVersion(p) \/ LoadTimes(p)
       \/ UpdateTimes(p) \/ EndStale(p) \/ SetVersion(p) \/ DropIndex(p) \/ CreateIndex(p)
       \/ CountCache(p) \/ CountTokens(p) \/ ClearCache(p) \/ FillCache(p) \/ Close(p) \/ Breaks(p)
  \/ \E t \in 1 .. LastTick : Upsert(t)
  \/ MarkStale
  \/ \E d \in CacheDay : InsertTokens(d)
  \/ \E s \in ChangeId : InsertChange(s)

-----------------------------------------------------------------------------

\* Once the version says so, no time is left in an old format, and whoever
\* may write finds it so.
MigratedIsNormal ==
  /\ version = 1 /\ row # NoRow => row.old = {}
  /\ \A p \in User : IsOpen(p) => version = 1

\* A session is as late as its latest event, unless that came between the
\* reading and the writing of somebody's normalisation.
EventsKept == overtaken \/ row = NoRow \/ row.time["last"] >= latest

\* The cache of daily costs is empty or adds up, unless it was added to
\* while it was empty and should not have been.
CacheIsWhole == short \/ CacheAddsUp \/ \A d \in CacheDay : daily[d] = NoValue

\* Only a change repeated while there was no index, and a process that fails
\* where it had none, leave the database without it for good.
IndexComesBack ==
  unique \/ twice \/ breaks > 0 \/ ~IsOpen(Writer) \/ \E p \in User : user[p].at = "unique"

\* However many processes open the database at once, and whatever the daemon
\* writes meanwhile, what an opening is there to do is done, and it takes
\* nothing back.
OpeningKeeps == MigratedIsNormal /\ EventsKept /\ CacheIsWhole /\ IndexComesBack

\* CHANGELOG.md:569-570 of logs that are read again: "`source_id` UNIQUE indexes
\* prevent double-counting."
ChangesCountedOnce == \A s \in ChangeId : changes[s] <= 1

=============================================================================
