---------------------------- MODULE ServicesProofs ----------------------------
(***************************************************************************)
(* The background services of the daemon and its commands, for any number  *)
(* of processes, endpoints, budgets, tools, deliveries, failures and       *)
(* mishaps.  First the files that several processes share: the database as *)
(* it is opened, the log, the database and its backups, the two caches,    *)
(* the settings of Claude Code, and the lock, pid file and sockets of the  *)
(* daemon.  Then alarms: how they are found and delivered.  Each is proved *)
(* of its own specification.  In the end they are taken together with what *)
(* ReportsProofs is about.                                                 *)
(***************************************************************************)
EXTENDS MCServices, ReportsProofs

-----------------------------------------------------------------------------
(* The database as it is opened.                                           *)

MigrationSpec == OpeningInit /\ [][OpeningNext]_openingVars

SessionRow == [status : {"active", "ended", "stale"}, time : [Column -> Nat], old : SUBSET Column]

OpeningTyped ==
  /\ row # NoRow => row \in SessionRow
  /\ rows \in [CacheDay -> Nat] /\ daily \in [CacheDay -> Nat] /\ changes \in [ChangeId -> Nat]
  /\ user = [p \in User |-> user[p]]
  /\ \A p \in User : user[p].at = "update" =>
       user[p].set \in SUBSET Column /\ user[p].time \in [Column -> Nat]
  /\ version \in {0, 1} /\ latest \in Nat /\ breaks \in Nat

\* No time is in an old format.
Normal == row # NoRow => row.old = {}

\* The steps behind the version, and those behind the index.
Migrated == {"drop", "unique", "cacheRows", "tokenRows", "clear", "fill", "open"}
Indexed == {"cacheRows", "tokenRows", "clear", "fill", "open"}

\* Who has updates in hand has them for all that is old, and who has made
\* them leaves nothing old.
FormatsInv ==
  /\ version = 1 => Normal
  /\ \A p \in User :
       /\ user[p].at = "update" => row # NoRow /\ row.old \subseteq user[p].set
       /\ user[p].at \in {"stale", "stamp"} => Normal
       /\ user[p].at \in Migrated => version = 1

\* A copy of the session that is about to be written is as late as the session.
LatestInv ==
  /\ EventsKept
  /\ row = NoRow => latest = 0
  /\ \A p \in User : user[p].at = "update" => overtaken \/ user[p].time["last"] >= latest

\* No change is there twice but for one that came while there was no index,
\* and the daemon has found or made one.
IndexInv ==
  /\ twice \/ \A s \in ChangeId : changes[s] <= 1
  /\ \/ unique \/ twice \/ breaks > 0
     \/ user[Writer].at \notin Indexed
     \/ \E p \in User : user[p].at = "unique"

OpeningInv == OpeningTyped /\ FormatsInv /\ LatestInv /\ CacheIsWhole /\ IndexInv

LEMMA OpeningInvKeeps == OpeningInv => OpeningKeeps
<1> SUFFICES ASSUME OpeningInv PROVE OpeningKeeps
  OBVIOUS
<1>1. MigratedIsNormal
  BY DEF OpeningInv, FormatsInv, MigratedIsNormal, IsOpen, Migrated, Normal
<1>2. IndexComesBack
  BY DEF OpeningInv, IndexInv, IndexComesBack, IsOpen, Indexed
<1> QED
  BY <1>1, <1>2 DEF OpeningInv, LatestInv, OpeningKeeps

\* A step of p that touches no row.
LEMMA UserMoves ==
  ASSUME OpeningInv, NEW p \in User, NEW r,
         user' = [user EXCEPT ![p] = r],
         UNCHANGED <<dataVars, unique, historyVars>>,
         breaks' \in Nat, breaks' >= breaks,
         version' \in {0, 1}, version = 1 => version' = 1, version' = 1 => Normal,
         r.at = "update" => row # NoRow /\ r.set = row.old /\ r.time = row.time,
         r.at \in {"stale", "stamp"} => Normal,
         r.at \in Migrated => version' = 1,
         r.at \in Indexed => user[p].at \in Indexed,
         user[p].at = "unique" => breaks' > 0
  PROVE  OpeningInv'
<1>1. /\ user'[p] = r /\ user' = [q \in User |-> user'[q]]
      /\ \A q \in User : q # p => user'[q] = user[q]
  BY DEF OpeningInv, OpeningTyped
<1>2. row # NoRow => row.old \in SUBSET Column /\ row.time \in [Column -> Nat]
  BY DEF OpeningInv, OpeningTyped, SessionRow
<1>3. OpeningTyped'
  <2>1. \A q \in User : user'[q].at = "update" =>
          user'[q].set \in SUBSET Column /\ user'[q].time \in [Column -> Nat]
    BY <1>1, <1>2 DEF OpeningInv, OpeningTyped
  <2> QED
    BY <1>1, <2>1 DEF OpeningInv, OpeningTyped, dataVars, historyVars
<1>4. FormatsInv'
  BY <1>1 DEF OpeningInv, FormatsInv, Normal, dataVars
<1>5. LatestInv'
  BY <1>1 DEF OpeningInv, LatestInv, EventsKept, dataVars, historyVars
<1>6. CacheIsWhole'
  BY DEF OpeningInv, CacheIsWhole, CacheAddsUp, dataVars, historyVars
<1>7. IndexInv'
  <2>1. CASE user[p].at = "unique"
    BY <2>1 DEF OpeningInv, IndexInv, dataVars, historyVars
  <2>2. CASE user[p].at # "unique"
    <3>1. \A q \in User : user[q].at = "unique" => user'[q].at = "unique"
      BY <1>1, <2>2
    <3>2. user'[Writer].at \in Indexed => user[Writer].at \in Indexed
      BY <1>1 DEF User
    <3>3. breaks > 0 => breaks' > 0
      BY DEF OpeningInv, OpeningTyped
    <3> QED
      BY <3>1, <3>2, <3>3 DEF OpeningInv, IndexInv, dataVars, historyVars
  <2> QED
    BY <2>1, <2>2
<1> QED
  BY <1>3, <1>4, <1>5, <1>6, <1>7 DEF OpeningInv

LEMMA WalkKeeps ==
  ASSUME OpeningInv, NEW p \in User,
         \/ Open(p) \/ FindColumn(p) \/ AddColumn(p) \/ ReadVersion(p) \/ SetVersion(p)
         \/ CountCache(p) \/ CountTokens(p) \/ Close(p) \/ Breaks(p)
  PROVE  OpeningInv'
<1>1. UNCHANGED <<dataVars, unique, historyVars>>
  BY DEF Open, FindColumn, AddColumn, ReadVersion, SetVersion, CountCache, CountTokens, Close, Breaks
<1>2. breaks \in Nat /\ version \in {0, 1} /\ (user[p].at \in {"stale", "stamp"} => Normal)
  BY DEF OpeningInv, OpeningTyped, FormatsInv
<1>3. breaks' \in Nat /\ breaks' >= breaks
  BY <1>2 DEF Open, FindColumn, AddColumn, ReadVersion, SetVersion, CountCache, CountTokens, Close, Breaks
<1>4. PICK to \in {"shut", "column", "alter", "version", "load", "drop", "open", "tokenRows", "clear"} :
        /\ user' = [user EXCEPT ![p] = [at |-> to]]
        /\ to = "drop" => version' = 1
        /\ to \in Indexed => user[p].at \in Indexed
        /\ user[p].at = "unique" => breaks' > 0
        /\ version' = version \/ (version' = 1 /\ user[p].at = "stamp")
  <2>1. CASE Open(p)
    BY <2>1 DEF Open, Step, Continue, Indexed
  <2>2. CASE FindColumn(p)
    BY <2>2 DEF FindColumn, Step, Continue, Indexed
  <2>3. CASE AddColumn(p)
    BY <2>3 DEF AddColumn, Step, Continue, Indexed
  <2>4. CASE ReadVersion(p)
    BY <1>2, <2>4 DEF ReadVersion, Step, Continue, Indexed
  <2>5. CASE SetVersion(p)
    BY <2>5 DEF SetVersion, Step, Continue, Indexed
  <2>6. CASE CountCache(p)
    BY <2>6 DEF CountCache, Step, Continue, Indexed
  <2>7. CASE CountTokens(p)
    BY <2>7 DEF CountTokens, Step, Continue, Indexed
  <2>8. CASE Close(p)
    BY <2>8 DEF Close, Step, Continue, Indexed
  <2>9. CASE Breaks(p)
    BY <1>2, <2>9 DEF Breaks, Step, Continue, Indexed
  <2> QED
    BY <2>1, <2>2, <2>3, <2>4, <2>5, <2>6, <2>7, <2>8, <2>9
<1>5. to \in Migrated => version' = 1
  <2>1. user[p].at \in Indexed => version = 1
    BY DEF OpeningInv, FormatsInv, Indexed, Migrated
  <2> QED
    BY <1>4, <2>1 DEF Migrated, Indexed
<1>6. version' = 1 => Normal
  BY <1>2, <1>4 DEF OpeningInv, FormatsInv
<1> DEFINE r == [at |-> to]
<1>7. r.at = to
  OBVIOUS
<1>8. r.at # "update" /\ r.at \notin {"stale", "stamp"} /\ (r.at \in Migrated => version' = 1)
      /\ (r.at \in Indexed => user[p].at \in Indexed) /\ user' = [user EXCEPT ![p] = r]
  BY <1>4, <1>5, <1>7
<1>9. version' \in {0, 1} /\ (version = 1 => version' = 1)
  BY <1>2, <1>4
<1> HIDE DEF r
<1> QED
  BY <1>1, <1>3, <1>4, <1>6, <1>8, <1>9, UserMoves

LEMMA LoadKeeps ==
  ASSUME OpeningInv, NEW p \in User, LoadTimes(p)
  PROVE  OpeningInv'
<1>1. UNCHANGED <<dataVars, unique, historyVars, version, breaks>> /\ user[p].at = "load"
  BY DEF LoadTimes
<1>2. breaks \in Nat /\ version \in {0, 1} /\ (version = 1 => Normal)
  BY DEF OpeningInv, OpeningTyped, FormatsInv
<1>3. breaks' \in Nat /\ breaks' >= breaks /\ version' \in {0, 1} /\ (version' = 1 => Normal)
  BY <1>1, <1>2
<1>4. CASE row = NoRow \/ row.old = {}
  <2> DEFINE r == [at |-> "stale"]
  <2>1. user' = [user EXCEPT ![p] = r] /\ Normal /\ r.at = "stale"
    BY <1>4 DEF LoadTimes, Normal
  <2> HIDE DEF r
  <2> QED
    BY <1>1, <1>3, <2>1, UserMoves DEF Migrated, Indexed
<1>5. CASE row # NoRow /\ row.old # {}
  <2> DEFINE r == [at |-> "update", set |-> row.old, time |-> row.time]
  <2>1. user' = [user EXCEPT ![p] = r] /\ r.at = "update" /\ r.set = row.old /\ r.time = row.time
    BY <1>5 DEF LoadTimes
  <2> HIDE DEF r
  <2> QED
    BY <1>1, <1>3, <1>5, <2>1, UserMoves DEF Migrated, Indexed
<1> QED
  BY <1>4, <1>5

LEMMA UpdateKeeps ==
  ASSUME OpeningInv, NEW p \in User, UpdateTimes(p)
  PROVE  OpeningInv'
<1> DEFINE set == user[p].set
           time == user[p].time
           new == [c \in Column |-> IF c \in set THEN time[c] ELSE row.time[c]]
<1>1. /\ UNCHANGED <<column, version, rows, daily, unique, changes, historyVars, changesMade, breaks>>
      /\ user' = [user EXCEPT ![p] = [at |-> "stale"]] /\ user[p].at = "update"
      /\ row' = [row EXCEPT !.time = new, !.old = row.old \ set]
  BY DEF UpdateTimes, Step, Continue
<1>2. /\ row \in SessionRow /\ row # NoRow /\ row.old \subseteq set
      /\ set \in SUBSET Column /\ time \in [Column -> Nat]
      /\ overtaken \/ time["last"] >= latest
      /\ overtaken \/ row.time["last"] >= latest
      /\ latest \in Nat
  BY <1>1 DEF OpeningInv, OpeningTyped, FormatsInv, LatestInv, EventsKept
<1>3. row.time \in [Column -> Nat] /\ "last" \in Column
  BY <1>2 DEF SessionRow, Column
<1>4. new \in [Column -> Nat] /\ (overtaken \/ new["last"] >= latest)
  BY <1>2, <1>3
<1> HIDE DEF new, set, time
<1>5. row' \in SessionRow /\ row'.time = new /\ row'.old = row.old \ set
  BY <1>1, <1>2, <1>4 DEF SessionRow
<1>6. row' # NoRow /\ row'.old = {}
  <2>1. row'.status # "none"
    BY <1>5 DEF SessionRow
  <2> QED
    BY <1>2, <1>5, <2>1 DEF NoRow
<1>7. /\ user'[p] = [at |-> "stale"] /\ user' = [q \in User |-> user'[q]]
      /\ \A q \in User : q # p => user'[q] = user[q]
  BY <1>1 DEF OpeningInv, OpeningTyped
<1>8. \A q \in User : user'[q].at = "update" => q # p
  BY <1>7
<1>9. OpeningTyped'
  BY <1>1, <1>5, <1>7, <1>8 DEF OpeningInv, OpeningTyped, historyVars
<1>10. FormatsInv'
  <2>1. Normal'
    BY <1>6 DEF Normal
  <2>2. ASSUME NEW q \in User
        PROVE  (user'[q].at = "update" => row' # NoRow /\ row'.old \subseteq user'[q].set)
               /\ (user'[q].at \in Migrated => version = 1)
    <3>1. CASE q = p
      BY <1>7, <3>1 DEF Migrated
    <3>2. CASE q # p
      BY <1>6, <1>7, <3>2 DEF OpeningInv, FormatsInv
    <3> QED
      BY <3>1, <3>2
  <2> QED
    BY <1>1, <2>1, <2>2 DEF FormatsInv
<1>11. LatestInv'
  BY <1>1, <1>4, <1>5, <1>6, <1>7, <1>8 DEF OpeningInv, LatestInv, EventsKept, historyVars
<1>12. CacheIsWhole'
  BY <1>1 DEF OpeningInv, CacheIsWhole, CacheAddsUp, historyVars
<1>13. IndexInv'
  <2>1. \A q \in User : user[q].at = "unique" => user'[q].at = "unique"
    BY <1>1, <1>7
  <2>2. user'[Writer].at \in Indexed => user[Writer].at \in Indexed
    BY <1>7 DEF User, Indexed
  <2> QED
    BY <1>1, <2>1, <2>2 DEF OpeningInv, IndexInv, historyVars
<1> QED
  BY <1>9, <1>10, <1>11, <1>12, <1>13 DEF OpeningInv

\* The session as it is when it ends with its last event.
LEMMA EndsLateIs ==
  ASSUME row \in SessionRow
  PROVE  /\ EndsLate \in SessionRow /\ EndsLate.status = row.status
         /\ EndsLate.time["last"] = row.time["last"]
         /\ row.old = {} => EndsLate.old = {}
<1> DEFINE time == [row.time EXCEPT !["end"] = row.time["last"]]
           old == IF "last" \in row.old THEN row.old \cup {"end"} ELSE row.old \ {"end"}
           k == [row EXCEPT !.time = time]
<1>1. row.time \in [Column -> Nat] /\ row.old \in SUBSET Column /\ "last" \in Column /\ "end" \in Column
  BY DEF SessionRow, Column
<1>2. time \in [Column -> Nat] /\ time["last"] = row.time["last"]
  BY <1>1
<1>3. old \in SUBSET Column /\ (row.old = {} => old = {})
  BY <1>1
<1>4. EndsLate = [[row EXCEPT !.time = time] EXCEPT !.old = old]
  BY DEF EndsLate, SessionRow
<1> HIDE DEF time, old
<1>5. k \in SessionRow /\ k.status = row.status /\ k.time = time
  BY <1>2 DEF SessionRow
<1>6. EndsLate = [k EXCEPT !.old = old]
  BY <1>4
<1> HIDE DEF k
<1>7. EndsLate \in SessionRow /\ EndsLate.status = row.status /\ EndsLate.time = time /\ EndsLate.old = old
  BY <1>3, <1>5, <1>6 DEF SessionRow
<1> QED
  BY <1>2, <1>3, <1>7

\* The rows of the session and the daemon's writes leave the processes where
\* they are, and nothing that was in a new format is in an old one again.
LEMMA RowKeeps ==
  ASSUME OpeningInv,
         UNCHANGED <<version, rows, daily, unique, changes, user, short, twice, breaks>>,
         row # NoRow => row' \in SessionRow /\ row'.old \subseteq row.old,
         row' # NoRow => row' \in SessionRow /\ (row = NoRow => row'.old = {}),
         row # NoRow => row' # NoRow,
         latest' \in Nat, row' = NoRow => latest' = 0, EventsKept',
         latest' # latest \/ overtaken' # overtaken =>
           overtaken' \/ \A p \in User : user[p].at # "update",
         overtaken => overtaken'
  PROVE  OpeningInv'
<1>1. OpeningTyped'
  BY DEF OpeningInv, OpeningTyped
<1>2. Normal => Normal'
  <2>1. row # NoRow /\ row.old = {} => row'.old = {}
    OBVIOUS
  <2> QED
    BY <2>1 DEF Normal
<1>3. \A p \in User : user[p].at = "update" => row' # NoRow /\ row'.old \subseteq user[p].set
  BY DEF OpeningInv, FormatsInv
<1>4. FormatsInv'
  BY <1>2, <1>3 DEF OpeningInv, FormatsInv
<1>5. LatestInv'
  BY DEF OpeningInv, LatestInv
<1>6. CacheIsWhole' /\ IndexInv'
  BY DEF OpeningInv, CacheIsWhole, CacheAddsUp, IndexInv
<1> QED
  BY <1>1, <1>4, <1>5, <1>6 DEF OpeningInv

LEMMA StaleKeeps ==
  ASSUME OpeningInv, MarkStale
  PROVE  OpeningInv'
<1>1. /\ row # NoRow /\ row \in SessionRow /\ row' = [EndsLate EXCEPT !.status = "stale"]
      /\ UNCHANGED <<version, rows, daily, unique, changes, user, short, twice, breaks, latest, overtaken>>
      /\ latest \in Nat /\ EventsKept
  BY DEF MarkStale, historyVars, OpeningInv, OpeningTyped, LatestInv
<1>2. row.old = {}
  BY <1>1 DEF MarkStale, Writes, IsOpen, OpeningInv, FormatsInv, Migrated, Normal, User
<1> DEFINE k == EndsLate
<1>3. k \in SessionRow /\ k.time["last"] = row.time["last"] /\ k.old = {}
  BY <1>1, <1>2, EndsLateIs
<1> HIDE DEF k
<1>4. row' = [k EXCEPT !.status = "stale"]
  BY <1>1 DEF k
<1>5. row' \in SessionRow /\ row'.time = k.time /\ row'.old = {} /\ row'.status # "none"
  BY <1>3, <1>4 DEF SessionRow
<1>6. row' # NoRow
  BY <1>5 DEF NoRow
<1>7. EventsKept'
  BY <1>1, <1>3, <1>5, <1>6 DEF EventsKept
<1>8. row'.old \subseteq row.old
  BY <1>5
<1> QED
  BY <1>1, <1>5, <1>6, <1>7, <1>8, RowKeeps

LEMMA UpsertKeeps ==
  ASSUME OpeningInv, NEW t \in 1 .. LastTick, Upsert(t)
  PROVE  OpeningInv'
<1>1. /\ UNCHANGED <<version, rows, daily, unique, changes, user, short, twice, breaks>>
      /\ t \in Nat /\ latest \in Nat /\ latest' = IF t > latest THEN t ELSE latest
      /\ overtaken' = (overtaken \/ \E p \in User : user[p].at = "update")
      /\ row # NoRow => row \in SessionRow
      /\ EventsKept /\ (row = NoRow => latest = 0)
  BY OpeningAssumption DEF Upsert, OpeningInv, OpeningTyped, LatestInv
<1>2. CASE row = NoRow
  <2> DEFINE time == [start |-> t, last |-> t, end |-> NoValue]
  <2>1. row' = [status |-> "active", old |-> {}, time |-> time]
    BY <1>2 DEF Upsert
  <2>2. time \in [Column -> Nat] /\ time["last"] = t
    BY <1>1 DEF Column, NoValue
  <2> HIDE DEF time
  <2>3. row' \in SessionRow /\ row'.old = {} /\ row'.time["last"] = t /\ row'.status # "none"
    BY <2>1, <2>2 DEF SessionRow
  <2>4. row' # NoRow
    BY <2>3 DEF NoRow
  <2>5. EventsKept'
    BY <1>1, <1>2, <2>3 DEF EventsKept
  <2> QED
    BY <1>1, <1>2, <2>3, <2>4, <2>5, RowKeeps
<1>3. CASE row # NoRow
  <2> DEFINE old == row.time
             reopened == old["end"] = NoValue \/ t >= old["end"]
             time == [start |-> IF old["start"] > t THEN t ELSE old["start"],
                      last |-> IF old["last"] < t THEN t ELSE old["last"],
                      end |-> IF reopened THEN NoValue ELSE old["end"]]
             status == IF reopened THEN "active" ELSE row.status
             left == {c \in row.old : time[c] = old[c]}
  <2>1. row' = [time |-> time, status |-> status, old |-> left]
    BY <1>3 DEF Upsert
  <2>2. old \in [Column -> Nat] /\ row.status \in {"active", "ended", "stale"} /\ row.old \in SUBSET Column
    BY <1>1, <1>3 DEF SessionRow
  <2>3. time \in [Column -> Nat] /\ time["last"] = (IF old["last"] < t THEN t ELSE old["last"])
    BY <1>1, <2>2 DEF Column, NoValue
  <2>4. left \in SUBSET row.old /\ status \in {"active", "ended", "stale"}
    BY <2>2
  <2> HIDE DEF time, status, left
  <2>5. row' \in SessionRow /\ row'.old \subseteq row.old /\ row'.time = time /\ row'.status # "none"
    BY <2>1, <2>2, <2>3, <2>4 DEF SessionRow
  <2>6. row' # NoRow
    BY <2>5 DEF NoRow
  <2>7. EventsKept'
    <3>1. old["last"] \in Nat /\ "last" \in Column
      BY <2>2 DEF Column
    <3>2. row.time["last"] >= latest => row'.time["last"] >= latest'
      BY <1>1, <2>3, <2>5, <3>1
    <3>3. overtaken => overtaken'
      BY <1>1
    <3> QED
      BY <1>1, <1>3, <3>2, <3>3 DEF EventsKept
  <2> QED
    BY <1>1, <1>3, <2>5, <2>6, <2>7, RowKeeps
<1> QED
  BY <1>2, <1>3

LEMMA EndKeeps ==
  ASSUME OpeningInv, NEW p \in User, EndStale(p)
  PROVE  OpeningInv'
<1>1. /\ user[p].at = "stale" /\ user' = [user EXCEPT ![p] = [at |-> "stamp"]]
      /\ UNCHANGED <<column, version, rows, daily, unique, changes, historyVars, breaks>>
      /\ row' = row \/ (row # NoRow /\ row' = EndsLate)
  BY DEF EndStale, Step, Continue
<1>2. Normal /\ (row # NoRow => row \in SessionRow) /\ EventsKept
  BY <1>1 DEF OpeningInv, OpeningTyped, FormatsInv, LatestInv
<1>3. row # NoRow => row' \in SessionRow /\ row'.old = {} /\ row'.time["last"] = row.time["last"] /\ row' # NoRow
  <2>1. row' \in SessionRow => row' # NoRow
    <3>1. row' \in SessionRow => row'.status # "none"
      BY DEF SessionRow
    <3> QED
      BY <3>1 DEF NoRow
  <2> QED
    BY <1>1, <1>2, <2>1, EndsLateIs DEF Normal
<1>4. row = NoRow => row' = NoRow
  BY <1>1
<1>5. /\ user'[p] = [at |-> "stamp"] /\ user' = [q \in User |-> user'[q]]
      /\ \A q \in User : q # p => user'[q] = user[q]
  BY <1>1 DEF OpeningInv, OpeningTyped
<1>6. \A q \in User : user'[q].at = "update" => user[q].at = "update" /\ user'[q] = user[q]
  BY <1>5
<1>7. OpeningTyped'
  BY <1>1, <1>3, <1>4, <1>5, <1>6 DEF OpeningInv, OpeningTyped, historyVars
<1>8. FormatsInv'
  <2>1. Normal'
    BY <1>3, <1>4 DEF Normal
  <2>2. ASSUME NEW q \in User
        PROVE  (user'[q].at = "update" => row' # NoRow /\ row'.old \subseteq user'[q].set)
               /\ (user'[q].at \in Migrated => version = 1)
    <3>1. CASE q = p
      BY <1>5, <3>1 DEF Migrated
    <3>2. CASE q # p
      BY <1>3, <1>5, <3>2 DEF OpeningInv, FormatsInv
    <3> QED
      BY <3>1, <3>2
  <2> QED
    BY <1>1, <2>1, <2>2 DEF FormatsInv
<1>9. LatestInv'
  BY <1>1, <1>2, <1>3, <1>4, <1>6 DEF OpeningInv, LatestInv, EventsKept, historyVars
<1>10. CacheIsWhole'
  BY <1>1 DEF OpeningInv, CacheIsWhole, CacheAddsUp, historyVars
<1>11. IndexInv'
  <2>1. \A q \in User : user[q].at = "unique" => user'[q].at = "unique"
    BY <1>1, <1>5
  <2>2. user'[Writer].at \in Indexed => user[Writer].at \in Indexed
    BY <1>5 DEF User, Indexed
  <2> QED
    BY <1>1, <2>1, <2>2 DEF OpeningInv, IndexInv, historyVars
<1> QED
  BY <1>7, <1>8, <1>9, <1>10, <1>11 DEF OpeningInv

\* A step of p that is about the index or the cache.
LEMMA TablesKeep ==
  ASSUME OpeningInv, NEW p \in User, NEW to \in {"shut"} \cup Migrated,
         user' = [user EXCEPT ![p] = [at |-> to]], user[p].at \in Migrated,
         UNCHANGED <<version, row, rows, changes, historyVars, breaks>>,
         daily' \in [CacheDay -> Nat], CacheIsWhole', IndexInv'
  PROVE  OpeningInv'
<1>1. /\ user'[p] = [at |-> to] /\ user' = [q \in User |-> user'[q]]
      /\ \A q \in User : q # p => user'[q] = user[q]
  BY DEF OpeningInv, OpeningTyped
<1>2. to # "update" /\ to \notin {"stale", "stamp"} /\ version = 1
  BY DEF OpeningInv, FormatsInv, Migrated
<1>3. OpeningTyped'
  BY <1>1, <1>2 DEF OpeningInv, OpeningTyped, historyVars
<1>4. FormatsInv'
  BY <1>1, <1>2 DEF OpeningInv, FormatsInv, Normal
<1>5. LatestInv'
  BY <1>1, <1>2 DEF OpeningInv, LatestInv, EventsKept, historyVars
<1> QED
  BY <1>3, <1>4, <1>5 DEF OpeningInv

LEMMA IndexKeeps ==
  ASSUME OpeningInv, NEW p \in User, DropIndex(p) \/ CreateIndex(p)
  PROVE  OpeningInv'
<1>1. UNCHANGED <<version, row, rows, daily, changes, historyVars, breaks>>
  BY DEF DropIndex, CreateIndex, dataVars
<1>2. daily' \in [CacheDay -> Nat] /\ CacheIsWhole'
  BY <1>1 DEF OpeningInv, OpeningTyped, CacheIsWhole, CacheAddsUp, historyVars
<1>4. CASE DropIndex(p)
  <2>1. user[p].at = "drop" /\ user' = [user EXCEPT ![p] = [at |-> "unique"]]
    BY <1>4 DEF DropIndex, Step, Continue
  <2>2. user'[p].at = "unique"
    <3>1. user'[p] = [at |-> "unique"]
      BY <2>1 DEF OpeningInv, OpeningTyped
    <3> QED
      BY <3>1
  <2>3. IndexInv'
    BY <1>1, <2>2 DEF OpeningInv, IndexInv, historyVars
  <2> QED
    BY <1>1, <1>2, <2>1, <2>3, TablesKeep DEF Migrated
<1>5. CASE CreateIndex(p)
  <2>1. user[p].at = "unique" /\ (twice \/ \A s \in ChangeId : changes[s] <= 1)
    BY <1>5 DEF CreateIndex, Step, OpeningInv, IndexInv
  <2>2. CASE ~unique /\ \E s \in ChangeId : changes[s] > 1
    <3>1. user' = [user EXCEPT ![p] = [at |-> "shut"]] /\ unique' = unique
      BY <1>5, <2>2 DEF CreateIndex, Step, Continue
    <3>2. twice
      BY <2>1, <2>2 DEF OpeningInv, OpeningTyped
    <3>3. IndexInv'
      BY <1>1, <3>2 DEF IndexInv, historyVars
    <3> QED
      BY <1>1, <1>2, <2>1, <3>1, <3>3, TablesKeep DEF Migrated
  <2>3. CASE ~(~unique /\ \E s \in ChangeId : changes[s] > 1)
    <3>1. user' = [user EXCEPT ![p] = [at |-> "cacheRows"]] /\ unique' = TRUE
      BY <1>5, <2>3 DEF CreateIndex, Step, Continue
    <3>2. IndexInv'
      BY <1>1, <2>1, <3>1 DEF IndexInv, historyVars
    <3> QED
      BY <1>1, <1>2, <2>1, <3>1, <3>2, TablesKeep DEF Migrated
  <2> QED
    BY <2>2, <2>3
<1> QED
  BY <1>4, <1>5

LEMMA RebuildKeepsIndex ==
  ASSUME OpeningInv, NEW p \in User, ClearCache(p) \/ FillCache(p)
  PROVE  OpeningInv'
<1>1. UNCHANGED <<version, row, rows, unique, changes, historyVars, breaks>>
  BY DEF ClearCache, FillCache
<1>2. PICK to \in {"fill", "open", "shut"} :
        user' = [user EXCEPT ![p] = [at |-> to]] /\ user[p].at \in {"clear", "fill"}
  BY DEF ClearCache, FillCache, Step, Continue
<1>3. user'[p] = [at |-> to] /\ \A q \in User : q # p => user'[q] = user[q]
  BY <1>2 DEF OpeningInv, OpeningTyped
<1>4. IndexInv'
  <2>1. \A q \in User : user[q].at = "unique" => user'[q].at = "unique"
    BY <1>2, <1>3
  <2>2. user'[Writer].at \in Indexed => user[Writer].at \in Indexed
    BY <1>2, <1>3 DEF User, Indexed
  <2> QED
    BY <1>1, <2>1, <2>2 DEF OpeningInv, IndexInv, historyVars
<1>5. daily \in [CacheDay -> Nat] /\ rows \in [CacheDay -> Nat] /\ CacheIsWhole
  BY DEF OpeningInv, OpeningTyped
<1>6. daily' \in [CacheDay -> Nat] /\ CacheIsWhole'
  <2>1. CASE ClearCache(p)
    BY <1>1, <2>1 DEF ClearCache, CacheIsWhole, NoValue
  <2>2. CASE FillCache(p) /\ daily' = daily
    BY <1>1, <1>5, <2>2 DEF CacheIsWhole, CacheAddsUp, historyVars
  <2>3. CASE FillCache(p) /\ daily' # daily
    <3>1. /\ daily' = [d \in CacheDay |-> IF rows[d] > 0 THEN rows[d] ELSE daily[d]]
          /\ \A d \in CacheDay : ~(rows[d] > 0 /\ daily[d] # NoValue)
      BY <2>3 DEF FillCache
    <3>2. daily' \in [CacheDay -> Nat]
      BY <1>5, <3>1
    <3>3. \A d \in CacheDay : CacheIsWhole /\ ~short => daily'[d] = rows[d]
      BY <1>5, <3>1 DEF CacheIsWhole, CacheAddsUp, NoValue
    <3> QED
      BY <1>1, <1>5, <3>2, <3>3 DEF CacheIsWhole, CacheAddsUp, historyVars
  <2> QED
    BY <2>1, <2>2, <2>3
<1> QED
  BY <1>1, <1>2, <1>4, <1>6, TablesKeep DEF Migrated

LEMMA TokensKeep ==
  ASSUME OpeningInv, NEW d \in CacheDay, InsertTokens(d)
  PROVE  OpeningInv'
<1>1. /\ UNCHANGED <<version, row, unique, changes, user, latest, overtaken, twice, breaks>>
      /\ rows' = [rows EXCEPT ![d] = rows[d] + 1] /\ daily' = [daily EXCEPT ![d] = daily[d] + 1]
      /\ short' = (short \/ ~CacheAddsUp)
      /\ rows \in [CacheDay -> Nat] /\ daily \in [CacheDay -> Nat]
  BY DEF InsertTokens, OpeningInv, OpeningTyped
<1>2. rows' \in [CacheDay -> Nat] /\ daily' \in [CacheDay -> Nat] /\ (CacheAddsUp => CacheAddsUp')
  BY <1>1 DEF CacheAddsUp
<1>3. CacheIsWhole'
  BY <1>1, <1>2 DEF CacheIsWhole
<1>4. OpeningTyped' /\ FormatsInv' /\ LatestInv' /\ IndexInv'
  BY <1>1, <1>2 DEF OpeningInv, OpeningTyped, FormatsInv, Normal, LatestInv, EventsKept, IndexInv
<1> QED
  BY <1>3, <1>4 DEF OpeningInv

LEMMA ChangeKeeps ==
  ASSUME OpeningInv, NEW s \in ChangeId, InsertChange(s)
  PROVE  OpeningInv'
<1>1. /\ UNCHANGED <<version, row, rows, daily, unique, user, latest, overtaken, short, breaks>>
      /\ changes' = [changes EXCEPT ![s] = IF unique /\ changes[s] > 0 THEN changes[s] ELSE changes[s] + 1]
      /\ twice' = (twice \/ (~unique /\ changes[s] > 0))
      /\ changes \in [ChangeId -> Nat]
  BY DEF InsertChange, OpeningInv, OpeningTyped
<1>2. changes' \in [ChangeId -> Nat]
  BY <1>1
<1>3. twice' \/ \A z \in ChangeId : changes'[z] <= 1
  <2>1. (~unique /\ changes[s] > 0) \/ changes'[s] <= 1 \/ changes'[s] = changes[s]
    BY <1>1
  <2>2. \A z \in ChangeId : z # s => changes'[z] = changes[z]
    BY <1>1
  <2>3. twice \/ (\A z \in ChangeId : changes[z] <= 1)
    BY DEF OpeningInv, IndexInv
  <2>4. CASE twice'
    BY <2>4
  <2>5. CASE ~twice'
    <3>1. ~twice /\ ~(~unique /\ changes[s] > 0)
      BY <1>1, <2>5
    <3> QED
      BY <2>1, <2>2, <2>3, <3>1
  <2> QED
    BY <2>4, <2>5
<1>4. IndexInv'
  BY <1>1, <1>3 DEF OpeningInv, IndexInv
<1>5. OpeningTyped' /\ FormatsInv' /\ LatestInv' /\ CacheIsWhole'
  BY <1>1, <1>2 DEF OpeningInv, OpeningTyped, FormatsInv, Normal, LatestInv, EventsKept, CacheIsWhole, CacheAddsUp
<1> QED
  BY <1>4, <1>5 DEF OpeningInv

LEMMA OpeningStep == OpeningInv /\ [OpeningNext]_openingVars => OpeningInv'
<1> SUFFICES ASSUME OpeningInv, [OpeningNext]_openingVars PROVE OpeningInv'
  OBVIOUS
<1>1. CASE UNCHANGED openingVars
  BY <1>1 DEF openingVars, OpeningInv, OpeningTyped, FormatsInv, Normal, LatestInv, EventsKept,
     CacheIsWhole, CacheAddsUp, IndexInv
<1> QED
  BY <1>1, WalkKeeps, LoadKeeps, UpdateKeeps, EndKeeps, IndexKeeps, RebuildKeepsIndex, UpsertKeeps,
     StaleKeeps, TokensKeep, ChangeKeeps DEF OpeningNext

LEMMA OpeningStart == OpeningInit => OpeningInv
<1> SUFFICES ASSUME OpeningInit PROVE OpeningInv
  OBVIOUS
<1>1. /\ version = 0 /\ rows \in [CacheDay -> Nat] /\ daily = [d \in CacheDay |-> NoValue]
      /\ changes = [s \in ChangeId |-> 0] /\ user = [p \in User |-> NotOpen]
      /\ latest = 0 /\ overtaken = FALSE /\ breaks = 0
  BY DEF OpeningInit
<1>2. row # NoRow => row \in SessionRow
  <2>1. ASSUME NEW s \in {"active", "ended", "stale"},
               row = [status |-> s,
                      time |-> [start |-> 1, last |-> 1, end |-> IF s = "ended" THEN 1 ELSE NoValue],
                      old |-> IF s = "ended" THEN Column ELSE {"start", "last"}]
        PROVE  row \in SessionRow
    <3>1. [start |-> 1, last |-> 1, end |-> IF s = "ended" THEN 1 ELSE NoValue] \in [Column -> Nat]
      BY DEF Column, NoValue
    <3>2. (IF s = "ended" THEN Column ELSE {"start", "last"}) \in SUBSET Column
      BY DEF Column
    <3> QED
      BY <2>1, <3>1, <3>2 DEF SessionRow
  <2> QED
    BY <2>1 DEF OpeningInit
<1>3. \A p \in User : user[p].at = "shut"
  BY <1>1 DEF NotOpen
<1>4. OpeningTyped
  BY <1>1, <1>2, <1>3 DEF OpeningTyped, NoValue
<1>5. FormatsInv /\ IndexInv
  BY <1>1, <1>3 DEF FormatsInv, IndexInv, Migrated, Indexed, User
<1>6. LatestInv
  <2>1. row # NoRow => row.time["last"] \in Nat
    BY <1>2 DEF SessionRow, Column
  <2> QED
    BY <1>1, <1>3, <2>1 DEF LatestInv, EventsKept
<1>7. CacheIsWhole
  BY <1>1 DEF CacheIsWhole
<1> QED
  BY <1>4, <1>5, <1>6, <1>7 DEF OpeningInv

\* However many processes open the database at once, whatever fails and dies
\* and whatever the daemon writes meanwhile: once the version says so no time
\* is in an old format, no session is set back behind an event nobody had a
\* copy across, the cache of daily costs is empty or adds up, and the index
\* that keeps changes apart comes back.
THEOREM OpeningsKeep == MigrationSpec => []OpeningKeeps
BY OpeningStart, OpeningStep, OpeningInvKeeps, PTL DEF MigrationSpec

-----------------------------------------------------------------------------
(* The daemon's log.                                                       *)

RotationSpec == RotationInit /\ [][RotationNext]_rotationVars

\* The lines a + 1 to b.
Run(a, b) == [k \in 1 .. b - a |-> a + k]

\* The lines of file i are those after off[i + 1] up to off[i].
Holds(f, a, b) == a <= b /\ (IF f = Absent THEN a = b ELSE f = Run(a, b))
Cuts == [0 .. MaxBackups + 1 -> Nat]
CutAt(off) == off[0] = lines /\ \A i \in File : Holds(logFile[i], off[i + 1], off[i])

\* The files are the log cut into pieces; an open file is there, and in the
\* middle of a rotation there is room for the file to be moved next.
RotationInv ==
  /\ lines \in Nat /\ turn \in File /\ logFile \in [File -> Seq(Nat)]
  /\ \E off \in Cuts : CutAt(off)
  /\ writer = "open" => logFile[0] # Absent
  /\ writer = "rotating" /\ turn < MaxBackups - 1 => logFile[turn + 1] = Absent

LEMMA RunIs ==
  ASSUME NEW a \in Nat, NEW b \in Nat, a <= b
  PROVE  Run(a, b) \in Seq(Nat) /\ Len(Run(a, b)) = b - a /\ \A k \in 1 .. b - a : Run(a, b)[k] = a + k
BY DEF Run

LEMMA RunsMeet ==
  ASSUME NEW a \in Nat, NEW b \in Nat, NEW c \in Nat, a <= b, b <= c
  PROVE  Run(a, b) \o Run(b, c) = Run(a, c)
<1> DEFINE s == Run(a, b)
           t == Run(b, c)
           u == Run(a, c)
<1>1. s \in Seq(Nat) /\ Len(s) = b - a /\ \A k \in 1 .. b - a : s[k] = a + k
  BY RunIs
<1>2. t \in Seq(Nat) /\ Len(t) = c - b /\ \A k \in 1 .. c - b : t[k] = b + k
  BY RunIs
<1>3. u \in Seq(Nat) /\ Len(u) = c - a /\ \A k \in 1 .. c - a : u[k] = a + k
  <2>1. a <= c
    OBVIOUS
  <2> QED
    BY <2>1, RunIs
<1> HIDE DEF s, t, u
<1>4. s \o t \in Seq(Nat) /\ Len(s \o t) = Len(s) + Len(t)
  <2>1. s \in Seq(Nat) /\ t \in Seq(Nat)
    BY <1>1, <1>2
  <2> QED
    BY <2>1
<1>5. Len(s) + Len(t) = c - a
  BY <1>1, <1>2
<1>6. ASSUME NEW k \in 1 .. c - a PROVE (s \o t)[k] = u[k]
  <2>1. CASE k <= b - a
    <3>1. k \in 1 .. Len(s)
      BY <1>1, <2>1
    <3>2. (s \o t)[k] = s[k]
      BY <1>1, <1>2, <3>1
    <3> QED
      BY <1>1, <1>3, <2>1, <3>2
  <2>2. CASE ~(k <= b - a)
    <3>1. k - (b - a) \in 1 .. c - b
      BY <2>2
    <3>2. (s \o t)[k] = t[k - (b - a)]
      <4>1. s \in Seq(Nat) /\ t \in Seq(Nat) /\ Len(s) = b - a
        BY <1>1, <1>2
      <4>2. k \in Len(s) + 1 .. Len(s) + Len(t)
        BY <1>5, <2>2, <4>1
      <4>3. (s \o t)[k] = t[k - Len(s)]
        BY <4>1, <4>2
      <4> QED
        BY <4>1, <4>3
    <3>3. t[k - (b - a)] = b + (k - (b - a))
      BY <1>2, <3>1
    <3>4. b + (k - (b - a)) = a + k
      OBVIOUS
    <3> QED
      BY <1>3, <3>2, <3>3, <3>4
  <2> QED
    BY <2>1, <2>2
<1>7. \A k \in 1 .. Len(u) : (s \o t)[k] = u[k]
  BY <1>3, <1>6
<1> DEFINE st == s \o t
<1>8. st \in Seq(Nat) /\ Len(st) = Len(u) /\ u \in Seq(Nat) /\ \A k \in 1 .. Len(u) : st[k] = u[k]
  BY <1>3, <1>4, <1>5, <1>7
<1> HIDE DEF st
<1>9. st = u
  <2>1. \A x, y \in Seq(Nat) : Len(x) = Len(y) /\ (\A k \in 1 .. Len(y) : x[k] = y[k]) => x = y
    OBVIOUS
  <2> QED
    BY <1>8, <2>1
<1> QED
  BY <1>9 DEF st, s, t, u

LEMMA Rises ==
  ASSUME NEW n \in Nat, NEW ends \in [0 .. n -> Nat], \A k \in 1 .. n : ends[k - 1] <= ends[k]
  PROVE  \A i \in 0 .. n : ends[0] <= ends[i]
<1> DEFINE S == {i \in 0 .. n : ends[0] <= ends[i]}
<1>1. 0 \in S
  OBVIOUS
<1>2. ASSUME NEW k \in 1 .. n, k - 1 \in S PROVE k \in S
  <2>1. k - 1 \in 0 .. n /\ k \in 0 .. n /\ 0 \in 0 .. n
    OBVIOUS
  <2>2. ends[k - 1] \in Nat /\ ends[k] \in Nat /\ ends[0] \in Nat /\ ends[0] <= ends[k - 1] /\ ends[k - 1] <= ends[k]
    BY <1>2, <2>1
  <2> QED
    BY <2>1, <2>2
<1> HIDE DEF S
<1>3. \A k \in 0 .. n : k \in S
  BY <1>1, <1>2, UpTo
<1> QED
  BY <1>3 DEF S

\* Pieces that follow one another, put together.
LEMMA Flatten ==
  ASSUME NEW n \in Nat \ {0}, NEW F, Len(F) = n, NEW ends \in [0 .. n -> Nat],
         \A k \in 1 .. n : ends[k - 1] <= ends[k] /\ F[k] = Run(ends[k - 1], ends[k])
  PROVE  FlattenSeq(F) = Run(ends[0], ends[n])
<1> DEFINE Def(f) == f = [i \in 1 .. n |-> IF i = 1 THEN F[i] ELSE f[i - 1] \o F[i]]
           g == [i \in 1 .. n |-> Run(ends[0], ends[i])]
           flat == CHOOSE f : Def(f)
<1>1. FlattenSeq(F) = flat[n]
  BY DEF FlattenSeq
<1>2. \A i \in 0 .. n : ends[0] <= ends[i]
  BY Rises
<1>4. Def(g)
  <2>1. ASSUME NEW i \in 1 .. n PROVE g[i] = IF i = 1 THEN F[i] ELSE g[i - 1] \o F[i]
    <3>1. CASE i = 1
      BY <3>1
    <3>2. CASE i # 1
      <4>1. i - 1 \in 1 .. n /\ i - 1 \in 0 .. n /\ i \in 0 .. n /\ ends[0] <= ends[i - 1] /\ ends[i - 1] <= ends[i]
        BY <1>2, <3>2
      <4>2. ends[0] \in Nat /\ ends[i - 1] \in Nat /\ ends[i] \in Nat
        BY <4>1
      <4>3. Run(ends[0], ends[i - 1]) \o Run(ends[i - 1], ends[i]) = Run(ends[0], ends[i])
        BY RunsMeet, <4>1, <4>2
      <4> QED
        BY <3>2, <4>1, <4>3
    <3> QED
      BY <3>1, <3>2
  <2> QED
    BY <2>1
<1>5. Def(flat)
  BY <1>4
<1> HIDE DEF flat, g
<1> DEFINE S == {0} \cup {i \in 1 .. n : flat[i] = g[i]}
<1>6. ASSUME NEW k \in 1 .. n, k - 1 \in S PROVE k \in S
  <2>1. k = 1 \/ flat[k - 1] = g[k - 1]
    BY <1>6
  <2>2. flat[k] = IF k = 1 THEN F[k] ELSE flat[k - 1] \o F[k]
    BY <1>5
  <2>3. g[k] = IF k = 1 THEN F[k] ELSE g[k - 1] \o F[k]
    BY <1>4
  <2> QED
    BY <2>1, <2>2, <2>3
<1>7. 0 \in S
  OBVIOUS
<1> HIDE DEF S
<1>8. n \in S
  <2>1. \A k \in 0 .. n : k \in S
    BY <1>6, <1>7, UpTo
  <2> QED
    BY <2>1
<1> QED
  BY <1>1, <1>8 DEF g, S

\* A run that ends with the last line is an end of all lines.
LEMMA RunIsSuffix ==
  ASSUME NEW a \in Nat, NEW b \in Nat, a <= b
  PROVE  IsSuffix(Run(a, b), [i \in 1 .. b |-> i])
<1> DEFINE s == Run(a, b)
           t == [i \in 1 .. b |-> i]
           rs == [k \in 1 .. b - a |-> b - k + 1]
           rt == [k \in 1 .. b |-> b - k + 1]
<1>1. Len(s) = b - a /\ Len(t) = b
  BY DEF Run
<1>2. Reverse(s) = rs
  BY <1>1 DEF Reverse, Run
<1>3. Reverse(t) = rt
  BY <1>1 DEF Reverse
<1>4. rs \in Seq(Nat) /\ rt \in Seq(Nat) /\ Len(rs) = b - a /\ Len(rt) = b
  OBVIOUS
<1>5. SubSeq(rs, 1, b - a) = SubSeq(rt, 1, b - a)
  BY <1>4
<1>6. IsPrefix(rs, rt)
  BY <1>4, <1>5 DEF IsPrefix
<1> QED
  BY <1>2, <1>3, <1>6 DEF IsSuffix

LEMMA CutsMakeSuffix ==
  ASSUME NEW off \in Cuts, CutAt(off), lines \in Nat
  PROVE  LogIsSuffix
<1> DEFINE n == MaxBackups + 1
           F == [k \in 1 .. MaxBackups + 1 |->
                   LET f == logFile[MaxBackups + 1 - k] IN IF f = Absent THEN <<>> ELSE f]
           ends == [k \in 0 .. n |-> off[n - k]]
<1>1. n \in Nat \ {0} /\ off \in [0 .. n -> Nat] /\ Len(F) = n
  BY RotationAssumption DEF Cuts
<1>2. WholeLog = FlattenSeq(F)
  BY DEF WholeLog
<1>3. \A k \in 1 .. n : F[k] = IF logFile[n - k] = Absent THEN <<>> ELSE logFile[n - k]
  <2>1. \A k \in 1 .. n : MaxBackups + 1 - k = n - k
    BY RotationAssumption
  <2> QED
    BY <2>1
<1>4. /\ \A i \in 0 .. n : n - i \in 0 .. n
      /\ \A i \in 1 .. n : n - i \in File /\ (n - i) + 1 = n - (i - 1)
  BY <1>1, RotationAssumption DEF File
<1> HIDE DEF n, F
<1>5. ends \in [0 .. n -> Nat] /\ \A k \in 0 .. n : ends[k] = off[n - k]
  BY <1>1, <1>4
<1> HIDE DEF ends
<1>6. ASSUME NEW k \in 1 .. n PROVE ends[k - 1] <= ends[k] /\ F[k] = Run(ends[k - 1], ends[k])
  <2>1. k \in 0 .. n /\ k - 1 \in 0 .. n
    BY <1>1
  <2>2. ends[k] = off[n - k] /\ ends[k - 1] = off[(n - k) + 1] /\ ends[k] \in Nat /\ ends[k - 1] \in Nat
    BY <1>4, <1>5, <2>1
  <2>3. Holds(logFile[n - k], ends[k - 1], ends[k])
    BY <1>4, <2>2 DEF CutAt
  <2>4. ends[k - 1] = ends[k] => Run(ends[k - 1], ends[k]) = <<>>
    <3>1. \A a \in Nat : Run(a, a) = <<>>
      BY DEF Run
    <3> QED
      BY <2>2, <3>1
  <2> QED
    BY <1>3, <2>3, <2>4 DEF Holds
<1>7. FlattenSeq(F) = Run(ends[0], ends[n])
  BY <1>1, <1>5, <1>6, Flatten
<1>8. ends[0] <= ends[n] /\ ends[0] \in Nat /\ ends[n] \in Nat /\ ends[n] = lines
  <2>1. n \in 0 .. n /\ 0 \in 0 .. n /\ n - n = 0
    BY <1>1
  <2>2. ends[0] <= ends[n]
    BY <1>1, <1>5, <1>6, <2>1, Rises
  <2> QED
    BY <1>5, <2>1, <2>2 DEF CutAt
<1> QED
  BY <1>2, <1>7, <1>8, RunIsSuffix DEF LogIsSuffix

LEMMA OpenKeepsLog ==
  ASSUME RotationInv, OpenLog
  PROVE  RotationInv'
<1>1. PICK off \in Cuts : CutAt(off)
  BY DEF RotationInv
<1>2. 0 \in File /\ 1 \in 0 .. MaxBackups + 1 /\ 0 \in 0 .. MaxBackups + 1
  BY RotationAssumption DEF File
<1>3. /\ logFile' \in [File -> Seq(Nat)]
      /\ logFile'[0] = IF logFile[0] = Absent THEN <<>> ELSE logFile[0]
      /\ \A i \in File : i # 0 => logFile'[i] = logFile[i]
  BY <1>2 DEF RotationInv, OpenLog
<1>4. CutAt(off)'
  <2>1. off[1] = off[0] => Run(off[1], off[0]) = <<>>
    <3>1. off[0] \in Nat /\ off[1] \in Nat
      BY <1>2 DEF Cuts
    <3>2. \A a \in Nat : Run(a, a) = <<>>
      BY DEF Run
    <3> QED
      BY <3>1, <3>2
  <2>2. Holds(logFile[0], off[1], off[0]) => Holds(logFile'[0], off[1], off[0])
    BY <1>3, <2>1 DEF Holds
  <2>3. Holds(logFile'[0], off[0 + 1], off[0])
    BY <1>1, <1>2, <2>2 DEF CutAt
  <2> QED
    BY <1>1, <1>3, <2>3 DEF CutAt, OpenLog
<1>5. logFile'[0] # Absent
  <2>1. <<>> # Absent
    BY DEF Absent
  <2> QED
    BY <1>3, <2>1
<1> QED
  BY <1>1, <1>3, <1>4, <1>5 DEF RotationInv, OpenLog

LEMMA AppendKeeps ==
  ASSUME RotationInv, WriteLine
  PROVE  RotationInv'
<1>1. PICK off \in Cuts : CutAt(off)
  BY DEF RotationInv
<1>2. 0 \in File /\ 1 \in 0 .. MaxBackups + 1 /\ 0 \in 0 .. MaxBackups + 1 /\ MaxBackups \in File
  BY RotationAssumption DEF File
<1>3. lines \in Nat /\ off[0] = lines /\ off[1] \in Nat /\ off[1] <= lines /\ logFile[0] = Run(off[1], lines)
  <2>1. Holds(logFile[0], off[0 + 1], off[0]) /\ off[0] = lines /\ lines \in Nat
    BY <1>1, <1>2 DEF CutAt, RotationInv
  <2>2. off[1] \in Nat /\ 0 + 1 = 1
    BY <1>2 DEF Cuts
  <2>3. logFile[0] # Absent
    BY DEF RotationInv, WriteLine
  <2> QED
    BY <2>1, <2>2, <2>3 DEF Holds
<1>4. /\ logFile' \in [File -> Seq(Nat)]
      /\ logFile'[0] = Append(logFile[0], lines + 1)
      /\ \A i \in File : i # 0 => logFile'[i] = logFile[i]
  <2>1. logFile[0] \in Seq(Nat) /\ lines + 1 \in Nat /\ logFile \in [File -> Seq(Nat)]
    BY <1>2, <1>3 DEF RotationInv
  <2>2. Append(logFile[0], lines + 1) \in Seq(Nat)
    BY <2>1
  <2> QED
    BY <1>2, <2>1, <2>2 DEF WriteLine
<1>5. Append(Run(off[1], lines), lines + 1) = Run(off[1], lines + 1)
  <2> DEFINE s == Run(off[1], lines)
             t == Append(s, lines + 1)
             u == Run(off[1], lines + 1)
  <2>1. s \in Seq(Nat) /\ Len(s) = lines - off[1] /\ \A k \in 1 .. lines - off[1] : s[k] = off[1] + k
    BY <1>3, RunIs
  <2>2. u \in Seq(Nat) /\ Len(u) = (lines + 1) - off[1] /\ \A k \in 1 .. (lines + 1) - off[1] : u[k] = off[1] + k
    <3> DEFINE l == lines + 1
    <3>1. l \in Nat /\ off[1] \in Nat /\ off[1] <= l
      BY <1>3
    <3> HIDE DEF l
    <3>2. Run(off[1], l) \in Seq(Nat) /\ Len(Run(off[1], l)) = l - off[1]
          /\ \A k \in 1 .. l - off[1] : Run(off[1], l)[k] = off[1] + k
      BY <3>1, RunIs
    <3> QED
      BY <3>2 DEF l
  <2> HIDE DEF s, u
  <2>3. /\ t \in Seq(Nat) /\ Len(t) = Len(s) + 1 /\ t[Len(s) + 1] = lines + 1
        /\ \A k \in 1 .. Len(s) : t[k] = s[k]
    <3>1. s \in Seq(Nat) /\ lines + 1 \in Nat
      BY <1>3, <2>1
    <3> QED
      BY <3>1
  <2> HIDE DEF t
  <2>4. Len(t) = Len(u) /\ u \in Seq(Nat) /\ t \in Seq(Nat)
    <3>1. \A l, o \in Nat : (l - o) + 1 = (l + 1) - o
      OBVIOUS
    <3>2. lines \in Nat /\ off[1] \in Nat
      BY <1>3
    <3>3. Len(t) = (lines - off[1]) + 1 /\ Len(u) = (lines + 1) - off[1]
      BY <2>1, <2>2, <2>3
    <3> QED
      BY <2>2, <2>3, <3>1, <3>2, <3>3
  <2>5. ASSUME NEW k \in 1 .. Len(t) PROVE t[k] = u[k]
    <3>1. k \in 1 .. Len(s) \/ k = Len(s) + 1
      BY <1>3, <2>1, <2>3
    <3>2. k \in 1 .. (lines + 1) - off[1] /\ off[1] + (lines - off[1] + 1) = lines + 1
      <4>1. Len(t) = (lines + 1) - off[1]
        BY <2>2, <2>4
      <4>2. \A l, o \in Nat : o + (l - o + 1) = l + 1
        OBVIOUS
      <4> QED
        BY <1>3, <4>1, <4>2
    <3> QED
      BY <2>1, <2>2, <2>3, <3>1, <3>2
  <2>6. t = u
    BY <2>4, <2>5, SeqEqual
  <2> QED
    BY <2>6 DEF s, t, u
<1>6. PICK cut \in Cuts : cut[0] = lines + 1 /\ \A i \in 0 .. MaxBackups + 1 : i # 0 => cut[i] = off[i]
  <2> DEFINE c == [off EXCEPT ![0] = lines + 1]
  <2>1. c \in Cuts /\ c[0] = lines + 1 /\ \A i \in 0 .. MaxBackups + 1 : i # 0 => c[i] = off[i]
    BY <1>2, <1>3 DEF Cuts
  <2> QED
    BY <2>1
<1>7. logFile'[0] # Absent
  <2>1. \A a \in Nat, b \in Nat : a <= b => Run(a, b) # <<0>>
    BY DEF Run
  <2>2. lines + 1 \in Nat /\ off[1] <= lines + 1
    BY <1>3
  <2> QED
    BY <1>3, <1>4, <1>5, <2>1, <2>2 DEF Absent
<1>8. CutAt(cut)'
  <2>1. ASSUME NEW i \in File PROVE Holds(logFile'[i], cut[i + 1], cut[i])
    <3>1. i + 1 \in 0 .. MaxBackups + 1 /\ i \in 0 .. MaxBackups + 1 /\ i + 1 # 0
      BY RotationAssumption DEF File
    <3>2. CASE i = 0
      <4>1. Run(off[1], lines + 1) = logFile'[0] /\ cut[1] = off[1] /\ off[1] <= lines + 1
        <5>1. off[1] <= lines + 1
          BY <1>3
        <5>2. Run(off[1], lines + 1) = logFile'[0]
          BY <1>3, <1>4, <1>5
        <5> QED
          BY <1>2, <1>6, <5>1, <5>2
      <4> QED
        BY <1>6, <1>7, <3>2, <4>1 DEF Holds
    <3>3. CASE i # 0
      BY <1>1, <1>4, <1>6, <3>1, <3>3 DEF CutAt
    <3> QED
      BY <3>2, <3>3
  <2> QED
    BY <1>6, <2>1 DEF CutAt, WriteLine
<1>9. lines' \in Nat /\ turn' \in File /\ (writer' = "rotating" => turn' = MaxBackups)
  BY <1>2, <1>3 DEF RotationInv, WriteLine
<1>10. ~(MaxBackups < MaxBackups - 1)
  BY RotationAssumption
<1> QED
  BY <1>4, <1>6, <1>7, <1>8, <1>9, <1>10 DEF RotationInv

\* Moving a file moves its cut; what the last number held is forgotten.
LEMMA TurnKeeps ==
  ASSUME RotationInv, RotateNext
  PROVE  RotationInv'
<1>1. PICK off \in Cuts : CutAt(off)
  BY DEF RotationInv
<1>2. /\ turn \in File /\ lines \in Nat /\ lines' = lines /\ writer = "rotating" /\ writer' # "open"
      /\ \A i \in 0 .. MaxBackups + 1 : off[i] \in Nat
      /\ \A i \in File : i \in 0 .. MaxBackups + 1 /\ i + 1 \in 0 .. MaxBackups + 1
  <2>1. turn \in File /\ lines \in Nat /\ lines' = lines /\ writer = "rotating" /\ writer' # "open"
    BY DEF RotationInv, RotateNext, NextTurn
  <2>2. \A i \in 0 .. MaxBackups + 1 : off[i] \in Nat
    BY DEF Cuts
  <2>3. \A i \in File : i \in 0 .. MaxBackups + 1 /\ i + 1 \in 0 .. MaxBackups + 1
    BY RotationAssumption DEF File
  <2> QED
    BY <2>1, <2>2, <2>3
<1>3. turn' \in File /\ (writer' = "rotating" => turn # 0 /\ turn' = turn - 1)
  BY RotationAssumption DEF RotationInv, RotateNext, NextTurn, File
<1>4. CASE UNCHANGED logFile /\ (turn = MaxBackups \/ logFile[turn] = Absent)
  <2>1. CutAt(off)'
    BY <1>1, <1>2, <1>4 DEF CutAt
  <2>2. writer' = "rotating" /\ turn' < MaxBackups - 1 => logFile'[turn' + 1] = Absent
    BY <1>2, <1>3, <1>4, RotationAssumption DEF File
  <2> QED
    BY <1>1, <1>2, <1>3, <1>4, <2>1, <2>2 DEF RotationInv
<1>5. CASE turn = MaxBackups /\ logFile' = [logFile EXCEPT ![turn] = Absent]
  <2>1. MaxBackups \in File /\ MaxBackups + 1 \in 0 .. MaxBackups + 1 /\ 0 # MaxBackups + 1
    BY RotationAssumption DEF File
  <2>2. PICK cut \in Cuts :
          /\ cut[MaxBackups + 1] = off[MaxBackups]
          /\ \A i \in 0 .. MaxBackups + 1 : i # MaxBackups + 1 => cut[i] = off[i]
    <3> DEFINE c == [off EXCEPT ![MaxBackups + 1] = off[MaxBackups]]
    <3>1. /\ c \in Cuts /\ c[MaxBackups + 1] = off[MaxBackups]
          /\ \A i \in 0 .. MaxBackups + 1 : i # MaxBackups + 1 => c[i] = off[i]
      BY <1>2, <2>1 DEF Cuts
    <3> QED
      BY <3>1
  <2>3. /\ logFile' \in [File -> Seq(Nat)]
        /\ logFile'[MaxBackups] = Absent
        /\ \A i \in File : i # MaxBackups => logFile'[i] = logFile[i]
    <3>1. Absent \in Seq(Nat)
      BY DEF Absent
    <3> QED
      BY <1>5, <2>1, <3>1 DEF RotationInv
  <2>4. ASSUME NEW i \in File PROVE Holds(logFile'[i], cut[i + 1], cut[i])
    <3>1. i # MaxBackups + 1 /\ (i # MaxBackups => i + 1 # MaxBackups + 1)
      BY RotationAssumption DEF File
    <3>2. CASE i = MaxBackups
      BY <1>2, <2>1, <2>2, <2>3, <3>1, <3>2 DEF Holds
    <3>3. CASE i # MaxBackups
      BY <1>1, <1>2, <2>2, <2>3, <3>1, <3>3 DEF CutAt
    <3> QED
      BY <3>2, <3>3
  <2>5. cut[0] = lines'
    BY <1>1, <1>2, <2>1, <2>2 DEF CutAt
  <2>6. CutAt(cut)'
    BY <2>4, <2>5 DEF CutAt
  <2>7. writer' = "rotating" => ~(turn' < MaxBackups - 1)
    BY <1>3, <1>5, RotationAssumption
  <2> QED
    BY <1>2, <1>3, <2>2, <2>3, <2>6, <2>7 DEF RotationInv
<1>6. CASE turn < MaxBackups /\ logFile[turn] # Absent /\ logFile' = Moved(turn, turn + 1)
  <2>1. /\ turn \in Nat /\ turn + 1 \in File /\ turn + 2 \in 0 .. MaxBackups + 1 /\ turn + 1 \in 0 .. MaxBackups + 1
        /\ (turn + 1) + 1 = turn + 2
    BY <1>2, <1>6, RotationAssumption DEF File
  <2>2. PICK cut \in Cuts :
          /\ cut[turn + 1] = off[turn] /\ cut[turn + 2] = off[turn + 1]
          /\ \A i \in 0 .. MaxBackups + 1 : i # turn + 1 /\ i # turn + 2 => cut[i] = off[i]
    <3> DEFINE c == [off EXCEPT ![turn + 1] = off[turn], ![turn + 2] = off[turn + 1]]
    <3>1. /\ c \in Cuts /\ c[turn + 1] = off[turn] /\ c[turn + 2] = off[turn + 1]
          /\ \A i \in 0 .. MaxBackups + 1 : i # turn + 1 /\ i # turn + 2 => c[i] = off[i]
      BY <1>2, <2>1 DEF Cuts
    <3> QED
      BY <3>1
  <2>3. /\ logFile' \in [File -> Seq(Nat)]
        /\ logFile'[turn] = Absent /\ logFile'[turn + 1] = logFile[turn]
        /\ \A i \in File : i # turn /\ i # turn + 1 => logFile'[i] = logFile[i]
    <3>1. Absent \in Seq(Nat) /\ logFile \in [File -> Seq(Nat)] /\ turn # turn + 1
      BY <2>1 DEF Absent, RotationInv
    <3>2. logFile' = [logFile EXCEPT ![turn + 1] = logFile[turn], ![turn] = Absent]
      BY <1>6 DEF Moved
    <3> QED
      BY <1>2, <2>1, <3>1, <3>2
  <2>4. Holds(logFile[turn], off[turn + 1], off[turn]) /\ Holds(logFile[turn + 1], off[turn + 2], off[turn + 1])
    BY <1>1, <1>2, <2>1 DEF CutAt
  <2>5. turn + 1 # MaxBackups => off[turn + 2] = off[turn + 1]
    <3>1. turn + 1 # MaxBackups => turn < MaxBackups - 1
      BY <1>6, <2>1, RotationAssumption DEF File
    <3> QED
      BY <1>2, <2>4, <3>1 DEF RotationInv, Holds
  <2>6. ASSUME NEW i \in File PROVE Holds(logFile'[i], cut[i + 1], cut[i])
    <3>1. i \in 0 .. MaxBackups + 1 /\ i + 1 \in 0 .. MaxBackups + 1 /\ i \in Nat /\ i <= MaxBackups
      BY <1>2, RotationAssumption DEF File
    <3>2. CASE i = turn
      <4>1. cut[i + 1] = off[turn] /\ cut[i] = off[turn] /\ off[turn] \in Nat
        BY <1>2, <2>1, <2>2, <3>1, <3>2
      <4> QED
        BY <2>3, <3>2, <4>1 DEF Holds
    <3>3. CASE i = turn + 1
      <4>1. cut[i + 1] = off[turn + 1] /\ cut[i] = off[turn]
        BY <2>1, <2>2, <3>3
      <4> QED
        BY <2>3, <2>4, <3>3, <4>1
    <3>4. CASE i # turn /\ i # turn + 1
      <4>1. i + 1 # turn + 1
        BY <2>1, <3>1, <3>4
      <4>2. cut[i + 1] = off[i + 1]
        <5>1. CASE i + 1 = turn + 2
          BY <2>1, <3>1, <3>4, <5>1
        <5>2. CASE i + 1 # turn + 2
          BY <2>2, <3>1, <4>1, <5>2
        <5> QED
          BY <5>1, <5>2
      <4>3. cut[i] = off[i]
        <5>1. CASE i = turn + 2
          <6>1. turn + 1 # MaxBackups
            BY <2>1, <3>1, <5>1
          <6> QED
            BY <2>2, <2>5, <5>1, <6>1
        <5>2. CASE i # turn + 2
          BY <2>2, <3>1, <3>4, <5>2
        <5> QED
          BY <5>1, <5>2
      <4> QED
        BY <1>1, <2>3, <3>4, <4>2, <4>3 DEF CutAt
    <3> QED
      BY <3>2, <3>3, <3>4
  <2>7. cut[0] = lines'
    <3>1. 0 # turn + 1 /\ 0 # turn + 2 /\ 0 \in 0 .. MaxBackups + 1
      BY <2>1, RotationAssumption
    <3> QED
      BY <1>1, <1>2, <2>2, <3>1 DEF CutAt
  <2>8. CutAt(cut)'
    BY <2>6, <2>7 DEF CutAt
  <2>9. writer' = "rotating" => logFile'[turn' + 1] = Absent
    BY <1>3, <2>1, <2>3
  <2> QED
    BY <1>2, <1>3, <2>2, <2>3, <2>8, <2>9 DEF RotationInv
<1> QED
  <2>1. turn = MaxBackups \/ turn < MaxBackups
    BY <1>2, RotationAssumption DEF File
  <2> QED
    BY <1>4, <1>5, <1>6, <2>1 DEF RotateNext

LEMMA RotationStep == RotationInv /\ [RotationNext]_rotationVars => RotationInv'
<1> SUFFICES ASSUME RotationInv, [RotationNext]_rotationVars PROVE RotationInv'
  OBVIOUS
<1>1. CASE UNCHANGED rotationVars \/ RenameFails \/ LoggerDies
  <2>1. UNCHANGED <<logFile, lines, turn>> /\ writer' \in {writer, "closed"}
    BY <1>1 DEF rotationVars, RenameFails, LoggerDies
  <2> QED
    BY <2>1 DEF RotationInv, CutAt
<1> QED
  BY <1>1, OpenKeepsLog, AppendKeeps, TurnKeeps DEF RotationNext

LEMMA RotationStart == RotationInit => RotationInv
<1> SUFFICES ASSUME RotationInit PROVE RotationInv
  OBVIOUS
<1> DEFINE off == [i \in 0 .. MaxBackups + 1 |-> 0]
<1>1. off \in Cuts /\ CutAt(off)
  BY RotationAssumption DEF RotationInit, Cuts, CutAt, Holds, File
<1> QED
  BY <1>1, RotationAssumption DEF RotationInit, RotationInv, File

\* The files of the log, read from the last to the first, are always the end
\* of what was written, through rotations that fail or are cut short.
THEOREM LogKept == RotationSpec => []LogIsSuffix
<1>1. RotationInv => LogIsSuffix
  BY CutsMakeSuffix DEF RotationInv
<1> QED
  BY <1>1, RotationStart, RotationStep, PTL DEF RotationSpec

-----------------------------------------------------------------------------
(* The database and its backups.                                           *)

BackupsSpec == BackupsInit /\ [][BackupsNext]_backupVars

AutoFile == [id : Nat, whole : BOOLEAN]

\* A restore that may remove the database has saved what it held, and the
\* file a rotation spares first is whole.
BackupsInv ==
  /\ autos \in Seq(AutoFile)
  /\ begun \in Nat
  /\ restorer \in {"none", "stop", "save", "remove", "copy", "copying"}
  /\ dbFile = "data" \/ "data" \in saved
  /\ restorer = "remove" /\ dbFile = "data" => "data" \in saved
  /\ restorer = "copying" => dbFile # "data"
  /\ backer \in {"copying", "rotating"} => autos # <<>>
  /\ backer = "rotating" => autos[Len(autos)].whole
  /\ everWhole => \E i \in DOMAIN autos : autos[i].whole

LEMMA RestoreKeeps ==
  ASSUME BackupsInv,
         \/ RestoreBegins \/ RestoreStopsDaemon \/ RestoreSaves \/ RestoreRemoves
         \/ RestoreCopies \/ RestoreDone \/ RestoreEnds
  PROVE  BackupsInv'
<1>1. CASE RestoreBegins
  BY <1>1 DEF BackupsInv, RestoreBegins, daemonVars
<1>2. CASE RestoreStopsDaemon
  BY <1>2 DEF BackupsInv, RestoreStopsDaemon
<1>3. CASE RestoreSaves
  BY <1>3 DEF BackupsInv, RestoreSaves, daemonVars
<1>4. CASE RestoreRemoves
  BY <1>4 DEF BackupsInv, RestoreRemoves, daemonVars
<1>5. CASE RestoreCopies
  BY <1>5 DEF BackupsInv, RestoreCopies, daemonVars
<1>6. CASE RestoreDone
  BY <1>6 DEF BackupsInv, RestoreDone, daemonVars
<1>7. CASE RestoreEnds
  BY <1>7 DEF BackupsInv, RestoreEnds, daemonVars
<1> QED
  BY <1>1, <1>2, <1>3, <1>4, <1>5, <1>6, <1>7

LEMMA DaemonKeeps ==
  ASSUME BackupsInv, DaemonStarts \/ DaemonEnds \/ DayPasses \/ AutoBackupFails
  PROVE  BackupsInv'
<1>1. CASE DaemonStarts
  BY <1>1 DEF BackupsInv, DaemonStarts, restoreVars
<1>2. CASE DaemonEnds
  BY <1>2 DEF BackupsInv, DaemonEnds, restoreVars
<1>3. CASE DayPasses
  BY <1>3 DEF BackupsInv, DayPasses, restoreVars
<1>4. CASE AutoBackupFails
  BY <1>4 DEF BackupsInv, AutoBackupFails, restoreVars
<1> QED
  BY <1>1, <1>2, <1>3, <1>4

LEMMA BeginKeeps ==
  ASSUME BackupsInv, AutoBackupBegins
  PROVE  BackupsInv'
<1> DEFINE new == [id |-> begun + 1, whole |-> FALSE]
<1>1. new \in AutoFile /\ autos \in Seq(AutoFile) /\ autos' = Append(autos, new)
  BY DEF BackupsInv, AutoBackupBegins, AutoFile
<1>2. autos' \in Seq(AutoFile) /\ autos' # <<>>
  BY <1>1
<1>3. \A i \in DOMAIN autos : i \in DOMAIN autos' /\ autos'[i] = autos[i]
  BY <1>1
<1> QED
  BY <1>2, <1>3 DEF BackupsInv, AutoBackupBegins, restoreVars

LEMMA DoneKeeps ==
  ASSUME BackupsInv, AutoBackupDone
  PROVE  BackupsInv'
<1> DEFINE n == Len(autos)
<1>1. autos \in Seq(AutoFile) /\ n \in DOMAIN autos /\ autos[n] \in AutoFile
  BY DEF BackupsInv, AutoBackupDone
<1>2. autos' = [autos EXCEPT ![n] = [autos[n] EXCEPT !.whole = TRUE]]
  BY DEF AutoBackupDone
<1>3. [autos[n] EXCEPT !.whole = TRUE] \in AutoFile
  BY <1>1 DEF AutoFile
<1>4. autos' \in Seq(AutoFile) /\ Len(autos') = n /\ DOMAIN autos' = DOMAIN autos
  BY <1>1, <1>2, <1>3
<1>5. autos'[n].whole
  BY <1>1, <1>2 DEF AutoFile
<1> QED
  BY <1>1, <1>4, <1>5 DEF BackupsInv, AutoBackupDone, restoreVars

\* What is removed is never the newest file, and that one is whole.
LEMMA RotateKeeps ==
  ASSUME BackupsInv, RotateBackups
  PROVE  BackupsInv'
<1> DEFINE n == Len(autos)
<1>1. CASE Len(autos) > Keep
  <2>1. autos \in Seq(AutoFile) /\ n \in Nat /\ n - Keep \in 1 .. n - 1 /\ autos[n].whole
    BY <1>1, BackupsAssumption DEF BackupsInv, RotateBackups
  <2>2. autos' = SubSeq(autos, 1, n - Keep - 1) \o SubSeq(autos, n - Keep + 1, n)
    BY <1>1, <2>1 DEF RotateBackups, RemoveAt
  <2>3. SubSeq(autos, 1, n - Keep - 1) \in Seq(AutoFile) /\ Len(SubSeq(autos, 1, n - Keep - 1)) = n - Keep - 1
    BY <2>1, BackupsAssumption
  <2>4. /\ SubSeq(autos, n - Keep + 1, n) \in Seq(AutoFile)
        /\ Len(SubSeq(autos, n - Keep + 1, n)) = Keep
        /\ SubSeq(autos, n - Keep + 1, n)[Keep] = autos[n]
    BY <2>1, BackupsAssumption
  <2> DEFINE older == SubSeq(autos, 1, n - Keep - 1)
             newer == SubSeq(autos, n - Keep + 1, n)
  <2> HIDE DEF older, newer
  <2>5. autos' \in Seq(AutoFile) /\ Len(autos') = n - 1 /\ autos'[n - 1] = autos[n]
    <3>1. older \in Seq(AutoFile) /\ newer \in Seq(AutoFile) /\ Len(older) = n - Keep - 1
          /\ Len(newer) = Keep /\ newer[Keep] = autos[n] /\ autos' = older \o newer
      BY <2>2, <2>3, <2>4 DEF older, newer
    <3>2. autos' \in Seq(AutoFile) /\ Len(autos') = Len(older) + Len(newer)
      BY <3>1
    <3>3. (older \o newer)[Len(older) + Keep] = newer[Keep]
      BY <3>1, BackupsAssumption
    <3>4. Keep \in Nat /\ Len(older) + Keep = n - 1 /\ Len(older) + Len(newer) = n - 1
      BY <2>1, <3>1, BackupsAssumption
    <3>5. autos'[Len(older) + Keep] = autos[n]
      BY <3>1, <3>3
    <3>6. autos'[n - 1] = autos[n]
      BY <3>4, <3>5
    <3>7. Len(autos') = n - 1
      BY <3>2, <3>4
    <3> QED
      BY <3>2, <3>6, <3>7
  <2>6. autos' # <<>> /\ n - 1 \in DOMAIN autos'
    BY <2>1, <2>5, BackupsAssumption
  <2> QED
    BY <1>1, <2>1, <2>5, <2>6 DEF BackupsInv, RotateBackups, restoreVars
<1>2. CASE ~(Len(autos) > Keep)
  BY <1>2 DEF BackupsInv, RotateBackups, restoreVars
<1> QED
  BY <1>1, <1>2

LEMMA BackupsStep == BackupsInv /\ [BackupsNext]_backupVars => BackupsInv'
<1> SUFFICES ASSUME BackupsInv, [BackupsNext]_backupVars PROVE BackupsInv'
  OBVIOUS
<1>1. CASE UNCHANGED backupVars
  BY <1>1 DEF BackupsInv, backupVars
<1> QED
  BY <1>1, RestoreKeeps, DaemonKeeps, BeginKeeps, DoneKeeps, RotateKeeps DEF BackupsNext

\* What the database held is still there, and so is a whole backup once
\* there was one, whatever fails, dies or starts in between.
THEOREM SurvivalCorrect == BackupsSpec => []DataSurvives
<1>1. BackupsInit => BackupsInv
  BY DEF BackupsInit, BackupsInv
<1>2. BackupsInv => DataSurvives
  BY DEF BackupsInv, DataSurvives
<1> QED
  BY <1>1, <1>2, BackupsStep, PTL DEF BackupsSpec

-----------------------------------------------------------------------------
(* The two caches.                                                         *)

CachesSpec == CachesInit /\ [][LineNext \/ PriceNext]_cacheVars

StatusLine == [state : State, out : Nat, stamp : Nat, mtime : Nat]
Liner == [pc : {"new", "load", "show", "truncate", "fill", "over"}, start : Nat, initial : StatusLine, from : Nat]
Table == [from : Nat, good : BOOLEAN]
Prices == [state : State, stamp : Nat, table : Table]
Pricer == [pc : {"new", "fetch", "refresh", "truncate", "fill", "over"}, table : Table, waits : BOOLEAN]

CachesTyped ==
  /\ clock \in Nat /\ touched \in Nat
  /\ lineCache \in StatusLine /\ priceCache \in Prices
  /\ liner \in [Reader -> Liner] /\ pricer \in [Reader -> Pricer]

\* A line is stamped with a time before its usage is read, in the hands of its
\* writer and in the file.
StampedBefore ==
  /\ lineCache.stamp <= lineCache.out
  /\ \A p \in Reader :
       /\ liner[p].start <= clock
       /\ liner[p].pc \in {"truncate", "fill"} => liner[p].start <= liner[p].from

\* Prices in the hands of a process parse; so do those of a whole file, which
\* is stamped no later than they were fetched.
FetchedWhole ==
  /\ priceCache.state = "whole" => priceCache.table.good /\ priceCache.stamp <= priceCache.table.from
  /\ \A p \in Reader : pricer[p].table.good

CachesInv == CachesTyped /\ StampedBefore /\ FetchedWhole /\ BoundedStaleness

\* What a step of a statusline makes of its process and of the file.
GoodLiner(r) == r.start <= clock /\ (r.pc \in {"truncate", "fill"} => r.start <= r.from)

LEMMA LineMoves ==
  ASSUME CachesTyped, StampedBefore, NEW p \in Reader,
         \/ LineStarts(p) \/ ReadLineCache(p) \/ LoadUsage(p) \/ TruncateLine(p) \/ FillLine(p)
  PROVE  /\ \E r \in Liner : liner' = [liner EXCEPT ![p] = r] /\ GoodLiner(r)
         /\ lineCache' \in StatusLine /\ lineCache'.stamp <= lineCache'.out
<1> DEFINE old == liner[p]
<1>1. /\ clock \in Nat /\ lineCache \in StatusLine /\ lineCache.stamp <= lineCache.out
      /\ liner \in [Reader -> Liner] /\ old \in Liner /\ GoodLiner(old) /\ touched \in Nat
  BY DEF CachesTyped, StampedBefore, GoodLiner
<1>2. CASE LineStarts(p)
  <2> DEFINE r == [NotRun EXCEPT !.pc = "load", !.start = clock]
  <2>1. NotRun \in Liner
    BY DEF Liner, StatusLine, NotRun, NoLine, State
  <2>2. r \in Liner /\ GoodLiner(r)
    <3>1. clock \in Nat
      BY <1>1
    <3>2. r \in Liner /\ r.pc = "load" /\ r.start = clock
      BY <2>1, <3>1 DEF Liner
    <3> QED
      BY <3>1, <3>2 DEF GoodLiner
  <2>3. liner' = [liner EXCEPT ![p] = r] /\ lineCache' = lineCache
    BY <1>2 DEF LineStarts
  <2> QED
    BY <1>1, <2>2, <2>3
<1>3. CASE ReadLineCache(p)
  <2>1. CASE Hit(p)
    <3>1. liner' = [liner EXCEPT ![p] = [old EXCEPT !.pc = "over"]] /\ lineCache' = lineCache
      BY <1>3, <2>1 DEF ReadLineCache
    <3>2. [old EXCEPT !.pc = "over"] \in Liner /\ GoodLiner([old EXCEPT !.pc = "over"])
      BY <1>1 DEF Liner, GoodLiner
    <3> QED
      BY <1>1, <3>1, <3>2
  <2>2. CASE ~Hit(p)
    <3>1. PICK i \in {lineCache, NoLine} :
            liner' = [liner EXCEPT ![p] = [old EXCEPT !.pc = "show", !.from = clock, !.initial = i]]
      BY <1>1, <1>3, <2>2 DEF ReadLineCache
    <3>2. i \in StatusLine
      BY <1>1 DEF StatusLine, NoLine, State
    <3>3. /\ [old EXCEPT !.pc = "show", !.from = clock, !.initial = i] \in Liner
          /\ GoodLiner([old EXCEPT !.pc = "show", !.from = clock, !.initial = i])
      BY <1>1, <3>2 DEF Liner, GoodLiner
    <3> QED
      BY <1>1, <1>3, <2>2, <3>1, <3>3 DEF ReadLineCache
  <2> QED
    BY <2>1, <2>2
<1>4. CASE LoadUsage(p)
  <2>1. PICK r \in {[old EXCEPT !.pc = "over"], [old EXCEPT !.pc = "truncate", !.from = clock]} :
          liner' = [liner EXCEPT ![p] = r]
    BY <1>1, <1>4 DEF LoadUsage
  <2>2. r \in Liner /\ GoodLiner(r)
    BY <1>1, <2>1 DEF Liner, GoodLiner
  <2> QED
    BY <1>1, <1>4, <2>1, <2>2 DEF LoadUsage
<1>5. CASE TruncateLine(p)
  <2>1. liner' = [liner EXCEPT ![p] = [old EXCEPT !.pc = "fill"]] /\ old.pc = "truncate"
    BY <1>1, <1>5 DEF TruncateLine
  <2>2. [old EXCEPT !.pc = "fill"] \in Liner /\ GoodLiner([old EXCEPT !.pc = "fill"])
    BY <1>1, <2>1 DEF Liner, GoodLiner
  <2>3. lineCache' \in StatusLine /\ lineCache'.stamp <= lineCache'.out
    BY <1>5 DEF TruncateLine, NoLine, StatusLine, State
  <2> QED
    BY <2>1, <2>2, <2>3
<1>6. CASE FillLine(p)
  <2>1. liner' = [liner EXCEPT ![p] = [old EXCEPT !.pc = "over"]] /\ old.pc = "fill"
    BY <1>1, <1>6 DEF FillLine
  <2>2. [old EXCEPT !.pc = "over"] \in Liner /\ GoodLiner([old EXCEPT !.pc = "over"])
    BY <1>1, <2>1 DEF Liner, GoodLiner
  <2>3. lineCache' \in StatusLine /\ lineCache'.stamp <= lineCache'.out
    BY <1>1, <1>6, <2>1 DEF FillLine, NewLine, NoLine, StatusLine, Liner, GoodLiner, State
  <2> QED
    BY <2>1, <2>2, <2>3
<1> QED
  BY <1>2, <1>3, <1>4, <1>5, <1>6

LEMMA LineKeeps ==
  ASSUME CachesInv, NEW p \in Reader,
         \/ LineStarts(p) \/ ReadLineCache(p) \/ LoadUsage(p) \/ TruncateLine(p) \/ FillLine(p)
  PROVE  CachesInv'
<1>1. UNCHANGED <<clock, touched, priceVars>>
  BY DEF LineStarts, ReadLineCache, LoadUsage, TruncateLine, FillLine
<1>2. PICK r \in Liner : liner' = [liner EXCEPT ![p] = r] /\ GoodLiner(r)
  BY LineMoves DEF CachesInv
<1>3. lineCache' \in StatusLine /\ lineCache'.stamp <= lineCache'.out
  BY LineMoves DEF CachesInv
<1>4. CachesTyped' /\ StampedBefore'
  <2>1. liner \in [Reader -> Liner] /\ StampedBefore /\ CachesTyped
    BY DEF CachesInv, CachesTyped
  <2>2. liner' \in [Reader -> Liner]
    BY <1>2, <2>1
  <2>3. StampedBefore'
    BY <1>1, <1>2, <1>3, <2>1 DEF StampedBefore, GoodLiner
  <2> QED
    BY <1>1, <1>3, <2>1, <2>2, <2>3 DEF CachesTyped, priceVars
<1>5. FetchedWhole'
  BY <1>1 DEF CachesInv, FetchedWhole, priceVars
<1>6. BoundedStaleness'
  <2>1. /\ lineCache.stamp \in Nat /\ lineCache.out \in Nat /\ lineCache.stamp <= lineCache.out
        /\ liner[p].start \in Nat /\ Interval \in Nat
    BY CachesAssumption DEF CachesInv, CachesTyped, StampedBefore, StatusLine, Liner
  <2>2. \A s \in served' : s \in served \/ (s.how = "hit" => s.from + Interval > s.start)
    BY <2>1 DEF LineStarts, ReadLineCache, LoadUsage, TruncateLine, FillLine, Show, Hit
  <2> QED
    BY <1>1, <2>2 DEF CachesInv, BoundedStaleness, priceVars
<1> QED
  BY <1>4, <1>5, <1>6 DEF CachesInv

\* What a step of a process that wants prices makes of it, of the file and of
\* the record.
PricesMove(p) ==
  /\ \E r \in Pricer : pricer' = [pricer EXCEPT ![p] = r] /\ r.table.good
  /\ priceCache' \in Prices
  /\ priceCache'.state = "whole" => priceCache'.table.good /\ priceCache'.stamp <= priceCache'.table.from
  /\ \A u \in priced' :
       \/ u \in priced
       \/ u.table.good /\ (u.how = "cache" => u.table.from + Interval > u.at \/ u.by \in offline)

LEMMA EmbeddedIs == Embedded \in Table /\ Embedded.good
BY DEF Embedded, Table

LEMMA WithoutMoves ==
  ASSUME CachesTyped, FetchedWhole, NEW p \in Reader, DoesWithout(p), priceCache' = priceCache
  PROVE  PricesMove(p)
<1> DEFINE r == [pricer[p] EXCEPT !.pc = "over"]
<1>1. pricer' = [pricer EXCEPT ![p] = r] /\ pricer[p] \in Pricer
  BY DEF DoesWithout, CachesTyped
<1>2. r \in Pricer /\ r.table.good
  BY <1>1 DEF Pricer, FetchedWhole
<1>3. \A u \in priced' : u \in priced \/ (u.table = Embedded /\ u.how = "embedded")
  BY DEF DoesWithout, UsePrices
<1> QED
  BY <1>1, <1>2, <1>3, EmbeddedIs DEF PricesMove, CachesTyped, FetchedWhole

LEMMA PriceMoves ==
  ASSUME CachesTyped, FetchedWhole, NEW p \in Reader,
         \/ LoadPrices(p) \/ RefreshAsked(p) \/ RefreshFails(p) \/ FetchPrices(p)
         \/ TruncatePrices(p) \/ FillPrices(p)
  PROVE  PricesMove(p)
<1> DEFINE old == pricer[p]
<1>1. /\ clock \in Nat /\ priceCache \in Prices /\ pricer \in [Reader -> Pricer] /\ old \in Pricer
      /\ old.table \in Table /\ old.table.good
      /\ priceCache.state = "whole" => priceCache.table.good /\ priceCache.stamp <= priceCache.table.from
  BY DEF CachesTyped, FetchedWhole, Pricer
<1>p. ASSUME NEW pc \in {"new", "fetch", "refresh", "truncate", "fill", "over"}
      PROVE  [old EXCEPT !.pc = pc] \in Pricer /\ [old EXCEPT !.pc = pc].table.good
  BY <1>1 DEF Pricer
<1>2. CASE LoadPrices(p)
  <2>1. PICK pc \in {"over", "refresh", "fetch"} : pricer' = [pricer EXCEPT ![p] = [old EXCEPT !.pc = pc]]
    BY <1>2 DEF LoadPrices
  <2>2. priceCache' = priceCache
    BY <1>2 DEF LoadPrices
  <2>3. /\ Interval \in Nat /\ priceCache.stamp \in Nat /\ priceCache.table.from \in Nat
    BY <1>1, CachesAssumption DEF Prices, Table
  <2>4. ASSUME NEW u \in priced', u \notin priced
        PROVE  u.table.good /\ (u.how = "cache" => u.table.from + Interval > u.at \/ u.by \in offline)
    <3>1. CASE priceCache.state = "whole" /\ (p \in offline \/ clock < priceCache.stamp + Interval)
      <4>1. u = [by |-> p, at |-> clock, table |-> priceCache.table, how |-> "cache"]
        BY <1>2, <2>4, <3>1 DEF LoadPrices, UsePrices
      <4> QED
        BY <1>1, <2>3, <3>1, <4>1
    <3>2. CASE priceCache.state = "whole" /\ ~(p \in offline \/ clock < priceCache.stamp + Interval)
      <4>1. u = [by |-> p, at |-> clock, table |-> priceCache.table, how |-> "stale"]
        BY <1>2, <2>4, <3>2 DEF LoadPrices, UsePrices
      <4> QED
        BY <1>1, <3>2, <4>1
    <3>3. CASE priceCache.state # "whole"
      <4>1. u.table = Embedded /\ u.how = "embedded"
        BY <1>2, <2>4, <3>3 DEF LoadPrices, UsePrices
      <4> QED
        BY <4>1, EmbeddedIs
    <3> QED
      BY <3>1, <3>2, <3>3
  <2> QED
    BY <1>1, <1>p, <2>1, <2>2, <2>4 DEF PricesMove
<1>3. CASE RefreshAsked(p)
  <2>1. pricer' = [pricer EXCEPT ![p] = [old EXCEPT !.pc = "refresh"]] /\ UNCHANGED <<priceCache, priced>>
    BY <1>3 DEF RefreshAsked
  <2> QED
    BY <1>1, <1>p, <2>1 DEF PricesMove
<1>4. CASE RefreshFails(p)
  BY <1>4, WithoutMoves DEF RefreshFails
<1>5. CASE FetchPrices(p)
  <2>1. CASE DoesWithout(p)
    BY <1>5, <2>1, WithoutMoves DEF FetchPrices
  <2>2. CASE Fetched(p, TRUE) /\ UNCHANGED priced
    <3> DEFINE r == [pc |-> "truncate", table |-> [from |-> clock, good |-> TRUE], waits |-> old.pc = "fetch"]
    <3>1. r \in Pricer /\ r.table.good
      BY <1>1 DEF Pricer, Table
    <3>2. pricer' = [pricer EXCEPT ![p] = r] /\ priceCache' = priceCache
      BY <1>1, <1>5, <2>2 DEF Fetched, FetchPrices
    <3> QED
      BY <1>1, <2>2, <3>1, <3>2 DEF PricesMove
  <2> QED
    BY <1>5, <2>1, <2>2 DEF FetchPrices
<1>6. CASE TruncatePrices(p)
  <2>1. pricer' = [pricer EXCEPT ![p] = [old EXCEPT !.pc = "fill"]] /\ UNCHANGED priced
    BY <1>6 DEF TruncatePrices
  <2>2. priceCache' \in Prices /\ priceCache'.state # "whole"
    BY <1>6, EmbeddedIs DEF TruncatePrices, NoPrices, Prices, State
  <2> QED
    BY <1>p, <2>1, <2>2 DEF PricesMove
<1>7. CASE FillPrices(p)
  <2>1. pricer' = [pricer EXCEPT ![p] = [old EXCEPT !.pc = "over"]]
    BY <1>7 DEF FillPrices, WritePrices
  <2>2. CASE priceCache' = [state |-> "whole", stamp |-> old.table.from, table |-> old.table]
    <3>1. priceCache' \in Prices /\ priceCache'.table.good /\ priceCache'.stamp <= priceCache'.table.from
      BY <1>1, <2>2 DEF Prices, State, Table
    <3>2. \A u \in priced' : u \in priced \/ (u.table = old.table /\ u.how = "fetched")
      BY <1>7 DEF FillPrices, WritePrices, UsePrices
    <3> QED
      BY <1>1, <1>p, <2>1, <3>1, <3>2 DEF PricesMove
  <2>3. CASE priceCache' = [NoPrices EXCEPT !.state = "torn"]
    <3>1. priceCache' \in Prices /\ priceCache'.state # "whole"
      BY <2>3, EmbeddedIs DEF NoPrices, Prices, State
    <3>2. \A u \in priced' : u \in priced \/ (u.table = old.table /\ u.how = "fetched")
      BY <1>7 DEF FillPrices, WritePrices, UsePrices
    <3> QED
      BY <1>1, <1>p, <2>1, <3>1, <3>2 DEF PricesMove
  <2> QED
    BY <1>7, <2>2, <2>3 DEF FillPrices, WritePrices
<1> QED
  BY <1>2, <1>3, <1>4, <1>5, <1>6, <1>7

LEMMA PriceKeeps ==
  ASSUME CachesInv, NEW p \in Reader,
         \/ LoadPrices(p) \/ RefreshAsked(p) \/ RefreshFails(p) \/ FetchPrices(p)
         \/ TruncatePrices(p) \/ FillPrices(p)
  PROVE  CachesInv'
<1>1. UNCHANGED <<clock, touched, lineVars, offline>>
  BY DEF LoadPrices, RefreshAsked, RefreshFails, FetchPrices, TruncatePrices, FillPrices, WritePrices
<1>2. PricesMove(p) /\ CachesTyped /\ StampedBefore /\ FetchedWhole /\ BoundedStaleness
  BY PriceMoves DEF CachesInv
<1>3. PICK r \in Pricer : pricer' = [pricer EXCEPT ![p] = r] /\ r.table.good
  BY <1>2 DEF PricesMove
<1>4. pricer' \in [Reader -> Pricer] /\ FetchedWhole'
  BY <1>2, <1>3 DEF CachesTyped, FetchedWhole, PricesMove
<1>5. CachesTyped' /\ StampedBefore'
  BY <1>1, <1>2, <1>4 DEF CachesTyped, StampedBefore, PricesMove, lineVars
<1>6. BoundedStaleness'
  BY <1>1, <1>2 DEF BoundedStaleness, PricesMove, lineVars
<1> QED
  BY <1>4, <1>5, <1>6 DEF CachesInv

LEMMA DeathKeeps ==
  ASSUME CachesInv, NEW p \in Reader, Dies(p)
  PROVE  CachesInv'
<1>1. liner \in [Reader -> Liner] /\ pricer \in [Reader -> Pricer]
  BY DEF CachesInv, CachesTyped
<1>2. /\ liner' = liner \/ liner' = [liner EXCEPT ![p] = [liner[p] EXCEPT !.pc = "over"]]
      /\ pricer' = pricer \/ pricer' = [pricer EXCEPT ![p] = [pricer[p] EXCEPT !.pc = "over"]]
  BY DEF Dies
<1>3. /\ [liner[p] EXCEPT !.pc = "over"] \in Liner
      /\ [pricer[p] EXCEPT !.pc = "over"] \in Pricer
  BY <1>1 DEF Liner, Pricer
<1>4. CachesTyped'
  BY <1>1, <1>2, <1>3 DEF Dies, CachesInv, CachesTyped
<1>5. \A q \in Reader : /\ liner'[q].pc \in {liner[q].pc, "over"} /\ liner'[q].start = liner[q].start
                        /\ liner'[q].from = liner[q].from
  BY <1>1, <1>2 DEF Liner
<1>t. \A q \in Reader : pricer'[q].table = pricer[q].table
  <2>1. [pricer[p] EXCEPT !.pc = "over"].table = pricer[p].table
    BY <1>1 DEF Pricer
  <2> QED
    BY <1>1, <1>2, <2>1
<1>6. StampedBefore' /\ FetchedWhole'
  BY <1>5, <1>t DEF Dies, CachesInv, StampedBefore, FetchedWhole
<1>7. BoundedStaleness'
  BY DEF Dies, CachesInv, BoundedStaleness
<1> QED
  BY <1>4, <1>6, <1>7 DEF CachesInv

LEMMA CachesStep == CachesInv /\ [LineNext \/ PriceNext]_cacheVars => CachesInv'
<1> SUFFICES ASSUME CachesInv, [LineNext \/ PriceNext]_cacheVars PROVE CachesInv'
  OBVIOUS
<1>1. CASE UNCHANGED cacheVars
  BY <1>1 DEF CachesInv, CachesTyped, cacheVars, StampedBefore, FetchedWhole, BoundedStaleness
<1>2. CASE ClockTicks
  BY <1>2 DEF CachesInv, CachesTyped, ClockTicks, lineVars, priceVars, Liner, Pricer, StatusLine, StampedBefore,
     FetchedWhole, BoundedStaleness
<1> QED
  BY <1>1, <1>2, LineKeeps, PriceKeeps, DeathKeeps DEF LineNext, PriceNext

\* A line served without reading the usage is no older than the interval,
\* however many processes write, die half-way or are slow; nor is a cached table
\* of prices, but for who may not or is about to refresh it, and every table
\* used parses to its end.
THEOREM StalenessBounded == CachesSpec => []BoundedStaleness
<1>1. CachesInit => CachesInv
  BY CachesAssumption DEF CachesInit, CachesInv, CachesTyped, StampedBefore, FetchedWhole, BoundedStaleness,
     NoLine, NoPrices, NotRun, Unpriced, Embedded, StatusLine, Liner, Table, Prices, Pricer, State
<1>2. CachesInv => BoundedStaleness
  BY DEF CachesInv
<1> QED
  BY <1>1, <1>2, CachesStep, PTL DEF CachesSpec

-----------------------------------------------------------------------------
(* The settings of Claude Code.                                            *)

SettingsSpec == SettingsInit /\ [][SettingsNext]_settingsVars

List == Seq(SUBSET STRING)
AllOf(v) == UNION {v[i] : i \in DOMAIN v}
\* A command is in one entry of v at most.
Once(v, c) == \A i, j \in DOMAIN v : c \in v[i] /\ c \in v[j] => i = j

LEMMA RunAppended ==
  ASSUME NEW v \in List, NEW e \in SUBSET STRING
  PROVE  /\ Append(v, e) \in List /\ Len(v) \in Nat /\ DOMAIN v = 1 .. Len(v)
         /\ DOMAIN Append(v, e) = 1 .. Len(v) + 1 /\ Append(v, e)[Len(v) + 1] = e
         /\ \A i \in 1 .. Len(v) : Append(v, e)[i] = v[i]
BY DEF List

\* What the loop of removeTokenMeterHook has kept of the first entries.
LEMMA Filter ==
  ASSUME NEW v \in List, NEW f,
         f = [i \in 0 .. Len(v) |->
                IF i = 0 THEN <<>>
                ELSE IF v[i] \subseteq Ours THEN f[i - 1]
                ELSE Append(f[i - 1], v[i] \ Ours)]
  PROVE  /\ f[Len(v)] \in List
         /\ AllOf(f[Len(v)]) = AllOf(v) \ Ours
         /\ \A c : Once(v, c) => Once(f[Len(v)], c)
<1> DEFINE n == Len(v)
           Seen(k) == (UNION {v[i] : i \in 1 .. k}) \ Ours
           Good(k) == /\ f[k] \in List
                      /\ AllOf(f[k]) = Seen(k)
                      /\ \A c : Once(v, c) => Once(f[k], c)
           S == {k \in 0 .. n : Good(k)}
<1>1. n \in Nat /\ DOMAIN v = 1 .. n /\ \A k \in 1 .. n : v[k] \in SUBSET STRING
  BY DEF List
<1>2. 0 \in S
  <2>1. f[0] = <<>>
    BY <1>1
  <2>2. <<>> \in List /\ DOMAIN <<>> = {} /\ 1 .. 0 = {}
    BY DEF List
  <2> QED
    BY <1>1, <2>1, <2>2 DEF AllOf, Once
<1>3. ASSUME NEW k \in 1 .. n, k - 1 \in S PROVE k \in S
  <2> DEFINE g == f[k - 1]
  <2>1. k \in 0 .. n /\ k - 1 \in 0 .. n /\ k # 0
    BY <1>1
  <2>2. f[k] = IF v[k] \subseteq Ours THEN g ELSE Append(g, v[k] \ Ours)
    BY <1>1, <2>1
  <2>3. Good(k - 1)
    BY <1>3
  <2>4. Seen(k) = Seen(k - 1) \cup (v[k] \ Ours)
    <3>1. \A i : i \in 1 .. k <=> i \in 1 .. k - 1 \/ i = k
      BY <1>1
    <3> QED
      BY <3>1
  <2>5. CASE v[k] \subseteq Ours
    BY <2>1, <2>2, <2>3, <2>4, <2>5
  <2>6. CASE ~(v[k] \subseteq Ours)
    <3> DEFINE e == v[k] \ Ours
               h == Append(g, e)
    <3>1. e \in SUBSET STRING /\ g \in List
      BY <1>1, <2>3
    <3>2. /\ h \in List /\ Len(g) \in Nat /\ DOMAIN g = 1 .. Len(g)
          /\ DOMAIN h = 1 .. Len(g) + 1 /\ h[Len(g) + 1] = e
          /\ \A i \in 1 .. Len(g) : h[i] = g[i]
      BY <3>1, RunAppended
    <3>3. f[k] = h
      BY <2>2, <2>6
    <3> HIDE DEF g, h, e
    <3>4. \A i : i \in DOMAIN h <=> i \in DOMAIN g \/ i = Len(g) + 1
      BY <3>2
    <3>5. AllOf(h) = AllOf(g) \cup e
      BY <3>2, <3>4 DEF AllOf
    <3>6. ASSUME NEW c, Once(v, c), NEW i \in DOMAIN h, NEW j \in DOMAIN h, c \in h[i], c \in h[j]
          PROVE  i = j
      <4>1. c \in e => c \notin AllOf(g)
        <5>1. ASSUME c \in e, c \in AllOf(g) PROVE FALSE
          <6>1. c \in Seen(k - 1)
            BY <2>3, <5>1 DEF g
          <6>2. PICK l \in 1 .. k - 1 : c \in v[l]
            BY <6>1
          <6>3. l \in 1 .. n /\ l # k /\ c \in v[k]
            BY <1>1, <5>1 DEF e
          <6> QED
            BY <1>1, <3>6, <6>2, <6>3 DEF Once
        <5> QED
          BY <5>1
      <4>2. Once(g, c)
        BY <2>3, <3>6 DEF g
      <4> QED
        BY <3>2, <3>4, <3>6, <4>1, <4>2 DEF Once, AllOf
    <3>7. \A c : Once(v, c) => Once(h, c)
      BY <3>6 DEF Once
    <3>8. AllOf(h) = Seen(k)
      BY <2>3, <2>4, <3>5 DEF g, e
    <3> QED
      BY <2>1, <3>2, <3>3, <3>7, <3>8
  <2> QED
    BY <2>5, <2>6
<1> HIDE DEF S
<1>4. n \in S
  <2>1. \A k \in 0 .. n : k \in S
    BY <1>1, <1>2, <1>3, UpTo
  <2> QED
    BY <1>1, <2>1
<1> QED
  BY <1>1, <1>4 DEF S, AllOf

LEMMA FilterExists ==
  ASSUME NEW v \in List
  PROVE  \E f : f = [i \in 0 .. Len(v) |->
                        IF i = 0 THEN <<>>
                        ELSE IF v[i] \subseteq Ours THEN f[i - 1]
                        ELSE Append(f[i - 1], v[i] \ Ours)]
<1> DEFINE Def(g, i) == IF i = 0 THEN <<>>
                        ELSE IF v[i] \subseteq Ours THEN g[i - 1]
                        ELSE Append(g[i - 1], v[i] \ Ours)
           n == Len(v)
           S == {k \in 0 .. n : \E g : g = [i \in 0 .. k |-> Def(g, i)]}
<1>1. n \in Nat
  BY DEF List
<1>2. 0 \in S
  <2> DEFINE g == [i \in 0 .. 0 |-> <<>>]
  <2>1. g = [i \in 0 .. 0 |-> Def(g, i)]
    OBVIOUS
  <2> HIDE DEF g
  <2>2. \E h : h = [i \in 0 .. 0 |-> Def(h, i)]
    BY <2>1
  <2> QED
    BY <1>1, <2>2
<1>3. ASSUME NEW k \in 1 .. n, k - 1 \in S PROVE k \in S
  <2>1. PICK g : g = [i \in 0 .. k - 1 |-> Def(g, i)]
    BY <1>3
  <2> DEFINE h == [i \in 0 .. k |-> IF i = k THEN Def(g, k) ELSE g[i]]
  <2>2. ASSUME NEW i \in 0 .. k PROVE h[i] = Def(h, i)
    <3>1. CASE i = 0
      <4>1. g[0] = <<>> /\ h[0] = g[0]
        BY <1>1, <2>1
      <4> QED
        BY <3>1, <4>1
    <3>2. CASE i # 0 /\ i # k
      <4>1. i \in 0 .. k - 1 /\ i - 1 \in 0 .. k - 1 /\ i - 1 # k /\ i - 1 \in 0 .. k
        BY <1>1, <3>2
      <4>2. h[i] = g[i] /\ h[i - 1] = g[i - 1]
        BY <3>2, <4>1
      <4>3. g[i] = Def(g, i)
        BY <2>1, <4>1
      <4> HIDE DEF h
      <4> QED
        BY <4>2, <4>3
    <3>3. CASE i = k
      <4>1. k - 1 # k /\ k - 1 \in 0 .. k /\ k # 0
        BY <1>1
      <4>2. h[k] = Def(g, k) /\ h[k - 1] = g[k - 1]
        BY <3>3, <4>1
      <4> HIDE DEF h
      <4> QED
        BY <3>3, <4>2
    <3> QED
      BY <3>1, <3>2, <3>3
  <2>3. h = [i \in 0 .. k |-> Def(h, i)]
    <3>1. h = [i \in 0 .. k |-> h[i]]
      OBVIOUS
    <3> HIDE DEF h, Def
    <3> QED
      BY <2>2, <3>1
  <2> HIDE DEF h, Def
  <2>4. k \in 0 .. n
    BY <1>1
  <2> QED
    BY <2>3, <2>4
<1> HIDE DEF S
<1>4. n \in S
  <2>1. \A k \in 0 .. n : k \in S
    BY <1>1, <1>2, <1>3, UpTo
  <2> QED
    BY <1>1, <2>1
<1> QED
  BY <1>4 DEF S

Values == {Odd} \cup List

LEMMA Removed ==
  ASSUME NEW v \in Values
  PROVE  /\ removeTokenMeterHook(v) \in Values
         /\ AllOf(Entries(removeTokenMeterHook(v))) = AllOf(Entries(v)) \ Ours
         /\ \A c : Once(Entries(v), c) => Once(Entries(removeTokenMeterHook(v)), c)
<1>1. CASE v = Odd
  <2>1. removeTokenMeterHook(v) = Odd /\ Entries(Odd) = <<>> /\ AllOf(<<>>) = {}
    BY <1>1 DEF removeTokenMeterHook, Entries, AllOf
  <2> QED
    BY <1>1, <2>1
<1>2. CASE v # Odd
  <2> DEFINE f == CHOOSE g : g = [i \in 0 .. Len(v) |->
                                    IF i = 0 THEN <<>>
                                    ELSE IF v[i] \subseteq Ours THEN g[i - 1]
                                    ELSE Append(g[i - 1], v[i] \ Ours)]
  <2>1. v \in List
    BY <1>2 DEF Values
  <2>2. f = [i \in 0 .. Len(v) |->
               IF i = 0 THEN <<>>
               ELSE IF v[i] \subseteq Ours THEN f[i - 1]
               ELSE Append(f[i - 1], v[i] \ Ours)]
    BY <2>1, FilterExists
  <2>3. removeTokenMeterHook(v) = f[Len(v)]
    BY <1>2 DEF removeTokenMeterHook
  <2> HIDE DEF f
  <2>4. /\ f[Len(v)] \in List
        /\ AllOf(f[Len(v)]) = AllOf(v) \ Ours
        /\ \A c : Once(v, c) => Once(f[Len(v)], c)
    BY <2>1, <2>2, Filter
  <2>5. \A w \in List : Entries(w) = w
    BY SettingsAssumption DEF Entries, List
  <2> QED
    BY <2>1, <2>3, <2>4, <2>5 DEF Values
<1> QED
  BY <1>1, <1>2

LEMMA Added ==
  ASSUME NEW v \in Values, NEW c \in STRING, Once(Entries(v), c)
  PROVE  /\ addHookEntry(v, c) \in Values
         /\ AllOf(Entries(addHookEntry(v, c))) = AllOf(Entries(v)) \cup {c}
         /\ \A d : Once(Entries(v), d) => Once(Entries(addHookEntry(v, c)), d)
         /\ addHookEntry(v, c) # Odd
         /\ Cardinality({i \in DOMAIN addHookEntry(v, c) : c \in addHookEntry(v, c)[i]}) = 1
<1> DEFINE w == addHookEntry(v, c)
<1>1. \A u \in List : Entries(u) = u /\ u # Odd
  BY SettingsAssumption DEF Entries, List
<1>2. \A x : Cardinality({x}) = 1
  BY FS_Singleton
<1>3. CASE v = Odd
  <2>1. w = <<{c}>> /\ w \in List /\ Entries(v) = <<>>
    <3>1. \A S : \A e \in S : <<e>> \in Seq(S)
      OBVIOUS
    <3>2. {c} \in SUBSET STRING
      OBVIOUS
    <3>3. <<{c}>> \in Seq(SUBSET STRING)
      BY <3>1, <3>2
    <3> QED
      BY <1>3, <3>3 DEF addHookEntry, Entries, List
  <2>2. DOMAIN w = {1} /\ w[1] = {c} /\ AllOf(<<>>) = {}
    BY <2>1 DEF AllOf
  <2> HIDE DEF w
  <2>3. AllOf(w) = {c} /\ (\A d : Once(w, d)) /\ {i \in DOMAIN w : c \in w[i]} = {1}
    BY <2>2 DEF AllOf, Once
  <2> QED
    BY <1>1, <1>2, <2>1, <2>2, <2>3 DEF w, Values
<1>4. CASE v # Odd /\ \E i \in DOMAIN v : c \in v[i]
  <2>1. v \in List /\ w = v /\ Entries(v) = v
    BY <1>1, <1>4 DEF addHookEntry, Values
  <2>2. PICK i \in DOMAIN v : c \in v[i]
    BY <1>4
  <2>3. {j \in DOMAIN v : c \in v[j]} = {i}
    BY <2>1, <2>2 DEF Once
  <2>4. AllOf(v) = AllOf(v) \cup {c}
    BY <2>2 DEF AllOf
  <2> HIDE DEF w
  <2> QED
    BY <1>1, <1>2, <2>1, <2>3, <2>4 DEF w, Values
<1>5. CASE v # Odd /\ ~\E i \in DOMAIN v : c \in v[i]
  <2> DEFINE e == {c}
  <2>1. v \in List /\ w = Append(v, e) /\ Entries(v) = v
    BY <1>1, <1>5 DEF addHookEntry, Values
  <2>2. e \in SUBSET STRING
    OBVIOUS
  <2> HIDE DEF w, e
  <2>3. /\ w \in List /\ Len(v) \in Nat /\ DOMAIN v = 1 .. Len(v)
        /\ DOMAIN w = 1 .. Len(v) + 1 /\ w[Len(v) + 1] = {c}
        /\ \A i \in 1 .. Len(v) : w[i] = v[i]
    BY <2>1, <2>2, RunAppended DEF e
  <2>4. Len(v) + 1 \notin DOMAIN v /\ \A i : i \in DOMAIN w <=> i \in DOMAIN v \/ i = Len(v) + 1
    BY <2>3
  <2>5. AllOf(w) = AllOf(v) \cup {c}
    BY <2>3, <2>4 DEF AllOf
  <2>6. ASSUME NEW d, Once(v, d) PROVE Once(w, d)
    <3> SUFFICES ASSUME NEW i \in DOMAIN w, NEW j \in DOMAIN w, d \in w[i], d \in w[j] PROVE i = j
      BY DEF Once
    <3>1. CASE i \in DOMAIN v /\ j \in DOMAIN v
      <4>1. w[i] = v[i] /\ w[j] = v[j]
        BY <2>3, <3>1
      <4> QED
        BY <2>6, <3>1, <4>1 DEF Once
    <3>2. CASE i \in DOMAIN v /\ j = Len(v) + 1
      <4>1. w[i] = v[i] /\ d = c
        BY <2>3, <3>2
      <4> QED
        BY <1>5, <3>2, <4>1
    <3>3. CASE i = Len(v) + 1 /\ j \in DOMAIN v
      <4>1. w[j] = v[j] /\ d = c
        BY <2>3, <3>3
      <4> QED
        BY <1>5, <3>3, <4>1
    <3> QED
      BY <2>4, <3>1, <3>2, <3>3
  <2>7. {i \in DOMAIN w : c \in w[i]} = {Len(v) + 1}
    BY <1>5, <2>3, <2>4
  <2> QED
    BY <1>1, <1>2, <2>1, <2>5, <2>6, <2>7, <2>3 DEF w, Values
<1> QED
  BY <1>3, <1>4, <1>5

-----------------------------------------------------------------------------
\* Files, and what holds of each wherever it is.

\* The command of a binary tokenmeter does not know is hooked to an event once.
Tidy(f) == \A h \in HookEvent, c \in Commands \ Ours : Once(Entries(f.hooks[h]), c)

\* What a run of tm has left is as HooksAreOurs says.
Right(f) ==
  f.ok /\ f.by \notin {"user", "nobody"} =>
    \A h \in HookEvent :
      IF f.by = "out" THEN CommandsAt(f, h) \cap Ours = {}
      ELSE /\ CommandsAt(f, h) \cap Ours \subseteq {f.by}
           /\ Cardinality({i \in DOMAIN f.hooks[h] : f.by \in f.hooks[h][i]}) = 1

LEMMA HooksAre ==
  ASSUME NEW f \in Settings, NEW h \in HookEvent
  PROVE  f.hooks[h] \in Values /\ CommandsAt(f, h) = AllOf(Entries(f.hooks[h]))
BY DEF Settings, Hooks, Values, List, CommandsAt, AllOf

LEMMA InstallIs ==
  ASSUME NEW f \in Settings, Tidy(f), NEW c \in Commands
  PROVE  LET g == Install(f, c) IN g \in Settings /\ Tidy(g) /\ Right(g) /\ OfUser(g) = OfUser(f)
<1> DEFINE g == Install(f, c)
           w(h) == addHookEntry(removeTokenMeterHook(f.hooks[h]), c)
<1>1. c \in STRING /\ c \notin {"user", "nobody", "out"} /\ c \in Emitting /\ Ours \subseteq Emitting
  BY SettingsAssumption DEF Commands, Emitting
<1>2. ASSUME NEW h \in HookEvent
      PROVE  /\ w(h) \in Values /\ w(h) # Odd
             /\ AllOf(Entries(w(h))) = (AllOf(Entries(f.hooks[h])) \ Ours) \cup {c}
             /\ \A d \in Commands \ Ours : Once(Entries(w(h)), d)
             /\ Cardinality({i \in DOMAIN w(h) : c \in w(h)[i]}) = 1
  <2> DEFINE r == removeTokenMeterHook(f.hooks[h])
  <2>1. f.hooks[h] \in Values
    BY HooksAre
  <2>2. /\ r \in Values /\ AllOf(Entries(r)) = AllOf(Entries(f.hooks[h])) \ Ours
        /\ \A d : Once(Entries(f.hooks[h]), d) => Once(Entries(r), d)
    BY <2>1, Removed
  <2> HIDE DEF r
  <2>3. Once(Entries(r), c)
    <3>1. CASE c \in Ours
      <4>1. c \notin AllOf(Entries(r))
        BY <2>2, <3>1
      <4> QED
        BY <4>1 DEF Once, AllOf
    <3>2. CASE c \notin Ours
      BY <2>2, <3>2 DEF Tidy
    <3> QED
      BY <3>1, <3>2
  <2>4. /\ addHookEntry(r, c) \in Values /\ addHookEntry(r, c) # Odd
        /\ AllOf(Entries(addHookEntry(r, c))) = AllOf(Entries(r)) \cup {c}
        /\ \A d : Once(Entries(r), d) => Once(Entries(addHookEntry(r, c)), d)
        /\ Cardinality({i \in DOMAIN addHookEntry(r, c) : c \in addHookEntry(r, c)[i]}) = 1
    BY <1>1, <2>2, <2>3, Added
  <2>5. w(h) = addHookEntry(r, c)
    BY DEF r
  <2> HIDE DEF w
  <2> QED
    BY <2>2, <2>4, <2>5 DEF Tidy
<1>3. g = [ok |-> TRUE, hooks |-> [h \in HookEvent |-> w(h)], text |-> f.text, by |-> c]
  BY DEF Install, Valid
<1> HIDE DEF g, w
<1>4. g \in Settings /\ \A h \in HookEvent : g.hooks[h] = w(h)
  BY <1>1, <1>2, <1>3 DEF Settings, Hooks, Values, List
<1>5. \A h \in HookEvent : CommandsAt(g, h) = (CommandsAt(f, h) \ Ours) \cup {c}
  BY <1>2, <1>4, HooksAre
<1>6. Tidy(g)
  BY <1>2, <1>4 DEF Tidy
<1>7. Right(g)
  BY <1>1, <1>2, <1>3, <1>4, <1>5 DEF Right
<1>8. OfUser(g) = OfUser(f)
  <2>1. g # NoSettings /\ f # NoSettings /\ g.text = f.text
    BY <1>3, <1>4, SettingsAssumption DEF Settings
  <2>2. \A h \in HookEvent : CommandsAt(g, h) \ Emitting = CommandsAt(f, h) \ Emitting
    BY <1>1, <1>5
  <2> QED
    BY <2>1, <2>2 DEF OfUser
<1> QED
  BY <1>4, <1>6, <1>7, <1>8 DEF g

LEMMA UninstallIs ==
  ASSUME NEW f \in Settings, Tidy(f)
  PROVE  LET g == Uninstall(f) IN g \in Settings /\ Tidy(g) /\ Right(g) /\ OfUser(g) = OfUser(f)
<1> DEFINE g == Uninstall(f)
           w(h) == removeTokenMeterHook(f.hooks[h])
<1>1. ASSUME NEW h \in HookEvent
      PROVE  /\ w(h) \in Values
             /\ AllOf(Entries(w(h))) = AllOf(Entries(f.hooks[h])) \ Ours
             /\ \A d \in Commands \ Ours : Once(Entries(w(h)), d)
  <2>1. f.hooks[h] \in Values
    BY HooksAre
  <2> QED
    BY <2>1, Removed DEF Tidy
<1>2. g = [ok |-> TRUE, hooks |-> [h \in HookEvent |-> w(h)], text |-> f.text, by |-> "out"]
  BY DEF Uninstall, Valid
<1> HIDE DEF g, w
<1>3. g \in Settings /\ \A h \in HookEvent : g.hooks[h] = w(h)
  BY <1>1, <1>2 DEF Settings, Hooks, Values, List
<1>4. \A h \in HookEvent : CommandsAt(g, h) = CommandsAt(f, h) \ Ours
  BY <1>1, <1>3, HooksAre
<1>5. Tidy(g)
  BY <1>1, <1>3 DEF Tidy
<1>6. Right(g)
  BY <1>2, <1>4 DEF Right
<1>7. OfUser(g) = OfUser(f)
  <2>1. g # NoSettings /\ f # NoSettings /\ g.text = f.text
    BY <1>2, <1>3, SettingsAssumption DEF Settings
  <2>2. \A h \in HookEvent : CommandsAt(g, h) \ Emitting = CommandsAt(f, h) \ Emitting
    BY <1>4 DEF Emitting
  <2> QED
    BY <2>1, <2>2 DEF OfUser
<1> QED
  BY <1>3, <1>5, <1>6, <1>7 DEF g

LEMMA EmptyIs == Empty \in Settings /\ Tidy(Empty) /\ Right(Empty) /\ OfUser(Empty) = OwnNothing
<1>1. Empty = [ok |-> TRUE, hooks |-> [h \in HookEvent |-> <<>>], text |-> NoSettings, by |-> "out"]
  BY DEF Empty, Valid, NoHooks
<1>2. <<>> \in Values /\ Entries(<<>>) = <<>> /\ AllOf(<<>>) = {} /\ (\A c : Once(<<>>, c)) /\ <<>> # Odd
  <2>1. <<>> \in List /\ <<>> # Odd
    BY SettingsAssumption, EmptySeq DEF List
  <2>2. DOMAIN <<>> = {}
    OBVIOUS
  <2> QED
    BY <2>1, <2>2 DEF Values, Entries, AllOf, Once
<1>3. Empty \in Settings /\ \A h \in HookEvent : Empty.hooks[h] = <<>>
  BY <1>1, <1>2 DEF Settings, Hooks, Values, List
<1>4. \A h \in HookEvent : CommandsAt(Empty, h) = {}
  BY <1>2, <1>3, HooksAre
<1> QED
  BY <1>1, <1>2, <1>3, <1>4 DEF Tidy, Right, OwnNothing

-----------------------------------------------------------------------------
\* What the user had at some time, m, is in f or in its copy b.
Safe(m, f, b) ==
  \/ f # NoSettings /\ (m = OfUser(f) \/ (m = NoSettings /\ OfUser(f) = OwnNothing))
  \/ b # NoSettings /\ m = OfUser(b)

IsWriting(p) == run[p].at \in {"truncate", "write"}

\* What a run is going to write.
WellPlanned(p) ==
  /\ run[p] = [at |-> run[p].at, out |-> run[p].out, read |-> run[p].read, then |-> run[p].then]
  /\ run[p].then \in {"idle", "read"}
  /\ run[p].out \in Settings /\ Tidy(run[p].out) /\ Right(run[p].out)
  /\ marred \/ Safe(run[p].read, run[p].out, bak)

SettingsInv ==
  /\ file = NoSettings => mine = NoSettings
  /\ file # NoSettings => file \in Settings /\ Tidy(file) /\ Right(file)
  /\ bak # NoSettings => bak \in Settings
  /\ run = [p \in Caller |-> run[p]]
  /\ \A p \in Caller : IF IsWriting(p) THEN WellPlanned(p) ELSE run[p] = [at |-> run[p].at]
  /\ \/ marred \/ file = NoSettings \/ Safe(mine, file, bak)
     \/ file = Torn /\ \E p \in Caller : run[p].at = "write"

LEMMA InvIsHooksInPlace == SettingsInv => HooksInPlace
<1> SUFFICES ASSUME SettingsInv PROVE HooksInPlace
  OBVIOUS
<1>1. HooksAreOurs
  BY DEF SettingsInv, Right, HooksAreOurs
<1>2. UserKeepsSettings
  <2>1. CASE file = NoSettings
    BY <2>1 DEF SettingsInv, UserKeepsSettings, Kept, OfUser
  <2>2. Safe(mine, file, bak) => Kept(file, bak)
    BY DEF Safe, Kept
  <2> QED
    BY <2>1, <2>2 DEF SettingsInv, UserKeepsSettings
<1> QED
  BY <1>1, <1>2 DEF HooksInPlace

\* A step of p that changes neither file nor copy, does not end a write, and
\* leaves p with a step to take or with settings to write.
LEMMA PlainStep ==
  ASSUME SettingsInv, NEW p \in Caller, NEW r,
         UNCHANGED <<file, bak, mine>>, marred => marred', run[p].at # "write" \/ marred',
         run' = [run EXCEPT ![p] = r],
         \/ r = [at |-> r.at] /\ r.at \notin {"truncate", "write"}
         \/ WellPlanned(p)' /\ r.at = "truncate"
  PROVE  SettingsInv'
<1>1. run'[p] = r /\ (\A q \in Caller : q # p => run'[q] = run[q]) /\ run' = [q \in Caller |-> run'[q]]
  BY DEF SettingsInv
<1>2. ASSUME NEW q \in Caller PROVE (IF IsWriting(q) THEN WellPlanned(q) ELSE run[q] = [at |-> run[q].at])'
  <2>1. CASE q = p
    BY <1>1, <2>1 DEF IsWriting
  <2>2. CASE q # p
    <3>1. run'[q] = run[q] /\ IF IsWriting(q) THEN WellPlanned(q) ELSE run[q] = [at |-> run[q].at]
      BY <1>1, <2>2 DEF SettingsInv
    <3> QED
      BY <3>1 DEF IsWriting, WellPlanned
  <2> QED
    BY <2>1, <2>2
<1>3. (\/ marred \/ file = NoSettings \/ Safe(mine, file, bak)
       \/ file = Torn /\ \E q \in Caller : run[q].at = "write")'
  BY <1>1 DEF SettingsInv
<1> QED
  BY <1>1, <1>2, <1>3 DEF SettingsInv

LEMMA PlanKeeps ==
  ASSUME SettingsInv, NEW p \in Caller,
         Begin(p) \/ Peek(p) \/ ReadToInstall(p) \/ ReadFails(p) \/ ReadToUninstall(p) \/ Check(p)
  PROVE  SettingsInv'
<1>1. CASE Begin(p)
  <2>1. PICK step \in {"peek", "read", "remove", "check"} : run' = [run EXCEPT ![p] = [at |-> step]]
    BY <1>1 DEF Begin
  <2> DEFINE r == [at |-> step]
  <2>2. r = [at |-> r.at] /\ r.at \notin {"truncate", "write"}
    OBVIOUS
  <2>3. run[p].at # "write" /\ UNCHANGED <<file, bak, mine, marred>> /\ run' = [run EXCEPT ![p] = r]
    BY <1>1, <2>1 DEF Begin
  <2> QED
    BY <2>2, <2>3, PlainStep
<1>2. CASE Peek(p)
  <2>1. run[p].at = "peek" /\ UNCHANGED <<file, bak, mine, marred>> /\ run[p] = [at |-> run[p].at]
    BY <1>2 DEF Peek, SettingsInv, IsWriting
  <2>2. PICK step \in {"idle", "read"} : run' = [run EXCEPT ![p] = [at |-> step]]
    BY <1>2, <2>1 DEF Peek, Ends, Proceeds, NoRun
  <2> DEFINE r == [at |-> step]
  <2>3. r = [at |-> r.at] /\ r.at \notin {"truncate", "write"}
    OBVIOUS
  <2> QED
    BY <2>1, <2>2, <2>3, PlainStep
<1>3. CASE Check(p)
  <2>1. run[p].at = "check" /\ UNCHANGED <<file, bak, mine, marred>> /\ run[p] = [at |-> run[p].at]
    BY <1>3 DEF Check, SettingsInv, IsWriting
  <2>2. PICK step \in {"idle", "read", "backup"} : run' = [run EXCEPT ![p] = [at |-> step]]
    BY <1>3, <2>1 DEF Check, Ends, Proceeds, NoRun
  <2> DEFINE r == [at |-> step]
  <2>3. r = [at |-> r.at] /\ r.at \notin {"truncate", "write"}
    OBVIOUS
  <2> QED
    BY <2>1, <2>2, <2>3, PlainStep
\* The three that plan to write have read the file, or take it for none.
<1>4. ASSUME run[p].at # "write", UNCHANGED <<file, bak, mine>>, marred => marred', Ends(p)
      PROVE  SettingsInv'
  <2> DEFINE r == NoRun
  <2>1. r = [at |-> r.at] /\ r.at \notin {"truncate", "write"} /\ run' = [run EXCEPT ![p] = r]
    BY <1>4 DEF Ends, NoRun
  <2> HIDE DEF r
  <2> QED
    BY <1>4, <2>1, PlainStep
<1>5. ASSUME run[p].at # "write", UNCHANGED <<file, bak, mine>>, marred => marred',
             NEW out, WillWrite(p, out, "idle"),
             out \in Settings, Tidy(out), Right(out), marred' \/ Safe(mine, out, bak)
      PROVE  SettingsInv'
  <2> DEFINE r == [at |-> "truncate", out |-> out, read |-> mine, then |-> "idle"]
  <2>1. run' = [run EXCEPT ![p] = r] /\ run'[p] = r
    BY <1>5 DEF WillWrite, SettingsInv
  <2>2. WellPlanned(p)'
    BY <1>5, <2>1 DEF WellPlanned, Safe
  <2> QED
    BY <1>5, <2>1, <2>2, PlainStep
<1>6. CASE ReadToInstall(p)
  <2>1. run[p].at # "write" /\ UNCHANGED <<file, bak, mine, marred>>
    BY <1>6 DEF ReadToInstall
  <2>2. CASE Ends(p)
    BY <1>4, <2>1, <2>2
  <2>3. CASE ~Ends(p)
    <3> DEFINE f == IF file = NoSettings THEN Empty ELSE file
               g == Install(f, CommandOf[p])
    <3>1. WillWrite(p, g, "idle") /\ ~(file # NoSettings /\ ~file.ok)
      BY <1>6, <2>3 DEF ReadToInstall
    <3>6. file = NoSettings \/ file # Torn
      BY <3>1 DEF Torn
    <3>2. f \in Settings /\ Tidy(f) /\ (marred \/ Safe(mine, f, bak))
      BY <3>6, EmptyIs, SettingsAssumption DEF SettingsInv, Safe
    <3>3. f # NoSettings
      BY <3>2, SettingsAssumption
    <3> HIDE DEF f
    <3>4. g \in Settings /\ Tidy(g) /\ Right(g) /\ OfUser(g) = OfUser(f)
      BY <3>2, InstallIs DEF Commands
    <3> HIDE DEF g
    <3>5. g # NoSettings /\ (marred \/ Safe(mine, g, bak))
      BY <3>2, <3>3, <3>4, SettingsAssumption DEF Safe
    <3> QED
      BY <1>5, <2>1, <3>1, <3>4, <3>5
  <2> QED
    BY <2>2, <2>3
<1>7. CASE ReadFails(p)
  <2> DEFINE g == Install(Empty, CommandOf[p])
  <2>1. run[p].at # "write" /\ UNCHANGED <<file, bak, mine>> /\ marred' /\ WillWrite(p, g, "idle")
    BY <1>7 DEF ReadFails
  <2>2. g \in Settings /\ Tidy(g) /\ Right(g)
    BY EmptyIs, InstallIs DEF Commands
  <2> HIDE DEF g
  <2> QED
    BY <1>5, <2>1, <2>2
<1>8. CASE ReadToUninstall(p)
  <2>1. run[p].at # "write" /\ UNCHANGED <<file, bak, mine, marred>>
    BY <1>8 DEF ReadToUninstall
  <2>2. CASE Ends(p)
    BY <1>4, <2>1, <2>2
  <2>3. CASE ~Ends(p)
    <3> DEFINE g == Uninstall(file)
    <3>1. WillWrite(p, g, "idle") /\ file # Torn /\ file # NoSettings
      BY <1>8, <2>3 DEF ReadToUninstall, Torn
    <3>2. file \in Settings /\ Tidy(file) /\ (marred \/ Safe(mine, file, bak))
      BY <3>1 DEF SettingsInv
    <3>3. g \in Settings /\ Tidy(g) /\ Right(g) /\ OfUser(g) = OfUser(file)
      BY <3>2, UninstallIs
    <3> HIDE DEF g
    <3>4. g # NoSettings /\ (marred \/ Safe(mine, g, bak))
      BY <3>1, <3>2, <3>3, SettingsAssumption DEF Safe
    <3> QED
      BY <1>5, <2>1, <3>1, <3>3, <3>4
  <2> QED
    BY <2>2, <2>3
<1> QED
  BY <1>1, <1>2, <1>3, <1>6, <1>7, <1>8

LEMMA BrokenIs ==
  ASSUME NEW f \in Settings, Tidy(f)
  PROVE  LET g == Broken(f) IN g \in Settings /\ Tidy(g) /\ Right(g) /\ OfUser(g) = OfUser(f)
<1> DEFINE k == [f EXCEPT !.ok = FALSE]
           g == [k EXCEPT !.by = "nobody"]
<1>1. k \in Settings /\ k.ok = FALSE /\ k.hooks = f.hooks /\ k.text = f.text
  BY DEF Settings
<1> HIDE DEF k
<1>2. g \in Settings /\ g.ok = FALSE /\ g.hooks = f.hooks /\ g.text = f.text
  BY <1>1 DEF Settings
<1>3. Broken(f) = g
  BY DEF Broken, k
<1> HIDE DEF g
<1>4. g # NoSettings /\ f # NoSettings /\ ~g.ok
  BY <1>2, SettingsAssumption
<1> QED
  BY <1>2, <1>3, <1>4 DEF Tidy, Right, OfUser, CommandsAt

LEMMA TornIs == Torn \in Settings /\ Torn # NoSettings /\ Tidy(Torn) /\ Right(Torn)
<1>1. Torn = [ok |-> FALSE, hooks |-> Empty.hooks, text |-> NoSettings, by |-> "nobody"]
  BY DEF Torn, Empty, Valid
<1> HIDE DEF Torn, Empty
<1>2. Torn \in Settings
  BY <1>1, EmptyIs DEF Settings
<1> QED
  BY <1>1, <1>2, EmptyIs, SettingsAssumption DEF Tidy, Right

LEMMA ResetKeeps ==
  ASSUME SettingsInv, NEW p \in Caller, BackupAndReset(p)
  PROVE  SettingsInv'
<1> DEFINE r == [at |-> "truncate", out |-> Empty, read |-> mine, then |-> "read"]
<1>1. /\ UNCHANGED <<file, mine>> /\ run[p].at = "backup" /\ run = [q \in Caller |-> run[q]]
      /\ bak' = IF file = NoSettings THEN bak ELSE file
      /\ marred' = (marred \/ (file # NoSettings /\ bak # NoSettings) \/ file = Torn)
      /\ run' = [run EXCEPT ![p] = NoRun] \/ run' = [run EXCEPT ![p] = r]
  BY DEF BackupAndReset, Ends, WillWrite, SettingsInv
<1>2. bak' # NoSettings => bak' \in Settings
  BY <1>1 DEF SettingsInv
<1>3. Empty # NoSettings /\ Empty \in Settings /\ Tidy(Empty) /\ Right(Empty) /\ OfUser(Empty) = OwnNothing
  BY EmptyIs, SettingsAssumption
<1> HIDE DEF Empty
<1>4. marred' \/ Safe(mine, Empty, bak')
  BY <1>1, <1>3 DEF SettingsInv, Safe
<1>5. ASSUME NEW q \in Caller PROVE (IF IsWriting(q) THEN WellPlanned(q) ELSE run[q] = [at |-> run[q].at])'
  <2>1. CASE q # p
    <3>1. run'[q] = run[q] /\ IF IsWriting(q) THEN WellPlanned(q) ELSE run[q] = [at |-> run[q].at]
      BY <1>1, <2>1 DEF SettingsInv
    <3>2. Safe(run[q].read, run[q].out, bak) => marred' \/ Safe(run[q].read, run[q].out, bak')
      BY <1>1 DEF Safe
    <3>3. IsWriting(q) => WellPlanned(q)'
      BY <1>1, <3>1, <3>2 DEF WellPlanned
    <3> QED
      BY <3>1, <3>3 DEF IsWriting
  <2>2. CASE q = p /\ run' = [run EXCEPT ![p] = NoRun]
    <3>1. run'[p] = [at |-> "idle"]
      BY <1>1, <2>2 DEF NoRun
    <3> QED
      BY <2>2, <3>1 DEF IsWriting
  <2>3. CASE q = p /\ run' = [run EXCEPT ![p] = r]
    <3>1. run'[p] = r
      BY <1>1, <2>3
    <3>2. WellPlanned(p)'
      BY <1>3, <1>4, <3>1 DEF WellPlanned
    <3> QED
      BY <2>3, <3>1, <3>2 DEF IsWriting
  <2> QED
    BY <1>1, <2>1, <2>2, <2>3
<1>6. marred' \/ file = NoSettings \/ Safe(mine, file, bak')
  BY <1>1 DEF SettingsInv, Safe
<1>7. run' = [q \in Caller |-> run'[q]]
  BY <1>1
<1> QED
  BY <1>1, <1>2, <1>5, <1>6, <1>7 DEF SettingsInv

LEMMA TruncateKeeps ==
  ASSUME SettingsInv, NEW p \in Caller, Truncate(p)
  PROVE  SettingsInv'
<1>1. /\ UNCHANGED <<bak, mine>> /\ file' = Torn /\ run[p].at = "truncate" /\ (marred => marred')
      /\ run' = [run EXCEPT ![p] = [run[p] EXCEPT !.at = "write"]]
  BY DEF Truncate, Proceeds
<1>2. run = [q \in Caller |-> run[q]] /\ WellPlanned(p)
  <2>1. IsWriting(p) /\ IF IsWriting(p) THEN WellPlanned(p) ELSE run[p] = [at |-> run[p].at]
    BY <1>1 DEF SettingsInv, IsWriting
  <2> QED
    BY <2>1 DEF SettingsInv
<1>3. run'[p] = [at |-> "write", out |-> run[p].out, read |-> run[p].read, then |-> run[p].then]
  BY <1>1, <1>2 DEF WellPlanned
<1>4. ASSUME NEW q \in Caller PROVE (IF IsWriting(q) THEN WellPlanned(q) ELSE run[q] = [at |-> run[q].at])'
  <2>1. CASE q # p
    <3>1. run'[q] = run[q] /\ IF IsWriting(q) THEN WellPlanned(q) ELSE run[q] = [at |-> run[q].at]
      BY <1>1, <1>2, <2>1 DEF SettingsInv
    <3> QED
      BY <1>1, <3>1 DEF IsWriting, WellPlanned
  <2>2. CASE q = p
    BY <1>1, <1>2, <1>3, <2>2 DEF IsWriting, WellPlanned
  <2> QED
    BY <2>1, <2>2
<1>5. run' = [q \in Caller |-> run'[q]]
  BY <1>1, <1>2
<1> QED
  BY <1>1, <1>3, <1>4, <1>5, TornIs DEF SettingsInv

LEMMA WriteKeeps ==
  ASSUME SettingsInv, NEW p \in Caller, WriteSettings(p)
  PROVE  SettingsInv'
<1>1. /\ UNCHANGED <<bak, mine>> /\ run[p].at = "write"
      /\ file' \in {run[p].out, Broken(run[p].out)}
      /\ marred' = (marred \/ run[p].read # mine)
      /\ run' = [run EXCEPT ![p] = NoRun] \/ run' = [run EXCEPT ![p] = [at |-> run[p].then]]
  BY DEF WriteSettings, Ends
<1>2. run = [q \in Caller |-> run[q]] /\ WellPlanned(p)
  BY <1>1 DEF SettingsInv, IsWriting
<1>3. run'[p] = [at |-> "idle"] \/ run'[p] = [at |-> "read"]
  BY <1>1, <1>2 DEF WellPlanned, NoRun
<1>4. ASSUME NEW q \in Caller PROVE (IF IsWriting(q) THEN WellPlanned(q) ELSE run[q] = [at |-> run[q].at])'
  <2>1. CASE q # p
    <3>1. run'[q] = run[q] /\ IF IsWriting(q) THEN WellPlanned(q) ELSE run[q] = [at |-> run[q].at]
      BY <1>1, <1>2, <2>1 DEF SettingsInv
    <3> QED
      BY <1>1, <3>1 DEF IsWriting, WellPlanned
  <2>2. CASE q = p
    BY <1>3, <2>2 DEF IsWriting
  <2> QED
    BY <2>1, <2>2
<1>5. run' = [q \in Caller |-> run'[q]]
  BY <1>1, <1>2
<1>6. file' \in Settings /\ Tidy(file') /\ Right(file') /\ OfUser(file') = OfUser(run[p].out)
  <2>1. run[p].out \in Settings /\ Tidy(run[p].out) /\ Right(run[p].out)
    BY <1>2 DEF WellPlanned
  <2> QED
    BY <1>1, <2>1, BrokenIs
<1>7. file' # NoSettings
  BY <1>6, SettingsAssumption
<1>8. marred' \/ Safe(mine, file', bak)
  BY <1>1, <1>2, <1>6, <1>7 DEF WellPlanned, Safe
<1>9. Tidy(file)' /\ Right(file)'
  BY <1>6 DEF Tidy, Right, CommandsAt
<1> QED
  BY <1>1, <1>4, <1>5, <1>6, <1>7, <1>8, <1>9 DEF SettingsInv

LEMMA SaveKeeps ==
  ASSUME SettingsInv, UserSaves
  PROVE  SettingsInv'
<1> DEFINE old == IF file = NoSettings THEN Empty ELSE file
<1>1. /\ UNCHANGED <<bak, run, marred>> /\ mine' = OfUser(file')
      /\ \/ \E t \in Chapters : file' = Valid(old.hooks, t, "user")
         \/ \E h \in HookEvent :
              file' = Valid([old.hooks EXCEPT ![h] = removeTokenMeterHook(@)], old.text, "user")
         \/ file' = Broken(old)
  BY DEF UserSaves
<1>2. old \in Settings /\ Tidy(old)
  BY EmptyIs DEF SettingsInv
<1> HIDE DEF old
<1>3. file' \in Settings /\ Tidy(file') /\ Right(file')
  <2>1. ASSUME NEW t \in Chapters, file' = Valid(old.hooks, t, "user")
        PROVE  file' \in Settings /\ Tidy(file') /\ Right(file')
    <3>1. file' = [ok |-> TRUE, hooks |-> old.hooks, text |-> t, by |-> "user"]
      BY <2>1 DEF Valid
    <3>2. file' \in Settings
      BY <1>2, <3>1 DEF Settings
    <3> QED
      BY <1>2, <3>1, <3>2 DEF Tidy, Right
  <2>2. ASSUME NEW h \in HookEvent,
               file' = Valid([old.hooks EXCEPT ![h] = removeTokenMeterHook(@)], old.text, "user")
        PROVE  file' \in Settings /\ Tidy(file') /\ Right(file')
    <3> DEFINE w == removeTokenMeterHook(old.hooks[h])
               k == [old.hooks EXCEPT ![h] = w]
    <3>1. old.hooks[h] \in Values
      BY <1>2, HooksAre
    <3>2. w \in Values /\ \A c : Once(Entries(old.hooks[h]), c) => Once(Entries(w), c)
      BY <3>1, Removed
    <3> HIDE DEF w
    <3>3. k \in Hooks /\ k[h] = w /\ \A g \in HookEvent : g # h => k[g] = old.hooks[g]
      BY <1>2, <3>2 DEF Settings, Hooks, Values, List
    <3>4. file' = [ok |-> TRUE, hooks |-> k, text |-> old.text, by |-> "user"]
      BY <2>2 DEF Valid, w
    <3> HIDE DEF k
    <3>5. file' \in Settings
      BY <1>2, <3>3, <3>4 DEF Settings
    <3>6. Tidy(file')
      BY <1>2, <3>2, <3>3, <3>4 DEF Tidy
    <3> QED
      BY <3>4, <3>5, <3>6 DEF Right
  <2>3. CASE file' = Broken(old)
    BY <1>2, <2>3, BrokenIs
  <2> QED
    BY <1>1, <2>1, <2>2, <2>3
<1>4. file' # NoSettings
  BY <1>3, SettingsAssumption
<1>5. \A q \in Caller : (IF IsWriting(q) THEN WellPlanned(q) ELSE run[q] = [at |-> run[q].at])'
  BY <1>1 DEF SettingsInv, IsWriting, WellPlanned
<1>6. Safe(mine', file', bak)
  BY <1>1, <1>4 DEF Safe
<1>7. Tidy(file)' /\ Right(file)'
  BY <1>3 DEF Tidy, Right, CommandsAt
<1> QED
  BY <1>1, <1>3, <1>4, <1>5, <1>6, <1>7 DEF SettingsInv

LEMMA SettingsStart == SettingsInit => SettingsInv
<1> SUFFICES ASSUME SettingsInit PROVE SettingsInv
  OBVIOUS
<1>1. run = [p \in Caller |-> NoRun] /\ bak = NoSettings /\ mine = OfUser(file) /\ marred = FALSE
  BY DEF SettingsInit
<1>2. \A p \in Caller : run[p] = [at |-> "idle"]
  BY <1>1 DEF NoRun
<1>3. \A p \in Caller : ~IsWriting(p) /\ run[p] = [at |-> run[p].at]
  BY <1>2 DEF IsWriting
<1>4. CASE file = NoSettings
  BY <1>1, <1>3, <1>4 DEF SettingsInv, OfUser
<1>5. ASSUME NEW s \in Shapes, NEW t \in Chapters, file = Valid(s, t, "user") PROVE SettingsInv
  <2>1. file = [ok |-> TRUE, hooks |-> s, text |-> t, by |-> "user"] /\ s \in Hooks
    BY <1>5, SettingsAssumption DEF Valid
  <2>2. file \in Settings
    BY <2>1 DEF Settings
  <2>3. file # NoSettings /\ Right(file)
    BY <2>1, <2>2, SettingsAssumption DEF Right
  <2>4. Tidy(file)
    <3>1. ASSUME NEW h \in HookEvent, NEW c \in Commands \ Ours PROVE Once(Entries(s[h]), c)
      <4>1. CASE s[h] = Odd
        <5>1. Entries(s[h]) = <<>> /\ DOMAIN <<>> = {}
          BY <4>1 DEF Entries
        <5> QED
          BY <5>1 DEF Once
      <4>2. CASE s[h] # Odd
        <5>1. \A i, j \in DOMAIN s[h] : c \in s[h][i] \cap s[h][j] => i = j
          BY <4>2, SettingsAssumption
        <5>2. Entries(s[h]) = s[h]
          BY <4>2 DEF Entries
        <5> QED
          BY <5>1, <5>2 DEF Once
      <4> QED
        BY <4>1, <4>2
    <3> QED
      BY <2>1, <3>1 DEF Tidy
  <2>5. Safe(mine, file, bak)
    BY <1>1, <2>3 DEF Safe
  <2> QED
    BY <1>1, <1>3, <2>2, <2>3, <2>4, <2>5 DEF SettingsInv
<1> QED
  BY <1>4, <1>5 DEF SettingsInit

LEMMA SettingsStep == SettingsInv /\ [SettingsNext]_settingsVars => SettingsInv'
<1> SUFFICES ASSUME SettingsInv, [SettingsNext]_settingsVars PROVE SettingsInv'
  OBVIOUS
<1>1. ASSUME NEW p \in Caller, RunDies(p) PROVE SettingsInv'
  <2> DEFINE r == NoRun
  <2>1. /\ r = [at |-> r.at] /\ r.at \notin {"truncate", "write"} /\ run' = [run EXCEPT ![p] = r]
        /\ UNCHANGED <<file, bak, mine>> /\ (marred => marred') /\ (run[p].at # "write" \/ marred')
    BY <1>1 DEF RunDies, Ends, NoRun
  <2> HIDE DEF r
  <2> QED
    BY <2>1, PlainStep
<1>2. CASE UNCHANGED settingsVars
  BY <1>2 DEF settingsVars, SettingsInv, IsWriting, WellPlanned
<1> QED
  BY <1>1, <1>2, PlanKeeps, ResetKeeps, TruncateKeeps, WriteKeeps, SaveKeeps DEF SettingsNext

\* What the user has in the settings of Claude Code is in the file or in the
\* copy doctor made, unless it was edited under the hands of a run, could not
\* be read or the run died writing; and the hooks there are those of the run
\* that wrote last.
THEOREM HooksKept == SettingsSpec => []HooksInPlace
<1>1. SettingsSpec => []SettingsInv
  BY SettingsStart, SettingsStep, PTL DEF SettingsSpec
<1> QED
  BY <1>1, InvIsHooksInPlace, PTL

-----------------------------------------------------------------------------
(* The daemon.  OneDaemon says nothing of the files and listeners that a   *)
(* process leaves behind on its way in and out; SingletonInv does.         *)

SingletonSpec == SingletonInit /\ [][SingletonNext]_singletonVars

LockIsState == \A p \in Process : at[p] \in Holding <=> locked = p

\* A listener is open between its bind and the end of Stop, and while it is,
\* the socket file is its own.
ListenersLead ==
  \A p \in Process, s \in Socket :
    p \in listening[s] =>
      /\ at[p] \in {"listen", "bind", "writePid", "serve", "close"}
      /\ sockFile[s] = p

ServesBoth == \A p \in Process, s \in Socket : Serving(p) => p \in listening[s]

SingletonInv == SingletonTypeOK /\ LockIsState /\ ListenersLead /\ ServesBoth

USE SingletonAssumption

\* Steps that move a process and touch neither lock, files nor listeners.
LEMMA Moves ==
  ASSUME SingletonInv, NEW p \in Process, NEW step,
         step \in {"none", "ended", "killed", "stale", "lock", "client", "close", "serve",
                   "removePid", "closeDB", "fix"},
         at' = [at EXCEPT ![p] = step],
         step \in Holding <=> at[p] \in Holding,
         step = "close" => at[p] = "serve",
         step = "serve" => at[p] = "writePid",
         pidFile' \in Process \cup {Nobody},
         UNCHANGED <<locked, sockFile, listening, kills>>
  PROVE  SingletonInv'
<1> USE DEF SingletonInv
<1>1. SingletonTypeOK' BY DEF SingletonTypeOK, Dead
<1>2. LockIsState' BY DEF LockIsState, SingletonTypeOK
<1>3. ListenersLead' BY DEF ListenersLead, LockIsState, SingletonTypeOK, Holding
<1>4. ServesBoth' BY DEF ServesBoth, Serving, SingletonTypeOK
<1> QED BY <1>1, <1>2, <1>3, <1>4

\* Only the holder of the lock has listeners.
LEMMA OnlyHolderListens ==
  ASSUME SingletonInv, NEW p \in Process, locked = p
  PROVE  \A q \in Process, s \in Socket : q \in listening[s] => q = p
BY DEF SingletonInv, ListenersLead, LockIsState, Holding

\* A start that fails leaves no listener and no file of its own.
LEMMA AbandonKeeps ==
  ASSUME SingletonInv, NEW p \in Process, at[p] \in {"listen", "bind"}, AbandonStart(p)
  PROVE  SingletonInv'
<1> USE DEF SingletonInv, AbandonStart, Goto, GiveUp
<1>0. locked = p BY DEF LockIsState, Holding
<1>1. SingletonTypeOK' BY DEF SingletonTypeOK, Dead
<1>2. LockIsState' BY <1>0 DEF LockIsState, SingletonTypeOK, Holding
<1>3. ListenersLead' BY <1>0, OnlyHolderListens DEF ListenersLead, SingletonTypeOK
<1>4. ServesBoth' BY <1>0 DEF ServesBoth, Serving, SingletonTypeOK, LockIsState, Holding
<1> QED BY <1>1, <1>2, <1>3, <1>4

LEMMA LockKeeps ==
  ASSUME SingletonInv, NEW p \in Process, Lock(p)
  PROVE  SingletonInv'
<1> USE DEF SingletonInv, Lock, Goto, GiveUp
<1>1. SingletonTypeOK' BY DEF SingletonTypeOK, Dead
<1>2. LockIsState' BY DEF LockIsState, SingletonTypeOK, Holding
<1>3. ListenersLead' BY DEF ListenersLead, SingletonTypeOK
<1>4. ServesBoth' BY DEF ServesBoth, Serving, SingletonTypeOK
<1> QED BY <1>1, <1>2, <1>3, <1>4

LEMMA ProbeKeeps ==
  ASSUME SingletonInv, NEW p \in Process, ProbeSocket(p)
  PROVE  SingletonInv'
<1>0. at[p] = "listen" /\ locked = p
  BY DEF SingletonInv, ProbeSocket, LockIsState, Holding
<1>1. PICK s \in Missing(p) :
        \/ AbandonStart(p)
        \/ /\ sockFile' = [sockFile EXCEPT ![s] = Nobody]
           /\ Goto(p, "bind")
           /\ UNCHANGED <<pidFile, locked, listening, kills>>
  BY DEF ProbeSocket
<1>2. CASE AbandonStart(p) BY <1>0, <1>2, AbandonKeeps
<1>3. CASE /\ sockFile' = [sockFile EXCEPT ![s] = Nobody]
           /\ Goto(p, "bind")
           /\ UNCHANGED <<pidFile, locked, listening, kills>>
  <2> USE <1>0, <1>3 DEF SingletonInv, Goto
  <2>1. s \in Socket /\ \A q \in Process : q \notin listening[s]
    BY OnlyHolderListens DEF Missing
  <2>2. SingletonTypeOK' BY DEF SingletonTypeOK
  <2>3. LockIsState' BY DEF LockIsState, SingletonTypeOK, Holding
  <2>4. ListenersLead' BY <2>1 DEF ListenersLead, SingletonTypeOK
  <2>5. ServesBoth' BY DEF ServesBoth, Serving, SingletonTypeOK
  <2> QED BY <2>2, <2>3, <2>4, <2>5
<1> QED BY <1>1, <1>2, <1>3

LEMMA BindKeeps ==
  ASSUME SingletonInv, NEW p \in Process, BindSocket(p)
  PROVE  SingletonInv'
<1>0. at[p] = "bind" /\ locked = p
  BY DEF SingletonInv, BindSocket, LockIsState, Holding
<1>1. PICK s \in Missing(p) :
        \/ AbandonStart(p)
        \/ /\ sockFile[s] = Nobody
           /\ sockFile' = [sockFile EXCEPT ![s] = p]
           /\ listening' = [listening EXCEPT ![s] = @ \cup {p}]
           /\ Goto(p, IF Missing(p) = {s} THEN "writePid" ELSE "listen")
           /\ UNCHANGED <<pidFile, locked, kills>>
  BY DEF BindSocket
<1>2. CASE AbandonStart(p) BY <1>0, <1>2, AbandonKeeps
<1>3. CASE /\ sockFile[s] = Nobody
           /\ sockFile' = [sockFile EXCEPT ![s] = p]
           /\ listening' = [listening EXCEPT ![s] = @ \cup {p}]
           /\ Goto(p, IF Missing(p) = {s} THEN "writePid" ELSE "listen")
           /\ UNCHANGED <<pidFile, locked, kills>>
  <2> USE <1>0, <1>3 DEF SingletonInv, Goto
  <2>1. s \in Socket /\ \A q \in Process : q \notin listening[s]
    BY OnlyHolderListens DEF Missing
  <2>2. SingletonTypeOK' BY <2>1 DEF SingletonTypeOK
  <2>3. LockIsState' BY DEF LockIsState, SingletonTypeOK, Holding
  <2>4. ListenersLead' BY <2>1 DEF ListenersLead, SingletonTypeOK
  <2>5. ServesBoth'
    <3>1. Missing(p) = {s} => \A t \in Socket : p \in listening'[t]
      BY <2>1 DEF Missing, SingletonTypeOK
    <3> QED BY <2>1, <3>1 DEF ServesBoth, Serving, SingletonTypeOK
  <2> QED BY <2>2, <2>3, <2>4, <2>5
<1> QED BY <1>1, <1>2, <1>3

\* Stop: what is removed is the daemon's own, since nobody else listens.
LEMMA StopKeeps ==
  ASSUME SingletonInv, NEW p \in Process,
         CloseListeners(p) \/ CleanSockets(p) \/ Unlock(p)
  PROVE  SingletonInv'
<1> USE DEF SingletonInv, Goto
<1>0. locked = p BY DEF LockIsState, Holding, CloseListeners, CleanSockets, Unlock
<1>1. CASE CloseListeners(p)
  <2> USE <1>1 DEF CloseListeners
  <2>1. SingletonTypeOK' BY DEF SingletonTypeOK
  <2>2. LockIsState' BY <1>0 DEF LockIsState, SingletonTypeOK, Holding
  <2>3. ListenersLead' BY <1>0, OnlyHolderListens DEF ListenersLead, SingletonTypeOK
  <2>4. ServesBoth' BY <1>0 DEF ServesBoth, Serving, SingletonTypeOK, LockIsState, Holding
  <2> QED BY <2>1, <2>2, <2>3, <2>4
<1>2. CASE CleanSockets(p)
  <2> USE <1>2 DEF CleanSockets
  <2>0. \A q \in Process, s \in Socket : q \notin listening[s]
    BY <1>0, OnlyHolderListens DEF ListenersLead
  <2>1. SingletonTypeOK' BY DEF SingletonTypeOK
  <2>2. LockIsState' BY <1>0 DEF LockIsState, SingletonTypeOK, Holding
  <2>3. ListenersLead' BY <2>0 DEF ListenersLead, SingletonTypeOK
  <2>4. ServesBoth' BY DEF ServesBoth, Serving, SingletonTypeOK
  <2> QED BY <2>1, <2>2, <2>3, <2>4
<1>3. CASE Unlock(p)
  <2> USE <1>3 DEF Unlock
  <2>1. SingletonTypeOK' BY DEF SingletonTypeOK
  <2>2. LockIsState' BY <1>0 DEF LockIsState, SingletonTypeOK, Holding
  <2>3. ListenersLead' BY DEF ListenersLead, SingletonTypeOK
  <2>4. ServesBoth' BY DEF ServesBoth, Serving, SingletonTypeOK
  <2> QED BY <2>1, <2>2, <2>3, <2>4
<1> QED BY <1>1, <1>2, <1>3

LEMMA KillKeeps ==
  ASSUME SingletonInv, NEW p \in Process, Kill(p)
  PROVE  SingletonInv'
<1> USE DEF SingletonInv, Kill, Goto
<1>1. SingletonTypeOK' BY DEF SingletonTypeOK, Dead
<1>2. LockIsState' BY DEF LockIsState, SingletonTypeOK, Holding
<1>3. ListenersLead' BY DEF ListenersLead, SingletonTypeOK
<1>4. ServesBoth' BY DEF ServesBoth, Serving, SingletonTypeOK
<1> QED BY <1>1, <1>2, <1>3, <1>4

LEMMA SingletonStep == SingletonInv /\ [SingletonNext]_singletonVars => SingletonInv'
<1> SUFFICES ASSUME SingletonInv, [SingletonNext]_singletonVars PROVE SingletonInv' OBVIOUS
<1>1. CASE UNCHANGED singletonVars
  BY <1>1 DEF SingletonInv, SingletonTypeOK, LockIsState, ListenersLead, ServesBoth, Serving,
              singletonVars
<1>2. CASE SingletonNext
  <2>1. PICK p \in Process :
          \/ CheckPid(p) \/ RemoveStale(p) \/ Lock(p) \/ ProbeSocket(p) \/ BindSocket(p)
          \/ WritePid(p) \/ Signal(p) \/ CloseListeners(p) \/ CleanSockets(p) \/ Unlock(p)
          \/ RemovePid(p) \/ CloseDB(p) \/ Kill(p) \/ DoctorLooks(p) \/ DoctorRemoves(p)
    BY <1>2 DEF SingletonNext
  <2>2. pidFile \in Process \cup {Nobody} BY DEF SingletonInv, SingletonTypeOK
  <2>3. CASE CheckPid(p)
    <3>1. PICK step \in {"lock", "client", "ended", "stale"} : at' = [at EXCEPT ![p] = step]
      BY <2>3 DEF CheckPid, Goto, GiveUp
    <3> QED BY <2>2, <2>3, <3>1, Moves DEF CheckPid, Holding
  <2>4. CASE RemoveStale(p) BY <2>4, Moves DEF RemoveStale, Goto, Holding
  <2>5. CASE WritePid(p) BY <2>5, Moves DEF WritePid, Goto, Holding
  <2>6. CASE Signal(p)
    <3>1. PICK step \in {"close", "ended"} :
            /\ at' = [at EXCEPT ![p] = step]
            /\ step = "close" <=> at[p] = "serve"
      BY <2>6 DEF Signal, Goto
    <3> QED BY <2>2, <2>6, <3>1, Moves DEF Signal, Holding
  <2>7. CASE RemovePid(p) BY <2>7, Moves DEF RemovePid, Goto, Holding
  <2>8. CASE CloseDB(p) BY <2>2, <2>8, Moves DEF CloseDB, Goto, Holding
  <2>9. CASE DoctorLooks(p) BY <2>2, <2>9, Moves DEF DoctorLooks, Goto, Holding
  <2>10. CASE DoctorRemoves(p) BY <2>10, Moves DEF DoctorRemoves, Goto, Holding
  <2> QED BY <2>1, <2>3, <2>4, <2>5, <2>6, <2>7, <2>8, <2>9, <2>10,
             LockKeeps, ProbeKeeps, BindKeeps, StopKeeps, KillKeeps
<1> QED BY <1>1, <1>2

LEMMA SingletonStart == SingletonInit => SingletonInv
BY DEF SingletonInit, SingletonInv, SingletonTypeOK, LockIsState, ListenersLead, ServesBoth,
       Serving, Holding, Dead

LEMMA SingletonTypes == SingletonSpec => []SingletonTypeOK
<1>1. SingletonInv => SingletonTypeOK
  BY DEF SingletonInv
<1> QED
  BY <1>1, SingletonStart, SingletonStep, PTL DEF SingletonSpec

\* There is never more than one daemon, and its sockets lead to it, whoever
\* starts, stops, is killed or cleans up, between any two of their steps.
THEOREM OneDaemonCorrect == SingletonSpec => []OneDaemon
<1>1. SingletonInv => OneDaemon
  <2> SUFFICES ASSUME SingletonInv PROVE OneDaemon OBVIOUS
  <2>1. \A p \in Process : at[p] \in Holding <=> locked = p BY DEF SingletonInv, LockIsState
  <2>2. \A p, q \in Process : Serving(p) /\ Serving(q) => p = q
    BY <2>1 DEF Serving, Holding
  <2>3. \A p \in Process, s \in Socket : Serving(p) => sockFile[s] = p /\ listening[s] = {p}
    <3> SUFFICES ASSUME NEW p \in Process, NEW s \in Socket, Serving(p)
                 PROVE  sockFile[s] = p /\ listening[s] = {p}
      OBVIOUS
    <3>1. locked = p BY <2>1 DEF Serving, Holding
    <3>2. p \in listening[s] BY DEF SingletonInv, ServesBoth
    <3>3. sockFile[s] = p BY <3>2 DEF SingletonInv, ListenersLead
    <3>4. listening[s] \subseteq Process BY DEF SingletonInv, SingletonTypeOK
    <3>5. \A q \in Process : q \in listening[s] => q = p BY <3>1, OnlyHolderListens
    <3> QED BY <3>2, <3>3, <3>4, <3>5
  <2> QED BY <2>1, <2>2, <2>3 DEF OneDaemon
<1> QED BY <1>1, SingletonStart, SingletonStep, PTL DEF SingletonSpec

-----------------------------------------------------------------------------
(* Alerts.                                                                 *)

AlertsSpec == AlertsInit /\ [][MoneyNext \/ ToolsNext]_alertVars

Called == [tool : Tool, failed : BOOLEAN, at : Nat]
Stage == {"unseen", "ok", "warn", "over"}

AlertsTyped ==
  /\ hooks \in Configs /\ tick \in Nat /\ due \in SUBSET Sweep
  /\ calls \in Seq(Called)
  /\ lastStatus \in [Budget -> Stage] /\ toolAlert \in [Tool -> Nat]
  /\ \A a \in alarms : /\ a.at \in Nat /\ a.at <= tick /\ a.to \in Endpoint
                       /\ a.kind = "budget_over" => a.key \in Budget
                       /\ a.kind = "tool_failure_rate" => a.key \in Tool
  /\ \A c \in calm : c[3] \in Nat /\ c[3] <= tick
  /\ \A x \in cooling : x.at \in Nat /\ x.at <= tick

\* A sweep that is due has done nothing yet at this tick.
Quiet(sweep, kind) ==
  sweep \in due => /\ \A a \in alarms : a.kind = kind => a.at # tick
                   /\ \A c \in calm : c[1] = kind => c[3] # tick
QuietInv == Quiet("budgets", "budget_over") /\ Quiet("tools", "tool_failure_rate")

CalmAfter(kind, key, since) == \E c \in calm : c[1] = kind /\ c[2] = key /\ c[3] > since

\* What was reported is remembered until it is calm again.
BudgetsInv ==
  /\ \A a \in alarms : a.kind = "budget_over" =>
       lastStatus[a.key] = "over" \/ CalmAfter("budget_over", a.key, a.at)
  /\ \A b \in Budget : lastStatus[b] = "unseen" => ~Calmed("budget_over", b)
ToolsInv ==
  \A a \in alarms : a.kind = "tool_failure_rate" =>
    toolAlert[a.key] > RateThreshold(a.to) \/ CalmAfter("tool_failure_rate", a.key, a.at)

\* The cooldown of a spike dates from its last alarm, and any other is older
\* than the cooldown.
SpikesInv ==
  /\ \A a \in alarms : a.kind = "cost_spike" =>
       \E x \in cooling : x.key = <<"cost_spike", a.key>> /\ (a.at = x.at \/ x.at - a.at >= SpikeCooldown)
  /\ \A x, y \in cooling : x.key = y.key => x.at = y.at

AlertsInv ==
  /\ AlertsTyped /\ QuietInv /\ BudgetsInv /\ ToolsInv /\ SpikesInv
  /\ NoFalseAlarm /\ ToldOnce /\ CrossingTold

LEMMA Thresholds == \A e \in Endpoint : RateThreshold(e) \in Nat
BY AlertsAssumption DEF RateThreshold, OrDefault

\* The pairs of alarms after a step: what is new is of this tick.
LEMMA PairsKeep ==
  ASSUME AlertsInv, NEW new, alarms' = alarms \cup new, calm \subseteq calm',
         \A b \in new : b.at = tick,
         \A a \in alarms, b \in new :
           (a.to = b.to /\ a.kind = b.kind /\ a.key = b.key /\ a.at < tick) =>
             /\ a.kind \in {"budget_over", "tool_failure_rate"} =>
                  \E c \in calm' : c[1] = a.kind /\ c[2] = a.key /\ a.at < c[3] /\ c[3] < tick
             /\ a.kind = "cost_spike" => tick - a.at >= SpikeCooldown
  PROVE  ToldOnce'
<1> SUFFICES ASSUME NEW a \in alarms', NEW b \in alarms',
                    a.to = b.to /\ a.kind = b.kind /\ a.key = b.key /\ a.at < b.at
             PROVE  /\ a.kind \in {"budget_over", "tool_failure_rate"} =>
                         \E c \in calm' : c[1] = a.kind /\ c[2] = a.key /\ a.at < c[3] /\ c[3] < b.at
                    /\ a.kind = "cost_spike" => b.at - a.at >= SpikeCooldown
  BY DEF ToldOnce
<1>1. \A x \in alarms : x.at \in Nat /\ x.at <= tick
  BY DEF AlertsInv, AlertsTyped
<1>2. tick \in Nat
  BY DEF AlertsInv, AlertsTyped
<1>3. CASE a \in alarms /\ b \in alarms
  BY <1>3 DEF AlertsInv, ToldOnce
<1>4. CASE a \in alarms /\ b \in new
  BY <1>4
<1>5. CASE a \in new
  BY <1>1, <1>2, <1>5
<1> QED
  BY <1>3, <1>4, <1>5

LEMMA ToldByThen ==
  ASSUME AlertsInv
  PROVE  /\ ToldOnce /\ NoFalseAlarm /\ CrossingTold
         /\ tick \in Nat /\ \A c \in calm : c[3] \in Nat /\ c[3] <= tick
         /\ \A a \in alarms : a.at \in Nat /\ a.at <= tick /\ a.to \in Endpoint
BY DEF AlertsInv, AlertsTyped

\* The world: nothing is reported.
LEMMA WorldKeeps ==
  ASSUME AlertsInv, Spend \/ Forget \/ CallTool \/ Tick \/ Reload
  PROVE  AlertsInv'
<1>1. UNCHANGED <<lastStatus, toolAlert, cooling, alarms, calm>>
  BY DEF Spend, Forget, CallTool, Tick, Reload
<1>2. (tick' = tick /\ due' = due) \/ tick' = tick + 1
  BY DEF Spend, Forget, CallTool, Tick, Reload
<1>3. hooks' \in Configs /\ tick' \in Nat /\ due' \in SUBSET Sweep /\ tick <= tick'
  <2>1. hooks \in Configs /\ tick \in Nat /\ due \in SUBSET Sweep
    BY DEF AlertsInv, AlertsTyped
  <2>2. due' = due \/ due' = Sweep
    BY DEF Spend, Forget, CallTool, Tick, Reload
  <2>3. hooks' = hooks \/ hooks' \in Configs
    BY DEF Spend, Forget, CallTool, Tick, Reload
  <2> QED
    BY <1>2, <2>1, <2>2, <2>3
<1>4. calls' \in Seq(Called)
  <2>1. CASE CallTool
    <3>1. PICK t \in Tool, failed \in BOOLEAN :
            calls' = Append(calls, [tool |-> t, failed |-> failed, at |-> tick])
      BY <2>1 DEF CallTool
    <3>2. PICK c : c = [tool |-> t, failed |-> failed, at |-> tick]
      OBVIOUS
    <3>3. c \in Called /\ calls \in Seq(Called)
      BY <3>2 DEF AlertsInv, AlertsTyped, Called
    <3> QED
      BY <3>1, <3>2, <3>3
  <2>2. CASE ~CallTool
    BY <2>2 DEF Spend, Forget, Tick, Reload, AlertsInv, AlertsTyped
  <2> QED
    BY <2>1, <2>2
<1>5. AlertsTyped'
  <2>1. \A x : x \in Nat /\ x <= tick => x <= tick'
    BY <1>3, ToldByThen
  <2> QED
    BY <1>1, <1>3, <1>4, <2>1 DEF AlertsInv, AlertsTyped
<1>6. QuietInv'
  <2>1. CASE tick' = tick /\ due' = due
    BY <1>1, <2>1 DEF AlertsInv, QuietInv, Quiet
  <2>2. CASE tick' = tick + 1
    <3>1. \A x : x \in Nat /\ x <= tick => x # tick'
      BY <2>2, ToldByThen
    <3>2. /\ \A a \in alarms : a.at # tick'
          /\ \A c \in calm : c[3] # tick'
      BY <3>1, ToldByThen
    <3> QED
      BY <1>1, <3>2 DEF QuietInv, Quiet
  <2> QED
    BY <1>2, <2>1, <2>2
<1>7. BudgetsInv' /\ ToolsInv' /\ SpikesInv'
  BY <1>1 DEF AlertsInv, BudgetsInv, ToolsInv, SpikesInv, CalmAfter, Calmed, CalmSince
<1>8. NoFalseAlarm' /\ ToldOnce' /\ CrossingTold'
  BY <1>1 DEF AlertsInv, NoFalseAlarm, ToldOnce, CrossingTold, Calmed, CalmSince
<1> QED
  BY <1>5, <1>6, <1>7, <1>8 DEF AlertsInv

\* What has nothing to do with budgets and tools leaves them alone.
LEMMA OthersKeep ==
  ASSUME AlertsInv, NEW new, alarms' = alarms \cup new,
         \A a \in new : a.kind \notin {"budget_over", "tool_failure_rate"} /\ a.at = tick /\ a.to \in Endpoint,
         \A a \in new : /\ a.kind \in Wants[a.to]
                        /\ a.kind = "usage_regression" => a.level >= RatioThreshold(a.to)
                        /\ a.kind = "session_high_cost" => a.level > OrDefault(OverCost[a.to], DefaultCost),
         \A a \in alarms, b \in new :
           (a.key = b.key /\ a.kind = "cost_spike" /\ b.kind = "cost_spike" /\ a.at < tick) => tick - a.at >= SpikeCooldown,
         UNCHANGED <<hooks, tick, calls, lastStatus, toolAlert, calm>>, due' \subseteq due,
         \A x \in cooling' : x.at \in Nat /\ x.at <= tick, SpikesInv'
  PROVE  AlertsInv'
<1>1. AlertsTyped'
  BY DEF AlertsInv, AlertsTyped
<1>2. QuietInv'
  BY DEF AlertsInv, QuietInv, Quiet
<1>3. BudgetsInv' /\ ToolsInv'
  BY DEF AlertsInv, BudgetsInv, ToolsInv, CalmAfter, Calmed, CalmSince
<1>4. NoFalseAlarm'
  BY DEF AlertsInv, NoFalseAlarm
<1>5. ToldOnce'
  <2>1. calm \subseteq calm' /\ \A b \in new : b.at = tick
    OBVIOUS
  <2>2. ASSUME NEW a \in alarms, NEW b \in new, a.to = b.to, a.kind = b.kind, a.key = b.key, a.at < tick
        PROVE  /\ a.kind \notin {"budget_over", "tool_failure_rate"}
               /\ a.kind = "cost_spike" => tick - a.at >= SpikeCooldown
    BY <2>2
  <2>3. \A a \in alarms, b \in new :
          (a.to = b.to /\ a.kind = b.kind /\ a.key = b.key /\ a.at < tick) =>
            /\ a.kind \in {"budget_over", "tool_failure_rate"} =>
                 \E c \in calm' : c[1] = a.kind /\ c[2] = a.key /\ a.at < c[3] /\ c[3] < tick
            /\ a.kind = "cost_spike" => tick - a.at >= SpikeCooldown
    BY <2>2
  <2> QED
    BY <2>1, <2>3, PairsKeep
<1>6. CrossingTold'
  BY DEF AlertsInv, CrossingTold, Calmed, CalmSince
<1> QED
  BY <1>1, <1>2, <1>3, <1>4, <1>5, <1>6 DEF AlertsInv

LEMMA WantingIs == \A kind : Wanting(kind) \subseteq Within(hooks) /\ \A e \in Wanting(kind) : kind \in Wants[e]
BY DEF Wanting

LEMMA EndpointsListed ==
  ASSUME AlertsInv
  PROVE  /\ Within(hooks) \subseteq Endpoint /\ Steady \subseteq Within(hooks)
         /\ \A i \in 1 .. Len(hooks) : hooks[i] \in Endpoint
<1>1. hooks \in Seq(Endpoint) /\ hooks \in Configs
  BY AlertsAssumption DEF AlertsInv, AlertsTyped
<1>2. DOMAIN hooks = 1 .. Len(hooks) /\ \A i \in 1 .. Len(hooks) : hooks[i] \in Endpoint
  BY <1>1
<1> QED
  BY <1>1, <1>2 DEF Within, Steady

LEMMA SessionKeeps ==
  ASSUME AlertsInv, SessionEnds
  PROVE  AlertsInv'
<1>0. PICK cost \in Steps :
        LET selected == {e \in Wanting("session_high_cost") : cost > OrDefault(OverCost[e], DefaultCost)}
        IN /\ alarms' = alarms \cup {Alarm(e, "session_high_cost", "session", cost) : e \in selected}
           /\ UNCHANGED <<hooks, tick, due, spent, calls, lastStatus, toolAlert, cooling, calm, turns>>
  BY DEF SessionEnds
<1>1. PICK selected :
        /\ selected = {e \in Wanting("session_high_cost") : cost > OrDefault(OverCost[e], DefaultCost)}
        /\ alarms' = alarms \cup {Alarm(e, "session_high_cost", "session", cost) : e \in selected}
        /\ UNCHANGED <<hooks, tick, due, spent, calls, lastStatus, toolAlert, cooling, calm, turns>>
  BY <1>0
<1>2. PICK new : new = {Alarm(e, "session_high_cost", "session", cost) : e \in selected}
  OBVIOUS
<1>3. \A a \in new : /\ a.kind = "session_high_cost" /\ a.at = tick /\ a.to \in Endpoint
                     /\ a.kind \in Wants[a.to] /\ a.level > OrDefault(OverCost[a.to], DefaultCost)
  BY <1>1, <1>2, WantingIs, EndpointsListed DEF Alarm
<1>4. SpikesInv'
  BY <1>1, <1>2, <1>3 DEF AlertsInv, SpikesInv
<1>5. \A x \in cooling' : x.at \in Nat /\ x.at <= tick
  BY <1>1 DEF AlertsInv, AlertsTyped
<1> QED
  BY <1>1, <1>2, <1>3, <1>4, <1>5, OthersKeep

\* What a status of a budget says.
LEMMA StatusIs ==
  /\ \A used : Status(used, Limit) \in {"ok", "warn", "over"}
  /\ \A used : Status(used, Limit) = "over" => used >= Limit
BY AlertsAssumption DEF Status

LEMMA TransitionIs ==
  \A p, c : /\ Transition(p, c) \in {"none", "budget_warn", "budget_over"}
            /\ Transition(p, c) = "budget_over" <=> c = "over" /\ p \in {"ok", "warn"}
BY DEF Transition

LEMMA BudgetsKeep ==
  ASSUME AlertsInv, CheckBudgets
  PROVE  AlertsInv'
<1>1. PICK failing \in SUBSET Budget :
        LET status == Status(Used, Limit)
            kind(b) == IF lastStatus[b] = "unseen" THEN "none" ELSE Transition(lastStatus[b], status)
            read == Budget \ failing
        IN /\ lastStatus' = [b \in Budget |-> IF b \in read THEN status ELSE lastStatus[b]]
           /\ alarms' = alarms \cup UNION {{Alarm(e, kind(b), b, Used) : e \in Wanting(kind(b))} : b \in read}
           /\ calm' = calm \cup {<<"budget_over", b, tick>> : b \in {x \in read : status # "over"}}
  BY DEF CheckBudgets
<1>2. /\ "budgets" \in due /\ due' = due \ {"budgets"}
      /\ UNCHANGED <<hooks, tick, spent, calls, toolAlert, cooling, turns>>
  BY DEF CheckBudgets
<1>3. PICK status : status = Status(Used, Limit)
  OBVIOUS
<1>4. PICK read \in SUBSET Budget : read = Budget \ failing
  OBVIOUS
<1>5. PICK used : used = Used
  OBVIOUS
<1> DEFINE kind(b) == IF lastStatus[b] = "unseen" THEN "none" ELSE Transition(lastStatus[b], status)
<1>6. status \in {"ok", "warn", "over"} /\ (status = "over" => used >= Limit)
  BY <1>3, <1>5, StatusIs
<1>7. \A b \in Budget : /\ kind(b) \in {"none", "budget_warn", "budget_over"}
                        /\ kind(b) = "budget_over" <=> status = "over" /\ lastStatus[b] \in {"ok", "warn"}
  BY TransitionIs
<1>8. lastStatus \in [Budget -> Stage]
  BY DEF AlertsInv, AlertsTyped
<1>9. /\ \A b \in read : lastStatus'[b] = status
      /\ \A b \in Budget \ read : lastStatus'[b] = lastStatus[b]
      /\ lastStatus' \in [Budget -> Stage]
  BY <1>1, <1>3, <1>4, <1>6, <1>8 DEF Stage
<1>10. PICK new : new = UNION {{Alarm(e, kind(b), b, Used) : e \in Wanting(kind(b))} : b \in read}
  OBVIOUS
<1>11. alarms' = alarms \cup new
  BY <1>1, <1>3, <1>4, <1>10
<1>12. calm' = calm \cup {<<"budget_over", b, tick>> : b \in {x \in read : status # "over"}}
  BY <1>1, <1>3, <1>4
<1>13. \A a \in new : \E b \in read : \E e \in Wanting(kind(b)) : a = Alarm(e, kind(b), b, used)
  BY <1>5, <1>10
<1>14. \A b \in read : \A e \in Wanting(kind(b)) : Alarm(e, kind(b), b, used) \in new
  BY <1>5, <1>10
<1>15. \A a \in new : /\ a.key \in read /\ a.kind = kind(a.key) /\ a.at = tick /\ a.to \in Endpoint
                      /\ a.kind \in Wants[a.to] /\ a.level = used
  BY <1>13, WantingIs, EndpointsListed DEF Alarm
<1>16. \A c \in calm' : c \in calm \/ (c[1] = "budget_over" /\ c[2] \in read /\ c[3] = tick /\ status # "over")
  BY <1>12
<1>17. \A b \in read : status # "over" => <<"budget_over", b, tick>> \in calm'
  BY <1>12
<1> HIDE DEF kind
<1>18. AlertsTyped'
  <2>1. \A a \in new : a.kind \notin {"tool_failure_rate"} /\ a.key \in Budget /\ a.at \in Nat /\ a.at <= tick
    BY <1>4, <1>7, <1>15, ToldByThen
  <2>2. \A c \in calm' : c[3] \in Nat /\ c[3] <= tick
    BY <1>16, ToldByThen
  <2> QED
    BY <1>2, <1>9, <1>11, <1>15, <2>1, <2>2 DEF AlertsInv, AlertsTyped
<1>19. QuietInv'
  <2>1. \A a \in new : a.kind # "tool_failure_rate"
    BY <1>7, <1>15
  <2>2. \A c \in calm' : c[1] = "tool_failure_rate" => c \in calm
    BY <1>16
  <2> QED
    BY <1>2, <1>11, <2>1, <2>2 DEF AlertsInv, QuietInv, Quiet
<1>20. calm \subseteq calm'
  BY <1>12
<1>21. \A key, since : CalmAfter("budget_over", key, since) => CalmAfter("budget_over", key, since)'
  BY <1>20 DEF CalmAfter
<1>22. \A b \in read : \A since : status # "over" /\ since \in Nat /\ since < tick => CalmAfter("budget_over", b, since)'
  BY <1>17, ToldByThen DEF CalmAfter
<1>23. \A a \in alarms : a.kind = "budget_over" => a.key \in Budget /\ a.at \in Nat /\ a.at < tick
  <2>1. \A a \in alarms : a.kind = "budget_over" => a.key \in Budget /\ a.at # tick /\ a.at \in Nat /\ a.at <= tick
    BY <1>2 DEF AlertsInv, AlertsTyped, QuietInv, Quiet
  <2> QED
    BY <2>1, ToldByThen
<1>24. BudgetsInv'
  <2>1. ASSUME NEW a \in alarms', a.kind = "budget_over"
        PROVE  lastStatus'[a.key] = "over" \/ CalmAfter("budget_over", a.key, a.at)'
    <3>1. CASE a \in new
      BY <1>7, <1>9, <1>15, <2>1, <3>1
    <3>2. CASE a \in alarms /\ a.key \in read
      BY <1>9, <1>22, <1>23, <2>1, <3>2
    <3>3. CASE a \in alarms /\ a.key \notin read
      <4>1. lastStatus'[a.key] = lastStatus[a.key]
        BY <1>9, <1>23, <2>1, <3>3
      <4> QED
        BY <1>21, <2>1, <3>3, <4>1 DEF AlertsInv, BudgetsInv
    <3> QED
      BY <1>11, <3>1, <3>2, <3>3
  <2>2. ASSUME NEW b \in Budget, lastStatus'[b] = "unseen"
        PROVE  ~Calmed("budget_over", b)'
    <3>1. b \notin read /\ lastStatus[b] = "unseen"
      BY <1>6, <1>9, <2>2
    <3>2. ~Calmed("budget_over", b)
      BY <3>1 DEF AlertsInv, BudgetsInv
    <3> QED
      BY <1>16, <3>1, <3>2 DEF Calmed, CalmSince
  <2> QED
    BY <2>1, <2>2 DEF BudgetsInv
<1>25. ToolsInv'
  <2>1. \A a \in alarms' : a.kind = "tool_failure_rate" => a \in alarms
    BY <1>7, <1>11, <1>15
  <2> QED
    BY <1>2, <1>20, <2>1 DEF AlertsInv, ToolsInv, CalmAfter
<1>26. SpikesInv'
  <2>1. \A a \in alarms' : a.kind = "cost_spike" => a \in alarms
    BY <1>7, <1>11, <1>15
  <2> QED
    BY <1>2, <2>1 DEF AlertsInv, SpikesInv
<1>27. NoFalseAlarm'
  <2>1. \A a \in new : a.kind \in {"none", "budget_warn", "budget_over"}
    BY <1>7, <1>15
  <2>2. \A a \in new : a.kind = "budget_over" => a.level >= Limit
    BY <1>6, <1>7, <1>15
  <2> QED
    BY <1>11, <1>15, <2>1, <2>2, ToldByThen DEF NoFalseAlarm
<1>28. ToldOnce'
  <2>1. ASSUME NEW a \in alarms, NEW b \in new, a.kind = b.kind, a.key = b.key, a.at < tick
        PROVE  /\ a.kind \in {"budget_over", "tool_failure_rate"} =>
                    \E c \in calm' : c[1] = a.kind /\ c[2] = a.key /\ a.at < c[3] /\ c[3] < tick
               /\ a.kind # "cost_spike"
    <3>1. a.kind \in {"none", "budget_warn", "budget_over"} /\ a.key \in read /\ a.kind = kind(a.key)
      BY <1>7, <1>15, <2>1
    <3>2. CASE a.kind = "budget_over"
      <4>1. lastStatus[a.key] # "over"
        BY <1>7, <3>1, <3>2
      <4>2. PICK c \in calm : c[1] = "budget_over" /\ c[2] = a.key /\ c[3] > a.at
        BY <3>2, <4>1 DEF AlertsInv, BudgetsInv, CalmAfter
      <4>3. c[3] # tick
        BY <1>2, <4>2 DEF AlertsInv, QuietInv, Quiet
      <4>4. c[3] < tick /\ a.at < c[3]
        BY <4>2, <4>3, ToldByThen
      <4> QED
        BY <1>20, <3>2, <4>2, <4>4
    <3> QED
      BY <3>1, <3>2
  <2> QED
    BY <1>11, <1>15, <1>20, <2>1, PairsKeep
<1>29. CrossingTold'
  <2>1. ASSUME NEW e \in Steady, NEW b \in Budget, "budget_over" \in Wants[e], lastStatus'[b] = "over",
               Calmed("budget_over", b)'
        PROVE  \E a \in alarms' : a.to = e /\ a.kind = "budget_over" /\ a.key = b
                                    /\ ~CalmSince("budget_over", b, a.at)'
    <3>1. b \in read => status = "over"
      BY <1>9, <2>1
    <3>2. \A since : CalmSince("budget_over", b, since)' => CalmSince("budget_over", b, since)
      BY <1>16, <3>1 DEF CalmSince
    <3>3. Calmed("budget_over", b)
      BY <2>1, <3>2 DEF Calmed
    <3>4. CASE lastStatus[b] = "over"
      BY <1>11, <2>1, <3>2, <3>3, <3>4, ToldByThen DEF CrossingTold
    <3>5. CASE lastStatus[b] # "over"
      <4>1. b \in read /\ kind(b) = "budget_over"
        <5>1. b \in read
          BY <1>9, <2>1, <3>5
        <5>2. lastStatus[b] # "unseen"
          BY <3>3 DEF AlertsInv, BudgetsInv
        <5> QED
          BY <1>7, <1>8, <3>1, <3>5, <5>1, <5>2 DEF Stage
      <4>2. e \in Wanting(kind(b))
        BY <2>1, <4>1, EndpointsListed DEF Wanting
      <4>3. PICK a \in new : a = Alarm(e, "budget_over", b, used)
        BY <1>14, <4>1, <4>2
      <4>4. a.to = e /\ a.kind = "budget_over" /\ a.key = b /\ a.at = tick
        BY <4>3 DEF Alarm
      <4>5. ~CalmSince("budget_over", b, tick)
        <5>1. \A c \in calm : c[1] = "budget_over" => c[3] # tick /\ c[3] \in Nat /\ c[3] <= tick
          BY <1>2, ToldByThen DEF AlertsInv, QuietInv, Quiet
        <5> QED
          BY <5>1, ToldByThen DEF CalmSince
      <4> QED
        BY <1>11, <3>2, <4>4, <4>5
    <3> QED
      BY <3>4, <3>5
  <2>2. \A t, since : CalmSince("tool_failure_rate", t, since)' => CalmSince("tool_failure_rate", t, since)
    BY <1>16 DEF CalmSince
  <2>3. ASSUME NEW e \in Steady, NEW t \in Tool, "tool_failure_rate" \in Wants[e],
               \A o \in Endpoint : RateThreshold(e) <= RateThreshold(o), toolAlert'[t] > 0
        PROVE  \E a \in alarms' : a.to = e /\ a.kind = "tool_failure_rate" /\ a.key = t
                                    /\ ~CalmSince("tool_failure_rate", t, a.at)'
    BY <1>2, <1>11, <2>2, <2>3, ToldByThen DEF CrossingTold
  <2> QED
    BY <2>1, <2>3 DEF CrossingTold
<1> QED
  BY <1>18, <1>19, <1>24, <1>25, <1>26, <1>27, <1>28, <1>29 DEF AlertsInv

\* A failure rate is computed from calls that were made.
LEMMA RateIs ==
  ASSUME AlertsInv, NEW t \in Tool, RecentCalls(t) # {}
  PROVE  FailureRate(RecentCalls(t)) \in Nat
<1>1. PICK places : places = RecentCalls(t)
  OBVIOUS
<1>2. calls \in Seq(Called)
  BY DEF AlertsInv, AlertsTyped
<1>3. DOMAIN calls = 1 .. Len(calls) /\ Len(calls) \in Nat
  BY <1>2
<1>4. IsFiniteSet(DOMAIN calls)
  BY <1>3, FS_Interval
<1>5. places \subseteq DOMAIN calls /\ places # {}
  BY <1>1 DEF RecentCalls
<1>6. IsFiniteSet(places) /\ Cardinality(places) \in Nat /\ Cardinality(places) # 0
  BY <1>4, <1>5, FS_Subset, FS_CardinalityType, FS_EmptySet
<1>7. PICK bad : bad = {i \in places : calls[i].failed}
  OBVIOUS
<1>8. Cardinality(bad) \in Nat
  BY <1>6, <1>7, FS_Subset, FS_CardinalityType
<1>9. \A c \in Nat, d \in Nat \ {0} : (100 * c) \div d \in Nat
  OBVIOUS
<1> QED
  BY <1>1, <1>6, <1>7, <1>8, <1>9 DEF FailureRate

LEMMA ToolsKeep ==
  ASSUME AlertsInv, CheckTools
  PROVE  AlertsInv'
<1> DEFINE endpoints == Wanting("tool_failure_rate")
           called == {t \in Tool : RecentCalls(t) # {}}
           rate == [t \in called |-> FailureRate(RecentCalls(t))]
           selected == [t \in called |-> {e \in endpoints : rate[t] > RateThreshold(e)}]
           over == {t \in called : selected[t] # {}}
           report == {t \in over : \A e \in selected[t] : toolAlert[t] < RateThreshold(e)}
           new == UNION {{Alarm(e, "tool_failure_rate", t, rate[t]) : e \in selected[t]} : t \in report}
<1>1. endpoints = Wanting("tool_failure_rate")
  OBVIOUS
<1>2. called = {t \in Tool : RecentCalls(t) # {}}
  OBVIOUS
<1>3. rate = [t \in called |-> FailureRate(RecentCalls(t))]
  OBVIOUS
<1>4. selected = [t \in called |-> {e \in endpoints : rate[t] > RateThreshold(e)}]
  OBVIOUS
<1>5. over = {t \in called : selected[t] # {}}
  OBVIOUS
<1>6. report = {t \in over : \A e \in selected[t] : toolAlert[t] < RateThreshold(e)}
  OBVIOUS
<1>7. new = UNION {{Alarm(e, "tool_failure_rate", t, rate[t]) : e \in selected[t]} : t \in report}
  OBVIOUS
<1>8. /\ "tools" \in due /\ due' = due \ {"tools"}
      /\ UNCHANGED <<hooks, tick, spent, calls, lastStatus, cooling, turns>>
  BY DEF CheckTools
<1>9. IF endpoints = {}
      THEN UNCHANGED <<toolAlert, alarms, calm>>
      ELSE /\ toolAlert' = [t \in Tool |-> IF t \in report THEN rate[t]
                                           ELSE IF t \in called \ over THEN 0 ELSE toolAlert[t]]
           /\ alarms' = alarms \cup new
           /\ calm' = calm \cup {<<"tool_failure_rate", t, tick>> : t \in called \ over}
  BY DEF CheckTools
<1> HIDE DEF endpoints, called, rate, selected, over, report, new
<1>10. CASE endpoints = {}
  <2>1. SpikesInv' /\ \A x \in cooling' : x.at \in Nat /\ x.at <= tick
    BY <1>8, <1>9, <1>10 DEF AlertsInv, AlertsTyped, SpikesInv
  <2>2. alarms' = alarms \cup {}
    BY <1>9, <1>10
  <2> QED
    BY <1>8, <1>9, <1>10, <2>1, <2>2, OthersKeep
<1>11. ASSUME endpoints # {} PROVE AlertsInv'
  <2>1. toolAlert \in [Tool -> Nat] /\ tick \in Nat
    BY DEF AlertsInv, AlertsTyped
  <2>2. endpoints \subseteq Endpoint /\ \A e \in endpoints : "tool_failure_rate" \in Wants[e]
    BY <1>1, WantingIs, EndpointsListed
  <2>3. called \subseteq Tool /\ over \subseteq called /\ report \subseteq over
    BY <1>2, <1>5, <1>6
  <2>4. \A t \in called : rate[t] \in Nat
    BY <1>2, <1>3, RateIs
  <2>5. \A t \in called : selected[t] = {e \in endpoints : rate[t] > RateThreshold(e)}
    BY <1>4
  <2>6. \A t \in report : selected[t] # {} /\ \A e \in selected[t] : toolAlert[t] < RateThreshold(e)
    BY <1>5, <1>6
  <2>7. \A t \in report : rate[t] \in Nat /\ toolAlert[t] < rate[t]
    <3>1. TAKE t \in report
    <3>2. PICK e \in selected[t] : toolAlert[t] < RateThreshold(e)
      BY <2>6
    <3>3. e \in Endpoint /\ rate[t] > RateThreshold(e) /\ rate[t] \in Nat /\ toolAlert[t] \in Nat
      BY <2>1, <2>2, <2>3, <2>4, <2>5, <3>2
    <3> QED
      BY <3>2, <3>3, Thresholds
  <2>8. /\ \A t \in report : toolAlert'[t] = rate[t]
        /\ \A t \in called \ over : toolAlert'[t] = 0
        /\ \A t \in Tool : t \notin report /\ t \notin called \ over => toolAlert'[t] = toolAlert[t]
    BY <1>9, <1>11, <2>3
  <2>9. toolAlert' \in [Tool -> Nat]
    BY <1>9, <1>11, <2>1, <2>7
  <2>10. alarms' = alarms \cup new
    BY <1>9, <1>11
  <2>11. \A a \in new : \E t \in report : \E e \in selected[t] : a = Alarm(e, "tool_failure_rate", t, rate[t])
    BY <1>7
  <2>12. \A t \in report : \A e \in selected[t] : Alarm(e, "tool_failure_rate", t, rate[t]) \in new
    BY <1>7
  <2>13. \A a \in new : /\ a.key \in report /\ a.kind = "tool_failure_rate" /\ a.at = tick
                        /\ a.to \in selected[a.key] /\ a.level = rate[a.key]
    BY <2>11 DEF Alarm
  <2>14. \A a \in new : /\ a.key \in Tool /\ a.to \in Endpoint /\ "tool_failure_rate" \in Wants[a.to]
                        /\ a.level > RateThreshold(a.to)
    BY <2>2, <2>3, <2>5, <2>13
  <2>15. \A c \in calm' : c \in calm \/ (c[1] = "tool_failure_rate" /\ c[2] \in called \ over /\ c[3] = tick)
    BY <1>9, <1>11
  <2>16. \A t \in called \ over : <<"tool_failure_rate", t, tick>> \in calm'
    BY <1>9, <1>11
  <2>17. calm \subseteq calm'
    BY <1>9, <1>11
  <2>18. /\ \A a \in alarms : a.kind = "tool_failure_rate" => a.at # tick
         /\ \A c \in calm : c[1] = "tool_failure_rate" => c[3] # tick
    BY <1>8 DEF AlertsInv, QuietInv, Quiet
  <2>19. \A a \in alarms : a.kind = "tool_failure_rate" => a.key \in Tool /\ a.at \in Nat /\ a.at < tick /\ a.to \in Endpoint
    <3>1. \A a \in alarms : a.kind = "tool_failure_rate" => a.key \in Tool
      BY DEF AlertsInv, AlertsTyped
    <3> QED
      BY <2>18, <3>1, ToldByThen
  <2>20. \A key, since : CalmAfter("tool_failure_rate", key, since) => CalmAfter("tool_failure_rate", key, since)'
    BY <2>17 DEF CalmAfter
  <2>21. AlertsTyped'
    <3>1. \A a \in new : a.at \in Nat /\ a.at <= tick /\ a.kind # "budget_over"
      BY <2>1, <2>13
    <3>2. \A c \in calm' : c[3] \in Nat /\ c[3] <= tick
      BY <2>15, ToldByThen
    <3> QED
      BY <1>8, <2>9, <2>10, <2>14, <3>1, <3>2 DEF AlertsInv, AlertsTyped
  <2>22. QuietInv'
    <3>1. \A a \in new : a.kind # "budget_over"
      BY <2>13
    <3>2. \A c \in calm' : c[1] = "budget_over" => c \in calm
      BY <2>15
    <3> QED
      BY <1>8, <2>10, <3>1, <3>2 DEF AlertsInv, QuietInv, Quiet
  <2>23. BudgetsInv'
    <3>1. \A a \in alarms' : a.kind = "budget_over" => a \in alarms
      BY <2>10, <2>13
    <3>2. \A c \in calm' : c[1] = "budget_over" => c \in calm
      BY <2>15
    <3> QED
      BY <1>8, <2>17, <3>1, <3>2 DEF AlertsInv, BudgetsInv, CalmAfter, Calmed, CalmSince
  <2>24. ToolsInv'
    <3> SUFFICES ASSUME NEW a \in alarms', a.kind = "tool_failure_rate"
                 PROVE  toolAlert'[a.key] > RateThreshold(a.to) \/ CalmAfter("tool_failure_rate", a.key, a.at)'
      BY DEF ToolsInv
    <3>1. CASE a \in new
      BY <2>8, <2>13, <2>14, <3>1
    <3>2. ASSUME a \in alarms, toolAlert[a.key] > RateThreshold(a.to)
          PROVE  toolAlert'[a.key] > RateThreshold(a.to) \/ CalmAfter("tool_failure_rate", a.key, a.at)'
      <4>1. a.key \in Tool /\ a.at \in Nat /\ a.at < tick /\ a.to \in Endpoint
        BY <2>19, <3>2
      <4>2. CASE a.key \in report
        <5>1. toolAlert'[a.key] = rate[a.key] /\ toolAlert[a.key] < rate[a.key] /\ rate[a.key] \in Nat
          BY <2>7, <2>8, <4>2
        <5>2. toolAlert[a.key] \in Nat /\ RateThreshold(a.to) \in Nat
          BY <2>1, <4>1, Thresholds
        <5> QED
          BY <3>2, <5>1, <5>2
      <4>3. CASE a.key \in called \ over
        <5>1. \E c \in calm' : c[1] = "tool_failure_rate" /\ c[2] = a.key /\ c[3] > a.at
          BY <2>1, <2>16, <4>1, <4>3
        <5> QED
          BY <5>1 DEF CalmAfter
      <4>4. CASE a.key \notin report /\ a.key \notin called \ over
        BY <2>8, <3>2, <4>1, <4>4
      <4> QED
        BY <4>2, <4>3, <4>4
    <3>3. CASE a \in alarms /\ ~(toolAlert[a.key] > RateThreshold(a.to))
      BY <2>20, <3>3 DEF AlertsInv, ToolsInv
    <3> QED
      BY <2>10, <3>1, <3>2, <3>3
  <2>25. SpikesInv'
    <3>1. \A a \in alarms' : a.kind = "cost_spike" => a \in alarms
      BY <2>10, <2>13
    <3> QED
      BY <1>8, <3>1 DEF AlertsInv, SpikesInv
  <2>26. NoFalseAlarm'
    BY <2>10, <2>13, <2>14, ToldByThen DEF NoFalseAlarm
  <2>27. ToldOnce'
    <3>1. ASSUME NEW a \in alarms, NEW b \in new, a.to = b.to, a.kind = b.kind, a.key = b.key
          PROVE  \E c \in calm' : c[1] = a.kind /\ c[2] = a.key /\ a.at < c[3] /\ c[3] < tick
      <4>1. a.kind = "tool_failure_rate" /\ a.key \in report /\ a.to \in selected[a.key] /\ a.to \in Endpoint
        BY <2>13, <2>14, <3>1
      <4>2. toolAlert[a.key] < RateThreshold(a.to) /\ toolAlert[a.key] \in Nat /\ RateThreshold(a.to) \in Nat
        BY <2>1, <2>3, <2>6, <4>1, Thresholds
      <4>3. ~(toolAlert[a.key] > RateThreshold(a.to))
        BY <4>2
      <4>4. PICK c \in calm : c[1] = "tool_failure_rate" /\ c[2] = a.key /\ c[3] > a.at
        BY <4>1, <4>3 DEF AlertsInv, ToolsInv, CalmAfter
      <4>5. c[3] < tick /\ a.at < c[3]
        BY <2>18, <4>4, ToldByThen
      <4> QED
        BY <2>17, <4>1, <4>4, <4>5
    <3> QED
      BY <2>10, <2>13, <2>17, <3>1, PairsKeep
  <2>28. CrossingTold'
    <3>1. \A b, since : CalmSince("budget_over", b, since)' => CalmSince("budget_over", b, since)
      BY <2>15 DEF CalmSince
    <3>2. ASSUME NEW e \in Steady, NEW b \in Budget, "budget_over" \in Wants[e], lastStatus'[b] = "over",
                 Calmed("budget_over", b)'
          PROVE  \E a \in alarms' : a.to = e /\ a.kind = "budget_over" /\ a.key = b
                                      /\ ~CalmSince("budget_over", b, a.at)'
      <4>1. Calmed("budget_over", b)
        BY <3>1, <3>2 DEF Calmed
      <4> QED
        BY <1>8, <2>10, <3>1, <3>2, <4>1, ToldByThen DEF CrossingTold
    <3>3. ASSUME NEW e \in Steady, NEW t \in Tool, "tool_failure_rate" \in Wants[e],
                 \A o \in Endpoint : RateThreshold(e) <= RateThreshold(o), toolAlert'[t] > 0
          PROVE  \E a \in alarms' : a.to = e /\ a.kind = "tool_failure_rate" /\ a.key = t
                                      /\ ~CalmSince("tool_failure_rate", t, a.at)'
      <4>1. t \notin called \ over
        BY <2>8, <3>3
      <4>2. \A since : CalmSince("tool_failure_rate", t, since)' => CalmSince("tool_failure_rate", t, since)
        BY <2>15, <4>1 DEF CalmSince
      <4>3. CASE t \in report
        <5>1. PICK o \in selected[t] : TRUE
          BY <2>6, <4>3
        <5>2. o \in Endpoint /\ rate[t] > RateThreshold(o) /\ rate[t] \in Nat
          BY <2>2, <2>3, <2>5, <2>7, <4>3, <5>1
        <5>3. e \in endpoints /\ e \in Endpoint
          BY <1>1, <3>3, EndpointsListed DEF Wanting
        <5>4. e \in selected[t]
          BY <2>3, <2>5, <3>3, <4>3, <5>2, <5>3, Thresholds
        <5>5. PICK a \in new : a = Alarm(e, "tool_failure_rate", t, rate[t])
          BY <2>12, <4>3, <5>4
        <5>6. a.to = e /\ a.kind = "tool_failure_rate" /\ a.key = t /\ a.at = tick
          BY <5>5 DEF Alarm
        <5>7. ~CalmSince("tool_failure_rate", t, tick)
          <6>1. \A c \in calm : c[1] = "tool_failure_rate" => c[3] # tick /\ c[3] \in Nat /\ c[3] <= tick
            BY <2>18, ToldByThen
          <6> QED
            BY <2>1, <6>1 DEF CalmSince
        <5> QED
          BY <2>10, <4>2, <5>6, <5>7
      <4>4. CASE t \notin report
        BY <2>8, <2>10, <3>3, <4>1, <4>2, <4>4, ToldByThen DEF CrossingTold
      <4> QED
        BY <4>3, <4>4
    <3> QED
      BY <3>2, <3>3 DEF CrossingTold
  <2> QED
    BY <2>21, <2>22, <2>23, <2>24, <2>25, <2>26, <2>27, <2>28 DEF AlertsInv
<1> QED
  BY <1>10, <1>11

\* A cooldown that is over, and what SpikesInv says of alarms and cooldowns.
SpikesHold(cool, told) ==
  /\ \A a \in told : a.kind = "cost_spike" =>
       \E x \in cool : x.key = <<"cost_spike", a.key>> /\ (a.at = x.at \/ x.at - a.at >= SpikeCooldown)
  /\ \A x, y \in cool : x.key = y.key => x.at = y.at

\* The accumulator of checkAnomalies after some of the endpoints.
Found(acc) ==
  /\ acc = [cool |-> acc.cool, out |-> acc.out]
  /\ \A x \in acc.cool : x.at \in Nat /\ x.at <= tick
  /\ SpikesHold(acc.cool, alarms \cup acc.out)
  /\ \A a \in acc.out :
       /\ a.kind \in {"cost_spike", "usage_regression"} /\ a.at = tick /\ a.to \in Endpoint
       /\ a.kind \in Wants[a.to]
       /\ a.kind = "usage_regression" => a.level >= RatioThreshold(a.to)
  /\ \A a \in alarms, b \in acc.out :
       (a.key = b.key /\ a.kind = "cost_spike" /\ b.kind = "cost_spike" /\ a.at < tick) => tick - a.at >= SpikeCooldown

LEMMA SpikeFound ==
  ASSUME AlertsInv, NEW acc, Found(acc), NEW e \in Endpoint
  PROVE  Found(CheckSpike(acc, e))
<1> DEFINE key == <<"cost_spike", Today>>
           after == CheckSpike(acc, e)
           alarm == Alarm(e, "cost_spike", Today, spent[Today])
<1>1. CASE after = acc
  BY <1>1
<1>2. CASE after # acc
  <2>1. /\ "cost_spike" \in Wants[e] /\ ~Cooling(acc.cool, key, SpikeCooldown)
        /\ after = [cool |-> Cooled(acc.cool, key), out |-> acc.out \cup {alarm}]
    BY <1>2 DEF CheckSpike
  <2>2. alarm.kind = "cost_spike" /\ alarm.at = tick /\ alarm.to = e /\ alarm.key = Today
    BY DEF Alarm
  <2>3. PICK day : day = Today
    OBVIOUS
  <2>4. PICK cool : cool = {x \in acc.cool : x.key # key} \cup {[key |-> key, at |-> tick]}
    OBVIOUS
  <2>5. PICK out : out = acc.out \cup {alarm}
    OBVIOUS
  <2>6. after.cool = cool /\ after.out = out /\ after = [cool |-> cool, out |-> out]
    BY <2>1, <2>4, <2>5 DEF Cooled
  <2>7. PICK one : one = alarm
    OBVIOUS
  <2>8. PICK last : last = [key |-> key, at |-> tick]
    OBVIOUS
  <2>9. /\ one.kind = "cost_spike" /\ one.at = tick /\ one.to = e /\ one.key = day
        /\ last.key = key /\ last.at = tick /\ key = <<"cost_spike", day>>
        /\ out = acc.out \cup {one} /\ cool = {x \in acc.cool : x.key # key} \cup {last}
    BY <2>2, <2>3, <2>4, <2>5, <2>7, <2>8
  <2>10. tick \in Nat /\ SpikeCooldown \in Nat /\ \A x \in acc.cool : x.at \in Nat /\ x.at <= tick
    BY AlertsAssumption, ToldByThen DEF Found
  <2>11. \A x \in acc.cool : x.key = key => x.at = tick \/ tick - x.at >= SpikeCooldown
    BY <2>1, <2>10 DEF Cooling
  <2> HIDE DEF key, after, alarm
  <2>12. \A a \in acc.out : a.at = tick /\ a.to \in Endpoint
    BY DEF Found
  <2>13. \A a \in alarms \cup acc.out : a.at \in Nat
    BY <2>10, <2>12, ToldByThen
  <2>14. \A a \in alarms \cup acc.out : (a.kind = "cost_spike" /\ a.key = day) =>
           (a.at = tick \/ tick - a.at >= SpikeCooldown)
    <3> SUFFICES ASSUME NEW a \in alarms \cup acc.out, a.kind = "cost_spike", a.key = day
                 PROVE  a.at = tick \/ tick - a.at >= SpikeCooldown
      OBVIOUS
    <3>1. PICK x \in acc.cool : x.key = key /\ (a.at = x.at \/ x.at - a.at >= SpikeCooldown)
      BY <2>9 DEF Found, SpikesHold
    <3>2. x.at = tick \/ tick - x.at >= SpikeCooldown
      BY <2>11, <3>1
    <3> QED
      BY <2>10, <2>13, <3>1, <3>2
  <2>15. SpikesHold(cool, alarms \cup out)
    <3>1. ASSUME NEW a \in alarms \cup out, a.kind = "cost_spike"
          PROVE  \E x \in cool : x.key = <<"cost_spike", a.key>> /\ (a.at = x.at \/ x.at - a.at >= SpikeCooldown)
      <4>1. CASE a.key = day
        <5>1. a.at = tick \/ tick - a.at >= SpikeCooldown
          BY <2>9, <2>14, <3>1, <4>1
        <5> QED
          BY <2>9, <4>1, <5>1
      <4>2. CASE a.key # day
        <5>1. a \in alarms \cup acc.out
          BY <2>9, <4>2
        <5>2. PICK x \in acc.cool : x.key = <<"cost_spike", a.key>> /\ (a.at = x.at \/ x.at - a.at >= SpikeCooldown)
          BY <3>1, <5>1 DEF Found, SpikesHold
        <5> QED
          BY <2>9, <4>2, <5>2
      <4> QED
        BY <4>1, <4>2
    <3>2. ASSUME NEW x \in cool, NEW y \in cool, x.key = y.key
          PROVE  x.at = y.at
      <4>1. \A u, v \in acc.cool : u.key = v.key => u.at = v.at
        BY DEF Found, SpikesHold
      <4> QED
        BY <2>9, <3>2, <4>1
    <3> QED
      BY <3>1, <3>2 DEF SpikesHold
  <2>16. \A x \in cool : x.at \in Nat /\ x.at <= tick
    BY <2>9, <2>10
  <2>17. \A a \in out :
           /\ a.kind \in {"cost_spike", "usage_regression"} /\ a.at = tick /\ a.to \in Endpoint
           /\ a.kind \in Wants[a.to]
           /\ a.kind = "usage_regression" => a.level >= RatioThreshold(a.to)
    BY <2>1, <2>9 DEF Found
  <2>18. \A a \in alarms, b \in out :
           (a.key = b.key /\ a.kind = "cost_spike" /\ b.kind = "cost_spike" /\ a.at < tick) => tick - a.at >= SpikeCooldown
    <3> SUFFICES ASSUME NEW a \in alarms, NEW b \in out,
                        a.key = b.key, a.kind = "cost_spike", b.kind = "cost_spike", a.at < tick
                 PROVE  tick - a.at >= SpikeCooldown
      OBVIOUS
    <3>1. CASE b \in acc.out
      BY <3>1 DEF Found
    <3>2. CASE b = one
      <4>1. a.at \in Nat /\ a.at # tick
        BY <2>10, <2>13
      <4> QED
        BY <2>9, <2>14, <3>2, <4>1
    <3> QED
      BY <2>9, <3>1, <3>2
  <2> QED
    BY <2>6, <2>15, <2>16, <2>17, <2>18 DEF Found, after
<1> QED
  BY <1>1, <1>2

LEMMA RegressionFound ==
  ASSUME AlertsInv, NEW acc, Found(acc), NEW e \in Endpoint
  PROVE  Found(CheckRegression(acc, e))
<1> DEFINE key(t) == <<"usage_regression", t, RegressionOf(t, e)>>
           new == {t \in Tool : /\ "usage_regression" \in Wants[e]
                                /\ RegressionOf(t, e) >= RatioThreshold(e)
                                /\ ~Cooling(acc.cool, key(t), RegressionCooldown)}
           keys == {key(t) : t \in new}
           fresh == {[key |-> key(t), at |-> tick] : t \in new}
           told == {Alarm(e, "usage_regression", t, RegressionOf(t, e)) : t \in new}
<1>1. CheckRegression(acc, e) = [cool |-> {x \in acc.cool : x.key \notin keys} \cup fresh, out |-> acc.out \cup told]
  BY DEF CheckRegression
<1>2. \A x \in fresh : x.at = tick /\ x.key \in keys
  <2> HIDE DEF key, new
  <2> QED
    OBVIOUS
<1>3. \A a \in told : /\ a.kind = "usage_regression" /\ a.at = tick /\ a.to = e
                      /\ "usage_regression" \in Wants[e] /\ a.level >= RatioThreshold(e)
  <2>1. \A t \in new : "usage_regression" \in Wants[e] /\ RegressionOf(t, e) >= RatioThreshold(e)
    OBVIOUS
  <2> HIDE DEF key, new
  <2> QED
    BY <2>1 DEF Alarm
<1>4. \A k : <<"cost_spike", k>> \notin keys
  <2>1. ASSUME NEW k, NEW t, <<"cost_spike", k>> = key(t) PROVE FALSE
    <3>1. <<"cost_spike", k>>[1] = key(t)[1]
      BY <2>1
    <3> QED
      BY <3>1
  <2> QED
    BY <2>1
<1>5. PICK cool : cool = {x \in acc.cool : x.key \notin keys} \cup fresh
  OBVIOUS
<1>6. PICK out : out = acc.out \cup told
  OBVIOUS
<1> HIDE DEF key, new, keys, fresh, told
<1>7. \A x \in acc.cool : x.at \in Nat /\ x.at <= tick
  BY DEF Found
<1>8. SpikesHold(cool, alarms \cup out)
  <2>1. ASSUME NEW a \in alarms \cup out, a.kind = "cost_spike"
        PROVE  \E x \in cool : x.key = <<"cost_spike", a.key>> /\ (a.at = x.at \/ x.at - a.at >= SpikeCooldown)
    <3>1. a \in alarms \cup acc.out
      BY <1>3, <1>6, <2>1
    <3>2. PICK x \in acc.cool : x.key = <<"cost_spike", a.key>> /\ (a.at = x.at \/ x.at - a.at >= SpikeCooldown)
      BY <2>1, <3>1 DEF Found, SpikesHold
    <3> QED
      BY <1>4, <1>5, <3>2
  <2>2. ASSUME NEW x \in cool, NEW y \in cool, x.key = y.key
        PROVE  x.at = y.at
    <3>1. \A u, v \in acc.cool : u.key = v.key => u.at = v.at
      BY DEF Found, SpikesHold
    <3> QED
      BY <1>2, <1>5, <2>2, <3>1
  <2> QED
    BY <2>1, <2>2 DEF SpikesHold
<1>9. \A x \in cool : x.at \in Nat /\ x.at <= tick
  BY <1>2, <1>5, <1>7, ToldByThen
<1>10. \A a \in out :
         /\ a.kind \in {"cost_spike", "usage_regression"} /\ a.at = tick /\ a.to \in Endpoint
         /\ a.kind \in Wants[a.to]
         /\ a.kind = "usage_regression" => a.level >= RatioThreshold(a.to)
  BY <1>3, <1>6 DEF Found
<1>11. \A a \in alarms, b \in out :
         (a.key = b.key /\ a.kind = "cost_spike" /\ b.kind = "cost_spike" /\ a.at < tick) => tick - a.at >= SpikeCooldown
  BY <1>3, <1>6 DEF Found
<1> QED
  BY <1>1, <1>5, <1>6, <1>8, <1>9, <1>10, <1>11 DEF Found

\* What checkAnomalies finds is defined, and never a false alarm.
LEMMA AfterExists ==
  ASSUME NEW n \in Nat
  PROVE  \E f : f = [i \in 0 .. n |->
                        IF i = 0 THEN [cool |-> cooling, out |-> {}]
                        ELSE CheckRegression(CheckSpike(f[i - 1], hooks[i]), hooks[i])]
<1> DEFINE Start == [cool |-> cooling, out |-> {}]
           One(x, i) == CheckRegression(CheckSpike(x, hooks[i]), hooks[i])
           Def(g, i) == IF i = 0 THEN Start ELSE One(g[i - 1], i)
           S == {k \in 0 .. n : \E g : g = [i \in 0 .. k |-> Def(g, i)]}
<1> HIDE DEF Start, One
<1>1. 0 \in S
  <2> DEFINE g == [i \in 0 .. 0 |-> Start]
  <2>1. g = [i \in 0 .. 0 |-> Def(g, i)]
    OBVIOUS
  <2> HIDE DEF g
  <2>2. \E h : h = [i \in 0 .. 0 |-> Def(h, i)]
    BY <2>1
  <2> QED
    BY <2>2
<1>2. ASSUME NEW k \in 1 .. n, k - 1 \in S PROVE k \in S
  <2>1. PICK g : g = [i \in 0 .. k - 1 |-> Def(g, i)]
    BY <1>2
  <2> DEFINE h == [i \in 0 .. k |-> IF i = k THEN Def(g, k) ELSE g[i]]
  <2>2. ASSUME NEW i \in 0 .. k PROVE h[i] = Def(h, i)
    <3>1. CASE i = 0
      <4>1. g[0] = Start /\ h[0] = g[0]
        BY <2>1
      <4> QED
        BY <3>1, <4>1
    <3>2. CASE i # 0 /\ i # k
      <4>1. i \in 0 .. k - 1 /\ i - 1 \in 0 .. k - 1 /\ i - 1 # k /\ i - 1 \in 0 .. k
        BY <3>2
      <4>2. h[i] = g[i] /\ h[i - 1] = g[i - 1]
        BY <3>2, <4>1
      <4>3. g[i] = Def(g, i)
        BY <2>1, <4>1
      <4> HIDE DEF h
      <4> QED
        BY <4>2, <4>3
    <3>3. CASE i = k
      <4>1. k - 1 # k /\ k - 1 \in 0 .. k /\ k # 0
        OBVIOUS
      <4>2. h[k] = Def(g, k) /\ h[k - 1] = g[k - 1]
        BY <3>3, <4>1
      <4> HIDE DEF h
      <4> QED
        BY <3>3, <4>1, <4>2
    <3> QED
      BY <3>1, <3>2, <3>3
  <2>3. h = [i \in 0 .. k |-> Def(h, i)]
    <3>1. h = [i \in 0 .. k |-> h[i]]
      OBVIOUS
    <3> HIDE DEF h, Def
    <3> QED
      BY <2>2, <3>1
  <2> HIDE DEF h, Def
  <2>4. k \in 0 .. n
    OBVIOUS
  <2> QED
    BY <2>3, <2>4
<1> HIDE DEF S
<1>3. n \in S
  <2>1. \A k \in 0 .. n : k \in S
    BY <1>1, <1>2, UpTo
  <2> QED
    BY <2>1
<1> QED
  BY <1>3 DEF S, Start, One

LEMMA AllFound ==
  ASSUME AlertsInv, NEW n \in 0 .. Len(hooks), NEW f,
         f = [i \in 0 .. n |->
                IF i = 0 THEN [cool |-> cooling, out |-> {}]
                ELSE CheckRegression(CheckSpike(f[i - 1], hooks[i]), hooks[i])]
  PROVE  Found(f[n])
<1> DEFINE S == {k \in 0 .. n : Found(f[k])}
<1>1. Len(hooks) \in Nat
  BY AlertsAssumption DEF AlertsInv, AlertsTyped
<1>2. n \in Nat /\ n <= Len(hooks)
  BY <1>1
<1>3. 0 \in S
  <2>1. f[0] = [cool |-> cooling, out |-> {}]
    BY <1>2
  <2>2. SpikesHold(cooling, alarms)
    BY DEF AlertsInv, SpikesInv, SpikesHold
  <2>3. Found([cool |-> cooling, out |-> {}])
    <3>1. \A x \in cooling : x.at \in Nat /\ x.at <= tick
      BY DEF AlertsInv, AlertsTyped
    <3>2. alarms \cup {} = alarms
      OBVIOUS
    <3> QED
      BY <2>2, <3>1, <3>2 DEF Found
  <2> QED
    BY <1>2, <2>1, <2>3
<1>4. ASSUME NEW k \in 1 .. n, k - 1 \in S PROVE k \in S
  <2>1. Found(f[k - 1]) /\ hooks[k] \in Endpoint
    BY <1>2, <1>4, EndpointsListed
  <2>2. f[k] = CheckRegression(CheckSpike(f[k - 1], hooks[k]), hooks[k])
    <3>1. k \in 0 .. n /\ k # 0
      BY <1>2
    <3> QED
      BY <3>1
  <2>3. Found(f[k])
    BY <2>1, <2>2, SpikeFound, RegressionFound
  <2> QED
    BY <1>2, <2>3
<1> HIDE DEF S
<1>5. \A k \in 0 .. n : k \in S
  BY <1>2, <1>3, <1>4, UpTo
<1>6. n \in S
  BY <1>2, <1>5
<1> QED
  BY <1>6 DEF S

LEMMA AnomaliesKeep ==
  ASSUME AlertsInv, CheckAnomalies
  PROVE  AlertsInv'
<1> DEFINE After(n) == CHOOSE f : f = [i \in 0 .. n |->
                         IF i = 0 THEN [cool |-> cooling, out |-> {}]
                         ELSE CheckRegression(CheckSpike(f[i - 1], hooks[i]), hooks[i])]
<1>1. PICK n \in 0 .. Len(hooks) : cooling' = After(n)[n].cool /\ alarms' = alarms \cup After(n)[n].out
  BY DEF CheckAnomalies
<1>2. /\ due' = due \ {"anomalies"}
      /\ UNCHANGED <<hooks, tick, spent, calls, lastStatus, toolAlert, calm, turns>>
  BY DEF CheckAnomalies
<1>3. n \in Nat
  <2>1. Len(hooks) \in Nat
    BY AlertsAssumption DEF AlertsInv, AlertsTyped
  <2> QED
    BY <2>1
<1>4. PICK f : f = After(n)
  OBVIOUS
<1>5. f = [i \in 0 .. n |->
             IF i = 0 THEN [cool |-> cooling, out |-> {}]
             ELSE CheckRegression(CheckSpike(f[i - 1], hooks[i]), hooks[i])]
  BY <1>3, <1>4, AfterExists
<1>6. cooling' = f[n].cool /\ alarms' = alarms \cup f[n].out
  BY <1>1, <1>4
<1> HIDE DEF After
<1>7. PICK acc : acc = f[n]
  OBVIOUS
<1>8. Found(acc)
  BY <1>5, <1>7, AllFound
<1>9. SpikesInv'
  BY <1>6, <1>7, <1>8 DEF Found, SpikesHold, SpikesInv
<1>10. \A x \in cooling' : x.at \in Nat /\ x.at <= tick
  BY <1>6, <1>7, <1>8 DEF Found
<1>11. alarms' = alarms \cup acc.out
  BY <1>6, <1>7
<1>12. \A a \in acc.out : /\ a.kind \in {"cost_spike", "usage_regression"} /\ a.at = tick /\ a.to \in Endpoint
                          /\ a.kind \in Wants[a.to]
                          /\ a.kind = "usage_regression" => a.level >= RatioThreshold(a.to)
  BY <1>8 DEF Found
<1>13. \A a \in alarms, b \in acc.out :
         (a.key = b.key /\ a.kind = "cost_spike" /\ b.kind = "cost_spike" /\ a.at < tick) => tick - a.at >= SpikeCooldown
  BY <1>8 DEF Found
<1>14. /\ \A a \in acc.out : a.kind \notin {"budget_over", "tool_failure_rate"} /\ a.at = tick /\ a.to \in Endpoint
       /\ \A a \in acc.out : /\ a.kind \in Wants[a.to]
                             /\ a.kind = "usage_regression" => a.level >= RatioThreshold(a.to)
                             /\ a.kind = "session_high_cost" => a.level > OrDefault(OverCost[a.to], DefaultCost)
  BY <1>12
<1> QED
  BY <1>2, <1>9, <1>10, <1>11, <1>13, <1>14, OthersKeep

LEMMA AlertsStart == AlertsInit => AlertsInv
<1> SUFFICES ASSUME AlertsInit PROVE AlertsInv
  OBVIOUS
<1>1. AlertsTyped
  BY DEF AlertsInit, AlertsTyped, Stage
<1>2. QuietInv /\ BudgetsInv /\ ToolsInv /\ SpikesInv /\ NoFalseAlarm /\ ToldOnce
  BY DEF AlertsInit, QuietInv, Quiet, BudgetsInv, ToolsInv, SpikesInv, NoFalseAlarm, ToldOnce, Calmed, CalmSince
<1>3. CrossingTold
  BY DEF AlertsInit, CrossingTold, Calmed, CalmSince
<1> QED
  BY <1>1, <1>2, <1>3 DEF AlertsInv

LEMMA AlertsStep == AlertsInv /\ [MoneyNext \/ ToolsNext]_alertVars => AlertsInv'
<1> SUFFICES ASSUME AlertsInv, [MoneyNext \/ ToolsNext]_alertVars PROVE AlertsInv'
  OBVIOUS
<1>1. CASE UNCHANGED alertVars
  <2>1. AlertsTyped' /\ QuietInv' /\ SpikesInv'
    BY <1>1 DEF alertVars, AlertsInv, AlertsTyped, QuietInv, Quiet, SpikesInv
  <2>2. BudgetsInv' /\ ToolsInv'
    BY <1>1 DEF alertVars, AlertsInv, BudgetsInv, ToolsInv, CalmAfter, Calmed, CalmSince
  <2>3. NoFalseAlarm' /\ ToldOnce'
    BY <1>1 DEF alertVars, AlertsInv, NoFalseAlarm, ToldOnce
  <2>4. CrossingTold'
    BY <1>1 DEF alertVars, AlertsInv, CrossingTold, Calmed, CalmSince
  <2> QED
    BY <2>1, <2>2, <2>3, <2>4 DEF AlertsInv
<1>2. CASE Spend \/ Forget \/ CallTool \/ Tick \/ Reload
  BY <1>2, WorldKeeps
<1>3. CASE CheckBudgets
  BY <1>3, BudgetsKeep
<1>4. CASE CheckTools
  BY <1>4, ToolsKeep
<1>5. CASE CheckAnomalies
  BY <1>5, AnomaliesKeep
<1>6. CASE SessionEnds
  BY <1>6, SessionKeeps
<1> QED
  BY <1>1, <1>2, <1>3, <1>4, <1>5, <1>6 DEF MoneyNext, ToolsNext

\* The sweeps of the daemon tell each endpoint what concerns it, once, and
\* miss no crossing: for any endpoints and configurations, budgets, tools,
\* amounts and sweeps, through reloads, failing queries and deleted rows
\* (budgetSweepLoop, toolFailureSweepLoop, anomalySweepLoop).
THEOREM CrossingsMatched == AlertsSpec => []AlertsMatchCrossings
<1>1. AlertsInv => AlertsMatchCrossings
  BY DEF AlertsInv, AlertsMatchCrossings
<1> QED
  BY <1>1, AlertsStart, AlertsStep, PTL DEF AlertsSpec

-----------------------------------------------------------------------------
(* WebhookDelivery.                                                        *)

WebhookSpec == WebhookInit /\ [][WebhookNext]_hookVars

WebhookTypes ==
  /\ job \in [Delivery -> {"new", "choosing", "queued", "trying", "waiting", "direct", "last",
                           "sent", "failed", "dropped", "lost"}]
  /\ posts \in [Delivery -> Nat]
  /\ hookQueue \in Seq(Delivery)
  /\ deadLog \in Seq(Delivery)
  /\ retryLoop \in BOOLEAN /\ sweeping \in BOOLEAN
  /\ hookStop \in {"running", "waiting", "telling", "stopped", "gone"}

\* How often an endpoint was asked, by the state of its delivery.
Retried ==
  \A d \in Delivery :
    /\ job[d] \in {"new", "choosing", "queued", "direct"} => posts[d] = 0
    /\ job[d] \in {"trying", "waiting", "last"} => posts[d] < Attempts(d)
    /\ job[d] = "failed" => posts[d] \in {1, Attempts(d)}

InQueue ==
  /\ \A i, k \in DOMAIN hookQueue : hookQueue[i] = hookQueue[k] => i = k
  /\ \A d \in Delivery : job[d] = "queued" <=> \E i \in DOMAIN hookQueue : hookQueue[i] = d

Buried ==
  /\ \A i, k \in DOMAIN deadLog : deadLog[i] = deadLog[k] => i = k
  /\ \A i \in DOMAIN deadLog : job[deadLog[i]] = "failed" /\ posts[deadLog[i]] = Attempts(deadLog[i])

\* What Stop relies on at each of its stages: the loops run until it begins,
\* are over once it has waited, and its own delivery waits for its turn.
Stages ==
  /\ hookStop = "running" =>
       /\ retryLoop /\ sweeping
       /\ \A d \in Delivery : /\ job[d] \notin {"lost", "direct", "last"}
                              /\ job[d] = "dropped" => posts[d] = 0
  /\ hookStop \in {"running", "waiting"} => job[LastWord] = "new"
  /\ hookStop \in {"telling", "stopped", "gone"} =>
       ~retryLoop /\ \A d \in Delivery : job[d] \notin Counted
  /\ \A d \in Delivery : job[d] = "last" => d = LastWord /\ hookStop = "telling"
  /\ job[LastWord] # "choosing"

WebhookInv == WebhookTypes /\ Retried /\ InQueue /\ Buried /\ Stages

LEMMA AttemptsPositive == \A d \in Delivery : Attempts(d) \in Nat /\ Attempts(d) > 0
BY WebhookAssumption DEF Attempts

-----------------------------------------------------------------------------
(* A delivery that moves outside the queue.                                *)

LEMMA QueueStands ==
  ASSUME WebhookInv, NEW d \in Delivery, NEW state, Move(d, state),
         job[d] # "queued", state # "queued", hookQueue' = hookQueue
  PROVE  InQueue'
BY DEF WebhookInv, WebhookTypes, InQueue, Move

LEMMA DeadStand ==
  ASSUME WebhookInv, NEW d \in Delivery, NEW state, Move(d, state),
         job[d] # "failed", deadLog' = deadLog,
         \A x \in Delivery \ {d} : posts'[x] = posts[x]
  PROVE  Buried'
<1>1. \A i \in DOMAIN deadLog : deadLog[i] \in Delivery \ {d}
  BY DEF WebhookInv, WebhookTypes, Buried
<1> QED
  BY <1>1 DEF WebhookInv, WebhookTypes, Buried, Move

LEMMA DispatchKeeps ==
  ASSUME WebhookInv, NEW d \in Delivery, Dispatch(d)
  PROVE  WebhookInv'
<1>1. PICK state \in {"choosing", "direct"} :
        Move(d, state) /\ (state = "choosing" <=> retryLoop)
  BY DEF Dispatch
<1>2. WebhookTypes'
  BY <1>1 DEF WebhookInv, WebhookTypes, Dispatch, Move
<1>3. Retried'
  BY <1>1 DEF WebhookInv, WebhookTypes, Retried, Dispatch, Move
<1>4. InQueue'
  BY <1>1, QueueStands DEF Dispatch
<1>5. Buried'
  BY <1>1, DeadStand DEF Dispatch
<1>6. Stages'
  BY <1>1 DEF WebhookInv, WebhookTypes, Stages, Dispatch, Move, Counted
<1> QED
  BY <1>2, <1>3, <1>4, <1>5, <1>6 DEF WebhookInv

LEMMA EnqueueKeeps ==
  ASSUME WebhookInv, NEW d \in Delivery, Enqueue(d)
  PROVE  WebhookInv'
<1>0. job[d] = "choosing" /\ d # LastWord
  BY DEF WebhookInv, Stages, Enqueue
<1>1. CASE Move(d, "queued") /\ hookQueue' = Append(hookQueue, d)
  <2>1. WebhookTypes'
    BY <1>1 DEF WebhookInv, WebhookTypes, Enqueue, Move
  <2>2. Retried'
    BY <1>0, <1>1 DEF WebhookInv, WebhookTypes, Retried, Enqueue, Move
  <2>3. InQueue'
    <3>1. /\ \A i \in DOMAIN hookQueue' : i \in DOMAIN hookQueue \/ i = Len(hookQueue) + 1
          /\ \A i \in DOMAIN hookQueue : i \in DOMAIN hookQueue' /\ hookQueue'[i] = hookQueue[i]
          /\ Len(hookQueue) + 1 \in DOMAIN hookQueue' /\ hookQueue'[Len(hookQueue) + 1] = d
      BY <1>1 DEF WebhookInv, WebhookTypes
    <3>2. job'[d] = "queued" /\ \A x \in Delivery \ {d} : job'[x] = job[x]
      BY <1>1 DEF WebhookInv, WebhookTypes, Move
    <3>3. \A i \in DOMAIN hookQueue : hookQueue[i] \in Delivery \ {d}
      <4>1. ASSUME NEW i \in DOMAIN hookQueue PROVE hookQueue[i] \in Delivery
        BY DEF WebhookInv, WebhookTypes
      <4>2. \A i \in DOMAIN hookQueue : job[hookQueue[i]] = "queued"
        BY <4>1 DEF WebhookInv, InQueue
      <4> QED
        BY <1>0, <4>1, <4>2
    <3> QED
      BY <3>1, <3>2, <3>3 DEF WebhookInv, InQueue
  <2>4. Buried'
    BY <1>0, <1>1, DeadStand DEF Enqueue
  <2>5. Stages'
    BY <1>0, <1>1 DEF WebhookInv, WebhookTypes, Stages, Enqueue, Move, Counted
  <2> QED
    BY <2>1, <2>2, <2>3, <2>4, <2>5 DEF WebhookInv
<1>2. CASE Move(d, "dropped") /\ hookQueue' = hookQueue
  <2>1. WebhookTypes'
    BY <1>2 DEF WebhookInv, WebhookTypes, Enqueue, Move
  <2>2. Retried'
    BY <1>0, <1>2 DEF WebhookInv, WebhookTypes, Retried, Enqueue, Move
  <2>3. InQueue'
    BY <1>0, <1>2, QueueStands
  <2>4. Buried'
    BY <1>0, <1>2, DeadStand DEF Enqueue
  <2>5. Stages'
    BY <1>0, <1>2 DEF WebhookInv, WebhookTypes, Retried, Stages, Enqueue, Move, Counted
  <2> QED
    BY <2>1, <2>2, <2>3, <2>4, <2>5 DEF WebhookInv
<1> QED
  BY <1>1, <1>2 DEF Enqueue

LEMMA TakeKeeps ==
  ASSUME WebhookInv, TakeDelivery
  PROVE  WebhookInv'
<1> DEFINE d == Head(hookQueue)
<1>0. /\ d \in Delivery /\ d = hookQueue[1] /\ 1 \in DOMAIN hookQueue
      /\ job[d] = "queued" /\ posts[d] = 0
  BY DEF WebhookInv, WebhookTypes, InQueue, Retried, TakeDelivery
<1>1. Move(d, "trying") /\ hookQueue' = Tail(hookQueue)
  BY DEF TakeDelivery
<1>2. WebhookTypes'
  BY <1>0, <1>1 DEF WebhookInv, WebhookTypes, TakeDelivery, Move
<1>3. Retried'
  BY <1>0, <1>1, AttemptsPositive DEF WebhookInv, WebhookTypes, Retried, TakeDelivery, Move
<1>4. InQueue'
  <2>1. /\ DOMAIN hookQueue' = 1 .. Len(hookQueue) - 1
        /\ \A i \in DOMAIN hookQueue' : hookQueue'[i] = hookQueue[i + 1] /\ i + 1 \in DOMAIN hookQueue
    BY <1>0, <1>1 DEF WebhookInv, WebhookTypes
  <2>2. \A i \in DOMAIN hookQueue \ {1} : i - 1 \in DOMAIN hookQueue' /\ hookQueue'[i - 1] = hookQueue[i]
    BY <2>1 DEF WebhookInv, WebhookTypes
  <2>3. \A i, k \in DOMAIN hookQueue' : hookQueue'[i] = hookQueue'[k] => i = k
    BY <2>1 DEF WebhookInv, InQueue
  <2>4. ASSUME NEW x \in Delivery
        PROVE  job'[x] = "queued" <=> \E i \in DOMAIN hookQueue' : hookQueue'[i] = x
    <3>1. CASE x = d
      BY <1>0, <1>1, <2>1, <3>1 DEF WebhookInv, WebhookTypes, InQueue, Move
    <3>2. CASE x # d
      <4>1. job'[x] = job[x]
        BY <1>1, <3>2 DEF WebhookInv, WebhookTypes, Move
      <4>2. (\E i \in DOMAIN hookQueue : hookQueue[i] = x)
              <=> \E i \in DOMAIN hookQueue' : hookQueue'[i] = x
        BY <1>0, <2>1, <2>2, <3>2
      <4> QED
        BY <4>1, <4>2 DEF WebhookInv, InQueue
    <3> QED
      BY <3>1, <3>2
  <2> QED
    BY <2>3, <2>4 DEF InQueue
<1>5. Buried'
  BY <1>0, <1>1, DeadStand DEF TakeDelivery
<1>6. Stages'
  BY <1>0, <1>1 DEF WebhookInv, WebhookTypes, Stages, TakeDelivery, Move, Counted
<1> QED
  BY <1>2, <1>3, <1>4, <1>5, <1>6 DEF WebhookInv

-----------------------------------------------------------------------------
(* Posting.                                                                *)

LEMMA AcceptedKeeps ==
  ASSUME WebhookInv, NEW d \in Delivery, Accepted(d)
  PROVE  WebhookInv'
<1> USE DEF Accepted
<1>0. job[d] \in {"trying", "direct", "last"} /\ Move(d, "sent")
  OBVIOUS
<1>1. WebhookTypes'
  BY DEF WebhookInv, WebhookTypes, Move
<1>2. Retried'
  BY DEF WebhookInv, WebhookTypes, Retried, Move
<1>3. InQueue'
  BY <1>0, QueueStands
<1>4. Buried'
  <2>1. \A x \in Delivery \ {d} : posts'[x] = posts[x]
    BY DEF WebhookInv, WebhookTypes
  <2> QED
    BY <1>0, <2>1, DeadStand
<1>5. Stages'
  BY <1>0 DEF WebhookInv, WebhookTypes, Stages, Move, Counted
<1> QED
  BY <1>1, <1>2, <1>3, <1>4, <1>5 DEF WebhookInv

LEMMA RefusedKeeps ==
  ASSUME WebhookInv, NEW d \in Delivery, Refused(d)
  PROVE  WebhookInv'
<1>0. /\ job[d] \in {"trying", "direct", "last"}
      /\ posts' = [posts EXCEPT ![d] = @ + 1]
      /\ UNCHANGED <<hookQueue, retryLoop, sweeping, hookStop>>
      /\ posts[d] \in Nat /\ posts'[d] = posts[d] + 1
      /\ \A x \in Delivery \ {d} : posts'[x] = posts[x]
  BY DEF Refused, WebhookInv, WebhookTypes
<1>1. PICK state \in {"last", "waiting", "failed"} :
        /\ Move(d, state)
        /\ state \in {"last", "waiting"} => /\ posts[d] + 1 < Attempts(d) /\ job[d] # "direct"
                                            /\ state = "last" <=> job[d] = "last"
                                            /\ deadLog' = deadLog
        /\ state = "failed" => \/ job[d] = "direct" /\ deadLog' = deadLog
                               \/ /\ posts[d] + 1 = Attempts(d)
                                  /\ deadLog' \in {deadLog, Append(deadLog, d)}
  BY DEF Refused
<1>2. WebhookTypes'
  <2>0. deadLog' = deadLog \/ deadLog' = Append(deadLog, d)
    BY <1>1
  <2>1. deadLog' \in Seq(Delivery)
    <3>1. deadLog \in Seq(Delivery)
      BY DEF WebhookInv, WebhookTypes
    <3>2. Append(deadLog, d) \in Seq(Delivery)
      BY <3>1
    <3> QED
      BY <2>0, <3>1, <3>2
  <2>2. posts' \in [Delivery -> Nat]
    BY <1>0 DEF WebhookInv, WebhookTypes
  <2> QED
    BY <1>0, <1>1, <2>1, <2>2 DEF WebhookInv, WebhookTypes, Move
<1>3. Retried'
  BY <1>0, <1>1 DEF WebhookInv, WebhookTypes, Retried, Move
<1>4. InQueue'
  BY <1>0, <1>1, QueueStands
<1>5. Buried'
  <2>1. CASE deadLog' = deadLog
    BY <1>0, <1>1, <2>1, DeadStand
  <2>2. CASE deadLog' # deadLog
    <3>1. state = "failed" /\ posts[d] + 1 = Attempts(d) /\ deadLog' = Append(deadLog, d)
      BY <1>1, <2>2
    <3>2. \A i \in DOMAIN deadLog : deadLog[i] \in Delivery \ {d}
      BY <1>0 DEF WebhookInv, WebhookTypes, Buried
    <3>3. /\ \A i \in DOMAIN deadLog' : i \in DOMAIN deadLog \/ i = Len(deadLog) + 1
          /\ \A i \in DOMAIN deadLog : deadLog'[i] = deadLog[i]
          /\ deadLog'[Len(deadLog) + 1] = d
      BY <3>1 DEF WebhookInv, WebhookTypes
    <3>4. job'[d] = "failed" /\ \A x \in Delivery \ {d} : job'[x] = job[x]
      BY <1>1, <3>1 DEF WebhookInv, WebhookTypes, Move
    <3> QED
      BY <1>0, <3>1, <3>2, <3>3, <3>4 DEF WebhookInv, Buried
  <2> QED
    BY <2>1, <2>2
<1>6. Stages'
  <2>1. d # LastWord \/ hookStop \notin {"running", "waiting"}
    BY <1>0 DEF WebhookInv, Stages
  <2>2. job'[d] = state /\ \A x \in Delivery \ {d} : job'[x] = job[x]
    BY <1>1 DEF WebhookInv, WebhookTypes, Move
  <2>3. LastWord \in Delivery
    BY WebhookAssumption
  <2>4. job[d] = "trying" => hookStop \in {"running", "waiting"}
    BY DEF WebhookInv, WebhookTypes, Stages, Counted
  <2>5. state = "waiting" => job[d] # "direct" /\ job[d] # "last"
    BY <1>1 DEF Refused, WebhookInv, WebhookTypes, Move
  <2> QED
    BY <1>0, <1>1, <2>1, <2>2, <2>3, <2>4, <2>5 DEF WebhookInv, Stages, Counted
<1> QED
  BY <1>2, <1>3, <1>4, <1>5, <1>6 DEF WebhookInv

LEMMA WaitKeeps ==
  ASSUME WebhookInv, NEW d \in Delivery, BackoffElapses(d) \/ GivesUp(d)
  PROVE  WebhookInv'
<1>1. PICK state \in {"trying", "dropped"} :
        Move(d, state) /\ (state = "dropped" => doneClosed)
  BY DEF BackoffElapses, GivesUp
<1>2. /\ job[d] = "waiting"
      /\ UNCHANGED <<posts, hookQueue, retryLoop, sweeping, hookStop, deadLog>>
  BY DEF BackoffElapses, GivesUp
<1>3. WebhookTypes'
  BY <1>1, <1>2 DEF WebhookInv, WebhookTypes, Move
<1>4. Retried'
  BY <1>1, <1>2 DEF WebhookInv, WebhookTypes, Retried, Move
<1>5. InQueue'
  BY <1>1, <1>2, QueueStands
<1>6. Buried'
  BY <1>1, <1>2, DeadStand
<1>7. Stages'
  <2>1. hookStop \in {"running", "waiting"}
    BY <1>2 DEF WebhookInv, WebhookTypes, Stages, Counted
  <2>2. d # LastWord
    BY <1>2, <2>1 DEF WebhookInv, Stages
  <2>3. job'[d] = state /\ \A x \in Delivery \ {d} : job'[x] = job[x]
    BY <1>1 DEF WebhookInv, WebhookTypes, Move
  <2>4. LastWord \in Delivery
    BY WebhookAssumption
  <2> QED
    BY <1>1, <1>2, <2>1, <2>2, <2>3, <2>4 DEF WebhookInv, Stages, doneClosed
<1> QED
  BY <1>3, <1>4, <1>5, <1>6, <1>7 DEF WebhookInv

-----------------------------------------------------------------------------
(* Stop.                                                                   *)

LEMMA LoopsKeep ==
  ASSUME WebhookInv, SweepsEnd \/ LoopReturns \/ StopBegins
  PROVE  WebhookInv'
<1>1. WebhookTypes'
  BY DEF WebhookInv, WebhookTypes, SweepsEnd, LoopReturns, StopBegins
<1>2. Retried' /\ InQueue' /\ Buried'
  BY DEF WebhookInv, Retried, InQueue, Buried, SweepsEnd, LoopReturns, StopBegins
<1>3. Stages'
  BY DEF WebhookInv, Stages, SweepsEnd, LoopReturns, StopBegins, doneClosed
<1> QED
  BY <1>1, <1>2, <1>3 DEF WebhookInv

LEMMA DrainKeeps ==
  ASSUME WebhookInv, WaitForDeliveries \/ StopReturns
  PROVE  WebhookInv'
<1>0. LastWord \in Delivery
  BY WebhookAssumption
<1>1. CASE UNCHANGED job
  <2>1. WebhookTypes'
    BY <1>1 DEF WebhookInv, WebhookTypes, WaitForDeliveries, StopReturns
  <2>2. Retried' /\ InQueue' /\ Buried'
    BY <1>1 DEF WebhookInv, Retried, InQueue, Buried, WaitForDeliveries, StopReturns
  <2>3. Stages'
    BY <1>0, <1>1 DEF WebhookInv, Stages, WaitForDeliveries, StopReturns
  <2> QED
    BY <2>1, <2>2, <2>3 DEF WebhookInv
<1>2. CASE WaitForDeliveries /\ hookStop' = "telling" /\ Move(LastWord, "last")
  <2>1. job[LastWord] = "new" /\ posts[LastWord] = 0
    BY <1>0, <1>2 DEF WebhookInv, Stages, Retried, WaitForDeliveries
  <2>2. WebhookTypes'
    BY <1>2 DEF WebhookInv, WebhookTypes, WaitForDeliveries, Move
  <2>3. Retried'
    BY <1>0, <1>2, <2>1, AttemptsPositive
       DEF WebhookInv, WebhookTypes, Retried, WaitForDeliveries, Move
  <2>4. InQueue'
    BY <1>0, <1>2, <2>1, QueueStands DEF WaitForDeliveries
  <2>5. Buried'
    BY <1>0, <1>2, <2>1, DeadStand DEF WaitForDeliveries
  <2>6. Stages'
    BY <1>0, <1>2 DEF WebhookInv, WebhookTypes, Stages, WaitForDeliveries, Move, Counted
  <2> QED
    BY <2>2, <2>3, <2>4, <2>5, <2>6 DEF WebhookInv
<1> QED
  BY <1>1, <1>2 DEF WaitForDeliveries, StopReturns

LEMMA ExitKeeps ==
  ASSUME WebhookInv, ProcessExits
  PROVE  WebhookInv'
<1> USE DEF ProcessExits
<1>1. WebhookTypes'
  BY DEF WebhookInv, WebhookTypes
<1>2. Retried'
  BY DEF WebhookInv, WebhookTypes, Retried
<1>3. InQueue'
  BY DEF WebhookInv, WebhookTypes, InQueue
<1>4. Buried'
  <2>1. \A i \in DOMAIN deadLog : deadLog[i] \in Delivery /\ job[deadLog[i]] = "failed"
    BY DEF WebhookInv, WebhookTypes, Buried
  <2> QED
    BY <2>1 DEF WebhookInv, Buried
<1>5. Stages'
  BY WebhookAssumption DEF WebhookInv, WebhookTypes, Stages, Counted
<1> QED
  BY <1>1, <1>2, <1>3, <1>4, <1>5 DEF WebhookInv

LEMMA WebhookStep == WebhookInv /\ [WebhookNext]_hookVars => WebhookInv'
<1> SUFFICES ASSUME WebhookInv, [WebhookNext]_hookVars PROVE WebhookInv'
  OBVIOUS
<1>1. CASE UNCHANGED hookVars
  BY <1>1 DEF WebhookInv, WebhookTypes, Retried, InQueue, Buried, Stages, hookVars
<1> QED
  BY <1>1, DispatchKeeps, EnqueueKeeps, TakeKeeps, AcceptedKeeps, RefusedKeeps, WaitKeeps,
     LoopsKeep, DrainKeeps, ExitKeeps DEF WebhookNext

\* A delivery ends once, after no more posts than configured, and what is
\* counted has ended when Stop has waited for it.
THEOREM DecidedCorrect == WebhookSpec => []DeliveryDecided
<1>1. WebhookInit => WebhookInv
  BY WebhookAssumption
     DEF WebhookInit, WebhookInv, WebhookTypes, Retried, InQueue, Buried, Stages, Counted
<1>2. WebhookInv => DeliveryDecided
  BY DEF WebhookInv, WebhookTypes, Retried, InQueue, Buried, Stages, DeliveryDecided, IsInjective,
         doneClosed, Alive, Counted
<1> QED
  BY <1>1, <1>2, WebhookStep, PTL DEF WebhookSpec

-----------------------------------------------------------------------------
(* The types of what they keep, with their bounds.                         *)

LEMMA RotationTypesStep ==
  ASSUME RotationInv, RotationTypeOK, [RotationNext]_rotationVars
  PROVE  RotationTypeOK'
<1>1. /\ lines \in Nat /\ lines <= MaxLogLines /\ MaxLogLines \in Nat /\ MaxMishaps \in Nat /\ MaxBackups \in Nat
      /\ logFile \in [File -> Seq(Nat)] /\ turn \in File /\ mishaps \in 0 .. MaxMishaps
      /\ \A i \in File : logFile[i] = Absent \/ logFile[i] \in Seq(1 .. lines)
  BY RotationAssumption DEF RotationInv, RotationTypeOK
<1>2. CASE OpenLog
  <2>1. <<>> \in Seq(1 .. lines)
    OBVIOUS
  <2> QED
    BY <1>1, <1>2, <2>1 DEF OpenLog, RotationTypeOK, File
<1>3. CASE WriteLine
  <2>1. /\ lines' = lines + 1 /\ lines < MaxLogLines /\ writer = "open"
        /\ logFile' = [logFile EXCEPT ![0] = Append(@, lines + 1)] /\ mishaps' = mishaps
        /\ writer' \in {"open", "rotating"} /\ turn' \in File
    BY <1>1, <1>3 DEF WriteLine, File
  <2>2. logFile[0] # Absent /\ 0 \in File
    BY <1>1, <2>1 DEF RotationInv, File
  <2>3. 1 .. lines \subseteq 1 .. lines' /\ lines + 1 \in 1 .. lines'
    BY <1>1, <2>1
  <2>4. ASSUME NEW i \in File PROVE logFile'[i] = Absent \/ logFile'[i] \in Seq(1 .. lines')
    <3>1. CASE i = 0
      <4>1. logFile[0] \in Seq(1 .. lines)
        BY <1>1, <2>2
      <4>2. logFile[0] \in Seq(1 .. lines')
        BY <2>3, <4>1, WiderSeq
      <4>3. Append(logFile[0], lines + 1) \in Seq(1 .. lines')
        BY <2>3, <4>2
      <4> QED
        BY <1>1, <2>1, <3>1, <4>3
    <3>2. CASE i # 0
      <4>1. logFile'[i] = logFile[i]
        BY <1>1, <2>1, <3>2
      <4>2. logFile[i] \in Seq(1 .. lines) => logFile[i] \in Seq(1 .. lines')
        BY <2>3, WiderSeq
      <4> QED
        BY <1>1, <4>1, <4>2
    <3> QED
      BY <3>1, <3>2
  <2>5. lines' \in 0 .. MaxLogLines
    BY <1>1, <2>1
  <2> QED
    BY <1>1, <2>1, <2>4, <2>5 DEF RotationTypeOK
<1>4. CASE RotateNext
  <2>1. /\ UNCHANGED <<lines, mishaps>> /\ writer' \in {"closed", "rotating"} /\ turn' \in File
    BY <1>1, <1>4 DEF RotateNext, NextTurn, File
  <2>2. ASSUME NEW i \in File PROVE logFile'[i] = Absent \/ logFile'[i] \in Seq(1 .. lines)
    <3>1. \/ logFile' = logFile \/ logFile' = [logFile EXCEPT ![turn] = Absent]
          \/ turn + 1 \in File /\ logFile' = Moved(turn, turn + 1)
      BY <1>1, <1>4 DEF RotateNext, File
    <3> QED
      BY <1>1, <3>1 DEF Moved
  <2> QED
    BY <1>1, <2>1, <2>2 DEF RotationTypeOK
<1>5. CASE RenameFails \/ LoggerDies
  <2>1. /\ UNCHANGED <<logFile, lines, turn>> /\ writer' = "closed" /\ mishaps' \in 0 .. MaxMishaps
    BY <1>1, <1>5 DEF RenameFails, LoggerDies
  <2> QED
    BY <1>1, <2>1 DEF RotationTypeOK
<1>6. CASE UNCHANGED rotationVars
  BY <1>6 DEF rotationVars, RotationTypeOK
<1> QED
  BY <1>2, <1>3, <1>4, <1>5, <1>6 DEF RotationNext

LEMMA RotationTypes == RotationSpec => []RotationTypeOK
<1>1. RotationInit => RotationTypeOK
  BY RotationAssumption DEF RotationInit, RotationTypeOK, File
<1> QED
  BY <1>1, RotationStart, RotationStep, RotationTypesStep, PTL DEF RotationSpec

-----------------------------------------------------------------------------
AutoUpTo(n) == [id : 1 .. n, whole : BOOLEAN]
BackupsTypes == BackupsTypeOK /\ autos \in Seq(AutoUpTo(begun))

LEMMA AutosAre ==
  ASSUME NEW n, NEW s \in Seq(AutoUpTo(n))
  PROVE  \A i \in DOMAIN s : s[i].id \in 1 .. n /\ s[i].whole \in BOOLEAN
<1> SUFFICES ASSUME NEW i \in DOMAIN s PROVE s[i].id \in 1 .. n /\ s[i].whole \in BOOLEAN
  OBVIOUS
<1>1. s[i] \in AutoUpTo(n)
  OBVIOUS
<1> QED
  BY <1>1 DEF AutoUpTo

LEMMA BackupsTypesStep ==
  ASSUME BackupsInv, BackupsTypes, [BackupsNext]_backupVars
  PROVE  BackupsTypes'
<1>1. /\ autos \in Seq(AutoUpTo(begun)) /\ begun \in Nat /\ begun <= MaxAutos
      /\ MaxAutos \in Nat /\ MaxRuns \in Nat /\ Keep \in Nat \ {0} /\ runs \in Nat /\ runs <= MaxRuns
      /\ dbFile \in Content \cup {"absent", "partial"} /\ recent \in BOOLEAN /\ everWhole \in BOOLEAN
      /\ backer \in {"off", "idle", "copying", "rotating"} /\ source \in 0 .. MaxAutos /\ saved \subseteq Content
      /\ restorer \in {"none", "stop", "save", "remove", "copy", "copying"}
  BY BackupsAssumption DEF BackupsTypes, BackupsTypeOK
<1>2. autos' \in Seq(AutoUpTo(begun')) =>
        \A i \in DOMAIN autos' : autos'[i].id \in 1 .. begun' /\ autos'[i].whole \in BOOLEAN
  BY AutosAre
<1>3. CASE DaemonStarts \/ DaemonEnds \/ DayPasses \/ AutoBackupFails
  <2>1. /\ UNCHANGED <<autos, begun, source, saved, runs, restorer, everWhole>>
        /\ recent' \in BOOLEAN /\ backer' \in {"off", "idle", "copying", "rotating"}
        /\ dbFile' \in Content \cup {"absent", "partial"}
    BY <1>1, <1>3 DEF DaemonStarts, DaemonEnds, DayPasses, AutoBackupFails, restoreVars, Content
  <2> QED
    BY <1>1, <1>2, <2>1 DEF BackupsTypes, BackupsTypeOK
<1>4. CASE AutoBackupBegins
  <2>1. /\ begun' = begun + 1 /\ begun < MaxAutos
        /\ autos' = Append(autos, [id |-> begun + 1, whole |-> FALSE])
        /\ recent' = TRUE /\ backer' = "copying" /\ UNCHANGED <<dbFile, source, saved, runs, restorer, everWhole>>
    BY <1>4 DEF AutoBackupBegins, restoreVars
  <2>2. AutoUpTo(begun) \subseteq AutoUpTo(begun') /\ [id |-> begun + 1, whole |-> FALSE] \in AutoUpTo(begun')
    BY <1>1, <2>1 DEF AutoUpTo
  <2>3. autos \in Seq(AutoUpTo(begun'))
    BY <1>1, <2>2, WiderSeq
  <2>4. autos' \in Seq(AutoUpTo(begun'))
    BY <2>1, <2>2, <2>3
  <2>5. begun' \in 0 .. MaxAutos
    BY <1>1, <2>1
  <2> QED
    BY <1>1, <1>2, <2>1, <2>4, <2>5 DEF BackupsTypes, BackupsTypeOK
<1>5. CASE AutoBackupDone
  <2>1. /\ autos' = [autos EXCEPT ![Len(autos)].whole = TRUE] /\ everWhole' = TRUE /\ backer' = "rotating"
        /\ UNCHANGED <<begun, recent, dbFile, source, saved, runs, restorer>> /\ autos # <<>>
    BY <1>5 DEF AutoBackupDone, restoreVars, BackupsInv
  <2>2. Len(autos) \in DOMAIN autos
    BY <1>1, <2>1
  <2>3. autos[Len(autos)] \in AutoUpTo(begun)
    BY <1>1, <2>2
  <2>4. [autos[Len(autos)] EXCEPT !.whole = TRUE] \in AutoUpTo(begun)
    BY <2>3 DEF AutoUpTo
  <2>5. autos' = [autos EXCEPT ![Len(autos)] = [autos[Len(autos)] EXCEPT !.whole = TRUE]]
    BY <2>1
  <2>6. autos' \in Seq(AutoUpTo(begun))
    BY <1>1, <2>2, <2>4, <2>5
  <2> QED
    BY <1>1, <1>2, <2>1, <2>6 DEF BackupsTypes, BackupsTypeOK
<1>6. CASE RotateBackups
  <2>1. /\ UNCHANGED <<begun, recent, dbFile, source, saved, runs, restorer, everWhole>>
        /\ backer' \in {"rotating", "idle"}
        /\ \/ autos' = autos
           \/ Len(autos) > Keep /\ autos' = RemoveAt(autos, Len(autos) - Keep)
    BY <1>6 DEF RotateBackups, restoreVars
  <2>2. autos' \in Seq(AutoUpTo(begun))
    <3>1. CASE Len(autos) > Keep /\ autos' = RemoveAt(autos, Len(autos) - Keep)
      <4>1. PICK n \in 1 .. Len(autos) : n = Len(autos) - Keep
        BY <1>1, <3>1
      <4>2. autos' = SubSeq(autos, 1, n - 1) \o SubSeq(autos, n + 1, Len(autos))
        BY <3>1, <4>1 DEF RemoveAt
      <4>3. SubSeq(autos, 1, n - 1) \in Seq(AutoUpTo(begun)) /\ SubSeq(autos, n + 1, Len(autos)) \in Seq(AutoUpTo(begun))
        BY <1>1, <4>1
      <4> QED
        BY <4>2, <4>3
    <3> QED
      BY <1>1, <2>1, <3>1
  <2> QED
    BY <1>1, <1>2, <2>1, <2>2 DEF BackupsTypes, BackupsTypeOK
<1>7. CASE \/ RestoreBegins \/ RestoreStopsDaemon \/ RestoreSaves \/ RestoreRemoves
           \/ RestoreCopies \/ RestoreDone \/ RestoreEnds
  <2>1. /\ UNCHANGED <<autos, begun, recent, everWhole>>
        /\ backer' \in {backer, "off"}
    BY <1>7 DEF RestoreBegins, RestoreStopsDaemon, RestoreSaves, RestoreRemoves, RestoreCopies,
                RestoreDone, RestoreEnds, daemonVars
  <2>2. source' \in 0 .. MaxAutos
    <3>1. ASSUME NEW i \in DOMAIN autos, source' = autos[i].id PROVE source' \in 0 .. MaxAutos
      BY <1>1, <3>1, AutosAre
    <3>2. source' = source \/ \E i \in DOMAIN autos : source' = autos[i].id
      BY <1>7 DEF RestoreBegins, RestoreStopsDaemon, RestoreSaves, RestoreRemoves, RestoreCopies,
                  RestoreDone, RestoreEnds
    <3> QED
      BY <1>1, <3>1, <3>2
  <2>3. runs' \in 0 .. MaxRuns
    BY <1>1, <1>7 DEF RestoreBegins, RestoreStopsDaemon, RestoreSaves, RestoreRemoves, RestoreCopies,
                RestoreDone, RestoreEnds
  <2>4. saved' \subseteq Content
    BY <1>1, <1>7 DEF RestoreBegins, RestoreStopsDaemon, RestoreSaves, RestoreRemoves, RestoreCopies,
                RestoreDone, RestoreEnds
  <2>5. dbFile' \in Content \cup {"absent", "partial"}
    BY <1>1, <1>7 DEF RestoreBegins, RestoreStopsDaemon, RestoreSaves, RestoreRemoves, RestoreCopies,
                RestoreDone, RestoreEnds, Content
  <2>6. restorer' \in {"none", "stop", "save", "remove", "copy", "copying"}
    BY <1>7 DEF RestoreBegins, RestoreStopsDaemon, RestoreSaves, RestoreRemoves, RestoreCopies,
                RestoreDone, RestoreEnds
  <2> QED
    BY <1>1, <1>2, <2>1, <2>2, <2>3, <2>4, <2>5, <2>6 DEF BackupsTypes, BackupsTypeOK
<1>8. CASE UNCHANGED backupVars
  BY <1>8 DEF backupVars, BackupsTypes, BackupsTypeOK
<1> QED
  BY <1>3, <1>4, <1>5, <1>6, <1>7, <1>8 DEF BackupsNext

LEMMA BackupsTypesHold == BackupsSpec => []BackupsTypeOK
<1>1. BackupsInit => BackupsInv /\ BackupsTypes
  <2> SUFFICES ASSUME BackupsInit PROVE BackupsInv /\ BackupsTypes
    OBVIOUS
  <2>1. autos = <<>> /\ <<>> \in Seq(AutoUpTo(begun))
    BY DEF BackupsInit
  <2>2. BackupsInv
    BY DEF BackupsInit, BackupsInv
  <2>3. BackupsTypeOK
    <3>1. recent \in BOOLEAN /\ everWhole \in BOOLEAN
      BY DEF BackupsInit
    <3>2. \A i \in DOMAIN autos : autos[i].id \in 1 .. begun /\ autos[i].whole \in BOOLEAN
      BY <2>1, AutosAre
    <3>3. saved \subseteq Content /\ dbFile \in Content
      BY DEF BackupsInit, Content
    <3> QED
      BY <3>1, <3>2, <3>3, BackupsAssumption DEF BackupsInit, BackupsTypeOK
  <2> QED
    BY <2>1, <2>2, <2>3 DEF BackupsTypes
<1>2. BackupsTypes => BackupsTypeOK
  BY DEF BackupsTypes
<1> QED
  BY <1>1, <1>2, BackupsStep, BackupsTypesStep, PTL DEF BackupsSpec

-----------------------------------------------------------------------------
\* No time in the caches, or in the hands of a process, is past the clock.
CachesBounded ==
  /\ clock <= MaxClock /\ touched <= clock /\ lineCache.out <= clock /\ priceCache.stamp <= clock
  /\ \A p \in Reader : liner[p].from <= clock /\ liner[p].initial.out <= clock /\ pricer[p].table.from <= clock
  /\ \A s \in served : s.start \in 0 .. clock /\ s.from \in 0 .. clock
  /\ offline \subseteq Reader

LEMMA LineBounded ==
  ASSUME CachesInv, CachesBounded, NEW p \in Reader,
         \/ LineStarts(p) \/ ReadLineCache(p) \/ LoadUsage(p) \/ TruncateLine(p) \/ FillLine(p) \/ Dies(p)
  PROVE  CachesBounded'
<1>1. /\ clock \in Nat /\ lineCache \in StatusLine /\ liner \in [Reader -> Liner] /\ touched \in Nat
      /\ liner[p].start <= clock /\ liner[p] \in Liner
  BY DEF CachesInv, CachesTyped, StampedBefore
<1>2. UNCHANGED <<clock, touched, priceCache, offline>>
  BY DEF LineStarts, ReadLineCache, LoadUsage, TruncateLine, FillLine, Dies, priceVars
<1>3. \A q \in Reader : /\ liner'[q].from \in {liner[q].from, clock, 0}
                        /\ liner'[q].initial \in {liner[q].initial, lineCache, NoLine}
  <2>1. CASE LineStarts(p)
    BY <1>1, <2>1 DEF LineStarts, Liner, NotRun
  <2>2. CASE ReadLineCache(p)
    BY <1>1, <2>2 DEF ReadLineCache, Liner
  <2>3. CASE LoadUsage(p)
    BY <1>1, <2>3 DEF LoadUsage, Liner
  <2>4. CASE TruncateLine(p) \/ FillLine(p) \/ Dies(p)
    BY <1>1, <2>4 DEF TruncateLine, FillLine, Dies, Liner
  <2> QED
    BY <2>1, <2>2, <2>3, <2>4
<1>4. lineCache'.out \in {0, lineCache.out, liner[p].from}
  BY DEF LineStarts, ReadLineCache, LoadUsage, TruncateLine, FillLine, Dies, NewLine, NoLine
<1>5. \A s \in served' : \/ s \in served
                         \/ s.start = liner[p].start /\ s.from \in {lineCache.out, clock, liner[p].initial.out}
  BY DEF LineStarts, ReadLineCache, LoadUsage, TruncateLine, FillLine, Dies, Show
<1>6. /\ liner[p].from \in Nat /\ liner[p].start \in Nat /\ liner[p].initial.out \in Nat /\ lineCache.out \in Nat
      /\ NoLine.out = 0
  BY <1>1 DEF Liner, StatusLine, NoLine
<1>7. \A q \in Reader : liner'[q].from <= clock /\ liner'[q].initial.out <= clock
  BY <1>1, <1>3, <1>6 DEF CachesBounded
<1>8. \A s \in served' : s.start \in 0 .. clock /\ s.from \in 0 .. clock
  BY <1>1, <1>5, <1>6 DEF CachesBounded
<1>9. lineCache'.out <= clock
  BY <1>1, <1>4, <1>6 DEF CachesBounded
<1>10. pricer \in [Reader -> Pricer] /\ \A q \in Reader : pricer'[q].table = pricer[q].table
  BY DEF CachesInv, CachesTyped, LineStarts, ReadLineCache, LoadUsage, TruncateLine, FillLine, Dies, priceVars, Pricer
<1> QED
  BY <1>2, <1>7, <1>8, <1>9, <1>10 DEF CachesBounded

LEMMA PriceBounded ==
  ASSUME CachesInv, CachesBounded, NEW p \in Reader,
         \/ LoadPrices(p) \/ RefreshAsked(p) \/ RefreshFails(p) \/ FetchPrices(p)
         \/ TruncatePrices(p) \/ FillPrices(p)
  PROVE  CachesBounded'
<1>1. clock \in Nat /\ pricer[p].table.from <= clock /\ pricer \in [Reader -> Pricer]
  BY DEF CachesInv, CachesTyped, CachesBounded
<1>2. UNCHANGED <<clock, touched, lineVars, offline>>
  BY DEF LoadPrices, RefreshAsked, RefreshFails, FetchPrices, TruncatePrices, FillPrices, WritePrices
<1>3. priceCache'.stamp \in {0, priceCache.stamp, pricer[p].table.from}
  <2>1. CASE FillPrices(p)
    <3>1. priceCache'.stamp \in {0, pricer[p].table.from}
      BY <2>1 DEF FillPrices, WritePrices, NoPrices
    <3> QED
      BY <3>1
  <2>2. CASE TruncatePrices(p)
    BY <2>2 DEF TruncatePrices, NoPrices
  <2>3. CASE LoadPrices(p) \/ RefreshAsked(p) \/ RefreshFails(p) \/ FetchPrices(p)
    BY <2>3 DEF LoadPrices, RefreshAsked, RefreshFails, FetchPrices
  <2> QED
    BY <2>1, <2>2, <2>3
<1>4. priceCache'.stamp <= clock
  BY <1>1, <1>3 DEF CachesBounded
<1>5. \A q \in Reader : pricer'[q].table = pricer[q].table \/ pricer'[q].table.from = clock
  BY <1>1 DEF LoadPrices, RefreshAsked, RefreshFails, FetchPrices, TruncatePrices, FillPrices, WritePrices,
              DoesWithout, Fetched, Pricer
<1>6. \A q \in Reader : pricer'[q].table.from <= clock
  BY <1>1, <1>5 DEF CachesBounded
<1> QED
  BY <1>2, <1>4, <1>6 DEF CachesBounded, lineVars

LEMMA CachesBoundedStep ==
  ASSUME CachesInv, CachesBounded, [LineNext \/ PriceNext]_cacheVars
  PROVE  CachesBounded'
<1>1. CASE ClockTicks
  <2>1. /\ clock \in Nat /\ touched \in Nat /\ lineCache \in StatusLine /\ priceCache \in Prices
        /\ \A q \in Reader : liner[q].from \in Nat /\ liner[q].initial.out \in Nat /\ pricer[q].table.from \in Nat
    BY DEF CachesInv, CachesTyped, Liner, StatusLine, Pricer, Table
  <2>2. lineCache.out \in Nat /\ priceCache.stamp \in Nat
    BY <2>1 DEF StatusLine, Prices
  <2>3. /\ clock' = clock + 1 /\ clock < MaxClock /\ touched' \in {touched, clock + 1} /\ MaxClock \in Nat
        /\ UNCHANGED <<lineCache, liner, served, priceCache, pricer, offline>>
    BY <1>1, CachesAssumption DEF ClockTicks, lineVars, priceVars
  <2> QED
    BY <2>1, <2>2, <2>3 DEF CachesBounded
<1>2. CASE UNCHANGED cacheVars
  BY <1>2 DEF cacheVars, CachesBounded
<1> QED
  BY <1>1, <1>2, LineBounded, PriceBounded DEF LineNext, PriceNext

LEMMA CachesTypesHold == CachesSpec => []CachesTypeOK
<1>1. CachesInit => CachesInv
  BY CachesAssumption
  DEF CachesInit, CachesInv, CachesTyped, StampedBefore, FetchedWhole, BoundedStaleness,
      NoLine, NoPrices, NotRun, Unpriced, Embedded, StatusLine, Liner, Table, Prices, Pricer, State
<1>2. CachesInit => CachesBounded
  BY CachesAssumption DEF CachesInit, CachesBounded, NoLine, NoPrices, NotRun, Unpriced, Embedded
<1>3. CachesInv /\ CachesBounded => CachesTypeOK
  <2> SUFFICES ASSUME CachesInv, CachesBounded PROVE CachesTypeOK
    OBVIOUS
  <2>1. /\ clock \in Nat /\ touched \in Nat /\ lineCache \in StatusLine /\ priceCache \in Prices
        /\ liner \in [Reader -> Liner] /\ pricer \in [Reader -> Pricer]
        /\ lineCache.stamp <= lineCache.out /\ MaxClock \in Nat
    BY CachesAssumption DEF CachesInv, CachesTyped, StampedBefore
  <2>2. /\ lineCache.out \in Nat /\ lineCache.stamp \in Nat /\ priceCache.stamp \in Nat
        /\ lineCache.state \in State /\ priceCache.state \in State
    BY <2>1 DEF StatusLine, Prices
  <2>3. \A p \in Reader : /\ liner[p].pc \in {"new", "load", "show", "truncate", "fill", "over"}
                          /\ pricer[p].pc \in {"new", "fetch", "refresh", "truncate", "fill", "over"}
    BY <2>1 DEF Liner, Pricer
  <2>4. {clock, touched, lineCache.out, lineCache.stamp, priceCache.stamp} \subseteq 0 .. MaxClock
    BY <2>1, <2>2 DEF CachesBounded
  <2> QED
    BY <2>2, <2>3, <2>4 DEF CachesTypeOK, CachesBounded
<1> QED
  BY <1>1, <1>2, <1>3, CachesStep, CachesBoundedStep, PTL DEF CachesSpec

-----------------------------------------------------------------------------
LEMMA Percent ==
  ASSUME NEW c \in Nat, NEW d \in Nat \ {0}, c <= d
  PROVE  (100 * c) \div d \in 0 .. 100
<1> DEFINE q == (100 * c) \div d
<1>1. q \in Nat /\ 100 * c = d * q + ((100 * c) % d) /\ (100 * c) % d \in 0 .. d - 1
  OBVIOUS
<1>2. d * q <= 100 * c /\ d * q \in Nat
  <2>1. d * q \in Nat
    BY <1>1
  <2> HIDE DEF q
  <2> QED
    BY <1>1, <2>1
<1> HIDE DEF q
<1>3. ASSUME q > 100 PROVE FALSE
  <2>1. PICK n \in Nat : q = 101 + n
    <3>1. q - 101 \in Nat /\ q = 101 + (q - 101)
      BY <1>1, <1>3
    <3> QED
      BY <3>1
  <2>2. d * (101 + n) = d * 101 + d * n /\ d * n \in Nat
    OBVIOUS
  <2>3. d * 101 <= d * q
    <3>1. d * q = d * 101 + d * n
      BY <2>1, <2>2
    <3> QED
      BY <2>2, <3>1
  <2> QED
    BY <1>2, <2>3
<1> QED
  BY <1>1, <1>3 DEF q

LEMMA RatePercent ==
  ASSUME AlertsInv, NEW t \in Tool, RecentCalls(t) # {}
  PROVE  FailureRate(RecentCalls(t)) \in 0 .. 100
<1>1. PICK places : places = RecentCalls(t)
  OBVIOUS
<1>2. calls \in Seq(Called)
  BY DEF AlertsInv, AlertsTyped
<1>3. DOMAIN calls = 1 .. Len(calls) /\ Len(calls) \in Nat
  BY <1>2
<1>4. IsFiniteSet(DOMAIN calls)
  BY <1>3, FS_Interval
<1>5. places \subseteq DOMAIN calls /\ places # {}
  BY <1>1 DEF RecentCalls
<1>6. IsFiniteSet(places) /\ Cardinality(places) \in Nat /\ Cardinality(places) # 0
  BY <1>4, <1>5, FS_Subset, FS_CardinalityType, FS_EmptySet
<1>7. PICK bad : bad = {i \in places : calls[i].failed}
  OBVIOUS
<1>8. Cardinality(bad) \in Nat /\ Cardinality(bad) <= Cardinality(places)
  BY <1>6, <1>7, FS_Subset, FS_CardinalityType
<1> QED
  BY <1>1, <1>6, <1>7, <1>8, Percent DEF FailureRate

AlertsBounded ==
  /\ tick <= MaxTicks /\ turns \in 0 .. MaxTurns /\ spent \in [Days -> Nat]
  /\ \A i \in DOMAIN calls : calls[i].at <= tick
  /\ toolAlert \in [Tool -> 0 .. 100]

LEMMA AlertsBoundedStep ==
  ASSUME AlertsInv, AlertsBounded, [MoneyNext \/ ToolsNext]_alertVars
  PROVE  AlertsBounded'
<1>1. /\ tick \in Nat /\ calls \in Seq(Called) /\ MaxTicks \in Nat /\ MaxTurns \in Nat /\ Steps \subseteq Nat
  BY AlertsAssumption DEF AlertsInv, AlertsTyped
<1>2. CASE Spend
  <2>1. PICK x \in Nat : /\ spent' = [spent EXCEPT ![Today] = @ + x]
                         /\ UNCHANGED <<tick, calls, toolAlert, turns>>
    BY <1>1, <1>2 DEF Spend
  <2>2. spent' \in [Days -> Nat]
    <3>1. spent \in [Days -> Nat]
      BY DEF AlertsBounded
    <3>2. PICK d : d = Today
      OBVIOUS
    <3>3. spent' = [spent EXCEPT ![d] = spent[d] + x]
      BY <2>1, <3>2
    <3>4. \A c \in Days : spent'[c] \in Nat
      BY <3>1, <3>3
    <3> QED
      BY <3>1, <3>3, <3>4
  <2> QED
    BY <2>1, <2>2 DEF AlertsBounded
<1>3. CASE Forget
  BY <1>1, <1>3 DEF Forget, AlertsBounded
<1>4. CASE CallTool
  <2>1. PICK c \in Called : /\ calls' = Append(calls, c) /\ c.at = tick
                            /\ UNCHANGED <<tick, spent, toolAlert, turns>>
    BY <1>1, <1>4 DEF CallTool, Called
  <2>2. \A i \in DOMAIN calls' : calls'[i] = c \/ (i \in DOMAIN calls /\ calls'[i] = calls[i])
    BY <1>1, <2>1
  <2>3. \A i \in DOMAIN calls' : calls'[i].at <= tick
    BY <1>1, <2>1, <2>2 DEF AlertsBounded
  <2> QED
    BY <2>1, <2>3 DEF AlertsBounded
<1>5. CASE Tick
  <2>1. /\ tick' = tick + 1 /\ tick < MaxTicks /\ UNCHANGED <<spent, calls, toolAlert, turns>>
    BY <1>5 DEF Tick
  <2>2. \A i \in DOMAIN calls : calls[i].at \in Nat
    <3>1. \A i \in DOMAIN calls : calls[i] \in Called
      BY <1>1
    <3> QED
      BY <3>1 DEF Called
  <2> QED
    BY <1>1, <2>1, <2>2 DEF AlertsBounded
<1>6. CASE Reload
  BY <1>1, <1>6 DEF Reload, AlertsBounded
<1>7. CASE CheckTools
  <2>1. UNCHANGED <<tick, calls, spent, turns>>
    BY <1>7 DEF CheckTools
  <2>2. \A t \in Tool : RecentCalls(t) # {} => FailureRate(RecentCalls(t)) \in 0 .. 100
    BY RatePercent
  <2>3. toolAlert' \in [Tool -> 0 .. 100]
    <3> DEFINE called == {t \in Tool : RecentCalls(t) # {}}
               rate == [t \in called |-> FailureRate(RecentCalls(t))]
               selected == [t \in called |-> {e \in Wanting("tool_failure_rate") : rate[t] > RateThreshold(e)}]
               over == {t \in called : selected[t] # {}}
               report == {t \in over : \A e \in selected[t] : toolAlert[t] < RateThreshold(e)}
    <3>1. \/ toolAlert' = toolAlert
          \/ toolAlert' = [t \in Tool |-> IF t \in report THEN rate[t]
                                          ELSE IF t \in called \ over THEN 0 ELSE toolAlert[t]]
      BY <1>7 DEF CheckTools
    <3>2. report \in SUBSET called /\ called \ over \in SUBSET Tool
      OBVIOUS
    <3>3. \A t \in report : rate[t] = FailureRate(RecentCalls(t))
      OBVIOUS
    <3>4. \A t \in called : t \in Tool /\ FailureRate(RecentCalls(t)) \in 0 .. 100
      BY <2>2
    <3>5. toolAlert \in [Tool -> 0 .. 100]
      BY DEF AlertsBounded
    <3> HIDE DEF called, report, over, selected, rate
    <3>6. \A t \in report : rate[t] \in 0 .. 100
      BY <3>2, <3>3, <3>4
    <3> QED
      BY <3>1, <3>5, <3>6
  <2> QED
    BY <2>1, <2>3 DEF AlertsBounded
<1>8. CASE CheckBudgets \/ CheckAnomalies \/ SessionEnds
  BY <1>8 DEF CheckBudgets, CheckAnomalies, SessionEnds, AlertsBounded
<1>9. CASE UNCHANGED alertVars
  BY <1>9 DEF alertVars, AlertsBounded
<1> QED
  BY <1>2, <1>3, <1>4, <1>5, <1>6, <1>7, <1>8, <1>9 DEF MoneyNext, ToolsNext

LEMMA AlertsTypesHold == AlertsSpec => []AlertsTypeOK
<1>1. AlertsInit => AlertsBounded
  BY AlertsAssumption DEF AlertsInit, AlertsBounded
<1>2. AlertsInv /\ AlertsBounded => AlertsTypeOK
  <2> SUFFICES ASSUME AlertsInv, AlertsBounded PROVE AlertsTypeOK
    OBVIOUS
  <2>1. /\ tick \in Nat /\ MaxTicks \in Nat /\ calls \in Seq(Called) /\ hooks \in Configs /\ due \in SUBSET Sweep
        /\ lastStatus \in [Budget -> {"unseen", "ok", "warn", "over"}]
        /\ \A a \in alarms : a.at \in Nat /\ a.at <= tick /\ a.to \in Endpoint
        /\ \A x \in cooling : x.at \in Nat /\ x.at <= tick
    BY AlertsAssumption DEF AlertsInv, AlertsTyped, Stage
  <2>2. \A i \in DOMAIN calls : calls[i].tool \in Tool /\ calls[i].at \in 0 .. tick
    <3>1. \A i \in DOMAIN calls : calls[i] \in Called
      BY <2>1
    <3>2. \A i \in DOMAIN calls : calls[i].tool \in Tool /\ calls[i].at \in Nat
      BY <3>1 DEF Called
    <3> QED
      BY <2>1, <3>2 DEF AlertsBounded
  <2> QED
    BY <2>1, <2>2 DEF AlertsBounded, AlertsTypeOK
<1> QED
  BY <1>1, <1>2, AlertsStart, AlertsStep, AlertsBoundedStep, PTL DEF AlertsSpec

-----------------------------------------------------------------------------
(* No more posts than configured, and no more than fits in the queue.      *)
WebhookBounded ==
  /\ \A d \in Delivery : posts[d] <= Attempts(d)
  /\ Len(hookQueue) <= HookQueueCap

LEMMA WebhookBoundedStep ==
  ASSUME WebhookInv, WebhookBounded, [WebhookNext]_hookVars
  PROVE  WebhookBounded'
<1>1. /\ posts \in [Delivery -> Nat] /\ hookQueue \in Seq(Delivery) /\ HookQueueCap \in Nat
      /\ \A d \in Delivery : Attempts(d) \in Nat /\ Attempts(d) > 0 /\ Attempts(d)' = Attempts(d)
      /\ Len(hookQueue) <= HookQueueCap
  BY WebhookAssumption, AttemptsPositive DEF WebhookInv, WebhookTypes, WebhookBounded, Attempts
<1>2. ASSUME NEW d \in Delivery, Enqueue(d)
      PROVE  WebhookBounded'
  <2>1. posts' = posts /\ Len(hookQueue') <= HookQueueCap
    BY <1>1, <1>2 DEF Enqueue
  <2> QED
    BY <1>1, <2>1 DEF WebhookBounded
<1>3. ASSUME NEW d \in Delivery, Accepted(d) \/ Refused(d)
      PROVE  WebhookBounded'
  <2>1. hookQueue' = hookQueue /\ posts' = [posts EXCEPT ![d] = @ + 1]
    BY <1>3 DEF Accepted, Refused
  <2>2. posts[d] < Attempts(d)
    <3>1. job[d] \in {"trying", "direct", "last"}
      BY <1>3 DEF Accepted, Refused
    <3>2. job[d] = "direct" => posts[d] = 0
      BY DEF WebhookInv, Retried
    <3>3. job[d] \in {"trying", "last"} => posts[d] < Attempts(d)
      BY DEF WebhookInv, Retried
    <3> QED
      BY <1>1, <3>1, <3>2, <3>3
  <2>3. \A e \in Delivery : posts'[e] <= Attempts(e)
    BY <1>1, <2>1, <2>2 DEF WebhookBounded
  <2> QED
    BY <1>1, <2>1, <2>3 DEF WebhookBounded
<1>4. CASE TakeDelivery
  <2>1. posts' = posts /\ Len(hookQueue') <= HookQueueCap
    BY <1>1, <1>4 DEF TakeDelivery
  <2> QED
    BY <1>1, <2>1 DEF WebhookBounded
<1>5. CASE ProcessExits
  <2>1. posts' = posts /\ Len(hookQueue') <= HookQueueCap
    BY <1>1, <1>5 DEF ProcessExits
  <2> QED
    BY <1>1, <2>1 DEF WebhookBounded
<1>6. ASSUME UNCHANGED <<posts, hookQueue>>
      PROVE  WebhookBounded'
  BY <1>1, <1>6 DEF WebhookBounded
<1>7. ASSUME NEW d \in Delivery, Dispatch(d) \/ BackoffElapses(d) \/ GivesUp(d)
      PROVE  UNCHANGED <<posts, hookQueue>>
  BY <1>7 DEF Dispatch, BackoffElapses, GivesUp
<1>8. SweepsEnd \/ LoopReturns \/ StopBegins \/ WaitForDeliveries \/ StopReturns \/ UNCHANGED hookVars
        => UNCHANGED <<posts, hookQueue>>
  BY DEF SweepsEnd, LoopReturns, StopBegins, WaitForDeliveries, StopReturns, hookVars
<1> QED
  BY <1>2, <1>3, <1>4, <1>5, <1>6, <1>7, <1>8 DEF WebhookNext

LEMMA WebhookTypesHold == WebhookSpec => []WebhookTypeOK
<1>0. WebhookInit => WebhookInv
  BY WebhookAssumption DEF WebhookInit, WebhookInv, WebhookTypes, Retried, InQueue, Buried, Stages, Counted
<1>1. WebhookInit => WebhookBounded
  BY WebhookAssumption, AttemptsPositive DEF WebhookInit, WebhookBounded
<1>2. WebhookInv /\ WebhookBounded => WebhookTypeOK
  BY AttemptsPositive DEF WebhookInv, WebhookTypes, WebhookBounded, WebhookTypeOK
<1> QED
  BY <1>0, <1>1, <1>2, WebhookStep, WebhookBoundedStep, PTL DEF WebhookSpec

-----------------------------------------------------------------------------
SettingsBounded ==
  /\ dir \in BOOLEAN /\ marred \in BOOLEAN
  /\ file # NoSettings => dir = TRUE
  /\ \A p \in Caller : run[p].at \in RunSteps /\ (run[p].at = "write" => dir = TRUE)
  /\ moves \in 0 .. MaxMoves /\ started \in 0 .. MaxCallers

\* A step of p that goes on to another step, or writes.
GoesTo(p, step) ==
  /\ run' = [q \in Caller |-> run'[q]] /\ run'[p].at = step /\ step \in RunSteps
  /\ \A q \in Caller \ {p} : run'[q] = run[q]
\* What a step leaves of the rest.
InBounds ==
  /\ dir = TRUE => dir' = TRUE
  /\ file' # NoSettings => dir' = TRUE
  /\ dir' \in BOOLEAN /\ marred' \in BOOLEAN /\ moves' \in 0 .. MaxMoves /\ started' \in 0 .. MaxCallers

LEMMA RunStepBounded ==
  ASSUME SettingsInv, SettingsBounded, NEW p \in Caller, NEW step, GoesTo(p, step),
         step # "write" \/ dir' = TRUE, InBounds
  PROVE  SettingsBounded'
<1>1. \A q \in Caller : run'[q].at \in RunSteps /\ (run'[q].at = "write" => dir' = TRUE)
  <2> SUFFICES ASSUME NEW q \in Caller
               PROVE  run'[q].at \in RunSteps /\ (run'[q].at = "write" => dir' = TRUE)
    OBVIOUS
  <2>1. CASE q = p
    BY <2>1 DEF GoesTo
  <2>2. CASE q # p
    BY <2>2 DEF GoesTo, SettingsBounded, InBounds
  <2> QED
    BY <2>1, <2>2
<1> QED
  BY <1>1 DEF SettingsBounded, InBounds

LEMMA RunSteppedTo ==
  ASSUME SettingsInv, NEW p \in Caller, NEW next, run' = [run EXCEPT ![p] = next], next.at \in RunSteps
  PROVE  GoesTo(p, next.at)
<1>1. run = [q \in Caller |-> run[q]]
  BY DEF SettingsInv
<1> QED
  BY <1>1 DEF GoesTo

LEMMA RunsGo ==
  ASSUME SettingsInv, NEW p \in Caller
  PROVE  /\ Ends(p) => GoesTo(p, "idle")
         /\ \A step \in RunSteps : Proceeds(p, step) => GoesTo(p, step)
         /\ \A out, then : WillWrite(p, out, then) => GoesTo(p, "truncate")
         /\ \A step \in RunSteps : run' = [run EXCEPT ![p] = [at |-> step]] => GoesTo(p, step)
<1>1. ASSUME Ends(p) PROVE GoesTo(p, "idle")
  <2>1. PICK next : next = NoRun
    OBVIOUS
  <2>2. next.at = "idle" /\ run' = [run EXCEPT ![p] = next]
    BY <1>1, <2>1 DEF Ends, NoRun
  <2> QED
    BY <2>2, RunSteppedTo DEF RunSteps
<1>2. ASSUME NEW step \in RunSteps, Proceeds(p, step) PROVE GoesTo(p, step)
  <2>1. PICK next : next = [run[p] EXCEPT !.at = step]
    OBVIOUS
  <2>2. next.at = step /\ run' = [run EXCEPT ![p] = next]
    <3>1. run[p] = IF IsWriting(p) THEN [at |-> run[p].at, out |-> run[p].out, read |-> run[p].read,
                                         then |-> run[p].then]
                   ELSE [at |-> run[p].at]
      BY DEF SettingsInv, WellPlanned
    <3> QED
      BY <1>2, <2>1, <3>1 DEF Proceeds
  <2> QED
    BY <2>2, RunSteppedTo
<1>3. ASSUME NEW out, NEW then, WillWrite(p, out, then) PROVE GoesTo(p, "truncate")
  <2>1. PICK next : next = [at |-> "truncate", out |-> out, read |-> mine, then |-> then]
    OBVIOUS
  <2>2. next.at = "truncate" /\ run' = [run EXCEPT ![p] = next]
    BY <1>3, <2>1 DEF WillWrite
  <2> QED
    BY <2>2, RunSteppedTo DEF RunSteps
<1>4. ASSUME NEW step \in RunSteps, run' = [run EXCEPT ![p] = [at |-> step]] PROVE GoesTo(p, step)
  <2>1. PICK next : next = [at |-> step]
    OBVIOUS
  <2>2. next.at = step /\ run' = [run EXCEPT ![p] = next]
    BY <1>4, <2>1
  <2> QED
    BY <2>2, RunSteppedTo
<1> QED
  BY <1>1, <1>2, <1>3, <1>4

LEMMA SettingsBoundedStep ==
  ASSUME SettingsInv, SettingsBounded, [SettingsNext]_settingsVars
  PROVE  SettingsBounded'
<1>1. /\ MaxMoves \in Nat /\ MaxCallers \in Nat /\ moves \in 0 .. MaxMoves /\ started \in 0 .. MaxCallers
      /\ dir \in BOOLEAN /\ marred \in BOOLEAN /\ (file # NoSettings => dir = TRUE)
      /\ run = [q \in Caller |-> run[q]]
  BY SettingsAssumption DEF SettingsBounded, SettingsInv
<1>2. UNCHANGED <<dir, file, marred, moves, started>> => InBounds
  BY <1>1 DEF InBounds
<1>3. ASSUME UNCHANGED <<dir, started>>, file' = file \/ dir = TRUE, marred' \in BOOLEAN, moves' \in 0 .. MaxMoves
      PROVE  InBounds
  BY <1>1, <1>3 DEF InBounds
<1>4. ASSUME NEW p \in Caller, Begin(p)
      PROVE  SettingsBounded'
  <2>1. PICK what \in {"peek", "read", "remove", "check"} : run' = [run EXCEPT ![p] = [at |-> what]]
    BY <1>4 DEF Begin
  <2>2. started' = started + 1 /\ started < MaxCallers /\ UNCHANGED <<dir, file, marred, moves>>
    BY <1>4 DEF Begin
  <2>3. started' \in 0 .. MaxCallers
    BY <1>1, <2>2
  <2>4. GoesTo(p, what) /\ what # "write"
    BY <2>1, RunsGo DEF RunSteps
  <2>5. InBounds
    BY <1>1, <2>2, <2>3 DEF InBounds
  <2> QED
    BY <2>4, <2>5, RunStepBounded
<1>5. ASSUME NEW p \in Caller, Peek(p)
      PROVE  SettingsBounded'
  <2>1. UNCHANGED <<dir, file, marred, moves, started>> /\ (Ends(p) \/ Proceeds(p, "read"))
    BY <1>5 DEF Peek
  <2>2. GoesTo(p, "idle") \/ GoesTo(p, "read")
    BY <2>1, RunsGo DEF RunSteps
  <2> QED
    BY <1>2, <2>1, <2>2, RunStepBounded
<1>9. ASSUME NEW p \in Caller, ReadToInstall(p)
      PROVE  SettingsBounded'
  <2>1. UNCHANGED <<dir, file, started, marred, moves>> /\ (Ends(p) \/ \E out : WillWrite(p, out, "idle"))
    BY <1>9 DEF ReadToInstall
  <2>2. GoesTo(p, "idle") \/ GoesTo(p, "truncate")
    BY <2>1, RunsGo
  <2> QED
    BY <1>2, <2>1, <2>2, RunStepBounded
<1>10. ASSUME NEW p \in Caller, ReadFails(p)
       PROVE  SettingsBounded'
  <2>1. /\ UNCHANGED <<dir, file, started>> /\ marred' = TRUE /\ moves < MaxMoves /\ moves' = moves + 1
        /\ \E out : WillWrite(p, out, "idle")
    BY <1>10 DEF ReadFails
  <2>2. moves' \in 0 .. MaxMoves
    BY <1>1, <2>1
  <2>3. marred' \in BOOLEAN
    BY <2>1
  <2>4. GoesTo(p, "truncate")
    BY <2>1, RunsGo
  <2>5. InBounds
    BY <1>3, <2>1, <2>2, <2>3
  <2> QED
    BY <2>4, <2>5, RunStepBounded
<1>11. ASSUME NEW p \in Caller, ReadToUninstall(p)
       PROVE  SettingsBounded'
  <2>1. UNCHANGED <<dir, file, started, marred, moves>> /\ (Ends(p) \/ \E out : WillWrite(p, out, "idle"))
    BY <1>11 DEF ReadToUninstall
  <2>2. GoesTo(p, "idle") \/ GoesTo(p, "truncate")
    BY <2>1, RunsGo
  <2> QED
    BY <1>2, <2>1, <2>2, RunStepBounded
<1>12. ASSUME NEW p \in Caller, Check(p)
       PROVE  SettingsBounded'
  <2>1. /\ UNCHANGED <<dir, file, started, marred, moves>>
        /\ Ends(p) \/ Proceeds(p, "backup") \/ Proceeds(p, "read")
    BY <1>12 DEF Check
  <2>2. GoesTo(p, "idle") \/ GoesTo(p, "backup") \/ GoesTo(p, "read")
    BY <2>1, RunsGo DEF RunSteps
  <2> QED
    BY <1>2, <2>1, <2>2, RunStepBounded
<1>13. ASSUME NEW p \in Caller, BackupAndReset(p)
       PROVE  SettingsBounded'
  <2>1. /\ UNCHANGED <<dir, file, started, moves>> /\ (Ends(p) \/ WillWrite(p, Empty, "read"))
        /\ marred' = (marred \/ (file # NoSettings /\ bak # NoSettings) \/ file = Torn)
    BY <1>13 DEF BackupAndReset
  <2>2. marred' \in BOOLEAN
    BY <2>1
  <2>3. GoesTo(p, "idle") \/ GoesTo(p, "truncate")
    BY <2>1, RunsGo
  <2>4. InBounds
    BY <1>1, <1>3, <2>1, <2>2
  <2> QED
    BY <2>3, <2>4, RunStepBounded
<1>14. ASSUME NEW p \in Caller, Truncate(p)
       PROVE  SettingsBounded'
  <2>1. /\ dir' = TRUE /\ UNCHANGED <<started, moves>> /\ Proceeds(p, "write")
        /\ marred' = (marred \/ run[p].read # mine)
    BY <1>14 DEF Truncate
  <2>2. marred' \in BOOLEAN
    BY <2>1
  <2>3. dir' \in BOOLEAN /\ dir' = TRUE
    BY <2>1
  <2>4. GoesTo(p, "write")
    BY <2>1, RunsGo DEF RunSteps
  <2>5. InBounds
    BY <1>1, <2>1, <2>2, <2>3 DEF InBounds
  <2> QED
    BY <2>3, <2>4, <2>5, RunStepBounded
<1>15. ASSUME NEW p \in Caller, WriteSettings(p)
       PROVE  SettingsBounded'
  <2>1. /\ UNCHANGED <<dir, started, moves>> /\ run[p].at = "write"
        /\ marred' = (marred \/ run[p].read # mine)
        /\ Ends(p) \/ run' = [run EXCEPT ![p] = [at |-> run[p].then]]
    BY <1>15 DEF WriteSettings
  <2>2. marred' \in BOOLEAN
    BY <2>1
  <2>3. dir = TRUE
    BY <2>1 DEF SettingsBounded
  <2>4. run[p].then \in {"idle", "read"}
    BY <2>1 DEF SettingsInv, WellPlanned, IsWriting
  <2>5. GoesTo(p, "idle") \/ GoesTo(p, "read")
    BY <2>1, <2>4, RunsGo DEF RunSteps
  <2>6. InBounds
    BY <1>1, <1>3, <2>1, <2>2, <2>3
  <2> QED
    BY <2>5, <2>6, RunStepBounded
<1>16. ASSUME NEW p \in Caller, RunDies(p)
       PROVE  SettingsBounded'
  <2>1. /\ UNCHANGED <<dir, file, started>> /\ moves < MaxMoves /\ moves' = moves + 1 /\ Ends(p)
        /\ marred' = (marred \/ run[p].at = "write")
    BY <1>16 DEF RunDies
  <2>2. marred' \in BOOLEAN
    BY <2>1
  <2>3. moves' \in 0 .. MaxMoves
    BY <1>1, <2>1
  <2>4. GoesTo(p, "idle")
    BY <2>1, RunsGo
  <2>5. InBounds
    BY <1>3, <2>1, <2>2, <2>3
  <2> QED
    BY <2>4, <2>5, RunStepBounded
<1>17. CASE UserSaves
  <2>1. dir /\ UNCHANGED <<dir, run, started, marred>> /\ moves < MaxMoves /\ moves' = moves + 1
    BY <1>17 DEF UserSaves
  <2>2. moves' \in 0 .. MaxMoves
    BY <1>1, <2>1
  <2>3. dir = TRUE
    BY <1>1, <2>1
  <2>4. UNCHANGED <<dir, run, started, marred>>
    BY <2>1
  <2> HIDE <2>1
  <2> QED
    BY <2>2, <2>3, <2>4 DEF SettingsBounded
<1>18. CASE UNCHANGED settingsVars
  BY <1>18 DEF settingsVars, SettingsBounded
<1> QED
  BY <1>4, <1>5, <1>9, <1>10, <1>11, <1>12, <1>13, <1>14, <1>15, <1>16, <1>17, <1>18 DEF SettingsNext

LEMMA SettingsTypesHold == SettingsSpec => []SettingsTypeOK
<1>1. SettingsInit => SettingsBounded
  <2> SUFFICES ASSUME SettingsInit PROVE SettingsBounded
    OBVIOUS
  <2>1. MaxMoves \in Nat /\ MaxCallers \in Nat
    BY SettingsAssumption
  <2>2. marred = FALSE /\ moves = 0 /\ started = 0 /\ dir \in BOOLEAN
    BY DEF SettingsInit
  <2>5. file # NoSettings => dir = TRUE
    BY DEF SettingsInit
  <2>3. \A p \in Caller : run[p].at = "idle"
    BY DEF SettingsInit, NoRun
  <2>4. marred \in BOOLEAN
    BY <2>2
  <2> QED
    BY <2>1, <2>2, <2>3, <2>4, <2>5 DEF SettingsBounded, RunSteps
<1>2. SettingsInv /\ SettingsBounded => SettingsTypeOK
  BY DEF SettingsInv, SettingsBounded, SettingsTypeOK, Settings
<1> QED
  BY <1>1, <1>2, SettingsStart, SettingsStep, SettingsBoundedStep, PTL DEF SettingsSpec

-----------------------------------------------------------------------------
(* The types of the openings and of the index, with their bounds.          *)

OpeningSteps ==
  {"shut", "open", "column", "alter", "version", "load", "update", "stale", "stamp",
   "drop", "unique", "cacheRows", "tokenRows", "clear", "fill"}

OpeningBounded ==
  /\ column \in BOOLEAN /\ unique \in BOOLEAN
  /\ row # NoRow => \A c \in Column : row.time[c] <= LastTick
  /\ \A p \in User : /\ user[p].at \in OpeningSteps
                     /\ user[p].at = "update" => \A c \in Column : user[p].time[c] <= LastTick
  /\ latest <= LastTick /\ changesMade \in 0 .. MaxChanges /\ breaks <= MaxBreaks

\* A step of p that takes up no time.
UserGoesTo(p, step) ==
  /\ step \in OpeningSteps /\ step # "update"
  /\ user' = [user EXCEPT ![p] = [at |-> step]]

LEMMA UserStepBounded ==
  ASSUME OpeningInv, OpeningBounded, NEW p \in User, NEW step, UserGoesTo(p, step)
  PROVE  \A q \in User : /\ user'[q].at \in OpeningSteps
                         /\ user'[q].at = "update" => \A c \in Column : user'[q].time[c] <= LastTick
<1>1. user = [q \in User |-> user[q]]
  BY DEF OpeningInv, OpeningTyped
<1>2. user'[p] = [at |-> step] /\ \A q \in User : q # p => user'[q] = user[q]
  BY <1>1 DEF UserGoesTo
<1> SUFFICES ASSUME NEW q \in User
             PROVE  /\ user'[q].at \in OpeningSteps
                    /\ user'[q].at = "update" => \A c \in Column : user'[q].time[c] <= LastTick
  OBVIOUS
<1>3. CASE q = p
  <2>1. user'[q].at = step
    BY <1>2, <1>3
  <2> QED
    BY <2>1 DEF UserGoesTo
<1>4. CASE q # p
  <2>1. user'[q] = user[q]
    BY <1>2, <1>4
  <2> QED
    BY <2>1 DEF OpeningBounded
<1> QED
  BY <1>3, <1>4

\* What the actions of an opening do to the rest.
OpeningRest ==
  /\ row' = row /\ latest' = latest /\ changesMade' = changesMade /\ breaks' = breaks
  /\ column' \in BOOLEAN /\ unique' \in BOOLEAN

LEMMA OpeningBoundedStep ==
  ASSUME OpeningInv, OpeningBounded, [OpeningNext]_openingVars
  PROVE  OpeningBounded'
<1>1. /\ MaxChanges \in Nat /\ MaxBreaks \in Nat /\ LastTick \in Nat /\ LastTick > 0
      /\ changesMade \in 0 .. MaxChanges /\ breaks \in Nat /\ breaks <= MaxBreaks
      /\ latest \in Nat /\ latest <= LastTick /\ column \in BOOLEAN /\ unique \in BOOLEAN
      /\ user = [q \in User |-> user[q]]
  BY OpeningAssumption DEF OpeningBounded, OpeningInv, OpeningTyped
<1>2. row # NoRow => row \in SessionRow /\ \A c \in Column : row.time[c] \in Nat /\ row.time[c] <= LastTick
  BY DEF OpeningBounded, OpeningInv, OpeningTyped, SessionRow
<1>3. ASSUME NEW p \in User, NEW step, UserGoesTo(p, step), OpeningRest
      PROVE  OpeningBounded'
  <2>1. \A q \in User : /\ user'[q].at \in OpeningSteps
                        /\ user'[q].at = "update" => \A c \in Column : user'[q].time[c] <= LastTick
    BY <1>3, UserStepBounded
  <2> QED
    BY <1>1, <1>3, <2>1 DEF OpeningBounded, OpeningRest
<1>4. ASSUME NEW p \in User, Open(p)
      PROVE  OpeningBounded'
  <2>1. /\ UserGoesTo(p, "column") /\ UNCHANGED <<row, latest, breaks, column, unique>>
        /\ changesMade' = changesMade + 1 /\ changesMade < MaxChanges
    BY <1>4 DEF Open, Step, Continue, UserGoesTo, OpeningSteps, dataVars, historyVars
  <2>2. \A q \in User : /\ user'[q].at \in OpeningSteps
                        /\ user'[q].at = "update" => \A c \in Column : user'[q].time[c] <= LastTick
    BY <2>1, UserStepBounded
  <2>3. changesMade' \in 0 .. MaxChanges
    BY <1>1, <2>1
  <2> QED
    BY <1>1, <2>1, <2>2, <2>3 DEF OpeningBounded
<1>5. ASSUME NEW p \in User, FindColumn(p)
      PROVE  OpeningBounded'
  <2>1. OpeningRest
    BY <1>1, <1>5 DEF FindColumn, OpeningRest, dataVars, historyVars
  <2>2. UserGoesTo(p, "version") \/ UserGoesTo(p, "alter")
    BY <1>5 DEF FindColumn, Step, Continue, UserGoesTo, OpeningSteps
  <2> QED
    BY <1>3, <2>1, <2>2
<1>6. ASSUME NEW p \in User, AddColumn(p)
      PROVE  OpeningBounded'
  <2>0. column' = TRUE
    BY <1>6 DEF AddColumn
  <2>1. column' \in BOOLEAN
    BY <2>0
  <2>2. OpeningRest
    BY <1>1, <1>6, <2>1 DEF AddColumn, OpeningRest, dataVars, historyVars
  <2>3. UserGoesTo(p, "version")
    BY <1>6 DEF AddColumn, Step, Continue, UserGoesTo, OpeningSteps
  <2> QED
    BY <1>3, <2>2, <2>3
<1>7. ASSUME NEW p \in User, ReadVersion(p)
      PROVE  OpeningBounded'
  <2>1. OpeningRest
    BY <1>1, <1>7 DEF ReadVersion, OpeningRest, dataVars, historyVars
  <2>2. UserGoesTo(p, "load") \/ UserGoesTo(p, "drop")
    BY <1>7 DEF ReadVersion, Step, Continue, UserGoesTo, OpeningSteps
  <2> QED
    BY <1>3, <2>1, <2>2
<1>8. ASSUME NEW p \in User, LoadTimes(p)
      PROVE  OpeningBounded'
  <2>1. OpeningRest
    BY <1>1, <1>8 DEF LoadTimes, OpeningRest, dataVars, historyVars
  <2>2. CASE UserGoesTo(p, "stale")
    BY <1>3, <2>1, <2>2
  <2>3. CASE row # NoRow /\ user' = [user EXCEPT ![p] = [at |-> "update", set |-> row.old, time |-> row.time]]
    <3>1. PICK next : next = [at |-> "update", set |-> row.old, time |-> row.time]
      OBVIOUS
    <3>2. next.at = "update" /\ next.time = row.time /\ user' = [user EXCEPT ![p] = next]
      BY <2>3, <3>1
    <3>3. \A q \in User : user'[q] = next \/ user'[q] = user[q]
      BY <1>1, <3>2
    <3>4. next.at \in OpeningSteps
      BY <3>2 DEF OpeningSteps
    <3>5. ASSUME NEW q \in User
          PROVE  /\ user'[q].at \in OpeningSteps
                 /\ user'[q].at = "update" => \A c \in Column : user'[q].time[c] <= LastTick
      <4>1. CASE user'[q] = next
        BY <1>2, <2>3, <3>2, <3>4, <4>1
      <4>2. CASE user'[q] = user[q]
        BY <4>2 DEF OpeningBounded
      <4> QED
        BY <3>3, <4>1, <4>2
    <3> QED
      BY <1>1, <2>1, <3>5 DEF OpeningBounded, OpeningRest
  <2> QED
    BY <1>8, <2>2, <2>3 DEF LoadTimes, UserGoesTo, OpeningSteps
<1>9. ASSUME NEW p \in User, NEW step, UserGoesTo(p, step),
             row' # NoRow => \A c \in Column : row'.time[c] <= LastTick,
             UNCHANGED <<column, unique, latest, changesMade, breaks>>
      PROVE  OpeningBounded'
  <2>1. \A q \in User : /\ user'[q].at \in OpeningSteps
                        /\ user'[q].at = "update" => \A c \in Column : user'[q].time[c] <= LastTick
    BY <1>9, UserStepBounded
  <2> QED
    BY <1>1, <1>9, <2>1 DEF OpeningBounded
<1>10. ASSUME NEW p \in User, UpdateTimes(p)
       PROVE  OpeningBounded'
  <2>1. /\ UserGoesTo(p, "stale") /\ UNCHANGED <<column, unique, latest, changesMade, breaks>>
        /\ user[p].at = "update"
    BY <1>10 DEF UpdateTimes, Step, Continue, UserGoesTo, OpeningSteps, historyVars
  <2>2. row # NoRow /\ row \in SessionRow
    BY <1>2, <2>1 DEF OpeningInv, FormatsInv
  <2>3. \A c \in Column : user[p].time[c] <= LastTick
    BY <2>1 DEF OpeningBounded
  <2>4. PICK set : row' = [row EXCEPT !.time = [c \in Column |-> IF c \in set THEN user[p].time[c] ELSE @[c]],
                                      !.old = @ \ set]
    BY <1>10 DEF UpdateTimes
  <2>5. \A c \in Column : row'.time[c] = user[p].time[c] \/ row'.time[c] = row.time[c]
    BY <2>2, <2>4 DEF SessionRow
  <2>6. \A c \in Column : row'.time[c] <= LastTick
    BY <1>2, <2>2, <2>3, <2>5
  <2> QED
    BY <1>9, <2>1, <2>6
<1>11. row # NoRow => EndsLate \in SessionRow
                      /\ \A c \in Column : EndsLate.time[c] <= LastTick
  <2> SUFFICES ASSUME row # NoRow
               PROVE  EndsLate \in SessionRow
                      /\ \A c \in Column : EndsLate.time[c] <= LastTick
    OBVIOUS
  <2>1. PICK t : t = row.time
    OBVIOUS
  <2>2. t \in [Column -> Nat] /\ {"start", "last", "end"} = Column /\ \A c \in Column : t[c] <= LastTick
    BY <1>2, <2>1 DEF SessionRow, Column
  <2>3. EndsLate = [row EXCEPT !.time = [t EXCEPT !["end"] = t["last"]],
                               !.old = IF "last" \in @ THEN @ \cup {"end"} ELSE @ \ {"end"}]
    BY <2>1 DEF EndsLate
  <2>4. EndsLate.time = [t EXCEPT !["end"] = t["last"]] /\ EndsLate.old \in SUBSET Column
    BY <1>2, <2>2, <2>3 DEF SessionRow
  <2>5. EndsLate = [status |-> row.status, time |-> EndsLate.time, old |-> EndsLate.old]
    <3>1. row = [status |-> row.status, time |-> row.time, old |-> row.old]
      BY <1>2 DEF SessionRow
    <3>2. PICK s, o : s = row.status /\ o = row.old
      OBVIOUS
    <3>3. row = [status |-> s, time |-> t, old |-> o]
      BY <2>1, <3>1, <3>2
    <3>4. EndsLate = [status |-> s, time |-> [t EXCEPT !["end"] = t["last"]],
                      old |-> IF "last" \in o THEN o \cup {"end"} ELSE o \ {"end"}]
      BY <2>3, <3>3
    <3> QED
      BY <3>2, <3>4
  <2>7. row.status \in {"active", "ended", "stale"}
    BY <1>2 DEF SessionRow
  <2>6. EndsLate.time \in [Column -> Nat] /\ \A c \in Column : EndsLate.time[c] <= LastTick
    BY <2>2, <2>4
  <2> QED
    BY <2>4, <2>5, <2>6, <2>7 DEF SessionRow
<1>12. ASSUME NEW p \in User, EndStale(p)
       PROVE  OpeningBounded'
  <2>1. UserGoesTo(p, "stamp") /\ UNCHANGED <<column, unique, latest, changesMade, breaks>>
    BY <1>12 DEF EndStale, Step, Continue, UserGoesTo, OpeningSteps, historyVars
  <2>2. row' = row \/ (row # NoRow /\ row' = EndsLate)
    BY <1>12 DEF EndStale
  <2>3. row' # NoRow => \A c \in Column : row'.time[c] <= LastTick
    <3>1. CASE row' = row
      BY <1>2, <3>1
    <3>2. CASE row # NoRow /\ row' = EndsLate
      BY <1>11, <3>2
    <3> QED
      BY <2>2, <3>1, <3>2
  <2> QED
    BY <1>9, <2>1, <2>3
<1>13. ASSUME NEW p \in User, SetVersion(p)
       PROVE  OpeningBounded'
  <2>1. OpeningRest
    BY <1>1, <1>13 DEF SetVersion, OpeningRest, dataVars, historyVars
  <2>2. UserGoesTo(p, "drop")
    BY <1>13 DEF SetVersion, Step, Continue, UserGoesTo, OpeningSteps
  <2> QED
    BY <1>3, <2>1, <2>2
<1>14. ASSUME NEW p \in User, DropIndex(p)
       PROVE  OpeningBounded'
  <2>0. unique' = FALSE
    BY <1>14 DEF DropIndex
  <2>1. unique' \in BOOLEAN
    BY <2>0
  <2>2. OpeningRest
    BY <1>1, <1>14, <2>1 DEF DropIndex, OpeningRest, dataVars, historyVars
  <2>3. UserGoesTo(p, "unique")
    BY <1>14 DEF DropIndex, Step, Continue, UserGoesTo, OpeningSteps
  <2> QED
    BY <1>3, <2>2, <2>3
<1>15. ASSUME NEW p \in User, CreateIndex(p)
       PROVE  OpeningBounded'
  <2>0. unique' = unique \/ unique' = TRUE
    BY <1>15 DEF CreateIndex
  <2>1. unique' \in BOOLEAN
    BY <1>1, <2>0
  <2>2. OpeningRest
    BY <1>1, <1>15, <2>1 DEF CreateIndex, OpeningRest, dataVars, historyVars
  <2>3. UserGoesTo(p, "shut") \/ UserGoesTo(p, "cacheRows")
    BY <1>15 DEF CreateIndex, Step, Continue, UserGoesTo, OpeningSteps
  <2> QED
    BY <1>3, <2>2, <2>3
<1>16. ASSUME NEW p \in User, CountCache(p) \/ CountTokens(p) \/ ClearCache(p) \/ FillCache(p) \/ Close(p)
       PROVE  OpeningBounded'
  <2>1. OpeningRest
    BY <1>1, <1>16 DEF CountCache, CountTokens, ClearCache, FillCache, Close, OpeningRest, dataVars, historyVars
  <2>2. \E step : UserGoesTo(p, step)
    <3>1. CASE CountCache(p)
      BY <3>1 DEF CountCache, Step, Continue, UserGoesTo, OpeningSteps
    <3>2. CASE CountTokens(p)
      BY <3>2 DEF CountTokens, Step, Continue, UserGoesTo, OpeningSteps
    <3>3. CASE ClearCache(p)
      BY <3>3 DEF ClearCache, Step, Continue, UserGoesTo, OpeningSteps
    <3>4. CASE FillCache(p)
      BY <3>4 DEF FillCache, Step, Continue, UserGoesTo, OpeningSteps
    <3>5. CASE Close(p)
      BY <3>5 DEF Close, Step, Continue, UserGoesTo, OpeningSteps
    <3> QED
      BY <1>16, <3>1, <3>2, <3>3, <3>4, <3>5
  <2> QED
    BY <1>3, <2>1, <2>2
<1>17. ASSUME NEW p \in User, Breaks(p)
       PROVE  OpeningBounded'
  <2>1. /\ UNCHANGED <<column, unique, row, latest, changesMade>> /\ breaks < MaxBreaks /\ breaks' = breaks + 1
        /\ UserGoesTo(p, "shut") \/ UserGoesTo(p, "version")
    BY <1>17 DEF Breaks, Step, Continue, UserGoesTo, OpeningSteps, dataVars, historyVars
  <2>2. \A q \in User : /\ user'[q].at \in OpeningSteps
                        /\ user'[q].at = "update" => \A c \in Column : user'[q].time[c] <= LastTick
    BY <2>1, UserStepBounded
  <2>3. breaks' <= MaxBreaks
    BY <1>1, <2>1
  <2> QED
    BY <1>1, <2>1, <2>2, <2>3 DEF OpeningBounded
<1>18. ASSUME user' = user, UNCHANGED <<column, unique, breaks>>, changesMade' \in 0 .. MaxChanges,
              latest' <= LastTick, row' # NoRow => \A c \in Column : row'.time[c] <= LastTick
       PROVE  OpeningBounded'
  BY <1>1, <1>18 DEF OpeningBounded
<1>19. Writes => changesMade' \in 0 .. MaxChanges
  BY <1>1 DEF Writes
<1>20. ASSUME NEW t \in 1 .. LastTick, Upsert(t)
       PROVE  OpeningBounded'
  <2>1. /\ Writes /\ UNCHANGED <<column, unique, user, breaks>> /\ (latest' = t \/ latest' = latest)
        /\ t \in Nat /\ t <= LastTick
    BY <1>1, <1>20 DEF Upsert
  <2>2. \A c \in Column : row'.time[c] <= LastTick
    <3>1. CASE row = NoRow
      <4>1. row'.time = [start |-> t, last |-> t, end |-> NoValue]
        BY <1>20, <3>1 DEF Upsert
      <4> QED
        BY <1>1, <2>1, <4>1 DEF Column, NoValue
    <3>2. CASE row # NoRow
      <4>1. PICK o : o = row.time
        OBVIOUS
      <4>2. \E n : /\ row'.time = [start |-> IF o["start"] > t THEN t ELSE o["start"],
                                   last |-> IF o["last"] < t THEN t ELSE o["last"], end |-> n]
                   /\ n = NoValue \/ n = o["end"]
        BY <1>20, <3>2, <4>1 DEF Upsert
      <4>3. \A c \in Column : o[c] \in Nat /\ o[c] <= LastTick
        BY <1>2, <3>2, <4>1
      <4> QED
        BY <1>1, <2>1, <4>2, <4>3 DEF Column, NoValue
    <3> QED
      BY <3>1, <3>2
  <2>3. latest' <= LastTick
    BY <1>1, <2>1
  <2> QED
    BY <1>18, <1>19, <2>1, <2>2, <2>3
<1>21. CASE MarkStale
  <2>1. /\ Writes /\ UNCHANGED <<column, unique, user, breaks, latest>> /\ row # NoRow
        /\ row' = [EndsLate EXCEPT !.status = "stale"]
    BY <1>21 DEF MarkStale, historyVars
  <2>2. row'.time = EndsLate.time
    BY <1>11, <2>1 DEF SessionRow
  <2>3. \A c \in Column : row'.time[c] <= LastTick
    BY <1>11, <2>1, <2>2
  <2> QED
    BY <1>1, <1>18, <1>19, <2>1, <2>3
<1>22. ASSUME NEW d \in CacheDay, InsertTokens(d)
       PROVE  OpeningBounded'
  <2>1. Writes /\ UNCHANGED <<column, unique, user, breaks, latest, row>>
    BY <1>22 DEF InsertTokens
  <2> QED
    BY <1>1, <1>2, <1>18, <1>19, <2>1
<1>23. ASSUME NEW s \in ChangeId, InsertChange(s)
       PROVE  OpeningBounded'
  <2>1. Writes /\ UNCHANGED <<column, unique, user, breaks, latest, row>>
    BY <1>23 DEF InsertChange
  <2> QED
    BY <1>1, <1>2, <1>18, <1>19, <2>1
<1>24. CASE UNCHANGED openingVars
  BY <1>1, <1>2, <1>18, <1>24 DEF openingVars, dataVars, historyVars
<1> QED
  BY <1>4, <1>5, <1>6, <1>7, <1>8, <1>10, <1>12, <1>13, <1>14, <1>15, <1>16, <1>17, <1>20, <1>21,
     <1>22, <1>23, <1>24 DEF OpeningNext

LEMMA OpeningTypesHold == MigrationSpec => []OpeningTypeOK
<1>1. OpeningInit => OpeningBounded
  <2> SUFFICES ASSUME OpeningInit PROVE OpeningBounded
    OBVIOUS
  <2>1. /\ MaxChanges \in Nat /\ MaxBreaks \in Nat /\ LastTick \in Nat /\ LastTick > 0
    BY OpeningAssumption
  <2>2. column = FALSE /\ unique \in BOOLEAN /\ latest = 0 /\ changesMade = 0 /\ breaks = 0
    BY DEF OpeningInit
  <2>3. column \in BOOLEAN
    BY <2>2
  <2>4. \A p \in User : user[p].at = "shut"
    BY DEF OpeningInit, NotOpen
  <2>5. row # NoRow => \E n \in {1, NoValue} : row.time = [start |-> 1, last |-> 1, end |-> n]
    BY DEF OpeningInit
  <2>6. row # NoRow => \A c \in Column : row.time[c] <= LastTick
    BY <2>1, <2>5 DEF Column, NoValue
  <2> QED
    BY <2>1, <2>2, <2>3, <2>4, <2>6 DEF OpeningBounded, OpeningSteps
<1>2. OpeningInv /\ OpeningBounded => OpeningTypeOK
  <2> SUFFICES ASSUME OpeningInv, OpeningBounded PROVE OpeningTypeOK
    OBVIOUS
  <2>1. LastTick \in Nat /\ MaxBreaks \in Nat /\ breaks \in Nat /\ breaks <= MaxBreaks
        /\ latest \in Nat /\ latest <= LastTick
    BY OpeningAssumption DEF OpeningInv, OpeningTyped, OpeningBounded
  <2>2. row # NoRow => /\ row.status \in {"active", "ended", "stale"}
                       /\ row.time \in [Column -> NoValue .. LastTick] /\ row.old \subseteq Column
    <3> SUFFICES ASSUME row # NoRow
                 PROVE  /\ row.status \in {"active", "ended", "stale"}
                        /\ row.time \in [Column -> NoValue .. LastTick] /\ row.old \subseteq Column
      OBVIOUS
    <3>1. row \in SessionRow /\ \A c \in Column : row.time[c] <= LastTick
      BY DEF OpeningInv, OpeningTyped, OpeningBounded
    <3>2. row.time \in [Column -> Nat]
      BY <3>1 DEF SessionRow
    <3>3. row.time \in [Column -> NoValue .. LastTick]
      BY <2>1, <3>1, <3>2 DEF NoValue
    <3> QED
      BY <3>1, <3>3 DEF SessionRow
  <2> QED
    BY <2>1, <2>2 DEF OpeningInv, OpeningTyped, OpeningBounded, OpeningTypeOK, OpeningSteps
<1> QED
  BY <1>1, <1>2, OpeningStart, OpeningStep, OpeningBoundedStep, PTL DEF MigrationSpec

-----------------------------------------------------------------------------
SearchBounded ==
  /\ up \in {"down", "up", "blind"}
  /\ seen \in 0 .. MaxSeen /\ failures \in 0 .. MaxFailures

LEMMA SearchBoundedStep ==
  ASSUME SearchBounded, [SearchNext]_searchVars
  PROVE  SearchBounded'
<1>1. MaxSeen \in Nat /\ MaxFailures \in Nat
  BY SearchAssumption
<1>2. up' \in {up, "down", "up", "blind"}
  <2>1. ASSUME NEW g \in Handler, \/ \E what \in {"start", "end"}, i \in Item, t \in Text \cup {NoText},
                                        path \in Text \cup {NoText} : EventComes(g, what, i, t, path)
                                  \/ CallStarts(g) \/ CallEnds(g) \/ SelectCall(g) \/ Index(g)
                                  \/ FileChanges(g) \/ HandlerFails(g)
        PROVE  up' = up
    BY <2>1 DEF EventComes, CallStarts, CallEnds, SelectCall, Index, FileChanges, HandlerFails
  <2>2. ASSUME NEW s, Clean(s) \/ \E p \in Command : CleanBlind(p, s) PROVE up' = up
    BY <2>2 DEF Clean, CleanBlind, CleanRows
  <2>3. ASSUME NEW p \in Opener,
               \/ OpenIndex(p) \/ CountSources(p) \/ CountRows(p) \/ ReadIndexVersion(p) \/ DeleteIndex(p)
               \/ LoadRows(p) \/ FillRow(p) \/ Filled(p) \/ Stamp(p) \/ OpenerFails(p)
        PROVE  up' \in {up, "up", "blind"}
    BY <2>3 DEF OpenIndex, CountSources, CountRows, ReadIndexVersion, DeleteIndex, LoadRows, FillRow,
                Filled, Stamp, OpenerFails, Finish, Advance
  <2>4. Killed => up' = "down"
    BY DEF Killed
  <2>5. UNCHANGED searchVars => up' = up
    BY DEF searchVars
  <2> QED
    BY <2>1, <2>2, <2>3, <2>4, <2>5 DEF SearchNext
<1>3. seen' = seen \/ (seen < MaxSeen /\ seen' = seen + 1)
  <2>1. ASSUME NEW g \in Handler, \/ \E what \in {"start", "end"}, i \in Item, t \in Text \cup {NoText},
                                        path \in Text \cup {NoText} : EventComes(g, what, i, t, path)
                                  \/ CallStarts(g) \/ CallEnds(g) \/ SelectCall(g) \/ Index(g)
                                  \/ FileChanges(g) \/ HandlerFails(g)
        PROVE  seen' = seen \/ (seen < MaxSeen /\ seen' = seen + 1)
    BY <2>1 DEF EventComes, CallStarts, CallEnds, SelectCall, Index, FileChanges, HandlerFails
  <2>2. ASSUME NEW s, Clean(s) \/ \E p \in Command : CleanBlind(p, s) PROVE seen' = seen
    BY <2>2 DEF Clean, CleanBlind, CleanRows
  <2>3. ASSUME NEW p \in Opener,
               \/ OpenIndex(p) \/ CountSources(p) \/ CountRows(p) \/ ReadIndexVersion(p) \/ DeleteIndex(p)
               \/ LoadRows(p) \/ FillRow(p) \/ Filled(p) \/ Stamp(p) \/ OpenerFails(p)
        PROVE  seen' = seen \/ (seen < MaxSeen /\ seen' = seen + 1)
    BY <2>3 DEF OpenIndex, CountSources, CountRows, ReadIndexVersion, DeleteIndex, LoadRows, FillRow,
                Filled, Stamp, OpenerFails
  <2>4. Killed \/ UNCHANGED searchVars => seen' = seen
    BY DEF Killed, searchVars
  <2> QED
    BY <2>1, <2>2, <2>3, <2>4 DEF SearchNext
<1>4. failures' = failures \/ (failures < MaxFailures /\ failures' = failures + 1)
  <2>1. ASSUME NEW g \in Handler, \/ \E what \in {"start", "end"}, i \in Item, t \in Text \cup {NoText},
                                        path \in Text \cup {NoText} : EventComes(g, what, i, t, path)
                                  \/ CallStarts(g) \/ CallEnds(g) \/ SelectCall(g) \/ Index(g)
                                  \/ FileChanges(g) \/ HandlerFails(g)
        PROVE  failures' = failures \/ (failures < MaxFailures /\ failures' = failures + 1)
    BY <2>1 DEF EventComes, CallStarts, CallEnds, SelectCall, Index, FileChanges, HandlerFails
  <2>2. ASSUME NEW s, Clean(s) \/ \E p \in Command : CleanBlind(p, s) PROVE failures' = failures
    BY <2>2 DEF Clean, CleanBlind, CleanRows
  <2>3. ASSUME NEW p \in Opener,
               \/ OpenIndex(p) \/ CountSources(p) \/ CountRows(p) \/ ReadIndexVersion(p) \/ DeleteIndex(p)
               \/ LoadRows(p) \/ FillRow(p) \/ Filled(p) \/ Stamp(p) \/ OpenerFails(p)
        PROVE  failures' = failures \/ (failures < MaxFailures /\ failures' = failures + 1)
    BY <2>3 DEF OpenIndex, CountSources, CountRows, ReadIndexVersion, DeleteIndex, LoadRows, FillRow,
                Filled, Stamp, OpenerFails
  <2>4. Killed \/ UNCHANGED searchVars => failures' = failures \/ (failures < MaxFailures /\ failures' = failures + 1)
    BY DEF Killed, searchVars
  <2> QED
    BY <2>1, <2>2, <2>3, <2>4 DEF SearchNext
<1> QED
  BY <1>1, <1>2, <1>3, <1>4 DEF SearchBounded

LEMMA SearchTypesHold == IndexSpec => []SearchTypeOK
<1>1. SearchInit => SearchBounded
  BY SearchAssumption DEF SearchInit, SearchBounded
<1>2. SearchInv /\ SearchBounded => SearchTypeOK
  <2> SUFFICES ASSUME SearchInv, SearchBounded PROVE SearchTypeOK
    OBVIOUS
  <2>1. SearchTyped
    BY DEF SearchInv
  <2>2. \A g \in Handler : handler[g].pc \in {"idle", "act", "select", "index", "file"}
    BY <2>1 DEF SearchTyped, Work, Free
  <2>3. \A p \in Opener : opener[p].pc \in {"shut", "sources", "rows", "version", "delete", "tools",
                                            "fillTools", "files", "fillFiles", "stamp", "blind"}
    BY <2>1 DEF SearchTyped, Visit
  <2> QED
    BY <2>1, <2>2, <2>3 DEF SearchTyped, SearchBounded, SearchTypeOK, Words
<1> QED
  BY <1>1, <1>2, SearchStart, SearchStep, SearchBoundedStep, PTL DEF IndexSpec

-----------------------------------------------------------------------------
(* The services taken together.                                            *)

\* A step of the services is a step of one of them, and of no other.
LEMMA Separate ==
  ASSUME [Next]_vars
  PROVE  /\ [RotationNext]_rotationVars /\ [BackupsNext]_backupVars
         /\ [LineNext \/ PriceNext]_cacheVars
         /\ [SettingsNext]_settingsVars /\ [SingletonNext]_singletonVars
BY DEF Next, vars, fileVars, databaseVars, FileNext, DatabaseNext, AlarmNext, ReportNext

LEMMA Parts ==
  Spec => RotationSpec /\ BackupsSpec /\ CachesSpec /\ SettingsSpec /\ SingletonSpec
<1>1. Init => RotationInit /\ BackupsInit /\ CachesInit /\ SettingsInit /\ SingletonInit
  BY DEF Init
<1> QED
  BY <1>1, Separate, PTL DEF Spec, RotationSpec, BackupsSpec, CachesSpec, SettingsSpec, SingletonSpec

\* The daemon's log, the database and its backups, and the settings of Claude
\* Code survive whatever the run of the services lets happen to them.
\* Neither do they make two daemons of one, nor stale lines and prices.
THEOREM FilesKept == Spec => [](FilesSurvive /\ OneDaemon /\ BoundedStaleness)
<1>1. LogIsSuffix /\ DataSurvives /\ HooksInPlace => FilesSurvive
  BY DEF FilesSurvive, On
<1> QED
  BY <1>1, Parts, LogKept, SurvivalCorrect, HooksKept, StalenessBounded, OneDaemonCorrect, PTL

LEMMA AlarmsSeparate ==
  ASSUME [Next]_vars
  PROVE  [MoneyNext \/ ToolsNext]_alertVars /\ [WebhookNext]_hookVars /\ [StreamNext]_streamVars
BY DEF Next, vars, alarmVars, FileNext, DatabaseNext, AlarmNext, ReportNext

\* Whatever runs of the services, an alarm has been raised for each crossing
\* and no other, every delivery is decided once, and every screen is faithful.
THEOREM AlarmsHold == Spec => [](AlertsMatchCrossings /\ DeliveryDecided /\ StreamFaithful)
<1>1. Init => AlertsInit /\ WebhookInit /\ StreamInit
  BY DEF Init
<1>2. Spec => AlertsSpec /\ WebhookSpec /\ StreamSpec
  BY <1>1, AlarmsSeparate, PTL DEF Spec, AlertsSpec, WebhookSpec, StreamSpec
<1> QED
  BY <1>2, CrossingsMatched, DecidedCorrect, StreamsFaithful, PTL

LEMMA DatabaseApart ==
  ASSUME [Next]_vars
  PROVE  [OpeningNext]_openingVars /\ [SearchNext]_searchVars
BY DEF Next, vars, databaseVars, DatabaseNext, AlarmNext, FileNext, ReportNext

\* In every run of the services, what an opening is there to do is done, and
\* the two ways to search agree.
THEOREM DatabaseHolds == Spec => [](OpeningHolds /\ SearchAgrees)
<1>1. Init => OpeningInit /\ SearchInit
  BY DEF Init
<1>2. Spec => MigrationSpec /\ IndexSpec
  BY <1>1, DatabaseApart, PTL DEF Spec, MigrationSpec, IndexSpec
<1>3. OpeningKeeps /\ SearchesAgree => OpeningHolds /\ SearchAgrees
  BY DEF OpeningHolds, SearchAgrees, On
<1> QED
  BY <1>2, <1>3, OpeningsKeep, SearchesMeet, PTL

\* The first of the two: whoever opens the database, in every run of the
\* services.
THEOREM OpeningsHold == Spec => []OpeningHolds
BY DatabaseHolds, PTL

LEMMA ReportsHold ==
  ASSUME RowsTyped(stored), Apart(stored), ScannedInv
  PROVE  ReportsAgree
BY SqlMatches, RowsPricedAlike, DaysAreComplete DEF ReportsAgree

LEMMA ScanKeeps ==
  ASSUME ScannedInv, NEW k \in Kind, NEW ts \in 0 .. LastInstant, k.sess \notin Listed, Scan(k, ts)
  PROVE  ScannedInv'
<1> DEFINE r == RowOf(k, ts, scanned, MaxScanned)
           c == r.copy
<1>1. Cardinality(scanned) < MaxScanned /\ scanned' = scanned \cup {r}
  BY DEF Scan
<1>2. MaxScanned \in Nat /\ IsFiniteSet(scanned) /\ ts \in Int
  BY PricesAssumption, LengthsPositive DEF ScannedInv
<1>3. /\ r = [sess |-> k.sess, model |-> k.model, tok |-> k.tok, cost |-> k.cost, ts |-> ts, copy |-> c]
      /\ c \in 1 .. MaxScanned
  BY <1>1, <1>2, RowOfIs
<1>4. k.tok \in Nat /\ k.cost \in Nat
  BY CostsAssumption
<1> HIDE DEF r, c
<1>5. r.tok \in Nat /\ r.cost \in Nat /\ r.ts \in 0 .. LastInstant /\ r.copy \in 1 .. MaxScanned /\ r.sess \notin Listed
  BY <1>3, <1>4
<1>6. IsFiniteSet(scanned \cup {r})
  BY <1>2, FS_AddElement
<1>7. ASSUME NEW e \in scanned \cup {r}
      PROVE  /\ e.tok \in Nat /\ e.cost \in Nat /\ e.ts \in 0 .. LastInstant
             /\ e.copy \in 1 .. MaxScanned /\ e.sess \notin Listed
  <2>1. CASE e = r
    BY <1>5, <2>1
  <2>2. CASE e \in scanned
    BY <2>2 DEF ScannedInv
  <2> QED
    BY <2>1, <2>2
<1> QED
  BY <1>1, <1>6, <1>7 DEF ScannedInv

QueriesInv == side \in {"costs", "reports"} => CostsInv /\ ScannedInv

LEMMA QueriesStart == Init => QueriesInv
<1> SUFFICES ASSUME Init, side \in {"costs", "reports"} PROVE CostsInv /\ ScannedInv
  BY DEF QueriesInv
<1>1. CASE side = "costs"
  <2>1. CostsInitAt(0) /\ 0 \in 0 .. LastInstant /\ scanned = {}
    BY <1>1, LengthsPositive DEF Init, CostsInit
  <2> QED
    BY <2>1, CostsStart, FS_EmptySet DEF ScannedInv
<1>2. CASE side = "reports"
  <2>1. CostsInitAt(LastInstant) /\ LastInstant \in 0 .. LastInstant /\ scanned = {}
    BY <1>2, LengthsPositive DEF Init, ReportsInit
  <2> QED
    BY <2>1, CostsStart, FS_EmptySet DEF ScannedInv
<1> QED
  BY <1>1, <1>2

LEMMA QueriesStep == QueriesInv /\ [Next]_vars => QueriesInv'
<1> SUFFICES ASSUME QueriesInv, [Next]_vars, side' \in {"costs", "reports"} PROVE (CostsInv /\ ScannedInv)'
  BY DEF QueriesInv
<1>1. side' = side
  BY DEF Next, vars
<1>2. CostsInv /\ ScannedInv
  BY <1>1 DEF QueriesInv
<1>3. ASSUME UNCHANGED scanned PROVE ScannedInv'
  BY <1>2, <1>3 DEF ScannedInv
<1>4. CASE ReportNext
  <2>1. CASE ReadersNext /\ UNCHANGED <<costVars, scanned>>
    BY <1>2, <1>3, <2>1, CostsStutters
  <2>2. CASE CostsNext /\ UNCHANGED scanned
    BY <1>2, <1>3, <2>2, CostsStep
  <2>3. CASE ReportsNext
    <3>1. ASSUME NEW k \in Kind, NEW ts \in 0 .. LastInstant, InsertUsage(k, ts), UNCHANGED scanned
          PROVE  (CostsInv /\ ScannedInv)'
      BY <1>2, <1>3, <3>1, InsertKeeps
    <3>2. ASSUME NEW k \in Kind, NEW ts \in 0 .. LastInstant, k.sess \notin Listed, Scan(k, ts)
          PROVE  (CostsInv /\ ScannedInv)'
      <4>1. ScannedInv'
        BY <1>2, <3>2, ScanKeeps
      <4>2. UNCHANGED costVars
        BY <3>2 DEF Scan
      <4> QED
        BY <1>2, <4>1, <4>2, CostsStutters
    <3> QED
      BY <2>3, <3>1, <3>2 DEF ReportsNext
  <2> QED
    BY <1>4, <2>1, <2>2, <2>3 DEF ReportNext
<1>5. CASE UNCHANGED reportVars
  <2>1. UNCHANGED costVars /\ UNCHANGED scanned
    BY <1>5 DEF reportVars
  <2> QED
    BY <1>2, <1>3, <2>1, CostsStutters
<1> QED
  BY <1>4, <1>5 DEF Next, vars

LEMMA QueriesHold ==
  ASSUME QueriesInv
  PROVE  /\ QueriesAddUp
         /\ On({"costs", "reports"}, CostsTypeOK) /\ On({"reports"}, ScannedTypeOK)
<1>1. ASSUME side \in {"costs", "reports"} PROVE PagesAddUp /\ CostsTypeOK /\ ScannedTypeOK /\ ReportsAgree
  <2>1. CostsInv /\ ScannedInv
    BY <1>1 DEF QueriesInv
  <2>2. RowsTyped(stored) /\ Apart(stored)
    BY <2>1 DEF CostsInv
  <2>3. ScannedTypeOK
    BY <2>1 DEF ScannedInv, ScannedTypeOK
  <2> QED
    BY <2>1, <2>2, <2>3, InvAddsUp, ReportsHold
<1> QED
  BY <1>1 DEF QueriesAddUp, On

\* In every run of the services, each number on a page of the dashboard is off
\* by no more than what was written while the page was served, and the reports
\* of the command line, made in four ways, agree with one another and the rows.
THEOREM QueriesServed == Spec => []QueriesAddUp
<1>1. QueriesInv => QueriesAddUp
  BY QueriesHold
<1> QED
  BY <1>1, QueriesStart, QueriesStep, PTL DEF Spec

-----------------------------------------------------------------------------
(* The types of all the services.                                          *)

LEMMA ReadersApart ==
  ASSUME [Next]_vars
  PROVE  [ReadersNext]_readerVars
BY DEF Next, vars, reportVars, ReportNext, AlarmNext, FileNext, DatabaseNext

LEMMA AlarmTypes == Spec => [](AlertsTypeOK /\ WebhookTypeOK /\ StreamTypeOK)
<1>1. Init => AlertsInit /\ WebhookInit /\ StreamInit
  BY DEF Init
<1>2. Spec => AlertsSpec /\ WebhookSpec /\ StreamSpec
  BY <1>1, AlarmsSeparate, PTL DEF Spec, AlertsSpec, WebhookSpec, StreamSpec
<1> QED
  BY <1>2, AlertsTypesHold, WebhookTypesHold, StreamTypesHold, PTL

LEMMA FileTypes ==
  Spec => [](RotationTypeOK /\ BackupsTypeOK /\ CachesTypeOK /\ SettingsTypeOK /\ SingletonTypeOK)
BY Parts, RotationTypes, BackupsTypesHold, CachesTypesHold, SettingsTypesHold, SingletonTypes, PTL

LEMMA DatabaseTypes == Spec => [](OpeningTypeOK /\ SearchTypeOK /\ ReadersTypeOK)
<1>1. Init => OpeningInit /\ SearchInit /\ ReadersInit
  BY DEF Init
<1>2. Spec => MigrationSpec /\ IndexSpec /\ ReadersSpec
  BY <1>1, DatabaseApart, ReadersApart, PTL DEF Spec, MigrationSpec, IndexSpec, ReadersSpec
<1> QED
  BY <1>2, OpeningTypesHold, SearchTypesHold, ReadersTypesHold, PTL

LEMMA QueryTypes ==
  Spec => [](On({"costs", "reports"}, CostsTypeOK) /\ On({"reports"}, ScannedTypeOK))
<1>1. QueriesInv => On({"costs", "reports"}, CostsTypeOK) /\ On({"reports"}, ScannedTypeOK)
  BY QueriesHold
<1> QED
  BY <1>1, QueriesStart, QueriesStep, PTL DEF Spec

\* In every run of the services, each record an agent left on disk is read as
\* one entry with the tokens that were used and the model in force.
THEOREM RecordsHold == Spec => []RecordsCounted
<1>1. Init => ReadersInit
  BY DEF Init
<1>2. Spec => ReadersSpec
  BY <1>1, ReadersApart, PTL DEF Spec, ReadersSpec
<1>3. RecordsFaithful => RecordsCounted
  BY DEF RecordsCounted, On
<1> QED
  BY <1>2, <1>3, RecordsAreFaithful, PTL

\* Every service keeps its state within its types and its counters within
\* their bounds: a rotation counts no file twice, a queue no more than it
\* holds, an opening and a caller stand at a step there is, a record on an
\* agent's disk is of a message it sent.
THEOREM TypesCorrect == Spec => []TypeOK
<1>1. /\ AlertsTypeOK /\ WebhookTypeOK /\ StreamTypeOK
      /\ RotationTypeOK /\ BackupsTypeOK /\ CachesTypeOK /\ SettingsTypeOK /\ SingletonTypeOK
      /\ OpeningTypeOK /\ SearchTypeOK /\ ReadersTypeOK
      /\ On({"costs", "reports"}, CostsTypeOK) /\ On({"reports"}, ScannedTypeOK)
      => TypeOK
  BY DEF TypeOK, On
<1> QED
  BY <1>1, AlarmTypes, FileTypes, DatabaseTypes, QueryTypes, PTL

=============================================================================
