---------------------------- MODULE CodexWatcher ----------------------------
(***************************************************************************)
(* The polling goroutine that reads Codex rollout files: a first discovery *)
(* of every file by a pool of workers, then, every three seconds, the      *)
(* files it knows and the directories of the last three days.              *)
(*                                                                         *)
(* Besides offsets it carries context from one scan to the next: the model *)
(* of each session, tool calls whose output has not come yet, and the      *)
(* start of a session that has done nothing so far.  The last cumulative   *)
(* total of a session is carried within a scan only.                       *)
(*                                                                         *)
(* A file is a growing prefix of its script.  Token counts are one number  *)
(* (the code subtracts five of them field by field); an emitted event is   *)
(* stored at once, by source, because nothing is ever withdrawn.           *)
(***************************************************************************)
EXTENDS JsonLines, Sums, SequencesExt

CONSTANTS
  Rollout,     \* rollout files
  SessOf,      \* SessOf[p]: the session in the name of p
  Scenarios,   \* what may be written: scenario[p] is a sequence of lines
  CallId,      \* ids of function calls
  NoModel,
  Fallback,    \* "gpt-5"
  GcInterval,  \* scans between two gcPending (10)
  CodexUpsets  \* bound: removals, truncations, days, pauses of two hours
               \* and ends of the process in one behaviour

AllLines == UNION {ToSet(f[p]) : f \in Scenarios, p \in Rollout}
UsageKinds == {"total", "last", "exec"}
NamedModels == {l.model : l \in {x \in AllLines : x.kind \in UsageKinds \cup {"context"}}}

ASSUME CodexAssumption ==
  /\ Scenarios \subseteq [Rollout -> Seq(AllLines)]
  /\ \A l \in AllLines :
       /\ l.kind \in UsageKinds \cup {"meta", "context", "call", "output", "patch", "other", "garbage"}
       /\ l.kind \in {"total", "last"} => l.total \in Nat
       /\ l.kind = "last" => l.last \in Nat
       /\ l.kind = "exec" => l.n \in Nat
       /\ l.kind \in {"call", "output", "patch"} => l.id \in CallId
       /\ l.kind \in {"output", "patch"} => l.ok \in BOOLEAN
  /\ NoModel # Fallback
  /\ GcInterval \in Nat \ {0} /\ CodexUpsets \in Nat

VARIABLES
  script,       \* script[p]: the lines p will have
  grown,        \* grown[p]: its size
  where,        \* where[p]: a recent directory, another one, or removed
  codexSeen,    \* seen[p], or Unseen
  discovered,   \* initialDiscovery
  models,       \* sessionModels
  pendingCalls, \* pendingFileChanges: age of each entry
  pendingStarts,\* sessions whose SessionStart is deferred
  scanCount,    \* modulo GcInterval
  codexPass,    \* what the polling goroutine is doing
  codexDone,    \* Stop has closed w.done
  usageRows,    \* token_usage rows by id
  started,      \* sessions whose SessionStart was emitted
  active,       \* sessions with emitted activity
  changed,      \* calls whose file changes were emitted
  collected,    \* history: calls gcPending dropped
  codexTrouble  \* how much of CodexUpsets is used

codexVars == <<script, grown, where, codexSeen, discovered, models, pendingCalls,
               pendingStarts, scanCount, codexPass, codexDone, usageRows, started, active,
               changed, collected, codexTrouble>>
fileVars == <<script, grown, where>>
effectVars == <<usageRows, started, active, changed>>
memoryVars == <<codexSeen, discovered, models, pendingCalls, pendingStarts, scanCount>>

Unseen == -1
Session == {SessOf[p] : p \in Rollout}
ModelNames == NamedModels \cup {NoModel, Fallback}
Idling == [pc |-> "idle"]

CodexTypeOK ==
  /\ grown \in [Rollout -> Nat]
  /\ where \in [Rollout -> {"recent", "far", "gone"}]
  /\ codexSeen \in [Rollout -> Nat \cup {Unseen}]
  /\ discovered \in BOOLEAN /\ codexDone \in BOOLEAN
  /\ models \in [Session -> ModelNames]
  /\ pendingCalls \in [CallId -> {"none", "fresh", "old"}]
  /\ pendingStarts \subseteq Session
  /\ scanCount \in 0 .. GcInterval - 1
  /\ codexPass.pc \in {"idle", "collect", "known", "recent"}
  /\ \A r \in usageRows : r.n \in Nat /\ r.model \in ModelNames \ {NoModel}
  /\ started \subseteq Session /\ active \subseteq Session
  /\ changed \subseteq CallId /\ collected \subseteq CallId
  /\ codexTrouble \in 0 .. CodexUpsets

CodexInit ==
  /\ script \in Scenarios
  /\ grown = [p \in Rollout |-> 0]
  /\ where \in [Rollout -> {"recent", "far", "gone"}]
  /\ \A p \in Rollout : where[p] = "gone" <=> script[p] = <<>>
  /\ codexSeen = [p \in Rollout |-> Unseen]
  /\ discovered = FALSE
  /\ models = [s \in Session |-> NoModel]
  /\ pendingCalls = [c \in CallId |-> "none"]
  /\ pendingStarts = {}
  /\ scanCount = 0
  /\ codexPass = Idling
  /\ codexDone = FALSE
  /\ usageRows = {}
  /\ started = {} /\ active = {} /\ changed = {}
  /\ collected = {}
  /\ codexTrouble = 0

Trouble == codexTrouble < CodexUpsets /\ codexTrouble' = codexTrouble + 1

-----------------------------------------------------------------------------
(* What a line says.                                                       *)

\* codexEventModel: the model of the line, of the session, or "gpt-5".
EventModel(current, own) ==
  IF own # NoModel THEN own ELSE IF current # NoModel THEN current ELSE Fallback

\* Faulty variant: a total that fell yields a negative difference.
NonNegativeDeltaSigned(current, previous) == current - previous

\* nonNegativeDelta: a counter that was reset adds nothing.
NonNegativeDelta(current, previous) == IF current <= previous THEN 0 ELSE current - previous

Usage(l, id, n, model) ==
  <<[type |-> "usage", id |-> id, n |-> n, model |-> model, ts |-> l.ts]>>

\* parseCodexEntryWithContext for a token_count that gives the tokens of
\* its own turn: the id holds the cumulative total when there is one.
LastUsage(l, sess, model) ==
  IF l.last = 0 THEN <<>>
  ELSE Usage(l, IF l.total # 0 THEN <<"session-total", sess, l.total>>
                ELSE <<"last", sess, l.ts, l.last>>, l.last, EventModel(model, l.model))

\* parseCodexExecEntry.
ExecUsage(l, sess, model) ==
  IF l.n = 0 THEN <<>>
  ELSE Usage(l, <<"exec", sess, l.ts, l.n>>, l.n, EventModel(model, l.model))

\* Faulty variant: the first total of a scan is only a baseline.
TotalUsageFromBaseline(l, model, previous) ==
  LET n == IF previous = 0 THEN 0 ELSE NonNegativeDelta(l.total, previous)
      m == EventModel(model, l.model)
  IN IF n = 0 THEN <<>> ELSE Usage(l, <<"total", l.ts, m, l.total>>, n, m)

\* parseCodexEntryWithState for a token_count that gives only a cumulative
\* total: the difference to the previous one of this scan.  Its id does not
\* name the session, so that a copied history is not counted again.
TotalUsage(l, model, previous) ==
  LET n == IF previous = 0 THEN l.total ELSE NonNegativeDelta(l.total, previous)
      m == EventModel(model, l.model)
  IN IF n = 0 THEN <<>> ELSE Usage(l, <<"total", l.ts, m, l.total>>, n, m)

Previous(l, previous) ==
  IF l.kind \in {"total", "last"} /\ l.total # 0 THEN l.total ELSE previous

\* The other entries: session_meta, turn_context, function_call and its
\* output, a custom tool call (which starts and ends at once).
OtherEvents(l, sess) ==
  CASE l.kind = "meta"    -> <<[type |-> "start", id |-> sess]>>
    [] l.kind = "context" -> <<[type |-> "update", id |-> sess]>>
    [] l.kind = "call"    -> <<[type |-> "callStart", id |-> l.id]>>
    [] l.kind = "output"  -> <<[type |-> "callEnd", id |-> l.id]>>
    [] l.kind = "patch"   -> <<[type |-> "callStart", id |-> l.id],
                               [type |-> "callEnd", id |-> l.id]>>
    [] OTHER -> <<>>

\* File changes are reported once the call is known to have succeeded: a
\* function call by its output, apply_patch as a custom tool by itself.
ChangeEvents(l, calls) ==
  IF \/ l.kind = "output" /\ l.ok /\ calls[l.id] # "none"
     \/ l.kind = "patch" /\ l.ok
  THEN <<[type |-> "change", id |-> l.id]>> ELSE <<>>

\* recordTurnContext.
ContextModel(l, model) ==
  IF l.kind = "context" /\ l.model # NoModel THEN l.model ELSE model

\* annotateCodexTokenEvents.
Annotated(events, model) ==
  IF model = NoModel THEN events
  ELSE [i \in DOMAIN events |->
          IF events[i].type = "usage" /\ events[i].model = Fallback
          THEN [events[i] EXCEPT !.model = model] ELSE events[i]]

\* The loop over the lines of p from an offset, in processFile and in
\* processCodexFileCollect: at is [off, eof, model, calls, previous, events].
ReadStep(p, at) ==
  LET r == ReadLine(script[p], grown[p], at.off)
      l == r.line
      model == ContextModel(l, at.model)
      calls == CASE l.kind = "call" -> [at.calls EXCEPT ![l.id] = "fresh"]
                 [] l.kind = "output" -> [at.calls EXCEPT ![l.id] = "none"]
                 [] OTHER -> at.calls
      usage == CASE l.kind = "total" -> TotalUsage(l, model, at.previous)
                 [] l.kind = "last" -> LastUsage(l, SessOf[p], model)
                 [] l.kind = "exec" -> ExecUsage(l, SessOf[p], model)
                 [] OTHER -> <<>>
      earlier == IF l.kind = "context" THEN Annotated(at.events, model) ELSE at.events
  IN IF at.eof \/ at.off >= grown[p] THEN at
     ELSE IF ~r.parsed THEN [at EXCEPT !.off = r.to, !.eof = r.eof]
     ELSE [off |-> r.to, eof |-> r.eof, model |-> model, calls |-> calls,
           previous |-> Previous(l, at.previous),
           events |-> earlier \o usage \o OtherEvents(l, SessOf[p])
                      \o ChangeEvents(l, at.calls)]

ReadRollout(p, from, model, calls) ==
  LET n == Len(script[p]) + 1
      read[k \in 0 .. n] ==
        IF k = 0 THEN [off |-> from, eof |-> FALSE, model |-> model, calls |-> calls,
                       previous |-> 0, events |-> <<>>]
        ELSE ReadStep(p, read[k - 1])
  IN read[n]

Substantive(events) == \E e \in ToSet(events) : e.type \notin {"start", "update"}

-----------------------------------------------------------------------------
(* Emitting.                                                               *)

\* The pipeline behind emitFn: INSERT OR IGNORE by id.
Emit(p, events) ==
  /\ LET new == {i \in DOMAIN events : events[i].type = "usage"}
         first == {i \in new : /\ \A r \in usageRows : r.id # events[i].id
                              /\ \A j \in new : j < i => events[j].id # events[i].id}
     IN usageRows' = usageRows \cup
          {[id |-> events[i].id, n |-> events[i].n, model |-> events[i].model,
            path |-> p, ts |-> events[i].ts] : i \in first}
  /\ started' = started \cup {e.id : e \in {x \in ToSet(events) : x.type = "start"}}
  /\ active' = IF Substantive(events) THEN active \cup {SessOf[p]} ELSE active
  /\ changed' = changed \cup {e.id : e \in {x \in ToSet(events) : x.type = "change"}}

Deferred(s) == IF s \in pendingStarts THEN <<[type |-> "start", id |-> s]>> ELSE <<>>

\* Faulty variant: the deferred start is forgotten when activity arrives.
EmitWithoutStart(p, events) ==
  IF Substantive(events)
  THEN Emit(p, events) /\ pendingStarts' = pendingStarts \ {SessOf[p]}
  ELSE /\ pendingStarts' = IF \E e \in ToSet(events) : e.type = "start"
                           THEN pendingStarts \cup {SessOf[p]} ELSE pendingStarts
       /\ UNCHANGED effectVars

\* The end of processFile: activity goes out behind the deferred start of
\* its session, a start alone is deferred.
EmitOrDefer(p, events) ==
  LET s == SessOf[p] IN
  IF Substantive(events)
  THEN /\ Emit(p, Deferred(s) \o events)
       /\ pendingStarts' = pendingStarts \ {s}
  ELSE /\ pendingStarts' = IF \E e \in ToSet(events) : e.type = "start"
                           THEN pendingStarts \cup {s} ELSE pendingStarts
       /\ UNCHANGED effectVars

-----------------------------------------------------------------------------
(* The polling goroutine.                                                  *)

Exists(p) == where[p] # "gone"
NoCalls == [c \in CallId |-> "none"]

\* scanLogs: the first one discovers, the others start with known files.
CodexTick ==
  /\ codexPass = Idling /\ ~codexDone
  /\ codexPass' =
       IF discovered THEN [pc |-> "known", todo |-> {p \in Rollout : codexSeen[p] # Unseen}]
       ELSE [pc |-> "collect", got |-> {},
             todo |-> {p \in Rollout : Exists(p) /\ grown[p] > codexSeen[p]}]
  /\ UNCHANGED <<fileVars, memoryVars, codexDone, effectVars, collected, codexTrouble>>

\* A worker of fullDiscover reads one file, without the watcher's pending
\* calls, or leaves because of Stop.
DiscoverOne(p) ==
  /\ codexPass.pc = "collect" /\ p \in codexPass.todo
  /\ LET at == ReadRollout(p, Max({codexSeen[p], 0}), models[SessOf[p]], NoCalls)
         result == [path |-> p, off |-> at.off, model |-> at.model, calls |-> at.calls,
                    events |-> at.events]
     IN codexPass' = IF codexDone THEN [codexPass EXCEPT !.todo = {}]
                     ELSE [codexPass EXCEPT !.todo = @ \ {p},
                             !.got = IF Exists(p) THEN @ \cup {result} ELSE @]
  /\ UNCHANGED <<fileVars, memoryVars, codexDone, effectVars, collected, codexTrouble>>

\* Faulty variant: the model of the discovered file is not remembered.
MergeWithoutModel(r) ==
  /\ codexPass.pc = "collect" /\ codexPass.todo = {} /\ r \in codexPass.got
  /\ codexSeen' = [codexSeen EXCEPT ![r.path] = r.off]
  /\ pendingCalls' = [c \in CallId |-> IF r.calls[c] # "none" THEN r.calls[c]
                                       ELSE pendingCalls[c]]
  /\ EmitOrDefer(r.path, r.events)
  /\ codexPass' = [codexPass EXCEPT !.got = @ \ {r}]
  /\ UNCHANGED <<fileVars, discovered, models, scanCount, codexDone, collected, codexTrouble>>

\* fullDiscover merges one result into the watcher and emits its events.
MergeResult(r) ==
  /\ codexPass.pc = "collect" /\ codexPass.todo = {} /\ r \in codexPass.got
  /\ LET s == SessOf[r.path] IN
     /\ codexSeen' = [codexSeen EXCEPT ![r.path] = r.off]
     /\ models' = IF r.model # NoModel THEN [models EXCEPT ![s] = r.model] ELSE models
     /\ pendingCalls' = [c \in CallId |-> IF r.calls[c] # "none" THEN r.calls[c]
                                          ELSE pendingCalls[c]]
     /\ IF codexDone /\ Substantive(r.events)
        THEN UNCHANGED <<effectVars, pendingStarts>>
        ELSE EmitOrDefer(r.path, r.events)
  /\ codexPass' = [codexPass EXCEPT !.got = @ \ {r}]
  /\ UNCHANGED <<fileVars, discovered, scanCount, codexDone, collected, codexTrouble>>

Discovered ==
  /\ codexPass.pc = "collect" /\ codexPass.todo = {} /\ codexPass.got = {}
  /\ discovered' = TRUE
  /\ codexPass' = Idling
  /\ UNCHANGED <<fileVars, codexSeen, models, pendingCalls, pendingStarts, scanCount, codexDone,
                 effectVars, collected, codexTrouble>>

\* processFile.  A file smaller than the offset is read from its start.
ProcessFile(p) ==
  LET known == Max({codexSeen[p], 0})
      from == IF grown[p] < known THEN 0 ELSE known
      at == ReadRollout(p, from, models[SessOf[p]], pendingCalls)
  IN IF grown[p] = from
     THEN /\ codexSeen' = IF from < known THEN [codexSeen EXCEPT ![p] = 0] ELSE codexSeen
          /\ UNCHANGED <<models, pendingCalls, pendingStarts, effectVars>>
     ELSE /\ codexSeen' = [codexSeen EXCEPT ![p] = at.off]
          /\ models' = [models EXCEPT ![SessOf[p]] = at.model]
          /\ pendingCalls' = at.calls
          /\ EmitOrDefer(p, at.events)

\* scanKnownFiles: a file that is gone is forgotten.
ScanKnown(p) ==
  /\ codexPass.pc = "known" /\ ~codexDone /\ p \in codexPass.todo
  /\ IF Exists(p) THEN ProcessFile(p)
     ELSE /\ codexSeen' = [codexSeen EXCEPT ![p] = Unseen]
          /\ UNCHANGED <<models, pendingCalls, pendingStarts, effectVars>>
  /\ codexPass' = [codexPass EXCEPT !.todo = @ \ {p}]
  /\ UNCHANGED <<fileVars, discovered, scanCount, codexDone, collected, codexTrouble>>

KnownScanned ==
  /\ codexPass.pc = "known" /\ (codexPass.todo = {} \/ codexDone)
  /\ codexPass' = [pc |-> "recent", todo |-> {p \in Rollout : where[p] = "recent"}]
  /\ UNCHANGED <<fileVars, memoryVars, codexDone, effectVars, collected, codexTrouble>>

\* scanRecentDirs: also files it has not seen before.
ScanRecent(p) ==
  /\ codexPass.pc = "recent" /\ ~codexDone /\ p \in codexPass.todo
  /\ IF where[p] = "recent" THEN ProcessFile(p)
     ELSE UNCHANGED <<codexSeen, models, pendingCalls, pendingStarts, effectVars>>
  /\ codexPass' = [codexPass EXCEPT !.todo = @ \ {p}]
  /\ UNCHANGED <<fileVars, discovered, scanCount, codexDone, collected, codexTrouble>>

\* The end of scanLogs, with gcPending on every GcInterval-th one.
ScanEnds ==
  /\ codexPass.pc = "recent" /\ (codexPass.todo = {} \/ codexDone)
  /\ scanCount' = (scanCount + 1) % GcInterval
  /\ LET stale == {c \in CallId : scanCount' = 0 /\ pendingCalls[c] = "old"} IN
     /\ pendingCalls' = [c \in CallId |-> IF c \in stale THEN "none" ELSE pendingCalls[c]]
     /\ collected' = collected \cup stale
  /\ codexPass' = Idling
  /\ UNCHANGED <<fileVars, codexSeen, discovered, models, pendingStarts, codexDone, effectVars,
                 codexTrouble>>

StopCodex ==
  /\ ~codexDone /\ Trouble
  /\ codexDone' = TRUE
  /\ UNCHANGED <<fileVars, memoryVars, codexPass, effectVars, collected>>

RestartCodex ==
  /\ \/ codexDone /\ UNCHANGED codexTrouble
     \/ ~codexDone /\ Trouble
  /\ codexSeen' = [p \in Rollout |-> Unseen]
  /\ discovered' = FALSE
  /\ models' = [s \in Session |-> NoModel]
  /\ pendingCalls' = NoCalls
  /\ pendingStarts' = {}
  /\ scanCount' = 0
  /\ codexPass' = Idling
  /\ codexDone' = FALSE
  /\ UNCHANGED <<fileVars, effectVars, collected>>

-----------------------------------------------------------------------------
(* Around it: Codex, the user and the clock.                               *)

GrowRollout(p) ==
  /\ Exists(p)
  /\ grown' \in {[grown EXCEPT ![p] = n] : n \in grown[p] + 1 .. 3 * LineAt(grown[p])}
  /\ grown'[p] <= 3 * Len(script[p])
  /\ UNCHANGED <<script, where, memoryVars, codexPass, codexDone, effectVars, collected,
                 codexTrouble>>

\* The file is cut and written again.
CutRollout(p) ==
  /\ grown[p] > 0 /\ Trouble
  /\ grown' = [grown EXCEPT ![p] = 0]
  /\ UNCHANGED <<script, where, memoryVars, codexPass, codexDone, effectVars, collected>>

\* It is removed, or its directory is no longer one of the recent ones.
MoveRollout(p) ==
  /\ Exists(p) /\ Trouble
  /\ where' \in {[where EXCEPT ![p] = "gone"], [where EXCEPT ![p] = "far"]}
  /\ UNCHANGED <<script, grown, memoryVars, codexPass, codexDone, effectVars, collected>>

TwoHoursPass ==
  /\ \E c \in CallId : pendingCalls[c] = "fresh"
  /\ Trouble
  /\ pendingCalls' = [c \in CallId |-> IF pendingCalls[c] = "none" THEN "none" ELSE "old"]
  /\ UNCHANGED <<fileVars, codexSeen, discovered, models, pendingStarts, scanCount, codexPass,
                 codexDone, effectVars, collected>>

CodexNext ==
  \/ CodexTick
  \/ \E p \in Rollout : DiscoverOne(p)
  \/ codexPass.pc = "collect" /\ \E r \in codexPass.got : MergeResult(r)
  \/ Discovered
  \/ \E p \in Rollout : ScanKnown(p)
  \/ KnownScanned
  \/ \E p \in Rollout : ScanRecent(p)
  \/ ScanEnds
  \/ StopCodex
  \/ RestartCodex
  \/ \E p \in Rollout : GrowRollout(p)
  \/ \E p \in Rollout : CutRollout(p)
  \/ \E p \in Rollout : MoveRollout(p)
  \/ TwoHoursPass

-----------------------------------------------------------------------------

\* Line i of p lies below the committed offset and is no longer in the hands
\* of a stopped scan.
Committed(p, i) == ~codexDone /\ i \in DOMAIN script[p] /\ 3 * i - 1 <= codexSeen[p]

TotalsOf(p) == {script[p][i].total :
                  i \in {j \in DOMAIN script[p] : Committed(p, j) /\ script[p][j].kind = "total"}}
RowsOfTotals(p) ==
  {r \in usageRows : /\ r.id[1] = "total"
                     /\ \E i \in DOMAIN script[p] :
                          /\ script[p][i].kind = "total"
                          /\ script[p][i].ts = r.id[2] /\ script[p][i].total = r.id[4]}

\* A line that gives only a cumulative total, which is what names its row,
\* and the tokens of a set of rows.
IsTotal(l) == l.kind = "total"
SameTotal(l, m) == IsTotal(l) /\ IsTotal(m) /\ l.ts = m.ts /\ l.total = m.total
Tokens(R) == SumOn([r \in R |-> r.n], R)

\* The histories the two properties of totals speak of: a file that gives
\* only cumulative totals has no turn with a total of its own among them, and
\* what one file shares with another it shares from the start (a copied
\* history is copied whole).
Histories ==
  \A f \in Scenarios : \A p, q \in Rollout : \A i \in DOMAIN f[p] :
    IsTotal(f[p][i]) =>
      /\ \A j \in DOMAIN f[p] : f[p][j].kind = "last" => f[p][j].total = 0
      /\ \A k \in DOMAIN f[q] : SameTotal(f[p][i], f[q][k]) =>
           \A j \in 1 .. i - 1 : IsTotal(f[p][j]) => \E m \in DOMAIN f[q] : SameTotal(f[p][j], f[q][m])

\* Where Codex reports only cumulative totals, the stored differences never
\* add up to less than the last total read: however the file was cut into
\* scans, and with part of its history stored under another session.
CumulativeNotLost ==
  \A p \in Rollout :
    TotalsOf(p) # {} => Tokens(RowsOfTotals(p)) >= Max(TotalsOf(p))

\* What the test of copied histories expects ("branch delta tokens", the
\* difference to the total before): the stored differences add up to the
\* last total and no more.
TotalsAreDifferences ==
  \A p \in Rollout :
    TotalsOf(p) # {} => Tokens(RowsOfTotals(p)) <= Max(TotalsOf(p))

\* The model of a session reaches its usage rows: the fallback is only
\* stored for a line before the first turn_context of its file that names a
\* model, although context and usage may be read by different scans, or by a
\* discovery worker whose result is merged later.
ContextReaches ==
  Fallback \notin NamedModels =>
    \A r \in usageRows :
      r.model = Fallback =>
        LET lines == script[r.path] IN
        \E i \in DOMAIN lines :
          /\ lines[i].kind \in UsageKinds /\ lines[i].ts = r.ts
          /\ \A j \in 1 .. i - 1 : lines[j].kind = "context" => lines[j].model = NoModel

\* Codex begins the files of s with a session_meta.
BeginsWithMeta(s) ==
  \A p \in Rollout : SessOf[p] = s /\ script[p] # <<>> => script[p][1].kind = "meta"
FailedCalls ==
  {c \in CallId : \E p \in Rollout : \E i \in DOMAIN script[p] :
                    script[p][i].kind = "output" /\ script[p][i].id = c /\ ~script[p][i].ok}

\* Nothing a session did is split from what belongs to it by the end of a
\* scan: its start is emitted once it has activity, however long it was
\* deferred, and the file changes of a call whose output was good are
\* emitted, unless gcPending had given the call up or another output of
\* the same call (in a copied history) says it failed.
ActivityKept ==
  \A p \in Rollout : \A i \in DOMAIN script[p] :
    Committed(p, i) =>
      LET l == script[p][i] IN
      /\ (l.kind = "meta" /\ BeginsWithMeta(SessOf[p]) /\ SessOf[p] \in active) => SessOf[p] \in started
      /\ (/\ l.kind = "output" /\ l.id \notin FailedCalls \cup collected
          /\ \E j \in 1 .. i - 1 : script[p][j].kind = "call" /\ script[p][j].id = l.id)
           => l.id \in changed

=============================================================================
