----------------------------- MODULE MCServices -----------------------------
(* What the daemon and its commands do beside the pipeline, and share      *)
(* nothing with it but the machine: the services run one at a time here,   *)
(* chosen at the start, each with the processes it really has.             *)
EXTENDS Alerts, WebhookDelivery, EventStream, DaemonSingleton, LogRotation, Backups,
        SharedCaches, AgentReaders, UsageReports, SearchIndex, Opening, HookSettings

CONSTANTS e1, e2

VARIABLE side

\* Two webhook endpoints with different wishes and thresholds.
MCConfigs == {<<e1>>, <<e1, e2>>}
MCWants ==
  [e \in {e1, e2} |->
     IF e = e1 THEN {"budget_over", "tool_failure_rate", "cost_spike", "usage_regression"}
     ELSE {"budget_warn", "tool_failure_rate", "cost_spike", "session_high_cost", "usage_regression"}]
MCOverRate == (e1 :> 0) @@ (e2 :> 50)
MCOverRatio == (e1 :> 0) @@ (e2 :> 3)
MCOverFails == (e1 :> 0) @@ (e2 :> 2)
MCOverCost == (e1 :> 0) @@ (e2 :> 0)

MCMaxAttempts == (1 :> 2) @@ (2 :> 0) @@ (3 :> 1) @@ (4 :> 2)

Ev(token, s) == [token |-> token, sess |-> s]
MCFeed == <<<<Ev(TRUE, 1), Ev(FALSE, 1)>>, <<Ev(TRUE, 1)>>>>

\* Messages with and without fresh input, cache, thinking and tool tokens.
U(fresh, cached, created, out, think, tool) ==
  [fresh |-> fresh, cached |-> cached, created |-> created, out |-> out, think |-> think, tool |-> tool]
MCUsages == {U(0, 2, 0, 1, 1, 1), U(1, 1, 1, 1, 0, 0), U(3, 0, 0, 1, 2, 0)}
MCAgents == {"amp", "codebuff", "copilot", "droid", "gemini", "goose", "hermes", "kilo", "kimi",
             "openclaw", "opencode", "pi", "qwen"}
MCRoots == <<"r1", "r2">>
MCModels == {"m1", "m2"}
\* Two copies of a project, and a file that is of another project in its copy.
MCProjectOf == [x \in {"r1", "r2"} \X AgentFile |-> IF x = <<"r1", 2>> THEN "p2" ELSE "p1"]
MCKimiPrices == <<2, 1>>

\* Rows with and without a cost, a model and a session; prices with a tier.
K(s, m, tok, cost) == [sess |-> s, model |-> m, tok |-> tok, cost |-> cost]
MCKind == {K("pi", 1, 1, 3), K("orphan", 1, 1, 3), K("codex", 0, 1, 0), K("codex", 1, 1, 2), K("codex", 2, 2, 0),
           K("claude", 2, 1, 5), K("claude", 2, 1, 0)}
MCListed == {"claude", "codex"}
MCDropsEnd == {"pi"}
MCPlatformOf == [s \in {"pi", "orphan", "claude", "codex"} |-> s]
MCZone == {[first |-> 1, then |-> 0, from |-> 3], [first |-> 0, then |-> 1, from |-> 3]}
MCPrice == (1 :> [base |-> 1, above |-> 0]) @@ (2 :> [base |-> 2, above |-> 3])

\* One session; the words of its calls and files.
MCSessionOf == [i \in Item |-> "s"]

\* Two binaries, one of a name tokenmeter does not know as its own; settings
\* without hooks, with the user's in odd places, and with older entries.
MCCmd == [p1 |-> "tm", p2 |-> "tm-dev"]
MCShapes ==
  {[h \in HookEvent |-> <<>>],
   [h \in HookEvent |-> IF h = "Stop" THEN <<{"user", "agmon"}>> ELSE Odd],
   [h \in HookEvent |-> IF h = "Stop" THEN <<{"user"}, {"tm"}>> ELSE <<{"tm", "a b/tm"}>>]}

-----------------------------------------------------------------------------
\* What is checked of a service holds while it runs; it is not evaluated, again
\* and again in the same state, while another one does.
On(s, P) == side \in s => P

TypeOK ==
  /\ On({"money", "tools"}, AlertsTypeOK) /\ On({"delivery"}, WebhookTypeOK)
  /\ On({"stream"}, StreamTypeOK) /\ On({"singleton"}, SingletonTypeOK)
  /\ On({"rotation"}, RotationTypeOK) /\ On({"backups"}, BackupsTypeOK)
  /\ On({"line", "price"}, CachesTypeOK) /\ On({"adapters"}, ReadersTypeOK)
  /\ On({"costs", "reports"}, CostsTypeOK) /\ On({"reports"}, ScannedTypeOK)
  /\ On({"search"}, SearchTypeOK) /\ On({"opening"}, OpeningTypeOK)
  /\ On({"settings"}, SettingsTypeOK)

Init ==
  /\ side \in {"money", "tools", "delivery", "stream", "singleton", "rotation", "backups", "line",
               "price", "adapters", "costs", "reports", "search", "opening", "settings"}
  /\ AlertsInit /\ (side \notin {"money", "tools"} => hooks = <<e1>>)
  /\ WebhookInit /\ StreamInit /\ SingletonInit /\ RotationInit /\ BackupsInit
  /\ CachesInit /\ (side # "price" => offline = {})
  /\ ReadersInit
  /\ IF side = "adapters" THEN home = "r2" ELSE agent = "amp" /\ home = "r1" /\ form = "parts"
  /\ IF side = "reports" THEN ReportsInit ELSE CostsInit /\ scanned = {}
  /\ zone = [first |-> 0, then |-> 1, from |-> 3]
  /\ SearchInit /\ (side # "search" => stamped)
  /\ OpeningInit /\ (side # "opening" => row = NoRow /\ unique)
  /\ SettingsInit /\ (side # "settings" => ~dir)

alarmVars == <<alertVars, hookVars, streamVars>>
fileVars == <<singletonVars, rotationVars, backupVars, cacheVars>>
reportVars == <<readerVars, costVars, scanned>>
databaseVars == <<searchVars, openingVars, settingsVars>>

\* The two rows of the "costs" side are of two sessions and three kinds, and
\* its page, which is served within an instant, ends it.
FewKinds ==
  /\ \A r, q \in stored' : r.model # 2 /\ r.sess \notin DropsEnd /\ (r # q => r.sess # q.sess)
  /\ pages = MaxPages => page # <<>>
  /\ instant' # instant => page = <<>>

\* Of two subscribers of the "stream" side one, a `tm watch`, reads nothing, none
\* leaves, and each goroutine broadcasts once.
Stalls(c) == client[c] = "on" /\ reading[c] /\ inbox[c] = <<>> /\ screen[c] = <<>>
FewScreens ==
  \/ \E c \in Client : client[c] = "away"
  \/ /\ \E c \in Client \ IsWeb : Stalls(c)
     /\ \A c \in Client : client[c] # "left"
     /\ \A b \in Caster : fed[b] <= 1

\* On the "search" side the last thing to happen happens to a cleaned session.
ComesBack == seen # seen' /\ seen' = MaxSeen => known = {}

AlarmNext ==
  \/ side = "money" /\ MoneyNext /\ UNCHANGED <<hookVars, streamVars>>
  \/ side = "tools" /\ ToolsNext /\ UNCHANGED <<hookVars, streamVars>>
  \/ side = "delivery" /\ WebhookNext /\ UNCHANGED <<alertVars, streamVars>>
  \/ side = "stream" /\ StreamNext /\ FewScreens' /\ UNCHANGED <<alertVars, hookVars>>

FileNext ==
  \/ side = "singleton" /\ SingletonNext /\ UNCHANGED <<rotationVars, backupVars, cacheVars>>
  \/ side = "rotation" /\ RotationNext /\ UNCHANGED <<singletonVars, backupVars, cacheVars>>
  \/ side = "backups" /\ BackupsNext /\ UNCHANGED <<singletonVars, rotationVars, cacheVars>>
  \/ side = "line" /\ LineNext /\ UNCHANGED <<singletonVars, rotationVars, backupVars>>
  \/ side = "price" /\ PriceNext /\ UNCHANGED <<singletonVars, rotationVars, backupVars>>

ReportNext ==
  \/ side = "adapters" /\ ReadersNext /\ UNCHANGED <<costVars, scanned>>
  \/ side = "costs" /\ CostsNext /\ FewKinds /\ UNCHANGED <<readerVars, scanned>>
  \/ side = "reports" /\ ReportsNext /\ UNCHANGED readerVars

DatabaseNext ==
  \/ side = "search" /\ SearchNext /\ ComesBack /\ UNCHANGED <<openingVars, settingsVars>>
  \/ side = "opening" /\ OpeningNext /\ UNCHANGED <<searchVars, settingsVars>>
  \/ side = "settings" /\ SettingsNext /\ UNCHANGED <<searchVars, openingVars>>

Next ==
  \/ AlarmNext /\ UNCHANGED <<fileVars, reportVars, databaseVars, side>>
  \/ FileNext /\ UNCHANGED <<alarmVars, reportVars, databaseVars, side>>
  \/ ReportNext /\ UNCHANGED <<alarmVars, fileVars, databaseVars, side>>
  \/ DatabaseNext /\ UNCHANGED <<alarmVars, fileVars, reportVars, side>>

vars == <<alarmVars, fileVars, reportVars, databaseVars, side>>
Spec == Init /\ [][Next]_vars

\* One service alone.
OpeningSpec == Init /\ side = "opening" /\ [][Next]_vars

-----------------------------------------------------------------------------
\* Each record of an agent is read as one entry of what was used.
RecordsCounted == On({"adapters"}, RecordsFaithful)
\* So it is, and the entries of a report are the records of its agent.
ReadersFaithful == RecordsCounted /\ On({"adapters"}, AdaptersFaithful)
\* A page of the dashboard adds up to what was stored while it was computed,
\* and the reports of the command line agree with one another and the rows.
QueriesAddUp == On({"costs"}, PagesAddUp) /\ On({"reports"}, ReportsAgree)
\* What tm writes in a file that is not its own alone, or in several, is lost
\* by nothing but what the module's history names: the daemon's log, the
\* database and its backups, the settings of Claude Code.
FilesSurvive == On({"rotation"}, LogIsSuffix) /\ On({"backups"}, DataSurvives) /\ On({"settings"}, HooksInPlace)
\* Searching the rows and searching the index come to the same.
SearchAgrees == On({"search"}, SearchesAgree)
\* What an opening is there to do is done, whoever opens or writes at once.
OpeningHolds == On({"opening"}, OpeningKeeps)
=============================================================================
