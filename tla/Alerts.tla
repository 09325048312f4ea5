------------------------------- MODULE Alerts -------------------------------
(***************************************************************************)
(* What the daemon's sweeps tell the webhook endpoints.  Each sweep reads  *)
(* the database, compares it with what it remembers in memory and with the *)
(* endpoints of the configuration in force, and dispatches alarms.  An     *)
(* alarm is given to WebhookDelivery; here it only joins a set.            *)
(***************************************************************************)
EXTENDS SequencesExt

CONSTANTS
  Endpoint,     \* what the configuration may name
  Configs,      \* endpoint lists a reload may install
  Wants,        \* Wants[e]: its kinds of alarm
  OverRate,     \* OverRate[e]: configured failure rate, in percent, or 0
  OverRatio,    \* OverRatio[e]: configured cost and regression ratio, or 0
  OverCost,     \* OverCost[e]: configured session cost, or 0
  OverFails,    \* OverFails[e]: configured failures of a regression, or 0
  DefaultRate, DefaultRatio, DefaultCost, DefaultFails,
  Budget,
  Limit,        \* monthly limit of every budget
  Steps,        \* amounts that may be spent at once
  Tool,
  Window,       \* calls a failure rate is computed from (100)
  HourTicks, DayTicks,  \* sweep intervals in an hour, in a day
  Lookback,     \* days of the baseline (7)
  SpikeCooldown, RegressionCooldown,
  MaxTicks, MaxCalls, MaxSpent, MaxTurns  \* bounds; turns are reloads and
                                          \* deletions of usage

ASSUME AlertsAssumption ==
  /\ \A c \in Configs : c \in Seq(Endpoint)
  /\ {Limit, Window, HourTicks, DayTicks, Lookback} \subseteq Nat \ {0}
  /\ {DefaultRate, DefaultRatio, DefaultCost, DefaultFails} \subseteq Nat \ {0}
  /\ {MaxTicks, MaxCalls, MaxSpent, MaxTurns, SpikeCooldown, RegressionCooldown} \subseteq Nat
  /\ Steps \subseteq Nat
  /\ {OverRate, OverRatio, OverCost, OverFails} \subseteq [Endpoint -> Nat]

VARIABLES
  hooks,       \* d.webhooks.Endpoints
  tick,        \* time, in sweep intervals
  due,         \* sweeps whose ticker has fired at this tick
  spent,       \* spent[d]: cost of the token_usage rows of day d
  calls,       \* tool_calls: [tool, failed, at], oldest first
  lastStatus,  \* d.budgetLastStatus, "unseen" outside its domain
  toolAlert,   \* d.toolFailureLastAlert
  cooling,     \* d.anomalyLastAlert: set of [key, at]
  alarms,      \* history: everything dispatched
  calm,        \* history: <<kind, key, tick>> where a sweep saw nothing to report
  turns        \* how much of MaxTurns is used

alertVars == <<hooks, tick, due, spent, calls, lastStatus, toolAlert, cooling, alarms, calm, turns>>

Sweep == {"budgets", "tools", "anomalies"}
Today == tick \div DayTicks
Days == 0 .. MaxTicks \div DayTicks
Used == FoldLeft(+, 0, [d \in 1 .. Cardinality(Days) |-> spent[d - 1]])
Within(list) == {list[i] : i \in DOMAIN list}
Wanting(kind) == {e \in Within(hooks) : kind \in Wants[e]}
OrDefault(x, default) == IF x > 0 THEN x ELSE default
Alarm(e, kind, key, level) == [to |-> e, kind |-> kind, key |-> key, level |-> level, at |-> tick]

AlertsTypeOK ==
  /\ hooks \in Configs
  /\ tick \in 0 .. MaxTicks
  /\ due \subseteq Sweep
  /\ spent \in [Days -> Nat]
  /\ \A i \in DOMAIN calls : calls[i].tool \in Tool /\ calls[i].at \in 0 .. tick
  /\ lastStatus \in [Budget -> {"unseen", "ok", "warn", "over"}]
  /\ toolAlert \in [Tool -> 0 .. 100]
  /\ \A a \in alarms : a.to \in Endpoint /\ a.at \in 0 .. tick
  /\ \A c \in cooling : c.at \in 0 .. tick
  /\ turns \in 0 .. MaxTurns

AlertsInit ==
  /\ hooks \in Configs
  /\ tick = 0
  /\ due = {}
  /\ spent = [d \in Days |-> 0]
  /\ calls = <<>>
  /\ lastStatus = [b \in Budget |-> "unseen"]
  /\ toolAlert = [t \in Tool |-> 0]
  /\ cooling = {}
  /\ alarms = {}
  /\ calm = {}
  /\ turns = 0

-----------------------------------------------------------------------------
(* The world: usage, tool calls, time, and reloads of the configuration.   *)

Spend ==
  \E x \in Steps :
    /\ Used + x <= MaxSpent
    /\ spent' = [spent EXCEPT ![Today] = @ + x]
    /\ UNCHANGED <<hooks, tick, due, calls, lastStatus, toolAlert, cooling, alarms, calm, turns>>

\* Rows deleted by clean, prune or a rewritten sidechain: usage falls again.
Forget ==
  \E d \in Days :
    /\ spent[d] > 0
    /\ turns < MaxTurns /\ turns' = turns + 1
    /\ spent' = [spent EXCEPT ![d] = 0]
    /\ UNCHANGED <<hooks, tick, due, calls, lastStatus, toolAlert, cooling, alarms, calm>>

CallTool ==
  \E t \in Tool, failed \in BOOLEAN :
    /\ Len(calls) < MaxCalls
    /\ calls' = Append(calls, [tool |-> t, failed |-> failed, at |-> tick])
    /\ UNCHANGED <<hooks, tick, due, spent, lastStatus, toolAlert, cooling, alarms, calm, turns>>

\* The tickers of the sweeps fire; one that is still busy drops the tick.
Tick ==
  /\ tick < MaxTicks
  /\ tick' = tick + 1
  /\ due' = Sweep
  /\ UNCHANGED <<hooks, spent, calls, lastStatus, toolAlert, cooling, alarms, calm, turns>>

\* ReloadConfig; an unreadable configuration leaves the one in force.
Reload ==
  /\ hooks' \in Configs \ {hooks}
  /\ turns < MaxTurns /\ turns' = turns + 1
  /\ UNCHANGED <<tick, due, spent, calls, lastStatus, toolAlert, cooling, alarms, calm>>

-----------------------------------------------------------------------------
(* budgetSweepLoop.                                                        *)

Status(used, limit) ==
  CASE limit > 0 /\ used >= limit -> "over"
    [] limit > 0 /\ 100 * used >= 80 * limit /\ used < limit -> "warn"
    [] OTHER -> "ok"

Transition(previous, current) ==
  CASE current = "over" /\ previous \in {"ok", "warn"} -> "budget_over"
    [] current = "warn" /\ previous = "ok" -> "budget_warn"
    [] OTHER -> "none"

\* Faulty variant: the status is recorded only when it is reported.
CheckBudgetsRecordsAlerts ==
  /\ "budgets" \in due
  /\ due' = due \ {"budgets"}
  /\ \E failing \in SUBSET Budget :
       LET now == Status(Used, Limit)
           reported == {b \in Budget \ failing :
                          lastStatus[b] = "unseen" \/ Transition(lastStatus[b], now) # "none"}
           new == UNION {{Alarm(e, Transition(lastStatus[b], now), b, Used) :
                            e \in Wanting(Transition(lastStatus[b], now))} :
                         b \in {x \in reported : lastStatus[x] # "unseen"}}
       IN /\ lastStatus' = [b \in Budget |-> IF b \in reported THEN now ELSE lastStatus[b]]
          /\ alarms' = alarms \cup new
          /\ calm' = calm \cup {<<"budget_over", b, tick>> : b \in {x \in Budget \ failing : now # "over"}}
  /\ UNCHANGED <<hooks, tick, spent, calls, toolAlert, cooling, turns>>

\* checkBudgetTransitions: a budget whose usage cannot be read is passed over;
\* one that is seen for the first time is only remembered.
CheckBudgets ==
  /\ "budgets" \in due
  /\ due' = due \ {"budgets"}
  /\ \E failing \in SUBSET Budget :
       LET now == Status(Used, Limit)
           kind(b) == IF lastStatus[b] = "unseen" THEN "none" ELSE Transition(lastStatus[b], now)
           read == Budget \ failing
       IN /\ lastStatus' = [b \in Budget |-> IF b \in read THEN now ELSE lastStatus[b]]
          /\ alarms' = alarms \cup UNION {{Alarm(e, kind(b), b, Used) : e \in Wanting(kind(b))} : b \in read}
          /\ calm' = calm \cup {<<"budget_over", b, tick>> : b \in {x \in read : now # "over"}}
  /\ UNCHANGED <<hooks, tick, spent, calls, toolAlert, cooling, turns>>

-----------------------------------------------------------------------------
(* toolFailureSweepLoop.                                                   *)

\* recentToolCallsByName, cut to the newest calls: their places in calls.
RecentCalls(t) ==
  LET own == {i \in DOMAIN calls : calls[i].tool = t}
  IN {i \in own : Cardinality({k \in own : k > i}) < Window}

\* In whole percent.
FailureRate(places) ==
  (100 * Cardinality({i \in places : calls[i].failed})) \div Cardinality(places)

RateThreshold(e) == OrDefault(OverRate[e], DefaultRate)

\* checkToolFailureRates.
CheckTools ==
  LET endpoints == Wanting("tool_failure_rate")
      called == {t \in Tool : RecentCalls(t) # {}}
      rate == [t \in called |-> FailureRate(RecentCalls(t))]
      selected == [t \in called |-> {e \in endpoints : rate[t] > RateThreshold(e)}]
      over == {t \in called : selected[t] # {}}
      report == {t \in over : \A e \in selected[t] : toolAlert[t] < RateThreshold(e)}
  IN /\ "tools" \in due
     /\ due' = due \ {"tools"}
     /\ IF endpoints = {}
        THEN UNCHANGED <<toolAlert, alarms, calm>>
        ELSE /\ toolAlert' = [t \in Tool |-> IF t \in report THEN rate[t]
                                             ELSE IF t \in called \ over THEN 0 ELSE toolAlert[t]]
             /\ alarms' = alarms \cup UNION {{Alarm(e, "tool_failure_rate", t, rate[t]) :
                                                e \in selected[t]} : t \in report}
             /\ calm' = calm \cup {<<"tool_failure_rate", t, tick>> : t \in called \ over}
     /\ UNCHANGED <<hooks, tick, spent, calls, lastStatus, cooling, turns>>

-----------------------------------------------------------------------------
(* anomalySweepLoop.                                                       *)

\* anomalyCooldownActive, for a cooldown of c ticks: a key that was reported
\* at this very tick is reported again, to the next endpoint.
Cooling(cool, key, c) == \E x \in cool : x.key = key /\ tick > x.at /\ tick - x.at < c
Cooled(cool, key) == {x \in cool : x.key # key} \cup {[key |-> key, at |-> tick]}

\* DailyCostSpike: every day of the baseline must have usage.
SpikeAt(ratio) ==
  LET past == (Today - Lookback) .. (Today - 1)
      total == FoldLeft(+, 0, [i \in 1 .. Lookback |-> spent[Today - i]])
  IN /\ past \subseteq Days
     /\ \A d \in past : spent[d] > 0
     /\ spent[Today] * Lookback >= ratio * total

\* HourlyToolFailureRegression for an endpoint that wants so many failures: those
\* of the last hour against the rate of the days before; the whole ratio, or 0.
RegressionOf(t, e) ==
  LET fails == OrDefault(OverFails[e], DefaultFails)
      own == SelectSeq(calls, LAMBDA c : c.tool = t)
      recent == SelectSeq(own, LAMBDA c : c.at > tick - HourTicks)
      before == SelectSeq(own, LAMBDA c : c.at \in tick - Lookback * DayTicks .. tick - HourTicks)
      failures(list) == Len(SelectSeq(list, LAMBDA c : c.failed))
  IN IF failures(recent) < fails \/ failures(before) = 0 THEN 0
     ELSE (failures(recent) * Len(before)) \div (Len(recent) * failures(before))

RatioThreshold(e) == OrDefault(OverRatio[e], DefaultRatio)

\* checkCostSpike for one endpoint; acc is [cool, out].
CheckSpike(acc, e) ==
  LET key == <<"cost_spike", Today>> IN
  IF /\ "cost_spike" \in Wants[e]
     /\ SpikeAt(RatioThreshold(e))
     /\ ~Cooling(acc.cool, key, SpikeCooldown)
  THEN [cool |-> Cooled(acc.cool, key),
        out |-> acc.out \cup {Alarm(e, "cost_spike", Today, spent[Today])}]
  ELSE acc

\* checkUsageRegression for one endpoint; one alarm names every tool.
CheckRegression(acc, e) ==
  LET key(t) == <<"usage_regression", t, RegressionOf(t, e)>>
      new == {t \in Tool : /\ "usage_regression" \in Wants[e]
                           /\ RegressionOf(t, e) >= RatioThreshold(e)
                           /\ ~Cooling(acc.cool, key(t), RegressionCooldown)}
  IN [cool |-> {x \in acc.cool : x.key \notin {key(t) : t \in new}}
                 \cup {[key |-> key(t), at |-> tick] : t \in new},
      out |-> acc.out \cup {Alarm(e, "usage_regression", t, RegressionOf(t, e)) : t \in new}]

\* checkAnomalies: the endpoints in their order; a failing query ends it.
CheckAnomalies ==
  /\ "anomalies" \in due
  /\ due' = due \ {"anomalies"}
  /\ \E n \in 0 .. Len(hooks) :
       LET after[i \in 0 .. n] ==
             IF i = 0 THEN [cool |-> cooling, out |-> {}]
             ELSE CheckRegression(CheckSpike(after[i - 1], hooks[i]), hooks[i])
       IN /\ cooling' = after[n].cool
          /\ alarms' = alarms \cup after[n].out
  /\ UNCHANGED <<hooks, tick, spent, calls, lastStatus, toolAlert, calm, turns>>

\* checkSessionHighCost, at every session_end: what the session cost is read
\* from the database; nothing remembers that it was reported.
SessionEnds ==
  \E cost \in Steps :
    LET selected == {e \in Wanting("session_high_cost") : cost > OrDefault(OverCost[e], DefaultCost)}
    IN /\ alarms' = alarms \cup {Alarm(e, "session_high_cost", "session", cost) : e \in selected}
       /\ tick = 0  \* bound: the sweeps have nothing to do with it
       /\ UNCHANGED <<hooks, tick, due, spent, calls, lastStatus, toolAlert, cooling, calm, turns>>

\* Money and tool calls meet only in the configuration and in the cooldowns.
MoneyNext == Spend \/ Forget \/ Tick \/ Reload \/ CheckBudgets \/ CheckAnomalies \/ SessionEnds
ToolsNext == CallTool \/ Tick \/ Reload \/ CheckTools \/ CheckAnomalies

-----------------------------------------------------------------------------
(* Endpoints every configuration names.                                    *)
Steady == {e \in Endpoint : \A c \in Configs : e \in Within(c)}

CalmSince(kind, key, at) == \E c \in calm : c[1] = kind /\ c[2] = key /\ c[3] >= at
Calmed(kind, key) == CalmSince(kind, key, 0)

\* Nobody is told of a level below his own threshold.
NoFalseAlarm ==
  \A a \in alarms :
    /\ a.kind \in Wants[a.to]
    /\ a.kind = "budget_over" => a.level >= Limit
    /\ a.kind = "tool_failure_rate" => a.level > RateThreshold(a.to)
    /\ a.kind = "usage_regression" => a.level >= RatioThreshold(a.to)
    /\ a.kind = "session_high_cost" => a.level > OrDefault(OverCost[a.to], DefaultCost)

\* Nobody is told twice of a budget or tool that did not recover in between,
\* nor twice of the spike of one day.
ToldOnce ==
  \A a, b \in alarms :
    (a.to = b.to /\ a.kind = b.kind /\ a.key = b.key /\ a.at < b.at) =>
      /\ a.kind \in {"budget_over", "tool_failure_rate"} =>
           \E c \in calm : c[1] = a.kind /\ c[2] = a.key /\ a.at < c[3] /\ c[3] < b.at
      /\ a.kind = "cost_spike" => b.at - a.at >= SpikeCooldown

\* Who is always configured is told of a budget that went over its limit after
\* having been seen below it, and, with the lowest threshold, of every tool.
CrossingTold ==
  \A e \in Steady :
    /\ \A b \in Budget :
         ("budget_over" \in Wants[e] /\ lastStatus[b] = "over" /\ Calmed("budget_over", b)) =>
           \E a \in alarms : a.to = e /\ a.kind = "budget_over" /\ a.key = b
                               /\ ~CalmSince("budget_over", b, a.at)
    /\ \A t \in Tool :
         (/\ "tool_failure_rate" \in Wants[e]
          /\ \A o \in Endpoint : RateThreshold(e) <= RateThreshold(o)
          /\ toolAlert[t] > 0) =>
           \E a \in alarms : a.to = e /\ a.kind = "tool_failure_rate" /\ a.key = t
                               /\ ~CalmSince("tool_failure_rate", t, a.at)

\* The sweeps report what the database shows to whom it concerns: never a
\* level below the endpoint's threshold, never the same crossing twice, and
\* never a crossing not at all, through reloads, failing queries and rows that
\* disappear.
AlertsMatchCrossings == NoFalseAlarm /\ ToldOnce /\ CrossingTold

=============================================================================
