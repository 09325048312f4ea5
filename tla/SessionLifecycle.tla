-------------------------- MODULE SessionLifecycle --------------------------
(***************************************************************************)
(* When a session counts as running: the status, last_event_time and       *)
(* end_time columns of sessions and the status of tool_calls, and the      *)
(* handlers and sweeps that write them.  processEvent runs on several      *)
(* goroutines at once (batchConsumer and one per client connection) and is *)
(* a sequence of SQLite statements, each an action here; events of one     *)
(* session arrive in any order and more than once.                         *)
(*                                                                         *)
(* Time is a small clock.  Columns hold fixed-width UTC timestamps, whose  *)
(* order as strings is their order as times.                               *)
(***************************************************************************)
EXTENDS Integers

CONSTANTS
  Sess,
  Call,          \* tool calls, by call_id
  CallSess,      \* the session of each call
  Worker,        \* goroutines running processEvent
  Old,           \* the two hours after which an event is historical
  MaxEventTime,  \* bound: the latest timestamp an event carries
  MaxTime,       \* bound: where the clock stops
  MaxFault,      \* bound: crashes and failed statements in one behaviour
  NoCall         \* an event that is not about a tool call

ASSUME LifecycleAssumption ==
  /\ CallSess \in [Call -> Sess]
  /\ NoCall \notin Call
  /\ {Old, MaxEventTime, MaxTime, MaxFault} \subseteq Nat
  /\ MaxEventTime + Old < MaxTime

VARIABLES
  now,
  status,  \* "none" when there is no row
  last,    \* last_event_time
  end,     \* end_time, 0 for NULL
  call,    \* call[c]: status of the row of c
  job,     \* what each goroutine is in the middle of
  phase,   \* the daemon: down, after the startup sweep, or up
  faults,  \* crashes and failed statements so far
  fresh,   \* history: timestamps processed while they were not historical
  torn     \* history: sessions a historical event should have ended

rowVars == <<status, last, end>>
vars == <<now, status, last, end, call, job, phase, faults, fresh, torn>>

Stamp == 1 .. MaxEventTime
Idle == [pc |-> "idle"]
Handling(p, s, t, c, op) == [pc |-> p, sess |-> s, ts |-> t, call |-> c, op |-> op]
AtStep(p, j) == Handling(p, j.sess, j.ts, j.call, j.op)
Ending(p, s, t) == [pc |-> p, sess |-> s, ts |-> t]

Job == {Idle}
       \cup [pc : {"age", "end", "act"}, sess : Sess, ts : Stamp,
             call : Call \cup {NoCall}, op : {"start", "end", "other"}]
       \cup [pc : {"interrupt", "endSession"}, sess : Sess, ts : Stamp]

TypeOK ==
  /\ now \in 0 .. MaxTime
  /\ status \in [Sess -> {"none", "active", "ended", "stale"}]
  /\ last \in [Sess -> 0 .. MaxEventTime]
  /\ end \in [Sess -> 0 .. MaxEventTime]
  /\ call \in [Call -> {"none", "pending", "done", "interrupted"}]
  /\ job \in [Worker -> Job]
  /\ phase \in {"down", "prune", "up"}
  /\ faults \in 0 .. MaxFault
  /\ fresh \in [Sess -> SUBSET Stamp]
  /\ torn \in SUBSET Sess

Init ==
  /\ now = 0
  /\ status = [s \in Sess |-> "none"]
  /\ last = [s \in Sess |-> 0]
  /\ end = [s \in Sess |-> 0]
  /\ call = [c \in Call |-> "none"]
  /\ job = [w \in Worker |-> Idle]
  /\ phase = "down"
  /\ faults = 0
  /\ fresh = [s \in Sess |-> {}]
  /\ torn = {}

-----------------------------------------------------------------------------
(* Statements.                                                             *)

Later(a, b) == IF a < b THEN b ELSE a
Historical(t) == now - t > Old
Closed(s) == status[s] \in {"ended", "stale"}
Becomes(w, j) == job' = [job EXCEPT ![w] = j]
Fault == faults < MaxFault /\ faults' = faults + 1

\* Faulty variant: any event reopens the session.
UpsertReopening(s, t) ==
  /\ status' = [status EXCEPT ![s] = "active"]
  /\ end' = [end EXCEPT ![s] = 0]
  /\ last' = [last EXCEPT ![s] = Later(@, t)]

\* UpsertSession: an event at or after the recorded end reopens the session,
\* an older one only counts as seen.
UpsertSession(s, t) ==
  LET open == end[s] = 0 \/ t >= end[s]
  IN  /\ status' = [status EXCEPT ![s] = IF open THEN "active" ELSE @]
      /\ end' = [end EXCEPT ![s] = IF open THEN 0 ELSE @]
      /\ last' = [last EXCEPT ![s] = Later(@, t)]

\* Faulty variant: the end is recorded although later events were seen.
EndSessionAnyway(s, t) ==
  /\ status' = [status EXCEPT ![s] = IF @ # "none" THEN "ended" ELSE @]
  /\ end' = [end EXCEPT ![s] = IF status[s] # "none" THEN Later(@, t) ELSE @]
  /\ last' = [last EXCEPT ![s] = IF status[s] # "none" THEN Later(@, t) ELSE @]

\* EndSession: nothing when a later event has been seen; end_time never
\* goes back.
EndSession(s, t) ==
  LET over == status[s] # "none" /\ last[s] <= t
  IN  /\ status' = [status EXCEPT ![s] = IF over THEN "ended" ELSE @]
      /\ end' = [end EXCEPT ![s] = IF over THEN Later(@, t) ELSE @]
      /\ last' = [last EXCEPT ![s] = IF over THEN t ELSE @]

Settled(st) == {s \in torn : st[s] = "active"}

\* Faulty variant: the end is the time of the sweep, not the last event.
SweepToNow ==
  LET S == {s \in Sess : status[s] = "active" /\ last[s] < now - Old}
  IN  /\ status' = [s \in Sess |-> IF s \in S THEN "stale" ELSE status[s]]
      /\ end' = [s \in Sess |-> IF s \in S THEN Later(now - Old, 1) ELSE end[s]]
      /\ torn' = torn \ S
      /\ UNCHANGED last

\* MarkStaleSessionsEnded.
MarkStaleSessionsEnded ==
  LET S == {s \in Sess : status[s] = "active" /\ last[s] < now - Old}
  IN  /\ status' = [s \in Sess |-> IF s \in S THEN "stale" ELSE status[s]]
      /\ end' = [s \in Sess |-> IF s \in S THEN last[s] ELSE end[s]]
      /\ torn' = torn \ S
      /\ UNCHANGED last

\* The sessions S disappear; a row inserted later starts afresh.
DeleteSessions(S) ==
  /\ status' = [s \in Sess |-> IF s \in S THEN "none" ELSE status[s]]
  /\ last' = [s \in Sess |-> IF s \in S THEN 0 ELSE last[s]]
  /\ end' = [s \in Sess |-> IF s \in S THEN 0 ELSE end[s]]
  /\ torn' = torn \ S

-----------------------------------------------------------------------------
(* processEvent, any event but session_end: upsert; EndSession when the    *)
(* event is historical; then what the event itself asks for.               *)

EventArrives(w, s, t, c, op) ==
  /\ phase = "up" /\ job[w] = Idle /\ t <= now
  /\ IF c = NoCall THEN op = "other" ELSE op # "other" /\ CallSess[c] = s
  /\ \/ UpsertSession(s, t) /\ UNCHANGED faults
     \/ Fault /\ UNCHANGED rowVars
  /\ Becomes(w, Handling("age", s, t, c, op))
  /\ UNCHANGED <<now, call, phase, fresh, torn>>

\* Faulty variant: the age of the event is not looked at.
NoAgeCheck(w) ==
  /\ job[w].pc = "age"
  /\ Becomes(w, AtStep("act", job[w]))
  /\ UNCHANGED <<now, rowVars, call, phase, faults, fresh, torn>>

AgeCheck(w) ==
  LET j == job[w]
  IN  /\ j.pc = "age"
      /\ IF Historical(j.ts)
         THEN Becomes(w, AtStep("end", j)) /\ UNCHANGED fresh
         ELSE /\ Becomes(w, AtStep("act", j))
              /\ fresh' = [fresh EXCEPT ![j.sess] = @ \cup {j.ts}]
      /\ UNCHANGED <<now, rowVars, call, phase, faults, torn>>

\* A failed EndSession is logged and the handler goes on.
EndHistorical(w) ==
  LET j == job[w]
  IN  /\ j.pc = "end"
      /\ Becomes(w, AtStep("act", j))
      /\ \/ EndSession(j.sess, j.ts) /\ torn' = Settled(status') /\ UNCHANGED faults
         \/ Fault /\ torn' = torn \cup {j.sess} /\ UNCHANGED rowVars
      /\ UNCHANGED <<now, call, phase, fresh>>

\* Faulty variant: a repeated start replaces the row.
ReplaceToolCall(c, op) ==
  call' = IF op = "start" THEN [call EXCEPT ![c] = "pending"]
          ELSE IF op = "end" /\ call[c] # "none" THEN [call EXCEPT ![c] = "done"] ELSE call

\* InsertToolCallStart ignores a call_id it knows; UpdateToolCallEnd changes
\* nothing when the start has not been seen.
WriteToolCall(c, op) ==
  call' = IF op = "start" /\ call[c] = "none" THEN [call EXCEPT ![c] = "pending"]
          ELSE IF op = "end" /\ call[c] # "none" THEN [call EXCEPT ![c] = "done"] ELSE call

Act(w) ==
  /\ job[w].pc = "act"
  /\ \/ /\ IF job[w].op = "other" THEN UNCHANGED call
           ELSE WriteToolCall(job[w].call, job[w].op)
        /\ UNCHANGED faults
     \/ job[w].op # "other" /\ Fault /\ UNCHANGED call
  /\ Becomes(w, Idle)
  /\ UNCHANGED <<now, rowVars, phase, fresh, torn>>

-----------------------------------------------------------------------------
(* session_end: CanEndSession, MarkPendingToolCallsInterrupted, EndSession *)
(* in three statements; an error in one ends the handler.                  *)

SessionEndArrives(w, s, t) ==
  /\ phase = "up" /\ job[w] = Idle /\ t <= now
  /\ status[s] # "none" /\ last[s] <= t
  /\ Becomes(w, Ending("interrupt", s, t))
  /\ UNCHANGED <<now, rowVars, call, phase, faults, fresh, torn>>

MarkPendingToolCallsInterrupted(w) ==
  LET mine == {c \in Call : CallSess[c] = job[w].sess /\ call[c] = "pending"}
  IN  /\ job[w].pc = "interrupt"
      /\ \/ /\ call' = [c \in Call |-> IF c \in mine THEN "interrupted" ELSE call[c]]
            /\ Becomes(w, Ending("endSession", job[w].sess, job[w].ts))
            /\ UNCHANGED faults
         \/ Fault /\ Becomes(w, Idle) /\ UNCHANGED call
      /\ UNCHANGED <<now, rowVars, phase, fresh, torn>>

EndByEvent(w) ==
  /\ job[w].pc = "endSession"
  /\ \/ EndSession(job[w].sess, job[w].ts) /\ torn' = Settled(status') /\ UNCHANGED faults
     \/ Fault /\ UNCHANGED <<rowVars, torn>>
  /\ Becomes(w, Idle)
  /\ UNCHANGED <<now, call, phase, fresh>>

-----------------------------------------------------------------------------
(* Sweeps, cleaning, startup, crashes and the clock.                       *)

\* Faulty variant: stale sessions are looked for at startup only.
NoPeriodicSweep == phase = "up" /\ UNCHANGED vars

StaleSweep ==
  /\ phase = "up"
  /\ \/ MarkStaleSessionsEnded /\ UNCHANGED faults
     \/ Fault /\ UNCHANGED <<rowVars, torn>>
  /\ UNCHANGED <<now, call, job, phase, fresh>>

StartSweep ==
  /\ phase = "down"
  /\ phase' = "prune"
  /\ \/ MarkStaleSessionsEnded /\ UNCHANGED faults
     \/ Fault /\ UNCHANGED <<rowVars, torn>>
  /\ UNCHANGED <<now, call, job, fresh>>

\* PruneEmptyCodexSessions: sessions without tool calls, and without
\* tokens, which are not modelled here.
StartPrune(S) ==
  /\ phase = "prune"
  /\ S \subseteq {s \in Sess : /\ status[s] # "none"
                                /\ \A c \in Call : CallSess[c] = s => call[c] = "none"}
  /\ DeleteSessions(S)
  /\ phase' = "up"
  /\ UNCHANGED <<now, call, job, faults, fresh>>

\* tm clean, in a process of its own, at any time.
CleanOldSessions(S) ==
  /\ S # {} /\ \A s \in S : Closed(s) /\ end[s] < now
  /\ DeleteSessions(S)
  /\ call' = [c \in Call |-> IF CallSess[c] \in S THEN "none" ELSE call[c]]
  /\ UNCHANGED <<now, job, phase, faults, fresh>>

Crash ==
  /\ phase = "up" /\ Fault
  /\ phase' = "down"
  /\ torn' = torn \cup {s \in Sess : \E w \in Worker :
                          job[w].pc \in {"age", "end"} /\ job[w].sess = s}
  /\ job' = [w \in Worker |-> Idle]
  /\ UNCHANGED <<now, rowVars, call, fresh>>

Tick ==
  /\ now < MaxTime /\ now' = now + 1
  /\ UNCHANGED <<rowVars, call, job, phase, faults, fresh, torn>>

-----------------------------------------------------------------------------
HandlerStep(w) ==
  \/ AgeCheck(w) \/ EndHistorical(w) \/ Act(w)
  \/ MarkPendingToolCallsInterrupted(w) \/ EndByEvent(w)

Next ==
  \/ \E w \in Worker :
       \/ \E s \in Sess, t \in Stamp : SessionEndArrives(w, s, t)
       \/ \E s \in Sess, t \in Stamp, c \in Call \cup {NoCall},
             op \in {"start", "end", "other"} : EventArrives(w, s, t, c, op)
       \/ HandlerStep(w)
  \/ StaleSweep
  \/ StartSweep
  \/ \E S \in SUBSET Sess : StartPrune(S) \/ CleanOldSessions(S)
  \/ Crash
  \/ Tick

\* Handlers that have begun go on, the sweep's ticker and the clock do not
\* stand still.  Nothing makes events arrive or restarts the daemon.
Fairness ==
  /\ \A w \in Worker : WF_vars(HandlerStep(w))
  /\ WF_vars(StaleSweep)
  /\ WF_vars(\E S \in SUBSET Sess : StartPrune(S))
  /\ WF_vars(Tick)

Spec == Init /\ [][Next]_vars /\ Fairness

-----------------------------------------------------------------------------
(* Properties.                                                             *)

\* A session is running exactly when it has no end, and the end of one that
\* is not is the time of the last event seen of it: no order of handlers,
\* sweeps and replays closes a session before an event it has seen
\* (UpsertSession, EndSession, MarkStaleSessionsEnded).
EndIsLastEvent ==
  \A s \in Sess :
    /\ status[s] = "active" => end[s] = 0
    /\ Closed(s) => end[s] = last[s] /\ end[s] # 0

\* daemon.go processEvent: "for historical events (from log watcher), mark
\* session as ended immediately so they don't appear as running".  A running
\* session's last event was recent when it was processed, or its handler is
\* about to end the session, or that statement failed.
HistoricalNotRunning ==
  \A s \in Sess : status[s] = "active" =>
    \/ last[s] \in fresh[s]
    \/ \E w \in Worker : /\ job[w].pc \in {"age", "end"}
                         /\ job[w].sess = s /\ job[w].ts = last[s]
    \/ s \in torn

\* A tool call that was finished or interrupted is not pending again, though
\* start events are repeated and overtake one another.
NeverPendingAgain ==
  [][\A c \in Call : call[c] \in {"done", "interrupted"} => call'[c] # "pending"]_vars

\* A closed session opens again only for an event as late as its end, never
\* for one replayed from before it and never by a sweep or a late handler.
ReopenedByEvidence ==
  [][\A s \in Sess : Closed(s) /\ status'[s] = "active" =>
       \E w \in Worker : /\ job[w] = Idle /\ job'[w].pc = "age"
                         /\ job'[w].sess = s /\ job'[w].ts >= end[s]]_vars

\* A session whose agent is gone does not stay running: staleSweepLoop
\* closes it, whichever handlers were lost on the way.
AbandonedCloses ==
  \A s \in Sess : status[s] = "active" ~> (status[s] # "active" \/ phase = "down")
=============================================================================
