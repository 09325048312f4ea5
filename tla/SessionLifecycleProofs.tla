----------------------- MODULE SessionLifecycleProofs -----------------------
(***************************************************************************)
(* The safety properties for every number of sessions, calls and           *)
(* goroutines, any clock and any number of faults.                         *)
(***************************************************************************)
EXTENDS SessionLifecycle, TLAPS

Columns ==
  /\ status \in [Sess -> {"none", "active", "ended", "stale"}]
  /\ last \in [Sess -> 0 .. MaxEventTime]
  /\ end \in [Sess -> 0 .. MaxEventTime]

\* A goroutine in the middle of a handler knows its session and timestamp.
Jobs == /\ job \in [Worker -> Job]

\* What EndIsLastEvent needs to be inductive: a running session has been
\* seen at some time, and a row that does not exist has no end.
SessionInv ==
  /\ Columns /\ Jobs
  /\ EndIsLastEvent
  /\ \A s \in Sess : /\ status[s] = "active" => last[s] # 0
                     /\ status[s] = "none" => end[s] = 0

USE DEF rowVars

-----------------------------------------------------------------------------
(* Jobs.                                                                   *)

LEMMA HandlingJob ==
  ASSUME NEW p \in {"age", "end", "act"}, NEW s \in Sess, NEW t \in Stamp,
         NEW c \in Call \cup {NoCall}, NEW op \in {"start", "end", "other"}
  PROVE  Handling(p, s, t, c, op) \in Job
BY DEF Handling, Job

LEMMA EndingJob ==
  ASSUME NEW p \in {"interrupt", "endSession"}, NEW s \in Sess, NEW t \in Stamp
  PROVE  Ending(p, s, t) \in Job
BY DEF Ending, Job

LEMMA HandlingFields ==
  ASSUME NEW j \in Job, j.pc \in {"age", "end", "act"}
  PROVE  /\ j.sess \in Sess /\ j.ts \in Stamp /\ j.call \in Call \cup {NoCall}
         /\ j.op \in {"start", "end", "other"}
<1>1. j \in [pc : {"age", "end", "act"}, sess : Sess, ts : Stamp,
             call : Call \cup {NoCall}, op : {"start", "end", "other"}]
  BY DEF Job, Idle
<1>2. QED
  BY <1>1

LEMMA EndingFields ==
  ASSUME NEW j \in Job, j.pc \in {"interrupt", "endSession"}
  PROVE  j.sess \in Sess /\ j.ts \in Stamp
<1>1. j \in [pc : {"interrupt", "endSession"}, sess : Sess, ts : Stamp]
  BY DEF Job, Idle
<1>2. QED
  BY <1>1

LEMMA IdleJob == Idle \in Job
BY DEF Job

LEMMA BecomesJob ==
  ASSUME Jobs, NEW w \in Worker, NEW j \in Job, Becomes(w, j)
  PROVE  Jobs'
BY DEF Jobs, Becomes

-----------------------------------------------------------------------------
(* Statements on the sessions table.                                       *)

\* The part of the invariant about one session.
RowInv(s) ==
  /\ status[s] \in {"none", "active", "ended", "stale"}
  /\ last[s] \in 0 .. MaxEventTime /\ end[s] \in 0 .. MaxEventTime
  /\ status[s] = "active" => end[s] = 0 /\ last[s] # 0
  /\ Closed(s) => end[s] = last[s] /\ end[s] # 0
  /\ status[s] = "none" => end[s] = 0

LEMMA RowByRow == SessionInv => Columns /\ Jobs /\ \A s \in Sess : RowInv(s)
BY DEF SessionInv, Columns, EndIsLastEvent, RowInv

LEMMA RowsTogether == Columns' /\ Jobs' /\ (\A s \in Sess : RowInv(s)') => SessionInv'
BY DEF SessionInv, EndIsLastEvent, RowInv

LEMMA UpsertKeeps ==
  ASSUME SessionInv, NEW s \in Sess, NEW t \in Stamp, UpsertSession(s, t)
  PROVE  Columns' /\ \A x \in Sess : RowInv(x)'
<1> USE LifecycleAssumption
<1>1. t \in 0 .. MaxEventTime /\ t # 0 /\ t \in Int
  BY DEF Stamp
<1>2. Columns /\ \A x \in Sess : RowInv(x)
  BY RowByRow
<1>3. Later(last[s], t) \in 0 .. MaxEventTime
  BY <1>1, <1>2 DEF Columns, Later
<1>4. Columns'
  BY <1>2, <1>3 DEF UpsertSession, Columns
<1>5. ASSUME NEW x \in Sess \ {s} PROVE RowInv(x)'
  <2>1. status'[x] = status[x] /\ last'[x] = last[x] /\ end'[x] = end[x]
    BY <1>2 DEF UpsertSession, Columns
  <2> QED
    BY <1>2, <2>1 DEF RowInv, Closed
<1>6. RowInv(s)'
  <2>1. last'[s] = Later(last[s], t)
    BY <1>2 DEF UpsertSession, Columns
  <2>2. CASE end[s] = 0 \/ t >= end[s]
    <3>1. status'[s] = "active" /\ end'[s] = 0
      BY <1>2, <2>2 DEF UpsertSession, Columns
    <3>2. Later(last[s], t) # 0
      BY <1>1, <1>2 DEF Later, Columns
    <3> QED
      BY <1>3, <2>1, <3>1, <3>2, <1>4 DEF RowInv, Closed, Columns
  <2>3. CASE ~(end[s] = 0 \/ t >= end[s])
    <3>1. status'[s] = status[s] /\ end'[s] = end[s]
      BY <1>2, <2>3 DEF UpsertSession, Columns
    <3>2. end[s] = last[s] /\ Closed(s)
      BY <1>2, <2>3 DEF RowInv, Closed
    <3>3. Later(last[s], t) = last[s]
      BY <1>1, <1>2, <2>3, <3>2 DEF Later, Columns
    <3> QED
      BY <1>2, <2>1, <3>1, <3>3 DEF RowInv, Closed
  <2> QED
    BY <2>2, <2>3
<1>7. QED
  BY <1>4, <1>5, <1>6

LEMMA EndSessionKeeps ==
  ASSUME SessionInv, NEW s \in Sess, NEW t \in Stamp, EndSession(s, t)
  PROVE  Columns' /\ \A x \in Sess : RowInv(x)'
<1> USE LifecycleAssumption
<1>1. t \in 0 .. MaxEventTime /\ t # 0 /\ t \in Int
  BY DEF Stamp
<1>2. Columns /\ \A x \in Sess : RowInv(x)
  BY RowByRow
<1>3. Later(end[s], t) \in 0 .. MaxEventTime
  BY <1>1, <1>2 DEF Columns, Later
<1>4. Columns'
  BY <1>1, <1>2, <1>3 DEF EndSession, Columns
<1>5. ASSUME NEW x \in Sess \ {s} PROVE RowInv(x)'
  <2>1. status'[x] = status[x] /\ last'[x] = last[x] /\ end'[x] = end[x]
    BY <1>2 DEF EndSession, Columns
  <2> QED
    BY <1>2, <2>1 DEF RowInv, Closed
<1>6. RowInv(s)'
  <2>1. CASE status[s] # "none" /\ last[s] <= t
    <3>1. status'[s] = "ended" /\ end'[s] = Later(end[s], t) /\ last'[s] = t
      BY <1>2, <2>1 DEF EndSession, Columns
    <3>2. end[s] = 0 \/ end[s] = last[s]
      BY <1>2, <2>1 DEF RowInv, Closed
    <3>3. Later(end[s], t) = t
      BY <1>1, <1>2, <2>1, <3>2 DEF Later, Columns
    <3> QED
      BY <1>1, <3>1, <3>3 DEF RowInv, Closed
  <2>2. CASE ~(status[s] # "none" /\ last[s] <= t)
    <3>1. status'[s] = status[s] /\ last'[s] = last[s] /\ end'[s] = end[s]
      BY <1>2, <2>2 DEF EndSession, Columns
    <3> QED
      BY <1>2, <3>1 DEF RowInv, Closed
  <2> QED
    BY <2>1, <2>2
<1>7. QED
  BY <1>4, <1>5, <1>6

LEMMA SweepKeeps ==
  ASSUME SessionInv, MarkStaleSessionsEnded
  PROVE  Columns' /\ \A x \in Sess : RowInv(x)'
<1>1. Columns /\ \A x \in Sess : RowInv(x)
  BY RowByRow
<1>2. Columns'
  BY <1>1 DEF MarkStaleSessionsEnded, Columns
<1>3. ASSUME NEW x \in Sess PROVE RowInv(x)'
  <2>1. \/ status'[x] = status[x] /\ end'[x] = end[x]
        \/ status[x] = "active" /\ status'[x] = "stale" /\ end'[x] = last[x]
    BY <1>1 DEF MarkStaleSessionsEnded
  <2>2. last'[x] = last[x]
    BY DEF MarkStaleSessionsEnded
  <2> QED
    BY <1>1, <2>1, <2>2 DEF RowInv, Closed
<1>4. QED
  BY <1>2, <1>3

LEMMA DeleteKeeps ==
  ASSUME SessionInv, NEW S \in SUBSET Sess, DeleteSessions(S)
  PROVE  Columns' /\ \A x \in Sess : RowInv(x)'
<1>1. Columns /\ \A x \in Sess : RowInv(x)
  BY RowByRow
<1>2. 0 \in 0 .. MaxEventTime
  BY LifecycleAssumption
<1>3. Columns'
  BY <1>1, <1>2 DEF DeleteSessions, Columns
<1>4. ASSUME NEW x \in Sess PROVE RowInv(x)'
  <2>1. CASE x \in S
    BY <1>2, <2>1 DEF DeleteSessions, RowInv, Closed
  <2>2. CASE x \notin S
    BY <1>1, <2>2 DEF DeleteSessions, RowInv, Closed
  <2> QED
    BY <2>1, <2>2
<1>5. QED
  BY <1>3, <1>4

LEMMA RowsStand ==
  ASSUME SessionInv, UNCHANGED rowVars
  PROVE  Columns' /\ \A x \in Sess : RowInv(x)'
<1>1. Columns /\ \A x \in Sess : RowInv(x)
  BY RowByRow
<1>2. QED
  BY <1>1 DEF Columns, RowInv, Closed

-----------------------------------------------------------------------------
(* The invariant.                                                          *)

LEMMA InitSessionInv == Init => SessionInv
BY LifecycleAssumption, IdleJob DEF Init, SessionInv, Columns, Jobs, EndIsLastEvent, Closed

LEMMA HandlerKeeps ==
  ASSUME SessionInv, NEW w \in Worker, HandlerStep(w)
  PROVE  SessionInv'
<1>0. Jobs /\ job[w] \in Job
  BY DEF SessionInv, Jobs
<1> DEFINE j == job[w]
<1>1. CASE AgeCheck(w)
  <2>1. AtStep("end", j) \in Job /\ AtStep("act", j) \in Job
    BY <1>0, <1>1, HandlingFields, HandlingJob DEF AgeCheck, AtStep
  <2>2. Jobs'
    BY <1>0, <1>1, <2>1, BecomesJob DEF AgeCheck
  <2> QED
    BY <1>1, <2>2, RowsStand, RowsTogether DEF AgeCheck
<1>2. CASE EndHistorical(w)
  <2>1. AtStep("act", j) \in Job /\ j.sess \in Sess /\ j.ts \in Stamp
    BY <1>0, <1>2, HandlingFields, HandlingJob DEF EndHistorical, AtStep
  <2>2. Jobs'
    BY <1>0, <1>2, <2>1, BecomesJob DEF EndHistorical
  <2> QED
    BY <1>2, <2>1, <2>2, RowsStand, EndSessionKeeps, RowsTogether DEF EndHistorical
<1>3. CASE Act(w)
  BY <1>0, <1>3, IdleJob, BecomesJob, RowsStand, RowsTogether DEF Act
<1>4. CASE MarkPendingToolCallsInterrupted(w)
  <2>1. Ending("endSession", j.sess, j.ts) \in Job
    BY <1>0, <1>4, EndingFields, EndingJob DEF MarkPendingToolCallsInterrupted
  <2>2. Jobs'
    BY <1>0, <1>4, <2>1, IdleJob, BecomesJob DEF MarkPendingToolCallsInterrupted
  <2> QED
    BY <1>4, <2>2, RowsStand, RowsTogether DEF MarkPendingToolCallsInterrupted
<1>5. CASE EndByEvent(w)
  <2>1. j.sess \in Sess /\ j.ts \in Stamp
    BY <1>0, <1>5, EndingFields DEF EndByEvent
  <2>2. Jobs'
    BY <1>0, <1>5, IdleJob, BecomesJob DEF EndByEvent
  <2> QED
    BY <1>5, <2>1, <2>2, RowsStand, EndSessionKeeps, RowsTogether DEF EndByEvent
<1>6. QED
  BY <1>1, <1>2, <1>3, <1>4, <1>5 DEF HandlerStep

LEMMA NextSessionInv == SessionInv /\ [Next]_vars => SessionInv'
<1> SUFFICES ASSUME SessionInv, [Next]_vars PROVE SessionInv'
  OBVIOUS
<1>0. Jobs
  BY DEF SessionInv
<1>1. ASSUME NEW w \in Worker, NEW s \in Sess, NEW t \in Stamp, SessionEndArrives(w, s, t)
      PROVE  SessionInv'
  BY <1>0, <1>1, EndingJob, BecomesJob, RowsStand, RowsTogether DEF SessionEndArrives
<1>2. ASSUME NEW w \in Worker, NEW s \in Sess, NEW t \in Stamp,
             NEW c \in Call \cup {NoCall}, NEW op \in {"start", "end", "other"},
             EventArrives(w, s, t, c, op)
      PROVE  SessionInv'
  <2>1. Jobs'
    BY <1>0, <1>2, HandlingJob, BecomesJob DEF EventArrives
  <2> QED
    BY <1>2, <2>1, UpsertKeeps, RowsStand, RowsTogether DEF EventArrives
<1>3. ASSUME NEW w \in Worker, HandlerStep(w) PROVE SessionInv'
  BY <1>3, HandlerKeeps
<1>4. CASE StaleSweep
  BY <1>0, <1>4, SweepKeeps, RowsStand, RowsTogether DEF StaleSweep, Jobs
<1>5. CASE StartSweep
  BY <1>0, <1>5, SweepKeeps, RowsStand, RowsTogether DEF StartSweep, Jobs
<1>6. ASSUME NEW S \in SUBSET Sess, StartPrune(S) PROVE SessionInv'
  BY <1>0, <1>6, DeleteKeeps, RowsTogether DEF StartPrune, Jobs
<1>7. ASSUME NEW S \in SUBSET Sess, CleanOldSessions(S) PROVE SessionInv'
  BY <1>0, <1>7, DeleteKeeps, RowsTogether DEF CleanOldSessions, Jobs
<1>8. CASE Crash
  <2>1. Jobs'
    BY <1>8, IdleJob DEF Crash, Jobs
  <2> QED
    BY <1>8, <2>1, RowsStand, RowsTogether DEF Crash
<1>9. CASE Tick \/ UNCHANGED vars
  BY <1>0, <1>9, RowsStand, RowsTogether DEF Tick, vars, Jobs
<1>10. QED
  BY <1>1, <1>2, <1>3, <1>4, <1>5, <1>6, <1>7, <1>8, <1>9 DEF Next

\* Handlers of one session may interleave and repeat as they like, events
\* may come from any time: a running session has no end_time, and the
\* end_time of one that is not running is its last_event_time (db.go
\* 549-596, 811-821).
THEOREM EndCorrect == Spec => []EndIsLastEvent
<1>1. SessionInv => EndIsLastEvent
  BY DEF SessionInv
<1>2. QED
  BY <1>1, InitSessionInv, NextSessionInv, PTL DEF Spec

-----------------------------------------------------------------------------
(* Types of the other variables.                                           *)

Others ==
  /\ now \in 0 .. MaxTime
  /\ call \in [Call -> {"none", "pending", "done", "interrupted"}]
  /\ phase \in {"down", "prune", "up"}
  /\ faults \in 0 .. MaxFault
  /\ fresh \in [Sess -> SUBSET Stamp]
  /\ torn \in SUBSET Sess

LEMMA FaultInBounds == Others /\ Fault => faults' \in 0 .. MaxFault
BY LifecycleAssumption DEF Others, Fault

LEMMA WriteToolCallType ==
  ASSUME Others, NEW c, NEW op, WriteToolCall(c, op)
  PROVE  call' \in [Call -> {"none", "pending", "done", "interrupted"}]
BY DEF Others, WriteToolCall

LEMMA HandlerOthers ==
  ASSUME SessionInv, Others, NEW w \in Worker, HandlerStep(w)
  PROVE  Others'
<1>0. job[w] \in Job
  BY DEF SessionInv, Jobs
<1>1. CASE AgeCheck(w)
  <2>1. job[w].sess \in Sess /\ job[w].ts \in Stamp
    BY <1>0, <1>1, HandlingFields DEF AgeCheck
  <2>2. fresh' \in [Sess -> SUBSET Stamp]
    BY <1>1, <2>1 DEF AgeCheck, Others
  <2> QED
    BY <1>1, <2>2 DEF AgeCheck, Others
<1>2. CASE EndHistorical(w)
  <2>1. job[w].sess \in Sess
    BY <1>0, <1>2, HandlingFields DEF EndHistorical
  <2>2. torn' \in SUBSET Sess /\ faults' \in 0 .. MaxFault
    BY <1>2, <2>1, FaultInBounds DEF EndHistorical, Others, Settled
  <2> QED
    BY <1>2, <2>2 DEF EndHistorical, Others
<1>3. CASE Act(w)
  <2>1. call' \in [Call -> {"none", "pending", "done", "interrupted"}]
    BY <1>3, WriteToolCallType DEF Act, Others
  <2>2. faults' \in 0 .. MaxFault
    BY <1>3, FaultInBounds DEF Act, Others
  <2> QED
    BY <1>3, <2>1, <2>2 DEF Act, Others
<1>4. CASE MarkPendingToolCallsInterrupted(w)
  <2>1. call' \in [Call -> {"none", "pending", "done", "interrupted"}]
    BY <1>4 DEF MarkPendingToolCallsInterrupted, Others
  <2>2. faults' \in 0 .. MaxFault
    BY <1>4, FaultInBounds DEF MarkPendingToolCallsInterrupted, Others
  <2> QED
    BY <1>4, <2>1, <2>2 DEF MarkPendingToolCallsInterrupted, Others
<1>5. CASE EndByEvent(w)
  <2>1. torn' \in SUBSET Sess /\ faults' \in 0 .. MaxFault
    BY <1>5, FaultInBounds DEF EndByEvent, Others, Settled
  <2> QED
    BY <1>5, <2>1 DEF EndByEvent, Others
<1> QED
  BY <1>1, <1>2, <1>3, <1>4, <1>5 DEF HandlerStep

LEMMA NextOthers == SessionInv /\ Others /\ [Next]_vars => Others'
<1> SUFFICES ASSUME SessionInv, Others, [Next]_vars PROVE Others'
  OBVIOUS
<1>1. ASSUME NEW w \in Worker, NEW s \in Sess, NEW t \in Stamp, SessionEndArrives(w, s, t)
      PROVE  Others'
  BY <1>1 DEF SessionEndArrives, Others
<1>2. ASSUME NEW w \in Worker, NEW s \in Sess, NEW t \in Stamp,
             NEW c \in Call \cup {NoCall}, NEW op \in {"start", "end", "other"},
             EventArrives(w, s, t, c, op)
      PROVE  Others'
  BY <1>2, FaultInBounds DEF EventArrives, Others
<1>3. ASSUME NEW w \in Worker, HandlerStep(w) PROVE Others'
  BY <1>3, HandlerOthers
<1>4. CASE StaleSweep
  BY <1>4, FaultInBounds DEF StaleSweep, MarkStaleSessionsEnded, Others
<1>5. CASE StartSweep
  BY <1>5, FaultInBounds DEF StartSweep, MarkStaleSessionsEnded, Others
<1>6. ASSUME NEW S \in SUBSET Sess, StartPrune(S) PROVE Others'
  BY <1>6 DEF StartPrune, DeleteSessions, Others
<1>7. ASSUME NEW S \in SUBSET Sess, CleanOldSessions(S) PROVE Others'
  BY <1>7 DEF CleanOldSessions, DeleteSessions, Others
<1>8. CASE Crash
  BY <1>8, FaultInBounds DEF Crash, Others
<1>9. CASE Tick
  BY <1>9, LifecycleAssumption DEF Tick, Others
<1>10. CASE UNCHANGED vars
  BY <1>10 DEF vars, Others
<1> QED
  BY <1>1, <1>2, <1>3, <1>4, <1>5, <1>6, <1>7, <1>8, <1>9, <1>10 DEF Next

LEMMA InitOthers == Init => Others
BY LifecycleAssumption DEF Init, Others

\* Columns, handlers and history stay what they are declared to be.
THEOREM TypeCorrect == Spec => []TypeOK
<1>1. SessionInv /\ Others => TypeOK
  BY DEF SessionInv, Columns, Jobs, Others, TypeOK
<1> QED
  BY <1>1, InitSessionInv, NextSessionInv, InitOthers, NextOthers, PTL DEF Spec

-----------------------------------------------------------------------------
(* Tool calls.                                                             *)

\* A finished or interrupted call stays so, or its row disappears with its
\* session, whatever handlers repeat its start (InsertToolCallStart, db.go).
THEOREM PendingOnce == Spec => NeverPendingAgain
<1>1. SessionInv /\ Others /\ [Next]_vars =>
        [\A c \in Call : call[c] \in {"done", "interrupted"} => call'[c] # "pending"]_vars
  <2> SUFFICES ASSUME Others, Next, NEW c \in Call, call[c] \in {"done", "interrupted"}
               PROVE  call'[c] # "pending"
    OBVIOUS
  <2>0. call \in [Call -> {"none", "pending", "done", "interrupted"}]
    BY DEF Others
  <2>1. ASSUME NEW w \in Worker, Act(w) PROVE call'[c] # "pending"
    BY <2>0, <2>1 DEF Act, WriteToolCall
  <2>2. ASSUME NEW w \in Worker, MarkPendingToolCallsInterrupted(w) PROVE call'[c] # "pending"
    BY <2>0, <2>2 DEF MarkPendingToolCallsInterrupted
  <2>3. ASSUME NEW w \in Worker, AgeCheck(w) \/ EndHistorical(w) \/ EndByEvent(w)
        PROVE  call'[c] # "pending"
    BY <2>3 DEF AgeCheck, EndHistorical, EndByEvent
  <2>4. ASSUME NEW S \in SUBSET Sess, CleanOldSessions(S) PROVE call'[c] # "pending"
    BY <2>0, <2>4 DEF CleanOldSessions
  <2> QED
    BY <2>1, <2>2, <2>3, <2>4
       DEF Next, HandlerStep, EventArrives, SessionEndArrives, StaleSweep, StartSweep, StartPrune,
           Crash, Tick
<1> QED
  BY <1>1, InitSessionInv, NextSessionInv, InitOthers, NextOthers, PTL DEF Spec, NeverPendingAgain

-----------------------------------------------------------------------------
(* Reopening.                                                              *)

LEMMA HandlingPc == \A s, t, c, op : LET j == Handling("age", s, t, c, op)
                                     IN j.pc = "age" /\ j.sess = s /\ j.ts = t
BY DEF Handling

LEMMA EndingDoesNotOpen ==
  ASSUME Columns, NEW s \in Sess, NEW t, EndSession(s, t), NEW x \in Sess, Closed(x)
  PROVE  status'[x] # "active"
BY DEF Columns, EndSession, Closed

\* Only an upsert makes a session active, and of a closed one only for an
\* event that is as late as its end (UpsertSession, db.go).
THEOREM ReopenedCorrect == Spec => ReopenedByEvidence
<1>1. SessionInv /\ [Next]_vars =>
        [\A s \in Sess : Closed(s) /\ status'[s] = "active" =>
           \E w \in Worker : /\ job[w] = Idle /\ job'[w].pc = "age"
                             /\ job'[w].sess = s /\ job'[w].ts >= end[s]]_vars
  <2> DEFINE Reopens(s) == \E w \in Worker : /\ job[w] = Idle /\ job'[w].pc = "age"
                                            /\ job'[w].sess = s /\ job'[w].ts >= end[s]
  <2> SUFFICES ASSUME SessionInv, Next, NEW x \in Sess, Closed(x), status'[x] = "active"
               PROVE  Reopens(x)
    OBVIOUS
  <2>0. Columns /\ Jobs /\ status[x] # "active" /\ end[x] # 0
    BY DEF SessionInv, EndIsLastEvent, Closed
  <2>1. ASSUME NEW w \in Worker, NEW s \in Sess, NEW t \in Stamp,
               NEW c \in Call \cup {NoCall}, NEW op \in {"start", "end", "other"},
               EventArrives(w, s, t, c, op)
        PROVE  Reopens(x)
    <3>1. UpsertSession(s, t)
      BY <2>0, <2>1 DEF EventArrives
    <3>2. x = s /\ t >= end[x]
      BY <2>0, <3>1 DEF UpsertSession, Columns
    <3>3. job[w] = Idle /\ job'[w] = Handling("age", s, t, c, op)
      BY <2>0, <2>1 DEF EventArrives, Becomes, Jobs
    <3> QED
      BY <3>2, <3>3, HandlingPc
  <2>2. ASSUME NEW w \in Worker, EndHistorical(w) \/ EndByEvent(w) PROVE FALSE
    <3>1. job[w] \in Job
      BY <2>0 DEF Jobs
    <3>2. job[w].sess \in Sess
      BY <2>2, <3>1, HandlingFields, EndingFields DEF EndHistorical, EndByEvent
    <3> QED
      BY <2>0, <2>2, <3>2, EndingDoesNotOpen DEF EndHistorical, EndByEvent
  <2>3. CASE StaleSweep \/ StartSweep
    BY <2>0, <2>3 DEF StaleSweep, StartSweep, MarkStaleSessionsEnded
  <2>4. ASSUME NEW S \in SUBSET Sess, StartPrune(S) \/ CleanOldSessions(S) PROVE FALSE
    BY <2>0, <2>4 DEF StartPrune, CleanOldSessions, DeleteSessions
  <2> QED
    BY <2>0, <2>1, <2>2, <2>3, <2>4
       DEF Next, HandlerStep, SessionEndArrives, AgeCheck, Act, MarkPendingToolCallsInterrupted,
           Crash, Tick
<1> QED
  BY <1>1, InitSessionInv, NextSessionInv, PTL DEF Spec, ReopenedByEvidence

-----------------------------------------------------------------------------
(* Running sessions.                                                       *)

\* A session that was deleted, or never there, was not seen: an upsert that
\* makes it active records the event's own time.
Unseen == \A s \in Sess : status[s] = "none" => last[s] = 0

InHand(s) == \E w \in Worker : /\ job[w].pc \in {"age", "end"}
                              /\ job[w].sess = s /\ job[w].ts = last[s]
Explained(s) == status[s] = "active" => last[s] \in fresh[s] \/ InHand(s) \/ s \in torn

RunningInv == SessionInv /\ Others /\ Unseen /\ \A s \in Sess : Explained(s)

LEMMA NextUnseen == SessionInv /\ Unseen /\ [Next]_vars => Unseen'
<1> SUFFICES ASSUME SessionInv, Unseen, [Next]_vars, NEW x \in Sess, status'[x] = "none"
             PROVE  last'[x] = 0
  BY DEF Unseen
<1>0. Columns /\ Jobs /\ (status[x] = "none" => last[x] = 0 /\ end[x] = 0)
  BY DEF SessionInv, Unseen
<1>1. ASSUME NEW w \in Worker, NEW s \in Sess, NEW t \in Stamp,
             NEW c \in Call \cup {NoCall}, NEW op \in {"start", "end", "other"},
             EventArrives(w, s, t, c, op)
      PROVE  last'[x] = 0
  BY <1>0, <1>1 DEF EventArrives, UpsertSession, Columns
<1>2. ASSUME NEW w \in Worker, EndHistorical(w) \/ EndByEvent(w) PROVE last'[x] = 0
  <2>1. job[w] \in Job
    BY <1>0 DEF Jobs
  <2>2. job[w].sess \in Sess
    BY <1>2, <2>1, HandlingFields, EndingFields DEF EndHistorical, EndByEvent
  <2> QED
    BY <1>0, <1>2, <2>2 DEF EndHistorical, EndByEvent, EndSession, Columns
<1>3. CASE StaleSweep \/ StartSweep
  BY <1>0, <1>3 DEF StaleSweep, StartSweep, MarkStaleSessionsEnded
<1>4. ASSUME NEW S \in SUBSET Sess, StartPrune(S) \/ CleanOldSessions(S) PROVE last'[x] = 0
  BY <1>0, <1>4 DEF StartPrune, CleanOldSessions, DeleteSessions
<1> QED
  BY <1>0, <1>1, <1>2, <1>3, <1>4
     DEF Next, HandlerStep, SessionEndArrives, AgeCheck, Act, MarkPendingToolCallsInterrupted,
         Crash, Tick, vars

\* An upsert that leaves a session active either records the event in hand or
\* leaves a later one that was explained before.
LEMMA ArrivesExplained ==
  ASSUME RunningInv, NEW w \in Worker, NEW s \in Sess, NEW t \in Stamp,
         NEW c \in Call \cup {NoCall}, NEW op \in {"start", "end", "other"},
         EventArrives(w, s, t, c, op), NEW x \in Sess
  PROVE  Explained(x)'
<1> SUFFICES ASSUME status'[x] = "active"
             PROVE  last'[x] \in fresh'[x] \/ InHand(x)' \/ x \in torn'
  BY DEF Explained
<1>0. Columns /\ Jobs /\ Unseen /\ Explained(x) /\ RowInv(x)
  BY RowByRow DEF RunningInv
<1>1. job[w] = Idle /\ job'[w] = Handling("age", s, t, c, op)
  BY <1>0 DEF EventArrives, Becomes, Jobs
<1>2. job'[w].pc = "age" /\ job'[w].sess = s /\ job'[w].ts = t
  BY <1>1, HandlingPc
<1>3. Idle.pc \notin {"age", "end"}
  BY DEF Idle
<1>4. \A v \in Worker \ {w} : job'[v] = job[v]
  BY <1>0 DEF EventArrives, Becomes, Jobs
<1>5. ASSUME status[x] = "active", last'[x] = last[x]
      PROVE  last'[x] \in fresh'[x] \/ InHand(x)' \/ x \in torn'
  <2>1. InHand(x) => InHand(x)'
    BY <1>1, <1>3, <1>4, <1>5 DEF InHand
  <2> QED
    BY <1>0, <1>5, <2>1 DEF Explained, EventArrives
<1>6. CASE UNCHANGED rowVars
  BY <1>5, <1>6
<1>7. CASE UpsertSession(s, t) /\ x # s
  BY <1>0, <1>5, <1>7 DEF UpsertSession, Columns
<1>8. CASE UpsertSession(s, t) /\ x = s
  <2>1. last'[s] = Later(last[s], t)
    BY <1>0, <1>8 DEF UpsertSession, Columns
  <2>2. last[s] \in Int /\ t \in Int
    BY <1>0, LifecycleAssumption DEF Columns, Stamp
  <2>3. last'[s] = t \/ (last'[s] = last[s] /\ t < last[s])
    BY <2>1, <2>2 DEF Later
  <2>4. CASE last'[s] = t
    BY <1>2, <1>8, <2>4 DEF InHand
  <2>5. CASE last'[s] = last[s] /\ t < last[s]
    <3>1. status[s] = "active"
      <4>1. status'[s] = IF end[s] = 0 \/ t >= end[s] THEN "active" ELSE status[s]
        BY <1>0, <1>8 DEF UpsertSession, Columns
      <4>2. last[s] # 0
        BY <2>2, <2>5 DEF Stamp
      <4> QED
        BY <1>0, <1>8, <2>2, <2>5, <4>1, <4>2 DEF RowInv, Closed, Unseen
    <3> QED
      BY <1>5, <1>8, <2>5, <3>1
  <2> QED
    BY <2>3, <2>4, <2>5
<1> QED
  BY <1>6, <1>7, <1>8 DEF EventArrives

\* The handler that holds an event gives it up by calling it recent, by
\* ending the session, or by leaving it torn.
LEMMA HandlerExplained ==
  ASSUME RunningInv, NEW w \in Worker, HandlerStep(w), NEW x \in Sess
  PROVE  Explained(x)'
<1> SUFFICES ASSUME status'[x] = "active"
             PROVE  last'[x] \in fresh'[x] \/ InHand(x)' \/ x \in torn'
  BY DEF Explained
<1> DEFINE j == job[w]
<1>0. Columns /\ Jobs /\ Explained(x) /\ j \in Job /\ fresh \in [Sess -> SUBSET Stamp]
  BY DEF RunningInv, SessionInv, Jobs, Others
<1>1. CASE AgeCheck(w)
  <2>1. j.sess \in Sess /\ j.ts \in Stamp /\ j.pc = "age"
    BY <1>0, <1>1, HandlingFields DEF AgeCheck
  <2>2. CASE Historical(j.ts)
    <3>1. job' = [job EXCEPT ![w] = AtStep("end", j)] /\ fresh' = fresh
      BY <1>1, <2>2 DEF AgeCheck, Becomes
    <3>2. AtStep("end", j).pc = "end" /\ AtStep("end", j).sess = j.sess
          /\ AtStep("end", j).ts = j.ts
      BY DEF AtStep, Handling
    <3>3. InHand(x) => InHand(x)'
      BY <1>0, <1>1, <3>1, <3>2 DEF InHand, Jobs, AgeCheck
    <3> QED
      BY <1>0, <1>1, <3>1, <3>3 DEF Explained, AgeCheck
  <2>3. CASE ~Historical(j.ts)
    <3>1. /\ job' = [job EXCEPT ![w] = AtStep("act", j)]
          /\ fresh' = [fresh EXCEPT ![j.sess] = @ \cup {j.ts}]
      BY <1>1, <2>3 DEF AgeCheck, Becomes
    <3>2. fresh[x] \subseteq fresh'[x] /\ j.ts \in fresh'[j.sess]
      BY <1>0, <2>1, <3>1
    <3>3. InHand(x) => InHand(x)' \/ (j.sess = x /\ j.ts = last[x])
      BY <1>0, <1>1, <3>1 DEF InHand, Jobs, AgeCheck
    <3> QED
      BY <1>0, <1>1, <3>2, <3>3 DEF Explained, AgeCheck
  <2> QED
    BY <2>2, <2>3
<1>2. CASE EndHistorical(w)
  <2>1. j.sess \in Sess /\ j.ts \in Stamp /\ j.pc = "end"
    BY <1>0, <1>2, HandlingFields DEF EndHistorical
  <2>2. job' = [job EXCEPT ![w] = AtStep("act", j)] /\ fresh' = fresh
    BY <1>2 DEF EndHistorical, Becomes
  <2>3. InHand(x) => (\E v \in Worker : /\ job'[v].pc \in {"age", "end"} /\ job'[v].sess = x
                                       /\ job'[v].ts = last[x])
                     \/ (j.sess = x /\ j.ts = last[x])
    BY <1>0, <2>2 DEF InHand, Jobs
  <2>4. CASE EndSession(j.sess, j.ts) /\ torn' = Settled(status')
    <3>1. status[x] = "active" /\ last'[x] = last[x] /\ ~(j.sess = x /\ j.ts = last[x])
      BY <1>0, <2>1, <2>4, LifecycleAssumption DEF EndSession, Columns, Stamp
    <3>2. x \in torn => x \in torn'
      BY <2>4 DEF Settled
    <3> QED
      BY <1>0, <2>2, <2>3, <3>1, <3>2 DEF Explained, InHand
  <2>5. CASE torn' = torn \cup {j.sess} /\ UNCHANGED rowVars
    BY <1>0, <2>2, <2>3, <2>5 DEF Explained, InHand
  <2> QED
    BY <1>2, <2>4, <2>5 DEF EndHistorical
<1>3. CASE Act(w) \/ MarkPendingToolCallsInterrupted(w)
  <2>1. \A v \in Worker \ {w} : job'[v] = job[v]
    BY <1>0, <1>3 DEF Act, MarkPendingToolCallsInterrupted, Becomes, Jobs
  <2>2. InHand(x) => InHand(x)'
    BY <1>3, <2>1 DEF InHand, Act, MarkPendingToolCallsInterrupted
  <2> QED
    BY <1>0, <1>3, <2>2 DEF Explained, Act, MarkPendingToolCallsInterrupted
<1>4. CASE EndByEvent(w)
  <2>1. j.sess \in Sess /\ j.ts \in Stamp
    BY <1>0, <1>4, EndingFields DEF EndByEvent
  <2>2. \A v \in Worker \ {w} : job'[v] = job[v]
    BY <1>0, <1>4 DEF EndByEvent, Becomes, Jobs
  <2>3. status[x] = "active" /\ last'[x] = last[x]
    BY <1>0, <1>4, <2>1 DEF EndByEvent, EndSession, Columns
  <2>4. InHand(x) => InHand(x)'
    BY <1>4, <2>2, <2>3 DEF InHand, EndByEvent
  <2>5. x \in torn => x \in torn'
    BY <1>4 DEF EndByEvent, Settled
  <2> QED
    BY <1>0, <1>4, <2>3, <2>4, <2>5 DEF Explained, EndByEvent
<1> QED
  BY <1>1, <1>2, <1>3, <1>4 DEF HandlerStep

LEMMA NextRunningInv == RunningInv /\ [Next]_vars => RunningInv'
<1> SUFFICES ASSUME RunningInv, [Next]_vars PROVE RunningInv'
  OBVIOUS
<1>0. Columns /\ Jobs
  BY DEF RunningInv, SessionInv
<1>1. ASSUME NEW x \in Sess PROVE Explained(x)'
  <2>0. Explained(x)
    BY DEF RunningInv
  <2>1. ASSUME NEW w \in Worker, NEW s \in Sess, NEW t \in Stamp, SessionEndArrives(w, s, t)
        PROVE  Explained(x)'
    <3>1. job[w].pc \notin {"age", "end"}
      BY <2>1 DEF SessionEndArrives, Idle
    <3>2. \A v \in Worker \ {w} : job'[v] = job[v]
      BY <1>0, <2>1 DEF SessionEndArrives, Becomes, Jobs
    <3>3. InHand(x) => InHand(x)'
      BY <2>1, <3>1, <3>2 DEF InHand, SessionEndArrives
    <3> QED
      BY <2>0, <2>1, <3>3 DEF Explained, SessionEndArrives
  <2>2. CASE StaleSweep \/ StartSweep
    <3>1. status'[x] = "active" => /\ status[x] = "active" /\ last'[x] = last[x]
                                   /\ x \in torn => x \in torn'
      BY <1>0, <2>2 DEF StaleSweep, StartSweep, MarkStaleSessionsEnded, Columns
    <3>2. UNCHANGED <<job, fresh>>
      BY <2>2 DEF StaleSweep, StartSweep
    <3> QED
      BY <2>0, <3>1, <3>2 DEF Explained, InHand
  <2>3. ASSUME NEW S \in SUBSET Sess, StartPrune(S) \/ CleanOldSessions(S) PROVE Explained(x)'
    <3>1. status'[x] = "active" => /\ status[x] = "active" /\ last'[x] = last[x]
                                   /\ x \in torn => x \in torn'
      BY <1>0, <2>3 DEF StartPrune, CleanOldSessions, DeleteSessions
    <3>2. UNCHANGED <<job, fresh>>
      BY <2>3 DEF StartPrune, CleanOldSessions
    <3> QED
      BY <2>0, <3>1, <3>2 DEF Explained, InHand
  <2>4. CASE Crash
    <3>1. InHand(x) => x \in torn'
      BY <2>4 DEF InHand, Crash
    <3> QED
      BY <2>0, <2>4, <3>1 DEF Explained, Crash
  <2>5. CASE Tick \/ UNCHANGED vars
    BY <2>0, <2>5 DEF Explained, InHand, Tick, vars
  <2> QED
    BY <2>1, <2>2, <2>3, <2>4, <2>5, ArrivesExplained, HandlerExplained DEF Next
<1> QED
  BY <1>1, NextSessionInv, NextOthers, NextUnseen DEF RunningInv

\* No session is shown as running because of old events, unless the
\* statement that should have ended it failed or was never reached.
THEOREM RunningCorrect == Spec => []HistoricalNotRunning
<1>1. Init => RunningInv
  BY InitSessionInv, InitOthers DEF Init, RunningInv, Unseen, Explained
<1>2. RunningInv => HistoricalNotRunning
  BY DEF RunningInv, Explained, InHand, HistoricalNotRunning
<1> QED
  BY <1>1, <1>2, NextRunningInv, PTL DEF Spec
=============================================================================
