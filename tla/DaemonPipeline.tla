--------------------------- MODULE DaemonPipeline ---------------------------
(***************************************************************************)
(* The way of an event through the daemon and the shutdown that has to     *)
(* empty it: watchers call ProcessExternalEventAsync, which sends to       *)
(* batchCh; batchConsumer and one handleConn goroutine per client          *)
(* connection run processEvent, which writes most events itself and hands  *)
(* token_usage events to the BatchWriter; the BatchWriter writes its       *)
(* buffer in one transaction; Daemon.Stop closes and waits in a fixed      *)
(* order, after which the caller closes the database.                      *)
(*                                                                         *)
(* Each producer p has Feed[p] events to offer; <<p, i>> is its i-th one.  *)
(* What an event carries does not matter here, only whether processEvent   *)
(* writes it (Direct) or the BatchWriter does.                             *)
(***************************************************************************)
EXTENDS Integers, Sequences, SequencesExt

CONSTANTS
  Watcher,        \* the log watchers' polling goroutines
  Conn,           \* client connections to the event socket
  Feed,           \* Feed[p]: how many events producer p has (bound)
  Direct,         \* events that processEvent writes itself
  BatchCap,       \* capacity of batchCh (10000 in New)
  QueueCap,       \* capacity of BatchWriter.q (100)
  FlushSize,      \* BatchWriter.flushSize (50)
  MaxFault,       \* bound: transactions that fail in one behaviour
  WatchersFirst,  \* the caller stops the watchers before the daemon
  None

Producer == Watcher \cup Conn
Event == UNION {{p} \X (1 .. Feed[p]) : p \in Producer}

ASSUME PipelineAssumption ==
  /\ Watcher \cap Conn = {}
  /\ Feed \in [Producer -> Nat]
  /\ Direct \subseteq Event
  /\ None \notin Event
  /\ {BatchCap, QueueCap, FlushSize} \subseteq Nat \ {0}
  /\ MaxFault \in Nat
  /\ WatchersFirst \in BOOLEAN

VARIABLES
  next,      \* next[p]: events taken from p so far
  watcher,   \* what each watcher is doing
  conn,      \* where each connection is
  shut,      \* connections that Stop has closed
  batchCh,
  consumer,  \* batchConsumer: its loop and the event it is processing
  q,         \* BatchWriter.q
  buf,       \* BatchWriter.run's buffer
  writer,    \* BatchWriter.run's loop
  bg,        \* one of the background loops
  stop,      \* how far Daemon.Stop and its caller are
  stored,    \* events in the order their rows were written
  failed,    \* events of transactions that failed
  refused,   \* events BatchWriter.Enqueue turned away after its Stop
  dropped,   \* events counted in droppedShutdownEvts
  faults     \* failed transactions so far

sourceVars == <<next, watcher, conn, shut>>
writerVars == <<q, buf, writer>>
fateVars   == <<stored, failed, refused, dropped, faults>>
vars == <<next, watcher, conn, shut, batchCh, consumer, q, buf, writer, bg,
          stop, stored, failed, refused, dropped, faults>>

\* Daemon.Stop, named by what has just been done, and the db.Close after it.
Stage == {"up", "stopping", "done", "unheard", "swept", "quiet", "drained",
          "writerDone", "flushed", "stopped", "closed"}

DoneClosed == stop \notin {"up", "stopping"}
Listening  == stop \in {"up", "stopping", "done"}
WriterDone == stop \in {"writerDone", "flushed", "stopped", "closed"}

TypeOK ==
  /\ next \in [Producer -> Nat] /\ \A p \in Producer : next[p] <= Feed[p]
  /\ watcher \in [Watcher -> {"reading", "sending", "stopped"}]
  /\ conn \in [Conn -> {"dialed", "accepted", "open", "handling", "gone"}]
  /\ shut \subseteq Conn
  /\ batchCh \in Seq(Event) /\ Len(batchCh) <= BatchCap
  /\ consumer \in [loop : {"run", "drain", "exited"}, ev : Event \cup {None}]
  /\ q \in Seq(Event) /\ Len(q) <= QueueCap
  /\ buf \in Seq(Event) /\ Len(buf) < FlushSize + QueueCap
  /\ writer \in {"run", "drain", "exited"}
  /\ bg \in {"waiting", "sweeping", "exited"}
  /\ stop \in Stage
  /\ stored \in Seq(Event)
  /\ failed \subseteq Event /\ refused \subseteq Event /\ dropped \subseteq Event
  /\ faults \in 0 .. MaxFault

Init ==
  /\ next = [p \in Producer |-> 0]
  /\ watcher = [w \in Watcher |-> "reading"]
  /\ conn = [c \in Conn |-> "dialed"]
  /\ shut = {}
  /\ batchCh = <<>> /\ q = <<>> /\ buf = <<>>
  /\ consumer = [loop |-> "run", ev |-> None]
  /\ writer = "run" /\ bg = "waiting" /\ stop = "up"
  /\ stored = <<>>
  /\ failed = {} /\ refused = {} /\ dropped = {}
  /\ faults = 0

-----------------------------------------------------------------------------
(* Watchers: ProcessExternalEventAsync.                                    *)

Current(p) == <<p, next[p]>>

\* The first select: send if there is room, whether or not the daemon is
\* stopping; otherwise block in the second one.
Emit(w) ==
  /\ watcher[w] = "reading" /\ next[w] < Feed[w]
  /\ next' = [next EXCEPT ![w] = @ + 1]
  /\ IF Len(batchCh) < BatchCap
     THEN batchCh' = Append(batchCh, <<w, next[w] + 1>>) /\ UNCHANGED watcher
     ELSE watcher' = [watcher EXCEPT ![w] = "sending"] /\ UNCHANGED batchCh
  /\ UNCHANGED <<conn, shut, consumer, writerVars, bg, stop, fateVars>>

SendBlocked(w) ==
  /\ watcher[w] = "sending" /\ Len(batchCh) < BatchCap
  /\ batchCh' = Append(batchCh, Current(w))
  /\ watcher' = [watcher EXCEPT ![w] = "reading"]
  /\ UNCHANGED <<next, conn, shut, consumer, writerVars, bg, stop, fateVars>>

DropOnShutdown(w) ==
  /\ watcher[w] = "sending" /\ DoneClosed
  /\ dropped' = dropped \cup {Current(w)}
  /\ watcher' = [watcher EXCEPT ![w] = "reading"]
  /\ UNCHANGED <<next, conn, shut, batchCh, consumer, writerVars, bg, stop,
                 stored, failed, refused, faults>>

\* The watcher's own Stop, which waits for its goroutine: called first by
\* tm daemon and tm web.  A scan in progress ends at the next line it reads.
WatcherStops(w) ==
  /\ WatchersFirst /\ watcher[w] = "reading"
  /\ watcher' = [watcher EXCEPT ![w] = "stopped"]
  /\ UNCHANGED <<next, conn, shut, batchCh, consumer, writerVars, bg, stop, fateVars>>

-----------------------------------------------------------------------------
(* processEvent for the goroutines that run it.                            *)

Write(e) == stored' = Append(stored, e)

\* BatchWriter.Enqueue: the queue has room, or the writer has been stopped.
Enqueue(e) ==
  \E taken \in BOOLEAN :
    /\ IF taken THEN Len(q) < QueueCap ELSE WriterDone
    /\ q' = IF taken THEN Append(q, e) ELSE q
    /\ refused' = IF taken THEN refused ELSE refused \cup {e}

\* The error of a statement is logged, and the event is gone.
Execute(e) ==
  \/ Write(e) /\ UNCHANGED <<failed, faults>>
  \/ /\ faults < MaxFault /\ faults' = faults + 1
     /\ failed' = failed \cup {e}
     /\ UNCHANGED stored

ProcessEvent(e) ==
  /\ IF e \in Direct THEN Execute(e) /\ UNCHANGED <<q, refused>>
                     ELSE Enqueue(e) /\ UNCHANGED <<stored, failed, faults>>
  /\ UNCHANGED <<buf, writer, dropped>>

-----------------------------------------------------------------------------
(* Client connections: acceptLoop, registerClientConn, handleConn.         *)

\* One accept goroutine: it registers a connection before the next Accept.
Accept(c) ==
  /\ Listening /\ conn[c] = "dialed"
  /\ \A d \in Conn : conn[d] # "accepted"
  /\ conn' = [conn EXCEPT ![c] = "accepted"]
  /\ UNCHANGED <<next, watcher, shut, batchCh, consumer, writerVars, bg, stop, fateVars>>

\* Faulty variant: connections are registered after the sweep too.
RegisterAlways(c) ==
  /\ conn[c] = "accepted"
  /\ conn' = [conn EXCEPT ![c] = "open"]
  /\ UNCHANGED <<next, watcher, shut, batchCh, consumer, writerVars, bg, stop, fateVars>>

\* The stopping flag, clientConns and connWG change under d.mu.
RegisterClientConn(c) ==
  /\ conn[c] = "accepted"
  /\ conn' = [conn EXCEPT ![c] = IF stop = "up" THEN "open" ELSE "gone"]
  /\ UNCHANGED <<next, watcher, shut, batchCh, consumer, writerVars, bg, stop, fateVars>>

\* A closed connection may still yield what the decoder had buffered.
Decode(c) ==
  /\ conn[c] = "open" /\ next[c] < Feed[c]
  /\ next' = [next EXCEPT ![c] = @ + 1]
  /\ conn' = [conn EXCEPT ![c] = "handling"]
  /\ UNCHANGED <<watcher, shut, batchCh, consumer, writerVars, bg, stop, fateVars>>

Handle(c) ==
  /\ conn[c] = "handling"
  /\ ProcessEvent(Current(c))
  /\ conn' = [conn EXCEPT ![c] = "open"]
  /\ UNCHANGED <<next, watcher, shut, batchCh, consumer, bg, stop>>

HandlerReturns(c) ==
  /\ conn[c] = "open"
  /\ conn' = [conn EXCEPT ![c] = "gone"]
  /\ UNCHANGED <<next, watcher, shut, batchCh, consumer, writerVars, bg, stop, fateVars>>

ClientCloses(c) == HandlerReturns(c)
HandlerSeesClose(c) == c \in shut /\ HandlerReturns(c)

-----------------------------------------------------------------------------
(* batchConsumer.                                                          *)

ConsumerTakes ==
  /\ consumer.loop # "exited" /\ consumer.ev = None /\ batchCh # <<>>
  /\ consumer' = [consumer EXCEPT !.ev = Head(batchCh)]
  /\ batchCh' = Tail(batchCh)
  /\ UNCHANGED <<sourceVars, writerVars, bg, stop, fateVars>>

ConsumerProcesses ==
  /\ consumer.ev # None
  /\ ProcessEvent(consumer.ev)
  /\ consumer' = [consumer EXCEPT !.ev = None]
  /\ UNCHANGED <<sourceVars, batchCh, bg, stop>>

ConsumerSeesDone ==
  /\ consumer.loop = "run" /\ consumer.ev = None /\ DoneClosed
  /\ consumer' = [consumer EXCEPT !.loop = "drain"]
  /\ UNCHANGED <<sourceVars, batchCh, writerVars, bg, stop, fateVars>>

ConsumerExits ==
  /\ consumer.loop = "drain" /\ consumer.ev = None /\ batchCh = <<>>
  /\ consumer' = [consumer EXCEPT !.loop = "exited"]
  /\ UNCHANGED <<sourceVars, batchCh, writerVars, bg, stop, fateVars>>

-----------------------------------------------------------------------------
(* BatchWriter.run.                                                        *)

\* The rows of a batch are inserted in its order.
WriteAll(s) == stored' = stored \o s

\* Faulty variant: the buffer keeps the events it has written.
FlushWithoutReset(s) ==
  /\ buf' = s
  /\ \/ /\ WriteAll(s)
        /\ UNCHANGED <<failed, faults>>
     \/ /\ s # <<>> /\ faults < MaxFault /\ faults' = faults + 1
        /\ failed' = failed \cup ToSet(s)
        /\ UNCHANGED stored

\* flush: one transaction for the whole buffer s, emptied either way.
FlushBuffer(s) ==
  /\ buf' = <<>>
  /\ \/ /\ WriteAll(s)
        /\ UNCHANGED <<failed, faults>>
     \/ /\ s # <<>> /\ faults < MaxFault /\ faults' = faults + 1
        /\ failed' = failed \cup ToSet(s)
        /\ UNCHANGED stored

WriterTakes ==
  /\ writer = "run" /\ q # <<>>
  /\ q' = Tail(q)
  /\ LET s == Append(buf, Head(q))
     IN  IF Len(s) >= FlushSize
         THEN FlushBuffer(s)
         ELSE buf' = s /\ UNCHANGED <<stored, failed, faults>>
  /\ UNCHANGED <<sourceVars, batchCh, consumer, writer, bg, stop, refused, dropped>>

WriterTicks ==
  /\ writer = "run" /\ buf # <<>>
  /\ FlushBuffer(buf)
  /\ UNCHANGED <<sourceVars, batchCh, consumer, q, writer, bg, stop, refused, dropped>>

WriterSeesDone ==
  /\ writer = "run" /\ WriterDone
  /\ writer' = "drain"
  /\ UNCHANGED <<sourceVars, batchCh, consumer, q, buf, bg, stop, fateVars>>

WriterDrains ==
  /\ writer = "drain" /\ q # <<>>
  /\ buf' = Append(buf, Head(q)) /\ q' = Tail(q)
  /\ UNCHANGED <<sourceVars, batchCh, consumer, writer, bg, stop, fateVars>>

\* Faulty variant: the goroutine returns without the final flush.
WriterExitsUnflushed ==
  /\ writer = "drain" /\ q = <<>>
  /\ writer' = "exited"
  /\ UNCHANGED <<sourceVars, batchCh, consumer, q, buf, bg, stop, fateVars>>

WriterExits ==
  /\ writer = "drain" /\ q = <<>>
  /\ FlushBuffer(buf)
  /\ writer' = "exited"
  /\ UNCHANGED <<sourceVars, batchCh, consumer, q, bg, stop, refused, dropped>>

-----------------------------------------------------------------------------
(* A background loop (staleSweepLoop and the others): a ticker or d.done.  *)

BackgroundTicks ==
  /\ bg = "waiting"
  /\ bg' = "sweeping"
  /\ UNCHANGED <<sourceVars, batchCh, consumer, writerVars, stop, fateVars>>

BackgroundSwept ==
  /\ bg = "sweeping"
  /\ bg' = "waiting"
  /\ UNCHANGED <<sourceVars, batchCh, consumer, writerVars, stop, fateVars>>

BackgroundSeesDone ==
  /\ bg = "waiting" /\ DoneClosed
  /\ bg' = "exited"
  /\ UNCHANGED <<sourceVars, batchCh, consumer, writerVars, stop, fateVars>>

-----------------------------------------------------------------------------
(* Daemon.Stop, one action for each thing it does or waits for, and the    *)
(* caller's db.Close.                                                      *)

Reach(from, to) == stop = from /\ stop' = to
StopUnchanged == UNCHANGED <<next, watcher, conn, batchCh, consumer, writerVars, bg, fateVars>>

StopBegins ==
  /\ Reach("up", "stopping")
  /\ WatchersFirst => \A w \in Watcher : watcher[w] = "stopped"
  /\ UNCHANGED shut /\ StopUnchanged

CloseDone == Reach("stopping", "done") /\ UNCHANGED shut /\ StopUnchanged

CloseListeners == Reach("done", "unheard") /\ UNCHANGED shut /\ StopUnchanged

\* Faulty variant: registered connections are left to their clients.
LeaveClientConns ==
  /\ Reach("unheard", "swept")
  /\ UNCHANGED shut /\ StopUnchanged

CloseClientConns ==
  /\ Reach("unheard", "swept")
  /\ shut' = {c \in Conn : conn[c] \in {"open", "handling"}}
  /\ StopUnchanged

\* connWG.Wait
AwaitConns ==
  /\ Reach("swept", "quiet")
  /\ \A c \in Conn : conn[c] \notin {"open", "handling"}
  /\ UNCHANGED shut /\ StopUnchanged

\* <-d.batchDone
AwaitConsumer ==
  /\ Reach("quiet", "drained")
  /\ consumer.loop = "exited"
  /\ UNCHANGED shut /\ StopUnchanged

StopWriter == Reach("drained", "writerDone") /\ UNCHANGED shut /\ StopUnchanged

AwaitWriter ==
  /\ Reach("writerDone", "flushed")
  /\ writer = "exited"
  /\ UNCHANGED shut /\ StopUnchanged

\* Faulty variant: the background loops are not waited for.
SkipBackground == Reach("flushed", "stopped") /\ UNCHANGED shut /\ StopUnchanged

\* bgWG.Wait
AwaitBackground ==
  /\ Reach("flushed", "stopped")
  /\ bg = "exited"
  /\ UNCHANGED shut /\ StopUnchanged

CloseDB == Reach("stopped", "closed") /\ UNCHANGED shut /\ StopUnchanged

-----------------------------------------------------------------------------
\* The process ends: nobody is left waiting for a channel.
Ended ==
  /\ stop = "closed" /\ \A w \in Watcher : watcher[w] # "sending"
  /\ UNCHANGED vars

WatcherStep(w) == Emit(w) \/ SendBlocked(w) \/ DropOnShutdown(w) \/ WatcherStops(w)
ConnStep(c) ==
  \/ Accept(c) \/ RegisterClientConn(c)
  \/ Decode(c) \/ Handle(c) \/ ClientCloses(c)
ConsumerStep == ConsumerTakes \/ ConsumerProcesses \/ ConsumerSeesDone \/ ConsumerExits
WriterStep == WriterTakes \/ WriterTicks \/ WriterSeesDone \/ WriterDrains \/ WriterExits
BackgroundStep == BackgroundTicks \/ BackgroundSwept \/ BackgroundSeesDone
StopStep ==
  \/ CloseDone \/ CloseListeners \/ CloseClientConns \/ AwaitConns
  \/ AwaitConsumer \/ StopWriter \/ AwaitWriter \/ AwaitBackground \/ CloseDB

Next ==
  \/ \E w \in Watcher : WatcherStep(w)
  \/ \E c \in Conn : ConnStep(c)
  \/ ConsumerStep
  \/ WriterStep
  \/ BackgroundStep
  \/ StopBegins
  \/ StopStep
  \/ Ended

\* Goroutines that can run do run.  Nothing makes clients send or close,
\* watchers find anything to read, the sweeper's ticker fire or the user
\* stop the daemon.
Fairness ==
  /\ \A c \in Conn : WF_vars(Handle(c)) /\ WF_vars(HandlerSeesClose(c))
  /\ WF_vars(ConsumerStep)
  /\ WF_vars(WriterStep)
  /\ WF_vars(BackgroundSwept)
  /\ SF_vars(BackgroundSeesDone)
  /\ WF_vars(StopStep)
  /\ \A w \in Watcher : SF_vars(SendBlocked(w))

Spec == Init /\ [][Next]_vars /\ Fairness

-----------------------------------------------------------------------------
(* Properties.                                                             *)

\* Once the caller closes the database no goroutine of the daemon uses it:
\* whatever connections were being accepted and whatever the sweepers were
\* doing when Stop was called (daemon.go Stop, registerClientConn).
QuietAfterClose ==
  stop = "closed" =>
    /\ consumer.loop = "exited" /\ writer = "exited" /\ bg = "exited"
    /\ \A c \in Conn : conn[c] \notin {"open", "handling"}

\* e and f are of one producer and take the same way into the database.
SameWay(e, f) == e[1] = f[1] /\ (e \in Direct <=> f \in Direct)
Earlier(e, f) == SameWay(e, f) => e[2] < f[2]

\* The events of one producer are written in the order it gave them, each
\* once: token events among themselves and the others among themselves,
\* through two channels, a buffer and two drain loops.
InOrder == \A i, j \in DOMAIN stored : i < j => Earlier(stored[i], stored[j])

\* Stop returns: no wait in it is for a goroutine that waits for Stop, or
\* for a client that keeps its connection open.
StopReturns == stop = "stopping" ~> stop = "closed"

\* daemon.go:670-673 on ProcessExternalEventAsync during shutdown: "the
\* event is counted in droppedShutdownEvts".  So an event a watcher hands
\* over is written, part of a failed transaction, or counted.
Settled == ToSet(stored) \cup failed \cup refused \cup dropped

ShutdownEventsCounted ==
  stop = "closed" =>
    \A w \in Watcher : watcher[w] = "reading" =>
      \A i \in 1 .. next[w] : <<w, i>> \in Settled

\* The daemon keeps the promise of EventLedger when its caller stops the
\* watchers first, as tm daemon and tm web do.
Fate ==
  [e \in Event |->
     IF e \in ToSet(stored) THEN "stored"
     ELSE IF e \in failed THEN "lost"
     ELSE IF e[2] <= next[e[1]] THEN "taken" ELSE "unread"]

Ledger == INSTANCE EventLedger WITH fate <- Fate, open <- stop # "closed"
LedgerKept == Ledger!Spec
=============================================================================
