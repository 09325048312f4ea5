------------------------ MODULE DaemonPipelineProofs ------------------------
(***************************************************************************)
(* Shutdown, order and loss for every number of producers and events, any  *)
(* channel capacities and whether or not the watchers are stopped first.   *)
(***************************************************************************)
EXTENDS DaemonPipeline, TLAPS

\* All the argument needs to know of the consumer's record.
ConsumerState == consumer = [loop |-> consumer.loop, ev |-> consumer.ev]

\* The stages of Stop from which on each kind of goroutine has ended.
AfterConns      == {"quiet", "drained", "writerDone", "flushed", "stopped", "closed"}
AfterConsumer   == AfterConns \ {"quiet"}
AfterWriter     == {"flushed", "stopped", "closed"}
AfterBackground == {"stopped", "closed"}

Serving(c) == conn[c] \in {"open", "handling"}

\* Each wait of Stop stays satisfied once it has returned.
StopInv ==
  /\ conn \in [Conn -> {"dialed", "accepted", "open", "handling", "gone"}]
  /\ ConsumerState
  /\ consumer.loop = "exited" => consumer.ev = None
  /\ stop \in AfterConns => \A c \in Conn : ~Serving(c)
  /\ stop \in AfterConsumer => consumer.loop = "exited"
  /\ stop \in AfterWriter => writer = "exited"
  /\ stop \in AfterBackground => bg = "exited"

USE DEF AfterConns, AfterConsumer, AfterWriter, AfterBackground, Serving

LEMMA InitStopInv == Init => StopInv
BY DEF Init, StopInv, ConsumerState

\* What StopInv says of the others survives a step of one kind of goroutine
\* that leaves them and Stop alone.
LEMMA ConnKeeps ==
  ASSUME StopInv, NEW c \in Conn, ConnStep(c)
  PROVE  StopInv'
<1>1. UNCHANGED <<consumer, bg, stop>>
  BY DEF ConnStep, Accept, RegisterClientConn, Decode, Handle, ClientCloses, HandlerReturns
<1>2. writer' = writer
  BY DEF ConnStep, Accept, RegisterClientConn, Decode, Handle, ClientCloses, HandlerReturns,
         ProcessEvent, writerVars
<1>3. conn' \in [Conn -> {"dialed", "accepted", "open", "handling", "gone"}]
  BY DEF StopInv, ConnStep, Accept, RegisterClientConn, Decode, Handle, ClientCloses, HandlerReturns
<1>4. ASSUME NEW d \in Conn, Serving(d)' PROVE Serving(d) \/ stop = "up"
  BY <1>4 DEF StopInv, ConnStep, Accept, RegisterClientConn, Decode, Handle, ClientCloses,
              HandlerReturns
<1>5. QED
  BY <1>1, <1>2, <1>3, <1>4 DEF StopInv, ConsumerState

LEMMA ConsumerKeeps ==
  ASSUME StopInv, ConsumerStep
  PROVE  StopInv'
<1>1. UNCHANGED <<conn, bg, stop>>
  BY DEF ConsumerStep, ConsumerTakes, ConsumerProcesses, ConsumerSeesDone, ConsumerExits, sourceVars
<1>2. writer' = writer
  BY DEF ConsumerStep, ConsumerTakes, ConsumerProcesses, ConsumerSeesDone, ConsumerExits,
         ProcessEvent, writerVars
<1>3. consumer.loop # "exited"
  BY DEF StopInv, ConsumerStep, ConsumerTakes, ConsumerProcesses, ConsumerSeesDone, ConsumerExits
<1>4. ConsumerState' /\ (consumer'.loop = "exited" => consumer'.ev = None)
  <2>1. CASE ConsumerTakes
    <3>1. consumer' = [loop |-> consumer.loop, ev |-> Head(batchCh)]
      BY <2>1 DEF StopInv, ConsumerState, ConsumerTakes
    <3> QED
      BY <1>3, <2>1, <3>1 DEF StopInv, ConsumerState
  <2>2. CASE ConsumerProcesses
    BY <2>2 DEF StopInv, ConsumerState, ConsumerProcesses
  <2>3. CASE ConsumerSeesDone
    BY <2>3 DEF StopInv, ConsumerState, ConsumerSeesDone
  <2>4. CASE ConsumerExits
    BY <2>4 DEF StopInv, ConsumerState, ConsumerExits
  <2> QED
    BY <2>1, <2>2, <2>3, <2>4 DEF ConsumerStep
<1>5. QED
  BY <1>1, <1>2, <1>3, <1>4 DEF StopInv

LEMMA WriterKeeps ==
  ASSUME StopInv, WriterStep
  PROVE  StopInv'
<1>1. UNCHANGED <<conn, consumer, bg, stop>>
  BY DEF WriterStep, WriterTakes, WriterTicks, WriterSeesDone, WriterDrains, WriterExits, sourceVars
<1>2. writer # "exited"
  BY DEF WriterStep, WriterTakes, WriterTicks, WriterSeesDone, WriterDrains, WriterExits
<1>3. QED
  BY <1>1, <1>2 DEF StopInv, ConsumerState

\* Watchers, background loops and the end of the process.
LEMMA OthersKeep ==
  ASSUME StopInv,
         \/ \E w \in Watcher : WatcherStep(w)
         \/ BackgroundStep
         \/ Ended
         \/ UNCHANGED vars
  PROVE  StopInv'
<1>1. UNCHANGED <<conn, consumer, writer, stop>>
  BY DEF WatcherStep, Emit, SendBlocked, DropOnShutdown, WatcherStops, BackgroundStep,
         BackgroundTicks, BackgroundSwept, BackgroundSeesDone, Ended, vars, sourceVars, writerVars
<1>2. bg = "exited" => bg' = "exited"
  BY DEF WatcherStep, Emit, SendBlocked, DropOnShutdown, WatcherStops, BackgroundStep,
         BackgroundTicks, BackgroundSwept, BackgroundSeesDone, Ended, vars, writerVars
<1>3. QED
  BY <1>1, <1>2 DEF StopInv, ConsumerState

\* Stop moves on only when what it waits for has ended.
LEMMA StopKeeps ==
  ASSUME StopInv, StopBegins \/ StopStep
  PROVE  StopInv'
<1>1. UNCHANGED <<conn, consumer, writer, bg>>
  BY DEF StopBegins, StopStep, StopUnchanged, CloseDone, CloseListeners, CloseClientConns,
         AwaitConns, AwaitConsumer, StopWriter, AwaitWriter, AwaitBackground, CloseDB, writerVars
<1>2. stop' \in AfterConns => stop \in AfterConns \/ \A c \in Conn : ~Serving(c)
  BY DEF StopBegins, StopStep, Reach, CloseDone, CloseListeners, CloseClientConns,
         AwaitConns, AwaitConsumer, StopWriter, AwaitWriter, AwaitBackground, CloseDB
<1>3. stop' \in AfterConsumer => stop \in AfterConsumer \/ consumer.loop = "exited"
  BY DEF StopBegins, StopStep, Reach, CloseDone, CloseListeners, CloseClientConns,
         AwaitConns, AwaitConsumer, StopWriter, AwaitWriter, AwaitBackground, CloseDB
<1>4. stop' \in AfterWriter => stop \in AfterWriter \/ writer = "exited"
  BY DEF StopBegins, StopStep, Reach, CloseDone, CloseListeners, CloseClientConns,
         AwaitConns, AwaitConsumer, StopWriter, AwaitWriter, AwaitBackground, CloseDB
<1>5. stop' \in AfterBackground => stop \in AfterBackground \/ bg = "exited"
  BY DEF StopBegins, StopStep, Reach, CloseDone, CloseListeners, CloseClientConns,
         AwaitConns, AwaitConsumer, StopWriter, AwaitWriter, AwaitBackground, CloseDB
<1>6. QED
  BY <1>1, <1>2, <1>3, <1>4, <1>5 DEF StopInv, ConsumerState

LEMMA NextStopInv == StopInv /\ [Next]_vars => StopInv'
BY ConnKeeps, ConsumerKeeps, WriterKeeps, OthersKeep, StopKeeps DEF Next

\* When the caller of Daemon.Stop closes the database, batchConsumer, the
\* BatchWriter, the background loops and every connection handler have
\* ended, a connection accepted during shutdown included (daemon.go Stop,
\* registerClientConn).
THEOREM CloseIsQuiet == Spec => []QuietAfterClose
<1>1. StopInv => QuietAfterClose
  BY DEF StopInv, QuietAfterClose
<1>2. QED
  BY <1>1, InitStopInv, NextStopInv, PTL DEF Spec

-----------------------------------------------------------------------------
(* Types, and how full the buffer can get.                                 *)

\* A goroutine that is busy has taken an event.
Busy(p) ==
  \/ p \in Watcher /\ watcher[p] = "sending"
  \/ p \in Conn /\ conn[p] = "handling"

\* Only watchers use batchCh.
Watched(e) == e[1] \in Watcher

Types ==
  /\ next \in [Producer -> Nat] /\ \A p \in Producer : next[p] <= Feed[p]
  /\ watcher \in [Watcher -> {"reading", "sending", "stopped"}]
  /\ conn \in [Conn -> {"dialed", "accepted", "open", "handling", "gone"}]
  /\ \A p \in Producer : Busy(p) => next[p] > 0
  /\ shut \subseteq Conn
  /\ batchCh \in Seq(Event) /\ Len(batchCh) <= BatchCap
  /\ \A i \in 1 .. Len(batchCh) : Watched(batchCh[i])
  /\ consumer \in [loop : {"run", "drain", "exited"}, ev : Event \cup {None}]
  /\ consumer.ev # None => Watched(consumer.ev)
  /\ q \in Seq(Event) /\ Len(q) <= QueueCap
  /\ buf \in Seq(Event)
  /\ writer \in {"run", "drain", "exited"}
  /\ bg \in {"waiting", "sweeping", "exited"}
  /\ stop \in Stage
  /\ stored \in Seq(Event)
  /\ failed \subseteq Event /\ refused \subseteq Event /\ dropped \subseteq Event
  /\ faults \in 0 .. MaxFault

\* While it runs the writer flushes a full buffer at once; while it drains,
\* nobody is left to fill its queue again.
Bounds ==
  /\ writer = "run" => Len(buf) < FlushSize
  /\ writer = "drain" => WriterDone /\ Len(buf) + Len(q) < FlushSize + QueueCap
  /\ writer = "exited" => WriterDone /\ buf = <<>> /\ q = <<>>

LEMMA Parameters ==
  /\ Feed \in [Producer -> Nat] /\ MaxFault \in Nat
  /\ BatchCap \in Nat /\ QueueCap \in Nat /\ FlushSize \in Nat
  /\ BatchCap > 0 /\ QueueCap > 0 /\ FlushSize > 0
BY PipelineAssumption

USE Parameters

-----------------------------------------------------------------------------
(* Channels and batches as sequences.                                      *)

LEMMA Members ==
  ASSUME NEW s \in Seq(Event), NEW x
  PROVE  x \in ToSet(s) <=> \E i \in 1 .. Len(s) : x = s[i]
BY DEF ToSet

LEMMA AppendFacts ==
  ASSUME NEW s \in Seq(Event), NEW e \in Event
  PROVE  /\ Append(s, e) \in Seq(Event)
         /\ Len(Append(s, e)) = Len(s) + 1
         /\ \A i \in 1 .. Len(s) : Append(s, e)[i] = s[i]
         /\ Append(s, e)[Len(s) + 1] = e
         /\ ToSet(Append(s, e)) = ToSet(s) \cup {e}
<1>1. /\ Append(s, e) \in Seq(Event)
      /\ Len(Append(s, e)) = Len(s) + 1
      /\ \A i \in 1 .. Len(s) : Append(s, e)[i] = s[i]
      /\ Append(s, e)[Len(s) + 1] = e
  OBVIOUS
<1>2. DOMAIN Append(s, e) = 1 .. Len(s) + 1 /\ DOMAIN s = 1 .. Len(s) /\ Len(s) \in Nat
  BY <1>1
<1>3. ToSet(Append(s, e)) = ToSet(s) \cup {e}
  BY <1>1, <1>2 DEF ToSet
<1> QED
  BY <1>1, <1>3

\* The elements of a sequence t without its first one.
LEMMA ShiftedSet ==
  ASSUME NEW s \in Seq(Event), NEW t \in Seq(Event), Len(s) = Len(t) + 1,
         \A i \in 1 .. Len(t) : t[i] = s[i + 1]
  PROVE  ToSet(s) = ToSet(t) \cup {s[1]}
<1>1. \A i \in 1 .. Len(s) : i = 1 \/ (i - 1 \in 1 .. Len(t) /\ s[i] = t[i - 1])
  OBVIOUS
<1>2. \A i \in 1 .. Len(t) : i + 1 \in 1 .. Len(s)
  OBVIOUS
<1>3. ASSUME NEW x \in ToSet(s) PROVE x \in ToSet(t) \cup {s[1]}
  <2>1. PICK i \in 1 .. Len(s) : x = s[i]
    BY Members
  <2> QED
    BY <1>1, <2>1, Members
<1>4. ASSUME NEW x \in ToSet(t) PROVE x \in ToSet(s)
  <2>1. PICK i \in 1 .. Len(t) : x = t[i]
    BY Members
  <2> QED
    BY <1>2, <2>1, Members
<1>5. s[1] \in ToSet(s)
  BY Members
<1> QED
  BY <1>3, <1>4, <1>5

\* The elements of a sequence u that consists of s and t.
LEMMA JoinedSet ==
  ASSUME NEW s \in Seq(Event), NEW t \in Seq(Event), NEW u \in Seq(Event),
         Len(u) = Len(s) + Len(t),
         \A i \in 1 .. Len(s) : u[i] = s[i],
         \A i \in 1 .. Len(t) : u[Len(s) + i] = t[i]
  PROVE  ToSet(u) = ToSet(s) \cup ToSet(t)
<1>1. ASSUME NEW x \in ToSet(u) PROVE x \in ToSet(s) \cup ToSet(t)
  <2>1. PICK i \in 1 .. Len(u) : x = u[i]
    BY Members
  <2>2. CASE i \in 1 .. Len(s)
    BY <2>1, <2>2, Members
  <2>3. CASE i \notin 1 .. Len(s)
    <3>1. i - Len(s) \in 1 .. Len(t) /\ u[Len(s) + (i - Len(s))] = t[i - Len(s)] /\ Len(s) + (i - Len(s)) = i
      BY <2>3
    <3> QED
      BY <2>1, <3>1, Members
  <2> QED
    BY <2>2, <2>3
<1>2. ASSUME NEW x \in ToSet(s) PROVE x \in ToSet(u)
  <2>1. PICK i \in 1 .. Len(s) : x = s[i]
    BY Members
  <2>2. i \in 1 .. Len(u) /\ x = u[i]
    BY <2>1
  <2> QED
    BY <2>2, Members
<1>3. ASSUME NEW x \in ToSet(t) PROVE x \in ToSet(u)
  <2>1. PICK i \in 1 .. Len(t) : x = t[i]
    BY Members
  <2>2. Len(s) + i \in 1 .. Len(u) /\ x = u[Len(s) + i]
    BY <2>1
  <2> QED
    BY <2>2, Members
<1> QED
  BY <1>1, <1>2, <1>3

LEMMA TailFacts ==
  ASSUME NEW s \in Seq(Event), s # <<>>
  PROVE  /\ Head(s) \in Event /\ Head(s) = s[1] /\ Tail(s) \in Seq(Event)
         /\ Len(s) > 0 /\ Len(Tail(s)) = Len(s) - 1
         /\ \A i \in 1 .. Len(s) - 1 : Tail(s)[i] = s[i + 1]
         /\ ToSet(s) = ToSet(Tail(s)) \cup {Head(s)}
<1>1. /\ Head(s) \in Event /\ Head(s) = s[1] /\ Tail(s) \in Seq(Event)
      /\ Len(s) \in Nat /\ Len(s) > 0 /\ Len(Tail(s)) = Len(s) - 1
      /\ \A i \in 1 .. Len(s) - 1 : Tail(s)[i] = s[i + 1]
  OBVIOUS
<1>2. PICK t \in Seq(Event) : t = Tail(s)
  BY <1>1
<1>3. Len(s) = Len(t) + 1 /\ \A i \in 1 .. Len(t) : t[i] = s[i + 1]
  BY <1>1, <1>2
<1>4. ToSet(s) = ToSet(t) \cup {s[1]}
  BY <1>3, ShiftedSet
<1> QED
  BY <1>1, <1>2, <1>4

LEMMA ConcatFacts ==
  ASSUME NEW s \in Seq(Event), NEW t \in Seq(Event)
  PROVE  /\ s \o t \in Seq(Event) /\ Len(s \o t) = Len(s) + Len(t)
         /\ \A i \in 1 .. Len(s) : (s \o t)[i] = s[i]
         /\ \A i \in 1 .. Len(t) : (s \o t)[Len(s) + i] = t[i]
         /\ ToSet(s \o t) = ToSet(s) \cup ToSet(t)
<1>1. /\ s \o t \in Seq(Event) /\ Len(s \o t) = Len(s) + Len(t)
      /\ \A i \in 1 .. Len(s) : (s \o t)[i] = s[i]
      /\ \A i \in 1 .. Len(t) : (s \o t)[Len(s) + i] = t[i]
  OBVIOUS
<1>2. PICK u \in Seq(Event) : u = s \o t
  BY <1>1
<1>3. ToSet(u) = ToSet(s) \cup ToSet(t)
  BY <1>1, <1>2, JoinedSet
<1> QED
  BY <1>1, <1>2, <1>3

-----------------------------------------------------------------------------
(* Types are kept.                                                         *)

LEMMA InEvent == ASSUME NEW p \in Producer, NEW i \in 1 .. Feed[p] PROVE <<p, i>> \in Event
BY DEF Event

LEMMA EventParts == ASSUME NEW e \in Event PROVE e[1] \in Producer /\ e[2] \in 1 .. Feed[e[1]] /\ e = <<e[1], e[2]>>
BY DEF Event

LEMMA CurrentIsEvent ==
  ASSUME Types, NEW p \in Producer, Busy(p) PROVE Current(p) \in Event
<1>1. next[p] \in 1 .. Feed[p]
  BY PipelineAssumption DEF Types
<1> QED BY <1>1, InEvent DEF Current

LEMMA InitTypes == Init => Types /\ Bounds
BY DEF Init, Types, Bounds, Busy, Stage, Watched, Producer

\* What processEvent writes, queues or loses has the right types.
LEMMA ProcessTypes ==
  ASSUME Types, NEW e \in Event, ProcessEvent(e)
  PROVE  /\ q' \in Seq(Event) /\ Len(q') <= QueueCap
         /\ stored' \in Seq(Event)
         /\ failed' \subseteq Event /\ refused' \subseteq Event
         /\ faults' \in 0 .. MaxFault
         /\ UNCHANGED <<buf, writer, dropped>>
<1>1. CASE e \in Direct
  <2>1. Append(stored, e) \in Seq(Event)
    BY AppendFacts DEF Types
  <2>2. \/ Write(e) /\ UNCHANGED <<failed, faults>>
        \/ faults < MaxFault /\ faults' = faults + 1 /\ failed' = failed \cup {e} /\ UNCHANGED stored
    BY <1>1 DEF ProcessEvent, Execute
  <2>3. failed' \subseteq Event /\ faults' \in 0 .. MaxFault
    BY <2>2 DEF Types
  <2>4. stored' \in Seq(Event)
    BY <2>1, <2>2 DEF Types, Write
  <2> QED
    BY <1>1, <2>3, <2>4 DEF Types, ProcessEvent
<1>2. CASE e \notin Direct
  <2>1. Append(q, e) \in Seq(Event) /\ Len(Append(q, e)) = Len(q) + 1 /\ Len(q) \in Nat
    BY AppendFacts DEF Types
  <2>2. q' = q \/ (Len(q) < QueueCap /\ q' = Append(q, e))
    BY <1>2 DEF ProcessEvent, Enqueue
  <2>4. q \in Seq(Event) /\ Len(q) <= QueueCap
    BY DEF Types
  <2>5. q' \in Seq(Event) /\ Len(q') <= QueueCap
    BY <2>1, <2>2, <2>4
  <2>3. refused' \subseteq Event
    BY <1>2 DEF Types, ProcessEvent, Enqueue
  <2> QED
    BY <1>2, <2>3, <2>5 DEF Types, ProcessEvent
<1> QED
  BY <1>1, <1>2

LEMMA FlushTypes ==
  ASSUME Types, NEW s \in Seq(Event), FlushBuffer(s)
  PROVE  /\ buf' = <<>> /\ stored' \in Seq(Event)
         /\ failed' \subseteq Event /\ faults' \in 0 .. MaxFault
<1>1. ToSet(s) \subseteq Event
  BY DEF ToSet
<1>2. stored \o s \in Seq(Event)
  BY ConcatFacts DEF Types
<1>3. stored' \in Seq(Event)
  BY <1>2 DEF Types, FlushBuffer, WriteAll
<1>4. failed' \subseteq Event
  BY <1>1 DEF Types, FlushBuffer
<1>5. faults' \in 0 .. MaxFault
  BY DEF Types, FlushBuffer
<1> QED
  BY <1>3, <1>4, <1>5 DEF FlushBuffer

LEMMA WatchedAppend ==
  ASSUME Types, NEW e \in Event, Watched(e), Len(batchCh) < BatchCap
  PROVE  LET s == Append(batchCh, e)
         IN  s \in Seq(Event) /\ Len(s) <= BatchCap /\ \A i \in 1 .. Len(s) : Watched(s[i])
<1>1. batchCh \in Seq(Event) /\ Len(batchCh) \in Nat
      /\ \A i \in 1 .. Len(batchCh) : Watched(batchCh[i])
  BY DEF Types
<1> QED
  BY <1>1, AppendFacts

LEMMA WatcherTypes ==
  ASSUME Types, Bounds, NEW w \in Watcher, WatcherStep(w)
  PROVE  Types' /\ Bounds'
<1> w \in Producer
  BY DEF Producer
<1>1. CASE Emit(w)
  <2>1. <<w, next[w] + 1>> \in Event
    BY <1>1, InEvent DEF Types, Emit
  <2>2. next' \in [Producer -> Nat] /\ \A p \in Producer : next'[p] <= Feed[p]
    BY <1>1 DEF Types, Emit
  <2>3. batchCh' \in Seq(Event) /\ Len(batchCh') <= BatchCap
        /\ \A i \in 1 .. Len(batchCh') : Watched(batchCh'[i])
    BY <1>1, <2>1, WatchedAppend DEF Types, Emit, Watched
  <2>5. \A p \in Producer : Busy(p)' => next'[p] > 0
    BY <1>1 DEF Types, Emit, Busy, Producer
  <2> QED
    BY <1>1, <2>2, <2>3, <2>5
    DEF Types, Bounds, Emit, writerVars, fateVars, WriterDone, Watched
<1>2. CASE SendBlocked(w)
  <2>1. Current(w) \in Event /\ Current(w)[1] = w
    BY <1>2, CurrentIsEvent DEF SendBlocked, Busy, Current
  <2>2. batchCh' \in Seq(Event) /\ Len(batchCh') <= BatchCap
        /\ \A i \in 1 .. Len(batchCh') : Watched(batchCh'[i])
    BY <1>2, <2>1, WatchedAppend DEF Types, SendBlocked, Watched
  <2> QED
    BY <1>2, <2>2
    DEF Types, Bounds, SendBlocked, Busy, writerVars, fateVars, WriterDone, Watched
<1>3. CASE DropOnShutdown(w)
  <2>1. Current(w) \in Event
    BY <1>3, CurrentIsEvent DEF DropOnShutdown, Busy
  <2> QED
    BY <1>3, <2>1 DEF Types, Bounds, DropOnShutdown, Busy, writerVars, WriterDone, Watched
<1>4. CASE WatcherStops(w)
  BY <1>4 DEF Types, Bounds, WatcherStops, Busy, writerVars, fateVars, WriterDone, Watched
<1> QED
  BY <1>1, <1>2, <1>3, <1>4 DEF WatcherStep

LEMMA ConnTypes ==
  ASSUME Types, Bounds, StopInv, NEW c \in Conn, ConnStep(c)
  PROVE  Types' /\ Bounds'
<1> c \in Producer
  BY DEF Producer
<1>1. CASE Decode(c)
  <2>1. next' \in [Producer -> Nat] /\ \A p \in Producer : next'[p] <= Feed[p]
    BY <1>1 DEF Types, Decode
  <2>2. \A p \in Producer : Busy(p)' => next'[p] > 0
    BY <1>1 DEF Types, Decode, Busy, Producer
  <2> QED
    BY <1>1, <2>1, <2>2
    DEF Types, Bounds, Decode, writerVars, fateVars, WriterDone, Watched
<1>2. CASE Handle(c)
  <2>1. Current(c) \in Event
    BY <1>2, CurrentIsEvent DEF Handle, Busy
  <2>2. stop \notin AfterConns
    BY <1>2 DEF Handle, StopInv
  <2>3. \A p \in Producer : Busy(p)' => Busy(p)
    BY <1>2 DEF Types, Handle, Busy
  <2> QED
    BY <1>2, <2>1, <2>2, <2>3, ProcessTypes DEF Types, Bounds, Handle, WriterDone, Watched
<1>3. CASE Accept(c) \/ RegisterClientConn(c) \/ ClientCloses(c)
  BY <1>3 DEF Types, Bounds, Accept, RegisterClientConn, ClientCloses, HandlerReturns, Busy,
              writerVars, fateVars, WriterDone, Watched
<1> QED
  BY <1>1, <1>2, <1>3 DEF ConnStep

LEMMA ConsumerTypes ==
  ASSUME Types, Bounds, StopInv, ConsumerStep
  PROVE  Types' /\ Bounds'
<1>1. CASE ConsumerTakes
  <2>1. Head(batchCh) \in Event /\ Head(batchCh) = batchCh[1]
        /\ Tail(batchCh) \in Seq(Event) /\ Len(Tail(batchCh)) <= BatchCap
        /\ Len(batchCh) > 0 /\ \A i \in 1 .. Len(batchCh) - 1 : Tail(batchCh)[i] = batchCh[i + 1]
        /\ Len(Tail(batchCh)) = Len(batchCh) - 1
    BY <1>1, TailFacts DEF ConsumerTakes, Types
  <2>2. Watched(Head(batchCh)) /\ \A i \in 1 .. Len(Tail(batchCh)) : Watched(Tail(batchCh)[i])
    <3>1. PICK n \in Nat, m \in Nat : n = Len(batchCh) /\ m = Len(Tail(batchCh)) /\ n = m + 1
      BY <2>1 DEF Types
    <3>2. \A i \in 1 .. n : Watched(batchCh[i])
      BY <3>1 DEF Types
    <3>3. 1 \in 1 .. n /\ \A i \in 1 .. m : i + 1 \in 1 .. n /\ i \in 1 .. n - 1
      BY <3>1
    <3> QED
      BY <2>1, <3>1, <3>2, <3>3
  <2>3. consumer' \in [loop : {"run", "drain", "exited"}, ev : Event \cup {None}]
        /\ consumer'.ev = Head(batchCh)
    BY <1>1, <2>1 DEF ConsumerTakes, Types
  <2> QED
    BY <1>1, <2>1, <2>2, <2>3
    DEF ConsumerTakes, Types, Bounds, Busy, sourceVars, writerVars, fateVars, WriterDone
<1>2. CASE ConsumerProcesses
  <2>1. consumer.ev \in Event /\ consumer.loop # "exited"
    BY <1>2 DEF ConsumerProcesses, Types, StopInv
  <2>2. stop \notin AfterConsumer
    BY <2>1 DEF StopInv
  <2>3. consumer' \in [loop : {"run", "drain", "exited"}, ev : Event \cup {None}]
        /\ consumer'.ev = None
    BY <1>2 DEF ConsumerProcesses, Types
  <2> QED
    BY <1>2, <2>1, <2>2, <2>3, ProcessTypes
    DEF ConsumerProcesses, Types, Bounds, Busy, sourceVars, WriterDone, Watched
<1>3. CASE ConsumerSeesDone \/ ConsumerExits
  <2>1. consumer' \in [loop : {"run", "drain", "exited"}, ev : Event \cup {None}]
        /\ consumer'.ev = consumer.ev
    BY <1>3 DEF ConsumerSeesDone, ConsumerExits, Types
  <2> QED
    BY <1>3, <2>1 DEF ConsumerSeesDone, ConsumerExits, Types, Bounds, Busy, sourceVars, writerVars,
                      fateVars, WriterDone, Watched
<1> QED
  BY <1>1, <1>2, <1>3 DEF ConsumerStep

\* The queue's first event joins the buffer.
LEMMA TakenTypes ==
  ASSUME Types, q # <<>>
  PROVE  LET s == Append(buf, Head(q))
         IN  /\ s \in Seq(Event) /\ Len(s) = Len(buf) + 1
             /\ Tail(q) \in Seq(Event) /\ Len(Tail(q)) = Len(q) - 1 /\ Len(Tail(q)) <= QueueCap
<1>1. buf \in Seq(Event) /\ q \in Seq(Event) /\ Len(q) <= QueueCap
  BY DEF Types
<1>2. Head(q) \in Event /\ Tail(q) \in Seq(Event) /\ Len(Tail(q)) = Len(q) - 1
  BY <1>1, TailFacts
<1>3. Append(buf, Head(q)) \in Seq(Event) /\ Len(Append(buf, Head(q))) = Len(buf) + 1
  BY <1>1, <1>2, AppendFacts
<1>4. Len(Tail(q)) <= QueueCap
  BY <1>1, <1>2
<1> QED
  BY <1>2, <1>3, <1>4

LEMMA WriterTypes ==
  ASSUME Types, Bounds, WriterStep
  PROVE  Types' /\ Bounds'
<1> buf \in Seq(Event) /\ q \in Seq(Event) /\ Len(buf) \in Nat /\ Len(q) \in Nat /\ Len(q) <= QueueCap
  BY DEF Types
<1>1. CASE WriterTakes
  <2> DEFINE s == Append(buf, Head(q))
  <2>1. /\ s \in Seq(Event) /\ Len(s) = Len(buf) + 1
        /\ Tail(q) \in Seq(Event) /\ Len(Tail(q)) <= QueueCap
    BY <1>1, TakenTypes DEF WriterTakes
  <2>2. /\ buf' \in Seq(Event) /\ Len(buf') < FlushSize /\ stored' \in Seq(Event)
        /\ failed' \subseteq Event /\ faults' \in 0 .. MaxFault
    <3>1. CASE Len(s) >= FlushSize
      <4>1. FlushBuffer(s)
        BY <1>1, <3>1 DEF WriterTakes
      <4>2. s \in Seq(Event)
        BY <2>1
      <4> HIDE DEF s
      <4>3. buf' = <<>> /\ stored' \in Seq(Event) /\ failed' \subseteq Event /\ faults' \in 0 .. MaxFault
        BY <4>1, <4>2, FlushTypes
      <4> QED
        BY <4>3
    <3>2. CASE ~(Len(s) >= FlushSize)
      <4>1. buf' = s /\ UNCHANGED <<stored, failed, faults>>
        BY <1>1, <3>2 DEF WriterTakes
      <4>2. Len(buf') < FlushSize
        BY <2>1, <3>2, <4>1
      <4> QED
        BY <2>1, <4>1, <4>2 DEF Types
    <3> QED
      BY <3>1, <3>2
  <2> QED
    BY <1>1, <2>1, <2>2 DEF WriterTakes, Types, Bounds, Busy, sourceVars, Watched
<1>2. CASE WriterTicks
  <2>1. buf' = <<>> /\ stored' \in Seq(Event) /\ failed' \subseteq Event /\ faults' \in 0 .. MaxFault
    BY <1>2, FlushTypes DEF WriterTicks
  <2> QED
    BY <1>2, <2>1 DEF WriterTicks, Types, Bounds, Busy, sourceVars, Watched
<1>3. CASE WriterSeesDone
  BY <1>3 DEF WriterSeesDone, Types, Bounds, Busy, sourceVars, fateVars, WriterDone, Watched
<1>4. CASE WriterDrains
  <2>1. /\ buf' \in Seq(Event) /\ Len(buf') = Len(buf) + 1
        /\ q' \in Seq(Event) /\ Len(q') = Len(q) - 1 /\ Len(q') <= QueueCap
    BY <1>4, TakenTypes DEF WriterDrains
  <2>2. Bounds'
    BY <1>4, <2>1 DEF WriterDrains, Bounds, WriterDone
  <2> QED
    BY <1>4, <2>1, <2>2 DEF WriterDrains, Types, Busy, sourceVars, fateVars, Watched
<1>5. CASE WriterExits
  BY <1>5, FlushTypes DEF WriterExits, Types, Bounds, Busy, sourceVars, WriterDone, Watched
<1> QED
  BY <1>1, <1>2, <1>3, <1>4, <1>5 DEF WriterStep

LEMMA RestTypes ==
  ASSUME Types, Bounds, BackgroundStep \/ StopBegins \/ StopStep \/ Ended \/ UNCHANGED vars
  PROVE  Types' /\ Bounds'
<1>1. CASE BackgroundStep
  BY <1>1 DEF BackgroundStep, BackgroundTicks, BackgroundSwept, BackgroundSeesDone, Types, Bounds,
              Busy, sourceVars, writerVars, fateVars, WriterDone, Watched
<1>2. CASE StopBegins \/ StopStep
  <2>1. StopUnchanged
    BY <1>2 DEF StopBegins, StopStep, CloseDone, CloseListeners, CloseClientConns,
                AwaitConns, AwaitConsumer, StopWriter, AwaitWriter, AwaitBackground, CloseDB
  <2>2. shut' \subseteq Conn /\ stop' \in Stage /\ (WriterDone => WriterDone')
    BY <1>2 DEF StopBegins, StopStep, Reach, CloseDone, CloseListeners, CloseClientConns,
                AwaitConns, AwaitConsumer, StopWriter, AwaitWriter, AwaitBackground, CloseDB,
                Types, Stage, WriterDone
  <2> QED
    BY <2>1, <2>2 DEF StopUnchanged, Types, Bounds, Busy, writerVars, fateVars, Watched
<1>3. CASE Ended \/ UNCHANGED vars
  BY <1>3 DEF Ended, vars, Types, Bounds, Busy, WriterDone, Watched
<1> QED
  BY <1>1, <1>2, <1>3

TypeInv == StopInv /\ Types /\ Bounds

LEMMA NextTypeInv == TypeInv /\ [Next]_vars => TypeInv'
BY NextStopInv, WatcherTypes, ConnTypes, ConsumerTypes, WriterTypes, RestTypes DEF TypeInv, Next

LEMMA TypeInvType == TypeInv => TypeOK
<1> SUFFICES ASSUME TypeInv PROVE TypeOK
  OBVIOUS
<1>1. Len(buf) < FlushSize + QueueCap
  <2>1. Types /\ Bounds /\ Len(buf) \in Nat /\ Len(q) \in Nat
    BY DEF TypeInv, Types
  <2>2. writer \in {"run", "drain", "exited"}
    BY <2>1 DEF Types
  <2> QED
    BY <2>1, <2>2 DEF Bounds
<1> QED
  BY <1>1 DEF TypeInv, Types, TypeOK

\* Every variable keeps its type; in particular no channel exceeds its
\* capacity, and the BatchWriter's buffer never holds more than a batch and
\* what its queue can hold, however long it drains (batch_writer.go run).
THEOREM TypeCorrect == Spec => []TypeOK
<1>1. Init => TypeInv
  BY InitStopInv, InitTypes DEF TypeInv
<1>2. QED
  BY <1>1, NextTypeInv, TypeInvType, PTL DEF Spec

-----------------------------------------------------------------------------
(* Order and loss.                                                         *)

\* The places an event passes through, from the last to the first: written
\* or lost with a transaction, in the writer's buffer and queue, in the
\* consumer's hands, in batchCh, with the goroutine that took it.
Written == ToSet(stored) \cup failed
InBuffer == ToSet(buf)
InQueue == ToSet(q)
InChannel == ToSet(batchCh)
InHand == IF consumer.ev = None THEN {} ELSE {consumer.ev}
Offered == {Current(p) : p \in {x \in Producer : Busy(x)}}

Before(S, T) == \A e \in S, f \in T : Earlier(e, f)
Sorted(s) == \A i, j \in 1 .. Len(s) : i < j => Earlier(s[i], s[j])

\* Whatever is further on its way is earlier.
Line(W, B, Q, H, C, P) ==
  /\ Before(W, B) /\ Before(W, Q) /\ Before(W, H) /\ Before(W, C) /\ Before(W, P)
  /\ Before(B, Q) /\ Before(B, H) /\ Before(B, C) /\ Before(B, P)
  /\ Before(Q, H) /\ Before(Q, C) /\ Before(Q, P)
  /\ Before(H, C) /\ Before(H, P)
  /\ Before(C, P)

Places == Written \cup InBuffer \cup InQueue \cup InHand \cup InChannel \cup Offered

OrderInv ==
  /\ Sorted(stored) /\ Sorted(buf) /\ Sorted(q) /\ Sorted(batchCh)
  /\ Line(Written, InBuffer, InQueue, InHand, InChannel, Offered)
  /\ \A e \in InBuffer \cup InQueue : e \notin Direct
  /\ \A e \in Places : e[2] <= next[e[1]]

\* No event is forgotten: BatchWriter.Enqueue turns nobody away, and what a
\* watcher or a client has handed over is in one of the places.
Accounted ==
  /\ refused = {}
  /\ \A p \in Producer : \A i \in 1 .. next[p] : <<p, i>> \in Places \cup dropped

LEMMA SortedAppend ==
  ASSUME NEW s \in Seq(Event), NEW e \in Event, Sorted(s), Before(ToSet(s), {e})
  PROVE  Sorted(Append(s, e))
<1>1. PICK u \in Seq(Event) : u = Append(s, e)
  BY AppendFacts
<1>2. Len(u) = Len(s) + 1 /\ u[Len(s) + 1] = e /\ \A i \in 1 .. Len(s) : u[i] = s[i]
  BY <1>1, AppendFacts
<1>3. ASSUME NEW i \in 1 .. Len(u), NEW j \in 1 .. Len(u), i < j PROVE Earlier(u[i], u[j])
  <2>1. i \in 1 .. Len(s) /\ u[i] = s[i] /\ s[i] \in ToSet(s)
    BY <1>2, <1>3, Members
  <2>2. CASE j \in 1 .. Len(s)
    BY <1>2, <1>3, <2>1, <2>2 DEF Sorted
  <2>3. CASE j = Len(s) + 1
    BY <1>2, <2>1, <2>3 DEF Before
  <2> QED
    BY <1>2, <2>2, <2>3
<1>4. Sorted(u)
  BY <1>3 DEF Sorted
<1> QED
  BY <1>1, <1>4

LEMMA SortedTail ==
  ASSUME NEW s \in Seq(Event), s # <<>>, Sorted(s)
  PROVE  Sorted(Tail(s)) /\ Before({Head(s)}, ToSet(Tail(s)))
<1>1. PICK u \in Seq(Event) : u = Tail(s)
  BY TailFacts
<1>2. /\ Len(s) > 0 /\ Len(s) = Len(u) + 1 /\ Head(s) = s[1]
      /\ \A i \in 1 .. Len(u) : u[i] = s[i + 1]
  <2>1. /\ Len(s) > 0 /\ Len(Tail(s)) = Len(s) - 1 /\ Head(s) = s[1] /\ Len(s) \in Nat
        /\ \A i \in 1 .. Len(s) - 1 : Tail(s)[i] = s[i + 1]
    BY TailFacts
  <2> QED
    BY <1>1, <2>1
<1>3. ASSUME NEW i \in 1 .. Len(u), NEW j \in 1 .. Len(u), i < j PROVE Earlier(u[i], u[j])
  <2>1. i + 1 \in 1 .. Len(s) /\ j + 1 \in 1 .. Len(s) /\ i + 1 < j + 1
    BY <1>2, <1>3
  <2> QED
    BY <1>2, <2>1 DEF Sorted
<1>4. ASSUME NEW f \in ToSet(u) PROVE Earlier(s[1], f)
  <2>1. PICK i \in 1 .. Len(u) : f = u[i]
    BY Members
  <2>2. 1 \in 1 .. Len(s) /\ i + 1 \in 1 .. Len(s) /\ 1 < i + 1 /\ f = s[i + 1]
    BY <1>2, <2>1
  <2> QED
    BY <2>2 DEF Sorted
<1>5. Sorted(u) /\ Before({Head(s)}, ToSet(u))
  BY <1>2, <1>3, <1>4 DEF Sorted, Before
<1> QED
  BY <1>1, <1>5

LEMMA SortedConcat ==
  ASSUME NEW s \in Seq(Event), NEW t \in Seq(Event), Sorted(s), Sorted(t),
         Before(ToSet(s), ToSet(t))
  PROVE  Sorted(s \o t)
<1>1. PICK u \in Seq(Event) : u = s \o t
  BY ConcatFacts
<1>2. /\ Len(u) = Len(s) + Len(t)
      /\ \A i \in 1 .. Len(s) : u[i] = s[i]
      /\ \A i \in 1 .. Len(t) : u[Len(s) + i] = t[i]
  BY <1>1, ConcatFacts
<1>3. ASSUME NEW i \in 1 .. Len(u), i \notin 1 .. Len(s)
      PROVE  i - Len(s) \in 1 .. Len(t) /\ u[i] = t[i - Len(s)]
  <2>1. i - Len(s) \in 1 .. Len(t) /\ Len(s) + (i - Len(s)) = i
    BY <1>2, <1>3
  <2> QED
    BY <1>2, <2>1
<1>4. ASSUME NEW i \in 1 .. Len(u), NEW j \in 1 .. Len(u), i < j PROVE Earlier(u[i], u[j])
  <2>1. CASE j \in 1 .. Len(s)
    <3>1. i \in 1 .. Len(s)
      BY <1>4, <2>1
    <3> QED
      BY <1>2, <1>4, <2>1, <3>1 DEF Sorted
  <2>2. CASE i \in 1 .. Len(s) /\ j \notin 1 .. Len(s)
    <3>1. u[i] \in ToSet(s) /\ u[j] \in ToSet(t)
      BY <1>2, <1>3, <2>2, Members
    <3> QED
      BY <3>1 DEF Before
  <2>3. CASE i \notin 1 .. Len(s) /\ j \notin 1 .. Len(s)
    <3>1. i - Len(s) \in 1 .. Len(t) /\ j - Len(s) \in 1 .. Len(t) /\ i - Len(s) < j - Len(s)
      BY <1>3, <1>4, <2>3
    <3> QED
      BY <1>3, <2>3, <3>1 DEF Sorted
  <2> QED
    BY <1>4, <2>1, <2>2, <2>3
<1>5. Sorted(u)
  BY <1>4 DEF Sorted
<1> QED
  BY <1>1, <1>5

\* Events of two producers keep no order, and one that is taken is later than
\* all taken before.
LEMMA Apart == ASSUME NEW e, NEW f, e[1] # f[1] PROVE Earlier(e, f) /\ Earlier(f, e)
BY DEF Earlier, SameWay

LEMMA TwoWays == ASSUME NEW e, NEW f, e \in Direct, f \notin Direct PROVE Earlier(e, f) /\ Earlier(f, e)
BY DEF Earlier, SameWay

LEMMA Roles ==
  /\ \A w \in Watcher : Busy(w) <=> watcher[w] = "sending"
  /\ \A c \in Conn : Busy(c) <=> conn[c] = "handling"
BY PipelineAssumption DEF Busy

LEMMA PlacesAreEvents ==
  ASSUME Types
  PROVE  Places \subseteq Event
<1>1. \A s \in Seq(Event) : ToSet(s) \subseteq Event
  BY Members
<1>2. InHand \subseteq Event /\ failed \subseteq Event
  BY DEF Types, InHand
<1>3. Offered \subseteq Event
  BY CurrentIsEvent DEF Offered
<1> QED
  BY <1>1, <1>2, <1>3 DEF Places, Written, InBuffer, InQueue, InChannel, Types

\* The event a producer gives next is later than all of its own.
LEMMA NextIsLater ==
  ASSUME Types, OrderInv, NEW p \in Producer, NEW e \in Places
  PROVE  Earlier(e, <<p, next[p] + 1>>)
<1>1. e \in Event /\ e[2] <= next[e[1]]
  BY PlacesAreEvents DEF OrderInv
<1>2. e[2] \in Nat /\ next[p] \in Nat
  BY <1>1, EventParts DEF Types
<1>3. CASE e[1] = p
  BY <1>1, <1>2, <1>3 DEF Earlier
<1>4. CASE e[1] # p
  BY <1>4, Apart
<1> QED
  BY <1>3, <1>4

\* A step that takes no event from a producer.
LEMMA NothingTaken ==
  ASSUME OrderInv, Accounted, next' = next, refused' = refused,
         Places' \subseteq Places, Places \cup dropped \subseteq Places' \cup dropped'
  PROVE  (\A e \in Places' : e[2] <= next'[e[1]]) /\ Accounted'
BY DEF OrderInv, Accounted

\* A step that takes the next event of p.
LEMMA OneTaken ==
  ASSUME Types, OrderInv, Accounted, NEW p \in Producer, refused' = refused, dropped' = dropped,
         next' = [next EXCEPT ![p] = @ + 1],
         Places' = Places \cup {<<p, next[p] + 1>>}
  PROVE  (\A e \in Places' : e[2] <= next'[e[1]]) /\ Accounted'
<1>1. next \in [Producer -> Nat]
  BY DEF Types
<1>2. ASSUME NEW e \in Places' PROVE e[2] <= next'[e[1]]
  <2>1. CASE e = <<p, next[p] + 1>>
    BY <1>1, <2>1
  <2>2. CASE e \in Places
    <3>1. e \in Event /\ e[2] <= next[e[1]]
      BY <2>2, PlacesAreEvents DEF OrderInv
    <3>2. e[1] \in Producer /\ e[2] \in Nat
      BY <3>1, EventParts
    <3> QED
      BY <1>1, <3>1, <3>2
  <2> QED
    BY <2>1, <2>2
<1>3. ASSUME NEW x \in Producer, NEW i \in 1 .. next'[x] PROVE <<x, i>> \in Places' \cup dropped'
  <2>1. CASE x = p /\ i = next[p] + 1
    BY <2>1
  <2>2. CASE i \in 1 .. next[x]
    BY <2>2 DEF Accounted
  <2>3. i \in 1 .. next[x] \/ (x = p /\ i = next[p] + 1)
    BY <1>1
  <2> QED
    BY <2>1, <2>2, <2>3
<1> QED
  BY <1>2, <1>3 DEF Accounted

\* The event of p leaves the goroutine that took it.
LEMMA OthersOffered ==
  ASSUME Types, NEW p \in Producer, Busy(p), next' = next,
         \A x \in Producer : Busy(x)' <=> Busy(x) /\ x # p
  PROVE  Offered = Offered' \cup {Current(p)} /\ \A f \in Offered' : Earlier(Current(p), f)
<1>1. \A x : Current(x)' = Current(x)
  BY DEF Current
<1>2. Offered = Offered' \cup {Current(p)}
  BY <1>1 DEF Offered
<1>3. \A f \in Offered' : f[1] # p /\ Current(p)[1] = p
  BY <1>1 DEF Offered, Current
<1> QED
  BY <1>2, <1>3, Apart

LEMMA StandingStill ==
  ASSUME OrderInv, Accounted,
         UNCHANGED <<next, batchCh, q, buf, stored, failed, refused, dropped, InHand, Offered>>
  PROVE  OrderInv' /\ Accounted'
<1>1. UNCHANGED <<Written, InBuffer, InQueue, InChannel>>
  BY DEF Written, InBuffer, InQueue, InChannel
<1>2. Places' = Places
  BY <1>1 DEF Places
<1> QED
  BY <1>1, <1>2 DEF OrderInv, Accounted

LEMMA WatcherOrder ==
  ASSUME TypeInv, OrderInv, Accounted, NEW w \in Watcher, WatcherStep(w)
  PROVE  OrderInv' /\ Accounted'
<1> w \in Producer /\ Types
  BY DEF Producer, TypeInv
<1>1. CASE Emit(w)
  <2> DEFINE n == <<w, next[w] + 1>>
  <2>1. n \in Event /\ \A e \in Places : Earlier(e, n)
    BY <1>1, NextIsLater, InEvent DEF Emit, Types
  <2>2. ~Busy(w) /\ \A f \in Offered : Earlier(n, f)
    <3>1. ~Busy(w)
      BY <1>1, Roles DEF Emit
    <3>2. \A f \in Offered : f[1] # w
      BY <3>1 DEF Offered, Current
    <3> QED
      BY <3>1, <3>2, Apart
  <2>3. UNCHANGED <<Written, InBuffer, InQueue, InHand>>
    BY <1>1 DEF Emit, writerVars, fateVars, Written, InBuffer, InQueue, InHand
  <2>4. CASE Len(batchCh) < BatchCap
    <3>1. batchCh' = Append(batchCh, n) /\ UNCHANGED watcher
      BY <1>1, <2>4 DEF Emit
    <3>2. InChannel' = InChannel \cup {n}
      BY <2>1, <3>1, AppendFacts DEF InChannel, Types
    <3>3. Offered' = Offered
      <4>1. \A p \in Producer : Busy(p)' <=> Busy(p)
        BY <1>1, <3>1 DEF Emit, Busy
      <4>2. \A p \in Producer : Busy(p) => Current(p)' = Current(p)
        BY <1>1, <2>2 DEF Emit, Current, Types
      <4> QED
        BY <4>1, <4>2 DEF Offered
    <3>4. Sorted(batchCh')
      BY <2>1, <3>1, SortedAppend DEF OrderInv, Before, Places, InChannel, Types
    <3>5. Line(Written, InBuffer, InQueue, InHand, InChannel, Offered)'
      BY <2>1, <2>2, <2>3, <3>2, <3>3 DEF OrderInv, Line, Before, Places
    <3>6. Places' = Places \cup {n}
      BY <2>3, <3>2, <3>3 DEF Places
    <3>7. (\A e \in Places' : e[2] <= next'[e[1]]) /\ Accounted'
      BY <1>1, <3>6, OneTaken DEF Emit, fateVars
    <3> QED
      BY <1>1, <2>3, <3>4, <3>5, <3>7 DEF OrderInv, Emit, writerVars, fateVars
  <2>5. CASE ~(Len(batchCh) < BatchCap)
    <3>1. watcher' = [watcher EXCEPT ![w] = "sending"] /\ UNCHANGED batchCh
      BY <1>1, <2>5 DEF Emit
    <3>2. Offered' = Offered \cup {n}
      <4>1. \A p \in Producer : Busy(p)' <=> Busy(p) \/ p = w
        BY <1>1, <3>1 DEF Emit, Busy, Types
      <4>2. \A p \in Producer : Busy(p) => Current(p)' = Current(p)
        BY <1>1, <2>2 DEF Emit, Current, Types
      <4>3. Current(w)' = n
        BY <1>1 DEF Emit, Current, Types
      <4> QED
        BY <4>1, <4>2, <4>3 DEF Offered
    <3>3. Line(Written, InBuffer, InQueue, InHand, InChannel, Offered)'
      BY <2>1, <2>3, <3>1, <3>2 DEF OrderInv, Line, Before, Places, InChannel
    <3>4. Places' = Places \cup {n}
      BY <2>3, <3>1, <3>2 DEF Places, InChannel
    <3>5. (\A e \in Places' : e[2] <= next'[e[1]]) /\ Accounted'
      BY <1>1, <3>4, OneTaken DEF Emit, fateVars
    <3> QED
      BY <1>1, <2>3, <3>1, <3>3, <3>5 DEF OrderInv, Emit, writerVars, fateVars
  <2> QED
    BY <2>4, <2>5
<1>2. CASE SendBlocked(w)
  <2> DEFINE n == Current(w)
  <2>1. Busy(w) /\ n \in Event /\ n \in Offered
    BY <1>2, CurrentIsEvent DEF SendBlocked, Busy, Offered
  <2>2. Offered = Offered' \cup {n} /\ \A f \in Offered' : Earlier(n, f)
    <3>1. \A x \in Producer : Busy(x)' <=> Busy(x) /\ x # w
      BY <1>2, PipelineAssumption DEF SendBlocked, Busy, Types
    <3> QED
      BY <1>2, <2>1, <3>1, OthersOffered DEF SendBlocked
  <2>3. UNCHANGED <<Written, InBuffer, InQueue, InHand>>
    BY <1>2 DEF SendBlocked, writerVars, fateVars, Written, InBuffer, InQueue, InHand
  <2>4. InChannel' = InChannel \cup {n}
    BY <1>2, <2>1, AppendFacts DEF SendBlocked, InChannel, Types
  <2>5. Before(InChannel, {n})
    BY <2>1 DEF OrderInv, Line, Before
  <2>6. Sorted(batchCh')
    BY <1>2, <2>1, <2>5, SortedAppend DEF SendBlocked, OrderInv, InChannel, Types
  <2>7. Line(Written, InBuffer, InQueue, InHand, InChannel, Offered)'
    BY <2>1, <2>2, <2>3, <2>4 DEF OrderInv, Line, Before
  <2>8. Places' = Places
    BY <2>1, <2>2, <2>3, <2>4 DEF Places
  <2>9. (\A e \in Places' : e[2] <= next'[e[1]]) /\ Accounted'
    BY <1>2, <2>8, NothingTaken DEF SendBlocked, fateVars
  <2> QED
    BY <1>2, <2>3, <2>6, <2>7, <2>9 DEF OrderInv, SendBlocked, writerVars, fateVars
<1>3. CASE DropOnShutdown(w)
  <2>1. Busy(w) /\ Current(w) \in Offered
    BY <1>3 DEF DropOnShutdown, Busy, Offered
  <2>2. Offered = Offered' \cup {Current(w)}
    <3>1. \A x \in Producer : Busy(x)' <=> Busy(x) /\ x # w
      BY <1>3, PipelineAssumption DEF DropOnShutdown, Busy, Types
    <3> QED
      BY <1>3, <2>1, <3>1, OthersOffered DEF DropOnShutdown
  <2>3. UNCHANGED <<Written, InBuffer, InQueue, InHand, InChannel>>
    BY <1>3 DEF DropOnShutdown, writerVars, Written, InBuffer, InQueue, InHand, InChannel
  <2>4. Line(Written, InBuffer, InQueue, InHand, InChannel, Offered)'
    BY <2>2, <2>3 DEF OrderInv, Line, Before
  <2>5. Places' \subseteq Places /\ Places \cup dropped \subseteq Places' \cup dropped'
    BY <1>3, <2>2, <2>3 DEF Places, DropOnShutdown
  <2>6. (\A e \in Places' : e[2] <= next'[e[1]]) /\ Accounted'
    BY <1>3, <2>5, NothingTaken DEF DropOnShutdown
  <2> QED
    BY <1>3, <2>3, <2>4, <2>6 DEF OrderInv, DropOnShutdown, writerVars
<1>4. CASE WatcherStops(w)
  <2>1. UNCHANGED <<Written, InBuffer, InQueue, InHand, InChannel, Offered>>
    <3>1. \A p \in Producer : (Busy(p)' <=> Busy(p)) /\ Current(p)' = Current(p)
      BY <1>4 DEF WatcherStops, Busy, Current, Types
    <3> QED
      BY <1>4, <3>1 DEF WatcherStops, writerVars, fateVars, Written, InBuffer, InQueue, InHand, InChannel, Offered
  <2> QED
    BY <1>4, <2>1, StandingStill DEF WatcherStops, writerVars, fateVars
<1> QED
  BY <1>1, <1>2, <1>3, <1>4 DEF WatcherStep

\* processEvent moves its event to the database or to the BatchWriter's
\* queue, which is open as long as anybody runs processEvent.
LEMMA ProcessMoves ==
  ASSUME Types, OrderInv, NEW e \in Event, ProcessEvent(e), ~WriterDone,
         Before(Written \cup InBuffer \cup InQueue, {e})
  PROVE  /\ refused' = refused /\ InBuffer' = InBuffer /\ Sorted(buf')
         /\ Sorted(stored') /\ Sorted(q')
         /\ \A f \in InBuffer' \cup InQueue' : f \notin Direct
         /\ \/ e \in Direct /\ Written' = Written \cup {e} /\ InQueue' = InQueue
            \/ e \notin Direct /\ Written' = Written /\ InQueue' = InQueue \cup {e}
<1>1. stored \in Seq(Event) /\ q \in Seq(Event) /\ Sorted(stored) /\ Sorted(q) /\ Sorted(buf)
      /\ \A f \in InBuffer \cup InQueue : f \notin Direct
  BY DEF Types, OrderInv
<1>2. buf' = buf
  BY DEF ProcessEvent
<1>3. Before(ToSet(stored), {e}) /\ Before(ToSet(q), {e})
  BY DEF Before, Written, InQueue
<1>4. CASE e \in Direct
  <2>1. UNCHANGED <<q, refused>>
    BY <1>4 DEF ProcessEvent
  <2>2. CASE stored' = Append(stored, e) /\ UNCHANGED failed
    <3>1. Sorted(stored') /\ ToSet(stored') = ToSet(stored) \cup {e}
      BY <1>1, <1>3, <2>2, SortedAppend, AppendFacts
    <3>2. Written' = Written \cup {e}
      BY <2>2, <3>1 DEF Written
    <3> QED
      BY <1>1, <1>2, <1>4, <2>1, <3>1, <3>2 DEF InBuffer, InQueue
  <2>3. CASE failed' = failed \cup {e} /\ UNCHANGED stored
    BY <1>1, <1>2, <1>4, <2>1, <2>3 DEF InBuffer, InQueue, Written
  <2> QED
    BY <1>4, <2>2, <2>3 DEF ProcessEvent, Execute, Write
<1>5. CASE e \notin Direct
  <2>1. q' = Append(q, e) /\ UNCHANGED <<stored, failed, refused>>
    BY <1>5 DEF ProcessEvent, Enqueue
  <2>2. Sorted(q') /\ ToSet(q') = ToSet(q) \cup {e}
    BY <1>1, <1>3, <2>1, SortedAppend, AppendFacts
  <2> QED
    BY <1>1, <1>2, <1>5, <2>1, <2>2 DEF InBuffer, InQueue, Written
<1> QED
  BY <1>4, <1>5

LEMMA ConnOrder ==
  ASSUME TypeInv, OrderInv, Accounted, NEW c \in Conn, ConnStep(c)
  PROVE  OrderInv' /\ Accounted'
<1> c \in Producer /\ Types
  BY DEF Producer, TypeInv
<1>1. CASE Decode(c)
  <2> DEFINE n == <<c, next[c] + 1>>
  <2>1. n \in Event /\ \A e \in Places : Earlier(e, n)
    BY <1>1, NextIsLater, InEvent DEF Decode, Types
  <2>2. ~Busy(c)
    BY <1>1, Roles DEF Decode
  <2>3. UNCHANGED <<Written, InBuffer, InQueue, InHand, InChannel>>
    BY <1>1 DEF Decode, writerVars, fateVars, Written, InBuffer, InQueue, InHand, InChannel
  <2>4. Offered' = Offered \cup {n}
    <3>1. \A p \in Producer : Busy(p)' <=> Busy(p) \/ p = c
      BY <1>1 DEF Decode, Busy, Types
    <3>2. \A p \in Producer : Busy(p) => Current(p)' = Current(p)
      BY <1>1, <2>2 DEF Decode, Current, Types
    <3>3. Current(c)' = n
      BY <1>1 DEF Decode, Current, Types
    <3> QED
      BY <3>1, <3>2, <3>3 DEF Offered
  <2>5. Line(Written, InBuffer, InQueue, InHand, InChannel, Offered)'
    BY <2>1, <2>3, <2>4 DEF OrderInv, Line, Before, Places
  <2>6. Places' = Places \cup {n}
    BY <2>3, <2>4 DEF Places
  <2>7. (\A e \in Places' : e[2] <= next'[e[1]]) /\ Accounted'
    BY <1>1, <2>6, OneTaken DEF Decode, fateVars
  <2> QED
    BY <1>1, <2>3, <2>5, <2>7 DEF OrderInv, Decode, writerVars, fateVars
<1>2. CASE Handle(c)
  <2> DEFINE n == Current(c)
  <2>1. Busy(c) /\ n \in Event /\ n \in Offered /\ n[1] = c
    BY <1>2, Roles, CurrentIsEvent DEF Handle, Offered, Current
  <2>2. Offered = Offered' \cup {n} /\ \A f \in Offered' : Earlier(n, f)
    <3>1. \A x \in Producer : Busy(x)' <=> Busy(x) /\ x # c
      BY <1>2, PipelineAssumption DEF Handle, Busy, Types
    <3> QED
      BY <1>2, <2>1, <3>1, OthersOffered DEF Handle
  <2>3. UNCHANGED <<InHand, InChannel>> /\ batchCh' = batchCh /\ next' = next /\ dropped' = dropped
    BY <1>2 DEF Handle, InHand, InChannel, ProcessEvent
  <2>4. \A f \in InHand \cup InChannel : f[1] # c
    <3>1. ASSUME NEW f \in InChannel PROVE Watched(f)
      <4>1. batchCh \in Seq(Event) /\ \A i \in 1 .. Len(batchCh) : Watched(batchCh[i])
        BY DEF Types
      <4>2. PICK i \in 1 .. Len(batchCh) : f = batchCh[i]
        BY <4>1, Members DEF InChannel
      <4> QED
        BY <4>1, <4>2
    <3>2. \A f \in InHand : Watched(f)
      BY DEF Types, InHand
    <3> QED
      BY <3>1, <3>2, PipelineAssumption DEF Watched
  <2>5. ~WriterDone
    BY <1>2 DEF TypeInv, StopInv, Handle, WriterDone
  <2>6. Before(Written \cup InBuffer \cup InQueue, {n})
    BY <2>1 DEF OrderInv, Line, Before
  <2>7. /\ refused' = refused /\ InBuffer' = InBuffer
        /\ Sorted(buf') /\ Sorted(stored') /\ Sorted(q')
        /\ \A f \in InBuffer' \cup InQueue' : f \notin Direct
        /\ \/ n \in Direct /\ Written' = Written \cup {n} /\ InQueue' = InQueue
           \/ n \notin Direct /\ Written' = Written /\ InQueue' = InQueue \cup {n}
    <3>1. ProcessEvent(n)
      BY <1>2 DEF Handle
    <3> HIDE DEF n
    <3> QED
      BY <2>1, <2>5, <2>6, <3>1, ProcessMoves
  <2> HIDE DEF n
  <2>8. Line(Written, InBuffer, InQueue, InHand, InChannel, Offered)'
    <3>1. \A f \in InHand \cup InChannel : Earlier(n, f)
      BY <2>1, <2>4, Apart
    <3>2. n \in Direct => \A f \in InBuffer \cup InQueue : Earlier(n, f)
      BY TwoWays DEF OrderInv
    <3> QED
      BY <2>2, <2>3, <2>6, <2>7, <3>1, <3>2 DEF OrderInv, Line, Before
  <2>9. Places' = Places
    BY <2>1, <2>2, <2>3, <2>7 DEF Places
  <2>10. (\A e \in Places' : e[2] <= next'[e[1]]) /\ Accounted'
    BY <2>3, <2>7, <2>9, NothingTaken
  <2> QED
    BY <2>3, <2>7, <2>8, <2>10 DEF OrderInv
<1>3. CASE Accept(c) \/ RegisterClientConn(c) \/ ClientCloses(c)
  <2>1. UNCHANGED <<next, watcher, batchCh, consumer, q, buf, stored, failed, refused, dropped>>
    BY <1>3 DEF Accept, RegisterClientConn, ClientCloses, HandlerReturns, writerVars, fateVars
  <2>2. \A d \in Conn : conn'[d] = "handling" <=> conn[d] = "handling"
    BY <1>3 DEF Accept, RegisterClientConn, ClientCloses, HandlerReturns, Types
  <2>3. Offered' = Offered
    BY <2>1, <2>2 DEF Offered, Busy, Current
  <2> QED
    BY <2>1, <2>3, StandingStill DEF InHand
<1> QED
  BY <1>1, <1>2, <1>3 DEF ConnStep

LEMMA ConsumerOrder ==
  ASSUME TypeInv, OrderInv, Accounted, ConsumerStep
  PROVE  OrderInv' /\ Accounted'
<1> Types
  BY DEF TypeInv
<1>1. UNCHANGED <<next, dropped, Offered>>
  BY DEF ConsumerStep, ConsumerTakes, ConsumerProcesses, ConsumerSeesDone, ConsumerExits,
         ProcessEvent, sourceVars, fateVars, Offered, Busy, Current
<1>2. CASE ConsumerTakes
  <2> DEFINE h == Head(batchCh)
  <2>1. batchCh \in Seq(Event) /\ batchCh # <<>> /\ Sorted(batchCh) /\ batchCh' = Tail(batchCh)
    BY <1>2 DEF ConsumerTakes, Types, OrderInv
  <2>2. h \in Event /\ InChannel = InChannel' \cup {h}
    BY <2>1, TailFacts DEF InChannel
  <2>3. Sorted(batchCh') /\ Before({h}, InChannel')
    BY <2>1, SortedTail DEF InChannel
  <2>4. InHand = {} /\ InHand' = {h}
    BY <1>2, <2>2, PipelineAssumption DEF ConsumerTakes, InHand, Types
  <2>5. UNCHANGED <<Written, InBuffer, InQueue, buf, q, stored, refused>>
    BY <1>2 DEF ConsumerTakes, writerVars, fateVars, Written, InBuffer, InQueue
  <2> HIDE DEF h
  <2>6. Line(Written, InBuffer, InQueue, InHand, InChannel, Offered)'
    BY <1>1, <2>2, <2>3, <2>4, <2>5 DEF OrderInv, Line, Before
  <2>7. Places' = Places
    BY <1>1, <2>2, <2>4, <2>5 DEF Places
  <2>8. (\A e \in Places' : e[2] <= next'[e[1]]) /\ Accounted'
    BY <1>1, <2>5, <2>7, NothingTaken
  <2> QED
    BY <2>3, <2>5, <2>6, <2>8 DEF OrderInv
<1>3. CASE ConsumerProcesses
  <2> DEFINE h == consumer.ev
  <2>1. h \in Event /\ InHand = {h} /\ InHand' = {}
    BY <1>3 DEF ConsumerProcesses, Types, InHand
  <2>2. ~WriterDone
    BY <1>3 DEF ConsumerProcesses, TypeInv, StopInv, WriterDone
  <2>3. Before(Written \cup InBuffer \cup InQueue, {h})
    BY <2>1 DEF OrderInv, Line, Before
  <2>4. ProcessEvent(h) /\ UNCHANGED <<batchCh, InChannel>>
    BY <1>3 DEF ConsumerProcesses, InChannel
  <2> HIDE DEF h
  <2>5. /\ refused' = refused /\ InBuffer' = InBuffer
        /\ Sorted(buf') /\ Sorted(stored') /\ Sorted(q')
        /\ \A f \in InBuffer' \cup InQueue' : f \notin Direct
        /\ \/ h \in Direct /\ Written' = Written \cup {h} /\ InQueue' = InQueue
           \/ h \notin Direct /\ Written' = Written /\ InQueue' = InQueue \cup {h}
    BY <2>1, <2>2, <2>3, <2>4, ProcessMoves
  <2>6. Line(Written, InBuffer, InQueue, InHand, InChannel, Offered)'
    <3>1. h \in Direct => \A f \in InBuffer \cup InQueue : Earlier(h, f)
      BY TwoWays DEF OrderInv
    <3> QED
      BY <1>1, <2>1, <2>3, <2>4, <2>5, <3>1 DEF OrderInv, Line, Before
  <2>7. Places' = Places
    BY <1>1, <2>1, <2>4, <2>5 DEF Places
  <2>8. (\A e \in Places' : e[2] <= next'[e[1]]) /\ Accounted'
    BY <1>1, <2>5, <2>7, NothingTaken
  <2> QED
    BY <2>4, <2>5, <2>6, <2>8 DEF OrderInv
<1>4. CASE ConsumerSeesDone \/ ConsumerExits
  <2>1. InHand' = InHand
    BY <1>4 DEF ConsumerSeesDone, ConsumerExits, InHand, Types
  <2> QED
    BY <1>1, <1>4, <2>1, StandingStill DEF ConsumerSeesDone, ConsumerExits, writerVars, fateVars
<1> QED
  BY <1>2, <1>3, <1>4 DEF ConsumerStep

\* A flush moves the buffer to the database, or loses it as a whole.
LEMMA FlushOrder ==
  ASSUME Types, NEW s \in Seq(Event), Sorted(s), Sorted(stored),
         Before(Written, ToSet(s)), FlushBuffer(s)
  PROVE  buf' = <<>> /\ Sorted(stored') /\ Written' = Written \cup ToSet(s)
<1>1. stored \in Seq(Event) /\ buf' = <<>>
  BY DEF Types, FlushBuffer
<1>2. CASE stored' = stored \o s /\ UNCHANGED failed
  <2>1. Before(ToSet(stored), ToSet(s))
    BY DEF Before, Written
  <2>2. Sorted(stored') /\ ToSet(stored') = ToSet(stored) \cup ToSet(s)
    BY <1>1, <1>2, <2>1, SortedConcat, ConcatFacts
  <2> QED
    BY <1>1, <1>2, <2>2 DEF Written
<1>3. CASE failed' = failed \cup ToSet(s) /\ UNCHANGED stored
  BY <1>1, <1>3 DEF Written
<1> QED
  BY <1>2, <1>3 DEF FlushBuffer, WriteAll

LEMMA NoElements == ToSet(<<>>) = {} /\ Sorted(<<>>)
BY DEF ToSet, Sorted

LEMMA WriterOrder ==
  ASSUME TypeInv, OrderInv, Accounted, WriterStep
  PROVE  OrderInv' /\ Accounted'
<1> Types /\ buf \in Seq(Event) /\ q \in Seq(Event) /\ Sorted(buf) /\ Sorted(q) /\ Sorted(stored)
  BY DEF TypeInv, Types, OrderInv
<1>1. UNCHANGED <<next, dropped, refused, batchCh, InHand, InChannel, Offered>>
  BY DEF WriterStep, WriterTakes, WriterTicks, WriterSeesDone, WriterDrains, WriterExits,
         sourceVars, fateVars, InHand, InChannel, Offered, Busy, Current
<1>2. CASE WriterTakes \/ WriterDrains
  <2> DEFINE h == Head(q)
             s == Append(buf, Head(q))
  <2>1. h \in Event /\ q' = Tail(q) /\ InQueue = InQueue' \cup {h}
        /\ Sorted(q') /\ Before({h}, InQueue')
    BY <1>2, TailFacts, SortedTail DEF WriterTakes, WriterDrains, InQueue
  <2>2. s \in Seq(Event) /\ ToSet(s) = InBuffer \cup {h}
    BY <2>1, AppendFacts DEF InBuffer
  <2>3. Before(InBuffer, {h}) /\ Before(Written, ToSet(s))
    BY <2>1, <2>2 DEF OrderInv, Line, Before
  <2>4. Sorted(s)
    BY <2>1, <2>3, SortedAppend DEF InBuffer
  <2>5. \A f \in InQueue' : f \notin Direct
    BY <2>1 DEF OrderInv
  <2>6. \/ buf' = s /\ UNCHANGED <<stored, failed>>
        \/ FlushBuffer(s)
    BY <1>2 DEF WriterTakes, WriterDrains, fateVars
  <2> HIDE DEF h, s
  <2>7. CASE buf' = s /\ UNCHANGED <<stored, failed>>
    <3>1. Written' = Written /\ InBuffer' = InBuffer \cup {h}
      BY <2>2, <2>7 DEF Written, InBuffer
    <3>2. Line(Written, InBuffer, InQueue, InHand, InChannel, Offered)'
      BY <1>1, <2>1, <2>3, <3>1 DEF OrderInv, Line, Before
    <3>3. Places' = Places
      BY <1>1, <2>1, <3>1 DEF Places
    <3>4. (\A e \in Places' : e[2] <= next'[e[1]]) /\ Accounted'
      BY <1>1, <3>3, NothingTaken
    <3>5. \A f \in InBuffer' \cup InQueue' : f \notin Direct
      BY <2>1, <3>1 DEF OrderInv
    <3> QED
      BY <1>1, <2>1, <2>4, <2>7, <3>2, <3>4, <3>5 DEF OrderInv
  <2>8. CASE FlushBuffer(s)
    <3>1. buf' = <<>> /\ Sorted(stored') /\ Written' = Written \cup ToSet(s)
      BY <2>2, <2>3, <2>4, <2>8, FlushOrder
    <3>2. InBuffer' = {} /\ Sorted(buf') /\ Written' = Written \cup InBuffer \cup {h}
      BY <2>2, <3>1, NoElements DEF InBuffer
    <3>3. Line(Written, InBuffer, InQueue, InHand, InChannel, Offered)'
      BY <1>1, <2>1, <2>3, <3>2 DEF OrderInv, Line, Before
    <3>4. Places' = Places
      BY <1>1, <2>1, <3>2 DEF Places
    <3>5. (\A e \in Places' : e[2] <= next'[e[1]]) /\ Accounted'
      BY <1>1, <3>4, NothingTaken
    <3> QED
      BY <1>1, <2>1, <2>5, <3>1, <3>2, <3>3, <3>5 DEF OrderInv
  <2> QED
    BY <2>6, <2>7, <2>8
<1>3. CASE WriterTicks \/ WriterExits
  <2>1. FlushBuffer(buf) /\ UNCHANGED <<q, InQueue>>
    BY <1>3 DEF WriterTicks, WriterExits, InQueue
  <2>2. Before(Written, ToSet(buf))
    BY DEF OrderInv, Line, InBuffer
  <2>3. buf' = <<>> /\ Sorted(stored') /\ Written' = Written \cup InBuffer
    BY <2>1, <2>2, FlushOrder DEF InBuffer
  <2>4. InBuffer' = {} /\ Sorted(buf')
    BY <2>3, NoElements DEF InBuffer
  <2>5. Line(Written, InBuffer, InQueue, InHand, InChannel, Offered)'
    BY <1>1, <2>1, <2>3, <2>4 DEF OrderInv, Line, Before
  <2>6. Places' = Places
    BY <1>1, <2>1, <2>3, <2>4 DEF Places
  <2>7. (\A e \in Places' : e[2] <= next'[e[1]]) /\ Accounted'
    BY <1>1, <2>6, NothingTaken
  <2> QED
    BY <1>1, <2>1, <2>3, <2>4, <2>5, <2>7 DEF OrderInv
<1>4. CASE WriterSeesDone
  BY <1>1, <1>4, StandingStill DEF WriterSeesDone, fateVars
<1> QED
  BY <1>2, <1>3, <1>4 DEF WriterStep

LEMMA RestOrder ==
  ASSUME OrderInv, Accounted, BackgroundStep \/ StopBegins \/ StopStep \/ Ended \/ UNCHANGED vars
  PROVE  OrderInv' /\ Accounted'
<1>1. UNCHANGED <<next, watcher, conn, consumer, batchCh, q, buf, stored, failed, refused, dropped>>
  BY DEF BackgroundStep, BackgroundTicks, BackgroundSwept, BackgroundSeesDone, StopBegins, StopStep,
         CloseDone, CloseListeners, CloseClientConns, AwaitConns, AwaitConsumer, StopWriter,
         AwaitWriter, AwaitBackground, CloseDB, StopUnchanged, Ended, vars,
         sourceVars, writerVars, fateVars
<1>2. UNCHANGED <<InHand, Offered>>
  BY <1>1 DEF InHand, Offered, Busy, Current
<1> QED
  BY <1>1, <1>2, StandingStill

Inv == TypeInv /\ OrderInv /\ Accounted

LEMMA InitInv == Init => Inv
<1> SUFFICES ASSUME Init PROVE Inv
  OBVIOUS
<1>1. TypeInv
  BY InitStopInv, InitTypes DEF TypeInv
<1>2. stored = <<>> /\ buf = <<>> /\ q = <<>> /\ batchCh = <<>> /\ failed = {} /\ InHand = {}
  BY DEF Init, InHand
<1>3. \A p \in Producer : ~Busy(p)
  BY DEF Init, Busy
<1>4. Places = {} /\ Line(Written, InBuffer, InQueue, InHand, InChannel, Offered)
  BY <1>2, <1>3, NoElements DEF Places, Written, InBuffer, InQueue, InChannel, Offered, Line, Before
<1>5. OrderInv
  BY <1>2, <1>4, NoElements DEF OrderInv, InBuffer, InQueue
<1>6. Accounted
  BY DEF Init, Accounted
<1> QED
  BY <1>1, <1>5, <1>6 DEF Inv

LEMMA NextInv == Inv /\ [Next]_vars => Inv'
BY NextTypeInv, WatcherOrder, ConnOrder, ConsumerOrder, WriterOrder, RestOrder DEF Inv, TypeInv, Next

\* Token events of one producer are stored in the order it gave them, each
\* at most once, and so are the others, whichever channels, buffer and drain
\* loops they went through before and during Stop (daemon.go processEvent,
\* batchConsumer, batch_writer.go run).
THEOREM OrderKept == Spec => []InOrder
<1>1. Inv => InOrder
  <2> SUFFICES ASSUME Inv PROVE InOrder
    OBVIOUS
  <2>1. stored \in Seq(Event) /\ Sorted(stored)
    BY DEF Inv, TypeInv, Types, OrderInv
  <2>2. DOMAIN stored = 1 .. Len(stored)
    BY <2>1
  <2> QED
    BY <2>1, <2>2 DEF InOrder, Sorted
<1>2. QED
  BY <1>1, InitInv, NextInv, PTL DEF Spec

\* No event is turned away by a BatchWriter that has stopped, and every
\* event taken is on its way, written, in a failed transaction or counted
\* in droppedShutdownEvts (batch_writer.go Enqueue, daemon.go Stop).
THEOREM NothingForgotten == Spec => []Accounted
<1>1. Inv => Accounted
  BY DEF Inv
<1>2. QED
  BY <1>1, InitInv, NextInv, PTL DEF Spec

-----------------------------------------------------------------------------
(* The promise of EventLedger, for a caller that stops the watchers first. *)

\* Watchers that have stopped give nothing to drop or to drain.
Still ==
  /\ dropped = {}
  /\ stop # "up" => \A w \in Watcher : watcher[w] = "stopped"
  /\ consumer.loop # "run" => DoneClosed
  /\ consumer.loop = "exited" => batchCh = <<>>

LEMMA InitStill == Init => Still
BY DEF Init, Still

LEMMA NextStill ==
  ASSUME WatchersFirst, TypeInv, Still, [Next]_vars
  PROVE  Still'
<1>1. CASE \E w \in Watcher : WatcherStep(w)
  <2>1. PICK w \in Watcher : WatcherStep(w)
    BY <1>1
  <2>2. stop = "up" /\ consumer.loop = "run"
    BY <2>1 DEF WatcherStep, Emit, SendBlocked, DropOnShutdown, WatcherStops, Still, DoneClosed,
                TypeInv, Types, StopInv
  <2>3. UNCHANGED <<consumer, stop, dropped>>
    BY <2>1, <2>2 DEF WatcherStep, Emit, SendBlocked, DropOnShutdown, WatcherStops, DoneClosed, fateVars
  <2> QED
    BY <2>2, <2>3 DEF Still
<1>2. CASE (\E c \in Conn : ConnStep(c)) \/ WriterStep \/ BackgroundStep \/ Ended \/ UNCHANGED vars
  <2>1. UNCHANGED <<watcher, consumer, stop, dropped, batchCh>>
    BY <1>2 DEF ConnStep, Accept, RegisterClientConn, Decode, Handle, ClientCloses, HandlerReturns,
                ProcessEvent, WriterStep, WriterTakes, WriterTicks, WriterSeesDone, WriterDrains,
                WriterExits, BackgroundStep, BackgroundTicks, BackgroundSwept, BackgroundSeesDone,
                Ended, vars, sourceVars, fateVars
  <2> QED
    BY <2>1 DEF Still, DoneClosed
<1>3. CASE ConsumerStep
  <2>1. UNCHANGED <<watcher, stop, dropped>>
    BY <1>3 DEF ConsumerStep, ConsumerTakes, ConsumerProcesses, ConsumerSeesDone, ConsumerExits,
                ProcessEvent, sourceVars, fateVars
  <2>2. consumer'.loop # "run" => DoneClosed
    BY <1>3 DEF ConsumerStep, ConsumerTakes, ConsumerProcesses, ConsumerSeesDone, ConsumerExits,
                Still, TypeInv, Types
  <2>3. consumer'.loop = "exited" => batchCh' = <<>>
    BY <1>3 DEF ConsumerStep, ConsumerTakes, ConsumerProcesses, ConsumerSeesDone, ConsumerExits,
                TypeInv, StopInv, Types
  <2> QED
    BY <2>1, <2>2, <2>3 DEF Still, DoneClosed
<1>4. CASE StopBegins \/ StopStep
  <2>1. StopUnchanged
    BY <1>4 DEF StopBegins, StopStep, CloseDone, CloseListeners, CloseClientConns,
                AwaitConns, AwaitConsumer, StopWriter, AwaitWriter, AwaitBackground, CloseDB
  <2>2. stop = "up" => \A w \in Watcher : watcher[w] = "stopped"
    BY <1>4 DEF StopBegins, StopStep, Reach, CloseDone, CloseListeners, CloseClientConns,
                AwaitConns, AwaitConsumer, StopWriter, AwaitWriter, AwaitBackground, CloseDB
  <2>3. DoneClosed => DoneClosed'
    BY <1>4 DEF StopBegins, StopStep, Reach, CloseDone, CloseListeners, CloseClientConns,
                AwaitConns, AwaitConsumer, StopWriter, AwaitWriter, AwaitBackground, CloseDB, DoneClosed
  <2> QED
    BY <2>1, <2>2, <2>3 DEF Still, StopUnchanged, fateVars
<1> QED
  BY <1>1, <1>2, <1>3, <1>4 DEF Next

Open == stop # "closed"

\* An event is taken when its producer has come to it and it is not yet
\* written or lost.
LEMMA FateOf ==
  ASSUME NEW e \in Event
  PROVE  /\ e \in ToSet(stored) => Fate[e] = "stored"
         /\ e \in failed /\ e \notin ToSet(stored) => Fate[e] = "lost"
         /\ e \notin Written /\ e[2] <= next[e[1]] => Fate[e] = "taken"
         /\ e \notin Written /\ ~(e[2] <= next[e[1]]) => Fate[e] = "unread"
BY DEF Fate, Written

LEMMA FateStays ==
  ASSUME UNCHANGED <<next, stored, failed>>, Open' = Open
  PROVE  UNCHANGED Ledger!vars
<1>1. Fate' = Fate
  BY DEF Fate
<1> QED
  BY <1>1 DEF Ledger!vars, Open

\* A goroutine takes an event.
LEMMA TakeIsTake ==
  ASSUME Inv, NEW p \in Producer, next[p] < Feed[p], next' = [next EXCEPT ![p] = @ + 1],
         UNCHANGED <<stored, failed, stop>>, Open
  PROVE  Ledger!Next
<1> DEFINE n == <<p, next[p] + 1>>
<1>1. next \in [Producer -> Nat] /\ n \in Event
  BY InEvent DEF Inv, TypeInv, Types
<1>2. n \notin Written
  <2>1. SUFFICES ASSUME n \in Places PROVE FALSE
    BY DEF Places
  <2>2. n[2] <= next[n[1]]
    BY <2>1 DEF Inv, OrderInv
  <2> QED
    BY <1>1, <2>2
<1>3. ASSUME NEW f \in Event, f # n PROVE Fate'[f] = Fate[f]
  <2>1. f[1] \in Producer /\ f[2] \in Nat /\ f = <<f[1], f[2]>>
    BY EventParts
  <2>2. f[2] <= next'[f[1]] <=> f[2] <= next[f[1]]
    BY <1>1, <1>3, <2>1
  <2> QED
    BY <2>2 DEF Fate
<1>4. n[2] <= next'[n[1]] /\ ~(n[2] <= next[n[1]])
  BY <1>1
<1>5. Fate[n] = "unread" /\ Fate'[n] = "taken"
  BY <1>1, <1>2, <1>4 DEF Fate, Written
<1>6. Fate' = [Fate EXCEPT ![n] = "taken"]
  <2> HIDE DEF n
  <2> QED
    BY <1>1, <1>3, <1>5 DEF Fate
<1>7. Ledger!Take(n)
  BY <1>5, <1>6 DEF Ledger!Take, Open
<1> QED
  BY <1>1, <1>7 DEF Ledger!Next

\* One statement or transaction writes, or loses, the events E.
LEMMA SettleIsSettle ==
  ASSUME Inv, NEW E \in SUBSET Event, E # {}, E \subseteq Places, E \cap Written = {},
         \/ ToSet(stored') = ToSet(stored) \cup E /\ failed' = failed
         \/ failed' = failed \cup E /\ stored' = stored,
         UNCHANGED <<next, stop>>, Open
  PROVE  Ledger!Next
<1>1. \A e \in E : Fate[e] = "taken"
  BY FateOf DEF Inv, OrderInv
<1>2. PICK outcome \in {"stored", "lost"} :
        \/ outcome = "stored" /\ ToSet(stored') = ToSet(stored) \cup E /\ failed' = failed
        \/ outcome = "lost" /\ failed' = failed \cup E /\ stored' = stored
  OBVIOUS
<1>3. ASSUME NEW e \in Event PROVE Fate'[e] = IF e \in E THEN outcome ELSE Fate[e]
  BY <1>2 DEF Fate, Written
<1>4. Fate' = [e \in Event |-> IF e \in E THEN outcome ELSE Fate[e]]
  BY <1>3 DEF Fate
<1>5. Ledger!Settle(E)
  BY <1>1, <1>4 DEF Ledger!Settle, Open
<1> QED
  BY <1>5 DEF Ledger!Next

\* An event that is still on its way has not been written.
LEMMA OnItsWay ==
  ASSUME Types, NEW e \in Event, Before(Written, {e})
  PROVE  e \notin Written
<1>1. ~Earlier(e, e)
  BY EventParts DEF Earlier, SameWay
<1> QED
  BY <1>1 DEF Before

LEMMA ProcessMaps ==
  ASSUME Inv, NEW e \in Event, e \in Places, Before(Written, {e}), ProcessEvent(e),
         UNCHANGED <<next, stop>>, Open
  PROVE  Ledger!Next \/ UNCHANGED Ledger!vars
<1>1. e \notin Written /\ stored \in Seq(Event)
  BY OnItsWay DEF Inv, TypeInv, Types
<1>2. CASE e \notin Direct
  BY <1>2, FateStays DEF ProcessEvent, Open
<1>3. CASE e \in Direct
  <2>1. \/ stored' = Append(stored, e) /\ failed' = failed
        \/ failed' = failed \cup {e} /\ stored' = stored
    BY <1>3 DEF ProcessEvent, Execute, Write
  <2>2. \/ ToSet(stored') = ToSet(stored) \cup {e} /\ failed' = failed
        \/ failed' = failed \cup {e} /\ stored' = stored
    BY <1>1, <2>1, AppendFacts
  <2>3. {e} \in SUBSET Event /\ {e} # {} /\ {e} \subseteq Places /\ {e} \cap Written = {}
    BY <1>1
  <2> QED
    BY <2>2, <2>3, SettleIsSettle
<1> QED
  BY <1>2, <1>3

LEMMA FlushMaps ==
  ASSUME Inv, NEW s \in Seq(Event), ToSet(s) \subseteq Places, Before(Written, ToSet(s)),
         FlushBuffer(s), UNCHANGED <<next, stop>>, Open
  PROVE  Ledger!Next \/ UNCHANGED Ledger!vars
<1>1. stored \in Seq(Event) /\ ToSet(s) \subseteq Event
  <2>1. stored \in Seq(Event)
    BY DEF Inv, TypeInv, Types
  <2> QED
    BY <2>1, PlacesAreEvents DEF Inv, TypeInv
<1>2. ToSet(s) \cap Written = {}
  BY <1>1, OnItsWay DEF Before, Inv, TypeInv
<1>3. \/ ToSet(stored') = ToSet(stored) \cup ToSet(s) /\ failed' = failed
      \/ failed' = failed \cup ToSet(s) /\ stored' = stored
  BY <1>1, ConcatFacts DEF FlushBuffer, WriteAll
<1>4. CASE s = <<>>
  <2>1. stored' = stored /\ failed' = failed
    <3>1. stored \o <<>> = stored
      BY <1>1
    <3> QED
      BY <1>4, <3>1 DEF FlushBuffer, WriteAll
  <2> QED
    BY <2>1, FateStays DEF Open
<1>5. CASE s # <<>>
  <2>1. ToSet(s) # {}
    BY <1>5, TailFacts
  <2> QED
    BY <1>1, <1>2, <1>3, <2>1, SettleIsSettle
<1> QED
  BY <1>4, <1>5

LEMMA WatcherMaps ==
  ASSUME WatchersFirst, Inv, Still, NEW w \in Watcher, WatcherStep(w)
  PROVE  Ledger!Next \/ UNCHANGED Ledger!vars
<1>1. stop = "up" /\ UNCHANGED <<stop, stored, failed>>
  BY DEF WatcherStep, Emit, SendBlocked, DropOnShutdown, WatcherStops, Still, DoneClosed, fateVars
<1>2. CASE Emit(w)
  <2>1. w \in Producer /\ next[w] < Feed[w] /\ next' = [next EXCEPT ![w] = @ + 1]
    BY <1>2 DEF Emit, Producer
  <2> QED
    BY <1>1, <2>1, TakeIsTake DEF Open
<1>3. CASE ~Emit(w)
  <2>1. next' = next
    BY <1>1, <1>3 DEF WatcherStep, SendBlocked, DropOnShutdown, WatcherStops
  <2> QED
    BY <1>1, <2>1, FateStays DEF Open
<1> QED
  BY <1>2, <1>3

LEMMA ConnMaps ==
  ASSUME Inv, NEW c \in Conn, ConnStep(c)
  PROVE  Ledger!Next \/ UNCHANGED Ledger!vars
<1> c \in Producer
  BY DEF Producer
<1>1. stop' = stop
  BY DEF ConnStep, Accept, RegisterClientConn, Decode, Handle, ClientCloses, HandlerReturns
<1>2. CASE Decode(c)
  <2>1. Open
    BY <1>2 DEF Decode, Open, Inv, TypeInv, StopInv
  <2>2. next[c] < Feed[c] /\ next' = [next EXCEPT ![c] = @ + 1] /\ UNCHANGED <<stored, failed>>
    BY <1>2 DEF Decode, fateVars
  <2> QED
    BY <1>1, <2>1, <2>2, TakeIsTake
<1>3. CASE Handle(c)
  <2> DEFINE e == Current(c)
  <2>1. Open /\ next' = next /\ ProcessEvent(e)
    BY <1>3 DEF Handle, Open, Inv, TypeInv, StopInv
  <2>2. e \in Event /\ e \in Offered
    BY <1>3, Roles, CurrentIsEvent DEF Handle, Offered, Inv, TypeInv
  <2>3. e \in Places /\ Before(Written, {e})
    BY <2>2 DEF Places, Inv, OrderInv, Line, Before
  <2> HIDE DEF e
  <2> QED
    BY <1>1, <2>1, <2>2, <2>3, ProcessMaps
<1>4. CASE Accept(c) \/ RegisterClientConn(c) \/ ClientCloses(c)
  BY <1>4, FateStays DEF Accept, RegisterClientConn, ClientCloses, HandlerReturns, fateVars, Open
<1> QED
  BY <1>2, <1>3, <1>4 DEF ConnStep

LEMMA ConsumerMaps ==
  ASSUME Inv, ConsumerStep
  PROVE  Ledger!Next \/ UNCHANGED Ledger!vars
<1>1. UNCHANGED <<next, stop>>
  BY DEF ConsumerStep, ConsumerTakes, ConsumerProcesses, ConsumerSeesDone, ConsumerExits, sourceVars
<1>2. CASE ConsumerProcesses
  <2> DEFINE e == consumer.ev
  <2>1. e \in Event /\ e \in InHand /\ ProcessEvent(e)
    BY <1>2 DEF ConsumerProcesses, InHand, Inv, TypeInv, Types
  <2>2. Open
    BY <1>2 DEF ConsumerProcesses, Open, Inv, TypeInv, StopInv
  <2>3. e \in Places /\ Before(Written, {e})
    BY <2>1 DEF Places, Inv, OrderInv, Line, Before
  <2> HIDE DEF e
  <2> QED
    BY <1>1, <2>1, <2>2, <2>3, ProcessMaps
<1>3. CASE ConsumerTakes \/ ConsumerSeesDone \/ ConsumerExits
  BY <1>1, <1>3, FateStays DEF ConsumerTakes, ConsumerSeesDone, ConsumerExits, fateVars, Open
<1> QED
  BY <1>2, <1>3 DEF ConsumerStep

LEMMA WriterMaps ==
  ASSUME Inv, WriterStep
  PROVE  Ledger!Next \/ UNCHANGED Ledger!vars
<1>1. UNCHANGED <<next, stop>> /\ Open /\ buf \in Seq(Event) /\ q \in Seq(Event)
  BY DEF WriterStep, WriterTakes, WriterTicks, WriterSeesDone, WriterDrains, WriterExits, sourceVars,
         Open, Inv, TypeInv, Types, StopInv
<1>2. CASE WriterTakes
  <2> DEFINE s == Append(buf, Head(q))
  <2>1. Head(q) \in Event /\ Head(q) \in InQueue
    BY <1>1, <1>2, TailFacts DEF WriterTakes, InQueue
  <2>2. s \in Seq(Event) /\ ToSet(s) = InBuffer \cup {Head(q)}
    BY <1>1, <2>1, AppendFacts DEF InBuffer
  <2>3. ToSet(s) \subseteq Places /\ Before(Written, ToSet(s))
    BY <2>1, <2>2 DEF Places, Inv, OrderInv, Line, Before
  <2>4. FlushBuffer(s) \/ UNCHANGED <<stored, failed>>
    BY <1>2 DEF WriterTakes
  <2> HIDE DEF s
  <2> QED
    BY <1>1, <2>2, <2>3, <2>4, FlushMaps, FateStays DEF Open
<1>3. CASE WriterTicks \/ WriterExits
  <2>1. ToSet(buf) \subseteq Places /\ Before(Written, ToSet(buf))
    BY DEF Places, Inv, OrderInv, Line, InBuffer
  <2> QED
    BY <1>1, <1>3, <2>1, FlushMaps DEF WriterTicks, WriterExits
<1>4. CASE WriterSeesDone \/ WriterDrains
  BY <1>1, <1>4, FateStays DEF WriterSeesDone, WriterDrains, fateVars, Open
<1> QED
  BY <1>2, <1>3, <1>4 DEF WriterStep

\* When Stop has returned, every event taken has been written or lost.
LEMMA CloseMaps ==
  ASSUME WatchersFirst, Inv, Still, CloseDB
  PROVE  Ledger!Close
<1>1. stop = "stopped" /\ stop' = "closed" /\ UNCHANGED <<next, stored, failed>>
  BY DEF CloseDB, Reach, StopUnchanged, fateVars
<1>2. /\ \A p \in Producer : ~Busy(p)
      /\ consumer.loop = "exited" /\ consumer.ev = None /\ writer = "exited"
  BY <1>1 DEF Busy, Still, Inv, TypeInv, StopInv
<1>3. batchCh = <<>> /\ buf = <<>> /\ q = <<>>
  BY <1>2 DEF Still, Inv, TypeInv, Bounds
<1>4. Places = Written
  BY <1>2, <1>3, NoElements DEF Places, InBuffer, InQueue, InHand, InChannel, Offered
<1>5. ASSUME NEW e \in Event PROVE Fate[e] # "taken"
  <2>1. CASE e[2] <= next[e[1]]
    <3>1. e[1] \in Producer /\ e[2] \in 1 .. next[e[1]] /\ e = <<e[1], e[2]>>
      BY <2>1, EventParts DEF Inv, TypeInv, Types
    <3>2. e \in Written
      BY <1>4, <3>1 DEF Inv, Accounted, Still
    <3> QED
      BY <3>2, FateOf DEF Written
  <2>2. CASE ~(e[2] <= next[e[1]])
    BY <2>2 DEF Fate
  <2> QED
    BY <2>1, <2>2
<1>6. Fate' = Fate
  BY <1>1 DEF Fate
<1> QED
  BY <1>1, <1>5, <1>6 DEF Ledger!Close

LEMMA StopMaps ==
  ASSUME WatchersFirst, Inv, Still, BackgroundStep \/ StopBegins \/ StopStep \/ Ended \/ UNCHANGED vars
  PROVE  Ledger!Next \/ UNCHANGED Ledger!vars
<1>1. CASE CloseDB
  BY <1>1, CloseMaps DEF Ledger!Next
<1>2. CASE ~CloseDB
  <2>1. UNCHANGED <<next, stored, failed>>
    BY DEF BackgroundStep, BackgroundTicks, BackgroundSwept, BackgroundSeesDone, StopBegins, StopStep,
           CloseDone, CloseListeners, CloseClientConns, AwaitConns, AwaitConsumer, StopWriter,
           AwaitWriter, AwaitBackground, CloseDB, StopUnchanged, Ended, vars, sourceVars, fateVars
  <2>2. Open' = Open
    BY <1>2 DEF BackgroundStep, BackgroundTicks, BackgroundSwept, BackgroundSeesDone, StopBegins, StopStep,
           CloseDone, CloseListeners, CloseClientConns, AwaitConns, AwaitConsumer, StopWriter,
           AwaitWriter, AwaitBackground, Reach, Ended, vars, Open
  <2> QED
    BY <2>1, <2>2, FateStays
<1> QED
  BY <1>1, <1>2

LEMMA InitMaps == Init => Ledger!Init
<1> SUFFICES ASSUME Init PROVE Ledger!Init
  OBVIOUS
<1>1. next = [p \in Producer |-> 0] /\ stored = <<>> /\ failed = {} /\ stop = "up"
  BY DEF Init
<1>2. ASSUME NEW e \in Event PROVE Fate[e] = "unread"
  <2>1. e \notin Written /\ e[1] \in Producer /\ e[2] > 0 /\ e[2] \in Nat
    BY <1>1, NoElements, EventParts DEF Written
  <2>2. ~(e[2] <= next[e[1]])
    BY <1>1, <2>1
  <2> QED
    BY <2>1, <2>2, FateOf
<1>3. Fate = [e \in Event |-> "unread"]
  BY <1>2 DEF Fate
<1> QED
  BY <1>1, <1>3 DEF Ledger!Init

\* Every step is a step of the ledger or invisible to it: with the watchers
\* stopped first, an event that was taken is written once or lost with one
\* failed transaction, in one piece with the batch it was in, and the
\* database is closed when no event is left between the two (daemon.go Stop,
\* main.go daemon's deferred stops).  What LedgerKept adds to it is liveness.
THEOREM LedgerImplemented ==
  ASSUME WatchersFirst
  PROVE  Spec => Ledger!Init /\ [][Ledger!Next]_(Ledger!vars)
<1>1. Init => Inv /\ Still /\ Ledger!Init
  BY InitInv, InitStill, InitMaps
<1>2. Inv /\ Still /\ [Next]_vars => Inv' /\ Still'
  BY NextInv, NextStill DEF Inv
<1>3. Inv /\ Still /\ [Next]_vars => [Ledger!Next]_(Ledger!vars)
  BY WatcherMaps, ConnMaps, ConsumerMaps, WriterMaps, StopMaps DEF Next
<1> QED
  BY <1>1, <1>2, <1>3, PTL DEF Spec
=============================================================================
