----------------------------- MODULE EventStream -----------------------------
(***************************************************************************)
(* From the daemon's broadcast to a screen: the goroutines that broadcast, *)
(* one for each hook connection (handleConn) and one for the watchers      *)
(* (batchConsumer), all at once; the connections of subscribers; the       *)
(* goroutine that reads one, and behind it either `tm watch`, which prints *)
(* every event, or the dashboard's /api/events handler, which keeps        *)
(* token_usage back in an SSEBuffer and sends the latest one per session.  *)
(***************************************************************************)
EXTENDS SequencesExt

CONSTANTS
  Caster,     \* goroutines that broadcast
  Feed,       \* Feed[b]: the events of b, in its order: [token, sess]
  Client,
  IsWeb,      \* clients that are /api/events requests; the others `tm watch`
  WireCap,    \* events a socket buffers
  InboxCap,   \* capacity of eventCh (256)
  OutCap      \* capacity of the batches (64)

ASSUME StreamAssumption ==
  /\ IsWeb \subseteq Client
  /\ LET Sess == UNION {{Feed[b][n].sess : n \in DOMAIN Feed[b]} : b \in Caster} IN
       Feed \in [Caster -> Seq([token : BOOLEAN, sess : Sess])]
  /\ {WireCap, InboxCap, OutCap} \subseteq Nat \ {0}

VARIABLES
  fed,      \* fed[b]: broadcasts b has begun
  stage,    \* stage[b][c]: how far the one under way is with c's connection
  timed,    \* connections that have a write deadline
  subs,     \* d.remoteSubs
  swept,    \* Stop has closed the subscribers' listener and connections
  sock,     \* sock[c]: the connection
  joined,   \* history: joined[c][b] broadcasts had b begun when c was registered
  stream,   \* stream[c]: the events written to it so far, as <<b, n>>
  scrap,    \* scrap[c]: what is behind them: "none", "part" of an event a write
            \* that failed has left, or that and "more"
  wire,     \* wire[c]: those not yet read, by their place in stream[c]
  inbox,    \* inbox[c]: eventCh, likewise
  reading,  \* reading[c]: the goroutine of SubscribeRemote is running
  screen,   \* screen[c]: what has been shown, likewise
  buffer,   \* buffer[c]: the SSEBuffer, [latest, out, stopped, closed], likewise
  client,   \* client[c]: the consumer
  spilled   \* history: clients whose SSEBuffer has dropped a batch

castVars == <<fed, stage, timed>>
subVars == <<subs, swept, sock, joined>>
pipeVars == <<stream, scrap, wire>>
screenVars == <<screen, buffer, spilled>>
streamVars == <<castVars, subVars, pipeVars, inbox, reading, client, screenVars>>

EmptyBuffer == [latest |-> {}, out |-> <<>>, stopped |-> FALSE, closed |-> FALSE]

StreamTypeOK ==
  /\ \A b \in Caster : fed[b] \in 0 .. Len(Feed[b])
  /\ stage \in [Caster -> [Client -> {"none", "due", "write", "sent", "failed", "drop"}]]
  /\ timed \subseteq Client /\ subs \subseteq Client /\ spilled \subseteq Client
  /\ swept \in BOOLEAN
  /\ sock \in [Client -> {"none", "dialled", "open", "shut"}]
  /\ scrap \in [Client -> {"none", "part", "more"}]
  /\ \A c \in Client :
       /\ stream[c] \in Seq(Caster \X Nat)
       /\ wire[c] \in BoundedSeq(DOMAIN stream[c], WireCap)
       /\ inbox[c] \in BoundedSeq(DOMAIN stream[c], InboxCap)
       /\ Len(buffer[c].out) <= OutCap
       /\ buffer[c].latest \subseteq DOMAIN stream[c]
  /\ reading \in [Client -> BOOLEAN]
  /\ client \in [Client -> {"away", "on", "draining", "ended", "left"}]

StreamInit ==
  /\ fed = [b \in Caster |-> 0]
  /\ stage = [b \in Caster |-> [c \in Client |-> "none"]]
  /\ timed = {} /\ subs = {}
  /\ swept = FALSE
  /\ sock = [c \in Client |-> "none"]
  /\ joined = [c \in Client |-> fed]
  /\ stream = [c \in Client |-> <<>>]
  /\ scrap = [c \in Client |-> "none"]
  /\ wire = [c \in Client |-> <<>>]
  /\ inbox = [c \in Client |-> <<>>]
  /\ reading = [c \in Client |-> FALSE]
  /\ screen = [c \in Client |-> <<>>]
  /\ buffer = [c \in Client |-> EmptyBuffer]
  /\ client = [c \in Client |-> "away"]
  /\ spilled = {}

-----------------------------------------------------------------------------
(* broadcast, in each goroutine that calls it: one connection at a time.   *)

GoesOn(b, c, from, to) == stage[b][c] = from /\ stage' = [stage EXCEPT ![b][c] = to]

\* The other end of c's connection is closed; its socket is full.
Gone(c) == ~reading[c] \/ client[c] = "left"
Full(c) == Len(wire[c]) = WireCap

\* The subscribers are copied under the lock.
BeginBroadcast(b) ==
  /\ \A c \in Client : stage[b][c] = "none"
  /\ fed[b] < Len(Feed[b])
  /\ fed' = [fed EXCEPT ![b] = @ + 1]
  /\ stage' = [stage EXCEPT ![b] = [c \in Client |-> IF c \in subs THEN "due" ELSE "none"]]
  /\ UNCHANGED <<timed, subVars, pipeVars, inbox, reading, client, screenVars>>

\* writeRemoteEvent: the deadline, which cannot be set once this end is closed.
SetDeadline(b, c) ==
  /\ \A o \in Client : stage[b][o] \in {"none", "due"}
  /\ \/ sock[c] = "open" /\ GoesOn(b, c, "due", "write") /\ timed' = timed \cup {c}
     \/ sock[c] # "open" /\ GoesOn(b, c, "due", "drop") /\ UNCHANGED timed
  /\ UNCHANGED <<fed, subVars, pipeVars, inbox, reading, client, screenVars>>

\* There is room for the event; behind part of another it cannot be decoded.
WriteEvent(b, c) ==
  /\ GoesOn(b, c, "write", "sent")
  /\ sock[c] = "open" /\ ~Gone(c) /\ ~Full(c)
  /\ \/ /\ scrap[c] = "none"
        /\ stream' = [stream EXCEPT ![c] = Append(@, <<b, fed[b]>>)]
        /\ wire' = [wire EXCEPT ![c] = Append(@, Len(stream[c]) + 1)]
        /\ UNCHANGED scrap
     \/ /\ scrap[c] # "none"
        /\ scrap' = [scrap EXCEPT ![c] = "more"]
        /\ UNCHANGED <<stream, wire>>
  /\ UNCHANGED <<fed, timed, subVars, inbox, reading, client, screenVars>>

\* Either end has closed the connection, or its deadline has passed, when part
\* of the event may be in the socket.
WriteFails(b, c) ==
  /\ GoesOn(b, c, "write", "failed")
  /\ \/ (sock[c] # "open" \/ Gone(c)) /\ UNCHANGED scrap
     \/ c \in timed /\ UNCHANGED scrap
     \/ c \in timed /\ scrap' = [scrap EXCEPT ![c] = IF @ = "none" THEN "part" ELSE "more"]
  /\ UNCHANGED <<fed, timed, subVars, stream, wire, inbox, reading, client, screenVars>>

\* The deferred reset of the deadline, whoever has set it.
ResetDeadline(b, c) ==
  /\ GoesOn(b, c, "sent", "none") \/ GoesOn(b, c, "failed", "drop")
  /\ timed' = timed \ {c}
  /\ UNCHANGED <<fed, subVars, pipeVars, inbox, reading, client, screenVars>>

\* Faulty variant: a client that is too slow misses the event and stays.
KeepSub(b, c) ==
  /\ GoesOn(b, c, "drop", "none")
  /\ UNCHANGED <<fed, timed, subVars, pipeVars, inbox, reading, client, screenVars>>

\* removeRemoteSub, after an error.
RemoveSub(b, c) ==
  /\ GoesOn(b, c, "drop", "none")
  /\ subs' = subs \ {c}
  /\ sock' = [sock EXCEPT ![c] = IF c \in subs THEN "shut" ELSE @]
  /\ UNCHANGED <<fed, timed, swept, joined, pipeVars, inbox, reading, client, screenVars>>

-----------------------------------------------------------------------------
(* The subscribers.                                                        *)

\* acceptSubscriberLoop and addRemoteSub; a connection accepted before Stop
\* closed the listener is registered even after Stop swept the others.
AddSubscriber(c) ==
  /\ sock[c] = "dialled"
  /\ subs' = subs \cup {c}
  /\ sock' = [sock EXCEPT ![c] = "open"]
  /\ joined' = [joined EXCEPT ![c] = fed]
  /\ UNCHANGED <<castVars, swept, pipeVars, inbox, reading, client, screenVars>>

\* Daemon.Stop.
SweepSubscribers ==
  /\ ~swept /\ swept' = TRUE
  /\ sock' = [c \in Client |-> IF c \in subs THEN "shut" ELSE sock[c]]
  /\ subs' = {}
  /\ UNCHANGED <<castVars, joined, pipeVars, inbox, reading, client, screenVars>>

\* Closing the listener ends the connections nobody has accepted.
DropBacklog(c) ==
  /\ swept /\ sock[c] = "dialled"
  /\ sock' = [sock EXCEPT ![c] = "shut"]
  /\ UNCHANGED <<castVars, subs, swept, joined, pipeVars, inbox, reading, client, screenVars>>

-----------------------------------------------------------------------------
(* SubscribeRemote.                                                        *)

Subscribe(c) ==
  /\ client[c] = "away" /\ ~swept
  /\ sock' = [sock EXCEPT ![c] = "dialled"]
  /\ reading' = [reading EXCEPT ![c] = TRUE]
  /\ client' = [client EXCEPT ![c] = "on"]
  /\ UNCHANGED <<castVars, subs, swept, joined, pipeVars, inbox, screenVars>>

\* The reader passes an event on; it waits while eventCh is full.
ReadEvent(c) ==
  /\ reading[c] /\ wire[c] # <<>> /\ client[c] # "left"
  /\ Len(inbox[c]) < InboxCap
  /\ inbox' = [inbox EXCEPT ![c] = Append(@, Head(wire[c]))]
  /\ wire' = [wire EXCEPT ![c] = Tail(@)]
  /\ UNCHANGED <<castVars, subVars, stream, scrap, reading, client, screenVars>>

\* Nothing more can be decoded: eventCh is closed, and this end.
ReadEnds(c) ==
  /\ reading[c]
  /\ \/ wire[c] = <<>> /\ (sock[c] = "shut" \/ scrap[c] = "more")
     \/ client[c] = "left" /\ Len(inbox[c]) < InboxCap
  /\ reading' = [reading EXCEPT ![c] = FALSE]
  /\ UNCHANGED <<castVars, subVars, pipeVars, inbox, client, screenVars>>

-----------------------------------------------------------------------------
(* SSEBuffer; buffer.latest holds the places of the newest token_usage     *)
(* event of each session.                                                  *)

\* The events that were written to c's connection.
Received(c) == [i \in DOMAIN stream[c] |-> Feed[stream[c][i][1]][stream[c][i][2]]]

\* Faulty variant: the first event of a session is kept.
AddFirst(feed, b, n) ==
  IF \E x \in b.latest : feed[x].sess = feed[n].sess THEN b
  ELSE [b EXCEPT !.latest = @ \cup {n}]

Add(feed, b, n) ==
  [b EXCEPT !.latest = {x \in @ : feed[x].sess # feed[n].sess} \cup {n}]

\* flush: a batch in no particular order, dropped when the consumer is behind.
Flushed(b) ==
  {[b EXCEPT !.latest = {}, !.out = IF Len(@) < OutCap THEN Append(@, s) ELSE @] :
     s \in SetToSeqs(b.latest)}
Spills(b) == Len(b.out) = OutCap

\* run: the ticker of the window.
FlushTick(c) ==
  /\ client[c] \in {"on", "draining"} /\ ~buffer[c].closed
  /\ buffer[c].latest # {}
  /\ \E b \in Flushed(buffer[c]) : buffer' = [buffer EXCEPT ![c] = b]
  /\ spilled' = IF Spills(buffer[c]) THEN spilled \cup {c} ELSE spilled
  /\ UNCHANGED <<castVars, subVars, pipeVars, inbox, reading, client, screen>>

\* run: after Stop, a last flush; then the batches are closed.
FlushLast(c) ==
  /\ buffer[c].stopped /\ ~buffer[c].closed
  /\ \E b \in IF buffer[c].latest = {} THEN {buffer[c]} ELSE Flushed(buffer[c]) :
       buffer' = [buffer EXCEPT ![c] = [b EXCEPT !.closed = TRUE]]
  /\ spilled' = IF buffer[c].latest # {} /\ Spills(buffer[c]) THEN spilled \cup {c} ELSE spilled
  /\ UNCHANGED <<castVars, subVars, pipeVars, inbox, reading, client, screen>>

-----------------------------------------------------------------------------
(* The consumers: runWatchWithDeps and handleEvents.                       *)

\* An event from eventCh: shown, or for the dashboard put into the buffer.
TakeEvent(c) ==
  /\ client[c] = "on" /\ inbox[c] # <<>>
  /\ LET n == Head(inbox[c]) IN
       IF c \in IsWeb /\ Received(c)[n].token
       THEN /\ buffer' = [buffer EXCEPT ![c] = Add(Received(c), @, n)]
            /\ UNCHANGED screen
       ELSE /\ screen' = [screen EXCEPT ![c] = Append(@, n)]
            /\ UNCHANGED buffer
  /\ inbox' = [inbox EXCEPT ![c] = Tail(@)]
  /\ UNCHANGED <<castVars, subVars, pipeVars, reading, client, spilled>>

\* A batch, while streaming or in drainBuffer.
TakeBatch(c) ==
  /\ client[c] \in {"on", "draining"} /\ buffer[c].out # <<>>
  /\ screen' = [screen EXCEPT ![c] = @ \o Head(buffer[c].out)]
  /\ buffer' = [buffer EXCEPT ![c].out = Tail(@)]
  /\ UNCHANGED <<castVars, subVars, pipeVars, inbox, reading, client, spilled>>

\* eventCh is closed: `tm watch` returns; the handler stops and drains its buffer.
TakeClosed(c) ==
  /\ client[c] = "on" /\ inbox[c] = <<>> /\ ~reading[c]
  /\ client' = [client EXCEPT ![c] = IF c \in IsWeb THEN "draining" ELSE "ended"]
  /\ buffer' = [buffer EXCEPT ![c].stopped = (c \in IsWeb)]
  /\ UNCHANGED <<castVars, subVars, pipeVars, inbox, reading, screen, spilled>>

Drained(c) ==
  /\ client[c] = "draining" /\ buffer[c].closed /\ buffer[c].out = <<>>
  /\ client' = [client EXCEPT ![c] = "ended"]
  /\ UNCHANGED <<castVars, subVars, pipeVars, inbox, reading, screenVars>>

\* Interrupt, a browser that went away, or a failed write to it: the
\* connection is closed and the buffer stopped.
Leave(c) ==
  /\ client[c] = "on"
  /\ client' = [client EXCEPT ![c] = "left"]
  /\ buffer' = [buffer EXCEPT ![c].stopped = (c \in IsWeb)]
  /\ UNCHANGED <<castVars, subVars, pipeVars, inbox, reading, screen, spilled>>

StreamNext ==
  \/ SweepSubscribers
  \/ \E b \in Caster :
       \/ BeginBroadcast(b)
       \/ \E c \in Client :
            \/ SetDeadline(b, c) \/ WriteEvent(b, c) \/ WriteFails(b, c)
            \/ ResetDeadline(b, c) \/ RemoveSub(b, c)
  \/ \E c \in Client :
       \/ AddSubscriber(c) \/ DropBacklog(c) \/ Subscribe(c)
       \/ ReadEvent(c) \/ ReadEnds(c) \/ FlushTick(c) \/ FlushLast(c)
       \/ TakeEvent(c) \/ TakeBatch(c) \/ TakeClosed(c) \/ Drained(c) \/ Leave(c)

-----------------------------------------------------------------------------

\* The broadcasts of b among the first i events written to c's connection.
Carried(c, b, i) == {stream[c][k][2] : k \in {k \in 1 .. i : stream[c][k][1] = b}}

\* What is written to a connection: of each goroutine its broadcasts since the
\* subscriber was registered, in order, each once and none left out, up to some
\* point; nothing at all is promised of the order of two goroutines' events.
\* Who is still registered has missed nothing but what is being written or has
\* just failed, and whose socket holds part of an event is about to be dropped.
WholeStream(c) ==
  /\ \A i \in DOMAIN stream[c] :
       LET b == stream[c][i][1] IN
         /\ Carried(c, b, i) = joined[c][b] + 1 .. stream[c][i][2]
         /\ stream[c][i][2] \notin Carried(c, b, i - 1)
  /\ c \in subs => IF scrap[c] = "none"
                   THEN \A b \in Caster : \A n \in joined[c][b] + 1 .. fed[b] :
                          \/ n \in Carried(c, b, Len(stream[c]))
                          \/ n = fed[b] /\ stage[b][c] \notin {"none", "sent"}
                   ELSE \E b \in Caster : stage[b][c] \in {"failed", "drop"}

\* Events of which a screen must not go back from one to the other.
Alike(feed, n, m) ==
  \/ feed[n].token /\ feed[m].token /\ feed[n].sess = feed[m].sess
  \/ ~feed[n].token /\ ~feed[m].token
OnScreen(list) == {list[i] : i \in DOMAIN list}

\* What a screen shows of it: for `tm watch` every event, in the order in which
\* they were written; for the dashboard every event that is no token_usage, and
\* of each session token_usage events that never go back in time.  A stream
\* that ended by itself has shown all that was written, of the dashboard's
\* token_usage events the last of each session, unless the buffer had to drop a
\* batch.
FaithfulScreen(c) ==
  LET shown == screen[c]  feed == Received(c) IN
  /\ OnScreen(shown) \subseteq DOMAIN feed
  /\ c \notin IsWeb => \A i \in DOMAIN shown : shown[i] = i
  /\ \A i, k \in DOMAIN shown : i < k /\ Alike(feed, shown[i], shown[k]) => shown[i] < shown[k]
  /\ \A n \in OnScreen(shown), m \in DOMAIN feed : m < n /\ ~feed[m].token => m \in OnScreen(shown)
  /\ client[c] = "ended" =>
       \A m \in DOMAIN feed :
         \/ m \in OnScreen(shown)
         \/ /\ c \in IsWeb /\ feed[m].token
            /\ c \in spilled \/ \E n \in OnScreen(shown) : Alike(feed, m, n) /\ m < n

\* From any goroutine's broadcast to any screen nothing is lost, repeated or put
\* in another order, but at the end of a stream that was cut off and in the
\* dashboard's buffer.
StreamFaithful == \A c \in Client : WholeStream(c) /\ FaithfulScreen(c)

=============================================================================
