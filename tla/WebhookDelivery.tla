--------------------------- MODULE WebhookDelivery ---------------------------
(***************************************************************************)
(* How an alarm reaches an endpoint.  While the retry loop runs, deliveries*)
(* pass through a bounded queue to a goroutine each, which posts, waits and*)
(* posts again; afterwards a delivery is posted once, by a goroutine nobody*)
(* waits for.  Stop waits for the goroutines of the queue, and then posts  *)
(* a last delivery of its own.                                             *)
(***************************************************************************)
EXTENDS SequencesExt

CONSTANTS
  Delivery,     \* events for one endpoint, in the order they are dispatched
  MaxAttempts,  \* MaxAttempts[d]: what its endpoint configures, or 0
  Notices,      \* those of ReloadConfig, which runs even while Stop does
  HookQueueCap, \* capacity of d.webhookQueue (1024)
  LastWord      \* the delivery of daemon_lost_events

ASSUME WebhookAssumption ==
  /\ MaxAttempts \in [Delivery -> Nat]
  /\ HookQueueCap \in Nat \ {0}
  /\ Notices \subseteq Delivery
  /\ LastWord \in Delivery \ Notices

VARIABLES
  job,       \* job[d]: where the delivery is
  posts,     \* posts[d]: how often its endpoint was asked
  hookQueue, \* d.webhookQueue
  retryLoop, \* d.webhookRetryRunning
  sweeping,  \* a sweep that may dispatch is running (it counts in d.bgWG)
  hookStop,  \* what Stop is doing
  deadLog    \* webhooks-failed.log

hookVars == <<job, posts, hookQueue, retryLoop, sweeping, hookStop, deadLog>>

\* normalizedRetryPolicy.
Attempts(d) == IF MaxAttempts[d] > 0 THEN MaxAttempts[d] ELSE 3

doneClosed == hookStop # "running"
Counted == {"trying", "waiting"}          \* deliverWebhookWithRetry, in d.bgWG
Alive == Counted \cup {"direct", "last"}  \* still posting

WebhookTypeOK ==
  /\ job \in [Delivery -> {"new", "choosing", "queued", "trying", "waiting", "direct", "last",
                           "sent", "failed", "dropped", "lost"}]
  /\ \A d \in Delivery : posts[d] \in 0 .. Attempts(d)
  /\ \A i \in DOMAIN hookQueue : hookQueue[i] \in Delivery
  /\ Len(hookQueue) <= HookQueueCap
  /\ retryLoop \in BOOLEAN /\ sweeping \in BOOLEAN
  /\ hookStop \in {"running", "waiting", "telling", "stopped", "gone"}
  /\ \A i \in DOMAIN deadLog : deadLog[i] \in Delivery

WebhookInit ==
  /\ job = [d \in Delivery |-> "new"]
  /\ posts = [d \in Delivery |-> 0]
  /\ hookQueue = <<>>
  /\ retryLoop = TRUE
  /\ sweeping = TRUE
  /\ hookStop = "running"
  /\ deadLog = <<>>

Move(d, state) == job' = [job EXCEPT ![d] = state]

\* dispatchWebhookEvent looks whether the loop runs; if not, the delivery gets
\* a goroutine that posts it once.
Dispatch(d) ==
  /\ job[d] = "new" /\ d # LastWord
  /\ sweeping \/ d \in Notices
  /\ hookStop # "gone"
  /\ Move(d, IF retryLoop THEN "choosing" ELSE "direct")
  /\ UNCHANGED <<posts, hookQueue, retryLoop, sweeping, hookStop, deadLog>>

\* enqueueWebhook, perhaps after the loop has returned.  select takes any ready
\* case: a queue with room or the closed done; with neither, default drops.
Enqueue(d) ==
  /\ job[d] = "choosing"
  /\ \/ /\ Len(hookQueue) < HookQueueCap
        /\ hookQueue' = Append(hookQueue, d)
        /\ Move(d, "queued")
     \/ /\ doneClosed \/ Len(hookQueue) = HookQueueCap
        /\ Move(d, "dropped")
        /\ UNCHANGED hookQueue
  /\ UNCHANGED <<posts, retryLoop, sweeping, hookStop, deadLog>>

\* The sweeps see done between two dispatches.
SweepsEnd ==
  /\ sweeping /\ doneClosed
  /\ \A d \in Delivery \ Notices : job[d] # "choosing"
  /\ sweeping' = FALSE
  /\ UNCHANGED <<job, posts, hookQueue, retryLoop, hookStop, deadLog>>

\* webhookRetryLoop: a goroutine for the next delivery.
TakeDelivery ==
  /\ retryLoop /\ hookQueue # <<>>
  /\ Move(Head(hookQueue), "trying")
  /\ hookQueue' = Tail(hookQueue)
  /\ UNCHANGED <<posts, retryLoop, sweeping, hookStop, deadLog>>

\* webhookRetryLoop sees done; what is queued stays there.
LoopReturns ==
  /\ retryLoop /\ doneClosed
  /\ retryLoop' = FALSE
  /\ UNCHANGED <<job, posts, hookQueue, sweeping, hookStop, deadLog>>

\* PostWebhook is answered with a status of 2xx.
Accepted(d) ==
  /\ job[d] \in {"trying", "direct", "last"}
  /\ posts' = [posts EXCEPT ![d] = @ + 1]
  /\ Move(d, "sent")
  /\ UNCHANGED <<hookQueue, retryLoop, sweeping, hookStop, deadLog>>

\* Faulty variant: the attempts are counted from nought.
RefusedOnceMore(d) ==
  /\ job[d] = "trying"
  /\ posts' = [posts EXCEPT ![d] = @ + 1]
  /\ Move(d, IF posts[d] < Attempts(d) THEN "waiting" ELSE "failed")
  /\ UNCHANGED <<hookQueue, retryLoop, sweeping, hookStop, deadLog>>

\* PostWebhook fails.  After the last attempt the delivery goes to the
\* dead-letter file, if that can be written; a direct post has one attempt and
\* no dead letter.
Refused(d) ==
  /\ job[d] \in {"trying", "direct", "last"}
  /\ posts' = [posts EXCEPT ![d] = @ + 1]
  /\ \/ /\ job[d] # "direct" /\ posts[d] + 1 < Attempts(d)
        /\ Move(d, IF job[d] = "last" THEN "last" ELSE "waiting")
        /\ UNCHANGED deadLog
     \/ /\ job[d] # "direct" /\ posts[d] + 1 = Attempts(d)
        /\ Move(d, "failed")
        /\ deadLog' \in {deadLog, Append(deadLog, d)}
     \/ /\ job[d] = "direct"
        /\ Move(d, "failed")
        /\ UNCHANGED deadLog
  /\ UNCHANGED <<hookQueue, retryLoop, sweeping, hookStop>>

\* The timer between two attempts.
BackoffElapses(d) ==
  /\ job[d] = "waiting"
  /\ Move(d, "trying")
  /\ UNCHANGED <<posts, hookQueue, retryLoop, sweeping, hookStop, deadLog>>

\* stop is closed between two attempts: no further one, and no dead letter.
GivesUp(d) ==
  /\ job[d] = "waiting" /\ doneClosed
  /\ Move(d, "dropped")
  /\ UNCHANGED <<posts, hookQueue, retryLoop, sweeping, hookStop, deadLog>>

StopBegins ==
  /\ hookStop = "running"
  /\ hookStop' = "waiting"
  /\ UNCHANGED <<job, posts, hookQueue, retryLoop, sweeping, deadLog>>

\* Faulty variant: a delivery's goroutine does not count in d.bgWG.
WaitForLoops ==
  /\ hookStop = "waiting" /\ ~retryLoop /\ ~sweeping
  /\ \/ hookStop' = "stopped" /\ UNCHANGED job
     \/ hookStop' = "telling" /\ Move(LastWord, "last")
  /\ UNCHANGED <<posts, hookQueue, retryLoop, sweeping, deadLog>>

\* d.bgWG.Wait returns; if events were lost, Stop posts that, in its own
\* goroutine and with nothing to stop its retries.
WaitForDeliveries ==
  /\ hookStop = "waiting" /\ ~retryLoop /\ ~sweeping
  /\ \A d \in Delivery : job[d] \notin Counted
  /\ \/ hookStop' = "stopped" /\ UNCHANGED job
     \/ hookStop' = "telling" /\ Move(LastWord, "last")
  /\ UNCHANGED <<posts, hookQueue, retryLoop, sweeping, deadLog>>

StopReturns ==
  /\ hookStop = "telling" /\ job[LastWord] # "last"
  /\ hookStop' = "stopped"
  /\ UNCHANGED <<job, posts, hookQueue, retryLoop, sweeping, deadLog>>

\* The process exits: direct posts and the queue go with it.
ProcessExits ==
  /\ hookStop = "stopped" /\ hookStop' = "gone"
  /\ job' = [d \in Delivery |-> IF job[d] \in {"choosing", "queued", "direct"} THEN "lost" ELSE job[d]]
  /\ hookQueue' = <<>>
  /\ UNCHANGED <<posts, retryLoop, sweeping, deadLog>>

WebhookNext ==
  \/ \E d \in Delivery : \/ Dispatch(d) \/ Enqueue(d) \/ Accepted(d)
                         \/ Refused(d) \/ BackoffElapses(d) \/ GivesUp(d)
  \/ SweepsEnd \/ TakeDelivery \/ LoopReturns
  \/ StopBegins \/ WaitForDeliveries \/ StopReturns \/ ProcessExits

-----------------------------------------------------------------------------

\* A delivery ends once: accepted, after at most the configured attempts; or
\* in the dead-letter file, after all of them; or dropped, and then only by a
\* full queue or the shutdown.  When Stop has returned, nothing that went
\* through the queue still posts or writes the dead-letter file.
DeliveryDecided ==
  /\ \A d \in Delivery : job[d] = "failed" => posts[d] \in {1, Attempts(d)}
  /\ \A i \in DOMAIN deadLog : /\ job[deadLog[i]] = "failed"
                               /\ posts[deadLog[i]] = Attempts(deadLog[i])
  /\ IsInjective(deadLog)
  /\ \A d \in Delivery : job[d] = "queued" <=> d \in {hookQueue[i] : i \in DOMAIN hookQueue}
  /\ ~doneClosed => \A d \in Delivery :
       /\ job[d] \notin {"lost", "direct", "last"}
       /\ job[d] = "dropped" => posts[d] = 0
  /\ hookStop \in {"telling", "stopped", "gone"} =>
       \A d \in Delivery : job[d] \in Alive => (d = LastWord /\ hookStop = "telling") \/ job[d] = "direct"

=============================================================================
