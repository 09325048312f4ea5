-------------------------- MODULE MCDaemonPipeline --------------------------
(* Two watchers and one client connection; channels of one slot, so that   *)
(* every sender blocks at times, and a buffer of two, so that batches form.*)
EXTENDS DaemonPipeline

MCWatcher == {"claude", "codex"}
MCConn == {"hook"}

\* Tokens from all but codex: two of one watcher keep their order.
MCFeed == [p \in MCWatcher \cup MCConn |-> IF p = "claude" THEN 2 ELSE 1]
MCDirect == {<<"codex", 1>>}

\* The client too sends twice, and producers mix both kinds of events.
MCLongFeed == [p \in MCWatcher \cup MCConn |-> IF p = "codex" THEN 1 ELSE 2]
MCMixed == {<<"claude", 2>>, <<"hook", 1>>}
=============================================================================
