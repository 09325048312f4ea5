----------------------------- MODULE MCWatchers -----------------------------
(***************************************************************************)
(* Both log watchers in one run.  They share neither files nor memory, so  *)
(* every behaviour is one of the Claude watcher or one of the Codex        *)
(* watcher, chosen at the start; the other one stands still.               *)
(***************************************************************************)
EXTENDS ClaudeWatcher, CodexWatcher, TLC

CONSTANTS u1, p1, p2, c1, m1

VARIABLE side  \* the watcher of this behaviour

\* Claude: a message, and two sidechain replays of it under two requests.
Message(replay, request, tokens) ==
  [kind |-> "usage", uuid |-> u1, side |-> replay, req |-> request, weight |-> tokens]
MCLine == {Message(FALSE, 1, 1), Message(TRUE, 1, 2), Message(TRUE, 2, 3)}

\* Codex: a session with a context before its totals, one whose total falls,
\* one with a tool call and usage of its own, one with an unreadable line, and
\* a parent whose first total a branch has copied.
Entry(type) == [kind |-> type]
Context == [kind |-> "context", model |-> m1]
Call == [kind |-> "call", id |-> c1]
Output(good) == [kind |-> "output", id |-> c1, ok |-> good]
Total(time, tokens) == [kind |-> "total", ts |-> time, total |-> tokens, model |-> NoModel]
Turn(time, tokens, sum) ==
  [kind |-> "last", ts |-> time, last |-> tokens, total |-> sum, model |-> NoModel]
Exec(time, tokens) == [kind |-> "exec", ts |-> time, n |-> tokens, model |-> NoModel]
Patch(good) == [kind |-> "patch", id |-> c1, ok |-> good]

MCSessOf == (p1 :> 1) @@ (p2 :> 2)
Alone(s) == (p1 :> s) @@ (p2 :> <<>>)
MCScenarios ==
  {Alone(<<Entry("meta"), Context, Total(1, 2), Total(2, 3)>>),
   Alone(<<Total(1, 2), Context, Total(2, 1), Exec(3, 1)>>),
   Alone(<<Entry("meta"), Call, Output(TRUE), Turn(3, 1, 4)>>),
   Alone(<<Entry("garbage"), Patch(TRUE), Output(FALSE)>>),
   (p1 :> <<Total(1, 2)>>) @@ (p2 :> <<Total(1, 2), Total(3, 5)>>)}
MCCopied == {(p1 :> <<Total(1, 2)>>) @@ (p2 :> <<Total(1, 2), Total(3, 5)>>)}

ASSUME MCHistories == Histories

vars == <<claudeVars, codexVars, side>>

Init ==
  /\ ClaudeInit
  /\ CodexInit
  /\ side \in {"claude", "codex"}
  /\ side = "claude" =>
       /\ script = CHOOSE s \in Scenarios : TRUE
       /\ where = (p1 :> "recent") @@ (p2 :> IF script[p2] = <<>> THEN "gone" ELSE "recent")

Next ==
  \/ side = "claude" /\ ClaudeNext /\ UNCHANGED <<codexVars, side>>
  \/ side = "codex" /\ CodexNext /\ UNCHANGED <<claudeVars, side>>

\* The Claude watcher's loop runs as long as its process does; nothing obliges
\* the agent to write, or the user to start a stopped process again.
PollsOn == side = "claude" /\ PollClaude /\ UNCHANGED <<codexVars, side>>

Spec == Init /\ [][Next]_vars /\ WF_vars(PollsOn)

TypeOK == ClaudeTypeOK /\ CodexTypeOK

=============================================================================
