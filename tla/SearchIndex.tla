---------------------------- MODULE SearchIndex ----------------------------
(***************************************************************************)
(* The full-text index of tool calls and file changes.  Its rows are       *)
(* written by statements of their own after the rows they are about, by    *)
(* handlers of the daemon, removed with them by `tm clean`, and all made   *)
(* anew by whichever process opens the database and finds none.            *)
(***************************************************************************)
EXTENDS Integers, FiniteSets

CONSTANTS
  Item,      \* ids of tool calls; a file change has the id of the call it came with
  SessionOf, \* SessionOf[i]
  Text,      \* what params, results and paths may say, apart from nothing
  NoText,    \* the empty string, and no row of the index
  Handler,   \* goroutines of the daemon that handle events
  Daemon,    \* the processes that open the database: the daemon,
  Command,   \* and commands
  MaxSeen, MaxFailures  \* bounds: events, failing statements and crashes

ASSUME SearchAssumption ==
  /\ NoText \notin Text /\ Daemon \notin Command
  /\ {MaxSeen, MaxFailures} \subseteq Nat

Opener == Command \cup {Daemon}
Kinds == {"tool_param", "tool_result", "file"}
Key == Kinds \X Item

VARIABLES
  known,      \* sessions with a row
  callRows,   \* tool_calls
  changeRows, \* file_changes
  text,       \* text[k]: params_summary, result_summary, file_path
  found,      \* found[k]: the row of search_index
  stamped,    \* schema_version says that the index was made
  handler,    \* handler[g]: its event, and how far it is
  opener,     \* opener[p]: how far it is, and the rows it has loaded and not yet indexed;
              \* "blind" is a command that had to fall back to LIKE
  up,         \* the daemon: "down", "up", or "blind" when its searches fall back to LIKE
  excused,    \* history: keys two wrote at once, or whose writing was cut short or left
              \* out, or whose row was left behind
  seen, failures

rowVars == <<known, callRows, changeRows, text>>
searchVars == <<rowVars, found, stamped, handler, opener, up, excused, seen, failures>>

Free == [pc |-> "idle"]
Shut == [pc |-> "shut", todo |-> {}, rows |-> FALSE]
Blind == [Shut EXCEPT !.pc = "blind"]
TextsOf(ks) == {[key |-> k, text |-> text[k]] : k \in {k \in ks : text[k] # NoText}}

SearchTypeOK ==
  /\ callRows \subseteq Item /\ changeRows \subseteq Item
  /\ text \in [Key -> Text \cup {NoText}] /\ found \in [Key -> Text \cup {NoText}]
  /\ up \in {"down", "up", "blind"} /\ stamped \in BOOLEAN /\ excused \subseteq Key
  /\ \A g \in Handler : handler[g].pc \in {"idle", "act", "select", "index", "file"}
  /\ \A p \in Opener : opener[p].pc \in {"shut", "sources", "rows", "version", "delete", "tools",
                                         "fillTools", "files", "fillFiles", "stamp", "blind"}
  /\ seen \in 0 .. MaxSeen /\ failures \in 0 .. MaxFailures

\* A daemon at work on a new database, or one of an older version without
\* an index.
SearchInit ==
  /\ \/ /\ stamped = TRUE /\ up = "up" /\ known = {} /\ callRows = {} /\ changeRows = {}
        /\ text = [k \in Key |-> NoText]
     \/ /\ stamped = FALSE /\ up = "down" /\ known = {SessionOf[i] : i \in Item}
        /\ callRows = Item /\ changeRows = Item
        /\ \E t \in Text : text = [k \in Key |-> t]
  /\ found = [k \in Key |-> NoText] /\ excused = {}
  /\ handler = [g \in Handler |-> Free] /\ opener = [p \in Opener |-> Shut]
  /\ seen = 0 /\ failures = 0

-----------------------------------------------------------------------------
(* The daemon's handlers.                                                  *)

\* Who is about to write row k of the index.
AboutTo(k) ==
  {g \in Handler : handler[g].pc \in {"select", "index"} /\ handler[g].key = k}
  \cup {p \in Opener : \E row \in opener[p].todo : row.key = k}

Becomes(k, t) ==
  /\ text' = [text EXCEPT ![k] = t]
  /\ excused' = IF AboutTo(k) = {} /\ up # "blind" THEN excused ELSE excused \cup {k}

Handles(g, state) == handler' = [handler EXCEPT ![g] = state]
Then(g, pc, k) == Handles(g, [handler[g] EXCEPT !.pc = pc, !.key = k])

\* What follows the tool call of an event: its file, if it names one.
NextOf(e) == IF e.path # NoText THEN [e EXCEPT !.pc = "file"] ELSE Free

\* A daemon that had to fall back writes no index.
IndexNext(g, k, pc) ==
  IF up = "blind" THEN Handles(g, NextOf(handler[g])) ELSE Then(g, pc, k)

\* processEvent begins with the upsert of the session.
EventComes(g, what, i, t, path) ==
  /\ up # "down" /\ handler[g].pc = "idle" /\ seen < MaxSeen
  /\ what # "end" => path = NoText
  /\ seen' = seen + 1
  /\ known' = known \cup {SessionOf[i]}
  /\ Handles(g, [pc |-> "act", what |-> what, item |-> i, text |-> t, path |-> path,
                 key |-> <<"file", i>>])
  /\ UNCHANGED <<callRows, changeRows, text, found, stamped, opener, up, excused, failures>>

\* Faulty variant: the params of a repeated start are indexed.
CallStartsAgain(g) ==
  LET e == handler[g]
      k == <<"tool_param", e.item>>
  IN /\ e.pc = "act" /\ e.what = "start"
     /\ callRows' = callRows \cup {e.item}
     /\ IF e.item \in callRows THEN UNCHANGED <<text, excused>> ELSE Becomes(k, e.text)
     /\ IF e.text = NoText THEN Handles(g, NextOf(e)) ELSE IndexNext(g, k, "index")
     /\ UNCHANGED <<known, changeRows, found, stamped, opener, up, seen, failures>>

\* InsertToolCallStart: the first start of a call counts.
CallStarts(g) ==
  LET e == handler[g]
      k == <<"tool_param", e.item>>
  IN /\ e.pc = "act" /\ e.what = "start"
     /\ callRows' = callRows \cup {e.item}
     /\ IF e.item \in callRows THEN UNCHANGED <<text, excused>> ELSE Becomes(k, e.text)
     /\ IF e.item \in callRows \/ e.text = NoText THEN Handles(g, NextOf(e))
        ELSE IndexNext(g, k, "index")
     /\ UNCHANGED <<known, changeRows, found, stamped, opener, up, seen, failures>>

\* UpdateToolCallEnd: every end overwrites; an empty result leaves the index.
CallEnds(g) ==
  LET e == handler[g]
      k == <<"tool_result", e.item>>
  IN /\ e.pc = "act" /\ e.what = "end"
     /\ IF e.item \in callRows THEN Becomes(k, e.text) ELSE UNCHANGED <<text, excused>>
     /\ IF e.item \notin callRows \/ e.text = NoText THEN Handles(g, NextOf(e))
        ELSE Then(g, "select", k)
     /\ UNCHANGED <<known, callRows, changeRows, found, stamped, opener, up, seen, failures>>

\* The session of the call is looked up, and the call may be gone.
SelectCall(g) ==
  /\ handler[g].pc = "select"
  /\ IF handler[g].item \in callRows THEN IndexNext(g, handler[g].key, "index")
     ELSE Handles(g, Free)
  /\ UNCHANGED <<rowVars, found, stamped, opener, up, excused, seen, failures>>

\* IndexToolCallContent and IndexFileChange.
Index(g) ==
  LET e == handler[g]
  IN /\ e.pc = "index"
     /\ found' = [found EXCEPT ![e.key] = IF e.key[1] = "file" THEN e.path ELSE e.text]
     /\ Handles(g, IF e.key[1] = "file" THEN Free ELSE NextOf(e))
     /\ UNCHANGED <<rowVars, stamped, opener, up, excused, seen, failures>>

\* InsertFileChangeWithSource.
FileChanges(g) ==
  LET e == handler[g]
      k == <<"file", e.item>>
  IN /\ e.pc = "file"
     /\ changeRows' = changeRows \cup {e.item}
     /\ IF e.item \in changeRows \/ up = "blind" THEN Handles(g, Free) ELSE Then(g, "index", k)
     /\ IF e.item \in changeRows THEN UNCHANGED <<text, excused>> ELSE Becomes(k, e.path)
     /\ UNCHANGED <<known, callRows, found, stamped, opener, up, seen, failures>>

\* A statement fails, and the handler returns.
HandlerFails(g) ==
  /\ handler[g].pc # "idle" /\ failures < MaxFailures /\ failures' = failures + 1
  /\ Handles(g, Free)
  /\ excused' = excused \cup {k \in Key : g \in AboutTo(k)}
  /\ UNCHANGED <<rowVars, found, stamped, opener, up, seen>>

\* CleanOldSessions, one transaction of `tm clean`; becomes is the index after it.
CleanRows(s, becomes) ==
  LET gone == {k \in Key : SessionOf[k[2]] = s}
  IN /\ s \in known /\ known' = known \ {s}
     /\ callRows' = {i \in callRows : SessionOf[i] # s}
     /\ changeRows' = {i \in changeRows : SessionOf[i] # s}
     /\ text' = [k \in Key |-> IF k \in gone THEN NoText ELSE text[k]]
     /\ found' = becomes
     /\ excused' = (excused \ gone) \cup {k \in gone : AboutTo(k) # {} \/ becomes[k] # NoText}
     /\ UNCHANGED <<stamped, handler, up, seen, failures>>

Clean(s) ==
  /\ CleanRows(s, [k \in Key |-> IF SessionOf[k[2]] = s THEN NoText ELSE found[k]])
  /\ UNCHANGED opener

\* Where the opening of `tm clean` itself fell back, the index is left out.
CleanBlind(p, s) ==
  /\ opener[p].pc = "blind"
  /\ CleanRows(s, found)
  /\ opener' = [opener EXCEPT ![p] = Shut]

-----------------------------------------------------------------------------
(* backfillSearchIndexIfNeeded, at the end of every opening.               *)

OpenIndex(p) ==
  /\ opener[p].pc \in {"shut", "blind"} /\ (p = Daemon => up = "down")
  /\ seen < MaxSeen /\ seen' = seen + 1
  /\ opener' = [opener EXCEPT ![p].pc = "sources"]
  /\ UNCHANGED <<rowVars, found, stamped, handler, up, excused, failures>>

Finish(p) ==
  /\ opener' = [opener EXCEPT ![p] = Shut]
  /\ up' = IF p = Daemon THEN "up" ELSE up

Advance(p, pc) == opener' = [opener EXCEPT ![p].pc = pc] /\ UNCHANGED up

CountSources(p) ==
  /\ opener[p].pc = "sources"
  /\ Advance(p, IF \E k \in Key : text[k] # NoText THEN "rows" ELSE "stamp")
  /\ UNCHANGED <<rowVars, found, stamped, handler, excused, seen, failures>>

CountRows(p) ==
  /\ opener[p].pc = "rows"
  /\ opener' = [opener EXCEPT ![p].pc = "version", ![p].rows = \E k \in Key : found[k] # NoText]
  /\ UNCHANGED <<rowVars, found, stamped, handler, up, excused, seen, failures>>

ReadIndexVersion(p) ==
  /\ opener[p].pc = "version"
  /\ IF stamped /\ opener[p].rows THEN Finish(p) ELSE Advance(p, "delete")
  /\ UNCHANGED <<rowVars, found, stamped, handler, excused, seen, failures>>

\* Rows another is writing just now are lost with the rest, unless it is late.
DeleteIndex(p) ==
  /\ opener[p].pc = "delete"
  /\ found' = [k \in Key |-> NoText]
  /\ Advance(p, "tools")
  /\ UNCHANGED <<rowVars, stamped, handler, excused, seen, failures>>

LoadRows(p) ==
  /\ opener[p].pc \in {"tools", "files"}
  /\ LET tools == opener[p].pc = "tools"
         rows == TextsOf({k \in Key : (k[1] = "file") # tools})
     IN opener' = [opener EXCEPT ![p].pc = IF tools THEN "fillTools" ELSE "fillFiles",
                                 ![p].todo = rows]
  /\ UNCHANGED <<rowVars, found, stamped, handler, up, excused, seen, failures>>

FillRow(p) ==
  /\ \E row \in opener[p].todo :
       /\ found' = [found EXCEPT ![row.key] = row.text]
       /\ opener' = [opener EXCEPT ![p].todo = @ \ {row}]
  /\ UNCHANGED <<rowVars, stamped, handler, up, excused, seen, failures>>

Filled(p) ==
  /\ opener[p].todo = {} /\ opener[p].pc \in {"fillTools", "fillFiles"}
  /\ Advance(p, IF opener[p].pc = "fillTools" THEN "files" ELSE "stamp")
  /\ UNCHANGED <<rowVars, found, stamped, handler, excused, seen, failures>>

Stamp(p) ==
  /\ opener[p].pc = "stamp" /\ stamped' = TRUE /\ Finish(p)
  /\ UNCHANGED <<rowVars, found, handler, excused, seen, failures>>

\* What it had deleted and not made anew stays away.
LeftBy(p) ==
  CASE opener[p].pc \in {"tools", "fillTools", "files", "fillFiles"} -> Key
    [] OTHER -> {}

\* A statement fails: this process searches with LIKE.
OpenerFails(p) ==
  /\ opener[p].pc \notin {"shut", "blind"} /\ failures < MaxFailures /\ failures' = failures + 1
  /\ opener' = [opener EXCEPT ![p] = IF p = Daemon THEN Shut ELSE Blind]
  /\ up' = IF p = Daemon THEN "blind" ELSE up
  /\ excused' = excused \cup LeftBy(p)
  /\ UNCHANGED <<rowVars, found, stamped, handler, seen>>

\* The daemon dies.
Killed ==
  /\ failures < MaxFailures /\ failures' = failures + 1
  /\ up' = "down"
  /\ handler' = [g \in Handler |-> Free]
  /\ opener' = [opener EXCEPT ![Daemon] = Shut]
  /\ excused' = excused \cup LeftBy(Daemon)
                    \cup {k \in Key : \E g \in Handler : g \in AboutTo(k)}
  /\ UNCHANGED <<rowVars, found, stamped, seen>>

SearchNext ==
  \/ \E g \in Handler, what \in {"start", "end"}, i \in Item, t \in Text \cup {NoText},
        path \in Text \cup {NoText} : EventComes(g, what, i, t, path)
  \/ \E g \in Handler : \/ CallStarts(g) \/ CallEnds(g) \/ SelectCall(g) \/ Index(g)
                        \/ FileChanges(g) \/ HandlerFails(g)
  \/ \E i \in Item : Clean(SessionOf[i]) \/ \E p \in Command : CleanBlind(p, SessionOf[i])
  \/ \E p \in Opener : \/ OpenIndex(p) \/ CountSources(p) \/ CountRows(p) \/ ReadIndexVersion(p)
                       \/ DeleteIndex(p) \/ LoadRows(p) \/ FillRow(p) \/ Filled(p) \/ Stamp(p)
                       \/ OpenerFails(p)
  \/ Killed

-----------------------------------------------------------------------------
\* searchHitsLike looks into the rows, searchHitsFTS into the index; both for
\* sessions that have a row.
HitsLike == {k \in Key : text[k] # NoText /\ SessionOf[k[2]] \in known}
HitsFTS == {k \in Key : found[k] # NoText /\ SessionOf[k[2]] \in known}

\* There is an index, it is not being made, and nobody is between the two
\* statements of k.
Settled(k) == stamped /\ AboutTo(k) = {} /\ \A p \in Opener : opener[p].pc \in {"shut", "blind"}

\* Both ways to search find the same texts, whatever was repeated, cleaned or
\* indexed anew in between, except for what two wrote at once or nobody wrote
\* to the end, what a daemon without an index wrote, what a `tm clean` without
\* one left behind, and the result of a call that ended again without one.
SearchesAgree ==
  \A k \in Key \ excused :
    Settled(k) =>
      \/ (k \in HitsLike) = (k \in HitsFTS) /\ (k \in HitsLike => found[k] = text[k])
      \/ k[1] = "tool_result" /\ k[2] \in callRows /\ text[k] = NoText
=============================================================================
