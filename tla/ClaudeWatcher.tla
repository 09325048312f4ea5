--------------------------- MODULE ClaudeWatcher ---------------------------
(***************************************************************************)
(* The polling goroutine that reads the JSONL files of Claude sessions and *)
(* emits one token_usage event per usable line.  Its memory (offsets, the  *)
(* deduplicator) is lost when the process ends; token_usage is not.        *)
(* A message may be written twice: by the session itself and, replayed, by *)
(* a sidechain.  The deduplicator keeps the better candidate of a uuid and *)
(* deletes the row of the other one, past the queue that the row may still *)
(* be waiting in.                                                          *)
(***************************************************************************)
EXTENDS JsonLines, SequencesExt

CONSTANTS
  Log,         \* files ~/.claude/projects/*/<session>.jsonl
  Line,        \* what may be written: [kind, uuid, side, req, weight]
  NoUUID,      \* a line without uuid
  MaxLines,    \* bound: lines per file
  MaxUpset,    \* bound: truncations, months of silence, ends of the process,
               \* failed transactions and failed deletes in one behaviour
  CheckEvery,  \* lines between two looks at done (100)
  NoRow

ASSUME ClaudeAssumption ==
  /\ \A l \in Line : /\ l.kind \in {"usage", "other", "garbage"}
                     /\ l.side \in BOOLEAN /\ l.weight \in Nat
  /\ {MaxLines, MaxUpset} \subseteq Nat
  /\ CheckEvery \in Nat \ {0}
  /\ NoRow \notin Nat

VARIABLES
  text,      \* text[f]: the lines of f, the last one perhaps unfinished
  written,   \* written[f]: its size
  old,       \* files not modified for 30 days
  seen,      \* seen[f]: committed offset
  firstDone, \* initialScanDone
  byUUID,    \* tokenDeduper.byUUID
  pass,      \* what the polling goroutine is doing
  sent,      \* events on their way to token_usage
  rows,      \* token_usage: rows[s] is the weight of source s, or NoRow
  done,      \* Stop has closed w.done
  masked,    \* history: files rewritten since the watcher last noticed
  excused,   \* history: sources the deduplicator could not withdraw
  lostSrc,   \* history: sources of failed transactions
  upsets     \* how much of MaxUpset is used

claudeVars == <<text, written, old, seen, firstDone, byUUID, pass, sent, rows,
                done, masked, excused, lostSrc, upsets>>
diskVars == <<text, written, old>>

UUID == {l.uuid : l \in Line} \ {NoUUID}
SourceOf(f, l) == <<f, l.uuid, l.side, l.req>>
Source == {SourceOf(f, l) : f \in Log, l \in Line}
Candidate(f, l) == [source |-> SourceOf(f, l), side |-> l.side, weight |-> l.weight]
Candidates == {Candidate(f, l) : f \in Log, l \in Line}
NoCandidate == [source |-> <<>>, side |-> FALSE, weight |-> 0]
Resting == [pc |-> "idle"]

ClaudeTypeOK ==
  /\ text \in [Log -> BoundedSeq(Line, MaxLines)]
  /\ written \in [Log -> 0 .. 3 * MaxLines]
  /\ old \subseteq Log
  /\ seen \in [Log -> 0 .. 3 * MaxLines]
  /\ firstDone \in BOOLEAN
  /\ byUUID \in [UUID -> Candidates \cup {NoCandidate}]
  /\ pass.pc \in {"idle", "collect", "next", "read"}
  /\ \A i \in DOMAIN sent : sent[i] \in Candidates
  /\ rows \in [Source -> Nat \cup {NoRow}]
  /\ done \in BOOLEAN
  /\ masked \subseteq Log
  /\ excused \subseteq Source /\ lostSrc \subseteq Source
  /\ upsets \in 0 .. MaxUpset

ClaudeInit ==
  /\ text = [f \in Log |-> <<>>]
  /\ written = [f \in Log |-> 0]
  /\ old = {}
  /\ seen = [f \in Log |-> 0]
  /\ firstDone = FALSE
  /\ byUUID = [u \in UUID |-> NoCandidate]
  /\ pass = Resting
  /\ sent = <<>>
  /\ rows = [s \in Source |-> NoRow]
  /\ done = FALSE
  /\ masked = {}
  /\ excused = {}
  /\ lostSrc = {}
  /\ upsets = 0

Upset == upsets < MaxUpset /\ upsets' = upsets + 1

-----------------------------------------------------------------------------
(* The deduplicator.                                                       *)

Prefers(c, e) ==
  \/ e.side /\ ~c.side
  \/ e.side = c.side /\ c.weight > e.weight

WithoutSource(events, s) ==
  LET i == SelectInSeq(events, LAMBDA x : x.source = s)
  IN IF i = 0 THEN events ELSE RemoveAt(events, i)

\* Faulty variant: a better candidate is emitted, the stored one stays.
DedupAppendKeepsRow(d, f, l) ==
  LET c == Candidate(f, l) IN
  IF l.uuid = NoUUID THEN [d EXCEPT !.events = Append(@, c)]
  ELSE IF d.by[l.uuid] = NoCandidate \/ Prefers(c, d.by[l.uuid])
       THEN [d EXCEPT !.by[l.uuid] = c, !.events = Append(@, c)]
       ELSE d

\* claudeTokenDeduper.append: d.by and d.events afterwards, and d.gone, the
\* sources that are to be deleted from the database.
DedupAppend(d, f, l) ==
  LET c == Candidate(f, l)
      e == d.by[l.uuid]
      kept == [d.by EXCEPT ![l.uuid] = c]
      added == Append(d.events, c)
      inBuffer == \E i \in DOMAIN d.events : d.events[i].source = e.source
  IN CASE l.uuid = NoUUID -> [d EXCEPT !.events = added]
       [] l.uuid # NoUUID /\ e = NoCandidate -> [d EXCEPT !.by = kept, !.events = added]
       [] l.uuid # NoUUID /\ e # NoCandidate /\ ~c.side /\ ~e.side ->
            [d EXCEPT !.by = IF Prefers(c, e) THEN kept ELSE @, !.events = added]
       [] l.uuid # NoUUID /\ e # NoCandidate /\ (c.side \/ e.side) /\ Prefers(c, e) ->
            [by |-> kept,
             events |-> Append(WithoutSource(d.events, e.source), c),
             gone |-> IF inBuffer THEN {} ELSE {e.source}]
       [] OTHER -> d

Fresh == [by |-> [u \in UUID |-> NoCandidate], events |-> <<>>, gone |-> {}]

-----------------------------------------------------------------------------
(* Reading a file.                                                         *)

\* Faulty variant: a file that shrank is not read again.
GrownFiles == {f \in Log \ old : seen[f] < written[f]}

\* The files scanLogs makes jobs of.
ChangedFiles == {f \in Log \ old : seen[f] # written[f]}

\* processClaudeFileCollect, from the start of f: the offset behind the last
\* line that counts, and the events a deduplicator of its own lets through.
CollectFile(f) ==
  LET size == written[f]
      whole == 3 * (size \div 3)
      off == IF size = whole THEN size ELSE ReadLine(text[f], size, whole).to
      n == (off + 1) \div 3
      after[i \in 0 .. n] ==
        IF i = 0 THEN Fresh
        ELSE IF text[f][i].kind = "usage" THEN DedupAppend(after[i - 1], f, text[f][i])
        ELSE after[i - 1]
  IN [off |-> off, events |-> after[n].events]

-----------------------------------------------------------------------------
(* The polling goroutine.                                                  *)

\* scanLogs lists the files; the first scan hands them to workers.
ClaudeTick ==
  /\ pass.pc = "idle" /\ ~done
  /\ firstDone' = (firstDone \/ ChangedFiles = {})
  /\ pass' = CASE ChangedFiles = {} -> Resting
               [] ChangedFiles # {} /\ ~firstDone ->
                    [pc |-> "collect", todo |-> ChangedFiles, got |-> {}]
               [] OTHER -> [pc |-> "next", jobs |-> ChangedFiles]
  /\ UNCHANGED <<diskVars, seen, byUUID, sent, rows, done, masked, excused, lostSrc, upsets>>

\* scanParallel: a worker reads one file, or leaves when it sees done.
CollectOne(f) ==
  /\ pass.pc = "collect" /\ f \in pass.todo
  /\ LET c == CollectFile(f) IN
     pass' = IF done THEN [pass EXCEPT !.todo = {}]
             ELSE [pass EXCEPT !.todo = @ \ {f},
                               !.got = @ \cup {[file |-> f, off |-> c.off, events |-> c.events]}]
  /\ UNCHANGED <<diskVars, seen, firstDone, byUUID, sent, rows, done, masked, excused,
                 lostSrc, upsets>>

\* After wg.Wait: the results one by one; seen first, then the events.
TakeResult(r) ==
  /\ pass.pc = "collect" /\ pass.todo = {} /\ r \in pass.got
  /\ seen' = [seen EXCEPT ![r.file] = r.off]
  /\ sent' = IF done THEN sent ELSE sent \o r.events
  /\ excused' = IF done THEN excused
                ELSE excused \cup {r.events[i].source : i \in DOMAIN r.events}
  /\ pass' = [pass EXCEPT !.got = @ \ {r}]
  /\ UNCHANGED <<diskVars, firstDone, byUUID, rows, done, masked, lostSrc, upsets>>

FirstScanEnds ==
  /\ pass.pc = "collect" /\ pass.todo = {} /\ pass.got = {}
  /\ firstDone' = TRUE
  /\ pass' = Resting
  /\ UNCHANGED <<diskVars, seen, byUUID, sent, rows, done, masked, excused, lostSrc, upsets>>

\* The serial loop of scanLogs up to Open in processFile: a file smaller
\* than the offset is read again from its start.
OpenFile(f) ==
  /\ pass.pc = "next" /\ f \in pass.jobs /\ ~done
  /\ LET shrunk == seen[f] > 0 /\ written[f] < seen[f]
         from == IF shrunk THEN 0 ELSE seen[f]
     IN /\ seen' = [seen EXCEPT ![f] = from]
        /\ masked' = IF shrunk THEN masked \ {f} ELSE masked
        /\ pass' = IF written[f] = from THEN [pass EXCEPT !.jobs = @ \ {f}]
                   ELSE [pc |-> "read", file |-> f, jobs |-> pass.jobs \ {f},
                         off |-> from, n |-> 0, eof |-> FALSE, events |-> <<>>]
  /\ UNCHANGED <<diskVars, firstDone, byUUID, sent, rows, done, excused, lostSrc, upsets>>

EndOfRead == \/ pass.eof \/ pass.off >= written[pass.file]
             \/ done /\ pass.n % CheckEvery = 0

\* One round of the loop in processFile.  The delete reaches the database
\* at once; the event it makes room for is emitted after the last line.
ReadOne ==
  /\ pass.pc = "read" /\ ~EndOfRead
  /\ LET r == ReadLine(text[pass.file], written[pass.file], pass.off)
         before == [by |-> byUUID, events |-> pass.events, gone |-> {}]
         after == IF r.parsed /\ r.line.kind = "usage" THEN DedupAppend(before, pass.file, r.line) ELSE before
         waiting == {s \in after.gone : \E i \in DOMAIN sent : sent[i].source = s}
     IN /\ byUUID' = after.by
        /\ pass' = [pass EXCEPT !.off = r.to, !.n = @ + 1, !.eof = r.eof,
                                !.events = after.events]
        /\ \/ /\ rows' = [s \in Source |-> IF s \in after.gone THEN NoRow ELSE rows[s]]
              /\ excused' = excused \cup waiting
              /\ UNCHANGED upsets
           \/ /\ after.gone # {} /\ Upset
              /\ excused' = excused \cup after.gone
              /\ UNCHANGED rows
  /\ UNCHANGED <<diskVars, seen, firstDone, sent, done, masked, lostSrc>>

FinishFile ==
  /\ pass.pc = "read" /\ EndOfRead
  /\ seen' = [seen EXCEPT ![pass.file] = pass.off]
  /\ sent' = sent \o pass.events
  /\ pass' = [pc |-> "next", jobs |-> pass.jobs]
  /\ UNCHANGED <<diskVars, firstDone, byUUID, rows, done, masked, excused, lostSrc, upsets>>

PassEnds ==
  /\ pass.pc = "next" /\ (pass.jobs = {} \/ done)
  /\ pass' = Resting
  /\ UNCHANGED <<diskVars, seen, firstDone, byUUID, sent, rows, done, masked, excused,
                 lostSrc, upsets>>

StopClaude ==
  /\ ~done /\ Upset
  /\ done' = TRUE
  /\ UNCHANGED <<diskVars, seen, firstDone, byUUID, pass, sent, rows, masked, excused,
                 lostSrc>>

\* The process ends, by itself or by a crash, and a new one starts: memory
\* and what was not yet written are gone.
RestartClaude ==
  /\ \/ done /\ UNCHANGED upsets
     \/ ~done /\ Upset
  /\ seen' = [f \in Log |-> 0]
  /\ firstDone' = FALSE
  /\ byUUID' = [u \in UUID |-> NoCandidate]
  /\ pass' = Resting
  /\ sent' = <<>>
  /\ done' = FALSE
  /\ masked' = {}
  /\ excused' = excused \cup {s \in Source : rows[s] # NoRow}
  /\ UNCHANGED <<diskVars, rows, lostSrc>>

-----------------------------------------------------------------------------
(* Around it: the agent that writes the files, the pipeline behind emitFn. *)

WriteLine(f) ==
  /\ \E n \in written[f] + 1 .. 3 * LineAt(written[f]) :
       /\ n <= 3 * MaxLines
       /\ written' = [written EXCEPT ![f] = n]
  /\ IF written[f] % 3 = 0
     THEN \E l \in Line : text' = [text EXCEPT ![f] = Append(@, l)]
     ELSE UNCHANGED text
  /\ old' = old \ {f}
  /\ UNCHANGED <<seen, firstDone, byUUID, pass, sent, rows, done, masked, excused, lostSrc,
                 upsets>>

BeingRead(f) == \/ pass.pc = "collect" /\ \E r \in pass.got : r.file = f
                \/ pass.pc = "read" /\ pass.file = f

TruncateLog(f) ==
  /\ written[f] > 0 /\ Upset
  /\ text' = [text EXCEPT ![f] = <<>>]
  /\ written' = [written EXCEPT ![f] = 0]
  /\ old' = old \ {f}
  /\ masked' = IF seen[f] > 0 \/ BeingRead(f) THEN masked \cup {f} ELSE masked
  /\ UNCHANGED <<seen, firstDone, byUUID, pass, sent, rows, done, excused, lostSrc>>

AgeLog(f) ==
  /\ f \notin old /\ Upset
  /\ old' = old \cup {f}
  /\ UNCHANGED <<text, written, seen, firstDone, byUUID, pass, sent, rows, done, masked,
                 excused, lostSrc>>

\* A transaction of the BatchWriter over the first n events: INSERT OR
\* IGNORE by source, or a failure that discards them.
WriteBatch(n) ==
  /\ n <= Len(sent)
  /\ LET batch == SubSeq(sent, 1, n)
         first(s) == SelectInSeq(batch, LAMBDA x : x.source = s)
     IN \/ /\ rows' = [s \in Source |-> IF rows[s] = NoRow /\ first(s) # 0
                                        THEN batch[first(s)].weight ELSE rows[s]]
           /\ UNCHANGED <<lostSrc, upsets>>
        \/ /\ Upset
           /\ lostSrc' = lostSrc \cup {batch[i].source : i \in DOMAIN batch}
           /\ UNCHANGED rows
  /\ sent' = SubSeq(sent, n + 1, Len(sent))
  /\ UNCHANGED <<diskVars, seen, firstDone, byUUID, pass, done, masked, excused>>

-----------------------------------------------------------------------------

PollClaude ==
  \/ ClaudeTick
  \/ \E f \in Log : CollectOne(f)
  \/ pass.pc = "collect" /\ \E r \in pass.got : TakeResult(r)
  \/ FirstScanEnds
  \/ \E f \in Log : OpenFile(f)
  \/ ReadOne
  \/ FinishFile
  \/ PassEnds

ClaudeNext ==
  \/ PollClaude
  \/ StopClaude
  \/ RestartClaude
  \/ \E f \in Log : WriteLine(f)
  \/ \E f \in Log : TruncateLog(f)
  \/ \E f \in Log : AgeLog(f)
  \/ \E n \in 1 .. Len(sent) : WriteBatch(n)

-----------------------------------------------------------------------------

Counted == {s \in Source : rows[s] # NoRow} \cup lostSrc
           \cup {sent[i].source : i \in DOMAIN sent}
           \cup (IF pass.pc = "read" THEN {pass.events[i].source : i \in DOMAIN pass.events}
                 ELSE {})

\* No message falls between two scans: whatever lies below the committed
\* offset of a file was counted, a line of the session itself under its own
\* source, a sidechain line under its own or under one of the same message
\* that replaced it.  (Fragments at the end, shrunk files, deletes ahead of
\* the event that replaces them.)  A file rewritten to more than its old
\* length before the next scan is excepted: the watcher cannot tell.
CommittedIsCounted ==
  \A f \in Log \ masked : \A i \in DOMAIN text[f] :
    LET l == text[f][i] IN
    (~done /\ l.kind = "usage" /\ 3 * i - 1 <= seen[f])
       => \/ SourceOf(f, l) \in Counted
          \/ /\ l.side /\ l.uuid # NoUUID
             /\ \E s \in Counted : s[2] = l.uuid

\* A sidechain row that the deduplicator knows to be superseded is gone from
\* token_usage, unless it was out of its reach: stored by the first scan or
\* by an earlier process, still queued when it was deleted, or the delete
\* failed.
ReplaysYield ==
  \A s \in Source :
    (rows[s] # NoRow /\ s[3] /\ s[2] \in UUID /\ s \notin excused)
       => LET e == byUUID[s[2]] IN e = NoCandidate \/ e.source = s

CompleteUpTo(f) == IF written[f] % 3 = 1 THEN written[f] - 1 ELSE written[f]

\* Once the agents have written what they write, the watcher's offsets are
\* at the end of every file that is not too old, but for a fragment or a
\* line that is no object yet: no file is left behind for ever, unless the
\* process has been stopped for good.
CatchesUp ==
  <>[](\/ done
       \/ \A f \in Log \ old :
            \/ seen[f] = CompleteUpTo(f)
            \/ seen[f] = 3 * (LineAt(written[f]) - 1) /\ written[f] % 3 # 0)

=============================================================================
