---------------------------- MODULE AgentReaders ----------------------------
(***************************************************************************)
(* How a report reads what other agents left on disk.  Nothing of it is    *)
(* stored: every report reads the files or databases anew, turns each      *)
(* record into a usage entry, drops what is outside its window and, for    *)
(* some agents, what it has seen already.  The first part is one reader    *)
(* per agent; the second is the disk they read, where agents write and     *)
(* revise, and users copy directories that are then searched twice.        *)
(*                                                                         *)
(* A number a record lacks is 0, a text it lacks NoModel or NoId.          *)
(***************************************************************************)
EXTENDS SequencesExt

CONSTANTS
  Agent,        \* agents of this instance
  RootList,     \* directories to search, in order, without those that do not exist
  Usages,       \* what a message may use: [fresh, cached, created, out, think, tool]
  NoModel, NoId,
  Models,       \* names of models
  KimiDefault,  \* kimi-for-coding
  KimiCutoff,   \* when its price changed
  KimiPrices,   \* <<before, since>>
  ProjectOf,    \* (root, file) |-> the project Pi takes from the path
  MaxMessages, MaxNow, MaxEvents  \* bounds; events are copies, revisions, long lines

ASSUME ReadersAssumption ==
  /\ Agent \subseteq {"amp", "codebuff", "copilot", "droid", "gemini", "goose", "hermes", "kilo",
                     "kimi", "openclaw", "opencode", "pi", "qwen"}
  /\ \A i, j \in DOMAIN RootList : RootList[i] = RootList[j] => i = j
  /\ NoModel \notin Models /\ KimiDefault \in Models
  /\ Usages \subseteq [fresh : Nat, cached : Nat, created : Nat, out : Nat, think : Nat, tool : Nat]
  /\ MaxNow \in Nat \ {0} /\ {MaxMessages, MaxEvents} \subseteq Nat

VARIABLES
  agent,   \* whose files these are
  home,    \* the root it writes below
  form,    \* how it says what was used
  disk,    \* disk[r][f]: [rows, mtime] of file f below root r
  now,
  sent,    \* messages so far
  events

readerVars == <<agent, home, form, disk, now, sent, events>>

Root == {RootList[i] : i \in DOMAIN RootList}
AgentFile == {1, 2}

-----------------------------------------------------------------------------
(* What the readers share.                                                 *)

Counts(row) == [in |-> row.in, out |-> row.out, cc |-> row.cc, cr |-> row.cr]
Sum(bag) == bag.in + bag.out + bag.cc + bag.cr
FirstOf(first, second, missing) == IF first = missing THEN second ELSE first
Known(ts, mtime) == FirstOf(ts, mtime, 0)

\* A total stands in for counts that are all missing.
OrTotal(bag, total) == IF Sum(bag) = 0 THEN [bag EXCEPT !.out = total] ELSE bag

\* Reasoning is shown as output.
WithThinking(bag, n) == [bag EXCEPT !.out = @ + n]

\* The two at once, where the total includes the reasoning.
ThinkingOrTotal(bag, total, think) ==
  WithThinking(OrTotal(bag, IF total > think THEN total - think ELSE 0), think)

\* Faulty variant: an input that was cached to the last token is kept.
DisjointIfSmaller(bag) == [bag EXCEPT !.in = IF bag.cr >= @ THEN @ ELSE @ - bag.cr]

\* The cached part of the input is not counted again.
Disjoint(bag) == [bag EXCEPT !.in = IF bag.cr >= @ THEN 0 ELSE @ - bag.cr]

Usage(row, ts, model, bag, cost) ==
  [in |-> bag.in, out |-> bag.out, cc |-> bag.cc, cr |-> bag.cr,
   sess |-> row.sess, ts |-> ts, model |-> model, cost |-> cost,
   id |-> row.id, of |-> row.msg, truth |-> row.truth, real |-> row.real]

If(condition, entry) == IF condition THEN <<entry>> ELSE <<>>
Each(rows, Read(_)) == FlattenSeq([i \in DOMAIN rows |-> Read(rows[i])])

\* A scanner gives up at a line over its limit, and the file with it.
Lines(file) == IF \E i \in DOMAIN file.rows : file.rows[i].kind = "long" THEN <<>> ELSE file.rows

\* Everything below the roots, in order; Read(r, f) are the entries of a file.
Everywhere(Read(_, _)) ==
  FlattenSeq([i \in DOMAIN RootList |-> Read(RootList[i], 1) \o Read(RootList[i], 2)])

HalfOpen(e, since, until) == (since = 0 \/ e.ts >= since) /\ (until = 0 \/ e.ts < until)
Closed(e, since, until) == (since = 0 \/ e.ts >= since) /\ (until = 0 \/ e.ts <= until)

\* The first of each key.
Distinct(entries, Key(_)) ==
  FoldLeft(LAMBDA kept, e : IF \E i \in DOMAIN kept : Key(kept[i]) = Key(e)
                            THEN kept ELSE Append(kept, e), <<>>, entries)
InTimeOrder(entries) == SortSeq(entries, LAMBDA a, b : a.ts < b.ts)

-----------------------------------------------------------------------------
(* Amp: a thread is one document; its ledger, if it has one, goes before   *)
(* the usage of its messages, which then give only the cache counts.       *)

AmpCache(rows, id) ==
  LET own == SelectSeq(rows, LAMBDA row : row.kind = "usage" /\ row.id = id)
  IN IF own = <<>> THEN [cc |-> 0, cr |-> 0] ELSE [cc |-> Last(own).cc, cr |-> Last(own).cr]

AmpEvent(row, rows) ==
  LET cache == AmpCache(rows, row.id)
      bag == OrTotal([Counts(row) EXCEPT !.cc = cache.cc, !.cr = cache.cr], row.total)
  IN If(row.ts # 0 /\ row.model # NoModel /\ Sum(bag) > 0, Usage(row, row.ts, row.model, bag, 0))

AmpMessage(row) ==
  LET bag == OrTotal(Counts(row), row.total)
  IN If(row.ts # 0 /\ row.model # NoModel /\ Sum(bag) > 0, Usage(row, row.ts, row.model, bag, 0))

AmpThread(r, f) ==
  LET rows == disk[r][f].rows
      ledger == SelectSeq(rows, LAMBDA row : row.kind = "event")
      messages == SelectSeq(rows, LAMBDA row : row.kind = "usage")
  IN IF ledger = <<>> THEN Each(messages, AmpMessage)
     ELSE Each(ledger, LAMBDA row : AmpEvent(row, rows))

LoadAmp(since, until) ==
  InTimeOrder(SelectSeq(Everywhere(AmpThread), LAMBDA e : HalfOpen(e, since, until)))

-----------------------------------------------------------------------------
(* Codebuff: two usage objects per message, the first one goes before.     *)

CodebuffMerge(row) ==
  [n \in {"in", "out", "cc", "cr", "total", "cost"} |-> IF row[n] > 0 THEN row[n] ELSE row.alt[n]]

CodebuffMessage(row, mtime) ==
  LET merged == CodebuffMerge(row)
      bag == OrTotal(Counts(merged), merged.total)
  IN If(row.kind = "usage" /\ (Sum(bag) > 0 \/ merged.cost > 0),
        Usage(row, Known(row.ts, mtime), row.model, bag, merged.cost))

CodebuffChat(r, f) == Each(disk[r][f].rows, LAMBDA row : CodebuffMessage(row, disk[r][f].mtime))
CodebuffKey(e) == <<e.sess, e.ts, e.model, Counts(e), e.cost>>

LoadCodebuff(since, until) ==
  InTimeOrder(Distinct(SelectSeq(Everywhere(CodebuffChat), LAMBDA e : HalfOpen(e, since, until)),
                       CodebuffKey))

-----------------------------------------------------------------------------
(* Copilot: telemetry spans whose input includes what was cached.          *)

CopilotSpan(row, mtime) ==
  LET bag == ThinkingOrTotal(Disjoint(Counts(row)), row.total, row.think)
  IN If(row.kind = "usage" /\ Sum(bag) > 0,
        Usage(row, Known(row.ts, mtime), row.model, bag, 0))

CopilotFile(r, f) == Each(Lines(disk[r][f]), LAMBDA row : CopilotSpan(row, disk[r][f].mtime))

LoadCopilot(since, until) ==
  InTimeOrder(SelectSeq(Everywhere(CopilotFile), LAMBDA e : HalfOpen(e, since, until)))

-----------------------------------------------------------------------------
(* Droid: one settings file per session with its running counts; of the    *)
(* copies of a session the latest is kept.                                 *)

DroidSession(row, mtime) ==
  LET bag == OrTotal(WithThinking(Counts(row), row.think), row.total)
  IN If(Sum(bag) > 0 /\ row.model # NoModel,
        Usage(row, Known(row.ts, mtime), row.model, bag, 0))

DroidSettings(r, f) == Each(disk[r][f].rows, LAMBDA row : DroidSession(row, disk[r][f].mtime))

LatestOfSession(kept, e) ==
  LET old == {i \in DOMAIN kept : kept[i].sess = e.sess}
  IN IF old = {} THEN Append(kept, e)
     ELSE [i \in DOMAIN kept |-> IF i \in old /\ e.ts > kept[i].ts THEN e ELSE kept[i]]

LoadDroid(since, until) ==
  InTimeOrder(FoldLeft(LatestOfSession, <<>>,
                       SelectSeq(Everywhere(DroidSettings), LAMBDA e : Closed(e, since, until))))

-----------------------------------------------------------------------------
(* Gemini: file 1 is a .jsonl of events, where a later event replaces one  *)
(* of the same id; file 2 a .json document of messages or of statistics.   *)

GeminiBag(row, overlapping) ==
  LET inclusive == row.in + row.out + row.think + row.tool
      counts == IF overlapping \/ (row.cr > 0 /\ row.total = inclusive)
                THEN Disjoint(Counts(row)) ELSE Counts(row)
  IN ThinkingOrTotal([counts EXCEPT !.in = @ + row.tool], row.total, row.think)

GeminiEvent(row, model, mtime) ==
  LET bag == GeminiBag(row, FALSE)
      name == FirstOf(row.model, model, NoModel)
  IN If(name # NoModel /\ Sum(bag) > 0, Usage(row, Known(row.ts, mtime), name, bag, 0))

\* Statistics: per model, or for all of them under the model last named.
GeminiStats(row, model, mtime) ==
  LET bag == GeminiBag(row, TRUE)
  IN If(Sum(bag) > 0,
        Usage(row, Known(row.ts, mtime), FirstOf(row.model, model, NoModel), bag, 0))

\* Faulty variant: a later event of a message is one more.
GeminiLineBeside(acc, row, mtime) ==
  LET model == FirstOf(row.model, acc.model, NoModel)
      read == CASE row.kind = "usage" -> GeminiEvent(row, model, mtime)
                [] row.kind = "stats" -> GeminiStats(row, model, mtime)
                [] OTHER -> <<>>
  IN [model |-> model, out |-> acc.out \o read]

GeminiLine(acc, row, mtime) ==
  LET model == FirstOf(row.model, acc.model, NoModel)
      read == CASE row.kind = "usage" -> GeminiEvent(row, model, mtime)
                [] row.kind = "stats" -> GeminiStats(row, model, mtime)
                [] OTHER -> <<>>
      same == {i \in DOMAIN acc.out : row.kind = "usage" /\ row.id # NoId /\ acc.out[i].id = row.id}
  IN [model |-> model,
      out |-> IF read # <<>> /\ same # {}
              THEN [i \in DOMAIN acc.out |-> IF i \in same THEN Head(read) ELSE acc.out[i]]
              ELSE acc.out \o read]

GeminiEvents(file) ==
  FoldLeft(LAMBDA acc, row : GeminiLine(acc, row, file.mtime),
           [model |-> NoModel, out |-> <<>>], Lines(file)).out

GeminiDocument(file) ==
  IF file.rows # <<>> /\ Head(file.rows).kind = "stats"
  THEN GeminiStats(Head(file.rows), NoModel, file.mtime)
  ELSE Each(SelectSeq(file.rows, LAMBDA row : row.kind = "usage"),
            LAMBDA row : GeminiEvent(row, NoModel, file.mtime))

GeminiFile(r, f) == IF f = 1 THEN GeminiEvents(disk[r][f]) ELSE GeminiDocument(disk[r][f])

LoadGemini(since, until) ==
  InTimeOrder(SelectSeq(Everywhere(GeminiFile), LAMBDA e : HalfOpen(e, since, until)))

-----------------------------------------------------------------------------
(* Goose and Hermes: one database row per session, with running counts.    *)

GooseRow(row) ==
  LET prefer(n) == IF row.alt[n] > 0 THEN row.alt[n] ELSE row[n]
      parts == prefer("in") + prefer("out")
      rest == IF prefer("total") > parts THEN prefer("total") - parts ELSE 0
      bag == [in |-> prefer("in"), out |-> prefer("out") + rest, cc |-> 0, cr |-> 0]
  IN If(row.model # NoModel /\ row.ts # 0 /\ Sum(bag) > 0, Usage(row, row.ts, row.model, bag, 0))

HermesRow(row) ==
  LET bag == WithThinking(Counts(row), row.think)
      cost == IF row.cost > 0 THEN row.cost ELSE row.alt.cost
  IN If(row.model # NoModel /\ row.ts # 0 /\ (Sum(bag) > 0 \/ cost > 0),
        Usage(row, row.ts, row.model, bag, cost))

\* Entries of a database, marked with its path; the key is the path and Key(e).
Database(r, f, Read(_)) == Each(disk[r][f].rows, LAMBDA row : Each(Read(row), LAMBDA e : <<[path |-> <<r, f>>] @@ e>>))
PathAndSession(e) == <<e.path, e.sess>>

LoadGoose(since, until) ==
  InTimeOrder(Distinct(SelectSeq(Everywhere(LAMBDA r, f : Database(r, f, GooseRow)),
                                 LAMBDA e : Closed(e, since, until)), PathAndSession))

LoadHermes(since, until) ==
  InTimeOrder(Distinct(SelectSeq(Everywhere(LAMBDA r, f : Database(r, f, HermesRow)),
                                 LAMBDA e : Closed(e, since, until)), PathAndSession))

-----------------------------------------------------------------------------
(* Kilo: one row per message; its key leaves out the model and the reads,  *)
(* and begins with the path of the database: a remount under another path  *)
(* does not collapse, whatever the comment above the key says.             *)

KiloMessage(row) ==
  LET bag == OrTotal(WithThinking(Counts(row), row.think), row.total)
  IN If(row.kind = "usage" /\ row.model # NoModel /\ row.ts # 0 /\ Sum(bag) > 0,
        Usage(row, row.ts, row.model, bag, row.cost))

KiloKey(e) == <<e.path, e.sess, e.ts, e.in, e.out, e.cc>>

LoadKilo(since, until) ==
  InTimeOrder(Distinct(SelectSeq(Everywhere(LAMBDA r, f : Database(r, f, KiloMessage)),
                                 LAMBDA e : Closed(e, since, until)), KiloKey))

-----------------------------------------------------------------------------
(* Kimi: status updates; the model is the one configured for the root.     *)

KimiCost(model, ts, bag) ==
  IF model = KimiDefault THEN Sum(bag) * KimiPrices[IF ts < KimiCutoff THEN 1 ELSE 2] ELSE 0

KimiUpdate(row) ==
  LET bag == OrTotal(Counts(row), row.total)
  IN If(row.kind = "usage" /\ Sum(bag) > 0 /\ row.ts # 0,
        Usage(row, row.ts, KimiDefault, bag, KimiCost(KimiDefault, row.ts, bag)))

KimiWire(r, f) == Each(Lines(disk[r][f]), KimiUpdate)
KimiKey(e) == <<e.sess, e.model, e.ts, Counts(e)>>

LoadKimi(since, until) ==
  InTimeOrder(Distinct(SelectSeq(Everywhere(KimiWire), LAMBDA e : Closed(e, since, until)), KimiKey))

-----------------------------------------------------------------------------
(* OpenClaw: a message without a model has the one last changed to.        *)

OpenClawMessage(row, model, mtime) ==
  LET bag == OrTotal(Counts(row), row.total)
  IN If(row.kind = "usage" /\ Sum(bag) > 0,
        Usage(row, Known(row.ts, mtime), FirstOf(row.model, model, NoModel), bag, row.cost))

OpenClawLine(acc, row, mtime) ==
  IF row.kind = "model" THEN [acc EXCEPT !.model = FirstOf(row.model, @, NoModel)]
  ELSE [acc EXCEPT !.out = @ \o OpenClawMessage(row, acc.model, mtime)]

OpenClawFile(r, f) ==
  FoldLeft(LAMBDA acc, row : OpenClawLine(acc, row, disk[r][f].mtime),
           [model |-> NoModel, out |-> <<>>], Lines(disk[r][f])).out

OpenClawKey(e) == <<e.sess, e.ts, e.model, Counts(e), e.cost>>

LoadOpenClaw(since, until) ==
  InTimeOrder(Distinct(SelectSeq(Everywhere(OpenClawFile), LAMBDA e : HalfOpen(e, since, until)),
                       OpenClawKey))

-----------------------------------------------------------------------------
(* OpenCode: file 1 is the database, file 2 the documents it replaces.     *)

OpenCodeMessage(row) ==
  LET bag == OrTotal(Counts(row), row.total)
  IN If(row.model # NoModel /\ Sum(bag) > 0, Usage(row, row.ts, row.model, bag, row.cost))

OpenCodeStore(r, f) == Each(disk[r][f].rows, OpenCodeMessage)
OpenCodeKey(e) == IF e.id # NoId THEN <<e.id>> ELSE <<e.sess, e.model, e.ts, Counts(e)>>

LoadOpenCode(since, until) ==
  InTimeOrder(Distinct(SelectSeq(Everywhere(OpenCodeStore), LAMBDA e : Closed(e, since, until)),
                       OpenCodeKey))

-----------------------------------------------------------------------------
(* Pi and Qwen: one line per message.                                      *)

PiMessage(row) ==
  LET bag == OrTotal(Counts(row), row.total)
  IN If(row.kind = "usage" /\ row.ts # 0 /\ Sum(bag) > 0,
        Usage(row, row.ts, row.model, bag, row.cost))

\* The project is what comes after the first "sessions" of the path.
PiFile(r, f) ==
  Each(Lines(disk[r][f]),
       LAMBDA row : Each(PiMessage(row), LAMBDA e : <<[project |-> ProjectOf[<<r, f>>]] @@ e>>))

\* Faulty variant: a copy below another root is the message itself, whatever
\* the path to it.
PiKeyAnywhere(e) == <<e.sess, e.ts, e.model, Counts(e), e.cost>>

PiKey(e) == <<e.project, e.sess, e.ts, e.model, Counts(e), e.cost>>

LoadPi(since, until) ==
  InTimeOrder(Distinct(SelectSeq(Everywhere(PiFile), LAMBDA e : HalfOpen(e, since, until)), PiKey))

QwenLine(row, mtime) ==
  LET bag == ThinkingOrTotal(Counts(row), row.total, row.think)
  IN If(row.kind = "usage" /\ Sum(bag) > 0,
        Usage(row, Known(row.ts, mtime), row.model, bag, 0))

QwenChat(r, f) == Each(Lines(disk[r][f]), LAMBDA row : QwenLine(row, disk[r][f].mtime))
QwenKey(e) == <<e.sess, e.ts, e.model, e.in, e.out, e.cr>>

LoadQwen(since, until) ==
  InTimeOrder(Distinct(SelectSeq(Everywhere(QwenChat), LAMBDA e : HalfOpen(e, since, until)), QwenKey))

-----------------------------------------------------------------------------
\* RunAdapter.
Load(since, until) ==
  CASE agent = "amp" -> LoadAmp(since, until)
    [] agent = "codebuff" -> LoadCodebuff(since, until)
    [] agent = "copilot" -> LoadCopilot(since, until)
    [] agent = "droid" -> LoadDroid(since, until)
    [] agent = "gemini" -> LoadGemini(since, until)
    [] agent = "goose" -> LoadGoose(since, until)
    [] agent = "hermes" -> LoadHermes(since, until)
    [] agent = "kilo" -> LoadKilo(since, until)
    [] agent = "kimi" -> LoadKimi(since, until)
    [] agent = "openclaw" -> LoadOpenClaw(since, until)
    [] agent = "opencode" -> LoadOpenCode(since, until)
    [] agent = "pi" -> LoadPi(since, until)
    [] agent = "qwen" -> LoadQwen(since, until)

-----------------------------------------------------------------------------
(* The agents, as their readers expect them: which counts a record tells   *)
(* apart, in which of its forms, and whether it always has a stamp, a      *)
(* model, or grows.                                                        *)

ThinksApart == {"copilot", "droid", "gemini", "goose", "hermes", "kilo", "qwen"}
PerSession == {"droid", "goose", "hermes"}
Growing == PerSession \cup {"opencode", "gemini"}
Unstamped == {"codebuff", "copilot", "droid", "gemini", "openclaw", "qwen"}
ByLine == {"copilot", "gemini", "kimi", "openclaw", "pi", "qwen"}

Fits(u) ==
  /\ agent \in {"gemini", "goose", "qwen"} => u.created = 0
  /\ agent = "goose" => u.cached = 0
  /\ agent \notin ThinksApart => u.think = 0
  /\ agent # "gemini" => u.tool = 0
  /\ form = "total" /\ agent \in {"droid", "kilo"} => u.think = 0

Forms ==
  CASE agent = "copilot" -> {"inclusive", "total"}
    [] agent = "gemini" -> {"parts", "both", "inclusive", "total"}
    [] agent = "goose" -> {"both", "total"}
    [] agent = "hermes" -> {"parts"}
    [] OTHER -> {"parts", "both", "total"}

UsedTokens(u) == u.fresh + u.cached + u.created + u.out + u.think + u.tool

Nothing == [in |-> 0, out |-> 0, cc |-> 0, cr |-> 0, total |-> 0, cost |-> 0]
Bag(u) ==
  IF form = "total" THEN [Nothing EXCEPT !.total = UsedTokens(u)]
  ELSE [in |-> u.fresh + (IF form = "inclusive" THEN u.cached ELSE 0), out |-> u.out,
        cc |-> u.created, cr |-> u.cached, cost |-> 0,
        total |-> IF form = "parts" THEN 0 ELSE UsedTokens(u)]

\* Codebuff says it in two places, Goose beside what the last turn used.
Main(bag) ==
  CASE agent = "codebuff" /\ form = "parts" -> [bag EXCEPT !.cc = 0, !.cr = 0]
    [] agent = "goose" -> [n \in DOMAIN bag |-> IF bag[n] > 0 THEN 1 ELSE 0]
    [] OTHER -> bag

Row(m, f, u, ts, model, real) ==
  LET main == Main(Bag(u)) IN
  [kind |-> "usage", msg |-> m, id |-> m, sess |-> IF agent \in PerSession THEN m ELSE f,
   ts |-> ts, model |-> model, alt |-> Bag(u), truth |-> UsedTokens(u), real |-> real,
   tool |-> IF form = "total" THEN 0 ELSE u.tool,
   think |-> IF agent = "goose" THEN 0 ELSE u.think,
   in |-> main.in, out |-> main.out, cc |-> main.cc, cr |-> main.cr, total |-> main.total,
   cost |-> main.cost]

Mark(kind, model) ==
  [kind |-> kind, msg |-> 0, id |-> NoId, sess |-> 0, ts |-> 0, model |-> model, alt |-> Nothing,
   truth |-> 0, real |-> model, tool |-> 0, think |-> 0, in |-> 0, out |-> 0, cc |-> 0, cr |-> 0,
   total |-> 0, cost |-> 0]

\* An Amp thread with a ledger: the event, and the message with the cache counts.
Ledger(row) ==
  <<[row EXCEPT !.kind = "event", !.cc = 0, !.cr = 0], row>>

\* The model a record without one is about.
InForce(rows) ==
  LET named == SelectSeq(rows, LAMBDA row : /\ row.model # NoModel
                                            /\ agent = "openclaw" => row.kind = "model")
  IN IF named = <<>> THEN NoModel ELSE Last(named).model

Names(f) ==
  IF agent \notin {"gemini", "openclaw"} THEN {KimiDefault}
  ELSE Models \cup (IF InForce(disk[home][f].rows) # NoModel /\ (agent = "gemini" => f = 1)
                    THEN {NoModel} ELSE {})

Append2(f, rows) ==
  disk' = [disk EXCEPT ![home][f] = [rows |-> @.rows \o rows, mtime |-> now']]

\* The agent records a message; a Gemini document of statistics holds nothing else.
Write(f, u, stamped, model, gap) ==
  LET old == disk[home][f].rows
      row == Row(sent + 1, f, u, IF stamped THEN now' ELSE 0, model,
                 IF model = NoModel THEN InForce(old) ELSE model)
  IN /\ sent < MaxMessages /\ now + gap <= MaxNow
     /\ Fits(u)
     /\ \A i \in DOMAIN old : old[i].kind # "stats"
     /\ now' = now + gap
     /\ sent' = sent + 1
     /\ Append2(f, IF agent = "amp" /\ f = 1 THEN Ledger(row) ELSE <<row>>)
     /\ UNCHANGED <<agent, home, form, events>>

\* Gemini's statistics: an input that includes what was cached.
WriteStatistics(u) ==
  /\ agent = "gemini" /\ form = "inclusive" /\ Fits(u)
  /\ sent < MaxMessages /\ disk[home][2].rows = <<>>
  /\ sent' = sent + 1
  /\ \E model \in Models :
       disk' = [disk EXCEPT ![home][2] =
                  [rows |-> <<[Row(sent + 1, 2, u, 0, model, model) EXCEPT !.kind = "stats"]>>,
                   mtime |-> now]]
  /\ UNCHANGED <<agent, home, form, now, events>>

\* OpenClaw goes on with another model.
ChangeModel(f, model) ==
  /\ agent = "openclaw" /\ events < MaxEvents
  /\ events' = events + 1 /\ now' = now
  /\ Append2(f, <<Mark("model", model)>>)
  /\ UNCHANGED <<agent, home, form, sent>>

\* A message or a session has used more: its record is replaced, or, in a
\* .jsonl of Gemini, followed by one of the same id.
Revise(f, i, u) ==
  LET old == disk[home][f].rows[i]
      row == [Row(old.msg, f, u, old.ts, old.model, old.real) EXCEPT !.sess = old.sess]
  IN /\ agent \in Growing /\ old.kind = "usage" /\ events < MaxEvents
     /\ Fits(u) /\ UsedTokens(u) > old.truth
     /\ events' = events + 1 /\ now' = now
     /\ IF agent = "gemini" /\ f = 1 THEN Append2(f, <<row>>)
        ELSE disk' = [disk EXCEPT ![home][f].rows[i] = row, ![home][f].mtime = now]
     /\ UNCHANGED <<agent, home, form, sent>>

\* A record longer than a scanner takes.
Overlong(f) ==
  /\ agent \in ByLine /\ (agent = "gemini" => f = 1)
  /\ events < MaxEvents
  /\ events' = events + 1 /\ now' = now
  /\ Append2(f, <<Mark("long", NoModel)>>)
  /\ UNCHANGED <<agent, home, form, sent>>

\* The user copies a file below another of the roots.
Copy(f, r, mtime) ==
  /\ r # home /\ events < MaxEvents
  /\ disk[home][f].rows # <<>>
  /\ events' = events + 1
  /\ disk' = [disk EXCEPT ![r][f] = [rows |-> disk[home][f].rows, mtime |-> mtime]]
  /\ UNCHANGED <<agent, home, form, now, sent>>

ReadersInit ==
  /\ agent \in Agent /\ home \in Root /\ form \in Forms
  /\ disk = [r \in Root |-> [f \in AgentFile |-> [rows |-> <<>>, mtime |-> 0]]]
  /\ now = 1 /\ sent = 0 /\ events = 0

ReadersNext ==
  \/ \E f \in AgentFile, u \in Usages, gap \in {0, 1} :
       \E stamped \in (IF agent \in Unstamped THEN BOOLEAN ELSE {TRUE}), model \in Names(f) :
         Write(f, u, stamped, model, gap)
  \/ \E u \in Usages : WriteStatistics(u)
  \/ \E f \in AgentFile, model \in Models : ChangeModel(f, model)
  \/ \E f \in AgentFile, u \in Usages :
       \E i \in DOMAIN disk[home][f].rows : Revise(f, i, u)
  \/ \E f \in AgentFile : Overlong(f)
  \/ \E f \in AgentFile, r \in Root : \E mtime \in {disk[home][f].mtime, now} : Copy(f, r, mtime)

ReadersTypeOK ==
  /\ agent \in Agent /\ home \in Root /\ form \in Forms
  /\ now \in 1..MaxNow /\ sent \in 0..MaxMessages /\ events \in 0..MaxEvents
  /\ \A r \in Root, f \in AgentFile :
       /\ disk[r][f].mtime \in 0..now
       /\ \A i \in DOMAIN disk[r][f].rows : disk[r][f].rows[i].msg \in 0..sent

-----------------------------------------------------------------------------
\* What a reader makes of one record; the model in force, which two of them
\* carry from line to line, is the one the agent had in mind.
EntryOf(rec, mtime) ==
  CASE agent = "amp" -> AmpMessage(rec)
    [] agent = "codebuff" -> CodebuffMessage(rec, mtime)
    [] agent = "copilot" -> CopilotSpan(rec, mtime)
    [] agent = "droid" -> DroidSession(rec, mtime)
    [] agent = "gemini" -> IF rec.kind = "stats" THEN GeminiStats(rec, rec.real, mtime)
                           ELSE GeminiEvent(rec, rec.real, mtime)
    [] agent = "goose" -> GooseRow(rec)
    [] agent = "hermes" -> HermesRow(rec)
    [] agent = "kilo" -> KiloMessage(rec)
    [] agent = "kimi" -> KimiUpdate(rec)
    [] agent = "openclaw" -> OpenClawMessage(rec, rec.real, mtime)
    [] agent = "opencode" -> OpenCodeMessage(rec)
    [] agent = "pi" -> PiMessage(rec)
    [] agent = "qwen" -> QwenLine(rec, mtime)

\* Agents write one usage down as parts, as a total, as both, or with a part
\* inside another, and go over it again.  Of each record of a message its reader
\* makes an entry that counts every token used once, under the model in force,
\* and leaves out none where something was used.
RecordsFaithful ==
  \A r \in Root, f \in AgentFile : \A i \in DOMAIN disk[r][f].rows :
    LET rec == disk[r][f].rows[i]
        read == EntryOf(rec, disk[r][f].mtime)
    IN rec.kind \in {"usage", "stats"} =>
         /\ rec.truth > 0 => Len(read) = 1
         /\ \A k \in DOMAIN read : Sum(read[k]) = rec.truth /\ read[k].model = rec.real

\* The readers that know a message again.
Deduplicating == {"codebuff", "droid", "kimi", "openclaw", "opencode", "qwen"}
ClosedAtEnd == {"droid", "goose", "hermes", "kilo", "kimi", "opencode"}

\* The files that can be read and hold message m.
Written(m) ==
  {x \in Root \X AgentFile : \E i \in DOMAIN Lines(disk[x[1]][x[2]]) : disk[x[1]][x[2]].rows[i].msg = m}

\* What one entry is made of a message for: nothing but the message itself, the
\* project its copy lies in, or the file that holds it.
Deduplicated(m) ==
  LET files == Written(m)
  IN CASE agent = "pi" -> {ProjectOf[x] : x \in files}
       [] agent \in Deduplicating -> {m : x \in files}
       [] OTHER -> files

\* Stamped by the agent, as are the others of its session, at other times.
ToldApart(m) ==
  LET rows == UNION {ToSet(disk[r][f].rows) : r \in Root, f \in AgentFile}
      own == {row \in rows : row.msg = m}
  IN \A a \in own : a.ts # 0 /\ \A b \in rows \ own : b.sess = a.sess => b.ts \notin {0, a.ts}

(***************************************************************************)
(* Whatever form a record has, its entry carries the tokens that were used *)
(* and the model in force; a message is one entry however often it was     *)
(* copied and revised, or one per project it lies in for Pi, and one per   *)
(* file for the readers without a key and those whose key holds the path   *)
(* (as Kilo's does, though kilo.go:94-98 says that a remount collapses);   *)
(* and two reports up to and from the same instant share nothing and miss  *)
(* nothing, except that six readers give an entry at that very instant to  *)
(* both.  (Droid is left out of the last part: it looks for the latest     *)
(* copy among those inside the window.)                                    *)
(***************************************************************************)
AdaptersFaithful ==
  LET all == Load(0, 0)
  IN /\ \A e \in ToSet(all) : Sum(e) = e.truth /\ e.model = e.real
     /\ \A m \in 1..sent : ToldApart(m) =>
          Len(SelectSeq(all, LAMBDA e : e.of = m)) = Cardinality(Deduplicated(m))
     /\ agent # "droid" => \A b \in 1..now :
          Len(Load(0, b)) + Len(Load(b, 0))
            = Len(all) + (IF agent \in ClosedAtEnd
                          THEN Len(SelectSeq(all, LAMBDA e : e.ts = b)) ELSE 0)

=============================================================================
