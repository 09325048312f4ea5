---------------------------- MODULE HookSettings ----------------------------
(***************************************************************************)
(* ~/.claude/settings.json belongs to the user and to Claude Code; tm reads*)
(* it, adds its hooks or takes them out, and writes the whole file again:  *)
(* on `tm setup`, whenever a daemon or a dashboard starts, on `tm          *)
(* uninstall` and on `tm doctor --fix`.  Nothing is locked, and the file   *)
(* is truncated before it is written.                                      *)
(***************************************************************************)
EXTENDS Integers, Sequences, FiniteSets

CONSTANTS
  Caller,     \* runs of tm
  CommandOf,  \* CommandOf[p]: the emit command for the binary of p
  Ours,       \* commands that isTokenMeterEmitCommand knows, of older binaries too
  Verbatim,   \* commands that read "tm emit" in the file: others have a quote in between
  HookEvent,  \* tokenmeterHookNames
  Shapes,     \* hooks a user may have: of each event, entries, which are sets of commands
  Odd,        \* a value that is not a list
  NoSettings, \* no settings
  Chapters,   \* what else the settings may say; saying tm emit, too:
  Quoting,
  MaxCallers, MaxMoves  \* bounds: runs of tm; edits of the user, kills and unreadable files

Hooks == [HookEvent -> {Odd} \cup Seq(SUBSET STRING)]
Commands == {CommandOf[p] : p \in Caller}
Settings ==
  [ok : BOOLEAN, hooks : Hooks, text : Chapters \cup {NoSettings},
   by : Commands \cup {"user", "nobody", "out"}]

\* Odd is no list and NoSettings no file; no command reads like the marks
\* below of what has written a file; and nobody has hooked the command of a
\* binary tokenmeter does not know twice to one event.
ASSUME SettingsAssumption ==
  /\ NoSettings \notin Chapters /\ Quoting \subseteq Chapters
  /\ Verbatim \subseteq Ours
  /\ Shapes \subseteq Hooks /\ Odd \notin Seq(SUBSET STRING)
  /\ NoSettings \notin Settings
  /\ Commands \subseteq STRING \ {"user", "nobody", "out"}
  /\ \A c \in Commands \ Ours, s \in Shapes, h \in HookEvent :
       s[h] # Odd => \A i, j \in DOMAIN s[h] : c \in s[h][i] \cap s[h][j] => i = j
  /\ {MaxCallers, MaxMoves} \subseteq Nat

VARIABLES
  dir,    \* ~/.claude exists
  file,   \* settings.json, or NoSettings
  bak,    \* settings.json.bak
  run,    \* run[p]: the step p is about to take, and what it is going to write
  mine,   \* history: what the user has last saved, or NoSettings
  marred, \* history: somebody wrote over an edit, could not read, or was killed while writing
  moves, started

settingsVars == <<dir, file, bak, run, mine, marred, moves, started>>

\* A file: is it valid JSON; its hooks; the rest; and, history, what left it so.
Valid(hooks, text, by) == [ok |-> TRUE, hooks |-> hooks, text |-> text, by |-> by]
NoHooks == [h \in HookEvent |-> <<>>]
Empty == Valid(NoHooks, NoSettings, "out")
Torn == [ok |-> FALSE, hooks |-> NoHooks, text |-> NoSettings, by |-> "nobody"]
Broken(f) == [f EXCEPT !.ok = FALSE, !.by = "nobody"]

Entries(v) == IF v = Odd THEN <<>> ELSE v
CommandsAt(f, h) == UNION {Entries(f.hooks[h])[i] : i \in DOMAIN Entries(f.hooks[h])}

\* What is the user's in a file: what no run of tm has put there.
Emitting == Ours \cup Commands
OfUser(f) ==
  IF f = NoSettings THEN NoSettings
  ELSE [text |-> f.text, hooks |-> [h \in HookEvent |-> CommandsAt(f, h) \ Emitting]]
OwnNothing == OfUser(Empty)

NoRun == [at |-> "idle"]
RunSteps == {"idle", "peek", "read", "truncate", "write", "remove", "check", "backup"}

SettingsTypeOK ==
  /\ dir \in BOOLEAN /\ marred \in BOOLEAN
  /\ file # NoSettings => dir /\ file.ok \in BOOLEAN /\ file.text \in Chapters \cup {NoSettings}
  /\ \A p \in Caller : run[p].at \in RunSteps
  /\ moves \in 0 .. MaxMoves /\ started \in 0 .. MaxCallers

SettingsInit ==
  /\ dir \in BOOLEAN
  /\ \/ file = NoSettings
     \/ dir /\ \E s \in Shapes, t \in Chapters : file = Valid(s, t, "user")
  /\ mine = OfUser(file)
  /\ bak = NoSettings
  /\ run = [p \in Caller |-> NoRun]
  /\ marred = FALSE /\ moves = 0 /\ started = 0

-----------------------------------------------------------------------------
(* What is done to the hooks.                                              *)

\* removeTokenMeterHook: in every entry; one that has nothing left goes.
removeTokenMeterHook(v) ==
  LET filtered[i \in 0 .. Len(v)] ==
        IF i = 0 THEN <<>>
        ELSE IF v[i] \subseteq Ours THEN filtered[i - 1]
        ELSE Append(filtered[i - 1], v[i] \ Ours)
  IN IF v = Odd THEN Odd ELSE filtered[Len(v)]

\* addHookEntry: unless the very command is there.
addHookEntry(v, c) ==
  IF v = Odd THEN <<{c}>>
  ELSE IF \E i \in DOMAIN v : c \in v[i] THEN v
  ELSE Append(v, {c})

\* Faulty variant: the hooks of another binary stay.
InstallBeside(f, c) ==
  Valid([h \in HookEvent |-> addHookEntry(f.hooks[h], c)], f.text, c)

Install(f, c) ==
  Valid([h \in HookEvent |-> addHookEntry(removeTokenMeterHook(f.hooks[h]), c)], f.text, c)

Uninstall(f) ==
  Valid([h \in HookEvent |-> removeTokenMeterHook(f.hooks[h])], f.text, "out")

\* strings.Contains looks at the whole file.
Mentions(f) == f.text \in Quoting \/ \E h \in HookEvent : CommandsAt(f, h) \cap Verbatim # {}

\* tokenMeterHookEventSet.
hookEventSet(f) == {h \in HookEvent : CommandsAt(f, h) \cap Ours # {}}

-----------------------------------------------------------------------------

Proceeds(p, step) == run' = [run EXCEPT ![p] = [@ EXCEPT !.at = step]]
Ends(p) == run' = [run EXCEPT ![p] = NoRun]

\* One goes on to write out, having read what the user had there.
WillWrite(p, out, then) ==
  run' = [run EXCEPT ![p] = [at |-> "truncate", out |-> out, read |-> mine, then |-> then]]

\* A daemon or a dashboard starts, or one of the three commands is called.
\* ensureHooksInstalled does nothing where there is no Claude Code.
Begin(p) ==
  /\ run[p].at = "idle" /\ started < MaxCallers /\ started' = started + 1
  /\ \/ dir /\ run' = [run EXCEPT ![p] = [at |-> "peek"]]
     \/ \E what \in {"read", "remove", "check"} : run' = [run EXCEPT ![p] = [at |-> what]]
  /\ UNCHANGED <<dir, file, bak, mine, marred, moves>>

\* A file that cannot be read counts as one without hooks.
Peek(p) ==
  /\ run[p].at = "peek"
  /\ IF file # NoSettings /\ Mentions(file) THEN Ends(p) ELSE Proceeds(p, "read")
  /\ UNCHANGED <<dir, file, bak, mine, marred, moves, started>>

\* installHooks refuses what is not JSON; no file is no settings.
ReadToInstall(p) ==
  /\ run[p].at = "read"
  /\ IF file # NoSettings /\ ~file.ok THEN Ends(p)
     ELSE WillWrite(p, Install(IF file = NoSettings THEN Empty ELSE file, CommandOf[p]), "idle")
  /\ UNCHANGED <<dir, file, bak, mine, marred, moves, started>>

\* Any other error of ReadFile is taken for no file, too.
ReadFails(p) ==
  /\ run[p].at = "read" /\ file # NoSettings /\ moves < MaxMoves /\ moves' = moves + 1
  /\ WillWrite(p, Install(Empty, CommandOf[p]), "idle")
  /\ marred' = TRUE
  /\ UNCHANGED <<dir, file, bak, mine, started>>

\* runUninstall passes over what it cannot read.
ReadToUninstall(p) ==
  /\ run[p].at = "remove"
  /\ IF file = NoSettings \/ ~file.ok THEN Ends(p) ELSE WillWrite(p, Uninstall(file), "idle")
  /\ UNCHANGED <<dir, file, bak, mine, marred, moves, started>>

\* The checks of doctor, and which fix they lead to.  Where no hook is left,
\* two fixes install one after the other: the second is a setup of its own.
Check(p) ==
  /\ run[p].at = "check"
  /\ IF file = NoSettings \/ ~file.ok THEN Proceeds(p, "backup")
     ELSE IF hookEventSet(file) = HookEvent THEN Ends(p)
     ELSE Proceeds(p, "read")
  /\ UNCHANGED <<dir, file, bak, mine, marred, moves, started>>

\* Its fix for what is no JSON: it is copied, and settings are begun anew.
BackupAndReset(p) ==
  /\ run[p].at = "backup"
  /\ bak' = IF file = NoSettings THEN bak ELSE file
  /\ marred' = (marred \/ (file # NoSettings /\ bak # NoSettings) \/ file = Torn)
  /\ IF dir THEN WillWrite(p, Empty, "read") ELSE Ends(p)
  /\ UNCHANGED <<dir, file, mine, moves, started>>

\* What the user has is in one of the two files.
Kept(f, b) ==
  \/ mine \in {OfUser(f), OfUser(b)}
  \/ mine = NoSettings /\ f # NoSettings /\ OfUser(f) = OwnNothing

\* os.WriteFile truncates what is there by now.
Truncate(p) ==
  /\ run[p].at = "truncate"
  /\ dir' = TRUE
  /\ file' = Torn
  /\ marred' = (marred \/ run[p].read # mine)
  /\ Proceeds(p, "write")
  /\ UNCHANGED <<bak, mine, moves, started>>

\* And writes, over what another has written since: the end of that may stay.
WriteSettings(p) ==
  /\ run[p].at = "write"
  /\ file' \in IF file = Torn THEN {run[p].out} ELSE {run[p].out, Broken(run[p].out)}
  /\ marred' = (marred \/ run[p].read # mine)
  /\ IF run[p].then = "idle" THEN Ends(p) ELSE run' = [run EXCEPT ![p] = [at |-> run[p].then]]
  /\ UNCHANGED <<dir, bak, mine, moves, started>>

\* Ctrl-C, a crash, a full disk.
RunDies(p) ==
  /\ run[p].at # "idle" /\ moves < MaxMoves /\ moves' = moves + 1
  /\ marred' = (marred \/ run[p].at = "write")
  /\ Ends(p)
  /\ UNCHANGED <<dir, file, bak, mine, started>>

\* The user or Claude Code saves the file: with another text, without one of
\* the hooks, or with a mistake in it.
UserSaves ==
  /\ dir /\ file # Torn /\ moves < MaxMoves /\ moves' = moves + 1
  /\ LET old == IF file = NoSettings THEN Empty ELSE file
     IN file' \in {Valid(old.hooks, t, "user") : t \in Chapters}
                  \cup {Valid([old.hooks EXCEPT ![h] = removeTokenMeterHook(@)], old.text, "user") :
                          h \in HookEvent}
                  \cup {Broken(old)}
  /\ mine' = OfUser(file')
  /\ UNCHANGED <<dir, bak, run, marred, started>>

SettingsNext ==
  \/ \E p \in Caller :
       \/ Begin(p) \/ Peek(p) \/ ReadToInstall(p) \/ ReadFails(p) \/ ReadToUninstall(p)
       \/ Check(p) \/ BackupAndReset(p) \/ Truncate(p) \/ WriteSettings(p) \/ RunDies(p)
  \/ UserSaves

-----------------------------------------------------------------------------

\* What the user has put into the settings stays, in the file or in the copy
\* that doctor made of it, whoever ran at once, unless it was edited under
\* the hands of a run, could not be read, or the run died while it wrote.
UserKeepsSettings ==
  marred \/ Kept(file, bak) \/ \E p \in Caller : run[p].at = "write"

\* A run that installs leaves its own command once at every event and no
\* other of tokenmeter's; one that uninstalls leaves none it knows.
HooksAreOurs ==
  file # NoSettings /\ file.ok /\ file.by \notin {"user", "nobody"} =>
    \A h \in HookEvent :
      IF file.by = "out" THEN CommandsAt(file, h) \cap Ours = {}
      ELSE /\ CommandsAt(file, h) \cap Ours \subseteq {file.by}
           /\ Cardinality({i \in DOMAIN file.hooks[h] : file.by \in file.hooks[h][i]}) = 1

\* Both, after whatever runs of tm and edits of the user.
HooksInPlace == UserKeepsSettings /\ HooksAreOurs
=============================================================================
