---------------------------- MODULE SharedCaches ----------------------------
(***************************************************************************)
(* Two files that short-lived processes share with nothing held: the       *)
(* statusline cache of a session and the runtime price cache.  Both are    *)
(* written in place (truncated, then filled), so that a reader may find    *)
(* half of one; both are trusted while they are young enough.  What a      *)
(* process computes is stood for by the time its data was read, and a      *)
(* table of prices by when it was fetched and whether all of it parses.    *)
(***************************************************************************)
EXTENDS FiniteSets, Naturals

CONSTANTS
  Reader,     \* processes
  Interval,   \* RefreshInterval, and the time to live of prices
  MaxClock    \* bound: time

ASSUME CachesAssumption == Interval \in Nat \ {0} /\ MaxClock \in Nat

VARIABLES
  clock,
  touched,   \* modification time of the transcript
  lineCache, \* the statusline cache: [state, out, stamp, mtime]
  liner,     \* liner[p]: a statusline process
  served,    \* history: outputs shown: [start, from, how]
  priceCache,\* the price cache: [state, stamp, table]
  pricer,    \* pricer[p]: a process that wants prices
  offline,   \* it may not use the network
  priced     \* history: price tables used: [by, at, table, how]

cacheVars == <<clock, touched, lineCache, liner, served, priceCache, pricer, offline, priced>>
lineVars == <<lineCache, liner, served>>
priceVars == <<priceCache, pricer, offline, priced>>

NoLine == [state |-> "none", out |-> 0, stamp |-> 0, mtime |-> 0]
Embedded == [from |-> 0, good |-> TRUE]
NoPrices == [state |-> "none", stamp |-> 0, table |-> Embedded]
NotRun == [pc |-> "new", start |-> 0, initial |-> NoLine, from |-> 0]
Unpriced == [pc |-> "new", table |-> Embedded, waits |-> FALSE]
State == {"none", "torn", "whole"}

CachesTypeOK ==
  /\ {clock, touched, lineCache.out, lineCache.stamp, priceCache.stamp} \subseteq 0 .. MaxClock
  /\ lineCache.state \in State /\ priceCache.state \in State
  /\ \A p \in Reader :
       /\ liner[p].pc \in {"new", "load", "show", "truncate", "fill", "over"}
       /\ pricer[p].pc \in {"new", "fetch", "refresh", "truncate", "fill", "over"}
  /\ offline \subseteq Reader
  /\ \A s \in served : s.start \in 0 .. clock /\ s.from \in 0 .. clock

CachesInit ==
  /\ clock = 0
  /\ touched = 0
  /\ lineCache = NoLine
  /\ liner = [p \in Reader |-> NotRun]
  /\ served = {}
  /\ priceCache = NoPrices
  /\ pricer = [p \in Reader |-> Unpriced]
  /\ offline \in SUBSET Reader
  /\ priced = {}

ClockTicks ==
  /\ clock < MaxClock /\ clock' = clock + 1
  /\ touched' \in {touched, clock + 1}
  /\ UNCHANGED <<lineVars, priceVars>>

\* A process ends, wherever it is.
Dies(p) ==
  /\ \/ liner[p].pc \notin {"new", "over"} /\ liner' = [liner EXCEPT ![p].pc = "over"] /\ UNCHANGED pricer
     \/ pricer[p].pc \notin {"new", "over"} /\ pricer' = [pricer EXCEPT ![p].pc = "over"] /\ UNCHANGED liner
  /\ UNCHANGED <<clock, touched, lineCache, served, priceCache, offline, priced>>

-----------------------------------------------------------------------------
(* RunWithOptions of the statusline.                                       *)

Show(p, from, how) == served' = served \cup {[start |-> liner[p].start, from |-> from, how |-> how]}

\* The process takes its `now`; it is compared with everything later.
LineStarts(p) ==
  /\ liner[p].pc = "new"
  /\ liner' = [liner EXCEPT ![p] = [NotRun EXCEPT !.pc = "load", !.start = clock]]
  /\ UNCHANGED <<clock, touched, lineCache, served, priceVars>>

\* statuslineCacheMissReason, of one session and one configuration.
Hit(p) ==
  /\ lineCache.state = "whole"
  /\ lineCache.mtime = touched
  /\ lineCache.stamp + Interval > liner[p].start

\* The cache is read: a hit is shown; half a file cannot be parsed.
ReadLineCache(p) ==
  /\ liner[p].pc = "load"
  /\ IF Hit(p)
     THEN /\ Show(p, lineCache.out, "hit")
          /\ liner' = [liner EXCEPT ![p].pc = "over"]
     ELSE /\ liner' = [liner EXCEPT ![p].pc = "show", ![p].from = clock,
                         ![p].initial = IF lineCache.state = "whole" THEN lineCache ELSE NoLine]
          /\ UNCHANGED served
  /\ UNCHANGED <<clock, touched, lineCache, priceVars>>

\* The usage is read, and the line shown; if it cannot be read, what the cache
\* held is shown instead, however old, and the command fails.
LoadUsage(p) ==
  /\ liner[p].pc = "show"
  /\ \/ /\ Show(p, clock, "fresh")
        /\ liner' = [liner EXCEPT ![p].pc = "truncate", ![p].from = clock]
     \/ /\ IF liner[p].initial = NoLine THEN UNCHANGED served
           ELSE Show(p, liner[p].initial.out, "failed")
        /\ liner' = [liner EXCEPT ![p].pc = "over"]
  /\ UNCHANGED <<clock, touched, lineCache, priceVars>>

\* writeStatuslineCache opens the file and empties it.
TruncateLine(p) ==
  /\ liner[p].pc = "truncate"
  /\ lineCache' = [NoLine EXCEPT !.state = "torn"]
  /\ liner' = [liner EXCEPT ![p].pc = "fill"]
  /\ UNCHANGED <<clock, touched, served, priceVars>>

NewLine(p, stamp, mtime) ==
  [state |-> "whole", out |-> liner[p].from, stamp |-> stamp, mtime |-> mtime]

\* Faulty variant: the cache is stamped when it is written.
FillLineLate(p) ==
  /\ liner[p].pc = "fill"
  /\ lineCache' = NewLine(p, clock, touched)
  /\ liner' = [liner EXCEPT ![p].pc = "over"]
  /\ UNCHANGED <<clock, touched, served, priceVars>>

\* It fills it, stamped with the time the process started at and with the
\* transcript's modification time of now.  Over another writer's longer
\* content, the rest of that content follows.
FillLine(p) ==
  /\ liner[p].pc = "fill"
  /\ \/ lineCache' = NewLine(p, liner[p].start, touched)
     \/ lineCache.state = "whole" /\ lineCache' = [NoLine EXCEPT !.state = "torn"]
  /\ liner' = [liner EXCEPT ![p].pc = "over"]
  /\ UNCHANGED <<clock, touched, served, priceVars>>

-----------------------------------------------------------------------------
(* LoadRuntime and RefreshRuntime of the prices.                           *)

UsePrices(p, table, how) ==
  priced' = priced \cup {[by |-> p, at |-> clock, table |-> table, how |-> how]}

\* The cache is read: a whole one is used, as much of it as parses, and
\* refreshed in the background if it has expired; without one, the process
\* waits for a refresh.
LoadPrices(p) ==
  /\ pricer[p].pc = "new"
  /\ LET whole == priceCache.state = "whole"
         young == p \in offline \/ clock < priceCache.stamp + Interval
     IN \/ /\ whole /\ young
           /\ UsePrices(p, priceCache.table, "cache")
           /\ pricer' = [pricer EXCEPT ![p].pc = "over"]
        \/ /\ whole /\ ~young
           /\ UsePrices(p, priceCache.table, "stale")
           /\ pricer' = [pricer EXCEPT ![p].pc = "refresh"]
        \/ /\ ~whole /\ p \in offline
           /\ UsePrices(p, Embedded, "embedded")
           /\ pricer' = [pricer EXCEPT ![p].pc = "over"]
        \/ /\ ~whole /\ p \notin offline
           /\ pricer' = [pricer EXCEPT ![p].pc = "fetch"] /\ UNCHANGED priced
  /\ UNCHANGED <<clock, touched, lineVars, priceCache, offline>>

\* `tm pricing refresh` is nothing else, and uses no prices.
RefreshAsked(p) ==
  /\ pricer[p].pc = "new" /\ p \notin offline
  /\ pricer' = [pricer EXCEPT ![p].pc = "refresh"]
  /\ UNCHANGED <<clock, touched, lineVars, priceCache, offline, priced>>

\* Who waited for the refresh does with the embedded table.
DoesWithout(p) ==
  /\ IF pricer[p].pc = "fetch" \/ pricer[p].waits THEN UsePrices(p, Embedded, "embedded")
     ELSE UNCHANGED priced
  /\ pricer' = [pricer EXCEPT ![p].pc = "over"]

\* Both addresses fail, or the file cannot be opened or filled.
RefreshFails(p) ==
  /\ pricer[p].pc \in {"fetch", "refresh", "truncate", "fill"} /\ DoesWithout(p)
  /\ UNCHANGED <<clock, touched, lineVars, priceCache, offline>>

Fetched(p, good) ==
  pricer' = [pricer EXCEPT ![p] = [pc |-> "truncate", table |-> [from |-> clock, good |-> good],
                                   waits |-> @.pc = "fetch"]]

\* Faulty variant: what was sent is stored as it comes.
FetchUnparsed(p) ==
  /\ pricer[p].pc \in {"fetch", "refresh"}
  /\ \E good \in BOOLEAN : Fetched(p, good)
  /\ UNCHANGED <<clock, touched, lineVars, priceCache, offline, priced>>

\* The prices of now are sent, or something that does not parse to its end:
\* only the first are for writeRuntimeCache.
FetchPrices(p) ==
  /\ pricer[p].pc \in {"fetch", "refresh"}
  /\ \/ Fetched(p, TRUE) /\ UNCHANGED priced
     \/ DoesWithout(p)
  /\ UNCHANGED <<clock, touched, lineVars, priceCache, offline>>

TruncatePrices(p) ==
  /\ pricer[p].pc = "truncate"
  /\ priceCache' = [NoPrices EXCEPT !.state = "torn"]
  /\ pricer' = [pricer EXCEPT ![p].pc = "fill"]
  /\ UNCHANGED <<clock, touched, lineVars, offline, priced>>

\* The file is filled, or the rest of another writer's longer content follows.
WritePrices(p, stamp) ==
  /\ pricer[p].pc = "fill"
  /\ IF pricer[p].waits THEN UsePrices(p, pricer[p].table, "fetched") ELSE UNCHANGED priced
  /\ \/ priceCache' = [state |-> "whole", stamp |-> stamp, table |-> pricer[p].table]
     \/ priceCache.state = "whole" /\ priceCache' = [NoPrices EXCEPT !.state = "torn"]
  /\ pricer' = [pricer EXCEPT ![p].pc = "over"]
  /\ UNCHANGED <<clock, touched, lineVars, offline>>

\* Faulty variant: prices are as old as their file.
FillPricesLate(p) == WritePrices(p, clock)

\* They are stamped before the file is opened, when they have just come.  Who
\* waited for the refresh uses what it fetched.
FillPrices(p) == WritePrices(p, pricer[p].table.from)

\* The two files have nothing to do with each other.
LineNext ==
  \/ ClockTicks
  \/ \E p \in Reader :
       LineStarts(p) \/ ReadLineCache(p) \/ LoadUsage(p) \/ TruncateLine(p) \/ FillLine(p) \/ Dies(p)

PriceNext ==
  \/ ClockTicks
  \/ \E p \in Reader :
       \/ LoadPrices(p) \/ RefreshAsked(p) \/ RefreshFails(p) \/ FetchPrices(p)
       \/ TruncatePrices(p) \/ FillPrices(p) \/ Dies(p)

-----------------------------------------------------------------------------

\* A statusline that is served without reading the usage shows usage read less
\* than the refresh interval before the process started, however slow the
\* processes are that wrote the file, and whoever was cut short writing it.
\* A table of prices that is used is whole: it parses to its end, though the
\* error of a cached one that does not is ignored.  And it was fetched less than
\* the interval before, again however slow its writer was, unless the process
\* may not use the network, or uses it once more and sets out to refresh it.
BoundedStaleness ==
  /\ \A s \in served : s.how = "hit" => s.from + Interval > s.start
  /\ \A u \in priced :
       /\ u.table.good
       /\ u.how = "cache" => u.table.from + Interval > u.at \/ u.by \in offline

=============================================================================
