------------------------------- MODULE Blocks -------------------------------
(***************************************************************************)
(* The session blocks of tm blocks and the status line: Identify cuts the  *)
(* usage entries, in ascending order of time, into blocks of Dur that start *)
(* on the hour and puts a gap wherever Dur passes in silence;               *)
(* PopulatePerModel then walks the entries again and looks for the block    *)
(* each one counts in.  One iteration of Identify's loop is one action.     *)
(*                                                                         *)
(* An entry is its timestamp; tokens, cost and model go where it goes.     *)
(***************************************************************************)
EXTENDS Integers, Sequences

CONSTANTS
  Hour,       \* units of time in an hour
  Dur,        \* sessionDuration, five hours unless --session-length says else
  MaxTs,      \* bound: the latest time
  MaxEntries  \* bound: how many entries there are

ASSUME BlocksAssumption ==
  /\ {Hour, Dur} \subseteq Nat \ {0}
  /\ {MaxTs, MaxEntries} \subseteq Nat

VARIABLES
  now,    \* the argument of that name
  entry,  \* timestamps of the entries the loop has seen
  block,  \* out: the blocks and gaps closed so far
  start,  \* start of the current block
  from,   \* the first entry of the current block, cur[0]
  pc,     \* "identify", "perModel" or "done"
  owner   \* owner[i]: the block in whose PerModel entry i is counted, or 0

vars == <<now, entry, block, start, from, pc, owner>>

Count == Len(entry)
LastTS == entry[Count]

\* Entries from..to of a block; a gap has none.
Block == [gap : BOOLEAN, start : Nat, end : Nat, from : Nat, to : Nat, active : BOOLEAN]

TypeOK ==
  /\ now \in 0 .. MaxTs
  /\ entry \in Seq(0 .. MaxTs) /\ Count <= MaxEntries
  /\ block \in Seq(Block)
  /\ start \in Nat /\ from \in Nat
  /\ pc \in {"identify", "perModel", "done"}
  /\ owner \in [1 .. Count -> 0 .. Len(block)] \/ owner = <<>>

Init ==
  /\ now \in 0 .. MaxTs
  /\ entry = <<>> /\ block = <<>>
  /\ start = 0 /\ from = 0
  /\ pc = "identify" /\ owner = <<>>

-----------------------------------------------------------------------------
\* Faulty variant: goes back by what is missing to the next hour.
floorTooFar(t) == t - (Hour - (t % Hour))

floorToHour(t) == t - (t % Hour)

\* Faulty variant: only the silence is looked at.
ActiveBySilence(end, last) == now - last < Dur

Active(end, last) == now < end /\ now - last < Dur

\* Faulty variant: a block lasts Dur from its last entry.
EndingAfterLast ==
  [gap |-> FALSE, start |-> start, end |-> LastTS + Dur, from |-> from, to |-> Count,
   active |-> Active(start + Dur, LastTS)]

buildBlock ==
  [gap |-> FALSE, start |-> start, end |-> start + Dur, from |-> from, to |-> Count,
   active |-> Active(start + Dur, LastTS)]

gapBlock(t) ==
  [gap |-> TRUE, start |-> LastTS + Dur, end |-> t, from |-> Count + 1, to |-> Count,
   active |-> FALSE]

Silent(t) == t - LastTS > Dur

Over(t) == t - start > Dur \/ Silent(t)

\* Entries come from the machine's own logs: none is later than now.
Arrives(t) ==
  /\ pc = "identify" /\ Count < MaxEntries /\ t <= now
  /\ entry # <<>> => LastTS <= t
  /\ entry' = Append(entry, t)
  /\ UNCHANGED <<now, pc, owner>>

Opens(t) == start' = floorToHour(t) /\ from' = Count + 1

First(t) ==
  /\ entry = <<>> /\ Arrives(t)
  /\ Opens(t)
  /\ UNCHANGED block

Joins(t) ==
  /\ entry # <<>> /\ ~Over(t) /\ Arrives(t)
  /\ UNCHANGED <<block, start, from>>

\* Faulty variant: every cut leaves a gap.
AlwaysGap(t) == <<buildBlock, gapBlock(t)>>

Closing(t) == IF Silent(t) THEN <<buildBlock, gapBlock(t)>> ELSE <<buildBlock>>

\* Faulty variant: the entries of the closed block stay in cur.
SplitsKeepingEntries(t) ==
  /\ entry # <<>> /\ Over(t) /\ Arrives(t)
  /\ block' = block \o Closing(t)
  /\ start' = floorToHour(t) /\ UNCHANGED from

Splits(t) ==
  /\ entry # <<>> /\ Over(t) /\ Arrives(t)
  /\ block' = block \o Closing(t)
  /\ Opens(t)

IdentifyReturns ==
  /\ pc = "identify" /\ pc' = "perModel"
  /\ block' = IF entry = <<>> THEN block ELSE Append(block, buildBlock)
  /\ UNCHANGED <<now, entry, start, from, owner>>

\* Faulty variant: the end of a block is not looked at.
CountsFromStart(b, t) == ~block[b].gap /\ block[b].start <= t

\* What PopulatePerModel asks of a block.
CountsIn(b, t) == ~block[b].gap /\ block[b].start <= t /\ t < block[b].end

Owner(t) ==
  LET B == {b \in 1 .. Len(block) : CountsIn(b, t)}
  IN  IF B = {} THEN 0 ELSE CHOOSE b \in B : \A c \in B : b <= c

PopulatePerModel ==
  /\ pc = "perModel" /\ pc' = "done"
  /\ owner' = [i \in 1 .. Count |-> Owner(entry[i])]
  /\ UNCHANGED <<now, entry, block, start, from>>

Next ==
  \/ \E t \in 0 .. MaxTs : First(t) \/ Joins(t) \/ Splits(t)
  \/ IdentifyReturns
  \/ PopulatePerModel

Spec == Init /\ [][Next]_vars

-----------------------------------------------------------------------------
(* Properties.                                                             *)

Closed == 1 .. Len(block)
Has(b, i) == block[b].from <= i /\ i <= block[b].to

\* No entry is lost or summed twice: once Identify has returned, each is in
\* exactly one block, and none is in a gap (identify.go, flush and the loop).
EachEntryOnce ==
  pc # "identify" =>
    \A i \in 1 .. Count :
      /\ \E b \in Closed : Has(b, i)
      /\ \A b, c \in Closed : Has(b, i) /\ Has(c, i) => b = c /\ ~block[b].gap

\* The windows that are shown: with a whole number of hours for a session,
\* blocks do not overlap and come in order, and an entry is within its own,
\* the end included.
WholeHours == Dur % Hour = 0

WindowsApart ==
  WholeHours =>
    /\ \A b, c \in Closed : b < c /\ ~block[b].gap /\ ~block[c].gap
                              => block[b].end <= block[c].start
    /\ \A b \in Closed, i \in 1 .. Count :
         Has(b, i) => block[b].start <= entry[i] /\ entry[i] <= block[b].end

\* A gap begins when the silence has lasted Dur and ends with the entry that
\* ends it, whatever blocks are cut around it.
GapsAreSilence ==
  \A b \in Closed : block[b].gap =>
    /\ block[b].start < block[b].end
    /\ \A i \in 1 .. Count : \/ entry[i] <= block[b].start - Dur
                             \/ block[b].end <= entry[i]

\* The status line shows the first active block it finds, so there must not
\* be two, and no entry may come after it (load.go LoadActive).
OneActive ==
  \A b, c \in Closed : block[b].active /\ block[c].active => b = c /\ b = Len(block)

\* Per-model figures go to the block that has the entry in its totals, but
\* for an entry at the very end of its block.
OwnerAgrees ==
  pc = "done" /\ WholeHours =>
    \A b \in Closed, i \in 1 .. Count :
      Has(b, i) /\ entry[i] # block[b].end => owner[i] = b

\* burn.go on PopulatePerModel: "an entry's timestamp falls within exactly
\* one non-gap block's [StartTime, EndTime)".
WithinHalfOpen ==
  pc = "done" =>
    \A i \in 1 .. Count : \E b \in Closed :
      CountsIn(b, entry[i]) /\ \A c \in Closed : CountsIn(c, entry[i]) => c = b
=============================================================================
