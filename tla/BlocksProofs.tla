---------------------------- MODULE BlocksProofs ----------------------------
(***************************************************************************)
(* Session blocks for every hour, session length and list of entries: each *)
(* entry is in one block, windows of whole hours do not overlap, gaps are  *)
(* silent, one block is active, and per-model figures have the same owners *)
(***************************************************************************)
EXTENDS Blocks, WellFoundedInduction, TLAPS

\* How many entries the closed blocks hold.
Taken == IF pc = "identify" /\ entry # <<>> THEN from - 1 ELSE Count

Typed ==
  /\ entry \in Seq(Nat) /\ block \in Seq(Block)
  /\ now \in Nat /\ start \in Nat /\ from \in Nat
  /\ pc \in {"identify", "perModel", "done"}
  /\ pc = "identify" /\ entry # <<>> => from \in 1 .. Count

Ascending == \A i, j \in 1 .. Count : i <= j => entry[i] <= entry[j]

\* Blocks and gaps follow one another and leave out nothing.
Chained ==
  /\ entry = <<>> => block = <<>>
  /\ \A b \in Closed :
       /\ 1 <= block[b].from /\ block[b].to <= Taken
       /\ block[b].gap => block[b].to < block[b].from
  /\ \A b, c \in Closed : b < c => block[b].to < block[c].from
  /\ \A i \in 1 .. Taken : \E b \in Closed : Has(b, i)

\* The current block starts on the hour and after the closed ones.
Current ==
  pc = "identify" /\ entry # <<>> =>
    /\ start % Hour = 0
    /\ \A i \in from .. Count : start <= entry[i] /\ entry[i] <= start + Dur
    /\ \A b \in Closed : ~block[b].gap => block[b].end <= start

Windows == WindowsApart /\ (WholeHours => Current)

-----------------------------------------------------------------------------
(* floorToHour.                                                            *)

LEMMA Floor ==
  ASSUME NEW t \in Nat
  PROVE  /\ floorToHour(t) \in Nat /\ floorToHour(t) % Hour = 0
         /\ floorToHour(t) <= t /\ t < floorToHour(t) + Hour
<1> DEFINE q == t \div Hour
<1>0. Hour \in Nat \ {0}
  BY BlocksAssumption
<1>1. q \in Nat /\ t = q * Hour + (t % Hour) /\ t % Hour \in 0 .. Hour - 1
  BY <1>0
<1>2. (q * Hour) % Hour = 0 /\ q * Hour \in Nat
  BY <1>0, <1>1
<1>3. floorToHour(t) = q * Hour
  BY <1>1, <1>2, <1>0 DEF floorToHour
<1> QED
  BY <1>0, <1>1, <1>2, <1>3

\* Nothing after an hour is rounded down to before it.
LEMMA FloorAfter ==
  ASSUME NEW t \in Nat, NEW s \in Nat, s % Hour = 0, s <= t
  PROVE  s <= floorToHour(t)
<1> DEFINE q == t \div Hour
           k == s \div Hour
<1>0. Hour \in Nat \ {0}
  BY BlocksAssumption
<1>1. q \in Nat /\ t = q * Hour + (t % Hour) /\ t % Hour \in 0 .. Hour - 1
  BY <1>0
<1>2. k \in Nat /\ s = k * Hour
  BY <1>0
<1>3. k * Hour < q * Hour + Hour
  BY <1>0, <1>1, <1>2
<1>4. k <= q
  BY <1>0, <1>1, <1>2, <1>3
<1>5. k * Hour <= q * Hour
  BY <1>0, <1>1, <1>2, <1>4
<1>6. floorToHour(t) = q * Hour
  BY <1>0, <1>1 DEF floorToHour
<1> QED
  BY <1>2, <1>5, <1>6

LEMMA EndOnTheHour ==
  ASSUME NEW s \in Nat, s % Hour = 0, WholeHours
  PROVE  (s + Dur) % Hour = 0 /\ Hour <= Dur
<1> DEFINE k == s \div Hour
           d == Dur \div Hour
<1>0. Hour \in Nat \ {0} /\ Dur \in Nat \ {0}
  BY BlocksAssumption
<1>1. k \in Nat /\ s = k * Hour
  BY <1>0
<1>2. d \in Nat /\ Dur = d * Hour
  BY <1>0 DEF WholeHours
<1>3. s + Dur = (k + d) * Hour /\ k + d \in Nat
  BY <1>0, <1>1, <1>2
<1>4. ((k + d) * Hour) % Hour = 0
  BY <1>0, <1>3
<1>5. d >= 1
  BY <1>0, <1>2
<1>6. Hour <= Dur
  BY <1>0, <1>2, <1>5
<1> QED
  BY <1>3, <1>4, <1>6

-----------------------------------------------------------------------------
(* What the loop appends.                                                  *)

LEMMA Arriving ==
  ASSUME Typed, Ascending, NEW t \in 0 .. MaxTs, Arrives(t)
  PROVE  /\ entry' \in Seq(Nat) /\ Count' = Count + 1 /\ Count \in Nat /\ entry' # <<>>
         /\ \A i \in 1 .. Count : entry'[i] = entry[i]
         /\ entry'[Count + 1] = t /\ t \in Nat
         /\ entry # <<>> => LastTS \in Nat /\ LastTS <= t /\ Count >= 1
         /\ Ascending'
<1>1. t \in Nat /\ entry \in Seq(Nat) /\ entry' = Append(entry, t) /\ Count \in Nat
  BY BlocksAssumption DEF Typed, Arrives, Count
<1>2. /\ entry' \in Seq(Nat) /\ Count' = Count + 1 /\ entry' # <<>>
      /\ \A i \in 1 .. Count : entry'[i] = entry[i]
      /\ entry'[Count + 1] = t
  BY <1>1 DEF Count
<1>3. entry # <<>> => LastTS \in Nat /\ LastTS <= t /\ Count >= 1
  BY <1>1 DEF Arrives, LastTS, Count
<1>4. \A i \in 1 .. Count : entry[i] \in Nat /\ entry[i] <= t
  <2> SUFFICES ASSUME NEW i \in 1 .. Count PROVE entry[i] \in Nat /\ entry[i] <= t
    OBVIOUS
  <2>1. entry # <<>> /\ Count \in 1 .. Count
    BY <1>1 DEF Count
  <2>2. entry[i] <= LastTS /\ entry[i] \in Nat
    BY <1>1, <2>1 DEF Ascending, LastTS, Count
  <2> QED
    BY <1>1, <1>3, <2>1, <2>2
<1>5. Ascending'
  <2>1. ASSUME NEW i \in 1 .. Count + 1, NEW j \in 1 .. Count + 1, i <= j
        PROVE  entry'[i] <= entry'[j]
    <3>1. CASE j = Count + 1
      <4>1. entry'[j] = t
        BY <1>2, <3>1
      <4>2. CASE i = Count + 1
        <5>1. entry'[i] = t
          BY <1>2, <4>2
        <5> QED
          BY <1>1, <4>1, <5>1
      <4>3. CASE i # Count + 1
        <5>1. i \in 1 .. Count
          BY <1>1, <4>3
        <5> QED
          BY <1>2, <1>4, <4>1, <5>1
      <4> QED
        BY <4>2, <4>3
    <3>2. CASE j # Count + 1
      <4>1. i \in 1 .. Count /\ j \in 1 .. Count
        BY <1>1, <2>1, <3>2
      <4> QED
        BY <1>2, <2>1, <4>1 DEF Ascending
    <3> QED
      BY <3>1, <3>2
  <2> QED
    BY <1>2, <2>1 DEF Ascending
<1> QED
  BY <1>1, <1>2, <1>3, <1>5

\* A closed block is well formed and holds from..Count.
LEMMA Built ==
  ASSUME Typed, pc = "identify", entry # <<>>
  PROVE  /\ buildBlock \in Block
         /\ buildBlock.from = from /\ buildBlock.to = Count /\ ~buildBlock.gap
         /\ buildBlock.start = start /\ buildBlock.end = start + Dur
<1>1. Dur \in Nat /\ Count \in Nat
  BY BlocksAssumption DEF Typed, Count
<1>2. Active(start + Dur, LastTS) \in BOOLEAN
  BY DEF Active
<1> QED
  BY <1>1, <1>2 DEF buildBlock, Block, Typed

LEMMA Cut ==
  ASSUME Typed, Ascending, NEW t \in 0 .. MaxTs, Splits(t)
  PROVE  /\ block' \in Seq(Block)
         /\ Len(block') \in {Len(block) + 1, Len(block) + 2}
         /\ \A b \in Closed : block'[b] = block[b]
         /\ block'[Len(block) + 1] = buildBlock
         /\ Len(block') = Len(block) + 2 =>
              /\ block'[Len(block) + 2].gap
              /\ block'[Len(block) + 2].from = Count + 1
              /\ block'[Len(block) + 2].to = Count
<1>0. Arrives(t) /\ pc = "identify" /\ entry # <<>>
  BY DEF Splits, Arrives
<1>1. t \in Nat /\ LastTS \in Nat /\ Count \in Nat /\ Dur \in Nat
  BY <1>0, Arriving, BlocksAssumption
<1>2. gapBlock(t) \in Block /\ buildBlock \in Block
  BY <1>0, <1>1, Built DEF gapBlock, Block
<1>3. /\ gapBlock(t).gap /\ gapBlock(t).from = Count + 1 /\ gapBlock(t).to = Count
  BY DEF gapBlock
<1>4. block \in Seq(Block)
  BY DEF Typed
<1>5. CASE Silent(t)
  <2>1. block' = block \o <<buildBlock, gapBlock(t)>>
    BY <1>5 DEF Splits, Closing
  <2>2. <<buildBlock, gapBlock(t)>> \in Seq(Block)
    BY <1>2
  <2> QED
    BY <1>2, <1>3, <1>4, <2>1, <2>2 DEF Closed
<1>6. CASE ~Silent(t)
  <2>1. block' = block \o <<buildBlock>>
    BY <1>6 DEF Splits, Closing
  <2>2. <<buildBlock>> \in Seq(Block)
    BY <1>2
  <2> QED
    BY <1>2, <1>4, <2>1, <2>2 DEF Closed
<1> QED
  BY <1>5, <1>6

-----------------------------------------------------------------------------
(* Every entry in one block.                                               *)

PartInv == Typed /\ Ascending /\ Chained

LEMMA InitPart == Init => PartInv
BY BlocksAssumption DEF Init, PartInv, Typed, Ascending, Chained, Taken, Closed, Count, Has

LEMMA FirstKeeps ==
  ASSUME PartInv, NEW t \in 0 .. MaxTs, First(t)
  PROVE  PartInv'
<1>1. /\ Typed /\ Ascending /\ Chained /\ Arrives(t) /\ entry = <<>> /\ block = <<>>
      /\ pc = "identify" /\ Count = 0
  BY DEF PartInv, First, Chained, Arrives, Count
<1>2. floorToHour(t) \in Nat
  BY <1>1, Arriving, Floor
<1>3. Typed' /\ Ascending' /\ entry' # <<>> /\ from' = 1 /\ pc' = pc /\ block' = <<>>
  BY <1>1, <1>2, Arriving DEF Typed, First, Opens, Arrives, Count
<1>4. Chained'
  BY <1>1, <1>3 DEF Chained, Taken, Closed, Has
<1> QED
  BY <1>3, <1>4 DEF PartInv

LEMMA JoinsKeeps ==
  ASSUME PartInv, NEW t \in 0 .. MaxTs, Joins(t)
  PROVE  PartInv'
<1>1. Typed /\ Ascending /\ Chained /\ Arrives(t) /\ entry # <<>> /\ pc = "identify"
  BY DEF PartInv, Joins, Arrives
<1>2. /\ Ascending' /\ entry' \in Seq(Nat) /\ entry' # <<>> /\ Count' = Count + 1 /\ Count \in Nat
      /\ UNCHANGED <<now, block, start, from, pc>>
  BY <1>1, Arriving DEF Joins, Arrives
<1>3. Typed'
  BY <1>1, <1>2 DEF Typed
<1>4. Chained'
  BY <1>1, <1>2 DEF Chained, Taken, Closed, Has
<1> QED
  BY <1>2, <1>3, <1>4 DEF PartInv

LEMMA SplitsKeeps ==
  ASSUME PartInv, NEW t \in 0 .. MaxTs, Splits(t)
  PROVE  PartInv'
<1>1. Typed /\ Ascending /\ Chained /\ Arrives(t) /\ entry # <<>> /\ pc = "identify"
  BY DEF PartInv, Splits, Arrives
<1>2. /\ Ascending' /\ entry' \in Seq(Nat) /\ entry' # <<>> /\ Count' = Count + 1 /\ Count \in Nat
      /\ from' = Count + 1 /\ start' \in Nat /\ UNCHANGED <<now, pc>> /\ block' \in Seq(Block)
  BY <1>1, Arriving, Cut, Floor DEF Splits, Opens, Arrives
<1>3. Typed'
  BY <1>1, <1>2 DEF Typed
<1> DEFINE n == Len(block)
<1>4. /\ n \in Nat /\ from \in 1 .. Count /\ Taken = from - 1 /\ Taken' = Count
      /\ \A b \in 1 .. n : block[b] \in Block
  BY <1>1, <1>2 DEF Typed, Taken
<1>5. /\ Len(block') \in {n + 1, n + 2}
      /\ \A b \in 1 .. n : block'[b] = block[b]
      /\ block'[n + 1].from = from /\ block'[n + 1].to = Count /\ ~block'[n + 1].gap
      /\ Len(block') = n + 2 =>
           block'[n + 2].gap /\ block'[n + 2].from = Count + 1 /\ block'[n + 2].to = Count
  BY <1>1, Cut, Built DEF Closed
<1>6. \A b \in 1 .. n : /\ 1 <= block[b].from /\ block[b].to < from
                        /\ block[b].from \in Nat /\ block[b].to \in Nat
                        /\ block[b].gap => block[b].to < block[b].from
  BY <1>1, <1>4 DEF Chained, Closed, Block
<1>7. \A b \in Closed' :
        /\ 1 <= block'[b].from /\ block'[b].to <= Count
        /\ block'[b].gap => block'[b].to < block'[b].from
  <2> SUFFICES ASSUME NEW b \in 1 .. Len(block')
               PROVE  /\ 1 <= block'[b].from /\ block'[b].to <= Count
                      /\ block'[b].gap => block'[b].to < block'[b].from
    BY DEF Closed
  <2>1. CASE b \in 1 .. n
    <3>1. block'[b] = block[b]
      BY <1>5, <2>1
    <3>2. /\ 1 <= block[b].from /\ block[b].to < from /\ block[b].to \in Nat
          /\ block[b].gap => block[b].to < block[b].from
      BY <1>6, <2>1
    <3>3. block[b].to <= Count
      BY <1>2, <1>4, <3>2
    <3> QED
      BY <3>1, <3>2, <3>3
  <2>2. CASE b \notin 1 .. n
    <3>1. b = n + 1 \/ (b = n + 2 /\ Len(block') = n + 2)
      BY <1>4, <1>5, <2>2
    <3> QED
      BY <1>2, <1>4, <1>5, <3>1
  <2> QED
    BY <2>1, <2>2
<1>8. \A b, c \in Closed' : b < c => block'[b].to < block'[c].from
  <2> SUFFICES ASSUME NEW b \in 1 .. Len(block'), NEW c \in 1 .. Len(block'), b < c
               PROVE  block'[b].to < block'[c].from
    BY DEF Closed
  <2>1. CASE c \in 1 .. n
    <3>1. b \in 1 .. n
      BY <1>4, <2>1
    <3> QED
      BY <1>1, <1>5, <2>1, <3>1 DEF Chained, Closed
  <2>2. CASE c = n + 1
    <3>1. b \in 1 .. n
      BY <1>4, <2>2
    <3> QED
      BY <1>5, <1>6, <2>2, <3>1
  <2>3. CASE c = n + 2
    <3>1. Len(block') = n + 2 /\ (b \in 1 .. n \/ b = n + 1)
      BY <1>4, <1>5, <2>3
    <3>2. block'[c].from = Count + 1
      BY <1>5, <2>3, <3>1
    <3>3. block'[b].to <= Count /\ block'[b].to \in Nat
      <4>1. CASE b \in 1 .. n
        <5>1. block'[b].to = block[b].to
          BY <1>5, <4>1
        <5>2. block[b].to < from /\ block[b].to \in Nat
          BY <1>6, <4>1
        <5> QED
          BY <1>2, <1>4, <5>1, <5>2
      <4>2. CASE b = n + 1
        BY <1>2, <1>5, <4>2
      <4> QED
        BY <3>1, <4>1, <4>2
    <3> QED
      BY <1>2, <3>2, <3>3
  <2> QED
    BY <1>4, <1>5, <2>1, <2>2, <2>3
<1>9. \A i \in 1 .. Count : \E b \in Closed' : Has(b, i)'
  <2> SUFFICES ASSUME NEW i \in 1 .. Count
               PROVE  \E b \in 1 .. Len(block') : block'[b].from <= i /\ i <= block'[b].to
    BY DEF Closed, Has
  <2>1. CASE i < from
    <3>1. PICK b \in 1 .. n : block[b].from <= i /\ i <= block[b].to
      BY <1>1, <1>4, <2>1 DEF Chained, Closed, Has
    <3> QED
      BY <1>4, <1>5, <3>1
  <2>2. CASE i >= from
    BY <1>4, <1>5, <2>2
  <2> QED
    BY <1>4, <2>1, <2>2
<1> QED
  BY <1>2, <1>3, <1>4, <1>7, <1>8, <1>9 DEF PartInv, Chained

LEMMA ReturnKeeps ==
  ASSUME PartInv, IdentifyReturns
  PROVE  PartInv'
<1>1. /\ Typed /\ Ascending /\ Chained /\ pc = "identify" /\ pc' = "perModel"
      /\ UNCHANGED <<now, entry, start, from>>
  BY DEF PartInv, IdentifyReturns
<1>2. Ascending'
  BY <1>1 DEF Ascending, Count
<1>3. CASE entry = <<>>
  <2>1. block' = <<>> /\ block = <<>>
    BY <1>1, <1>3 DEF IdentifyReturns, Chained
  <2>2. Typed' /\ Chained'
    BY <1>1, <1>3, <2>1 DEF Typed, Chained, Taken, Closed, Has, Count
  <2> QED
    BY <1>2, <2>2 DEF PartInv
<1>4. CASE entry # <<>>
  <2> DEFINE n == Len(block)
  <2>1. /\ n \in Nat /\ from \in 1 .. Count /\ Taken = from - 1 /\ Taken' = Count /\ Count \in Nat
        /\ \A b \in 1 .. n : block[b] \in Block
    BY <1>1, <1>4 DEF Typed, Taken, Count
  <2>2. block' = Append(block, buildBlock) /\ buildBlock \in Block /\ block \in Seq(Block)
    BY <1>1, <1>4, Built DEF IdentifyReturns, Typed
  <2>3. /\ block' \in Seq(Block) /\ Len(block') = n + 1
        /\ \A b \in 1 .. n : block'[b] = block[b]
        /\ block'[n + 1].from = from /\ block'[n + 1].to = Count /\ ~block'[n + 1].gap
    BY <1>1, <1>4, <2>2, Built
  <2>4. \A b \in 1 .. n : /\ 1 <= block[b].from /\ block[b].to < from
                          /\ block[b].from \in Nat /\ block[b].to \in Nat
                          /\ block[b].gap => block[b].to < block[b].from
    BY <1>1, <2>1 DEF Chained, Closed, Block
  <2>5. Typed'
    BY <1>1, <2>3 DEF Typed
  <2>6. \A b \in Closed' : /\ 1 <= block'[b].from /\ block'[b].to <= Count
                           /\ block'[b].gap => block'[b].to < block'[b].from
    <3> SUFFICES ASSUME NEW b \in 1 .. n + 1
                 PROVE  /\ 1 <= block'[b].from /\ block'[b].to <= Count
                        /\ block'[b].gap => block'[b].to < block'[b].from
      BY <2>3 DEF Closed
    <3>1. CASE b \in 1 .. n
      <4>1. block'[b] = block[b]
        BY <2>3, <3>1
      <4>2. /\ 1 <= block[b].from /\ block[b].to < from /\ block[b].to \in Nat
            /\ block[b].gap => block[b].to < block[b].from
        BY <2>4, <3>1
      <4>3. block[b].to <= Count
        BY <2>1, <4>2
      <4> QED
        BY <4>1, <4>2, <4>3
    <3>2. CASE b = n + 1
      BY <2>1, <2>3, <3>2
    <3> QED
      BY <2>1, <3>1, <3>2
  <2>7. \A b, c \in Closed' : b < c => block'[b].to < block'[c].from
    <3> SUFFICES ASSUME NEW b \in 1 .. n + 1, NEW c \in 1 .. n + 1, b < c
                 PROVE  block'[b].to < block'[c].from
      BY <2>3 DEF Closed
    <3>1. b \in 1 .. n
      BY <2>1
    <3>2. CASE c \in 1 .. n
      BY <1>1, <2>3, <3>1, <3>2 DEF Chained, Closed
    <3>3. CASE c = n + 1
      BY <2>3, <2>4, <3>1, <3>3
    <3> QED
      BY <2>1, <3>2, <3>3
  <2>8. \A i \in 1 .. Count : \E b \in Closed' : Has(b, i)'
    <3> SUFFICES ASSUME NEW i \in 1 .. Count
                 PROVE  \E b \in 1 .. n + 1 : block'[b].from <= i /\ i <= block'[b].to
      BY <2>3 DEF Closed, Has
    <3>1. CASE i < from
      <4>1. PICK b \in 1 .. n : block[b].from <= i /\ i <= block[b].to
        BY <1>1, <2>1, <3>1 DEF Chained, Closed, Has
      <4> QED
        BY <2>1, <2>3, <4>1
    <3>2. CASE i >= from
      BY <2>1, <2>3, <3>2
    <3> QED
      BY <2>1, <3>1, <3>2
  <2>9. Count' = Count /\ entry' # <<>>
    BY <1>1, <1>4 DEF Count
  <2> QED
    BY <1>2, <2>1, <2>5, <2>6, <2>7, <2>8, <2>9 DEF PartInv, Chained
<1> QED
  BY <1>3, <1>4

LEMMA NextPart == PartInv /\ [Next]_vars => PartInv'
<1> SUFFICES ASSUME PartInv, [Next]_vars PROVE PartInv'
  OBVIOUS
<1>1. CASE PopulatePerModel
  BY <1>1 DEF PopulatePerModel, PartInv, Typed, Ascending, Chained, Taken, Closed, Has, Count
<1>2. CASE UNCHANGED vars
  BY <1>2 DEF vars, PartInv, Typed, Ascending, Chained, Taken, Closed, Has, Count
<1> QED
  BY <1>1, <1>2, FirstKeeps, JoinsKeeps, SplitsKeeps, ReturnKeeps DEF Next

\* Every entry Identify is given is in exactly one of the blocks it returns,
\* whatever the session length, and gaps have none (identify.go Identify).
THEOREM Partition == Spec => []EachEntryOnce
<1>1. PartInv => EachEntryOnce
  <2> SUFFICES ASSUME PartInv, pc # "identify", NEW i \in 1 .. Count
               PROVE  /\ \E b \in Closed : Has(b, i)
                      /\ \A b, c \in Closed : Has(b, i) /\ Has(c, i) => b = c /\ ~block[b].gap
    BY DEF EachEntryOnce
  <2>1. Chained /\ Typed /\ Taken = Count /\ Count \in Nat
    BY DEF PartInv, Taken, Typed, Count
  <2>2. \A b \in Closed : block[b].from \in Nat /\ block[b].to \in Nat /\ b \in Int
    <3>1. \A b \in Closed : block[b] \in Block /\ b \in Int
      BY <2>1 DEF Typed, Closed
    <3> QED
      BY <3>1 DEF Block
  <2>3. ASSUME NEW b \in Closed, NEW c \in Closed, Has(b, i), Has(c, i), b < c PROVE FALSE
    <3>1. block[b].to < block[c].from
      BY <2>1, <2>3 DEF Chained
    <3>2. i <= block[b].to /\ block[c].from <= i
      BY <2>3 DEF Has
    <3> QED
      BY <2>2, <2>3, <3>1, <3>2
  <2>4. ASSUME NEW b \in Closed, Has(b, i) PROVE ~block[b].gap
    <3>1. block[b].gap => block[b].to < block[b].from
      BY <2>1 DEF Chained
    <3>2. ~(block[b].to < block[b].from)
      BY <2>2, <2>4 DEF Has
    <3> QED
      BY <3>1, <3>2
  <2>5. \E b \in Closed : Has(b, i)
    BY <2>1 DEF Chained
  <2>6. ASSUME NEW b \in Closed, NEW c \in Closed, Has(b, i), Has(c, i) PROVE b = c
    <3>1. ~(b < c) /\ ~(c < b)
      BY <2>3, <2>6
    <3> QED
      BY <2>2, <3>1
  <2> QED
    BY <2>4, <2>5, <2>6
<1>2. QED
  BY <1>1, InitPart, NextPart, PTL DEF Spec

-----------------------------------------------------------------------------
(* Windows do not overlap.                                                 *)

WindowInv == PartInv /\ Windows

LEMMA InitWindow == Init => WindowInv
BY InitPart DEF Init, WindowInv, Windows, WindowsApart, Current, Closed, Count

\* The current block closes, followed at most by a gap.
LEMMA WindowsGrow ==
  ASSUME PartInv, WholeHours, WindowsApart, Current, pc = "identify", entry # <<>>,
         block' \in Seq(Block), Len(block') \in {Len(block) + 1, Len(block) + 2},
         \A b \in 1 .. Len(block) : block'[b] = block[b],
         block'[Len(block) + 1] = buildBlock,
         Len(block') = Len(block) + 2 =>
            /\ block'[Len(block) + 2].gap
            /\ block'[Len(block) + 2].from = Count + 1
            /\ block'[Len(block) + 2].to = Count,
         Count' \in Nat, Count <= Count',
         \A i \in 1 .. Count : entry'[i] = entry[i]
  PROVE  WindowsApart'
<1> DEFINE n == Len(block)
<1>1. n \in Nat /\ Count \in Nat /\ from \in 1 .. Count /\ start \in Nat /\ Dur \in Nat
  BY BlocksAssumption DEF PartInv, Typed, Count
<1>2. /\ block'[n + 1].from = from /\ block'[n + 1].to = Count /\ ~block'[n + 1].gap
      /\ block'[n + 1].start = start /\ block'[n + 1].end = start + Dur
  BY Built DEF PartInv
<1>3. \A b \in 1 .. n : /\ block[b].to < from
                        /\ block[b].from \in Nat /\ block[b].to \in Nat
                        /\ 1 <= block[b].from
  <2>1. \A b \in 1 .. n : block[b] \in Block
    BY <1>1 DEF PartInv, Typed
  <2>2. \A b \in 1 .. n : block[b].to <= from - 1 /\ 1 <= block[b].from
    BY DEF PartInv, Chained, Closed, Taken
  <2>3. \A b \in 1 .. n : block[b].from \in Nat /\ block[b].to \in Nat
    BY <2>1 DEF Block
  <2> QED
    BY <1>1, <2>2, <2>3
<1>4. ASSUME NEW b \in Closed', NEW c \in Closed', b < c, ~block'[b].gap, ~block'[c].gap
      PROVE  block'[b].end <= block'[c].start
  <2>1. b \in 1 .. n
    <3>1. b \in 1 .. n \/ b = n + 1
      BY <1>1, <1>4 DEF Closed
    <3>2. ASSUME b = n + 1 PROVE FALSE
      <4>1. c = n + 2 /\ Len(block') = n + 2
        BY <1>1, <1>4, <3>2 DEF Closed
      <4> QED
        BY <1>4, <4>1
    <3> QED
      BY <3>1, <3>2
  <2>2. CASE c \in 1 .. n
    BY <1>4, <2>1, <2>2 DEF WindowsApart, Closed
  <2>3. CASE c = n + 1
    <3>1. ~block[b].gap /\ block'[b].end = block[b].end
      BY <1>4, <2>1
    <3>2. block[b].end <= start
      BY <2>1, <3>1 DEF Current, Closed
    <3> QED
      BY <1>2, <2>3, <3>1, <3>2
  <2>4. CASE c = n + 2
    <3>1. Len(block') = n + 2
      BY <1>1, <1>4, <2>4 DEF Closed
    <3> QED
      BY <1>4, <2>4, <3>1
  <2>5. c \in 1 .. n \/ c = n + 1 \/ c = n + 2
    BY <1>1, <1>4 DEF Closed
  <2> QED
    BY <2>2, <2>3, <2>4, <2>5
<1>5. ASSUME NEW b \in Closed', NEW i \in 1 .. Count', Has(b, i)'
      PROVE  block'[b].start <= entry'[i] /\ entry'[i] <= block'[b].end
  <2>0. block'[b].from <= i /\ i <= block'[b].to
    BY <1>5 DEF Has
  <2>1. CASE b \in 1 .. n
    <3>1. block'[b] = block[b]
      BY <2>1
    <3>2. block[b].to < from /\ block[b].to \in Nat
      BY <1>3, <2>1
    <3>3. i <= block[b].to
      BY <2>0, <3>1
    <3>4. i \in 1 .. Count
      BY <1>1, <1>5, <3>2, <3>3
    <3>5. entry'[i] = entry[i] /\ Has(b, i) /\ b \in Closed
      BY <2>0, <2>1, <3>1, <3>4 DEF Has, Closed
    <3>6. block[b].start <= entry[i] /\ entry[i] <= block[b].end
      BY <3>4, <3>5 DEF WindowsApart
    <3> QED
      BY <3>1, <3>5, <3>6
  <2>2. CASE b = n + 1
    <3>1. i \in from .. Count
      BY <1>1, <1>2, <1>5, <2>0, <2>2
    <3>2. start <= entry[i] /\ entry[i] <= start + Dur
      BY <3>1 DEF Current
    <3>3. entry'[i] = entry[i]
      BY <1>1, <3>1
    <3> QED
      BY <1>2, <2>2, <3>2, <3>3
  <2>3. CASE b = n + 2
    <3>1. Len(block') = n + 2
      BY <1>1, <1>5, <2>3 DEF Closed
    <3>2. Count + 1 <= i /\ i <= Count
      BY <2>0, <2>3, <3>1
    <3> QED
      BY <1>1, <1>5, <3>2
  <2>4. b \in 1 .. n \/ b = n + 1 \/ b = n + 2
    BY <1>1, <1>5 DEF Closed
  <2> QED
    BY <2>1, <2>2, <2>3, <2>4
<1> QED
  BY <1>4, <1>5 DEF WindowsApart

LEMMA FirstApart ==
  ASSUME WindowInv, WholeHours, NEW t \in 0 .. MaxTs, First(t)
  PROVE  WindowsApart' /\ Current'
<1>1. /\ Typed /\ Ascending /\ Chained /\ Arrives(t) /\ entry = <<>> /\ block = <<>>
      /\ Count = 0 /\ block' = <<>>
  BY DEF WindowInv, PartInv, First, Chained, Arrives, Count
<1>2. t \in Nat /\ Count' = 1 /\ entry'[1] = t /\ from' = 1 /\ start' = floorToHour(t)
  BY <1>1, Arriving DEF First, Opens
<1>3. /\ start' \in Nat /\ start' % Hour = 0 /\ start' <= t /\ t <= start' + Dur
  BY <1>2, Floor, EndOnTheHour, BlocksAssumption
<1>4. WindowsApart'
  BY <1>1 DEF WindowsApart, Closed
<1>5. Current'
  BY <1>1, <1>2, <1>3 DEF Current, Closed
<1> QED
  BY <1>4, <1>5

LEMMA JoinsApart ==
  ASSUME WindowInv, WholeHours, NEW t \in 0 .. MaxTs, Joins(t)
  PROVE  WindowsApart' /\ Current'
<1>1. /\ Typed /\ Ascending /\ Chained /\ Arrives(t) /\ entry # <<>> /\ pc = "identify"
      /\ WindowsApart /\ Current
      /\ UNCHANGED <<block, start, from, pc>>
  BY DEF WindowInv, Windows, PartInv, Joins, Arrives
<1>2. /\ Count' = Count + 1 /\ entry'[Count + 1] = t /\ t \in Nat /\ Count \in Nat
      /\ \A i \in 1 .. Count : entry'[i] = entry[i]
      /\ LastTS \in Nat /\ LastTS <= t /\ Count >= 1
  BY <1>1, Arriving
<1>3. from \in 1 .. Count /\ start \in Nat /\ Dur \in Nat
  BY <1>1, BlocksAssumption DEF Typed
<1>4. start <= t /\ t <= start + Dur
  <2>1. start <= LastTS
    BY <1>1, <1>2, <1>3 DEF Current, LastTS
  <2>2. ~(t - start > Dur)
    BY DEF Joins, Over
  <2> QED
    BY <1>2, <1>3, <2>1, <2>2
<1>5. ASSUME NEW i \in from .. Count + 1 PROVE start <= entry'[i] /\ entry'[i] <= start + Dur
  <2>1. CASE i = Count + 1
    BY <1>2, <1>4, <2>1
  <2>2. CASE i # Count + 1
    <3>1. i \in from .. Count /\ i \in 1 .. Count
      BY <1>2, <1>3, <2>2
    <3> QED
      BY <1>1, <1>2, <3>1 DEF Current
  <2> QED
    BY <2>1, <2>2
<1>6. Current'
  BY <1>1, <1>2, <1>5 DEF Current, Closed
<1>7. ASSUME NEW b \in Closed, NEW i \in 1 .. Count + 1, Has(b, i)
      PROVE  block[b].start <= entry'[i] /\ entry'[i] <= block[b].end
  <2>1. block[b].to <= from - 1 /\ block[b] \in Block
    BY <1>1 DEF Chained, Taken, Typed, Closed
  <2>2. block[b].to \in Nat /\ i <= block[b].to
    BY <1>7, <2>1 DEF Block, Has
  <2>3. i \in 1 .. Count
    BY <1>2, <1>3, <2>1, <2>2
  <2> QED
    BY <1>1, <1>2, <1>7, <2>3 DEF WindowsApart
<1>8. WindowsApart'
  BY <1>1, <1>2, <1>7 DEF WindowsApart, Closed, Has
<1> QED
  BY <1>6, <1>8

LEMMA SplitsApart ==
  ASSUME WindowInv, WholeHours, NEW t \in 0 .. MaxTs, Splits(t)
  PROVE  WindowsApart' /\ Current'
<1>1. /\ Typed /\ Ascending /\ Chained /\ Arrives(t) /\ entry # <<>> /\ pc = "identify"
      /\ PartInv /\ WindowsApart /\ Current
  BY DEF WindowInv, Windows, PartInv, Splits, Arrives
<1>2. /\ Count' = Count + 1 /\ entry'[Count + 1] = t /\ t \in Nat /\ Count \in Nat
      /\ \A i \in 1 .. Count : entry'[i] = entry[i]
      /\ LastTS \in Nat /\ LastTS <= t /\ Count >= 1
  BY <1>1, Arriving
<1>3. from \in 1 .. Count /\ start \in Nat /\ Dur \in Nat /\ start % Hour = 0
  BY <1>1, BlocksAssumption DEF Typed, Current
<1>4. start + Dur <= t
  <2>1. start <= LastTS
    BY <1>1, <1>2, <1>3 DEF Current, LastTS
  <2>2. t - start > Dur \/ t - LastTS > Dur
    BY DEF Splits, Over, Silent
  <2> QED
    BY <1>2, <1>3, <2>1, <2>2
<1>5. start' = floorToHour(t) /\ from' = Count + 1
  BY DEF Splits, Opens
<1>6. /\ start' \in Nat /\ start' % Hour = 0 /\ start' <= t /\ t < start' + Hour
  BY <1>2, <1>5, Floor
<1>7. start + Dur <= start' /\ Hour <= Dur
  <2>1. (start + Dur) % Hour = 0 /\ Hour <= Dur /\ start + Dur \in Nat
    BY <1>3, EndOnTheHour
  <2> QED
    BY <1>2, <1>4, <1>5, <2>1, FloorAfter
<1>8. t <= start' + Dur
  <2>1. Hour \in Nat
    BY BlocksAssumption
  <2>2. t < start' + Hour /\ start' \in Nat
    BY <1>6
  <2>3. Hour <= Dur /\ Dur \in Nat /\ t \in Nat
    BY <1>2, <1>3, <1>7
  <2>4. \A x, h, d \in Nat : t < x + h /\ h <= d => t <= x + d
    BY <2>3
  <2> QED
    BY <2>1, <2>2, <2>3, <2>4
<1> DEFINE n == Len(block)
<1>9. /\ block' \in Seq(Block) /\ Len(block') \in {n + 1, n + 2} /\ n \in Nat
      /\ \A b \in 1 .. n : block'[b] = block[b] /\ block[b] \in Block
      /\ block'[n + 1] = buildBlock
      /\ buildBlock.start = start /\ buildBlock.end = start + Dur
      /\ Len(block') = n + 2 => block'[n + 2].gap /\ block'[n + 2].from = Count + 1
                                /\ block'[n + 2].to = Count
  BY <1>1, Cut, Built DEF Closed, Typed
<1>10. WindowsApart'
  BY <1>1, <1>2, <1>9, WindowsGrow
<1>11. ASSUME NEW b \in Closed', ~block'[b].gap PROVE block'[b].end <= start'
  <2>1. CASE b \in 1 .. n
    <3>1. block'[b] = block[b] /\ block[b] \in Block
      BY <1>9, <2>1
    <3>2. block[b].end \in Nat
      BY <3>1 DEF Block
    <3>3. block[b].end <= start
      BY <1>1, <1>11, <2>1, <3>1 DEF Current, Closed
    <3> QED
      BY <1>3, <1>6, <1>7, <3>1, <3>2, <3>3
  <2>2. CASE b = n + 1
    BY <1>7, <1>9, <2>2
  <2>3. CASE b = n + 2
    <3>1. Len(block') = n + 2
      BY <1>9, <1>11, <2>3 DEF Closed
    <3> QED
      BY <1>9, <1>11, <2>3, <3>1
  <2>4. b \in 1 .. n \/ b = n + 1 \/ b = n + 2
    BY <1>9, <1>11 DEF Closed
  <2> QED
    BY <2>1, <2>2, <2>3, <2>4
<1>12. ASSUME NEW i \in from' .. Count' PROVE start' <= entry'[i] /\ entry'[i] <= start' + Dur
  <2>1. i = Count + 1
    BY <1>2, <1>5
  <2> QED
    BY <1>2, <1>6, <1>8, <2>1
<1>13. Current'
  BY <1>6, <1>11, <1>12 DEF Current
<1> QED
  BY <1>10, <1>13

LEMMA ReturnApart ==
  ASSUME WindowInv, WholeHours, IdentifyReturns
  PROVE  WindowsApart' /\ Current'
<1>1. /\ Typed /\ PartInv /\ WindowsApart /\ Current /\ pc = "identify"
      /\ pc' = "perModel" /\ entry' = entry /\ Count' = Count
  BY DEF WindowInv, Windows, PartInv, IdentifyReturns, Count
<1>2. Current'
  BY <1>1 DEF Current
<1>3. CASE entry = <<>>
  <2>1. block' = block
    BY <1>3 DEF IdentifyReturns
  <2>2. WindowsApart /\ UNCHANGED <<block, entry, Count>>
    BY <1>1, <2>1
  <2> QED
    BY <1>2, <2>2 DEF WindowsApart, Closed, Has
<1>4. CASE entry # <<>>
  <2>1. block' = Append(block, buildBlock) /\ buildBlock \in Block /\ block \in Seq(Block)
    BY <1>1, <1>4, Built DEF IdentifyReturns, Typed
  <2>2. /\ block' \in Seq(Block) /\ Len(block') = Len(block) + 1 /\ Len(block) \in Nat
        /\ \A b \in 1 .. Len(block) : block'[b] = block[b]
        /\ block'[Len(block) + 1] = buildBlock
    BY <2>1
  <2>3. Count \in Nat
    BY <1>1 DEF Typed, Count
  <2> QED
    BY <1>1, <1>2, <1>4, <2>2, <2>3, WindowsGrow
<1> QED
  BY <1>2, <1>3, <1>4

LEMMA NextWindow == WindowInv /\ [Next]_vars => WindowInv'
<1> SUFFICES ASSUME WindowInv, [Next]_vars PROVE WindowInv'
  OBVIOUS
<1>1. PartInv'
  BY NextPart DEF WindowInv
<1>2. ASSUME WholeHours PROVE WindowsApart' /\ Current'
  <2>1. WindowsApart /\ Current
    BY <1>2 DEF WindowInv, Windows
  <2>2. CASE PopulatePerModel
    BY <2>1, <2>2 DEF PopulatePerModel, WindowsApart, Current, Closed, Has, Count
  <2>3. CASE UNCHANGED vars
    BY <2>1, <2>3 DEF vars, WindowsApart, Current, Closed, Has, Count
  <2> QED
    BY <1>2, <2>2, <2>3, FirstApart, JoinsApart, SplitsApart, ReturnApart DEF Next
<1>3. WholeHours' <=> WholeHours
  BY DEF WholeHours
<1>4. ASSUME ~WholeHours PROVE WindowsApart'
  BY <1>4 DEF WindowsApart, WholeHours
<1> QED
  BY <1>1, <1>2, <1>3, <1>4 DEF WindowInv, Windows

\* The windows shown for sessions of a whole number of hours do not overlap,
\* come in order, and contain their entries (identify.go buildBlock,
\* floorToHour).
THEOREM Disjoint == Spec => []WindowsApart
<1>1. WindowInv => WindowsApart
  BY DEF WindowInv, Windows
<1>2. QED
  BY <1>1, InitWindow, NextWindow, PTL DEF Spec

-----------------------------------------------------------------------------
(* What PopulatePerModel finds.                                            *)

\* A set of numbers has a least one.
LEMMA Least ==
  ASSUME NEW B \in SUBSET Nat, B # {}
  PROVE  \E b \in B : \A c \in B : b <= c
<1> DEFINE R == {ss \in Nat \X Nat : ss[1] < ss[2]}
<1>1. IsWellFoundedOn(R, Nat)
  BY NatLessThanWellFounded DEF OpToRel
<1>2. \A x, y \in Nat : <<y, x>> \in R <=> y < x
  OBVIOUS
<1> HIDE DEF R
<1>3. PICK b \in B : \A c \in B : <<c, b>> \notin R
  BY <1>1, WFMin
<1>4. ASSUME NEW c \in B PROVE b <= c
  <2>1. b \in Nat /\ c \in Nat
    OBVIOUS
  <2>2. <<c, b>> \in R <=> c < b
    BY <1>2, <2>1
  <2> QED
    BY <1>3, <2>1, <2>2
<1> QED
  BY <1>4

\* The first block that counts t in, if there is one.
LEMMA OwnerIsFirst ==
  ASSUME Typed, NEW t \in Nat
  PROVE  \/ Owner(t) = 0 /\ \A b \in Closed : ~CountsIn(b, t)
         \/ /\ Owner(t) \in Closed /\ CountsIn(Owner(t), t)
            /\ \A c \in Closed : CountsIn(c, t) => Owner(t) <= c
<1> DEFINE B == {b \in 1 .. Len(block) : CountsIn(b, t)}
<1>1. Len(block) \in Nat
  BY DEF Typed
<1>2. CASE B = {}
  BY <1>2 DEF Owner, Closed
<1>3. CASE B # {}
  <2>1. B \in SUBSET Nat
    BY <1>1
  <2>2. \E b \in B : \A c \in B : b <= c
    BY <1>3, <2>1, Least
  <2>3. Owner(t) = CHOOSE b \in B : \A c \in B : b <= c
    BY <1>3 DEF Owner
  <2>4. Owner(t) \in B /\ \A c \in B : Owner(t) <= c
    BY <2>2, <2>3
  <2> QED
    BY <2>4 DEF Closed
<1> QED
  BY <1>2, <1>3

Kinds ==
  /\ now \in 0 .. MaxTs
  /\ entry \in Seq(0 .. MaxTs) /\ Count <= MaxEntries
  /\ pc # "done" => owner = <<>>
  /\ pc = "done" => owner \in [1 .. Count -> 0 .. Len(block)]

LEMMA NextKinds ==
  ASSUME PartInv, Kinds, [Next]_vars
  PROVE  Kinds'
<1> Typed /\ Count \in Nat /\ Len(block) \in Nat
  BY DEF PartInv, Typed, Count
<1>1. CASE \E t \in 0 .. MaxTs : First(t) \/ Joins(t) \/ Splits(t)
  <2>1. PICK t \in 0 .. MaxTs : Arrives(t)
    BY <1>1 DEF First, Joins, Splits
  <2>2. entry' = Append(entry, t) /\ Count < MaxEntries /\ pc = "identify" /\ UNCHANGED <<now, pc, owner>>
    BY <2>1 DEF Arrives
  <2>3. entry' \in Seq(0 .. MaxTs) /\ Len(entry') = Len(entry) + 1
    BY <2>2 DEF Kinds
  <2>4. MaxEntries \in Nat
    BY BlocksAssumption
  <2> QED
    BY <2>2, <2>3, <2>4 DEF Kinds, Count
<1>2. CASE IdentifyReturns
  BY <1>2 DEF IdentifyReturns, Kinds, Count
<1>3. CASE PopulatePerModel
  <2>1. \A i \in 1 .. Count : entry[i] \in Nat
    BY DEF Typed, Count
  <2>2. \A i \in 1 .. Count : Owner(entry[i]) \in 0 .. Len(block)
    BY <2>1, OwnerIsFirst DEF Closed
  <2>3. owner' \in [1 .. Count -> 0 .. Len(block)]
    BY <1>3, <2>2 DEF PopulatePerModel
  <2> QED
    BY <1>3, <2>3 DEF PopulatePerModel, Kinds, Count
<1>4. CASE UNCHANGED vars
  BY <1>4 DEF vars, Kinds, Count
<1> QED
  BY <1>1, <1>2, <1>3, <1>4 DEF Next

\* Entries, blocks and owners keep their types, with the owner of each entry
\* one of the blocks or none.
THEOREM TypeCorrect == Spec => []TypeOK
<1>1. Init => PartInv /\ Kinds
  <2>1. MaxEntries \in Nat
    BY BlocksAssumption
  <2>2. Init => Kinds
    BY <2>1 DEF Init, Kinds, Count
  <2> QED
    BY <2>2, InitPart
<1>2. PartInv /\ Kinds => TypeOK
  BY DEF PartInv, Typed, Kinds, TypeOK
<1> QED
  BY <1>1, <1>2, NextPart, NextKinds, PTL DEF Spec

\* Each entry is counted in the block that has it.
LEMMA OwnBlock ==
  ASSUME PartInv, WholeHours, WindowsApart, NEW b \in Closed, NEW i \in 1 .. Count,
         pc # "identify", Has(b, i), entry[i] # block[b].end
  PROVE  Owner(entry[i]) = b
<1> DEFINE t == entry[i]
<1>1. t \in Nat /\ \A c \in Closed : c \in Nat /\ block[c].start \in Nat /\ block[c].end \in Nat
  <2>1. \A c \in Closed : c \in Nat /\ block[c] \in Block
    BY DEF PartInv, Typed, Closed
  <2>2. t \in Nat
    BY DEF PartInv, Typed, Count
  <2> QED
    BY <2>1, <2>2 DEF Block
<1>2. ~block[b].gap
  <2>1. block[b] \in Block /\ (block[b].gap => block[b].to < block[b].from)
    BY DEF PartInv, Typed, Closed, Chained
  <2>2. block[b].from \in Nat /\ block[b].to \in Nat /\ i \in Nat
    BY <2>1 DEF Block
  <2>3. block[b].from <= i /\ i <= block[b].to
    BY DEF Has
  <2> QED
    BY <2>1, <2>2, <2>3
<1>3. block[b].start <= t /\ t < block[b].end
  <2>1. block[b].start <= t /\ t <= block[b].end
    BY DEF WindowsApart
  <2> QED
    BY <1>1, <2>1
<1>4. CountsIn(b, t)
  BY <1>2, <1>3 DEF CountsIn
<1>5. ASSUME NEW c \in Closed, CountsIn(c, t) PROVE c = b
  <2>1. ~block[c].gap /\ block[c].start <= t /\ t < block[c].end
    BY <1>5 DEF CountsIn
  <2>2. c < b => block[c].end <= block[b].start
    BY <1>2, <2>1 DEF WindowsApart
  <2>3. b < c => block[b].end <= block[c].start
    BY <1>2, <2>1 DEF WindowsApart
  <2> QED
    BY <1>1, <1>3, <2>1, <2>2, <2>3
<1> HIDE DEF t
<1>6. Owner(t) = b
  BY <1>1, <1>4, <1>5, OwnerIsFirst DEF PartInv
<1> QED
  BY <1>6 DEF t

LEMMA NextOwner ==
  ASSUME WindowInv, OwnerAgrees, [Next]_vars
  PROVE  OwnerAgrees'
<1>1. CASE PopulatePerModel
  <2> SUFFICES ASSUME WholeHours, NEW b \in Closed, NEW i \in 1 .. Count,
                      Has(b, i), entry[i] # block[b].end
               PROVE  owner'[i] = b
    BY <1>1 DEF PopulatePerModel, OwnerAgrees, Closed, Count, Has, WholeHours
  <2>1. Owner(entry[i]) = b
    BY <1>1, OwnBlock DEF PopulatePerModel, WindowInv, Windows
  <2> QED
    BY <1>1, <2>1 DEF PopulatePerModel
<1>2. CASE UNCHANGED vars
  BY <1>2 DEF vars, OwnerAgrees, Closed, Count, Has, WholeHours
<1>3. CASE ~PopulatePerModel /\ ~UNCHANGED vars
  <2>1. pc' # "done"
    BY <1>3 DEF Next, First, Joins, Splits, Arrives, IdentifyReturns
  <2> QED
    BY <2>1 DEF OwnerAgrees
<1> QED
  BY <1>1, <1>2, <1>3

\* With sessions of whole hours the per-model figures of an entry go to the
\* block that has it in its totals, but for an entry at the very end of its
\* block (burn.go PopulatePerModel, identify.go).
THEOREM OwnersAgree == Spec => []OwnerAgrees
<1>1. Init => WindowInv /\ OwnerAgrees
  BY InitWindow DEF Init, OwnerAgrees
<1> QED
  BY <1>1, NextWindow, NextOwner, PTL DEF Spec

-----------------------------------------------------------------------------
(* Gaps and the active block.                                              *)

\* What a split leaves where nothing was: the current block, and a gap after
\* a silence.
LEMMA CutInto ==
  ASSUME Typed, Ascending, NEW t \in 0 .. MaxTs, Splits(t), NEW b \in Closed'
  PROVE  \/ b \in Closed /\ block'[b] = block[b]
         \/ block'[b] = buildBlock
         \/ Silent(t) /\ block'[b] = gapBlock(t)
<1>0. Arrives(t) /\ pc = "identify" /\ entry # <<>>
  BY DEF Splits, Arrives
<1>1. LastTS \in Nat /\ Count \in Nat /\ Dur \in Nat /\ t \in Nat
  BY <1>0, Arriving, BlocksAssumption
<1>2. gapBlock(t) \in Block /\ buildBlock \in Block
  BY <1>0, <1>1, Built DEF gapBlock, Block
<1>3. block \in Seq(Block) /\ Len(block) \in Nat
  BY DEF Typed
<1>4. CASE Silent(t)
  <2>1. block' = block \o <<buildBlock, gapBlock(t)>>
    BY <1>4 DEF Splits, Closing
  <2>2. /\ Len(block') = Len(block) + 2
        /\ \A c \in 1 .. Len(block) : block'[c] = block[c]
        /\ block'[Len(block) + 1] = buildBlock /\ block'[Len(block) + 2] = gapBlock(t)
    BY <1>2, <1>3, <2>1
  <2>3. b \in 1 .. Len(block) \/ b = Len(block) + 1 \/ b = Len(block) + 2
    BY <1>3, <2>2 DEF Closed
  <2> QED
    BY <1>4, <2>2, <2>3 DEF Closed
<1>5. CASE ~Silent(t)
  <2>1. block' = block \o <<buildBlock>>
    BY <1>5 DEF Splits, Closing
  <2>2. /\ Len(block') = Len(block) + 1
        /\ \A c \in 1 .. Len(block) : block'[c] = block[c]
        /\ block'[Len(block) + 1] = buildBlock
    BY <1>2, <1>3, <2>1
  <2>3. b \in 1 .. Len(block) \/ b = Len(block) + 1
    BY <1>3, <2>2 DEF Closed
  <2> QED
    BY <2>2, <2>3 DEF Closed
<1> QED
  BY <1>4, <1>5

\* No entry comes before the end of a gap once the gap is there.
GapInv ==
  \A b \in Closed : block[b].gap =>
    /\ entry # <<>> /\ block[b].end <= LastTS
    /\ block[b].start < block[b].end
    /\ \A i \in 1 .. Count : \/ entry[i] <= block[b].start - Dur
                             \/ block[b].end <= entry[i]

\* A block that is closed before the last entry is over by now.
ActiveInv == \A b \in Closed : block[b].active => pc # "identify" /\ b = Len(block)

\* An entry that comes after a gap began keeps it as it is.
LEMMA GapStays ==
  ASSUME PartInv, GapInv, NEW t \in 0 .. MaxTs, Arrives(t), NEW b \in Closed, block[b].gap
  PROVE  /\ entry' # <<>> /\ block[b].end <= LastTS'
         /\ block[b].start < block[b].end
         /\ \A i \in 1 .. Count' : \/ entry'[i] <= block[b].start - Dur
                                   \/ block[b].end <= entry'[i]
<1>1. Typed /\ Ascending /\ entry # <<>>
  BY DEF PartInv, GapInv
<1>2. /\ Count' = Count + 1 /\ Count \in Nat /\ entry' # <<>> /\ entry'[Count + 1] = t
      /\ \A i \in 1 .. Count : entry'[i] = entry[i]
      /\ LastTS \in Nat /\ LastTS <= t /\ t \in Nat
  BY <1>1, Arriving
<1>3. block[b] \in Block
  BY <1>1 DEF Typed, Closed
<1>4. block[b].end \in Nat /\ block[b].end <= LastTS
  BY <1>3 DEF GapInv, Block
<1>5. block[b].end <= t
  BY <1>2, <1>4
<1>6. LastTS' = t
  BY <1>2 DEF LastTS
<1>7. ASSUME NEW i \in 1 .. Count'
      PROVE  entry'[i] <= block[b].start - Dur \/ block[b].end <= entry'[i]
  <2>1. i \in 1 .. Count \/ i = Count + 1
    BY <1>2
  <2>2. CASE i \in 1 .. Count
    BY <1>2, <2>2 DEF GapInv
  <2>3. CASE i = Count + 1
    BY <1>2, <1>5, <2>3
  <2> QED
    BY <2>1, <2>2, <2>3
<1> QED
  BY <1>2, <1>5, <1>6, <1>7 DEF GapInv

LEMMA SplitsGap ==
  ASSUME PartInv, GapInv, NEW t \in 0 .. MaxTs, Splits(t)
  PROVE  GapInv'
<1>1. Typed /\ Ascending /\ Arrives(t) /\ entry # <<>> /\ pc = "identify"
  BY DEF PartInv, Splits, Arrives
<1> SUFFICES ASSUME NEW b \in Closed', block'[b].gap
             PROVE  /\ entry' # <<>> /\ block'[b].end <= LastTS'
                    /\ block'[b].start < block'[b].end
                    /\ \A i \in 1 .. Count' : \/ entry'[i] <= block'[b].start - Dur
                                              \/ block'[b].end <= entry'[i]
  BY DEF GapInv
<1>2. CASE b \in Closed /\ block'[b] = block[b]
  BY <1>1, <1>2, GapStays
<1>3. CASE Silent(t) /\ block'[b] = gapBlock(t)
  <2>1. /\ Count' = Count + 1 /\ Count \in Nat /\ entry' # <<>> /\ entry'[Count + 1] = t
        /\ \A i \in 1 .. Count : entry'[i] = entry[i]
        /\ LastTS \in Nat /\ LastTS <= t /\ Count >= 1 /\ t \in Nat
    BY <1>1, Arriving
  <2>2. Dur \in Nat /\ LastTS' = t
    BY <2>1, BlocksAssumption DEF LastTS
  <2>3. block'[b].start = LastTS + Dur /\ block'[b].end = t /\ LastTS + Dur < t
    <3>1. t - LastTS > Dur
      BY <1>3 DEF Silent
    <3>2. LastTS + Dur < t
      BY <2>1, <2>2, <3>1
    <3> QED
      BY <1>3, <3>2 DEF gapBlock
  <2>4. \A i \in 1 .. Count : entry[i] <= LastTS /\ entry[i] \in Nat
    BY <1>1, <2>1 DEF Ascending, LastTS, Typed, Count
  <2>5. ASSUME NEW i \in 1 .. Count'
        PROVE  entry'[i] <= block'[b].start - Dur \/ block'[b].end <= entry'[i]
    <3>1. CASE i = Count + 1
      BY <2>1, <2>3, <3>1
    <3>2. CASE i # Count + 1
      <4>1. i \in 1 .. Count
        BY <2>1, <3>2
      <4>2. entry'[i] = entry[i] /\ entry[i] <= LastTS /\ entry[i] \in Nat
        BY <2>1, <2>4, <4>1
      <4> QED
        BY <2>1, <2>2, <2>3, <4>2
    <3> QED
      BY <3>1, <3>2
  <2> QED
    BY <2>1, <2>2, <2>3, <2>5
<1> QED
  BY <1>1, <1>2, <1>3, CutInto, Built

LEMMA SplitsActive ==
  ASSUME PartInv, ActiveInv, NEW t \in 0 .. MaxTs, Splits(t)
  PROVE  ActiveInv'
<1>1. Typed /\ Ascending /\ Arrives(t) /\ entry # <<>> /\ pc = "identify"
  BY DEF PartInv, Splits, Arrives
<1>2. t \in Nat /\ LastTS \in Nat /\ start \in Nat /\ now \in Nat /\ Dur \in Nat /\ t <= now
  BY <1>1, Arriving, BlocksAssumption DEF Typed, Arrives
<1>3. ~Active(start + Dur, LastTS)
  <2>1. t - start > Dur \/ t - LastTS > Dur
    BY DEF Splits, Over, Silent
  <2> QED
    BY <1>2, <2>1 DEF Active
<1>4. ~buildBlock.active /\ ~gapBlock(t).active
  BY <1>3 DEF buildBlock, gapBlock
<1>5. ASSUME NEW b \in Closed' PROVE ~block'[b].active
  BY <1>1, <1>4, CutInto DEF ActiveInv
<1> QED
  BY <1>5 DEF ActiveInv

LEMMA ReturnGapActive ==
  ASSUME PartInv, GapInv, ActiveInv, IdentifyReturns
  PROVE  GapInv' /\ ActiveInv'
<1>1. Typed /\ pc = "identify" /\ pc' = "perModel" /\ UNCHANGED <<entry, Count, LastTS>>
  BY DEF PartInv, IdentifyReturns, Count, LastTS
<1>2. CASE entry = <<>>
  <2>1. block' = block /\ block = <<>>
    BY <1>2 DEF IdentifyReturns, PartInv, Chained
  <2> QED
    BY <2>1 DEF GapInv, ActiveInv, Closed
<1>3. CASE entry # <<>>
  <2>1. block' = Append(block, buildBlock) /\ buildBlock \in Block /\ block \in Seq(Block) /\ ~buildBlock.gap
    BY <1>1, <1>3, Built DEF IdentifyReturns, Typed
  <2>2. /\ Len(block') = Len(block) + 1 /\ Len(block) \in Nat
        /\ \A b \in 1 .. Len(block) : block'[b] = block[b]
        /\ block'[Len(block) + 1] = buildBlock
    BY <2>1
  <2>3. ASSUME NEW b \in Closed'
        PROVE  \/ b \in Closed /\ block'[b] = block[b]
               \/ b = Len(block') /\ ~block'[b].gap
    <3>1. b \in 1 .. Len(block) \/ b = Len(block) + 1
      BY <2>2, <2>3 DEF Closed
    <3> QED
      BY <2>1, <2>2, <3>1 DEF Closed
  <2>4. GapInv'
    BY <1>1, <2>3 DEF GapInv
  <2>5. ActiveInv'
    BY <1>1, <2>3 DEF ActiveInv
  <2> QED
    BY <2>4, <2>5
<1> QED
  BY <1>2, <1>3

LEMMA NextGapActive ==
  ASSUME PartInv, GapInv, ActiveInv, [Next]_vars
  PROVE  GapInv' /\ ActiveInv'
<1>1. CASE \E t \in 0 .. MaxTs : First(t) \/ Joins(t)
  <2>1. PICK t \in 0 .. MaxTs : Arrives(t) /\ block' = block /\ pc' = pc
    BY <1>1 DEF First, Joins, Arrives
  <2>2. Closed' = Closed
    BY <2>1 DEF Closed
  <2>3. GapInv'
    BY <2>1, <2>2, GapStays DEF GapInv
  <2>4. ActiveInv'
    BY <2>1, <2>2 DEF ActiveInv
  <2> QED
    BY <2>3, <2>4
<1>2. CASE PopulatePerModel \/ UNCHANGED vars
  <2>1. UNCHANGED <<entry, block>> /\ (pc # "identify" => pc' # "identify")
    BY <1>2 DEF PopulatePerModel, vars
  <2> QED
    BY <2>1 DEF GapInv, ActiveInv, Closed, Count, LastTS
<1> QED
  BY <1>1, <1>2, SplitsGap, SplitsActive, ReturnGapActive DEF Next

\* A gap is a silence of the session length: it begins when the silence has
\* lasted that long and ends with the entry that ends it, and no entry is in
\* it (identify.go gapBlock and the loop).
THEOREM GapsAreSilent == Spec => []GapsAreSilence
<1>1. Init => PartInv /\ GapInv /\ ActiveInv
  BY InitPart DEF Init, GapInv, ActiveInv, Closed
<1>2. GapInv => GapsAreSilence
  BY DEF GapInv, GapsAreSilence
<1> QED
  BY <1>1, <1>2, NextPart, NextGapActive, PTL DEF Spec

\* At most the last block is active, so LoadActive's first is the only one
\* (load.go LoadActive, identify.go buildBlock).
THEOREM OnlyOneActive == Spec => []OneActive
<1>1. Init => PartInv /\ GapInv /\ ActiveInv
  BY InitPart DEF Init, GapInv, ActiveInv, Closed
<1>2. ActiveInv => OneActive
  BY DEF ActiveInv, OneActive
<1> QED
  BY <1>1, <1>2, NextPart, NextGapActive, PTL DEF Spec
=============================================================================
