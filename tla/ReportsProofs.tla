---------------------------- MODULE ReportsProofs ----------------------------
(***************************************************************************)
(* What tokenmeter shows, and the database it shows it from, for any       *)
(* number of subscribers, processes, rows, kinds of row and prices: the    *)
(* streams of events, the database as it is searched, the pages of the     *)
(* dashboard, the reports of the command line, and what other agents leave *)
(* on disk for them.  Each is proved of its own specification;             *)
(* ServicesProofs takes them together.                                     *)
(***************************************************************************)
EXTENDS EventStream, SearchIndex, AgentReaders, UsageReports, SumProofs, SequenceTheorems

-----------------------------------------------------------------------------
(* EventStream.                                                            *)

StreamSpec == StreamInit /\ [][StreamNext]_streamVars

\* What a list holds after an append, a removal of its head and a catenation.
LEMMA Lengthened ==
  ASSUME NEW S, NEW list \in Seq(S), NEW x \in S, NEW new, new = Append(list, x)
  PROVE  /\ new \in Seq(S) /\ Len(list) \in Nat /\ Len(new) = Len(list) + 1
         /\ DOMAIN list = 1 .. Len(list) /\ DOMAIN new = 1 .. Len(list) + 1
         /\ new[Len(list) + 1] = x /\ \A i \in 1 .. Len(list) : new[i] = list[i]
OBVIOUS

LEMMA Shortened ==
  ASSUME NEW S, NEW list \in Seq(S), list # <<>>, NEW new, new = Tail(list)
  PROVE  /\ new \in Seq(S) /\ Head(list) \in S /\ Head(list) = list[1]
         /\ Len(list) \in Nat \ {0} /\ Len(new) = Len(list) - 1
         /\ DOMAIN list = 1 .. Len(list) /\ DOMAIN new = 1 .. Len(list) - 1
         /\ \A i \in 1 .. Len(list) - 1 : new[i] = list[i + 1]
OBVIOUS

Splices(new, list, more) ==
  /\ new \in Seq(Nat) /\ Len(list) \in Nat /\ Len(more) \in Nat
  /\ DOMAIN list = 1 .. Len(list) /\ DOMAIN more = 1 .. Len(more)
  /\ DOMAIN new = 1 .. Len(list) + Len(more)
  /\ \A i \in 1 .. Len(list) : new[i] = list[i]
  /\ \A i \in 1 .. Len(more) : new[Len(list) + i] = more[i]
  /\ \A i \in DOMAIN new : i \in 1 .. Len(list) \/ \E k \in 1 .. Len(more) : i = Len(list) + k

LEMMA Catenated == \A list, more \in Seq(Nat) : Splices(list \o more, list, more)
<1> SUFFICES ASSUME NEW list \in Seq(Nat), NEW more \in Seq(Nat) PROVE Splices(list \o more, list, more)
  OBVIOUS
<1>0. PICK new : new = list \o more
  OBVIOUS
<1>1. Len(list) \in Nat /\ Len(more) \in Nat
  OBVIOUS
<1>2. \A i \in 1 .. Len(list) + Len(more) : i \notin 1 .. Len(list) => i - Len(list) \in 1 .. Len(more)
  BY <1>1
<1>3. /\ new \in Seq(Nat) /\ DOMAIN new = 1 .. Len(list) + Len(more)
      /\ \A i \in 1 .. Len(list) : new[i] = list[i]
      /\ \A i \in 1 .. Len(more) : new[Len(list) + i] = more[i]
  BY <1>0
<1>4. \A i \in 1 .. Len(list) + Len(more) : i = Len(list) + (i - Len(list))
  BY <1>1
<1>5. \A i \in 1 .. Len(list) + Len(more) : i \in 1 .. Len(list) \/ \E k \in 1 .. Len(more) : i = Len(list) + k
  BY <1>2, <1>4
<1>6. DOMAIN list = 1 .. Len(list) /\ DOMAIN more = 1 .. Len(more)
  OBVIOUS
<1> QED
  BY <1>0, <1>1, <1>3, <1>5, <1>6 DEF Splices

\* A batch of SSEBuffer has every event of the set it is made of, once.
LEMMA BatchIs ==
  ASSUME NEW S, IsFiniteSet(S), NEW list \in SetToSeqs(S)
  PROVE  /\ list \in Seq(S) /\ OnScreen(list) = S
         /\ \A i, k \in DOMAIN list : list[i] = list[k] => i = k
<1> DEFINE n == Cardinality(S)
<1>1. n \in Nat
  BY FS_CardinalityType
<1>2. list \in [1 .. n -> S] /\ \A i, k \in 1 .. n : i # k => list[i] # list[k]
  BY DEF SetToSeqs
<1>3. ASSUME NEW x \in S, \A i \in 1 .. n : list[i] # x PROVE FALSE
  <2>1. IsFiniteSet(S \ {x}) /\ Cardinality(S \ {x}) = n - 1
    BY FS_RemoveElement
  <2>2. IsFiniteSet(1 .. n) /\ Cardinality(1 .. n) = n
    BY <1>1, FS_Interval
  <2>3. list \in [1 .. n -> S \ {x}]
    BY <1>2, <1>3
  <2>4. Cardinality(S \ {x}) < Cardinality(1 .. n)
    BY <1>1, <2>1, <2>2
  <2> DEFINE places == 1 .. n
             others == S \ {x}
  <2>5. IsFiniteSet(places) /\ IsFiniteSet(others) /\ list \in [places -> others]
        /\ Cardinality(others) < Cardinality(places)
    BY <2>1, <2>2, <2>3, <2>4
  <2> HIDE DEF n, places, others
  <2>6. \E i, k \in places : i # k /\ list[i] = list[k]
    BY <2>5, FS_PigeonHole
  <2> QED
    BY <1>2, <2>6 DEF places
<1> HIDE DEF n
<1>4. list \in Seq(S) /\ DOMAIN list = 1 .. n
  BY <1>1, <1>2
<1> QED
  BY <1>2, <1>3, <1>4 DEF OnScreen

LEMMA AlikeIs ==
  ASSUME NEW feed
  PROVE
  /\ \A n : Alike(feed, n, n)
  /\ \A n, m : Alike(feed, n, m) => Alike(feed, m, n) /\ (feed[n].token <=> feed[m].token)
  /\ \A n, m, k : Alike(feed, n, m) /\ Alike(feed, m, k) => Alike(feed, n, k)
  /\ \A n, m : feed[n].token /\ feed[m].token => (Alike(feed, n, m) <=> feed[n].sess = feed[m].sess)
BY DEF Alike

InBatches(out) == UNION {OnScreen(out[j]) : j \in DOMAIN out}

\* Of the first top events, what is on a screen, in the batches on
\* their way to it and held in the buffer.
Shows(feed, top, list, out, held) ==
  /\ list \in Seq(Nat) /\ out \in Seq(Seq(Nat)) /\ Len(out) <= OutCap
  /\ OnScreen(list) \cup InBatches(out) \cup held \subseteq 1 .. top
  /\ \A n \in InBatches(out) \cup held : feed[n].token
  /\ \A n \in 1 .. top : ~feed[n].token => n \in OnScreen(list)
  /\ \A i, k \in DOMAIN list : i < k /\ Alike(feed, list[i], list[k]) => list[i] < list[k]
  /\ \A n \in OnScreen(list), m \in InBatches(out) \cup held : Alike(feed, n, m) => n < m
  /\ \A n \in InBatches(out), m \in held : Alike(feed, n, m) => n < m
  /\ \A n, m \in held : Alike(feed, n, m) => n = m
  /\ \A j, k \in DOMAIN out : \A n \in OnScreen(out[j]), m \in OnScreen(out[k]) :
       j < k /\ Alike(feed, n, m) => n < m
  /\ \A j \in DOMAIN out : \A x, y \in DOMAIN out[j] : Alike(feed, out[j][x], out[j][y]) => x = y

\* Nothing newer of its session has been lost, and what `tm watch` shows.
Covers(feed, top, list, out, held) ==
  \A n \in 1 .. top : feed[n].token =>
    \E m \in OnScreen(list) \cup InBatches(out) \cup held : Alike(feed, n, m) /\ n <= m
Straight(top, list, out, held) ==
  out = <<>> /\ held = {} /\ Len(list) = top /\ \A i \in DOMAIN list : list[i] = i

LEMMA OnScreenIs ==
  ASSUME NEW list \in Seq(Nat), NEW x \in Nat, NEW new, new = Append(list, x)
  PROVE  OnScreen(new) = OnScreen(list) \cup {x}
<1>1. /\ DOMAIN list = 1 .. Len(list) /\ DOMAIN new = 1 .. Len(list) + 1 /\ Len(list) \in Nat
      /\ new[Len(list) + 1] = x /\ \A i \in 1 .. Len(list) : new[i] = list[i]
  BY Lengthened
<1>2. \A i : i \in 1 .. Len(list) + 1 <=> i \in 1 .. Len(list) \/ i = Len(list) + 1
  BY <1>1
<1>3. OnScreen(new) = {new[i] : i \in 1 .. Len(list) + 1} /\ OnScreen(list) = {list[i] : i \in 1 .. Len(list)}
  BY <1>1 DEF OnScreen
<1> QED
  BY <1>1, <1>2, <1>3

\* An event goes to the screen at once.
LEMMA Appears ==
  ASSUME NEW feed, NEW top \in Nat, NEW list, NEW out, NEW held,
         Shows(feed, top, list, out, held),
         NEW n, n = top + 1, ~feed[n].token \/ Straight(top, list, out, held),
         NEW new, new = Append(list, n)
  PROVE  /\ Shows(feed, n, new, out, held)
         /\ Covers(feed, top, list, out, held) => Covers(feed, n, new, out, held)
         /\ Straight(top, list, out, held) => Straight(n, new, out, held)
<1>1. n \in Nat /\ list \in Seq(Nat)
  BY DEF Shows
<1>2. /\ DOMAIN list = 1 .. Len(list) /\ DOMAIN new = 1 .. Len(list) + 1 /\ Len(list) \in Nat
      /\ new[Len(list) + 1] = n /\ \A i \in 1 .. Len(list) : new[i] = list[i]
      /\ new \in Seq(Nat) /\ Len(new) = Len(list) + 1
  BY <1>1, Lengthened
<1>3. OnScreen(new) = OnScreen(list) \cup {n}
  BY <1>1, OnScreenIs
<1>4. /\ \A i : i \in 1 .. n <=> i \in 1 .. top \/ i = n
      /\ \A i \in 1 .. top : i < n
  OBVIOUS
<1>5. /\ OnScreen(list) \cup InBatches(out) \cup held \subseteq 1 .. top
      /\ \A m \in InBatches(out) \cup held : feed[m].token
      /\ out \in Seq(Seq(Nat)) /\ Len(out) <= OutCap
  BY DEF Shows
<1>6. \A m \in InBatches(out) \cup held : ~Alike(feed, n, m)
  <2>1. CASE ~feed[n].token
    BY <1>5, <2>1, AlikeIs
  <2>2. CASE Straight(top, list, out, held)
    BY <2>2 DEF Straight, InBatches
  <2> QED
    BY <2>1, <2>2
<1>7. Shows(feed, n, new, out, held)
  <2>1. \A i, k \in DOMAIN new : i < k /\ Alike(feed, new[i], new[k]) => new[i] < new[k]
    <3> SUFFICES ASSUME NEW i \in DOMAIN new, NEW k \in DOMAIN new, i < k, Alike(feed, new[i], new[k])
                 PROVE  new[i] < new[k]
      OBVIOUS
    <3>1. i \in DOMAIN list /\ new[i] = list[i]
      BY <1>2
    <3>2. CASE k = Len(list) + 1
      <4>1. list[i] \in 1 .. top /\ new[k] = n
        BY <1>2, <1>5, <3>1, <3>2 DEF OnScreen
      <4> QED
        BY <1>4, <3>1, <4>1
    <3>3. CASE k # Len(list) + 1
      <4>1. k \in 1 .. Len(list) + 1 /\ Len(list) \in Nat
        BY <1>2
      <4>2. k \in 1 .. Len(list)
        BY <3>3, <4>1
      <4>3. k \in DOMAIN list /\ new[k] = list[k]
        BY <1>2, <4>2
      <4> QED
        BY <3>1, <4>3 DEF Shows
    <3> QED
      BY <3>2, <3>3
  <2>2. \A m \in OnScreen(new), k \in InBatches(out) \cup held : Alike(feed, m, k) => m < k
    <3>1. \A m \in OnScreen(list), k \in InBatches(out) \cup held : Alike(feed, m, k) => m < k
      BY DEF Shows
    <3> QED
      BY <1>3, <1>6, <3>1, Zenon
  <2>3. \A m \in 1 .. n : ~feed[m].token => m \in OnScreen(new)
    BY <1>3, <1>4 DEF Shows
  <2>4. OnScreen(new) \cup InBatches(out) \cup held \subseteq 1 .. n
    BY <1>3, <1>4, <1>5
  <2> QED
    BY <1>2, <1>5, <2>1, <2>2, <2>3, <2>4 DEF Shows
<1>8. Covers(feed, top, list, out, held) => Covers(feed, n, new, out, held)
  <2> SUFFICES ASSUME Covers(feed, top, list, out, held), NEW m \in 1 .. n, feed[m].token
               PROVE  \E k \in OnScreen(new) \cup InBatches(out) \cup held : Alike(feed, m, k) /\ m <= k
    BY DEF Covers
  <2>1. CASE m = n
    <3>1. n \in OnScreen(new) /\ Alike(feed, m, n) /\ m <= n
      BY <1>1, <1>3, <2>1, AlikeIs
    <3> QED
      BY <3>1
  <2>2. CASE m # n
    BY <1>3, <1>4, <2>2 DEF Covers
  <2> QED
    BY <2>1, <2>2
<1>9. Straight(top, list, out, held) => Straight(n, new, out, held)
  <2> SUFFICES ASSUME Straight(top, list, out, held) PROVE Straight(n, new, out, held)
    OBVIOUS
  <2>1. Len(list) = top /\ \A i \in 1 .. Len(list) : list[i] = i
    BY <1>2 DEF Straight
  <2>2. \A i \in 1 .. Len(list) + 1 : new[i] = i
    <3>1. TAKE i \in 1 .. Len(list) + 1
    <3>2. CASE i = Len(list) + 1
      BY <1>2, <2>1, <3>2
    <3>3. CASE i # Len(list) + 1
      <4>1. i \in 1 .. Len(list)
        BY <1>2, <3>3
      <4> QED
        BY <1>2, <2>1, <4>1
    <3> QED
      BY <3>2, <3>3
  <2>3. Len(new) = n
    BY <1>2, <2>1
  <2> QED
    BY <1>2, <2>2, <2>3 DEF Straight
<1> QED
  BY <1>7, <1>8, <1>9

\* An event goes into the buffer, in the place of an older one of its session.
LEMMA Buffered ==
  ASSUME NEW feed, NEW top \in Nat, NEW list, NEW out, NEW held,
         Shows(feed, top, list, out, held), NEW n, n = top + 1, feed[n].token,
         NEW new, new = {x \in held : feed[x].sess # feed[n].sess} \cup {n}
  PROVE  /\ Shows(feed, n, list, out, new)
         /\ Covers(feed, top, list, out, held) => Covers(feed, n, list, out, new)
<1>1. /\ \A i : i \in 1 .. n <=> i \in 1 .. top \/ i = n
      /\ \A i \in 1 .. top : i < n
      /\ n \in Nat
  OBVIOUS
<1>2. /\ OnScreen(list) \cup InBatches(out) \cup held \subseteq 1 .. top
      /\ \A m \in InBatches(out) \cup held : feed[m].token
  BY DEF Shows
<1>3. \A x \in held : x \in new \/ Alike(feed, x, n)
  BY <1>2, AlikeIs
<1>4. n \in new /\ \A x \in new : x = n \/ (x \in held /\ ~Alike(feed, x, n))
  BY <1>2, AlikeIs
<1>5. Shows(feed, n, list, out, new)
  <2>1. OnScreen(list) \cup InBatches(out) \cup new \subseteq 1 .. n
    BY <1>1, <1>2, <1>4
  <2>2. \A m \in InBatches(out) \cup new : feed[m].token
    BY <1>2, <1>4
  <2>3. \A m \in 1 .. n : ~feed[m].token => m \in OnScreen(list)
    BY <1>1 DEF Shows
  <2>4. \A m \in OnScreen(list), k \in InBatches(out) \cup new : Alike(feed, m, k) => m < k
    BY <1>1, <1>2, <1>4 DEF Shows
  <2>5. \A m \in InBatches(out), k \in new : Alike(feed, m, k) => m < k
    BY <1>1, <1>2, <1>4 DEF Shows
  <2>6. \A m, k \in new : Alike(feed, m, k) => m = k
    <3>1. \A m, k \in held : Alike(feed, m, k) => m = k
      BY DEF Shows
    <3>2. \A m, k : Alike(feed, m, k) => Alike(feed, k, m)
      BY AlikeIs
    <3> QED
      BY <1>4, <3>1, <3>2
  <2> QED
    BY <2>1, <2>2, <2>3, <2>4, <2>5, <2>6 DEF Shows
<1>6. Covers(feed, top, list, out, held) => Covers(feed, n, list, out, new)
  <2> SUFFICES ASSUME Covers(feed, top, list, out, held), NEW m \in 1 .. n, feed[m].token
               PROVE  \E k \in OnScreen(list) \cup InBatches(out) \cup new : Alike(feed, m, k) /\ m <= k
    BY DEF Covers
  <2>1. CASE m = n
    <3>1. Alike(feed, m, n) /\ m <= n
      BY <1>1, <2>1, AlikeIs
    <3> QED
      BY <1>4, <3>1
  <2>2. CASE m # n
    <3>1. m \in 1 .. top /\ m < n
      BY <1>1, <2>2
    <3>2. PICK k \in OnScreen(list) \cup InBatches(out) \cup held : Alike(feed, m, k) /\ m <= k
      BY <3>1 DEF Covers
    <3>3. CASE Alike(feed, k, n)
      <4>1. Alike(feed, m, n) /\ m <= n
        BY <3>1, <3>2, <3>3, AlikeIs
      <4> QED
        BY <1>4, <4>1
    <3>4. CASE ~Alike(feed, k, n)
      BY <1>3, <3>2, <3>4
    <3> QED
      BY <3>3, <3>4
  <2> QED
    BY <2>1, <2>2
<1> QED
  BY <1>5, <1>6

\* The buffer becomes a batch, or is lost.
LEMMA Batched ==
  ASSUME NEW feed, NEW top \in Nat, NEW list, NEW out, NEW held,
         Shows(feed, top, list, out, held), NEW batch \in SetToSeqs(held), Len(out) < OutCap,
         NEW new, new = Append(out, batch)
  PROVE  /\ Shows(feed, top, list, new, {})
         /\ Covers(feed, top, list, out, held) => Covers(feed, top, list, new, {})
<1>1. IsFiniteSet(held) /\ held \subseteq Nat
  <2>1. held \subseteq 1 .. top /\ 1 .. top \subseteq Nat
    BY DEF Shows
  <2>2. IsFiniteSet(1 .. top)
    BY FS_Interval
  <2> QED
    BY <2>1, <2>2, FS_Subset
<1>2. /\ batch \in Seq(held) /\ OnScreen(batch) = held
      /\ \A i, k \in DOMAIN batch : batch[i] = batch[k] => i = k
  BY <1>1, BatchIs
<1>3. batch \in Seq(Nat)
  <2>1. batch \in [1 .. Len(batch) -> held] /\ Len(batch) \in Nat
    BY <1>2
  <2>2. batch \in [1 .. Len(batch) -> Nat]
    BY <1>1, <2>1
  <2> QED
    BY <2>1, <2>2
<1>4. out \in Seq(Seq(Nat)) /\ OutCap \in Nat
  BY StreamAssumption DEF Shows
<1>5. /\ new \in Seq(Seq(Nat)) /\ Len(out) \in Nat /\ Len(new) = Len(out) + 1
      /\ DOMAIN out = 1 .. Len(out) /\ DOMAIN new = 1 .. Len(out) + 1
      /\ new[Len(out) + 1] = batch /\ \A i \in 1 .. Len(out) : new[i] = out[i]
  <2> DEFINE S == Seq(Nat)
  <2>1. out \in Seq(S) /\ batch \in S
    BY <1>3, <1>4
  <2> HIDE DEF S
  <2>2. /\ new \in Seq(S) /\ Len(out) \in Nat /\ Len(new) = Len(out) + 1
        /\ DOMAIN out = 1 .. Len(out) /\ DOMAIN new = 1 .. Len(out) + 1
        /\ new[Len(out) + 1] = batch /\ \A i \in 1 .. Len(out) : new[i] = out[i]
    BY <2>1, Lengthened
  <2> QED
    BY <2>2 DEF S
<1>6. \A j \in DOMAIN new : (j \in DOMAIN out /\ new[j] = out[j]) \/ new[j] = batch
  BY <1>5
<1>7. \A j \in DOMAIN out : j \in DOMAIN new /\ new[j] = out[j] /\ j < Len(out) + 1
  BY <1>5
<1>8. InBatches(new) = InBatches(out) \cup held
  <2>1. \A x \in InBatches(new) : x \in InBatches(out) \cup held
    BY <1>2, <1>6 DEF InBatches
  <2>2. \A x \in InBatches(out) : x \in InBatches(new)
    BY <1>7 DEF InBatches
  <2>3. \A x \in held : x \in InBatches(new)
    <3>1. Len(out) + 1 \in DOMAIN new
      BY <1>5
    <3> QED
      BY <1>2, <1>5, <3>1 DEF InBatches
  <2> QED
    BY <2>1, <2>2, <2>3
<1>9. \A j \in DOMAIN out : \A n \in OnScreen(out[j]) : n \in InBatches(out)
  BY DEF InBatches
<1>10. Shows(feed, top, list, new, {})
  <2>1. OnScreen(list) \cup InBatches(new) \cup {} \subseteq 1 .. top
    BY <1>8 DEF Shows
  <2>2. \A m \in InBatches(new) \cup {} : feed[m].token
    BY <1>8 DEF Shows
  <2>3. \A m \in OnScreen(list), k \in InBatches(new) \cup {} : Alike(feed, m, k) => m < k
    BY <1>8 DEF Shows
  <2>4. \A j, k \in DOMAIN new : \A n \in OnScreen(new[j]), m \in OnScreen(new[k]) :
          j < k /\ Alike(feed, n, m) => n < m
    <3> SUFFICES ASSUME NEW j \in DOMAIN new, NEW k \in DOMAIN new, j < k,
                        NEW n \in OnScreen(new[j]), NEW m \in OnScreen(new[k]), Alike(feed, n, m)
                 PROVE  n < m
      OBVIOUS
    <3>1. j \in DOMAIN out /\ new[j] = out[j]
      BY <1>5
    <3>2. CASE k \in DOMAIN out /\ new[k] = out[k]
      BY <3>1, <3>2 DEF Shows
    <3>3. CASE new[k] = batch
      <4>1. m \in held /\ n \in InBatches(out)
        BY <1>2, <1>9, <3>1, <3>3
      <4> QED
        BY <4>1 DEF Shows
    <3> QED
      BY <1>6, <3>2, <3>3
  <2>5. \A j \in DOMAIN new : \A x, y \in DOMAIN new[j] : Alike(feed, new[j][x], new[j][y]) => x = y
    <3> SUFFICES ASSUME NEW j \in DOMAIN new, NEW x \in DOMAIN new[j], NEW y \in DOMAIN new[j],
                        Alike(feed, new[j][x], new[j][y])
                 PROVE  x = y
      OBVIOUS
    <3>1. CASE j \in DOMAIN out /\ new[j] = out[j]
      BY <3>1 DEF Shows
    <3>2. CASE new[j] = batch
      <4>1. batch[x] \in held /\ batch[y] \in held
        BY <1>2, <3>2 DEF OnScreen
      <4>2. batch[x] = batch[y]
        BY <3>2, <4>1 DEF Shows
      <4> QED
        BY <1>2, <3>2, <4>2
    <3> QED
      BY <1>6, <3>1, <3>2
  <2>6. Len(new) <= OutCap
    BY <1>4, <1>5
  <2>7. list \in Seq(Nat) /\ \A m \in 1 .. top : ~feed[m].token => m \in OnScreen(list)
    BY DEF Shows
  <2>8. \A i, k \in DOMAIN list : i < k /\ Alike(feed, list[i], list[k]) => list[i] < list[k]
    BY DEF Shows
  <2> QED
    BY <1>5, <2>1, <2>2, <2>3, <2>4, <2>5, <2>6, <2>7, <2>8 DEF Shows
<1>11. Covers(feed, top, list, out, held) => Covers(feed, top, list, new, {})
  BY <1>8 DEF Covers
<1> QED
  BY <1>10, <1>11

LEMMA BufferLost ==
  ASSUME NEW feed, NEW top, NEW list, NEW out, NEW held, Shows(feed, top, list, out, held)
  PROVE  Shows(feed, top, list, out, {})
<1>1. \A n : n \in InBatches(out) \cup {} => n \in InBatches(out) \cup held
  OBVIOUS
<1>2. OnScreen(list) \cup InBatches(out) \cup {} \subseteq 1 .. top
  BY DEF Shows
<1> QED
  BY <1>1, <1>2 DEF Shows

\* A batch goes to the screen.
LEMMA BatchShown ==
  ASSUME NEW feed, NEW top \in Nat, NEW list, NEW out, NEW held,
         Shows(feed, top, list, out, held), out # <<>>,
         NEW new, new = list \o Head(out), NEW rest, rest = Tail(out)
  PROVE  /\ Shows(feed, top, new, rest, held)
         /\ Covers(feed, top, list, out, held) => Covers(feed, top, new, rest, held)
<1>1. list \in Seq(Nat) /\ out \in Seq(Seq(Nat)) /\ OutCap \in Nat /\ Len(out) <= OutCap
  BY StreamAssumption DEF Shows
<1>2. PICK batch : batch = Head(out)
  OBVIOUS
<1>3. /\ rest \in Seq(Seq(Nat)) /\ batch \in Seq(Nat) /\ batch = out[1]
      /\ Len(out) \in Nat \ {0} /\ Len(rest) = Len(out) - 1
      /\ DOMAIN out = 1 .. Len(out) /\ DOMAIN rest = 1 .. Len(out) - 1
      /\ \A i \in 1 .. Len(out) - 1 : rest[i] = out[i + 1]
  <2> DEFINE S == Seq(Nat)
  <2>1. out \in Seq(S)
    BY <1>1
  <2> HIDE DEF S
  <2>2. /\ rest \in Seq(S) /\ batch \in S /\ batch = out[1]
        /\ Len(out) \in Nat \ {0} /\ Len(rest) = Len(out) - 1
        /\ DOMAIN out = 1 .. Len(out) /\ DOMAIN rest = 1 .. Len(out) - 1
        /\ \A i \in 1 .. Len(out) - 1 : rest[i] = out[i + 1]
    BY <1>2, <2>1, Shortened
  <2> QED
    BY <2>2 DEF S
<1>4. /\ new \in Seq(Nat) /\ Len(list) \in Nat /\ Len(batch) \in Nat
      /\ DOMAIN list = 1 .. Len(list) /\ DOMAIN batch = 1 .. Len(batch)
      /\ DOMAIN new = 1 .. Len(list) + Len(batch)
      /\ \A i \in 1 .. Len(list) : new[i] = list[i]
      /\ \A i \in 1 .. Len(batch) : new[Len(list) + i] = batch[i]
      /\ \A i \in DOMAIN new : i \in 1 .. Len(list) \/ \E k \in 1 .. Len(batch) : i = Len(list) + k
  <2>1. new = list \o batch
    BY <1>2
  <2>2. Splices(new, list, batch)
    BY <1>1, <1>3, <2>1, Catenated
  <2> QED
    BY <2>2 DEF Splices
<1>5. /\ \A j \in DOMAIN rest : j + 1 \in DOMAIN out /\ rest[j] = out[j + 1] /\ 1 < j + 1
      /\ \A j \in DOMAIN out : j = 1 \/ (j - 1 \in DOMAIN rest /\ rest[j - 1] = out[j])
      /\ 1 \in DOMAIN out
  <2>1. \A j \in 1 .. Len(out) - 1 : j + 1 \in 1 .. Len(out) /\ 1 < j + 1
    BY <1>3
  <2>2. \A j \in 1 .. Len(out) : j = 1 \/ (j - 1 \in 1 .. Len(out) - 1 /\ (j - 1) + 1 = j)
    BY <1>3
  <2>3. 1 \in 1 .. Len(out)
    BY <1>3
  <2> QED
    BY <1>3, <2>1, <2>2, <2>3
<1>6. OnScreen(new) = OnScreen(list) \cup OnScreen(batch)
  <2>1. \A i \in 1 .. Len(list) : i \in DOMAIN new
    BY <1>4
  <2>2. \A i \in 1 .. Len(batch) : Len(list) + i \in DOMAIN new
    BY <1>4
  <2>3. ASSUME NEW x \in OnScreen(new) PROVE x \in OnScreen(list) \cup OnScreen(batch)
    <3>1. PICK i \in DOMAIN new : x = new[i]
      BY DEF OnScreen
    <3>2. CASE i \in 1 .. Len(list)
      BY <1>4, <3>1, <3>2 DEF OnScreen
    <3>3. ASSUME NEW k \in 1 .. Len(batch), i = Len(list) + k
          PROVE  x \in OnScreen(batch)
      <4>1. x = batch[k] /\ k \in DOMAIN batch
        BY <1>4, <3>1, <3>3
      <4> QED
        BY <4>1 DEF OnScreen
    <3> QED
      BY <1>4, <3>2, <3>3
  <2>4. \A x \in OnScreen(list) : x \in OnScreen(new)
    BY <1>4, <2>1 DEF OnScreen
  <2>5. \A x \in OnScreen(batch) : x \in OnScreen(new)
    BY <1>4, <2>2 DEF OnScreen
  <2> QED
    BY <2>3, <2>4, <2>5
<1>7. InBatches(out) = OnScreen(batch) \cup InBatches(rest)
  <2>1. ASSUME NEW x \in InBatches(out) PROVE x \in OnScreen(batch) \cup InBatches(rest)
    <3>1. PICK j \in DOMAIN out : x \in OnScreen(out[j])
      BY DEF InBatches
    <3>2. CASE j = 1
      BY <1>3, <3>1, <3>2
    <3>3. CASE j - 1 \in DOMAIN rest /\ rest[j - 1] = out[j]
      BY <3>1, <3>3 DEF InBatches
    <3> QED
      BY <1>5, <3>2, <3>3
  <2>2. \A x \in OnScreen(batch) : x \in InBatches(out)
    BY <1>3, <1>5 DEF InBatches
  <2>3. \A x \in InBatches(rest) : x \in InBatches(out)
    BY <1>5 DEF InBatches
  <2> QED
    BY <2>1, <2>2, <2>3
<1>8. \A n \in OnScreen(batch), m \in InBatches(rest) : Alike(feed, n, m) => n < m
  <2> SUFFICES ASSUME NEW n \in OnScreen(batch), NEW m \in InBatches(rest), Alike(feed, n, m) PROVE n < m
    OBVIOUS
  <2>1. PICK j \in DOMAIN rest : m \in OnScreen(rest[j])
    BY DEF InBatches
  <2> QED
    BY <1>3, <1>5, <2>1 DEF Shows
<1>9. Shows(feed, top, new, rest, held)
  <2>1. \A i, k \in DOMAIN new : i < k /\ Alike(feed, new[i], new[k]) => new[i] < new[k]
    <3> SUFFICES ASSUME NEW i \in DOMAIN new, NEW k \in DOMAIN new, i < k, Alike(feed, new[i], new[k])
                 PROVE  new[i] < new[k]
      OBVIOUS
    <3>1. CASE k \in 1 .. Len(list)
      <4>1. i \in 1 .. Len(list)
        BY <1>4, <3>1
      <4> QED
        BY <1>4, <3>1, <4>1 DEF Shows
    <3>2. ASSUME NEW y \in 1 .. Len(batch), k = Len(list) + y
          PROVE  new[i] < new[k]
      <4>1. new[k] = batch[y] /\ batch[y] \in OnScreen(batch)
        BY <1>4, <3>2 DEF OnScreen
      <4>2. CASE i \in 1 .. Len(list)
        <5>1. new[i] \in OnScreen(list)
          BY <1>4, <4>2 DEF OnScreen
        <5> QED
          BY <1>7, <4>1, <5>1 DEF Shows
      <4>3. ASSUME NEW x \in 1 .. Len(batch), i = Len(list) + x
            PROVE  FALSE
        <5>1. new[i] = batch[x]
          BY <1>4, <4>3
        <5>2. x = y
          <6>1. \A u, v \in DOMAIN batch : Alike(feed, batch[u], batch[v]) => u = v
            BY <1>3, <1>5 DEF Shows
          <6> QED
            BY <1>4, <4>1, <5>1, <6>1
        <5> QED
          BY <1>4, <3>2, <4>3, <5>2
      <4> QED
        BY <1>4, <4>2, <4>3
    <3> QED
      BY <1>4, <3>1, <3>2
  <2>2. OnScreen(new) \cup InBatches(rest) \cup held \subseteq 1 .. top
    BY <1>6, <1>7 DEF Shows
  <2>3. \A n \in InBatches(rest) \cup held : feed[n].token
    BY <1>7 DEF Shows
  <2>4. \A n \in 1 .. top : ~feed[n].token => n \in OnScreen(new)
    BY <1>6 DEF Shows
  <2>5. \A n \in OnScreen(new), m \in InBatches(rest) \cup held : Alike(feed, n, m) => n < m
    BY <1>6, <1>7, <1>8 DEF Shows
  <2>6. \A n \in InBatches(rest), m \in held : Alike(feed, n, m) => n < m
    BY <1>7 DEF Shows
  <2>7. \A n, m \in held : Alike(feed, n, m) => n = m
    BY DEF Shows
  <2>8. \A j, k \in DOMAIN rest : \A n \in OnScreen(rest[j]), m \in OnScreen(rest[k]) :
          j < k /\ Alike(feed, n, m) => n < m
    <3>1. \A j, k \in DOMAIN rest : j < k => j + 1 < k + 1
      BY <1>3
    <3> QED
      BY <1>5, <3>1 DEF Shows
  <2>9. \A j \in DOMAIN rest : \A x, y \in DOMAIN rest[j] : Alike(feed, rest[j][x], rest[j][y]) => x = y
    BY <1>5 DEF Shows
  <2>10. Len(rest) <= OutCap
    BY <1>1, <1>3
  <2> QED
    BY <1>3, <1>4, <2>1, <2>2, <2>3, <2>4, <2>5, <2>6, <2>7, <2>8, <2>9, <2>10 DEF Shows
<1>10. Covers(feed, top, list, out, held) => Covers(feed, top, new, rest, held)
  BY <1>6, <1>7 DEF Covers
<1> QED
  BY <1>9, <1>10

\* What is true of the first events is true whatever follows.
LEMMA FeedGrows ==
  ASSUME NEW feed, NEW more, NEW top \in Nat, NEW list, NEW out, NEW held,
         Shows(feed, top, list, out, held), \A i \in 1 .. top : more[i] = feed[i]
  PROVE  /\ Shows(more, top, list, out, held)
         /\ Covers(feed, top, list, out, held) => Covers(more, top, list, out, held)
<1>1. \A n, m \in 1 .. top : Alike(more, n, m) <=> Alike(feed, n, m)
  BY DEF Alike
<1>2. OnScreen(list) \cup InBatches(out) \cup held \subseteq 1 .. top
  BY DEF Shows
<1>3. \A i \in DOMAIN list : list[i] \in 1 .. top
  BY <1>2 DEF OnScreen
<1>4. \A j \in DOMAIN out : OnScreen(out[j]) \subseteq 1 .. top
  BY <1>2 DEF InBatches
<1>5. \A j \in DOMAIN out : \A x \in DOMAIN out[j] : out[j][x] \in 1 .. top
  BY <1>4 DEF OnScreen
<1>6. Shows(more, top, list, out, held)
  <2>1. \A n \in InBatches(out) \cup held : more[n].token
    BY <1>2 DEF Shows
  <2>2. \A n \in 1 .. top : ~more[n].token => n \in OnScreen(list)
    BY DEF Shows
  <2>3. \A i, k \in DOMAIN list : i < k /\ Alike(more, list[i], list[k]) => list[i] < list[k]
    BY <1>1, <1>3 DEF Shows
  <2>4. /\ \A n \in OnScreen(list), m \in InBatches(out) \cup held : Alike(more, n, m) => n < m
        /\ \A n \in InBatches(out), m \in held : Alike(more, n, m) => n < m
        /\ \A n, m \in held : Alike(more, n, m) => n = m
    BY <1>1, <1>2 DEF Shows
  <2>5. \A j, k \in DOMAIN out : \A n \in OnScreen(out[j]), m \in OnScreen(out[k]) :
          j < k /\ Alike(more, n, m) => n < m
    BY <1>1, <1>4 DEF Shows
  <2>6. \A j \in DOMAIN out : \A x, y \in DOMAIN out[j] : Alike(more, out[j][x], out[j][y]) => x = y
    BY <1>1, <1>5 DEF Shows
  <2> QED
    BY <1>2, <2>1, <2>2, <2>3, <2>4, <2>5, <2>6 DEF Shows
<1>7. ASSUME Covers(feed, top, list, out, held) PROVE Covers(more, top, list, out, held)
  <2> SUFFICES ASSUME NEW n \in 1 .. top, more[n].token
               PROVE  \E m \in OnScreen(list) \cup InBatches(out) \cup held : Alike(more, n, m) /\ n <= m
    BY DEF Covers
  <2>1. PICK m \in OnScreen(list) \cup InBatches(out) \cup held : Alike(feed, n, m) /\ n <= m
    BY <1>7 DEF Covers
  <2> QED
    BY <1>1, <1>2, <2>1
<1> QED
  BY <1>6, <1>7

\* What a client's side of the stream is made of.
Buffer == [latest : SUBSET Nat, out : Seq(Seq(Nat)), stopped : BOOLEAN, closed : BOOLEAN]
CastStages == {"none", "due", "write", "sent", "failed", "drop"}

StreamTyped ==
  /\ fed \in [Caster -> Nat] /\ stage \in [Caster -> [Client -> CastStages]]
  /\ timed \in SUBSET Client /\ subs \in SUBSET Client /\ spilled \in SUBSET Client /\ swept \in BOOLEAN
  /\ sock \in [Client -> {"none", "dialled", "open", "shut"}]
  /\ scrap \in [Client -> {"none", "part", "more"}]
  /\ joined \in [Client -> [Caster -> Nat]] /\ stream \in [Client -> Seq(Caster \X Nat)]
  /\ wire \in [Client -> Seq(Nat)] /\ inbox \in [Client -> Seq(Nat)] /\ screen \in [Client -> Seq(Nat)]
  /\ reading \in [Client -> BOOLEAN] /\ buffer \in [Client -> Buffer]
  /\ client \in [Client -> {"away", "on", "draining", "ended", "left"}]

\* The last event that was taken out of eventCh.
Taken(c) == Len(stream[c]) - Len(wire[c]) - Len(inbox[c])

\* Where the broadcasts are with c's connection: one that has begun since c was
\* registered and has not written to it is newer than all that is in it.
Connected(c) ==
  /\ sock[c] \in {"none", "dialled"} =>
       c \notin subs /\ stream[c] = <<>> /\ scrap[c] = "none" /\ \A b \in Caster : stage[b][c] = "none"
  /\ sock[c] = "open" => c \in subs
  /\ \A b \in Caster :
       /\ joined[c][b] <= fed[b]
       /\ stage[b][c] # "none" => joined[c][b] < fed[b]
       /\ \A i \in DOMAIN stream[c] : stream[c][i][1] = b =>
            IF stage[b][c] \in {"none", "sent"} THEN stream[c][i][2] <= fed[b] ELSE stream[c][i][2] < fed[b]
  /\ WholeStream(c)

\* The events under way follow one another.
Passing(c) ==
  /\ 0 <= Taken(c)
  /\ \A i \in DOMAIN inbox[c] : inbox[c][i] = Taken(c) + i
  /\ \A i \in DOMAIN wire[c] : wire[c][i] = Taken(c) + Len(inbox[c]) + i

Showing(c) ==
  /\ Shows(Received(c), Taken(c), screen[c], buffer[c].out, buffer[c].latest)
  /\ c \in spilled \/ Covers(Received(c), Taken(c), screen[c], buffer[c].out, buffer[c].latest)
  /\ c \in IsWeb \/ Straight(Taken(c), screen[c], buffer[c].out, buffer[c].latest)

\* A stream that is over has been emptied, in its order.
Ending(c) ==
  /\ client[c] = "away" => sock[c] = "none"
  /\ client[c] \in {"on", "draining", "ended"} /\ ~reading[c] => wire[c] = <<>>
  /\ client[c] \in {"draining", "ended"} => ~reading[c] /\ inbox[c] = <<>>
  /\ buffer[c].stopped => client[c] \notin {"away", "on"} /\ c \in IsWeb
  /\ buffer[c].closed => buffer[c].stopped /\ buffer[c].latest = {}
  /\ client[c] = "ended" => buffer[c].out = <<>> /\ buffer[c].latest = {}

Side(c) == Connected(c) /\ Passing(c) /\ Showing(c) /\ Ending(c)
StreamInv == StreamTyped /\ \A c \in Client : Side(c)

LEMMA ClientIs ==
  ASSUME StreamInv, NEW c \in Client
  PROVE  /\ Connected(c) /\ Passing(c) /\ Showing(c) /\ Ending(c)
         /\ stream[c] \in Seq(Caster \X Nat) /\ Len(stream[c]) \in Nat
         /\ wire[c] \in Seq(Nat) /\ inbox[c] \in Seq(Nat) /\ screen[c] \in Seq(Nat)
         /\ Len(wire[c]) \in Nat /\ Len(inbox[c]) \in Nat
         /\ buffer[c] \in Buffer
         /\ Taken(c) \in Nat /\ Taken(c) <= Len(stream[c])
<1>1. /\ Connected(c) /\ Passing(c) /\ Showing(c) /\ Ending(c)
      /\ stream[c] \in Seq(Caster \X Nat)
      /\ wire[c] \in Seq(Nat) /\ inbox[c] \in Seq(Nat) /\ screen[c] \in Seq(Nat)
      /\ buffer[c] \in Buffer
  BY DEF StreamInv, Side, StreamTyped
<1>2. Len(wire[c]) \in Nat /\ Len(inbox[c]) \in Nat /\ Len(stream[c]) \in Nat
  BY <1>1
<1>3. Taken(c) \in Int /\ Taken(c) <= Len(stream[c])
  <2>1. PICK n \in Nat, a \in Nat, b \in Nat : n = Len(stream[c]) /\ a = Len(wire[c]) /\ b = Len(inbox[c])
    BY <1>2
  <2>2. Taken(c) = n - a - b
    BY <2>1 DEF Taken
  <2>3. n - a - b \in Int /\ n - a - b <= n
    OBVIOUS
  <2> QED
    BY <2>1, <2>2, <2>3
<1>4. 0 <= Taken(c)
  BY <1>1 DEF Passing
<1> QED
  BY <1>1, <1>2, <1>3, <1>4

\* Parts of a client nothing is done to.
LEMMA ConnectedKept ==
  ASSUME NEW c \in Client, Connected(c), sock'[c] = sock[c], joined'[c] = joined[c],
         stream'[c] = stream[c], scrap'[c] = scrap[c], fed' = fed,
         \A b \in Caster : stage'[b][c] = stage[b][c], (c \in subs)' <=> c \in subs
  PROVE  Connected(c)'
<1>1. \A b, i : Carried(c, b, i)' = Carried(c, b, i)
  BY DEF Carried
<1>2. WholeStream(c)'
  BY <1>1 DEF Connected, WholeStream
<1> QED
  BY <1>2 DEF Connected

LEMMA ShowingKept ==
  ASSUME NEW c \in Client, Showing(c), screen'[c] = screen[c], buffer'[c].out = buffer[c].out,
         buffer'[c].latest = buffer[c].latest, stream'[c] = stream[c], Taken(c)' = Taken(c),
         (c \in spilled)' <=> c \in spilled
  PROVE  Showing(c)'
<1>1. Received(c)' = Received(c)
  BY DEF Received
<1> QED
  BY <1>1 DEF Showing

View(c) == <<sock[c], joined[c], stream[c], scrap[c], wire[c], inbox[c], reading[c], screen[c], buffer[c],
             client[c]>>

LEMMA Untouched ==
  ASSUME NEW c \in Client, Side(c), View(c)' = View(c), fed' = fed,
         \A b \in Caster : stage'[b][c] = stage[b][c],
         (c \in subs)' <=> c \in subs, (c \in spilled)' <=> c \in spilled
  PROVE  Side(c)'
<1>1. /\ sock'[c] = sock[c] /\ joined'[c] = joined[c] /\ stream'[c] = stream[c] /\ scrap'[c] = scrap[c]
      /\ wire'[c] = wire[c] /\ inbox'[c] = inbox[c] /\ reading'[c] = reading[c]
      /\ screen'[c] = screen[c] /\ buffer'[c] = buffer[c] /\ client'[c] = client[c]
  BY DEF View
<1>2. Taken(c)' = Taken(c)
  BY <1>1 DEF Taken
<1>3. Connected(c)'
  BY <1>1, ConnectedKept DEF Side
<1>4. Passing(c)'
  BY <1>1, <1>2 DEF Side, Passing
<1>5. Showing(c)'
  BY <1>1, <1>2, ShowingKept DEF Side
<1>6. Ending(c)'
  BY <1>1 DEF Side, Ending
<1> QED
  BY <1>3, <1>4, <1>5, <1>6 DEF Side

\* What the socket, the registration and the broadcasts do leaves the rest.
LEMMA UpstreamOnly ==
  ASSUME StreamInv, NEW c \in Client, stream'[c] = stream[c],
         UNCHANGED <<wire, inbox, reading, screen, buffer, client, spilled>>,
         Connected(c)', client[c] = "away" => sock'[c] = "none"
  PROVE  Side(c)'
<1>1. Taken(c)' = Taken(c)
  BY DEF Taken
<1>2. Passing(c)' /\ Ending(c)'
  BY <1>1, ClientIs DEF Passing, Ending
<1>3. Showing(c)'
  BY <1>1, ClientIs, ShowingKept
<1> QED
  BY <1>2, <1>3 DEF Side

LEMMA BeginKeepsSide ==
  ASSUME StreamInv, NEW b \in Caster, BeginBroadcast(b)
  PROVE  StreamInv'
<1>1. /\ \A c \in Client : stage[b][c] = "none"
      /\ fed' = [fed EXCEPT ![b] = @ + 1]
      /\ stage' = [stage EXCEPT ![b] = [c \in Client |-> IF c \in subs THEN "due" ELSE "none"]]
      /\ UNCHANGED <<timed, subs, swept, sock, joined, stream, scrap, wire, inbox, reading, screen, buffer,
                     client, spilled>>
  BY DEF BeginBroadcast, subVars, pipeVars, screenVars
<1>2. fed \in [Caster -> Nat] /\ stage \in [Caster -> [Client -> CastStages]]
  BY DEF StreamInv, StreamTyped
<1>3. /\ fed' \in [Caster -> Nat] /\ stage' \in [Caster -> [Client -> CastStages]]
      /\ fed'[b] = fed[b] + 1
      /\ \A c \in Client : stage'[b][c] = IF c \in subs THEN "due" ELSE "none"
      /\ \A o \in Caster : o # b => fed'[o] = fed[o] /\ stage'[o] = stage[o]
  BY <1>1, <1>2 DEF CastStages
<1>4. StreamTyped'
  BY <1>1, <1>3 DEF StreamInv, StreamTyped
<1>5. ASSUME NEW c \in Client PROVE Side(c)'
  <2>1. Connected(c) /\ stream[c] \in Seq(Caster \X Nat) /\ stage[b][c] = "none"
    BY <1>1, ClientIs
  <2>2. joined[c] \in [Caster -> Nat] /\ \A i \in DOMAIN stream[c] : stream[c][i] \in Caster \X Nat
    BY <2>1 DEF StreamInv, StreamTyped
  <2>3. \A o, i : Carried(c, o, i)' = Carried(c, o, i)
    BY <1>1 DEF Carried
  <2>4. WholeStream(c)'
    <3>1. ASSUME NEW i \in DOMAIN stream[c]
          PROVE  LET o == stream[c][i][1] IN
                   /\ Carried(c, o, i) = joined[c][o] + 1 .. stream[c][i][2]
                   /\ stream[c][i][2] \notin Carried(c, o, i - 1)
      BY <2>1 DEF Connected, WholeStream
    <3>2. ASSUME c \in subs, scrap[c] = "none", NEW o \in Caster, NEW n \in joined[c][o] + 1 .. fed'[o]
          PROVE  \/ n \in Carried(c, o, Len(stream[c]))
                 \/ n = fed'[o] /\ stage'[o][c] \notin {"none", "sent"}
      <4>1. CASE o = b
        <5>1. n = fed[b] + 1 \/ n \in joined[c][b] + 1 .. fed[b]
          BY <1>2, <1>3, <2>2, <3>2, <4>1
        <5> QED
          BY <1>3, <2>1, <3>2, <4>1, <5>1 DEF Connected, WholeStream
      <4>2. CASE o # b
        BY <1>3, <2>1, <3>2, <4>2 DEF Connected, WholeStream
      <4> QED
        BY <4>1, <4>2
    <3>3. ASSUME c \in subs, scrap[c] # "none"
          PROVE  \E o \in Caster : stage'[o][c] \in {"failed", "drop"}
      <4>1. PICK o \in Caster : stage[o][c] \in {"failed", "drop"}
        BY <2>1, <3>3 DEF Connected, WholeStream
      <4> QED
        BY <1>3, <2>1, <4>1
    <3> QED
      BY <1>1, <2>3, <3>1, <3>2, <3>3 DEF WholeStream
  <2>5. ASSUME NEW o \in Caster
        PROVE  /\ joined[c][o] <= fed'[o]
               /\ stage'[o][c] # "none" => joined[c][o] < fed'[o]
               /\ \A i \in DOMAIN stream[c] : stream[c][i][1] = o =>
                    IF stage'[o][c] \in {"none", "sent"} THEN stream[c][i][2] <= fed'[o] ELSE stream[c][i][2] < fed'[o]
    <3>1. CASE o = b
      <4>1. joined[c][b] <= fed[b] /\ \A i \in DOMAIN stream[c] : stream[c][i][1] = b => stream[c][i][2] <= fed[b]
        BY <2>1 DEF Connected
      <4> QED
        BY <1>2, <1>3, <2>2, <3>1, <4>1
    <3>2. CASE o # b
      BY <1>3, <2>1, <3>2 DEF Connected
    <3> QED
      BY <3>1, <3>2
  <2>6. sock[c] \in {"none", "dialled"} => \A o \in Caster : stage'[o][c] = "none"
    BY <1>3, <2>1 DEF Connected
  <2>7. Connected(c)'
    BY <1>1, <2>1, <2>4, <2>5, <2>6 DEF Connected
  <2>8. client[c] = "away" => sock'[c] = "none"
    BY <1>1, ClientIs DEF Ending
  <2> QED
    BY <1>1, <2>7, <2>8, UpstreamOnly
<1> QED
  BY <1>4, <1>5 DEF StreamInv

\* b moves on with the connection of c, which is written nothing it can read.
LEMMA MoveKeepsSide ==
  ASSUME StreamInv, NEW b \in Caster, NEW c \in Client,
         SetDeadline(b, c) \/ WriteFails(b, c) \/ ResetDeadline(b, c) \/ RemoveSub(b, c)
           \/ (WriteEvent(b, c) /\ scrap[c] # "none")
  PROVE  StreamInv'
<1>1. /\ UNCHANGED <<fed, swept, joined, stream, wire, inbox, reading, screen, buffer, client, spilled>>
      /\ \A o \in Client : o # c => sock'[o] = sock[o] /\ scrap'[o] = scrap[o] /\ (o \in subs' <=> o \in subs)
      /\ stage[b][c] # "none" /\ stage' = [stage EXCEPT ![b][c] = stage'[b][c]]
      /\ stage'[b][c] \in CastStages
      /\ \/ subs' = subs /\ sock' = sock /\ stage[b][c] = "due" /\ stage'[b][c] \in {"write", "drop"} /\ scrap' = scrap
         \/ subs' = subs /\ sock' = sock /\ stage[b][c] = "write" /\ stage'[b][c] = "failed"
         \/ subs' = subs /\ sock' = sock /\ stage[b][c] = "sent" /\ stage'[b][c] = "none" /\ scrap' = scrap
         \/ subs' = subs /\ sock' = sock /\ stage[b][c] = "failed" /\ stage'[b][c] = "drop" /\ scrap' = scrap
         \/ /\ subs' = subs \ {c} /\ sock'[c] = IF c \in subs THEN "shut" ELSE sock[c]
            /\ stage[b][c] = "drop" /\ scrap' = scrap
         \/ /\ subs' = subs /\ sock' = sock /\ stage[b][c] = "write" /\ stage'[b][c] = "sent"
            /\ scrap[c] # "none" /\ scrap'[c] # "none"
      /\ scrap' \in [Client -> {"none", "part", "more"}] /\ sock' \in [Client -> {"none", "dialled", "open", "shut"}]
      /\ timed' \in SUBSET Client /\ subs' \in SUBSET Client
  <2>1. /\ stage \in [Caster -> [Client -> CastStages]] /\ scrap \in [Client -> {"none", "part", "more"}]
        /\ sock \in [Client -> {"none", "dialled", "open", "shut"}] /\ timed \in SUBSET Client
        /\ subs \in SUBSET Client
    BY DEF StreamInv, StreamTyped
  <2>2. \A from, to : GoesOn(b, c, from, to) =>
          /\ stage[b][c] = from /\ stage'[b][c] = to /\ stage' = [stage EXCEPT ![b][c] = stage'[b][c]]
    BY <2>1 DEF GoesOn
  <2>3. CASE SetDeadline(b, c)
    BY <2>1, <2>2, <2>3 DEF SetDeadline, subVars, pipeVars, screenVars, CastStages
  <2>4. CASE WriteFails(b, c)
    BY <2>1, <2>2, <2>4 DEF WriteFails, subVars, screenVars, CastStages
  <2>5. CASE ResetDeadline(b, c)
    BY <2>1, <2>2, <2>5 DEF ResetDeadline, subVars, pipeVars, screenVars, CastStages
  <2>6. CASE RemoveSub(b, c)
    BY <2>1, <2>2, <2>6 DEF RemoveSub, subVars, pipeVars, screenVars, CastStages
  <2>7. CASE WriteEvent(b, c) /\ scrap[c] # "none"
    BY <2>1, <2>2, <2>7 DEF WriteEvent, subVars, screenVars, CastStages
  <2> QED
    BY <2>3, <2>4, <2>5, <2>6, <2>7
<1>2. stage \in [Caster -> [Client -> CastStages]]
  BY DEF StreamInv, StreamTyped
<1>3. \A a \in Caster, o \in Client : a # b \/ o # c => stage'[a][o] = stage[a][o]
  BY <1>1, <1>2
<1>4. StreamTyped'
  <2>1. stage' \in [Caster -> [Client -> CastStages]]
    BY <1>1, <1>2
  <2> QED
    BY <1>1, <2>1 DEF StreamInv, StreamTyped
<1>5. Side(c)'
  <2>1. Connected(c) /\ Ending(c)
    BY ClientIs
  <2>2. sock[c] \notin {"none", "dialled"}
    BY <1>1, <2>1 DEF Connected
  <2>3. \A o, i : Carried(c, o, i)' = Carried(c, o, i)
    BY <1>1 DEF Carried
  <2>4. WholeStream(c)'
    <3>1. ASSUME NEW i \in DOMAIN stream[c]
          PROVE  LET o == stream[c][i][1] IN
                   /\ Carried(c, o, i) = joined[c][o] + 1 .. stream[c][i][2]
                   /\ stream[c][i][2] \notin Carried(c, o, i - 1)
      BY <2>1 DEF Connected, WholeStream
    <3>2. ASSUME c \in subs', scrap'[c] = "none", NEW o \in Caster, NEW n \in joined[c][o] + 1 .. fed[o]
          PROVE  \/ n \in Carried(c, o, Len(stream[c]))
                 \/ n = fed[o] /\ stage'[o][c] \notin {"none", "sent"}
      <4>1. c \in subs /\ scrap[c] = "none"
        <5>1. c \in subs
          BY <1>1, <3>2
        <5>2. CASE stage[b][c] = "write" /\ stage'[b][c] = "failed" /\ scrap[c] # "none"
          <6>1. scrap'[c] # "none"
            BY <5>2 DEF SetDeadline, WriteFails, ResetDeadline, RemoveSub, WriteEvent, GoesOn, StreamInv,
                        StreamTyped, pipeVars
          <6> QED
            BY <3>2, <6>1
        <5> QED
          BY <1>1, <3>2, <5>1, <5>2
      <4>2. \/ n \in Carried(c, o, Len(stream[c]))
            \/ n = fed[o] /\ stage[o][c] \notin {"none", "sent"}
        BY <2>1, <3>2, <4>1 DEF Connected, WholeStream
      <4> QED
        BY <1>1, <1>3, <3>2, <4>1, <4>2
    <3>3. ASSUME c \in subs', scrap'[c] # "none"
          PROVE  \E o \in Caster : stage'[o][c] \in {"failed", "drop"}
      <4>1. CASE scrap[c] = "none"
        BY <1>1, <3>3, <4>1
      <4>2. CASE scrap[c] # "none"
        <5>1. c \in subs
          BY <1>1, <3>3
        <5>2. PICK o \in Caster : stage[o][c] \in {"failed", "drop"}
          BY <2>1, <4>2, <5>1 DEF Connected, WholeStream
        <5> QED
          BY <1>1, <1>3, <3>3, <5>2
      <4> QED
        BY <4>1, <4>2
    <3> QED
      BY <1>1, <2>3, <3>1, <3>2, <3>3 DEF WholeStream
  <2>5. ASSUME NEW o \in Caster
        PROVE  /\ joined[c][o] <= fed[o]
               /\ stage'[o][c] # "none" => joined[c][o] < fed[o]
               /\ \A i \in DOMAIN stream[c] : stream[c][i][1] = o =>
                    IF stage'[o][c] \in {"none", "sent"} THEN stream[c][i][2] <= fed[o] ELSE stream[c][i][2] < fed[o]
    <3>1. CASE o = b
      <4>1. joined[c][b] < fed[b] /\ joined[c][b] <= fed[b]
        BY <1>1, <2>1 DEF Connected
      <4>2. ASSUME NEW i \in DOMAIN stream[c], stream[c][i][1] = b
            PROVE  IF stage'[b][c] \in {"none", "sent"} THEN stream[c][i][2] <= fed[b] ELSE stream[c][i][2] < fed[b]
        <5>1. /\ stream[c][i][2] \in Nat /\ fed[b] \in Nat
          BY <4>2, ClientIs DEF StreamInv, StreamTyped
        <5>2. IF stage[b][c] \in {"none", "sent"} THEN stream[c][i][2] <= fed[b] ELSE stream[c][i][2] < fed[b]
          BY <2>1, <4>2 DEF Connected
        <5> QED
          BY <1>1, <5>1, <5>2
      <4> QED
        BY <3>1, <4>1, <4>2
    <3>2. CASE o # b
      BY <1>3, <2>1, <3>2 DEF Connected
    <3> QED
      BY <3>1, <3>2
  <2>6. sock'[c] \notin {"none", "dialled"} /\ (sock'[c] = "open" => c \in subs')
    BY <1>1, <2>1, <2>2 DEF Connected
  <2>7. Connected(c)'
    BY <1>1, <2>4, <2>5, <2>6 DEF Connected
  <2>8. client[c] # "away"
    BY <2>1, <2>2 DEF Ending
  <2> QED
    BY <1>1, <2>7, <2>8, UpstreamOnly
<1>6. ASSUME NEW o \in Client, o # c PROVE Side(o)'
  <2>1. View(o)' = View(o) /\ ((o \in subs)' <=> o \in subs) /\ \A a \in Caster : stage'[a][o] = stage[a][o]
    BY <1>1, <1>3, <1>6 DEF View
  <2>2. Side(o)
    BY DEF StreamInv
  <2> QED
    BY <1>1, <2>1, <2>2, Untouched
<1> QED
  BY <1>4, <1>5, <1>6 DEF StreamInv

\* An event that is written is the next one of its goroutine.
LEMMA WrittenWhole ==
  ASSUME StreamInv, NEW b \in Caster, NEW c \in Client, WriteEvent(b, c), scrap[c] = "none"
  PROVE  Connected(c)'
<1>1. /\ stage[b][c] = "write" /\ stage' = [stage EXCEPT ![b][c] = "sent"] /\ sock[c] = "open"
      /\ stream' = [stream EXCEPT ![c] = Append(@, <<b, fed[b]>>)]
      /\ UNCHANGED <<fed, subs, sock, joined, scrap>>
  BY DEF WriteEvent, GoesOn, subVars, screenVars
<1>2. /\ fed \in [Caster -> Nat] /\ stage \in [Caster -> [Client -> CastStages]]
      /\ joined[c] \in [Caster -> Nat] /\ stream \in [Client -> Seq(Caster \X Nat)]
  BY DEF StreamInv, StreamTyped
<1>3. PICK n \in Nat : n = fed[b]
  BY <1>2
<1>4. PICK len \in Nat : len = Len(stream[c])
  BY ClientIs
<1>5. PICK list : list = stream'[c]
  OBVIOUS
<1>6. /\ list \in Seq(Caster \X Nat) /\ DOMAIN stream[c] = 1 .. len /\ DOMAIN list = 1 .. len + 1 /\ Len(list) = len + 1
      /\ list[len + 1] = <<b, n>> /\ \A i \in 1 .. len : list[i] = stream[c][i]
  <2>1. list = Append(stream[c], <<b, n>>) /\ <<b, n>> \in Caster \X Nat
    BY <1>1, <1>2, <1>3, <1>5
  <2> QED
    BY <1>2, <1>4, <2>1, Lengthened
<1>7. /\ \A i \in 1 .. len : stream[c][i] \in Caster \X Nat
      /\ Connected(c)
  <2>1. stream[c] \in Seq(Caster \X Nat) /\ Connected(c)
    BY ClientIs
  <2>2. \A i \in DOMAIN stream[c] : stream[c][i] \in Caster \X Nat
    BY <2>1
  <2> QED
    BY <1>6, <2>1, <2>2
<1>8. /\ stage'[b][c] = "sent" /\ \A o \in Caster : o # b => stage'[o][c] = stage[o][c]
  BY <1>1, <1>2
<1>9. \A o, i : i \in 0 .. len => Carried(c, o, i)' = Carried(c, o, i)
  <2>1. ASSUME NEW o, NEW i \in 0 .. len PROVE Carried(c, o, i)' = Carried(c, o, i)
    <3>1. \A k \in 1 .. i : list[k] = stream[c][k]
      BY <1>6
    <3> QED
      BY <1>5, <3>1 DEF Carried
  <2> QED
    BY <2>1
<1>10. /\ Carried(c, b, len + 1)' = Carried(c, b, len) \cup {n}
       /\ \A o \in Caster : o # b => Carried(c, o, len + 1)' = Carried(c, o, len)
  <2>1. \A k : k \in 1 .. len + 1 <=> k \in 1 .. len \/ k = len + 1
    OBVIOUS
  <2>2. ASSUME NEW o \in Caster
        PROVE  Carried(c, o, len + 1)' = Carried(c, o, len) \cup (IF o = b THEN {n} ELSE {})
    <3>1. Carried(c, o, len + 1)' = {list[k][2] : k \in {k \in 1 .. len + 1 : list[k][1] = o}}
      BY <1>5 DEF Carried
    <3>2. Carried(c, o, len) = {stream[c][k][2] : k \in {k \in 1 .. len : stream[c][k][1] = o}}
      BY DEF Carried
    <3>3. list[len + 1][1] = b /\ list[len + 1][2] = n
      BY <1>6
    <3>4. ASSUME NEW x \in Carried(c, o, len + 1)' PROVE x \in Carried(c, o, len) \/ (o = b /\ x = n)
      <4>1. PICK k \in 1 .. len + 1 : list[k][1] = o /\ x = list[k][2]
        BY <3>1
      <4>2. CASE k = len + 1
        BY <3>3, <4>1, <4>2
      <4>3. CASE k \in 1 .. len
        BY <1>6, <3>2, <4>1, <4>3
      <4> QED
        BY <2>1, <4>2, <4>3
    <3>5. \A x \in Carried(c, o, len) : x \in Carried(c, o, len + 1)'
      BY <1>6, <2>1, <3>1, <3>2
    <3>6. o = b => n \in Carried(c, o, len + 1)'
      BY <2>1, <3>1, <3>3
    <3> QED
      BY <3>4, <3>5, <3>6
  <2> QED
    BY <2>2
<1>11. \A o \in Caster : \A m \in Carried(c, o, len) :
         /\ m \in joined[c][o] + 1 .. fed[o]
         /\ o = b => m < n
  <2> SUFFICES ASSUME NEW o \in Caster, NEW m \in Carried(c, o, len)
               PROVE  m \in joined[c][o] + 1 .. fed[o] /\ (o = b => m < n)
    OBVIOUS
  <2>1. PICK k \in 1 .. len : stream[c][k][1] = o /\ m = stream[c][k][2]
    BY DEF Carried
  <2>2. k \in 1 .. k /\ k \in DOMAIN stream[c]
    BY <1>6
  <2>3. m \in Carried(c, o, k) /\ Carried(c, o, k) = joined[c][o] + 1 .. m
    BY <1>7, <2>1, <2>2 DEF Connected, WholeStream, Carried
  <2>4. m \in Nat /\ m <= fed[o] /\ (o = b => m < n)
    BY <1>1, <1>2, <1>3, <1>7, <2>1, <2>2 DEF Connected
  <2>5. m \in joined[c][o] + 1 .. m /\ joined[c][o] \in Nat /\ fed[o] \in Nat
    BY <1>2, <2>3
  <2> QED
    BY <2>4, <2>5
<1>12. Carried(c, b, len) = joined[c][b] + 1 .. n - 1 /\ joined[c][b] + 1 <= n
  <2>1. c \in subs /\ joined[c][b] < fed[b]
    BY <1>1, <1>7 DEF Connected
  <2>2. \A m \in joined[c][b] + 1 .. fed[b] : m \in Carried(c, b, len) \/ m = fed[b]
    BY <1>4, <1>7, <2>1 DEF Connected, WholeStream
  <2>3. joined[c][b] \in Nat
    BY <1>2
  <2>4. \A m \in Carried(c, b, len) : m \in joined[c][b] + 1 .. n - 1
    <3>1. \A m \in Carried(c, b, len) : m \in joined[c][b] + 1 .. n /\ m < n
      BY <1>3, <1>11
    <3> QED
      BY <2>3, <3>1
  <2>5. \A m \in joined[c][b] + 1 .. n - 1 : m \in Carried(c, b, len)
    <3>1. \A m \in joined[c][b] + 1 .. n - 1 : m \in joined[c][b] + 1 .. n /\ m # n
      BY <2>3
    <3> QED
      BY <1>3, <2>2, <3>1
  <2>6. joined[c][b] + 1 <= n
    BY <1>3, <2>1, <2>3
  <2> QED
    BY <2>4, <2>5, <2>6
<1>13. WholeStream(c)'
  <2>1. ASSUME NEW i \in 1 .. len + 1
        PROVE  /\ Carried(c, list[i][1], i)' = joined[c][list[i][1]] + 1 .. list[i][2]
               /\ list[i][2] \notin Carried(c, list[i][1], i - 1)'
    <3>1. CASE i = len + 1
      <4>1. list[i][1] = b /\ list[i][2] = n /\ i - 1 = len
        BY <1>6, <3>1
      <4>2. Carried(c, b, i)' = joined[c][b] + 1 .. n
        <5>1. Carried(c, b, i)' = (joined[c][b] + 1 .. n - 1) \cup {n}
          BY <1>10, <1>12, <3>1
        <5>2. joined[c][b] \in Nat
          BY <1>2
        <5> QED
          BY <1>12, <5>1, <5>2
      <4>3. n \notin Carried(c, b, i - 1)'
        BY <1>9, <1>11, <4>1
      <4> QED
        BY <4>1, <4>2, <4>3
    <3>2. CASE i # len + 1
      <4>1. i \in 1 .. len /\ i \in 0 .. len /\ i - 1 \in 0 .. len
        BY <3>2
      <4>2. /\ Carried(c, stream[c][i][1], i) = joined[c][stream[c][i][1]] + 1 .. stream[c][i][2]
            /\ stream[c][i][2] \notin Carried(c, stream[c][i][1], i - 1)
        BY <1>6, <1>7, <4>1 DEF Connected, WholeStream
      <4> QED
        BY <1>6, <1>9, <4>1, <4>2
    <3> QED
      BY <3>1, <3>2
  <2>2. ASSUME c \in subs, NEW o \in Caster, NEW m \in joined[c][o] + 1 .. fed[o]
        PROVE  \/ m \in Carried(c, o, len + 1)'
               \/ m = fed[o] /\ stage'[o][c] \notin {"none", "sent"}
    <3>1. \/ m \in Carried(c, o, len)
          \/ m = fed[o] /\ stage[o][c] \notin {"none", "sent"}
      BY <1>4, <1>7, <2>2 DEF Connected, WholeStream
    <3> QED
      BY <1>3, <1>8, <1>10, <3>1
  <2>3. scrap'[c] = "none" /\ joined' = joined /\ fed' = fed /\ subs' = subs
    BY <1>1
  <2> QED
    BY <1>5, <1>6, <2>1, <2>2, <2>3 DEF WholeStream
<1>14. ASSUME NEW o \in Caster
       PROVE  /\ joined[c][o] <= fed[o]
              /\ stage'[o][c] # "none" => joined[c][o] < fed[o]
              /\ \A i \in 1 .. len + 1 : list[i][1] = o =>
                   IF stage'[o][c] \in {"none", "sent"} THEN list[i][2] <= fed[o] ELSE list[i][2] < fed[o]
  <2>1. /\ joined[c][o] <= fed[o] /\ (stage[o][c] # "none" => joined[c][o] < fed[o])
        /\ \A i \in 1 .. len : stream[c][i][1] = o =>
             IF stage[o][c] \in {"none", "sent"} THEN stream[c][i][2] <= fed[o] ELSE stream[c][i][2] < fed[o]
    BY <1>6, <1>7 DEF Connected
  <2>2. fed[o] \in Nat /\ \A i \in 1 .. len : stream[c][i][2] \in Nat
    BY <1>2, <1>7
  <2>3. ASSUME NEW i \in 1 .. len + 1, list[i][1] = o
        PROVE  IF stage'[o][c] \in {"none", "sent"} THEN list[i][2] <= fed[o] ELSE list[i][2] < fed[o]
    <3>1. CASE i = len + 1
      <4>1. o = b /\ list[i][2] = fed[b]
        BY <1>3, <1>6, <2>3, <3>1
      <4> QED
        BY <1>8, <2>2, <4>1
    <3>2. CASE i # len + 1
      <4>1. i \in 1 .. len /\ list[i] = stream[c][i]
        BY <1>6, <3>2
      <4>2. CASE o = b
        BY <1>1, <1>8, <2>1, <2>2, <2>3, <4>1, <4>2
      <4>3. CASE o # b
        BY <1>8, <2>1, <2>3, <4>1, <4>3
      <4> QED
        BY <4>2, <4>3
    <3> QED
      BY <3>1, <3>2
  <2>4. stage'[o][c] # "none" => joined[c][o] < fed[o]
    BY <1>1, <1>8, <2>1
  <2> QED
    BY <2>1, <2>3, <2>4
<1>15. sock'[c] = "open" /\ c \in subs'
  BY <1>1, <1>7 DEF Connected
<1> QED
  BY <1>1, <1>5, <1>6, <1>13, <1>14, <1>15 DEF Connected

LEMMA WriteKeepsSide ==
  ASSUME StreamInv, NEW b \in Caster, NEW c \in Client, WriteEvent(b, c), scrap[c] = "none"
  PROVE  StreamInv'
<1>1. /\ stage' = [stage EXCEPT ![b][c] = "sent"] /\ reading[c]
      /\ stream' = [stream EXCEPT ![c] = Append(@, <<b, fed[b]>>)]
      /\ wire' = [wire EXCEPT ![c] = Append(@, Len(stream[c]) + 1)]
      /\ UNCHANGED <<fed, timed, subs, swept, sock, joined, scrap, inbox, reading, screen, buffer, client, spilled>>
  BY DEF WriteEvent, GoesOn, Gone, subVars, screenVars
<1>2. /\ fed \in [Caster -> Nat] /\ stage \in [Caster -> [Client -> CastStages]]
      /\ stream \in [Client -> Seq(Caster \X Nat)] /\ wire \in [Client -> Seq(Nat)]
  BY DEF StreamInv, StreamTyped
<1>3. /\ Len(stream[c]) \in Nat /\ Len(wire[c]) \in Nat /\ Len(inbox[c]) \in Nat /\ Taken(c) \in Nat
      /\ Passing(c) /\ Showing(c) /\ Ending(c) /\ Taken(c) <= Len(stream[c])
  BY ClientIs
<1>4. PICK list, new : list = Append(stream[c], <<b, fed[b]>>) /\ new = Append(wire[c], Len(stream[c]) + 1)
  OBVIOUS
<1>5. /\ list \in Seq(Caster \X Nat) /\ Len(list) = Len(stream[c]) + 1
      /\ DOMAIN stream[c] = 1 .. Len(stream[c]) /\ DOMAIN list = 1 .. Len(stream[c]) + 1
      /\ \A i \in 1 .. Len(stream[c]) : list[i] = stream[c][i]
  <2>1. <<b, fed[b]>> \in Caster \X Nat
    BY <1>2
  <2> QED
    BY <1>2, <1>4, <2>1, Lengthened
<1>6. /\ new \in Seq(Nat) /\ Len(new) = Len(wire[c]) + 1
      /\ DOMAIN wire[c] = 1 .. Len(wire[c]) /\ DOMAIN new = 1 .. Len(wire[c]) + 1
      /\ new[Len(wire[c]) + 1] = Len(stream[c]) + 1 /\ \A i \in 1 .. Len(wire[c]) : new[i] = wire[c][i]
  <2>1. Len(stream[c]) + 1 \in Nat
    BY <1>3
  <2> QED
    BY <1>2, <1>4, <2>1, Lengthened
<1>7. /\ stream' = [stream EXCEPT ![c] = list] /\ wire' = [wire EXCEPT ![c] = new]
      /\ stream'[c] = list /\ wire'[c] = new
      /\ \A o \in Client : o # c => stream'[o] = stream[o] /\ wire'[o] = wire[o]
  BY <1>1, <1>2, <1>4
<1>8. /\ stage' \in [Caster -> [Client -> CastStages]]
      /\ \A a \in Caster, o \in Client : o # c => stage'[a][o] = stage[a][o]
  BY <1>1, <1>2 DEF CastStages
<1>9. StreamTyped'
  <2>1. stream' \in [Client -> Seq(Caster \X Nat)] /\ wire' \in [Client -> Seq(Nat)]
    BY <1>2, <1>5, <1>6, <1>7
  <2> QED
    BY <1>1, <1>8, <2>1 DEF StreamInv, StreamTyped
<1>10. Taken(c)' = Taken(c) /\ Len(stream[c]) + 1 = Taken(c) + Len(inbox[c]) + (Len(wire[c]) + 1)
  <2>1. PICK n \in Nat, x \in Nat, y \in Nat : n = Len(stream[c]) /\ x = Len(wire[c]) /\ y = Len(inbox[c])
    BY <1>3
  <2>2. Taken(c) = n - x - y /\ Taken(c)' = (n + 1) - (x + 1) - y
    BY <1>1, <1>5, <1>6, <1>7, <2>1 DEF Taken
  <2>3. (n + 1) - (x + 1) - y = n - x - y /\ n + 1 = (n - x - y) + y + (x + 1)
    OBVIOUS
  <2> QED
    BY <2>1, <2>2, <2>3
<1>11. Passing(c)'
  <2>1. \A i \in DOMAIN new : new[i] = Taken(c) + Len(inbox[c]) + i
    <3>1. \A i \in 1 .. Len(wire[c]) : wire[c][i] = Taken(c) + Len(inbox[c]) + i
      BY <1>3, <1>6 DEF Passing
    <3> QED
      BY <1>6, <1>10, <3>1
  <2>2. inbox'[c] = inbox[c] /\ 0 <= Taken(c) /\ \A i \in DOMAIN inbox[c] : inbox[c][i] = Taken(c) + i
    BY <1>1, <1>3 DEF Passing
  <2> QED
    BY <1>7, <1>10, <2>1, <2>2 DEF Passing
<1>12. Ending(c)'
  <2>1. client[c] \notin {"draining", "ended"}
    BY <1>1, <1>3 DEF Ending
  <2> QED
    BY <1>1, <1>3, <2>1 DEF Ending
<1>13. Showing(c)'
  <2>1. PICK feed, more : feed = Received(c) /\ more = Received(c)'
    OBVIOUS
  <2>2. \A i \in 1 .. Taken(c) : more[i] = feed[i]
    <3>1. \A i \in 1 .. Taken(c) : i \in 1 .. Len(stream[c]) /\ i \in 1 .. Len(stream[c]) + 1
      BY <1>3
    <3>2. \A i \in 1 .. Len(stream[c]) + 1 : more[i] = Feed[list[i][1]][list[i][2]]
      BY <1>5, <1>7, <2>1 DEF Received
    <3>3. \A i \in 1 .. Len(stream[c]) : feed[i] = Feed[stream[c][i][1]][stream[c][i][2]]
      BY <1>5, <2>1 DEF Received
    <3> QED
      BY <1>5, <3>1, <3>2, <3>3
  <2>3. /\ Shows(feed, Taken(c), screen[c], buffer[c].out, buffer[c].latest)
        /\ c \in spilled \/ Covers(feed, Taken(c), screen[c], buffer[c].out, buffer[c].latest)
        /\ c \in IsWeb \/ Straight(Taken(c), screen[c], buffer[c].out, buffer[c].latest)
    BY <1>3, <2>1 DEF Showing
  <2>0. PICK top \in Nat : top = Taken(c)
    BY <1>3
  <2>4. PICK shown, out, held : shown = screen[c] /\ out = buffer[c].out /\ held = buffer[c].latest
    OBVIOUS
  <2>5. /\ Shows(more, top, shown, out, held)
        /\ Covers(feed, top, shown, out, held) => Covers(more, top, shown, out, held)
    BY <2>0, <2>2, <2>3, <2>4, FeedGrows
  <2> QED
    BY <1>1, <1>10, <2>0, <2>1, <2>3, <2>4, <2>5 DEF Showing
<1>14. Side(c)'
  BY <1>11, <1>12, <1>13, WrittenWhole DEF Side
<1>15. ASSUME NEW o \in Client, o # c PROVE Side(o)'
  <2>1. View(o)' = View(o) /\ \A a \in Caster : stage'[a][o] = stage[a][o]
    BY <1>1, <1>7, <1>8, <1>15 DEF View
  <2>2. Side(o)
    BY DEF StreamInv
  <2> QED
    BY <1>1, <2>1, <2>2, Untouched
<1> QED
  BY <1>9, <1>14, <1>15 DEF StreamInv

\* SweepSubscribers and DropBacklog close connections.
LEMMA SweepKeepsSide ==
  ASSUME StreamInv, SweepSubscribers \/ \E c \in Client : DropBacklog(c)
  PROVE  StreamInv'
<1>1. /\ UNCHANGED <<fed, stage, timed, joined, stream, scrap, wire, inbox, reading, screen, buffer, client, spilled>>
      /\ subs' \subseteq subs /\ swept' \in BOOLEAN /\ sock' \in [Client -> {"none", "dialled", "open", "shut"}]
      /\ \A c \in Client :
           \/ sock'[c] = "shut" /\ (c \in subs \/ sock[c] = "dialled")
           \/ sock'[c] = sock[c] /\ (c \in subs' <=> c \in subs)
  <2>1. /\ sock \in [Client -> {"none", "dialled", "open", "shut"}] /\ swept \in BOOLEAN
    BY DEF StreamInv, StreamTyped
  <2>2. CASE SweepSubscribers
    BY <2>1, <2>2 DEF SweepSubscribers, castVars, pipeVars, screenVars
  <2>3. ASSUME NEW c \in Client, DropBacklog(c)
        PROVE  /\ UNCHANGED <<fed, stage, timed, joined, stream, scrap, wire, inbox, reading, screen, buffer,
                               client, spilled>>
               /\ subs' \subseteq subs /\ swept' \in BOOLEAN /\ sock' \in [Client -> {"none", "dialled", "open", "shut"}]
               /\ \A o \in Client :
                    \/ sock'[o] = "shut" /\ (o \in subs \/ sock[o] = "dialled")
                    \/ sock'[o] = sock[o] /\ (o \in subs' <=> o \in subs)
    BY <2>1, <2>3 DEF DropBacklog, castVars, pipeVars, screenVars
  <2> QED
    BY <2>2, <2>3
<1>2. StreamTyped'
  BY <1>1 DEF StreamInv, StreamTyped
<1>3. ASSUME NEW c \in Client PROVE Side(c)'
  <2>1. Connected(c) /\ Ending(c)
    BY ClientIs
  <2>2. \A b, i : Carried(c, b, i)' = Carried(c, b, i)
    BY <1>1 DEF Carried
  <2>3. WholeStream(c)'
    BY <1>1, <2>1, <2>2 DEF Connected, WholeStream
  <2>4. Connected(c)'
    BY <1>1, <2>1, <2>3 DEF Connected
  <2>5. client[c] = "away" => sock'[c] = "none"
    BY <1>1, <2>1 DEF Connected, Ending
  <2> QED
    BY <1>1, <2>4, <2>5, UpstreamOnly
<1> QED
  BY <1>2, <1>3 DEF StreamInv

LEMMA AddKeepsSide ==
  ASSUME StreamInv, NEW c \in Client, AddSubscriber(c)
  PROVE  StreamInv'
<1>1. /\ sock[c] = "dialled" /\ subs' = subs \cup {c}
      /\ sock' = [sock EXCEPT ![c] = "open"]
      /\ joined' = [joined EXCEPT ![c] = fed]
      /\ UNCHANGED <<fed, stage, timed, swept, stream, scrap, wire, inbox, reading, screen, buffer, client, spilled>>
  BY DEF AddSubscriber, castVars, pipeVars, screenVars
<1>2. /\ sock \in [Client -> {"none", "dialled", "open", "shut"}] /\ joined \in [Client -> [Caster -> Nat]]
      /\ fed \in [Caster -> Nat]
  BY DEF StreamInv, StreamTyped
<1>3. StreamTyped'
  BY <1>1 DEF StreamInv, StreamTyped
<1>4. Side(c)'
  <2>1. sock'[c] = "open" /\ joined'[c] = fed /\ c \in subs'
    BY <1>1, <1>2
  <2>2. stream[c] = <<>> /\ scrap[c] = "none" /\ \A b \in Caster : stage[b][c] = "none"
    BY <1>1, ClientIs DEF Connected
  <2>3. \A b \in Caster : fed[b] \in Nat /\ fed[b] + 1 .. fed[b] = {}
    BY <1>2
  <2>4. WholeStream(c)'
    BY <1>1, <2>1, <2>2, <2>3 DEF WholeStream
  <2>5. Connected(c)'
    BY <1>1, <2>1, <2>2, <2>3, <2>4 DEF Connected
  <2>6. client[c] # "away"
    BY <1>1, ClientIs DEF Ending
  <2> QED
    BY <1>1, <2>5, <2>6, UpstreamOnly
<1>5. ASSUME NEW o \in Client, o # c PROVE Side(o)'
  <2>1. View(o)' = View(o) /\ ((o \in subs)' <=> o \in subs)
    BY <1>1, <1>2, <1>5 DEF View
  <2>2. Side(o)
    BY DEF StreamInv
  <2> QED
    BY <1>1, <2>1, <2>2, Untouched
<1> QED
  BY <1>3, <1>4, <1>5 DEF StreamInv

LEMMA SubscribeKeepsSide ==
  ASSUME StreamInv, NEW c \in Client, Subscribe(c)
  PROVE  StreamInv'
<1>1. /\ client[c] = "away"
      /\ sock' = [sock EXCEPT ![c] = "dialled"]
      /\ reading' = [reading EXCEPT ![c] = TRUE]
      /\ client' = [client EXCEPT ![c] = "on"]
      /\ UNCHANGED <<fed, stage, timed, subs, swept, joined, stream, scrap, wire, inbox, screen, buffer, spilled>>
  BY DEF Subscribe, castVars, pipeVars, screenVars
<1>2. /\ sock \in [Client -> {"none", "dialled", "open", "shut"}] /\ reading \in [Client -> BOOLEAN]
      /\ client \in [Client -> {"away", "on", "draining", "ended", "left"}]
  BY DEF StreamInv, StreamTyped
<1>3. StreamTyped'
  BY <1>1 DEF StreamInv, StreamTyped
<1>4. Side(c)'
  <2>1. Taken(c)' = Taken(c) /\ sock'[c] = "dialled" /\ reading'[c] = TRUE /\ client'[c] = "on"
    BY <1>1, <1>2 DEF Taken
  <2>2. Connected(c) /\ Ending(c) /\ Passing(c) /\ Showing(c)
    BY ClientIs
  <2>3. sock[c] = "none"
    BY <1>1, <2>2 DEF Ending
  <2>4. \A b, i : Carried(c, b, i)' = Carried(c, b, i)
    BY <1>1 DEF Carried
  <2>5. WholeStream(c)'
    BY <1>1, <2>2, <2>4 DEF Connected, WholeStream
  <2>6. Connected(c)'
    BY <1>1, <2>1, <2>2, <2>3, <2>5 DEF Connected
  <2>7. Passing(c)'
    BY <1>1, <2>1, <2>2 DEF Passing
  <2>8. Ending(c)'
    BY <1>1, <2>1, <2>2 DEF Ending
  <2>9. Showing(c)'
    BY <1>1, <2>1, <2>2, ShowingKept
  <2> QED
    BY <2>6, <2>7, <2>8, <2>9 DEF Side
<1>5. ASSUME NEW o \in Client, o # c PROVE Side(o)'
  <2>1. View(o)' = View(o)
    BY <1>1, <1>2, <1>5 DEF View
  <2>2. Side(o)
    BY DEF StreamInv
  <2> QED
    BY <1>1, <2>1, <2>2, Untouched
<1> QED
  BY <1>3, <1>4, <1>5 DEF StreamInv

LEMMA ReadKeepsSide ==
  ASSUME StreamInv, NEW c \in Client, ReadEvent(c)
  PROVE  StreamInv'
<1>1. /\ reading[c] /\ wire[c] # <<>>
      /\ inbox' = [inbox EXCEPT ![c] = Append(@, Head(wire[c]))]
      /\ wire' = [wire EXCEPT ![c] = Tail(@)]
      /\ UNCHANGED <<fed, stage, timed, swept, subs, joined, sock, stream, scrap, reading, screen, buffer, client, spilled>>
  BY DEF ReadEvent, castVars, subVars, pipeVars, screenVars
<1>2. PICK n : n = Head(wire[c])
  OBVIOUS
<1>3. PICK rest : rest = Tail(wire[c])
  OBVIOUS
<1>4. wire[c] \in Seq(Nat) /\ inbox[c] \in Seq(Nat)
  BY ClientIs
<1>5. /\ rest \in Seq(Nat) /\ n \in Nat /\ n = wire[c][1]
      /\ Len(wire[c]) \in Nat \ {0} /\ Len(rest) = Len(wire[c]) - 1
      /\ DOMAIN wire[c] = 1 .. Len(wire[c]) /\ DOMAIN rest = 1 .. Len(wire[c]) - 1
      /\ \A i \in 1 .. Len(wire[c]) - 1 : rest[i] = wire[c][i + 1]
  BY <1>1, <1>2, <1>3, <1>4, Shortened
<1>6. PICK new : new = Append(inbox[c], n)
  OBVIOUS
<1>7. /\ new \in Seq(Nat) /\ Len(inbox[c]) \in Nat /\ Len(new) = Len(inbox[c]) + 1
      /\ DOMAIN inbox[c] = 1 .. Len(inbox[c]) /\ DOMAIN new = 1 .. Len(inbox[c]) + 1
      /\ new[Len(inbox[c]) + 1] = n /\ \A i \in 1 .. Len(inbox[c]) : new[i] = inbox[c][i]
  BY <1>4, <1>5, <1>6, Lengthened
<1>8. inbox' = [inbox EXCEPT ![c] = new] /\ wire' = [wire EXCEPT ![c] = rest]
  BY <1>1, <1>2, <1>3, <1>6
<1>9. wire \in [Client -> Seq(Nat)] /\ inbox \in [Client -> Seq(Nat)]
  BY DEF StreamInv, StreamTyped
<1>10. wire'[c] = rest /\ inbox'[c] = new
  BY <1>8, <1>9
<1>11. StreamTyped'
  <2>1. wire' \in [Client -> Seq(Nat)]
    BY <1>5, <1>8, <1>9
  <2>2. inbox' \in [Client -> Seq(Nat)]
    BY <1>7, <1>8, <1>9
  <2>3. StreamTyped
    BY DEF StreamInv
  <2> QED
    BY <1>1, <2>1, <2>2, <2>3 DEF StreamTyped
<1>12. Side(c)'
  <2>1. /\ Connected(c) /\ Ending(c) /\ Passing(c) /\ Showing(c)
        /\ Len(stream[c]) \in Nat /\ Taken(c) \in Nat
    BY ClientIs
  <2>2. Taken(c)' = Taken(c)
    <3>1. \A n1, a, b \in Nat : n1 - (a - 1) - (b + 1) = n1 - a - b
      OBVIOUS
    <3>2. Taken(c)' = Len(stream[c]) - Len(rest) - Len(new)
      BY <1>1, <1>10 DEF Taken
    <3> QED
      <4>1. PICK n1 \in Nat, a \in Nat, b \in Nat :
              n1 = Len(stream[c]) /\ a = Len(wire[c]) /\ b = Len(inbox[c])
        BY <1>5, <1>7, <2>1
      <4>2. Len(rest) = a - 1 /\ Len(new) = b + 1
        BY <1>5, <1>7, <4>1
      <4>3. Taken(c) = n1 - a - b /\ Taken(c)' = n1 - (a - 1) - (b + 1)
        BY <3>2, <4>1, <4>2 DEF Taken
      <4> QED
        BY <3>1, <4>3
  <2>3. Connected(c)'
    BY <1>1, <2>1, ConnectedKept
  <2>4. /\ \A i \in 1 .. Len(inbox[c]) : inbox[c][i] = Taken(c) + i
        /\ \A i \in 1 .. Len(wire[c]) : wire[c][i] = Taken(c) + Len(inbox[c]) + i
    BY <1>5, <1>7, <2>1 DEF Passing
  <2>5. \A i \in DOMAIN new : new[i] = Taken(c) + i
    <3>0. 1 \in 1 .. Len(wire[c])
      BY <1>5
    <3>1. n = Taken(c) + (Len(inbox[c]) + 1)
      <4>1. n = Taken(c) + Len(inbox[c]) + 1
        BY <1>5, <2>4, <3>0
      <4>2. \A a, b \in Nat : a + b + 1 = a + (b + 1)
        OBVIOUS
      <4> QED
        BY <1>7, <2>1, <4>1, <4>2
    <3>2. \A i \in DOMAIN new : i \in 1 .. Len(inbox[c]) \/ i = Len(inbox[c]) + 1
      BY <1>7
    <3>3. \A i \in 1 .. Len(inbox[c]) : new[i] = Taken(c) + i
      BY <1>7, <2>4
    <3>4. new[Len(inbox[c]) + 1] = Taken(c) + (Len(inbox[c]) + 1)
      BY <1>7, <3>1
    <3> QED
      BY <3>2, <3>3, <3>4
  <2>6. \A i \in DOMAIN rest : rest[i] = Taken(c) + Len(new) + i
    <3>1. TAKE i \in DOMAIN rest
    <3>2. i \in Nat /\ i + 1 \in 1 .. Len(wire[c]) /\ rest[i] = wire[c][i + 1]
      <4>1. i \in 1 .. Len(wire[c]) - 1 /\ Len(wire[c]) \in Nat
        BY <1>5, <3>1
      <4>2. rest[i] = wire[c][i + 1]
        BY <1>5, <4>1
      <4> QED
        BY <4>1, <4>2
    <3>3. rest[i] = Taken(c) + Len(inbox[c]) + (i + 1)
      BY <2>4, <3>2
    <3>4. PICK a \in Nat, b \in Nat, k \in Nat : a = Taken(c) /\ b = Len(inbox[c]) /\ k = i
      BY <1>7, <2>1, <3>2
    <3>5. a + b + (k + 1) = a + (b + 1) + k
      OBVIOUS
    <3> QED
      BY <1>7, <3>3, <3>4, <3>5
  <2>7. Passing(c)'
    BY <1>1, <1>10, <2>1, <2>2, <2>5, <2>6 DEF Passing
  <2>8. Ending(c)'
    BY <1>1, <2>1 DEF Ending
  <2>9. Showing(c)'
    BY <1>1, <2>1, <2>2, ShowingKept
  <2> QED
    BY <2>3, <2>7, <2>8, <2>9 DEF Side
<1>13. ASSUME NEW o \in Client, o # c PROVE Side(o)'
  <2>1. View(o)' = View(o)
    BY <1>1, <1>8, <1>9, <1>13 DEF View
  <2>2. Side(o)
    BY DEF StreamInv
  <2> QED
    BY <1>1, <2>1, <2>2, Untouched
<1> QED
  BY <1>11, <1>12, <1>13 DEF StreamInv

LEMMA EndKeepsSide ==
  ASSUME StreamInv, NEW c \in Client, ReadEnds(c)
  PROVE  StreamInv'
<1>1. /\ wire[c] = <<>> \/ client[c] = "left"
      /\ reading' = [reading EXCEPT ![c] = FALSE]
      /\ UNCHANGED <<fed, stage, timed, swept, subs, joined, sock, stream, scrap, wire, inbox, screen, buffer, client, spilled>>
  BY DEF ReadEnds, castVars, subVars, pipeVars, screenVars
<1>2. reading \in [Client -> BOOLEAN]
  BY DEF StreamInv, StreamTyped
<1>3. StreamTyped'
  BY <1>1 DEF StreamInv, StreamTyped
<1>4. Side(c)'
  <2>1. Taken(c)' = Taken(c) /\ reading'[c] = FALSE
    BY <1>1, <1>2 DEF Taken
  <2>2. Connected(c) /\ Ending(c) /\ Passing(c) /\ Showing(c)
    BY ClientIs
  <2>3. Connected(c)' /\ Passing(c)'
    BY <1>1, <2>1, <2>2, ConnectedKept DEF Passing
  <2>4. Ending(c)'
    BY <1>1, <2>1, <2>2 DEF Ending
  <2>5. Showing(c)'
    BY <1>1, <2>1, <2>2, ShowingKept
  <2> QED
    BY <2>3, <2>4, <2>5 DEF Side
<1>5. ASSUME NEW o \in Client, o # c PROVE Side(o)'
  <2>1. View(o)' = View(o)
    BY <1>1, <1>2, <1>5 DEF View
  <2>2. Side(o)
    BY DEF StreamInv
  <2> QED
    BY <1>1, <2>1, <2>2, Untouched
<1> QED
  BY <1>3, <1>4, <1>5 DEF StreamInv

\* SSEBuffer: a buffer that changes, and a screen that may.
LEMMA BufferTyped ==
  ASSUME StreamInv, NEW c \in Client
  PROVE  /\ buffer[c].latest \in SUBSET Nat /\ buffer[c].out \in Seq(Seq(Nat))
         /\ buffer[c].stopped \in BOOLEAN /\ buffer[c].closed \in BOOLEAN
         /\ buffer[c] = [latest |-> buffer[c].latest, out |-> buffer[c].out,
                         stopped |-> buffer[c].stopped, closed |-> buffer[c].closed]
BY ClientIs DEF Buffer

\* What may be put in the place of a buffer.
Flushes(b, new, over) ==
  /\ new.latest = {} /\ new.stopped = b.stopped /\ new.closed = over
  /\ \/ /\ Len(b.out) < OutCap
        /\ \E batch \in SetToSeqs(b.latest) : new.out = Append(b.out, batch)
     \/ ~(Len(b.out) < OutCap) /\ new.out = b.out
  /\ new = [latest |-> new.latest, out |-> new.out, stopped |-> new.stopped, closed |-> new.closed]

LEMMA FlushedIs ==
  ASSUME StreamInv, NEW c \in Client, NEW new \in Flushed(buffer[c])
  PROVE  /\ Flushes(buffer[c], new, buffer[c].closed)
         /\ Flushes(buffer[c], [new EXCEPT !.closed = TRUE], TRUE)
<1>1. PICK b : b = buffer[c]
  OBVIOUS
<1>2. b = [latest |-> b.latest, out |-> b.out, stopped |-> b.stopped, closed |-> b.closed]
  BY <1>1, BufferTyped
<1>3. PICK batch \in SetToSeqs(b.latest) :
        new = [b EXCEPT !.latest = {}, !.out = IF Len(@) < OutCap THEN Append(@, batch) ELSE @]
  BY <1>1 DEF Flushed
<1>4. PICK out : out = IF Len(b.out) < OutCap THEN Append(b.out, batch) ELSE b.out
  OBVIOUS
<1>5. new = [latest |-> {}, out |-> out, stopped |-> b.stopped, closed |-> b.closed]
  BY <1>2, <1>3, <1>4
<1>6. PICK closing : closing = [new EXCEPT !.closed = TRUE]
  OBVIOUS
<1>7. closing = [latest |-> {}, out |-> out, stopped |-> b.stopped, closed |-> TRUE]
  BY <1>5, <1>6
<1>8. \/ Len(b.out) < OutCap /\ \E s \in SetToSeqs(b.latest) : out = Append(b.out, s)
      \/ ~(Len(b.out) < OutCap) /\ out = b.out
  BY <1>3, <1>4
<1>9. Flushes(b, new, b.closed)
  BY <1>5, <1>8 DEF Flushes
<1>10. Flushes(b, closing, TRUE)
  BY <1>7, <1>8 DEF Flushes
<1> QED
  BY <1>1, <1>6, <1>9, <1>10

\* Both flushes of run, the last one of an empty buffer included.
LEMMA FlushKeepsSide ==
  ASSUME StreamInv, NEW c \in Client, FlushTick(c) \/ FlushLast(c)
  PROVE  StreamInv'
<1>1. /\ spilled' = IF buffer[c].latest # {} /\ Spills(buffer[c]) THEN spilled \cup {c} ELSE spilled
      /\ UNCHANGED <<fed, stage, timed, swept, subs, joined, sock, stream, scrap, wire, inbox, reading, screen, client>>
      /\ ~buffer[c].closed
  BY DEF FlushTick, FlushLast, castVars, subVars, pipeVars, screenVars
<1>2. \E new, over : /\ buffer' = [buffer EXCEPT ![c] = new] /\ over \in BOOLEAN
                     /\ over => buffer[c].stopped
                     /\ \/ Flushes(buffer[c], new, over) /\ buffer[c].latest # {}
                        \/ /\ buffer[c].latest = {} /\ over
                           /\ new = [latest |-> {}, out |-> buffer[c].out, stopped |-> TRUE, closed |-> TRUE]
  <2>1. CASE FlushTick(c)
    <3>1. PICK b \in Flushed(buffer[c]) : buffer' = [buffer EXCEPT ![c] = b]
      BY <2>1 DEF FlushTick
    <3>2. buffer[c].latest # {} /\ buffer[c].closed = FALSE
      BY <1>1, <2>1, BufferTyped DEF FlushTick
    <3> QED
      BY <3>1, <3>2, FlushedIs
  <2>2. CASE FlushLast(c) /\ buffer[c].latest # {}
    <3>1. PICK b \in Flushed(buffer[c]) : buffer' = [buffer EXCEPT ![c] = [b EXCEPT !.closed = TRUE]]
      BY <2>2 DEF FlushLast
    <3>2. PICK new : new = [b EXCEPT !.closed = TRUE]
      OBVIOUS
    <3>3. Flushes(buffer[c], new, TRUE) /\ buffer' = [buffer EXCEPT ![c] = new] /\ buffer[c].stopped
      BY <2>2, <3>1, <3>2, FlushedIs DEF FlushLast
    <3> QED
      BY <2>2, <3>3
  <2>3. CASE FlushLast(c) /\ buffer[c].latest = {}
    <3>1. buffer' = [buffer EXCEPT ![c] = [buffer[c] EXCEPT !.closed = TRUE]] /\ buffer[c].stopped = TRUE
      BY <2>3, BufferTyped DEF FlushLast
    <3>2. [buffer[c] EXCEPT !.closed = TRUE] =
            [latest |-> {}, out |-> buffer[c].out, stopped |-> TRUE, closed |-> TRUE]
      <4>1. PICK out, closed : out = buffer[c].out /\ closed = buffer[c].closed
        OBVIOUS
      <4>2. PICK b : b = buffer[c]
        OBVIOUS
      <4>3. b = [latest |-> {}, out |-> out, stopped |-> TRUE, closed |-> closed]
        BY <2>3, <3>1, <4>1, <4>2, BufferTyped
      <4>4. PICK closing : closing = [b EXCEPT !.closed = TRUE]
        OBVIOUS
      <4>5. closing = [latest |-> {}, out |-> out, stopped |-> TRUE, closed |-> TRUE]
        BY <4>3, <4>4
      <4> QED
        BY <4>1, <4>2, <4>4, <4>5
    <3> QED
      BY <2>3, <3>1, <3>2
  <2> QED
    BY <2>1, <2>2, <2>3
<1>3. PICK new, over : /\ buffer' = [buffer EXCEPT ![c] = new] /\ over \in BOOLEAN
                       /\ over => buffer[c].stopped
                       /\ \/ Flushes(buffer[c], new, over) /\ buffer[c].latest # {}
                          \/ /\ buffer[c].latest = {} /\ over
                             /\ new = [latest |-> {}, out |-> buffer[c].out, stopped |-> TRUE, closed |-> TRUE]
  BY <1>2
<1>4. buffer \in [Client -> Buffer]
  BY DEF StreamInv, StreamTyped
<1>5. buffer'[c] = new
  BY <1>3, <1>4
<1>6. new.latest = {} /\ new.stopped = buffer[c].stopped /\ new.closed = over
  <2>1. CASE Flushes(buffer[c], new, over)
    BY <2>1 DEF Flushes
  <2>2. CASE over /\ new = [latest |-> {}, out |-> buffer[c].out, stopped |-> TRUE, closed |-> TRUE]
    <3>1. over = TRUE /\ buffer[c].stopped = TRUE
      BY <1>3, <2>2, BufferTyped
    <3> QED
      BY <2>2, <3>1
  <2> QED
    BY <1>3, <2>1, <2>2
<1>7. Connected(c) /\ Ending(c) /\ Passing(c) /\ Showing(c) /\ Taken(c) \in Nat
  BY ClientIs
<1>0. PICK feed : feed = Received(c)
  OBVIOUS
<1>8. PICK top \in Nat : top = Taken(c)
  BY <1>7
<1>9. /\ Shows(feed, top, screen[c], new.out, {})
      /\ c \in spilled' \/ Covers(feed, top, screen[c], new.out, {})
      /\ c \in IsWeb \/ Straight(top, screen[c], new.out, {})
  <2>1. /\ Shows(feed, top, screen[c], buffer[c].out, buffer[c].latest)
        /\ c \in spilled \/ Covers(feed, top, screen[c], buffer[c].out, buffer[c].latest)
        /\ c \in IsWeb \/ Straight(top, screen[c], buffer[c].out, buffer[c].latest)
    BY <1>0, <1>7, <1>8 DEF Showing
  <2>2. CASE buffer[c].latest = {}
    <3>1. new.out = buffer[c].out
      BY <1>3, <2>2
    <3> QED
      BY <1>1, <2>1, <2>2, <3>1
  <2>3. CASE buffer[c].latest # {}
    <3>1. c \in IsWeb
      BY <2>1, <2>3 DEF Straight
    <3>2. CASE Len(buffer[c].out) < OutCap
      <4>1. PICK batch \in SetToSeqs(buffer[c].latest) : new.out = Append(buffer[c].out, batch)
        BY <1>3, <2>3, <3>2 DEF Flushes
      <4>2. /\ Shows(feed, top, screen[c], new.out, {})
            /\ Covers(feed, top, screen[c], buffer[c].out, buffer[c].latest) => Covers(feed, top, screen[c], new.out, {})
        BY <2>1, <3>2, <4>1, Batched
      <4>3. spilled' = spilled \/ c \in spilled'
        BY <1>1
      <4> QED
        BY <2>1, <3>1, <4>2, <4>3
    <3>3. CASE ~(Len(buffer[c].out) < OutCap)
      <4>1. new.out = buffer[c].out
        BY <1>3, <2>3, <3>3 DEF Flushes
      <4>2. Len(buffer[c].out) = OutCap
        <5>1. Len(buffer[c].out) \in Nat /\ Len(buffer[c].out) <= OutCap /\ OutCap \in Nat
          BY <2>1, BufferTyped, StreamAssumption DEF Shows
        <5> QED
          BY <3>3, <5>1
      <4>3. c \in spilled'
        BY <1>1, <2>3, <4>2 DEF Spills
      <4>4. Shows(feed, top, screen[c], new.out, {})
        BY <2>1, <4>1, BufferLost
      <4> QED
        BY <3>1, <4>3, <4>4
    <3> QED
      BY <3>2, <3>3
  <2> QED
    BY <2>2, <2>3
<1>10. new \in Buffer
  <2>1. new.out \in Seq(Seq(Nat))
    BY <1>9 DEF Shows
  <2>2. new = [latest |-> new.latest, out |-> new.out, stopped |-> new.stopped, closed |-> new.closed]
    BY <1>3 DEF Flushes
  <2> QED
    BY <1>3, <1>6, <2>1, <2>2, BufferTyped DEF Buffer
<1>11. StreamTyped'
  <2>1. spilled' \in SUBSET Client /\ buffer' \in [Client -> Buffer]
    BY <1>1, <1>3, <1>4, <1>10 DEF StreamInv, StreamTyped
  <2> QED
    BY <1>1, <2>1 DEF StreamInv, StreamTyped
<1>12. Side(c)'
  <2>1. Taken(c)' = Taken(c)
    BY <1>1 DEF Taken
  <2>2. Connected(c)' /\ Passing(c)'
    BY <1>1, <1>7, <2>1, ConnectedKept DEF Passing
  <2>3. Showing(c)'
    <3>1. Received(c)' = Received(c)
      BY <1>1 DEF Received
    <3> QED
      BY <1>0, <1>1, <1>5, <1>6, <1>8, <1>9, <2>1, <3>1 DEF Showing
  <2>4. Ending(c)'
    <3>1. CASE buffer[c].latest = {}
      <4>1. new.out = buffer[c].out
        BY <1>3, <3>1
      <4> QED
        BY <1>1, <1>3, <1>5, <1>6, <1>7, <4>1 DEF Ending
    <3>2. CASE buffer[c].latest # {}
      <4>1. client[c] # "ended"
        BY <1>7, <3>2 DEF Ending
      <4> QED
        BY <1>1, <1>3, <1>5, <1>6, <1>7, <4>1 DEF Ending
    <3> QED
      BY <3>1, <3>2
  <2> QED
    BY <2>2, <2>3, <2>4 DEF Side
<1>13. ASSUME NEW o \in Client, o # c PROVE Side(o)'
  <2>1. View(o)' = View(o) /\ ((o \in spilled)' <=> o \in spilled)
    BY <1>1, <1>3, <1>4, <1>13 DEF View
  <2>2. Side(o)
    BY DEF StreamInv
  <2> QED
    BY <1>1, <2>1, <2>2, Untouched
<1> QED
  BY <1>11, <1>12, <1>13 DEF StreamInv

\* The consumers.
LEMMA TakeEventKeepsSide ==
  ASSUME StreamInv, NEW c \in Client, TakeEvent(c)
  PROVE  StreamInv'
<1>1. /\ client[c] = "on" /\ inbox[c] # <<>>
      /\ inbox' = [inbox EXCEPT ![c] = Tail(@)]
      /\ UNCHANGED <<fed, stage, timed, swept, subs, joined, sock, stream, scrap, wire, reading, client, spilled>>
  BY DEF TakeEvent, castVars, subVars, pipeVars, screenVars
<1>2. PICK n, feed : n = Head(inbox[c]) /\ feed = Received(c)
  OBVIOUS
<1>0. Received(c)' = feed
  BY <1>1, <1>2 DEF Received
<1>3. \/ /\ c \in IsWeb /\ feed[n].token
         /\ buffer' = [buffer EXCEPT ![c] = Add(feed, @, n)] /\ screen' = screen
      \/ /\ c \notin IsWeb \/ ~feed[n].token
         /\ screen' = [screen EXCEPT ![c] = Append(@, n)] /\ buffer' = buffer
  BY <1>2 DEF TakeEvent
<1>4. PICK rest : rest = Tail(inbox[c])
  OBVIOUS
<1>5. /\ rest \in Seq(Nat) /\ n \in Nat /\ n = inbox[c][1]
      /\ Len(inbox[c]) \in Nat \ {0} /\ Len(rest) = Len(inbox[c]) - 1
      /\ DOMAIN inbox[c] = 1 .. Len(inbox[c]) /\ DOMAIN rest = 1 .. Len(inbox[c]) - 1
      /\ \A i \in 1 .. Len(inbox[c]) - 1 : rest[i] = inbox[c][i + 1]
  BY <1>1, <1>2, <1>4, ClientIs, Shortened
<1>6. inbox \in [Client -> Seq(Nat)] /\ screen \in [Client -> Seq(Nat)] /\ buffer \in [Client -> Buffer]
  BY DEF StreamInv, StreamTyped
<1>7. inbox' = [inbox EXCEPT ![c] = rest] /\ inbox'[c] = rest
  BY <1>1, <1>4, <1>6
<1>8. /\ Connected(c) /\ Ending(c) /\ Passing(c) /\ Showing(c)
      /\ Len(stream[c]) \in Nat /\ Len(wire[c]) \in Nat /\ Taken(c) \in Nat
  BY ClientIs
<1>9. PICK top \in Nat : top = Taken(c)
  BY <1>8
<1>10. n = top + 1
  <2>1. 1 \in DOMAIN inbox[c]
    BY <1>5
  <2> QED
    BY <1>5, <1>8, <1>9, <2>1 DEF Passing
<1>11. Taken(c)' = n
  <2>1. PICK w \in Nat, a \in Nat, b \in Nat : w = Len(stream[c]) /\ a = Len(wire[c]) /\ b = Len(inbox[c])
    BY <1>5, <1>8
  <2>2. top = w - a - b /\ Taken(c)' = w - a - (b - 1)
    BY <1>1, <1>5, <1>7, <1>9, <2>1 DEF Taken
  <2>3. w - a - (b - 1) = (w - a - b) + 1
    OBVIOUS
  <2> QED
    BY <1>10, <2>2, <2>3
<1>12. /\ Shows(feed, top, screen[c], buffer[c].out, buffer[c].latest)
       /\ c \in spilled \/ Covers(feed, top, screen[c], buffer[c].out, buffer[c].latest)
       /\ c \in IsWeb \/ Straight(top, screen[c], buffer[c].out, buffer[c].latest)
  BY <1>2, <1>8, <1>9 DEF Showing
<1>13. ASSUME c \in IsWeb, feed[n].token, buffer' = [buffer EXCEPT ![c] = Add(feed, @, n)], screen' = screen
       PROVE  /\ Showing(c)' /\ Ending(c)' /\ buffer' \in [Client -> Buffer] /\ screen' \in [Client -> Seq(Nat)]
              /\ \A o \in Client : o # c => screen'[o] = screen[o] /\ buffer'[o] = buffer[o]
  <2>1. PICK b : b = buffer[c]
    OBVIOUS
  <2>2. PICK new : new = {x \in b.latest : feed[x].sess # feed[n].sess} \cup {n}
    OBVIOUS
  <2>3. PICK added : added = [b EXCEPT !.latest = new]
    OBVIOUS
  <2>4. buffer' = [buffer EXCEPT ![c] = added]
    BY <1>13, <2>1, <2>2, <2>3 DEF Add
  <2>5. b \in Buffer /\ b.latest \in SUBSET Nat
    BY <2>1, BufferTyped, ClientIs
  <2>6. /\ added \in Buffer /\ added.latest = new /\ added.out = b.out
        /\ added.stopped = b.stopped /\ added.closed = b.closed
    <3>1. new \in SUBSET Nat
      BY <1>5, <2>2, <2>5
    <3> QED
      BY <2>3, <2>5, <3>1 DEF Buffer
  <2>7. buffer'[c] = added
    BY <1>6, <2>4
  <2>8. /\ Shows(feed, n, screen[c], b.out, new)
        /\ Covers(feed, top, screen[c], b.out, b.latest) => Covers(feed, n, screen[c], b.out, new)
    BY <1>10, <1>12, <1>13, <2>1, <2>2, Buffered
  <2>9. Showing(c)'
    BY <1>0, <1>1, <1>9, <1>11, <1>12, <1>13, <2>1, <2>6, <2>7, <2>8 DEF Showing
  <2>10. Ending(c)'
    BY <1>1, <1>8, <2>1, <2>6, <2>7 DEF Ending
  <2>11. buffer' \in [Client -> Buffer]
    BY <1>6, <2>4, <2>6
  <2>12. \A o \in Client : o # c => screen'[o] = screen[o] /\ buffer'[o] = buffer[o]
    BY <1>6, <1>13, <2>4
  <2>13. screen' \in [Client -> Seq(Nat)]
    BY <1>6, <1>13
  <2> QED
    BY <2>9, <2>10, <2>11, <2>12, <2>13
<1>14. ASSUME c \notin IsWeb \/ ~feed[n].token,
              screen' = [screen EXCEPT ![c] = Append(@, n)], buffer' = buffer
       PROVE  /\ Showing(c)' /\ Ending(c)' /\ buffer' \in [Client -> Buffer] /\ screen' \in [Client -> Seq(Nat)]
              /\ \A o \in Client : o # c => screen'[o] = screen[o] /\ buffer'[o] = buffer[o]
  <2>1. PICK new : new = Append(screen[c], n)
    OBVIOUS
  <2>2. screen' = [screen EXCEPT ![c] = new] /\ screen'[c] = new
    BY <1>6, <1>14, <2>1
  <2>3. ~feed[n].token \/ Straight(top, screen[c], buffer[c].out, buffer[c].latest)
    BY <1>12, <1>14
  <2>4. /\ Shows(feed, n, new, buffer[c].out, buffer[c].latest)
        /\ Covers(feed, top, screen[c], buffer[c].out, buffer[c].latest) =>
             Covers(feed, n, new, buffer[c].out, buffer[c].latest)
        /\ Straight(top, screen[c], buffer[c].out, buffer[c].latest) =>
             Straight(n, new, buffer[c].out, buffer[c].latest)
    <3>1. PICK shown, out, held : shown = screen[c] /\ out = buffer[c].out /\ held = buffer[c].latest
      OBVIOUS
    <3>2. /\ Shows(feed, top, shown, out, held) /\ new = Append(shown, n)
          /\ ~feed[n].token \/ Straight(top, shown, out, held)
      BY <1>12, <2>1, <2>3, <3>1
    <3>3. /\ Shows(feed, n, new, out, held)
          /\ Covers(feed, top, shown, out, held) => Covers(feed, n, new, out, held)
          /\ Straight(top, shown, out, held) => Straight(n, new, out, held)
      BY <1>10, <3>2, Appears
    <3> QED
      BY <3>1, <3>3
  <2>5. Showing(c)'
    BY <1>0, <1>1, <1>9, <1>11, <1>12, <1>14, <2>2, <2>4 DEF Showing
  <2>6. Ending(c)'
    BY <1>1, <1>8, <1>14 DEF Ending
  <2>7. screen' \in [Client -> Seq(Nat)]
    BY <1>6, <2>2, <2>4 DEF Shows
  <2>8. \A o \in Client : o # c => screen'[o] = screen[o] /\ buffer'[o] = buffer[o]
    BY <1>6, <1>14, <2>2
  <2> QED
    BY <1>6, <1>14, <2>5, <2>6, <2>7, <2>8
<1>15. /\ Showing(c)' /\ Ending(c)' /\ buffer' \in [Client -> Buffer] /\ screen' \in [Client -> Seq(Nat)]
       /\ \A o \in Client : o # c => screen'[o] = screen[o] /\ buffer'[o] = buffer[o]
  BY <1>3, <1>13, <1>14
<1>16. StreamTyped'
  <2>1. inbox' \in [Client -> Seq(Nat)]
    BY <1>5, <1>6, <1>7
  <2>2. StreamTyped
    BY DEF StreamInv
  <2> QED
    BY <1>1, <1>15, <2>1, <2>2 DEF StreamTyped
<1>17. Side(c)'
  <2>1. Connected(c)'
    BY <1>1, <1>8, ConnectedKept
  <2>2. Passing(c)'
    <3>1. \A i \in DOMAIN rest : rest[i] = n + i
      <4>1. TAKE i \in DOMAIN rest
      <4>2. i \in Nat /\ i + 1 \in DOMAIN inbox[c] /\ rest[i] = inbox[c][i + 1]
        <5>1. PICK k \in Nat : k = Len(inbox[c])
          BY <1>5
        <5>2. /\ DOMAIN rest = 1 .. k - 1 /\ DOMAIN inbox[c] = 1 .. k
              /\ \A j \in 1 .. k - 1 : rest[j] = inbox[c][j + 1]
          BY <1>5, <5>1
        <5>3. i \in 1 .. k - 1
          BY <5>2
        <5> QED
          BY <5>2, <5>3
      <4>3. rest[i] = top + (i + 1)
        BY <1>8, <1>9, <4>2 DEF Passing
      <4> QED
        BY <1>10, <4>2, <4>3
    <3>2. \A i \in DOMAIN wire[c] : wire[c][i] = n + Len(rest) + i
      <4>1. TAKE i \in DOMAIN wire[c]
      <4>2. i \in Nat
        BY ClientIs
      <4>3. wire[c][i] = top + Len(inbox[c]) + i
        BY <1>8, <1>9 DEF Passing
      <4>4. PICK b \in Nat : b = Len(inbox[c])
        BY <1>5
      <4>5. top + b + i = (top + 1) + (b - 1) + i
        BY <4>2
      <4> QED
        BY <1>5, <1>10, <4>3, <4>4, <4>5
    <3>3. 0 <= n
      BY <1>10
    <3> QED
      BY <1>1, <1>7, <1>11, <3>1, <3>2, <3>3 DEF Passing
  <2> QED
    BY <1>15, <2>1, <2>2 DEF Side
<1>18. ASSUME NEW o \in Client, o # c PROVE Side(o)'
  <2>1. View(o)' = View(o)
    BY <1>1, <1>6, <1>7, <1>15, <1>18 DEF View
  <2>2. Side(o)
    BY DEF StreamInv
  <2> QED
    BY <1>1, <2>1, <2>2, Untouched
<1> QED
  BY <1>16, <1>17, <1>18 DEF StreamInv

LEMMA TakeBatchKeepsSide ==
  ASSUME StreamInv, NEW c \in Client, TakeBatch(c)
  PROVE  StreamInv'
<1>1. /\ client[c] \in {"on", "draining"} /\ buffer[c].out # <<>>
      /\ screen' = [screen EXCEPT ![c] = @ \o Head(buffer[c].out)]
      /\ buffer' = [buffer EXCEPT ![c].out = Tail(@)]
      /\ UNCHANGED <<fed, stage, timed, swept, subs, joined, sock, stream, scrap, wire, inbox, reading, client, spilled>>
  BY DEF TakeBatch, castVars, subVars, pipeVars, screenVars
<1>2. screen \in [Client -> Seq(Nat)] /\ buffer \in [Client -> Buffer]
  BY DEF StreamInv, StreamTyped
<1>3. PICK b : b = buffer[c]
  OBVIOUS
<1>4. PICK list, rest : list = screen[c] \o Head(b.out) /\ rest = Tail(b.out)
  OBVIOUS
<1>5. PICK new : new = [b EXCEPT !.out = rest]
  OBVIOUS
<1>6. screen' = [screen EXCEPT ![c] = list] /\ buffer' = [buffer EXCEPT ![c] = new]
  BY <1>1, <1>3, <1>4, <1>5
<1>7. screen'[c] = list /\ buffer'[c] = new
  BY <1>2, <1>6
<1>8. /\ Connected(c) /\ Ending(c) /\ Passing(c) /\ Showing(c) /\ Taken(c) \in Nat
      /\ b \in Buffer
  BY <1>3, ClientIs
<1>0. PICK feed : feed = Received(c)
  OBVIOUS
<1>9. PICK top \in Nat : top = Taken(c)
  BY <1>8
<1>10. /\ Shows(feed, top, screen[c], b.out, b.latest)
       /\ c \in spilled \/ Covers(feed, top, screen[c], b.out, b.latest)
       /\ c \in IsWeb \/ Straight(top, screen[c], b.out, b.latest)
  BY <1>0, <1>3, <1>8, <1>9 DEF Showing
<1>11. /\ Shows(feed, top, list, rest, b.latest)
       /\ Covers(feed, top, screen[c], b.out, b.latest) => Covers(feed, top, list, rest, b.latest)
  <2>1. PICK shown, out, held : shown = screen[c] /\ out = b.out /\ held = b.latest
    OBVIOUS
  <2>2. Shows(feed, top, shown, out, held) /\ out # <<>> /\ list = shown \o Head(out) /\ rest = Tail(out)
    BY <1>1, <1>3, <1>4, <1>10, <2>1
  <2>3. /\ Shows(feed, top, list, rest, held)
        /\ Covers(feed, top, shown, out, held) => Covers(feed, top, list, rest, held)
    BY <2>2, BatchShown
  <2> QED
    BY <2>1, <2>3
<1>12. c \in IsWeb
  BY <1>1, <1>3, <1>10 DEF Straight
<1>13. /\ new \in Buffer /\ new.latest = b.latest /\ new.out = rest
       /\ new.stopped = b.stopped /\ new.closed = b.closed
  <2>1. rest \in Seq(Seq(Nat))
    BY <1>11 DEF Shows
  <2> QED
    BY <1>5, <1>8, <2>1 DEF Buffer
<1>14. StreamTyped'
  <2>1. screen' \in [Client -> Seq(Nat)] /\ buffer' \in [Client -> Buffer]
    BY <1>2, <1>6, <1>11, <1>13 DEF Shows
  <2> QED
    BY <1>1, <2>1 DEF StreamInv, StreamTyped
<1>15. Side(c)'
  <2>1. Taken(c)' = Taken(c)
    BY <1>1 DEF Taken
  <2>2. Connected(c)' /\ Passing(c)'
    BY <1>1, <1>8, <2>1, ConnectedKept DEF Passing
  <2>3. Showing(c)'
    <3>1. Received(c)' = Received(c)
      BY <1>1 DEF Received
    <3> QED
      BY <1>0, <1>1, <1>7, <1>9, <1>10, <1>11, <1>12, <1>13, <2>1, <3>1 DEF Showing
  <2>4. Ending(c)'
    BY <1>1, <1>3, <1>7, <1>8, <1>13 DEF Ending
  <2> QED
    BY <2>2, <2>3, <2>4 DEF Side
<1>16. ASSUME NEW o \in Client, o # c PROVE Side(o)'
  <2>1. View(o)' = View(o)
    BY <1>1, <1>2, <1>6, <1>16 DEF View
  <2>2. Side(o)
    BY DEF StreamInv
  <2> QED
    BY <1>1, <2>1, <2>2, Untouched
<1> QED
  BY <1>14, <1>15, <1>16 DEF StreamInv

LEMMA StopKeepsSide ==
  ASSUME StreamInv, NEW c \in Client, TakeClosed(c) \/ Leave(c) \/ Drained(c)
  PROVE  StreamInv'
<1>1. /\ UNCHANGED <<fed, stage, timed, swept, subs, joined, sock, stream, scrap, wire, inbox, reading, screen, spilled>>
      /\ \/ /\ client[c] = "on" /\ buffer' = [buffer EXCEPT ![c].stopped = (c \in IsWeb)]
            /\ \/ inbox[c] = <<>> /\ ~reading[c] /\ client' = [client EXCEPT ![c] = IF c \in IsWeb THEN "draining" ELSE "ended"]
               \/ client' = [client EXCEPT ![c] = "left"]
         \/ /\ client[c] = "draining" /\ buffer[c].closed /\ buffer[c].out = <<>> /\ buffer' = buffer
            /\ client' = [client EXCEPT ![c] = "ended"]
  BY DEF TakeClosed, Leave, Drained, castVars, subVars, pipeVars, screenVars
<1>2. /\ client \in [Client -> {"away", "on", "draining", "ended", "left"}] /\ buffer \in [Client -> Buffer]
  BY DEF StreamInv, StreamTyped
<1>3. PICK b \in Buffer : b = buffer[c]
  BY <1>2
<1>4. PICK web \in BOOLEAN : web = (c \in IsWeb)
  <2>1. CASE c \in IsWeb
    <3>1. TRUE = (c \in IsWeb)
      BY <2>1
    <3> QED
      BY <3>1
  <2>2. CASE c \notin IsWeb
    <3>1. FALSE = (c \in IsWeb)
      BY <2>2
    <3> QED
      BY <3>1
  <2> QED
    BY <2>1, <2>2
<1>5. PICK new \in Buffer : /\ new.latest = b.latest /\ new.out = b.out /\ new.closed = b.closed
                            /\ new.stopped = IF client[c] = "on" THEN web ELSE b.stopped
                            /\ buffer' = [buffer EXCEPT ![c] = new]
  <2>1. CASE client[c] = "on"
    <3>1. PICK stopping : stopping = [b EXCEPT !.stopped = web]
      OBVIOUS
    <3>2. /\ stopping \in Buffer /\ stopping.latest = b.latest /\ stopping.out = b.out
          /\ stopping.closed = b.closed /\ stopping.stopped = web
      BY <3>1 DEF Buffer
    <3>3. buffer' = [buffer EXCEPT ![c] = stopping]
      BY <1>1, <1>3, <1>4, <2>1, <3>1
    <3> QED
      BY <2>1, <3>2, <3>3
  <2>2. CASE client[c] # "on"
    BY <1>1, <1>2, <1>3, <2>2
  <2> QED
    BY <2>1, <2>2
<1>6. buffer'[c] = new
  BY <1>2, <1>5
<1>7. /\ new \in Buffer /\ new.latest = b.latest /\ new.out = b.out /\ new.closed = b.closed
      /\ new.stopped = IF client[c] = "on" THEN c \in IsWeb ELSE b.stopped
  BY <1>4, <1>5
<1>8. Connected(c) /\ Ending(c) /\ Passing(c) /\ Showing(c)
  BY ClientIs
<1>9. StreamTyped'
  <2>1. buffer' \in [Client -> Buffer]
    BY <1>2, <1>5, <1>7
  <2>2. client' \in [Client -> {"away", "on", "draining", "ended", "left"}]
    BY <1>1, <1>2
  <2> QED
    BY <1>1, <2>1, <2>2 DEF StreamInv, StreamTyped
<1>10. Side(c)'
  <2>1. Taken(c)' = Taken(c)
    BY <1>1 DEF Taken
  <2>2. Connected(c)' /\ Passing(c)'
    BY <1>1, <1>8, <2>1, ConnectedKept DEF Passing
  <2>3. Showing(c)'
    BY <1>1, <1>3, <1>6, <1>7, <1>8, <2>1, ShowingKept
  <2>4. \/ client[c] = "on" /\ client'[c] = "left"
        \/ client[c] = "on" /\ inbox[c] = <<>> /\ ~reading[c] /\ client'[c] = IF c \in IsWeb THEN "draining" ELSE "ended"
        \/ client[c] = "draining" /\ b.closed /\ b.out = <<>> /\ client'[c] = "ended"
    BY <1>1, <1>2, <1>3
  <2>5. c \notin IsWeb => b.out = <<>> /\ b.latest = {}
    BY <1>3, <1>8 DEF Showing, Straight
  <2>6. client[c] = "on" => ~b.stopped /\ ~b.closed
    BY <1>3, <1>8 DEF Ending
  <2>7. Ending(c)'
    BY <1>1, <1>3, <1>6, <1>7, <1>8, <2>4, <2>5, <2>6 DEF Ending
  <2> QED
    BY <2>2, <2>3, <2>7 DEF Side
<1>11. ASSUME NEW o \in Client, o # c PROVE Side(o)'
  <2>1. View(o)' = View(o)
    <3>1. client'[o] = client[o]
      BY <1>1, <1>2, <1>11
    <3> QED
      BY <1>1, <1>2, <1>5, <1>11, <3>1 DEF View
  <2>2. Side(o)
    BY DEF StreamInv
  <2> QED
    BY <1>1, <2>1, <2>2, Untouched
<1> QED
  BY <1>9, <1>10, <1>11 DEF StreamInv

LEMMA StreamStart == StreamInit => StreamInv
<1> SUFFICES ASSUME StreamInit PROVE StreamInv
  OBVIOUS
<1>1. PICK none : none = [latest |-> {}, out |-> <<>>, stopped |-> FALSE, closed |-> FALSE]
  OBVIOUS
<1>2. buffer = [c \in Client |-> none] /\ none \in Buffer
  <2>1. <<>> \in Seq(Seq(Nat)) /\ {} \in SUBSET Nat
    OBVIOUS
  <2> QED
    BY <1>1, <2>1 DEF StreamInit, EmptyBuffer, Buffer
<1>3. StreamTyped
  <2>1. <<>> \in Seq(Nat) /\ <<>> \in Seq(Caster \X Nat)
    OBVIOUS
  <2>2. fed \in [Caster -> Nat] /\ stage \in [Caster -> [Client -> CastStages]]
    BY DEF StreamInit, CastStages
  <2> QED
    BY <1>2, <2>1, <2>2 DEF StreamInit, StreamTyped
<1>4. ASSUME NEW c \in Client PROVE Side(c)
  <2>1. /\ sock[c] = "none" /\ stream[c] = <<>> /\ scrap[c] = "none" /\ wire[c] = <<>> /\ inbox[c] = <<>>
        /\ reading[c] = FALSE /\ screen[c] = <<>> /\ client[c] = "away" /\ joined[c] = fed
        /\ buffer[c] = none /\ subs = {} /\ \A b \in Caster : fed[b] = 0 /\ stage[b][c] = "none"
    BY <1>2 DEF StreamInit
  <2>2. Taken(c) = 0
    <3>1. Len(stream[c]) = 0 /\ Len(wire[c]) = 0 /\ Len(inbox[c]) = 0
      BY <2>1
    <3>2. PICK n, a, b : n = Len(stream[c]) /\ a = Len(wire[c]) /\ b = Len(inbox[c])
      OBVIOUS
    <3>3. Taken(c) = n - a - b
      BY <3>2 DEF Taken
    <3> QED
      BY <3>1, <3>2, <3>3
  <2>3. DOMAIN stream[c] = {} /\ DOMAIN inbox[c] = {} /\ DOMAIN wire[c] = {}
    BY <2>1
  <2>4. WholeStream(c)
    BY <2>1, <2>3 DEF WholeStream
  <2>5. Connected(c) /\ Ending(c)
    BY <1>1, <2>1, <2>3, <2>4 DEF Connected, Ending
  <2>6. Passing(c)
    BY <2>2, <2>3 DEF Passing
  <2>7. PICK feed : feed = Received(c)
    OBVIOUS
  <2>8. Shows(feed, 0, <<>>, <<>>, {}) /\ Covers(feed, 0, <<>>, <<>>, {}) /\ Straight(0, <<>>, <<>>, {})
    <3>1. PICK e : e = <<>>
      OBVIOUS
    <3>2. e \in Seq(Nat) /\ e \in Seq(Seq(Nat)) /\ Len(e) = 0 /\ DOMAIN e = {}
      BY <3>1
    <3>3. OnScreen(e) = {} /\ InBatches(e) = {} /\ 1 .. 0 = {}
      BY <3>2 DEF OnScreen, InBatches
    <3>4. Shows(feed, 0, e, e, {})
      BY <3>2, <3>3, StreamAssumption DEF Shows
    <3>5. Covers(feed, 0, e, e, {})
      BY <3>3 DEF Covers
    <3>6. Straight(0, e, e, {})
      BY <3>1, <3>2 DEF Straight
    <3> QED
      BY <3>1, <3>4, <3>5, <3>6
  <2>9. Showing(c)
    <3>1. buffer[c].out = <<>> /\ buffer[c].latest = {}
      BY <1>1, <2>1
    <3> QED
      BY <2>1, <2>2, <2>7, <2>8, <3>1 DEF Showing
  <2> QED
    BY <2>5, <2>6, <2>9 DEF Side
<1> QED
  BY <1>3, <1>4 DEF StreamInv

LEMMA StreamStep == StreamInv /\ [StreamNext]_streamVars => StreamInv'
<1> SUFFICES ASSUME StreamInv, [StreamNext]_streamVars PROVE StreamInv'
  OBVIOUS
<1>1. CASE StreamNext
  <2>1. ASSUME NEW b \in Caster, BeginBroadcast(b) PROVE StreamInv'
    BY <2>1, BeginKeepsSide
  <2>2. ASSUME NEW b \in Caster, NEW c \in Client,
               SetDeadline(b, c) \/ WriteFails(b, c) \/ ResetDeadline(b, c) \/ RemoveSub(b, c)
        PROVE  StreamInv'
    BY <2>2, MoveKeepsSide
  <2>3. ASSUME NEW b \in Caster, NEW c \in Client, WriteEvent(b, c) PROVE StreamInv'
    <3>1. CASE scrap[c] = "none"
      BY <2>3, <3>1, WriteKeepsSide
    <3>2. CASE scrap[c] # "none"
      BY <2>3, <3>2, MoveKeepsSide
    <3> QED
      BY <3>1, <3>2
  <2>4. ASSUME SweepSubscribers \/ \E c \in Client : DropBacklog(c) PROVE StreamInv'
    BY <2>4, SweepKeepsSide
  <2>5. ASSUME NEW c \in Client, AddSubscriber(c) PROVE StreamInv'
    BY <2>5, AddKeepsSide
  <2>6. ASSUME NEW c \in Client, Subscribe(c) PROVE StreamInv'
    BY <2>6, SubscribeKeepsSide
  <2>7. ASSUME NEW c \in Client, ReadEvent(c) PROVE StreamInv'
    BY <2>7, ReadKeepsSide
  <2>8. ASSUME NEW c \in Client, ReadEnds(c) PROVE StreamInv'
    BY <2>8, EndKeepsSide
  <2>9. ASSUME NEW c \in Client, FlushTick(c) \/ FlushLast(c) PROVE StreamInv'
    BY <2>9, FlushKeepsSide
  <2>10. ASSUME NEW c \in Client, TakeEvent(c) PROVE StreamInv'
    BY <2>10, TakeEventKeepsSide
  <2>11. ASSUME NEW c \in Client, TakeBatch(c) PROVE StreamInv'
    BY <2>11, TakeBatchKeepsSide
  <2>12. ASSUME NEW c \in Client, TakeClosed(c) \/ Leave(c) \/ Drained(c) PROVE StreamInv'
    BY <2>12, StopKeepsSide
  <2> QED
    BY <1>1, <2>1, <2>2, <2>3, <2>4, <2>5, <2>6, <2>7, <2>8, <2>9, <2>10, <2>11, <2>12 DEF StreamNext
<1>2. CASE UNCHANGED streamVars
  <2>1. UNCHANGED <<fed, stage, timed, subs, swept, sock, joined, stream, scrap, wire, inbox, reading, screen,
                    buffer, client, spilled>>
    BY <1>2 DEF streamVars, castVars, subVars, pipeVars, screenVars
  <2>2. StreamTyped'
    BY <2>1 DEF StreamInv, StreamTyped
  <2>3. ASSUME NEW c \in Client PROVE Side(c)'
    <3>1. View(c)' = View(c) /\ Side(c)
      BY <2>1 DEF View, StreamInv
    <3> QED
      BY <2>1, <3>1, Untouched
  <2> QED
    BY <2>2, <2>3 DEF StreamInv
<1> QED
  BY <1>1, <1>2

LEMMA SideFaithful ==
  ASSUME StreamInv, NEW c \in Client
  PROVE  FaithfulScreen(c)
<1>1. /\ Showing(c) /\ Ending(c) /\ Len(stream[c]) \in Nat /\ Taken(c) \in Nat
      /\ Taken(c) <= Len(stream[c]) /\ stream[c] \in Seq(Caster \X Nat)
  BY ClientIs
<1>0. PICK feed : feed = Received(c)
  OBVIOUS
<1>2. PICK len \in Nat, top \in Nat : len = Len(stream[c]) /\ top = Taken(c)
  BY <1>1
<1>3. PICK shown, out, held : shown = screen[c] /\ out = buffer[c].out /\ held = buffer[c].latest
  OBVIOUS
<1>4. /\ Shows(feed, top, shown, out, held)
      /\ c \in spilled \/ Covers(feed, top, shown, out, held)
      /\ c \in IsWeb \/ Straight(top, shown, out, held)
  BY <1>0, <1>1, <1>2, <1>3 DEF Showing
<1>5. DOMAIN feed = 1 .. len /\ top <= len
  <2>1. DOMAIN feed = DOMAIN stream[c]
    BY <1>0 DEF Received
  <2>2. DOMAIN stream[c] = 1 .. Len(stream[c])
    BY <1>1
  <2> QED
    BY <1>1, <1>2, <2>1, <2>2
<1>6. OnScreen(shown) \subseteq 1 .. top /\ 1 .. top \subseteq DOMAIN feed
  BY <1>4, <1>5 DEF Shows
<1>7. c \notin IsWeb => \A i \in DOMAIN shown : shown[i] = i
  BY <1>4 DEF Straight
<1>8. \A i, k \in DOMAIN shown : i < k /\ Alike(feed, shown[i], shown[k]) => shown[i] < shown[k]
  BY <1>4 DEF Shows
<1>9. ASSUME NEW n \in OnScreen(shown), NEW m \in DOMAIN feed, m < n, ~feed[m].token PROVE m \in OnScreen(shown)
  <2>1. m \in 1 .. top
    BY <1>5, <1>6, <1>9
  <2> QED
    BY <1>4, <1>9, <2>1 DEF Shows
<1>10. ASSUME client[c] = "ended", NEW m \in DOMAIN feed
       PROVE  \/ m \in OnScreen(shown)
              \/ /\ c \in IsWeb /\ feed[m].token
                 /\ c \in spilled \/ \E n \in OnScreen(shown) : Alike(feed, m, n) /\ m < n
  <2>1. wire[c] = <<>> /\ inbox[c] = <<>> /\ out = <<>> /\ held = {}
    BY <1>1, <1>3, <1>10 DEF Ending
  <2>2. top = len
    <3>1. Len(wire[c]) = 0 /\ Len(inbox[c]) = 0
      BY <2>1
    <3>2. PICK a, b : a = Len(wire[c]) /\ b = Len(inbox[c])
      OBVIOUS
    <3>3. top = len - a - b
      BY <1>2, <3>2 DEF Taken
    <3> QED
      BY <3>1, <3>2, <3>3
  <2>3. m \in 1 .. top
    BY <1>5, <2>2
  <2>4. CASE ~feed[m].token
    BY <1>4, <2>3, <2>4 DEF Shows
  <2>5. CASE c \notin IsWeb
    <3>1. Len(shown) = top /\ (\A i \in DOMAIN shown : shown[i] = i) /\ shown \in Seq(Nat)
      BY <1>4, <2>5 DEF Straight, Shows
    <3>2. m \in DOMAIN shown
      BY <2>3, <3>1
    <3>3. shown[m] = m
      BY <3>1, <3>2
    <3> QED
      BY <3>2, <3>3 DEF OnScreen
  <2>6. CASE feed[m].token /\ c \in IsWeb /\ c \notin spilled
    <3>1. PICK n \in OnScreen(shown) \cup InBatches(out) \cup held : Alike(feed, m, n) /\ m <= n
      BY <1>4, <2>3, <2>6 DEF Covers
    <3>2. InBatches(out) = {}
      BY <2>1 DEF InBatches
    <3>3. n \in OnScreen(shown)
      BY <2>1, <3>1, <3>2
    <3>4. n \in Nat /\ m \in Nat
      BY <1>6, <2>3, <3>3
    <3>5. n = m \/ m < n
      BY <3>1, <3>4
    <3> QED
      BY <2>6, <3>1, <3>3, <3>5
  <2> QED
    BY <2>4, <2>5, <2>6
<1>11. OnScreen(shown) \subseteq DOMAIN feed
  BY <1>6
<1> QED
  BY <1>0, <1>3, <1>7, <1>8, <1>9, <1>10, <1>11 DEF FaithfulScreen

\* What is written to every connection is whole, and every screen shows it
\* faithfully, whatever the goroutines write at once and whatever fails, is cut
\* off, buffered and closed on the way, for any number of goroutines that
\* broadcast and of clients.
THEOREM StreamsFaithful == StreamSpec => []StreamFaithful
<1>1. StreamInv => StreamFaithful
  <2> SUFFICES ASSUME StreamInv, NEW c \in Client PROVE WholeStream(c) /\ FaithfulScreen(c)
    BY DEF StreamFaithful
  <2> QED
    BY ClientIs, SideFaithful DEF Connected
<1> QED
  BY <1>1, StreamStart, StreamStep, PTL DEF StreamSpec

-----------------------------------------------------------------------------
(* Types with bounds, of sequences and of the streams.                     *)

LEMMA WiderSeq ==
  ASSUME NEW S, NEW T, S \subseteq T, NEW s \in Seq(S)
  PROVE  s \in Seq(T)
OBVIOUS

LEMMA RangeSeq ==
  ASSUME NEW S, NEW T, NEW s \in Seq(S), \A i \in DOMAIN s : s[i] \in T
  PROVE  s \in Seq(T)
<1>1. Len(s) \in Nat /\ s = [i \in 1 .. Len(s) |-> s[i]]
  OBVIOUS
<1>2. [i \in 1 .. Len(s) |-> s[i]] \in Seq(T)
  BY <1>1
<1> QED
  BY <1>1, <1>2

LEMMA BoundedSeqHolds ==
  ASSUME NEW S, NEW n \in Nat, NEW s \in Seq(S), Len(s) <= n
  PROVE  s \in BoundedSeq(S, n)
<1>1. Len(s) \in 0 .. n /\ s \in [1 .. Len(s) -> S]
  OBVIOUS
<1> QED
  BY <1>1 DEF BoundedSeq, SeqOf

LEMMA RunInFeed ==
  ASSUME NEW s \in Seq(Nat), NEW t \in Nat, NEW n \in Nat, NEW cap \in Nat, t + Len(s) <= n, Len(s) <= cap,
         \A i \in DOMAIN s : s[i] = t + i
  PROVE  s \in BoundedSeq(1 .. n, cap)
<1>1. Len(s) \in Nat /\ DOMAIN s = 1 .. Len(s)
  OBVIOUS
<1>2. \A i \in DOMAIN s : s[i] \in 1 .. n
  BY <1>1
<1>3. s \in Seq(1 .. n)
  BY <1>2, RangeSeq
<1> QED
  BY <1>3, BoundedSeqHolds

\* The sockets, channels and buffers hold no more than they can.
StreamBounded ==
  /\ \A b \in Caster : fed[b] <= Len(Feed[b])
  /\ \A c \in Client : Len(wire[c]) <= WireCap /\ Len(inbox[c]) <= InboxCap

LEMMA CapsAreNat == /\ WireCap \in Nat /\ InboxCap \in Nat
                    /\ \A b \in Caster : Len(Feed[b]) \in Nat
<1>1. \A b \in Caster : \E R : Feed[b] \in Seq(R)
  BY StreamAssumption
<1> QED
  BY <1>1, StreamAssumption

LEMMA StreamBoundedStep ==
  ASSUME StreamInv, StreamBounded, [StreamNext]_streamVars
  PROVE  StreamBounded'
<1>1. /\ fed \in [Caster -> Nat] /\ wire \in [Client -> Seq(Nat)] /\ inbox \in [Client -> Seq(Nat)]
      /\ stream \in [Client -> Seq(Caster \X Nat)]
  BY DEF StreamInv, StreamTyped
<1>2. ASSUME NEW b \in Caster, BeginBroadcast(b)
      PROVE  StreamBounded'
  <2>1. /\ fed' = [fed EXCEPT ![b] = @ + 1] /\ fed[b] < Len(Feed[b]) /\ UNCHANGED <<wire, inbox>>
    BY <1>2 DEF BeginBroadcast, pipeVars
  <2>2. fed'[b] <= Len(Feed[b]) /\ \A o \in Caster : o # b => fed'[o] = fed[o]
    BY <1>1, <2>1, CapsAreNat
  <2> QED
    BY <2>1, <2>2 DEF StreamBounded
<1>3. ASSUME NEW b \in Caster, NEW c \in Client, WriteEvent(b, c)
      PROVE  StreamBounded'
  <2>1. CASE wire' = wire
    BY <1>3, <2>1 DEF WriteEvent, StreamBounded
  <2>2. CASE wire' # wire
    <3>1. /\ Len(wire[c]) # WireCap /\ UNCHANGED <<fed, inbox>>
          /\ wire' = [wire EXCEPT ![c] = Append(@, Len(stream[c]) + 1)]
      BY <1>3, <2>2 DEF WriteEvent, Full
    <3>2. PICK n : n = Len(stream[c]) + 1
      OBVIOUS
    <3>3. n \in Nat
      BY <1>1, <3>2
    <3>4. wire'[c] = Append(wire[c], n) /\ \A o \in Client : o # c => wire'[o] = wire[o]
      BY <1>1, <3>1, <3>2
    <3>5. Len(wire'[c]) = Len(wire[c]) + 1 /\ Len(wire[c]) \in Nat
      BY <1>1, <3>3, <3>4
    <3>6. Len(wire'[c]) <= WireCap
      BY <3>1, <3>5, CapsAreNat DEF StreamBounded
    <3> QED
      BY <3>1, <3>4, <3>6 DEF StreamBounded
  <2> QED
    BY <2>1, <2>2
<1>4. ASSUME NEW c \in Client, ReadEvent(c)
      PROVE  StreamBounded'
  <2>1. /\ fed' = fed /\ Len(inbox[c]) < InboxCap /\ wire[c] # <<>>
        /\ inbox' = [inbox EXCEPT ![c] = Append(@, Head(wire[c]))]
        /\ wire' = [wire EXCEPT ![c] = Tail(@)]
    BY <1>4 DEF ReadEvent, castVars
  <2>2. Len(inbox'[c]) <= InboxCap /\ Len(wire'[c]) <= WireCap
    <3>1. Len(wire[c]) <= WireCap /\ wire[c] \in Seq(Nat) /\ inbox[c] \in Seq(Nat)
      BY <1>1 DEF StreamBounded
    <3>2. wire'[c] = Tail(wire[c]) /\ inbox'[c] = Append(inbox[c], Head(wire[c]))
      BY <1>1, <2>1
    <3> QED
      BY <2>1, <3>1, <3>2, CapsAreNat
  <2>3. \A e \in Client : e # c => wire'[e] = wire[e] /\ inbox'[e] = inbox[e]
    BY <1>1, <2>1
  <2> QED
    BY <2>1, <2>2, <2>3 DEF StreamBounded
<1>5. ASSUME NEW c \in Client, TakeEvent(c)
      PROVE  StreamBounded'
  <2>1. /\ UNCHANGED <<fed, wire>> /\ inbox[c] # <<>> /\ inbox' = [inbox EXCEPT ![c] = Tail(@)]
    BY <1>5 DEF TakeEvent, castVars, pipeVars
  <2>2. Len(inbox'[c]) <= InboxCap
    <3>1. Len(inbox[c]) <= InboxCap /\ inbox[c] \in Seq(Nat)
      BY <1>1 DEF StreamBounded
    <3> QED
      BY <1>1, <2>1, <3>1, CapsAreNat
  <2>3. \A e \in Client : Len(inbox'[e]) <= InboxCap
    BY <1>1, <2>1, <2>2 DEF StreamBounded
  <2> QED
    BY <2>1, <2>3 DEF StreamBounded
<1>6. ASSUME UNCHANGED <<fed, wire, inbox>>
      PROVE  StreamBounded'
  BY <1>6 DEF StreamBounded
<1>7. ASSUME NEW b \in Caster, NEW c \in Client,
             SetDeadline(b, c) \/ WriteFails(b, c) \/ ResetDeadline(b, c) \/ RemoveSub(b, c)
      PROVE  UNCHANGED <<fed, wire, inbox>>
  BY <1>7 DEF SetDeadline, WriteFails, ResetDeadline, RemoveSub, pipeVars
<1>8. ASSUME NEW c \in Client,
             \/ AddSubscriber(c) \/ DropBacklog(c) \/ Subscribe(c) \/ ReadEnds(c) \/ FlushTick(c)
             \/ FlushLast(c) \/ TakeBatch(c) \/ TakeClosed(c) \/ Drained(c) \/ Leave(c)
      PROVE  UNCHANGED <<fed, wire, inbox>>
  BY <1>8 DEF AddSubscriber, DropBacklog, Subscribe, ReadEnds, FlushTick, FlushLast, TakeBatch,
              TakeClosed, Drained, Leave, castVars, pipeVars
<1>9. SweepSubscribers \/ UNCHANGED streamVars => UNCHANGED <<fed, wire, inbox>>
  BY DEF SweepSubscribers, streamVars, castVars, pipeVars
<1> QED
  BY <1>2, <1>3, <1>4, <1>5, <1>6, <1>7, <1>8, <1>9 DEF StreamNext

LEMMA StreamTypesHold == StreamSpec => []StreamTypeOK
<1>1. StreamInit => StreamBounded
  <2> SUFFICES ASSUME StreamInit PROVE StreamBounded
    OBVIOUS
  <2>1. /\ \A b \in Caster : fed[b] = 0
        /\ \A c \in Client : wire[c] = <<>> /\ inbox[c] = <<>>
    BY DEF StreamInit
  <2>2. \A c \in Client : Len(wire[c]) = 0 /\ Len(inbox[c]) = 0
    BY <2>1
  <2> QED
    BY <2>1, <2>2, CapsAreNat DEF StreamBounded
<1>2. StreamInv /\ StreamBounded => StreamTypeOK
  <2> SUFFICES ASSUME StreamInv, StreamBounded PROVE StreamTypeOK
    OBVIOUS
  <2>1. \A b \in Caster : fed[b] \in 0 .. Len(Feed[b])
    BY CapsAreNat DEF StreamInv, StreamTyped, StreamBounded
  <2>2. ASSUME NEW c \in Client
        PROVE  /\ stream[c] \in Seq(Caster \X Nat)
               /\ wire[c] \in BoundedSeq(DOMAIN stream[c], WireCap)
               /\ inbox[c] \in BoundedSeq(DOMAIN stream[c], InboxCap)
               /\ Len(buffer[c].out) <= OutCap
               /\ buffer[c].latest \subseteq DOMAIN stream[c]
    <3>1. /\ stream[c] \in Seq(Caster \X Nat) /\ wire[c] \in Seq(Nat) /\ inbox[c] \in Seq(Nat)
          /\ Len(stream[c]) \in Nat /\ Len(wire[c]) \in Nat /\ Len(inbox[c]) \in Nat
          /\ Taken(c) \in Nat /\ Passing(c) /\ Showing(c)
      BY ClientIs
    <3>2. PICK n \in Nat, a \in Nat, b \in Nat, t \in Nat :
            n = Len(stream[c]) /\ a = Len(wire[c]) /\ b = Len(inbox[c]) /\ t = Taken(c)
      BY <3>1
    <3>3. t = n - a - b /\ DOMAIN stream[c] = 1 .. n
      BY <3>1, <3>2 DEF Taken
    <3>4. t <= n /\ t + b <= n /\ (t + b) + a <= n /\ t + b \in Nat
      BY <3>3
    <3>5. /\ \A i \in DOMAIN inbox[c] : inbox[c][i] = t + i
          /\ \A i \in DOMAIN wire[c] : wire[c][i] = (t + b) + i
      BY <3>1, <3>2 DEF Passing
    <3>6. Len(wire[c]) <= WireCap /\ Len(inbox[c]) <= InboxCap
      BY DEF StreamBounded
    <3>7. inbox[c] \in BoundedSeq(1 .. n, InboxCap)
      BY <3>1, <3>2, <3>4, <3>5, <3>6, CapsAreNat, RunInFeed
    <3>8. wire[c] \in BoundedSeq(1 .. n, WireCap)
      BY <3>1, <3>2, <3>4, <3>5, <3>6, CapsAreNat, RunInFeed
    <3>9. Len(buffer[c].out) <= OutCap /\ buffer[c].latest \subseteq 1 .. t
      BY <3>1, <3>2 DEF Showing, Shows
    <3>10. buffer[c].latest \subseteq 1 .. n
      BY <3>4, <3>9
    <3> QED
      BY <3>1, <3>3, <3>7, <3>8, <3>9, <3>10
  <2> QED
    BY <2>1, <2>2 DEF StreamInv, StreamTyped, CastStages, StreamTypeOK
<1> QED
  BY <1>1, <1>2, StreamStart, StreamStep, StreamBoundedStep, PTL DEF StreamSpec

-----------------------------------------------------------------------------
(* The full-text index.                                                    *)

IndexSpec == SearchInit /\ [][SearchNext]_searchVars

Words == Text \cup {NoText}
Work ==
  [pc : {"act", "select", "index", "file"}, what : {"start", "end"}, item : Item,
   text : Words, path : Words, key : Key]
Visit ==
  [pc : {"shut", "sources", "rows", "version", "delete", "tools", "fillTools", "files", "fillFiles",
         "stamp", "blind"},
   todo : SUBSET [key : Key, text : Words], rows : BOOLEAN]

SearchTyped ==
  /\ callRows \in SUBSET Item /\ changeRows \in SUBSET Item /\ excused \in SUBSET Key
  /\ text \in [Key -> Words] /\ found \in [Key -> Words]
  /\ handler \in [Handler -> Work \cup {Free}] /\ opener \in [Opener -> Visit]
  /\ stamped \in BOOLEAN

\* A handler, e, is about to write row k; and what it will write.
AtWork(e, k) == e.pc \in {"select", "index"} /\ e.key = k
Value(e) == IF e.key[1] = "file" THEN e.path ELSE e.text

\* An opener, r, is about to write row k, or will yet look whether it must.
Covering(r, k) ==
  \/ \E line \in r.todo : line.key = k
  \/ r.pc = "tools"
  \/ r.pc \in {"fillTools", "files"} /\ k[1] = "file"

WellFormed(e) ==
  /\ e.pc \in {"select", "index"} => e.key[2] = e.item /\ Value(e) # NoText
  /\ e.pc = "select" => e.key[1] = "tool_result"
  /\ e.pc = "file" => e.path # NoText

\* Whoever is about to write a row writes what it says by then.
HandlersInv ==
  \A g \in Handler :
    /\ WellFormed(handler[g])
    /\ \A k \in Key \ excused : AtWork(handler[g], k) => Value(handler[g]) = text[k]

OpenersInv ==
  \A p \in Opener :
    /\ opener[p].todo # {} => opener[p].pc \in {"fillTools", "fillFiles"}
    /\ \A line \in opener[p].todo :
         line.text # NoText /\ (line.key \notin excused => line.text = text[line.key])

\* A text belongs to a row.
RowsInv ==
  \A i \in Item :
    /\ i \notin callRows => text[<<"tool_param", i>>] = NoText /\ text[<<"tool_result", i>>] = NoText
    /\ i \notin changeRows => text[<<"file", i>>] = NoText

Agreed(k) ==
  found[k] = text[k] \/ (k[1] = "tool_result" /\ k[2] \in callRows /\ text[k] = NoText)

NothingInvented == \A k \in Key \ excused : text[k] = NoText => Agreed(k)

Cared(k) ==
  \/ Agreed(k)
  \/ \E g \in Handler : AtWork(handler[g], k)
  \/ \E p \in Opener : Covering(opener[p], k)

\* Once there is an index, or it is being made, somebody cares for every row.
Made == stamped \/ \E p \in Opener : opener[p].pc \in {"tools", "fillTools", "files", "fillFiles", "stamp"}
IndexCared == Made => \A k \in Key \ excused : Cared(k)

DaemonInv ==
  /\ up = "blind" => \A g \in Handler : handler[g].pc \in {"select", "index"} => handler[g].key \in excused
  /\ up = "down" => \A g \in Handler : handler[g] = Free
  /\ opener[Daemon].pc # "shut" => up = "down"

SearchInv ==
  /\ SearchTyped /\ HandlersInv /\ OpenersInv /\ RowsInv
  /\ NothingInvented /\ IndexCared /\ DaemonInv

LEMMA SearchInvAgrees == SearchInv => SearchesAgree
<1> SUFFICES ASSUME SearchInv, NEW k \in Key \ excused, Settled(k)
             PROVE  \/ (k \in HitsLike) = (k \in HitsFTS) /\ (k \in HitsLike => found[k] = text[k])
                    \/ k[1] = "tool_result" /\ k[2] \in callRows /\ text[k] = NoText
  BY DEF SearchesAgree
<1>1. Cared(k)
  BY DEF SearchInv, IndexCared, Made, Settled
<1>2. \A p \in Opener : opener[p].todo = {} /\ opener[p].pc \in {"shut", "blind"}
  BY DEF SearchInv, OpenersInv, Settled
<1>3. \A g \in Handler : ~AtWork(handler[g], k)
  BY DEF Settled, AboutTo, AtWork
<1>4. Agreed(k)
  BY <1>1, <1>2, <1>3 DEF Cared, Covering
<1>5. found[k] = text[k] => (k \in HitsLike) = (k \in HitsFTS)
  BY DEF HitsLike, HitsFTS
<1> QED
  BY <1>4, <1>5 DEF Agreed

\* A step of a handler that becomes e.
LEMMA HandlerMoves ==
  ASSUME SearchInv, NEW g \in Handler, NEW e \in Work \cup {Free},
         handler' = [handler EXCEPT ![g] = e], UNCHANGED <<stamped, opener, up>>,
         callRows' \in SUBSET Item, changeRows' \in SUBSET Item, callRows \subseteq callRows',
         excused' \in SUBSET Key, excused \subseteq excused',
         text' \in [Key -> Words], found' \in [Key -> Words], RowsInv',
         WellFormed(e), up = "down" => e = Free,
         up = "blind" /\ e.pc \in {"select", "index"} => e.key \in excused',
         \A k \in Key \ excused' :
           /\ text'[k] # text[k] => AboutTo(k) = {}
           /\ AtWork(e, k) => Value(e) = text'[k]
           /\ \/ Agreed(k)' \/ AtWork(e, k)
              \/ text'[k] = text[k] /\ found'[k] = found[k] /\ ~AtWork(handler[g], k)
           /\ text'[k] = NoText => Agreed(k)' \/ (text'[k] = text[k] /\ found'[k] = found[k])
  PROVE  SearchInv'
<1>1. handler \in [Handler -> Work \cup {Free}]
  BY DEF SearchInv, SearchTyped
<1>2. /\ handler' \in [Handler -> Work \cup {Free}] /\ handler'[g] = e
      /\ \A h \in Handler : h # g => handler'[h] = handler[h]
  BY <1>1
<1>3. SearchTyped'
  BY <1>2 DEF SearchInv, SearchTyped
<1>4. HandlersInv'
  <2>1. ASSUME NEW h \in Handler, h # g
        PROVE  WellFormed(handler[h]) /\ \A k \in Key \ excused' : AtWork(handler[h], k) => Value(handler[h]) = text'[k]
    <3>1. ASSUME NEW k \in Key \ excused', AtWork(handler[h], k) PROVE Value(handler[h]) = text'[k]
      <4>1. h \in AboutTo(k)
        BY <3>1 DEF AtWork, AboutTo
      <4>2. text'[k] = text[k]
        BY <4>1
      <4> QED
        BY <3>1, <4>2 DEF SearchInv, HandlersInv
    <3> QED
      BY <3>1 DEF SearchInv, HandlersInv
  <2> QED
    BY <1>2, <2>1 DEF HandlersInv
<1>5. OpenersInv'
  <2>1. ASSUME NEW p \in Opener, NEW line \in opener[p].todo, line.key \notin excused'
        PROVE  line.text = text'[line.key]
    <3>1. line.key \in Key \ excused'
      BY <2>1 DEF SearchInv, SearchTyped, Visit
    <3>2. p \in AboutTo(line.key)
      BY DEF AboutTo
    <3>3. text'[line.key] = text[line.key]
      BY <3>1, <3>2
    <3> QED
      BY <2>1, <3>3 DEF SearchInv, OpenersInv
  <2> QED
    BY <2>1 DEF SearchInv, OpenersInv
<1>6. ASSUME NEW k \in Key, text'[k] = text[k], found'[k] = found[k], Agreed(k) PROVE Agreed(k)'
  BY <1>6 DEF Agreed
<1>7. NothingInvented'
  BY <1>6 DEF SearchInv, NothingInvented
<1>8. IndexCared'
  <2>1. SUFFICES ASSUME Made, NEW k \in Key \ excused' PROVE Cared(k)'
    BY DEF IndexCared, Made
  <2>2. AtWork(e, k) => Cared(k)'
    BY <1>2 DEF Cared
  <2>3. CASE text'[k] = text[k] /\ found'[k] = found[k] /\ ~AtWork(handler[g], k)
    <3>1. Cared(k)
      BY <2>1 DEF SearchInv, IndexCared
    <3>2. \A h \in Handler : AtWork(handler[h], k) => AtWork(handler'[h], k)
      BY <1>2, <2>3
    <3>3. Agreed(k) => Agreed(k)'
      BY <1>6, <2>3
    <3> QED
      BY <3>1, <3>2, <3>3 DEF Cared
  <2> QED
    BY <2>2, <2>3 DEF Cared
<1>9. DaemonInv'
  BY <1>2 DEF SearchInv, DaemonInv
<1> QED
  BY <1>3, <1>4, <1>5, <1>7, <1>8, <1>9 DEF SearchInv

\* A step of an opener that becomes r.
LEMMA OpenerMoves ==
  ASSUME SearchInv, NEW p \in Opener, NEW r \in Visit,
         opener' = [opener EXCEPT ![p] = r], UNCHANGED <<callRows, changeRows, text, handler>>,
         found' \in [Key -> Words], stamped' \in BOOLEAN, excused' \in SUBSET Key, excused \subseteq excused',
         r.todo # {} => r.pc \in {"fillTools", "fillFiles"},
         \A line \in r.todo : line.text # NoText /\ (line.key \notin excused' => line.text = text[line.key]),
         DaemonInv',
         Made' => Made \/ \A k \in Key \ excused' : Cared(k)',
         \A k \in Key \ excused' :
           /\ found'[k] \in {found[k], text[k], NoText}
           /\ found'[k] \in {found[k], text[k]} \/ Cared(k)'
           /\ Covering(opener[p], k) => Covering(r, k) \/ Agreed(k)'
  PROVE  SearchInv'
<1>1. opener \in [Opener -> Visit]
  BY DEF SearchInv, SearchTyped
<1>2. /\ opener' \in [Opener -> Visit] /\ opener'[p] = r
      /\ \A q \in Opener : q # p => opener'[q] = opener[q]
  BY <1>1
<1>3. SearchTyped'
  BY <1>2 DEF SearchInv, SearchTyped
<1>4. HandlersInv' /\ RowsInv'
  BY DEF SearchInv, HandlersInv, RowsInv
<1>5. OpenersInv'
  BY <1>2 DEF SearchInv, OpenersInv
<1>6. ASSUME NEW k \in Key, found'[k] \in {found[k], text[k]}, Agreed(k) PROVE Agreed(k)'
  BY <1>6 DEF Agreed
<1>7. NothingInvented'
  <2>1. \A k \in Key : text[k] = NoText /\ found'[k] = NoText => Agreed(k)'
    BY DEF Agreed
  <2> QED
    BY <1>6, <2>1 DEF SearchInv, NothingInvented
<1>8. IndexCared'
  <2>1. SUFFICES ASSUME Made, NEW k \in Key \ excused', found'[k] \in {found[k], text[k]} PROVE Cared(k)'
    BY DEF IndexCared
  <2>2. Cared(k)
    BY <2>1 DEF SearchInv, IndexCared
  <2>3. Agreed(k) => Agreed(k)'
    BY <1>6, <2>1
  <2>4. \A q \in Opener : Covering(opener[q], k) => Covering(opener'[q], k) \/ Agreed(k)'
    BY <1>2
  <2> QED
    BY <2>2, <2>3, <2>4 DEF Cared
<1> QED
  BY <1>3, <1>4, <1>5, <1>7, <1>8 DEF SearchInv

LEMMA FreeIs == WellFormed(Free) /\ Free.pc = "idle" /\ \A k \in Key : ~AtWork(Free, k)
BY DEF Free, WellFormed, AtWork

\* What a handler does after the tool call of its event.
LEMMA NextIs ==
  ASSUME NEW e \in Work
  PROVE  /\ NextOf(e) \in Work \cup {Free} /\ WellFormed(NextOf(e))
         /\ NextOf(e).pc \notin {"select", "index"} /\ \A k \in Key : ~AtWork(NextOf(e), k)
<1>1. CASE e.path = NoText
  BY <1>1, FreeIs DEF NextOf
<1>2. CASE e.path # NoText
  <2>1. NextOf(e) \in Work /\ NextOf(e).pc = "file" /\ NextOf(e).path = e.path
    BY <1>2 DEF NextOf, Work
  <2> QED
    BY <1>2, <2>1 DEF WellFormed, AtWork
<1> QED
  BY <1>1, <1>2

\* A handler that goes on to write row k of its event.
ByWriter(e, pc, k) == [e EXCEPT !.pc = pc, !.key = k]

LEMMA WriterIs ==
  ASSUME NEW e \in Work, NEW pc \in {"select", "index"}, NEW k \in Key
  PROVE  /\ ByWriter(e, pc, k) \in Work /\ ByWriter(e, pc, k).pc = pc /\ ByWriter(e, pc, k).key = k
         /\ ByWriter(e, pc, k).item = e.item /\ ByWriter(e, pc, k).text = e.text
         /\ ByWriter(e, pc, k).path = e.path
<1>1. PICK c : c = [e EXCEPT !.pc = pc]
  OBVIOUS
<1>2. c \in Work /\ c.pc = pc /\ c.item = e.item /\ c.text = e.text /\ c.path = e.path
  BY <1>1 DEF Work
<1>3. PICK d : d = [c EXCEPT !.key = k]
  OBVIOUS
<1>4. d \in Work /\ d.pc = pc /\ d.key = k /\ d.item = e.item /\ d.text = e.text /\ d.path = e.path
  BY <1>2, <1>3 DEF Work
<1>5. d = ByWriter(e, pc, k)
  BY <1>1, <1>3 DEF ByWriter
<1> QED
  BY <1>4, <1>5

\* A handler at work has an event, and its daemon lives.
LEMMA Busy ==
  ASSUME SearchInv, NEW g \in Handler, handler[g].pc # "idle"
  PROVE  handler[g] \in Work /\ up # "down"
BY DEF SearchInv, SearchTyped, DaemonInv, Free

\* A row that never was is not in the index.
LEMMA NoRowNoText ==
  ASSUME SearchInv, NEW k \in Key \ excused,
         \/ k[1] = "tool_param" /\ k[2] \notin callRows
         \/ k[1] = "tool_result" /\ k[2] \notin callRows
         \/ k[1] = "file" /\ k[2] \notin changeRows
  PROVE  text[k] = NoText /\ found[k] = NoText
<1>1. k[2] \in Item /\ k = <<k[1], k[2]>>
  BY DEF Key
<1>2. text[k] = NoText
  BY <1>1 DEF SearchInv, RowsInv
<1> QED
  BY <1>2 DEF SearchInv, NothingInvented, Agreed

LEMMA SearchTypes ==
  ASSUME SearchInv
  PROVE  /\ callRows \in SUBSET Item /\ changeRows \in SUBSET Item /\ excused \in SUBSET Key
         /\ text \in [Key -> Words] /\ found \in [Key -> Words] /\ RowsInv
BY DEF SearchInv, SearchTyped

LEMMA EventKeeps ==
  ASSUME SearchInv, NEW g \in Handler, NEW what \in {"start", "end"}, NEW i \in Item, NEW t \in Words,
         NEW path \in Words, EventComes(g, what, i, t, path)
  PROVE  SearchInv'
<1> DEFINE e == [pc |-> "act", what |-> what, item |-> i, text |-> t, path |-> path,
                 key |-> <<"file", i>>]
<1>1. e \in Work /\ e.pc = "act"
  BY DEF Work, Key, Kinds
<1>2. /\ handler' = [handler EXCEPT ![g] = e] /\ handler[g].pc = "idle" /\ up # "down"
      /\ UNCHANGED <<callRows, changeRows, text, found, stamped, opener, up, excused>>
  BY DEF EventComes, Handles
<1> HIDE DEF e
<1>3. WellFormed(e) /\ \A k \in Key : ~AtWork(e, k) /\ ~AtWork(handler[g], k)
  BY <1>1, <1>2 DEF WellFormed, AtWork
<1>4. RowsInv'
  BY <1>2, SearchTypes DEF RowsInv
<1> QED
  BY <1>1, <1>2, <1>3, <1>4, SearchTypes, HandlerMoves

\* One row gets a text, t: row k, which nobody else is about to write.
LEMMA BecomesIs ==
  ASSUME SearchInv, NEW j \in Key, NEW t \in Words, Becomes(j, t)
  PROVE  /\ text' \in [Key -> Words] /\ text'[j] = t /\ \A k \in Key : k # j => text'[k] = text[k]
         /\ excused \subseteq excused' /\ excused' \in SUBSET Key
         /\ j \notin excused' => AboutTo(j) = {} /\ up # "blind"
BY SearchTypes DEF Becomes

LEMMA StartKeeps ==
  ASSUME SearchInv, NEW g \in Handler, CallStarts(g)
  PROVE  SearchInv'
<1>e. PICK e : e = handler[g]
  OBVIOUS
<1>j. PICK j : j = <<"tool_param", e.item>>
  OBVIOUS
<1>1. /\ e.pc = "act" /\ callRows' = callRows \cup {e.item}
      /\ UNCHANGED <<changeRows, found, stamped, opener, up>>
  BY <1>e DEF CallStarts
<1>2. e \in Work /\ up # "down" /\ j \in Key /\ e.item \in Item /\ e.text \in Words
  BY <1>e, <1>j, <1>1, Busy DEF Work, Key, Kinds
<1>3. callRows' \in SUBSET Item /\ changeRows' \in SUBSET Item /\ callRows \subseteq callRows' /\ found' \in [Key -> Words]
  BY <1>1, <1>2, SearchTypes
<1>4. \A k \in Key : ~AtWork(e, k)
  BY <1>1 DEF AtWork
<1>5. CASE e.item \in callRows
  <2>1. /\ handler' = [handler EXCEPT ![g] = NextOf(e)] /\ UNCHANGED <<callRows, text, excused>>
    BY <1>e, <1>1, <1>5 DEF CallStarts, Handles
  <2>2. RowsInv'
    BY <1>1, <2>1, SearchTypes DEF RowsInv
  <2>3. excused' \in SUBSET Key /\ excused \subseteq excused' /\ text' \in [Key -> Words]
    BY <2>1, SearchTypes
  <2> QED
    BY <1>e, <1>1, <1>2, <1>3, <1>4, <2>1, <2>2, <2>3, NextIs, HandlerMoves
<1>6. CASE e.item \notin callRows
  <2>1. Becomes(j, e.text)
    BY <1>e, <1>j, <1>6 DEF CallStarts
  <2>2. /\ text' \in [Key -> Words] /\ text'[j] = e.text /\ \A k \in Key : k # j => text'[k] = text[k]
        /\ excused \subseteq excused' /\ excused' \in SUBSET Key
        /\ j \notin excused' => AboutTo(j) = {} /\ up # "blind"
    BY <1>2, <2>1, BecomesIs
  <2>3. RowsInv'
    <3> SUFFICES ASSUME NEW i \in Item
                 PROVE  /\ i \notin callRows' => text'[<<"tool_param", i>>] = NoText /\ text'[<<"tool_result", i>>] = NoText
                        /\ i \notin changeRows' => text'[<<"file", i>>] = NoText
      BY DEF RowsInv
    <3>1. /\ <<"tool_param", i>> \in Key /\ <<"tool_result", i>> \in Key /\ <<"file", i>> \in Key
          /\ <<"tool_result", i>> # j /\ <<"file", i>> # j /\ (<<"tool_param", i>> = j => i = e.item)
      BY <1>j DEF Key, Kinds
    <3> QED
      BY <1>1, <2>2, <3>1, SearchTypes DEF RowsInv
  <2>4. j \notin excused' => text[j] = NoText /\ found[j] = NoText
    BY <1>j, <1>2, <1>6, <2>2, NoRowNoText
  <2>5. \A k \in Key \ excused' : text'[k] # text[k] => AboutTo(k) = {}
    BY <2>2
  <2>6. \A k \in Key \ excused' : text'[k] = NoText => Agreed(k)' \/ (text'[k] = text[k] /\ found'[k] = found[k])
    BY <1>1, <2>2, <2>4
  <2>7. CASE e.text = NoText \/ up = "blind"
    <3>1. handler' = [handler EXCEPT ![g] = NextOf(e)]
      BY <1>e, <1>j, <1>6, <2>7 DEF CallStarts, Handles, IndexNext
    <3>2. \A k \in Key \ excused' : k = j => Agreed(k)'
      BY <1>1, <2>2, <2>4, <2>7 DEF Agreed
    <3>3. \A k \in Key \ excused' : Agreed(k)' \/ (text'[k] = text[k] /\ found'[k] = found[k])
      BY <1>1, <2>2, <3>2
    <3>4. NextOf(e) \in Work \cup {Free} /\ WellFormed(NextOf(e))
          /\ NextOf(e).pc \notin {"select", "index"} /\ \A k \in Key : ~AtWork(NextOf(e), k)
      BY <1>2, NextIs
    <3> QED
      BY <1>1, <1>2, <1>3, <1>4, <2>2, <2>3, <2>5, <2>6, <1>e, <3>1, <3>3, <3>4, HandlerMoves
  <2>8. CASE e.text # NoText /\ up # "blind"
    <3>d. PICK d : d = ByWriter(e, "index", j)
      OBVIOUS
    <3>1. handler' = [handler EXCEPT ![g] = d]
      BY <1>e, <1>j, <3>d, <1>6, <2>8 DEF CallStarts, Handles, IndexNext, Then, ByWriter
    <3>2. /\ d \in Work /\ d.pc = "index" /\ d.key = j /\ d.item = e.item /\ d.text = e.text
      BY <3>d, <1>2, WriterIs
    <3>3. WellFormed(d) /\ Value(d) = e.text
      BY <1>j, <2>8, <3>2 DEF WellFormed, Value
    <3>4. AtWork(d, j) /\ \A k \in Key : AtWork(d, k) => k = j
      BY <3>2 DEF AtWork
    <3>5. \A k \in Key \ excused' : AtWork(d, k) \/ (text'[k] = text[k] /\ found'[k] = found[k])
      BY <1>1, <2>2, <3>4
    <3>6. \A k \in Key \ excused' : AtWork(d, k) => Value(d) = text'[k]
      BY <2>2, <3>3, <3>4
    <3> QED
      BY <1>1, <1>2, <1>3, <1>4, <2>2, <2>3, <2>5, <2>6, <2>8, <1>e, <3>1, <3>2, <3>3, <3>5, <3>6, HandlerMoves
  <2> QED
    BY <2>7, <2>8
<1> QED
  BY <1>5, <1>6

LEMMA ResultKeeps ==
  ASSUME SearchInv, NEW g \in Handler, CallEnds(g)
  PROVE  SearchInv'
<1>e. PICK e : e = handler[g]
  OBVIOUS
<1>j. PICK j : j = <<"tool_result", e.item>>
  OBVIOUS
<1>1. e.pc = "act" /\ UNCHANGED <<callRows, changeRows, found, stamped, opener, up>>
  BY <1>e DEF CallEnds
<1>2. e \in Work /\ up # "down" /\ j \in Key /\ e.item \in Item /\ e.text \in Words
  BY <1>e, <1>j, <1>1, Busy DEF Work, Key, Kinds
<1>3. callRows' \in SUBSET Item /\ changeRows' \in SUBSET Item /\ callRows \subseteq callRows' /\ found' \in [Key -> Words]
  BY <1>1, SearchTypes
<1>4. \A k \in Key : ~AtWork(e, k)
  BY <1>1 DEF AtWork
<1>5. CASE e.item \notin callRows
  <2>1. /\ handler' = [handler EXCEPT ![g] = NextOf(e)] /\ UNCHANGED <<text, excused>>
    BY <1>e, <1>1, <1>5 DEF CallEnds, Handles
  <2>2. RowsInv'
    BY <1>1, <2>1, SearchTypes DEF RowsInv
  <2>3. excused' \in SUBSET Key /\ excused \subseteq excused' /\ text' \in [Key -> Words]
    BY <2>1, SearchTypes
  <2> QED
    BY <1>e, <1>1, <1>2, <1>3, <1>4, <2>1, <2>2, <2>3, NextIs, HandlerMoves
<1>6. CASE e.item \in callRows
  <2>1. Becomes(j, e.text)
    BY <1>e, <1>j, <1>6 DEF CallEnds
  <2>2. /\ text' \in [Key -> Words] /\ text'[j] = e.text /\ \A k \in Key : k # j => text'[k] = text[k]
        /\ excused \subseteq excused' /\ excused' \in SUBSET Key
        /\ j \notin excused' => AboutTo(j) = {} /\ up # "blind"
    BY <1>2, <2>1, BecomesIs
  <2>3. RowsInv'
    <3> SUFFICES ASSUME NEW i \in Item
                 PROVE  /\ i \notin callRows' => text'[<<"tool_param", i>>] = NoText /\ text'[<<"tool_result", i>>] = NoText
                        /\ i \notin changeRows' => text'[<<"file", i>>] = NoText
      BY DEF RowsInv
    <3>1. /\ <<"tool_param", i>> \in Key /\ <<"tool_result", i>> \in Key /\ <<"file", i>> \in Key
          /\ <<"tool_param", i>> # j /\ <<"file", i>> # j /\ (<<"tool_result", i>> = j => i = e.item)
      BY <1>j DEF Key, Kinds
    <3> QED
      BY <1>1, <1>6, <2>2, <3>1, SearchTypes DEF RowsInv
  <2>4. \A k \in Key \ excused' : k = j /\ e.text = NoText => Agreed(k)'
    BY <1>j, <1>1, <1>6, <2>2 DEF Agreed
  <2>5. \A k \in Key \ excused' : text'[k] # text[k] => AboutTo(k) = {}
    BY <2>2
  <2>6. \A k \in Key \ excused' : text'[k] = NoText => Agreed(k)' \/ (text'[k] = text[k] /\ found'[k] = found[k])
    BY <1>1, <2>2, <2>4
  <2>7. CASE e.text = NoText
    <3>1. handler' = [handler EXCEPT ![g] = NextOf(e)]
      BY <1>e, <1>j, <1>6, <2>7 DEF CallEnds, Handles
    <3>3. \A k \in Key \ excused' : Agreed(k)' \/ (text'[k] = text[k] /\ found'[k] = found[k])
      BY <1>1, <2>2, <2>4, <2>7
    <3>4. NextOf(e) \in Work \cup {Free} /\ WellFormed(NextOf(e))
          /\ NextOf(e).pc \notin {"select", "index"} /\ \A k \in Key : ~AtWork(NextOf(e), k)
      BY <1>2, NextIs
    <3> QED
      BY <1>1, <1>2, <1>3, <1>4, <2>2, <2>3, <2>5, <2>6, <1>e, <3>1, <3>3, <3>4, HandlerMoves
  <2>8. CASE e.text # NoText
    <3>d. PICK d : d = ByWriter(e, "select", j)
      OBVIOUS
    <3>1. handler' = [handler EXCEPT ![g] = d]
      BY <1>e, <1>j, <3>d, <1>6, <2>8 DEF CallEnds, Handles, Then, ByWriter
    <3>2. /\ d \in Work /\ d.pc = "select" /\ d.key = j /\ d.item = e.item /\ d.text = e.text
      BY <3>d, <1>2, WriterIs
    <3>3. WellFormed(d) /\ Value(d) = e.text
      BY <1>j, <2>8, <3>2 DEF WellFormed, Value
    <3>4. AtWork(d, j) /\ \A k \in Key : AtWork(d, k) => k = j
      BY <3>2 DEF AtWork
    <3>5. \A k \in Key \ excused' : AtWork(d, k) \/ (text'[k] = text[k] /\ found'[k] = found[k])
      BY <1>1, <2>2, <3>4
    <3>6. \A k \in Key \ excused' : AtWork(d, k) => Value(d) = text'[k]
      BY <2>2, <3>3, <3>4
    <3>7. up = "blind" => d.key \in excused'
      BY <1>2, <2>2, <3>2
    <3> QED
      BY <1>1, <1>2, <1>3, <1>4, <2>2, <2>3, <2>5, <2>6, <1>e, <3>1, <3>2, <3>3, <3>5, <3>6, <3>7, HandlerMoves
  <2> QED
    BY <2>7, <2>8
<1> QED
  BY <1>5, <1>6

LEMMA FileKeeps ==
  ASSUME SearchInv, NEW g \in Handler, FileChanges(g)
  PROVE  SearchInv'
<1>e. PICK e : e = handler[g]
  OBVIOUS
<1>j. PICK j : j = <<"file", e.item>>
  OBVIOUS
<1>1. /\ e.pc = "file" /\ changeRows' = changeRows \cup {e.item}
      /\ UNCHANGED <<callRows, found, stamped, opener, up>>
  BY <1>e DEF FileChanges
<1>2. e \in Work /\ up # "down" /\ j \in Key /\ e.item \in Item /\ e.path \in Words /\ e.path # NoText
  BY <1>e, <1>j, <1>1, Busy DEF Work, Key, Kinds, SearchInv, HandlersInv, WellFormed
<1>3. callRows' \in SUBSET Item /\ changeRows' \in SUBSET Item /\ callRows \subseteq callRows' /\ found' \in [Key -> Words]
  BY <1>1, <1>2, SearchTypes
<1>4. \A k \in Key : ~AtWork(e, k)
  BY <1>1 DEF AtWork
<1>5. CASE e.item \in changeRows
  <2>1. /\ handler' = [handler EXCEPT ![g] = Free] /\ UNCHANGED <<changeRows, text, excused>>
    BY <1>e, <1>1, <1>5 DEF FileChanges, Handles
  <2>2. RowsInv'
    BY <1>1, <2>1, SearchTypes DEF RowsInv
  <2>3. excused' \in SUBSET Key /\ excused \subseteq excused' /\ text' \in [Key -> Words]
    BY <2>1, SearchTypes
  <2> QED
    BY <1>e, <1>1, <1>3, <1>4, <2>1, <2>2, <2>3, FreeIs, HandlerMoves
<1>6. CASE e.item \notin changeRows
  <2>1. Becomes(j, e.path)
    BY <1>e, <1>j, <1>6 DEF FileChanges
  <2>2. /\ text' \in [Key -> Words] /\ text'[j] = e.path /\ \A k \in Key : k # j => text'[k] = text[k]
        /\ excused \subseteq excused' /\ excused' \in SUBSET Key
        /\ j \notin excused' => AboutTo(j) = {} /\ up # "blind"
    BY <1>2, <2>1, BecomesIs
  <2>3. RowsInv'
    <3> SUFFICES ASSUME NEW i \in Item
                 PROVE  /\ i \notin callRows' => text'[<<"tool_param", i>>] = NoText /\ text'[<<"tool_result", i>>] = NoText
                        /\ i \notin changeRows' => text'[<<"file", i>>] = NoText
      BY DEF RowsInv
    <3>1. /\ <<"tool_param", i>> \in Key /\ <<"tool_result", i>> \in Key /\ <<"file", i>> \in Key
          /\ <<"tool_param", i>> # j /\ <<"tool_result", i>> # j /\ (<<"file", i>> = j => i = e.item)
      BY <1>j DEF Key, Kinds
    <3> QED
      BY <1>1, <2>2, <3>1, SearchTypes DEF RowsInv
  <2>5. \A k \in Key \ excused' : text'[k] # text[k] => AboutTo(k) = {}
    BY <2>2
  <2>6. \A k \in Key \ excused' : text'[k] = NoText => text'[k] = text[k] /\ found'[k] = found[k]
    BY <1>1, <1>2, <2>2
  <2>7. CASE up = "blind"
    <3>1. handler' = [handler EXCEPT ![g] = Free]
      BY <1>e, <1>6, <2>7 DEF FileChanges, Handles
    <3>3. \A k \in Key \ excused' : text'[k] = text[k] /\ found'[k] = found[k]
      BY <1>1, <2>2, <2>7
    <3> QED
      BY <1>1, <1>3, <1>4, <2>2, <2>3, <2>5, <2>6, <1>e, <3>1, <3>3, FreeIs, HandlerMoves
  <2>8. CASE up # "blind"
    <3>d. PICK d : d = ByWriter(e, "index", j)
      OBVIOUS
    <3>1. handler' = [handler EXCEPT ![g] = d]
      BY <1>e, <1>j, <3>d, <1>6, <2>8 DEF FileChanges, Handles, Then, ByWriter
    <3>2. /\ d \in Work /\ d.pc = "index" /\ d.key = j /\ d.item = e.item /\ d.path = e.path
      BY <3>d, <1>2, WriterIs
    <3>3. WellFormed(d) /\ Value(d) = e.path
      BY <1>j, <1>2, <3>2 DEF WellFormed, Value
    <3>4. AtWork(d, j) /\ \A k \in Key : AtWork(d, k) => k = j
      BY <3>2 DEF AtWork
    <3>5. \A k \in Key \ excused' : AtWork(d, k) \/ (text'[k] = text[k] /\ found'[k] = found[k])
      BY <1>1, <2>2, <3>4
    <3>6. \A k \in Key \ excused' : AtWork(d, k) => Value(d) = text'[k]
      BY <2>2, <3>3, <3>4
    <3> QED
      BY <1>1, <1>2, <1>3, <1>4, <2>2, <2>3, <2>5, <2>6, <2>8, <1>e, <3>1, <3>2, <3>3, <3>5, <3>6, HandlerMoves
  <2> QED
    BY <2>7, <2>8
<1> QED
  BY <1>5, <1>6

LEMMA SelectKeeps ==
  ASSUME SearchInv, NEW g \in Handler, SelectCall(g)
  PROVE  SearchInv'
<1>e. PICK e : e = handler[g]
  OBVIOUS
<1>1. e.pc = "select" /\ UNCHANGED <<callRows, changeRows, text, excused, found, stamped, opener, up>>
  BY <1>e DEF SelectCall, rowVars
<1>2. e \in Work /\ up # "down" /\ e.key \in Key /\ e.key = <<"tool_result", e.item>> /\ Value(e) # NoText
  <2>1. e \in Work /\ up # "down" /\ e.key \in Key
    BY <1>e, <1>1, Busy DEF Work
  <2>2. e.key[1] = "tool_result" /\ e.key[2] = e.item /\ Value(e) # NoText
    BY <1>e, <1>1 DEF SearchInv, HandlersInv, WellFormed
  <2> QED
    BY <2>1, <2>2 DEF Key
<1>3. /\ callRows' \in SUBSET Item /\ changeRows' \in SUBSET Item /\ callRows \subseteq callRows'
      /\ found' \in [Key -> Words] /\ text' \in [Key -> Words]
      /\ excused' \in SUBSET Key /\ excused \subseteq excused'
  BY <1>1, SearchTypes
<1>4. RowsInv'
  BY <1>1, SearchTypes DEF RowsInv
<1>5. e.key \notin excused => Value(e) = text[e.key]
  BY <1>e, <1>1, <1>2 DEF SearchInv, HandlersInv, AtWork
<1>6. \A k \in Key : AtWork(e, k) => k = e.key
  BY DEF AtWork
<1>7. CASE e.item \in callRows /\ up # "blind"
  <2>d. PICK d : d = ByWriter(e, "index", e.key)
    OBVIOUS
  <2>1. handler' = [handler EXCEPT ![g] = d]
    BY <1>e, <2>d, <1>7 DEF SelectCall, Handles, IndexNext, Then, ByWriter
  <2>2. d \in Work /\ d.pc = "index" /\ d.key = e.key /\ d.item = e.item /\ d.text = e.text /\ d.path = e.path
    BY <2>d, <1>2, WriterIs
  <2>3. Value(d) = Value(e) /\ WellFormed(d)
    BY <1>2, <2>2 DEF WellFormed, Value
  <2>4. AtWork(d, e.key) /\ \A k \in Key : AtWork(d, k) => k = e.key
    BY <2>2 DEF AtWork
  <2>5. \A k \in Key \ excused' : AtWork(d, k) => Value(d) = text'[k]
    BY <1>1, <1>5, <2>3, <2>4
  <2>6. \A k \in Key \ excused' : AtWork(d, k) \/ (text'[k] = text[k] /\ found'[k] = found[k] /\ ~AtWork(e, k))
    BY <1>1, <1>6, <2>4
  <2> QED
    BY <1>e, <1>1, <1>2, <1>3, <1>4, <1>7, <2>1, <2>2, <2>3, <2>5, <2>6, HandlerMoves, ZenonT(40)
<1>8. CASE e.item \in callRows /\ up = "blind"
  <2>1. handler' = [handler EXCEPT ![g] = NextOf(e)]
    BY <1>e, <1>8 DEF SelectCall, Handles, IndexNext
  <2>2. e.key \in excused
    BY <1>e, <1>1, <1>8 DEF SearchInv, DaemonInv
  <2>3. \A k \in Key \ excused' : ~AtWork(e, k)
    BY <1>1, <1>6, <2>2
  <2> QED
    BY <1>e, <1>1, <1>2, <1>3, <1>4, <2>1, <2>3, NextIs, HandlerMoves
<1>9. CASE e.item \notin callRows
  <2>1. handler' = [handler EXCEPT ![g] = Free]
    BY <1>e, <1>9 DEF SelectCall, Handles
  <2>2. text[e.key] = NoText
    BY <1>2, <1>9, SearchTypes DEF RowsInv, Work
  <2>3. \A k \in Key \ excused' : ~AtWork(e, k)
    BY <1>1, <1>2, <1>5, <1>6, <2>2
  <2> QED
    BY <1>e, <1>1, <1>3, <1>4, <2>1, <2>3, FreeIs, HandlerMoves
<1> QED
  BY <1>7, <1>8, <1>9

LEMMA IndexRowKeeps ==
  ASSUME SearchInv, NEW g \in Handler, Index(g)
  PROVE  SearchInv'
<1>e. PICK e : e = handler[g]
  OBVIOUS
<1>1. /\ e.pc = "index" /\ UNCHANGED <<callRows, changeRows, text, excused, stamped, opener, up>>
      /\ found' = [found EXCEPT ![e.key] = Value(e)]
  BY <1>e DEF Index, rowVars, Value
<1>2. e \in Work /\ up # "down" /\ e.key \in Key /\ Value(e) \in Words
  BY <1>e, <1>1, Busy DEF Work, Value
<1>3. /\ callRows' \in SUBSET Item /\ changeRows' \in SUBSET Item /\ callRows \subseteq callRows'
      /\ found' \in [Key -> Words] /\ text' \in [Key -> Words]
      /\ excused' \in SUBSET Key /\ excused \subseteq excused'
  BY <1>1, <1>2, SearchTypes
<1>4. RowsInv'
  BY <1>1, SearchTypes DEF RowsInv
<1>5. e.key \notin excused => Value(e) = text[e.key]
  BY <1>e, <1>1, <1>2 DEF SearchInv, HandlersInv, AtWork
<1>6. \A k \in Key : AtWork(e, k) => k = e.key
  BY DEF AtWork
<1>7. \A k \in Key \ excused' : k = e.key => Agreed(k)'
  BY <1>1, <1>2, <1>5, SearchTypes DEF Agreed
<1>8. \A k \in Key \ excused' : k # e.key => text'[k] = text[k] /\ found'[k] = found[k] /\ ~AtWork(e, k)
  BY <1>1, <1>6, SearchTypes
<1>d. PICK d : d = IF e.key[1] = "file" THEN Free ELSE NextOf(e)
  OBVIOUS
<1>9. /\ handler' = [handler EXCEPT ![g] = d] /\ d \in Work \cup {Free} /\ WellFormed(d)
      /\ d.pc \notin {"select", "index"} /\ \A k \in Key : ~AtWork(d, k)
  BY <1>e, <1>d, <1>2, NextIs, FreeIs DEF Index, Handles
<1> QED
  BY <1>e, <1>1, <1>2, <1>3, <1>4, <1>7, <1>8, <1>9, HandlerMoves

LEMMA HandlerFailsKeeps ==
  ASSUME SearchInv, NEW g \in Handler, HandlerFails(g)
  PROVE  SearchInv'
<1>1. /\ handler' = [handler EXCEPT ![g] = Free] /\ excused' = excused \cup {k \in Key : g \in AboutTo(k)}
      /\ UNCHANGED <<callRows, changeRows, text, found, stamped, opener, up>>
  BY DEF HandlerFails, Handles, rowVars
<1>2. /\ callRows' \in SUBSET Item /\ changeRows' \in SUBSET Item /\ callRows \subseteq callRows'
      /\ found' \in [Key -> Words] /\ text' \in [Key -> Words]
      /\ excused' \in SUBSET Key /\ excused \subseteq excused'
  BY <1>1, SearchTypes
<1>3. RowsInv'
  BY <1>1, SearchTypes DEF RowsInv
<1>4. \A k \in Key : AtWork(handler[g], k) => g \in AboutTo(k)
  BY DEF AtWork, AboutTo
<1>5. \A k \in Key \ excused' : ~AtWork(handler[g], k)
  BY <1>1, <1>4
<1> QED
  BY <1>1, <1>2, <1>3, <1>5, FreeIs, HandlerMoves

\* An opener that goes on.
LEMMA VisitIs ==
  ASSUME NEW v \in Visit,
         NEW pc \in {"sources", "rows", "version", "delete", "tools", "fillTools", "files", "fillFiles", "stamp"},
         NEW r, r = [v EXCEPT !.pc = pc]
  PROVE  r \in Visit /\ r.pc = pc /\ r.todo = v.todo /\ r.rows = v.rows
BY DEF Visit

LEMMA ShutIs == Shut \in Visit /\ Shut.pc = "shut" /\ Shut.todo = {} /\ \A k \in Key : ~Covering(Shut, k)
<1>1. Shut \in Visit
  BY DEF Shut, Visit
<1>2. Shut.pc = "shut" /\ Shut.todo = {}
  BY DEF Shut
<1> QED
  BY <1>1, <1>2 DEF Covering

LEMMA BlindIs == Blind \in Visit /\ Blind.pc = "blind" /\ Blind.todo = {} /\ \A k \in Key : ~Covering(Blind, k)
<1>1. Blind \in Visit /\ Blind.pc = "blind" /\ Blind.todo = {}
  BY DEF Blind, Shut, Visit
<1> QED
  BY <1>1 DEF Covering

\* An opener that is not filling has nothing in hand.
LEMMA VisitTypes ==
  ASSUME SearchInv, NEW p \in Opener
  PROVE  /\ opener \in [Opener -> Visit] /\ opener[p] \in Visit
         /\ opener[p].pc \notin {"fillTools", "fillFiles"} => opener[p].todo = {}
         /\ found \in [Key -> Words] /\ text \in [Key -> Words]
         /\ stamped \in BOOLEAN /\ excused \in SUBSET Key
BY DEF SearchInv, SearchTyped, OpenersInv

\* A step of an opener that touches no row of the index: it goes on, or is done.
LEMMA OpenerSteps ==
  ASSUME SearchInv, NEW p \in Opener, NEW r \in Visit,
         opener' = [opener EXCEPT ![p] = r],
         UNCHANGED <<callRows, changeRows, text, handler, found, excused>>,
         stamped' \in BOOLEAN, stamped' = stamped \/ opener[p].pc = "stamp",
         r.todo = opener[p].todo, r.todo # {} => r.pc \in {"fillTools", "fillFiles"},
         \/ r.pc \notin {"tools", "fillTools", "files", "fillFiles", "stamp"}
         \/ opener[p].pc \in {"tools", "fillTools", "files", "fillFiles", "stamp"}
         \/ \A k \in Key : text[k] = NoText,
         \A k \in Key : Covering(opener[p], k) => Covering(r, k),
         \/ up' = up /\ (p = Daemon => opener[p].pc # "shut" \/ up = "down")
         \/ p = Daemon /\ up' = "up" /\ r.pc = "shut"
  PROVE  SearchInv'
<1>1. opener \in [Opener -> Visit] /\ found' \in [Key -> Words] /\ excused' \in SUBSET Key /\ excused \subseteq excused'
  BY VisitTypes
<1>2. opener'[p] = r /\ \A q \in Opener : q # p => opener'[q] = opener[q]
  BY <1>1
<1>3. \A line \in r.todo : line.text # NoText /\ (line.key \notin excused' => line.text = text[line.key])
  BY DEF SearchInv, OpenersInv
<1>4. DaemonInv'
  <2>1. Daemon \in Opener
    BY DEF Opener
  <2>2. CASE up' = up /\ (p = Daemon => opener[p].pc # "shut" \/ up = "down")
    BY <1>2, <2>1, <2>2 DEF SearchInv, DaemonInv
  <2>3. CASE p = Daemon /\ up' = "up" /\ r.pc = "shut"
    BY <1>2, <2>3 DEF DaemonInv
  <2> QED
    BY <2>2, <2>3
<1>5. \A k \in Key : Agreed(k) => Agreed(k)'
  BY DEF Agreed
<1>6. (\A k \in Key : text[k] = NoText) => \A k \in Key \ excused' : Cared(k)'
  BY <1>5 DEF SearchInv, NothingInvented, Cared
<1>7. Made' => Made \/ \A k \in Key \ excused' : Cared(k)'
  BY <1>2, <1>6 DEF Made
<1>8. \A k \in Key \ excused' : found'[k] \in {found[k], text[k], NoText} /\ found'[k] \in {found[k], text[k]}
  OBVIOUS
<1> QED
  BY <1>1, <1>3, <1>4, <1>7, <1>8, OpenerMoves

LEMMA OpenKeepsSearch ==
  ASSUME SearchInv, NEW p \in Opener, OpenIndex(p)
  PROVE  SearchInv'
<1>r. PICK r : r = [opener[p] EXCEPT !.pc = "sources"]
  OBVIOUS
<1>1. /\ opener' = [opener EXCEPT ![p] = r] /\ opener[p].pc \in {"shut", "blind"} /\ (p = Daemon => up = "down")
      /\ UNCHANGED <<callRows, changeRows, text, handler, found, excused, stamped, up>>
  BY <1>r, VisitTypes DEF OpenIndex, rowVars
<1>2. r \in Visit /\ r.pc = "sources" /\ r.todo = opener[p].todo /\ opener[p].todo = {}
  BY <1>r, <1>1, VisitTypes, VisitIs
<1>3. \A k \in Key : ~Covering(opener[p], k)
  BY <1>1, <1>2 DEF Covering
<1> QED
  BY <1>1, <1>2, <1>3, VisitTypes, OpenerSteps

LEMMA SourcesKeep ==
  ASSUME SearchInv, NEW p \in Opener, CountSources(p)
  PROVE  SearchInv'
<1>r. PICK r : r = [opener[p] EXCEPT !.pc = IF \E k \in Key : text[k] # NoText THEN "rows" ELSE "stamp"]
  OBVIOUS
<1>1. /\ opener' = [opener EXCEPT ![p] = r] /\ opener[p].pc = "sources"
      /\ UNCHANGED <<callRows, changeRows, text, handler, found, excused, stamped, up>>
  BY <1>r, VisitTypes DEF CountSources, Advance, rowVars
<1>2. /\ r \in Visit /\ r.todo = opener[p].todo /\ opener[p].todo = {}
      /\ r.pc = "rows" \/ (r.pc = "stamp" /\ \A k \in Key : text[k] = NoText)
  BY <1>r, <1>1, VisitTypes, VisitIs
<1>3. \A k \in Key : ~Covering(opener[p], k)
  BY <1>1, <1>2 DEF Covering
<1> QED
  BY <1>1, <1>2, <1>3, VisitTypes, OpenerSteps

LEMMA CountKeeps ==
  ASSUME SearchInv, NEW p \in Opener, CountRows(p)
  PROVE  SearchInv'
<1>1. PICK b \in BOOLEAN : b = (\E k \in Key : found[k] # NoText)
  OBVIOUS
<1>2. PICK v : v = [opener[p] EXCEPT !.pc = "version"]
  OBVIOUS
<1>3. v \in Visit /\ v.pc = "version" /\ v.todo = opener[p].todo
  BY <1>2, VisitTypes, VisitIs
<1>4. PICK r : r = [v EXCEPT !.rows = b]
  OBVIOUS
<1>5. r \in Visit /\ r.pc = "version" /\ r.todo = opener[p].todo
  BY <1>3, <1>4 DEF Visit
<1>6. /\ opener[p].pc = "rows"
      /\ UNCHANGED <<callRows, changeRows, text, handler, found, excused, stamped, up>>
  BY DEF CountRows, rowVars
<1>7. opener' = [opener EXCEPT ![p] = r]
  BY <1>1, <1>2, <1>4, VisitTypes DEF CountRows
<1>8. opener[p].todo = {} /\ \A k \in Key : ~Covering(opener[p], k)
  BY <1>6, VisitTypes DEF Covering
<1> QED
  BY <1>5, <1>6, <1>7, <1>8, VisitTypes, OpenerSteps

LEMMA VersionKeeps ==
  ASSUME SearchInv, NEW p \in Opener, ReadIndexVersion(p)
  PROVE  SearchInv'
<1>1. /\ opener[p].pc = "version"
      /\ UNCHANGED <<callRows, changeRows, text, handler, found, excused, stamped>>
  BY DEF ReadIndexVersion, rowVars
<1>2. opener[p].todo = {} /\ \A k \in Key : ~Covering(opener[p], k)
  BY <1>1, VisitTypes DEF Covering
<1>3. CASE stamped /\ opener[p].rows
  <2>1. opener' = [opener EXCEPT ![p] = Shut] /\ up' = IF p = Daemon THEN "up" ELSE up
    BY <1>3 DEF ReadIndexVersion, Finish
  <2> QED
    BY <1>1, <1>2, <2>1, ShutIs, VisitTypes, OpenerSteps
<1>4. CASE ~(stamped /\ opener[p].rows)
  <2>r. PICK r : r = [opener[p] EXCEPT !.pc = "delete"]
    OBVIOUS
  <2>1. opener' = [opener EXCEPT ![p] = r] /\ up' = up
    BY <1>4, <2>r, VisitTypes DEF ReadIndexVersion, Advance
  <2>2. r \in Visit /\ r.pc = "delete" /\ r.todo = opener[p].todo
    BY <2>r, VisitTypes, VisitIs
  <2> QED
    BY <1>1, <1>2, <2>1, <2>2, VisitTypes, OpenerSteps
<1> QED
  BY <1>3, <1>4

LEMMA FilledKeeps ==
  ASSUME SearchInv, NEW p \in Opener, Filled(p)
  PROVE  SearchInv'
<1>r. PICK r : r = [opener[p] EXCEPT !.pc = IF opener[p].pc = "fillTools" THEN "files" ELSE "stamp"]
  OBVIOUS
<1>1. /\ opener' = [opener EXCEPT ![p] = r] /\ opener[p].pc \in {"fillTools", "fillFiles"} /\ opener[p].todo = {}
      /\ UNCHANGED <<callRows, changeRows, text, handler, found, excused, stamped, up>>
  BY <1>r, VisitTypes DEF Filled, Advance, rowVars
<1>2. /\ r \in Visit /\ r.todo = opener[p].todo
      /\ r.pc = IF opener[p].pc = "fillTools" THEN "files" ELSE "stamp"
  BY <1>r, <1>1, VisitTypes, VisitIs
<1>3. \A k \in Key : Covering(opener[p], k) => Covering(r, k)
  BY <1>1, <1>2 DEF Covering
<1> QED
  BY <1>1, <1>2, <1>3, VisitTypes, OpenerSteps

LEMMA StampKeeps ==
  ASSUME SearchInv, NEW p \in Opener, Stamp(p)
  PROVE  SearchInv'
<1>1. /\ opener' = [opener EXCEPT ![p] = Shut] /\ opener[p].pc = "stamp" /\ stamped' = TRUE
      /\ up' = IF p = Daemon THEN "up" ELSE up
      /\ UNCHANGED <<callRows, changeRows, text, handler, found, excused>>
  BY DEF Stamp, Finish, rowVars
<1>2. opener[p].todo = {} /\ \A k \in Key : ~Covering(opener[p], k)
  BY <1>1, VisitTypes DEF Covering
<1>3. stamped' = stamped \/ opener[p].pc = "stamp"
  BY <1>1
<1> QED
  BY <1>1, <1>2, <1>3, ShutIs, VisitTypes, OpenerSteps

LEMMA DeleteKeepsIndex ==
  ASSUME SearchInv, NEW p \in Opener, DeleteIndex(p)
  PROVE  SearchInv'
<1>r. PICK r : r = [opener[p] EXCEPT !.pc = "tools"]
  OBVIOUS
<1>1. /\ opener' = [opener EXCEPT ![p] = r] /\ opener[p].pc = "delete" /\ found' = [k \in Key |-> NoText]
      /\ UNCHANGED <<callRows, changeRows, text, handler, excused, stamped, up>>
  BY <1>r, VisitTypes DEF DeleteIndex, Advance, rowVars
<1>2. r \in Visit /\ r.pc = "tools" /\ r.todo = {}
  BY <1>r, <1>1, VisitTypes, VisitIs
<1>3. opener'[p] = r /\ \A q \in Opener : q # p => opener'[q] = opener[q]
  BY <1>1, VisitTypes
<1>4. \A k \in Key : Covering(r, k) /\ Cared(k)'
  BY <1>2, <1>3 DEF Covering, Cared
<1>5. DaemonInv'
  BY <1>1, <1>3 DEF SearchInv, DaemonInv, Opener
<1>6. /\ found' \in [Key -> Words] /\ stamped' \in BOOLEAN /\ excused' \in SUBSET Key /\ excused \subseteq excused'
      /\ \A k \in Key \ excused' : found'[k] \in {found[k], text[k], NoText}
  BY <1>1, VisitTypes DEF Words
<1> QED
  BY <1>1, <1>2, <1>4, <1>5, <1>6, OpenerMoves

LEMMA LoadRowsKeeps ==
  ASSUME SearchInv, NEW p \in Opener, LoadRows(p)
  PROVE  SearchInv'
<1> DEFINE tools == opener[p].pc = "tools"
<1>1. PICK ks \in SUBSET Key : ks = {k \in Key : (k[1] = "file") # tools}
  OBVIOUS
<1>2. PICK todo : todo = TextsOf(ks)
  OBVIOUS
<1>3. /\ todo \in SUBSET [key : Key, text : Words]
      /\ \A line \in todo : line.text # NoText /\ line.text = text[line.key]
      /\ \A k \in ks : text[k] # NoText => \E line \in todo : line.key = k
  <2>1. \A k \in ks : [key |-> k, text |-> text[k]] \in [key : Key, text : Words]
    BY <1>1, VisitTypes
  <2>2. \A line \in todo : \E k \in ks : text[k] # NoText /\ line = [key |-> k, text |-> text[k]]
    BY <1>2 DEF TextsOf
  <2>3. \A k \in ks : text[k] # NoText => [key |-> k, text |-> text[k]] \in todo
    BY <1>2 DEF TextsOf
  <2>4. \A line \in todo : line \in [key : Key, text : Words] /\ line.text # NoText /\ line.text = text[line.key]
    BY <2>1, <2>2
  <2>5. \A k \in ks : text[k] # NoText => \E line \in todo : line.key = k
    BY <2>3
  <2> QED
    BY <2>4, <2>5
<1>4. PICK pc \in {"fillTools", "fillFiles"} : pc = IF tools THEN "fillTools" ELSE "fillFiles"
  OBVIOUS
<1>5. PICK v : v = [opener[p] EXCEPT !.pc = pc]
  OBVIOUS
<1>6. v \in Visit /\ v.pc = pc
  BY <1>5, VisitTypes, VisitIs
<1>7. PICK r : r = [v EXCEPT !.todo = todo]
  OBVIOUS
<1>8. r \in Visit /\ r.pc = pc /\ r.todo = todo
  BY <1>3, <1>6, <1>7 DEF Visit
<1>9. /\ opener[p].pc \in {"tools", "files"} /\ opener[p].todo = {}
      /\ UNCHANGED <<callRows, changeRows, text, handler, found, excused, stamped, up>>
  BY VisitTypes DEF LoadRows, rowVars
<1>10. opener' = [opener EXCEPT ![p] = r]
  BY <1>1, <1>2, <1>4, <1>5, <1>7, VisitTypes DEF LoadRows
<1>11. opener'[p] = r /\ \A q \in Opener : q # p => opener'[q] = opener[q]
  BY <1>10, VisitTypes
<1>12. DaemonInv' /\ (Made' => Made)
  BY <1>9, <1>11 DEF SearchInv, DaemonInv, Opener, Made
<1>13. ASSUME NEW k \in Key \ excused', Covering(opener[p], k)
       PROVE  Covering(r, k) \/ Agreed(k)'
  <2>1. text[k] = NoText => Agreed(k)'
    BY <1>9 DEF SearchInv, NothingInvented, Agreed
  <2>2. k \in ks \/ (tools /\ k[1] = "file")
    BY <1>1, <1>9, <1>13 DEF Covering
  <2> QED
    BY <1>3, <1>4, <1>8, <2>1, <2>2 DEF Covering
<1>14. /\ found' \in [Key -> Words] /\ stamped' \in BOOLEAN /\ excused' \in SUBSET Key /\ excused \subseteq excused'
       /\ \A k \in Key \ excused' : found'[k] \in {found[k], text[k]} /\ found'[k] \in {found[k], text[k], NoText}
  BY <1>9, VisitTypes
<1>15. /\ r.todo # {} => r.pc \in {"fillTools", "fillFiles"}
       /\ \A line \in r.todo : line.text # NoText /\ (line.key \notin excused' => line.text = text[line.key])
  BY <1>3, <1>8
<1> QED
  BY <1>8, <1>9, <1>10, <1>12, <1>13, <1>14, <1>15, OpenerMoves

LEMMA FillKeeps ==
  ASSUME SearchInv, NEW p \in Opener, FillRow(p)
  PROVE  SearchInv'
<1>1. PICK line \in opener[p].todo :
        /\ found' = [found EXCEPT ![line.key] = line.text]
        /\ opener' = [opener EXCEPT ![p].todo = @ \ {line}]
  BY DEF FillRow
<1>2. PICK r : r = [opener[p] EXCEPT !.todo = @ \ {line}]
  OBVIOUS
<1>3. opener' = [opener EXCEPT ![p] = r]
  BY <1>1, <1>2, VisitTypes
<1>4. r \in Visit /\ r.pc = opener[p].pc /\ r.todo = opener[p].todo \ {line}
  BY <1>2, VisitTypes DEF Visit
<1>5. UNCHANGED <<callRows, changeRows, text, handler, excused, stamped, up>>
  BY DEF FillRow, rowVars
<1>6. /\ line.key \in Key /\ line.text \in Words /\ opener[p].pc \in {"fillTools", "fillFiles"}
      /\ line.key \notin excused => line.text = text[line.key]
  BY VisitTypes DEF Visit, SearchInv, OpenersInv
<1>7. opener'[p] = r /\ \A q \in Opener : q # p => opener'[q] = opener[q]
  BY <1>3, VisitTypes
<1>8. DaemonInv' /\ (Made' => Made)
  BY <1>4, <1>5, <1>7 DEF SearchInv, DaemonInv, Opener, Made
<1>9. \A k \in Key \ excused' : found'[k] \in {found[k], text[k]} /\ (k = line.key => found'[k] = text[k])
  BY <1>1, <1>5, <1>6, VisitTypes
<1>10. ASSUME NEW k \in Key \ excused', Covering(opener[p], k)
       PROVE  Covering(r, k) \/ Agreed(k)'
  <2>1. k = line.key => Agreed(k)'
    BY <1>5, <1>9 DEF Agreed
  <2> QED
    BY <1>4, <1>10, <2>1 DEF Covering
<1>11. \A l \in r.todo : l.text # NoText /\ (l.key \notin excused' => l.text = text[l.key])
  BY <1>4, <1>5 DEF SearchInv, OpenersInv
<1>12. found' \in [Key -> Words] /\ stamped' \in BOOLEAN /\ excused' \in SUBSET Key /\ excused \subseteq excused'
  BY <1>1, <1>5, <1>6, VisitTypes
<1>13. \A k \in Key \ excused' : found'[k] \in {found[k], text[k], NoText}
  BY <1>9
<1> QED
  BY <1>3, <1>4, <1>5, <1>6, <1>8, <1>9, <1>10, <1>11, <1>12, <1>13, OpenerMoves

LEMMA OpenerFailsKeeps ==
  ASSUME SearchInv, NEW p \in Opener, OpenerFails(p)
  PROVE  SearchInv'
<1>r. PICK r : r = IF p = Daemon THEN Shut ELSE Blind
  OBVIOUS
<1>s. r \in Visit /\ r.pc = (IF p = Daemon THEN "shut" ELSE "blind") /\ r.todo = {} /\ \A k \in Key : ~Covering(r, k)
  BY <1>r, ShutIs, BlindIs
<1>1. /\ opener' = [opener EXCEPT ![p] = r] /\ excused' = excused \cup LeftBy(p) /\ opener[p].pc # "shut"
      /\ up' = IF p = Daemon THEN "blind" ELSE up
      /\ UNCHANGED <<callRows, changeRows, text, found, stamped, handler>>
  BY <1>r DEF OpenerFails, rowVars
<1>2. opener'[p] = r /\ \A q \in Opener : q # p => opener'[q] = opener[q]
  BY <1>1, VisitTypes
<1>3. excused' \in SUBSET Key /\ excused \subseteq excused' /\ found' \in [Key -> Words] /\ stamped' \in BOOLEAN
  BY <1>1, VisitTypes DEF LeftBy
<1>4. DaemonInv'
  <2>1. CASE p = Daemon
    <3>1. \A g \in Handler : handler'[g].pc = "idle"
      BY <1>1, <2>1 DEF SearchInv, DaemonInv, Free
    <3> QED
      BY <1>1, <1>2, <1>s, <2>1, <3>1 DEF DaemonInv
  <2>2. CASE p # Daemon
    BY <1>1, <1>2, <1>3, <2>2 DEF SearchInv, DaemonInv, Opener
  <2> QED
    BY <2>1, <2>2
<1>5. \A k \in Key \ excused' : ~Covering(opener[p], k)
  BY <1>1, VisitTypes DEF Covering, LeftBy
<1>6. Made' => Made
  BY <1>1, <1>2, <1>s DEF Made
<1>7. \A k \in Key \ excused' : found'[k] \in {found[k], text[k]} /\ found'[k] \in {found[k], text[k], NoText}
  BY <1>1
<1> QED
  BY <1>s, <1>1, <1>3, <1>4, <1>5, <1>6, <1>7, OpenerMoves

\* A cleaning by a process that is shut, or blind and done.
LEMMA CleanRowsKeeps ==
  ASSUME SearchInv, NEW s, NEW becomes \in [Key -> Words], CleanRows(s, becomes),
         \A k \in Key : becomes[k] = found[k] \/ (becomes[k] = NoText /\ SessionOf[k[2]] = s),
         opener' \in [Opener -> Visit],
         \A p \in Opener : opener'[p] = opener[p] \/ (opener[p].pc = "blind" /\ opener'[p] = Shut)
  PROVE  SearchInv'
<1>1. PICK gone \in SUBSET Key : gone = {k \in Key : SessionOf[k[2]] = s}
  OBVIOUS
<1>2. /\ callRows' = {i \in callRows : SessionOf[i] # s}
      /\ changeRows' = {i \in changeRows : SessionOf[i] # s}
      /\ text' = [k \in Key |-> IF k \in gone THEN NoText ELSE text[k]]
      /\ found' = becomes
      /\ excused' = (excused \ gone) \cup {k \in gone : AboutTo(k) # {} \/ becomes[k] # NoText}
      /\ UNCHANGED <<stamped, handler, up>>
  BY <1>1 DEF CleanRows
<1>3. /\ \A k \in gone \ excused' : text'[k] = NoText /\ found'[k] = NoText
      /\ \A k \in Key \ gone : text'[k] = text[k] /\ found'[k] = found[k]
      /\ \A k \in gone : text'[k] = NoText
  BY <1>1, <1>2
<1>o. /\ \A p \in Opener : opener'[p].todo # {} \/ opener'[p].pc # "shut" => opener'[p] = opener[p]
      /\ \A p \in Opener, k \in Key : Covering(opener[p], k) => opener'[p] = opener[p]
  <2>1. ASSUME NEW p \in Opener, opener[p].pc = "blind", NEW k \in Key PROVE ~Covering(opener[p], k)
    BY <2>1, VisitTypes DEF Covering
  <2> QED
    BY <2>1, ShutIs
<1>4. \A k \in Key \ excused' : k \in gone \/ k \notin excused
  BY <1>2
<1>5. \A k \in Key \ excused' : k \in gone => AboutTo(k) = {}
  BY <1>2
<1>6. SearchTyped'
  BY <1>2 DEF SearchInv, SearchTyped, Words
<1>7. HandlersInv'
  <2>1. \A g \in Handler : WellFormed(handler[g])
    BY DEF SearchInv, HandlersInv
  <2>2. ASSUME NEW g \in Handler, NEW k \in Key \ excused', AtWork(handler[g], k)
        PROVE  Value(handler[g]) = text'[k]
    <3>1. g \in AboutTo(k)
      BY <2>2 DEF AboutTo, AtWork
    <3>2. k \notin gone /\ k \notin excused
      BY <1>4, <1>5, <3>1
    <3> QED
      BY <1>3, <2>2, <3>2 DEF SearchInv, HandlersInv
  <2> QED
    BY <1>2, <2>1, <2>2 DEF HandlersInv
<1>8. OpenersInv'
  <2>1. ASSUME NEW p \in Opener, NEW line \in opener[p].todo, line.key \notin excused'
        PROVE  line.text = text'[line.key]
    <3>1. line.key \in Key \ excused' /\ p \in AboutTo(line.key)
      BY <2>1, VisitTypes DEF AboutTo, Visit
    <3>2. line.key \notin gone /\ line.key \notin excused
      BY <1>4, <1>5, <3>1
    <3> QED
      BY <1>3, <3>1, <3>2 DEF SearchInv, OpenersInv
  <2>2. ASSUME NEW p \in Opener
        PROVE  /\ opener'[p].todo # {} => opener'[p].pc \in {"fillTools", "fillFiles"}
               /\ \A line \in opener'[p].todo : line.text # NoText /\ (line.key \notin excused' => line.text = text'[line.key])
    <3>1. CASE opener'[p].todo = {}
      BY <3>1
    <3>2. CASE opener'[p] = opener[p]
      BY <2>1, <3>2 DEF SearchInv, OpenersInv
    <3> QED
      BY <1>o, <3>1, <3>2
  <2> QED
    BY <2>2 DEF OpenersInv
<1>9. RowsInv'
  <2> SUFFICES ASSUME NEW i \in Item
               PROVE  /\ i \notin callRows' => text'[<<"tool_param", i>>] = NoText /\ text'[<<"tool_result", i>>] = NoText
                      /\ i \notin changeRows' => text'[<<"file", i>>] = NoText
    BY DEF RowsInv
  <2>1. <<"tool_param", i>> \in Key /\ <<"tool_result", i>> \in Key /\ <<"file", i>> \in Key
    BY DEF Key, Kinds
  <2>2. CASE SessionOf[i] = s
    BY <1>1, <1>3, <2>1, <2>2
  <2>3. CASE SessionOf[i] # s
    <3>1. <<"tool_param", i>> \notin gone /\ <<"tool_result", i>> \notin gone /\ <<"file", i>> \notin gone
      BY <1>1, <2>3
    <3> QED
      BY <1>2, <1>3, <2>1, <2>3, <3>1, SearchTypes DEF RowsInv
  <2> QED
    BY <2>2, <2>3
<1>10. ASSUME NEW k \in Key \ excused', k \in gone \/ Agreed(k)
       PROVE  Agreed(k)'
  <2>1. CASE k \in gone
    BY <1>3, <2>1 DEF Agreed
  <2>2. CASE k \notin gone /\ Agreed(k)
    BY <1>1, <1>2, <1>3, <2>2 DEF Agreed
  <2> QED
    BY <1>10, <2>1, <2>2
<1>11. NothingInvented'
  BY <1>3, <1>4, <1>10 DEF SearchInv, NothingInvented
<1>12. IndexCared'
  <2>1. SUFFICES ASSUME Made', NEW k \in Key \ excused' PROVE Cared(k)'
    BY DEF IndexCared
  <2>2. Made
    BY <1>2, <1>o, <2>1 DEF Made
  <2>3. CASE k \in gone
    BY <1>10, <2>3 DEF Cared
  <2>4. CASE k \notin gone
    <3>1. Cared(k)
      BY <1>4, <2>2, <2>4 DEF SearchInv, IndexCared
    <3>2. \A p \in Opener : Covering(opener[p], k) => Covering(opener'[p], k)
      BY <1>o
    <3> QED
      BY <1>2, <1>10, <3>1, <3>2 DEF Cared
  <2> QED
    BY <2>3, <2>4
<1>13. DaemonInv'
  <2>1. ASSUME NEW g \in Handler, handler[g].pc \in {"select", "index"}, handler[g].key \in excused
        PROVE  handler[g].key \in excused'
    <3>1. g \in AboutTo(handler[g].key)
      BY <2>1 DEF AboutTo
    <3> QED
      BY <1>2, <2>1, <3>1
  <2>2. opener'[Daemon].pc # "shut" => opener'[Daemon] = opener[Daemon]
    BY <1>o DEF Opener
  <2> QED
    BY <1>2, <2>1, <2>2 DEF SearchInv, DaemonInv
<1> QED
  BY <1>6, <1>7, <1>8, <1>9, <1>11, <1>12, <1>13 DEF SearchInv

LEMMA CleanKeeps ==
  ASSUME SearchInv, NEW s, Clean(s)
  PROVE  SearchInv'
<1> DEFINE becomes == [k \in Key |-> IF SessionOf[k[2]] = s THEN NoText ELSE found[k]]
<1>1. /\ becomes \in [Key -> Words] /\ CleanRows(s, becomes) /\ opener' = opener /\ opener \in [Opener -> Visit]
      /\ \A k \in Key : becomes[k] = found[k] \/ (becomes[k] = NoText /\ SessionOf[k[2]] = s)
  BY SearchTypes DEF Clean, Words, SearchInv, SearchTyped
<1> QED
  BY <1>1, CleanRowsKeeps

LEMMA CleanBlindKeeps ==
  ASSUME SearchInv, NEW s, NEW p \in Command, CleanBlind(p, s)
  PROVE  SearchInv'
<1>1. /\ p \in Opener /\ found \in [Key -> Words] /\ CleanRows(s, found) /\ opener[p].pc = "blind"
      /\ opener' = [opener EXCEPT ![p] = Shut] /\ opener \in [Opener -> Visit]
  BY SearchTypes DEF CleanBlind, Opener, SearchInv, SearchTyped
<1>2. /\ opener' \in [Opener -> Visit]
      /\ \A q \in Opener : opener'[q] = opener[q] \/ (opener[q].pc = "blind" /\ opener'[q] = Shut)
  BY <1>1, ShutIs
<1> QED
  BY <1>1, <1>2, CleanRowsKeeps

LEMMA KilledKeeps ==
  ASSUME SearchInv, Killed
  PROVE  SearchInv'
<1>1. /\ up' = "down" /\ handler' = [g \in Handler |-> Free] /\ opener' = [opener EXCEPT ![Daemon] = Shut]
      /\ excused' = excused \cup LeftBy(Daemon) \cup {k \in Key : \E g \in Handler : g \in AboutTo(k)}
      /\ UNCHANGED <<callRows, changeRows, text, found, stamped>>
  BY DEF Killed, rowVars
<1>2. Daemon \in Opener
  BY DEF Opener
<1>3. opener'[Daemon] = Shut /\ \A q \in Opener : q # Daemon => opener'[q] = opener[q]
  BY <1>1, <1>2, VisitTypes
<1>4. excused' \in SUBSET Key /\ excused \subseteq excused'
  BY <1>1, <1>2, VisitTypes DEF LeftBy
<1>5. SearchTyped'
  BY <1>1, <1>2, <1>4, ShutIs, VisitTypes DEF SearchInv, SearchTyped
<1>6. HandlersInv'
  BY <1>1, FreeIs DEF HandlersInv
<1>7. OpenersInv'
  <2>1. ASSUME NEW p \in Opener
        PROVE  /\ opener'[p].todo # {} => opener'[p].pc \in {"fillTools", "fillFiles"}
               /\ \A line \in opener'[p].todo : line.text # NoText /\ (line.key \notin excused' => line.text = text'[line.key])
    <3>1. CASE p = Daemon
      BY <1>3, <3>1, ShutIs
    <3>2. CASE p # Daemon
      BY <1>1, <1>3, <1>4, <3>2 DEF SearchInv, OpenersInv
    <3> QED
      BY <3>1, <3>2
  <2> QED
    BY <2>1 DEF OpenersInv
<1>8. RowsInv'
  BY <1>1, SearchTypes DEF RowsInv
<1>9. \A k \in Key : Agreed(k) => Agreed(k)'
  BY <1>1 DEF Agreed
<1>10. NothingInvented'
  BY <1>1, <1>4, <1>9 DEF SearchInv, NothingInvented
<1>11. IndexCared'
  <2>1. SUFFICES ASSUME Made', NEW k \in Key \ excused' PROVE Cared(k)'
    BY DEF IndexCared
  <2>2. Made
    BY <1>1, <1>3, <2>1, ShutIs DEF Made
  <2>3. Cared(k)
    BY <1>4, <2>2 DEF SearchInv, IndexCared
  <2>4. \A g \in Handler : ~AtWork(handler[g], k)
    BY <1>1 DEF AtWork, AboutTo
  <2>5. ~Covering(opener[Daemon], k)
    BY <1>1, <1>2, VisitTypes DEF Covering, LeftBy
  <2>6. \A p \in Opener : Covering(opener[p], k) => Covering(opener'[p], k)
    BY <1>3, <2>5
  <2> QED
    BY <1>9, <2>3, <2>4, <2>6 DEF Cared
<1>12. DaemonInv'
  BY <1>1, <1>3, ShutIs DEF DaemonInv
<1> QED
  BY <1>5, <1>6, <1>7, <1>8, <1>10, <1>11, <1>12 DEF SearchInv

\* Every step keeps the invariant.
LEMMA SearchStep == SearchInv /\ [SearchNext]_searchVars => SearchInv'
<1> SUFFICES ASSUME SearchInv, [SearchNext]_searchVars PROVE SearchInv'
  OBVIOUS
<1>1. ASSUME NEW g \in Handler, NEW what \in {"start", "end"}, NEW i \in Item, NEW t \in Text \cup {NoText},
             NEW path \in Text \cup {NoText}, EventComes(g, what, i, t, path)
      PROVE  SearchInv'
  BY <1>1, EventKeeps DEF Words
<1>2. ASSUME NEW g \in Handler, CallStarts(g) \/ CallEnds(g) \/ SelectCall(g) \/ Index(g)
                                \/ FileChanges(g) \/ HandlerFails(g)
      PROVE  SearchInv'
  BY <1>2, StartKeeps, ResultKeeps, SelectKeeps, IndexRowKeeps, FileKeeps, HandlerFailsKeeps
<1>3. ASSUME NEW i \in Item, Clean(SessionOf[i]) PROVE SearchInv'
  BY <1>3, CleanKeeps
<1>b. ASSUME NEW p \in Command, NEW i \in Item, CleanBlind(p, SessionOf[i]) PROVE SearchInv'
  BY <1>b, CleanBlindKeeps
<1>4. ASSUME NEW p \in Opener, OpenIndex(p) \/ CountSources(p) \/ CountRows(p) \/ ReadIndexVersion(p)
                               \/ DeleteIndex(p)
      PROVE  SearchInv'
  BY <1>4, OpenKeepsSearch, SourcesKeep, CountKeeps, VersionKeeps, DeleteKeepsIndex
<1>5. ASSUME NEW p \in Opener, LoadRows(p) \/ FillRow(p) \/ Filled(p) \/ Stamp(p) \/ OpenerFails(p)
      PROVE  SearchInv'
  BY <1>5, LoadRowsKeeps, FillKeeps, FilledKeeps, StampKeeps, OpenerFailsKeeps
<1>6. CASE UNCHANGED searchVars
  BY <1>6 DEF searchVars, rowVars, SearchInv, SearchTyped, HandlersInv, OpenersInv, RowsInv, NothingInvented,
              IndexCared, DaemonInv, Agreed, Cared, Made
<1> QED
  BY <1>1, <1>2, <1>3, <1>b, <1>4, <1>5, <1>6, KilledKeeps DEF SearchNext

\* A new database has nothing to index, and one without an index is not
\* claimed to have one.
LEMMA SearchStart == SearchInit => SearchInv
<1> SUFFICES ASSUME SearchInit PROVE SearchInv
  OBVIOUS
<1>1. /\ found = [k \in Key |-> NoText] /\ excused = {} /\ handler = [g \in Handler |-> Free]
      /\ opener = [p \in Opener |-> Shut]
  BY DEF SearchInit
<1>2. /\ \A g \in Handler : handler[g] = Free
      /\ \A p \in Opener : opener[p] = Shut
      /\ \A k \in Key : found[k] = NoText
  BY <1>1
<1>3. /\ callRows \in SUBSET Item /\ changeRows \in SUBSET Item /\ stamped \in BOOLEAN
      /\ text \in [Key -> Words] /\ RowsInv /\ up # "blind"
      /\ \A k \in Key : stamped => text[k] = NoText
  <2>1. CASE stamped = TRUE
    <3>1. text = [k \in Key |-> NoText] /\ callRows = {} /\ changeRows = {} /\ up = "up"
      BY <2>1 DEF SearchInit
    <3>2. \A i \in Item : <<"tool_param", i>> \in Key /\ <<"tool_result", i>> \in Key /\ <<"file", i>> \in Key
      BY DEF Key, Kinds
    <3> QED
      BY <2>1, <3>1, <3>2 DEF RowsInv, Words
  <2>2. CASE stamped # TRUE
    <3>1. /\ stamped = FALSE /\ callRows = Item /\ changeRows = Item /\ up = "down"
          /\ \E t \in Text : text = [k \in Key |-> t]
      BY <2>2 DEF SearchInit
    <3> QED
      BY <3>1 DEF RowsInv, Words
  <2> QED
    BY <2>1, <2>2
<1>4. SearchTyped
  BY <1>1, <1>3, ShutIs DEF SearchTyped, Words
<1>5. HandlersInv
  BY <1>2, FreeIs DEF HandlersInv
<1>6. OpenersInv
  BY <1>2, ShutIs DEF OpenersInv
<1>7. \A k \in Key : text[k] = NoText => Agreed(k)
  BY <1>2 DEF Agreed
<1>8. NothingInvented
  BY <1>7 DEF NothingInvented
<1>9. IndexCared
  <2>1. Made => stamped
    BY <1>2, ShutIs DEF Made
  <2> QED
    BY <1>3, <1>7, <2>1 DEF IndexCared, Cared
<1>10. DaemonInv
  BY <1>2, <1>3, ShutIs DEF DaemonInv, Opener
<1> QED
  BY <1>3, <1>4, <1>5, <1>6, <1>8, <1>9, <1>10 DEF SearchInv

\* The full-text index and a search through the rows find the same texts, for
\* any number of calls, handlers and processes and whatever fails or dies,
\* except for the rows that the history names: SearchesAgree.
THEOREM SearchesMeet == IndexSpec => []SearchesAgree
BY SearchStart, SearchStep, SearchInvAgrees, PTL DEF IndexSpec

-----------------------------------------------------------------------------
(* The calendar.                                                           *)

LEMMA LengthsPositive ==
  /\ DayLen \in Nat /\ DayLen > 0 /\ WeekLen \in Nat /\ WeekLen > 0
  /\ MonthLen \in Nat /\ MonthLen > 0 /\ RecentDays \in Nat /\ RecentDays > 0
  /\ LastInstant \in Nat /\ MaxRows \in Nat /\ MaxWrites \in Nat /\ MaxPages \in Nat
BY CostsAssumption

\* Division by the length of a day, as a bound.
LEMMA DayDivides ==
  ASSUME NEW a \in Int, NEW d \in Int
  PROVE  /\ a \div DayLen \in Int
         /\ a \div DayLen >= d <=> a >= d * DayLen
<1> DEFINE q == a \div DayLen
<1>1. q \in Int /\ a = q * DayLen + (a % DayLen) /\ a % DayLen \in 0 .. DayLen - 1
  BY LengthsPositive
<1>2. q * DayLen \in Int /\ q * DayLen <= a /\ a < q * DayLen + DayLen
  <2>1. \A p \in Int : p * DayLen \in Int
    BY LengthsPositive
  <2> HIDE DEF q
  <2> QED
    BY <1>1, <2>1, LengthsPositive
<1> HIDE DEF q
<1>3. CASE q >= d
  <2>1. PICK n \in Nat : q = d + n
    <3>1. q - d \in Nat /\ q = d + (q - d)
      BY <1>1, <1>3
    <3> QED
      BY <3>1
  <2>2. q * DayLen = d * DayLen + n * DayLen /\ n * DayLen \in Nat /\ d * DayLen \in Int
    BY <2>1, LengthsPositive
  <2> QED
    BY <1>1, <1>2, <1>3, <2>2 DEF q
<1>4. CASE q < d
  <2>1. PICK n \in Nat : d = q + 1 + n
    <3>1. d - q - 1 \in Nat /\ d = q + 1 + (d - q - 1)
      BY <1>1, <1>4
    <3> QED
      BY <3>1
  <2>2. d * DayLen = (q * DayLen + DayLen) + n * DayLen /\ n * DayLen \in Nat
    BY <1>1, <2>1, LengthsPositive
  <2> QED
    BY <1>1, <1>2, <1>4, <2>2, LengthsPositive DEF q
<1> QED
  BY <1>1, <1>3, <1>4

LEMMA ZoneIs ==
  ASSUME NEW z \in Zone
  PROVE  /\ z.first \in Int /\ z.then \in Int /\ z.from \in Int
         /\ 0 <= z.first /\ z.first <= DayLen /\ 0 <= z.then /\ z.then <= DayLen
         /\ \A h \in Int : 0 <= h /\ h <= DayLen /\ z.then <= h /\ h < z.first
                           => (z.from + h) % DayLen # 0
<1>1. {z.first, z.then} \subseteq 0 .. DayLen /\ z.from \in Int
  BY ZoneAssumption
<1>2. \A h \in 0 .. DayLen : z.then <= h /\ h < z.first => (z.from + h) % DayLen # 0
  BY ZoneAssumption
<1> QED
  BY <1>1, <1>2, LengthsPositive

LEMMA LocalDayFrom ==
  ASSUME NEW z \in Zone, NEW t \in Int, NEW d \in Int
  PROVE  /\ OffsetAt(z, t) \in Int /\ 0 <= OffsetAt(z, t) /\ OffsetAt(z, t) <= DayLen
         /\ LocalDay(z, t) \in Int
         /\ LocalDay(z, t) >= d <=> t + OffsetAt(z, t) >= d * DayLen
<1>1. OffsetAt(z, t) \in Int /\ 0 <= OffsetAt(z, t) /\ OffsetAt(z, t) <= DayLen
  BY ZoneIs DEF OffsetAt
<1>2. LocalDay(z, t) = (t + OffsetAt(z, t)) \div DayLen
  BY DEF LocalDay, OffsetAt
<1>3. t + OffsetAt(z, t) \in Int
  BY <1>1
<1> QED
  BY <1>1, <1>2, <1>3, DayDivides

LEMMA LocalDayGrows ==
  ASSUME NEW z \in Zone, NEW s \in Int, NEW t \in Int, s <= t
  PROVE  LocalDay(z, s) <= LocalDay(z, t)
<1> DEFINE d == LocalDay(z, s)
<1>1. d \in Int /\ LocalDay(z, t) \in Int
  BY LocalDayFrom
<1>2. d * DayLen \in Int
  BY <1>1, LengthsPositive
<1>3. s + OffsetAt(z, s) >= d * DayLen
  BY <1>1, LocalDayFrom
<1>4. t + OffsetAt(z, t) >= d * DayLen
  <2>1. CASE t < z.from \/ s >= z.from
    BY <1>2, <1>3, <2>1, ZoneIs DEF OffsetAt
  <2>2. CASE s < z.from /\ t >= z.from
    <3>1. s + z.first >= d * DayLen /\ OffsetAt(z, t) = z.then
      BY <1>3, <2>2, ZoneIs DEF OffsetAt
    <3>2. SUFFICES ASSUME t + z.then < d * DayLen PROVE FALSE
      BY <1>2, <3>1, ZoneIs
    <3> DEFINE h == d * DayLen - z.from
    <3>3. h \in Int /\ 0 <= h /\ h <= DayLen /\ z.then <= h /\ h < z.first
      BY <1>2, <2>2, <3>1, <3>2, ZoneIs, LengthsPositive
    <3>4. z.from + h = d * DayLen
      BY <1>2, ZoneIs
    <3>5. (d * DayLen) % DayLen = 0
      BY <1>1, LengthsPositive
    <3> HIDE DEF h
    <3> QED
      BY <3>3, <3>4, <3>5, ZoneIs
  <2> QED
    BY <2>1, <2>2, ZoneIs
<1>5. LocalDay(z, t) >= d
  BY <1>1, <1>4, LocalDayFrom
<1> QED
  BY <1>1, <1>5

\* A set of integers with a lower bound has a least element.
LEMMA LeastInt ==
  ASSUME NEW B \in SUBSET Int, NEW b \in B, NEW low \in Int, \A c \in B : low <= c
  PROVE  Min(B) \in B /\ \A c \in B : Min(B) <= c
<1> DEFINE S == {n \in Nat : low + n \in B}
           R == {ss \in Nat \X Nat : ss[1] < ss[2]}
<1>1. IsWellFoundedOn(R, Nat)
  BY NatLessThanWellFounded DEF OpToRel
<1>2. \A x, y \in Nat : <<y, x>> \in R <=> y < x
  OBVIOUS
<1>3. b - low \in S
  <2>1. b - low \in Nat /\ low + (b - low) = b
    OBVIOUS
  <2> QED
    BY <2>1
<1> HIDE DEF R
<1>4. S \in SUBSET Nat /\ S # {}
  BY <1>3
<1> HIDE DEF S
<1>5. PICK n \in S : \A m \in S : <<m, n>> \notin R
  BY <1>1, <1>4, WFMin
<1>6. n \in Nat /\ low + n \in B
  BY <1>5 DEF S
<1>7. \A c \in B : low + n <= c
  <2> TAKE c \in B
  <2>1. c - low \in Nat /\ low + (c - low) = c
    OBVIOUS
  <2>2. c - low \in S
    BY <2>1 DEF S
  <2>3. ~(c - low < n)
    BY <1>2, <1>5, <1>6, <2>1, <2>2
  <2> QED
    BY <1>6, <2>1, <2>3
<1> QED
  BY <1>6, <1>7 DEF Min

LEMMA DayStartIs ==
  ASSUME NEW z \in Zone, NEW d \in Int
  PROVE  /\ DayStart(z, d) \in Int
         /\ \A t \in Int : LocalDay(z, t) >= d <=> t >= DayStart(z, d)
<1> DEFINE lo == (d - 1) * DayLen
           hi == d * DayLen
           B == {t \in lo .. hi : LocalDay(z, t) >= d}
<1>1. lo \in Int /\ hi \in Int /\ hi = lo + DayLen
  BY LengthsPositive
<1>2. hi \in B
  <2>1. LocalDay(z, hi) >= d
    BY <1>1, LocalDayFrom
  <2> QED
    BY <1>1, <2>1, LengthsPositive
<1>3. DayStart(z, d) \in B /\ \A c \in B : DayStart(z, d) <= c
  <2>1. B \in SUBSET Int /\ \A c \in B : lo <= c
    BY <1>1
  <2>2. DayStart(z, d) = Min(B)
    BY DEF DayStart
  <2> HIDE DEF B, lo, hi
  <2>3. Min(B) \in B /\ \A c \in B : Min(B) <= c
    BY <1>1, <1>2, <2>1, LeastInt
  <2> QED
    BY <2>2, <2>3
<1>4. ASSUME NEW t \in Int, LocalDay(z, t) >= d PROVE t >= DayStart(z, d)
  <2>1. t + OffsetAt(z, t) >= hi
    BY <1>4, LocalDayFrom
  <2>2. t >= lo
    <3>1. OffsetAt(z, t) \in Int /\ OffsetAt(z, t) <= DayLen
      BY LocalDayFrom
    <3>2. DayLen \in Int
      BY LengthsPositive
    <3> HIDE DEF lo, hi
    <3> QED
      BY <1>1, <2>1, <3>1, <3>2
  <2>3. CASE t <= hi
    BY <1>1, <1>3, <1>4, <2>2, <2>3
  <2>4. CASE t > hi
    BY <1>1, <1>2, <1>3, <2>4
  <2> QED
    BY <1>1, <2>3, <2>4
<1>5. ASSUME NEW t \in Int, t >= DayStart(z, d) PROVE LocalDay(z, t) >= d
  <2>1. DayStart(z, d) \in Int /\ LocalDay(z, DayStart(z, d)) >= d
    BY <1>1, <1>3
  <2>2. LocalDay(z, DayStart(z, d)) <= LocalDay(z, t)
    BY <1>5, <2>1, LocalDayGrows
  <2> QED
    BY <2>1, <2>2, LocalDayFrom
<1> QED
  BY <1>1, <1>3, <1>4, <1>5

-----------------------------------------------------------------------------
(* How far a query is from the truth, and what is left of it to run.       *)

By == {"day", "model", "session"}
Statement == [table : {"cache", "usage"}, from : Int, to : Int, sign : {-1, 1}]
Told == UNION {[Keys(b) -> Int] : b \in By}
Asked == [by : By, from : Int, to : Int, todo : Seq(Statement), got : Told]

QueryTyped(q) ==
  /\ q \in Asked
  /\ q.got \in [Keys(q.by) -> Int]
  /\ Len(q.todo) <= 3
  /\ \A i \in DOMAIN q.todo : q.todo[i].table = "cache" => q.by = "day"

\* How often a statement counts what happened at t.
Weight(z, s, t) ==
  IF s.table = "cache" THEN IF s.from <= LocalDay(z, t) /\ LocalDay(z, t) < s.to THEN 1 ELSE 0
  ELSE IF s.from <= t /\ t < s.to THEN s.sign ELSE 0
WeightAt(z, todo, i, t) == IF i \in DOMAIN todo THEN Weight(z, todo[i], t) ELSE 0
Remaining(z, todo, t) == WeightAt(z, todo, 1, t) + WeightAt(z, todo, 2, t) + WeightAt(z, todo, 3, t)
Asks(q, t) == IF q.from <= t /\ t < q.to THEN 1 ELSE 0
Excess(z, q, t) == Remaining(z, q.todo, t) - Asks(q, t)

\* Whatever has run of it, a row counts once too often or too seldom at most.
NearTruth(z, q) ==
  \A t \in Int :
    /\ Excess(z, q, t) \in -1 .. 1
    /\ WeightAt(z, q.todo, 2, t) + WeightAt(z, q.todo, 3, t) - Asks(q, t) \in -1 .. 1
    /\ WeightAt(z, q.todo, 3, t) - Asks(q, t) \in -1 .. 1

KeyIn(z, r, by) == CASE by = "day" -> LocalDay(z, r.ts) [] by = "model" -> r.model [] by = "session" -> r.sess
Share(z, q, r, x) == IF KeyIn(z, r, q.by) = x /\ (q.by = "session" => r.sess \in Listed) THEN r.cost ELSE 0
Extra(z, q, r, x) == Excess(z, q, r.ts) * Share(z, q, r, x)
Gap(z, S, q, x) == q.got[x] + SumOn([r \in S |-> Extra(z, q, r, x)], S)
Gaps(z, S, q) == SumOn([x \in Keys(q.by) |-> Distance(Gap(z, S, q, x), 0)], Keys(q.by))

RowTyped(r) ==
  /\ DOMAIN r = {"sess", "model", "tok", "cost", "ts", "copy"}
  /\ [sess |-> r.sess, model |-> r.model, tok |-> r.tok, cost |-> r.cost] \in Kind
  /\ r.ts \in 0 .. LastInstant /\ r.copy \in 1 .. MaxRows
RowsTyped(S) == IsFiniteSet(S) /\ \A r \in S : RowTyped(r)

LEMMA RowIs ==
  ASSUME NEW r, RowTyped(r)
  PROVE  /\ r.ts \in Int /\ 0 <= r.ts /\ r.ts <= LastInstant
         /\ r.cost \in Nat /\ r.tok \in Nat /\ r.model \in ModelName /\ r.sess \in SessionId
<1> DEFINE k == [sess |-> r.sess, model |-> r.model, tok |-> r.tok, cost |-> r.cost]
<1>1. k \in Kind
  BY DEF RowTyped
<1>2. k.cost \in Nat /\ k.tok \in Nat
  <2> HIDE DEF k
  <2> QED
    BY <1>1, CostsAssumption
<1>3. k.model \in ModelName /\ k.sess \in SessionId
  <2> HIDE DEF k
  <2> QED
    BY <1>1 DEF ModelName, SessionId
<1>4. r.ts \in 0 .. LastInstant
  BY DEF RowTyped
<1> QED
  BY <1>2, <1>3, <1>4, LengthsPositive

LEMMA KeysFinite ==
  ASSUME NEW by \in By
  PROVE  IsFiniteSet(Keys(by))
<1>1. IsFiniteSet(Day)
  <2>1. LastInstant \div DayLen + 2 \in Int
    BY DayDivides, LengthsPositive
  <2> QED
    BY <2>1, FS_Interval DEF Day
<1>2. IsFiniteSet(ModelName)
  <2> DEFINE f == [k \in Kind |-> k.model]
  <2>1. ModelName = Onto(f, Kind)
    BY DEF ModelName, Onto
  <2>2. IsFiniteSet(Kind)
    BY CostsAssumption
  <2> HIDE DEF f
  <2> QED
    BY <2>1, <2>2, ImageFinite
<1>3. IsFiniteSet(SessionId)
  <2> DEFINE f == [k \in Kind |-> k.sess]
  <2>1. SessionId = Onto(f, Kind)
    BY DEF SessionId, Onto
  <2>2. IsFiniteSet(Kind)
    BY CostsAssumption
  <2> HIDE DEF f
  <2> QED
    BY <2>1, <2>2, ImageFinite
<1> QED
  BY <1>1, <1>2, <1>3 DEF Keys, By

\* The days of rows are days of the cache.
LEMMA DayOfRow ==
  ASSUME NEW z \in Zone, NEW t \in Int, 0 <= t, t <= LastInstant
  PROVE  LocalDay(z, t) \in Day
<1> DEFINE n == LastInstant \div DayLen
<1>1. n \in Int /\ LastInstant \in Int
  BY DayDivides, LengthsPositive
<1>2. ~(LastInstant >= (n + 1) * DayLen)
  <2>1. ~(n >= n + 1) /\ n + 1 \in Int
    BY <1>1
  <2> QED
    BY <1>1, <2>1, DayDivides
<1> HIDE DEF n
<1>3. (n + 3) * DayLen \in Int /\ (n + 3) * DayLen = (n + 1) * DayLen + DayLen + DayLen
      /\ (n + 1) * DayLen \in Int
  BY <1>1, LengthsPositive
<1>4. OffsetAt(z, t) \in Int /\ 0 <= OffsetAt(z, t) /\ OffsetAt(z, t) <= DayLen /\ LocalDay(z, t) \in Int
  BY LocalDayFrom
<1>5. ~(t + OffsetAt(z, t) >= (n + 3) * DayLen)
  BY <1>1, <1>2, <1>3, <1>4, LengthsPositive
<1>6. n + 3 \in Int /\ 0 \in Int /\ 0 * DayLen = 0
  BY <1>1, LengthsPositive
<1>7. ~(LocalDay(z, t) >= n + 3) /\ LocalDay(z, t) >= 0
  BY <1>4, <1>5, <1>6, LocalDayFrom
<1> QED
  BY <1>1, <1>4, <1>7 DEF Day, n

LEMMA ExtraIs ==
  ASSUME NEW z \in Zone, NEW q, QueryTyped(q), NEW r, RowTyped(r), NEW x, NearTruth(z, q)
  PROVE  /\ Share(z, q, r, x) \in Nat /\ Share(z, q, r, x) <= r.cost
         /\ Excess(z, q, r.ts) \in -1 .. 1
         /\ Extra(z, q, r, x) \in Int
         /\ Distance(Extra(z, q, r, x), 0) <= Share(z, q, r, x)
<1>1. Share(z, q, r, x) \in Nat /\ Share(z, q, r, x) <= r.cost /\ r.cost \in Nat
  BY RowIs DEF Share
<1>2. Excess(z, q, r.ts) \in -1 .. 1
  BY RowIs DEF NearTruth
<1>3. \A n \in Nat, e \in -1 .. 1 : e * n \in Int /\ Distance(e * n, 0) <= n
  BY DEF Distance
<1> QED
  BY <1>1, <1>2, <1>3 DEF Extra

LEMMA DistanceIs ==
  /\ \A a \in Int : Distance(a, 0) \in Nat
  /\ \A a, b \in Int : Distance(a + b, 0) <= Distance(a, 0) + Distance(b, 0)
  /\ \A a, b \in Int : Distance(a, 0) <= Distance(a + b, 0) + Distance(b, 0)
  /\ \A a, b \in Int : Distance(a, b) = Distance(a - b, 0)
BY DEF Distance

LEMMA GapIsInt ==
  ASSUME NEW z \in Zone, NEW S, RowsTyped(S), NEW q, QueryTyped(q), NearTruth(z, q), NEW x \in Keys(q.by)
  PROVE  Gap(z, S, q, x) \in Int
<1> DEFINE f == [r \in S |-> Extra(z, q, r, x)]
<1>1. \A r \in S : f[r] \in Int
  BY ExtraIs DEF RowsTyped
<1>2. SumOn(f, S) \in Int
  <2> HIDE DEF f
  <2> QED
    BY <1>1, SumInt DEF RowsTyped
<1>3. q.got[x] \in Int
  BY DEF QueryTyped
<1> QED
  BY <1>2, <1>3 DEF Gap

LEMMA GapOneMore ==
  ASSUME NEW z \in Zone, NEW S, RowsTyped(S), NEW r, r \notin S, RowTyped(r),
         NEW q, QueryTyped(q), NearTruth(z, q), NEW x \in Keys(q.by)
  PROVE  Gap(z, S \cup {r}, q, x) = Gap(z, S, q, x) + Extra(z, q, r, x)
<1> DEFINE Both == S \cup {r}
           f == [y \in Both |-> Extra(z, q, y, x)]
           g == [y \in S |-> Extra(z, q, y, x)]
<1>1. \A y \in Both : f[y] \in Int
  BY ExtraIs DEF RowsTyped
<1>2. \A y \in S : f[y] = g[y]
  OBVIOUS
<1>3. f[r] = Extra(z, q, r, x) /\ f[r] \in Int
  BY <1>1
<1>4. Gap(z, Both, q, x) = q.got[x] + SumOn(f, Both) /\ Gap(z, S, q, x) = q.got[x] + SumOn(g, S)
  BY DEF Gap
<1>5. q.got[x] \in Int
  BY DEF QueryTyped
<1> HIDE DEF f, g
<1>6. SumOn(f, S \cup {r}) = f[r] + SumOn(f, S)
  BY <1>1, SumInsert DEF RowsTyped
<1>7. SumOn(f, S) = SumOn(g, S)
  BY <1>2, SumSame DEF RowsTyped
<1>8. SumOn(f, S) \in Int
  BY <1>1, SumInt DEF RowsTyped
<1> QED
  BY <1>3, <1>4, <1>5, <1>6, <1>7, <1>8

LEMMA KeyIs ==
  ASSUME NEW z \in Zone, NEW r, RowTyped(r), NEW by \in By
  PROVE  KeyIn(z, r, by) \in Keys(by)
<1>1. LocalDay(z, r.ts) \in Day /\ r.model \in ModelName /\ r.sess \in SessionId
  BY RowIs, DayOfRow
<1> QED
  BY <1>1 DEF KeyIn, Keys, By

LEMMA SharesAdd ==
  ASSUME NEW z \in Zone, NEW r, RowTyped(r), NEW q, QueryTyped(q)
  PROVE  SumOn([x \in Keys(q.by) |-> Share(z, q, r, x)], Keys(q.by)) <= r.cost
<1> DEFINE Ks == Keys(q.by)
           k == KeyIn(z, r, q.by)
           f == [x \in Ks |-> Share(z, q, r, x)]
<1>1. q.by \in By
  BY DEF QueryTyped, Asked
<1>2. IsFiniteSet(Ks) /\ k \in Ks
  BY <1>1, KeysFinite, KeyIs
<1>3. r.cost \in Nat
  BY RowIs
<1>4. f[k] \in Int /\ f[k] <= r.cost
  BY <1>2, <1>3 DEF Share
<1>5. \A x \in Ks \ {k} : f[x] = 0
  BY DEF Share
<1> HIDE DEF f, Ks, k
<1>6. SumOn(f, Ks) = f[k]
  BY <1>2, <1>4, <1>5, SumAtOne
<1> QED
  BY <1>4, <1>6 DEF f, Ks

\* One row more or less moves a page by what the row costs at most.
LEMMA GapsOneMore ==
  ASSUME NEW z \in Zone, NEW S, RowsTyped(S), NEW r, r \notin S, RowTyped(r),
         NEW q, QueryTyped(q), NearTruth(z, q)
  PROVE  /\ Gaps(z, S, q) \in Nat /\ Gaps(z, S \cup {r}, q) \in Nat
         /\ Gaps(z, S \cup {r}, q) <= Gaps(z, S, q) + r.cost
         /\ Gaps(z, S, q) <= Gaps(z, S \cup {r}, q) + r.cost
<1> DEFINE Ks == Keys(q.by)
           Both == S \cup {r}
           f == [x \in Ks |-> Distance(Gap(z, S, q, x), 0)]
           g == [x \in Ks |-> Distance(Gap(z, Both, q, x), 0)]
           c == [x \in Ks |-> Share(z, q, r, x)]
           fc == [x \in Ks |-> f[x] + c[x]]
           gc == [x \in Ks |-> g[x] + c[x]]
<1>1. IsFiniteSet(Ks)
  BY KeysFinite DEF QueryTyped, Asked
<1>2. RowsTyped(Both)
  BY FS_AddElement DEF RowsTyped
<1>3. ASSUME NEW x \in Ks
      PROVE  /\ f[x] \in Nat /\ g[x] \in Nat /\ c[x] \in Nat
             /\ g[x] <= f[x] + c[x] /\ f[x] <= g[x] + c[x]
  <2>1. Gap(z, S, q, x) \in Int /\ Gap(z, Both, q, x) \in Int
    BY <1>2, GapIsInt
  <2>2. Gap(z, Both, q, x) = Gap(z, S, q, x) + Extra(z, q, r, x)
    BY GapOneMore
  <2>3. /\ Share(z, q, r, x) \in Nat /\ Extra(z, q, r, x) \in Int
        /\ Distance(Extra(z, q, r, x), 0) <= Share(z, q, r, x)
    BY ExtraIs
  <2>4. f[x] = Distance(Gap(z, S, q, x), 0) /\ g[x] = Distance(Gap(z, Both, q, x), 0) /\ c[x] = Share(z, q, r, x)
    OBVIOUS
  <2>5. f[x] \in Nat /\ g[x] \in Nat /\ Distance(Extra(z, q, r, x), 0) \in Nat
    BY <2>1, <2>3, <2>4, DistanceIs
  <2>6. /\ g[x] <= f[x] + Distance(Extra(z, q, r, x), 0)
        /\ f[x] <= g[x] + Distance(Extra(z, q, r, x), 0)
    BY <2>1, <2>2, <2>3, <2>4, DistanceIs
  <2> HIDE DEF f, g, c, Ks, Both
  <2> QED
    BY <2>3, <2>4, <2>5, <2>6
<1>4. \A x \in Ks : fc[x] = f[x] + c[x] /\ gc[x] = g[x] + c[x]
  OBVIOUS
<1>5. Gaps(z, S, q) = SumOn(f, Ks) /\ Gaps(z, Both, q) = SumOn(g, Ks)
  BY DEF Gaps
<1>6. SumOn(c, Ks) <= r.cost /\ r.cost \in Nat
  BY SharesAdd, RowIs
<1> HIDE DEF f, g, c, fc, gc, Ks
<1>7. SumOn(f, Ks) \in Nat /\ SumOn(g, Ks) \in Nat /\ SumOn(c, Ks) \in Nat
  BY <1>1, <1>3, SumNat
<1>8. SumOn(fc, Ks) = SumOn(f, Ks) + SumOn(c, Ks) /\ SumOn(gc, Ks) = SumOn(g, Ks) + SumOn(c, Ks)
  BY <1>1, <1>3, <1>4, SumPlus
<1>9. SumOn(g, Ks) <= SumOn(fc, Ks) /\ SumOn(f, Ks) <= SumOn(gc, Ks)
  BY <1>1, <1>3, <1>4, SumLeq
<1> QED
  BY <1>5, <1>6, <1>7, <1>8, <1>9

-----------------------------------------------------------------------------
(* The queries of a page.                                                  *)

NoneYet(by) == [x \in Keys(by) |-> 0]
Exact(z, S, q) == \A r \in S : Excess(z, q, r.ts) = 0
\* A query as it is asked.
Fresh(z, S, q) == QueryTyped(q) /\ NearTruth(z, q) /\ Exact(z, S, q) /\ q.got = NoneYet(q.by)

LEMMA FreshIsExact ==
  ASSUME NEW z \in Zone, NEW S, RowsTyped(S), NEW q, Fresh(z, S, q)
  PROVE  Gaps(z, S, q) = 0
<1> DEFINE Ks == Keys(q.by)
           f == [x \in Ks |-> Distance(Gap(z, S, q, x), 0)]
<1>1. IsFiniteSet(Ks)
  BY KeysFinite DEF Fresh, QueryTyped, Asked
<1>2. ASSUME NEW x \in Ks PROVE f[x] = 0
  <2> DEFINE g == [r \in S |-> Extra(z, q, r, x)]
  <2>1. ASSUME NEW r \in S PROVE g[r] = 0
    <3>1. Excess(z, q, r.ts) = 0 /\ Share(z, q, r, x) \in Nat
      BY ExtraIs DEF Fresh, Exact, RowsTyped
    <3> QED
      BY <3>1 DEF Extra
  <2>2. SumOn(g, S) = 0
    <3> HIDE DEF g
    <3> QED
      BY <2>1, SumZero DEF RowsTyped
  <2>3. Gap(z, S, q, x) = 0
    BY <2>2 DEF Gap, Fresh, NoneYet
  <2> QED
    BY <2>3 DEF Distance
<1>3. SumOn(f, Ks) = 0
  <2> HIDE DEF f, Ks
  <2> QED
    BY <1>1, <1>2, SumZero
<1> QED
  BY <1>3 DEF Gaps

LEMMA StatementsAre ==
  ASSUME NEW a \in Int, NEW b \in Int, NEW sign \in {-1, 1}
  PROVE  CacheDays(a, b) \in Statement /\ Rows(a, b, sign) \in Statement
BY DEF CacheDays, Rows, Statement

AskedFor(q, by, from, to, todo) ==
  /\ QueryTyped(q) /\ q.got = NoneYet(q.by) /\ q.todo = todo
  /\ q.from = from /\ q.to = to /\ q.by = by

LEMMA QueryIs ==
  ASSUME NEW by \in By, NEW from \in Int, NEW to \in Int, NEW todo \in Seq(Statement), Len(todo) <= 3,
         \A i \in DOMAIN todo : todo[i].table = "cache" => by = "day"
  PROVE  AskedFor(Query(by, from, to, todo), by, from, to, todo)
<1> DEFINE q == Query(by, from, to, todo)
<1>1. NoneYet(by) \in [Keys(by) -> Int]
  BY DEF NoneYet
<1>2. q = [by |-> by, from |-> from, to |-> to, todo |-> todo, got |-> NoneYet(by)]
  BY DEF Query, NoneYet
<1> HIDE DEF q
<1>3. NoneYet(by) \in Told
  BY <1>1 DEF Told
<1>4. q \in Asked
  BY <1>2, <1>3 DEF Asked
<1>5. AskedFor(q, by, from, to, todo)
  BY <1>1, <1>2, <1>4 DEF QueryTyped, AskedFor
<1> QED
  BY <1>5 DEF q

\* Added up from the rows of its window.
LEMMA WindowIsFresh ==
  ASSUME NEW z \in Zone, NEW S, RowsTyped(S), NEW by \in By, NEW from \in Int, NEW to \in Int
  PROVE  Fresh(z, S, Query(by, from, to, <<Rows(from, to, 1)>>))
<1> DEFINE todo == <<Rows(from, to, 1)>>
           q == Query(by, from, to, todo)
<1>1. todo \in Seq(Statement) /\ Len(todo) = 1 /\ DOMAIN todo = 1 .. 1 /\ todo[1] = Rows(from, to, 1)
  BY StatementsAre
<1>2. Rows(from, to, 1).table = "usage" /\ Rows(from, to, 1).from = from /\ Rows(from, to, 1).to = to
      /\ Rows(from, to, 1).sign = 1
  BY DEF Rows
<1> HIDE DEF todo
<1>3. QueryTyped(q) /\ q.got = NoneYet(q.by) /\ q.todo = todo /\ q.from = from /\ q.to = to
  <2>1. \A i \in DOMAIN todo : todo[i].table = "cache" => by = "day"
    BY <1>1, <1>2
  <2>2. todo \in Seq(Statement) /\ Len(todo) <= 3
    BY <1>1
  <2>3. AskedFor(q, by, from, to, todo)
    BY <2>1, <2>2, QueryIs, Zenon
  <2> QED
    BY <2>3 DEF AskedFor
<1> HIDE DEF q
<1>4. ASSUME NEW t \in Int
      PROVE  /\ WeightAt(z, q.todo, 1, t) = Asks(q, t)
             /\ WeightAt(z, q.todo, 2, t) = 0 /\ WeightAt(z, q.todo, 3, t) = 0
             /\ Asks(q, t) \in 0 .. 1
  BY <1>1, <1>2, <1>3 DEF WeightAt, Weight, Asks
<1>5. ASSUME NEW t \in Int PROVE Excess(z, q, t) = 0
  BY <1>4 DEF Excess, Remaining
<1>6. NearTruth(z, q)
  BY <1>4, <1>5 DEF NearTruth
<1>7. \A r \in S : r.ts \in Int
  BY RowIs DEF RowsTyped
<1>8. Fresh(z, S, q)
  BY <1>3, <1>5, <1>6, <1>7 DEF Fresh, Exact
<1> QED
  BY <1>8 DEF q, todo

LEMMA Appended ==
  ASSUME NEW T, NEW c \in T, NEW l \in T, NEW h \in T
  PROVE  /\ <<c>> \o <<l>> = <<c, l>> /\ <<c>> \o <<>> = <<c>>
         /\ <<c, l>> \o <<h>> = <<c, l, h>> /\ <<c, l>> \o <<>> = <<c, l>>
<1>1. <<c>> \in Seq(T) /\ <<l>> \in Seq(T) /\ <<h>> \in Seq(T) /\ <<c, l>> \in Seq(T)
  OBVIOUS
<1>2. <<c>> \o <<l>> = <<c, l>>
  <2> DEFINE s == <<c>> \o <<l>>
             t == <<c, l>>
  <2>1. s \in Seq(T) /\ Len(s) = 2 /\ s[1] = c /\ s[2] = l
    BY <1>1
  <2>2. t \in Seq(T) /\ Len(t) = 2 /\ t[1] = c /\ t[2] = l
    BY <1>1
  <2> HIDE DEF s, t
  <2>3. \A i \in 1 .. Len(s) : s[i] = t[i]
    BY <2>1, <2>2
  <2>4. s = t
    BY <2>1, <2>2, <2>3, SeqEqual
  <2> QED
    BY <2>4 DEF s, t
<1>3. <<c>> \o <<>> = <<c>> /\ <<c, l>> \o <<>> = <<c, l>>
  BY <1>1
<1>4. <<c, l>> \o <<h>> = <<c, l, h>>
  <2> DEFINE s == <<c, l>> \o <<h>>
             t == <<c, l, h>>
  <2>1. s \in Seq(T) /\ Len(s) = 3 /\ s[1] = c /\ s[2] = l /\ s[3] = h
    BY <1>1
  <2>2. t \in Seq(T) /\ Len(t) = 3 /\ t[1] = c /\ t[2] = l /\ t[3] = h
    OBVIOUS
  <2> HIDE DEF s, t
  <2>3. \A i \in 1 .. Len(s) : s[i] = t[i]
    BY <2>1, <2>2
  <2>4. s = t
    BY <2>1, <2>2, <2>3, SeqEqual
  <2> QED
    BY <2>4 DEF s, t
<1> QED
  BY <1>2, <1>3, <1>4

LEMMA CachedIsFresh ==
  ASSUME NEW z \in Zone, NEW S, RowsTyped(S), NEW from \in Int, NEW to \in Int,
         NEW lo \in Int, NEW hi \in Int, NEW a \in Int, NEW b \in Int, lo <= from, to <= hi,
         \A t \in Int : LocalDay(z, t) >= a <=> t >= lo,
         \A t \in Int : LocalDay(z, t) >= b <=> t >= hi,
         from <= to \/ (hi <= lo /\ \A r \in S : r.ts >= from)
  PROVE  Fresh(z, S, Query("day", from, to, <<CacheDays(a, b)>> \o When(from > lo, Rows(lo, from, -1))
                                                                \o When(to < hi, Rows(to, hi, -1))))
<1> DEFINE c == CacheDays(a, b)
           l == Rows(lo, from, -1)
           h == Rows(to, hi, -1)
           todo == (<<c>> \o When(from > lo, l)) \o When(to < hi, h)
           q == Query("day", from, to, todo)
           wl(t) == IF lo <= t /\ t < from THEN -1 ELSE 0
           wh(t) == IF to <= t /\ t < hi THEN -1 ELSE 0
           wc(t) == IF lo <= t /\ t < hi THEN 1 ELSE 0
           v(t) == IF from <= t /\ t < to THEN 1 ELSE 0
<1>1. c \in Statement /\ l \in Statement /\ h \in Statement
  BY StatementsAre
<1>2. \A t \in Int : Weight(z, c, t) = wc(t) /\ Weight(z, l, t) = wl(t) /\ Weight(z, h, t) = wh(t)
  <2> TAKE t \in Int
  <2>1. LocalDay(z, t) \in Int
    BY LocalDayFrom
  <2>2. LocalDay(z, t) < b <=> t < hi
    BY <2>1
  <2>3. Weight(z, c, t) = wc(t)
    BY <2>1, <2>2 DEF Weight, CacheDays
  <2>4. Weight(z, l, t) = wl(t) /\ Weight(z, h, t) = wh(t)
    BY DEF Weight, Rows
  <2> QED
    BY <2>3, <2>4
<1>3. \A t \in Int : /\ wl(t) + wh(t) - v(t) \in -1 .. 1 /\ wh(t) - v(t) \in -1 .. 1
                     /\ v(t) \in 0 .. 1 /\ wc(t) \in 0 .. 1 /\ wl(t) \in -1 .. 0 /\ wh(t) \in -1 .. 0
                     /\ wc(t) + wl(t) + wh(t) - v(t) \in -1 .. 1
                     /\ (from <= to \/ t >= from => wc(t) + wl(t) + wh(t) - v(t) = 0)
                     /\ (~(from > lo) => wl(t) = 0) /\ (~(to < hi) => wh(t) = 0)
  OBVIOUS
<1>4. \/ todo = <<c, l, h>> /\ from > lo /\ to < hi
      \/ todo = <<c, l>> /\ from > lo /\ ~(to < hi)
      \/ todo = <<c, h>> /\ ~(from > lo) /\ to < hi
      \/ todo = <<c>> /\ ~(from > lo) /\ ~(to < hi)
  <2> HIDE DEF c, l, h
  <2>1. CASE from > lo /\ to < hi
    <3>1. When(from > lo, l) = <<l>> /\ When(to < hi, h) = <<h>>
      BY <2>1 DEF When
    <3>2. <<c>> \o <<l>> = <<c, l>> /\ <<c, l>> \o <<h>> = <<c, l, h>>
      BY <1>1, Appended
    <3>3. todo = <<c, l, h>>
      BY <3>1, <3>2
    <3> QED
      BY <2>1, <3>3
  <2>2. CASE from > lo /\ ~(to < hi)
    <3>1. When(from > lo, l) = <<l>> /\ When(to < hi, h) = <<>>
      BY <2>2 DEF When
    <3>2. <<c>> \o <<l>> = <<c, l>> /\ <<c, l>> \o <<>> = <<c, l>>
      BY <1>1, Appended
    <3>3. todo = <<c, l>>
      BY <3>1, <3>2
    <3> QED
      BY <2>2, <3>3
  <2>3. CASE ~(from > lo) /\ to < hi
    <3>1. When(from > lo, l) = <<>> /\ When(to < hi, h) = <<h>>
      BY <2>3 DEF When
    <3>2. <<c>> \o <<h>> = <<c, h>> /\ <<c>> \o <<>> = <<c>>
      BY <1>1, Appended
    <3>3. todo = <<c, h>>
      BY <3>1, <3>2
    <3> QED
      BY <2>3, <3>3
  <2>4. CASE ~(from > lo) /\ ~(to < hi)
    <3>1. When(from > lo, l) = <<>> /\ When(to < hi, h) = <<>>
      BY <2>4 DEF When
    <3>2. <<c>> \o <<>> = <<c>>
      BY <1>1, Appended
    <3>3. todo = <<c>>
      BY <3>1, <3>2
    <3> QED
      BY <2>4, <3>3
  <2> QED
    BY <2>1, <2>2, <2>3, <2>4
<1>5. c.table = "cache" /\ l.table = "usage" /\ h.table = "usage"
  BY DEF CacheDays, Rows
<1> HIDE DEF c, l, h, q
<1>6. todo \in Seq(Statement) /\ Len(todo) <= 3
  <2>1. /\ <<c, l, h>> \in Seq(Statement) /\ Len(<<c, l, h>>) = 3
        /\ <<c, l>> \in Seq(Statement) /\ Len(<<c, l>>) = 2
        /\ <<c, h>> \in Seq(Statement) /\ Len(<<c, h>>) = 2
        /\ <<c>> \in Seq(Statement) /\ Len(<<c>>) = 1
    BY <1>1
  <2> HIDE DEF todo
  <2>2. CASE todo = <<c, l, h>>
    BY <2>1, <2>2
  <2>3. CASE todo = <<c, l>>
    BY <2>1, <2>3
  <2>4. CASE todo = <<c, h>>
    BY <2>1, <2>4
  <2>5. CASE todo = <<c>>
    BY <2>1, <2>5
  <2> QED
    BY <1>4, <2>2, <2>3, <2>4, <2>5
<1> HIDE DEF todo
<1>7. AskedFor(q, "day", from, to, todo)
  <2>1. "day" \in By
    BY DEF By
  <2>2. \A i \in DOMAIN todo : todo[i].table = "cache" => "day" = "day"
    OBVIOUS
  <2> QED
    BY <1>6, <2>1, <2>2, QueryIs DEF q
<1>8. \A t \in Int :
        \/ WeightAt(z, todo, 1, t) = wc(t) /\ WeightAt(z, todo, 2, t) = wl(t) /\ WeightAt(z, todo, 3, t) = wh(t)
        \/ WeightAt(z, todo, 1, t) = wc(t) /\ WeightAt(z, todo, 2, t) = wl(t) /\ WeightAt(z, todo, 3, t) = 0 /\ wh(t) = 0
        \/ WeightAt(z, todo, 1, t) = wc(t) /\ WeightAt(z, todo, 2, t) = wh(t) /\ WeightAt(z, todo, 3, t) = 0 /\ wl(t) = 0
        \/ /\ WeightAt(z, todo, 1, t) = wc(t) /\ WeightAt(z, todo, 2, t) = 0 /\ WeightAt(z, todo, 3, t) = 0
           /\ wl(t) = 0 /\ wh(t) = 0
  <2> TAKE t \in Int
  <2>1. /\ Weight(z, c, t) = wc(t) /\ Weight(z, l, t) = wl(t) /\ Weight(z, h, t) = wh(t)
        /\ (~(from > lo) => wl(t) = 0) /\ (~(to < hi) => wh(t) = 0)
    BY <1>2, <1>3
  <2> HIDE DEF wc, wl, wh
  <2>2. CASE todo = <<c, l, h>> /\ from > lo /\ to < hi
    BY <2>1, <2>2 DEF WeightAt
  <2>3. CASE todo = <<c, l>> /\ from > lo /\ ~(to < hi)
    BY <2>1, <2>3 DEF WeightAt
  <2>4. CASE todo = <<c, h>> /\ ~(from > lo) /\ to < hi
    BY <2>1, <2>4 DEF WeightAt
  <2>5. CASE todo = <<c>> /\ ~(from > lo) /\ ~(to < hi)
    BY <2>1, <2>5 DEF WeightAt
  <2> QED
    BY <1>4, <2>2, <2>3, <2>4, <2>5
<1>9. \A t \in Int : Asks(q, t) = v(t)
  BY <1>7 DEF Asks, AskedFor
<1>10. \A t \in Int :
        /\ Excess(z, q, t) = wc(t) + wl(t) + wh(t) - v(t)
        /\ WeightAt(z, todo, 2, t) + WeightAt(z, todo, 3, t) - Asks(q, t) \in -1 .. 1
        /\ WeightAt(z, todo, 3, t) - Asks(q, t) \in -1 .. 1
  <2> TAKE t \in Int
  <2>1. q.todo = todo
    BY <1>7 DEF AskedFor
  <2>2. /\ wl(t) + wh(t) - v(t) \in -1 .. 1 /\ wh(t) - v(t) \in -1 .. 1
        /\ v(t) \in 0 .. 1 /\ wc(t) \in 0 .. 1 /\ wl(t) \in -1 .. 0 /\ wh(t) \in -1 .. 0
    BY <1>3
  <2> HIDE DEF wc, wl, wh, v
  <2> QED
    BY <1>8, <1>9, <2>1, <2>2 DEF Excess, Remaining
<1>11. NearTruth(z, q)
  <2>1. q.todo = todo
    BY <1>7 DEF AskedFor
  <2> HIDE DEF wc, wl, wh, v
  <2> QED
    BY <1>3, <1>10, <2>1 DEF NearTruth
<1>12. \A r \in S : r.ts \in Int
  BY RowIs DEF RowsTyped
<1>13. Exact(z, S, q)
  <2> SUFFICES ASSUME NEW r \in S PROVE Excess(z, q, r.ts) = 0
    BY DEF Exact
  <2>1. r.ts \in Int /\ (from <= to \/ r.ts >= from)
    BY <1>12
  <2> HIDE DEF wc, wl, wh, v
  <2> QED
    BY <1>3, <1>10, <2>1
<1>14. Fresh(z, S, q)
  BY <1>7, <1>11, <1>13 DEF Fresh, AskedFor
<1> QED
  BY <1>14 DEF q, todo, c, l, h

LEMMA EmptyIsFresh ==
  ASSUME NEW z \in Zone, NEW S, RowsTyped(S), NEW from \in Int, NEW to \in Int, to <= from
  PROVE  Fresh(z, S, Query("day", from, to, <<>>))
<1> DEFINE q == Query("day", from, to, <<>>)
<1>1. AskedFor(q, "day", from, to, <<>>)
  <2>1. "day" \in By /\ <<>> \in Seq(Statement) /\ Len(<<>>) <= 3 /\ DOMAIN <<>> = {}
    BY DEF By
  <2> QED
    BY <2>1, QueryIs
<1> HIDE DEF q
<1>2. \A t \in Int : Asks(q, t) = 0
  BY <1>1 DEF Asks, AskedFor
<1>3. q.todo = <<>> /\ \A t, i : WeightAt(z, <<>>, i, t) = 0
  BY <1>1 DEF AskedFor, WeightAt
<1>4. \A t \in Int : Excess(z, q, t) = 0
  BY <1>2, <1>3 DEF Excess, Remaining
<1>5. NearTruth(z, q)
  BY <1>2, <1>3, <1>4 DEF NearTruth
<1>6. \A r \in S : r.ts \in Int
  BY RowIs DEF RowsTyped
<1>7. Exact(z, S, q)
  BY <1>4, <1>6 DEF Exact
<1>8. Fresh(z, S, q)
  BY <1>1, <1>5, <1>7 DEF Fresh, AskedFor
<1> QED
  BY <1>8 DEF q

\* A day starts at an instant of it, and later than the days before.
LEMMA DayStarts ==
  ASSUME NEW z \in Zone, NEW t \in Int, NEW d \in Int, d <= LocalDay(z, t)
  PROVE  DayStart(z, d) <= t /\ DayStart(z, d) <= DayStart(z, LocalDay(z, t))
<1>1. LocalDay(z, t) \in Int
  BY LocalDayFrom
<1>2. DayStart(z, d) \in Int /\ DayStart(z, LocalDay(z, t)) \in Int
  BY <1>1, DayStartIs
<1>3. t >= DayStart(z, d)
  BY DayStartIs
<1>4. LocalDay(z, DayStart(z, LocalDay(z, t))) >= LocalDay(z, t)
  BY <1>1, <1>2, DayStartIs
<1>5. LocalDay(z, DayStart(z, LocalDay(z, t))) \in Int
  BY <1>2, LocalDayFrom
<1>6. DayStart(z, LocalDay(z, t)) >= DayStart(z, d)
  BY <1>1, <1>2, <1>4, <1>5, DayStartIs
<1> QED
  BY <1>2, <1>3, <1>6

LEMMA CostBetweenIsFresh ==
  ASSUME zone \in Zone, RowsTyped(stored), NEW from \in Int, NEW to \in Int
  PROVE  Fresh(zone, stored, CostBetween(from, to))
<1> DEFINE a == LocalDay(zone, from)
           lo == DayStart(zone, a)
           toDay == LocalDay(zone, to)
           whole == to = DayStart(zone, toDay)
           b == IF whole THEN toDay ELSE toDay + 1
           hi == IF whole THEN to ELSE DayStart(zone, toDay + 1)
<1>1. CASE to <= from
  BY <1>1, EmptyIsFresh DEF CostBetween
<1>2. CASE ~(to <= from)
  <2>1. a \in Int /\ lo \in Int /\ toDay \in Int /\ lo <= from
    <3>1. a \in Int /\ toDay \in Int
      BY LocalDayFrom
    <3> QED
      BY <3>1, DayStartIs, DayStarts
  <2>2. \A t \in Int : LocalDay(zone, t) >= a <=> t >= lo
    BY <2>1, DayStartIs
  <2>3. b \in Int /\ hi \in Int /\ to <= hi /\ (whole <=> ~(to < hi))
        /\ \A t \in Int : LocalDay(zone, t) >= b <=> t >= hi
    <3>1. CASE whole
      BY <2>1, <3>1, DayStartIs
    <3>2. CASE ~whole
      <4>1. toDay + 1 \in Int /\ ~(toDay >= toDay + 1)
        BY <2>1
      <4>2. DayStart(zone, toDay + 1) \in Int /\ ~(to >= DayStart(zone, toDay + 1))
        BY <4>1, DayStartIs
      <4> QED
        BY <3>2, <4>1, <4>2, DayStartIs
    <3> QED
      BY <3>1, <3>2
  <2>4. CostBetween(from, to) =
          Query("day", from, to, <<CacheDays(a, b)>> \o When(from > lo, Rows(lo, from, -1))
                                                     \o When(to < hi, Rows(to, hi, -1)))
    <3>1. CASE whole
      <4>1. When(~whole, Rows(to, DayStart(zone, toDay + 1), -1)) = When(to < hi, Rows(to, hi, -1))
        BY <2>3, <3>1 DEF When
      <4> QED
        BY <1>2, <3>1, <4>1 DEF CostBetween
    <3>2. CASE ~whole
      <4>1. When(~whole, Rows(to, DayStart(zone, toDay + 1), -1)) = When(to < hi, Rows(to, hi, -1))
        BY <2>3, <3>2 DEF When
      <4> QED
        BY <1>2, <3>2, <4>1 DEF CostBetween
    <3> QED
      BY <3>1, <3>2
  <2>5. from <= to
    BY <1>2
  <2> HIDE DEF a, lo, b, hi, toDay
  <2> QED
    BY <2>1, <2>2, <2>3, <2>4, <2>5, CachedIsFresh
<1> QED
  BY <1>1, <1>2

LEMMA DailyCostsBetweenIsFresh ==
  ASSUME zone \in Zone, RowsTyped(stored), NEW from \in Int, NEW to \in Int,
         from <= to \/ ((\E d \in Int : from = DayStart(zone, d)) /\ \A r \in stored : r.ts >= from)
  PROVE  Fresh(zone, stored, DailyCostsBetween(from, to))
<1> DEFINE a == LocalDay(zone, from)
           lo == DayStart(zone, a)
           b == LocalDay(zone, to) + 1
           hi == DayStart(zone, b)
<1>1. a \in Int /\ lo \in Int /\ b \in Int /\ hi \in Int /\ LocalDay(zone, to) \in Int
  <2>1. a \in Int /\ b \in Int /\ LocalDay(zone, to) \in Int
    BY LocalDayFrom
  <2> QED
    BY <2>1, DayStartIs
<1>2. lo <= from
  BY <1>1, DayStarts
<1>3. to <= hi
  <2>1. ~(LocalDay(zone, to) >= b)
    BY <1>1
  <2>2. ~(to >= hi)
    BY <1>1, <2>1, DayStartIs
  <2> QED
    BY <1>1, <2>2
<1>4. /\ \A t \in Int : LocalDay(zone, t) >= a <=> t >= lo
      /\ \A t \in Int : LocalDay(zone, t) >= b <=> t >= hi
  BY <1>1, DayStartIs
<1>5. ASSUME ~(from <= to) PROVE hi <= lo /\ \A r \in stored : r.ts >= from
  <2>1. PICK d \in Int : from = DayStart(zone, d)
    BY <1>5
  <2>2. ~(LocalDay(zone, to) >= d)
    BY <1>5, <2>1, DayStartIs
  <2>3. a >= d
    BY <2>1, DayStartIs
  <2>4. b <= a
    BY <1>1, <2>2, <2>3
  <2> QED
    BY <1>5, <2>4, <1>1, DayStarts
<1>6. DailyCostsBetween(from, to) =
        Query("day", from, to, <<CacheDays(a, b)>> \o When(from > lo, Rows(lo, from, -1))
                                                   \o When(to < hi, Rows(to, hi, -1)))
  BY DEF DailyCostsBetween
<1> HIDE DEF a, lo, b, hi
<1> QED
  BY <1>1, <1>2, <1>3, <1>4, <1>5, <1>6, CachedIsFresh

\* Where a range starts: a midnight no later than now, unless all rows are.
RangeFrom(from) ==
  /\ from \in Int /\ \E d \in Int : from = DayStart(zone, d)
  /\ from <= instant \/ \A r \in stored : r.ts >= from

LEMMA EarlierDay ==
  ASSUME zone \in Zone, instant \in Int, NEW d \in Int, d <= LocalToday
  PROVE  RangeFrom(DayStart(zone, d)) /\ DayStart(zone, d) <= instant
BY DayStartIs, DayStarts DEF RangeFrom, LocalToday

LEMMA RangeStartIs ==
  ASSUME zone \in Zone, instant \in Int, RowsTyped(stored)
  PROVE  /\ \A range \in PageRange : RangeFrom(RangeStart(range))
         /\ ThisWeek \in Int /\ RecentStart \in Int /\ LocalToday \in Int
         /\ DayStart(zone, LocalToday) \in Int
<1>1. LocalToday \in Int
  BY LocalDayFrom DEF LocalToday
<1>2. WeekStart(LocalToday, 1) \in Int /\ WeekStart(LocalToday, 1) <= LocalToday
  <2>1. (LocalToday - 1 + WeekLen) % WeekLen \in 0 .. WeekLen - 1
    BY <1>1, LengthsPositive
  <2> QED
    BY <1>1, <2>1, LengthsPositive DEF WeekStart
<1>3. MonthStart(LocalToday) \in Int /\ MonthStart(LocalToday) <= LocalToday
  <2>1. LocalToday % MonthLen \in 0 .. MonthLen - 1
    BY <1>1, LengthsPositive
  <2> QED
    BY <1>1, <2>1, LengthsPositive DEF MonthStart
<1>4. LocalToday - (RecentDays - 1) \in Int /\ LocalToday - (RecentDays - 1) <= LocalToday
  BY <1>1, LengthsPositive
<1>5. RangeFrom(ThisWeek) /\ RangeFrom(RecentStart) /\ RangeFrom(DayStart(zone, MonthStart(LocalToday)))
      /\ RangeFrom(DayStart(zone, LocalToday))
  BY <1>1, <1>2, <1>3, <1>4, EarlierDay DEF ThisWeek, RecentStart
<1>6. ASSUME stored # {} PROVE RangeFrom(FirstTokenDate)
  <2> DEFINE T == {r.ts : r \in stored}
  <2>1. T \in SUBSET Int /\ \A c \in T : 0 <= c
    BY RowIs DEF RowsTyped
  <2>2. T # {}
    BY <1>6
  <2> HIDE DEF T
  <2>3. Min(T) \in T /\ \A c \in T : Min(T) <= c
    <3>1. PICK b \in T : TRUE
      BY <2>2
    <3>2. \A low \in Int : (\A c \in T : low <= c) => Min(T) \in T /\ \A c \in T : Min(T) <= c
      BY <2>1, <3>1, LeastInt
    <3> QED
      BY <2>1, <3>2
  <2>4. Min(T) \in Int /\ LocalDay(zone, Min(T)) \in Int
    BY <2>1, <2>3, LocalDayFrom
  <2>5. DayStart(zone, LocalDay(zone, Min(T))) \in Int /\ DayStart(zone, LocalDay(zone, Min(T))) <= Min(T)
    BY <2>4, DayStartIs, DayStarts
  <2>6. FirstTokenDate = DayStart(zone, LocalDay(zone, Min(T)))
    BY DEF FirstTokenDate, T
  <2>7. \A r \in stored : r.ts >= FirstTokenDate
    <3> TAKE r \in stored
    <3>1. r.ts \in T
      BY DEF T
    <3>2. Min(T) <= r.ts /\ r.ts \in Int
      BY <2>1, <2>3, <3>1, Zenon
    <3> DEFINE m == Min(T)
               n == r.ts
               s == DayStart(zone, LocalDay(zone, Min(T)))
    <3>3. m <= n /\ n \in Int /\ m \in Int /\ s \in Int /\ s <= m
      BY <2>4, <2>5, <3>2
    <3>4. n >= s
      <4> HIDE DEF m, n, s
      <4> QED
        BY <3>3
    <3> QED
      BY <2>6, <3>4
  <2> QED
    BY <2>4, <2>5, <2>6, <2>7 DEF RangeFrom
<1>7. ASSUME NEW range \in PageRange PROVE RangeFrom(RangeStart(range))
  <2>1. CASE range = "today"
    BY <1>5, <2>1 DEF RangeStart
  <2>2. CASE range = "week"
    BY <1>5, <2>2 DEF RangeStart
  <2>3. CASE range = "month"
    BY <1>5, <2>3 DEF RangeStart
  <2>4. CASE range = "all"
    BY <1>5, <1>6, <2>4 DEF RangeStart
  <2>5. CASE range = "recent"
    BY <1>5, <2>5 DEF RangeStart
  <2> QED
    BY <2>1, <2>2, <2>3, <2>4, <2>5 DEF PageRange
<1> QED
  BY <1>1, <1>5, <1>7 DEF RangeFrom

-----------------------------------------------------------------------------
(* What the daemon and the dashboard do to it.                             *)

\* No two rows have both a time and a copy in common.
Apart(S) == \A r, p \in S : r.ts = p.ts /\ r.copy = p.copy => r = p
DayTotal(z, S, d) == SumOn([r \in S |-> IF LocalDay(z, r.ts) = d THEN r.cost ELSE 0], S)
\* The cache as it should be: the days of the rows at least, each added up.
CacheSums(z, S, cache) ==
  /\ \A r \in S : LocalDay(z, r.ts) \in DOMAIN cache
  /\ \A d \in DOMAIN cache : cache[d] = DayTotal(z, S, d)
CacheTyped(cache) ==
  DOMAIN cache \subseteq Day /\ \A d \in DOMAIN cache : cache[d] \in Int
PageTyped == page \in Seq(Asked) /\ \A i \in DOMAIN page : QueryTyped(page[i])
PageNear ==
  \A i \in DOMAIN page : NearTruth(zone, page[i]) /\ Gaps(zone, stored, page[i]) <= written

CostsInv ==
  /\ RowsTyped(stored) /\ Apart(stored)
  /\ CacheTyped(dayCost) /\ (~drifted => CacheSums(zone, stored, dayCost))
  /\ zone \in Zone /\ instant \in 0 .. LastInstant /\ {drifted, doubt} \subseteq BOOLEAN
  /\ PageTyped /\ (~doubt => PageNear)
  /\ page # <<>> /\ ~doubt => ~drifted
  /\ page = <<>> => written = 0
  /\ written \in Nat /\ writes \in 0 .. MaxWrites /\ pages \in 0 .. MaxPages

FreshPage(queries) ==
  /\ queries \in Seq(Asked) /\ queries # <<>>
  /\ \A i \in DOMAIN queries : Fresh(zone, stored, queries[i])

LEMMA PagesAreFresh ==
  ASSUME zone \in Zone, instant \in Int, RowsTyped(stored)
  PROVE  /\ \A range \in PageRange :
              /\ FreshPage(handleCosts(RangeStart(range))) /\ FreshPage(handleAnalytics(RangeStart(range)))
              /\ FreshPage(handleExport(RangeStart(range))) /\ FreshPage(handleExportReport(RangeStart(range)))
         /\ FreshPage(handleStats)
<1> DEFINE F == {q \in Asked : Fresh(zone, stored, q)}
<1>1. \A q : Fresh(zone, stored, q) => q \in F
  BY DEF Fresh, QueryTyped
<1>2. \A queries \in Seq(F) : queries # <<>> => FreshPage(queries)
  BY DEF FreshPage
<1>3. \A from, to \in Int : /\ CostBetween(from, to) \in F /\ ModelCosts(from, to) \in F
                            /\ SessionCosts(from, to) \in F
  <2> TAKE from, to \in Int
  <2>1. "model" \in By /\ "session" \in By
    BY DEF By
  <2> QED
    BY <1>1, <2>1, CostBetweenIsFresh, WindowIsFresh DEF ModelCosts, SessionCosts
<1>4. \A from \in Int : DailyCosts(from) \in F
  <2> TAKE from \in Int
  <2>1. "day" \in By /\ LastInstant + DayLen \in Int
    BY LengthsPositive DEF By
  <2> QED
    BY <1>1, <2>1, WindowIsFresh DEF DailyCosts
<1>5. ASSUME NEW range \in PageRange
      PROVE  RangeStart(range) \in Int /\ DailyCostsBetween(RangeStart(range), instant) \in F
  <2>1. RangeFrom(RangeStart(range))
    BY <1>5, RangeStartIs
  <2>2. Fresh(zone, stored, DailyCostsBetween(RangeStart(range), instant))
    <3> DEFINE from == RangeStart(range)
    <3>1. from \in Int /\ (from <= instant \/ ((\E d \in Int : from = DayStart(zone, d)) /\ \A r \in stored : r.ts >= from))
      BY <2>1 DEF RangeFrom
    <3> HIDE DEF from
    <3>2. Fresh(zone, stored, DailyCostsBetween(from, instant))
      BY <3>1, DailyCostsBetweenIsFresh
    <3> QED
      BY <3>2 DEF from
  <2> QED
    BY <1>1, <2>1, <2>2 DEF RangeFrom
<1> HIDE DEF F
<1>6. ASSUME NEW range \in PageRange
      PROVE  /\ FreshPage(handleCosts(RangeStart(range))) /\ FreshPage(handleAnalytics(RangeStart(range)))
             /\ FreshPage(handleExport(RangeStart(range))) /\ FreshPage(handleExportReport(RangeStart(range)))
  <2> DEFINE from == RangeStart(range)
             before == from - (instant - from)
  <2>1. from \in Int /\ before \in Int /\ DailyCostsBetween(from, instant) \in F
    BY <1>5
  <2>2. handleCosts(from) \in Seq(F) /\ handleCosts(from) # <<>>
    <3>1. CostBetween(from, instant) \in F /\ ModelCosts(from, instant) \in F /\ CostBetween(before, from) \in F
      BY <1>3, <2>1
    <3>2. handleCosts(from) = <<CostBetween(from, instant), DailyCostsBetween(from, instant),
                                ModelCosts(from, instant), CostBetween(before, from)>>
      BY DEF handleCosts
    <3> QED
      BY <2>1, <3>1, <3>2
  <2>3. handleAnalytics(from) \in Seq(F) /\ handleAnalytics(from) # <<>>
    <3>1. SessionCosts(from, instant) \in F /\ ModelCosts(from, instant) \in F
          /\ SessionCosts(before, from) \in F /\ ModelCosts(before, from) \in F
      BY <1>3, <2>1
    <3>2. handleAnalytics(from) = <<SessionCosts(from, instant), ModelCosts(from, instant),
                                    SessionCosts(before, from), ModelCosts(before, from)>>
      BY DEF handleAnalytics
    <3> QED
      BY <3>1, <3>2
  <2>4. handleExport(from) \in Seq(F) /\ handleExport(from) # <<>>
    BY <1>3, <2>1 DEF handleExport
  <2>5. handleExportReport(from) \in Seq(F) /\ handleExportReport(from) # <<>>
    BY <1>3, <2>1 DEF handleExportReport
  <2> HIDE DEF from
  <2>6. FreshPage(handleCosts(from)) /\ FreshPage(handleAnalytics(from))
        /\ FreshPage(handleExport(from)) /\ FreshPage(handleExportReport(from))
    BY <1>2, <2>2, <2>3, <2>4, <2>5
  <2> QED
    BY <2>6 DEF from
<1>7. FreshPage(handleStats)
  <2>1. /\ CostBetween(DayStart(zone, LocalToday), instant) \in F /\ CostBetween(ThisWeek, instant) \in F
        /\ DailyCosts(RecentStart) \in F /\ SessionCosts(ThisWeek, instant) \in F
    BY <1>3, <1>4, RangeStartIs
  <2>2. handleStats \in Seq(F) /\ handleStats # <<>>
    BY <2>1 DEF handleStats
  <2> QED
    BY <1>2, <2>2
<1> QED
  BY <1>6, <1>7

CountedRows(z, S, s, q, x) == SumOn([r \in S |-> Weight(z, s, r.ts) * Share(z, q, r, x)], S)

LEMMA WeightIs ==
  ASSUME NEW z \in Zone, NEW s \in Statement, NEW t \in Int
  PROVE  Weight(z, s, t) \in -1 .. 1
BY DEF Weight, Statement

\* A statement that reads the cache tells the costs of the days it asks for.
LEMMA CacheAnswers ==
  ASSUME zone \in Zone, RowsTyped(stored), CacheTyped(dayCost),
         NEW s \in Statement, s.table = "cache", NEW q, QueryTyped(q), q.by = "day", NEW x \in Keys("day")
  PROVE  /\ Answer(s, "day")[x] \in Int
         /\ CacheSums(zone, stored, dayCost) => Answer(s, "day")[x] = CountedRows(zone, stored, s, q, x)
<1> DEFINE f == [r \in stored |-> Weight(zone, s, r.ts) * Share(zone, q, r, x)]
           g == [r \in stored |-> IF LocalDay(zone, r.ts) = x THEN r.cost ELSE 0]
<1>1. x \in Day
  BY DEF Keys
<1>2. Answer(s, "day")[x] = IF x \in DOMAIN dayCost /\ s.from <= x /\ x < s.to THEN dayCost[x] ELSE 0
  BY <1>1 DEF Answer
<1>3. Answer(s, "day")[x] \in Int
  BY <1>2 DEF CacheTyped
<1>4. ASSUME NEW r \in stored
      PROVE  /\ f[r] = (IF s.from <= LocalDay(zone, r.ts) /\ LocalDay(zone, r.ts) < s.to THEN 1 ELSE 0) * g[r]
             /\ g[r] \in Nat /\ f[r] \in Int
  <2>1. r.cost \in Nat
    BY RowIs DEF RowsTyped
  <2>2. Share(zone, q, r, x) = g[r]
    BY DEF Share, KeyIn
  <2>3. Weight(zone, s, r.ts) = IF s.from <= LocalDay(zone, r.ts) /\ LocalDay(zone, r.ts) < s.to THEN 1 ELSE 0
    BY DEF Weight
  <2>4. g[r] \in Nat
    BY <2>1
  <2>5. f[r] = Weight(zone, s, r.ts) * Share(zone, q, r, x)
    OBVIOUS
  <2> HIDE DEF f, g
  <2> QED
    BY <2>2, <2>3, <2>4, <2>5
<1>5. ASSUME CacheSums(zone, stored, dayCost) PROVE Answer(s, "day")[x] = SumOn(f, stored)
  <2>1. CASE x \in DOMAIN dayCost /\ s.from <= x /\ x < s.to
    <3>1. ASSUME NEW r \in stored PROVE f[r] = g[r]
      BY <1>4, <2>1
    <3>2. dayCost[x] = SumOn(g, stored)
      BY <1>5, <2>1 DEF CacheSums, DayTotal
    <3> HIDE DEF f, g
    <3>3. SumOn(f, stored) = SumOn(g, stored)
      BY <3>1, SumSame DEF RowsTyped
    <3> QED
      BY <1>2, <2>1, <3>2, <3>3
  <2>2. CASE ~(x \in DOMAIN dayCost /\ s.from <= x /\ x < s.to)
    <3>1. ASSUME NEW r \in stored PROVE f[r] = 0
      <4>1. CASE LocalDay(zone, r.ts) = x
        <5>1. x \in DOMAIN dayCost
          BY <1>5, <4>1 DEF CacheSums
        <5>2. g[r] \in Nat /\ f[r] = 0 * g[r]
          BY <1>4, <2>2, <4>1, <5>1
        <5> HIDE DEF f, g
        <5> QED
          BY <5>2
      <4>2. CASE LocalDay(zone, r.ts) # x
        BY <1>4, <4>2
      <4> QED
        BY <4>1, <4>2
    <3> HIDE DEF f, g
    <3>2. SumOn(f, stored) = 0
      BY <3>1, SumZero DEF RowsTyped
    <3> QED
      BY <1>2, <2>2, <3>2
  <2> QED
    BY <2>1, <2>2
<1> QED
  BY <1>3, <1>5 DEF CountedRows

\* One that reads the rows, by what they are grouped by.
LEMMA RowsAnswer ==
  ASSUME zone \in Zone, RowsTyped(stored),
         NEW s \in Statement, s.table # "cache", NEW q, QueryTyped(q), NEW x \in Keys(q.by)
  PROVE  Answer(s, q.by)[x] \in Int /\ Answer(s, q.by)[x] = CountedRows(zone, stored, s, q, x)
<1> DEFINE f == [r \in stored |-> Weight(zone, s, r.ts) * Share(zone, q, r, x)]
           W == Between(s.from, s.to)
           J == IF q.by = "session" THEN Joined(W) ELSE W
           F == {r \in J : KeyOf(r, q.by) = x}
           g == [r \in F |-> r.cost]
           h == [r \in stored |-> IF r \in F THEN r.cost ELSE 0]
           c == s.sign
<1>1. F \in SUBSET stored /\ IsFiniteSet(F)
  <2>1. F \in SUBSET stored
    BY DEF Between, Joined
  <2> QED
    BY <2>1, FS_Subset DEF RowsTyped
<1>2. Answer(s, q.by)[x] = c * SumOn(g, F)
  <2> DEFINE R == W
             sums == Grouped(J, q.by)
  <2>1. sums[x] = SumOn(g, F)
    BY DEF Grouped, Cost
  <2>2. Answer(s, q.by) = [y \in Keys(q.by) |-> c * sums[y]]
    BY DEF Answer
  <2> HIDE DEF sums, c
  <2> QED
    BY <2>1, <2>2
<1>3. c \in {-1, 1}
  BY DEF Statement
<1>4. ASSUME NEW r \in stored PROVE h[r] \in Nat /\ f[r] = c * h[r] /\ f[r] \in Int
  <2>1. r.cost \in Nat
    BY RowIs DEF RowsTyped
  <2>2. Weight(zone, s, r.ts) = IF s.from <= r.ts /\ r.ts < s.to THEN c ELSE 0
    BY DEF Weight
  <2>3. KeyIn(zone, r, q.by) = KeyOf(r, q.by)
    BY DEF KeyIn, KeyOf
  <2>4. r \in F <=> s.from <= r.ts /\ r.ts < s.to /\ KeyOf(r, q.by) = x /\ (q.by = "session" => r.sess \in Listed)
    BY DEF Between, Joined
  <2>5. f[r] = Weight(zone, s, r.ts) * Share(zone, q, r, x) /\ h[r] = IF r \in F THEN r.cost ELSE 0
    OBVIOUS
  <2> HIDE DEF f, h, F, c
  <2>6. CASE r \in F
    BY <1>3, <2>1, <2>2, <2>3, <2>4, <2>5, <2>6 DEF Share
  <2>7. CASE r \notin F /\ Share(zone, q, r, x) = 0
    <3>1. Weight(zone, s, r.ts) \in Int
      BY <1>3, <2>2
    <3> QED
      BY <1>3, <2>5, <2>7, <3>1
  <2>8. CASE r \notin F /\ Share(zone, q, r, x) # 0
    <3>1. Weight(zone, s, r.ts) = 0 /\ Share(zone, q, r, x) \in Nat
      BY <2>1, <2>2, <2>3, <2>4, <2>8 DEF Share
    <3> QED
      BY <1>3, <2>5, <2>8, <3>1
  <2> QED
    BY <2>6, <2>7, <2>8
<1>5. \A r \in F : g[r] = h[r]
  BY <1>1
<1>6. \A r \in stored \ F : h[r] = 0
  OBVIOUS
<1> HIDE DEF f, g, h, F, c
<1>7. SumOn(h, stored) = SumOn(h, F)
  <2>1. \A r \in stored : h[r] \in Int
    BY <1>4
  <2> QED
    BY <1>1, <1>6, <2>1, SumSupport DEF RowsTyped
<1>8. SumOn(h, F) = SumOn(g, F)
  BY <1>1, <1>5, SumSame
<1>9. SumOn(f, stored) = c * SumOn(h, stored)
  <2>1. \A r \in stored : h[r] \in Int /\ f[r] = c * h[r]
    BY <1>4
  <2>2. c \in {-1, 0, 1}
    BY <1>3
  <2> QED
    BY <2>1, <2>2, SumTimes DEF RowsTyped
<1>10. SumOn(f, stored) \in Int
  BY <1>4, SumInt DEF RowsTyped
<1> QED
  BY <1>2, <1>7, <1>8, <1>9, <1>10 DEF CountedRows, f

\* What is left of a query when its next statement has run.
Ran(q, told) == [q EXCEPT !.todo = Tail(@), !.got = [x \in DOMAIN @ |-> @[x] + told[x]]]

LEMMA RanIs ==
  ASSUME NEW z \in Zone, NEW q, QueryTyped(q), q.todo # <<>>, NEW told, \A x \in Keys(q.by) : told[x] \in Int
  PROVE  /\ QueryTyped(Ran(q, told)) /\ Ran(q, told).by = q.by
         /\ \A x \in Keys(q.by) : Ran(q, told).got[x] = q.got[x] + told[x]
         /\ Head(q.todo) \in Statement /\ (Head(q.todo).table = "cache" => q.by = "day")
         /\ \A t \in Int : Excess(z, q, t) = Excess(z, Ran(q, told), t) + Weight(z, Head(q.todo), t)
         /\ NearTruth(z, q) => NearTruth(z, Ran(q, told))
<1> DEFINE p == Ran(q, told)
           n == Len(q.todo)
           s == Head(q.todo)
<1>1. /\ q.todo \in Seq(Statement) /\ q.by \in By /\ q.from \in Int /\ q.to \in Int
      /\ q.got \in [Keys(q.by) -> Int] /\ n \in 1 .. 3
  <2>1. q.todo \in Seq(Statement) /\ q.by \in By /\ q.from \in Int /\ q.to \in Int
    BY DEF QueryTyped, Asked
  <2>2. q.got \in [Keys(q.by) -> Int] /\ Len(q.todo) <= 3
    BY DEF QueryTyped
  <2>3. Len(q.todo) \in Nat /\ Len(q.todo) # 0
    BY <2>1, EmptySeq
  <2>4. n \in Nat /\ n # 0 /\ n <= 3
    BY <2>2, <2>3
  <2> HIDE DEF n
  <2>5. n \in 1 .. 3
    BY <2>4
  <2> QED
    BY <2>1, <2>2, <2>5
<1>2. p = [q EXCEPT !.todo = Tail(q.todo), !.got = [x \in Keys(q.by) |-> q.got[x] + told[x]]]
  BY <1>1 DEF Ran
<1>3. /\ p = [by |-> q.by, from |-> q.from, to |-> q.to, todo |-> Tail(q.todo),
              got |-> [x \in Keys(q.by) |-> q.got[x] + told[x]]]
  <2>1. q = [by |-> q.by, from |-> q.from, to |-> q.to, todo |-> q.todo, got |-> q.got]
    BY DEF QueryTyped, Asked
  <2> QED
    BY <1>2, <2>1
<1>4. [x \in Keys(q.by) |-> q.got[x] + told[x]] \in [Keys(q.by) -> Int]
  BY <1>1
<1>5. /\ Tail(q.todo) \in Seq(Statement) /\ Len(Tail(q.todo)) = n - 1
      /\ \A i \in 1 .. n - 1 : Tail(q.todo)[i] = q.todo[i + 1]
      /\ DOMAIN Tail(q.todo) = 1 .. n - 1 /\ DOMAIN q.todo = 1 .. n /\ s = q.todo[1] /\ s \in Statement
  BY <1>1
<1> HIDE DEF p, s
<1>6. QueryTyped(p) /\ p.by = q.by /\ p.from = q.from /\ p.to = q.to /\ p.todo = Tail(q.todo)
  <2>1. p.by = q.by /\ p.from = q.from /\ p.to = q.to /\ p.todo = Tail(q.todo)
        /\ p.got = [x \in Keys(q.by) |-> q.got[x] + told[x]]
    BY <1>3
  <2>2. p.got \in Told
    BY <1>1, <1>4, <2>1 DEF Told
  <2>3. p \in Asked
    BY <1>1, <1>3, <1>5, <2>1, <2>2 DEF Asked
  <2>4. \A i \in DOMAIN p.todo : p.todo[i].table = "cache" => p.by = "day"
    <3> TAKE i \in DOMAIN p.todo
    <3>1. i \in 1 .. n - 1 /\ i + 1 \in DOMAIN q.todo /\ p.todo[i] = q.todo[i + 1]
      BY <1>1, <1>5, <2>1
    <3> QED
      BY <2>1, <3>1 DEF QueryTyped
  <2> QED
    BY <1>1, <1>4, <1>5, <2>1, <2>3, <2>4 DEF QueryTyped
<1>7. \A x \in Keys(q.by) : p.got[x] = q.got[x] + told[x]
  BY <1>3
<1>8. s.table = "cache" => q.by = "day"
  BY <1>1, <1>5 DEF QueryTyped
<1>9. ASSUME NEW t \in Int
      PROVE  /\ WeightAt(z, q.todo, 1, t) = Weight(z, s, t)
             /\ WeightAt(z, p.todo, 1, t) = WeightAt(z, q.todo, 2, t)
             /\ WeightAt(z, p.todo, 2, t) = WeightAt(z, q.todo, 3, t)
             /\ WeightAt(z, p.todo, 3, t) = 0
             /\ Asks(p, t) = Asks(q, t) /\ Asks(q, t) \in 0 .. 1
             /\ WeightAt(z, q.todo, 1, t) \in Int /\ WeightAt(z, q.todo, 2, t) \in Int
             /\ WeightAt(z, q.todo, 3, t) \in Int
  <2>1. \A i \in 1 .. 3 : WeightAt(z, q.todo, i, t) \in Int
    BY <1>1, <1>5, WeightIs DEF WeightAt
  <2>2. Asks(p, t) = Asks(q, t) /\ Asks(q, t) \in 0 .. 1
    BY <1>6 DEF Asks
  <2>3. WeightAt(z, q.todo, 1, t) = Weight(z, s, t)
    BY <1>1, <1>5 DEF WeightAt
  <2>4. WeightAt(z, p.todo, 3, t) = 0
    BY <1>1, <1>5, <1>6 DEF WeightAt
  <2>5. ASSUME NEW i \in 1 .. 2 PROVE WeightAt(z, p.todo, i, t) = WeightAt(z, q.todo, i + 1, t)
    <3>1. i \in DOMAIN p.todo <=> i + 1 \in DOMAIN q.todo
      BY <1>1, <1>5, <1>6
    <3>2. i \in DOMAIN p.todo => p.todo[i] = q.todo[i + 1]
      BY <1>5, <1>6
    <3> QED
      BY <3>1, <3>2 DEF WeightAt
  <2>6. WeightAt(z, p.todo, 1, t) = WeightAt(z, q.todo, 1 + 1, t) /\ WeightAt(z, p.todo, 2, t) = WeightAt(z, q.todo, 2 + 1, t)
    BY <2>5
  <2>7. 1 + 1 = 2 /\ 2 + 1 = 3
    OBVIOUS
  <2> QED
    BY <2>1, <2>2, <2>3, <2>4, <2>6, <2>7
<1>10. ASSUME NEW t \in Int
       PROVE  /\ Excess(z, q, t) = Excess(z, p, t) + Weight(z, s, t)
              /\ Excess(z, p, t) = WeightAt(z, q.todo, 2, t) + WeightAt(z, q.todo, 3, t) - Asks(q, t)
  <2> DEFINE a == WeightAt(z, q.todo, 1, t)
             b == WeightAt(z, q.todo, 2, t)
             c == WeightAt(z, q.todo, 3, t)
             d == Asks(q, t)
  <2>1. a \in Int /\ b \in Int /\ c \in Int /\ d \in Int
    BY <1>9
  <2>2. Excess(z, q, t) = (a + b + c) - d
    BY DEF Excess, Remaining
  <2>3. Excess(z, p, t) = (b + c + 0) - d
    BY <1>9 DEF Excess, Remaining
  <2>4. Weight(z, s, t) = a
    BY <1>9
  <2> HIDE DEF a, b, c, d
  <2>5. Excess(z, p, t) = b + c - d /\ Excess(z, q, t) = Excess(z, p, t) + Weight(z, s, t)
    BY <2>1, <2>2, <2>3, <2>4
  <2> QED
    BY <2>5 DEF b, c, d
<1>11. ASSUME NearTruth(z, q) PROVE NearTruth(z, p)
  <2> SUFFICES ASSUME NEW t \in Int
               PROVE  /\ Excess(z, p, t) \in -1 .. 1
                      /\ WeightAt(z, p.todo, 2, t) + WeightAt(z, p.todo, 3, t) - Asks(p, t) \in -1 .. 1
                      /\ WeightAt(z, p.todo, 3, t) - Asks(p, t) \in -1 .. 1
    BY DEF NearTruth
  <2>1. /\ WeightAt(z, q.todo, 2, t) + WeightAt(z, q.todo, 3, t) - Asks(q, t) \in -1 .. 1
        /\ WeightAt(z, q.todo, 3, t) - Asks(q, t) \in -1 .. 1
    BY <1>11 DEF NearTruth
  <2>2. 0 - Asks(q, t) \in -1 .. 1
    <3>1. Asks(q, t) \in 0 .. 1
      BY <1>9
    <3> HIDE DEF p, s
    <3> QED
      BY <3>1
  <2>3. /\ WeightAt(z, p.todo, 2, t) = WeightAt(z, q.todo, 3, t) /\ WeightAt(z, p.todo, 3, t) = 0
        /\ Asks(p, t) = Asks(q, t)
    BY <1>9
  <2>4. Excess(z, p, t) = WeightAt(z, q.todo, 2, t) + WeightAt(z, q.todo, 3, t) - Asks(q, t)
    BY <1>10
  <2>5. WeightAt(z, q.todo, 3, t) \in Int /\ Asks(q, t) \in Int
    BY <1>9
  <2>6. WeightAt(z, p.todo, 2, t) + WeightAt(z, p.todo, 3, t) - Asks(p, t)
          = WeightAt(z, q.todo, 3, t) - Asks(q, t)
    BY <2>3, <2>5
  <2>7. WeightAt(z, p.todo, 3, t) - Asks(p, t) = 0 - Asks(q, t)
    BY <2>3
  <2> QED
    BY <2>1, <2>2, <2>4, <2>6, <2>7
<1> QED
  BY <1>5, <1>6, <1>7, <1>8, <1>10, <1>11 DEF p, s

LEMMA AnswerIs ==
  ASSUME zone \in Zone, RowsTyped(stored), CacheTyped(dayCost), NEW q, QueryTyped(q), q.todo # <<>>
  PROVE  \A x \in Keys(q.by) :
           /\ Answer(Head(q.todo), q.by)[x] \in Int
           /\ CacheSums(zone, stored, dayCost) =>
                Answer(Head(q.todo), q.by)[x] = CountedRows(zone, stored, Head(q.todo), q, x)
<1> DEFINE s == Head(q.todo)
<1>1. s \in Statement /\ (s.table = "cache" => q.by = "day")
  <2> DEFINE told == [x \in Keys(q.by) |-> 0]
  <2>1. \A x \in Keys(q.by) : told[x] \in Int
    OBVIOUS
  <2> HIDE DEF told
  <2> QED
    BY <2>1, RanIs
<1> HIDE DEF s
<1> SUFFICES ASSUME NEW x \in Keys(q.by)
             PROVE  /\ Answer(s, q.by)[x] \in Int
                    /\ CacheSums(zone, stored, dayCost) => Answer(s, q.by)[x] = CountedRows(zone, stored, s, q, x)
  BY DEF s
<1>2. CASE s.table = "cache"
  <2>1. q.by = "day" /\ x \in Keys("day")
    BY <1>1, <1>2
  <2>2. /\ Answer(s, "day")[x] \in Int
        /\ CacheSums(zone, stored, dayCost) => Answer(s, "day")[x] = CountedRows(zone, stored, s, q, x)
    BY <1>1, <1>2, <2>1, CacheAnswers
  <2> QED
    BY <2>1, <2>2
<1>3. CASE s.table # "cache"
  BY <1>1, <1>3, RowsAnswer
<1> QED
  BY <1>2, <1>3

\* A statement that runs takes a page no further from the rows.
LEMMA StatementsKeepGaps ==
  ASSUME zone \in Zone, RowsTyped(stored), CacheTyped(dayCost), CacheSums(zone, stored, dayCost),
         NEW q, QueryTyped(q), q.todo # <<>>, NearTruth(zone, q)
  PROVE  Gaps(zone, stored, Ran(q, Answer(Head(q.todo), q.by))) = Gaps(zone, stored, q)
<1> DEFINE told == Answer(Head(q.todo), q.by)
           s == Head(q.todo)
           p == Ran(q, told)
<1>1. \A x \in Keys(q.by) : told[x] \in Int /\ told[x] = CountedRows(zone, stored, s, q, x)
  BY AnswerIs
<1> HIDE DEF told
<1>2. /\ QueryTyped(p) /\ p.by = q.by /\ NearTruth(zone, p) /\ s \in Statement
      /\ \A x \in Keys(q.by) : p.got[x] = q.got[x] + told[x]
      /\ \A t \in Int : Excess(zone, q, t) = Excess(zone, p, t) + Weight(zone, s, t)
  BY <1>1, RanIs
<1> HIDE DEF p, s
<1>3. ASSUME NEW x \in Keys(q.by) PROVE Gap(zone, stored, p, x) = Gap(zone, stored, q, x)
  <2> DEFINE f == [r \in stored |-> Extra(zone, q, r, x)]
             g == [r \in stored |-> Extra(zone, p, r, x)]
             w == [r \in stored |-> Weight(zone, s, r.ts) * Share(zone, q, r, x)]
  <2>1. ASSUME NEW r \in stored PROVE f[r] \in Int /\ g[r] \in Int /\ w[r] \in Int /\ f[r] = g[r] + w[r]
    <3>1. /\ Share(zone, q, r, x) \in Nat /\ Excess(zone, q, r.ts) \in -1 .. 1 /\ f[r] \in Int
          /\ Excess(zone, p, r.ts) \in -1 .. 1 /\ g[r] \in Int
      BY <1>2, ExtraIs DEF RowsTyped
    <3>2. Share(zone, p, r, x) = Share(zone, q, r, x)
      BY <1>2 DEF Share
    <3>3. r.ts \in Int
      BY RowIs DEF RowsTyped
    <3>4. Excess(zone, q, r.ts) = Excess(zone, p, r.ts) + Weight(zone, s, r.ts) /\ Weight(zone, s, r.ts) \in -1 .. 1
      BY <1>2, <3>3, WeightIs
    <3>5. \A c \in Nat, e \in -1 .. 1, v \in -1 .. 1 : (e + v) * c = e * c + v * c /\ v * c \in Int
      OBVIOUS
    <3>6. /\ f[r] = Excess(zone, q, r.ts) * Share(zone, q, r, x)
          /\ g[r] = Excess(zone, p, r.ts) * Share(zone, q, r, x)
          /\ w[r] = Weight(zone, s, r.ts) * Share(zone, q, r, x)
      BY <3>2 DEF Extra
    <3> HIDE DEF f, g, w
    <3> QED
      BY <3>1, <3>4, <3>5, <3>6
  <2>2. /\ Gap(zone, stored, q, x) = q.got[x] + SumOn(f, stored)
        /\ Gap(zone, stored, p, x) = p.got[x] + SumOn(g, stored)
        /\ told[x] = SumOn(w, stored)
    BY <1>1 DEF Gap, CountedRows
  <2> HIDE DEF f, g, w
  <2>3. SumOn(f, stored) = SumOn(g, stored) + SumOn(w, stored)
    BY <2>1, SumPlus DEF RowsTyped
  <2>4. SumOn(g, stored) \in Int /\ SumOn(w, stored) \in Int
    BY <2>1, SumInt DEF RowsTyped
  <2>5. q.got[x] \in Int /\ p.got[x] = q.got[x] + told[x]
    BY <1>2 DEF QueryTyped
  <2> QED
    BY <2>2, <2>3, <2>4, <2>5
<1>4. Gaps(zone, stored, p) = Gaps(zone, stored, q)
  <2>1. [x \in Keys(p.by) |-> Distance(Gap(zone, stored, p, x), 0)]
          = [x \in Keys(q.by) |-> Distance(Gap(zone, stored, q, x), 0)]
    BY <1>2, <1>3
  <2> QED
    BY <1>2, <2>1 DEF Gaps
<1> QED
  BY <1>4 DEF p, told

\* When nothing is left to run, the page is as far from the truth as that.
LEMMA DoneIsTruth ==
  ASSUME zone \in Zone, RowsTyped(stored), NEW q, QueryTyped(q), q.todo = <<>>, NearTruth(zone, q)
  PROVE  SumOn([x \in Keys(q.by) |-> Distance(q.got[x], Truth(q)[x])], Keys(q.by)) = Gaps(zone, stored, q)
<1>1. ASSUME NEW x \in Keys(q.by)
      PROVE  Distance(q.got[x], Truth(q)[x]) = Distance(Gap(zone, stored, q, x), 0)
  <2> DEFINE s == Rows(q.from, q.to, -1)
             f == [r \in stored |-> Extra(zone, q, r, x)]
             w == [r \in stored |-> Weight(zone, s, r.ts) * Share(zone, q, r, x)]
             t == Truth(q)[x]
  <2>1. s \in Statement /\ s.table # "cache" /\ s.sign = -1 /\ s.from = q.from /\ s.to = q.to
    BY StatementsAre DEF Rows, QueryTyped, Asked
  <2>2. Answer(s, q.by)[x] = (-1) * t
    <3> DEFINE R == Between(q.from, q.to)
    <3>1. Answer(s, q.by) = [y \in Keys(q.by) |-> (-1) * Grouped(IF q.by = "session" THEN Joined(R) ELSE R, q.by)[y]]
      BY <2>1 DEF Answer
    <3>2. Truth(q) = Grouped(IF q.by = "session" THEN Joined(R) ELSE R, q.by)
      BY DEF Truth
    <3> HIDE DEF R
    <3> QED
      BY <3>1, <3>2
  <2> HIDE DEF s
  <2>3. Answer(s, q.by)[x] \in Int /\ Answer(s, q.by)[x] = SumOn(w, stored)
    <3>1. Answer(s, q.by)[x] \in Int /\ Answer(s, q.by)[x] = CountedRows(zone, stored, s, q, x)
      BY <2>1, RowsAnswer
    <3> QED
      BY <3>1 DEF CountedRows
  <2>4. \A r \in stored : f[r] = w[r]
    <3> TAKE r \in stored
    <3>1. \A i : WeightAt(zone, <<>>, i, r.ts) = 0
      BY DEF WeightAt
    <3>2. Excess(zone, q, r.ts) = 0 - Asks(q, r.ts)
      BY <3>1 DEF Excess, Remaining
    <3>3. Weight(zone, s, r.ts) = IF q.from <= r.ts /\ r.ts < q.to THEN -1 ELSE 0
      BY <2>1 DEF Weight
    <3>4. Excess(zone, q, r.ts) = Weight(zone, s, r.ts)
      <4>1. CASE q.from <= r.ts /\ r.ts < q.to
        <5>1. Asks(q, r.ts) = 1
          BY <4>1 DEF Asks
        <5> QED
          BY <3>2, <3>3, <4>1, <5>1
      <4>2. CASE ~(q.from <= r.ts /\ r.ts < q.to)
        <5>1. Asks(q, r.ts) = 0
          BY <4>2 DEF Asks
        <5> QED
          BY <3>2, <3>3, <4>2, <5>1
      <4> QED
        BY <4>1, <4>2
    <3> QED
      BY <3>4 DEF Extra
  <2>5. Gap(zone, stored, q, x) = q.got[x] + SumOn(f, stored)
    BY DEF Gap
  <2>6. t \in Int
    <3>1. \E R : t = SumOn([r \in R |-> r.cost], R) /\ R \in SUBSET stored
      <4> DEFINE B == Between(q.from, q.to)
                 J == IF q.by = "session" THEN Joined(B) ELSE B
                 R == {r \in J : KeyOf(r, q.by) = x}
      <4>1. t = Cost(R)
        BY DEF Truth, Grouped
      <4>2. R \in SUBSET stored
        BY DEF Between, Joined
      <4> QED
        BY <4>1, <4>2 DEF Cost
    <3>2. PICK R : t = SumOn([r \in R |-> r.cost], R) /\ R \in SUBSET stored
      BY <3>1
    <3> DEFINE g == [r \in R |-> r.cost]
    <3>3. \A r \in R : g[r] \in Int
      BY <3>2, RowIs DEF RowsTyped
    <3>4. IsFiniteSet(R)
      BY <3>2, FS_Subset DEF RowsTyped
    <3>5. t = SumOn(g, R)
      BY <3>2
    <3> HIDE DEF g, t
    <3> QED
      BY <3>3, <3>4, <3>5, SumInt
  <2>7. q.got[x] \in Int
    BY DEF QueryTyped
  <2> HIDE DEF f, w, t
  <2>8. SumOn(f, stored) = SumOn(w, stored)
    BY <2>4, SumSame DEF RowsTyped
  <2>9. Gap(zone, stored, q, x) = q.got[x] - t
    BY <2>2, <2>3, <2>5, <2>6, <2>7, <2>8
  <2>10. Distance(q.got[x], t) = Distance(q.got[x] - t, 0)
    BY <2>6, <2>7, DistanceIs
  <2> QED
    BY <2>9, <2>10 DEF t
<1>2. [x \in Keys(q.by) |-> Distance(q.got[x], Truth(q)[x])]
        = [x \in Keys(q.by) |-> Distance(Gap(zone, stored, q, x), 0)]
  BY <1>1
<1> QED
  BY <1>2 DEF Gaps

LEMMA KindIs ==
  ASSUME NEW k \in Kind
  PROVE  /\ k = [sess |-> k.sess, model |-> k.model, tok |-> k.tok, cost |-> k.cost]
         /\ k.tok \in Nat /\ k.cost \in Nat
BY CostsAssumption

\* A row that is stored is told from those that are.
LEMMA RowOfIs ==
  ASSUME NEW k \in Kind, NEW ts \in Int, 0 <= ts, ts <= LastInstant, NEW S, NEW most \in Nat,
         IsFiniteSet(S), Cardinality(S) < most
  PROVE  /\ RowOf(k, ts, S, most) =
              [sess |-> k.sess, model |-> k.model, tok |-> k.tok, cost |-> k.cost, ts |-> ts,
               copy |-> RowOf(k, ts, S, most).copy]
         /\ RowOf(k, ts, S, most).copy \in 1 .. most
         /\ \A r \in S : r.ts = ts => r.copy # RowOf(k, ts, S, most).copy
<1> DEFINE free == {c \in 1 .. most : \A r \in S : r.ts = ts => r.copy # c}
           new == RowOf(k, ts, S, most)
<1>1. free # {}
  <2> SUFFICES ASSUME free = {} PROVE FALSE
    OBVIOUS
  <2>1. \A c \in 1 .. most : \E r \in S : r.ts = ts /\ r.copy = c
    OBVIOUS
  <2> DEFINE f == [c \in 1 .. most |-> CHOOSE r \in S : r.ts = ts /\ r.copy = c]
  <2>2. \A c \in 1 .. most : f[c] \in S /\ f[c].copy = c
    BY <2>1
  <2>3. f \in [1 .. most -> S]
    BY <2>2
  <2> HIDE DEF f
  <2>4. IsFiniteSet(1 .. most) /\ Cardinality(1 .. most) = most
    <3>1. Cardinality(S) \in Nat
      BY FS_CardinalityType
    <3> QED
      BY <3>1, FS_Interval
  <2>5. PICK x, y \in 1 .. most : x # y /\ f[x] = f[y]
    BY <2>3, <2>4, FS_PigeonHole
  <2> QED
    BY <2>2, <2>5
<1>2. new = [sess |-> k.sess, model |-> k.model, tok |-> k.tok, cost |-> k.cost, ts |-> ts, copy |-> Min(free)]
  BY DEF RowOf
<1>3. Min(free) \in free
  <2>1. free \in SUBSET Int /\ \A c \in free : 0 <= c
    OBVIOUS
  <2> HIDE DEF free
  <2>2. PICK b \in free : TRUE
    BY <1>1
  <2>3. \A low \in Int : (\A c \in free : low <= c) => Min(free) \in free
    BY <2>1, <2>2, LeastInt
  <2> QED
    BY <2>1, <2>3
<1>4. new.copy = Min(free)
  BY <1>2
<1> HIDE DEF new
<1>5. new = [sess |-> k.sess, model |-> k.model, tok |-> k.tok, cost |-> k.cost, ts |-> ts, copy |-> new.copy]
  BY <1>2, <1>4
<1> QED
  BY <1>3, <1>4, <1>5 DEF new

LEMMA StoredIs ==
  ASSUME NEW k \in Kind, NEW ts \in 0 .. LastInstant, NEW S, RowsTyped(S), Apart(S), Cardinality(S) < MaxRows
  PROVE  /\ RowTyped(RowOf(k, ts, S, MaxRows)) /\ RowOf(k, ts, S, MaxRows) \notin S
         /\ RowOf(k, ts, S, MaxRows).cost = k.cost /\ RowOf(k, ts, S, MaxRows).ts = ts
         /\ RowsTyped(S \cup {RowOf(k, ts, S, MaxRows)}) /\ Apart(S \cup {RowOf(k, ts, S, MaxRows)})
<1> DEFINE r == RowOf(k, ts, S, MaxRows)
           c == r.copy
<1>1. ts \in Int /\ 0 <= ts /\ ts <= LastInstant /\ MaxRows \in Nat /\ IsFiniteSet(S)
  BY LengthsPositive DEF RowsTyped
<1>2. /\ r = [sess |-> k.sess, model |-> k.model, tok |-> k.tok, cost |-> k.cost, ts |-> ts, copy |-> c]
      /\ c \in 1 .. MaxRows /\ \A p \in S : p.ts = ts => p.copy # c
  BY <1>1, RowOfIs
<1> HIDE DEF r, c
<1>3. /\ DOMAIN r = {"sess", "model", "tok", "cost", "ts", "copy"}
      /\ r.sess = k.sess /\ r.model = k.model /\ r.tok = k.tok /\ r.cost = k.cost /\ r.ts = ts /\ r.copy = c
  BY <1>2
<1>4. RowTyped(r)
  BY <1>2, <1>3, KindIs DEF RowTyped
<1>5. r \notin S
  BY <1>2, <1>3
<1>6. RowsTyped(S \cup {r})
  BY <1>4, FS_AddElement DEF RowsTyped
<1>7. Apart(S \cup {r})
  <2> SUFFICES ASSUME NEW p \in S \cup {r}, NEW q \in S \cup {r}, p.ts = q.ts, p.copy = q.copy PROVE p = q
    BY DEF Apart
  <2>1. CASE p \in S /\ q \in S
    BY <2>1 DEF Apart
  <2>2. CASE p = r /\ q = r
    BY <2>2
  <2>3. CASE p \in S /\ q = r
    BY <1>2, <1>3, <2>3
  <2>4. CASE p = r /\ q \in S
    BY <1>2, <1>3, <2>4
  <2> QED
    BY <2>1, <2>2, <2>3, <2>4
<1> QED
  BY <1>3, <1>4, <1>5, <1>6, <1>7 DEF r

LEMMA FewerRows ==
  ASSUME NEW S, RowsTyped(S), Apart(S), NEW r \in S
  PROVE  /\ RowsTyped(S \ {r}) /\ Apart(S \ {r}) /\ RowTyped(r) /\ r \notin S \ {r} /\ S = (S \ {r}) \cup {r}
BY FS_RemoveElement DEF RowsTyped, Apart

\* A row that gets a model stays what it was otherwise.
LEMMA RepricedIs ==
  ASSUME NEW S, RowsTyped(S), Apart(S), NEW r \in S, NEW k \in Kind, k.sess = r.sess, k.tok = r.tok
  PROVE  /\ RowsTyped((S \ {r}) \cup {[r EXCEPT !.model = k.model, !.cost = k.cost]})
         /\ Apart((S \ {r}) \cup {[r EXCEPT !.model = k.model, !.cost = k.cost]})
<1> DEFINE p == [r EXCEPT !.model = k.model, !.cost = k.cost]
           T == S \ {r}
<1>1. DOMAIN r = {"sess", "model", "tok", "cost", "ts", "copy"} /\ r.ts \in 0 .. LastInstant /\ r.copy \in 1 .. MaxRows
  BY DEF RowsTyped, RowTyped
<1>2. /\ DOMAIN p = {"sess", "model", "tok", "cost", "ts", "copy"}
      /\ p.sess = r.sess /\ p.model = k.model /\ p.tok = r.tok /\ p.cost = k.cost /\ p.ts = r.ts /\ p.copy = r.copy
  BY <1>1
<1> HIDE DEF p
<1>3. RowTyped(p)
  BY <1>1, <1>2, KindIs DEF RowTyped
<1>4. RowsTyped(T) /\ Apart(T)
  BY FewerRows
<1>5. \A q \in T : ~(q.ts = p.ts /\ q.copy = p.copy)
  BY <1>2 DEF Apart
<1>6. RowsTyped(T \cup {p})
  BY <1>3, <1>4, FS_AddElement DEF RowsTyped
<1>7. Apart(T \cup {p})
  BY <1>4, <1>5 DEF Apart
<1> QED
  BY <1>6, <1>7 DEF p

LEMMA DayTotalOneMore ==
  ASSUME NEW z, NEW S, RowsTyped(S), NEW r, r \notin S, RowTyped(r), NEW d
  PROVE  /\ DayTotal(z, S, d) \in Int
         /\ DayTotal(z, S \cup {r}, d) = DayTotal(z, S, d) + IF LocalDay(z, r.ts) = d THEN r.cost ELSE 0
         /\ DayTotal(z, S \cup {r}, d) \in Int
<1> DEFINE T == S \cup {r}
           f == [x \in T |-> IF LocalDay(z, x.ts) = d THEN x.cost ELSE 0]
           g == [x \in S |-> IF LocalDay(z, x.ts) = d THEN x.cost ELSE 0]
           c == IF LocalDay(z, r.ts) = d THEN r.cost ELSE 0
<1>1. \A x \in T : f[x] \in Int
  BY RowIs DEF RowsTyped
<1>2. \A x \in S : f[x] = g[x] /\ g[x] \in Int
  BY <1>1
<1>3. DayTotal(z, T, d) = SumOn(f, T) /\ DayTotal(z, S, d) = SumOn(g, S) /\ f[r] = c /\ f[r] \in Int
  BY <1>1 DEF DayTotal
<1> HIDE DEF f, g, c
<1>4. SumOn(f, S \cup {r}) = f[r] + SumOn(f, S)
  BY <1>1, SumInsert DEF RowsTyped
<1>5. SumOn(f, S) = SumOn(g, S) /\ SumOn(g, S) \in Int
  BY <1>2, SumSame, SumInt DEF RowsTyped
<1>6. DayTotal(z, T, d) = DayTotal(z, S, d) + c /\ DayTotal(z, S, d) \in Int /\ DayTotal(z, T, d) \in Int
  BY <1>3, <1>4, <1>5
<1> QED
  BY <1>6 DEF c

LEMMA DayTotalNone ==
  ASSUME NEW z, NEW S, RowsTyped(S), NEW d, \A r \in S : LocalDay(z, r.ts) # d
  PROVE  DayTotal(z, S, d) = 0
<1> DEFINE g == [x \in S |-> IF LocalDay(z, x.ts) = d THEN x.cost ELSE 0]
<1>1. \A x \in S : g[x] = 0
  OBVIOUS
<1>2. DayTotal(z, S, d) = SumOn(g, S)
  BY DEF DayTotal
<1> HIDE DEF g
<1> QED
  BY <1>1, <1>2, SumZero DEF RowsTyped

Adding(cache, d, amount) ==
  [x \in DOMAIN cache \cup {d} |->
     (IF x \in DOMAIN cache THEN cache[x] ELSE 0) + IF x = d THEN amount ELSE 0]

\* A row in adds its cost to its day.
LEMMA CacheOneMore ==
  ASSUME NEW z \in Zone, NEW S, RowsTyped(S), NEW r, r \notin S, RowTyped(r), NEW cache, CacheTyped(cache)
  PROVE  /\ CacheTyped(Adding(cache, LocalDay(z, r.ts), r.cost))
         /\ CacheSums(z, S, cache) => CacheSums(z, S \cup {r}, Adding(cache, LocalDay(z, r.ts), r.cost))
<1> DEFINE d == LocalDay(z, r.ts)
           new == Adding(cache, d, r.cost)
<1>1. d \in Day /\ r.cost \in Int
  BY RowIs, DayOfRow
<1>2. /\ DOMAIN new = DOMAIN cache \cup {d}
      /\ \A x \in DOMAIN new : new[x] = (IF x \in DOMAIN cache THEN cache[x] ELSE 0) + IF x = d THEN r.cost ELSE 0
  BY DEF Adding
<1>3. CacheTyped(new)
  BY <1>1, <1>2 DEF CacheTyped
<1>4. ASSUME CacheSums(z, S, cache) PROVE CacheSums(z, S \cup {r}, new)
  <2>1. \A p \in S \cup {r} : LocalDay(z, p.ts) \in DOMAIN new
    BY <1>2, <1>4 DEF CacheSums
  <2>2. ASSUME NEW x \in DOMAIN new PROVE new[x] = DayTotal(z, S \cup {r}, x)
    <3>1. DayTotal(z, S, x) = IF x \in DOMAIN cache THEN cache[x] ELSE 0
      <4>1. CASE x \in DOMAIN cache
        BY <1>4, <4>1 DEF CacheSums
      <4>2. CASE x \notin DOMAIN cache
        <5>1. \A p \in S : LocalDay(z, p.ts) # x
          BY <1>4, <4>2 DEF CacheSums
        <5> QED
          BY <4>2, <5>1, DayTotalNone
      <4> QED
        BY <4>1, <4>2
    <3>2. DayTotal(z, S \cup {r}, x) = DayTotal(z, S, x) + IF d = x THEN r.cost ELSE 0
      BY DayTotalOneMore
    <3> QED
      BY <1>2, <3>1, <3>2
  <2> QED
    BY <2>1, <2>2 DEF CacheSums
<1> QED
  BY <1>3, <1>4

\* A row out takes it from there.
LEMMA CacheOneLess ==
  ASSUME NEW z \in Zone, NEW S, RowsTyped(S), NEW r, r \notin S, RowTyped(r), NEW cache, CacheTyped(cache)
  PROVE  /\ LocalDay(z, r.ts) \in DOMAIN cache => CacheTyped(Adding(cache, LocalDay(z, r.ts), -r.cost))
         /\ CacheSums(z, S \cup {r}, cache) =>
              /\ LocalDay(z, r.ts) \in DOMAIN cache
              /\ CacheSums(z, S, Adding(cache, LocalDay(z, r.ts), -r.cost))
<1> DEFINE d == LocalDay(z, r.ts)
           new == Adding(cache, d, -r.cost)
<1>1. r.cost \in Int
  BY RowIs
<1>2. d \in DOMAIN cache =>
        /\ DOMAIN new = DOMAIN cache
        /\ \A x \in DOMAIN new : new[x] = cache[x] + IF x = d THEN -r.cost ELSE 0
  BY DEF Adding
<1>3. d \in DOMAIN cache => CacheTyped(new)
  BY <1>1, <1>2 DEF CacheTyped
<1>4. ASSUME CacheSums(z, S \cup {r}, cache) PROVE d \in DOMAIN cache /\ CacheSums(z, S, new)
  <2>1. d \in DOMAIN cache
    BY <1>4 DEF CacheSums
  <2>2. \A p \in S : LocalDay(z, p.ts) \in DOMAIN new
    BY <1>2, <1>4, <2>1 DEF CacheSums
  <2>3. ASSUME NEW x \in DOMAIN new PROVE new[x] = DayTotal(z, S, x)
    <3>1. cache[x] = DayTotal(z, S \cup {r}, x) /\ new[x] = cache[x] + IF x = d THEN -r.cost ELSE 0
      BY <1>2, <1>4, <2>1 DEF CacheSums
    <3>2. DayTotal(z, S \cup {r}, x) = DayTotal(z, S, x) + (IF d = x THEN r.cost ELSE 0) /\ DayTotal(z, S, x) \in Int
      BY DayTotalOneMore
    <3> QED
      BY <1>1, <3>1, <3>2
  <2> QED
    BY <2>1, <2>2, <2>3 DEF CacheSums
<1> QED
  BY <1>3, <1>4

\* A cache that is built anew.
LEMMA RebuiltAddsUp ==
  ASSUME NEW z \in Zone, NEW S, RowsTyped(S)
  PROVE  CacheTyped(Rebuilt(S, z)) /\ CacheSums(z, S, Rebuilt(S, z))
<1> DEFINE D == {LocalDay(z, r.ts) : r \in S}
           new == Rebuilt(S, z)
<1>1. DOMAIN new = D /\ \A d \in D : new[d] = Cost({r \in S : LocalDay(z, r.ts) = d})
  BY DEF Rebuilt
<1>2. D \subseteq Day
  BY RowIs, DayOfRow DEF RowsTyped
<1>3. ASSUME NEW d \in D PROVE new[d] = DayTotal(z, S, d) /\ new[d] \in Int
  <2> DEFINE T == {r \in S : LocalDay(z, r.ts) = d}
             f == [r \in T |-> r.cost]
             g == [r \in S |-> IF LocalDay(z, r.ts) = d THEN r.cost ELSE 0]
  <2>1. \A r \in S : g[r] \in Int
    BY RowIs DEF RowsTyped
  <2>2. T \in SUBSET S /\ \A r \in T : f[r] = g[r]
    OBVIOUS
  <2>3. \A r \in S \ T : g[r] = 0
    OBVIOUS
  <2>4. new[d] = SumOn(f, T) /\ DayTotal(z, S, d) = SumOn(g, S)
    BY <1>1 DEF Cost, DayTotal
  <2> HIDE DEF T, f, g, new
  <2>5. SumOn(g, S) = SumOn(g, T)
    BY <2>1, <2>2, <2>3, SumSupport DEF RowsTyped
  <2>6. IsFiniteSet(T)
    BY <2>2, FS_Subset DEF RowsTyped
  <2>7. SumOn(f, T) = SumOn(g, T)
    BY <2>2, <2>6, SumSame
  <2>8. SumOn(g, S) \in Int
    BY <2>1, SumInt DEF RowsTyped
  <2> QED
    BY <2>4, <2>5, <2>7, <2>8
<1> HIDE DEF new
<1>4. CacheTyped(new) /\ CacheSums(z, S, new)
  BY <1>1, <1>2, <1>3 DEF CacheTyped, CacheSums
<1> QED
  BY <1>4 DEF new

-----------------------------------------------------------------------------
(* The steps.                                                              *)

LEMMA CostsStart ==
  ASSUME NEW t \in 0 .. LastInstant, CostsInitAt(t)
  PROVE  CostsInv
<1>1. stored = {} /\ dayCost = <<>> /\ zone \in Zone /\ instant = t /\ drifted = FALSE
      /\ page = <<>> /\ written = 0 /\ doubt = FALSE /\ writes = 0 /\ pages = 0
  BY DEF CostsInitAt
<1>2. RowsTyped(stored) /\ Apart(stored)
  BY <1>1, FS_EmptySet DEF RowsTyped, Apart
<1>3. DOMAIN <<>> = {}
  OBVIOUS
<1>4. CacheTyped(dayCost) /\ CacheSums(zone, stored, dayCost)
  BY <1>1, <1>3 DEF CacheTyped, CacheSums
<1>5. PageTyped /\ PageNear
  BY <1>1, <1>3 DEF PageTyped, PageNear
<1>6. {drifted, doubt} \subseteq BOOLEAN
  BY <1>1
<1>7. instant \in 0 .. LastInstant /\ written \in Nat /\ writes \in 0 .. MaxWrites /\ pages \in 0 .. MaxPages
  BY <1>1, LengthsPositive
<1> QED
  BY <1>1, <1>2, <1>4, <1>5, <1>6, <1>7, Zenon DEF CostsInv

LEMMA AskKeeps ==
  ASSUME CostsInv, NEW queries, FreshPage(queries), Ask(queries)
  PROVE  CostsInv'
<1>1. /\ page' = queries /\ written' = 0 /\ doubt' = drifted /\ pages' = pages + 1 /\ pages < MaxPages
      /\ UNCHANGED <<stored, dayCost, zone, instant, drifted, writes>>
  BY DEF Ask
<1>2. ASSUME NEW i \in DOMAIN queries
      PROVE  QueryTyped(queries[i]) /\ NearTruth(zone, queries[i]) /\ Gaps(zone, stored, queries[i]) = 0
  BY FreshIsExact DEF FreshPage, Fresh, CostsInv
<1>3. PageTyped'
  BY <1>1, <1>2 DEF PageTyped, FreshPage
<1>4. PageNear'
  BY <1>1, <1>2 DEF PageNear
<1>5. pages' \in 0 .. MaxPages
  BY <1>1, LengthsPositive DEF CostsInv
<1> QED
  BY <1>1, <1>3, <1>4, <1>5 DEF CostsInv, FreshPage

LEMMA RunKeeps ==
  ASSUME CostsInv, NEW i \in DOMAIN page, RunStatement(i)
  PROVE  CostsInv'
<1> DEFINE q == page[i]
           told == Answer(Head(q.todo), q.by)
<1>1. /\ q.todo # <<>>
      /\ page' = [page EXCEPT ![i].todo = Tail(@),
                              ![i].got = [x \in DOMAIN @ |-> @[x] + Answer(Head(q.todo), q.by)[x]]]
      /\ UNCHANGED <<stored, dayCost, zone, instant, drifted, written, doubt, writes, pages>>
  BY DEF RunStatement
<1>2. page \in Seq(Asked) /\ DOMAIN page = 1 .. Len(page)
  BY DEF CostsInv, PageTyped
<1>3. QueryTyped(q)
  BY DEF CostsInv, PageTyped
<1>4. page' = [page EXCEPT ![i] = Ran(q, told)]
  BY <1>1 DEF Ran
<1>5. \A x \in Keys(q.by) : told[x] \in Int
  BY <1>1, <1>3, AnswerIs DEF CostsInv
<1> HIDE DEF told
<1>6. QueryTyped(Ran(q, told)) /\ Ran(q, told) \in Asked
  BY <1>1, <1>3, <1>5, RanIs DEF CostsInv, QueryTyped
<1>7. /\ DOMAIN page' = DOMAIN page /\ page' \in Seq(Asked)
      /\ page'[i] = Ran(q, told) /\ \A j \in DOMAIN page \ {i} : page'[j] = page[j]
  BY <1>2, <1>4, <1>6
<1>8. PageTyped'
  BY <1>6, <1>7 DEF PageTyped, CostsInv
<1>9. ASSUME ~doubt PROVE PageNear'
  <2>1. ~drifted /\ CacheSums(zone, stored, dayCost)
    <3>1. page # <<>>
      BY <1>2
    <3> QED
      BY <1>9, <3>1 DEF CostsInv
  <2>2. NearTruth(zone, q) /\ Gaps(zone, stored, q) <= written
    BY <1>9 DEF CostsInv, PageNear
  <2>3. NearTruth(zone, Ran(q, told))
    BY <1>1, <1>3, <1>5, <2>2, RanIs DEF CostsInv
  <2>4. Gaps(zone, stored, Ran(q, told)) = Gaps(zone, stored, q)
    BY <1>1, <1>3, <2>1, <2>2, StatementsKeepGaps DEF CostsInv, told
  <2>5. ASSUME NEW j \in DOMAIN page
        PROVE  NearTruth(zone, page'[j]) /\ Gaps(zone, stored, page'[j]) <= written
    <3>1. CASE j = i
      BY <1>7, <2>2, <2>3, <2>4, <3>1
    <3>2. CASE j # i
      BY <1>7, <1>9, <3>2 DEF CostsInv, PageNear
    <3> QED
      BY <3>1, <3>2
  <2> QED
    BY <1>1, <1>7, <2>5 DEF PageNear
<1>10. page # <<>> /\ page' # <<>>
  BY <1>2, <1>7
<1> QED
  BY <1>1, <1>8, <1>9, <1>10 DEF CostsInv

LEMMA RespondKeeps == ASSUME CostsInv, Respond PROVE CostsInv'
<1>1. /\ page' = <<>> /\ written' = 0 /\ doubt' = FALSE
      /\ UNCHANGED <<stored, dayCost, zone, instant, drifted, writes, pages>>
  BY DEF Respond
<1>2. DOMAIN <<>> = {} /\ <<>> \in Seq(Asked)
  OBVIOUS
<1>3. PageTyped' /\ PageNear'
  BY <1>1, <1>2 DEF PageTyped, PageNear
<1> QED
  BY <1>1, <1>3 DEF CostsInv

LEMMA WritingIs ==
  ASSUME CostsInv, NEW amount \in Nat, Writing(amount), UNCHANGED page
  PROVE  /\ writes' \in 0 .. MaxWrites /\ written' \in Nat
         /\ page = <<>> => written' = 0
         /\ page # <<>> => written' = written + amount
BY LengthsPositive DEF Writing, CostsInv

LEMMA InsertKeeps ==
  ASSUME CostsInv, NEW k \in Kind, NEW ts \in 0 .. LastInstant, InsertUsage(k, ts)
  PROVE  CostsInv'
<1> DEFINE r == RowOf(k, ts, stored, MaxRows)
<1>1. /\ Cardinality(stored) < MaxRows /\ stored' = stored \cup {r}
      /\ AddCost(LocalDay(zone, ts), k.cost) /\ Writing(k.cost)
      /\ UNCHANGED <<zone, instant, drifted, page, doubt, pages>>
  BY DEF InsertUsage
<1>2. /\ RowTyped(r) /\ r \notin stored /\ r.cost = k.cost /\ r.ts = ts
      /\ RowsTyped(stored') /\ Apart(stored')
  BY <1>1, StoredIs DEF CostsInv
<1> HIDE DEF r
<1>3. k.cost \in Nat
  BY KindIs
<1>4. dayCost' = Adding(dayCost, LocalDay(zone, r.ts), r.cost)
  BY <1>1, <1>2 DEF AddCost, Adding
<1>5. CacheTyped(dayCost') /\ (~drifted => CacheSums(zone, stored', dayCost'))
  BY <1>1, <1>2, <1>4, CacheOneMore DEF CostsInv
<1>6. /\ writes' \in 0 .. MaxWrites /\ written' \in Nat /\ (page = <<>> => written' = 0)
      /\ (page # <<>> => written' = written + k.cost)
  BY <1>1, <1>3, WritingIs
<1>7. PageTyped'
  BY <1>1 DEF CostsInv, PageTyped
<1>8. ASSUME ~doubt PROVE PageNear'
  <2> SUFFICES ASSUME NEW i \in DOMAIN page
               PROVE  NearTruth(zone, page[i]) /\ Gaps(zone, stored', page[i]) <= written'
    BY <1>1 DEF PageNear
  <2>1. NearTruth(zone, page[i]) /\ QueryTyped(page[i]) /\ Gaps(zone, stored, page[i]) <= written
    BY <1>8 DEF CostsInv, PageNear, PageTyped
  <2>2. /\ Gaps(zone, stored, page[i]) \in Nat /\ Gaps(zone, stored', page[i]) \in Nat
        /\ Gaps(zone, stored', page[i]) <= Gaps(zone, stored, page[i]) + k.cost
    BY <1>1, <1>2, <2>1, GapsOneMore DEF CostsInv
  <2>3. page # <<>> /\ written \in Nat
    BY DEF CostsInv
  <2> QED
    BY <1>3, <1>6, <2>1, <2>2, <2>3
<1> QED
  BY <1>1, <1>2, <1>5, <1>6, <1>7, <1>8 DEF CostsInv

LEMMA DeleteKeeps ==
  ASSUME CostsInv, NEW r \in stored, DeleteUsage(r)
  PROVE  CostsInv'
<1> DEFINE S == stored \ {r}
<1>1. /\ stored' = S /\ Writing(r.cost)
      /\ IF LocalDay(zone, r.ts) \in DOMAIN dayCost THEN AddCost(LocalDay(zone, r.ts), -r.cost)
         ELSE UNCHANGED dayCost
      /\ UNCHANGED <<zone, instant, drifted, page, doubt, pages>>
  BY DEF DeleteUsage
<1>2. /\ RowsTyped(S) /\ Apart(S) /\ RowTyped(r) /\ r \notin S /\ stored = S \cup {r}
  BY FewerRows DEF CostsInv
<1>3. r.cost \in Nat
  BY <1>2, RowIs
<1> HIDE DEF S
<1>4. CacheTyped(dayCost') /\ (~drifted => CacheSums(zone, S, dayCost'))
  <2>1. CASE LocalDay(zone, r.ts) \in DOMAIN dayCost
    <3>1. dayCost' = Adding(dayCost, LocalDay(zone, r.ts), -r.cost)
      BY <1>1, <2>1 DEF AddCost, Adding
    <3>2. zone \in Zone /\ CacheTyped(dayCost) /\ (~drifted => CacheSums(zone, S \cup {r}, dayCost))
      BY <1>2 DEF CostsInv
    <3> QED
      BY <1>2, <2>1, <3>1, <3>2, CacheOneLess
  <2>2. CASE LocalDay(zone, r.ts) \notin DOMAIN dayCost
    <3>1. drifted
      BY <2>2 DEF CostsInv, CacheSums
    <3> QED
      BY <1>1, <2>2, <3>1 DEF CostsInv
  <2> QED
    BY <2>1, <2>2
<1>5. /\ writes' \in 0 .. MaxWrites /\ written' \in Nat /\ (page = <<>> => written' = 0)
      /\ (page # <<>> => written' = written + r.cost)
  BY <1>1, <1>3, WritingIs
<1>6. PageTyped'
  BY <1>1 DEF CostsInv, PageTyped
<1>7. ASSUME ~doubt PROVE PageNear'
  <2> SUFFICES ASSUME NEW i \in DOMAIN page
               PROVE  NearTruth(zone, page[i]) /\ Gaps(zone, S, page[i]) <= written'
    BY <1>1 DEF PageNear
  <2>1. NearTruth(zone, page[i]) /\ QueryTyped(page[i]) /\ Gaps(zone, S \cup {r}, page[i]) <= written
    BY <1>2, <1>7 DEF CostsInv, PageNear, PageTyped
  <2>2. /\ Gaps(zone, S, page[i]) \in Nat /\ Gaps(zone, S \cup {r}, page[i]) \in Nat
        /\ Gaps(zone, S, page[i]) <= Gaps(zone, S \cup {r}, page[i]) + r.cost
    BY <1>2, <2>1, GapsOneMore DEF CostsInv
  <2>3. page # <<>> /\ written \in Nat
    BY DEF CostsInv
  <2> QED
    BY <1>3, <1>5, <2>1, <2>2, <2>3
<1> QED
  BY <1>1, <1>2, <1>4, <1>5, <1>6, <1>7 DEF CostsInv

LEMMA RepriceKeeps ==
  ASSUME CostsInv, NEW r \in stored, NEW k \in Kind, RepriceUsage(r, k)
  PROVE  CostsInv'
<1>1. /\ k.sess = r.sess /\ k.tok = r.tok /\ drifted' = TRUE /\ doubt' = (page # <<>>)
      /\ stored' = (stored \ {r}) \cup {[r EXCEPT !.model = k.model, !.cost = k.cost]}
      /\ Writing(k.cost) /\ UNCHANGED <<dayCost, zone, instant, page, pages>>
  BY DEF RepriceUsage
<1>2. RowsTyped(stored') /\ Apart(stored')
  BY <1>1, RepricedIs DEF CostsInv
<1>3. writes' \in 0 .. MaxWrites /\ written' \in Nat /\ (page = <<>> => written' = 0)
  BY <1>1, KindIs, WritingIs
<1>4. PageTyped'
  BY <1>1 DEF CostsInv, PageTyped
<1>5. page = <<>> => PageNear'
  BY <1>1 DEF PageNear
<1> QED
  BY <1>1, <1>2, <1>3, <1>4, <1>5 DEF CostsInv

LEMMA RebuildKeeps == ASSUME CostsInv, RebuildCache PROVE CostsInv'
<1>1. /\ dayCost' = Rebuilt(stored, zone) /\ drifted' = FALSE
      /\ UNCHANGED <<stored, zone, instant, page, written, doubt, writes, pages>>
  BY DEF RebuildCache
<1>2. CacheTyped(dayCost') /\ CacheSums(zone, stored, dayCost')
  BY <1>1, RebuiltAddsUp DEF CostsInv
<1>3. PageTyped' /\ (~doubt => PageNear')
  BY <1>1 DEF CostsInv, PageTyped, PageNear
<1> QED
  BY <1>1, <1>2, <1>3 DEF CostsInv

LEMMA TravelKeeps == ASSUME CostsInv, NEW z \in Zone, Travel(z) PROVE CostsInv'
<1>1. /\ zone' = z /\ drifted' = (DOMAIN dayCost # {})
      /\ dayCost' = IF DOMAIN dayCost = {} THEN Rebuilt(stored, z) ELSE dayCost
      /\ page' = <<>> /\ written' = 0 /\ doubt' = FALSE
      /\ writes < MaxWrites /\ writes' = writes + 1 /\ UNCHANGED <<stored, instant, pages>>
  BY DEF Travel
<1>2. CacheTyped(dayCost') /\ (~drifted' => CacheSums(zone', stored, dayCost'))
  <2>1. CacheTyped(Rebuilt(stored, z)) /\ CacheSums(z, stored, Rebuilt(stored, z))
    BY RebuiltAddsUp DEF CostsInv
  <2> QED
    BY <1>1, <2>1 DEF CostsInv
<1>3. DOMAIN <<>> = {} /\ <<>> \in Seq(Asked)
  OBVIOUS
<1>4. PageTyped' /\ PageNear'
  BY <1>1, <1>3 DEF PageTyped, PageNear
<1>5. writes' \in 0 .. MaxWrites
  BY <1>1, LengthsPositive DEF CostsInv
<1> QED
  BY <1>1, <1>2, <1>4, <1>5 DEF CostsInv

LEMMA LaterKeeps == ASSUME CostsInv, LaterInstant PROVE CostsInv'
<1>1. /\ instant < LastInstant /\ instant' = instant + 1
      /\ UNCHANGED <<stored, dayCost, zone, drifted, page, written, doubt, writes, pages>>
  BY DEF LaterInstant
<1>2. instant' \in 0 .. LastInstant
  BY <1>1, LengthsPositive DEF CostsInv
<1>3. PageTyped' /\ (~doubt => PageNear')
  BY <1>1 DEF CostsInv, PageTyped, PageNear
<1> QED
  BY <1>1, <1>2, <1>3 DEF CostsInv

LEMMA CostsStep == ASSUME CostsInv, CostsNext PROVE CostsInv'
<1>1. /\ \A range \in PageRange :
           /\ FreshPage(handleCosts(RangeStart(range))) /\ FreshPage(handleAnalytics(RangeStart(range)))
           /\ FreshPage(handleExport(RangeStart(range))) /\ FreshPage(handleExportReport(RangeStart(range)))
      /\ FreshPage(handleStats)
  <2>1. zone \in Zone /\ instant \in Int /\ RowsTyped(stored)
    BY LengthsPositive DEF CostsInv
  <2> QED
    BY <2>1, PagesAreFresh
<1>2. ASSUME NEW range \in PageRange,
             AskCosts(range) \/ AskAnalytics(range) \/ AskExport(range) \/ AskReport(range)
      PROVE  CostsInv'
  BY <1>1, <1>2, AskKeeps DEF AskCosts, AskAnalytics, AskExport, AskReport
<1>3. CASE AskStats
  BY <1>1, <1>3, AskKeeps DEF AskStats
<1>4. ASSUME NEW i \in DOMAIN page, RunStatement(i) PROVE CostsInv'
  BY <1>4, RunKeeps
<1>5. CASE Respond
  BY <1>5, RespondKeeps
<1>6. ASSUME NEW k \in Kind, NEW ts \in 0 .. LastInstant, InsertUsage(k, ts) PROVE CostsInv'
  BY <1>6, InsertKeeps
<1>7. ASSUME NEW r \in stored, DeleteUsage(r) PROVE CostsInv'
  BY <1>7, DeleteKeeps
<1>8. ASSUME NEW r \in stored, NEW k \in Kind, RepriceUsage(r, k) PROVE CostsInv'
  BY <1>8, RepriceKeeps
<1>9. CASE RebuildCache
  BY <1>9, RebuildKeeps
<1>10. ASSUME NEW z \in Zone, Travel(z) PROVE CostsInv'
  BY <1>10, TravelKeeps
<1>11. CASE LaterInstant
  BY <1>11, LaterKeeps
<1> QED
  BY <1>2, <1>3, <1>4, <1>5, <1>6, <1>7, <1>8, <1>9, <1>10, <1>11 DEF CostsNext

LEMMA CostsStutters == ASSUME CostsInv, UNCHANGED costVars PROVE CostsInv'
<1>1. UNCHANGED <<stored, dayCost, zone, instant, drifted, page, written, doubt, writes, pages>>
  BY DEF costVars
<1>2. PageTyped' /\ (~doubt => PageNear')
  BY <1>1 DEF CostsInv, PageTyped, PageNear
<1> QED
  BY <1>1, <1>2 DEF CostsInv

LEMMA InvAddsUp == ASSUME CostsInv PROVE PagesAddUp /\ CostsTypeOK
<1>1. PagesAddUp
  <2> SUFFICES ASSUME ~doubt, NEW i \in DOMAIN page, page[i].todo = <<>>
               PROVE  SumOn([x \in Keys(page[i].by) |-> Distance(page[i].got[x], Truth(page[i])[x])],
                            Keys(page[i].by)) <= written
    BY DEF PagesAddUp
  <2>1. QueryTyped(page[i]) /\ NearTruth(zone, page[i]) /\ Gaps(zone, stored, page[i]) <= written
    BY DEF CostsInv, PageTyped, PageNear
  <2> QED
    BY <2>1, DoneIsTruth DEF CostsInv
<1>2. \A i \in DOMAIN page : DOMAIN page[i] = {"by", "from", "to", "todo", "got"}
  <2> TAKE i \in DOMAIN page
  <2>1. page[i] \in Asked
    BY DEF CostsInv, PageTyped, QueryTyped
  <2> QED
    BY <2>1 DEF Asked
<1>3. \A r \in stored : /\ [sess |-> r.sess, model |-> r.model, tok |-> r.tok, cost |-> r.cost] \in Kind
                        /\ r.ts \in 0 .. LastInstant /\ r.copy \in 1 .. MaxRows
  BY DEF CostsInv, RowsTyped, RowTyped
<1> QED
  BY <1>1, <1>2, <1>3 DEF CostsInv, CostsTypeOK, CacheTyped

-----------------------------------------------------------------------------
(* Groups and lines.                                                       *)

GroupFor(R, key, r) == Group(key[r][1], Where(R, key, key[r]))
Keyed(R, key) == {GroupFor(R, key, r) : r \in R}
\* No two groups are the same record.
KeysTold(R, key) == \A r, q \in R : GroupFor(R, key, r) = GroupFor(R, key, q) => key[r] = key[q]

CostedRows(R) == IsFiniteSet(R) /\ \A r \in R : r.tok \in Nat /\ r.cost \in Nat /\ r.ts \in Int

LEMMA EntriesIn ==
  ASSUME NEW R, CostedRows(R), NEW S \in SUBSET R
  PROVE  /\ CostedRows(S) /\ SumTokens(S) \in Nat /\ Cost(S) \in Nat
         /\ SumTokens(S) <= SumTokens(R)
         /\ \A r \in S : r.tok <= SumTokens(S)
<1>1. CostedRows(S)
  BY FS_Subset DEF CostedRows
<1> DEFINE f == [r \in R |-> r.tok]
           t(T) == [r \in T |-> r.tok]
           c == [r \in S |-> r.cost]
<1>2. \A r \in R : f[r] \in Nat
  BY DEF CostedRows
<1>3. \A r \in S : c[r] \in Nat
  BY DEF CostedRows
<1>4. ASSUME NEW T \in SUBSET R PROVE SumTokens(T) = SumOn(f, T) /\ SumOn(f, T) \in Nat /\ IsFiniteSet(T)
  <2> DEFINE g == t(T)
  <2>1. \A r \in T : f[r] = g[r]
    OBVIOUS
  <2>2. SumTokens(T) = SumOn(g, T)
    BY DEF SumTokens
  <2>3. IsFiniteSet(T) /\ \A r \in T : f[r] \in Nat
    BY <1>2, FS_Subset DEF CostedRows
  <2> HIDE DEF f, g
  <2> QED
    BY <2>1, <2>2, <2>3, SumSame, SumNat
<1>5. Cost(S) = SumOn(c, S)
  BY DEF Cost
<1> HIDE DEF f, c
<1>6. Cost(S) \in Nat
  BY <1>1, <1>3, <1>5, SumNat DEF CostedRows
<1>7. ASSUME NEW T \in SUBSET R, NEW Summed \in SUBSET T PROVE SumOn(f, Summed) <= SumOn(f, T)
  <2>1. IsFiniteSet(Summed) /\ IsFiniteSet(T \ Summed) /\ Summed \cap (T \ Summed) = {} /\ T = Summed \cup (T \ Summed)
    BY <1>4, FS_Subset
  <2>2. \A r \in Summed \cup (T \ Summed) : f[r] \in Int
    BY <1>2
  <2>3. SumOn(f, T) = SumOn(f, Summed) + SumOn(f, T \ Summed)
    <3> DEFINE V == T \ Summed
    <3>1. IsFiniteSet(Summed) /\ IsFiniteSet(V) /\ Summed \cap V = {} /\ T = Summed \cup V /\ \A r \in Summed \cup V : f[r] \in Int
      BY <2>1, <2>2
    <3> HIDE DEF V
    <3>2. SumOn(f, Summed \cup V) = SumOn(f, Summed) + SumOn(f, V)
      BY <3>1, SumUnion
    <3> QED
      BY <3>1, <3>2 DEF V
  <2>4. SumOn(f, Summed) \in Nat /\ SumOn(f, T \ Summed) \in Nat
    BY <1>4
  <2> QED
    BY <2>3, <2>4
<1>8. ASSUME NEW r \in S PROVE r.tok <= SumTokens(S)
  <2>1. SumOn(f, {r}) = f[r] /\ f[r] = r.tok
    <3>0. f[r] \in Nat
      BY <1>2
    <3>1. f[r] \in Int /\ \A y \in {r} \ {r} : f[y] = 0
      BY <3>0
    <3>2. IsFiniteSet({r})
      BY FS_Singleton, Zenon
    <3>3. SumOn(f, {r}) = f[r]
      BY <3>1, <3>2, SumAtOne
    <3> QED
      BY <3>3 DEF f
  <2>2. SumOn(f, {r}) <= SumOn(f, S)
    BY <1>7
  <2> QED
    BY <1>4, <2>1, <2>2
<1> QED
  BY <1>1, <1>4, <1>6, <1>7, <1>8

\* Whatever is told of the rows group by group adds up over the groups.
LEMMA KeyedSum ==
  ASSUME NEW R, CostedRows(R), NEW key, KeysTold(R, key), NEW f, \A r \in R : f[r] \in Int, NEW e,
         \A r \in R : e[GroupFor(R, key, r)] = SumOn(f, Where(R, key, key[r]))
  PROVE  SumOn(e, Keyed(R, key)) = SumOn(f, R) /\ IsFiniteSet(Keyed(R, key))
<1> DEFINE h == [r \in R |-> GroupFor(R, key, r)]
<1>1. Onto(h, R) = Keyed(R, key)
  BY DEF Keyed, Onto
<1>2. ASSUME NEW r \in R PROVE e[h[r]] = SumOn(f, Where(R, h, h[r]))
  <2>1. Where(R, h, h[r]) = Where(R, key, key[r])
    <3>1. ASSUME NEW q \in R PROVE h[q] = h[r] <=> key[q] = key[r]
      <4>1. key[q] = key[r] => GroupFor(R, key, q) = GroupFor(R, key, r)
        BY DEF GroupFor
      <4> QED
        BY <4>1 DEF KeysTold
    <3> HIDE DEF h
    <3> QED
      BY <3>1 DEF Where
  <2> QED
    BY <2>1
<1> HIDE DEF h
<1>3. SumOn(e, Onto(h, R)) = SumOn(f, R) /\ IsFiniteSet(Onto(h, R))
  BY <1>2, SumByGroups DEF CostedRows
<1> QED
  BY <1>1, <1>3

LEMMA KeyedAddsUp ==
  ASSUME NEW R, CostedRows(R), NEW key, KeysTold(R, key)
  PROVE  /\ SumTokens(Keyed(R, key)) = SumTokens(R) /\ Cost(Keyed(R, key)) = Cost(R)
         /\ IsFiniteSet(Keyed(R, key))
         /\ \A g \in Keyed(R, key) : g.tok \in Nat /\ g.cost \in Nat
<1> DEFINE G == Keyed(R, key)
           In(r) == Where(R, key, key[r])
<1>0. \A r \in R : In(r) \in SUBSET R
  BY DEF Where
<1>1. ASSUME NEW r \in R
      PROVE  /\ GroupFor(R, key, r).tok = SumTokens(In(r)) /\ GroupFor(R, key, r).cost = Cost(In(r))
             /\ SumTokens(In(r)) \in Nat /\ Cost(In(r)) \in Nat
  BY <1>0, EntriesIn DEF GroupFor, Group
<1>2. \A g \in G : g.tok \in Nat /\ g.cost \in Nat
  BY <1>1 DEF Keyed
<1>3. SumTokens(G) = SumTokens(R) /\ IsFiniteSet(G)
  <2> DEFINE f == [r \in R |-> r.tok]
             e == [g \in G |-> g.tok]
  <2>1. \A r \in R : f[r] \in Int
    BY DEF CostedRows
  <2>2. ASSUME NEW r \in R PROVE e[GroupFor(R, key, r)] = SumOn(f, In(r))
    <3> DEFINE t == [q \in In(r) |-> q.tok]
    <3>1. e[GroupFor(R, key, r)] = SumOn(t, In(r))
      BY <1>1 DEF Keyed, SumTokens
    <3>2. \A q \in In(r) : t[q] = f[q]
      BY <1>0
    <3>3. IsFiniteSet(In(r))
      BY <1>0, EntriesIn DEF CostedRows
    <3> HIDE DEF t, f, e
    <3> QED
      BY <3>1, <3>2, <3>3, SumSame
  <2>3. SumTokens(G) = SumOn(e, G) /\ SumTokens(R) = SumOn(f, R)
    BY DEF SumTokens
  <2> HIDE DEF f, e
  <2> QED
    BY <2>1, <2>2, <2>3, KeyedSum
<1>4. Cost(G) = Cost(R)
  <2> DEFINE f == [r \in R |-> r.cost]
             e == [g \in G |-> g.cost]
  <2>1. \A r \in R : f[r] \in Int
    BY DEF CostedRows
  <2>2. ASSUME NEW r \in R PROVE e[GroupFor(R, key, r)] = SumOn(f, In(r))
    <3> DEFINE t == [q \in In(r) |-> q.cost]
    <3>1. e[GroupFor(R, key, r)] = SumOn(t, In(r))
      BY <1>1 DEF Keyed, Cost
    <3>2. \A q \in In(r) : t[q] = f[q]
      BY <1>0
    <3>3. IsFiniteSet(In(r))
      BY <1>0, EntriesIn DEF CostedRows
    <3> HIDE DEF t, f, e
    <3> QED
      BY <3>1, <3>2, <3>3, SumSame
  <2>3. Cost(G) = SumOn(e, G) /\ Cost(R) = SumOn(f, R)
    BY DEF Cost
  <2> HIDE DEF f, e
  <2> QED
    BY <2>1, <2>2, <2>3, KeyedSum
<1> QED
  BY <1>2, <1>3, <1>4

LEMMA KeyedSame ==
  ASSUME NEW R, NEW key, NEW new, \A r \in R : key[r] = new[r]
  PROVE  Keyed(R, key) = Keyed(R, new)
<1>1. \A r \in R : Where(R, key, key[r]) = Where(R, new, new[r])
  BY DEF Where
<1>2. \A r \in R : GroupFor(R, key, r) = GroupFor(R, new, r)
  BY <1>1 DEF GroupFor
<1> QED
  BY <1>2 DEF Keyed

\* Keys are a bucket and, where models are kept apart, a model.
KeyedBy(R, key, byModel) == \A r \in R : key[r] = <<key[r][1], IF byModel THEN r.model ELSE 0>>

Named(r) == {r.model} \ {0}

LEMMA GroupForIs ==
  ASSUME NEW R, NEW key, NEW r \in R
  PROVE  /\ GroupFor(R, key, r).bucket = key[r][1]
         /\ r \in Where(R, key, key[r]) /\ Where(R, key, key[r]) \in SUBSET R
         /\ GroupFor(R, key, r).tok = SumTokens(Where(R, key, key[r]))
         /\ GroupFor(R, key, r).cost = Cost(Where(R, key, key[r]))
<1>1. r \in Where(R, key, key[r]) /\ Where(R, key, key[r]) \in SUBSET R
  BY DEF Where
<1> QED
  BY <1>1 DEF GroupFor, Group

LEMMA ModelOfGroup ==
  ASSUME NEW R, NEW key, KeyedBy(R, key, TRUE), NEW r \in R
  PROVE  /\ GroupFor(R, key, r).models = Named(r)
         /\ \A q \in Where(R, key, key[r]) : q.model = r.model
<1>1. ASSUME NEW q \in Where(R, key, key[r]) PROVE q.model = r.model
  <2>1. key[q] = key[r] /\ q \in R
    BY DEF Where
  <2>2. key[q] = <<key[q][1], q.model>> /\ key[r] = <<key[r][1], r.model>>
    BY <2>1 DEF KeyedBy
  <2>3. key[q][2] = q.model /\ key[r][2] = r.model
    BY <2>2
  <2> QED
    BY <2>1, <2>3
<1>2. r \in Where(R, key, key[r])
  BY GroupForIs
<1>3. GroupFor(R, key, r).models = {q.model : q \in Where(R, key, key[r])} \ {0}
  BY DEF GroupFor, Group
<1> QED
  BY <1>1, <1>2, <1>3 DEF Named

LEMMA ModelKeysTold ==
  ASSUME NEW R, NEW key, NEW byModel \in BOOLEAN, KeyedBy(R, key, byModel)
  PROVE  KeysTold(R, key)
<1> SUFFICES ASSUME NEW r \in R, NEW q \in R, GroupFor(R, key, r) = GroupFor(R, key, q) PROVE key[r] = key[q]
  BY DEF KeysTold
<1>1. key[r][1] = key[q][1]
  BY GroupForIs
<1>2. CASE byModel = TRUE
  <2>1. KeyedBy(R, key, TRUE)
    BY <1>2
  <2>2. GroupFor(R, key, r).models = Named(r) /\ GroupFor(R, key, q).models = Named(q)
    BY <2>1, ModelOfGroup
  <2>3. Named(r) = Named(q)
    BY <2>2
  <2>4. r.model = q.model
    BY <2>3 DEF Named
  <2>5. key[r] = <<key[r][1], r.model>> /\ key[q] = <<key[q][1], q.model>>
    BY <2>1 DEF KeyedBy
  <2> QED
    BY <1>1, <2>4, <2>5
<1>3. CASE byModel = FALSE
  <2>1. key[r] = <<key[r][1], 0>> /\ key[q] = <<key[q][1], 0>>
    BY <1>3 DEF KeyedBy
  <2> QED
    BY <1>1, <2>1
<1> QED
  BY <1>2, <1>3

LinesIn(groups, B) == {g \in groups : g.bucket \in B}
RowsWithin(R, key, B) == {r \in R : key[r][1] \in B}

\* The groups of some buckets are the groups of their rows.
LEMMA KeyedWithin ==
  ASSUME NEW R, NEW key, NEW B
  PROVE  LinesIn(Keyed(R, key), B) = Keyed(RowsWithin(R, key, B), key)
<1> DEFINE S == {r \in R : key[r][1] \in B}
<1>1. \A r \in R : GroupFor(R, key, r).bucket = key[r][1]
  BY DEF GroupFor, Group
<1>2. ASSUME NEW r \in S PROVE GroupFor(S, key, r) = GroupFor(R, key, r)
  <2>1. Where(S, key, key[r]) = Where(R, key, key[r])
    BY DEF Where
  <2> QED
    BY <2>1 DEF GroupFor
<1>3. ASSUME NEW g \in Keyed(R, key), g.bucket \in B PROVE g \in Keyed(S, key)
  <2>1. PICK r \in R : g = GroupFor(R, key, r)
    BY DEF Keyed
  <2>2. r \in S
    BY <1>1, <1>3, <2>1
  <2> HIDE DEF S
  <2> QED
    BY <1>2, <2>1, <2>2 DEF Keyed
<1>4. ASSUME NEW g \in Keyed(S, key) PROVE g \in Keyed(R, key) /\ g.bucket \in B
  <2>1. PICK r \in S : g = GroupFor(S, key, r)
    <3> HIDE DEF S
    <3> QED
      BY DEF Keyed
  <2>2. r \in R /\ key[r][1] \in B /\ g = GroupFor(R, key, r)
    BY <1>2, <2>1
  <2> QED
    BY <1>1, <2>2 DEF Keyed
<1> HIDE DEF S
<1>5. LinesIn(Keyed(R, key), B) = Keyed(S, key)
  BY <1>3, <1>4 DEF LinesIn
<1> QED
  BY <1>5 DEF S, RowsWithin

InBucket(groups, b) == {g \in groups : g.bucket = b}
Line(groups, b, mode) ==
  [bucket |-> b, models |-> UNION {g.models : g \in InBucket(groups, b)}, tok |-> SumTokens(InBucket(groups, b)),
   cost |-> SumOn([g \in InBucket(groups, b) |-> CostOfGroup(g, mode)], InBucket(groups, b)),
   last |-> Max({g.last : g \in InBucket(groups, b)})]

LEMMA FoldIs ==
  ASSUME NEW groups, NEW mode
  PROVE  Fold(groups, mode) = {Line(groups, g.bucket, mode) : g \in groups}
<1>1. Fold(groups, mode) = {Line(groups, b, mode) : b \in {g.bucket : g \in groups}}
  BY DEF Fold, Line, InBucket
<1> QED
  BY <1>1

LEMMA FoldWithin ==
  ASSUME NEW groups, NEW mode, NEW B
  PROVE  LinesIn(Fold(groups, mode), B) = Fold(LinesIn(groups, B), mode)
<1> DEFINE S == {g \in groups : g.bucket \in B}
<1>1. ASSUME NEW b \in B PROVE Line(S, b, mode) = Line(groups, b, mode)
  <2>1. InBucket(S, b) = InBucket(groups, b)
    BY DEF InBucket
  <2> QED
    BY <2>1 DEF Line
<1>2. \A b : Line(groups, b, mode).bucket = b
  BY DEF Line
<1>3. /\ Fold(groups, mode) = {Line(groups, g.bucket, mode) : g \in groups}
      /\ Fold(S, mode) = {Line(S, g.bucket, mode) : g \in S}
  BY FoldIs
<1>4. {l \in Fold(groups, mode) : l.bucket \in B} \subseteq Fold(S, mode)
  <2> SUFFICES ASSUME NEW g \in groups, Line(groups, g.bucket, mode).bucket \in B
               PROVE  Line(groups, g.bucket, mode) \in Fold(S, mode)
    BY <1>3
  <2>1. g.bucket \in B
    BY <1>2
  <2> QED
    BY <1>1, <1>3, <2>1
<1>5. Fold(S, mode) \subseteq {l \in Fold(groups, mode) : l.bucket \in B}
  <2> SUFFICES ASSUME NEW g \in S
               PROVE  Line(S, g.bucket, mode) \in Fold(groups, mode) /\ Line(S, g.bucket, mode).bucket \in B
    BY <1>3
  <2>1. Line(S, g.bucket, mode) = Line(groups, g.bucket, mode)
    BY <1>1
  <2> QED
    BY <1>2, <1>3, <2>1
<1> QED
  BY <1>4, <1>5 DEF LinesIn

\* Whatever is told of groups adds up over the lines.
LEMMA FoldSum ==
  ASSUME NEW groups, IsFiniteSet(groups), NEW mode, NEW f, \A g \in groups : f[g] \in Int, NEW e,
         \A g \in groups : e[Line(groups, g.bucket, mode)] = SumOn(f, InBucket(groups, g.bucket))
  PROVE  SumOn(e, Fold(groups, mode)) = SumOn(f, groups) /\ IsFiniteSet(Fold(groups, mode))
<1> DEFINE h == [g \in groups |-> Line(groups, g.bucket, mode)]
<1>1. Onto(h, groups) = Fold(groups, mode)
  BY FoldIs DEF Onto
<1>2. ASSUME NEW g \in groups PROVE e[h[g]] = SumOn(f, Where(groups, h, h[g]))
  <2>1. Where(groups, h, h[g]) = InBucket(groups, g.bucket)
    <3>1. ASSUME NEW q \in groups PROVE h[q] = h[g] <=> q.bucket = g.bucket
      <4>1. \A b : Line(groups, b, mode).bucket = b
        BY DEF Line
      <4> QED
        BY <4>1
    <3> HIDE DEF h
    <3> QED
      BY <3>1 DEF Where, InBucket
  <2> QED
    BY <2>1
<1> HIDE DEF h
<1>3. SumOn(e, Onto(h, groups)) = SumOn(f, groups) /\ IsFiniteSet(Onto(h, groups))
  BY <1>2, SumByGroups
<1> QED
  BY <1>1, <1>3

LEMMA FoldAddsUp ==
  ASSUME NEW groups, IsFiniteSet(groups), \A g \in groups : g.tok \in Nat, NEW mode
  PROVE  SumTokens(Fold(groups, mode)) = SumTokens(groups)
<1> DEFINE F == Fold(groups, mode)
           f == [g \in groups |-> g.tok]
           e == [l \in F |-> l.tok]
<1>1. ASSUME NEW g \in groups PROVE e[Line(groups, g.bucket, mode)] = SumOn(f, InBucket(groups, g.bucket))
  <2> DEFINE G == InBucket(groups, g.bucket)
             t == [q \in G |-> q.tok]
  <2>1. e[Line(groups, g.bucket, mode)] = SumOn(t, G)
    BY FoldIs DEF Line, SumTokens
  <2>2. (\A q \in G : t[q] = f[q]) /\ IsFiniteSet(G)
    <3>1. G \in SUBSET groups
      BY DEF InBucket
    <3> QED
      BY <3>1, FS_Subset
  <2> HIDE DEF t, f, e, G
  <2>3. SumOn(t, G) = SumOn(f, G)
    BY <2>2, SumSame
  <2> QED
    BY <2>1, <2>3 DEF G
<1>2. SumTokens(F) = SumOn(e, F) /\ SumTokens(groups) = SumOn(f, groups) /\ \A g \in groups : f[g] \in Int
  BY DEF SumTokens
<1> HIDE DEF e, f
<1> QED
  BY <1>1, <1>2, FoldSum

LEMMA FoldCharges ==
  ASSUME NEW groups, IsFiniteSet(groups), NEW mode, \A g \in groups : CostOfGroup(g, mode) \in Int
  PROVE  Cost(Fold(groups, mode)) = SumOn([g \in groups |-> CostOfGroup(g, mode)], groups)
<1> DEFINE F == Fold(groups, mode)
           f == [g \in groups |-> CostOfGroup(g, mode)]
           e == [l \in F |-> l.cost]
<1>1. ASSUME NEW g \in groups PROVE e[Line(groups, g.bucket, mode)] = SumOn(f, InBucket(groups, g.bucket))
  <2> DEFINE G == InBucket(groups, g.bucket)
             t == [q \in G |-> CostOfGroup(q, mode)]
  <2>1. e[Line(groups, g.bucket, mode)] = SumOn(t, G)
    BY FoldIs DEF Line
  <2>2. (\A q \in G : t[q] = f[q]) /\ IsFiniteSet(G)
    <3>1. G \in SUBSET groups
      BY DEF InBucket
    <3> QED
      BY <3>1, FS_Subset
  <2> HIDE DEF t, f, e, G
  <2>3. SumOn(t, G) = SumOn(f, G)
    BY <2>2, SumSame
  <2> QED
    BY <2>1, <2>3 DEF G
<1>2. Cost(F) = SumOn(e, F) /\ \A g \in groups : f[g] \in Int
  BY DEF Cost
<1> HIDE DEF e, f
<1>3. SumOn(e, F) = SumOn(f, groups)
  BY <1>1, <1>2, FoldSum
<1> QED
  BY <1>2, <1>3 DEF f

-----------------------------------------------------------------------------
(* The rows of a report.                                                   *)

ScannedInv ==
  /\ IsFiniteSet(scanned)
  /\ \A e \in scanned : /\ e.tok \in Nat /\ e.cost \in Nat /\ e.ts \in 0 .. LastInstant
                        /\ e.copy \in 1 .. MaxScanned /\ e.sess \notin Listed

ReportArgs ==
  [bucket : {"day", "week", "month", "session"}, since : Int, until : Int, platform : {"", "codex"},
   project : {""}, breakdown : BOOLEAN, mode : {"display", "auto", "calculate"}, loc : Zone \cup {UTC},
   start : {1}]

Unlisted(a) == IF a.platform # "" \/ a.bucket = "session" THEN {} ELSE {r \in stored \ Joined(stored) : InWindow(r, a)}

SqlKey(R, a, byModel) == [r \in R |-> <<bucketExpr(a, r), IF byModel THEN r.model ELSE 0>>]
MemoryKey(R, a, byModel) == [r \in R |-> <<bucketKey(a, r), IF byModel THEN r.model ELSE 0>>]

LEMMA AggregateIs ==
  ASSUME NEW a, NEW byModel
  PROVE  AggregateUsage(a, byModel) = Keyed(UsageOf(a), SqlKey(UsageOf(a), a, byModel))
BY DEF AggregateUsage, GroupRows, Keyed, GroupFor, Where, SqlKey

LEMMA InMemoryIs ==
  ASSUME NEW R, NEW a, NEW byModel
  PROVE  aggregateEntriesInMemory(R, a, byModel) = Keyed(R, MemoryKey(R, a, byModel))
BY DEF aggregateEntriesInMemory, GroupRows, Keyed, GroupFor, Where, MemoryKey

LEMMA RowsAre ==
  ASSUME RowsTyped(stored), ScannedInv, NEW a \in ReportArgs
  PROVE  /\ listUsageForBlocks(a) \in SUBSET stored /\ Unlisted(a) \in SUBSET stored
         /\ UsageOf(a) = listUsageForBlocks(a) \cup Unlisted(a) /\ listUsageForBlocks(a) \cap Unlisted(a) = {}
         /\ listUsageForBlocks(a) \cap scanned = {} /\ fromAdapters(a) \in SUBSET scanned
         /\ CostedRows(stored) /\ CostedRows(scanned)
<1>1. listUsageForBlocks(a) \in SUBSET Joined(stored) /\ Joined(stored) \in SUBSET stored
  BY DEF listUsageForBlocks, Joined
<1>2. Joined(stored) \cap scanned = {}
  BY DEF Joined, ScannedInv
<1>3. CostedRows(stored) /\ CostedRows(scanned)
  <2>1. \A r \in stored : r.tok \in Nat /\ r.cost \in Nat /\ r.ts \in Int
    BY RowIs DEF RowsTyped
  <2>2. \A r \in scanned : r.tok \in Nat /\ r.cost \in Nat /\ r.ts \in Int
    BY LengthsPositive DEF ScannedInv
  <2> QED
    BY <2>1, <2>2 DEF CostedRows, RowsTyped, ScannedInv
<1>4. a.project = ""
  BY DEF ReportArgs
<1>5. CASE a.platform # "" \/ a.bucket = "session"
  <2>1. UsageOf(a) = listUsageForBlocks(a) /\ Unlisted(a) = {}
    BY <1>5 DEF UsageOf, Unlisted
  <2> QED
    BY <1>1, <1>2, <1>3, <2>1 DEF fromAdapters
<1>6. CASE ~(a.platform # "" \/ a.bucket = "session")
  <2>1. UsageOf(a) = {r \in stored : InWindow(r, a)}
    BY <1>4, <1>6 DEF UsageOf
  <2>2. listUsageForBlocks(a) = {r \in Joined(stored) : InWindow(r, a)}
    BY <1>4, <1>6 DEF listUsageForBlocks, Filters
  <2>3. Unlisted(a) = {r \in stored \ Joined(stored) : InWindow(r, a)}
    BY <1>6 DEF Unlisted
  <2> QED
    BY <1>1, <1>2, <1>3, <2>1, <2>2, <2>3 DEF fromAdapters
<1> QED
  BY <1>5, <1>6

LEMMA TokensTogether ==
  ASSUME NEW R, NEW S, CostedRows(R), CostedRows(S), R \cap S = {}
  PROVE  SumTokens(R \cup S) = SumTokens(R) + SumTokens(S) /\ CostedRows(R \cup S)
<1> DEFINE B == R \cup S
           f == [r \in B |-> r.tok]
           g == [r \in R |-> r.tok]
           h == [r \in S |-> r.tok]
<1>1. \A r \in R \cup S : f[r] \in Int
  BY DEF CostedRows
<1>2. (\A r \in R : f[r] = g[r]) /\ (\A r \in S : f[r] = h[r])
  OBVIOUS
<1>3. SumTokens(B) = SumOn(f, B) /\ SumTokens(R) = SumOn(g, R) /\ SumTokens(S) = SumOn(h, S)
  BY DEF SumTokens
<1>4. CostedRows(B)
  BY FS_Union DEF CostedRows
<1> HIDE DEF f, g, h
<1>5. SumOn(f, R \cup S) = SumOn(f, R) + SumOn(f, S)
  BY <1>1, SumUnion DEF CostedRows
<1>6. SumOn(f, R) = SumOn(g, R) /\ SumOn(f, S) = SumOn(h, S)
  BY <1>2, SumSame DEF CostedRows
<1> QED
  BY <1>3, <1>4, <1>5, <1>6

LEMMA KeysAre ==
  ASSUME NEW R, NEW a, NEW byModel
  PROVE  KeyedBy(R, SqlKey(R, a, byModel), byModel) /\ KeyedBy(R, MemoryKey(R, a, byModel), byModel)
BY DEF KeyedBy, SqlKey, MemoryKey

LEMMA SqlAddsUp ==
  ASSUME NEW a, NEW byModel \in BOOLEAN, CostedRows(UsageOf(a))
  PROVE  SumTokens(AggregateUsage(a, byModel)) = SumTokens(UsageOf(a))
<1> DEFINE key == SqlKey(UsageOf(a), a, byModel)
<1>1. KeysTold(UsageOf(a), key)
  <2> HIDE DEF key
  <2>1. KeyedBy(UsageOf(a), key, byModel)
    BY KeysAre DEF key
  <2> QED
    BY <2>1, ModelKeysTold
<1>2. AggregateUsage(a, byModel) = Keyed(UsageOf(a), key)
  BY AggregateIs
<1> HIDE DEF key
<1> QED
  BY <1>1, <1>2, KeyedAddsUp

LEMMA MemoryAddsUp ==
  ASSUME NEW R, CostedRows(R), NEW a, NEW byModel \in BOOLEAN
  PROVE  /\ SumTokens(aggregateEntriesInMemory(R, a, byModel)) = SumTokens(R)
         /\ IsFiniteSet(aggregateEntriesInMemory(R, a, byModel))
         /\ \A g \in aggregateEntriesInMemory(R, a, byModel) : g.tok \in Nat /\ g.cost \in Nat
<1> DEFINE key == MemoryKey(R, a, byModel)
<1>1. KeysTold(R, key)
  <2> HIDE DEF key
  <2>1. KeyedBy(R, key, byModel)
    BY KeysAre DEF key
  <2> QED
    BY <2>1, ModelKeysTold
<1>2. aggregateEntriesInMemory(R, a, byModel) = Keyed(R, key)
  BY InMemoryIs
<1> HIDE DEF key
<1> QED
  BY <1>1, <1>2, KeyedAddsUp

LEMMA ByModelIs == \A a \in ReportArgs : ByModel(a) \in BOOLEAN
BY DEF ByModel, ReportArgs

\* The keys of a row are the same, if the zone has kept its offset.
LEMMA SameKeys ==
  ASSUME NEW a \in ReportArgs, NEW R, NEW byModel,
         (\A r \in R : OffsetAt(a.loc, r.ts) = OffsetAt(a.loc, instant)) \/ a.bucket = "session"
  PROVE  Keyed(R, SqlKey(R, a, byModel)) = Keyed(R, MemoryKey(R, a, byModel))
<1>1. ASSUME NEW r \in R PROVE bucketExpr(a, r) = bucketKey(a, r)
  <2>1. CASE a.bucket = "session"
    BY <2>1 DEF bucketExpr, bucketKey
  <2>2. CASE a.bucket # "session"
    <3>1. OffsetAt(a.loc, r.ts) = OffsetAt(a.loc, instant)
      BY <2>2
    <3>2. LocalDay(a.loc, r.ts) = (r.ts + OffsetAt(a.loc, r.ts)) \div DayLen
      BY DEF LocalDay, OffsetAt
    <3>3. bucketExpr(a, r) = Calendar(a.bucket, (r.ts + OffsetAt(a.loc, instant)) \div DayLen, a.start)
      BY <2>2 DEF bucketExpr, OffsetAt
    <3>4. bucketKey(a, r) = Calendar(a.bucket, LocalDay(a.loc, r.ts), a.start)
      BY <2>2 DEF bucketKey
    <3> QED
      BY <3>1, <3>2, <3>3, <3>4
  <2> QED
    BY <2>1, <2>2
<1>2. \A r \in R : SqlKey(R, a, byModel)[r] = MemoryKey(R, a, byModel)[r]
  BY <1>1 DEF SqlKey, MemoryKey
<1> QED
  BY <1>2, KeyedSame

LEMMA MatchAt ==
  ASSUME RowsTyped(stored), ScannedInv, NEW a \in ReportArgs, NEW byModel \in BOOLEAN
  PROVE  /\ ((\A r \in stored : OffsetAt(a.loc, r.ts) = OffsetAt(a.loc, instant)) \/ a.bucket = "session")
              /\ Unlisted(a) = {} => AggregateUsage(a, byModel)
                                      = aggregateEntriesInMemory(listUsageForBlocks(a), a, byModel)
         /\ SumTokens(AggregateUsage(a, byModel)) =
              SumTokens(aggregateEntriesInMemory(listUsageForBlocks(a), a, byModel)) + SumTokens(Unlisted(a))
         /\ SumTokens(RunAggregateAllSource(a)) =
              SumTokens(aggregateEntriesInMemory(listUsageForBlocks(a), a, byModel)) + SumTokens(fromAdapters(a))
<1> DEFINE L == listUsageForBlocks(a)
           M == Unlisted(a)
           W == fromAdapters(a)
           Summed == UsageOf(a)
<1>1. /\ L \in SUBSET stored /\ M \in SUBSET stored /\ Summed = L \cup M /\ L \cap M = {}
      /\ L \cap W = {} /\ CostedRows(L) /\ CostedRows(M) /\ CostedRows(W)
  <2>1. /\ L \in SUBSET stored /\ M \in SUBSET stored /\ Summed = L \cup M /\ L \cap M = {}
        /\ L \cap scanned = {} /\ W \in SUBSET scanned /\ CostedRows(stored) /\ CostedRows(scanned)
    BY RowsAre
  <2> QED
    BY <2>1, EntriesIn
<1>2. SumTokens(Summed) = SumTokens(L) + SumTokens(M) /\ CostedRows(Summed)
  BY <1>1, TokensTogether
<1>3. SumTokens(L \cup W) = SumTokens(L) + SumTokens(W) /\ CostedRows(L \cup W)
  BY <1>1, TokensTogether
<1>4. SumTokens(aggregateEntriesInMemory(L, a, byModel)) = SumTokens(L)
  BY <1>1, MemoryAddsUp
<1>5. SumTokens(AggregateUsage(a, byModel)) = SumTokens(Summed)
  BY <1>2, SqlAddsUp
<1>6. SumTokens(RunAggregateAllSource(a)) = SumTokens(L \cup W)
  <2> DEFINE groups == aggregateEntriesInMemory(L \cup W, a, ByModel(a))
  <2>1. RunAggregateAllSource(a) = Fold(groups, a.mode)
    BY DEF RunAggregateAllSource
  <2>2. SumTokens(groups) = SumTokens(L \cup W) /\ IsFiniteSet(groups) /\ \A g \in groups : g.tok \in Nat
    BY <1>3, ByModelIs, MemoryAddsUp
  <2> HIDE DEF groups
  <2> QED
    BY <2>1, <2>2, FoldAddsUp
<1>7. ASSUME (\A r \in stored : OffsetAt(a.loc, r.ts) = OffsetAt(a.loc, instant)) \/ a.bucket = "session", M = {}
      PROVE  AggregateUsage(a, byModel) = aggregateEntriesInMemory(L, a, byModel)
  <2>1. Summed = L
    BY <1>1, <1>7
  <2>2. Keyed(L, SqlKey(L, a, byModel)) = Keyed(L, MemoryKey(L, a, byModel))
    BY <1>1, <1>7, SameKeys
  <2> QED
    BY <2>1, <2>2, AggregateIs, InMemoryIs
<1> QED
  BY <1>2, <1>3, <1>4, <1>5, <1>6, <1>7

LEMMA ReportDayIs ==
  /\ \A d \in ReportDay : d \in Int
  /\ LastInstant \div DayLen \in Int
<1>1. LastInstant \div DayLen \in Int
  BY LengthsPositive, DayDivides
<1> QED
  BY <1>1 DEF ReportDay

LEMMA AnyDateIs == AnyDate \in Int
BY DEF AnyDate

LEMMA ArgsAre ==
  ASSUME NEW args \in Args, NEW platform \in {"", "codex"}
  PROVE  [args EXCEPT !.platform = platform] \in ReportArgs
         /\ [args EXCEPT !.platform = platform].platform = platform
<1> DEFINE b == [args EXCEPT !.platform = platform]
<1>1. args \in Args /\ AnyDate \in Int
  BY AnyDateIs
<1>2. args \in [bucket : {"day", "week", "month", "session"}, since : Int, until : Int,
                platform : {"", "codex"}, project : {""}, breakdown : BOOLEAN,
                mode : {"display", "auto", "calculate"}, loc : Zone \cup {UTC}, start : {1}]
  BY <1>1 DEF Args
<1>3. args \in ReportArgs
  BY <1>2 DEF ReportArgs
<1> QED
  BY <1>3 DEF ReportArgs

LEMMA OneDayIs ==
  ASSUME NEW b \in ReportArgs, NEW d \in Int
  PROVE  /\ OneDay(b, d) \in ReportArgs
         /\ OneDay(b, d) = [b EXCEPT !.since = d, !.until = d]
         /\ OneDay(b, d).platform = b.platform /\ OneDay(b, d).since = d /\ OneDay(b, d).until = d
         /\ OneDay(b, d).bucket = b.bucket /\ OneDay(b, d).loc = b.loc /\ OneDay(b, d).start = b.start
         /\ OneDay(b, d).mode = b.mode /\ OneDay(b, d).breakdown = b.breakdown
BY DEF OneDay, ReportArgs

LEMMA SqlMatches ==
  ASSUME RowsTyped(stored), ScannedInv
  PROVE  SqlMatchesMemory
<1> SUFFICES ASSUME NEW args \in Args, NEW platform \in {"", "codex"},
                    NEW a \in {[args EXCEPT !.platform = platform]}
                              \cup {OneDay([args EXCEPT !.platform = platform], d) : d \in ReportDay}
             PROVE  LET byModel == platform = ""
                        sql == AggregateUsage(a, byModel)
                        memory == aggregateEntriesInMemory(listUsageForBlocks(a), a, byModel)
                        sameOffset == \A r \in stored : OffsetAt(a.loc, r.ts) = OffsetAt(a.loc, instant)
                        missing == IF platform # "" \/ a.bucket = "session" THEN {}
                                   ELSE {r \in stored \ Joined(stored) : InWindow(r, a)}
                    IN /\ (sameOffset \/ a.bucket = "session") /\ missing = {} => sql = memory
                       /\ SumTokens(sql) = SumTokens(memory) + SumTokens(missing)
                       /\ SumTokens(RunAggregateAllSource(a)) =
                            SumTokens(memory) + SumTokens(fromAdapters(a))
  BY DEF SqlMatchesMemory
<1>1. a \in ReportArgs /\ a.platform = platform
  <2> DEFINE b == [args EXCEPT !.platform = platform]
  <2>1. b \in ReportArgs /\ b.platform = platform
    BY ArgsAre
  <2>2. a = b \/ \E d \in ReportDay : a = OneDay(b, d)
    OBVIOUS
  <2> HIDE DEF b
  <2>3. \A d \in ReportDay : OneDay(b, d) \in ReportArgs /\ OneDay(b, d).platform = platform
    BY <2>1, ReportDayIs, OneDayIs
  <2> QED
    BY <2>1, <2>2, <2>3
<1> DEFINE byModel == platform = ""
<1>2. byModel \in BOOLEAN
  OBVIOUS
<1>3. Unlisted(a) = IF platform # "" \/ a.bucket = "session" THEN {}
                   ELSE {r \in stored \ Joined(stored) : InWindow(r, a)}
  BY <1>1 DEF Unlisted
<1> HIDE DEF byModel
<1>4. /\ ((\A r \in stored : OffsetAt(a.loc, r.ts) = OffsetAt(a.loc, instant)) \/ a.bucket = "session")
         /\ Unlisted(a) = {} => AggregateUsage(a, byModel)
                                 = aggregateEntriesInMemory(listUsageForBlocks(a), a, byModel)
      /\ SumTokens(AggregateUsage(a, byModel)) =
           SumTokens(aggregateEntriesInMemory(listUsageForBlocks(a), a, byModel)) + SumTokens(Unlisted(a))
      /\ SumTokens(RunAggregateAllSource(a)) =
           SumTokens(aggregateEntriesInMemory(listUsageForBlocks(a), a, byModel)) + SumTokens(fromAdapters(a))
  BY <1>1, <1>2, MatchAt
<1> QED
  BY <1>3, <1>4 DEF byModel

LEMMA InUTCIs ==
  ASSUME NEW bucket \in {"day", "week", "month", "session"}
  PROVE  /\ InUTC(bucket) \in ReportArgs /\ InUTC(bucket).bucket = bucket /\ InUTC(bucket).loc = UTC
         /\ InUTC(bucket).since = AnyDate /\ InUTC(bucket).until = AnyDate /\ InUTC(bucket).platform = ""
<1> DEFINE b == [bucket |-> bucket, since |-> AnyDate, until |-> AnyDate, platform |-> "", project |-> "",
                 breakdown |-> FALSE, mode |-> "display", loc |-> UTC, start |-> 1]
           a == InUTC(bucket)
<1>1. b \in Args /\ b.bucket = bucket /\ b.loc = UTC
  BY DEF Args
<1> HIDE DEF b
<1>2. a \in Args /\ a.bucket = bucket /\ a.loc = UTC
  BY <1>1 DEF InUTC
<1> HIDE DEF a
<1>3. a.since = AnyDate /\ a.until = AnyDate /\ a.platform = ""
  BY <1>2 DEF Args
<1>4. a \in [bucket : {"day", "week", "month", "session"}, since : Int, until : Int,
             platform : {"", "codex"}, project : {""}, breakdown : BOOLEAN,
             mode : {"display", "auto", "calculate"}, loc : Zone \cup {UTC}, start : {1}]
  BY <1>2, AnyDateIs DEF Args
<1>5. a \in ReportArgs
  BY <1>4 DEF ReportArgs
<1> QED
  BY <1>2, <1>3, <1>5 DEF a

\* All that happened, with the mode and the breakdown of a report.
Everything(a) ==
  /\ a \in ReportArgs /\ a.loc = UTC /\ a.since = AnyDate /\ a.until = AnyDate /\ a.platform = ""

LEMMA EverythingIs ==
  ASSUME NEW bucket \in {"day", "session"}, NEW mode \in {"display", "auto", "calculate"}, NEW byModel \in BOOLEAN
  PROVE  /\ Everything([InUTC(bucket) EXCEPT !.mode = mode])
         /\ [InUTC(bucket) EXCEPT !.mode = mode].mode = mode
         /\ [InUTC(bucket) EXCEPT !.mode = mode].bucket = bucket
         /\ Everything([InUTC(bucket) EXCEPT !.mode = mode, !.breakdown = byModel])
         /\ [InUTC(bucket) EXCEPT !.mode = mode, !.breakdown = byModel].mode = mode
         /\ [InUTC(bucket) EXCEPT !.mode = mode, !.breakdown = byModel].bucket = bucket
         /\ [InUTC(bucket) EXCEPT !.mode = mode, !.breakdown = byModel].breakdown = byModel
<1>1. /\ InUTC(bucket) \in ReportArgs /\ InUTC(bucket).bucket = bucket /\ InUTC(bucket).loc = UTC
      /\ InUTC(bucket).since = AnyDate /\ InUTC(bucket).until = AnyDate /\ InUTC(bucket).platform = ""
  BY InUTCIs
<1> DEFINE a == InUTC(bucket)
<1> HIDE DEF a
<1>2. ASSUME a \in ReportArgs, a.bucket = bucket, a.loc = UTC, a.since = AnyDate, a.until = AnyDate, a.platform = ""
      PROVE  /\ Everything([a EXCEPT !.mode = mode])
             /\ [a EXCEPT !.mode = mode].mode = mode
             /\ [a EXCEPT !.mode = mode].bucket = bucket
             /\ Everything([a EXCEPT !.mode = mode, !.breakdown = byModel])
             /\ [a EXCEPT !.mode = mode, !.breakdown = byModel].mode = mode
             /\ [a EXCEPT !.mode = mode, !.breakdown = byModel].bucket = bucket
             /\ [a EXCEPT !.mode = mode, !.breakdown = byModel].breakdown = byModel
  <2> DEFINE b == [a EXCEPT !.mode = mode]
             c == [a EXCEPT !.mode = mode, !.breakdown = byModel]
  <2>1. b \in ReportArgs /\ c \in ReportArgs
    BY <1>2 DEF ReportArgs
  <2>2. DOMAIN a = {"bucket", "since", "until", "platform", "project", "breakdown", "mode", "loc", "start"}
    BY <1>2 DEF ReportArgs
  <2>3. b.mode = mode /\ b.bucket = bucket /\ b.loc = UTC /\ b.since = AnyDate /\ b.until = AnyDate /\ b.platform = ""
    BY <1>2, <2>2
  <2>4. c.mode = mode /\ c.bucket = bucket /\ c.loc = UTC /\ c.since = AnyDate /\ c.until = AnyDate /\ c.platform = ""
        /\ c.breakdown = byModel
    BY <1>2, <2>2
  <2> HIDE DEF b, c
  <2>5. Everything(b) /\ Everything(c)
    BY <2>1, <2>3, <2>4 DEF Everything
  <2> QED
    BY <2>3, <2>4, <2>5 DEF b, c
<1> QED
  BY <1>1, <1>2 DEF a

LEMMA EverythingShown ==
  ASSUME ScannedInv, NEW a, Everything(a)
  PROVE  listUsageForBlocks(a) = Joined(stored) /\ fromAdapters(a) = scanned
<1>1. \A r : InWindow(r, a)
  BY DEF Everything, InWindow, parseDateFlag, ParseDateFlagUntil
<1>2. ParseDateFlagUntil(a.until) = AnyDate /\ \A e \in scanned : e.ts # AnyDate
  <2>1. ParseDateFlagUntil(a.until) = AnyDate
    BY DEF Everything, ParseDateFlagUntil
  <2>2. \A e \in scanned : e.ts \in 0 .. LastInstant
    BY DEF ScannedInv
  <2>3. \A t \in 0 .. LastInstant : t # AnyDate
    BY LengthsPositive DEF AnyDate
  <2> QED
    BY <2>1, <2>2, <2>3
<1>3. a.project = ""
  BY DEF Everything, ReportArgs
<1> QED
  BY <1>1, <1>2, <1>3 DEF Everything, listUsageForBlocks, Filters, fromAdapters

LEMMA UTCDay ==
  ASSUME NEW t \in Int, NEW d \in Int
  PROVE  /\ LocalDay(UTC, t) \in Int /\ LocalDay(UTC, t) = t \div DayLen
         /\ LocalDay(UTC, t) >= d <=> t >= d * DayLen
<1>1. LocalDay(UTC, t) = (t + 0) \div DayLen
  BY DEF LocalDay, UTC
<1>2. t + 0 = t
  OBVIOUS
<1> QED
  BY <1>1, <1>2, DayDivides

\* The rows that a day asks for: its own, and those of the midnight after.
LEMMA OneDayShows ==
  ASSUME NEW a, Everything(a), NEW d \in ReportDay, NEW r, r.ts \in Int
  PROVE  /\ InWindow(r, OneDay(a, d)) <=> LocalDay(UTC, r.ts) = d \/ r.ts = (d + 1) * DayLen
         /\ r.ts = (d + 1) * DayLen => LocalDay(UTC, r.ts) # d
         /\ ParseDateFlagUntil(OneDay(a, d).until) = (d + 1) * DayLen
<1> DEFINE o == OneDay(a, d)
           p == d * DayLen
<1>1. d \in Int /\ d >= 0
  BY ReportDayIs DEF ReportDay
<1>2. o.since = d /\ o.until = d
  BY <1>1, OneDayIs DEF Everything
<1>3. p \in Int /\ p >= 0 /\ (d + 1) * DayLen = p + DayLen
  BY <1>1, LengthsPositive
<1>4. parseDateFlag(d) = p /\ ParseDateFlagUntil(d) = p + DayLen /\ p # AnyDate /\ p + DayLen # AnyDate
  <2>1. d # AnyDate /\ p # AnyDate /\ p + DayLen # AnyDate
    BY <1>1, <1>3, LengthsPositive DEF AnyDate
  <2> QED
    BY <2>1 DEF parseDateFlag, ParseDateFlagUntil
<1>5. InWindow(r, o) <=> r.ts >= p /\ r.ts <= p + DayLen
  BY <1>2, <1>4 DEF InWindow
<1>6. /\ LocalDay(UTC, r.ts) \in Int
      /\ LocalDay(UTC, r.ts) >= d <=> r.ts >= p
      /\ LocalDay(UTC, r.ts) >= d + 1 <=> r.ts >= p + DayLen
  BY <1>1, <1>3, UTCDay
<1>7. ParseDateFlagUntil(o.until) = (d + 1) * DayLen
  BY <1>2, <1>3, <1>4
<1> HIDE DEF p, o
<1> QED
  BY <1>1, <1>3, <1>5, <1>6, <1>7, LengthsPositive DEF o

\* A report over keys of its own, bucket by bucket.
LEMMA LinesOf ==
  ASSUME NEW R, CostedRows(R), NEW key, KeyedBy(R, key, TRUE), NEW mode, NEW B
  PROVE  /\ LinesIn(Fold(Keyed(R, key), mode), B) = Fold(Keyed(RowsWithin(R, key, B), key), mode)
         /\ SumTokens(Fold(Keyed(RowsWithin(R, key, B), key), mode)) = SumTokens(RowsWithin(R, key, B))
<1> DEFINE S == RowsWithin(R, key, B)
<1>1. LinesIn(Fold(Keyed(R, key), mode), B) = Fold(LinesIn(Keyed(R, key), B), mode)
  BY FoldWithin
<1>2. LinesIn(Keyed(R, key), B) = Keyed(S, key)
  BY KeyedWithin
<1>3. CostedRows(S) /\ KeyedBy(S, key, TRUE)
  <2>1. S \in SUBSET R
    BY DEF RowsWithin
  <2> HIDE DEF S
  <2>2. CostedRows(S)
    BY <2>1, EntriesIn
  <2>3. KeyedBy(S, key, TRUE)
    BY <2>1 DEF KeyedBy
  <2> QED
    BY <2>2, <2>3
<1> HIDE DEF S
<1>4. KeysTold(S, key)
  BY <1>3, ModelKeysTold
<1>5. SumTokens(Keyed(S, key)) = SumTokens(S) /\ IsFiniteSet(Keyed(S, key)) /\ \A g \in Keyed(S, key) : g.tok \in Nat
  BY <1>3, <1>4, KeyedAddsUp
<1>6. SumTokens(Fold(Keyed(S, key), mode)) = SumTokens(S)
  BY <1>5, FoldAddsUp
<1> QED
  BY <1>1, <1>2, <1>6 DEF S

\* The lines of some buckets are those of their rows.
SplitLines(R, key, mode, B) ==
  LET L == LinesIn(Fold(Keyed(R, key), mode), B)
      S == RowsWithin(R, key, B)
  IN L = Fold(Keyed(S, key), mode) /\ SumTokens(L) = SumTokens(S)

LEMMA LinesWithin ==
  ASSUME NEW R, CostedRows(R), NEW key, KeyedBy(R, key, TRUE), NEW mode, NEW B
  PROVE  SplitLines(R, key, mode, B)
<1>1. /\ LinesIn(Fold(Keyed(R, key), mode), B) = Fold(Keyed(RowsWithin(R, key, B), key), mode)
      /\ SumTokens(Fold(Keyed(RowsWithin(R, key, B), key), mode)) = SumTokens(RowsWithin(R, key, B))
  BY LinesOf, Zenon
<1> QED
  BY <1>1 DEF SplitLines

-----------------------------------------------------------------------------
(* The days of a report.                                                   *)

\* A day that is asked for: which rows are shown, and by which keys.
LEMMA DayReport ==
  ASSUME RowsTyped(stored), ScannedInv, NEW a, Everything(a), a.bucket = "day", a.mode = "auto",
         NEW o, o \in ReportArgs, o.bucket = "day", o.mode = "auto", o.loc = UTC,
         NEW key, \A r \in Joined(stored) \cup scanned : key[r] = <<LocalDay(UTC, r.ts), r.model>>
  PROVE  LET Y == listUsageForBlocks(o) \cup fromAdapters(o)
         IN /\ RunAggregateAllSource(o) = Fold(Keyed(Y, key), "auto")
            /\ CostedRows(Y) /\ KeyedBy(Y, key, TRUE) /\ Y \in SUBSET (Joined(stored) \cup scanned)
            /\ \A r \in Y : key[r][1] = LocalDay(UTC, r.ts)
<1> DEFINE X == Joined(stored) \cup scanned
           Y == listUsageForBlocks(o) \cup fromAdapters(o)
<1>1. Y \in SUBSET X
  BY DEF listUsageForBlocks, fromAdapters
<1>2. CostedRows(Y)
  <2>1. CostedRows(listUsageForBlocks(o)) /\ CostedRows(fromAdapters(o)) /\ listUsageForBlocks(o) \cap fromAdapters(o) = {}
    BY RowsAre, EntriesIn
  <2> QED
    BY <2>1, TokensTogether
<1>3. \A r \in Y : key[r] = <<LocalDay(UTC, r.ts), r.model>>
  BY <1>1
<1>4. \A r \in Y : key[r][1] = LocalDay(UTC, r.ts)
  <2> HIDE DEF Y
  <2> TAKE r \in Y
  <2>1. key[r] = <<LocalDay(UTC, r.ts), r.model>>
    BY <1>3
  <2> QED
    BY <2>1
<1>5. KeyedBy(Y, key, TRUE)
  BY <1>3, <1>4 DEF KeyedBy
<1>6. RunAggregateAllSource(o) = Fold(Keyed(Y, MemoryKey(Y, o, TRUE)), "auto")
  <2>1. ByModel(o) = TRUE
    BY DEF ByModel
  <2>2. RunAggregateAllSource(o) = Fold(aggregateEntriesInMemory(Y, o, ByModel(o)), o.mode)
    BY DEF RunAggregateAllSource
  <2> HIDE DEF Y
  <2> QED
    BY <2>1, <2>2, InMemoryIs
<1>7. \A r \in Y : MemoryKey(Y, o, TRUE)[r] = key[r]
  <2> TAKE r \in Y
  <2>1. bucketKey(o, r) = LocalDay(UTC, r.ts)
    BY DEF bucketKey, Calendar
  <2>2. MemoryKey(Y, o, TRUE)[r] = <<bucketKey(o, r), r.model>>
    <3> HIDE DEF Y
    <3> QED
      BY DEF MemoryKey
  <2> QED
    BY <1>3, <2>1, <2>2
<1> HIDE DEF Y
<1>8. Keyed(Y, MemoryKey(Y, o, TRUE)) = Keyed(Y, key)
  <2> DEFINE memory == MemoryKey(Y, o, TRUE)
  <2>1. \A r \in Y : memory[r] = key[r]
    BY <1>7
  <2> HIDE DEF memory
  <2>2. Keyed(Y, memory) = Keyed(Y, key)
    BY <2>1, KeyedSame
  <2> QED
    BY <2>2 DEF memory
<1> QED
  BY <1>1, <1>2, <1>4, <1>5, <1>6, <1>8 DEF Y

LEMMA DaysAreComplete ==
  ASSUME RowsTyped(stored), ScannedInv
  PROVE  DaysComplete
<1> DEFINE all == [InUTC("day") EXCEPT !.mode = "auto"]
           X == Joined(stored) \cup scanned
           Midnight == Joined(stored) \cup {e \in scanned : e.sess \notin DropsEnd}
           key == [r \in X |-> <<LocalDay(UTC, r.ts), r.model>>]
<1>1. Everything(all) /\ all.mode = "auto" /\ all.bucket = "day"
  BY EverythingIs
<1> HIDE DEF all
<1> SUFFICES ASSUME NEW d \in ReportDay
             PROVE  LET day == RunAggregateAllSource(OneDay(all, d))
                    IN /\ {l \in day : l.bucket = d} = {l \in RunAggregateAllSource(all) : l.bucket = d}
                       /\ SumTokens({l \in day : l.bucket # d})
                            = SumTokens({r \in Midnight : r.ts = (d + 1) * DayLen})
  BY DEF DaysComplete, all
<1> DEFINE o == OneDay(all, d)
           Y == listUsageForBlocks(o) \cup fromAdapters(o)
<1>2. o \in ReportArgs /\ o.bucket = "day" /\ o.mode = "auto" /\ o.loc = UTC /\ o.platform = "" /\ o.project = ""
  <2>1. all \in ReportArgs /\ d \in Int /\ all.platform = "" /\ all.loc = UTC
    BY <1>1, ReportDayIs DEF Everything
  <2>2. o \in ReportArgs
    BY <2>1, OneDayIs
  <2>3. o.bucket = "day" /\ o.mode = "auto" /\ o.loc = UTC /\ o.platform = ""
    BY <1>1, <2>1, OneDayIs
  <2> HIDE DEF o
  <2>4. o.project = ""
    BY <2>2 DEF ReportArgs
  <2> QED
    BY <2>2, <2>3, <2>4
<1>3. /\ RunAggregateAllSource(o) = Fold(Keyed(Y, key), "auto")
      /\ CostedRows(Y) /\ KeyedBy(Y, key, TRUE) /\ Y \in SUBSET X
      /\ \A r \in Y : key[r][1] = LocalDay(UTC, r.ts)
  <2> HIDE DEF o
  <2>1. \A r \in Joined(stored) \cup scanned : key[r] = <<LocalDay(UTC, r.ts), r.model>>
    OBVIOUS
  <2> HIDE DEF key
  <2> QED
    BY <1>1, <1>2, <2>1, DayReport
<1>4. /\ RunAggregateAllSource(all) = Fold(Keyed(X, key), "auto")
      /\ CostedRows(X) /\ KeyedBy(X, key, TRUE) /\ \A r \in X : key[r][1] = LocalDay(UTC, r.ts)
  <2>1. \A r \in Joined(stored) \cup scanned : key[r] = <<LocalDay(UTC, r.ts), r.model>>
    OBVIOUS
  <2>2. all \in ReportArgs /\ all.loc = UTC
    BY <1>1 DEF Everything
  <2> HIDE DEF key
  <2>3. LET Z == listUsageForBlocks(all) \cup fromAdapters(all)
        IN /\ RunAggregateAllSource(all) = Fold(Keyed(Z, key), "auto")
           /\ CostedRows(Z) /\ KeyedBy(Z, key, TRUE) /\ Z \in SUBSET (Joined(stored) \cup scanned)
           /\ \A r \in Z : key[r][1] = LocalDay(UTC, r.ts)
    BY <1>1, <2>1, <2>2, DayReport
  <2>4. listUsageForBlocks(all) \cup fromAdapters(all) = X
    BY <1>1, EverythingShown
  <2> QED
    BY <2>3, <2>4
<1>5. \A r \in X : r.ts \in Int
  BY <1>4 DEF CostedRows
<1>6. \A r \in X : r.ts = (d + 1) * DayLen => LocalDay(UTC, r.ts) # d
  BY <1>1, <1>5, OneDayShows
<1>7. \A r \in X : r \in Y <=> LocalDay(UTC, r.ts) = d \/ (r.ts = (d + 1) * DayLen /\ r \in Midnight)
  <2> TAKE r \in X
  <2>1. /\ InWindow(r, o) <=> LocalDay(UTC, r.ts) = d \/ r.ts = (d + 1) * DayLen
        /\ ParseDateFlagUntil(o.until) = (d + 1) * DayLen
    BY <1>1, <1>5, OneDayShows
  <2>2. r \in listUsageForBlocks(o) <=> r \in Joined(stored) /\ InWindow(r, o)
    BY <1>2 DEF listUsageForBlocks, Filters
  <2>3. r \in fromAdapters(o)
          <=> r \in scanned /\ InWindow(r, o) /\ (r.sess \in DropsEnd => r.ts # ParseDateFlagUntil(o.until))
    BY DEF fromAdapters
  <2> HIDE DEF o
  <2> QED
    BY <1>6, <2>1, <2>2, <2>3
<1>8. \A r \in X : LocalDay(UTC, r.ts) \in Int
  <2>1. d \in Int
    BY ReportDayIs
  <2> QED
    BY <1>5, <2>1, UTCDay
<1>14. Midnight \in SUBSET X
  OBVIOUS
<1> HIDE DEF X, Y, key, o, Midnight
<1>9. RowsWithin(Y, key, {d}) = RowsWithin(X, key, {d})
  BY <1>3, <1>4, <1>7 DEF RowsWithin
<1>10. RowsWithin(Y, key, Int \ {d}) = {r \in Midnight : r.ts = (d + 1) * DayLen}
  BY <1>3, <1>6, <1>7, <1>8, <1>14 DEF RowsWithin
<1>11. {l \in RunAggregateAllSource(o) : l.bucket = d} = {l \in RunAggregateAllSource(all) : l.bucket = d}
  <2> DEFINE B == {d}
             P == RunAggregateAllSource(o)
             Q == RunAggregateAllSource(all)
  <2>a. P = Fold(Keyed(Y, key), "auto") /\ Q = Fold(Keyed(X, key), "auto")
    BY <1>3, <1>4
  <2> HIDE DEF B, P, Q
  <2>d. CostedRows(Y) /\ KeyedBy(Y, key, TRUE) /\ CostedRows(X) /\ KeyedBy(X, key, TRUE)
    BY <1>3, <1>4
  <2>e. SplitLines(Y, key, "auto", B) /\ SplitLines(X, key, "auto", B)
    BY <2>d, LinesWithin
  <2>b. LinesIn(P, B) = Fold(Keyed(RowsWithin(Y, key, B), key), "auto")
    BY <2>e, <2>a DEF SplitLines
  <2>c. LinesIn(Q, B) = Fold(Keyed(RowsWithin(X, key, B), key), "auto")
    BY <2>e, <2>a DEF SplitLines
  <2>1. /\ LinesIn(RunAggregateAllSource(o), {d}) = Fold(Keyed(RowsWithin(Y, key, {d}), key), "auto")
        /\ LinesIn(RunAggregateAllSource(all), {d}) = Fold(Keyed(RowsWithin(X, key, {d}), key), "auto")
    BY <2>b, <2>c DEF B, P, Q
  <2>2. \A F : LinesIn(F, {d}) = {l \in F : l.bucket = d}
    BY DEF LinesIn
  <2> QED
    BY <1>9, <2>1, <2>2
<1>12. {l \in RunAggregateAllSource(o) : l.bucket # d} = LinesIn(RunAggregateAllSource(o), Int \ {d})
  <2>1. ASSUME NEW l \in RunAggregateAllSource(o) PROVE l.bucket \in Int
    <3>1. PICK g \in Keyed(Y, key) : l = Line(Keyed(Y, key), g.bucket, "auto")
      BY <1>3, FoldIs
    <3>2. l.bucket = g.bucket
      BY <3>1 DEF Line
    <3>3. PICK r \in Y : g = GroupFor(Y, key, r)
      BY DEF Keyed
    <3>4. g.bucket = key[r][1]
      BY <3>3, GroupForIs
    <3> QED
      BY <1>3, <1>8, <3>2, <3>3, <3>4
  <2> QED
    BY <2>1 DEF LinesIn
<1>13. SumTokens(LinesIn(RunAggregateAllSource(o), Int \ {d})) = SumTokens({r \in Midnight : r.ts = (d + 1) * DayLen})
  <2> DEFINE B == Int \ {d}
             P == RunAggregateAllSource(o)
  <2>a. P = Fold(Keyed(Y, key), "auto")
    BY <1>3
  <2> HIDE DEF B, P
  <2>d. CostedRows(Y) /\ KeyedBy(Y, key, TRUE)
    BY <1>3
  <2>e. SplitLines(Y, key, "auto", B)
    BY <2>d, LinesWithin
  <2>c. SumTokens(LinesIn(P, B)) = SumTokens(RowsWithin(Y, key, B))
    BY <2>e, <2>a DEF SplitLines
  <2> QED
    BY <1>10, <2>c DEF B, P
<1> QED
  BY <1>11, <1>12, <1>13 DEF o

-----------------------------------------------------------------------------
(* What a report charges.                                                  *)

OneByOneIn(R, mode) == SumOn([r \in R |-> applyPricingMode(r, mode).cost], R)

LEMMA ReportIs ==
  ASSUME RowsTyped(stored), ScannedInv, stored = Joined(stored), NEW a, Everything(a)
  PROVE  /\ UsageOf(a) = stored /\ listUsageForBlocks(a) = stored /\ CostedRows(stored)
         /\ ByModel(a) \in BOOLEAN
         /\ KeyedBy(stored, SqlKey(stored, a, ByModel(a)), ByModel(a))
         /\ RunAggregate(a) = Fold(Keyed(stored, SqlKey(stored, a, ByModel(a))), a.mode)
<1>1. a \in ReportArgs
  BY DEF Everything
<1>2. Unlisted(a) = {}
  BY DEF Unlisted
<1>3. UsageOf(a) = stored /\ listUsageForBlocks(a) = stored /\ CostedRows(stored)
  BY <1>1, <1>2, RowsAre, EverythingShown
<1>4. ByModel(a) \in BOOLEAN
  BY <1>1, ByModelIs
<1>5. KeyedBy(stored, SqlKey(stored, a, ByModel(a)), ByModel(a))
  BY KeysAre
<1>6. AggregateUsage(a, ByModel(a)) = Keyed(stored, SqlKey(stored, a, ByModel(a)))
  <2>1. AggregateUsage(a, ByModel(a)) = Keyed(UsageOf(a), SqlKey(UsageOf(a), a, ByModel(a)))
    BY AggregateIs
  <2> QED
    BY <2>1, <1>3
<1>7. RunAggregate(a) = Fold(Keyed(stored, SqlKey(stored, a, ByModel(a))), a.mode)
  BY <1>6 DEF RunAggregate
<1> QED
  BY <1>3, <1>4, <1>5, <1>7

\* Grouped and folded, what is displayed is what the rows say.
LEMMA DisplayedCosts ==
  ASSUME NEW R, CostedRows(R), NEW key, NEW byModel \in BOOLEAN, KeyedBy(R, key, byModel)
  PROVE  Cost(Fold(Keyed(R, key), "display")) = Cost(R)
<1> DEFINE G == Keyed(R, key)
           f == [g \in G |-> CostOfGroup(g, "display")]
           e == [g \in G |-> g.cost]
<1>1. Cost(G) = Cost(R) /\ IsFiniteSet(G) /\ \A g \in G : g.tok \in Nat /\ g.cost \in Nat
  BY ModelKeysTold, KeyedAddsUp
<1> HIDE DEF G
<1>2. \A g \in G : CostOfGroup(g, "display") = g.cost
  BY DEF CostOfGroup
<1>3. Cost(Fold(G, "display")) = SumOn(f, G)
  <2>1. \A g \in G : CostOfGroup(g, "display") \in Int
    BY <1>1, <1>2
  <2> QED
    BY <1>1, <2>1, FoldCharges
<1>4. \A g \in G : f[g] = e[g]
  BY <1>2
<1>5. Cost(G) = SumOn(e, G)
  BY DEF Cost
<1> HIDE DEF f, e
<1>6. SumOn(f, G) = SumOn(e, G)
  BY <1>1, <1>4, SumSame
<1> QED
  BY <1>1, <1>3, <1>5, <1>6 DEF G

LEMMA DisplayedOneByOne ==
  ASSUME NEW R
  PROVE  OneByOneIn(R, "display") = Cost(R) /\ {applyPricingMode(r, "display") : r \in R} = R
<1>1. \A r : applyPricingMode(r, "display") = r
  BY DEF applyPricingMode
<1>2. [r \in R |-> applyPricingMode(r, "display").cost] = [r \in R |-> r.cost]
  BY <1>1
<1>3. OneByOneIn(R, "display") = Cost(R)
  BY <1>2 DEF OneByOneIn, Cost
<1> QED
  BY <1>1, <1>3

-----------------------------------------------------------------------------
(* Prices.                                                                 *)

LEMMA NatTimes == \A x, y \in Nat : x * y \in Nat
OBVIOUS

LEMMA TimesPlus == \A c, x, y \in Int : c * (x + y) = c * x + c * y
OBVIOUS

LEMMA SumScaled ==
  ASSUME NEW S, IsFiniteSet(S), NEW f, NEW h, NEW c \in Int,
         \A x \in S : f[x] \in Int /\ h[x] = c * f[x]
  PROVE  SumOn(h, S) = c * SumOn(f, S)
<1> DEFINE P == {T \in SUBSET S : SumOn(h, T) = c * SumOn(f, T)}
<1>0. \A x \in S : h[x] \in Int
  OBVIOUS
<1>1. {} \in P
  <2>1. SumOn(h, {}) = 0 /\ SumOn(f, {}) = 0
    BY SumEmpty
  <2>2. c * 0 = 0
    OBVIOUS
  <2> QED
    BY <2>1, <2>2
<1>2. ASSUME NEW T \in SUBSET S, T \in P, NEW x \in S \ T PROVE T \cup {x} \in P
  <2>1. IsFiniteSet(T)
    BY FS_Subset
  <2>2. SumOn(h, T \cup {x}) = h[x] + SumOn(h, T)
    BY <1>0, <2>1, SumInsert
  <2>3. SumOn(f, T \cup {x}) = f[x] + SumOn(f, T)
    BY <2>1, SumInsert
  <2>4. SumOn(f, T) \in Int /\ f[x] \in Int
    BY <2>1, SumInt
  <2>5. c * (f[x] + SumOn(f, T)) = c * f[x] + c * SumOn(f, T)
    BY <2>4, TimesPlus
  <2> QED
    BY <1>2, <2>2, <2>3, <2>5
<1> HIDE DEF P
<1>3. S \in P
  BY <1>1, <1>2, OneMore
<1> QED
  BY <1>3 DEF P

LEMMA PriceIs ==
  ASSUME NEW m, m \in DOMAIN Price
  PROVE  /\ m # 0 /\ Price[m].base \in Nat /\ Price[m].above \in Nat /\ Tier \in Nat
         /\ \A tok \in Nat : CalculateCost(Price[m], tok) \in Nat
         /\ \A tok \in Nat : Price[m].above = 0 \/ tok <= Tier => CalculateCost(Price[m], tok) = Price[m].base * tok
<1>1. m # 0 /\ Price[m].base \in Nat /\ Price[m].above \in Nat /\ Tier \in Nat
  BY PricesAssumption
<1> DEFINE p == Price[m]
<1>2. p.base \in Nat /\ p.above \in Nat
  BY <1>1
<1> HIDE DEF p
<1>3. ASSUME NEW tok \in Nat PROVE CalculateCost(p, tok) \in Nat
  <2>1. tok * p.base \in Nat /\ Tier * p.base \in Nat
    BY <1>1, <1>2, NatTimes
  <2>2. CASE tok <= Tier
    BY <2>1, <2>2 DEF CalculateCost
  <2>3. CASE ~(tok <= Tier)
    <3>1. tok - Tier \in Nat
      BY <1>1, <2>3
    <3>2. (tok - Tier) * p.above \in Nat
      BY <1>2, <3>1, NatTimes
    <3> QED
      BY <2>1, <2>3, <3>2 DEF CalculateCost
  <2> QED
    BY <2>2, <2>3
<1>4. ASSUME NEW tok \in Nat, p.above = 0 \/ tok <= Tier PROVE CalculateCost(p, tok) = p.base * tok
  <2>1. tok * p.base = p.base * tok
    BY <1>2
  <2> QED
    BY <1>4, <2>1 DEF CalculateCost
<1> QED
  BY <1>1, <1>3, <1>4 DEF p

LEMMA AppliedIs ==
  ASSUME NEW r, RowTyped(r), NEW mode
  PROVE  /\ applyPricingMode(r, mode).cost \in Nat
         /\ \A q \in {applyPricingMode(r, mode)} :
              q.tok = r.tok /\ q.ts = r.ts /\ q.copy = r.copy /\ q.sess = r.sess
         /\ r.cost <= applyPricingMode(r, "auto").cost
         /\ r.cost # 0 => applyPricingMode(r, "auto").cost = r.cost
         /\ r.cost = 0 => applyPricingMode(r, "auto").cost = applyPricingMode(r, "calculate").cost
         /\ applyPricingMode(r, "calculate").cost =
              IF r.model \in DOMAIN Price THEN CalculateCost(Price[r.model], r.tok) ELSE r.cost
<1>1. r.tok \in Nat /\ r.cost \in Nat
  BY RowIs
<1>2. ASSUME r.model \in DOMAIN Price PROVE CalculateCost(Price[r.model], r.tok) \in Nat
  BY <1>1, <1>2, PriceIs
<1> DEFINE p == CalculateCost(Price[r.model], r.tok)
           q == [r EXCEPT !.cost = p]
<1>3. q.cost = p /\ q.tok = r.tok /\ q.ts = r.ts /\ q.copy = r.copy /\ q.sess = r.sess
  <2>1. DOMAIN r = {"sess", "model", "tok", "cost", "ts", "copy"}
    BY DEF RowTyped
  <2> HIDE DEF p
  <2> QED
    BY <2>1
<1>4. \A m : applyPricingMode(r, m) =
        IF m = "display" \/ (m = "auto" /\ r.cost > 0) \/ r.model \notin DOMAIN Price THEN r ELSE q
  BY DEF applyPricingMode
<1>5. r.model \in DOMAIN Price => p \in Nat
  BY <1>2
<1>6. p = CalculateCost(Price[r.model], r.tok)
  OBVIOUS
<1> HIDE DEF p, q
<1>7. applyPricingMode(r, mode) \in {r, q} /\ (applyPricingMode(r, mode) = q => r.model \in DOMAIN Price \/ q = r)
  BY <1>4
<1>8. applyPricingMode(r, "auto") = IF r.cost > 0 \/ r.model \notin DOMAIN Price THEN r ELSE q
  BY <1>4
<1>9. applyPricingMode(r, "calculate") = IF r.model \notin DOMAIN Price THEN r ELSE q
  BY <1>4
<1> QED
  BY <1>1, <1>3, <1>5, <1>6, <1>7, <1>8, <1>9

\* Row by row, whatever a project shows.
LEMMA InstancesAddUp ==
  ASSUME RowsTyped(stored), Apart(stored), NEW a, listUsageForBlocks(a) = stored
  PROVE  Cost(RunInstances(a)) = OneByOneIn(stored, a.mode)
<1> DEFINE h == [r \in stored |-> applyPricingMode(r, a.mode)]
           Q == {applyPricingMode(r, a.mode) : r \in stored}
           b == IF a.bucket = "session" THEN [a EXCEPT !.bucket = "day"] ELSE a
           key == [r \in Q |-> <<<<bucketKey(b, r), CwdOf[r.sess]>>, 0>>]
           f == [r \in stored |-> applyPricingMode(r, a.mode).cost]
           e == [r \in Q |-> r.cost]
<1>1. \A r \in stored : /\ h[r].cost \in Nat /\ h[r].tok = r.tok /\ h[r].ts = r.ts /\ h[r].copy = r.copy
                        /\ h[r].tok \in Nat /\ h[r].ts \in Int
  <2> TAKE r \in stored
  <2>1. RowTyped(r)
    BY DEF RowsTyped
  <2> QED
    BY <2>1, AppliedIs, RowIs
<1>2. IsFiniteSet(stored) /\ \A x, y \in stored : h[x] = h[y] => x = y
  <2>1. \A x, y \in stored : h[x] = h[y] => x.ts = y.ts /\ x.copy = y.copy
    <3> HIDE DEF h
    <3> QED
      BY <1>1
  <2> QED
    BY <2>1 DEF RowsTyped, Apart
<1>3. Q = Onto(h, stored)
  BY DEF Onto
<1>4. Cost(Q) = SumOn(e, Q) /\ OneByOneIn(stored, a.mode) = SumOn(f, stored)
  BY DEF Cost, OneByOneIn
<1>5. \A x \in stored : f[x] \in Int /\ e[h[x]] = f[x]
  <2> TAKE x \in stored
  <2>1. h[x] \in Q /\ f[x] = h[x].cost
    OBVIOUS
  <2> HIDE DEF h, Q, f
  <2> QED
    BY <1>1, <2>1
<1>6. SumOn(e, Q) = SumOn(f, stored) /\ IsFiniteSet(Q)
  <2> HIDE DEF h, Q, e, f
  <2> QED
    BY <1>2, <1>3, <1>5, SumMove
<1>7. CostedRows(Q)
  <2>1. \A q \in Q : \E r \in stored : q = h[r]
    OBVIOUS
  <2> HIDE DEF Q, h
  <2> QED
    BY <1>1, <1>6, <2>1 DEF CostedRows
<1>8. RunInstances(a) = Keyed(Q, key)
  <2> DEFINE pair(r) == <<bucketKey(b, r), CwdOf[r.sess]>>
  <2>1. RunInstances(a) = GroupRows(Q, pair, FALSE)
    BY DEF RunInstances
  <2>2. key = [r \in Q |-> <<pair(r), 0>>]
    OBVIOUS
  <2> HIDE DEF Q, b, pair, key
  <2>3. RunInstances(a) = {Group(k[1], {r \in Q : <<pair(r), 0>> = k}) : k \in {<<pair(r), 0>> : r \in Q}}
    BY <2>1 DEF GroupRows
  <2>4. \A x \in Q : <<pair(x), 0>> = key[x] /\ {r \in Q : <<pair(r), 0>> = key[x]} = Where(Q, key, key[x])
    BY <2>2 DEF Where
  <2>5. RunInstances(a) = {Group(<<pair(x), 0>>[1], {r \in Q : <<pair(r), 0>> = <<pair(x), 0>>}) : x \in Q}
    BY <2>3
  <2> DEFINE g(x) == Group(<<pair(x), 0>>[1], {r \in Q : <<pair(r), 0>> = <<pair(x), 0>>})
  <2>7. \A x \in Q : g(x) = Group(key[x][1], Where(Q, key, key[x]))
    <3> TAKE x \in Q
    <3>1. <<pair(x), 0>> = key[x] /\ {r \in Q : <<pair(r), 0>> = key[x]} = Where(Q, key, key[x])
      BY <2>4
    <3> DEFINE k == key[x]
    <3> HIDE DEF k
    <3> QED
      BY <3>1 DEF k
  <2>8. RunInstances(a) = {g(x) : x \in Q}
    BY <2>5
  <2> HIDE DEF g
  <2>6. RunInstances(a) = {Group(key[x][1], Where(Q, key, key[x])) : x \in Q}
    BY <2>7, <2>8
  <2> QED
    BY <2>6 DEF Keyed, GroupFor
<1>9. KeyedBy(Q, key, FALSE)
  <2>1. \A r \in Q : key[r] = <<<<bucketKey(b, r), CwdOf[r.sess]>>, 0>>
    OBVIOUS
  <2> HIDE DEF Q, key, b
  <2> QED
    BY <2>1 DEF KeyedBy
<1>10. Cost(Keyed(Q, key)) = Cost(Q)
  <2> HIDE DEF Q, key
  <2>1. KeysTold(Q, key)
    BY <1>9, ModelKeysTold
  <2> QED
    BY <1>7, <2>1, KeyedAddsUp
<1> QED
  BY <1>4, <1>6, <1>8, <1>10

\* The model a group is priced as.
LEMMA RecalculatedAs ==
  ASSUME NEW g, NEW m \in Nat, g.models = {m} \ {0}
  PROVE  recalculateCost(g) = IF m \in DOMAIN Price THEN CalculateCost(Price[m], g.tok) ELSE g.cost
<1>1. 0 \notin DOMAIN Price
  BY PricesAssumption
<1>2. CASE m = 0
  BY <1>1, <1>2 DEF recalculateCost
<1>3. CASE m # 0
  <2>1. g.models = {m}
    BY <1>3
  <2>2. Least({m}) = m
    BY DEF Least
  <2>3. g.models # {} /\ Least(g.models) = m
    BY <2>1, <2>2
  <2> QED
    BY <2>3 DEF recalculateCost
<1> QED
  BY <1>2, <1>3

LEMMA TypedEntries ==
  ASSUME NEW R, RowsTyped(R), NEW S \in SUBSET R
  PROVE  CostedRows(S) /\ RowsTyped(S)
<1>1. \A r \in R : r.tok \in Nat /\ r.cost \in Nat /\ r.ts \in Int
  BY RowIs DEF RowsTyped
<1>2. IsFiniteSet(S)
  BY FS_Subset DEF RowsTyped
<1> QED
  BY <1>1, <1>2 DEF CostedRows, RowsTyped

LEMMA CalculatedTogether ==
  ASSUME NEW W, RowsTyped(W), NEW m, \A q \in W : q.model = m
  PROVE  /\ m \in DOMAIN Price /\ (Price[m].above = 0 \/ SumTokens(W) <= Tier)
              => OneByOneIn(W, "calculate") = CalculateCost(Price[m], SumTokens(W))
         /\ m \notin DOMAIN Price => OneByOneIn(W, "calculate") = Cost(W)
<1> DEFINE f == [q \in W |-> applyPricingMode(q, "calculate").cost]
           t == [q \in W |-> q.tok]
           c == [q \in W |-> q.cost]
<1>1. /\ CostedRows(W) /\ SumTokens(W) \in Nat
      /\ \A q \in W : q.tok <= SumTokens(W)
  BY TypedEntries, EntriesIn
<1>2. OneByOneIn(W, "calculate") = SumOn(f, W) /\ SumTokens(W) = SumOn(t, W) /\ Cost(W) = SumOn(c, W)
  BY DEF OneByOneIn, SumTokens, Cost
<1>3. \A q \in W : /\ q.tok \in Nat /\ t[q] = q.tok /\ c[q] = q.cost
                   /\ f[q] = IF m \in DOMAIN Price THEN CalculateCost(Price[m], q.tok) ELSE q.cost
  <2> TAKE q \in W
  <2>1. RowTyped(q)
    BY DEF RowsTyped
  <2>2. f[q] = applyPricingMode(q, "calculate").cost /\ t[q] = q.tok /\ c[q] = q.cost
    OBVIOUS
  <2>3. applyPricingMode(q, "calculate").cost =
          IF q.model \in DOMAIN Price THEN CalculateCost(Price[q.model], q.tok) ELSE q.cost
    BY <2>1, AppliedIs
  <2> HIDE DEF f, t, c
  <2> QED
    BY <2>1, <2>2, <2>3, RowIs
<1> HIDE DEF f, t, c
<1>4. IsFiniteSet(W)
  BY DEF RowsTyped
<1>5. ASSUME m \in DOMAIN Price, Price[m].above = 0 \/ SumTokens(W) <= Tier
      PROVE  SumOn(f, W) = CalculateCost(Price[m], SumTokens(W))
  <2> DEFINE b == Price[m].base
  <2>1. /\ b \in Nat /\ Tier \in Nat
        /\ \A tok \in Nat : Price[m].above = 0 \/ tok <= Tier => CalculateCost(Price[m], tok) = b * tok
    BY <1>5, PriceIs
  <2>2. CalculateCost(Price[m], SumTokens(W)) = b * SumTokens(W)
    BY <1>1, <1>5, <2>1
  <2>3. \A q \in W : t[q] \in Int /\ f[q] = b * t[q]
    <3> TAKE q \in W
    <3>1. Price[m].above = 0 \/ q.tok <= Tier
      BY <1>1, <1>3, <1>5, <2>1
    <3> HIDE DEF b
    <3>2. CalculateCost(Price[m], q.tok) = b * q.tok
      BY <1>3, <2>1, <3>1
    <3> QED
      BY <1>3, <1>5, <3>2
  <2> HIDE DEF b
  <2>4. SumOn(f, W) = b * SumOn(t, W)
    BY <1>4, <2>1, <2>3, SumScaled
  <2> QED
    BY <1>2, <2>2, <2>4
<1>6. ASSUME m \notin DOMAIN Price PROVE SumOn(f, W) = SumOn(c, W)
  <2>1. \A q \in W : f[q] = c[q]
    BY <1>3, <1>6
  <2> QED
    BY <1>4, <2>1, SumSame
<1> QED
  BY <1>2, <1>5, <1>6

LEMMA GroupCalculated ==
  ASSUME NEW R, RowsTyped(R), Small(R), NEW key, KeyedBy(R, key, TRUE), NEW r \in R
  PROVE  recalculateCost(GroupFor(R, key, r)) = OneByOneIn(Where(R, key, key[r]), "calculate")
<1> DEFINE g == GroupFor(R, key, r)
           W == Where(R, key, key[r])
           m == r.model
           M == {q \in R : q.model = m}
<1>1. /\ g.models = {m} \ {0} /\ (\A q \in W : q.model = m)
      /\ W \in SUBSET R /\ g.tok = SumTokens(W) /\ g.cost = Cost(W)
  <2>1. g.models = Named(r) /\ (\A q \in W : q.model = m)
    BY ModelOfGroup, ZenonT(40)
  <2>2. W \in SUBSET R /\ g.tok = SumTokens(W) /\ g.cost = Cost(W)
    BY GroupForIs
  <2> QED
    BY <2>1, <2>2 DEF Named
<1>2. m \in Nat
  <2>1. m \in ModelName
    BY RowIs DEF RowsTyped
  <2> HIDE DEF m
  <2> QED
    BY <2>1, PricesAssumption DEF ModelName
<1>3. RowsTyped(W)
  BY <1>1, TypedEntries
<1>4. SumTokens(W) <= SumTokens(M) /\ SumTokens(W) \in Nat /\ SumTokens(M) \in Nat
  <2>1. M \in SUBSET R /\ W \in SUBSET M
    BY <1>1
  <2> HIDE DEF M, W
  <2>2. CostedRows(M)
    BY <2>1, TypedEntries
  <2> QED
    BY <2>1, <2>2, EntriesIn
<1>5. m \in DOMAIN Price => Price[m].above = 0 \/ SumTokens(W) <= Tier
  <2>1. m \in DOMAIN Price => Price[m].above = 0 \/ SumTokens(M) <= Tier
    BY DEF Small
  <2>2. Tier \in Nat
    BY PricesAssumption
  <2> HIDE DEF M, W, m
  <2> QED
    BY <1>4, <2>1, <2>2
<1>6. recalculateCost(g) = IF m \in DOMAIN Price THEN CalculateCost(Price[m], g.tok) ELSE g.cost
  <2> HIDE DEF g, m
  <2> QED
    BY <1>1, <1>2, RecalculatedAs
<1> HIDE DEF g, W, m, M
<1>7. /\ m \in DOMAIN Price /\ (Price[m].above = 0 \/ SumTokens(W) <= Tier)
              => OneByOneIn(W, "calculate") = CalculateCost(Price[m], SumTokens(W))
      /\ m \notin DOMAIN Price => OneByOneIn(W, "calculate") = Cost(W)
  BY <1>1, <1>3, CalculatedTogether
<1>8. recalculateCost(g) = OneByOneIn(W, "calculate")
  BY <1>1, <1>5, <1>6, <1>7
<1> QED
  BY <1>8 DEF g, W

\* What a group is charged against what its rows are charged one by one.
GroupFair(R, key, r) ==
  LET g == GroupFor(R, key, r)
      W == Where(R, key, key[r])
  IN /\ CostOfGroup(g, "calculate") = OneByOneIn(W, "calculate") /\ CostOfGroup(g, "calculate") \in Nat
     /\ CostOfGroup(g, "auto") <= OneByOneIn(W, "auto") /\ CostOfGroup(g, "auto") \in Nat
     /\ OneByOneIn(W, "auto") \in Nat
     /\ (\A x, y \in W : (x.cost = 0) = (y.cost = 0)) => CostOfGroup(g, "auto") = OneByOneIn(W, "auto")

LEMMA OneByOneNat ==
  ASSUME NEW W, RowsTyped(W), NEW mode
  PROVE  OneByOneIn(W, mode) \in Nat
<1> DEFINE f == [q \in W |-> applyPricingMode(q, mode).cost]
<1>1. \A q \in W : f[q] \in Nat
  BY AppliedIs DEF RowsTyped
<1>2. OneByOneIn(W, mode) = SumOn(f, W) /\ IsFiniteSet(W)
  BY DEF OneByOneIn, RowsTyped
<1> HIDE DEF f
<1> QED
  BY <1>1, <1>2, SumNat

LEMMA AutoTogether ==
  ASSUME NEW W, RowsTyped(W)
  PROVE  /\ Cost(W) \in Nat /\ Cost(W) <= OneByOneIn(W, "auto")
         /\ (\A q \in W : q.cost # 0) => OneByOneIn(W, "auto") = Cost(W)
         /\ (\A q \in W : q.cost = 0) => OneByOneIn(W, "auto") = OneByOneIn(W, "calculate")
         /\ Cost(W) = 0 => \A q \in W : q.cost = 0
<1> DEFINE f == [q \in W |-> applyPricingMode(q, "auto").cost]
           h == [q \in W |-> applyPricingMode(q, "calculate").cost]
           c == [q \in W |-> q.cost]
<1>1. /\ OneByOneIn(W, "auto") = SumOn(f, W) /\ OneByOneIn(W, "calculate") = SumOn(h, W)
      /\ Cost(W) = SumOn(c, W) /\ IsFiniteSet(W)
  BY DEF OneByOneIn, Cost, RowsTyped
<1>2. \A q \in W : /\ c[q] = q.cost /\ c[q] \in Nat /\ f[q] \in Nat /\ c[q] <= f[q]
                   /\ q.cost # 0 => f[q] = c[q]
                   /\ q.cost = 0 => f[q] = h[q]
  <2> TAKE q \in W
  <2>1. RowTyped(q)
    BY DEF RowsTyped
  <2>2. f[q] = applyPricingMode(q, "auto").cost /\ h[q] = applyPricingMode(q, "calculate").cost /\ c[q] = q.cost
    OBVIOUS
  <2> HIDE DEF f, h, c
  <2> QED
    BY <2>1, <2>2, AppliedIs, RowIs
<1> HIDE DEF f, h, c
<1>3. SumOn(c, W) \in Nat
  BY <1>1, <1>2, SumNat
<1>4. SumOn(c, W) <= SumOn(f, W)
  BY <1>1, <1>2, SumLeq
<1>5. ASSUME \A q \in W : q.cost # 0 PROVE SumOn(f, W) = SumOn(c, W)
  BY <1>1, <1>2, <1>5, SumSame
<1>6. ASSUME \A q \in W : q.cost = 0 PROVE SumOn(f, W) = SumOn(h, W)
  BY <1>1, <1>2, <1>6, SumSame
<1>7. ASSUME SumOn(c, W) = 0, NEW q \in W PROVE q.cost = 0
  <2>1. SumOn(c, W) = c[q] + SumOn(c, W \ {q})
    BY <1>1, <1>2, SumPick
  <2>2. IsFiniteSet(W \ {q}) /\ \A x \in W \ {q} : c[x] \in Nat
    BY <1>1, <1>2, FS_Subset
  <2>3. SumOn(c, W \ {q}) \in Nat
    BY <2>2, SumNat
  <2> QED
    BY <1>2, <1>7, <2>1, <2>3
<1> QED
  BY <1>1, <1>3, <1>4, <1>5, <1>6, <1>7

LEMMA GroupsFair ==
  ASSUME NEW R, RowsTyped(R), Small(R), NEW key, KeyedBy(R, key, TRUE), NEW r \in R
  PROVE  GroupFair(R, key, r)
<1> DEFINE g == GroupFor(R, key, r)
           W == Where(R, key, key[r])
<1>1. W \in SUBSET R /\ g.cost = Cost(W)
  <2>1. W \in SUBSET R
    BY DEF Where
  <2>2. g.cost = Cost(W)
    BY GroupForIs
  <2> QED
    BY <2>1, <2>2
<1>2. recalculateCost(g) = OneByOneIn(W, "calculate")
  BY GroupCalculated
<1> HIDE DEF g, W
<1>3. RowsTyped(W)
  BY <1>1, TypedEntries
<1>4. OneByOneIn(W, "calculate") \in Nat /\ OneByOneIn(W, "auto") \in Nat
  BY <1>3, OneByOneNat
<1>5. /\ CostOfGroup(g, "calculate") = recalculateCost(g)
      /\ CostOfGroup(g, "auto") = IF g.cost = 0 THEN recalculateCost(g) ELSE g.cost
  BY DEF CostOfGroup
<1>6. /\ Cost(W) \in Nat /\ Cost(W) <= OneByOneIn(W, "auto")
      /\ (\A q \in W : q.cost # 0) => OneByOneIn(W, "auto") = Cost(W)
      /\ (\A q \in W : q.cost = 0) => OneByOneIn(W, "auto") = OneByOneIn(W, "calculate")
      /\ Cost(W) = 0 => \A q \in W : q.cost = 0
  BY <1>3, AutoTogether
<1>7. CASE g.cost = 0
  <2>1. CostOfGroup(g, "auto") = OneByOneIn(W, "auto")
    BY <1>1, <1>2, <1>5, <1>6, <1>7
  <2> QED
    BY <1>2, <1>4, <1>5, <2>1 DEF GroupFair, g, W
<1>8. CASE g.cost # 0
  <2>1. CostOfGroup(g, "auto") = Cost(W) /\ Cost(W) # 0
    BY <1>1, <1>5, <1>8
  <2>2. \E q \in W : q.cost # 0
    <3> SUFFICES ASSUME \A q \in W : q.cost = 0 PROVE FALSE
      OBVIOUS
    <3> DEFINE c == [q \in W |-> q.cost]
    <3>1. Cost(W) = SumOn(c, W) /\ IsFiniteSet(W) /\ \A q \in W : c[q] = 0
      BY <1>3 DEF Cost, RowsTyped
    <3> HIDE DEF c
    <3>2. Cost(W) = 0
      BY <3>1, SumZero
    <3> QED
      BY <2>1, <3>2
  <2>3. ASSUME \A x, y \in W : (x.cost = 0) = (y.cost = 0) PROVE \A q \in W : q.cost # 0
    <3>1. PICK p \in W : p.cost # 0
      BY <2>2
    <3> TAKE q \in W
    <3>2. (p.cost = 0) = (q.cost = 0)
      BY <2>3
    <3> QED
      BY <3>1, <3>2
  <2> QED
    BY <1>2, <1>4, <1>5, <1>6, <2>1, <2>3 DEF GroupFair, g, W
<1> QED
  BY <1>7, <1>8

LEMMA OneByOneWithin ==
  ASSUME NEW R, RowsTyped(R), NEW W \in SUBSET R, NEW mode, NEW f, \A r \in R : f[r] = applyPricingMode(r, mode).cost
  PROVE  OneByOneIn(W, mode) = SumOn(f, W)
<1> DEFINE e == [r \in W |-> applyPricingMode(r, mode).cost]
<1>1. OneByOneIn(W, mode) = SumOn(e, W) /\ IsFiniteSet(W) /\ \A r \in W : e[r] = f[r]
  BY FS_Subset DEF OneByOneIn, RowsTyped
<1> HIDE DEF e
<1> QED
  BY <1>1, SumSame

\* Rows of one group all have a cost or all lack one.
CostsAlike(R, key) == \A x, y \in R : key[x] = key[y] => (x.cost = 0) = (y.cost = 0)

LEMMA ReportFair ==
  ASSUME NEW R, RowsTyped(R), Small(R), NEW key, KeyedBy(R, key, TRUE)
  PROVE  /\ Cost(Fold(Keyed(R, key), "calculate")) = OneByOneIn(R, "calculate")
         /\ Cost(Fold(Keyed(R, key), "auto")) <= OneByOneIn(R, "auto")
         /\ CostsAlike(R, key) => Cost(Fold(Keyed(R, key), "auto")) = OneByOneIn(R, "auto")
<1> DEFINE G == Keyed(R, key)
           In(r) == Where(R, key, key[r])
           calc == [r \in R |-> applyPricingMode(r, "calculate").cost]
           auto == [r \in R |-> applyPricingMode(r, "auto").cost]
           RowIn(g) == CHOOSE r \in R : g = GroupFor(R, key, r)
           ec == [g \in G |-> CostOfGroup(g, "calculate")]
           ea == [g \in G |-> CostOfGroup(g, "auto")]
           es == [g \in G |-> OneByOneIn(In(RowIn(g)), "auto")]
<1>1. CostedRows(R) /\ KeysTold(R, key) /\ IsFiniteSet(G)
  <2>1. CostedRows(R)
    BY TypedEntries
  <2>2. KeysTold(R, key)
    BY ModelKeysTold
  <2> QED
    BY <2>1, <2>2, KeyedAddsUp
<1>2. \A r \in R : calc[r] \in Int /\ auto[r] \in Int
  <2> TAKE r \in R
  <2>1. RowTyped(r)
    BY DEF RowsTyped
  <2> QED
    BY <2>1, AppliedIs
<1>3. \A r \in R : OneByOneIn(In(r), "calculate") = SumOn(calc, In(r)) /\ OneByOneIn(In(r), "auto") = SumOn(auto, In(r))
  <2> TAKE r \in R
  <2>1. In(r) \in SUBSET R
    BY DEF Where
  <2>2. (\A q \in R : calc[q] = applyPricingMode(q, "calculate").cost) /\ (\A q \in R : auto[q] = applyPricingMode(q, "auto").cost)
    OBVIOUS
  <2> HIDE DEF calc, auto, In
  <2> QED
    BY <2>1, <2>2, OneByOneWithin
<1>4. OneByOneIn(R, "calculate") = SumOn(calc, R) /\ OneByOneIn(R, "auto") = SumOn(auto, R)
  BY DEF OneByOneIn
<1>5. \A r \in R : GroupFor(R, key, r) \in G /\ GroupFair(R, key, r)
  BY GroupsFair DEF Keyed
<1>6. \A g \in G : RowIn(g) \in R /\ g = GroupFor(R, key, RowIn(g))
  BY DEF Keyed
<1>7. \A r \in R : In(RowIn(GroupFor(R, key, r))) = In(r)
  <2> TAKE r \in R
  <2> DEFINE q == RowIn(GroupFor(R, key, r))
  <2>1. q \in R /\ GroupFor(R, key, r) = GroupFor(R, key, q)
    BY <1>5, <1>6
  <2> HIDE DEF q
  <2>2. key[r] = key[q]
    BY <1>1, <2>1 DEF KeysTold
  <2> QED
    BY <2>2 DEF q
<1>8. \A r \in R : /\ ec[GroupFor(R, key, r)] = SumOn(calc, In(r))
                   /\ es[GroupFor(R, key, r)] = SumOn(auto, In(r))
  <2> TAKE r \in R
  <2>1. GroupFor(R, key, r) \in G /\ GroupFair(R, key, r)
    BY <1>5
  <2>2. ec[GroupFor(R, key, r)] = CostOfGroup(GroupFor(R, key, r), "calculate")
    BY <2>1
  <2>3. es[GroupFor(R, key, r)] = OneByOneIn(In(r), "auto")
    BY <1>7, <2>1
  <2> HIDE DEF ec, es, calc, auto
  <2> QED
    BY <1>3, <2>1, <2>2, <2>3 DEF GroupFair
<1>9. \A g \in G : /\ ea[g] \in Int /\ es[g] \in Int /\ ec[g] \in Int /\ ea[g] <= es[g]
                   /\ ea[g] = CostOfGroup(g, "auto") /\ ec[g] = CostOfGroup(g, "calculate")
                   /\ (\A x, y \in In(RowIn(g)) : (x.cost = 0) = (y.cost = 0)) => ea[g] = es[g]
  <2> TAKE g \in G
  <2> DEFINE r == RowIn(g)
  <2>1. r \in R /\ g = GroupFor(R, key, r)
    BY <1>6
  <2>2. GroupFair(R, key, r)
    <3> HIDE DEF r
    <3> QED
      BY <1>5, <2>1
  <2>3. es[g] = OneByOneIn(In(r), "auto") /\ ea[g] = CostOfGroup(g, "auto") /\ ec[g] = CostOfGroup(g, "calculate")
    OBVIOUS
  <2> HIDE DEF r, es, ea, ec
  <2>4. /\ CostOfGroup(g, "calculate") \in Nat
        /\ CostOfGroup(g, "auto") <= OneByOneIn(In(r), "auto") /\ CostOfGroup(g, "auto") \in Nat
        /\ OneByOneIn(In(r), "auto") \in Nat
        /\ (\A x, y \in In(r) : (x.cost = 0) = (y.cost = 0)) => CostOfGroup(g, "auto") = OneByOneIn(In(r), "auto")
    BY <2>1, <2>2 DEF GroupFair
  <2> QED
    BY <2>3, <2>4 DEF r
<1>10. /\ \A g \in G : CostOfGroup(g, "calculate") \in Int /\ CostOfGroup(g, "auto") \in Int
  BY <1>9
<1>11. Cost(Fold(G, "calculate")) = SumOn(ec, G) /\ Cost(Fold(G, "auto")) = SumOn(ea, G)
  BY <1>1, <1>10, FoldCharges
<1>12. \A x, y \in R : key[x] = key[y] <=> y \in In(x)
  BY DEF Where
<1> HIDE DEF calc, auto, ec, ea, es, RowIn
<1>13. SumOn(ec, G) = SumOn(calc, R) /\ SumOn(es, G) = SumOn(auto, R)
  BY <1>1, <1>2, <1>8, KeyedSum
<1> HIDE DEF G
<1>14. SumOn(ea, G) <= SumOn(es, G)
  BY <1>1, <1>9, SumLeq
<1>15. ASSUME \A x, y \in R : key[x] = key[y] => (x.cost = 0) = (y.cost = 0)
       PROVE  SumOn(ea, G) = SumOn(es, G)
  <2>1. ASSUME NEW g \in G PROVE ea[g] = es[g]
    <3>1. RowIn(g) \in R
      BY <1>6
    <3>2. ASSUME NEW x \in In(RowIn(g)), NEW y \in In(RowIn(g)) PROVE (x.cost = 0) = (y.cost = 0)
      <4>1. x \in R /\ y \in R /\ key[x] = key[y]
        BY <3>2 DEF Where
      <4> QED
        BY <1>15, <4>1
    <3> QED
      BY <1>9, <3>2
  <2> QED
    BY <1>1, <2>1, SumSame
<1> QED
  BY <1>4, <1>11, <1>13, <1>14, <1>15 DEF G, CostsAlike

\* The lines of some buckets, as displayed.
DisplayedWithin(R, key, B) ==
  LET L == LinesIn(Fold(Keyed(R, key), "display"), B)
  IN Cost(L) = Cost(RowsWithin(R, key, B)) /\ SumTokens(L) = SumTokens(RowsWithin(R, key, B))

LEMMA DisplayedLines ==
  ASSUME NEW R, CostedRows(R), NEW key, NEW byModel \in BOOLEAN, KeyedBy(R, key, byModel), NEW B
  PROVE  DisplayedWithin(R, key, B)
<1> DEFINE S == RowsWithin(R, key, B)
           L == LinesIn(Fold(Keyed(R, key), "display"), B)
<1>1. L = Fold(LinesIn(Keyed(R, key), B), "display")
  BY FoldWithin
<1>2. LinesIn(Keyed(R, key), B) = Keyed(S, key)
  BY KeyedWithin
<1>3. CostedRows(S) /\ KeyedBy(S, key, byModel)
  <2>1. S \in SUBSET R
    BY DEF RowsWithin
  <2> HIDE DEF S
  <2>2. CostedRows(S)
    BY <2>1, EntriesIn
  <2>3. KeyedBy(S, key, byModel)
    BY <2>1 DEF KeyedBy
  <2> QED
    BY <2>2, <2>3
<1>4. L = Fold(Keyed(S, key), "display")
  BY <1>1, <1>2
<1> HIDE DEF S, L
<1>5. Cost(Fold(Keyed(S, key), "display")) = Cost(S)
  BY <1>3, DisplayedCosts
<1>6. SumTokens(Keyed(S, key)) = SumTokens(S) /\ IsFiniteSet(Keyed(S, key)) /\ \A g \in Keyed(S, key) : g.tok \in Nat
  <2>1. KeysTold(S, key)
    BY <1>3, ModelKeysTold
  <2> QED
    BY <1>3, <2>1, KeyedAddsUp
<1>7. SumTokens(Fold(Keyed(S, key), "display")) = SumTokens(S)
  BY <1>6, FoldAddsUp
<1> QED
  BY <1>4, <1>5, <1>7 DEF DisplayedWithin, S, L

LEMMA SessionDetail ==
  ASSUME RowsTyped(stored), ScannedInv, stored = Joined(stored),
         NEW a, Everything(a), a.mode = "display", NEW s
  PROVE  LET line == {l \in RunSession(a) : l.bucket = s}
             detail == runSessionDetail(s, a)
         IN Cost(detail) = Cost(line) /\ SumTokens(detail) = SumTokens(line)
<1> DEFINE o == [a EXCEPT !.bucket = "session"]
           key == SqlKey(stored, o, ByModel(o))
           B == {s}
           S == {x \in stored : x.sess = s}
<1>1. Everything(o) /\ o.mode = "display" /\ o.bucket = "session"
  BY DEF Everything, ReportArgs
<1>2. listUsageForBlocks(a) = stored
  BY ReportIs
<1>3. runSessionDetail(s, a) = S
  <2>1. {applyPricingMode(r, "display") : r \in S} = S
    BY DisplayedOneByOne
  <2> QED
    BY <1>2, <2>1 DEF runSessionDetail
<1>4. RunSession(a) = RunAggregate(o)
  BY DEF RunSession
<1> HIDE DEF o
<1>5. /\ CostedRows(stored) /\ ByModel(o) \in BOOLEAN /\ KeyedBy(stored, key, ByModel(o))
      /\ RunAggregate(o) = Fold(Keyed(stored, key), "display")
  BY <1>1, ReportIs
<1>6. RowsWithin(stored, key, B) = S
  <2>1. \A r \in stored : key[r][1] = r.sess
    <3> TAKE r \in stored
    <3>1. bucketExpr(o, r) = r.sess
      BY <1>1 DEF bucketExpr
    <3>2. key[r] = <<bucketExpr(o, r), IF ByModel(o) THEN r.model ELSE 0>>
      BY DEF SqlKey
    <3> QED
      BY <3>1, <3>2
  <2> HIDE DEF key
  <2> QED
    BY <2>1 DEF RowsWithin
<1>7. {l \in RunSession(a) : l.bucket = s} = LinesIn(Fold(Keyed(stored, key), "display"), B)
  <2> HIDE DEF key
  <2> QED
    BY <1>4, <1>5 DEF LinesIn
<1> HIDE DEF key, B, S
<1>8. DisplayedWithin(stored, key, B)
  BY <1>5, DisplayedLines
<1> QED
  BY <1>3, <1>6, <1>7, <1>8 DEF DisplayedWithin

LEMMA UniformKeys ==
  ASSUME NEW R, NEW bucket \in {"day", "session"}, Uniform(R, bucket),
         NEW a, Everything(a), a.bucket = bucket
  PROVE  CostsAlike(R, SqlKey(R, a, TRUE))
<1> DEFINE u == InUTC(bucket)
           key == SqlKey(R, a, TRUE)
<1>1. u.bucket = bucket /\ u.loc = UTC /\ u \in ReportArgs
  BY InUTCIs
<1>2. a.loc = u.loc /\ a.bucket = u.bucket /\ a.start = u.start
  <2> HIDE DEF u
  <2>1. \A b \in ReportArgs : b.start = 1
    BY DEF ReportArgs
  <2> QED
    BY <1>1, <2>1 DEF Everything
<1>3. \A r : bucketExpr(a, r) = bucketExpr(u, r)
  <2> HIDE DEF u
  <2> QED
    BY <1>2 DEF bucketExpr
<1>4. \A x \in R : key[x] = <<bucketExpr(a, x), x.model>>
  BY DEF SqlKey
<1> HIDE DEF key, u
<1>5. ASSUME NEW x \in R, NEW y \in R, key[x] = key[y] PROVE (x.cost = 0) = (y.cost = 0)
  <2>3. \A p, q, m, n : <<p, m>> = <<q, n>> => p = q /\ m = n
    OBVIOUS
  <2>1. x.model = y.model /\ bucketExpr(a, x) = bucketExpr(a, y)
    BY <1>4, <1>5, <2>3
  <2>2. bucketExpr(u, x) = bucketExpr(u, y)
    BY <1>3, <2>1
  <2> QED
    BY <2>1, <2>2 DEF Uniform, u
<1> QED
  BY <1>5 DEF CostsAlike, key

LEMMA RowsPricedAlike ==
  ASSUME RowsTyped(stored), Apart(stored), ScannedInv
  PROVE  PricedAlike
<1> SUFFICES ASSUME stored = Joined(stored), scanned = {}, NEW bucket \in {"day", "session"}, NEW byModel \in BOOLEAN
             PROVE  LET R == Joined(stored)
                        a(mode) == [InUTC(bucket) EXCEPT !.mode = mode, !.breakdown = byModel]
                    IN /\ Cost(RunAggregate(a("display"))) = OneByOneIn(R, "display")
                       /\ Cost(RunInstances(a("auto"))) = OneByOneIn(R, "auto")
                       /\ Small(R) => /\ Cost(RunAggregate(a("auto"))) <= OneByOneIn(R, "auto")
                                      /\ Uniform(R, bucket) => Cost(RunAggregate(a("auto"))) = OneByOneIn(R, "auto")
                                      /\ byModel => Cost(RunAggregate(a("calculate"))) = OneByOneIn(R, "calculate")
                       /\ \A s \in SessionId :
                            LET line == {l \in RunSession(a("display")) : l.bucket = s}
                                detail == runSessionDetail(s, a("display"))
                            IN Cost(detail) = Cost(line) /\ SumTokens(detail) = SumTokens(line)
  BY DEF PricedAlike, OneByOneIn
<1> DEFINE a(mode) == [InUTC(bucket) EXCEPT !.mode = mode, !.breakdown = byModel]
<1>1. \A mode \in {"display", "auto", "calculate"} :
        Everything(a(mode)) /\ a(mode).mode = mode /\ a(mode).bucket = bucket /\ a(mode).breakdown = byModel
  <2> TAKE mode \in {"display", "auto", "calculate"}
  <2>1. Everything(a(mode))
    BY EverythingIs, ZenonT(40)
  <2> DEFINE u == InUTC(bucket)
  <2>2. u.bucket = bucket /\ u \in ReportArgs
    BY InUTCIs
  <2>3. a(mode) = [u EXCEPT !.mode = mode, !.breakdown = byModel]
    OBVIOUS
  <2> HIDE DEF a, u
  <2>4. DOMAIN u = {"bucket", "since", "until", "platform", "project", "breakdown", "mode", "loc", "start"}
    BY <2>2 DEF ReportArgs
  <2> QED
    BY <2>1, <2>2, <2>3, <2>4
<1> HIDE DEF a
<1> DEFINE key(mode) == SqlKey(stored, a(mode), ByModel(a(mode)))
<1>2. \A mode \in {"display", "auto", "calculate"} :
        /\ CostedRows(stored) /\ listUsageForBlocks(a(mode)) = stored /\ ByModel(a(mode)) \in BOOLEAN
        /\ KeyedBy(stored, key(mode), ByModel(a(mode)))
        /\ RunAggregate(a(mode)) = Fold(Keyed(stored, key(mode)), mode)
  BY <1>1, ReportIs
<1>3. ByModel(a("auto")) = TRUE /\ (byModel => ByModel(a("calculate")) = TRUE)
  BY <1>1 DEF ByModel
<1>4. key("auto") = SqlKey(stored, a("auto"), TRUE)
  BY <1>3
<1> HIDE DEF key
<1>5. Cost(RunAggregate(a("display"))) = OneByOneIn(stored, "display")
  <2>1. Cost(Fold(Keyed(stored, key("display")), "display")) = Cost(stored)
    BY <1>2, DisplayedCosts
  <2> QED
    BY <1>2, <2>1, DisplayedOneByOne
<1>6. Cost(RunInstances(a("auto"))) = OneByOneIn(stored, "auto")
  BY <1>1, <1>2, InstancesAddUp
<1>7. ASSUME Small(stored)
      PROVE  /\ Cost(RunAggregate(a("auto"))) <= OneByOneIn(stored, "auto")
             /\ Uniform(stored, bucket) => Cost(RunAggregate(a("auto"))) = OneByOneIn(stored, "auto")
  <2>1. KeyedBy(stored, key("auto"), TRUE) /\ RunAggregate(a("auto")) = Fold(Keyed(stored, key("auto")), "auto")
    BY <1>2, <1>3
  <2>2. /\ Cost(Fold(Keyed(stored, key("auto")), "auto")) <= OneByOneIn(stored, "auto")
        /\ CostsAlike(stored, key("auto"))
              => Cost(Fold(Keyed(stored, key("auto")), "auto")) = OneByOneIn(stored, "auto")
    BY <1>7, <2>1, ReportFair
  <2>3. ASSUME Uniform(stored, bucket) PROVE CostsAlike(stored, key("auto"))
    <3>1. Everything(a("auto")) /\ a("auto").bucket = bucket
      BY <1>1
    <3>2. CostsAlike(stored, SqlKey(stored, a("auto"), TRUE))
      BY <2>3, <3>1, UniformKeys
    <3> QED
      BY <1>4, <3>2
  <2> QED
    BY <2>1, <2>2, <2>3
<1>8. ASSUME Small(stored), byModel PROVE Cost(RunAggregate(a("calculate"))) = OneByOneIn(stored, "calculate")
  <2>1. KeyedBy(stored, key("calculate"), TRUE) /\ RunAggregate(a("calculate")) = Fold(Keyed(stored, key("calculate")), "calculate")
    BY <1>2, <1>3, <1>8
  <2>2. Cost(Fold(Keyed(stored, key("calculate")), "calculate")) = OneByOneIn(stored, "calculate")
    BY <1>8, <2>1, ReportFair
  <2> QED
    BY <2>1, <2>2
<1>9. ASSUME NEW s \in SessionId
      PROVE  LET line == {l \in RunSession(a("display")) : l.bucket = s}
                 detail == runSessionDetail(s, a("display"))
             IN Cost(detail) = Cost(line) /\ SumTokens(detail) = SumTokens(line)
  BY <1>1, SessionDetail
<1>10. Joined(stored) = stored
  OBVIOUS
<1> QED
  BY <1>5, <1>6, <1>7, <1>8, <1>9, <1>10 DEF a

-----------------------------------------------------------------------------
(* What the agents left on disk: records of messages that were sent, in    *)
(* files written at instants that have passed.                             *)

TokenBag == [in : Nat, out : Nat, cc : Nat, cr : Nat]

\* A record of a message, however it has been revised and copied.
Recorded(rec) ==
  rec.kind \in {"usage", "stats"} =>
    \E u \in Usages :
      LET main == Main(Bag(u)) IN
      /\ Fits(u) /\ (rec.kind = "stats" => agent = "gemini" /\ form = "inclusive")
      /\ rec.truth = UsedTokens(u) /\ rec.alt = Bag(u)
      /\ rec.tool = (IF form = "total" THEN 0 ELSE u.tool)
      /\ rec.think = (IF agent = "goose" THEN 0 ELSE u.think)
      /\ rec.in = main.in /\ rec.out = main.out /\ rec.cc = main.cc /\ rec.cr = main.cr
      /\ rec.total = main.total /\ rec.cost = main.cost
      /\ rec.real # NoModel /\ (rec.model = rec.real \/ rec.model = NoModel)
      /\ agent \notin {"gemini", "openclaw"} => rec.model = KimiDefault /\ rec.real = KimiDefault
      /\ agent \notin Unstamped => rec.ts # 0
Fine(rec, n) == rec.msg \in 0 .. n /\ Recorded(rec)
Records(list, n) == list \in Seq({list[i] : i \in DOMAIN list}) /\ \A i \in DOMAIN list : Fine(list[i], n)
Left(doc, n, t) == doc = [rows |-> doc.rows, mtime |-> doc.mtime] /\ doc.mtime \in 0 .. t /\ Records(doc.rows, n)
ReadersBounded ==
  /\ agent \in Agent /\ home \in Root /\ form \in Forms
  /\ now \in 1 .. MaxNow /\ sent \in 0 .. MaxMessages /\ events \in 0 .. MaxEvents
  /\ disk = [r \in Root |-> [f \in AgentFile |-> disk[r][f]]]
  /\ \A r \in Root, f \in AgentFile : Left(disk[r][f], sent, now)

\* Nobody becomes another agent.
LEMMA RecordedStays ==
  ASSUME UNCHANGED <<agent, form>>, NEW rec, Recorded(rec)
  PROVE  Recorded(rec)'
<1> SUFFICES ASSUME rec.kind \in {"usage", "stats"} PROVE Recorded(rec)'
  BY DEF Recorded
<1>1. PICK u \in Usages :
      LET main == Main(Bag(u)) IN
      /\ Fits(u) /\ (rec.kind = "stats" => agent = "gemini" /\ form = "inclusive")
      /\ rec.truth = UsedTokens(u) /\ rec.alt = Bag(u)
      /\ rec.tool = (IF form = "total" THEN 0 ELSE u.tool)
      /\ rec.think = (IF agent = "goose" THEN 0 ELSE u.think)
      /\ rec.in = main.in /\ rec.out = main.out /\ rec.cc = main.cc /\ rec.cr = main.cr
      /\ rec.total = main.total /\ rec.cost = main.cost
      /\ rec.real # NoModel /\ (rec.model = rec.real \/ rec.model = NoModel)
      /\ agent \notin {"gemini", "openclaw"} => rec.model = KimiDefault /\ rec.real = KimiDefault
      /\ agent \notin Unstamped => rec.ts # 0
  BY DEF Recorded
<1>2. Fits(u)' = Fits(u)
  BY DEF Fits, ThinksApart
<1>3. Bag(u)' = Bag(u) /\ Main(Bag(u))' = Main(Bag(u))
  BY DEF Main, Bag, UsedTokens, Nothing
<1> QED
  BY <1>1, <1>2, <1>3 DEF Recorded, UsedTokens, Unstamped

LEMMA LeftStays ==
  ASSUME UNCHANGED <<agent, form>>, NEW r, NEW f, Left(disk'[r][f], sent', now')
  PROVE  Left(disk[r][f], sent, now)'
<1>1. ASSUME NEW i \in DOMAIN disk'[r][f].rows PROVE Recorded(disk[r][f].rows[i])'
  <2>1. PICK rec : rec = disk'[r][f].rows[i]
    OBVIOUS
  <2>2. Recorded(rec)
    BY <2>1 DEF Left, Records, Fine
  <2>3. Recorded(rec)'
    BY <2>2, RecordedStays
  <2> QED
    BY <2>1, <2>3 DEF Recorded
<1>2. /\ disk'[r][f] = [rows |-> disk'[r][f].rows, mtime |-> disk'[r][f].mtime] /\ disk'[r][f].mtime \in 0 .. now'
      /\ disk'[r][f].rows \in Seq({disk'[r][f].rows[i] : i \in DOMAIN disk'[r][f].rows})
      /\ \A i \in DOMAIN disk'[r][f].rows : disk'[r][f].rows[i].msg \in 0 .. sent'
  BY DEF Left, Records, Fine
<1>3. (\A i \in DOMAIN disk[r][f].rows : Recorded(disk[r][f].rows[i]))'
  BY <1>1
<1> QED
  BY <1>2, <1>3 DEF Left, Records, Fine

LEMMA RowsOf ==
  ASSUME NEW S, NEW list \in Seq(S), NEW n, \A i \in DOMAIN list : Fine(list[i], n)
  PROVE  Records(list, n)
<1>1. \A i \in DOMAIN list : list[i] \in {list[j] : j \in DOMAIN list}
  OBVIOUS
<1>2. list \in Seq({list[j] : j \in DOMAIN list})
  BY <1>1, RangeSeq
<1> QED
  BY <1>2 DEF Records

LEMMA RowsLast ==
  ASSUME NEW list, NEW n \in Nat, NEW n2 \in Nat, n <= n2, Records(list, n)
  PROVE  Records(list, n2)
BY DEF Records, Fine

LEMMA RowsMore ==
  ASSUME NEW list, NEW more, NEW n, Records(list, n), Records(more, n)
  PROVE  Records(list \o more, n)
<1> DEFINE S == {list[i] : i \in DOMAIN list} \cup {more[i] : i \in DOMAIN more}
<1>1. list \in Seq(S) /\ more \in Seq(S)
  <2>1. \A i \in DOMAIN list : list[i] \in S
    OBVIOUS
  <2>2. \A i \in DOMAIN more : more[i] \in S
    OBVIOUS
  <2> HIDE DEF S
  <2> QED
    BY <2>1, <2>2, RangeSeq DEF Records
<1> HIDE DEF S
<1>2. /\ Len(list) \in Nat /\ Len(more) \in Nat /\ DOMAIN list = 1 .. Len(list) /\ DOMAIN more = 1 .. Len(more)
      /\ DOMAIN (list \o more) = 1 .. Len(list) + Len(more) /\ list \o more \in Seq(S)
  BY <1>1
<1>3. ASSUME NEW i \in DOMAIN (list \o more) PROVE Fine((list \o more)[i], n)
  <2>1. CASE i <= Len(list)
    <3>1. i \in DOMAIN list /\ (list \o more)[i] = list[i]
      BY <1>1, <1>2, <2>1
    <3> QED
      BY <3>1 DEF Records
  <2>2. CASE i > Len(list)
    <3>1. i - Len(list) \in DOMAIN more /\ (list \o more)[i] = more[i - Len(list)]
      BY <1>1, <1>2, <2>2
    <3> QED
      BY <3>1 DEF Records
  <2> QED
    BY <1>2, <2>1, <2>2
<1> QED
  BY <1>2, <1>3, RowsOf

LEMMA RowsReplaced ==
  ASSUME NEW list, NEW n, Records(list, n), NEW i \in DOMAIN list, NEW rec, Fine(rec, n)
  PROVE  Records([list EXCEPT ![i] = rec], n)
<1> DEFINE S == {list[j] : j \in DOMAIN list} \cup {rec}
<1>1. \A j \in DOMAIN list : list[j] \in S
  OBVIOUS
<1>2. rec \in S
  OBVIOUS
<1> HIDE DEF S
<1>3. list \in Seq(S)
  BY <1>1, RangeSeq DEF Records
<1>4. PICK after : after = [list EXCEPT ![i] = rec]
  OBVIOUS
<1>5. after \in Seq(S) /\ DOMAIN after = DOMAIN list /\ \A j \in DOMAIN list : after[j] = IF j = i THEN rec ELSE list[j]
  BY <1>2, <1>3, <1>4
<1>6. \A j \in DOMAIN after : Fine(after[j], n)
  BY <1>5 DEF Records
<1>7. Records(after, n)
  BY <1>5, <1>6, RowsOf
<1> QED
  BY <1>4, <1>7

LEMMA RowsOne ==
  ASSUME NEW rec, NEW n, Fine(rec, n)
  PROVE  Records(<<rec>>, n)
<1>1. <<rec>> \in Seq({rec}) /\ \A i \in DOMAIN <<rec>> : <<rec>>[i] = rec
  OBVIOUS
<1>2. \A i \in DOMAIN <<rec>> : Fine(<<rec>>[i], n)
  BY <1>1
<1> QED
  BY <1>1, <1>2, RowsOf

LEMMA RowsTwo ==
  ASSUME NEW a, NEW b, NEW n, Fine(a, n), Fine(b, n)
  PROVE  Records(<<a, b>>, n)
<1>1. <<a, b>> \in Seq({a, b}) /\ \A i \in DOMAIN <<a, b>> : <<a, b>>[i] = a \/ <<a, b>>[i] = b
  OBVIOUS
<1>2. \A i \in DOMAIN <<a, b>> : Fine(<<a, b>>[i], n)
  BY <1>1
<1> QED
  BY <1>1, <1>2, RowsOf

\* What a record says, as far as it matters here.
Says(rec, kind, m, u, ts, model, real) ==
  LET main == Main(Bag(u)) IN
  /\ rec.kind = kind /\ rec.msg = m /\ rec.ts = ts /\ rec.model = model /\ rec.real = real
  /\ rec.alt = Bag(u) /\ rec.truth = UsedTokens(u)
  /\ rec.tool = (IF form = "total" THEN 0 ELSE u.tool)
  /\ rec.think = (IF agent = "goose" THEN 0 ELSE u.think)
  /\ rec.in = main.in /\ rec.out = main.out /\ rec.cc = main.cc /\ rec.cr = main.cr
  /\ rec.total = main.total /\ rec.cost = main.cost

LEMMA RowSays ==
  ASSUME NEW m, NEW f, NEW u, NEW ts, NEW model, NEW real
  PROVE  /\ Says(Row(m, f, u, ts, model, real), "usage", m, u, ts, model, real)
         /\ \A kind : Says([Row(m, f, u, ts, model, real) EXCEPT !.kind = kind], kind, m, u, ts, model, real)
         /\ \A sess : Says([Row(m, f, u, ts, model, real) EXCEPT !.sess = sess], "usage", m, u, ts, model, real)
<1>1. PICK rec : rec = Row(m, f, u, ts, model, real)
  OBVIOUS
<1>2. PICK main, alt : main = Main(Bag(u)) /\ alt = Bag(u)
  OBVIOUS
<1>3. PICK tool, think, truth, sess : /\ tool = (IF form = "total" THEN 0 ELSE u.tool)
                                      /\ think = (IF agent = "goose" THEN 0 ELSE u.think)
                                      /\ truth = UsedTokens(u)
                                      /\ sess = (IF agent \in PerSession THEN m ELSE f)
  OBVIOUS
<1>4. rec = [kind |-> "usage", msg |-> m, id |-> m, sess |-> sess, ts |-> ts, model |-> model, alt |-> alt,
             truth |-> truth, real |-> real, tool |-> tool, think |-> think, in |-> main.in, out |-> main.out,
             cc |-> main.cc, cr |-> main.cr, total |-> main.total, cost |-> main.cost]
  BY <1>1, <1>2, <1>3 DEF Row
<1>5. Says(rec, "usage", m, u, ts, model, real)
  BY <1>2, <1>3, <1>4 DEF Says
<1>6. \A kind : Says([rec EXCEPT !.kind = kind], kind, m, u, ts, model, real)
  BY <1>2, <1>3, <1>4 DEF Says
<1>7. \A other : Says([rec EXCEPT !.sess = other], "usage", m, u, ts, model, real)
  BY <1>2, <1>3, <1>4 DEF Says
<1> QED
  BY <1>1, <1>5, <1>6, <1>7

LEMMA SaysFine ==
  ASSUME NEW rec, NEW kind, NEW m \in Nat, NEW u \in Usages, NEW ts, NEW model, NEW real, NEW n \in Nat,
         Says(rec, kind, m, u, ts, model, real), m <= n, Fits(u),
         kind = "usage" \/ (agent = "gemini" /\ form = "inclusive"),
         real # NoModel, model = real \/ model = NoModel,
         agent \in {"gemini", "openclaw"} \/ (model = KimiDefault /\ real = KimiDefault),
         agent \in Unstamped \/ ts # 0
  PROVE  Fine(rec, n)
<1>1. rec.msg \in 0 .. n
  BY DEF Says
<1>2. Recorded(rec)
  BY DEF Says, Recorded
<1> QED
  BY <1>1, <1>2 DEF Fine

LEMMA LedgerIsFine ==
  ASSUME NEW m \in Nat, NEW n \in Nat, m <= n, NEW f, NEW u, NEW ts, NEW model, NEW real,
         Fine(Row(m, f, u, ts, model, real), n)
  PROVE  Records(Ledger(Row(m, f, u, ts, model, real)), n)
<1>1. PICK rec : rec = Row(m, f, u, ts, model, real)
  OBVIOUS
<1>2. PICK before : before = [rec EXCEPT !.kind = "event", !.cc = 0, !.cr = 0]
  OBVIOUS
<1>3. before.kind = "event" /\ before.msg = m
  BY <1>1, <1>2 DEF Row
<1>4. Fine(before, n)
  BY <1>3 DEF Fine, Recorded
<1>5. Ledger(rec) = <<before, rec>>
  BY <1>2 DEF Ledger
<1> QED
  BY <1>1, <1>4, <1>5, RowsTwo

\* A file is left in another state, later.
Leaves(r, f, doc) ==
  /\ disk' = [q \in Root |-> [g \in AgentFile |-> IF q = r /\ g = f THEN doc ELSE disk[q][g]]]
  /\ Left(doc, sent', now')
  /\ UNCHANGED <<agent, home, form>>
  /\ now' \in now .. MaxNow /\ sent' \in sent .. MaxMessages /\ events' \in 0 .. MaxEvents

LEMMA LeavesBounded ==
  ASSUME ReadersBounded, NEW r \in Root, NEW f \in AgentFile, NEW doc, Leaves(r, f, doc)
  PROVE  ReadersBounded'
<1>1. /\ now \in Nat \ {0} /\ now' \in Nat \ {0} /\ sent \in Nat /\ sent' \in Nat /\ now <= now' /\ sent <= sent'
      /\ now' \in 1 .. MaxNow /\ sent' \in 0 .. MaxMessages
  BY ReadersAssumption DEF ReadersBounded, Leaves
<1>2. ASSUME NEW q \in Root, NEW g \in AgentFile PROVE Left(disk'[q][g], sent', now')
  <2>1. disk'[q][g] = IF q = r /\ g = f THEN doc ELSE disk[q][g]
    BY DEF Leaves
  <2>2. Left(disk[q][g], sent', now')
    BY <1>1, RowsLast DEF ReadersBounded, Left
  <2> QED
    BY <2>1, <2>2 DEF Leaves
<1>5. ASSUME NEW q \in Root, NEW g \in AgentFile PROVE Left(disk[q][g], sent, now)'
  BY <1>2, LeftStays DEF Leaves
<1>3. disk' = [q \in Root |-> [g \in AgentFile |-> disk'[q][g]]]
  BY DEF Leaves
<1>4. agent' \in Agent /\ home' \in Root /\ form' \in Forms' /\ events' \in 0 .. MaxEvents
  BY DEF ReadersBounded, Leaves, Forms
<1> QED
  BY <1>1, <1>3, <1>4, <1>5 DEF ReadersBounded

LEMMA AppendLeaves ==
  ASSUME ReadersBounded, NEW f \in AgentFile, NEW list, Append2(f, list), Records(list, sent'),
         UNCHANGED <<agent, home, form>>,
         now' \in now .. MaxNow, sent' \in sent .. MaxMessages, events' \in 0 .. MaxEvents
  PROVE  ReadersBounded'
<1>1. /\ now \in Nat /\ now' \in Nat /\ sent \in Nat /\ sent' \in Nat /\ sent <= sent' /\ home \in Root
  BY ReadersAssumption DEF ReadersBounded
<1>2. PICK doc : doc = [rows |-> disk[home][f].rows \o list, mtime |-> now']
  OBVIOUS
<1>3. disk' = [disk EXCEPT ![home][f] = doc]
  BY <1>2 DEF Append2
<1>4. disk' = [q \in Root |-> [g \in AgentFile |-> IF q = home /\ g = f THEN doc ELSE disk[q][g]]]
  BY <1>1, <1>3 DEF ReadersBounded
<1>5. Records(disk[home][f].rows, sent')
  BY <1>1, RowsLast DEF ReadersBounded, Left
<1>6. Records(disk[home][f].rows \o list, sent')
  BY <1>5, RowsMore
<1>7. Left(doc, sent', now')
  BY <1>1, <1>2, <1>6 DEF Left
<1> QED
  BY <1>1, <1>4, <1>7, LeavesBounded DEF Leaves

LEMMA ReadersBoundedStep ==
  ASSUME ReadersBounded, [ReadersNext]_readerVars
  PROVE  ReadersBounded'
<1>1. /\ now \in Nat \ {0} /\ sent \in Nat /\ events \in Nat /\ home \in Root
      /\ MaxNow \in Nat /\ MaxMessages \in Nat /\ MaxEvents \in Nat
      /\ now <= MaxNow /\ sent <= MaxMessages /\ events <= MaxEvents
  BY ReadersAssumption DEF ReadersBounded
<1>2. ASSUME NEW f \in AgentFile, NEW u \in Usages, NEW dated \in (IF agent \in Unstamped THEN BOOLEAN ELSE {TRUE}),
             NEW model \in Names(f), NEW gap \in {0, 1}, Write(f, u, dated, model, gap)
      PROVE  ReadersBounded'
  <2>1. /\ sent < MaxMessages /\ now + gap <= MaxNow /\ now' = now + gap /\ sent' = sent + 1
        /\ UNCHANGED <<agent, home, form, events>> /\ Fits(u)
    BY <1>2 DEF Write
  <2>2. PICK ts, real : /\ ts = (IF dated THEN now' ELSE 0)
                        /\ real = (IF model = NoModel THEN InForce(disk[home][f].rows) ELSE model)
    OBVIOUS
  <2>3. PICK rec : rec = Row(sent + 1, f, u, ts, model, real)
    OBVIOUS
  <2>4. \/ Append2(f, <<rec>>)
        \/ Append2(f, Ledger(rec))
    BY <1>2, <2>2, <2>3 DEF Write
  <2>5. sent + 1 \in Nat /\ sent' \in Nat /\ sent + 1 <= sent' /\ now' # 0
    BY <1>1, <2>1
  <2>6. /\ real # NoModel /\ (model = real \/ model = NoModel)
        /\ agent \in {"gemini", "openclaw"} \/ (model = KimiDefault /\ real = KimiDefault)
    BY <2>2, ReadersAssumption DEF Names
  <2>7. agent \in Unstamped \/ ts # 0
    BY <2>2, <2>5
  <2>8. Says(rec, "usage", sent + 1, u, ts, model, real)
    BY <2>3, RowSays
  <2>9. Fine(rec, sent')
    BY <2>1, <2>5, <2>6, <2>7, <2>8, SaysFine
  <2>10. Records(<<rec>>, sent') /\ Records(Ledger(rec), sent')
    BY <2>3, <2>5, <2>9, RowsOne, LedgerIsFine
  <2>11. now' \in now .. MaxNow /\ sent' \in sent .. MaxMessages /\ events' \in 0 .. MaxEvents
    BY <1>1, <2>1
  <2> QED
    BY <2>1, <2>4, <2>10, <2>11, AppendLeaves
<1>3. ASSUME NEW u \in Usages, WriteStatistics(u)
      PROVE  ReadersBounded'
  <2>1. /\ sent < MaxMessages /\ sent' = sent + 1 /\ UNCHANGED <<agent, home, form, now, events>>
        /\ agent = "gemini" /\ form = "inclusive" /\ Fits(u)
    BY <1>3 DEF WriteStatistics
  <2>2. PICK model \in Models : disk' = [disk EXCEPT ![home][2] =
                               [rows |-> <<[Row(sent + 1, 2, u, 0, model, model) EXCEPT !.kind = "stats"]>>,
                                mtime |-> now]]
    BY <1>3 DEF WriteStatistics
  <2>3. PICK rec : rec = [Row(sent + 1, 2, u, 0, model, model) EXCEPT !.kind = "stats"]
    OBVIOUS
  <2>4. Says(rec, "stats", sent + 1, u, 0, model, model)
    BY <2>3, RowSays
  <2>5. sent + 1 \in Nat /\ sent' \in Nat /\ sent + 1 <= sent'
    BY <1>1, <2>1
  <2>11. Fine(rec, sent')
    BY <2>1, <2>2, <2>4, <2>5, SaysFine, ReadersAssumption DEF Unstamped
  <2>6. PICK doc : doc = [rows |-> <<rec>>, mtime |-> now]
    OBVIOUS
  <2>7. disk' = [disk EXCEPT ![home][2] = doc]
    BY <2>2, <2>3, <2>6
  <2>8. disk' = [q \in Root |-> [g \in AgentFile |-> IF q = home /\ g = 2 THEN doc ELSE disk[q][g]]]
    BY <1>1, <2>7 DEF ReadersBounded, AgentFile
  <2>9. Left(doc, sent', now')
    BY <1>1, <2>1, <2>6, <2>11, RowsOne DEF Left
  <2>10. now' \in now .. MaxNow /\ sent' \in sent .. MaxMessages /\ events' \in 0 .. MaxEvents /\ 2 \in AgentFile
    BY <1>1, <2>1 DEF AgentFile
  <2> QED
    BY <1>1, <2>1, <2>8, <2>9, <2>10, LeavesBounded DEF Leaves
<1>4. ASSUME NEW f \in AgentFile, NEW kind \in {"model", "long"}, NEW model, Append2(f, <<Mark(kind, model)>>),
             events < MaxEvents, events' = events + 1, UNCHANGED <<now, agent, home, form, sent>>
      PROVE  ReadersBounded'
  <2>1. Mark(kind, model).msg \in 0 .. sent' /\ Mark(kind, model).kind = kind
    BY <1>1, <1>4 DEF Mark
  <2>3. Fine(Mark(kind, model), sent')
    BY <2>1 DEF Fine, Recorded
  <2>2. now' \in now .. MaxNow /\ sent' \in sent .. MaxMessages /\ events' \in 0 .. MaxEvents
    BY <1>1, <1>4
  <2> QED
    BY <1>4, <2>2, <2>3, RowsOne, AppendLeaves
<1>5. ASSUME NEW f \in AgentFile, NEW model, ChangeModel(f, model)
      PROVE  ReadersBounded'
  BY <1>4, <1>5 DEF ChangeModel
<1>6. ASSUME NEW f \in AgentFile, Overlong(f)
      PROVE  ReadersBounded'
  BY <1>4, <1>6 DEF Overlong
<1>7. ASSUME NEW f \in AgentFile, NEW u \in Usages, NEW i \in DOMAIN disk[home][f].rows, Revise(f, i, u)
      PROVE  ReadersBounded'
  <2>1. /\ events < MaxEvents /\ events' = events + 1 /\ now' = now /\ UNCHANGED <<agent, home, form, sent>>
        /\ disk[home][f].rows[i].kind = "usage" /\ Fits(u)
    BY <1>7 DEF Revise
  <2>2. PICK rec : rec = [Row(disk[home][f].rows[i].msg, f, u, disk[home][f].rows[i].ts, disk[home][f].rows[i].model,
                              disk[home][f].rows[i].real) EXCEPT !.sess = disk[home][f].rows[i].sess]
    OBVIOUS
  <2>3. \/ Append2(f, <<rec>>)
        \/ disk' = [disk EXCEPT ![home][f].rows[i] = rec, ![home][f].mtime = now]
    BY <1>7, <2>2 DEF Revise
  <2>4. PICK old : old = disk[home][f].rows[i]
    OBVIOUS
  <2>5. Left(disk[home][f], sent, now)
    BY <1>1 DEF ReadersBounded
  <2>10. Fine(old, sent) /\ old.kind = "usage"
    BY <2>1, <2>4, <2>5 DEF Left, Records
  <2>11. Says(rec, "usage", old.msg, u, old.ts, old.model, old.real)
    BY <2>2, <2>4, RowSays
  <2>12. /\ old.msg \in Nat /\ old.msg <= sent /\ old.real # NoModel /\ (old.model = old.real \/ old.model = NoModel)
         /\ agent \in {"gemini", "openclaw"} \/ (old.model = KimiDefault /\ old.real = KimiDefault)
         /\ agent \in Unstamped \/ old.ts # 0
    <3>1. old.msg \in Nat /\ old.msg <= sent
      BY <1>1, <2>10 DEF Fine
    <3> QED
      BY <2>10, <3>1 DEF Fine, Recorded
  <2>6. Fine(rec, sent)
    BY <1>1, <2>1, <2>11, <2>12, SaysFine
  <2>7. now' \in now .. MaxNow /\ sent' \in sent .. MaxMessages /\ events' \in 0 .. MaxEvents /\ sent' = sent
    BY <1>1, <2>1
  <2>8. CASE Append2(f, <<rec>>)
    BY <2>1, <2>6, <2>7, <2>8, RowsOne, AppendLeaves
  <2>9. CASE disk' = [disk EXCEPT ![home][f].rows[i] = rec, ![home][f].mtime = now]
    <3>1. PICK doc : doc = [rows |-> [disk[home][f].rows EXCEPT ![i] = rec], mtime |-> now]
      OBVIOUS
    <3>2. disk' = [q \in Root |-> [g \in AgentFile |-> IF q = home /\ g = f THEN doc ELSE disk[q][g]]]
      <4>1. PICK file, list, t : file = disk[home][f] /\ list = disk[home][f].rows /\ t = disk[home][f].mtime
        OBVIOUS
      <4>2. file = [rows |-> list, mtime |-> t]
        BY <2>5, <4>1 DEF Left
      <4>3. [[file EXCEPT !.rows[i] = rec] EXCEPT !.mtime = now] = doc
        <5>1. PICK after : after = [list EXCEPT ![i] = rec]
          OBVIOUS
        <5>2. [file EXCEPT !.rows[i] = rec] = [rows |-> after, mtime |-> t]
          BY <4>2, <5>1
        <5>3. doc = [rows |-> after, mtime |-> now]
          BY <3>1, <4>1, <5>1
        <5>4. [[rows |-> after, mtime |-> t] EXCEPT !.mtime = now] = [rows |-> after, mtime |-> now]
          OBVIOUS
        <5> QED
          BY <5>2, <5>3, <5>4, Zenon
      <4>4. disk' = [disk EXCEPT ![home][f] = [[@ EXCEPT !.rows[i] = rec] EXCEPT !.mtime = now]]
        BY <1>1, <2>9 DEF ReadersBounded
      <4>5. disk' = [disk EXCEPT ![home][f] = doc]
        BY <4>1, <4>3, <4>4
      <4> QED
        BY <1>1, <4>5 DEF ReadersBounded
    <3>3. Records([disk[home][f].rows EXCEPT ![i] = rec], sent)
      BY <2>5, <2>6, RowsReplaced DEF Left
    <3>4. Left(doc, sent', now')
      BY <1>1, <2>1, <3>1, <3>3 DEF Left
    <3> QED
      BY <1>1, <2>1, <2>7, <3>2, <3>4, LeavesBounded DEF Leaves
  <2> QED
    BY <2>3, <2>8, <2>9
<1>8. ASSUME NEW f \in AgentFile, NEW r \in Root, NEW mtime \in {disk[home][f].mtime, now}, Copy(f, r, mtime)
      PROVE  ReadersBounded'
  <2>1. events < MaxEvents /\ events' = events + 1 /\ UNCHANGED <<agent, home, form, now, sent>>
    BY <1>8 DEF Copy
  <2>2. PICK doc : doc = [rows |-> disk[home][f].rows, mtime |-> mtime]
    OBVIOUS
  <2>3. disk' = [disk EXCEPT ![r][f] = doc]
    BY <1>8, <2>2 DEF Copy
  <2>4. disk' = [q \in Root |-> [g \in AgentFile |-> IF q = r /\ g = f THEN doc ELSE disk[q][g]]]
    BY <2>3 DEF ReadersBounded
  <2>5. Left(disk[home][f], sent, now)
    BY <1>1 DEF ReadersBounded
  <2>6. Left(doc, sent', now')
    BY <1>1, <2>1, <2>2, <2>5 DEF Left
  <2>7. now' \in now .. MaxNow /\ sent' \in sent .. MaxMessages /\ events' \in 0 .. MaxEvents
    BY <1>1, <2>1
  <2> QED
    BY <2>1, <2>4, <2>6, <2>7, LeavesBounded DEF Leaves
<1>9. CASE UNCHANGED readerVars
  <2>1. \A r \in Root, f \in AgentFile : Left(disk'[r][f], sent', now')
    BY <1>9 DEF readerVars, ReadersBounded
  <2>2. \A r \in Root, f \in AgentFile : Left(disk[r][f], sent, now)'
    BY <1>9, <2>1, LeftStays DEF readerVars
  <2> QED
    BY <1>9, <2>2 DEF readerVars, ReadersBounded, Forms
<1> QED
  BY <1>2, <1>3, <1>5, <1>6, <1>7, <1>8, <1>9 DEF ReadersNext

LEMMA ReadersBoundedStart ==
  ASSUME ReadersInit
  PROVE  ReadersBounded
<1>1. <<>> \in Seq({}) /\ DOMAIN <<>> = {}
  OBVIOUS
<1>2. Records(<<>>, 0)
  BY <1>1, RowsOf
<1>3. PICK empty : empty = [rows |-> <<>>, mtime |-> 0]
  OBVIOUS
<1>4. Left(empty, 0, 1)
  BY <1>2, <1>3 DEF Left
<1>5. disk = [r \in Root |-> [f \in AgentFile |-> empty]] /\ now = 1 /\ sent = 0 /\ events = 0
  BY <1>3 DEF ReadersInit
<1>6. now \in 1 .. MaxNow /\ sent \in 0 .. MaxMessages /\ events \in 0 .. MaxEvents
  BY <1>5, ReadersAssumption
<1> QED
  BY <1>4, <1>5, <1>6 DEF ReadersInit, ReadersBounded

ReadersSpec == ReadersInit /\ [][ReadersNext]_readerVars

LEMMA ReadersTypesHold == ReadersSpec => []ReadersTypeOK
<1>1. ReadersBounded => ReadersTypeOK
  BY DEF ReadersBounded, ReadersTypeOK, Left, Records, Fine
<1> QED
  BY <1>1, ReadersBoundedStart, ReadersBoundedStep, PTL DEF ReadersSpec

-----------------------------------------------------------------------------
(* What the readers make of a record.                                      *)

LEMMA SumIs ==
  ASSUME NEW b \in TokenBag
  PROVE  Sum(b) = b.in + b.out + b.cc + b.cr /\ Sum(b) \in Nat /\ (Sum(b) = 0 => b.in = 0 /\ b.out = 0 /\ b.cc = 0 /\ b.cr = 0)
<1>1. PICK input, out, cc, cr \in Nat : input = b.in /\ out = b.out /\ cc = b.cc /\ cr = b.cr
  BY DEF TokenBag
<1>2. Sum(b) = input + out + cc + cr
  BY <1>1 DEF Sum
<1>3. input + out + cc + cr \in Nat /\ (input + out + cc + cr = 0 => input = 0 /\ out = 0 /\ cc = 0 /\ cr = 0)
  OBVIOUS
<1> QED
  BY <1>1, <1>2, <1>3

LEMMA OrTotalIs ==
  ASSUME NEW b \in TokenBag, NEW total \in Nat
  PROVE  OrTotal(b, total) \in TokenBag /\ Sum(OrTotal(b, total)) = IF Sum(b) = 0 THEN total ELSE Sum(b)
<1>1. CASE Sum(b) = 0
  <2>1. OrTotal(b, total) = [in |-> b.in, out |-> total, cc |-> b.cc, cr |-> b.cr]
    BY <1>1 DEF OrTotal, TokenBag
  <2>2. PICK new : new = OrTotal(b, total)
    OBVIOUS
  <2>3. new \in TokenBag /\ new.in = 0 /\ new.out = total /\ new.cc = 0 /\ new.cr = 0
    BY <1>1, <2>1, <2>2, SumIs DEF TokenBag
  <2>4. Sum(new) = total
    BY <2>3, SumIs
  <2> QED
    BY <1>1, <2>2, <2>3, <2>4
<1>2. CASE Sum(b) # 0
  BY <1>2 DEF OrTotal
<1> QED
  BY <1>1, <1>2

LEMMA WithThinkingIs ==
  ASSUME NEW b \in TokenBag, NEW n \in Nat
  PROVE  WithThinking(b, n) \in TokenBag /\ Sum(WithThinking(b, n)) = Sum(b) + n
<1>1. PICK new : new = WithThinking(b, n)
  OBVIOUS
<1>2. new = [in |-> b.in, out |-> b.out + n, cc |-> b.cc, cr |-> b.cr]
  BY <1>1 DEF WithThinking, TokenBag
<1>3. b.in \in Nat /\ b.out \in Nat /\ b.cc \in Nat /\ b.cr \in Nat
  BY DEF TokenBag
<1>4. new \in TokenBag /\ new.in = b.in /\ new.out = b.out + n /\ new.cc = b.cc /\ new.cr = b.cr
  BY <1>2, <1>3 DEF TokenBag
<1>5. Sum(new) = Sum(b) + n
  BY <1>3, <1>4 DEF Sum
<1> QED
  BY <1>1, <1>4, <1>5

LEMMA ThinkingOrTotalIs ==
  ASSUME NEW b \in TokenBag, NEW total \in Nat, NEW think \in Nat
  PROVE  /\ ThinkingOrTotal(b, total, think) \in TokenBag
         /\ Sum(ThinkingOrTotal(b, total, think))
              = IF Sum(b) # 0 THEN Sum(b) + think ELSE IF total > think THEN total ELSE think
<1>1. PICK rest : rest = IF total > think THEN total - think ELSE 0
  OBVIOUS
<1>2. rest \in Nat /\ rest + think = IF total > think THEN total ELSE think
  BY <1>1
<1>3. PICK new : new = OrTotal(b, rest)
  OBVIOUS
<1>4. new \in TokenBag /\ Sum(new) = IF Sum(b) = 0 THEN rest ELSE Sum(b)
  BY <1>2, <1>3, OrTotalIs
<1>5. WithThinking(new, think) \in TokenBag /\ Sum(WithThinking(new, think)) = Sum(new) + think
  BY <1>4, WithThinkingIs
<1>6. ThinkingOrTotal(b, total, think) = WithThinking(new, think)
  BY <1>1, <1>3 DEF ThinkingOrTotal
<1> QED
  BY <1>2, <1>4, <1>5, <1>6

LEMMA DisjointIs ==
  ASSUME NEW b \in TokenBag
  PROVE  /\ Disjoint(b) \in TokenBag
         /\ Disjoint(b).in = (IF b.cr >= b.in THEN 0 ELSE b.in - b.cr)
         /\ Disjoint(b).out = b.out /\ Disjoint(b).cc = b.cc /\ Disjoint(b).cr = b.cr
<1>1. PICK rest : rest = IF b.cr >= b.in THEN 0 ELSE b.in - b.cr
  OBVIOUS
<1>2. Disjoint(b) = [in |-> rest, out |-> b.out, cc |-> b.cc, cr |-> b.cr]
  BY <1>1 DEF Disjoint, TokenBag
<1>3. b.in \in Nat /\ b.out \in Nat /\ b.cc \in Nat /\ b.cr \in Nat
  BY DEF TokenBag
<1>4. rest \in Nat
  BY <1>1, <1>3
<1> QED
  BY <1>1, <1>2, <1>3, <1>4 DEF TokenBag

\* The numbers of a usage, and how a record tells them.
Tells(rec, fresh, cached, created, out, think, tool) ==
  /\ {fresh, cached, created, out, think, tool} \subseteq Nat
  /\ rec.truth = fresh + cached + created + out + think + tool
  /\ form = "total" => rec.alt.in = 0 /\ rec.alt.out = 0 /\ rec.alt.cc = 0 /\ rec.alt.cr = 0
  /\ form # "total" => /\ rec.alt.in = fresh + (IF form = "inclusive" THEN cached ELSE 0)
                       /\ rec.alt.out = out /\ rec.alt.cc = created /\ rec.alt.cr = cached
  /\ rec.alt.total = (IF form = "parts" THEN 0 ELSE rec.truth) /\ rec.alt.cost = 0
  /\ rec.tool = (IF form = "total" THEN 0 ELSE tool)
  /\ rec.think = (IF agent = "goose" THEN 0 ELSE think)
  /\ agent \in {"gemini", "goose", "qwen"} => created = 0
  /\ agent = "goose" => cached = 0
  /\ agent \notin ThinksApart => think = 0
  /\ agent # "gemini" => tool = 0
  /\ form = "total" /\ agent \in {"droid", "kilo"} => think = 0

\* Beside it stands the same, or a part of it, or something else that is not
\* zero where it is not.
Beside(rec) ==
  /\ agent \notin {"codebuff", "goose"} =>
       /\ rec.in = rec.alt.in /\ rec.out = rec.alt.out /\ rec.cc = rec.alt.cc /\ rec.cr = rec.alt.cr
       /\ rec.total = rec.alt.total /\ rec.cost = rec.alt.cost
  /\ agent = "codebuff" =>
       /\ rec.in \in {0, rec.alt.in} /\ rec.out \in {0, rec.alt.out} /\ rec.cc \in {0, rec.alt.cc}
       /\ rec.cr \in {0, rec.alt.cr} /\ rec.total \in {0, rec.alt.total} /\ rec.cost \in {0, rec.alt.cost}
  /\ agent = "goose" =>
       /\ rec.alt.in = 0 => rec.in = 0
       /\ rec.alt.out = 0 => rec.out = 0
       /\ rec.alt.total = 0 => rec.total = 0

LEMMA BagIs ==
  ASSUME NEW u \in Usages
  PROVE  /\ {u.fresh, u.cached, u.created, u.out, u.think, u.tool} \subseteq Nat
         /\ UsedTokens(u) \in Nat
         /\ \E input, total \in Nat :
              /\ input = u.fresh + (IF form = "inclusive" THEN u.cached ELSE 0)
              /\ total = (IF form = "parts" THEN 0 ELSE UsedTokens(u))
              /\ Bag(u) = IF form = "total" THEN [in |-> 0, out |-> 0, cc |-> 0, cr |-> 0, total |-> UsedTokens(u), cost |-> 0]
                          ELSE [in |-> input, out |-> u.out, cc |-> u.created, cr |-> u.cached, cost |-> 0, total |-> total]
<1>1. {u.fresh, u.cached, u.created, u.out, u.think, u.tool} \subseteq Nat
  BY ReadersAssumption
<1>2. UsedTokens(u) \in Nat
  BY <1>1 DEF UsedTokens
<1>3. PICK used : used = UsedTokens(u)
  OBVIOUS
<1>4. PICK input, total : /\ input = u.fresh + (IF form = "inclusive" THEN u.cached ELSE 0)
                          /\ total = (IF form = "parts" THEN 0 ELSE used)
  OBVIOUS
<1>5. input \in Nat /\ total \in Nat
  BY <1>1, <1>2, <1>3, <1>4
<1>6. CASE form = "total"
  <2>1. Bag(u) = [Nothing EXCEPT !.total = used]
    BY <1>3, <1>6 DEF Bag
  <2>2. Bag(u) = [in |-> 0, out |-> 0, cc |-> 0, cr |-> 0, total |-> used, cost |-> 0]
    BY <2>1 DEF Nothing
  <2> QED
    BY <1>1, <1>2, <1>3, <1>4, <1>5, <1>6, <2>2
<1>7. CASE form # "total"
  <2>1. Bag(u) = [in |-> input, out |-> u.out, cc |-> u.created, cr |-> u.cached, cost |-> 0, total |-> total]
    BY <1>3, <1>4, <1>7 DEF Bag
  <2> QED
    BY <1>1, <1>2, <1>3, <1>4, <1>5, <1>7, <2>1
<1> QED
  BY <1>6, <1>7

\* A record of a message is told by the numbers of its usage.
LEMMA RecordTells ==
  ASSUME NEW rec, Recorded(rec), rec.kind \in {"usage", "stats"}
  PROVE  /\ \E fresh, cached, created, out, think, tool : Tells(rec, fresh, cached, created, out, think, tool)
         /\ Beside(rec)
<1>1. PICK u \in Usages :
      LET main == Main(Bag(u)) IN
      /\ Fits(u) /\ rec.truth = UsedTokens(u) /\ rec.alt = Bag(u)
      /\ rec.tool = (IF form = "total" THEN 0 ELSE u.tool)
      /\ rec.think = (IF agent = "goose" THEN 0 ELSE u.think)
      /\ rec.in = main.in /\ rec.out = main.out /\ rec.cc = main.cc /\ rec.cr = main.cr
      /\ rec.total = main.total /\ rec.cost = main.cost
  BY DEF Recorded
<1>2. PICK bag : bag = Bag(u)
  OBVIOUS
<1>3. PICK input, total \in Nat :
        /\ input = u.fresh + (IF form = "inclusive" THEN u.cached ELSE 0)
        /\ total = (IF form = "parts" THEN 0 ELSE UsedTokens(u))
        /\ bag = IF form = "total" THEN [in |-> 0, out |-> 0, cc |-> 0, cr |-> 0, total |-> UsedTokens(u), cost |-> 0]
                 ELSE [in |-> input, out |-> u.out, cc |-> u.created, cr |-> u.cached, cost |-> 0, total |-> total]
  BY <1>2, BagIs
<1>4. {u.fresh, u.cached, u.created, u.out, u.think, u.tool} \subseteq Nat /\ UsedTokens(u) \in Nat
  BY BagIs
<1>5. /\ bag = [in |-> bag.in, out |-> bag.out, cc |-> bag.cc, cr |-> bag.cr, total |-> bag.total, cost |-> bag.cost]
      /\ bag.cost = 0 /\ bag.total = (IF form = "parts" THEN 0 ELSE UsedTokens(u))
      /\ form = "total" => bag.in = 0 /\ bag.out = 0 /\ bag.cc = 0 /\ bag.cr = 0
      /\ form # "total" => bag.in = input /\ bag.out = u.out /\ bag.cc = u.created /\ bag.cr = u.cached
  <2>1. CASE form = "total"
    BY <1>3, <2>1
  <2>2. CASE form # "total"
    BY <1>3, <2>2
  <2> QED
    BY <2>1, <2>2
<1>6. Tells(rec, u.fresh, u.cached, u.created, u.out, u.think, u.tool)
  BY <1>1, <1>2, <1>3, <1>4, <1>5 DEF Tells, Fits, UsedTokens
<1>7. PICK main : main = Main(bag)
  OBVIOUS
<1>8. CASE agent \notin {"codebuff", "goose"}
  <2>1. main = bag
    BY <1>7, <1>8 DEF Main
  <2> QED
    BY <1>1, <1>2, <1>6, <1>7, <1>8, <2>1 DEF Beside
<1>9. CASE agent = "codebuff"
  <2>1. main = bag \/ main = [bag EXCEPT !.cc = 0, !.cr = 0]
    BY <1>7, <1>9 DEF Main
  <2>2. [bag EXCEPT !.cc = 0, !.cr = 0]
          = [in |-> bag.in, out |-> bag.out, cc |-> 0, cr |-> 0, total |-> bag.total, cost |-> bag.cost]
    <3>1. PICK a, b, c, d, e, g : /\ a = bag.in /\ b = bag.out /\ c = bag.cc /\ d = bag.cr
                                  /\ e = bag.total /\ g = bag.cost
      OBVIOUS
    <3>2. bag = [in |-> a, out |-> b, cc |-> c, cr |-> d, total |-> e, cost |-> g]
      BY <1>5, <3>1
    <3>3. [bag EXCEPT !.cc = 0] = [in |-> a, out |-> b, cc |-> 0, cr |-> d, total |-> e, cost |-> g]
      BY <3>2
    <3>4. [[in |-> a, out |-> b, cc |-> 0, cr |-> d, total |-> e, cost |-> g] EXCEPT !.cr = 0]
            = [in |-> a, out |-> b, cc |-> 0, cr |-> 0, total |-> e, cost |-> g]
      OBVIOUS
    <3> QED
      BY <3>1, <3>3, <3>4
  <2>3. /\ main.in = bag.in /\ main.out = bag.out /\ main.cc \in {0, bag.cc} /\ main.cr \in {0, bag.cr}
        /\ main.total = bag.total /\ main.cost = bag.cost
    BY <2>1, <2>2
  <2> QED
    BY <1>1, <1>2, <1>6, <1>7, <1>9, <2>3 DEF Beside
<1>10. CASE agent = "goose"
  <2>1. main = [n \in DOMAIN bag |-> IF bag[n] > 0 THEN 1 ELSE 0]
    BY <1>7, <1>10 DEF Main
  <2>2. DOMAIN bag = {"in", "out", "cc", "cr", "total", "cost"}
    BY <1>5
  <2>3. /\ main.in = (IF bag.in > 0 THEN 1 ELSE 0) /\ main.out = (IF bag.out > 0 THEN 1 ELSE 0)
        /\ main.total = (IF bag.total > 0 THEN 1 ELSE 0)
    BY <2>1, <2>2
  <2> QED
    BY <1>1, <1>2, <1>6, <1>7, <1>10, <2>3 DEF Beside
<1> QED
  BY <1>6, <1>8, <1>9, <1>10

\* An entry has the tokens that were used and the model in force; there is one
\* where something was used.
CountedIn(read, rec) ==
  /\ rec.truth > 0 => Len(read) = 1
  /\ \A i \in DOMAIN read : Sum(read[i]) = rec.truth /\ read[i].model = rec.real

LEMMA EntryIsRight ==
  ASSUME NEW rec, NEW condition \in BOOLEAN, NEW ts, NEW model, NEW bag \in TokenBag, NEW cost,
         Sum(bag) = rec.truth, model = rec.real, rec.truth > 0 => condition
  PROVE  CountedIn(If(condition, Usage(rec, ts, model, bag, cost)), rec)
<1>1. PICK e : e = Usage(rec, ts, model, bag, cost)
  OBVIOUS
<1>2. e.in = bag.in /\ e.out = bag.out /\ e.cc = bag.cc /\ e.cr = bag.cr /\ e.model = model
  BY <1>1 DEF Usage
<1>3. Sum(e) = rec.truth /\ e.model = rec.real
  BY <1>2 DEF Sum
<1>4. PICK read : read = If(condition, e)
  OBVIOUS
<1>5. CASE condition
  <2>1. read = <<e>> /\ Len(read) = 1 /\ \A i \in DOMAIN read : read[i] = e
    BY <1>4, <1>5 DEF If
  <2> QED
    BY <1>1, <1>3, <1>4, <2>1 DEF CountedIn
<1>6. CASE ~condition
  <2>1. read = <<>> /\ DOMAIN read = {}
    BY <1>4, <1>6 DEF If
  <2> QED
    BY <1>1, <1>4, <1>6, <2>1 DEF CountedIn
<1> QED
  BY <1>5, <1>6

\* The readers that take the counts as they are.
LEMMA CountsAre ==
  ASSUME NEW rec, NEW fresh, NEW cached, NEW created, NEW out, NEW think, NEW tool,
         Tells(rec, fresh, cached, created, out, think, tool), Beside(rec), agent \notin {"codebuff", "goose"}
  PROVE  /\ Counts(rec) \in TokenBag /\ rec.total \in Nat /\ rec.think = think /\ rec.truth \in Nat
         /\ Counts(rec).in = rec.in /\ Counts(rec).out = rec.out /\ Counts(rec).cc = rec.cc /\ Counts(rec).cr = rec.cr
         /\ rec.total = (IF form = "parts" THEN 0 ELSE rec.truth)
         /\ form = "total" => Sum(Counts(rec)) = 0
         /\ form # "total" => Sum(Counts(rec)) = fresh + (IF form = "inclusive" THEN cached ELSE 0) + out + created + cached
<1>1. /\ rec.truth = fresh + cached + created + out + think + tool
      /\ fresh \in Nat /\ cached \in Nat /\ created \in Nat /\ out \in Nat /\ think \in Nat /\ tool \in Nat
      /\ rec.think = think
      /\ form = "total" => rec.in = 0 /\ rec.out = 0 /\ rec.cc = 0 /\ rec.cr = 0
      /\ form # "total" => /\ rec.in = fresh + (IF form = "inclusive" THEN cached ELSE 0)
                           /\ rec.out = out /\ rec.cc = created /\ rec.cr = cached
      /\ rec.total = (IF form = "parts" THEN 0 ELSE rec.truth)
  BY DEF Tells, Beside
<1>2. rec.truth \in Nat /\ rec.total \in Nat
  BY <1>1
<1>3. rec.in \in Nat /\ rec.out \in Nat /\ rec.cc \in Nat /\ rec.cr \in Nat
  BY <1>1
<1>4. PICK bag : bag = Counts(rec)
  OBVIOUS
<1>5. bag \in TokenBag /\ bag.in = rec.in /\ bag.out = rec.out /\ bag.cc = rec.cc /\ bag.cr = rec.cr
  BY <1>3, <1>4 DEF Counts, TokenBag
<1>6. Sum(bag) = rec.in + rec.out + rec.cc + rec.cr
  BY <1>5 DEF Sum
<1>7. form = "total" => Sum(bag) = 0
  BY <1>1, <1>6
<1>8. ASSUME form # "total"
      PROVE  Sum(bag) = fresh + (IF form = "inclusive" THEN cached ELSE 0) + out + created + cached
  BY <1>1, <1>6, <1>8
<1> QED
  BY <1>1, <1>2, <1>4, <1>5, <1>7, <1>8

\* The counts, or the total.
LEMMA PlainIsRight ==
  ASSUME NEW rec, NEW fresh, NEW cached, NEW created, NEW out, NEW think, NEW tool,
         Tells(rec, fresh, cached, created, out, think, tool), Beside(rec),
         agent \notin {"codebuff", "goose"} \cup ThinksApart, form \in Forms
  PROVE  OrTotal(Counts(rec), rec.total) \in TokenBag /\ Sum(OrTotal(Counts(rec), rec.total)) = rec.truth
<1>1. /\ Counts(rec) \in TokenBag /\ rec.total \in Nat /\ rec.truth \in Nat
      /\ rec.total = (IF form = "parts" THEN 0 ELSE rec.truth)
      /\ form = "total" => Sum(Counts(rec)) = 0
      /\ form # "total" => Sum(Counts(rec)) = fresh + (IF form = "inclusive" THEN cached ELSE 0) + out + created + cached
  BY CountsAre
<1>2. /\ rec.truth = fresh + cached + created + out
      /\ fresh \in Nat /\ cached \in Nat /\ created \in Nat /\ out \in Nat
  BY DEF Tells, ThinksApart
<1>3. form \in {"parts", "both", "total"}
  BY DEF Forms, ThinksApart
<1>4. PICK sum : sum = Sum(Counts(rec))
  OBVIOUS
<1>5. sum = 0 => rec.total = rec.truth
  BY <1>1, <1>2, <1>3, <1>4
<1>6. sum # 0 => sum = rec.truth
  BY <1>1, <1>2, <1>3, <1>4
<1> QED
  BY <1>1, <1>4, <1>5, <1>6, OrTotalIs

\* The reasoning added first, then the total if there is nothing.
LEMMA ThinkingFirstIsRight ==
  ASSUME NEW rec, NEW fresh, NEW cached, NEW created, NEW out, NEW think, NEW tool,
         Tells(rec, fresh, cached, created, out, think, tool), Beside(rec),
         agent \in {"droid", "hermes", "kilo"}, form \in Forms
  PROVE  /\ WithThinking(Counts(rec), rec.think) \in TokenBag
         /\ agent = "hermes" => Sum(WithThinking(Counts(rec), rec.think)) = rec.truth
         /\ agent # "hermes" => /\ OrTotal(WithThinking(Counts(rec), rec.think), rec.total) \in TokenBag
                                /\ Sum(OrTotal(WithThinking(Counts(rec), rec.think), rec.total)) = rec.truth
<1>1. /\ Counts(rec) \in TokenBag /\ rec.total \in Nat /\ rec.truth \in Nat /\ rec.think = think
      /\ rec.total = (IF form = "parts" THEN 0 ELSE rec.truth)
      /\ form = "total" => Sum(Counts(rec)) = 0
      /\ form # "total" => Sum(Counts(rec)) = fresh + (IF form = "inclusive" THEN cached ELSE 0) + out + created + cached
  BY CountsAre
<1>2. /\ rec.truth = fresh + cached + created + out + think
      /\ fresh \in Nat /\ cached \in Nat /\ created \in Nat /\ out \in Nat /\ think \in Nat
      /\ form = "total" /\ agent # "hermes" => think = 0
  BY DEF Tells
<1>3. form \in {"parts", "both", "total"} /\ (agent = "hermes" => form = "parts")
  BY DEF Forms
<1>4. PICK bag, sum : bag = WithThinking(Counts(rec), rec.think) /\ sum = Sum(Counts(rec))
  OBVIOUS
<1>5. bag \in TokenBag /\ Sum(bag) = sum + think
  BY <1>1, <1>2, <1>4, WithThinkingIs
<1>6. form # "total" => sum + think = rec.truth
  BY <1>1, <1>2, <1>3, <1>4
<1>7. form = "total" /\ agent # "hermes" => sum + think = 0 /\ rec.total = rec.truth
  BY <1>1, <1>2, <1>4
<1>8. form # "total" /\ sum + think = 0 => rec.total = rec.truth
  BY <1>1, <1>2, <1>6
<1>9. agent # "hermes" => OrTotal(bag, rec.total) \in TokenBag /\ Sum(OrTotal(bag, rec.total)) = rec.truth
  <2>1. OrTotal(bag, rec.total) \in TokenBag /\ Sum(OrTotal(bag, rec.total)) = IF Sum(bag) = 0 THEN rec.total ELSE Sum(bag)
    BY <1>1, <1>5, OrTotalIs
  <2> QED
    BY <1>5, <1>6, <1>7, <1>8, <2>1
<1> QED
  BY <1>3, <1>4, <1>5, <1>6, <1>9

\* The total without the reasoning, then the reasoning.
Splits(truth, counts, think) == {truth, counts, think} \subseteq Nat /\ truth = counts + think

LEMMA ThinkingLastIsRight ==
  ASSUME NEW bag \in TokenBag, NEW counts, NEW think, NEW total \in Nat, NEW truth, Splits(truth, counts, think),
         (Sum(bag) = 0 /\ total = truth) \/ (Sum(bag) = counts /\ total \in {0, truth})
  PROVE  /\ ThinkingOrTotal(bag, total, think) \in TokenBag
         /\ Sum(ThinkingOrTotal(bag, total, think)) = truth
<1>1. PICK sum : sum = Sum(bag)
  OBVIOUS
<1>4. truth \in Nat /\ counts \in Nat /\ think \in Nat /\ truth = counts + think
  BY DEF Splits
<1>2. /\ ThinkingOrTotal(bag, total, think) \in TokenBag
      /\ Sum(ThinkingOrTotal(bag, total, think)) = IF sum # 0 THEN sum + think ELSE IF total > think THEN total ELSE think
  BY <1>1, <1>4, ThinkingOrTotalIs
<1>3. (IF sum # 0 THEN sum + think ELSE IF total > think THEN total ELSE think) = truth
  BY <1>1, <1>4
<1> QED
  BY <1>2, <1>3

LEMMA CopilotIsRight ==
  ASSUME NEW rec, NEW fresh, NEW cached, NEW created, NEW out, NEW think, NEW tool,
         Tells(rec, fresh, cached, created, out, think, tool), Beside(rec), agent = "copilot", form \in Forms
  PROVE  /\ ThinkingOrTotal(Disjoint(Counts(rec)), rec.total, rec.think) \in TokenBag
         /\ Sum(ThinkingOrTotal(Disjoint(Counts(rec)), rec.total, rec.think)) = rec.truth
<1>1. /\ Counts(rec) \in TokenBag /\ rec.total \in Nat /\ rec.truth \in Nat /\ rec.think = think
      /\ Counts(rec).in = rec.in /\ Counts(rec).out = rec.out /\ Counts(rec).cc = rec.cc /\ Counts(rec).cr = rec.cr
      /\ rec.total = (IF form = "parts" THEN 0 ELSE rec.truth)
  BY CountsAre
<1>2. /\ rec.truth = fresh + cached + created + out + think + tool /\ tool = 0
      /\ fresh \in Nat /\ cached \in Nat /\ created \in Nat /\ out \in Nat /\ think \in Nat
      /\ form = "total" => rec.in = 0 /\ rec.out = 0 /\ rec.cc = 0 /\ rec.cr = 0
      /\ form = "inclusive" => rec.in = fresh + cached /\ rec.out = out /\ rec.cc = created /\ rec.cr = cached
  BY DEF Tells, Beside
<1>3. form \in {"inclusive", "total"}
  BY DEF Forms
<1>4. PICK bag : bag = Disjoint(Counts(rec))
  OBVIOUS
<1>5. /\ bag \in TokenBag /\ bag.in = (IF rec.cr >= rec.in THEN 0 ELSE rec.in - rec.cr)
      /\ bag.out = rec.out /\ bag.cc = rec.cc /\ bag.cr = rec.cr
  BY <1>1, <1>4, DisjointIs
<1>6. Sum(bag) = bag.in + bag.out + bag.cc + bag.cr
  BY DEF Sum
<1>9. PICK counts \in Nat : counts = fresh + cached + created + out + tool
  BY <1>2
<1>10. Splits(rec.truth, counts, think)
  BY <1>1, <1>2, <1>9 DEF Splits
<1>7. CASE form = "total"
  <2>1. Sum(bag) = 0
    BY <1>2, <1>5, <1>6, <1>7
  <2>2. rec.total = rec.truth
    BY <1>1, <1>7
  <2> QED
    BY <1>1, <1>2, <1>4, <1>5, <1>10, <2>1, <2>2, ThinkingLastIsRight
<1>8. CASE form = "inclusive"
  <2>1. bag.in = fresh /\ bag.out = out /\ bag.cc = created /\ bag.cr = cached
    BY <1>2, <1>5, <1>8
  <2>2. Sum(bag) = counts
    BY <1>2, <1>6, <1>9, <2>1
  <2>3. rec.total = rec.truth
    BY <1>1, <1>8
  <2> QED
    BY <1>1, <1>2, <1>4, <1>5, <1>10, <2>2, <2>3, ThinkingLastIsRight
<1> QED
  BY <1>3, <1>7, <1>8

LEMMA QwenIsRight ==
  ASSUME NEW rec, NEW fresh, NEW cached, NEW created, NEW out, NEW think, NEW tool,
         Tells(rec, fresh, cached, created, out, think, tool), Beside(rec), agent = "qwen", form \in Forms
  PROVE  /\ ThinkingOrTotal(Counts(rec), rec.total, rec.think) \in TokenBag
         /\ Sum(ThinkingOrTotal(Counts(rec), rec.total, rec.think)) = rec.truth
<1>1. /\ Counts(rec) \in TokenBag /\ rec.total \in Nat /\ rec.truth \in Nat /\ rec.think = think
      /\ rec.total = (IF form = "parts" THEN 0 ELSE rec.truth)
      /\ form = "total" => Sum(Counts(rec)) = 0
      /\ form # "total" => Sum(Counts(rec)) = fresh + (IF form = "inclusive" THEN cached ELSE 0) + out + created + cached
  BY CountsAre
<1>2. /\ rec.truth = fresh + cached + created + out + think + tool /\ tool = 0
      /\ fresh \in Nat /\ cached \in Nat /\ created \in Nat /\ out \in Nat /\ think \in Nat
  BY DEF Tells
<1>3. form \in {"parts", "both", "total"}
  BY DEF Forms
<1>6. PICK counts \in Nat : counts = fresh + cached + created + out + tool
  BY <1>2
<1>7. Splits(rec.truth, counts, think)
  BY <1>1, <1>2, <1>6 DEF Splits
<1>4. form # "total" => Sum(Counts(rec)) = counts /\ rec.total \in {0, rec.truth}
  BY <1>1, <1>2, <1>3, <1>6
<1>5. form = "total" => Sum(Counts(rec)) = 0 /\ rec.total = rec.truth
  BY <1>1
<1> QED
  BY <1>1, <1>2, <1>4, <1>5, <1>7, ThinkingLastIsRight

\* Gemini's events and statistics.
LEMMA GeminiIsRight ==
  ASSUME NEW rec, NEW fresh, NEW cached, NEW created, NEW out, NEW think, NEW tool, NEW overlapping \in BOOLEAN,
         Tells(rec, fresh, cached, created, out, think, tool), Beside(rec), agent = "gemini", form \in Forms,
         overlapping => form = "inclusive"
  PROVE  GeminiBag(rec, overlapping) \in TokenBag /\ Sum(GeminiBag(rec, overlapping)) = rec.truth
<1>1. /\ Counts(rec) \in TokenBag /\ rec.total \in Nat /\ rec.truth \in Nat /\ rec.think = think
      /\ Counts(rec).in = rec.in /\ Counts(rec).out = rec.out /\ Counts(rec).cc = rec.cc /\ Counts(rec).cr = rec.cr
      /\ rec.total = (IF form = "parts" THEN 0 ELSE rec.truth)
  BY CountsAre
<1>2. /\ rec.truth = fresh + cached + created + out + think + tool /\ created = 0
      /\ fresh \in Nat /\ cached \in Nat /\ out \in Nat /\ think \in Nat /\ tool \in Nat
      /\ form = "total" => rec.in = 0 /\ rec.out = 0 /\ rec.cc = 0 /\ rec.cr = 0 /\ rec.tool = 0
      /\ form = "inclusive" => rec.in = fresh + cached
      /\ form \in {"parts", "both"} => rec.in = fresh
      /\ form # "total" => rec.out = out /\ rec.cc = created /\ rec.cr = cached /\ rec.tool = tool
  BY DEF Tells, Beside
<1>3. form \in {"parts", "both", "inclusive", "total"}
  BY DEF Forms
<1>4. PICK inclusive, counts :
        /\ inclusive = rec.in + rec.out + rec.think + rec.tool
        /\ counts = IF overlapping \/ (rec.cr > 0 /\ rec.total = inclusive) THEN Disjoint(Counts(rec)) ELSE Counts(rec)
  OBVIOUS
<1>5. PICK bag : bag = [counts EXCEPT !.in = @ + rec.tool]
  OBVIOUS
<1>6. GeminiBag(rec, overlapping) = ThinkingOrTotal(bag, rec.total, rec.think)
  BY <1>4, <1>5 DEF GeminiBag
<1>7. /\ counts \in TokenBag /\ counts.out = rec.out /\ counts.cc = rec.cc /\ counts.cr = rec.cr
      /\ counts.in = IF overlapping \/ (rec.cr > 0 /\ rec.total = inclusive)
                     THEN IF rec.cr >= rec.in THEN 0 ELSE rec.in - rec.cr
                     ELSE rec.in
  BY <1>1, <1>4, DisjointIs
<1>8. rec.tool \in Nat
  BY <1>2
<1>9. /\ bag \in TokenBag
      /\ bag.in = counts.in + rec.tool /\ bag.out = rec.out /\ bag.cc = rec.cc /\ bag.cr = rec.cr
  <2>1. bag = [in |-> counts.in + rec.tool, out |-> counts.out, cc |-> counts.cc, cr |-> counts.cr]
    BY <1>5, <1>7 DEF TokenBag
  <2>2. counts.in \in Nat /\ counts.out \in Nat /\ counts.cc \in Nat /\ counts.cr \in Nat
    BY <1>7 DEF TokenBag
  <2> QED
    BY <1>7, <1>8, <2>1, <2>2 DEF TokenBag
<1>10. Sum(bag) = bag.in + bag.out + bag.cc + bag.cr
  BY DEF Sum
<1>13. PICK used \in Nat : used = fresh + cached + created + out + tool
  BY <1>2
<1>14. Splits(rec.truth, used, think)
  BY <1>1, <1>2, <1>13 DEF Splits
<1>11. CASE form = "total"
  <2>1. counts.in = 0
    BY <1>2, <1>7, <1>11
  <2>2. Sum(bag) = 0
    BY <1>2, <1>9, <1>10, <1>11, <2>1
  <2>3. rec.total = rec.truth
    BY <1>1, <1>11
  <2> QED
    BY <1>1, <1>2, <1>6, <1>9, <1>14, <2>2, <2>3, ThinkingLastIsRight
<1>12. CASE form # "total"
  <2>1. counts.in = fresh
    <3>1. CASE form = "inclusive"
      <4>1. /\ rec.in = fresh + cached /\ rec.cr = cached /\ rec.out = out /\ rec.tool = tool
            /\ rec.total = fresh + cached + out + think + tool
        BY <1>1, <1>2, <3>1
      <4>2. inclusive = rec.total
        BY <1>1, <1>2, <1>4, <4>1
      <4>3. (IF rec.cr >= rec.in THEN 0 ELSE rec.in - rec.cr) = fresh
        BY <1>2, <4>1
      <4>4. rec.cr > 0 \/ rec.in = fresh
        BY <1>2, <4>1
      <4> QED
        BY <1>7, <4>2, <4>3, <4>4
    <3>2. CASE form = "both"
      <4>1. /\ rec.in = fresh /\ rec.cr = cached /\ rec.out = out /\ rec.tool = tool
            /\ rec.total = fresh + cached + out + think + tool
        BY <1>1, <1>2, <3>2
      <4>2. inclusive = fresh + out + think + tool
        BY <1>1, <1>4, <4>1
      <4>3. rec.cr > 0 => rec.total # inclusive
        BY <1>2, <4>1, <4>2
      <4> QED
        BY <1>7, <3>2, <4>1, <4>3
    <3>3. CASE form = "parts"
      <4>1. /\ rec.in = fresh /\ rec.cr = cached /\ rec.out = out /\ rec.tool = tool /\ rec.total = 0
        BY <1>1, <1>2, <3>3
      <4>2. inclusive = fresh + out + think + tool
        BY <1>1, <1>4, <4>1
      <4>3. rec.total = inclusive => fresh = 0
        BY <1>2, <4>1, <4>2
      <4>4. (IF rec.cr >= rec.in THEN 0 ELSE rec.in - rec.cr) = 0 \/ fresh # 0
        BY <1>2, <4>1
      <4> QED
        BY <1>7, <3>3, <4>1, <4>3, <4>4
    <3> QED
      BY <1>3, <1>12, <3>1, <3>2, <3>3
  <2>2. Sum(bag) = used
    BY <1>2, <1>9, <1>10, <1>12, <1>13, <2>1
  <2>3. rec.total \in {0, rec.truth}
    BY <1>1
  <2> QED
    BY <1>1, <1>2, <1>6, <1>9, <1>14, <2>2, <2>3, ThinkingLastIsRight
<1> QED
  BY <1>11, <1>12

\* Codebuff's two usage objects.
LEMMA CodebuffIsRight ==
  ASSUME NEW rec, NEW fresh, NEW cached, NEW created, NEW out, NEW think, NEW tool,
         Tells(rec, fresh, cached, created, out, think, tool), Beside(rec), agent = "codebuff", form \in Forms
  PROVE  /\ OrTotal(Counts(CodebuffMerge(rec)), CodebuffMerge(rec).total) \in TokenBag
         /\ Sum(OrTotal(Counts(CodebuffMerge(rec)), CodebuffMerge(rec).total)) = rec.truth
<1>1. /\ rec.truth = fresh + cached + created + out
      /\ fresh \in Nat /\ cached \in Nat /\ created \in Nat /\ out \in Nat
      /\ form = "total" => rec.alt.in = 0 /\ rec.alt.out = 0 /\ rec.alt.cc = 0 /\ rec.alt.cr = 0
      /\ form # "total" => /\ rec.alt.in = fresh + (IF form = "inclusive" THEN cached ELSE 0)
                           /\ rec.alt.out = out /\ rec.alt.cc = created /\ rec.alt.cr = cached
      /\ rec.alt.total = (IF form = "parts" THEN 0 ELSE rec.truth)
  BY DEF Tells, ThinksApart
<1>2. form \in {"parts", "both", "total"}
  BY DEF Forms
<1>3. PICK merged : merged = CodebuffMerge(rec)
  OBVIOUS
<1>4. /\ merged.in = (IF rec.in > 0 THEN rec.in ELSE rec.alt.in) /\ merged.out = (IF rec.out > 0 THEN rec.out ELSE rec.alt.out)
      /\ merged.cc = (IF rec.cc > 0 THEN rec.cc ELSE rec.alt.cc) /\ merged.cr = (IF rec.cr > 0 THEN rec.cr ELSE rec.alt.cr)
      /\ merged.total = (IF rec.total > 0 THEN rec.total ELSE rec.alt.total)
  BY <1>3 DEF CodebuffMerge
<1>5. /\ merged.in = rec.alt.in /\ merged.out = rec.alt.out /\ merged.cc = rec.alt.cc /\ merged.cr = rec.alt.cr
      /\ merged.total = rec.alt.total
  BY <1>4 DEF Beside
<1>6. PICK bag : bag = Counts(merged)
  OBVIOUS
<1>7. bag \in TokenBag /\ bag.in = merged.in /\ bag.out = merged.out /\ bag.cc = merged.cc /\ bag.cr = merged.cr
  <2>1. merged.in \in Nat /\ merged.out \in Nat /\ merged.cc \in Nat /\ merged.cr \in Nat
    BY <1>1, <1>5
  <2> QED
    BY <1>6, <2>1 DEF Counts, TokenBag
<1>8. merged.total \in Nat /\ rec.truth \in Nat
  BY <1>1, <1>5
<1>9. Sum(bag) = bag.in + bag.out + bag.cc + bag.cr
  BY DEF Sum
<1>10. Sum(bag) = 0 => merged.total = rec.truth
  BY <1>1, <1>2, <1>5, <1>7, <1>9
<1>11. Sum(bag) # 0 => Sum(bag) = rec.truth
  BY <1>1, <1>2, <1>5, <1>7, <1>9
<1>12. OrTotal(bag, merged.total) \in TokenBag /\ Sum(OrTotal(bag, merged.total)) = rec.truth
  BY <1>7, <1>8, <1>10, <1>11, OrTotalIs
<1> QED
  BY <1>3, <1>6, <1>12

\* Goose's columns that grow, beside those of the last turn.
LEMMA GooseIsRight ==
  ASSUME NEW rec, NEW fresh, NEW cached, NEW created, NEW out, NEW think, NEW tool,
         Tells(rec, fresh, cached, created, out, think, tool), Beside(rec), agent = "goose", form \in Forms,
         rec.ts # 0, rec.model # NoModel, rec.model = rec.real
  PROVE  CountedIn(GooseRow(rec), rec)
<1>1. /\ rec.truth = fresh + out + think
      /\ fresh \in Nat /\ out \in Nat /\ think \in Nat
      /\ form = "total" => rec.alt.in = 0 /\ rec.alt.out = 0
      /\ form # "total" => /\ rec.alt.in = fresh + (IF form = "inclusive" THEN cached ELSE 0)
                           /\ rec.alt.out = out
      /\ rec.alt.total = (IF form = "parts" THEN 0 ELSE rec.truth)
  BY DEF Tells
<1>2. form \in {"both", "total"}
  BY DEF Forms
<1>3. PICK input, output, total :
        /\ input = (IF rec.alt.in > 0 THEN rec.alt.in ELSE rec.in)
        /\ output = (IF rec.alt.out > 0 THEN rec.alt.out ELSE rec.out)
        /\ total = (IF rec.alt.total > 0 THEN rec.alt.total ELSE rec.total)
  OBVIOUS
<1>4. rec.alt.in \in Nat /\ rec.alt.out \in Nat /\ rec.alt.total \in Nat /\ rec.alt.total = rec.truth
  BY <1>1, <1>2
<1>5. input = rec.alt.in /\ output = rec.alt.out /\ total = rec.truth
  BY <1>3, <1>4 DEF Beside
<1>6. PICK rest : rest = IF total > input + output THEN total - (input + output) ELSE 0
  OBVIOUS
<1>7. PICK bag : bag = [in |-> input, out |-> output + rest, cc |-> 0, cr |-> 0]
  OBVIOUS
<1>8. rest \in Nat /\ input + output + rest = rec.truth /\ input \in Nat /\ output \in Nat
  BY <1>1, <1>2, <1>4, <1>5, <1>6
<1>9. bag \in TokenBag /\ bag.in = input /\ bag.out = output + rest /\ bag.cc = 0 /\ bag.cr = 0
  BY <1>7, <1>8 DEF TokenBag
<1>10. Sum(bag) = rec.truth
  BY <1>8, <1>9, SumIs
<1>11. GooseRow(rec) = If(rec.model # NoModel /\ rec.ts # 0 /\ Sum(bag) > 0, Usage(rec, rec.ts, rec.model, bag, 0))
  BY <1>3, <1>6, <1>7 DEF GooseRow
<1>12. PICK condition : condition = (rec.model # NoModel /\ rec.ts # 0 /\ Sum(bag) > 0)
  OBVIOUS
<1>13. condition \in BOOLEAN /\ (rec.truth > 0 => condition)
  BY <1>10, <1>12
<1>14. CountedIn(If(condition, Usage(rec, rec.ts, rec.model, bag, 0)), rec)
  BY <1>9, <1>10, <1>13, EntryIsRight
<1> QED
  BY <1>11, <1>12, <1>14

\* Each reader's own conditions.
LEMMA EntryRight ==
  ASSUME NEW rec, NEW t, Recorded(rec), rec.kind \in {"usage", "stats"}, form \in Forms, agent \in Agent
  PROVE  CountedIn(EntryOf(rec, t), rec)
<1>1. PICK fresh, cached, created, out, think, tool : Tells(rec, fresh, cached, created, out, think, tool)
  BY RecordTells
<1>2. Beside(rec)
  BY RecordTells
<1>3. /\ rec.real # NoModel /\ (rec.model = rec.real \/ rec.model = NoModel)
      /\ agent \notin {"gemini", "openclaw"} => rec.model = rec.real
      /\ agent \notin Unstamped => rec.ts # 0
      /\ rec.kind = "stats" => agent = "gemini" /\ form = "inclusive"
  BY DEF Recorded
<1>4. ASSUME NEW condition, condition \in BOOLEAN, NEW ts, NEW model, NEW bag \in TokenBag, NEW cost,
             Sum(bag) = rec.truth, model = rec.real, rec.truth > 0 => condition
      PROVE  CountedIn(If(condition, Usage(rec, ts, model, bag, cost)), rec)
  BY <1>4, EntryIsRight
<1>5. PICK bag : bag = OrTotal(Counts(rec), rec.total)
  OBVIOUS
<1>6. ASSUME agent \in {"amp", "kimi", "openclaw", "opencode", "pi"} PROVE bag \in TokenBag /\ Sum(bag) = rec.truth
  BY <1>1, <1>2, <1>5, <1>6, PlainIsRight DEF ThinksApart
<1>7. PICK stamp : stamp = Known(rec.ts, t)
  OBVIOUS
<1>8. PICK name : name = FirstOf(rec.model, rec.real, NoModel)
  OBVIOUS
<1>9. name = rec.real
  BY <1>3, <1>8 DEF FirstOf
<1>amp. CASE agent = "amp"
  <2>1. PICK c : c = (rec.ts # 0 /\ rec.model # NoModel /\ Sum(bag) > 0)
    OBVIOUS
  <2>2. EntryOf(rec, t) = If(c, Usage(rec, rec.ts, rec.model, bag, 0))
    BY <1>amp, <1>5, <2>1 DEF EntryOf, AmpMessage
  <2>3. c \in BOOLEAN /\ (rec.truth > 0 => c) /\ rec.model = rec.real
    BY <1>3, <1>6, <1>amp, <2>1 DEF Unstamped
  <2> QED
    BY <1>4, <1>6, <1>amp, <2>2, <2>3
<1>codebuff. CASE agent = "codebuff"
  <2>1. PICK merged : merged = CodebuffMerge(rec)
    OBVIOUS
  <2>2. PICK b : b = OrTotal(Counts(merged), merged.total)
    OBVIOUS
  <2>3. b \in TokenBag /\ Sum(b) = rec.truth
    BY <1>1, <1>2, <1>codebuff, <2>1, <2>2, CodebuffIsRight
  <2>4. PICK c : c = (rec.kind = "usage" /\ (Sum(b) > 0 \/ merged.cost > 0))
    OBVIOUS
  <2>5. EntryOf(rec, t) = If(c, Usage(rec, stamp, rec.model, b, merged.cost))
    BY <1>codebuff, <1>7, <2>1, <2>2, <2>4 DEF EntryOf, CodebuffMessage
  <2>6. c \in BOOLEAN /\ (rec.truth > 0 => c) /\ rec.model = rec.real
    BY <1>3, <1>codebuff, <2>3, <2>4
  <2> QED
    BY <1>4, <2>3, <2>5, <2>6
<1>copilot. CASE agent = "copilot"
  <2>2. PICK b : b = ThinkingOrTotal(Disjoint(Counts(rec)), rec.total, rec.think)
    OBVIOUS
  <2>3. b \in TokenBag /\ Sum(b) = rec.truth
    BY <1>1, <1>2, <1>copilot, <2>2, CopilotIsRight
  <2>4. PICK c : c = (rec.kind = "usage" /\ Sum(b) > 0)
    OBVIOUS
  <2>5. EntryOf(rec, t) = If(c, Usage(rec, stamp, rec.model, b, 0))
    BY <1>copilot, <1>7, <2>2, <2>4 DEF EntryOf, CopilotSpan
  <2>6. c \in BOOLEAN /\ (rec.truth > 0 => c) /\ rec.model = rec.real
    BY <1>3, <1>copilot, <2>3, <2>4
  <2> QED
    BY <1>4, <2>3, <2>5, <2>6
<1>droid. CASE agent = "droid"
  <2>2. PICK b : b = OrTotal(WithThinking(Counts(rec), rec.think), rec.total)
    OBVIOUS
  <2>3. b \in TokenBag /\ Sum(b) = rec.truth
    BY <1>1, <1>2, <1>droid, <2>2, ThinkingFirstIsRight
  <2>4. PICK c : c = (Sum(b) > 0 /\ rec.model # NoModel)
    OBVIOUS
  <2>5. EntryOf(rec, t) = If(c, Usage(rec, stamp, rec.model, b, 0))
    BY <1>droid, <1>7, <2>2, <2>4 DEF EntryOf, DroidSession
  <2>6. c \in BOOLEAN /\ (rec.truth > 0 => c) /\ rec.model = rec.real
    BY <1>3, <1>droid, <2>3, <2>4
  <2> QED
    BY <1>4, <2>3, <2>5, <2>6
<1>gemini. CASE agent = "gemini"
  <2>1. CASE rec.kind = "stats"
    <3>2. PICK b : b = GeminiBag(rec, TRUE)
      OBVIOUS
    <3>3. b \in TokenBag /\ Sum(b) = rec.truth
      BY <1>1, <1>2, <1>3, <1>gemini, <2>1, <3>2, GeminiIsRight
    <3>4. PICK entry : entry = Usage(rec, stamp, name, b, 0)
      OBVIOUS
    <3>5. EntryOf(rec, t) = IF Sum(b) > 0 THEN If(TRUE, entry) ELSE If(FALSE, entry)
      BY <1>gemini, <1>7, <1>8, <2>1, <3>2, <3>4 DEF EntryOf, GeminiStats, If
    <3>6. CountedIn(If(TRUE, entry), rec)
      BY <1>4, <1>9, <3>3, <3>4
    <3>7. ASSUME ~(Sum(b) > 0) PROVE CountedIn(If(FALSE, entry), rec)
      BY <1>4, <1>9, <3>3, <3>4, <3>7
    <3> QED
      BY <3>5, <3>6, <3>7
  <2>2. CASE rec.kind # "stats"
    <3>2. PICK b : b = GeminiBag(rec, FALSE)
      OBVIOUS
    <3>3. b \in TokenBag /\ Sum(b) = rec.truth
      BY <1>1, <1>2, <1>gemini, <3>2, GeminiIsRight
    <3>4. PICK c : c = (name # NoModel /\ Sum(b) > 0)
      OBVIOUS
    <3>5. EntryOf(rec, t) = If(c, Usage(rec, stamp, name, b, 0))
      BY <1>gemini, <1>7, <1>8, <2>2, <3>2, <3>4 DEF EntryOf, GeminiEvent
    <3>6. c \in BOOLEAN /\ (rec.truth > 0 => c)
      BY <1>3, <1>9, <3>3, <3>4
    <3> QED
      BY <1>4, <1>9, <3>3, <3>5, <3>6
  <2> QED
    BY <2>1, <2>2
<1>goose. CASE agent = "goose"
  <2>1. EntryOf(rec, t) = GooseRow(rec)
    BY <1>goose DEF EntryOf
  <2>2. rec.ts # 0 /\ rec.model # NoModel /\ rec.model = rec.real
    BY <1>3, <1>goose DEF Unstamped
  <2> QED
    BY <1>1, <1>2, <1>goose, <2>1, <2>2, GooseIsRight
<1>hermes. CASE agent = "hermes"
  <2>1. PICK cost : cost = (IF rec.cost > 0 THEN rec.cost ELSE rec.alt.cost)
    OBVIOUS
  <2>2. PICK b : b = WithThinking(Counts(rec), rec.think)
    OBVIOUS
  <2>3. b \in TokenBag /\ Sum(b) = rec.truth
    BY <1>1, <1>2, <1>hermes, <2>2, ThinkingFirstIsRight
  <2>4. PICK c : c = (rec.model # NoModel /\ rec.ts # 0 /\ (Sum(b) > 0 \/ cost > 0))
    OBVIOUS
  <2>5. EntryOf(rec, t) = If(c, Usage(rec, rec.ts, rec.model, b, cost))
    BY <1>hermes, <2>1, <2>2, <2>4 DEF EntryOf, HermesRow
  <2>6. c \in BOOLEAN /\ (rec.truth > 0 => c) /\ rec.model = rec.real
    BY <1>3, <1>hermes, <2>3, <2>4 DEF Unstamped
  <2> QED
    BY <1>4, <2>3, <2>5, <2>6
<1>kilo. CASE agent = "kilo"
  <2>2. PICK b : b = OrTotal(WithThinking(Counts(rec), rec.think), rec.total)
    OBVIOUS
  <2>3. b \in TokenBag /\ Sum(b) = rec.truth
    BY <1>1, <1>2, <1>kilo, <2>2, ThinkingFirstIsRight
  <2>4. PICK c : c = (rec.kind = "usage" /\ rec.model # NoModel /\ rec.ts # 0 /\ Sum(b) > 0)
    OBVIOUS
  <2>5. EntryOf(rec, t) = If(c, Usage(rec, rec.ts, rec.model, b, rec.cost))
    BY <1>kilo, <2>2, <2>4 DEF EntryOf, KiloMessage
  <2>6. c \in BOOLEAN /\ (rec.truth > 0 => c) /\ rec.model = rec.real
    BY <1>3, <1>kilo, <2>3, <2>4 DEF Unstamped
  <2> QED
    BY <1>4, <2>3, <2>5, <2>6
<1>kimi. CASE agent = "kimi"
  <2>1. PICK c : c = (rec.kind = "usage" /\ Sum(bag) > 0 /\ rec.ts # 0)
    OBVIOUS
  <2>2. EntryOf(rec, t) = If(c, Usage(rec, rec.ts, KimiDefault, bag, KimiCost(KimiDefault, rec.ts, bag)))
    BY <1>kimi, <1>5, <2>1 DEF EntryOf, KimiUpdate
  <2>3. c \in BOOLEAN /\ (rec.truth > 0 => c) /\ KimiDefault = rec.real
    BY <1>3, <1>6, <1>kimi, <2>1 DEF Unstamped, Recorded
  <2> QED
    BY <1>4, <1>6, <1>kimi, <2>2, <2>3
<1>openclaw. CASE agent = "openclaw"
  <2>1. PICK c : c = (rec.kind = "usage" /\ Sum(bag) > 0)
    OBVIOUS
  <2>2. EntryOf(rec, t) = If(c, Usage(rec, stamp, name, bag, rec.cost))
    BY <1>openclaw, <1>5, <1>7, <1>8, <2>1 DEF EntryOf, OpenClawMessage
  <2>3. c \in BOOLEAN /\ (rec.truth > 0 => c)
    BY <1>3, <1>6, <1>openclaw, <2>1
  <2> QED
    BY <1>4, <1>6, <1>9, <1>openclaw, <2>2, <2>3
<1>opencode. CASE agent = "opencode"
  <2>1. PICK c : c = (rec.model # NoModel /\ Sum(bag) > 0)
    OBVIOUS
  <2>2. EntryOf(rec, t) = If(c, Usage(rec, rec.ts, rec.model, bag, rec.cost))
    BY <1>opencode, <1>5, <2>1 DEF EntryOf, OpenCodeMessage
  <2>3. c \in BOOLEAN /\ (rec.truth > 0 => c) /\ rec.model = rec.real
    BY <1>3, <1>6, <1>opencode, <2>1
  <2> QED
    BY <1>4, <1>6, <1>opencode, <2>2, <2>3
<1>pi. CASE agent = "pi"
  <2>1. PICK c : c = (rec.kind = "usage" /\ rec.ts # 0 /\ Sum(bag) > 0)
    OBVIOUS
  <2>2. EntryOf(rec, t) = If(c, Usage(rec, rec.ts, rec.model, bag, rec.cost))
    BY <1>pi, <1>5, <2>1 DEF EntryOf, PiMessage
  <2>3. c \in BOOLEAN /\ (rec.truth > 0 => c) /\ rec.model = rec.real
    BY <1>3, <1>6, <1>pi, <2>1 DEF Unstamped
  <2> QED
    BY <1>4, <1>6, <1>pi, <2>2, <2>3
<1>qwen. CASE agent = "qwen"
  <2>2. PICK b : b = ThinkingOrTotal(Counts(rec), rec.total, rec.think)
    OBVIOUS
  <2>3. b \in TokenBag /\ Sum(b) = rec.truth
    BY <1>1, <1>2, <1>qwen, <2>2, QwenIsRight
  <2>4. PICK c : c = (rec.kind = "usage" /\ Sum(b) > 0)
    OBVIOUS
  <2>5. EntryOf(rec, t) = If(c, Usage(rec, stamp, rec.model, b, 0))
    BY <1>qwen, <1>7, <2>2, <2>4 DEF EntryOf, QwenLine
  <2>6. c \in BOOLEAN /\ (rec.truth > 0 => c) /\ rec.model = rec.real
    BY <1>3, <1>qwen, <2>3, <2>4
  <2> QED
    BY <1>4, <2>3, <2>5, <2>6
<1> QED
  BY <1>amp, <1>codebuff, <1>copilot, <1>droid, <1>gemini, <1>goose, <1>hermes, <1>kilo, <1>kimi, <1>openclaw,
     <1>opencode, <1>pi, <1>qwen, ReadersAssumption

LEMMA RecordsRead == ReadersBounded => RecordsFaithful
<1> SUFFICES ASSUME ReadersBounded, NEW r \in Root, NEW f \in AgentFile, NEW i \in DOMAIN disk[r][f].rows,
                    disk[r][f].rows[i].kind \in {"usage", "stats"}
             PROVE  CountedIn(EntryOf(disk[r][f].rows[i], disk[r][f].mtime), disk[r][f].rows[i])
  BY DEF RecordsFaithful, CountedIn
<1>1. Recorded(disk[r][f].rows[i])
  BY DEF ReadersBounded, Left, Records, Fine
<1> QED
  BY <1>1, EntryRight DEF ReadersBounded

\* What agents write and revise is read for what it is: for any usages, roots,
\* models, and any order of writes, revisions, copies and lines too long, the
\* reader of an agent makes of each record on disk an entry with all tokens that
\* were used, each counted once, and the model in force.
THEOREM RecordsAreFaithful == ReadersSpec => []RecordsFaithful
BY RecordsRead, ReadersBoundedStart, ReadersBoundedStep, PTL DEF ReadersSpec

=============================================================================
