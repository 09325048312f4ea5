--------------------------- MODULE WatchersProofs ---------------------------
(***************************************************************************)
(* The watchers of Claude's logs and of Codex rollouts, for any files,     *)
(* lines, truncations, removals and ends of the process.                   *)
(***************************************************************************)
EXTENDS MCWatchers, SumProofs, TLAPS

-----------------------------------------------------------------------------
(* Lines and offsets.                                                      *)

ClaudeSpec == ClaudeInit /\ [][ClaudeNext]_claudeVars

Result == [file : Log, off : Nat, events : Seq(Candidates)]

Sources(list) == {list[i].source : i \in DOMAIN list}

\* An offset is never inside the object of a line.
Boundary(o) == o \in Nat /\ o % 3 # 1

\* A line is told of by a set of sources as CommittedIsCounted has it, and so
\* are the usage lines of a file below an offset.
Told(f, l, K) ==
  \/ SourceOf(f, l) \in K
  \/ l.side /\ l.uuid # NoUUID /\ \E s \in K : s[2] = l.uuid
Below(txt, f, o, K) ==
  \A i \in DOMAIN txt : (txt[i].kind = "usage" /\ 3 * i - 1 <= o) => Told(f, txt[i], K)

\* What a source was replaced by.
Exchanged(K, M) ==
  \A s \in K : s \in M \/ (s[3] /\ s[2] # NoUUID /\ \E t \in M : t[2] = s[2])

Deduper(by) ==
  /\ by \in [UUID -> Candidates \cup {NoCandidate}]
  /\ \A u \in UUID : by[u] # NoCandidate => by[u].source[2] = u /\ by[u].source[3] = by[u].side

ClaudeTyped ==
  /\ text \in [Log -> Seq(Line)] /\ written \in [Log -> Nat]
  /\ \A f \in Log : written[f] <= 3 * Len(text[f]) /\ 3 * Len(text[f]) < written[f] + 3
  /\ old \in SUBSET Log /\ masked \in SUBSET Log
  /\ excused \in SUBSET Source /\ lostSrc \in SUBSET Source
  /\ seen \in [Log -> Nat] /\ \A f \in Log : Boundary(seen[f])
  /\ Deduper(byUUID)
  /\ sent \in Seq(Candidates)
  /\ rows \in [Source -> Nat \cup {NoRow}] /\ firstDone \in BOOLEAN /\ upsets \in Nat
  /\ done \in BOOLEAN

\* What the polling goroutine holds.
Collecting == [pc : {"collect"}, todo : SUBSET Log, got : SUBSET Result]
Serving == [pc : {"next"}, jobs : SUBSET Log]
Reading == [pc : {"read"}, file : Log, jobs : SUBSET Log, off : Nat, n : Nat, eof : BOOLEAN,
            events : Seq(Candidates)]
PassTyped == pass = Resting \/ pass \in Collecting \/ pass \in Serving \/ pass \in Reading

\* Below every offset that was or will be committed everything is counted.
SeenTold ==
  \A f \in Log \ masked : seen[f] <= written[f] /\ (~done => Below(text[f], f, seen[f], Counted))
ReadTold ==
  pass.pc = "read" =>
    /\ Boundary(pass.off)
    /\ pass.file \notin masked =>
         pass.off <= written[pass.file] /\ (~done => Below(text[pass.file], pass.file, pass.off, Counted))
GotTold ==
  pass.pc = "collect" =>
    \A r \in pass.got :
      /\ Boundary(r.off)
      /\ r.file \notin masked => r.off <= written[r.file] /\ Below(text[r.file], r.file, r.off, Sources(r.events))
\* The deduplicator knows of no message that was not counted.
KnownTold == \A u \in UUID : byUUID[u] # NoCandidate => \E s \in Counted : s[2] = u

Once(list, s) == \A i, j \in DOMAIN list : list[i].source = s /\ list[j].source = s => i = j
Replay(s) == s[3] /\ s[2] \in UUID

\* Of the replays of a message one is left, that of the deduplicator, and it
\* is on one place of its way only.
Single(by, list) == \A s \in Sources(list) : Replay(s) => by[s[2]].source = s /\ Once(list, s)
Stored == {s \in Source : rows[s] # NoRow} \cup Sources(sent)
StoredSingle == \A s \in Stored \ excused : Replay(s) => byUUID[s[2]].source = s
ReadSingle ==
  pass.pc = "read" =>
    /\ Single(byUUID, pass.events)
    /\ \A s \in Sources(pass.events) \ excused : Replay(s) => s \notin Stored

CountInv == ClaudeTyped /\ PassTyped /\ SeenTold /\ ReadTold /\ GotTold /\ KnownTold
YieldInv == StoredSingle /\ ReadSingle

LEMMA Thirds ==
  ASSUME NEW o \in Nat
  PROVE  \E k \in Nat : /\ o \div 3 = k
                        /\ \/ o = 3 * k /\ o % 3 = 0
                           \/ o = 3 * k + 1 /\ o % 3 = 1
                           \/ o = 3 * k + 2 /\ o % 3 = 2
<1>1. PICK k \in Nat, m \in 0 .. 2 : k = o \div 3 /\ m = o % 3 /\ o = 3 * k + m
  OBVIOUS
<1> QED
  BY <1>1

LEMMA ReadLineIs ==
  ASSUME NEW txt \in Seq(Line), NEW size \in Nat, size <= 3 * Len(txt), NEW o, Boundary(o), o < size,
         NEW r, r = ReadLine(txt, size, o)
  PROVE  /\ Boundary(r.to) /\ o <= r.to /\ r.to <= size
         /\ r.parsed \in BOOLEAN /\ r.eof \in BOOLEAN
         /\ r.line \in Line
         /\ \A i \in DOMAIN txt : 3 * i - 1 <= r.to =>
              \/ 3 * i - 1 <= o \/ txt[i].kind = "garbage"
              \/ r.parsed /\ r.line = txt[i]
<1>1. o \in Nat /\ Len(txt) \in Nat /\ DOMAIN txt = 1 .. Len(txt)
  BY DEF Boundary
<1>2. PICK k \in Nat : o \div 3 = k /\ ((o = 3 * k /\ o % 3 = 0) \/ (o = 3 * k + 2 /\ o % 3 = 2))
  BY <1>1, Thirds DEF Boundary
<1>3. LineAt(o) = k + 1 /\ k + 1 \in DOMAIN txt
  BY <1>1, <1>2 DEF LineAt
<1>4. PICK line \in Line, parsed \in BOOLEAN :
        line = txt[k + 1] /\ (parsed <=> (o % 3 = 0 /\ size >= 3 * (k + 1) - 1 /\ line.kind # "garbage"))
  <2>1. PICK line \in Line : line = txt[k + 1]
    BY <1>3
  <2>2. \A P : P \in BOOLEAN => \E b \in BOOLEAN : b <=> P
    OBVIOUS
  <2>3. (o % 3 = 0 /\ size >= 3 * (k + 1) - 1 /\ line.kind # "garbage") \in BOOLEAN
    OBVIOUS
  <2> QED
    BY <2>1, <2>2, <2>3
<1>5. PICK ended \in BOOLEAN : ended <=> size >= 3 * (k + 1)
  OBVIOUS
<1>6. PICK to : to = IF ended THEN 3 * (k + 1) ELSE IF parsed THEN 3 * (k + 1) - 1 ELSE o
  OBVIOUS
<1>7. r.to = to /\ (r.parsed <=> parsed) /\ r.line = line /\ (r.eof <=> ~ended)
  BY <1>3, <1>4, <1>5, <1>6 DEF ReadLine
<1>8. r.parsed \in BOOLEAN /\ r.eof \in BOOLEAN
  BY DEF ReadLine
<1>9. Boundary(to) /\ o <= to /\ to <= size
  <2>1. (3 * (k + 1)) % 3 = 0 /\ (3 * (k + 1) - 1) % 3 = 2
    OBVIOUS
  <2> QED
    BY <1>2, <1>4, <1>5, <1>6, <2>1 DEF Boundary
<1>10. ASSUME NEW i \in DOMAIN txt, 3 * i - 1 <= to, ~(3 * i - 1 <= o), txt[i].kind # "garbage"
       PROVE  parsed /\ line = txt[i]
  <2>1. i \in Nat /\ to <= 3 * (k + 1)
    BY <1>1, <1>2, <1>5, <1>6
  <2>2. i = k + 1
    <3>1. to \in Nat /\ o \in Nat /\ 3 * k <= o
      BY <1>1, <1>2, <1>9 DEF Boundary
    <3>2. 3 * i > 3 * k + 1 /\ 3 * i <= 3 * k + 4
      BY <1>10, <2>1, <3>1
    <3> QED
      BY <2>1, <3>2
  <2>3. o = 3 * k /\ to # o
    BY <1>2, <1>10, <2>2
  <2>4. o % 3 = 0 /\ size >= 3 * (k + 1) - 1
    BY <1>2, <1>4, <1>5, <1>6, <2>3
  <2> QED
    BY <1>4, <1>10, <2>2, <2>4
<1> QED
  BY <1>7, <1>8, <1>9, <1>10

-----------------------------------------------------------------------------
(* The deduplicator.                                                       *)

\* What a catenation is, and a list of events without one of its places.
Catenates(new, S, list, more, m, n) ==
  /\ new \in Seq(S) /\ Len(new) = m + n /\ DOMAIN new = 1 .. m + n
  /\ DOMAIN list = 1 .. m /\ DOMAIN more = 1 .. n
  /\ \A i \in 1 .. m : new[i] = list[i]
  /\ \A i \in 1 .. n : new[m + i] = more[i]
  /\ \A i \in 1 .. m + n : i \notin 1 .. m => i - m \in 1 .. n /\ new[i] = more[i - m]

LEMMA CatenatedIs ==
  ASSUME NEW S, NEW list \in Seq(S), NEW more \in Seq(S)
  PROVE  Catenates(list \o more, S, list, more, Len(list), Len(more))
<1>a. PICK m \in Nat, n \in Nat : m = Len(list) /\ n = Len(more)
  OBVIOUS
<1>b. PICK new : new = list \o more
  OBVIOUS
<1>0. m = Len(list) /\ n = Len(more) /\ new = list \o more
  BY <1>a, <1>b
<1>1. /\ new \in Seq(S) /\ Len(new) = m + n /\ DOMAIN new = 1 .. m + n
      /\ \A i \in 1 .. m : new[i] = list[i]
      /\ \A i \in 1 .. n : new[m + i] = more[i]
  BY <1>0
<1>2. ASSUME NEW i \in 1 .. m + n, i \notin 1 .. m PROVE i - m \in 1 .. n /\ new[i] = more[i - m]
  <2>1. i - m \in 1 .. n /\ m + (i - m) = i
    BY <1>2
  <2> QED
    BY <1>1, <2>1
<1>3. DOMAIN list = 1 .. m /\ DOMAIN more = 1 .. n
  BY <1>0
<1>4. Catenates(new, S, list, more, m, n)
  BY <1>1, <1>2, <1>3 DEF Catenates
<1> QED
  BY <1>0, <1>4

LEMMA RemovedIs ==
  ASSUME NEW S, NEW list \in Seq(S), NEW i \in DOMAIN list, NEW new, new = RemoveAt(list, i)
  PROVE  /\ new \in Seq(S) /\ Len(list) \in Nat /\ DOMAIN list = 1 .. Len(list)
         /\ DOMAIN new = 1 .. Len(list) - 1
         /\ \A k \in DOMAIN new : new[k] = IF k < i THEN list[k] ELSE list[k + 1]
<1>1. PICK n \in Nat : n = Len(list)
  OBVIOUS
<1>2. i \in 1 .. n /\ DOMAIN list = 1 .. n
  BY <1>1
<1>3. PICK before, behind : before = SubSeq(list, 1, i - 1) /\ behind = SubSeq(list, i + 1, n)
  OBVIOUS
<1>4. /\ before \in Seq(S) /\ Len(before) = i - 1 /\ \A k \in 1 .. i - 1 : before[k] = list[k]
  BY <1>1, <1>2, <1>3
<1>5. /\ behind \in Seq(S) /\ Len(behind) = n - i /\ \A k \in 1 .. n - i : behind[k] = list[k + i]
  BY <1>1, <1>2, <1>3
<1>6. new = before \o behind
  BY <1>1, <1>3 DEF RemoveAt
<1>a. PICK a \in Nat, b \in Nat : a = i - 1 /\ b = n - i /\ a + b = n - 1
  BY <1>2
<1>7. /\ new \in Seq(S) /\ DOMAIN new = 1 .. n - 1
      /\ \A k \in 1 .. a : new[k] = before[k]
      /\ \A k \in 1 .. n - 1 : k \notin 1 .. a => k - a \in 1 .. b /\ new[k] = behind[k - a]
  <2>1. Len(before) = a /\ Len(behind) = b
    BY <1>4, <1>5, <1>a
  <2>2. before \in Seq(S) /\ behind \in Seq(S)
    BY <1>4, <1>5
  <2>3. /\ new \in Seq(S) /\ DOMAIN new = 1 .. a + b
        /\ \A k \in 1 .. a : new[k] = before[k]
        /\ \A k \in 1 .. a + b : k \notin 1 .. a => k - a \in 1 .. b /\ new[k] = behind[k - a]
    <3>1. Catenates(new, S, before, behind, a, b)
      BY <1>6, <2>1, <2>2, CatenatedIs
    <3> QED
      BY <3>1 DEF Catenates
  <2> QED
    BY <1>a, <2>3
<1>8. ASSUME NEW k \in 1 .. n - 1 PROVE new[k] = IF k < i THEN list[k] ELSE list[k + 1]
  <2>1. CASE k < i
    <3>1. k \in 1 .. i - 1
      BY <1>2, <2>1
    <3>2. new[k] = before[k]
      BY <1>7, <1>a, <3>1
    <3> QED
      BY <1>4, <2>1, <3>1, <3>2
  <2>2. CASE ~(k < i)
    <3>1. k \notin 1 .. a /\ k - a + i = k + 1
      <4>1. PICK j \in Nat : j = i /\ a = j - 1
        BY <1>2, <1>a
      <4>2. ~(k < j)
        BY <2>2, <4>1
      <4> QED
        BY <4>1, <4>2
    <3>2. k - a \in 1 .. n - i /\ new[k] = behind[k - a]
      BY <1>7, <1>a, <3>1
    <3>3. behind[k - a] = list[k - a + i]
      BY <1>5, <3>2
    <3> QED
      BY <2>2, <3>1, <3>2, <3>3
  <2> QED
    BY <2>1, <2>2
<1> QED
  BY <1>1, <1>2, <1>7, <1>8

LEMMA WithoutIs ==
  ASSUME NEW list \in Seq(Candidates), NEW s, NEW new, new = WithoutSource(list, s)
  PROVE  /\ new \in Seq(Candidates)
         /\ Sources(new) \subseteq Sources(list)
         /\ Sources(list) \subseteq Sources(new) \cup {s}
         /\ Once(list, s) => s \notin Sources(new)
         /\ \A t : Once(list, t) => Once(new, t)
<1> DEFINE I == {k \in 1 .. Len(list) : list[k].source = s}
<1>1. CASE I = {}
  <2>1. new = list
    BY <1>1 DEF WithoutSource, SelectInSeq
  <2>2. s \notin Sources(list)
    BY <1>1 DEF Sources
  <2> QED
    BY <2>1, <2>2
<1>2. CASE I # {}
  <2>1. PICK i \in I : (\A k \in I : i <= k) /\ new = RemoveAt(list, i)
    <3>1. I \in SUBSET Nat
      OBVIOUS
    <3>2. \E i \in I : \A k \in I : i <= k
      <4> HIDE DEF I
      <4> QED
        BY <1>2, <3>1, LeastOf
    <3>3. Min(I) \in I /\ \A k \in I : Min(I) <= k
      <4> HIDE DEF I
      <4> QED
        BY <3>2 DEF Min
    <3>4. 0 \notin I
      OBVIOUS
    <3>5. new = RemoveAt(list, Min(I))
      <4>1. PICK i : i = SelectInSeq(list, LAMBDA x : x.source = s)
        OBVIOUS
      <4>2. i = Min(I)
        BY <1>2, <4>1 DEF SelectInSeq
      <4>3. new = IF i = 0 THEN list ELSE RemoveAt(list, i)
        BY <4>1 DEF WithoutSource
      <4> HIDE DEF I
      <4> QED
        BY <3>3, <3>4, <4>2, <4>3
    <3> HIDE DEF I
    <3> QED
      BY <3>3, <3>5
  <2>2. PICK n \in Nat : n = Len(list) /\ DOMAIN list = 1 .. n
    OBVIOUS
  <2>3. i \in 1 .. n /\ list[i].source = s
    BY <2>1, <2>2
  <2>4. /\ new \in Seq(Candidates) /\ DOMAIN new = 1 .. n - 1
        /\ \A k \in 1 .. n - 1 : new[k] = IF k < i THEN list[k] ELSE list[k + 1]
    BY <2>1, <2>2, <2>3, RemovedIs
  <2>5. ASSUME NEW k \in 1 .. n - 1
        PROVE  \E m \in 1 .. n : m # i /\ new[k] = list[m] /\ m = IF k < i THEN k ELSE k + 1
    BY <2>3, <2>4
  <2>6. ASSUME NEW m \in 1 .. n, m # i
        PROVE  \E k \in 1 .. n - 1 : new[k] = list[m]
    <3>1. CASE m < i
      <4>1. m \in 1 .. n - 1
        BY <2>3, <3>1
      <4> QED
        BY <2>4, <3>1, <4>1
    <3>2. CASE m > i
      <4>1. m - 1 \in 1 .. n - 1 /\ ~(m - 1 < i) /\ m - 1 + 1 = m
        BY <2>3, <3>2
      <4> QED
        BY <2>4, <4>1
    <3> QED
      BY <2>3, <2>6, <3>1, <3>2
  <2>7. Sources(new) \subseteq Sources(list)
    <3>1. Sources(new) = {new[k].source : k \in 1 .. n - 1} /\ Sources(list) = {list[m].source : m \in 1 .. n}
      BY <2>2, <2>4 DEF Sources
    <3>2. \A k \in 1 .. n - 1 : \E m \in 1 .. n : new[k] = list[m]
      BY <2>5
    <3> QED
      BY <3>1, <3>2
  <2>8. Sources(list) \subseteq Sources(new) \cup {s}
    <3>1. Sources(new) = {new[k].source : k \in 1 .. n - 1} /\ Sources(list) = {list[m].source : m \in 1 .. n}
      BY <2>2, <2>4 DEF Sources
    <3>2. \A m \in 1 .. n : m # i => \E k \in 1 .. n - 1 : new[k] = list[m]
      BY <2>6
    <3> QED
      BY <2>3, <3>1, <3>2
  <2>9. ASSUME Once(list, s) PROVE s \notin Sources(new)
    <3>1. SUFFICES ASSUME NEW k \in 1 .. n - 1, new[k].source = s PROVE FALSE
      BY <2>4 DEF Sources
    <3> QED
      BY <2>2, <2>3, <2>5, <2>9, <3>1 DEF Once
  <2>10. ASSUME NEW t, Once(list, t) PROVE Once(new, t)
    <3>1. SUFFICES ASSUME NEW k \in 1 .. n - 1, NEW l \in 1 .. n - 1, new[k].source = t, new[l].source = t PROVE k = l
      BY <2>4 DEF Once
    <3>2. PICK x \in 1 .. n, y \in 1 .. n :
            /\ new[k] = list[x] /\ x = IF k < i THEN k ELSE k + 1
            /\ new[l] = list[y] /\ y = IF l < i THEN l ELSE l + 1
      BY <2>5
    <3>3. x = y
      BY <2>2, <2>10, <3>1, <3>2 DEF Once
    <3> QED
      BY <2>3, <3>2, <3>3
  <2> QED
    BY <2>4, <2>7, <2>8, <2>9, <2>10
<1> QED
  BY <1>1, <1>2

\* What appending an event does to the sources of a list.
LEMMA AppendedIs ==
  ASSUME NEW list \in Seq(Candidates), NEW c \in Candidates, NEW new, new = Append(list, c)
  PROVE  /\ new \in Seq(Candidates)
         /\ Sources(new) = Sources(list) \cup {c.source}
         /\ c.source \notin Sources(list) => Once(new, c.source)
         /\ \A t : t # c.source /\ Once(list, t) => Once(new, t)
<1>1. PICK n \in Nat : n = Len(list) /\ DOMAIN list = 1 .. n
  OBVIOUS
<1>2. /\ new \in Seq(Candidates) /\ DOMAIN new = 1 .. n + 1 /\ new[n + 1] = c
      /\ \A i \in 1 .. n : new[i] = list[i]
  BY <1>1
<1>3. \A i : i \in 1 .. n + 1 <=> i \in 1 .. n \/ i = n + 1
  OBVIOUS
<1>4. Sources(new) = Sources(list) \cup {c.source}
  BY <1>1, <1>2, <1>3 DEF Sources
<1>5. ASSUME c.source \notin Sources(list) PROVE Once(new, c.source)
  BY <1>1, <1>2, <1>3, <1>5 DEF Once, Sources
<1>6. ASSUME NEW t, t # c.source, Once(list, t) PROVE Once(new, t)
  BY <1>1, <1>2, <1>3, <1>6 DEF Once
<1> QED
  BY <1>2, <1>4, <1>5, <1>6

LEMMA CandidateIs ==
  /\ \A f \in Log, l \in Line : /\ Candidate(f, l) \in Candidates
                                /\ Candidate(f, l).source = SourceOf(f, l) /\ Candidate(f, l).side = l.side
                                /\ SourceOf(f, l) \in Source
                                /\ SourceOf(f, l)[2] = l.uuid /\ SourceOf(f, l)[3] = l.side
                                /\ l.side \in BOOLEAN /\ (l.uuid # NoUUID => l.uuid \in UUID)
  /\ \A c \in Candidates : /\ c.source \in Source /\ c.source[3] = c.side /\ c.side \in BOOLEAN
                           /\ c # NoCandidate /\ c.source # <<>>
  /\ NoCandidate.source = <<>> /\ NoUUID \notin UUID
<1>1. ASSUME NEW f \in Log, NEW l \in Line
      PROVE  /\ Candidate(f, l) \in Candidates
             /\ Candidate(f, l).source = SourceOf(f, l) /\ Candidate(f, l).side = l.side
             /\ SourceOf(f, l) \in Source
             /\ SourceOf(f, l)[2] = l.uuid /\ SourceOf(f, l)[3] = l.side
             /\ l.side \in BOOLEAN /\ (l.uuid # NoUUID => l.uuid \in UUID)
             /\ SourceOf(f, l) # <<>>
  <2>1. PICK s : s = SourceOf(f, l)
    OBVIOUS
  <2>2. s = <<f, l.uuid, l.side, l.req>>
    BY <2>1 DEF SourceOf
  <2>3. s[2] = l.uuid /\ s[3] = l.side /\ s # <<>>
    BY <2>2
  <2>4. s \in Source
    BY <2>1 DEF Source
  <2>5. PICK c : c = Candidate(f, l)
    OBVIOUS
  <2>6. c = [source |-> s, side |-> l.side, weight |-> l.weight]
    BY <2>1, <2>5 DEF Candidate
  <2>7. c.source = s /\ c.side = l.side
    BY <2>6
  <2>8. c \in Candidates
    BY <2>5 DEF Candidates
  <2>9. l.side \in BOOLEAN /\ (l.uuid # NoUUID => l.uuid \in UUID)
    BY ClaudeAssumption DEF UUID
  <2> QED
    BY <2>1, <2>3, <2>4, <2>5, <2>7, <2>8, <2>9
<1>2. ASSUME NEW c \in Candidates
      PROVE  /\ c.source \in Source /\ c.source[3] = c.side /\ c.side \in BOOLEAN
             /\ c # NoCandidate /\ c.source # <<>>
  <2>1. PICK f \in Log, l \in Line : c = Candidate(f, l)
    BY DEF Candidates
  <2>2. c.source # <<>> /\ NoCandidate.source = <<>>
    BY <1>1, <2>1 DEF NoCandidate
  <2> QED
    BY <1>1, <2>1, <2>2
<1> QED
  BY <1>1, <1>2 DEF NoCandidate, UUID

\* What append does: nothing, for a replay that is no better than what is
\* known; add the event; or put it in the place of a replay.
Drops(by, events, gone, after, l) ==
  /\ after.by = by /\ after.events = events /\ after.gone = gone
  /\ l.side /\ l.uuid # NoUUID /\ by[l.uuid] # NoCandidate
Adds(by, events, gone, after, l, c) ==
  /\ after.events = Append(events, c) /\ after.gone = gone
  /\ \/ after.by = by /\ (l.uuid # NoUUID => ~l.side /\ by[l.uuid] # NoCandidate /\ ~by[l.uuid].side)
     \/ /\ l.uuid # NoUUID /\ after.by = [by EXCEPT ![l.uuid] = c]
        /\ by[l.uuid] = NoCandidate \/ (~l.side /\ ~by[l.uuid].side)
Replaces(by, events, after, l, c) ==
  /\ l.uuid # NoUUID /\ by[l.uuid] # NoCandidate /\ by[l.uuid].side
  /\ after.by = [by EXCEPT ![l.uuid] = c]
  /\ after.events = Append(WithoutSource(events, by[l.uuid].source), c)
  /\ after.gone = IF by[l.uuid].source \in Sources(events) THEN {} ELSE {by[l.uuid].source}

Dedups(by, events, gone, after, l, c) ==
  /\ \/ Drops(by, events, gone, after, l) \/ Adds(by, events, gone, after, l, c)
     \/ Replaces(by, events, after, l, c)
  /\ after = [by |-> after.by, events |-> after.events, gone |-> after.gone]

LEMMA DedupCases ==
  ASSUME NEW by, Deduper(by), NEW events, NEW gone, NEW f \in Log, NEW l \in Line
  PROVE  Dedups(by, events, gone, DedupAppend([by |-> by, events |-> events, gone |-> gone], f, l),
                l, Candidate(f, l))
<1>d. PICK d : d = [by |-> by, events |-> events, gone |-> gone]
  OBVIOUS
<1>a. PICK after : after = DedupAppend(d, f, l)
  OBVIOUS
<1>c. PICK c : c = Candidate(f, l)
  OBVIOUS
<1> SUFFICES Dedups(by, events, gone, after, l, c)
  BY <1>d, <1>a, <1>c
<1>1. c \in Candidates /\ c.side = l.side /\ l.side \in BOOLEAN /\ (l.uuid # NoUUID => l.uuid \in UUID)
  BY <1>c, CandidateIs
<1>2. d.by = by /\ d.events = events /\ d.gone = gone
  BY <1>d
<1>3. PICK e : e = by[l.uuid]
  OBVIOUS
<1>4. PICK kept, added : kept = [by EXCEPT ![l.uuid] = c] /\ added = Append(events, c)
  OBVIOUS
<1>5. CASE l.uuid = NoUUID
  <2>1. after = [d EXCEPT !.events = added]
    BY <1>a, <1>c, <1>2, <1>4, <1>5 DEF DedupAppend
  <2>2. after = [by |-> by, events |-> added, gone |-> gone]
    BY <1>d, <2>1
  <2>3. after.by = by /\ after.events = added /\ after.gone = gone
    BY <2>2
  <2>4. Adds(by, events, gone, after, l, c)
    BY <1>4, <1>5, <2>3 DEF Adds
  <2> QED
    BY <2>2, <2>3, <2>4 DEF Dedups
<1>6. CASE l.uuid # NoUUID /\ e = NoCandidate
  <2>1. after = [d EXCEPT !.by = kept, !.events = added]
    BY <1>a, <1>c, <1>2, <1>3, <1>4, <1>6 DEF DedupAppend
  <2>2. after = [by |-> kept, events |-> added, gone |-> gone]
    BY <1>d, <2>1
  <2>3. after.by = kept /\ after.events = added /\ after.gone = gone
    BY <2>2
  <2>4. Adds(by, events, gone, after, l, c)
    BY <1>3, <1>4, <1>6, <2>3 DEF Adds
  <2> QED
    BY <2>2, <2>3, <2>4 DEF Dedups
<1>7. CASE l.uuid # NoUUID /\ e # NoCandidate /\ ~l.side /\ ~e.side
  <2>1. after = [d EXCEPT !.by = IF Prefers(c, e) THEN kept ELSE @, !.events = added]
    BY <1>a, <1>c, <1>1, <1>2, <1>3, <1>4, <1>7 DEF DedupAppend
  <2>2. PICK new : new = IF Prefers(c, e) THEN kept ELSE by
    OBVIOUS
  <2>3. after = [by |-> new, events |-> added, gone |-> gone]
    BY <1>d, <1>2, <2>1, <2>2
  <2>4. new = kept \/ new = by
    BY <2>2
  <2>5. after.by = new /\ after.events = added /\ after.gone = gone
    BY <2>3
  <2>6. Adds(by, events, gone, after, l, c)
    BY <1>3, <1>4, <1>7, <2>4, <2>5 DEF Adds
  <2> QED
    BY <2>3, <2>5, <2>6 DEF Dedups
<1>8. CASE l.uuid # NoUUID /\ e # NoCandidate /\ (l.side \/ e.side) /\ Prefers(c, e)
  <2>1. after = [by |-> kept, events |-> Append(WithoutSource(events, e.source), c),
                 gone |-> IF \E i \in DOMAIN events : events[i].source = e.source THEN {} ELSE {e.source}]
    BY <1>a, <1>c, <1>1, <1>2, <1>3, <1>4, <1>8 DEF DedupAppend
  <2>2. (\E i \in DOMAIN events : events[i].source = e.source) <=> e.source \in Sources(events)
    BY DEF Sources
  <2>3. e.side
    <3>1. e \in Candidates
      BY <1>1, <1>3, <1>8 DEF Deduper
    <3> QED
      BY <1>1, <1>8, <3>1, CandidateIs DEF Prefers
  <2>4. PICK new, lost :
          /\ new = Append(WithoutSource(events, e.source), c)
          /\ lost = IF e.source \in Sources(events) THEN {} ELSE {e.source}
    OBVIOUS
  <2>5. after = [by |-> kept, events |-> new, gone |-> lost]
    BY <2>1, <2>2, <2>4
  <2>6. after.by = kept /\ after.events = new /\ after.gone = lost
    BY <2>5
  <2>7. Replaces(by, events, after, l, c)
    BY <1>3, <1>4, <1>8, <2>3, <2>4, <2>6 DEF Replaces
  <2> QED
    BY <2>5, <2>6, <2>7 DEF Dedups
<1>9. CASE l.uuid # NoUUID /\ e # NoCandidate /\ (l.side \/ e.side) /\ ~Prefers(c, e)
  <2>1. after = d
    BY <1>a, <1>c, <1>1, <1>2, <1>3, <1>9 DEF DedupAppend
  <2>2. l.side
    <3>1. e \in Candidates
      BY <1>1, <1>3, <1>9 DEF Deduper
    <3> QED
      BY <1>1, <1>9, <3>1, CandidateIs DEF Prefers
  <2> QED
    BY <1>d, <1>3, <1>9, <2>1, <2>2 DEF Drops, Dedups
<1> QED
  BY <1>5, <1>6, <1>7, <1>8, <1>9

LEMMA WeightIs ==
  ASSUME NEW c \in Candidates
  PROVE  c.weight \in Nat
<1>1. PICK f \in Log, l \in Line : c = Candidate(f, l)
  BY DEF Candidates
<1>2. l.weight \in Nat
  BY ClaudeAssumption
<1>3. PICK s : s = SourceOf(f, l)
  OBVIOUS
<1>4. c = [source |-> s, side |-> l.side, weight |-> l.weight]
  BY <1>1, <1>3 DEF Candidate
<1> QED
  BY <1>2, <1>4

LEMMA SourcesAre ==
  ASSUME NEW list \in Seq(Candidates)
  PROVE  Sources(list) \subseteq Source
<1>1. \A i \in DOMAIN list : list[i] \in Candidates
  OBVIOUS
<1> QED
  BY <1>1, CandidateIs DEF Sources

LEMMA CatenatedSources ==
  ASSUME NEW list \in Seq(Candidates), NEW more \in Seq(Candidates)
  PROVE  /\ list \o more \in Seq(Candidates)
         /\ Sources(list \o more) = Sources(list) \cup Sources(more)
<1>1. PICK m \in Nat, n \in Nat : m = Len(list) /\ n = Len(more)
  OBVIOUS
<1>2. PICK new : new = list \o more
  OBVIOUS
<1>3. Catenates(new, Candidates, list, more, m, n)
  BY <1>1, <1>2, CatenatedIs
<1>4. \A i \in 1 .. m : i \in 1 .. m + n
  OBVIOUS
<1>5. \A i \in 1 .. n : m + i \in 1 .. m + n
  OBVIOUS
<1>6. Sources(new) = Sources(list) \cup Sources(more)
  <2>1. /\ Sources(new) = {new[i].source : i \in 1 .. m + n}
        /\ Sources(list) = {list[i].source : i \in 1 .. m} /\ Sources(more) = {more[i].source : i \in 1 .. n}
    BY <1>3 DEF Catenates, Sources
  <2>2. \A i \in 1 .. m + n : new[i].source \in Sources(list) \cup Sources(more)
    BY <1>3, <2>1 DEF Catenates
  <2>3. \A i \in 1 .. m : list[i].source \in Sources(new)
    BY <1>3, <1>4, <2>1 DEF Catenates
  <2>4. \A i \in 1 .. n : more[i].source \in Sources(new)
    BY <1>3, <1>5, <2>1 DEF Catenates
  <2>5. Sources(new) \subseteq Sources(list) \cup Sources(more)
    BY <2>1, <2>2
  <2>6. Sources(list) \cup Sources(more) \subseteq Sources(new)
    BY <2>1, <2>3, <2>4
  <2> QED
    BY <2>5, <2>6
<1> QED
  BY <1>2, <1>3, <1>6 DEF Catenates

\* What was told of stays told of when sources are exchanged.
LEMMA ToldKept ==
  ASSUME NEW f \in Log, NEW l \in Line, NEW K, NEW M, Exchanged(K, M), Told(f, l, K)
  PROVE  Told(f, l, M)
<1>1. SourceOf(f, l)[2] = l.uuid /\ SourceOf(f, l)[3] = l.side
  BY CandidateIs
<1>2. CASE SourceOf(f, l) \in K
  BY <1>1, <1>2 DEF Told, Exchanged
<1>3. CASE l.side /\ l.uuid # NoUUID /\ \E s \in K : s[2] = l.uuid
  BY <1>3 DEF Told, Exchanged
<1> QED
  BY <1>2, <1>3 DEF Told

LEMMA BelowKept ==
  ASSUME NEW f \in Log, NEW txt \in Seq(Line), NEW o, NEW K, NEW M, Exchanged(K, M), Below(txt, f, o, K)
  PROVE  Below(txt, f, o, M)
<1>1. SUFFICES ASSUME NEW i \in DOMAIN txt, txt[i].kind = "usage", 3 * i - 1 <= o
               PROVE  Told(f, txt[i], M)
  BY DEF Below
<1>2. Told(f, txt[i], K) /\ txt[i] \in Line
  BY <1>1 DEF Below
<1> QED
  BY <1>2, ToldKept

LEMMA ExchangedMore ==
  ASSUME NEW K, NEW M, K \subseteq M
  PROVE  Exchanged(K, M)
BY DEF Exchanged

\* What append keeps: an event that it takes out of the list or of the
\* database is a replay of the message it adds.
LEMMA DedupIs ==
  ASSUME NEW by, Deduper(by), NEW events \in Seq(Candidates), NEW gone, NEW f \in Log, NEW l \in Line,
         NEW after, after = DedupAppend([by |-> by, events |-> events, gone |-> gone], f, l)
  PROVE  /\ after = [by |-> after.by, events |-> after.events, gone |-> after.gone]
         /\ Deduper(after.by) /\ after.events \in Seq(Candidates)
         /\ Sources(after.events) \subseteq Sources(events) \cup {SourceOf(f, l)}
         /\ \A s \in Sources(events) \cup (after.gone \ gone) :
              \/ s \in Sources(after.events)
              \/ s[3] /\ s[2] = l.uuid /\ l.uuid # NoUUID /\ SourceOf(f, l) \in Sources(after.events)
         /\ \/ SourceOf(f, l) \in Sources(after.events)
            \/ l.side /\ l.uuid \in UUID /\ by[l.uuid] # NoCandidate
         /\ \A u \in UUID : after.by[u] # NoCandidate =>
              by[u] # NoCandidate \/ (u = l.uuid /\ SourceOf(f, l) \in Sources(after.events))
         /\ (after.gone \ gone) \subseteq Source
<1>1. PICK c : c = Candidate(f, l)
  OBVIOUS
<1>2. /\ c \in Candidates /\ c.side = l.side /\ c.source = SourceOf(f, l)
      /\ c.source[2] = l.uuid /\ c.source[3] = l.side /\ (l.uuid # NoUUID => l.uuid \in UUID)
  BY <1>1, CandidateIs
<1>3. /\ Drops(by, events, gone, after, l) \/ Adds(by, events, gone, after, l, c)
         \/ Replaces(by, events, after, l, c)
      /\ after = [by |-> after.by, events |-> after.events, gone |-> after.gone]
  <2>1. Dedups(by, events, gone, after, l, c)
    BY <1>1, DedupCases
  <2> QED
    BY <2>1 DEF Dedups
<1>4. \A u \in UUID : Deduper([by EXCEPT ![u] = c]) \/ u # l.uuid
  <2>1. SUFFICES ASSUME NEW u \in UUID, u = l.uuid PROVE Deduper([by EXCEPT ![u] = c])
    OBVIOUS
  <2>2. PICK new : new = [by EXCEPT ![u] = c]
    OBVIOUS
  <2>3. /\ new \in [UUID -> Candidates \cup {NoCandidate}] /\ new[u] = c
        /\ \A v \in UUID : v # u => new[v] = by[v]
    BY <1>2, <2>2 DEF Deduper
  <2>4. Deduper(new)
    BY <1>2, <2>1, <2>3 DEF Deduper
  <2> QED
    BY <2>2, <2>4
<1>5. CASE Drops(by, events, gone, after, l)
  BY <1>2, <1>3, <1>5 DEF Drops
<1>6. CASE Adds(by, events, gone, after, l, c)
  <2>1. after.events = Append(events, c) /\ after.gone = gone
    BY <1>6 DEF Adds
  <2>2. after.events \in Seq(Candidates) /\ Sources(after.events) = Sources(events) \cup {c.source}
    BY <1>2, <2>1, AppendedIs
  <2>3. after.by = by \/ (l.uuid \in UUID /\ after.by = [by EXCEPT ![l.uuid] = c])
    BY <1>2, <1>6 DEF Adds
  <2>4. Deduper(after.by)
    BY <1>4, <2>3
  <2>5. ASSUME NEW u \in UUID, after.by[u] # NoCandidate
        PROVE  by[u] # NoCandidate \/ u = l.uuid
    BY <2>3, <2>5 DEF Deduper
  <2> QED
    BY <1>2, <1>3, <2>1, <2>2, <2>4, <2>5
<1>7. CASE Replaces(by, events, after, l, c)
  <2>1. PICK e : e = by[l.uuid]
    OBVIOUS
  <2>2. /\ l.uuid \in UUID /\ l.uuid # NoUUID /\ e \in Candidates /\ e.side
        /\ e.source[2] = l.uuid /\ e.source[3] = e.side /\ e.source \in Source
    <3>1. l.uuid \in UUID /\ l.uuid # NoUUID /\ e # NoCandidate /\ e.side
      BY <1>2, <1>7, <2>1 DEF Replaces
    <3>2. e \in Candidates /\ e.source[2] = l.uuid /\ e.source[3] = e.side
      BY <2>1, <3>1 DEF Deduper
    <3> QED
      BY <3>1, <3>2, CandidateIs
  <2>3. PICK rest : rest = WithoutSource(events, e.source)
    OBVIOUS
  <2>4. rest \in Seq(Candidates) /\ Sources(rest) \subseteq Sources(events)
        /\ Sources(events) \subseteq Sources(rest) \cup {e.source}
    BY <2>3, WithoutIs
  <2>5. after.events = Append(rest, c) /\ after.by = [by EXCEPT ![l.uuid] = c] /\ after.gone \subseteq {e.source}
    BY <1>7, <2>1, <2>3 DEF Replaces
  <2>6. after.events \in Seq(Candidates) /\ Sources(after.events) = Sources(rest) \cup {c.source}
    BY <1>2, <2>4, <2>5, AppendedIs
  <2>7. Deduper(after.by)
    BY <1>4, <2>2, <2>5
  <2>8. ASSUME NEW u \in UUID, after.by[u] # NoCandidate
        PROVE  by[u] # NoCandidate \/ u = l.uuid
    BY <2>5, <2>8 DEF Deduper
  <2> QED
    BY <1>2, <1>3, <2>2, <2>4, <2>5, <2>6, <2>7, <2>8
<1> QED
  BY <1>3, <1>5, <1>6, <1>7

-----------------------------------------------------------------------------
(* A worker of the first scan.                                             *)

\* What the deduplicator of one file holds after i lines of it.
Collected(txt, f, i, d) ==
  /\ d = [by |-> d.by, events |-> d.events, gone |-> d.gone]
  /\ Deduper(d.by) /\ d.events \in Seq(Candidates)
  /\ \A u \in UUID : d.by[u] # NoCandidate => \E s \in Sources(d.events) : s[2] = u
  /\ \A k \in 1 .. i : txt[k].kind = "usage" => Told(f, txt[k], Sources(d.events))

Collects(txt, f, d, i) == IF txt[i].kind = "usage" THEN DedupAppend(d, f, txt[i]) ELSE d

LEMMA CollectedOne ==
  ASSUME NEW f \in Log, NEW txt \in Seq(Line), NEW i \in DOMAIN txt,
         NEW d, Collected(txt, f, i - 1, d)
  PROVE  Collected(txt, f, i, Collects(txt, f, d, i))
<1>1. txt[i] \in Line /\ i \in Nat
  OBVIOUS
<1>2. CASE txt[i].kind # "usage"
  <2>1. Collects(txt, f, d, i) = d
    BY <1>2 DEF Collects
  <2>2. \A k \in 1 .. i : k \in 1 .. i - 1 \/ k = i
    BY <1>1
  <2> QED
    BY <1>2, <2>1, <2>2 DEF Collected
<1>3. CASE txt[i].kind = "usage"
  <2>1. PICK l : l = txt[i]
    OBVIOUS
  <2>2. PICK after : after = DedupAppend(d, f, l)
    OBVIOUS
  <2>3. Collects(txt, f, d, i) = after /\ l \in Line
    BY <1>1, <1>3, <2>1, <2>2 DEF Collects
  <2>4. PICK by, events, gone : by = d.by /\ events = d.events /\ gone = d.gone
    OBVIOUS
  <2>5. /\ d = [by |-> by, events |-> events, gone |-> gone] /\ Deduper(by) /\ events \in Seq(Candidates)
        /\ \A u \in UUID : by[u] # NoCandidate => \E s \in Sources(events) : s[2] = u
        /\ \A k \in 1 .. i - 1 : txt[k].kind = "usage" => Told(f, txt[k], Sources(events))
    BY <2>4 DEF Collected
  <2>6. after = DedupAppend([by |-> by, events |-> events, gone |-> gone], f, l)
    BY <2>2, <2>5
  <2>7. PICK K, M : K = Sources(events) /\ M = Sources(after.events)
    OBVIOUS
  <2>8. /\ after = [by |-> after.by, events |-> after.events, gone |-> after.gone]
        /\ Deduper(after.by) /\ after.events \in Seq(Candidates)
        /\ Exchanged(K, M)
        /\ SourceOf(f, l) \in M \/ (l.side /\ l.uuid \in UUID /\ by[l.uuid] # NoCandidate)
        /\ \A u \in UUID : after.by[u] # NoCandidate =>
             by[u] # NoCandidate \/ (u = l.uuid /\ SourceOf(f, l) \in M)
    <3>1. /\ after = [by |-> after.by, events |-> after.events, gone |-> after.gone]
          /\ Deduper(after.by) /\ after.events \in Seq(Candidates)
          /\ \A s \in K : \/ s \in M
                          \/ s[3] /\ s[2] = l.uuid /\ l.uuid # NoUUID /\ SourceOf(f, l) \in M
          /\ SourceOf(f, l) \in M \/ (l.side /\ l.uuid \in UUID /\ by[l.uuid] # NoCandidate)
          /\ \A u \in UUID : after.by[u] # NoCandidate =>
               by[u] # NoCandidate \/ (u = l.uuid /\ SourceOf(f, l) \in M)
      BY <2>3, <2>5, <2>6, <2>7, DedupIs
    <3>2. Exchanged(K, M)
      BY <2>3, <3>1, CandidateIs DEF Exchanged
    <3> QED
      BY <3>1, <3>2
  <2>9. SourceOf(f, l)[2] = l.uuid /\ NoUUID \notin UUID
    BY <2>3, CandidateIs
  <2>10. ASSUME NEW u \in UUID, by[u] # NoCandidate PROVE \E s \in M : s[2] = u
    <3>1. PICK s \in K : s[2] = u
      BY <2>5, <2>7, <2>10
    <3>2. CASE s \in M
      BY <3>1, <3>2
    <3>3. CASE \E t \in M : t[2] = s[2]
      BY <3>1, <3>3
    <3> QED
      BY <2>8, <3>2, <3>3 DEF Exchanged
  <2>11. \A u \in UUID : after.by[u] # NoCandidate => \E s \in M : s[2] = u
    BY <2>8, <2>9, <2>10
  <2>12. Told(f, l, M)
    BY <2>8, <2>9, <2>10 DEF Told
  <2>13. ASSUME NEW k \in 1 .. i, txt[k].kind = "usage" PROVE Told(f, txt[k], M)
    <3>1. CASE k = i
      BY <2>1, <2>12, <3>1
    <3>2. CASE k # i
      <4>1. k \in 1 .. i - 1 /\ txt[k] \in Line
        BY <1>1, <3>2
      <4>2. Told(f, txt[k], K)
        BY <2>5, <2>7, <2>13, <4>1
      <4> QED
        BY <2>8, <4>1, <4>2, ToldKept
    <3> QED
      BY <3>1, <3>2
  <2>14. Collected(txt, f, i, after)
    BY <2>7, <2>8, <2>11, <2>13 DEF Collected
  <2> QED
    BY <2>3, <2>14
<1> QED
  BY <1>2, <1>3

CollectsUpTo(txt, f, n, g) ==
  g = [i \in 0 .. n |-> IF i = 0 THEN Fresh ELSE Collects(txt, f, g[i - 1], i)]

LEMMA CollectExists ==
  ASSUME NEW f, NEW txt, NEW n \in Nat
  PROVE  \E g : CollectsUpTo(txt, f, n, g)
<1> DEFINE One(x, i) == Collects(txt, f, x, i)
           Def(g, i) == IF i = 0 THEN Fresh ELSE One(g[i - 1], i)
           S == {k \in 0 .. n : \E g : g = [i \in 0 .. k |-> Def(g, i)]}
<1> HIDE DEF One
<1>1. 0 \in S
  <2> DEFINE g == [i \in 0 .. 0 |-> Fresh]
  <2>1. g = [i \in 0 .. 0 |-> Def(g, i)]
    OBVIOUS
  <2> HIDE DEF g
  <2>2. \E h : h = [i \in 0 .. 0 |-> Def(h, i)]
    BY <2>1
  <2> QED
    BY <2>2
<1>2. ASSUME NEW k \in 1 .. n, k - 1 \in S PROVE k \in S
  <2>1. PICK g : g = [i \in 0 .. k - 1 |-> Def(g, i)]
    BY <1>2
  <2> DEFINE h == [i \in 0 .. k |-> IF i = k THEN Def(g, k) ELSE g[i]]
  <2>2. ASSUME NEW i \in 0 .. k PROVE h[i] = Def(h, i)
    <3>1. CASE i = 0
      <4>1. g[0] = Fresh /\ h[0] = g[0]
        BY <2>1
      <4> QED
        BY <3>1, <4>1
    <3>2. CASE i # 0 /\ i # k
      <4>1. i \in 0 .. k - 1 /\ i - 1 \in 0 .. k - 1 /\ i - 1 # k /\ i - 1 \in 0 .. k
        BY <3>2
      <4>2. h[i] = g[i] /\ h[i - 1] = g[i - 1]
        BY <3>2, <4>1
      <4>3. g[i] = Def(g, i)
        BY <2>1, <4>1
      <4> HIDE DEF h
      <4> QED
        BY <4>2, <4>3
    <3>3. CASE i = k
      <4>1. k - 1 # k /\ k - 1 \in 0 .. k /\ k # 0
        OBVIOUS
      <4>2. h[k] = Def(g, k) /\ h[k - 1] = g[k - 1]
        BY <3>3, <4>1
      <4> HIDE DEF h
      <4> QED
        BY <3>3, <4>1, <4>2
    <3> QED
      BY <3>1, <3>2, <3>3
  <2>3. h = [i \in 0 .. k |-> Def(h, i)]
    <3>1. h = [i \in 0 .. k |-> h[i]]
      OBVIOUS
    <3> HIDE DEF h, Def
    <3> QED
      BY <2>2, <3>1
  <2> HIDE DEF h, Def
  <2>4. k \in 0 .. n
    OBVIOUS
  <2> QED
    BY <2>3, <2>4
<1> HIDE DEF S
<1>3. n \in S
  <2>1. \A k \in 0 .. n : k \in S
    BY <1>1, <1>2, UpTo
  <2> QED
    BY <2>1
<1> QED
  BY <1>3 DEF S, One, CollectsUpTo

\* What a worker hands over: an offset behind lines that its events tell of.
LEMMA CollectIs ==
  ASSUME NEW f \in Log, NEW txt \in Seq(Line), txt = text[f],
         NEW size \in Nat, size = written[f], size <= 3 * Len(txt)
  PROVE  LET c == CollectFile(f)
         IN  /\ Boundary(c.off) /\ c.off <= size /\ c.events \in Seq(Candidates)
             /\ Below(txt, f, c.off, Sources(c.events))
<1>1. PICK k \in Nat : size \div 3 = k /\ \/ (size = 3 * k /\ size % 3 = 0)
                                           \/ (size = 3 * k + 1 /\ size % 3 = 1)
                                           \/ (size = 3 * k + 2 /\ size % 3 = 2)
  BY Thirds
<1>2. PICK whole \in Nat : whole = 3 * k /\ whole <= size /\ Boundary(whole)
  <2>1. (3 * k) % 3 = 0
    OBVIOUS
  <2> QED
    BY <1>1, <2>1 DEF Boundary
<1> DEFINE Whole == 3 * (written[f] \div 3)
           Off == IF written[f] = Whole THEN written[f] ELSE ReadLine(text[f], written[f], Whole).to
           N == (Off + 1) \div 3
           F == CHOOSE h : h = [i \in 0 .. N |->
                  IF i = 0 THEN Fresh
                  ELSE IF text[f][i].kind = "usage" THEN DedupAppend(h[i - 1], f, text[f][i]) ELSE h[i - 1]]
<1>10. CollectFile(f) = [off |-> Off, events |-> F[N].events]
  BY DEF CollectFile
<1>a. PICK off : off = Off
  OBVIOUS
<1>3. off = IF size = whole THEN size ELSE ReadLine(txt, size, whole).to
  BY <1>1, <1>2, <1>a
<1>4. Boundary(off) /\ off <= size
  <2>1. CASE size = whole
    BY <1>2, <1>3, <2>1
  <2>2. CASE size # whole
    <3>1. whole < size
      BY <1>2, <2>2
    <3>2. PICK r : r = ReadLine(txt, size, whole)
      OBVIOUS
    <3>3. Boundary(r.to) /\ r.to <= size
      BY <1>2, <3>1, <3>2, ReadLineIs
    <3> QED
      BY <1>3, <2>2, <3>2, <3>3
  <2> QED
    BY <2>1, <2>2
<1>5. PICK n \in Nat : n = (off + 1) \div 3 /\ 3 * n <= off + 1 /\ off + 1 < 3 * n + 3
  <2>1. off + 1 \in Nat
    BY <1>4 DEF Boundary
  <2> QED
    BY <2>1, Thirds
<1>6. PICK len \in Nat : len = Len(txt) /\ DOMAIN txt = 1 .. len
  OBVIOUS
<1>7. n <= len
  BY <1>4, <1>5, <1>6 DEF Boundary
<1>b. n = N
  BY <1>5, <1>a
<1>8. \E h : h = [i \in 0 .. N |->
                  IF i = 0 THEN Fresh
                  ELSE IF text[f][i].kind = "usage" THEN DedupAppend(h[i - 1], f, text[f][i]) ELSE h[i - 1]]
  <2> HIDE DEF N
  <2>1. \E h : CollectsUpTo(text[f], f, N, h)
    BY <1>b, CollectExists
  <2> QED
    BY <2>1 DEF CollectsUpTo, Collects
<1>9. F = [i \in 0 .. n |-> IF i = 0 THEN Fresh ELSE Collects(txt, f, F[i - 1], i)]
  <2> HIDE DEF N
  <2>1. F = [i \in 0 .. N |->
                  IF i = 0 THEN Fresh
                  ELSE IF text[f][i].kind = "usage" THEN DedupAppend(F[i - 1], f, text[f][i]) ELSE F[i - 1]]
    BY <1>8
  <2> HIDE DEF F
  <2> QED
    BY <1>b, <2>1 DEF Collects
<1> HIDE DEF F, N, Off
<1> DEFINE S == {i \in 0 .. n : Collected(txt, f, i, F[i])}
<1>11. 0 \in S
  <2>1. F[0] = Fresh
    BY <1>9
  <2>2. PICK by : by = [u \in UUID |-> NoCandidate]
    OBVIOUS
  <2>3. Deduper(by) /\ \A u \in UUID : by[u] = NoCandidate
    BY <2>2 DEF Deduper
  <2>4. Fresh = [by |-> by, events |-> <<>>, gone |-> {}]
    BY <2>2 DEF Fresh
  <2>5. Fresh.by = by /\ Fresh.events = <<>> /\ Fresh.gone = {}
    BY <2>4
  <2>6. Collected(txt, f, 0, Fresh)
    BY <2>3, <2>4, <2>5 DEF Collected
  <2> QED
    BY <1>5, <2>1, <2>6
<1>12. ASSUME NEW i \in 1 .. n, i - 1 \in S PROVE i \in S
  <2>1. F[i] = Collects(txt, f, F[i - 1], i)
    <3>1. i \in 0 .. n /\ i # 0
      BY <1>5
    <3> QED
      BY <1>9, <3>1
  <2>2. i \in DOMAIN txt /\ Collected(txt, f, i - 1, F[i - 1])
    BY <1>6, <1>7, <1>12
  <2>3. Collected(txt, f, i, F[i])
    BY <2>1, <2>2, CollectedOne
  <2> QED
    BY <1>5, <2>3
<1> HIDE DEF S
<1>13. n \in S
  <2>1. \A i \in 0 .. n : i \in S
    BY <1>11, <1>12, UpTo
  <2> QED
    BY <2>1
<1>14. Collected(txt, f, n, F[n])
  BY <1>13 DEF S
<1>15. Below(txt, f, off, Sources(F[n].events))
  <2>1. \A i \in DOMAIN txt : 3 * i - 1 <= off => i \in 1 .. n
    BY <1>4, <1>5, <1>6 DEF Boundary
  <2> QED
    BY <1>14, <2>1 DEF Below, Collected
<1>16. F[n].events \in Seq(Candidates)
  BY <1>14 DEF Collected
<1> QED
  <2>1. CollectFile(f) = [off |-> off, events |-> F[n].events]
    BY <1>10, <1>a, <1>b
  <2> QED
    BY <1>4, <1>15, <1>16, <2>1

-----------------------------------------------------------------------------
(* Steps that move no event.                                               *)

LEMMA PassIs ==
  ASSUME PassTyped
  PROVE  /\ pass.pc = "idle" => pass = Resting
         /\ pass.pc = "collect" => pass \in Collecting
         /\ pass.pc = "next" => pass \in Serving
         /\ pass.pc = "read" => pass \in Reading
BY DEF PassTyped, Resting, Collecting, Serving, Reading

LEMMA SameCounted ==
  ASSUME rows' = rows, lostSrc' = lostSrc, sent' = sent, pass.pc # "read", pass'.pc # "read"
  PROVE  Counted' = Counted
BY DEF Counted

\* Nothing lies below the start of a file.
LEMMA BelowStart ==
  ASSUME NEW f, NEW txt \in Seq(Line), NEW K
  PROVE  Below(txt, f, 0, K)
<1>1. \A i \in DOMAIN txt : i \in Nat /\ i >= 1
  OBVIOUS
<1>2. \A i \in DOMAIN txt : ~(3 * i - 1 <= 0)
  BY <1>1
<1> QED
  BY <1>2 DEF Below

\* What is told of stays told of in a step that leaves the files alone and
\* exchanges sources only for others of the message.
LEMMA KeepsTold ==
  ASSUME ClaudeTyped, SeenTold, KnownTold, Exchanged(Counted, Counted'),
         UNCHANGED <<text, written, seen, masked>>, done => done', byUUID' = byUUID
  PROVE  SeenTold' /\ KnownTold'
<1>1. ASSUME NEW f \in Log, f \notin masked'
      PROVE  seen'[f] <= written'[f] /\ (~done' => Below(text'[f], f, seen'[f], Counted'))
  <2>1. text[f] \in Seq(Line) /\ seen[f] <= written[f] /\ (~done => Below(text[f], f, seen[f], Counted))
    BY <1>1 DEF ClaudeTyped, SeenTold
  <2>2. ~done => Below(text[f], f, seen[f], Counted')
    BY <2>1, BelowKept
  <2> QED
    BY <2>1, <2>2
<1>2. ASSUME NEW u \in UUID, byUUID[u] # NoCandidate PROVE \E t \in Counted' : t[2] = u
  <2>1. PICK s \in Counted : s[2] = u
    BY <1>2 DEF KnownTold
  <2> QED
    BY <2>1 DEF Exchanged
<1> QED
  BY <1>1, <1>2 DEF SeenTold, KnownTold

LEMMA TickCounts ==
  ASSUME CountInv, ClaudeTick
  PROVE  CountInv'
<1>1. pass.pc = "idle" /\ ChangedFiles \in SUBSET Log
  BY DEF ClaudeTick, ChangedFiles
<1>2. \/ pass' = Resting
      \/ pass' \in Collecting /\ pass'.got = {}
      \/ pass' \in Serving
  BY <1>1 DEF ClaudeTick, Collecting, Serving
<1>3. pass'.pc # "read" /\ (pass'.pc = "collect" => pass'.got = {})
  BY <1>2 DEF Resting, Collecting, Serving
<1>4. Exchanged(Counted, Counted')
  <2>1. Counted' = Counted
    BY <1>1, <1>3, SameCounted DEF ClaudeTick
  <2> QED
    BY <2>1 DEF Exchanged
<1>5. SeenTold' /\ KnownTold'
  BY <1>4, KeepsTold DEF CountInv, ClaudeTick, diskVars
<1>6. ClaudeTyped'
  BY DEF CountInv, ClaudeTyped, ClaudeTick, diskVars, Deduper, Boundary
<1> QED
  BY <1>2, <1>3, <1>5, <1>6 DEF CountInv, PassTyped, ReadTold, GotTold

LEMMA CollectCounts ==
  ASSUME CountInv, NEW f \in Log, CollectOne(f)
  PROVE  CountInv'
<1>1. pass \in Collecting
  BY PassIs DEF CountInv, CollectOne
<1>2. PICK c : c = CollectFile(f)
  OBVIOUS
<1>3. PICK r : r = [file |-> f, off |-> c.off, events |-> c.events]
  OBVIOUS
<1>4. /\ Boundary(c.off) /\ c.off <= written[f] /\ c.events \in Seq(Candidates)
      /\ Below(text[f], f, c.off, Sources(c.events))
  <2>1. text[f] \in Seq(Line) /\ written[f] \in Nat /\ written[f] <= 3 * Len(text[f])
    BY DEF CountInv, ClaudeTyped
  <2> QED
    BY <1>2, <2>1, CollectIs
<1>5. r \in Result /\ r.file = f /\ r.off = c.off /\ r.events = c.events
  BY <1>3, <1>4 DEF Result, Boundary
<1>6. PICK todo, got : pass = [pc |-> "collect", todo |-> todo, got |-> got] /\ todo = pass.todo /\ got = pass.got
                       /\ todo \in SUBSET Log /\ got \in SUBSET Result
  BY <1>1 DEF Collecting
<1>7. PICK more, left : /\ pass' = [pc |-> "collect", todo |-> left, got |-> more]
                        /\ left \in SUBSET Log /\ more \in SUBSET Result /\ more \subseteq got \cup {r}
  <2>1. PICK now : now = [pc |-> "collect", todo |-> todo, got |-> got]
    OBVIOUS
  <2>2. CASE done
    <3>1. pass' = [now EXCEPT !.todo = {}]
      BY <1>6, <2>1, <2>2 DEF CollectOne
    <3>2. pass' = [pc |-> "collect", todo |-> {}, got |-> got]
      BY <2>1, <3>1
    <3> QED
      BY <1>6, <3>2
  <2>3. CASE ~done
    <3>1. pass' = [now EXCEPT !.todo = todo \ {f}, !.got = got \cup {r}]
      BY <1>2, <1>3, <1>6, <2>1, <2>3 DEF CollectOne
    <3>2. pass' = [pc |-> "collect", todo |-> todo \ {f}, got |-> got \cup {r}]
      BY <2>1, <3>1
    <3>3. todo \ {f} \in SUBSET Log /\ got \cup {r} \in SUBSET Result
      BY <1>5, <1>6
    <3> QED
      BY <3>2, <3>3
  <2> QED
    BY <2>2, <2>3
<1>8. pass' \in Collecting /\ pass'.pc = "collect" /\ pass'.got = more
  BY <1>7 DEF Collecting
<1>9. Exchanged(Counted, Counted')
  <2>1. Counted' = Counted
    BY <1>8, SameCounted DEF CollectOne
  <2> QED
    BY <2>1 DEF Exchanged
<1>10. SeenTold' /\ KnownTold'
  BY <1>9, KeepsTold DEF CountInv, CollectOne, diskVars
<1>11. ClaudeTyped'
  BY DEF CountInv, ClaudeTyped, CollectOne, diskVars, Deduper, Boundary
<1>12. GotTold'
  <2>1. UNCHANGED <<text, written, masked>>
    BY DEF CollectOne, diskVars
  <2>2. \A x \in got :
          /\ Boundary(x.off)
          /\ x.file \notin masked => x.off <= written[x.file] /\ Below(text[x.file], x.file, x.off, Sources(x.events))
    BY <1>6 DEF CountInv, GotTold
  <2>3. \A x \in more :
          /\ Boundary(x.off)
          /\ x.file \notin masked => x.off <= written[x.file] /\ Below(text[x.file], x.file, x.off, Sources(x.events))
    BY <1>4, <1>5, <1>7, <2>2
  <2> QED
    BY <1>8, <2>1, <2>3 DEF GotTold
<1> QED
  BY <1>8, <1>10, <1>11, <1>12 DEF CountInv, PassTyped, ReadTold

LEMMA ScanEndCounts ==
  ASSUME CountInv, FirstScanEnds \/ PassEnds
  PROVE  CountInv'
<1>1. pass.pc # "read" /\ pass' = Resting /\ UNCHANGED <<text, written, old, seen, byUUID, sent, rows, done,
                                                        masked, excused, lostSrc, upsets>>
      /\ firstDone' \in BOOLEAN
  BY DEF FirstScanEnds, PassEnds, diskVars, CountInv, ClaudeTyped
<1>2. pass'.pc = "idle"
  BY <1>1 DEF Resting
<1>3. Counted' = Counted
  BY <1>1, <1>2, SameCounted
<1>4. SeenTold' /\ KnownTold'
  BY <1>1, <1>3, KeepsTold DEF CountInv, Exchanged
<1>5. ClaudeTyped'
  BY <1>1 DEF CountInv, ClaudeTyped, Deduper, Boundary
<1> QED
  BY <1>1, <1>2, <1>4, <1>5 DEF CountInv, PassTyped, ReadTold, GotTold

LEMMA StopCounts ==
  ASSUME CountInv, StopClaude
  PROVE  CountInv'
<1>1. done' = TRUE /\ UNCHANGED <<text, written, old, seen, byUUID, sent, rows, pass,
                                  masked, excused, lostSrc, firstDone>> /\ upsets' \in Nat
  BY DEF StopClaude, diskVars, CountInv, ClaudeTyped, Upset
<1>2. Counted' = Counted
  BY <1>1 DEF Counted
<1>3. SeenTold' /\ KnownTold'
  BY <1>1, <1>2, KeepsTold DEF CountInv, Exchanged
<1>4. ClaudeTyped'
  BY <1>1 DEF CountInv, ClaudeTyped, Deduper, Boundary
<1> QED
  BY <1>1, <1>3, <1>4 DEF CountInv, PassTyped, ReadTold, GotTold

LEMMA AgeCounts ==
  ASSUME CountInv, NEW f \in Log, AgeLog(f)
  PROVE  CountInv'
<1>1. UNCHANGED <<text, written, seen, byUUID, sent, rows, pass, done,
                  masked, excused, lostSrc, firstDone>> /\ upsets' \in Nat /\ old' \in SUBSET Log
  BY DEF AgeLog, CountInv, ClaudeTyped, Upset
<1>2. Counted' = Counted
  BY <1>1 DEF Counted
<1>3. SeenTold' /\ KnownTold'
  BY <1>1, <1>2, KeepsTold DEF CountInv, Exchanged
<1>4. ClaudeTyped'
  BY <1>1 DEF CountInv, ClaudeTyped, Deduper, Boundary
<1> QED
  BY <1>1, <1>2, <1>3, <1>4 DEF CountInv, PassTyped, ReadTold, GotTold

-----------------------------------------------------------------------------
(* Steps that commit an offset.                                            *)

LEMMA OpenCounts ==
  ASSUME CountInv, NEW f \in Log, OpenFile(f)
  PROVE  CountInv'
<1>1. pass \in Serving
  BY PassIs DEF CountInv, OpenFile
<1>2. PICK shrunk \in BOOLEAN : shrunk = (seen[f] > 0 /\ written[f] < seen[f])
  OBVIOUS
<1>3. PICK from : from = IF shrunk THEN 0 ELSE seen[f]
  OBVIOUS
<1>4. Boundary(from) /\ from \in Nat
  BY <1>3 DEF CountInv, ClaudeTyped, Boundary
<1>5. /\ seen' = [seen EXCEPT ![f] = from]
      /\ masked' = IF shrunk THEN masked \ {f} ELSE masked
      /\ pass' = IF written[f] = from THEN [pass EXCEPT !.jobs = @ \ {f}]
                 ELSE [pc |-> "read", file |-> f, jobs |-> pass.jobs \ {f},
                       off |-> from, n |-> 0, eof |-> FALSE, events |-> <<>>]
  BY <1>2, <1>3 DEF OpenFile
<1>6. UNCHANGED <<text, written, old, firstDone, byUUID, sent, rows, done, excused, lostSrc, upsets>>
  BY DEF OpenFile, diskVars
<1>7. \/ pass' \in Serving
      \/ pass' \in Reading /\ pass'.file = f /\ pass'.off = from /\ pass'.events = <<>>
  <2>1. PICK jobs : pass = [pc |-> "next", jobs |-> jobs] /\ jobs = pass.jobs /\ jobs \in SUBSET Log
    BY <1>1 DEF Serving
  <2>2. jobs \ {f} \in SUBSET Log
    BY <2>1
  <2>3. CASE written[f] = from
    <3>1. pass' = [pc |-> "next", jobs |-> jobs \ {f}]
      BY <1>5, <2>1, <2>3
    <3> QED
      BY <2>2, <3>1 DEF Serving
  <2>4. CASE written[f] # from
    <3>1. pass' = [pc |-> "read", file |-> f, jobs |-> jobs \ {f},
                   off |-> from, n |-> 0, eof |-> FALSE, events |-> <<>>]
      BY <1>5, <2>1, <2>4
    <3>2. <<>> \in Seq(Candidates)
      OBVIOUS
    <3> QED
      BY <1>4, <2>2, <3>1, <3>2 DEF Reading
  <2> QED
    BY <2>3, <2>4
<1>8. Counted' = Counted
  <2>1. Counted = {s \in Source : rows[s] # NoRow} \cup lostSrc \cup {sent[i].source : i \in DOMAIN sent}
    BY <1>1 DEF Counted, Serving
  <2>2. Counted' = {s \in Source : rows[s] # NoRow} \cup lostSrc \cup {sent[i].source : i \in DOMAIN sent}
    BY <1>6, <1>7 DEF Counted, Serving, Reading
  <2> QED
    BY <2>1, <2>2
<1>9. /\ text[f] \in Seq(Line) /\ seen[f] \in Nat /\ written[f] \in Nat
      /\ \A g \in Log : seen'[g] = IF g = f THEN from ELSE seen[g]
  BY <1>5 DEF CountInv, ClaudeTyped
<1>10. f \notin masked' => from <= written[f] /\ (~done => Below(text[f], f, from, Counted))
  <2>1. CASE shrunk
    BY <1>3, <1>9, <2>1, BelowStart
  <2>2. CASE ~shrunk
    BY <1>3, <1>5, <2>2 DEF CountInv, SeenTold
  <2> QED
    BY <2>1, <2>2
<1>11. SeenTold'
  <2>1. ASSUME NEW g \in Log, g \notin masked'
        PROVE  seen'[g] <= written[g] /\ (~done => Below(text[g], g, seen'[g], Counted))
    <3>1. CASE g = f
      BY <1>9, <1>10, <2>1, <3>1
    <3>2. CASE g # f
      BY <1>5, <1>9, <2>1, <3>2 DEF CountInv, SeenTold
    <3> QED
      BY <3>1, <3>2
  <2> QED
    BY <1>6, <1>8, <2>1 DEF SeenTold
<1>12. ReadTold'
  BY <1>4, <1>6, <1>7, <1>8, <1>10 DEF ReadTold, Serving, Reading
<1>13. KnownTold'
  BY <1>6, <1>8 DEF CountInv, KnownTold
<1>14. GotTold'
  BY <1>7 DEF GotTold, Serving, Reading
<1>15. ClaudeTyped'
  <2>1. seen' \in [Log -> Nat] /\ \A g \in Log : Boundary(seen'[g])
    BY <1>4, <1>5, <1>9 DEF CountInv, ClaudeTyped
  <2>2. masked' \in SUBSET Log
    BY <1>5 DEF CountInv, ClaudeTyped
  <2> QED
    BY <1>6, <2>1, <2>2 DEF CountInv, ClaudeTyped, Deduper
<1> QED
  BY <1>7, <1>11, <1>12, <1>13, <1>14, <1>15 DEF CountInv, PassTyped

LEMMA TakeCounts ==
  ASSUME CountInv, NEW r, r \in pass.got, TakeResult(r)
  PROVE  CountInv'
<1>1. pass \in Collecting
  BY PassIs DEF CountInv, TakeResult
<1>2. r \in Result
  BY <1>1 DEF Collecting
<1>3. PICK f \in Log, off \in Nat, events \in Seq(Candidates) : r.file = f /\ r.off = off /\ r.events = events
  BY <1>2 DEF Result
<1>4. /\ seen' = [seen EXCEPT ![f] = off]
      /\ sent' = IF done THEN sent ELSE sent \o events
      /\ excused' \subseteq excused \cup Sources(events)
  BY <1>3 DEF TakeResult, Sources
<1>5. UNCHANGED <<text, written, old, firstDone, byUUID, rows, done, masked, lostSrc, upsets>>
  BY DEF TakeResult, diskVars
<1>6. PICK todo, got : pass = [pc |-> "collect", todo |-> todo, got |-> got] /\ todo = pass.todo /\ got = pass.got
                       /\ todo \in SUBSET Log /\ got \in SUBSET Result
  BY <1>1 DEF Collecting
<1>7. pass' = [pc |-> "collect", todo |-> todo, got |-> got \ {r}]
  <2>1. PICK now : now = [pc |-> "collect", todo |-> todo, got |-> got]
    OBVIOUS
  <2>2. pass' = [now EXCEPT !.got = got \ {r}]
    BY <1>6, <2>1 DEF TakeResult
  <2> QED
    BY <2>1, <2>2
<1>8. pass' \in Collecting /\ pass'.pc = "collect" /\ pass'.got = got \ {r}
  BY <1>6, <1>7 DEF Collecting
<1>9. sent \in Seq(Candidates) /\ text[f] \in Seq(Line)
  BY DEF CountInv, ClaudeTyped
<1>10. /\ sent' \in Seq(Candidates) /\ Sources(sent) \subseteq Sources(sent')
       /\ ~done => Sources(events) \subseteq Sources(sent')
  BY <1>4, <1>9, CatenatedSources
<1>11. Exchanged(Counted, Counted') /\ (~done => Exchanged(Sources(events), Counted'))
  <2>1. Counted = {s \in Source : rows[s] # NoRow} \cup lostSrc \cup Sources(sent)
    BY <1>1 DEF Counted, Collecting, Sources
  <2>2. Counted' = {s \in Source : rows[s] # NoRow} \cup lostSrc \cup Sources(sent')
    BY <1>5, <1>8 DEF Counted, Sources
  <2> QED
    BY <1>10, <2>1, <2>2 DEF Exchanged
<1>12. /\ Boundary(off)
       /\ f \notin masked => off <= written[f] /\ Below(text[f], f, off, Sources(events))
  BY <1>3, <1>6 DEF CountInv, GotTold, TakeResult
<1>13. \A g \in Log : seen'[g] = IF g = f THEN off ELSE seen[g]
  BY <1>4 DEF CountInv, ClaudeTyped
<1>14. SeenTold'
  <2>1. ASSUME NEW g \in Log, g \notin masked
        PROVE  seen'[g] <= written[g] /\ (~done => Below(text[g], g, seen'[g], Counted'))
    <3>1. CASE g = f
      BY <1>9, <1>11, <1>12, <1>13, <2>1, <3>1, BelowKept
    <3>2. CASE g # f
      <4>1. /\ text[g] \in Seq(Line) /\ seen[g] <= written[g]
            /\ ~done => Below(text[g], g, seen[g], Counted)
        BY <2>1 DEF CountInv, ClaudeTyped, SeenTold
      <4>2. ~done => Below(text[g], g, seen[g], Counted')
        BY <1>11, <4>1, BelowKept
      <4> QED
        BY <1>13, <3>2, <4>1, <4>2
    <3> QED
      BY <3>1, <3>2
  <2> QED
    BY <1>5, <2>1 DEF SeenTold
<1>15. KnownTold'
  <2>1. ASSUME NEW u \in UUID, byUUID[u] # NoCandidate PROVE \E t \in Counted' : t[2] = u
    <3>1. PICK s \in Counted : s[2] = u
      BY <2>1 DEF CountInv, KnownTold
    <3> QED
      BY <1>11, <3>1 DEF Exchanged
  <2> QED
    BY <1>5, <2>1 DEF KnownTold
<1>16. GotTold'
  BY <1>5, <1>6, <1>8 DEF CountInv, GotTold
<1>17. ClaudeTyped'
  <2>1. seen' \in [Log -> Nat] /\ \A g \in Log : Boundary(seen'[g])
    BY <1>4, <1>12, <1>13 DEF CountInv, ClaudeTyped
  <2>2. excused' \in SUBSET Source
    BY <1>4, SourcesAre DEF CountInv, ClaudeTyped
  <2> QED
    BY <1>5, <1>10, <2>1, <2>2 DEF CountInv, ClaudeTyped, Deduper
<1> QED
  BY <1>8, <1>14, <1>15, <1>16, <1>17 DEF CountInv, PassTyped, ReadTold

LEMMA FinishCounts ==
  ASSUME CountInv, FinishFile
  PROVE  CountInv'
<1>1. pass \in Reading
  BY PassIs DEF CountInv, FinishFile
<1>2. PICK f \in Log, jobs \in SUBSET Log, off \in Nat, events \in Seq(Candidates) :
        pass.file = f /\ pass.jobs = jobs /\ pass.off = off /\ pass.events = events
  BY <1>1 DEF Reading
<1>3. seen' = [seen EXCEPT ![f] = off] /\ sent' = sent \o events /\ pass' = [pc |-> "next", jobs |-> jobs]
  BY <1>2 DEF FinishFile
<1>4. UNCHANGED <<text, written, old, firstDone, byUUID, rows, done, masked, excused, lostSrc, upsets>>
  BY DEF FinishFile, diskVars
<1>5. pass' \in Serving /\ pass'.pc = "next"
  BY <1>2, <1>3 DEF Serving
<1>6. sent' \in Seq(Candidates) /\ Sources(sent') = Sources(sent) \cup Sources(events)
  BY <1>2, <1>3, CatenatedSources DEF CountInv, ClaudeTyped
<1>7. Counted' = Counted
  <2>1. Counted = {s \in Source : rows[s] # NoRow} \cup lostSrc \cup Sources(sent) \cup Sources(events)
    BY <1>1, <1>2 DEF Counted, Reading, Sources
  <2>2. Counted' = {s \in Source : rows[s] # NoRow} \cup lostSrc \cup Sources(sent')
    BY <1>4, <1>5 DEF Counted, Sources
  <2> QED
    BY <1>6, <2>1, <2>2
<1>8. Boundary(off) /\ (f \notin masked => off <= written[f] /\ (~done => Below(text[f], f, off, Counted)))
  BY <1>1, <1>2 DEF CountInv, ReadTold, Reading
<1>9. \A g \in Log : seen'[g] = IF g = f THEN off ELSE seen[g]
  BY <1>3 DEF CountInv, ClaudeTyped
<1>10. SeenTold'
  <2>1. ASSUME NEW g \in Log, g \notin masked
        PROVE  seen'[g] <= written[g] /\ (~done => Below(text[g], g, seen'[g], Counted))
    BY <1>8, <1>9, <2>1 DEF CountInv, SeenTold
  <2> QED
    BY <1>4, <1>7, <2>1 DEF SeenTold
<1>11. KnownTold'
  BY <1>4, <1>7 DEF CountInv, KnownTold
<1>12. ClaudeTyped'
  <2>1. seen' \in [Log -> Nat] /\ \A g \in Log : Boundary(seen'[g])
    BY <1>3, <1>8, <1>9 DEF CountInv, ClaudeTyped
  <2> QED
    BY <1>4, <1>6, <2>1 DEF CountInv, ClaudeTyped, Deduper
<1> QED
  BY <1>5, <1>10, <1>11, <1>12 DEF CountInv, PassTyped, ReadTold, GotTold

\* A new process starts from the start of every file.
LEMMA RestartCounts ==
  ASSUME CountInv, RestartClaude
  PROVE  CountInv'
<1>1. /\ UNCHANGED <<text, written, old, rows, lostSrc>> /\ upsets' \in Nat
      /\ seen' = [f \in Log |-> 0] /\ firstDone' = FALSE /\ byUUID' = [u \in UUID |-> NoCandidate]
      /\ pass' = Resting /\ sent' = <<>> /\ done' = FALSE /\ masked' = {}
      /\ excused' \in SUBSET Source
  BY DEF RestartClaude, diskVars, Upset, CountInv, ClaudeTyped
<1>2. pass'.pc = "idle"
  BY <1>1 DEF Resting
<1>3. SeenTold'
  <2>1. \A f \in Log : seen'[f] = 0 /\ 0 <= written[f] /\ text[f] \in Seq(Line)
    BY <1>1 DEF CountInv, ClaudeTyped
  <2>2. \A f \in Log : Below(text[f], f, 0, Counted')
    BY <2>1, BelowStart
  <2> QED
    BY <1>1, <2>1, <2>2 DEF SeenTold
<1>4. Deduper(byUUID') /\ \A u \in UUID : byUUID'[u] = NoCandidate
  BY <1>1 DEF Deduper
<1>5. ClaudeTyped'
  <2>1. <<>> \in Seq(Candidates)
    OBVIOUS
  <2>2. seen' \in [Log -> Nat] /\ \A f \in Log : Boundary(seen'[f])
    BY <1>1 DEF Boundary
  <2> QED
    BY <1>1, <1>4, <2>1, <2>2 DEF CountInv, ClaudeTyped
<1> QED
  BY <1>1, <1>2, <1>3, <1>4, <1>5 DEF CountInv, PassTyped, ReadTold, GotTold, KnownTold

-----------------------------------------------------------------------------
(* The agent and the pipeline.                                             *)

\* A line that is added lies above every offset.
LEMMA WriteLineCounts ==
  ASSUME CountInv, NEW f \in Log, WriteLine(f)
  PROVE  CountInv'
<1>1. /\ UNCHANGED <<seen, firstDone, byUUID, pass, sent, rows, done, masked, excused, lostSrc, upsets>>
      /\ old' \in SUBSET Log
  BY DEF WriteLine, CountInv, ClaudeTyped
<1>2. PICK txt \in Seq(Line), size \in Nat, len \in Nat :
        text[f] = txt /\ written[f] = size /\ len = Len(txt) /\ size <= 3 * len /\ 3 * len < size + 3
  BY DEF CountInv, ClaudeTyped
<1>3. PICK k \in Nat : size \div 3 = k /\ \/ (size = 3 * k /\ size % 3 = 0)
                                           \/ (size = 3 * k + 1 /\ size % 3 = 1)
                                           \/ (size = 3 * k + 2 /\ size % 3 = 2)
  BY Thirds
<1>4. PICK n \in Nat : written' = [written EXCEPT ![f] = n] /\ size + 1 <= n /\ n <= 3 * (k + 1)
  <2>1. 3 * LineAt(written[f]) = 3 * (k + 1)
    BY <1>2, <1>3 DEF LineAt
  <2>2. PICK n \in size + 1 .. 3 * (k + 1) : written' = [written EXCEPT ![f] = n]
    BY <1>2, <2>1 DEF WriteLine
  <2>3. n \in Nat /\ size + 1 <= n /\ n <= 3 * (k + 1)
    OBVIOUS
  <2> QED
    BY <2>2, <2>3
<1>5. PICK new : /\ new \in Seq(Line) /\ n <= 3 * Len(new) /\ 3 * Len(new) < n + 3
                 /\ text' = [text EXCEPT ![f] = new]
                 /\ \A i \in DOMAIN new : (i \in DOMAIN txt /\ new[i] = txt[i]) \/ 3 * i - 1 > size
  <2>1. CASE size % 3 = 0
    <3>1. size = 3 * k /\ len = k
      BY <1>2, <1>3, <2>1
    <3>2. PICK l \in Line : text' = [text EXCEPT ![f] = Append(txt, l)]
      BY <1>2, <2>1 DEF WriteLine
    <3>3. PICK new : new = Append(txt, l)
      OBVIOUS
    <3>4. new \in Seq(Line) /\ Len(new) = len + 1 /\ DOMAIN new = 1 .. len + 1 /\ DOMAIN txt = 1 .. len
          /\ \A i \in 1 .. len : new[i] = txt[i]
      BY <1>2, <3>3
    <3>5. \A i \in 1 .. len + 1 : i \in 1 .. len \/ 3 * i - 1 > size
      BY <3>1
    <3>6. n <= 3 * (len + 1) /\ 3 * (len + 1) < n + 3
      BY <1>4, <3>1
    <3> QED
      BY <3>2, <3>3, <3>4, <3>5, <3>6
  <2>2. CASE size % 3 # 0
    <3>1. len = k + 1
      BY <1>2, <1>3, <2>2
    <3>2. text' = text /\ text = [text EXCEPT ![f] = txt]
      BY <1>2, <2>2 DEF WriteLine, CountInv, ClaudeTyped
    <3>3. n <= 3 * len /\ 3 * len < n + 3
      BY <1>2, <1>4, <3>1
    <3> QED
      BY <1>2, <3>2, <3>3
  <2> QED
    BY <2>1, <2>2
<1>6. /\ \A g \in Log : text'[g] = (IF g = f THEN new ELSE text[g]) /\ written'[g] = IF g = f THEN n ELSE written[g]
      /\ text' \in [Log -> Seq(Line)] /\ written' \in [Log -> Nat]
      /\ \A g \in Log : written[g] <= written'[g]
  <2>1. text \in [Log -> Seq(Line)] /\ written \in [Log -> Nat]
    BY DEF CountInv, ClaudeTyped
  <2>2. \A g \in Log : text'[g] = (IF g = f THEN new ELSE text[g]) /\ written'[g] = IF g = f THEN n ELSE written[g]
    BY <1>4, <1>5, <2>1
  <2>3. text' \in [Log -> Seq(Line)] /\ written' \in [Log -> Nat]
    BY <1>4, <1>5, <2>1
  <2>4. \A g \in Log : written[g] <= written'[g]
    BY <1>2, <1>4, <2>1, <2>2
  <2> QED
    BY <2>2, <2>3, <2>4
<1>7. ASSUME NEW g \in Log, NEW o \in Nat, o <= written[g], NEW K, Below(text[g], g, o, K)
      PROVE  Below(text'[g], g, o, K)
  <2>1. CASE g # f
    BY <1>6, <1>7, <2>1
  <2>2. CASE g = f
    <3>1. \A i \in DOMAIN new : i \in Nat
      BY <1>5
    <3>2. \A i \in DOMAIN new : 3 * i - 1 <= o => i \in DOMAIN txt /\ new[i] = txt[i]
      <4>1. o <= size
        BY <1>2, <1>7, <2>2
      <4>2. \A i \in DOMAIN new : (i \in DOMAIN txt /\ new[i] = txt[i]) \/ 3 * i - 1 > size
        BY <1>5
      <4> QED
        BY <3>1, <4>1, <4>2
    <3>3. Below(new, f, o, K)
      BY <1>2, <1>7, <2>2, <3>2 DEF Below
    <3> QED
      BY <1>6, <2>2, <3>3
  <2> QED
    BY <2>1, <2>2
<1>8. Counted' = Counted
  BY <1>1 DEF Counted
<1>9. SeenTold'
  <2>1. ASSUME NEW g \in Log, g \notin masked
        PROVE  seen[g] <= written'[g] /\ (~done => Below(text'[g], g, seen[g], Counted))
    <3>1. seen[g] \in Nat /\ written[g] \in Nat /\ written'[g] \in Nat
      BY <1>6 DEF CountInv, ClaudeTyped
    <3>2. seen[g] <= written[g] /\ (~done => Below(text[g], g, seen[g], Counted))
      BY <2>1 DEF CountInv, SeenTold
    <3> QED
      BY <1>6, <1>7, <3>1, <3>2
  <2> QED
    BY <1>1, <1>8, <2>1 DEF SeenTold
<1>10. ReadTold'
  <2>1. ASSUME pass.pc = "read"
        PROVE  /\ Boundary(pass.off)
               /\ pass.file \notin masked =>
                    pass.off <= written'[pass.file]
                    /\ (~done => Below(text'[pass.file], pass.file, pass.off, Counted))
    <3>1. pass.file \in Log /\ Boundary(pass.off) /\ pass.off \in Nat
      BY <2>1, PassIs DEF CountInv, ReadTold, Reading
    <3>2. pass.file \notin masked =>
            pass.off <= written[pass.file] /\ (~done => Below(text[pass.file], pass.file, pass.off, Counted))
      BY <2>1 DEF CountInv, ReadTold
    <3>3. written[pass.file] \in Nat /\ written'[pass.file] \in Nat
      BY <1>6, <3>1 DEF CountInv, ClaudeTyped
    <3> QED
      BY <1>6, <1>7, <3>1, <3>2, <3>3
  <2> QED
    BY <1>1, <1>8, <2>1 DEF ReadTold
<1>11. GotTold'
  <2>1. ASSUME pass.pc = "collect", NEW r \in pass.got
        PROVE  /\ Boundary(r.off)
               /\ r.file \notin masked =>
                    r.off <= written'[r.file] /\ Below(text'[r.file], r.file, r.off, Sources(r.events))
    <3>1. r.file \in Log /\ r.off \in Nat
      BY <2>1, PassIs DEF CountInv, Collecting, Result
    <3>2. /\ Boundary(r.off)
          /\ r.file \notin masked =>
               r.off <= written[r.file] /\ Below(text[r.file], r.file, r.off, Sources(r.events))
      BY <2>1 DEF CountInv, GotTold
    <3>3. written[r.file] \in Nat /\ written'[r.file] \in Nat
      BY <1>6, <3>1 DEF CountInv, ClaudeTyped
    <3> QED
      BY <1>6, <1>7, <3>1, <3>2, <3>3
  <2> QED
    BY <1>1, <2>1 DEF GotTold
<1>12. ClaudeTyped'
  <2>1. \A g \in Log : written'[g] <= 3 * Len(text'[g]) /\ 3 * Len(text'[g]) < written'[g] + 3
    BY <1>5, <1>6 DEF CountInv, ClaudeTyped
  <2> QED
    BY <1>1, <1>6, <2>1 DEF CountInv, ClaudeTyped, Deduper, Boundary
<1> QED
  BY <1>1, <1>8, <1>9, <1>10, <1>11, <1>12 DEF CountInv, PassTyped, KnownTold

LEMMA TruncateCounts ==
  ASSUME CountInv, NEW f \in Log, TruncateLog(f)
  PROVE  CountInv'
<1>1. /\ UNCHANGED <<seen, firstDone, byUUID, pass, sent, rows, done, excused, lostSrc>>
      /\ old' \in SUBSET Log /\ upsets' \in Nat /\ masked \subseteq masked' /\ masked' \in SUBSET Log
      /\ text' = [text EXCEPT ![f] = <<>>] /\ written' = [written EXCEPT ![f] = 0]
      /\ seen[f] > 0 \/ BeingRead(f) => f \in masked'
  BY DEF TruncateLog, CountInv, ClaudeTyped, Upset
<1>2. /\ \A g \in Log : text'[g] = (IF g = f THEN <<>> ELSE text[g]) /\ written'[g] = IF g = f THEN 0 ELSE written[g]
      /\ text' \in [Log -> Seq(Line)] /\ written' \in [Log -> Nat]
  BY <1>1 DEF CountInv, ClaudeTyped
<1>3. Counted' = Counted
  BY <1>1 DEF Counted
<1>4. SeenTold'
  <2>1. ASSUME NEW g \in Log, g \notin masked'
        PROVE  seen[g] <= written'[g] /\ (~done => Below(text'[g], g, seen[g], Counted))
    <3>1. CASE g = f
      <4>1. seen[f] = 0
        BY <1>1, <2>1, <3>1 DEF CountInv, ClaudeTyped
      <4>2. text'[f] = <<>> /\ written'[f] = 0 /\ <<>> \in Seq(Line)
        BY <1>2
      <4>3. Below(<<>>, f, 0, Counted)
        BY <4>2, BelowStart
      <4> QED
        BY <3>1, <4>1, <4>2, <4>3
    <3>2. CASE g # f
      BY <1>1, <1>2, <2>1, <3>2 DEF CountInv, SeenTold
    <3> QED
      BY <3>1, <3>2
  <2> QED
    BY <1>1, <1>3, <2>1 DEF SeenTold
<1>5. ReadTold'
  <2>1. ASSUME pass.pc = "read"
        PROVE  /\ Boundary(pass.off)
               /\ pass.file \notin masked' =>
                    pass.off <= written'[pass.file]
                    /\ (~done => Below(text'[pass.file], pass.file, pass.off, Counted))
    <3>1. pass.file \in Log
      BY <2>1, PassIs DEF CountInv, Reading
    <3>2. pass.file \notin masked' => pass.file # f
      BY <1>1, <2>1 DEF BeingRead
    <3> QED
      BY <1>1, <1>2, <2>1, <3>1, <3>2 DEF CountInv, ReadTold
  <2> QED
    BY <1>1, <1>3, <2>1 DEF ReadTold
<1>6. GotTold'
  <2>1. ASSUME pass.pc = "collect", NEW r \in pass.got
        PROVE  /\ Boundary(r.off)
               /\ r.file \notin masked' =>
                    r.off <= written'[r.file] /\ Below(text'[r.file], r.file, r.off, Sources(r.events))
    <3>1. r.file \in Log
      BY <2>1, PassIs DEF CountInv, Collecting, Result
    <3>2. r.file \notin masked' => r.file # f
      BY <1>1, <2>1 DEF BeingRead
    <3> QED
      BY <1>1, <1>2, <2>1, <3>1, <3>2 DEF CountInv, GotTold
  <2> QED
    BY <1>1, <2>1 DEF GotTold
<1>7. ClaudeTyped'
  <2>1. \A g \in Log : written'[g] <= 3 * Len(text'[g]) /\ 3 * Len(text'[g]) < written'[g] + 3
    <3>1. Len(<<>>) = 0
      OBVIOUS
    <3>2. \A g \in Log : written[g] <= 3 * Len(text[g]) /\ 3 * Len(text[g]) < written[g] + 3
      BY DEF CountInv, ClaudeTyped
    <3>3. \A g \in Log : (text'[g] = <<>> /\ written'[g] = 0) \/ (text'[g] = text[g] /\ written'[g] = written[g])
      BY <1>2
    <3> QED
      BY <3>1, <3>2, <3>3
  <2> QED
    BY <1>1, <1>2, <2>1 DEF CountInv, ClaudeTyped, Deduper, Boundary
<1> QED
  BY <1>1, <1>3, <1>4, <1>5, <1>6, <1>7 DEF CountInv, PassTyped, KnownTold

\* The first event of a source in a batch.
FirstOf(list, s) == SelectInSeq(list, LAMBDA x : x.source = s)

LEMMA FirstIs ==
  ASSUME NEW list \in Seq(Candidates), NEW s
  PROVE  /\ FirstOf(list, s) # 0 <=> s \in Sources(list)
         /\ FirstOf(list, s) # 0 => list[FirstOf(list, s)] \in Candidates
<1> DEFINE I == {k \in 1 .. Len(list) : list[k].source = s}
<1>1. PICK i : i = FirstOf(list, s)
  OBVIOUS
<1>2. i = IF I # {} THEN Min(I) ELSE 0
  BY <1>1 DEF SelectInSeq, FirstOf
<1>3. I # {} <=> s \in Sources(list)
  BY DEF Sources
<1>4. I # {} => Min(I) \in I
  <2>1. I \in SUBSET Nat
    OBVIOUS
  <2> HIDE DEF I
  <2>2. I # {} => \E b \in I : \A k \in I : b <= k
    BY <2>1, LeastOf
  <2> QED
    BY <2>2 DEF Min
<1>5. \A k \in I : k # 0 /\ list[k] \in Candidates
  OBVIOUS
<1> HIDE DEF I
<1>6. (i # 0 <=> s \in Sources(list)) /\ (i # 0 => list[i] \in Candidates)
  BY <1>2, <1>3, <1>4, <1>5
<1> QED
  BY <1>1, <1>6

LEMMA CutSources ==
  ASSUME NEW list \in Seq(Candidates), NEW n \in Nat, n <= Len(list)
  PROVE  /\ SubSeq(list, 1, n) \in Seq(Candidates) /\ SubSeq(list, n + 1, Len(list)) \in Seq(Candidates)
         /\ Sources(list) = Sources(SubSeq(list, 1, n)) \cup Sources(SubSeq(list, n + 1, Len(list)))
<1>1. PICK m \in Nat : m = Len(list) /\ DOMAIN list = 1 .. m
  OBVIOUS
<1>2. PICK front, rest : front = SubSeq(list, 1, n) /\ rest = SubSeq(list, n + 1, m)
  OBVIOUS
<1>3. /\ front \in Seq(Candidates) /\ DOMAIN front = 1 .. n /\ \A i \in 1 .. n : front[i] = list[i]
  BY <1>1, <1>2
<1>4. PICK k \in Nat : k = m - n
  <2>1. n <= m
    BY <1>1
  <2> QED
    BY <2>1
<1>5. /\ rest \in Seq(Candidates) /\ DOMAIN rest = 1 .. k /\ \A i \in 1 .. k : rest[i] = list[i + n]
  BY <1>1, <1>2, <1>4
<1>6. Sources(list) = Sources(front) \cup Sources(rest)
  <2>1. n <= m /\ m = n + k
    BY <1>1, <1>4
  <2>2. /\ \A i \in 1 .. n : i \in 1 .. m
        /\ \A i \in 1 .. k : i + n \in 1 .. m
        /\ \A i \in 1 .. m : i \in 1 .. n \/ (i - n \in 1 .. k /\ i - n + n = i)
    BY <2>1
  <2>3. /\ Sources(list) = {list[i].source : i \in 1 .. m}
        /\ Sources(front) = {front[i].source : i \in 1 .. n} /\ Sources(rest) = {rest[i].source : i \in 1 .. k}
    BY <1>1, <1>3, <1>5 DEF Sources
  <2>4. \A i \in 1 .. n : front[i].source \in Sources(list)
    BY <1>3, <2>2, <2>3
  <2>5. \A i \in 1 .. k : rest[i].source \in Sources(list)
    BY <1>5, <2>2, <2>3
  <2>6. ASSUME NEW i \in 1 .. m PROVE list[i].source \in Sources(front) \cup Sources(rest)
    <3>1. CASE i \in 1 .. n
      BY <1>3, <2>3, <3>1
    <3>2. CASE i - n \in 1 .. k /\ i - n + n = i
      <4>1. rest[i - n] = list[i]
        BY <1>5, <3>2
      <4> QED
        BY <2>3, <3>2, <4>1
    <3> QED
      BY <2>2, <3>1, <3>2
  <2>7. Sources(front) \subseteq Sources(list) /\ Sources(rest) \subseteq Sources(list)
    BY <2>3, <2>4, <2>5
  <2>8. Sources(list) \subseteq Sources(front) \cup Sources(rest)
    BY <2>3, <2>6
  <2> QED
    BY <2>7, <2>8
<1> QED
  BY <1>1, <1>2, <1>3, <1>5, <1>6

\* A transaction stores what it takes off the queue, or it is known lost.
LEMMA BatchCounts ==
  ASSUME CountInv, NEW n \in 1 .. Len(sent), WriteBatch(n)
  PROVE  CountInv'
<1>1. UNCHANGED <<text, written, old, seen, firstDone, byUUID, pass, done, masked, excused>>
  BY DEF WriteBatch, diskVars
<1>2. sent \in Seq(Candidates) /\ n \in Nat /\ n <= Len(sent)
  BY DEF CountInv, ClaudeTyped
<1>3. PICK batch, rest : batch = SubSeq(sent, 1, n) /\ rest = SubSeq(sent, n + 1, Len(sent))
  OBVIOUS
<1>4. batch \in Seq(Candidates) /\ rest \in Seq(Candidates) /\ Sources(sent) = Sources(batch) \cup Sources(rest)
  BY <1>2, <1>3, CutSources
<1>5. sent' = rest
  BY <1>3 DEF WriteBatch
<1>6. \/ /\ rows' \in [Source -> Nat \cup {NoRow}] /\ lostSrc' = lostSrc /\ upsets' = upsets
         /\ \A s \in Source : rows'[s] = NoRow <=> rows[s] = NoRow /\ s \notin Sources(batch)
      \/ /\ rows' = rows /\ lostSrc' = lostSrc \cup Sources(batch) /\ upsets' \in Nat
  <2>1. CASE /\ rows' = [s \in Source |-> IF rows[s] = NoRow /\ SelectInSeq(batch, LAMBDA x : x.source = s) # 0
                                          THEN batch[SelectInSeq(batch, LAMBDA x : x.source = s)].weight
                                          ELSE rows[s]]
             /\ UNCHANGED <<lostSrc, upsets>>
    <3>1. ASSUME NEW s \in Source
          PROVE  /\ rows'[s] \in Nat \cup {NoRow}
                 /\ rows'[s] = NoRow <=> rows[s] = NoRow /\ s \notin Sources(batch)
      <4>1. PICK i : i = FirstOf(batch, s)
        OBVIOUS
      <4>2. rows'[s] = IF rows[s] = NoRow /\ i # 0 THEN batch[i].weight ELSE rows[s]
        BY <2>1, <4>1 DEF FirstOf
      <4>3. (i # 0 <=> s \in Sources(batch)) /\ (i # 0 => batch[i] \in Candidates)
        BY <1>4, <4>1, FirstIs
      <4>4. i # 0 => batch[i].weight \in Nat
        BY <4>3, WeightIs
      <4>5. rows[s] \in Nat \cup {NoRow} /\ NoRow \notin Nat
        BY ClaudeAssumption DEF CountInv, ClaudeTyped
      <4> QED
        BY <4>2, <4>3, <4>4, <4>5
    <3>2. rows' = [s \in Source |-> rows'[s]]
      BY <2>1
    <3> QED
      BY <2>1, <3>1, <3>2
  <2>2. CASE Upset /\ lostSrc' = lostSrc \cup {batch[i].source : i \in DOMAIN batch} /\ UNCHANGED rows
    BY <2>2 DEF Upset, Sources, CountInv, ClaudeTyped
  <2> QED
    BY <1>3, <2>1, <2>2 DEF WriteBatch
<1>7. Sources(batch) \subseteq Source
  BY <1>4, SourcesAre
<1>8. PICK K : K = IF pass.pc = "read" THEN Sources(pass.events) ELSE {}
  OBVIOUS
<1>9. /\ Counted = {s \in Source : rows[s] # NoRow} \cup lostSrc \cup Sources(sent) \cup K
      /\ Counted' = {s \in Source : rows'[s] # NoRow} \cup lostSrc' \cup Sources(sent') \cup K
  BY <1>1, <1>8 DEF Counted, Sources
<1>10. Counted \subseteq Counted'
  BY <1>4, <1>5, <1>6, <1>7, <1>9
<1>11. Exchanged(Counted, Counted')
  BY <1>10, ExchangedMore
<1>12. SeenTold' /\ KnownTold'
  BY <1>1, <1>11, KeepsTold DEF CountInv
<1>13. ReadTold'
  <2>1. ASSUME pass.pc = "read", ~done, pass.file \notin masked
        PROVE  Below(text[pass.file], pass.file, pass.off, Counted')
    <3>1. pass.file \in Log /\ text[pass.file] \in Seq(Line)
      BY <2>1, PassIs DEF CountInv, ClaudeTyped, Reading
    <3>2. Below(text[pass.file], pass.file, pass.off, Counted)
      BY <2>1 DEF CountInv, ReadTold
    <3> QED
      BY <1>11, <3>1, <3>2, BelowKept
  <2> QED
    BY <1>1, <2>1 DEF CountInv, ReadTold
<1>14. ClaudeTyped'
  <2>1. rows' \in [Source -> Nat \cup {NoRow}] /\ lostSrc' \in SUBSET Source /\ upsets' \in Nat
    BY <1>6, <1>7 DEF CountInv, ClaudeTyped
  <2> QED
    BY <1>1, <1>4, <1>5, <2>1 DEF CountInv, ClaudeTyped, Deduper, Boundary
<1> QED
  BY <1>1, <1>12, <1>13, <1>14 DEF CountInv, PassTyped, GotTold

\* A line is read: what the deduplicator withdraws is a replay of the line.
LEMMA ReadCounts ==
  ASSUME CountInv, ReadOne
  PROVE  CountInv'
<1>1. pass \in Reading
  BY PassIs DEF CountInv, ReadOne
<1>2. PICK f \in Log, jobs \in SUBSET Log, off \in Nat, n \in Nat, eof \in BOOLEAN, events \in Seq(Candidates) :
        pass = [pc |-> "read", file |-> f, jobs |-> jobs, off |-> off, n |-> n, eof |-> eof, events |-> events]
  BY <1>1 DEF Reading
<1>3. /\ pass.pc = "read" /\ pass.file = f /\ pass.jobs = jobs /\ pass.off = off /\ pass.n = n /\ pass.eof = eof
      /\ pass.events = events
  BY <1>2
<1>4. PICK r : r = ReadLine(text[f], written[f], off)
  OBVIOUS
<1>5. PICK before : before = [by |-> byUUID, events |-> events, gone |-> {}]
  OBVIOUS
<1>6. PICK after : after = IF r.parsed /\ r.line.kind = "usage" THEN DedupAppend(before, f, r.line) ELSE before
  OBVIOUS
<1>7. PICK moved : moved = {s \in after.gone : \E i \in DOMAIN sent : sent[i].source = s}
  OBVIOUS
<1>8. /\ byUUID' = after.by
      /\ pass' = [pass EXCEPT !.off = r.to, !.n = @ + 1, !.eof = r.eof, !.events = after.events]
      /\ \/ /\ rows' = [s \in Source |-> IF s \in after.gone THEN NoRow ELSE rows[s]]
            /\ excused' = excused \cup moved
            /\ UNCHANGED upsets
         \/ /\ after.gone # {} /\ Upset
            /\ excused' = excused \cup after.gone
            /\ UNCHANGED rows
  BY <1>3, <1>4, <1>5, <1>6, <1>7 DEF ReadOne
<1>9. UNCHANGED <<text, written, old, seen, firstDone, sent, done, masked, lostSrc>>
  BY DEF ReadOne, diskVars
<1>10. off < written[f] /\ text[f] \in Seq(Line) /\ written[f] \in Nat /\ written[f] <= 3 * Len(text[f])
       /\ Boundary(off) /\ Deduper(byUUID)
  <2>1. ~(off >= written[f])
    BY <1>3 DEF ReadOne, EndOfRead
  <2> QED
    BY <1>3, <2>1 DEF CountInv, ClaudeTyped, ReadTold
<1>11. /\ Boundary(r.to) /\ r.to <= written[f] /\ r.eof \in BOOLEAN /\ r.line \in Line
       /\ \A i \in DOMAIN text[f] : 3 * i - 1 <= r.to =>
            3 * i - 1 <= off \/ text[f][i].kind = "garbage" \/ (r.parsed /\ r.line = text[f][i])
  BY <1>4, <1>10, ReadLineIs
<1>12. pass' = [pc |-> "read", file |-> f, jobs |-> jobs, off |-> r.to, n |-> n + 1, eof |-> r.eof,
                events |-> after.events]
  <2>1. PICK more \in Nat : more = n + 1
    OBVIOUS
  <2>2. PICK to, end, new : to = r.to /\ end = r.eof /\ new = after.events
    OBVIOUS
  <2>3. pass' = [pass EXCEPT !.off = to, !.n = more, !.eof = end, !.events = new]
    BY <1>3, <1>8, <2>1, <2>2
  <2>4. pass' = [pc |-> "read", file |-> f, jobs |-> jobs, off |-> to, n |-> more, eof |-> end, events |-> new]
    BY <1>2, <2>3
  <2> QED
    BY <2>1, <2>2, <2>4
<1>13. /\ Deduper(after.by) /\ after.events \in Seq(Candidates)
       /\ \A s \in Sources(events) \cup after.gone :
            s \in Sources(after.events) \/ (s[3] /\ s[2] # NoUUID /\ \E t \in Sources(after.events) : t[2] = s[2])
       /\ \A u \in UUID : after.by[u] # NoCandidate =>
            byUUID[u] # NoCandidate \/ \E t \in Sources(after.events) : t[2] = u
       /\ after.gone \in SUBSET Source
       /\ (r.parsed /\ r.line.kind = "usage") =>
            \/ SourceOf(f, r.line) \in Sources(after.events)
            \/ r.line.side /\ r.line.uuid \in UUID /\ byUUID[r.line.uuid] # NoCandidate
  <2>1. CASE r.parsed /\ r.line.kind = "usage"
    <3>1. PICK by, gone : by = byUUID /\ gone = {}
      OBVIOUS
    <3>2. PICK l \in Line : l = r.line
      BY <1>11
    <3>3. after = DedupAppend([by |-> by, events |-> events, gone |-> gone], f, l)
      BY <1>5, <1>6, <2>1, <3>1, <3>2
    <3>4. Deduper(by)
      BY <1>10, <3>1
    <3>5. /\ Deduper(after.by) /\ after.events \in Seq(Candidates)
          /\ \A s \in Sources(events) \cup (after.gone \ gone) :
               \/ s \in Sources(after.events)
               \/ s[3] /\ s[2] = l.uuid /\ l.uuid # NoUUID /\ SourceOf(f, l) \in Sources(after.events)
          /\ \/ SourceOf(f, l) \in Sources(after.events)
             \/ l.side /\ l.uuid \in UUID /\ by[l.uuid] # NoCandidate
          /\ \A u \in UUID : after.by[u] # NoCandidate =>
               by[u] # NoCandidate \/ (u = l.uuid /\ SourceOf(f, l) \in Sources(after.events))
          /\ (after.gone \ gone) \subseteq Source
      BY <3>3, <3>4, DedupIs
    <3>6. SourceOf(f, l)[2] = l.uuid
      BY CandidateIs
    <3>7. after.gone \ gone = after.gone
      BY <3>1
    <3> QED
      BY <3>1, <3>2, <3>5, <3>6, <3>7
  <2>2. CASE ~(r.parsed /\ r.line.kind = "usage")
    <3>1. after = before
      BY <1>6, <2>2
    <3>2. after.by = byUUID /\ after.events = events /\ after.gone = {}
      BY <1>5, <3>1
    <3> QED
      BY <1>10, <2>2, <3>2
  <2> QED
    BY <2>1, <2>2
<1>14. pass' \in Reading /\ pass'.pc = "read" /\ pass'.file = f /\ pass'.off = r.to /\ pass'.events = after.events
  <2>1. PICK more \in Nat : more = n + 1
    OBVIOUS
  <2>2. PICK to \in Nat : to = r.to
    BY <1>11 DEF Boundary
  <2>3. PICK end \in BOOLEAN : end = r.eof
    BY <1>11
  <2>4. PICK new \in Seq(Candidates) : new = after.events
    BY <1>13
  <2>5. pass' = [pc |-> "read", file |-> f, jobs |-> jobs, off |-> to, n |-> more, eof |-> end, events |-> new]
    BY <1>12, <2>1, <2>2, <2>3, <2>4
  <2> QED
    BY <2>2, <2>3, <2>4, <2>5 DEF Reading
<1>15. PICK K : K = lostSrc \cup Sources(sent)
  OBVIOUS
<1>16. /\ Counted = {s \in Source : rows[s] # NoRow} \cup K \cup Sources(events)
       /\ Counted' = {s \in Source : rows'[s] # NoRow} \cup K \cup Sources(after.events)
  BY <1>3, <1>9, <1>14, <1>15 DEF Counted, Sources
<1>17. \A s \in Source : rows[s] # NoRow => rows'[s] # NoRow \/ s \in after.gone
  BY <1>8
<1>18. Exchanged(Counted, Counted')
  <2>1. ASSUME NEW s \in Counted
        PROVE  s \in Counted' \/ (s[3] /\ s[2] # NoUUID /\ \E t \in Counted' : t[2] = s[2])
    BY <1>13, <1>16, <1>17, <2>1
  <2> QED
    BY <2>1 DEF Exchanged
<1>19. SeenTold'
  <2>1. ASSUME NEW g \in Log, g \notin masked
        PROVE  seen[g] <= written[g] /\ (~done => Below(text[g], g, seen[g], Counted'))
    <3>1. text[g] \in Seq(Line) /\ seen[g] <= written[g] /\ (~done => Below(text[g], g, seen[g], Counted))
      BY <2>1 DEF CountInv, ClaudeTyped, SeenTold
    <3> QED
      BY <1>18, <3>1, BelowKept
  <2> QED
    BY <1>9, <2>1 DEF SeenTold
<1>20. ASSUME NEW u \in UUID, byUUID[u] # NoCandidate PROVE \E t \in Counted' : t[2] = u
  <2>1. PICK s \in Counted : s[2] = u
    BY <1>20 DEF CountInv, KnownTold
  <2> QED
    BY <1>18, <2>1 DEF Exchanged
<1>21. KnownTold'
  <2>1. \A u \in UUID : after.by[u] # NoCandidate => \E t \in Counted' : t[2] = u
    BY <1>13, <1>16, <1>20
  <2> QED
    BY <1>8, <2>1 DEF KnownTold
<1>22. ASSUME f \notin masked, ~done PROVE Below(text[f], f, r.to, Counted')
  <2>1. Below(text[f], f, off, Counted)
    BY <1>3, <1>22 DEF CountInv, ReadTold
  <2>2. Below(text[f], f, off, Counted')
    BY <1>10, <1>18, <2>1, BelowKept
  <2>3. (r.parsed /\ r.line.kind = "usage") => Told(f, r.line, Counted')
    BY <1>13, <1>16, <1>20, CandidateIs DEF Told
  <2>4. ASSUME NEW i \in DOMAIN text[f], text[f][i].kind = "usage", 3 * i - 1 <= r.to
        PROVE  Told(f, text[f][i], Counted')
    BY <1>11, <2>2, <2>3, <2>4 DEF Below
  <2> QED
    BY <2>4 DEF Below
<1>23. ReadTold'
  BY <1>9, <1>11, <1>14, <1>22 DEF ReadTold
<1>24. ClaudeTyped'
  <2>1. rows' \in [Source -> Nat \cup {NoRow}] /\ upsets' \in Nat
    BY <1>8 DEF CountInv, ClaudeTyped, Upset
  <2>2. excused' \in SUBSET Source
    BY <1>7, <1>8, <1>13 DEF CountInv, ClaudeTyped
  <2> QED
    BY <1>8, <1>9, <1>13, <2>1, <2>2 DEF CountInv, ClaudeTyped
<1>25. GotTold'
  BY <1>14 DEF GotTold
<1> QED
  BY <1>14, <1>19, <1>21, <1>23, <1>24, <1>25 DEF CountInv, PassTyped

-----------------------------------------------------------------------------

LEMMA CountStarts ==
  ASSUME ClaudeInit
  PROVE  CountInv
<1>1. /\ text = [f \in Log |-> <<>>] /\ written = [f \in Log |-> 0] /\ old = {} /\ seen = [f \in Log |-> 0]
      /\ firstDone = FALSE /\ byUUID = [u \in UUID |-> NoCandidate] /\ pass = Resting /\ sent = <<>>
      /\ rows = [s \in Source |-> NoRow] /\ done = FALSE /\ masked = {} /\ excused = {} /\ lostSrc = {} /\ upsets = 0
  BY DEF ClaudeInit
<1>2. pass.pc = "idle"
  BY <1>1 DEF Resting
<1>3. <<>> \in Seq(Candidates) /\ <<>> \in Seq(Line) /\ Len(<<>>) = 0
  OBVIOUS
<1>4. Deduper(byUUID) /\ \A u \in UUID : byUUID[u] = NoCandidate
  BY <1>1 DEF Deduper
<1>5. \A f \in Log : Below(text[f], f, 0, Counted)
  BY <1>1, <1>3, BelowStart
<1>6. ClaudeTyped
  <2>1. text \in [Log -> Seq(Line)] /\ written \in [Log -> Nat] /\ rows \in [Source -> Nat \cup {NoRow}]
    BY <1>1, <1>3
  <2>2. seen \in [Log -> Nat] /\ \A f \in Log : Boundary(seen[f])
    BY <1>1 DEF Boundary
  <2>3. \A f \in Log : written[f] <= 3 * Len(text[f]) /\ 3 * Len(text[f]) < written[f] + 3
    BY <1>1, <1>3
  <2> QED
    BY <1>1, <1>3, <1>4, <2>1, <2>2, <2>3 DEF ClaudeTyped
<1> QED
  BY <1>1, <1>2, <1>4, <1>5, <1>6 DEF CountInv, PassTyped, SeenTold, ReadTold, GotTold, KnownTold

LEMMA CountKept ==
  ASSUME CountInv, ClaudeNext
  PROVE  CountInv'
<1>1. CASE PollClaude
  BY <1>1, TickCounts, CollectCounts, TakeCounts, ScanEndCounts, OpenCounts, ReadCounts, FinishCounts
  DEF PollClaude
<1>2. CASE \E n \in 1 .. Len(sent) : WriteBatch(n)
  BY <1>2, BatchCounts
<1>3. CASE StopClaude \/ RestartClaude
  BY <1>3, StopCounts, RestartCounts
<1>4. CASE \E f \in Log : WriteLine(f) \/ TruncateLog(f) \/ AgeLog(f)
  BY <1>4, WriteLineCounts, TruncateCounts, AgeCounts
<1> QED
  BY <1>1, <1>2, <1>3, <1>4 DEF ClaudeNext

LEMMA CountMeans ==
  ASSUME CountInv
  PROVE  CommittedIsCounted
<1>1. SUFFICES ASSUME NEW f \in Log, f \notin masked, NEW i \in DOMAIN text[f], ~done,
                      text[f][i].kind = "usage", 3 * i - 1 <= seen[f]
               PROVE  Told(f, text[f][i], Counted)
  BY DEF CommittedIsCounted, Told
<1> QED
  BY <1>1 DEF CountInv, SeenTold, Below

-----------------------------------------------------------------------------
(* Of the replays of a message one is left.                                *)

LEMMA NamedSources == \A s \in Source : s # <<>>
<1>1. ASSUME NEW s \in Source PROVE s # <<>>
  <2>1. PICK f \in Log, l \in Line : s = SourceOf(f, l)
    BY DEF Source
  <2>2. Candidate(f, l) \in Candidates /\ Candidate(f, l).source = s
    BY <2>1, CandidateIs
  <2> QED
    BY <2>2, CandidateIs
<1> QED
  BY <1>1

LEMMA StoredAre ==
  ASSUME ClaudeTyped
  PROVE  /\ Stored \subseteq Source
         /\ \A s \in Stored : s # <<>>
<1>1. Sources(sent) \subseteq Source
  BY SourcesAre DEF ClaudeTyped
<1>2. Stored \subseteq Source
  BY <1>1 DEF Stored
<1> QED
  BY <1>2, NamedSources

\* A step that brings no event further and teaches the deduplicator nothing.
LEMMA QuietYields ==
  ASSUME YieldInv, Stored' \ excused' \subseteq Stored \ excused, byUUID' = byUUID,
         pass'.pc = "read" => (pass' = pass /\ Stored' \subseteq Stored /\ excused' = excused) \/ pass'.events = <<>>
  PROVE  YieldInv'
<1>1. StoredSingle'
  BY DEF YieldInv, StoredSingle
<1>2. CASE pass'.pc = "read" /\ pass'.events = <<>>
  <2>1. Sources(<<>>) = {}
    BY DEF Sources
  <2>2. ReadSingle'
    BY <1>2, <2>1 DEF ReadSingle, Single
  <2> QED
    BY <1>1, <2>2 DEF YieldInv
<1>3. CASE pass'.pc = "read" /\ pass' = pass /\ Stored' \subseteq Stored /\ excused' = excused
  <2>1. ReadSingle'
    BY <1>3 DEF YieldInv, ReadSingle, Single
  <2> QED
    BY <1>1, <2>1 DEF YieldInv
<1>4. CASE pass'.pc # "read"
  BY <1>1, <1>4 DEF YieldInv, ReadSingle
<1> QED
  BY <1>2, <1>3, <1>4

LEMMA SameYields ==
  ASSUME YieldInv, UNCHANGED <<rows, sent, byUUID, excused>>,
         pass'.pc = "read" => pass' = pass \/ pass'.events = <<>>
  PROVE  YieldInv'
<1>1. Stored' = Stored
  BY DEF Stored
<1> QED
  BY <1>1, QuietYields

LEMMA ScanYields ==
  ASSUME CountInv, YieldInv,
         \/ ClaudeTick \/ FirstScanEnds \/ PassEnds
         \/ \E f \in Log : CollectOne(f) \/ OpenFile(f)
  PROVE  YieldInv'
<1>1. CASE ClaudeTick
  <2>1. pass'.pc # "read"
    BY <1>1 DEF ClaudeTick, Resting
  <2> QED
    BY <1>1, <2>1, SameYields DEF ClaudeTick
<1>2. CASE FirstScanEnds \/ PassEnds
  <2>1. pass'.pc # "read"
    BY <1>2 DEF FirstScanEnds, PassEnds, Resting
  <2> QED
    BY <1>2, <2>1, SameYields DEF FirstScanEnds, PassEnds
<1>3. ASSUME NEW f \in Log, CollectOne(f) PROVE YieldInv'
  <2>1. PassTyped' /\ pass \in Collecting
    BY <1>3, CollectCounts, PassIs DEF CountInv, CollectOne
  <2>2. pass'.pc = pass.pc
    BY <1>3, <2>1 DEF CollectOne, Collecting
  <2> QED
    BY <1>3, <2>2, SameYields DEF CollectOne
<1>4. ASSUME NEW f \in Log, OpenFile(f) PROVE YieldInv'
  <2>1. pass \in Serving
    BY <1>4, PassIs DEF CountInv, OpenFile
  <2>2. pass'.pc = "read" => pass'.events = <<>>
    <3>1. PICK jobs : pass = [pc |-> "next", jobs |-> jobs]
      BY <2>1 DEF Serving
    <3>2. PICK from : pass' = IF written[f] = from THEN [pass EXCEPT !.jobs = @ \ {f}]
                   ELSE [pc |-> "read", file |-> f, jobs |-> pass.jobs \ {f},
                         off |-> from, n |-> 0, eof |-> FALSE, events |-> <<>>]
      BY <1>4 DEF OpenFile
    <3> QED
      BY <3>1, <3>2
  <2> QED
    BY <1>4, <2>2, SameYields DEF OpenFile
<1> QED
  BY <1>1, <1>2, <1>3, <1>4

LEMMA OutsideYields ==
  ASSUME YieldInv, \/ StopClaude
                   \/ \E f \in Log : WriteLine(f) \/ TruncateLog(f) \/ AgeLog(f)
  PROVE  YieldInv'
<1>1. UNCHANGED <<rows, sent, byUUID, excused, pass>>
  BY DEF StopClaude, WriteLine, TruncateLog, AgeLog
<1> QED
  BY <1>1, SameYields

LEMMA RestartYields ==
  ASSUME CountInv, YieldInv, RestartClaude
  PROVE  YieldInv'
<1>1. /\ sent' = <<>> /\ pass' = Resting /\ rows' = rows
      /\ excused' = excused \cup {s \in Source : rows[s] # NoRow}
  BY DEF RestartClaude
<1>2. Stored' \ excused' = {}
  BY <1>1 DEF Stored, Sources
<1>3. pass'.pc # "read"
  BY <1>1 DEF Resting
<1> QED
  BY <1>2, <1>3 DEF YieldInv, StoredSingle, ReadSingle

\* The events of a first scan are excused at once.
LEMMA TakeYields ==
  ASSUME CountInv, YieldInv, NEW r, r \in pass.got, TakeResult(r)
  PROVE  YieldInv'
<1>1. pass \in Collecting
  BY PassIs DEF CountInv, TakeResult
<1>2. PICK events \in Seq(Candidates) : r.events = events
  BY <1>1 DEF Collecting, Result
<1>3. /\ sent' = (IF done THEN sent ELSE sent \o events) /\ rows' = rows /\ byUUID' = byUUID
      /\ excused' = IF done THEN excused ELSE excused \cup Sources(events)
  BY <1>2 DEF TakeResult, Sources
<1>4. ~done => Sources(sent') = Sources(sent) \cup Sources(events)
  BY <1>2, <1>3, CatenatedSources DEF CountInv, ClaudeTyped
<1>5. Stored' \ excused' \subseteq Stored \ excused
  BY <1>3, <1>4 DEF Stored
<1>6. pass'.pc # "read"
  BY <1>1 DEF TakeResult, Collecting
<1> QED
  BY <1>3, <1>5, <1>6, QuietYields

LEMMA BatchYields ==
  ASSUME CountInv, YieldInv, NEW n \in 1 .. Len(sent), WriteBatch(n)
  PROVE  YieldInv'
<1>1. UNCHANGED <<byUUID, pass, excused>>
  BY DEF WriteBatch
<1>2. sent \in Seq(Candidates) /\ n \in Nat /\ n <= Len(sent)
  BY DEF CountInv, ClaudeTyped
<1>3. PICK batch, rest : batch = SubSeq(sent, 1, n) /\ rest = SubSeq(sent, n + 1, Len(sent))
  OBVIOUS
<1>4. batch \in Seq(Candidates) /\ rest \in Seq(Candidates) /\ Sources(sent) = Sources(batch) \cup Sources(rest)
  BY <1>2, <1>3, CutSources
<1>5. sent' = rest
  BY <1>3 DEF WriteBatch
<1>6. ASSUME NEW s \in Source, rows'[s] # NoRow PROVE rows[s] # NoRow \/ s \in Sources(batch)
  <2>1. PICK i : i = FirstOf(batch, s)
    OBVIOUS
  <2>2. rows'[s] = rows[s] \/ i # 0
    BY <1>3, <1>6, <2>1 DEF WriteBatch, FirstOf
  <2>3. i # 0 => s \in Sources(batch)
    BY <1>4, <2>1, FirstIs
  <2> QED
    BY <1>6, <2>2, <2>3
<1>7. Stored' \subseteq Stored
  BY <1>4, <1>5, <1>6 DEF Stored
<1> QED
  BY <1>1, <1>7, QuietYields

LEMMA FinishYields ==
  ASSUME CountInv, YieldInv, FinishFile
  PROVE  YieldInv'
<1>1. pass \in Reading /\ pass.pc = "read"
  BY PassIs DEF CountInv, FinishFile
<1>2. PICK events \in Seq(Candidates) : pass.events = events
  BY <1>1 DEF Reading
<1>3. /\ sent' = sent \o events /\ rows' = rows /\ byUUID' = byUUID /\ excused' = excused
      /\ pass'.pc = "next"
  BY <1>2 DEF FinishFile
<1>4. Sources(sent') = Sources(sent) \cup Sources(events)
  BY <1>2, <1>3, CatenatedSources DEF CountInv, ClaudeTyped
<1>5. Stored' = Stored \cup Sources(events)
  BY <1>3, <1>4 DEF Stored
<1>6. StoredSingle'
  BY <1>1, <1>2, <1>3, <1>5 DEF YieldInv, StoredSingle, ReadSingle, Single
<1> QED
  BY <1>3, <1>6 DEF YieldInv, ReadSingle

LEMMA ReadShape ==
  ASSUME CountInv, ReadOne
  PROVE  \E f \in Log, l \in Line, events \in Seq(Candidates) : \E after :
           /\ pass.pc = "read" /\ pass.events = events
           /\ pass'.pc = "read" /\ pass'.events = after.events
           /\ byUUID' = after.by /\ sent' = sent
           /\ \/ after.by = byUUID /\ after.events = events /\ after.gone = {}
              \/ Dedups(byUUID, events, {}, after, l, Candidate(f, l))
           /\ \/ /\ rows' = [s \in Source |-> IF s \in after.gone THEN NoRow ELSE rows[s]]
                 /\ excused' = excused \cup (after.gone \cap Sources(sent))
              \/ rows' = rows /\ excused' = excused \cup after.gone
<1>1. pass \in Reading
  BY PassIs DEF CountInv, ReadOne
<1>2. PICK f \in Log, jobs \in SUBSET Log, off \in Nat, n \in Nat, eof \in BOOLEAN, events \in Seq(Candidates) :
        pass = [pc |-> "read", file |-> f, jobs |-> jobs, off |-> off, n |-> n, eof |-> eof, events |-> events]
  BY <1>1 DEF Reading
<1>3. /\ pass.pc = "read" /\ pass.file = f /\ pass.off = off /\ pass.n = n /\ pass.events = events
  BY <1>2
<1>4. PICK r : r = ReadLine(text[f], written[f], off)
  OBVIOUS
<1>5. PICK before, by : by = byUUID /\ before = [by |-> by, events |-> events, gone |-> {}]
  OBVIOUS
<1>6. PICK after : after = IF r.parsed /\ r.line.kind = "usage" THEN DedupAppend(before, f, r.line) ELSE before
  OBVIOUS
<1>7. after.gone \cap Sources(sent) = {s \in after.gone : \E i \in DOMAIN sent : sent[i].source = s}
  BY DEF Sources
<1>8. /\ byUUID' = after.by /\ sent' = sent
      /\ pass' = [pass EXCEPT !.off = r.to, !.n = @ + 1, !.eof = r.eof, !.events = after.events]
      /\ \/ /\ rows' = [s \in Source |-> IF s \in after.gone THEN NoRow ELSE rows[s]]
            /\ excused' = excused \cup (after.gone \cap Sources(sent))
         \/ rows' = rows /\ excused' = excused \cup after.gone
  BY <1>3, <1>4, <1>5, <1>6, <1>7 DEF ReadOne
<1>9. pass'.pc = "read" /\ pass'.events = after.events
  <2>1. PICK more, to, end, new : more = n + 1 /\ to = r.to /\ end = r.eof /\ new = after.events
    OBVIOUS
  <2>2. pass' = [pass EXCEPT !.off = to, !.n = more, !.eof = end, !.events = new]
    BY <1>3, <1>8, <2>1
  <2>3. pass' = [pc |-> "read", file |-> f, jobs |-> jobs, off |-> to, n |-> more, eof |-> end, events |-> new]
    BY <1>2, <2>2
  <2> QED
    BY <2>1, <2>3
<1>10. off < written[f] /\ text[f] \in Seq(Line) /\ written[f] \in Nat /\ written[f] <= 3 * Len(text[f])
       /\ Boundary(off) /\ Deduper(byUUID)
  <2>1. ~(off >= written[f])
    BY <1>3 DEF ReadOne, EndOfRead
  <2> QED
    BY <1>3, <2>1 DEF CountInv, ClaudeTyped, ReadTold
<1>11. PICK l \in Line : l = r.line
  BY <1>4, <1>10, ReadLineIs
<1>12. \/ after.by = byUUID /\ after.events = events /\ after.gone = {}
       \/ Dedups(byUUID, events, {}, after, l, Candidate(f, l))
  <2>1. CASE r.parsed /\ r.line.kind = "usage"
    <3>1. PICK gone : gone = {}
      OBVIOUS
    <3>2. after = DedupAppend([by |-> by, events |-> events, gone |-> gone], f, l)
      BY <1>5, <1>6, <1>11, <2>1, <3>1
    <3>3. Dedups(by, events, gone, after, l, Candidate(f, l))
      BY <1>5, <1>10, <3>2, DedupCases
    <3> QED
      BY <1>5, <3>1, <3>3
  <2>2. CASE ~(r.parsed /\ r.line.kind = "usage")
    BY <1>5, <1>6, <2>2
  <2> QED
    BY <2>1, <2>2
<1> QED
  BY <1>3, <1>8, <1>9, <1>12

\* The deduplicator learns a candidate of a message: before it is added, no
\* replay of the message is left, in the events or in the database.
Yielding(by, list, In, Ex) ==
  /\ \A s \in In \ Ex : Replay(s) => by[s[2]].source = s
  /\ Single(by, list)
  /\ \A s \in Sources(list) \ Ex : Replay(s) => s \notin In
Yielded(u, list, rest, In, Ex, more, excuse) ==
  /\ more \subseteq In /\ Ex \subseteq excuse
  /\ Sources(rest) \subseteq Sources(list) /\ \A t : Once(list, t) => Once(rest, t)
  /\ \A s \in Sources(rest) \cup (more \ excuse) : Replay(s) => s[2] # u

LEMMA LearnYields ==
  ASSUME NEW f \in Log, NEW l \in Line, l.uuid \in UUID,
         NEW by, Deduper(by), NEW list \in Seq(Candidates), NEW rest \in Seq(Candidates),
         NEW In, NEW Ex, NEW more, NEW excuse,
         Yielding(by, list, In, Ex), Yielded(l.uuid, list, rest, In, Ex, more, excuse)
  PROVE  Yielding([by EXCEPT ![l.uuid] = Candidate(f, l)], Append(rest, Candidate(f, l)), more, excuse)
<1>c. PICK c : c = Candidate(f, l)
  OBVIOUS
<1>1. PICK new, now : new = [by EXCEPT ![l.uuid] = c] /\ now = Append(rest, c)
  OBVIOUS
<1>0. /\ \A s \in In \ Ex : Replay(s) => by[s[2]].source = s
      /\ Single(by, list) /\ \A s \in Sources(list) \ Ex : Replay(s) => s \notin In
      /\ Sources(rest) \subseteq Sources(list) /\ \A t : Once(list, t) => Once(rest, t)
      /\ \A s \in Sources(rest) \cup (more \ excuse) : Replay(s) => s[2] # l.uuid
      /\ more \subseteq In /\ Ex \subseteq excuse
  BY DEF Yielding, Yielded
<1>2. c \in Candidates /\ c.source[2] = l.uuid
  BY <1>c, CandidateIs
<1>3. new[l.uuid] = c /\ \A u \in UUID : u # l.uuid => new[u] = by[u]
  BY <1>1 DEF Deduper
<1>4. /\ Sources(now) = Sources(rest) \cup {c.source}
      /\ c.source \notin Sources(rest) => Once(now, c.source)
      /\ \A t : t # c.source /\ Once(rest, t) => Once(now, t)
  BY <1>1, <1>2, AppendedIs
<1>5. \A s \in more \ excuse : Replay(s) => new[s[2]].source = s
  BY <1>0, <1>3 DEF Replay
<1>6. ASSUME NEW s \in Sources(now), Replay(s) PROVE new[s[2]].source = s /\ Once(now, s)
  <2>1. CASE s = c.source
    BY <1>0, <1>2, <1>3, <1>4, <1>6, <2>1
  <2>2. CASE s # c.source
    <3>1. s \in Sources(rest) /\ s \in Sources(list) /\ s[2] # l.uuid
      BY <1>0, <1>4, <1>6, <2>2
    <3>2. by[s[2]].source = s /\ Once(list, s)
      BY <1>0, <1>6, <3>1 DEF Single
    <3> QED
      BY <1>0, <1>3, <1>4, <1>6, <2>2, <3>1, <3>2 DEF Replay
  <2> QED
    BY <2>1, <2>2
<1>7. ASSUME NEW s \in Sources(now) \ excuse, Replay(s) PROVE s \notin more
  <2>1. CASE s = c.source
    BY <1>0, <1>2, <1>7, <2>1
  <2>2. CASE s # c.source
    BY <1>0, <1>4, <1>7, <2>2
  <2> QED
    BY <2>1, <2>2
<1> QED
  <2>1. Yielding(new, now, more, excuse)
    BY <1>5, <1>6, <1>7 DEF Single, Yielding
  <2> QED
    BY <1>c, <1>1, <2>1

LEMMA ReadYields ==
  ASSUME CountInv, YieldInv, ReadOne
  PROVE  YieldInv'
<1>1. PICK f \in Log, l \in Line, events \in Seq(Candidates) : \E after :
        /\ pass.pc = "read" /\ pass.events = events
        /\ pass'.pc = "read" /\ pass'.events = after.events
        /\ byUUID' = after.by /\ sent' = sent
        /\ \/ after.by = byUUID /\ after.events = events /\ after.gone = {}
           \/ Dedups(byUUID, events, {}, after, l, Candidate(f, l))
        /\ \/ /\ rows' = [s \in Source |-> IF s \in after.gone THEN NoRow ELSE rows[s]]
              /\ excused' = excused \cup (after.gone \cap Sources(sent))
           \/ rows' = rows /\ excused' = excused \cup after.gone
  BY ReadShape
<1>2. PICK after :
        /\ pass.pc = "read" /\ pass.events = events
        /\ pass'.pc = "read" /\ pass'.events = after.events
        /\ byUUID' = after.by /\ sent' = sent
        /\ \/ after.by = byUUID /\ after.events = events /\ after.gone = {}
           \/ Dedups(byUUID, events, {}, after, l, Candidate(f, l))
        /\ \/ /\ rows' = [s \in Source |-> IF s \in after.gone THEN NoRow ELSE rows[s]]
              /\ excused' = excused \cup (after.gone \cap Sources(sent))
           \/ rows' = rows /\ excused' = excused \cup after.gone
  BY <1>1
<1>3. PICK c, by, In, more :
        c = Candidate(f, l) /\ by = byUUID /\ In = Stored /\ more = Stored'
  OBVIOUS
<1>4. /\ c \in Candidates /\ c.source[2] = l.uuid /\ c.source[3] = l.side /\ c.side = l.side
      /\ (l.uuid # NoUUID => l.uuid \in UUID) /\ NoUUID \notin UUID
  BY <1>3, CandidateIs
<1>5. Deduper(by) /\ \A s \in In : s # <<>> /\ s \in Source
  BY <1>3, StoredAre DEF CountInv, ClaudeTyped
<1>y. Yielding(by, events, In, excused)
  BY <1>2, <1>3 DEF YieldInv, StoredSingle, ReadSingle, Yielding
<1>6. /\ \A s \in In \ excused : Replay(s) => by[s[2]].source = s
      /\ Single(by, events) /\ \A s \in Sources(events) \ excused : Replay(s) => s \notin In
  BY <1>y DEF Yielding
<1>7. /\ more \subseteq In /\ excused \subseteq excused'
      /\ \A s \in after.gone : s \in more => s \in excused'
  <2>1. ASSUME NEW s \in Source PROVE rows'[s] # NoRow => rows[s] # NoRow
    BY <1>2, <2>1
  <2>2. ASSUME NEW s \in after.gone, s \in more PROVE s \in excused'
    <3>1. CASE rows' = [x \in Source |-> IF x \in after.gone THEN NoRow ELSE rows[x]]
               /\ excused' = excused \cup (after.gone \cap Sources(sent))
      BY <1>2, <1>3, <2>2, <3>1 DEF Stored
    <3>2. CASE excused' = excused \cup after.gone
      BY <2>2, <3>2
    <3> QED
      BY <1>2, <3>1, <3>2
  <2> QED
    BY <1>2, <1>3, <2>1, <2>2 DEF Stored
<1>8. ASSUME Yielding(after.by, after.events, more, excused')
      PROVE  YieldInv'
  BY <1>2, <1>3, <1>8 DEF YieldInv, StoredSingle, ReadSingle, Single, Yielding
<1>9. CASE after.by = by /\ after.events = events
  BY <1>6, <1>7, <1>8, <1>9 DEF Yielding
<1>10. CASE after.by = by /\ after.events = Append(events, c) /\ (l.uuid # NoUUID => ~l.side)
  <2>1. /\ Sources(after.events) = Sources(events) \cup {c.source}
        /\ \A t : t # c.source /\ Once(events, t) => Once(after.events, t)
    BY <1>4, <1>10, AppendedIs
  <2>2. ~Replay(c.source)
    BY <1>4, <1>10 DEF Replay
  <2>3. Single(after.by, after.events)
    BY <1>6, <1>10, <2>1, <2>2 DEF Single
  <2>4. \A s \in Sources(after.events) \ excused' : Replay(s) => s \notin more
    BY <1>6, <1>7, <2>1, <2>2
  <2> QED
    BY <1>6, <1>7, <1>8, <1>10, <2>3, <2>4 DEF Yielding
<1>11. CASE /\ after.events = Append(events, c) /\ l.uuid # NoUUID
            /\ after.by = [by EXCEPT ![l.uuid] = c]
            /\ by[l.uuid] = NoCandidate \/ ~by[l.uuid].side
  <2>1. l.uuid \in UUID
    BY <1>4, <1>11
  <2>2. \A s : Replay(s) /\ s[2] = l.uuid /\ s # <<>> => by[s[2]].source # s
    BY <1>5, <1>11, <2>1, CandidateIs DEF Deduper, Replay
  <2>3. Sources(events) \subseteq Source /\ \A s \in Sources(events) : s # <<>>
    BY SourcesAre, NamedSources
  <2>4. \A s \in Sources(events) \cup (more \ excused') : Replay(s) => s[2] # l.uuid
    BY <1>5, <1>6, <1>7, <2>2, <2>3 DEF Single
  <2>5. Yielding([by EXCEPT ![l.uuid] = c], Append(events, c), more, excused')
    <3>1. PICK excuse, ex : ex = excused /\ excuse = excused' /\ excused \subseteq excuse
      BY <1>7
    <3>2. Yielded(l.uuid, events, events, In, ex, more, excuse)
      BY <1>7, <2>4, <3>1 DEF Yielded
    <3>3. Yielding(by, events, In, ex)
      BY <1>y, <3>1
    <3>4. Yielding([by EXCEPT ![l.uuid] = Candidate(f, l)], Append(events, Candidate(f, l)), more, excuse)
      BY <1>5, <2>1, <3>2, <3>3, LearnYields
    <3> QED
      BY <1>3, <3>1, <3>4
  <2> QED
    BY <1>8, <1>11, <2>5
<1>12. CASE Replaces(by, events, after, l, c)
  <2>1. PICK e : e = by[l.uuid]
    OBVIOUS
  <2>2. /\ l.uuid \in UUID /\ e # NoCandidate /\ e.side
        /\ after.by = [by EXCEPT ![l.uuid] = c]
        /\ after.events = Append(WithoutSource(events, e.source), c)
        /\ after.gone = IF e.source \in Sources(events) THEN {} ELSE {e.source}
    BY <1>4, <1>12, <2>1 DEF Replaces
  <2>3. PICK rest : rest = WithoutSource(events, e.source)
    OBVIOUS
  <2>4. /\ rest \in Seq(Candidates) /\ Sources(rest) \subseteq Sources(events)
        /\ Once(events, e.source) => e.source \notin Sources(rest)
        /\ \A t : Once(events, t) => Once(rest, t)
    BY <2>3, WithoutIs
  <2>5. ASSUME NEW s \in Sources(rest), Replay(s), s[2] = l.uuid PROVE FALSE
    BY <1>6, <2>1, <2>4, <2>5 DEF Single
  <2>6. ASSUME NEW s \in more, s \notin excused', Replay(s), s[2] = l.uuid PROVE FALSE
    <3>1. s \in In \ excused
      BY <1>7, <2>6
    <3>2. s = e.source
      BY <1>6, <2>1, <2>6, <3>1
    <3>3. CASE s \in Sources(events)
      BY <1>6, <2>6, <3>1, <3>3
    <3>4. CASE s \notin Sources(events)
      BY <1>7, <2>2, <2>6, <3>2, <3>4
    <3> QED
      BY <3>3, <3>4
  <2>7. Yielding([by EXCEPT ![l.uuid] = c], Append(rest, c), more, excused')
    <3>1. PICK excuse, ex : ex = excused /\ excuse = excused' /\ excused \subseteq excuse
      BY <1>7
    <3>2. Yielded(l.uuid, events, rest, In, ex, more, excuse)
      BY <1>7, <2>4, <2>5, <2>6, <3>1 DEF Yielded
    <3>3. Yielding(by, events, In, ex)
      BY <1>y, <3>1
    <3>4. Yielding([by EXCEPT ![l.uuid] = Candidate(f, l)], Append(rest, Candidate(f, l)), more, excuse)
      BY <1>5, <2>2, <2>4, <3>2, <3>3, LearnYields
    <3> QED
      BY <1>3, <3>1, <3>4
  <2> QED
    BY <1>8, <2>2, <2>3, <2>7
<1>13. CASE Dedups(by, events, {}, after, l, c)
  <2>1. CASE Drops(by, events, {}, after, l)
    BY <1>9, <2>1 DEF Drops
  <2>2. CASE Adds(by, events, {}, after, l, c)
    BY <1>10, <1>11, <2>2 DEF Adds
  <2> QED
    BY <1>12, <1>13, <2>1, <2>2 DEF Dedups
<1> QED
  BY <1>2, <1>3, <1>9, <1>13

LEMMA YieldStarts ==
  ASSUME ClaudeInit
  PROVE  YieldInv
<1>1. Stored = {} /\ pass.pc # "read"
  BY DEF ClaudeInit, Stored, Sources, Resting
<1> QED
  BY <1>1 DEF YieldInv, StoredSingle, ReadSingle

LEMMA YieldKept ==
  ASSUME CountInv, YieldInv, ClaudeNext
  PROVE  YieldInv'
<1>1. CASE PollClaude
  BY <1>1, ScanYields, TakeYields, ReadYields, FinishYields DEF PollClaude
<1>2. CASE \E n \in 1 .. Len(sent) : WriteBatch(n)
  BY <1>2, BatchYields
<1>3. CASE RestartClaude
  BY <1>3, RestartYields
<1>4. CASE StopClaude \/ \E f \in Log : WriteLine(f) \/ TruncateLog(f) \/ AgeLog(f)
  BY <1>4, OutsideYields
<1> QED
  BY <1>1, <1>2, <1>3, <1>4 DEF ClaudeNext

LEMMA YieldMeans ==
  ASSUME CountInv, YieldInv
  PROVE  ReplaysYield
<1>1. SUFFICES ASSUME NEW s \in Source, rows[s] # NoRow, s[3], s[2] \in UUID, s \notin excused
               PROVE  byUUID[s[2]].source = s
  BY DEF ReplaysYield
<1> QED
  BY <1>1 DEF YieldInv, StoredSingle, Stored, Replay

-----------------------------------------------------------------------------
(* The theorems.                                                           *)

\* A step that stutters keeps the invariants.
LEMMA ClaudeStutters ==
  ASSUME CountInv, YieldInv, UNCHANGED claudeVars
  PROVE  CountInv' /\ YieldInv'
<1>1. UNCHANGED <<text, written, old, seen, firstDone, byUUID, pass, sent, rows,
                  done, masked, excused, lostSrc, upsets>>
  BY DEF claudeVars
<1>2. Counted' = Counted
  BY <1>1 DEF Counted
<1>3. CountInv'
  BY <1>1, <1>2 DEF CountInv, ClaudeTyped, PassTyped, SeenTold, ReadTold, GotTold, KnownTold, Deduper, Boundary
<1>4. YieldInv'
  BY <1>1, SameYields
<1> QED
  BY <1>3, <1>4

\* Whatever is below a committed offset of a file was counted: no message
\* falls between two scans, and none is withdrawn but for a replay of it, for
\* all files, lines, truncations, failures and ends of the process.
THEOREM CommittedCounted == ClaudeSpec => []CommittedIsCounted
<1>1. ClaudeInit => CountInv
  BY CountStarts
<1>2. ASSUME CountInv, [ClaudeNext]_claudeVars PROVE CountInv'
  <2>1. CASE ClaudeNext
    BY <1>2, <2>1, CountKept
  <2>2. CASE UNCHANGED claudeVars
    <3>1. UNCHANGED <<text, written, old, seen, firstDone, byUUID, pass, sent, rows,
                      done, masked, excused, lostSrc, upsets>>
      BY <2>2 DEF claudeVars
    <3>2. Counted' = Counted
      BY <3>1 DEF Counted
    <3> QED
      BY <1>2, <3>1, <3>2
      DEF CountInv, ClaudeTyped, PassTyped, SeenTold, ReadTold, GotTold, KnownTold, Deduper, Boundary
  <2> QED
    BY <1>2, <2>1, <2>2
<1>3. CountInv => CommittedIsCounted
  BY CountMeans
<1> QED
  BY <1>1, <1>2, <1>3, PTL DEF ClaudeSpec

\* Of the replays of a message that the watcher can reach, token_usage holds
\* the one the deduplicator knows and no other.
THEOREM ReplaysGive == ClaudeSpec => []ReplaysYield
<1>1. ClaudeInit => CountInv /\ YieldInv
  BY CountStarts, YieldStarts
<1>2. ASSUME CountInv, YieldInv, [ClaudeNext]_claudeVars PROVE CountInv' /\ YieldInv'
  BY <1>2, CountKept, YieldKept, ClaudeStutters
<1>3. CountInv /\ YieldInv => ReplaysYield
  BY YieldMeans
<1> QED
  BY <1>1, <1>2, <1>3, PTL DEF ClaudeSpec

-----------------------------------------------------------------------------
(* The Codex watcher: its invariant.                                       *)

CodexSpec == CodexInit /\ [][CodexNext]_codexVars

CallState == {"none", "fresh", "old"}
SessionModels == NamedModels \cup {NoModel}
RowModels == NamedModels \cup {Fallback}

IsList(x) == \E S : x \in Seq(S)

\* A usage record of p at time ts has the fallback for its model only where
\* ContextReaches lets it.
Explained(p, ts, model) ==
  (Fallback \notin NamedModels /\ model = Fallback) =>
    \E i \in DOMAIN script[p] :
      /\ script[p][i].kind \in UsageKinds /\ script[p][i].ts = ts
      /\ \A j \in 1 .. i - 1 : script[p][j].kind = "context" => script[p][j].model = NoModel

\* An event read from p.
UsageOf(p, e) ==
  /\ e = [type |-> "usage", id |-> e.id, n |-> e.n, model |-> e.model, ts |-> e.ts]
  /\ e.n \in Nat /\ e.model \in RowModels \ {NoModel} /\ Explained(p, e.ts, e.model)
Sound(p, e) ==
  /\ e.type = "usage" => UsageOf(p, e)
  /\ e.type = "start" => e.id = SessOf[p]
  /\ e.type = "change" => e.id \in CallId

Changes(T) == {e.id : e \in {x \in T : x.type = "change"}}
Starting(T) == \E e \in T : e.type = "start"

\* Line i of p is below an offset.
Past(i, off) == 3 * i - 1 <= off

\* A context below the offset has given the session a model.
Contexted(p, off, model) ==
  \A i \in DOMAIN script[p] :
    (Past(i, off) /\ script[p][i].kind = "context" /\ script[p][i].model # NoModel) => model # NoModel
\* A call below the offset is pending or settled, and one with its output is settled.
CallsKept(p, off, calls, K) ==
  \A i \in DOMAIN script[p] :
    (Past(i, off) /\ script[p][i].kind = "call") =>
      calls[script[p][i].id] # "none" \/ script[p][i].id \in K
OutputsKept(p, off, K) ==
  \A i \in DOMAIN script[p] : \A j \in 1 .. i - 1 :
    (/\ Past(i, off) /\ script[p][i].kind = "output"
     /\ script[p][j].kind = "call" /\ script[p][j].id = script[p][i].id) => script[p][i].id \in K
\* A session_meta between two offsets is among the events T.
MetaKept(p, from, off, T) ==
  \A i \in DOMAIN script[p] :
    (Past(i, off) /\ ~Past(i, from) /\ script[p][i].kind = "meta") => Starting(T)

\* What has been read of p from one offset to another, K being settled before.
HasRead(p, from, off, model, calls, T, K) ==
  /\ Boundary(off) /\ from <= off /\ off <= 3 * Len(script[p])
  /\ model \in SessionModels /\ calls \in [CallId -> CallState]
  /\ \A e \in T : Sound(p, e)
  /\ Contexted(p, off, model)
  /\ CallsKept(p, off, calls, K \cup Changes(T))
  /\ OutputsKept(p, off, K \cup Changes(T))
  /\ MetaKept(p, from, off, T)
  /\ T # {} => from < off

CodexTyped ==
  /\ script \in Scenarios
  /\ grown \in [Rollout -> Nat] /\ \A p \in Rollout : grown[p] <= 3 * Len(script[p])
  /\ where \in [Rollout -> {"recent", "far", "gone"}]
  /\ codexSeen \in [Rollout -> Nat \cup {Unseen}]
  /\ \A p \in Rollout : codexSeen[p] # Unseen => Boundary(codexSeen[p]) /\ codexSeen[p] <= 3 * Len(script[p])
  /\ discovered \in BOOLEAN /\ codexDone \in BOOLEAN
  /\ models \in [Session -> SessionModels]
  /\ pendingCalls \in [CallId -> CallState]
  /\ pendingStarts \in SUBSET Session
  /\ scanCount \in 0 .. GcInterval - 1
  /\ started \in SUBSET Session /\ active \in SUBSET Session
  /\ changed \in SUBSET CallId /\ collected \in SUBSET CallId
  /\ codexTrouble \in 0 .. CodexUpsets

\* What the polling goroutine holds; the first scan finds nothing known.
Found(r) ==
  /\ r.path \in Rollout /\ IsList(r.events)
  /\ HasRead(r.path, 0, r.off, r.model, r.calls, ToSet(r.events), FailedCalls)
CodexPassKept ==
  \/ codexPass = Idling /\ (~discovered => \A p \in Rollout : codexSeen[p] = Unseen)
  \/ /\ codexPass.pc = "collect"
     /\ codexPass = [pc |-> "collect", got |-> codexPass.got, todo |-> codexPass.todo]
     /\ codexPass.todo \in SUBSET Rollout
     /\ \A r \in codexPass.got : Found(r)
     /\ ~discovered /\ (codexPass.todo # {} => \A p \in Rollout : codexSeen[p] = Unseen)
  \/ /\ codexPass.pc \in {"known", "recent"}
     /\ codexPass = [pc |-> codexPass.pc, todo |-> codexPass.todo]
     /\ codexPass.todo \in SUBSET Rollout /\ discovered

\* What is below the offset of a file is not forgotten.
Settled == changed \cup collected \cup FailedCalls
SeenKept(p) ==
  codexSeen[p] # Unseen =>
    /\ Contexted(p, codexSeen[p], models[SessOf[p]])
    /\ ~codexDone =>
         /\ CallsKept(p, codexSeen[p], pendingCalls, Settled)
         /\ OutputsKept(p, codexSeen[p], Settled)
         /\ BeginsWithMeta(SessOf[p]) /\ 2 <= codexSeen[p] => SessOf[p] \in pendingStarts \cup started

RowsKept ==
  \A r \in usageRows :
    /\ r.path \in Rollout /\ r.n \in Nat /\ r.model \in RowModels \ {NoModel}
    /\ Explained(r.path, r.ts, r.model)
StartsKept == \A s \in active : BeginsWithMeta(s) => s \in started

CodexInv ==
  /\ CodexTyped /\ CodexPassKept /\ RowsKept /\ StartsKept
  /\ \A p \in Rollout : SeenKept(p)

-----------------------------------------------------------------------------
(* Codex: lines and lists.                                                 *)

\* What ReadBytes and the parser give at o: a whole entry, or none but garbage.
EntryRead(txt, o, size, r) ==
  /\ Boundary(r.to) /\ o <= r.to /\ r.to <= size
  /\ r.eof \in BOOLEAN /\ r.parsed \in BOOLEAN
  /\ ~r.parsed => \A i \in DOMAIN txt : Past(i, r.to) => Past(i, o) \/ txt[i].kind = "garbage"
  /\ r.parsed => /\ o < r.to
                 /\ \E i \in DOMAIN txt : /\ r.line = txt[i]
                                          /\ \A j \in DOMAIN txt : Past(j, r.to) <=> j <= i
                                          /\ \A j \in DOMAIN txt : Past(j, o) <=> j < i

LEMMA EntryReadIs ==
  ASSUME NEW S, NEW txt \in Seq(S), NEW size \in Nat, size <= 3 * Len(txt),
         NEW o, Boundary(o), o < size
  PROVE  EntryRead(txt, o, size, ReadLine(txt, size, o))
<1>1. o \in Nat /\ Len(txt) \in Nat /\ DOMAIN txt = 1 .. Len(txt)
  BY DEF Boundary
<1>2. PICK k \in Nat : o \div 3 = k /\ ((o = 3 * k /\ o % 3 = 0) \/ (o = 3 * k + 2 /\ o % 3 = 2))
  BY <1>1, Thirds DEF Boundary
<1>3. LineAt(o) = k + 1 /\ k + 1 \in DOMAIN txt
  BY <1>1, <1>2 DEF LineAt
<1>4. PICK parsed \in BOOLEAN :
        parsed <=> (o % 3 = 0 /\ size >= 3 * (k + 1) - 1 /\ txt[k + 1].kind # "garbage")
  OBVIOUS
<1>5. PICK ended \in BOOLEAN : ended <=> size >= 3 * (k + 1)
  OBVIOUS
<1>6. PICK to : to = IF ended THEN 3 * (k + 1) ELSE IF parsed THEN 3 * (k + 1) - 1 ELSE o
  OBVIOUS
<1>a. PICK r : r = ReadLine(txt, size, o)
  OBVIOUS
<1>7. r.to = to /\ (r.parsed <=> parsed) /\ r.line = txt[k + 1] /\ (r.eof <=> ~ended)
  BY <1>3, <1>4, <1>5, <1>6, <1>a DEF ReadLine
<1>8. r.parsed \in BOOLEAN /\ r.eof \in BOOLEAN
  BY <1>a DEF ReadLine
<1>9. Boundary(to) /\ o <= to /\ to <= size
  <2>1. (3 * (k + 1)) % 3 = 0 /\ (3 * (k + 1) - 1) % 3 = 2
    OBVIOUS
  <2> QED
    BY <1>2, <1>4, <1>5, <1>6, <2>1 DEF Boundary
<1>10. ASSUME ~parsed, NEW i \in DOMAIN txt, Past(i, to), ~Past(i, o)
       PROVE  txt[i].kind = "garbage"
  <2>1. i \in Nat /\ to = 3 * (k + 1) /\ 3 * k <= o /\ size >= 3 * (k + 1)
    BY <1>1, <1>2, <1>5, <1>6, <1>10
  <2>2. i = k + 1 /\ o = 3 * k
    BY <1>2, <1>10, <2>1 DEF Past
  <2> QED
    BY <1>2, <1>4, <1>10, <2>1, <2>2
<1>11. ASSUME parsed, NEW j \in DOMAIN txt
       PROVE  o < to /\ (Past(j, to) <=> j <= k + 1) /\ (Past(j, o) <=> j < k + 1)
  <2>1. j \in Nat /\ o = 3 * k /\ (to = 3 * (k + 1) \/ to = 3 * (k + 1) - 1)
    BY <1>1, <1>2, <1>4, <1>6, <1>11
  <2> QED
    BY <2>1 DEF Past
<1>12. EntryRead(txt, o, size, r)
  BY <1>3, <1>7, <1>8, <1>9, <1>10, <1>11 DEF EntryRead
<1> QED
  BY <1>a, <1>12

LEMMA ListIs ==
  ASSUME NEW x, IsList(x)
  PROVE  \E n \in Nat : DOMAIN x = 1 .. n /\ Len(x) = n /\ ToSet(x) = {x[i] : i \in 1 .. n}
<1>1. PICK S : x \in Seq(S)
  BY DEF IsList
<1> QED
  BY <1>1 DEF ToSet

LEMMA WiderSeq ==
  ASSUME NEW A, NEW B, A \subseteq B, NEW x \in Seq(A)
  PROVE  x \in Seq(B)
<1>1. Len(x) \in Nat /\ x \in [1 .. Len(x) -> A]
  OBVIOUS
<1>2. x \in [1 .. Len(x) -> B]
  BY <1>1
<1> QED
  BY <1>1, <1>2

LEMMA JoinedLists ==
  ASSUME NEW x, NEW y, IsList(x), IsList(y)
  PROVE  IsList(x \o y) /\ ToSet(x \o y) = ToSet(x) \cup ToSet(y)
<1>1. PICK A, B : x \in Seq(A) /\ y \in Seq(B)
  BY DEF IsList
<1>2. PICK S : S = A \cup B
  OBVIOUS
<1>3. x \in Seq(S) /\ y \in Seq(S)
  BY <1>1, <1>2, WiderSeq
<1>4. PICK m \in Nat, n \in Nat : m = Len(x) /\ n = Len(y)
  BY <1>3
<1>5. PICK z : z = x \o y
  OBVIOUS
<1>6. Catenates(z, S, x, y, m, n)
  BY <1>3, <1>4, <1>5, CatenatedIs
<1>7. z \in Seq(S) /\ DOMAIN z = 1 .. m + n /\ DOMAIN x = 1 .. m /\ DOMAIN y = 1 .. n
  BY <1>6 DEF Catenates
<1>8. ASSUME NEW i \in 1 .. m PROVE i \in 1 .. m + n /\ z[i] = x[i]
  BY <1>6 DEF Catenates
<1>9. ASSUME NEW i \in 1 .. n PROVE m + i \in 1 .. m + n /\ z[m + i] = y[i]
  BY <1>6 DEF Catenates
<1>10. ASSUME NEW i \in 1 .. m + n
       PROVE  (i \in 1 .. m /\ z[i] = x[i]) \/ (i - m \in 1 .. n /\ z[i] = y[i - m])
  BY <1>6 DEF Catenates
<1>11. ToSet(z) = ToSet(x) \cup ToSet(y)
  <2>1. /\ ToSet(z) = {z[i] : i \in 1 .. m + n}
        /\ ToSet(x) = {x[i] : i \in 1 .. m} /\ ToSet(y) = {y[i] : i \in 1 .. n}
    BY <1>7 DEF ToSet
  <2>2. ASSUME NEW e \in ToSet(x) \cup ToSet(y) PROVE e \in ToSet(z)
    <3>1. CASE e \in ToSet(x)
      <4>1. PICK i \in 1 .. m : e = x[i]
        BY <2>1, <3>1
      <4> QED
        BY <1>8, <2>1, <4>1
    <3>2. CASE e \in ToSet(y)
      <4>1. PICK i \in 1 .. n : e = y[i]
        BY <2>1, <3>2
      <4> QED
        BY <1>9, <2>1, <4>1
    <3> QED
      BY <2>2, <3>1, <3>2
  <2>3. ASSUME NEW e \in ToSet(z) PROVE e \in ToSet(x) \cup ToSet(y)
    <3>1. PICK i \in 1 .. m + n : e = z[i]
      BY <2>1, <2>3
    <3>2. CASE i \in 1 .. m /\ z[i] = x[i]
      BY <2>1, <3>1, <3>2
    <3>3. CASE i - m \in 1 .. n /\ z[i] = y[i - m]
      BY <2>1, <3>1, <3>3
    <3> QED
      BY <1>10, <3>2, <3>3
  <2> QED
    BY <2>2, <2>3
<1> QED
  BY <1>5, <1>7, <1>11 DEF IsList

LEMMA ShortLists ==
  /\ IsList(<<>>) /\ ToSet(<<>>) = {}
  /\ \A e : IsList(<<e>>) /\ ToSet(<<e>>) = {e}
  /\ \A e, f : IsList(<<e, f>>) /\ ToSet(<<e, f>>) = {e, f}
<1>1. <<>> \in Seq({}) /\ ToSet(<<>>) = {}
  BY DEF ToSet
<1>2. ASSUME NEW e PROVE <<e>> \in Seq({e}) /\ ToSet(<<e>>) = {e}
  BY DEF ToSet
<1>3. ASSUME NEW e, NEW f PROVE <<e, f>> \in Seq({e, f}) /\ ToSet(<<e, f>>) = {e, f}
  BY DEF ToSet
<1> QED
  BY <1>1, <1>2, <1>3 DEF IsList

-----------------------------------------------------------------------------
(* What one entry adds.                                                    *)

UsageFrom(l, sess, model, previous) ==
  CASE l.kind = "total" -> TotalUsage(l, model, previous)
    [] l.kind = "last" -> LastUsage(l, sess, model)
    [] l.kind = "exec" -> ExecUsage(l, sess, model)
    [] OTHER -> <<>>
CallsAfter(l, calls) ==
  CASE l.kind = "call" -> [calls EXCEPT ![l.id] = "fresh"]
    [] l.kind = "output" -> [calls EXCEPT ![l.id] = "none"]
    [] OTHER -> calls
Reworked(l, events, model) == IF l.kind = "context" THEN Annotated(events, model) ELSE events
EventsAfter(p, l, model, previous, calls, events) ==
  Reworked(l, events, model) \o UsageFrom(l, SessOf[p], model, previous)
    \o OtherEvents(l, SessOf[p]) \o ChangeEvents(l, calls)

LEMMA EntryIs ==
  ASSUME script \in Scenarios, NEW p \in Rollout
  PROVE  /\ script[p] \in Seq(AllLines) /\ Len(script[p]) \in Nat
         /\ DOMAIN script[p] = 1 .. Len(script[p])
         /\ \A i \in DOMAIN script[p] :
              /\ script[p][i] \in AllLines
              /\ script[p][i].kind \in UsageKinds \cup {"context"} => script[p][i].model \in NamedModels
<1>1. script[p] \in Seq(AllLines)
  BY CodexAssumption
<1>2. \A l \in AllLines : l.kind \in UsageKinds \cup {"context"} => l.model \in NamedModels
  BY DEF NamedModels
<1> QED
  BY <1>1, <1>2

LEMMA ModelIs ==
  ASSUME NEW l \in AllLines, NEW model \in SessionModels
  PROVE  /\ ContextModel(l, model) \in SessionModels
         /\ model # NoModel => ContextModel(l, model) # NoModel
         /\ l.kind = "context" /\ l.model # NoModel => ContextModel(l, model) # NoModel
         /\ l.kind # "context" => ContextModel(l, model) = model
<1>1. l.kind = "context" => l.model \in NamedModels
  BY DEF NamedModels
<1> QED
  BY <1>1 DEF ContextModel, SessionModels

\* The model of a usage record.
LEMMA UsageMade ==
  ASSUME script \in Scenarios, NEW p \in Rollout, NEW i \in DOMAIN script[p], NEW l, l = script[p][i],
         l.kind \in UsageKinds, NEW model \in SessionModels,
         \A j \in 1 .. i - 1 :
           (script[p][j].kind = "context" /\ script[p][j].model # NoModel) => model # NoModel,
         NEW id, NEW n \in Nat
  PROVE  \E e : /\ Usage(l, id, n, EventModel(model, l.model)) = <<e>>
                /\ e.type = "usage" /\ UsageOf(p, e)
<1>1. l.model \in NamedModels
  BY EntryIs
<1>2. PICK m : m = EventModel(model, l.model)
  OBVIOUS
<1>3. m \in RowModels \ {NoModel}
  BY <1>1, <1>2, CodexAssumption DEF EventModel, RowModels, SessionModels
<1>4. ASSUME Fallback \notin NamedModels, m = Fallback PROVE model = NoModel
  BY <1>1, <1>2, <1>4 DEF EventModel, SessionModels
<1>5. Explained(p, l.ts, m)
  BY <1>4 DEF Explained
<1>6. PICK e : e = [type |-> "usage", id |-> id, n |-> n, model |-> m, ts |-> l.ts]
  OBVIOUS
<1>7. Usage(l, id, n, EventModel(model, l.model)) = <<e>>
  BY <1>2, <1>6 DEF Usage
<1>8. e.type = "usage" /\ e.id = id /\ e.n = n /\ e.model = m /\ e.ts = l.ts
  BY <1>6
<1>9. UsageOf(p, e)
  BY <1>3, <1>5, <1>6, <1>8 DEF UsageOf
<1> QED
  BY <1>7, <1>8, <1>9

LEMMA UsageFromIs ==
  ASSUME script \in Scenarios, NEW p \in Rollout, NEW i \in DOMAIN script[p], NEW l, l = script[p][i],
         NEW model \in SessionModels,
         \A j \in 1 .. i - 1 :
           (script[p][j].kind = "context" /\ script[p][j].model # NoModel) => model # NoModel,
         NEW previous \in Nat
  PROVE  /\ IsList(UsageFrom(l, SessOf[p], model, previous))
         /\ \A e \in ToSet(UsageFrom(l, SessOf[p], model, previous)) : e.type = "usage" /\ UsageOf(p, e)
<1>1. l \in AllLines
  BY EntryIs
<1>2. PICK u : u = UsageFrom(l, SessOf[p], model, previous)
  OBVIOUS
<1>3. u = <<>> \/ \E n \in Nat : \E id : l.kind \in UsageKinds /\ u = Usage(l, id, n, EventModel(model, l.model))
  <2>1. CASE l.kind = "total"
    <3>1. l.total \in Nat
      BY <1>1, <2>1, CodexAssumption
    <3>2. PICK n : n = IF previous = 0 THEN l.total ELSE NonNegativeDelta(l.total, previous)
      OBVIOUS
    <3>3. n \in Nat
      BY <3>1, <3>2 DEF NonNegativeDelta
    <3>4. u = TotalUsage(l, model, previous)
      BY <1>2, <2>1 DEF UsageFrom
    <3>5. u = <<>> \/ u = Usage(l, <<"total", l.ts, EventModel(model, l.model), l.total>>, n,
                                EventModel(model, l.model))
      BY <3>2, <3>4 DEF TotalUsage
    <3> QED
      BY <2>1, <3>3, <3>5 DEF UsageKinds
  <2>2. CASE l.kind = "last"
    <3>1. l.last \in Nat
      BY <1>1, <2>2, CodexAssumption
    <3>2. u = LastUsage(l, SessOf[p], model)
      BY <1>2, <2>2 DEF UsageFrom
    <3>3. u = <<>> \/ \E id : u = Usage(l, id, l.last, EventModel(model, l.model))
      BY <3>2 DEF LastUsage
    <3> QED
      BY <2>2, <3>1, <3>3 DEF UsageKinds
  <2>3. CASE l.kind = "exec"
    <3>1. l.n \in Nat
      BY <1>1, <2>3, CodexAssumption
    <3>2. u = ExecUsage(l, SessOf[p], model)
      BY <1>2, <2>3 DEF UsageFrom
    <3>3. u = <<>> \/ \E id : u = Usage(l, id, l.n, EventModel(model, l.model))
      BY <3>2 DEF ExecUsage
    <3> QED
      BY <2>3, <3>1, <3>3 DEF UsageKinds
  <2>4. CASE l.kind \notin UsageKinds
    BY <1>2, <2>4 DEF UsageFrom, UsageKinds
  <2> QED
    BY <2>1, <2>2, <2>3, <2>4 DEF UsageKinds
<1>4. CASE u = <<>>
  BY <1>2, <1>4, ShortLists
<1>5. CASE \E n \in Nat : \E id : l.kind \in UsageKinds /\ u = Usage(l, id, n, EventModel(model, l.model))
  <2>1. PICK n \in Nat : \E id : l.kind \in UsageKinds /\ u = Usage(l, id, n, EventModel(model, l.model))
    BY <1>5
  <2>a. PICK id : l.kind \in UsageKinds /\ u = Usage(l, id, n, EventModel(model, l.model))
    BY <2>1
  <2>2. PICK e : u = <<e>> /\ e.type = "usage" /\ UsageOf(p, e)
    BY <2>a, UsageMade
  <2> QED
    BY <1>2, <2>2, ShortLists
<1> QED
  BY <1>3, <1>4, <1>5

LEMMA OtherIs ==
  ASSUME NEW l \in AllLines, NEW s
  PROVE  /\ IsList(OtherEvents(l, s))
         /\ \A e \in ToSet(OtherEvents(l, s)) :
              e.type \notin {"usage", "change"} /\ (e.type = "start" => e.id = s)
         /\ l.kind = "meta" => Starting(ToSet(OtherEvents(l, s)))
<1>1. PICK x : x = OtherEvents(l, s)
  OBVIOUS
<1>2. CASE l.kind = "meta"
  <2>1. x = <<[type |-> "start", id |-> s]>>
    BY <1>1, <1>2 DEF OtherEvents
  <2> QED
    BY <1>1, <1>2, <2>1, ShortLists DEF Starting
<1>3. CASE l.kind = "context"
  <2>1. x = <<[type |-> "update", id |-> s]>>
    BY <1>1, <1>3 DEF OtherEvents
  <2> QED
    BY <1>1, <1>3, <2>1, ShortLists
<1>4. CASE l.kind = "call"
  <2>1. x = <<[type |-> "callStart", id |-> l.id]>>
    BY <1>1, <1>4 DEF OtherEvents
  <2> QED
    BY <1>1, <1>4, <2>1, ShortLists
<1>5. CASE l.kind = "output"
  <2>1. x = <<[type |-> "callEnd", id |-> l.id]>>
    BY <1>1, <1>5 DEF OtherEvents
  <2> QED
    BY <1>1, <1>5, <2>1, ShortLists
<1>6. CASE l.kind = "patch"
  <2>1. x = <<[type |-> "callStart", id |-> l.id], [type |-> "callEnd", id |-> l.id]>>
    BY <1>1, <1>6 DEF OtherEvents
  <2> QED
    BY <1>1, <1>6, <2>1, ShortLists
<1>7. CASE l.kind \notin {"meta", "context", "call", "output", "patch"}
  <2>1. x = <<>>
    BY <1>1, <1>7 DEF OtherEvents
  <2> QED
    BY <1>1, <1>7, <2>1, ShortLists
<1> QED
  BY <1>2, <1>3, <1>4, <1>5, <1>6, <1>7

LEMMA ChangeIs ==
  ASSUME NEW l \in AllLines, NEW calls
  PROVE  /\ IsList(ChangeEvents(l, calls))
         /\ \A e \in ToSet(ChangeEvents(l, calls)) : e.type = "change" /\ e.id \in CallId
         /\ l.kind = "output" /\ l.ok /\ calls[l.id] # "none" =>
              l.id \in Changes(ToSet(ChangeEvents(l, calls)))
<1>1. PICK x : x = ChangeEvents(l, calls)
  OBVIOUS
<1>2. PICK e : e = [type |-> "change", id |-> l.id]
  OBVIOUS
<1>3. e.type = "change" /\ e.id = l.id
  BY <1>2
<1>4. CASE (l.kind = "output" /\ l.ok /\ calls[l.id] # "none") \/ (l.kind = "patch" /\ l.ok)
  <2>1. x = <<e>>
    BY <1>1, <1>2, <1>4 DEF ChangeEvents
  <2>2. l.id \in CallId
    BY <1>4, CodexAssumption
  <2>3. IsList(x) /\ ToSet(x) = {e}
    BY <2>1, ShortLists
  <2>4. l.id \in Changes(ToSet(x))
    BY <1>3, <2>3 DEF Changes
  <2> QED
    BY <1>1, <1>3, <2>2, <2>3, <2>4
<1>5. CASE ~((l.kind = "output" /\ l.ok /\ calls[l.id] # "none") \/ (l.kind = "patch" /\ l.ok))
  <2>1. x = <<>>
    BY <1>1, <1>5 DEF ChangeEvents
  <2>2. IsList(x) /\ ToSet(x) = {}
    BY <2>1, ShortLists
  <2> QED
    BY <1>1, <1>5, <2>2
<1> QED
  BY <1>4, <1>5

\* A context that comes later gives its model to what has only the fallback.
LEMMA ReworkedIs ==
  ASSUME NEW p, NEW l \in AllLines, NEW events, IsList(events), NEW model \in SessionModels,
         \A e \in ToSet(events) : Sound(p, e)
  PROVE  LET T == ToSet(events)
             R == ToSet(Reworked(l, events, model))
         IN  /\ IsList(Reworked(l, events, model))
             /\ \A e \in R : Sound(p, e)
             /\ Changes(R) = Changes(T) /\ (Starting(T) => Starting(R)) /\ (R # {} => T # {})
<1>1. CASE l.kind # "context" \/ model = NoModel
  <2>1. Reworked(l, events, model) = events
    BY <1>1 DEF Reworked, Annotated
  <2> QED
    BY <2>1
<1>2. CASE l.kind = "context" /\ model # NoModel
  <2> DEFINE new(e) == IF e.type = "usage" /\ e.model = Fallback THEN [e EXCEPT !.model = model] ELSE e
  <2>1. PICK x : x = Reworked(l, events, model)
    OBVIOUS
  <2>2. PICK n \in Nat : DOMAIN events = 1 .. n /\ ToSet(events) = {events[i] : i \in 1 .. n}
    BY ListIs
  <2>3. x = [i \in 1 .. n |-> new(events[i])]
    BY <1>2, <2>1, <2>2 DEF Reworked, Annotated
  <2> HIDE DEF new
  <2>4. x \in Seq({x[i] : i \in 1 .. n}) /\ ToSet(x) = {new(events[i]) : i \in 1 .. n}
    <3>1. DOMAIN x = 1 .. n /\ \A i \in 1 .. n : x[i] = new(events[i])
      BY <2>3
    <3>2. x = [i \in 1 .. n |-> x[i]]
      BY <2>3, <3>1
    <3>3. x \in Seq({x[i] : i \in 1 .. n})
      <4>1. PICK V : V = {x[i] : i \in 1 .. n}
        OBVIOUS
      <4>2. x \in [1 .. n -> V]
        BY <3>2, <4>1
      <4> QED
        BY <4>1, <4>2
    <3> QED
      BY <3>1, <3>3 DEF ToSet
  <2>5. IsList(x)
    BY <2>4 DEF IsList
  <2>6. ASSUME NEW e \in ToSet(events)
        PROVE  /\ Sound(p, new(e)) /\ new(e).type = e.type
               /\ e.type # "usage" => new(e) = e
    <3>1. CASE ~(e.type = "usage" /\ e.model = Fallback)
      BY <3>1 DEF new
    <3>2. CASE e.type = "usage" /\ e.model = Fallback
      <4>1. e = [type |-> "usage", id |-> e.id, n |-> e.n, model |-> e.model, ts |-> e.ts] /\ e.n \in Nat
        BY <3>2 DEF Sound, UsageOf
      <4>2. new(e) = [e EXCEPT !.model = model]
        BY <3>2 DEF new
      <4>3. new(e) = [type |-> "usage", id |-> e.id, n |-> e.n, model |-> model, ts |-> e.ts]
        BY <4>1, <4>2
      <4>4. model \in RowModels \ {NoModel}
        BY <1>2 DEF RowModels, SessionModels
      <4>5. Explained(p, e.ts, model)
        BY <1>2 DEF Explained, SessionModels
      <4>6. PICK f : f = new(e)
        OBVIOUS
      <4>7. f.type = "usage" /\ f.id = e.id /\ f.n = e.n /\ f.model = model /\ f.ts = e.ts
        BY <4>3, <4>6
      <4>8. UsageOf(p, f)
        BY <4>1, <4>3, <4>4, <4>5, <4>6, <4>7 DEF UsageOf
      <4> QED
        BY <3>2, <4>6, <4>7, <4>8 DEF Sound
    <3> QED
      BY <3>1, <3>2
  <2>7. ToSet(x) = {new(e) : e \in ToSet(events)}
    BY <2>2, <2>4
  <2>8. \A e \in ToSet(x) : Sound(p, e)
    BY <2>6, <2>7
  <2>9. Changes(ToSet(x)) = Changes(ToSet(events))
    <3>1. ASSUME NEW c \in Changes(ToSet(x)) PROVE c \in Changes(ToSet(events))
      <4>1. PICK e \in ToSet(events) : new(e).type = "change" /\ c = new(e).id
        BY <2>7, <3>1 DEF Changes
      <4>2. new(e) = e
        BY <2>6, <4>1
      <4> QED
        BY <4>1, <4>2 DEF Changes
    <3>2. ASSUME NEW c \in Changes(ToSet(events)) PROVE c \in Changes(ToSet(x))
      <4>1. PICK e \in ToSet(events) : e.type = "change" /\ c = e.id
        BY <3>2 DEF Changes
      <4>2. new(e) = e
        BY <2>6, <4>1
      <4> QED
        BY <2>7, <4>1, <4>2 DEF Changes
    <3> QED
      BY <3>1, <3>2
  <2>10. Starting(ToSet(events)) => Starting(ToSet(x))
    BY <2>6, <2>7 DEF Starting
  <2> QED
    BY <2>1, <2>5, <2>7, <2>8, <2>9, <2>10
<1> QED
  BY <1>1, <1>2

\* An entry keeps what has been read so far.
EntryKept(p, from, to, l, model, previous, calls, events, K) ==
  LET m2 == ContextModel(l, model)
      c2 == CallsAfter(l, calls)
      e2 == EventsAfter(p, l, m2, previous, calls, events)
  IN /\ IsList(e2)
     /\ HasRead(p, from, to, m2, c2, ToSet(e2), K)
     /\ model # NoModel => m2 # NoModel
     /\ Changes(ToSet(events)) \subseteq Changes(ToSet(e2))
     /\ \A c \in CallId : calls[c] # "none" => c2[c] # "none" \/ c \in K \cup Changes(ToSet(e2))

LEMMA EntryKeeps ==
  ASSUME script \in Scenarios, NEW p \in Rollout, NEW K, FailedCalls \subseteq K,
         NEW from, NEW o, NEW to, NEW model, NEW calls, NEW events, NEW previous \in Nat,
         IsList(events), HasRead(p, from, o, model, calls, ToSet(events), K), from \in Nat,
         NEW i \in DOMAIN script[p], NEW l, l = script[p][i],
         Boundary(to), o < to, to <= 3 * Len(script[p]),
         \A j \in DOMAIN script[p] : Past(j, to) <=> j <= i,
         \A j \in DOMAIN script[p] : Past(j, o) <=> j < i
  PROVE  EntryKept(p, from, to, l, model, previous, calls, events, K)
<1> DEFINE m2 == ContextModel(l, model)
           c2 == CallsAfter(l, calls)
           e2 == EventsAfter(p, l, m2, previous, calls, events)
           T == ToSet(events)
           T2 == ToSet(e2)
<1>1. /\ l \in AllLines /\ Len(script[p]) \in Nat /\ DOMAIN script[p] = 1 .. Len(script[p])
      /\ o \in Nat /\ to \in Nat /\ i \in Nat
  BY EntryIs DEF HasRead, Boundary
<1>2. /\ model \in SessionModels /\ calls \in [CallId -> CallState] /\ from <= o
      /\ \A e \in T : Sound(p, e)
      /\ Contexted(p, o, model)
      /\ CallsKept(p, o, calls, K \cup Changes(T)) /\ OutputsKept(p, o, K \cup Changes(T))
      /\ MetaKept(p, from, o, T) /\ (T # {} => from < o)
  BY DEF HasRead
<1>3. /\ m2 \in SessionModels /\ (model # NoModel => m2 # NoModel)
      /\ l.kind = "context" /\ l.model # NoModel => m2 # NoModel
      /\ l.kind # "context" => m2 = model
  BY <1>1, <1>2, ModelIs
<1>4. Contexted(p, to, m2)
  <2> SUFFICES ASSUME NEW j \in DOMAIN script[p], Past(j, to), script[p][j].kind = "context",
                      script[p][j].model # NoModel
               PROVE  m2 # NoModel
    BY DEF Contexted
  <2>1. CASE j = i
    BY <1>3, <2>1
  <2>2. CASE j # i
    <3>1. Past(j, o)
      BY <1>1, <2>2
    <3> QED
      BY <1>2, <1>3, <3>1 DEF Contexted
  <2> QED
    BY <2>1, <2>2
<1>5. \A j \in 1 .. i - 1 :
        (script[p][j].kind = "context" /\ script[p][j].model # NoModel) => m2 # NoModel
  <2> SUFFICES ASSUME NEW j \in 1 .. i - 1, script[p][j].kind = "context", script[p][j].model # NoModel
               PROVE  m2 # NoModel
    OBVIOUS
  <2>1. j \in DOMAIN script[p] /\ j <= i
    BY <1>1
  <2> QED
    BY <1>4, <2>1 DEF Contexted
<1> DEFINE A == Reworked(l, events, m2)
           U == UsageFrom(l, SessOf[p], m2, previous)
           O == OtherEvents(l, SessOf[p])
           C == ChangeEvents(l, calls)
<1>6. /\ IsList(A) /\ \A e \in ToSet(A) : Sound(p, e)
      /\ Changes(ToSet(A)) = Changes(T) /\ (Starting(T) => Starting(ToSet(A)))
  BY <1>1, <1>2, <1>3, ReworkedIs
<1>7. IsList(U) /\ \A e \in ToSet(U) : e.type = "usage" /\ UsageOf(p, e)
  BY <1>3, <1>5, UsageFromIs
<1>8. /\ IsList(O)
      /\ \A e \in ToSet(O) : e.type \notin {"usage", "change"} /\ (e.type = "start" => e.id = SessOf[p])
      /\ l.kind = "meta" => Starting(ToSet(O))
  BY <1>1, OtherIs
<1>9. /\ IsList(C)
      /\ \A e \in ToSet(C) : e.type = "change" /\ e.id \in CallId
      /\ l.kind = "output" /\ l.ok /\ calls[l.id] # "none" => l.id \in Changes(ToSet(C))
  BY <1>1, ChangeIs
<1>10. e2 = ((A \o U) \o O) \o C
  BY DEF EventsAfter
<1> HIDE DEF A, U, O, C, e2, c2, m2
<1>11. IsList(e2) /\ T2 = ((ToSet(A) \cup ToSet(U)) \cup ToSet(O)) \cup ToSet(C)
  <2>1. IsList(A \o U) /\ ToSet(A \o U) = ToSet(A) \cup ToSet(U)
    BY <1>6, <1>7, JoinedLists
  <2>2. /\ IsList((A \o U) \o O)
        /\ ToSet((A \o U) \o O) = (ToSet(A) \cup ToSet(U)) \cup ToSet(O)
    BY <1>8, <2>1, JoinedLists
  <2>3. /\ IsList(((A \o U) \o O) \o C)
        /\ ToSet(((A \o U) \o O) \o C) = ToSet((A \o U) \o O) \cup ToSet(C)
    BY <1>9, <2>2, JoinedLists
  <2> QED
    BY <1>10, <2>2, <2>3
<1> HIDE DEF T, T2
<1>12. \A e \in T2 : Sound(p, e)
  BY <1>6, <1>7, <1>8, <1>9, <1>11 DEF Sound
<1>13. Changes(T) \subseteq Changes(T2) /\ Changes(ToSet(C)) \subseteq Changes(T2)
  BY <1>6, <1>11 DEF Changes
<1>14. (Starting(T) \/ l.kind = "meta") => Starting(T2)
  BY <1>6, <1>8, <1>11 DEF Starting
<1>15. c2 \in [CallId -> CallState]
  BY <1>2 DEF c2, CallsAfter, CallState
<1>16. ASSUME NEW c \in CallId, calls[c] # "none"
       PROVE  c2[c] # "none" \/ c \in K \cup Changes(T2)
  <2>1. CASE l.kind = "call"
    BY <1>2, <1>16, <2>1 DEF c2, CallsAfter
  <2>2. CASE l.kind = "output"
    <3>1. CASE l.id # c
      BY <1>2, <1>16, <2>2, <3>1 DEF c2, CallsAfter
    <3>2. CASE l.id = c /\ l.ok
      BY <1>9, <1>13, <1>16, <2>2, <3>2
    <3>3. CASE l.id = c /\ ~l.ok
      BY <2>2, <3>3 DEF FailedCalls
    <3> QED
      BY <3>1, <3>2, <3>3
  <2>3. CASE l.kind \notin {"call", "output"}
    BY <1>16, <2>3 DEF c2, CallsAfter
  <2> QED
    BY <2>1, <2>2, <2>3
<1>17. CallsKept(p, to, c2, K \cup Changes(T2))
  <2> SUFFICES ASSUME NEW j \in DOMAIN script[p], Past(j, to), script[p][j].kind = "call"
               PROVE  c2[script[p][j].id] # "none" \/ script[p][j].id \in K \cup Changes(T2)
    BY DEF CallsKept
  <2>1. script[p][j].id \in CallId
    BY EntryIs, CodexAssumption
  <2>2. CASE j = i
    BY <1>2, <2>1, <2>2 DEF c2, CallsAfter
  <2>3. CASE j # i
    <3>1. Past(j, o)
      BY <1>1, <2>3
    <3>2. calls[script[p][j].id] # "none" \/ script[p][j].id \in K \cup Changes(T)
      BY <1>2, <3>1 DEF CallsKept
    <3> QED
      BY <1>13, <1>16, <2>1, <3>2
  <2> QED
    BY <2>2, <2>3
<1>18. OutputsKept(p, to, K \cup Changes(T2))
  <2> SUFFICES ASSUME NEW j \in DOMAIN script[p], NEW k \in 1 .. j - 1, Past(j, to),
                      script[p][j].kind = "output", script[p][k].kind = "call",
                      script[p][k].id = script[p][j].id
               PROVE  script[p][j].id \in K \cup Changes(T2)
    BY DEF OutputsKept
  <2>1. CASE j # i
    <3>1. Past(j, o)
      BY <1>1, <2>1
    <3>2. script[p][j].id \in K \cup Changes(T)
      BY <1>2, <3>1 DEF OutputsKept
    <3> QED
      BY <1>13, <3>2
  <2>2. CASE j = i
    <3>1. k \in DOMAIN script[p] /\ Past(k, o)
      BY <1>1, <2>2
    <3>2. calls[l.id] # "none" \/ l.id \in K \cup Changes(T)
      BY <1>2, <2>2, <3>1 DEF CallsKept
    <3>3. l.id \in CallId /\ l.ok \in BOOLEAN
      BY <1>1, <2>2, CodexAssumption
    <3>4. CASE ~l.ok
      BY <2>2, <3>3, <3>4 DEF FailedCalls
    <3>5. CASE l.ok
      BY <1>9, <1>13, <2>2, <3>2, <3>5
    <3> QED
      BY <3>4, <3>5
  <2> QED
    BY <2>1, <2>2
<1>19. MetaKept(p, from, to, T2)
  <2> SUFFICES ASSUME NEW j \in DOMAIN script[p], Past(j, to), ~Past(j, from), script[p][j].kind = "meta"
               PROVE  Starting(T2)
    BY DEF MetaKept
  <2>1. CASE j = i
    BY <1>14, <2>1
  <2>2. CASE j # i
    <3>1. Past(j, o)
      BY <1>1, <2>2
    <3> QED
      BY <1>2, <1>14, <3>1 DEF MetaKept
  <2> QED
    BY <2>1, <2>2
<1>20. HasRead(p, from, to, m2, c2, T2, K)
  <2>1. from < to /\ from <= to
    BY <1>1, <1>2
  <2> QED
    BY <1>3, <1>4, <1>12, <1>15, <1>17, <1>18, <1>19, <2>1 DEF HasRead
<1> QED
  BY <1>3, <1>11, <1>13, <1>16, <1>20 DEF EntryKept, m2, c2, e2, T, T2

\* The loop over the lines.
WellRead(p, from, model, calls, K, at) ==
  /\ at = [off |-> at.off, eof |-> at.eof, model |-> at.model, calls |-> at.calls,
           previous |-> at.previous, events |-> at.events]
  /\ at.eof \in BOOLEAN /\ at.previous \in Nat /\ IsList(at.events)
  /\ HasRead(p, from, at.off, at.model, at.calls, ToSet(at.events), K)
  /\ model # NoModel => at.model # NoModel
  /\ \A c \in CallId : calls[c] # "none" => at.calls[c] # "none" \/ c \in K \cup Changes(ToSet(at.events))

StepsTo(p, at, r, new) ==
  /\ at.eof \/ at.off >= grown[p] => new = at
  /\ ~(at.eof \/ at.off >= grown[p]) /\ ~r.parsed =>
              new = [at EXCEPT !.off = r.to, !.eof = r.eof]
  /\ ~(at.eof \/ at.off >= grown[p]) /\ r.parsed =>
              new =
                [off |-> r.to, eof |-> r.eof, model |-> ContextModel(r.line, at.model),
                 calls |-> CallsAfter(r.line, at.calls), previous |-> Previous(r.line, at.previous),
                 events |-> EventsAfter(p, r.line, ContextModel(r.line, at.model), at.previous,
                                        at.calls, at.events)]
LEMMA StepIs ==
  ASSUME NEW p, NEW at
  PROVE  StepsTo(p, at, ReadLine(script[p], grown[p], at.off), ReadStep(p, at))
BY DEF StepsTo, ReadStep, CallsAfter, EventsAfter, Reworked, UsageFrom

LEMMA GarbageKept ==
  ASSUME NEW p \in Rollout, NEW from, NEW o, NEW to, NEW model, NEW calls, NEW T, NEW K,
         HasRead(p, from, o, model, calls, T, K), from \in Nat,
         Boundary(to), o <= to, to <= 3 * Len(script[p]),
         \A i \in DOMAIN script[p] : Past(i, to) => Past(i, o) \/ script[p][i].kind = "garbage"
  PROVE  HasRead(p, from, to, model, calls, T, K)
<1>1. from \in Nat /\ o \in Nat /\ to \in Nat
  BY DEF HasRead, Boundary
<1>2. Contexted(p, to, model) /\ CallsKept(p, to, calls, K \cup Changes(T))
  BY DEF HasRead, Contexted, CallsKept
<1>3. OutputsKept(p, to, K \cup Changes(T)) /\ MetaKept(p, from, to, T)
  BY DEF HasRead, OutputsKept, MetaKept
<1>4. from <= to /\ (T # {} => from < to)
  BY <1>1 DEF HasRead
<1> QED
  BY <1>2, <1>3, <1>4 DEF HasRead

LEMMA StepKeeps ==
  ASSUME script \in Scenarios, NEW p \in Rollout, grown[p] \in Nat, grown[p] <= 3 * Len(script[p]),
         NEW K, FailedCalls \subseteq K, NEW from \in Nat, NEW model, NEW calls,
         NEW at, WellRead(p, from, model, calls, K, at)
  PROVE  WellRead(p, from, model, calls, K, ReadStep(p, at))
<1>1. PICK r : r = ReadLine(script[p], grown[p], at.off)
  OBVIOUS
<1>a. StepsTo(p, at, r, ReadStep(p, at))
  BY <1>1, StepIs
<1>2. CASE at.eof \/ at.off >= grown[p]
  <2>1. ReadStep(p, at) = at
    BY <1>2, <1>a DEF StepsTo
  <2> QED
    BY <2>1
<1>3. CASE ~(at.eof \/ at.off >= grown[p])
  <2>1. HasRead(p, from, at.off, at.model, at.calls, ToSet(at.events), K)
    BY DEF WellRead
  <2>2. Boundary(at.off) /\ at.off \in Nat /\ at.off < grown[p] /\ Len(script[p]) \in Nat
    BY <1>3, <2>1, EntryIs DEF HasRead, Boundary
  <2>3. EntryRead(script[p], at.off, grown[p], r)
    BY <1>1, <2>2, EntryIs, EntryReadIs
  <2>4. Boundary(r.to) /\ at.off <= r.to /\ r.to <= 3 * Len(script[p]) /\ r.eof \in BOOLEAN
    BY <2>2, <2>3 DEF EntryRead, Boundary
  <2>5. CASE ~r.parsed
    <3>1. PICK x : x = ReadStep(p, at)
      OBVIOUS
    <3>2. x = [at EXCEPT !.off = r.to, !.eof = r.eof]
      BY <1>3, <1>a, <2>5, <3>1 DEF StepsTo
    <3>3. x = [off |-> r.to, eof |-> r.eof, model |-> at.model, calls |-> at.calls,
               previous |-> at.previous, events |-> at.events]
      BY <3>2 DEF WellRead
    <3>4. HasRead(p, from, r.to, at.model, at.calls, ToSet(at.events), K)
      BY <2>1, <2>3, <2>4, <2>5, GarbageKept DEF EntryRead
    <3>5. /\ x.off = r.to /\ x.eof = r.eof /\ x.model = at.model /\ x.calls = at.calls
          /\ x.previous = at.previous /\ x.events = at.events
      BY <3>3
    <3>6. WellRead(p, from, model, calls, K, x)
      BY <2>4, <3>3, <3>4, <3>5 DEF WellRead
    <3> QED
      BY <3>1, <3>6
  <2>6. CASE r.parsed
    <3>1. PICK l : l = r.line
      OBVIOUS
    <3>2. PICK i \in DOMAIN script[p] :
            /\ l = script[p][i]
            /\ \A j \in DOMAIN script[p] : Past(j, r.to) <=> j <= i
            /\ \A j \in DOMAIN script[p] : Past(j, at.off) <=> j < i
      BY <2>3, <2>6, <3>1 DEF EntryRead
    <3>3. at.off < r.to
      BY <2>3, <2>6 DEF EntryRead
    <3>4. EntryKept(p, from, r.to, l, at.model, at.previous, at.calls, at.events, K)
      BY <2>1, <2>4, <3>2, <3>3, EntryKeeps DEF WellRead
    <3>5. PICK x : x = ReadStep(p, at)
      OBVIOUS
    <3>6. x = [off |-> r.to, eof |-> r.eof, model |-> ContextModel(l, at.model),
               calls |-> CallsAfter(l, at.calls), previous |-> Previous(l, at.previous),
               events |-> EventsAfter(p, l, ContextModel(l, at.model), at.previous,
                                      at.calls, at.events)]
      BY <1>3, <1>a, <2>6, <3>1, <3>5 DEF StepsTo
    <3>7. /\ x.off = r.to /\ x.eof = r.eof /\ x.model = ContextModel(l, at.model)
          /\ x.calls = CallsAfter(l, at.calls) /\ x.previous = Previous(l, at.previous)
          /\ x.events = EventsAfter(p, l, ContextModel(l, at.model), at.previous, at.calls, at.events)
      BY <3>6
    <3>8. x.previous \in Nat
      <4>1. l \in AllLines
        BY <3>2, EntryIs
      <4>2. l.kind \in {"total", "last"} => l.total \in Nat
        BY <4>1, CodexAssumption
      <4> QED
        BY <3>7, <4>2 DEF Previous, WellRead
    <3>9. /\ IsList(x.events)
          /\ HasRead(p, from, x.off, x.model, x.calls, ToSet(x.events), K)
          /\ at.model # NoModel => x.model # NoModel
          /\ Changes(ToSet(at.events)) \subseteq Changes(ToSet(x.events))
          /\ \A c \in CallId : at.calls[c] # "none" => x.calls[c] # "none" \/ c \in K \cup Changes(ToSet(x.events))
      BY <3>4, <3>7 DEF EntryKept
    <3>10. x = [off |-> x.off, eof |-> x.eof, model |-> x.model, calls |-> x.calls,
                previous |-> x.previous, events |-> x.events] /\ x.eof \in BOOLEAN
      BY <2>4, <3>6, <3>7
    <3>11. ASSUME NEW c \in CallId, calls[c] # "none"
           PROVE  x.calls[c] # "none" \/ c \in K \cup Changes(ToSet(x.events))
      BY <3>9, <3>11 DEF WellRead
    <3>12. model # NoModel => x.model # NoModel
      BY <3>9 DEF WellRead
    <3>13. WellRead(p, from, model, calls, K, x)
      BY <3>8, <3>9, <3>10, <3>11, <3>12 DEF WellRead
    <3> QED
      BY <3>5, <3>13
  <2> QED
    BY <2>5, <2>6
<1> QED
  BY <1>2, <1>3

\* The recursive function of ReadRollout exists.
ReadsUpTo(p, start, n, g) == g = [k \in 0 .. n |-> IF k = 0 THEN start ELSE ReadStep(p, g[k - 1])]

LEMMA ReadsExist ==
  ASSUME NEW p, NEW start, NEW n \in Nat
  PROVE  \E g : ReadsUpTo(p, start, n, g)
<1> DEFINE One(x) == ReadStep(p, x)
           Def(g, i) == IF i = 0 THEN start ELSE One(g[i - 1])
           S == {k \in 0 .. n : \E g : g = [i \in 0 .. k |-> Def(g, i)]}
<1> HIDE DEF One
<1>1. 0 \in S
  <2> DEFINE g == [i \in 0 .. 0 |-> start]
  <2>1. g = [i \in 0 .. 0 |-> Def(g, i)]
    OBVIOUS
  <2> HIDE DEF g
  <2>2. \E h : h = [i \in 0 .. 0 |-> Def(h, i)]
    BY <2>1
  <2> QED
    BY <2>2
<1>2. ASSUME NEW k \in 1 .. n, k - 1 \in S PROVE k \in S
  <2>1. PICK g : g = [i \in 0 .. k - 1 |-> Def(g, i)]
    BY <1>2
  <2> DEFINE h == [i \in 0 .. k |-> IF i = k THEN Def(g, k) ELSE g[i]]
  <2>2. ASSUME NEW i \in 0 .. k PROVE h[i] = Def(h, i)
    <3>1. CASE i = 0
      <4>1. g[0] = start /\ h[0] = g[0]
        BY <2>1
      <4> QED
        BY <3>1, <4>1
    <3>2. CASE i # 0 /\ i # k
      <4>1. i \in 0 .. k - 1 /\ i - 1 \in 0 .. k - 1 /\ i - 1 # k /\ i - 1 \in 0 .. k
        BY <3>2
      <4>2. h[i] = g[i] /\ h[i - 1] = g[i - 1]
        BY <3>2, <4>1
      <4>3. g[i] = Def(g, i)
        BY <2>1, <4>1
      <4> HIDE DEF h
      <4> QED
        BY <4>2, <4>3
    <3>3. CASE i = k
      <4>1. k - 1 # k /\ k - 1 \in 0 .. k /\ k # 0
        OBVIOUS
      <4>2. h[k] = Def(g, k) /\ h[k - 1] = g[k - 1]
        BY <3>3, <4>1
      <4> HIDE DEF h
      <4> QED
        BY <3>3, <4>1, <4>2
    <3> QED
      BY <3>1, <3>2, <3>3
  <2>3. h = [i \in 0 .. k |-> Def(h, i)]
    <3>1. h = [i \in 0 .. k |-> h[i]]
      OBVIOUS
    <3> HIDE DEF h, Def
    <3> QED
      BY <2>2, <3>1
  <2> HIDE DEF h, Def
  <2>4. k \in 0 .. n
    OBVIOUS
  <2> QED
    BY <2>3, <2>4
<1> HIDE DEF S
<1>3. n \in S
  <2>1. \A k \in 0 .. n : k \in S
    BY <1>1, <1>2, UpTo
  <2> QED
    BY <2>1
<1> QED
  BY <1>3 DEF S, One, ReadsUpTo

LEMMA ReadKeeps ==
  ASSUME script \in Scenarios, NEW p \in Rollout, grown[p] \in Nat, grown[p] <= 3 * Len(script[p]),
         NEW K, FailedCalls \subseteq K, NEW from \in Nat, NEW model, NEW calls,
         HasRead(p, from, from, model, calls, {}, K)
  PROVE  WellRead(p, from, model, calls, K, ReadRollout(p, from, model, calls))
<1>1. PICK n \in Nat : n = Len(script[p]) + 1
  BY EntryIs
<1>2. PICK start : start = [off |-> from, eof |-> FALSE, model |-> model, calls |-> calls,
                            previous |-> 0, events |-> <<>>]
  OBVIOUS
<1> DEFINE F == CHOOSE g : g = [k \in 0 .. n |-> IF k = 0 THEN start ELSE ReadStep(p, g[k - 1])]
<1>3. ReadRollout(p, from, model, calls) = F[n]
  BY <1>1, <1>2 DEF ReadRollout
<1>4. F = [k \in 0 .. n |-> IF k = 0 THEN start ELSE ReadStep(p, F[k - 1])]
  <2>1. \E g : g = [k \in 0 .. n |-> IF k = 0 THEN start ELSE ReadStep(p, g[k - 1])]
    <3>1. \E g : ReadsUpTo(p, start, n, g)
      BY ReadsExist
    <3> QED
      BY <3>1 DEF ReadsUpTo
  <2> QED
    BY <2>1
<1> HIDE DEF F
<1> DEFINE S == {k \in 0 .. n : WellRead(p, from, model, calls, K, F[k])}
<1>5. 0 \in S
  <2>1. F[0] = start
    BY <1>4
  <2>2. /\ start.off = from /\ start.eof = FALSE /\ start.model = model /\ start.calls = calls
        /\ start.previous = 0 /\ start.events = <<>>
    BY <1>2
  <2>3. IsList(<<>>) /\ ToSet(<<>>) = {}
    BY ShortLists
  <2>4. WellRead(p, from, model, calls, K, start)
    BY <1>2, <2>2, <2>3 DEF WellRead
  <2> QED
    BY <2>1, <2>4
<1>6. ASSUME NEW k \in 1 .. n, k - 1 \in S PROVE k \in S
  <2>1. F[k] = ReadStep(p, F[k - 1])
    <3>1. k \in 0 .. n /\ k # 0
      OBVIOUS
    <3> QED
      BY <1>4, <3>1
  <2>2. WellRead(p, from, model, calls, K, F[k - 1])
    BY <1>6
  <2>3. WellRead(p, from, model, calls, K, F[k])
    BY <2>1, <2>2, StepKeeps
  <2> QED
    BY <2>3
<1> HIDE DEF S
<1>7. n \in S
  <2>1. \A k \in 0 .. n : k \in S
    BY <1>5, <1>6, UpTo
  <2> QED
    BY <2>1
<1> QED
  BY <1>3, <1>7 DEF S

-----------------------------------------------------------------------------
(* Steps of the polling goroutine.                                         *)

LEMMA SessionIs == \A p \in Rollout : SessOf[p] \in Session
BY DEF Session

LEMMA KnownIs ==
  ASSUME CodexTyped, NEW p \in Rollout
  PROVE  /\ Max({codexSeen[p], 0}) = IF codexSeen[p] = Unseen THEN 0 ELSE codexSeen[p]
         /\ Boundary(Max({codexSeen[p], 0})) /\ Max({codexSeen[p], 0}) \in Nat
         /\ Max({codexSeen[p], 0}) <= 3 * Len(script[p])
<1>1. PICK x \in Nat \cup {-1} : x = codexSeen[p]
  BY DEF CodexTyped, Unseen
<1>2. PICK m : m = IF x = -1 THEN 0 ELSE x
  OBVIOUS
<1>3. m \in {x, 0} /\ \A y \in {x, 0} : m >= y
  BY <1>1, <1>2
<1>4. \A n \in {x, 0} : (\A y \in {x, 0} : n >= y) => n = m
  BY <1>1, <1>2
<1>5. Max({x, 0}) = m
  BY <1>3, <1>4 DEF Max
<1>6. Boundary(0) /\ Len(script[p]) \in Nat
  BY EntryIs DEF Boundary, CodexTyped
<1>7. Boundary(m) /\ m \in Nat /\ m <= 3 * Len(script[p])
  BY <1>1, <1>2, <1>6 DEF CodexTyped, Unseen, Boundary
<1> QED
  BY <1>1, <1>2, <1>5, <1>7 DEF Unseen

LEMMA FromTheStart ==
  ASSUME script \in Scenarios, NEW p \in Rollout, NEW model \in SessionModels,
         NEW calls \in [CallId -> CallState], NEW K
  PROVE  HasRead(p, 0, 0, model, calls, {}, K)
<1>1. Len(script[p]) \in Nat /\ DOMAIN script[p] = 1 .. Len(script[p])
  BY EntryIs
<1>2. \A i \in DOMAIN script[p] : ~Past(i, 0)
  BY <1>1 DEF Past
<1>3. Contexted(p, 0, model) /\ CallsKept(p, 0, calls, K \cup Changes({}))
  BY <1>2 DEF Contexted, CallsKept
<1>4. OutputsKept(p, 0, K \cup Changes({})) /\ MetaKept(p, 0, 0, {})
  BY <1>2 DEF OutputsKept, MetaKept
<1>5. Boundary(0) /\ 0 <= 3 * Len(script[p])
  BY <1>1 DEF Boundary
<1> QED
  BY <1>3, <1>4, <1>5 DEF HasRead

\* Whoever has read a file that begins with its meta, from where it was
\* known to, has its start.
LEMMA HasStart ==
  ASSUME CodexTyped, NEW p \in Rollout, NEW from, NEW off, NEW model, NEW calls, NEW T, NEW K,
         HasRead(p, from, off, model, calls, T, K), BeginsWithMeta(SessOf[p]), 2 <= off, from \in Nat, ~(2 <= from)
  PROVE  Starting(T)
<1>1. Len(script[p]) \in Nat /\ DOMAIN script[p] = 1 .. Len(script[p]) /\ off <= 3 * Len(script[p]) /\ off \in Nat
  BY EntryIs DEF CodexTyped, HasRead, Boundary
<1>2. 1 \in DOMAIN script[p] /\ script[p] # <<>>
  BY <1>1
<1>3. script[p][1].kind = "meta"
  BY <1>2 DEF BeginsWithMeta
<1>4. Past(1, off) /\ ~Past(1, from)
  BY <1>1 DEF Past
<1> QED
  BY <1>2, <1>3, <1>4 DEF HasRead, MetaKept

Emitted(p, T) ==
  /\ pendingStarts' \in SUBSET Session /\ started' \in SUBSET Session
  /\ active' \in SUBSET Session /\ changed' \in SUBSET CallId
  /\ RowsKept' /\ StartsKept'
  /\ changed \subseteq changed' /\ Changes(T) \subseteq changed'
  /\ pendingStarts \cup started \subseteq pendingStarts' \cup started'
  /\ Starting(T) => SessOf[p] \in pendingStarts' \cup started'

LEMMA EmitKeeps ==
  ASSUME CodexTyped, RowsKept, StartsKept, NEW p \in Rollout, NEW events, IsList(events),
         \A e \in ToSet(events) : Sound(p, e),
         (BeginsWithMeta(SessOf[p]) /\ ToSet(events) # {}) =>
           SessOf[p] \in pendingStarts \cup started \/ Starting(ToSet(events)),
         EmitOrDefer(p, events), UNCHANGED script
  PROVE  Emitted(p, ToSet(events))
<1> DEFINE T == ToSet(events)
           s == SessOf[p]
<1>1. s \in Session
  BY SessionIs
<1>2. /\ pendingStarts \in SUBSET Session /\ started \in SUBSET Session
      /\ active \in SUBSET Session /\ changed \in SUBSET CallId
  BY DEF CodexTyped
<1>3. CASE ~Substantive(events)
  <2>1. UNCHANGED <<usageRows, started, active, changed>>
    BY <1>3 DEF EmitOrDefer, effectVars
  <2>2. pendingStarts' = IF Starting(T) THEN pendingStarts \cup {s} ELSE pendingStarts
    BY <1>3 DEF EmitOrDefer, Starting
  <2>3. Changes(T) = {}
    BY <1>3 DEF Substantive, Changes
  <2>4. RowsKept' /\ StartsKept'
    BY <2>1 DEF RowsKept, StartsKept, Explained, BeginsWithMeta
  <2> QED
    BY <1>1, <1>2, <2>1, <2>2, <2>3, <2>4 DEF Emitted
<1>4. CASE Substantive(events)
  <2>1. PICK d : d = Deferred(s)
    OBVIOUS
  <2>2. PICK list : list = d \o events
    OBVIOUS
  <2>3. Emit(p, list) /\ pendingStarts' = pendingStarts \ {s}
    BY <1>4, <2>1, <2>2 DEF EmitOrDefer
  <2>4. /\ IsList(d) /\ \A e \in ToSet(d) : e.type = "start" /\ e.id = s
        /\ s \in pendingStarts => Starting(ToSet(d))
    <3>1. PICK e : e = [type |-> "start", id |-> s]
      OBVIOUS
    <3>2. e.type = "start" /\ e.id = s
      BY <3>1
    <3>3. CASE s \in pendingStarts
      <4>1. d = <<e>>
        BY <2>1, <3>1, <3>3 DEF Deferred
      <4>2. IsList(d) /\ ToSet(d) = {e}
        BY <4>1, ShortLists
      <4> QED
        BY <3>2, <4>2 DEF Starting
    <3>4. CASE s \notin pendingStarts
      <4>1. d = <<>>
        BY <2>1, <3>4 DEF Deferred
      <4>2. IsList(d) /\ ToSet(d) = {}
        BY <4>1, ShortLists
      <4> QED
        BY <3>4, <4>2
    <3> QED
      BY <3>3, <3>4
  <2>5. IsList(list) /\ ToSet(list) = ToSet(d) \cup T
    BY <2>2, <2>4, JoinedLists
  <2>6. \A e \in ToSet(list) : Sound(p, e)
    BY <2>4, <2>5 DEF Sound
  <2>7. started' = started \cup {e.id : e \in {x \in ToSet(list) : x.type = "start"}}
    BY <2>3 DEF Emit
  <2>8. changed' = changed \cup Changes(ToSet(list))
    BY <2>3 DEF Emit, Changes
  <2>9. active' = active \cup {s} \/ active' = active
    BY <2>3 DEF Emit
  <2>10. started \subseteq started' /\ started' \subseteq started \cup {s}
    BY <2>6, <2>7 DEF Sound
  <2>11. Starting(ToSet(list)) => s \in started'
    BY <2>6, <2>7 DEF Sound, Starting
  <2>12. (s \in pendingStarts \/ Starting(T)) => s \in started'
    BY <2>4, <2>5, <2>11 DEF Starting
  <2>13. Changes(T) \subseteq Changes(ToSet(list)) /\ Changes(ToSet(list)) \subseteq CallId
    BY <2>5, <2>6 DEF Changes, Sound
  <2>14. RowsKept'
    <3>1. PICK n \in Nat : DOMAIN list = 1 .. n /\ ToSet(list) = {list[i] : i \in 1 .. n}
      BY <2>5, ListIs
    <3>2. usageRows' \subseteq usageRows \cup
            {[id |-> list[i].id, n |-> list[i].n, model |-> list[i].model, path |-> p, ts |-> list[i].ts] :
               i \in {k \in DOMAIN list : list[k].type = "usage"}}
      BY <2>3 DEF Emit
    <3> SUFFICES ASSUME NEW r \in usageRows'
                 PROVE  /\ r.path \in Rollout /\ r.n \in Nat /\ r.model \in RowModels \ {NoModel}
                        /\ Explained(r.path, r.ts, r.model)
      BY DEF RowsKept, Explained
    <3>3. CASE r \in usageRows
      BY <3>3 DEF RowsKept
    <3>4. CASE r \notin usageRows
      <4>1. PICK i \in 1 .. n : /\ list[i].type = "usage"
              /\ r = [id |-> list[i].id, n |-> list[i].n, model |-> list[i].model, path |-> p,
                      ts |-> list[i].ts]
        BY <3>1, <3>2, <3>4
      <4>2. UsageOf(p, list[i])
        BY <2>6, <3>1, <4>1 DEF Sound
      <4>3. r.path = p /\ r.n = list[i].n /\ r.model = list[i].model /\ r.ts = list[i].ts
        BY <4>1
      <4> QED
        BY <4>2, <4>3 DEF UsageOf
    <3> QED
      BY <3>3, <3>4
  <2>15. StartsKept'
    <3>1. T # {}
      BY <1>4 DEF Substantive
    <3>2. BeginsWithMeta(s) => s \in started'
      BY <2>10, <2>12, <3>1
    <3>3. \A q : BeginsWithMeta(q)' <=> BeginsWithMeta(q)
      BY DEF BeginsWithMeta
    <3> QED
      BY <2>9, <2>10, <3>2, <3>3 DEF StartsKept
  <2>16. pendingStarts \cup started \subseteq pendingStarts' \cup started'
    BY <2>3, <2>10, <2>12
  <2>17. /\ pendingStarts' \in SUBSET Session /\ started' \in SUBSET Session
         /\ active' \in SUBSET Session /\ changed' \in SUBSET CallId
    BY <1>1, <1>2, <2>3, <2>8, <2>9, <2>10, <2>13
  <2> QED
    BY <2>8, <2>12, <2>13, <2>14, <2>15, <2>16, <2>17 DEF Emitted
<1> QED
  BY <1>3, <1>4

\* A file whose offset stays where it is.
LEMMA CarriedOver ==
  ASSUME script \in Scenarios, NEW p \in Rollout, SeenKept(p), codexSeen'[p] = codexSeen[p], UNCHANGED script,
         models[SessOf[p]] # NoModel => models'[SessOf[p]] # NoModel,
         ~codexDone' => /\ ~codexDone /\ Settled \subseteq Settled'
                        /\ \A c \in CallId : pendingCalls[c] # "none" =>
                                               pendingCalls'[c] # "none" \/ c \in Settled'
                        /\ pendingStarts \cup started \subseteq pendingStarts' \cup started'
  PROVE  SeenKept(p)'
<1> SUFFICES ASSUME codexSeen[p] # Unseen
             PROVE  /\ Contexted(p, codexSeen[p], models[SessOf[p]])'
                    /\ ~codexDone' =>
                         /\ CallsKept(p, codexSeen[p], pendingCalls, Settled)'
                         /\ OutputsKept(p, codexSeen[p], Settled)'
                         /\ BeginsWithMeta(SessOf[p])' /\ 2 <= codexSeen'[p] =>
                              SessOf[p] \in pendingStarts' \cup started'
  BY DEF SeenKept
<1>1. Contexted(p, codexSeen[p], models[SessOf[p]])'
  BY DEF SeenKept, Contexted, Past
<1>2. ASSUME ~codexDone'
      PROVE  CallsKept(p, codexSeen[p], pendingCalls, Settled)'
  <2>1. CallsKept(p, codexSeen[p], pendingCalls, Settled)
    BY <1>2 DEF SeenKept
  <2>2. \A i \in DOMAIN script[p] : script[p][i].kind = "call" => script[p][i].id \in CallId
    BY EntryIs, CodexAssumption
  <2> HIDE DEF Settled
  <2> QED
    BY <1>2, <2>1, <2>2 DEF CallsKept, Past
<1>3. ASSUME ~codexDone'
      PROVE  OutputsKept(p, codexSeen[p], Settled)'
  <2>1. OutputsKept(p, codexSeen[p], Settled)
    BY <1>3 DEF SeenKept
  <2> QED
    BY <1>3, <2>1 DEF OutputsKept, Past
<1>4. ASSUME ~codexDone', BeginsWithMeta(SessOf[p])', 2 <= codexSeen'[p]
      PROVE  SessOf[p] \in pendingStarts' \cup started'
  <2>1. BeginsWithMeta(SessOf[p])
    BY <1>4 DEF BeginsWithMeta
  <2> QED
    BY <1>4, <2>1 DEF SeenKept
<1> QED
  BY <1>1, <1>2, <1>3, <1>4

\* A file that has just been read, and whose events were emitted.
LEMMA ReadOver ==
  ASSUME CodexTyped, NEW p \in Rollout, UNCHANGED script, NEW from, NEW off, NEW model, NEW calls, NEW T, NEW K,
         HasRead(p, from, off, model, calls, T, K),
         codexSeen'[p] = off, model # NoModel => models'[SessOf[p]] # NoModel,
         ~codexDone' => /\ K \cup Changes(T) \subseteq Settled'
                        /\ \A c \in CallId : calls[c] # "none" => pendingCalls'[c] # "none"
                        /\ BeginsWithMeta(SessOf[p]) /\ 2 <= off => SessOf[p] \in pendingStarts' \cup started'
  PROVE  SeenKept(p)'
<1>1. Contexted(p, codexSeen[p], models[SessOf[p]])'
  BY DEF HasRead, Contexted, Past
<1>2. ASSUME ~codexDone' PROVE CallsKept(p, codexSeen[p], pendingCalls, Settled)'
  <2>1. CallsKept(p, off, calls, K \cup Changes(T))
    BY DEF HasRead
  <2>2. \A i \in DOMAIN script[p] : script[p][i].kind = "call" => script[p][i].id \in CallId
    BY EntryIs, CodexAssumption DEF CodexTyped
  <2> QED
    BY <1>2, <2>1, <2>2 DEF CallsKept, Past
<1>3. ASSUME ~codexDone' PROVE OutputsKept(p, codexSeen[p], Settled)'
  <2>1. OutputsKept(p, off, K \cup Changes(T))
    BY DEF HasRead
  <2> QED
    BY <1>3, <2>1 DEF OutputsKept, Past
<1>4. ASSUME ~codexDone', BeginsWithMeta(SessOf[p])', 2 <= codexSeen'[p]
      PROVE  SessOf[p] \in pendingStarts' \cup started'
  <2>1. BeginsWithMeta(SessOf[p])
    BY <1>4 DEF BeginsWithMeta
  <2> QED
    BY <1>4, <2>1
<1> QED
  BY <1>1, <1>2, <1>3, <1>4 DEF SeenKept

\* Found speaks of the scripts only, which never change.
LEMMA SameFound ==
  ASSUME UNCHANGED script
  PROVE  /\ \A r : Found(r)' <=> Found(r)
         /\ \A s : BeginsWithMeta(s)' <=> BeginsWithMeta(s)
         /\ FailedCalls' = FailedCalls
BY DEF Found, HasRead, Contexted, CallsKept, OutputsKept, MetaKept, Sound, UsageOf, Explained, FailedCalls,
       BeginsWithMeta

LEMMA SameRows ==
  ASSUME RowsKept, StartsKept, UNCHANGED <<script, effectVars>>
  PROVE  RowsKept' /\ StartsKept'
BY DEF RowsKept, StartsKept, Explained, BeginsWithMeta, effectVars

LEMMA SameSeen ==
  ASSUME CodexInv, UNCHANGED <<script, codexSeen, models, pendingStarts, started, changed>>,
         codexDone' \/ (~codexDone /\ collected \subseteq collected'
                        /\ \A c \in CallId : pendingCalls[c] # "none" =>
                             pendingCalls'[c] # "none" \/ c \in collected')
  PROVE  \A p \in Rollout : SeenKept(p)'
<1> SUFFICES ASSUME NEW p \in Rollout PROVE SeenKept(p)'
  OBVIOUS
<1>1. FailedCalls' = FailedCalls
  BY SameFound
<1>2. ~codexDone' => Settled \subseteq Settled' /\ collected' \subseteq Settled'
  BY <1>1 DEF Settled
<1>3. script \in Scenarios /\ SeenKept(p)
  BY DEF CodexInv, CodexTyped
<1> HIDE DEF Settled
<1> QED
  BY <1>2, <1>3, CarriedOver

Processed == CodexTyped' /\ RowsKept' /\ StartsKept' /\ \A q \in Rollout : SeenKept(q)'

LEMMA ProcessKeeps ==
  ASSUME CodexInv, ~codexDone, NEW p \in Rollout, ProcessFile(p),
         UNCHANGED <<fileVars, discovered, scanCount, codexDone, collected, codexTrouble>>
  PROVE  Processed
<1> DEFINE known == Max({codexSeen[p], 0})
           from == IF grown[p] < known THEN 0 ELSE known
           at == ReadRollout(p, from, models[SessOf[p]], pendingCalls)
           s == SessOf[p]
<1>1. /\ CodexTyped /\ RowsKept /\ StartsKept /\ \A q \in Rollout : SeenKept(q)
      /\ script \in Scenarios /\ UNCHANGED <<script, grown, where>>
      /\ grown[p] \in Nat /\ grown[p] <= 3 * Len(script[p])
      /\ models[s] \in SessionModels /\ pendingCalls \in [CallId -> CallState]
  BY SessionIs DEF CodexInv, CodexTyped, fileVars
<1>2. /\ known = IF codexSeen[p] = Unseen THEN 0 ELSE codexSeen[p]
      /\ Boundary(known) /\ known \in Nat /\ known <= 3 * Len(script[p])
  BY <1>1, KnownIs
<1>3. from \in Nat /\ (from = known \/ from = 0)
  BY <1>2
<1>4. FailedCalls' = FailedCalls /\ FailedCalls \subseteq Settled
  BY <1>1, SameFound DEF Settled
<1> HIDE DEF known
<1>5. CASE grown[p] = from
  <2>1. /\ codexSeen' = IF from < known THEN [codexSeen EXCEPT ![p] = 0] ELSE codexSeen
        /\ UNCHANGED <<models, pendingCalls, pendingStarts, effectVars>>
    BY <1>5 DEF ProcessFile, known
  <2>2. UNCHANGED <<usageRows, started, active, changed>>
    BY <2>1 DEF effectVars
  <2>3. RowsKept' /\ StartsKept'
    BY <1>1, <2>1, SameRows
  <2>4. CodexTyped'
    <3>1. Boundary(0) /\ Len(script[p]) \in Nat
      BY <1>1, EntryIs DEF Boundary
    <3>2. /\ codexSeen' \in [Rollout -> Nat \cup {Unseen}]
          /\ \A q \in Rollout : codexSeen'[q] # Unseen => Boundary(codexSeen'[q]) /\ codexSeen'[q] <= 3 * Len(script[q])
      BY <1>1, <2>1, <3>1 DEF CodexTyped
    <3> QED
      BY <1>1, <2>1, <2>2, <3>2 DEF CodexTyped, Boundary
  <2>5. ASSUME NEW q \in Rollout PROVE SeenKept(q)'
    <3>1. Settled' = Settled
      BY <1>4, <2>2 DEF Settled
    <3>2. CASE codexSeen'[q] = codexSeen[q]
      <4> HIDE DEF Settled
      <4> QED
        BY <1>1, <2>1, <2>2, <3>1, <3>2, CarriedOver
    <3>3. CASE codexSeen'[q] # codexSeen[q]
      <4>1. q = p /\ codexSeen'[p] = 0
        BY <1>1, <2>1, <3>3 DEF CodexTyped
      <4>2. HasRead(p, 0, 0, models[s], pendingCalls, {}, {})
        BY <1>1, FromTheStart
      <4>3. {} \cup Changes({}) \subseteq Settled'
        BY DEF Changes
      <4>4. ~(2 <= 0)
        OBVIOUS
      <4> HIDE DEF Settled
      <4> QED
        BY <1>1, <2>1, <4>1, <4>2, <4>3, <4>4, ReadOver
    <3> QED
      BY <3>2, <3>3
  <2> QED
    BY <2>3, <2>4, <2>5 DEF Processed
<1>6. CASE grown[p] # from
  <2>1. /\ codexSeen' = [codexSeen EXCEPT ![p] = at.off]
        /\ models' = [models EXCEPT ![s] = at.model]
        /\ pendingCalls' = at.calls
        /\ EmitOrDefer(p, at.events)
    BY <1>6 DEF ProcessFile, known
  <2>2. HasRead(p, from, from, models[s], pendingCalls, {}, Settled)
    <3>1. CASE from = 0
      BY <1>1, <3>1, FromTheStart
    <3>2. CASE from # 0
      <4>1. from = codexSeen[p] /\ codexSeen[p] # Unseen /\ SeenKept(p)
        BY <1>1, <1>2, <1>3, <3>2
      <4>2. Contexted(p, from, models[s])
        BY <4>1 DEF SeenKept
      <4>3. CallsKept(p, from, pendingCalls, Settled) /\ OutputsKept(p, from, Settled)
        BY <4>1 DEF SeenKept
      <4>4. Settled \cup Changes({}) = Settled
        BY DEF Changes
      <4>5. MetaKept(p, from, from, {})
        BY DEF MetaKept
      <4>6. Boundary(from) /\ from <= from /\ from <= 3 * Len(script[p])
        BY <1>2, <1>3, <3>2
      <4> HIDE DEF Settled, from
      <4> QED
        BY <1>1, <4>2, <4>3, <4>4, <4>5, <4>6 DEF HasRead
    <3> QED
      BY <3>1, <3>2
  <2>3. WellRead(p, from, models[s], pendingCalls, Settled, at)
    <3> HIDE DEF from, Settled
    <3> QED
      BY <1>1, <1>3, <1>4, <2>2, ReadKeeps
  <2> DEFINE T == ToSet(at.events)
  <2> HIDE DEF from, at
  <2>4. /\ HasRead(p, from, at.off, at.model, at.calls, T, Settled) /\ IsList(at.events)
        /\ models[s] # NoModel => at.model # NoModel
        /\ \A c \in CallId : pendingCalls[c] # "none" => at.calls[c] # "none" \/ c \in Settled \cup Changes(T)
    BY <2>3 DEF WellRead
  <2>5. /\ Boundary(at.off) /\ at.off \in Nat /\ at.off <= 3 * Len(script[p]) /\ at.model \in SessionModels
        /\ at.calls \in [CallId -> CallState] /\ (T # {} => from < at.off) /\ \A e \in T : Sound(p, e)
    BY <2>4 DEF HasRead, Boundary
  <2>6. ASSUME BeginsWithMeta(s), 2 <= at.off
        PROVE  s \in pendingStarts \cup started \/ Starting(T)
    <3>1. CASE 2 <= from
      <4>1. from = codexSeen[p] /\ codexSeen[p] # Unseen /\ SeenKept(p)
        BY <1>1, <1>2, <1>3, <3>1
      <4> QED
        BY <2>6, <3>1, <4>1 DEF SeenKept
    <3>2. CASE ~(2 <= from)
      <4> HIDE DEF Settled, T
      <4> QED
        BY <1>1, <1>3, <2>4, <2>6, <3>2, HasStart
    <3> QED
      BY <3>1, <3>2
  <2>7. (BeginsWithMeta(s) /\ T # {}) => s \in pendingStarts \cup started \/ Starting(T)
    <3>1. T # {} => 2 <= at.off
      BY <1>3, <2>5 DEF Boundary
    <3> QED
      BY <2>6, <3>1
  <2>8. Emitted(p, T)
    BY <1>1, <2>1, <2>4, <2>5, <2>7, EmitKeeps
  <2>9. /\ codexSeen' \in [Rollout -> Nat \cup {Unseen}] /\ codexSeen'[p] = at.off
        /\ \A q \in Rollout : q # p => codexSeen'[q] = codexSeen[q]
        /\ models' \in [Session -> SessionModels] /\ models'[s] = at.model
        /\ \A q \in Session : q # s => models'[q] = models[q]
    BY <1>1, <2>1, <2>5, SessionIs DEF CodexTyped
  <2>10. CodexTyped'
    <3>1. \A q \in Rollout : codexSeen'[q] # Unseen => Boundary(codexSeen'[q]) /\ codexSeen'[q] <= 3 * Len(script[q])
      BY <1>1, <2>5, <2>9 DEF CodexTyped
    <3> QED
      BY <1>1, <2>1, <2>5, <2>8, <2>9, <3>1 DEF CodexTyped, Emitted, Boundary
  <2>11. Settled \subseteq Settled' /\ Settled \cup Changes(T) \subseteq Settled'
    BY <1>4, <2>8 DEF Settled, Emitted
  <2>12. ASSUME NEW q \in Rollout PROVE SeenKept(q)'
    <3>1. CASE q = p
      <4>1. BeginsWithMeta(s) /\ 2 <= at.off => s \in pendingStarts' \cup started'
        BY <2>6, <2>8 DEF Emitted
      <4> HIDE DEF Settled, T
      <4> QED
        BY <1>1, <2>1, <2>4, <2>9, <2>11, <3>1, <4>1, ReadOver
    <3>2. CASE q # p
      <4>1. models[SessOf[q]] # NoModel => models'[SessOf[q]] # NoModel
        BY <2>4, <2>9, SessionIs
      <4>2. pendingStarts \cup started \subseteq pendingStarts' \cup started'
        BY <2>8 DEF Emitted
      <4>3. \A c \in CallId : pendingCalls[c] # "none" => pendingCalls'[c] # "none" \/ c \in Settled'
        BY <2>1, <2>4, <2>11
      <4> HIDE DEF Settled, T
      <4> QED
        BY <1>1, <2>9, <2>11, <3>2, <4>1, <4>2, <4>3, CarriedOver
    <3> QED
      BY <3>1, <3>2
  <2> QED
    BY <2>8, <2>10, <2>12 DEF Processed, Emitted
<1> QED
  BY <1>5, <1>6

LEMMA ForgetKeeps ==
  ASSUME CodexInv, NEW p \in Rollout, codexSeen' = [codexSeen EXCEPT ![p] = Unseen],
         UNCHANGED <<fileVars, models, pendingCalls, pendingStarts, effectVars, discovered, scanCount,
                     codexDone, collected, codexTrouble>>
  PROVE  Processed
<1>1. UNCHANGED <<script, grown, where, usageRows, started, active, changed>>
  BY DEF fileVars, effectVars
<1>2. CodexTyped /\ RowsKept /\ StartsKept /\ \A q \in Rollout : SeenKept(q)
  BY DEF CodexInv
<1>3. RowsKept' /\ StartsKept'
  BY <1>1, <1>2, SameRows
<1>4. /\ codexSeen' \in [Rollout -> Nat \cup {Unseen}] /\ codexSeen'[p] = Unseen
      /\ \A q \in Rollout : q # p => codexSeen'[q] = codexSeen[q]
  BY <1>2 DEF CodexTyped
<1>5. CodexTyped'
  BY <1>1, <1>2, <1>4 DEF CodexTyped, Boundary
<1>6. FailedCalls' = FailedCalls
  BY <1>1, SameFound
<1>7. Settled' = Settled
  BY <1>1, <1>6 DEF Settled
<1>8. ASSUME NEW q \in Rollout PROVE SeenKept(q)'
  <2>1. CASE q = p
    BY <1>4, <2>1 DEF SeenKept
  <2>2. CASE q # p
    <3>1. script \in Scenarios
      BY <1>2 DEF CodexTyped
    <3> HIDE DEF Settled
    <3> QED
      BY <1>1, <1>2, <1>4, <1>7, <2>2, <3>1, CarriedOver
  <2> QED
    BY <2>1, <2>2
<1> QED
  BY <1>3, <1>5, <1>8 DEF Processed


-----------------------------------------------------------------------------
(* The actions of the Codex watcher.                                       *)

LEMMA QuietStep ==
  ASSUME CodexInv, UNCHANGED <<script, codexSeen, models, pendingStarts, effectVars>>,
         codexDone' \/ (~codexDone /\ collected \subseteq collected'
                        /\ \A c \in CallId : pendingCalls[c] # "none" =>
                             pendingCalls'[c] # "none" \/ c \in collected'),
         CodexTyped', CodexPassKept'
  PROVE  CodexInv'
<1>1. UNCHANGED <<started, changed>>
  BY DEF effectVars
<1>2. RowsKept' /\ StartsKept'
  BY SameRows DEF CodexInv
<1>3. \A p \in Rollout : SeenKept(p)'
  BY <1>1, SameSeen
<1> QED
  BY <1>2, <1>3 DEF CodexInv

\* The same where the pass is what changes.
LEMMA PassStep ==
  ASSUME CodexInv,
         UNCHANGED <<fileVars, memoryVars, codexDone, effectVars, collected, codexTrouble>>, CodexPassKept'
  PROVE  CodexInv'
<1>1. UNCHANGED <<script, grown, where, codexSeen, discovered, models, pendingCalls, pendingStarts, scanCount,
                  started, active, changed>>
  BY DEF fileVars, memoryVars, effectVars
<1>2. CodexTyped'
  BY <1>1 DEF CodexInv, CodexTyped, Boundary
<1> QED
  BY <1>1, <1>2, QuietStep

\* Which disjunct of CodexPassKept a program counter belongs to.
LEMMA CodexPassIs ==
  ASSUME CodexPassKept
  PROVE  /\ codexPass.pc = "collect" =>
              /\ codexPass = [pc |-> "collect", got |-> codexPass.got, todo |-> codexPass.todo]
              /\ codexPass.todo \in SUBSET Rollout
              /\ \A r \in codexPass.got : Found(r)
              /\ ~discovered /\ (codexPass.todo # {} => \A p \in Rollout : codexSeen[p] = Unseen)
         /\ codexPass.pc \in {"known", "recent"} =>
              /\ codexPass = [pc |-> codexPass.pc, todo |-> codexPass.todo]
              /\ codexPass.todo \in SUBSET Rollout /\ discovered
         /\ codexPass.pc \in {"idle", "collect", "known", "recent"}
<1>1. Idling.pc = "idle"
  BY DEF Idling
<1>2. CASE codexPass = Idling
  BY <1>1, <1>2
<1>3. CASE codexPass.pc = "collect"
  BY <1>1, <1>3 DEF CodexPassKept
<1>4. CASE codexPass.pc \in {"known", "recent"}
  BY <1>1, <1>4 DEF CodexPassKept
<1> QED
  BY <1>1, <1>2, <1>3, <1>4 DEF CodexPassKept

LEMMA TickKeeps ==
  ASSUME CodexInv, CodexTick
  PROVE  CodexInv'
<1>1. codexPass = Idling /\ UNCHANGED <<codexSeen, discovered>> /\ CodexPassKept
  BY DEF CodexTick, CodexInv, memoryVars
<1>2. ~discovered => \A p \in Rollout : codexSeen[p] = Unseen
  BY <1>1 DEF CodexPassKept, Idling
<1>3. CodexPassKept'
  <2>1. CASE discovered
    <3>1. codexPass' = [pc |-> "known", todo |-> {p \in Rollout : codexSeen[p] # Unseen}]
      BY <2>1 DEF CodexTick
    <3> QED
      BY <1>1, <2>1, <3>1 DEF CodexPassKept
  <2>2. CASE ~discovered
    <3>1. codexPass' = [pc |-> "collect", got |-> {},
                        todo |-> {p \in Rollout : Exists(p) /\ grown[p] > codexSeen[p]}]
      BY <2>2 DEF CodexTick
    <3> QED
      BY <1>1, <1>2, <2>2, <3>1 DEF CodexPassKept
  <2> QED
    BY <2>1, <2>2
<1> QED
  BY <1>3, PassStep DEF CodexTick

LEMMA DiscoverKeeps ==
  ASSUME CodexInv, NEW p \in Rollout, DiscoverOne(p)
  PROVE  CodexInv'
<1> DEFINE at == ReadRollout(p, Max({codexSeen[p], 0}), models[SessOf[p]], NoCalls)
           result == [path |-> p, off |-> at.off, model |-> at.model, calls |-> at.calls, events |-> at.events]
<1>1. /\ CodexTyped /\ script \in Scenarios /\ CodexPassKept
      /\ grown[p] \in Nat /\ grown[p] <= 3 * Len(script[p])
      /\ models[SessOf[p]] \in SessionModels
  BY SessionIs DEF CodexInv, CodexTyped
<1>2. codexPass.pc = "collect" /\ p \in codexPass.todo
  BY DEF DiscoverOne
<1>3. codexPass' = IF codexDone THEN [codexPass EXCEPT !.todo = {}]
                   ELSE [codexPass EXCEPT !.todo = @ \ {p},
                           !.got = IF Exists(p) THEN @ \cup {result} ELSE @]
  BY DEF DiscoverOne
<1>4. /\ codexPass = [pc |-> "collect", got |-> codexPass.got, todo |-> codexPass.todo]
      /\ codexPass.todo \in SUBSET Rollout
      /\ \A r \in codexPass.got : Found(r)
      /\ ~discovered /\ \A q \in Rollout : codexSeen[q] = Unseen
  BY <1>1, <1>2, CodexPassIs
<1>5. UNCHANGED <<script, codexSeen, discovered>>
  BY DEF DiscoverOne, fileVars, memoryVars
<1>6. Found(result)
  <2>1. Max({codexSeen[p], 0}) = 0
    BY <1>1, <1>4, KnownIs
  <2>2. NoCalls \in [CallId -> CallState]
    BY DEF NoCalls, CallState
  <2>3. HasRead(p, 0, 0, models[SessOf[p]], NoCalls, {}, FailedCalls)
    BY <1>1, <2>2, FromTheStart
  <2>4. WellRead(p, 0, models[SessOf[p]], NoCalls, FailedCalls,
                 ReadRollout(p, 0, models[SessOf[p]], NoCalls))
    BY <1>1, <2>3, ReadKeeps
  <2>5. WellRead(p, 0, models[SessOf[p]], NoCalls, FailedCalls, at)
    BY <2>1, <2>4
  <2> HIDE DEF at
  <2>6. HasRead(p, 0, at.off, at.model, at.calls, ToSet(at.events), FailedCalls) /\ IsList(at.events)
    BY <2>5 DEF WellRead
  <2>7. /\ result.path = p /\ result.off = at.off /\ result.model = at.model
        /\ result.calls = at.calls /\ result.events = at.events
    OBVIOUS
  <2> HIDE DEF result
  <2> QED
    BY <2>6, <2>7 DEF Found
<1> HIDE DEF at, result
<1>7. CodexPassKept'
  <2>1. PICK got, todo :
          /\ codexPass' = [pc |-> "collect", got |-> got, todo |-> todo]
          /\ todo \in SUBSET Rollout /\ got \subseteq codexPass.got \cup {result}
    <3>1. CASE codexDone
      <4>1. codexPass' = [pc |-> "collect", got |-> codexPass.got, todo |-> {}]
        BY <1>3, <1>4, <3>1
      <4> QED
        BY <4>1
    <3>2. CASE ~codexDone
      <4>1. PICK new : new = IF Exists(p) THEN codexPass.got \cup {result} ELSE codexPass.got
        OBVIOUS
      <4>2. codexPass' = [codexPass EXCEPT !.todo = @ \ {p}, !.got = new]
        BY <1>3, <3>2, <4>1, Zenon
      <4>3. codexPass' = [pc |-> "collect", got |-> new, todo |-> codexPass.todo \ {p}]
        <5>1. PICK mid : mid = [codexPass EXCEPT !.todo = @ \ {p}]
          OBVIOUS
        <5>2. mid = [pc |-> "collect", got |-> codexPass.got, todo |-> codexPass.todo \ {p}]
          BY <1>4, <5>1
        <5>3. codexPass' = [mid EXCEPT !.got = new]
          BY <4>2, <5>1, Zenon
        <5> QED
          BY <5>2, <5>3
      <4>4. codexPass.todo \ {p} \in SUBSET Rollout /\ new \subseteq codexPass.got \cup {result}
        BY <1>4, <4>1
      <4> QED
        BY <4>3, <4>4, Zenon
    <3> QED
      BY <3>1, <3>2
  <2>2. \A r \in got : Found(r)'
    BY <1>4, <1>5, <1>6, <2>1, SameFound
  <2>3. codexPass'.pc = "collect" /\ codexPass'.got = got /\ codexPass'.todo = todo
    BY <2>1
  <2> QED
    BY <1>4, <1>5, <2>1, <2>2, <2>3 DEF CodexPassKept
<1> QED
  BY <1>7, PassStep DEF DiscoverOne

LEMMA MergeKeeps ==
  ASSUME CodexInv, NEW r \in codexPass.got, MergeResult(r)
  PROVE  CodexInv'
<1> DEFINE s == SessOf[r.path]
           T == ToSet(r.events)
<1>1. /\ CodexTyped /\ script \in Scenarios /\ CodexPassKept /\ RowsKept /\ StartsKept
      /\ \A q \in Rollout : SeenKept(q)
  BY DEF CodexInv, CodexTyped
<1>2. codexPass.pc = "collect" /\ codexPass.todo = {}
  BY DEF MergeResult
<1>3. /\ codexPass = [pc |-> "collect", got |-> codexPass.got, todo |-> codexPass.todo]
      /\ \A x \in codexPass.got : Found(x)
      /\ ~discovered
  BY <1>1, <1>2, CodexPassIs
<1>4. /\ UNCHANGED <<script, grown, where, discovered, scanCount, codexDone, collected, codexTrouble>>
      /\ codexSeen' = [codexSeen EXCEPT ![r.path] = r.off]
      /\ models' = IF r.model # NoModel THEN [models EXCEPT ![s] = r.model] ELSE models
      /\ pendingCalls' = [c \in CallId |-> IF r.calls[c] # "none" THEN r.calls[c] ELSE pendingCalls[c]]
      /\ codexPass' = [codexPass EXCEPT !.got = @ \ {r}]
  BY DEF MergeResult, fileVars
<1>5. IF codexDone /\ Substantive(r.events)
      THEN UNCHANGED <<effectVars, pendingStarts>> ELSE EmitOrDefer(r.path, r.events)
  BY DEF MergeResult
<1>6. /\ r.path \in Rollout /\ IsList(r.events)
      /\ HasRead(r.path, 0, r.off, r.model, r.calls, T, FailedCalls)
  BY <1>3 DEF Found
<1>7. /\ Boundary(r.off) /\ r.off \in Nat /\ r.off <= 3 * Len(script[r.path]) /\ r.model \in SessionModels
      /\ r.calls \in [CallId -> CallState] /\ (T # {} => 0 < r.off) /\ \A e \in T : Sound(r.path, e)
  BY <1>6 DEF HasRead, Boundary
<1>8. s \in Session
  BY <1>6, SessionIs
<1>9. ASSUME BeginsWithMeta(s), 2 <= r.off PROVE Starting(T)
  <2>1. ~(2 <= 0) /\ 0 \in Nat
    OBVIOUS
  <2> HIDE DEF T
  <2> QED
    BY <1>1, <1>6, <1>9, <2>1, HasStart
<1>10. (BeginsWithMeta(s) /\ T # {}) => s \in pendingStarts \cup started \/ Starting(T)
  <2>1. T # {} => 2 <= r.off
    BY <1>7 DEF Boundary
  <2> QED
    BY <1>9, <2>1
<1>11. /\ codexDone' \/ Emitted(r.path, T)
       /\ pendingStarts' \in SUBSET Session /\ started' \in SUBSET Session
       /\ active' \in SUBSET Session /\ changed' \in SUBSET CallId
       /\ RowsKept' /\ StartsKept'
  <2>1. CASE codexDone /\ Substantive(r.events)
    <3>1. UNCHANGED <<effectVars, pendingStarts>>
      BY <1>5, <2>1
    <3>2. UNCHANGED <<started, active, changed>>
      BY <3>1 DEF effectVars
    <3>3. RowsKept' /\ StartsKept'
      BY <1>1, <1>4, <3>1, SameRows
    <3> QED
      BY <1>1, <1>4, <2>1, <3>1, <3>2, <3>3 DEF CodexTyped
  <2>2. CASE ~(codexDone /\ Substantive(r.events))
    <3>1. EmitOrDefer(r.path, r.events)
      BY <1>5, <2>2
    <3>2. Emitted(r.path, T)
      BY <1>1, <1>4, <1>6, <1>7, <1>10, <3>1, EmitKeeps
    <3> QED
      BY <3>2 DEF Emitted
  <2> QED
    BY <2>1, <2>2
<1>12. /\ codexSeen' \in [Rollout -> Nat \cup {Unseen}] /\ codexSeen'[r.path] = r.off
       /\ \A q \in Rollout : q # r.path => codexSeen'[q] = codexSeen[q]
  BY <1>1, <1>4, <1>6, <1>7 DEF CodexTyped
<1>13. /\ models' \in [Session -> SessionModels]
       /\ r.model # NoModel => models'[s] # NoModel
       /\ \A q \in Session : models[q] # NoModel => models'[q] # NoModel
  BY <1>1, <1>4, <1>7, <1>8 DEF CodexTyped
<1>14. /\ pendingCalls' \in [CallId -> CallState]
       /\ \A c \in CallId : r.calls[c] # "none" \/ pendingCalls[c] # "none" => pendingCalls'[c] # "none"
  BY <1>1, <1>4, <1>7 DEF CodexTyped
<1>15. CodexTyped'
  <2>1. \A q \in Rollout : codexSeen'[q] # Unseen => Boundary(codexSeen'[q]) /\ codexSeen'[q] <= 3 * Len(script[q])
    BY <1>1, <1>7, <1>12 DEF CodexTyped
  <2> QED
    BY <1>1, <1>4, <1>11, <1>12, <1>13, <1>14, <2>1 DEF CodexTyped, Boundary
<1>16. CodexPassKept'
  <2>1. \A x \in codexPass.got : Found(x)'
    BY <1>3, <1>4, SameFound
  <2>2. codexPass' = [pc |-> "collect", got |-> codexPass.got \ {r}, todo |-> {}]
    BY <1>2, <1>3, <1>4
  <2>3. codexPass'.pc = "collect" /\ codexPass'.got = codexPass.got \ {r} /\ codexPass'.todo = {}
    BY <2>2
  <2> QED
    BY <1>3, <1>4, <2>1, <2>2, <2>3 DEF CodexPassKept
<1>17. FailedCalls' = FailedCalls
  BY <1>4, SameFound
<1>18. ~codexDone' => /\ Emitted(r.path, T) /\ Settled \subseteq Settled'
                      /\ FailedCalls \cup Changes(T) \subseteq Settled'
  BY <1>4, <1>11, <1>17 DEF Settled, Emitted
<1>19. ASSUME NEW q \in Rollout PROVE SeenKept(q)'
  <2>1. CASE q = r.path
    <3>1. ~codexDone' => (BeginsWithMeta(s) /\ 2 <= r.off => s \in pendingStarts' \cup started')
      BY <1>9, <1>18 DEF Emitted
    <3> HIDE DEF Settled, T
    <3> QED
      BY <1>1, <1>4, <1>6, <1>12, <1>13, <1>14, <1>18, <2>1, <3>1, ReadOver
  <2>2. CASE q # r.path
    <3>1. ~codexDone' => pendingStarts \cup started \subseteq pendingStarts' \cup started'
      BY <1>18 DEF Emitted
    <3>2. SessOf[q] \in Session
      BY SessionIs
    <3> HIDE DEF Settled, T
    <3> QED
      BY <1>1, <1>4, <1>12, <1>13, <1>14, <1>18, <2>2, <3>1, <3>2, CarriedOver
  <2> QED
    BY <2>1, <2>2
<1> QED
  BY <1>11, <1>15, <1>16, <1>19 DEF CodexInv

LEMMA DiscoveredKeeps ==
  ASSUME CodexInv, Discovered
  PROVE  CodexInv'
<1>1. UNCHANGED <<script, grown, where, codexSeen, models, pendingCalls, pendingStarts, scanCount, codexDone,
                  effectVars, collected, codexTrouble>>
  BY DEF Discovered, fileVars
<1>2. discovered' = TRUE /\ codexPass' = Idling
  BY DEF Discovered
<1>3. CodexPassKept'
  BY <1>2 DEF CodexPassKept, Idling
<1>4. UNCHANGED <<started, active, changed>>
  BY <1>1 DEF effectVars
<1>5. CodexTyped'
  BY <1>1, <1>2, <1>4 DEF CodexInv, CodexTyped, Boundary
<1>7. CASE codexDone
  BY <1>1, <1>3, <1>5, <1>7, QuietStep
<1>8. CASE ~codexDone
  BY <1>1, <1>3, <1>5, <1>8, QuietStep
<1> QED
  BY <1>7, <1>8

\* One file of a scan is done.
LEMMA OneLess ==
  ASSUME CodexInv, codexPass.pc \in {"known", "recent"}, NEW p, codexPass' = [codexPass EXCEPT !.todo = @ \ {p}],
         UNCHANGED discovered
  PROVE  CodexPassKept'
<1>1. /\ codexPass = [pc |-> codexPass.pc, todo |-> codexPass.todo]
      /\ codexPass.todo \in SUBSET Rollout /\ discovered
  BY CodexPassIs DEF CodexInv
<1>2. codexPass' = [pc |-> codexPass.pc, todo |-> codexPass.todo \ {p}]
  BY <1>1
<1>3. codexPass'.pc = codexPass.pc /\ codexPass'.todo = codexPass.todo \ {p}
  BY <1>2
<1> QED
  BY <1>1, <1>2, <1>3 DEF CodexPassKept

LEMMA ScanKnownKeeps ==
  ASSUME CodexInv, NEW p \in Rollout, ScanKnown(p)
  PROVE  CodexInv'
<1>1. /\ codexPass.pc = "known" /\ ~codexDone /\ codexPass' = [codexPass EXCEPT !.todo = @ \ {p}]
      /\ UNCHANGED <<fileVars, discovered, scanCount, codexDone, collected, codexTrouble>>
  BY DEF ScanKnown
<1>2. CodexPassKept'
  BY <1>1, OneLess
<1>3. Processed
  <2>1. CASE Exists(p)
    <3>1. ProcessFile(p)
      BY <2>1 DEF ScanKnown
    <3> QED
      BY <1>1, <3>1, ProcessKeeps
  <2>2. CASE ~Exists(p)
    <3>1. /\ codexSeen' = [codexSeen EXCEPT ![p] = Unseen]
          /\ UNCHANGED <<models, pendingCalls, pendingStarts, effectVars>>
      BY <2>2 DEF ScanKnown
    <3> QED
      BY <1>1, <3>1, ForgetKeeps
  <2> QED
    BY <2>1, <2>2
<1> QED
  BY <1>2, <1>3 DEF Processed, CodexInv

LEMMA ScanRecentKeeps ==
  ASSUME CodexInv, NEW p \in Rollout, ScanRecent(p)
  PROVE  CodexInv'
<1>1. /\ codexPass.pc = "recent" /\ ~codexDone /\ codexPass' = [codexPass EXCEPT !.todo = @ \ {p}]
      /\ UNCHANGED <<fileVars, discovered, scanCount, codexDone, collected, codexTrouble>>
  BY DEF ScanRecent
<1>2. CodexPassKept'
  BY <1>1, OneLess
<1>3. CASE where[p] = "recent"
  <2>1. ProcessFile(p)
    BY <1>3 DEF ScanRecent
  <2>2. Processed
    BY <1>1, <2>1, ProcessKeeps
  <2> QED
    BY <1>2, <2>2 DEF Processed, CodexInv
<1>4. CASE where[p] # "recent"
  <2>1. UNCHANGED <<codexSeen, models, pendingCalls, pendingStarts, effectVars>>
    BY <1>4 DEF ScanRecent
  <2>2. UNCHANGED <<fileVars, memoryVars, codexDone, effectVars, collected, codexTrouble>>
    BY <1>1, <2>1 DEF memoryVars
  <2> QED
    BY <1>2, <2>2, PassStep
<1> QED
  BY <1>3, <1>4

LEMMA KnownScannedKeeps ==
  ASSUME CodexInv, KnownScanned
  PROVE  CodexInv'
<1>1. /\ codexPass.pc = "known" /\ codexPass' = [pc |-> "recent", todo |-> {p \in Rollout : where[p] = "recent"}]
      /\ UNCHANGED <<fileVars, memoryVars, codexDone, effectVars, collected, codexTrouble>>
  BY DEF KnownScanned
<1>2. discovered /\ discovered' = discovered
  BY <1>1, CodexPassIs DEF CodexInv, memoryVars
<1>3. CodexPassKept'
  BY <1>1, <1>2 DEF CodexPassKept
<1> QED
  BY <1>1, <1>3, PassStep

LEMMA ScanEndsKeeps ==
  ASSUME CodexInv, ScanEnds
  PROVE  CodexInv'
<1> DEFINE stale == {c \in CallId : scanCount' = 0 /\ pendingCalls[c] = "old"}
<1>1. /\ codexPass.pc = "recent" /\ codexPass' = Idling
      /\ scanCount' = (scanCount + 1) % GcInterval
      /\ pendingCalls' = [c \in CallId |-> IF c \in stale THEN "none" ELSE pendingCalls[c]]
      /\ collected' = collected \cup stale
      /\ UNCHANGED <<script, grown, where, codexSeen, discovered, models, pendingStarts, codexDone, effectVars,
                     codexTrouble>>
  BY DEF ScanEnds, fileVars
<1>2. discovered /\ CodexTyped
  BY <1>1, CodexPassIs DEF CodexInv
<1>3. CodexPassKept'
  BY <1>1, <1>2 DEF CodexPassKept
<1>4. scanCount' \in 0 .. GcInterval - 1
  BY <1>1, <1>2, CodexAssumption DEF CodexTyped
<1>5. pendingCalls' \in [CallId -> CallState] /\ collected' \in SUBSET CallId
  BY <1>1, <1>2 DEF CodexTyped, CallState
<1>6. UNCHANGED <<started, active, changed>>
  BY <1>1 DEF effectVars
<1>7. CodexTyped'
  BY <1>1, <1>2, <1>4, <1>5, <1>6 DEF CodexTyped, Boundary
<1>8. \A c \in CallId : pendingCalls[c] # "none" => pendingCalls'[c] # "none" \/ c \in collected'
  BY <1>1
<1>9. collected \subseteq collected'
  BY <1>1
<1> HIDE DEF stale
<1> QED
  BY <1>1, <1>3, <1>7, <1>8, <1>9, QuietStep

LEMMA TroubleIs ==
  ASSUME CodexTyped, Trouble
  PROVE  codexTrouble' \in 0 .. CodexUpsets
BY CodexAssumption DEF CodexTyped, Trouble

LEMMA StopKeeps ==
  ASSUME CodexInv, StopCodex
  PROVE  CodexInv'
<1>1. /\ codexDone' = TRUE /\ Trouble
      /\ UNCHANGED <<script, grown, where, codexSeen, discovered, models, pendingCalls, pendingStarts,
                     scanCount, codexPass, effectVars, collected>>
  BY DEF StopCodex, fileVars, memoryVars
<1>2. UNCHANGED <<started, active, changed>>
  BY <1>1 DEF effectVars
<1>3. CodexTyped'
  BY <1>1, <1>2, TroubleIs DEF CodexInv, CodexTyped, Boundary
<1>4. CodexPassKept'
  <2>1. \A r : Found(r)' <=> Found(r)
    BY <1>1, SameFound
  <2> QED
    BY <1>1, <2>1 DEF CodexInv, CodexPassKept
<1> QED
  BY <1>1, <1>3, <1>4, QuietStep

LEMMA RestartKeeps ==
  ASSUME CodexInv, RestartCodex
  PROVE  CodexInv'
<1>1. /\ codexSeen' = [p \in Rollout |-> Unseen] /\ discovered' = FALSE
      /\ models' = [s \in Session |-> NoModel] /\ pendingCalls' = NoCalls /\ pendingStarts' = {}
      /\ scanCount' = 0 /\ codexPass' = Idling /\ codexDone' = FALSE
      /\ UNCHANGED <<script, grown, where, effectVars, collected>>
  BY DEF RestartCodex, fileVars
<1>2. CodexTyped /\ RowsKept /\ StartsKept
  BY DEF CodexInv
<1>3. codexTrouble' \in 0 .. CodexUpsets
  BY <1>2, TroubleIs DEF RestartCodex, CodexTyped
<1>4. UNCHANGED <<started, active, changed>>
  BY <1>1 DEF effectVars
<1>5. 0 \in 0 .. GcInterval - 1
  BY CodexAssumption
<1>6. CodexTyped'
  <2>1. \A p \in Rollout : codexSeen'[p] = Unseen
    BY <1>1
  <2>2. models' \in [Session -> SessionModels] /\ pendingCalls' \in [CallId -> CallState]
    BY <1>1 DEF NoCalls, CallState, SessionModels
  <2>3. codexSeen' \in [Rollout -> Nat \cup {Unseen}]
    BY <1>1
  <2> QED
    BY <1>1, <1>2, <1>3, <1>4, <1>5, <2>1, <2>2, <2>3 DEF CodexTyped
<1>7. CodexPassKept' /\ \A p \in Rollout : SeenKept(p)'
  BY <1>1 DEF CodexPassKept, SeenKept
<1>8. RowsKept' /\ StartsKept'
  BY <1>1, <1>2, SameRows
<1> QED
  BY <1>6, <1>7, <1>8 DEF CodexInv

\* What happens to the files leaves the watcher as it is.
LEMMA OutsideKeeps ==
  ASSUME CodexInv, CodexTyped', UNCHANGED <<script, memoryVars, codexPass, codexDone, effectVars, collected>>
  PROVE  CodexInv'
<1>1. UNCHANGED <<codexSeen, discovered, models, pendingCalls, pendingStarts>>
  BY DEF memoryVars
<1>2. CodexPassKept'
  <2>1. \A r : Found(r)' <=> Found(r)
    BY SameFound
  <2> QED
    BY <1>1, <2>1 DEF CodexInv, CodexPassKept
<1> QED
  BY <1>1, <1>2, QuietStep

LEMMA GrowKeeps ==
  ASSUME CodexInv, NEW p \in Rollout, GrowRollout(p)
  PROVE  CodexInv'
<1>1. UNCHANGED <<script, where, memoryVars, codexPass, codexDone, effectVars, collected, codexTrouble>>
  BY DEF GrowRollout
<1>2. UNCHANGED <<codexSeen, discovered, models, pendingCalls, pendingStarts, scanCount, started, active, changed>>
  BY <1>1 DEF memoryVars, effectVars
<1>3. PICK n \in grown[p] + 1 .. 3 * LineAt(grown[p]) : grown' = [grown EXCEPT ![p] = n]
  BY DEF GrowRollout
<1>4. grown'[p] <= 3 * Len(script[p])
  BY DEF GrowRollout
<1>5. grown \in [Rollout -> Nat] /\ \A q \in Rollout : grown[q] <= 3 * Len(script[q])
  BY DEF CodexInv, CodexTyped
<1>6. n \in Nat
  BY <1>3, <1>5
<1>7. grown' \in [Rollout -> Nat] /\ \A q \in Rollout : grown'[q] <= 3 * Len(script[q])
  BY <1>3, <1>4, <1>5, <1>6
<1>8. CodexTyped'
  BY <1>1, <1>2, <1>7 DEF CodexInv, CodexTyped, Boundary
<1> QED
  BY <1>1, <1>8, OutsideKeeps

LEMMA CutKeeps ==
  ASSUME CodexInv, NEW p \in Rollout, CutRollout(p)
  PROVE  CodexInv'
<1>1. /\ UNCHANGED <<script, where, memoryVars, codexPass, codexDone, effectVars, collected>>
      /\ Trouble /\ grown' = [grown EXCEPT ![p] = 0]
  BY DEF CutRollout
<1>2. UNCHANGED <<codexSeen, discovered, models, pendingCalls, pendingStarts, scanCount, started, active, changed>>
  BY <1>1 DEF memoryVars, effectVars
<1>3. Len(script[p]) \in Nat
  BY EntryIs DEF CodexInv, CodexTyped
<1>4. grown' \in [Rollout -> Nat] /\ \A q \in Rollout : grown'[q] <= 3 * Len(script[q])
  BY <1>1, <1>3 DEF CodexInv, CodexTyped
<1>5. CodexTyped'
  BY <1>1, <1>2, <1>4, TroubleIs DEF CodexInv, CodexTyped, Boundary
<1> QED
  BY <1>1, <1>5, OutsideKeeps

LEMMA MoveKeeps ==
  ASSUME CodexInv, NEW p \in Rollout, MoveRollout(p)
  PROVE  CodexInv'
<1>1. /\ UNCHANGED <<script, grown, memoryVars, codexPass, codexDone, effectVars, collected>>
      /\ Trouble /\ where' \in {[where EXCEPT ![p] = "gone"], [where EXCEPT ![p] = "far"]}
  BY DEF MoveRollout
<1>2. UNCHANGED <<codexSeen, discovered, models, pendingCalls, pendingStarts, scanCount, started, active, changed>>
  BY <1>1 DEF memoryVars, effectVars
<1>3. where' \in [Rollout -> {"recent", "far", "gone"}]
  BY <1>1 DEF CodexInv, CodexTyped
<1>4. CodexTyped'
  BY <1>1, <1>2, <1>3, TroubleIs DEF CodexInv, CodexTyped, Boundary
<1> QED
  BY <1>1, <1>4, OutsideKeeps

LEMMA TwoHoursKeep ==
  ASSUME CodexInv, TwoHoursPass
  PROVE  CodexInv'
<1>1. /\ UNCHANGED <<script, grown, where, codexSeen, discovered, models, pendingStarts, scanCount, codexPass,
                     codexDone, effectVars, collected>>
      /\ Trouble
      /\ pendingCalls' = [c \in CallId |-> IF pendingCalls[c] = "none" THEN "none" ELSE "old"]
  BY DEF TwoHoursPass, fileVars
<1>2. UNCHANGED <<started, active, changed>>
  BY <1>1 DEF effectVars
<1>3. /\ pendingCalls' \in [CallId -> CallState]
      /\ \A c \in CallId : pendingCalls[c] # "none" => pendingCalls'[c] # "none"
  BY <1>1 DEF CallState
<1>4. CodexTyped'
  BY <1>1, <1>2, <1>3, TroubleIs DEF CodexInv, CodexTyped, Boundary
<1>5. CodexPassKept'
  <2>1. \A r : Found(r)' <=> Found(r)
    BY <1>1, SameFound
  <2> QED
    BY <1>1, <2>1 DEF CodexInv, CodexPassKept
<1> QED
  BY <1>1, <1>3, <1>4, <1>5, QuietStep

LEMMA CodexStarts ==
  ASSUME CodexInit
  PROVE  CodexInv
<1>1. /\ script \in Scenarios /\ grown = [p \in Rollout |-> 0]
      /\ where \in [Rollout -> {"recent", "far", "gone"}]
      /\ codexSeen = [p \in Rollout |-> Unseen] /\ discovered = FALSE
      /\ models = [s \in Session |-> NoModel] /\ pendingCalls = [c \in CallId |-> "none"]
      /\ pendingStarts = {} /\ scanCount = 0 /\ codexPass = Idling /\ codexDone = FALSE
      /\ usageRows = {} /\ started = {} /\ active = {} /\ changed = {} /\ collected = {} /\ codexTrouble = 0
  BY DEF CodexInit
<1>2. 0 \in 0 .. GcInterval - 1 /\ 0 \in 0 .. CodexUpsets
  BY CodexAssumption
<1>3. \A p \in Rollout : Len(script[p]) \in Nat
  BY <1>1, EntryIs
<1>4. \A p \in Rollout : codexSeen[p] = Unseen /\ grown[p] <= 3 * Len(script[p])
  BY <1>1, <1>3
<1>5. models \in [Session -> SessionModels] /\ pendingCalls \in [CallId -> CallState]
  BY <1>1 DEF SessionModels, CallState
<1>6. codexSeen \in [Rollout -> Nat \cup {Unseen}] /\ grown \in [Rollout -> Nat]
  BY <1>1
<1>7. CodexTyped
  BY <1>1, <1>2, <1>4, <1>5, <1>6 DEF CodexTyped
<1> QED
  BY <1>1, <1>4, <1>7 DEF CodexInv, CodexPassKept, RowsKept, StartsKept, SeenKept

LEMMA CodexKept ==
  ASSUME CodexInv, CodexNext
  PROVE  CodexInv'
<1>1. CASE CodexTick \/ Discovered \/ \E p \in Rollout : DiscoverOne(p)
  BY <1>1, TickKeeps, DiscoveredKeeps, DiscoverKeeps
<1>2. CASE codexPass.pc = "collect" /\ \E r \in codexPass.got : MergeResult(r)
  BY <1>2, MergeKeeps
<1>3. CASE \E p \in Rollout : ScanKnown(p) \/ ScanRecent(p)
  BY <1>3, ScanKnownKeeps, ScanRecentKeeps
<1>4. CASE KnownScanned \/ ScanEnds \/ StopCodex \/ RestartCodex \/ TwoHoursPass
  BY <1>4, KnownScannedKeeps, ScanEndsKeeps, StopKeeps, RestartKeeps, TwoHoursKeep
<1>5. CASE \E p \in Rollout : GrowRollout(p) \/ CutRollout(p) \/ MoveRollout(p)
  BY <1>5, GrowKeeps, CutKeeps, MoveKeeps
<1> QED
  BY <1>1, <1>2, <1>3, <1>4, <1>5 DEF CodexNext

LEMMA CodexStutters ==
  ASSUME CodexInv, UNCHANGED codexVars
  PROVE  CodexInv'
<1>1. UNCHANGED <<fileVars, memoryVars, codexPass, codexDone, effectVars, collected, codexTrouble>>
  BY DEF codexVars, fileVars, memoryVars, effectVars
<1>2. UNCHANGED <<script, discovered, codexSeen>>
  BY DEF codexVars
<1>3. CodexPassKept'
  <2>1. \A r : Found(r)' <=> Found(r)
    BY <1>2, SameFound
  <2> QED
    BY <1>1, <1>2, <2>1 DEF CodexInv, CodexPassKept
<1> QED
  BY <1>1, <1>3, PassStep

LEMMA CodexMeans ==
  ASSUME CodexInv
  PROVE  CodexTypeOK /\ ContextReaches /\ ActivityKept
<1>1. /\ CodexTyped /\ CodexPassKept /\ RowsKept /\ StartsKept /\ script \in Scenarios
      /\ \A p \in Rollout : SeenKept(p)
  BY DEF CodexInv, CodexTyped
<1>2. CodexTypeOK
  <2>1. SessionModels \subseteq ModelNames /\ RowModels \subseteq ModelNames
    BY DEF SessionModels, RowModels, ModelNames
  <2>2. models \in [Session -> ModelNames]
    BY <1>1, <2>1 DEF CodexTyped
  <2>3. \A r \in usageRows : r.n \in Nat /\ r.model \in ModelNames \ {NoModel}
    BY <1>1, <2>1 DEF RowsKept
  <2>4. codexPass.pc \in {"idle", "collect", "known", "recent"}
    BY <1>1, CodexPassIs
  <2>5. pendingCalls \in [CallId -> {"none", "fresh", "old"}]
    BY <1>1 DEF CodexTyped, CallState
  <2> QED
    BY <1>1, <2>2, <2>3, <2>4, <2>5 DEF CodexTyped, CodexTypeOK
<1>3. ContextReaches
  BY <1>1 DEF RowsKept, Explained, ContextReaches
<1>4. ASSUME NEW p \in Rollout, NEW i \in DOMAIN script[p], Committed(p, i)
      PROVE  LET l == script[p][i] IN
             /\ (l.kind = "meta" /\ BeginsWithMeta(SessOf[p]) /\ SessOf[p] \in active) => SessOf[p] \in started
             /\ (/\ l.kind = "output" /\ l.id \notin FailedCalls \cup collected
                 /\ \E j \in 1 .. i - 1 : script[p][j].kind = "call" /\ script[p][j].id = l.id)
                  => l.id \in changed
  <2>1. i \in Nat \ {0} /\ codexSeen[p] \in Nat \cup {-1} /\ 3 * i - 1 <= codexSeen[p] /\ ~codexDone
    BY <1>1, <1>4, EntryIs DEF Committed, CodexTyped, Unseen
  <2>2. codexSeen[p] # Unseen
    BY <2>1 DEF Unseen
  <2>3. OutputsKept(p, codexSeen[p], Settled)
    BY <1>1, <2>1, <2>2 DEF SeenKept
  <2>4. ASSUME script[p][i].kind = "output",
               NEW j \in 1 .. i - 1, script[p][j].kind = "call", script[p][j].id = script[p][i].id
        PROVE  script[p][i].id \in Settled
    BY <2>1, <2>3, <2>4 DEF OutputsKept, Past
  <2> QED
    BY <1>1, <2>4 DEF StartsKept, Settled
<1>5. ActivityKept
  BY <1>4 DEF ActivityKept
<1> QED
  BY <1>2, <1>3, <1>5

-----------------------------------------------------------------------------
(* The bounds of the Claude watcher, which its type invariant names.       *)

ClaudeBounded ==
  /\ \A f \in Log : written[f] <= 3 * MaxLines /\ seen[f] <= 3 * MaxLines
  /\ upsets <= MaxUpset
  /\ pass.pc = "collect" => \A r \in pass.got : r.off <= 3 * MaxLines
  /\ pass.pc = "read" => pass.off <= 3 * MaxLines

LEMMA BoundsQuiet ==
  ASSUME CountInv, ClaudeBounded, UNCHANGED <<written, seen, upsets>>,
         pass' = pass \/ pass'.pc \in {"idle", "next"}
  PROVE  ClaudeBounded'
BY DEF ClaudeBounded

LEMMA BoundsPoll ==
  ASSUME CountInv, ClaudeBounded, PollClaude
  PROVE  ClaudeBounded'
<1>1. /\ ClaudeTyped /\ PassTyped /\ SeenTold /\ ReadTold /\ GotTold
      /\ \A f \in Log : written[f] <= 3 * MaxLines /\ seen[f] <= 3 * MaxLines
      /\ pass.pc = "collect" => \A r \in pass.got : r.off <= 3 * MaxLines
      /\ pass.pc = "read" => pass.off <= 3 * MaxLines
      /\ upsets <= MaxUpset /\ upsets \in Nat /\ MaxUpset \in Nat /\ MaxLines \in Nat
  BY ClaudeAssumption DEF CountInv, ClaudeBounded, ClaudeTyped
<1>2. \A f \in Log : /\ text[f] \in Seq(Line) /\ written[f] \in Nat /\ written[f] <= 3 * Len(text[f])
                     /\ seen[f] \in Nat
  BY <1>1 DEF ClaudeTyped
<1>3. ASSUME ClaudeTick PROVE ClaudeBounded'
  <2>1. UNCHANGED <<written, seen, upsets>>
    BY <1>3 DEF ClaudeTick, diskVars
  <2>2. \/ pass'.pc \in {"idle", "next"}
        \/ pass'.pc = "collect" /\ pass'.got = {}
    <3>1. \/ pass' = Resting \/ pass' = [pc |-> "next", jobs |-> ChangedFiles]
          \/ pass' = [pc |-> "collect", todo |-> ChangedFiles, got |-> {}]
      BY <1>3 DEF ClaudeTick
    <3> QED
      BY <3>1 DEF Resting
  <2> QED
    BY <1>1, <2>1, <2>2 DEF ClaudeBounded
<1>4. ASSUME NEW f \in Log, CollectOne(f) PROVE ClaudeBounded'
  <2>1. UNCHANGED <<written, seen, upsets>> /\ pass.pc = "collect"
    BY <1>4 DEF CollectOne, diskVars
  <2>2. PICK c : c = CollectFile(f)
    OBVIOUS
  <2>3. c.off <= written[f] /\ c.off \in Nat
    BY <1>2, <2>2, CollectIs DEF Boundary
  <2>4. PICK r : r = [file |-> f, off |-> c.off, events |-> c.events]
    OBVIOUS
  <2>5. r.off <= 3 * MaxLines
    BY <1>1, <1>2, <2>3, <2>4
  <2>6. pass'.pc = "collect" /\ pass'.got \subseteq pass.got \cup {r}
    <3>1. PICK todo, got : pass = [pc |-> "collect", todo |-> todo, got |-> got]
      BY <1>1, <2>1, PassIs DEF Collecting
    <3>2. CASE done
      <4>1. pass' = [pass EXCEPT !.todo = {}]
        BY <1>4, <3>2 DEF CollectOne
      <4> QED
        BY <3>1, <4>1
    <3>3. CASE ~done
      <4>1. pass' = [pass EXCEPT !.todo = @ \ {f}, !.got = @ \cup {r}]
        BY <1>4, <2>2, <2>4, <3>3 DEF CollectOne
      <4> QED
        BY <3>1, <4>1
    <3> QED
      BY <3>2, <3>3
  <2> QED
    BY <1>1, <2>1, <2>5, <2>6 DEF ClaudeBounded
<1>5. ASSUME NEW r \in pass.got, pass.pc = "collect", TakeResult(r) PROVE ClaudeBounded'
  <2>1. /\ UNCHANGED <<written, upsets>> /\ seen' = [seen EXCEPT ![r.file] = r.off]
        /\ pass' = [pass EXCEPT !.got = @ \ {r}]
    BY <1>5 DEF TakeResult, diskVars
  <2>2. \A f \in Log : seen'[f] <= 3 * MaxLines
    BY <1>1, <1>5, <2>1 DEF ClaudeTyped
  <2>3. pass'.pc = "collect" /\ pass'.got \subseteq pass.got
    <3>1. PICK todo, got : pass = [pc |-> "collect", todo |-> todo, got |-> got]
      BY <1>1, <1>5, PassIs DEF Collecting
    <3> QED
      BY <2>1, <3>1
  <2> QED
    BY <1>1, <1>5, <2>1, <2>2, <2>3 DEF ClaudeBounded
<1>6. ASSUME FirstScanEnds \/ PassEnds PROVE ClaudeBounded'
  <2>1. UNCHANGED <<written, seen, upsets>> /\ pass' = Resting
    BY <1>6 DEF FirstScanEnds, PassEnds, diskVars
  <2>2. pass'.pc = "idle"
    BY <2>1 DEF Resting
  <2> QED
    BY <2>1, <2>2, BoundsQuiet
<1>7. ASSUME NEW f \in Log, OpenFile(f) PROVE ClaudeBounded'
  <2>1. PICK from : /\ from \in {0, seen[f]} /\ seen' = [seen EXCEPT ![f] = from]
                    /\ \/ pass' = [pass EXCEPT !.jobs = @ \ {f}]
                       \/ pass' = [pc |-> "read", file |-> f, jobs |-> pass.jobs \ {f},
                                   off |-> from, n |-> 0, eof |-> FALSE, events |-> <<>>]
    BY <1>7 DEF OpenFile
  <2>2. from <= 3 * MaxLines /\ UNCHANGED <<written, upsets>> /\ pass.pc = "next"
    BY <1>1, <1>7, <2>1 DEF OpenFile, diskVars
  <2>3. pass'.pc = "next" \/ (pass'.pc = "read" /\ pass'.off = from)
    <3>1. PICK jobs : pass = [pc |-> "next", jobs |-> jobs]
      BY <1>1, <2>2, PassIs DEF Serving
    <3> QED
      BY <2>1, <3>1
  <2>4. \A g \in Log : seen'[g] <= 3 * MaxLines
    BY <1>1, <2>1, <2>2 DEF ClaudeTyped
  <2> QED
    BY <1>1, <2>2, <2>3, <2>4 DEF ClaudeBounded
<1>8. ASSUME ReadOne PROVE ClaudeBounded'
  <2>1. PICK f \in Log, o \in Nat : f = pass.file /\ o = pass.off /\ pass.pc = "read" /\ pass \in Reading
    BY <1>1, <1>8, PassIs DEF ReadOne, Reading
  <2>2. Boundary(o) /\ o < written[f]
    <3>1. ~(o >= written[f])
      BY <1>8, <2>1 DEF ReadOne, EndOfRead
    <3>2. Boundary(o)
      BY <1>1, <2>1 DEF ReadTold
    <3> QED
      BY <1>2, <3>1, <3>2
  <2>3. PICK r : r = ReadLine(text[f], written[f], o)
    OBVIOUS
  <2>4. r.to <= written[f] /\ r.to \in Nat
    BY <1>2, <2>2, <2>3, ReadLineIs DEF Boundary
  <2>5. pass'.pc = "read" /\ pass'.off = r.to
    <3>1. PICK before : before = [by |-> byUUID, events |-> pass.events, gone |-> {}]
      OBVIOUS
    <3>2. PICK after : after = IF r.parsed /\ r.line.kind = "usage" THEN DedupAppend(before, f, r.line) ELSE before
      OBVIOUS
    <3>3. pass' = [pass EXCEPT !.off = r.to, !.n = @ + 1, !.eof = r.eof, !.events = after.events]
      BY <1>8, <2>1, <2>3, <3>1, <3>2 DEF ReadOne
    <3> QED
      BY <2>1, <3>3 DEF Reading
  <2>6. UNCHANGED <<written, seen>> /\ (upsets' = upsets \/ Upset)
    BY <1>8 DEF ReadOne, diskVars
  <2>7. upsets' <= MaxUpset
    BY <1>1, <2>6 DEF Upset
  <2> QED
    BY <1>1, <1>2, <2>4, <2>5, <2>6, <2>7 DEF ClaudeBounded
<1>9. ASSUME FinishFile PROVE ClaudeBounded'
  <2>1. /\ UNCHANGED <<written, upsets>> /\ seen' = [seen EXCEPT ![pass.file] = pass.off]
        /\ pass' = [pc |-> "next", jobs |-> pass.jobs] /\ pass.pc = "read"
    BY <1>9 DEF FinishFile, diskVars
  <2>2. \A f \in Log : seen'[f] <= 3 * MaxLines
    BY <1>1, <2>1 DEF ClaudeTyped
  <2>3. pass'.pc = "next"
    BY <2>1
  <2> QED
    BY <1>1, <2>1, <2>2, <2>3 DEF ClaudeBounded
<1> QED
  BY <1>3, <1>4, <1>5, <1>6, <1>7, <1>8, <1>9 DEF PollClaude

LEMMA BoundsKept ==
  ASSUME CountInv, ClaudeBounded, ClaudeNext
  PROVE  ClaudeBounded'
<1>1. /\ ClaudeTyped /\ MaxUpset \in Nat /\ MaxLines \in Nat /\ upsets \in Nat
      /\ \A f \in Log : written[f] <= 3 * MaxLines /\ seen[f] <= 3 * MaxLines
      /\ upsets <= MaxUpset
  BY ClaudeAssumption DEF CountInv, ClaudeBounded, ClaudeTyped
<1>2. Upset => upsets' <= MaxUpset
  BY <1>1 DEF Upset
<1>3. ASSUME StopClaude PROVE ClaudeBounded'
  <2>1. UNCHANGED <<written, seen, pass>> /\ upsets' <= MaxUpset
    BY <1>2, <1>3 DEF StopClaude, diskVars
  <2> QED
    BY <2>1 DEF ClaudeBounded
<1>4. ASSUME RestartClaude PROVE ClaudeBounded'
  <2>1. UNCHANGED written /\ seen' = [f \in Log |-> 0] /\ pass' = Resting /\ upsets' <= MaxUpset
    BY <1>1, <1>2, <1>4 DEF RestartClaude, diskVars
  <2>2. pass'.pc = "idle" /\ \A f \in Log : seen'[f] <= 3 * MaxLines
    BY <1>1, <2>1 DEF Resting
  <2> QED
    BY <2>1, <2>2 DEF ClaudeBounded
<1>5. ASSUME NEW f \in Log, WriteLine(f) PROVE ClaudeBounded'
  <2>1. PICK n : n <= 3 * MaxLines /\ written' = [written EXCEPT ![f] = n]
    BY <1>5 DEF WriteLine
  <2>2. \A g \in Log : written'[g] <= 3 * MaxLines
    BY <1>1, <2>1 DEF ClaudeTyped
  <2> QED
    BY <1>5, <2>2 DEF WriteLine, ClaudeBounded
<1>6. ASSUME NEW f \in Log, TruncateLog(f) \/ AgeLog(f) PROVE ClaudeBounded'
  <2>1. UNCHANGED <<seen, pass>> /\ upsets' <= MaxUpset /\ written' \in {written, [written EXCEPT ![f] = 0]}
    BY <1>2, <1>6 DEF TruncateLog, AgeLog
  <2>2. \A g \in Log : written'[g] = written[g] \/ written'[g] = 0
    BY <1>1, <2>1 DEF ClaudeTyped
  <2>3. \A g \in Log : written'[g] <= 3 * MaxLines
    BY <1>1, <2>2
  <2> QED
    BY <2>1, <2>3 DEF ClaudeBounded
<1>7. ASSUME NEW n, WriteBatch(n) PROVE ClaudeBounded'
  <2>1. UNCHANGED <<written, seen, pass>> /\ (upsets' = upsets \/ Upset)
    BY <1>7 DEF WriteBatch, diskVars
  <2>2. upsets' <= MaxUpset
    BY <1>1, <1>2, <2>1
  <2> QED
    BY <2>1, <2>2 DEF ClaudeBounded
<1> QED
  BY <1>3, <1>4, <1>5, <1>6, <1>7, BoundsPoll DEF ClaudeNext

LEMMA BoundsMean ==
  ASSUME CountInv, ClaudeBounded
  PROVE  ClaudeTypeOK
<1>1. /\ ClaudeTyped /\ PassTyped /\ MaxLines \in Nat /\ MaxUpset \in Nat
  BY ClaudeAssumption DEF CountInv
<1>2. ASSUME NEW f \in Log PROVE text[f] \in BoundedSeq(Line, MaxLines)
  <2>1. PICK n \in Nat : n = Len(text[f]) /\ text[f] \in [1 .. n -> Line]
    BY <1>1 DEF ClaudeTyped
  <2>2. PICK w \in Nat : w = written[f] /\ w <= 3 * MaxLines /\ 3 * n < w + 3
    BY <1>1, <2>1 DEF ClaudeTyped, ClaudeBounded
  <2>3. n \in 0 .. MaxLines
    BY <1>1, <2>1, <2>2
  <2> QED
    BY <2>1, <2>3 DEF BoundedSeq, SeqOf
<1>3. text \in [Log -> BoundedSeq(Line, MaxLines)]
  BY <1>1, <1>2 DEF ClaudeTyped
<1>4. written \in [Log -> 0 .. 3 * MaxLines] /\ seen \in [Log -> 0 .. 3 * MaxLines]
  BY <1>1 DEF ClaudeTyped, ClaudeBounded
<1>5. pass.pc \in {"idle", "collect", "next", "read"}
  BY <1>1 DEF PassTyped, Resting, Collecting, Serving, Reading
<1>6. /\ byUUID \in [UUID -> Candidates \cup {NoCandidate}] /\ \A i \in DOMAIN sent : sent[i] \in Candidates
      /\ upsets \in 0 .. MaxUpset
  BY <1>1 DEF ClaudeTyped, Deduper, ClaudeBounded
<1> QED
  BY <1>1, <1>3, <1>4, <1>5, <1>6 DEF ClaudeTyped, ClaudeTypeOK

\* The model of a session reaches its usage rows, whichever scan or worker
\* read the context and the usage, and whatever became of the files.
THEOREM ContextsReach == CodexSpec => []ContextReaches
<1>1. CodexInit => CodexInv
  BY CodexStarts
<1>2. ASSUME CodexInv, [CodexNext]_codexVars PROVE CodexInv'
  BY <1>2, CodexKept, CodexStutters
<1>3. CodexInv => ContextReaches
  BY CodexMeans
<1> QED
  BY <1>1, <1>2, <1>3, PTL DEF CodexSpec

\* What a session did keeps its start, and a good output its file changes,
\* over deferrals, scans, removals and ends of the process.
THEOREM ActivitiesKept == CodexSpec => []ActivityKept
<1>1. CodexInit => CodexInv
  BY CodexStarts
<1>2. ASSUME CodexInv, [CodexNext]_codexVars PROVE CodexInv'
  BY <1>2, CodexKept, CodexStutters
<1>3. CodexInv => ActivityKept
  BY CodexMeans
<1> QED
  BY <1>1, <1>2, <1>3, PTL DEF CodexSpec

\* The types, and all four, where the two watchers are checked together.
THEOREM WatchersHold ==
  Spec => [](TypeOK /\ CommittedIsCounted /\ ReplaysYield /\ ContextReaches /\ ActivityKept)
<1> DEFINE Inv == CountInv /\ YieldInv /\ ClaudeBounded /\ CodexInv
<1>1. Init => Inv
  <2>1. ClaudeInit => ClaudeBounded
    <3> SUFFICES ASSUME ClaudeInit PROVE ClaudeBounded
      OBVIOUS
    <3>1. pass.pc = "idle"
      BY DEF ClaudeInit, Resting
    <3>2. \A f \in Log : written[f] = 0 /\ seen[f] = 0
      BY DEF ClaudeInit
    <3>3. upsets = 0 /\ MaxUpset \in Nat /\ MaxLines \in Nat
      BY ClaudeAssumption DEF ClaudeInit
    <3> QED
      BY <3>1, <3>2, <3>3 DEF ClaudeBounded
  <2> QED
    BY <2>1, CountStarts, YieldStarts, CodexStarts DEF Init
<1>2. ASSUME Inv, [Next]_vars PROVE Inv'
  <2>1. CASE ClaudeNext /\ UNCHANGED codexVars
    BY <1>2, <2>1, CountKept, YieldKept, BoundsKept, CodexStutters
  <2>2. UNCHANGED claudeVars => CountInv' /\ YieldInv' /\ ClaudeBounded'
    <3> SUFFICES ASSUME UNCHANGED claudeVars PROVE CountInv' /\ YieldInv' /\ ClaudeBounded'
      OBVIOUS
    <3>1. UNCHANGED <<written, seen, upsets, pass>>
      BY DEF claudeVars
    <3> QED
      BY <1>2, <3>1, ClaudeStutters, BoundsQuiet
  <2>3. CASE CodexNext /\ UNCHANGED claudeVars
    BY <1>2, <2>2, <2>3, CodexKept
  <2>4. CASE UNCHANGED <<claudeVars, codexVars>>
    BY <1>2, <2>2, <2>4, CodexStutters
  <2> QED
    BY <1>2, <2>1, <2>3, <2>4 DEF Next, vars
<1>3. Inv => TypeOK /\ CommittedIsCounted /\ ReplaysYield /\ ContextReaches /\ ActivityKept
  BY CountMeans, YieldMeans, BoundsMean, CodexMeans DEF TypeOK
<1> QED
  BY <1>1, <1>2, <1>3, PTL DEF Spec

-----------------------------------------------------------------------------
(* Codex: totals.                                                          *)

\* Line k of p is what a row with this id was made from; p holds such a line.
At(p, k, id) == IsTotal(script[p][k]) /\ script[p][k].ts = id[2] /\ script[p][k].total = id[4]
InFile(p, id) == \E k \in DOMAIN script[p] : At(p, k, id)

\* The tokens of an event or a row are those from one total to the next.
Summed(x) == x.id[1] = "total"
Spans(x, v) == Summed(x) /\ x.id[4] - x.n < v /\ v <= x.id[4]
Measured(x) == x.n \in Nat /\ x.id[4] \in Nat

\* Every token up to the total of a row is in a row, and in one of every
\* file that holds the total.
Reaches(id, rs) ==
  \A v \in 1 .. id[4] : \E x \in rs : Spans(x, v) /\ \A q \in Rollout : InFile(q, id) => InFile(q, x.id)
RowsReach(rs) == \A r \in rs : Summed(r) => Measured(r) /\ Reaches(r.id, rs)

\* The totals of p up to an offset are.
LineIn(p, k, rs) == \A v \in 1 .. script[p][k].total : \E x \in rs : Spans(x, v) /\ InFile(p, x.id)
Accounted(p, off, rs) ==
  \A k \in DOMAIN script[p] : (Past(k, off) /\ IsTotal(script[p][k])) => LineIn(p, k, rs)

\* The events of a scan, each from a line up to the one that follows.
IsUsage(e) == e.type = "usage" /\ Summed(e)
Given(p, e, k, v) == IsUsage(e) /\ Spans(e, v) /\ \E m \in 1 .. k : At(p, m, e.id)
EventTold(p, ev, j, off) ==
  Measured(ev[j]) /\ \E k \in DOMAIN script[p] :
                    /\ At(p, k, ev[j].id) /\ Past(k, off)
                    /\ \A v \in 1 .. ev[j].id[4] : \E i \in 1 .. j : Given(p, ev[i], k, v)
LineTold(p, ev, k) ==
  \A v \in 1 .. script[p][k].total : \E j \in DOMAIN ev : Given(p, ev[j], k, v)
TotalsTold(p, from, off, ev) ==
  /\ \A j \in DOMAIN ev : IsUsage(ev[j]) => EventTold(p, ev, j, off)
  /\ \A k \in DOMAIN script[p] : (Past(k, off) /\ ~Past(k, from) /\ IsTotal(script[p][k])) => LineTold(p, ev, k)

\* The total a scan subtracts is one it has read.
PreviousTold(p, from, off, previous) ==
  previous # 0 =>
    \E k \in DOMAIN script[p] : /\ Past(k, off) /\ ~Past(k, from)
                                /\ script[p][k].kind \in {"total", "last"} /\ script[p][k].total = previous

TotalsInv ==
  /\ Histories /\ CodexInv /\ IsFiniteSet(usageRows) /\ RowsReach(usageRows)
  /\ ~codexDone => \A p \in Rollout : codexSeen[p] # Unseen => Accounted(p, codexSeen[p], usageRows)
  /\ codexPass.pc = "collect" => \A r \in codexPass.got : TotalsTold(r.path, 0, r.off, r.events)

\* A list that begins like another one, and gives no more totals.
Alike(e, f) == e.type = f.type /\ (e.type = "usage" => e.id = f.id /\ e.n = f.n)

LEMMA AlikeGives ==
  ASSUME NEW p, NEW e, NEW f, Alike(e, f)
  PROVE  /\ IsUsage(f) => IsUsage(e) /\ e.id = f.id /\ e.n = f.n
         /\ \A k, v : Given(p, e, k, v) => Given(p, f, k, v)
BY DEF Alike, IsUsage, Given, Spans, Summed

LEMMA ToldFurther ==
  ASSUME NEW p, NEW from, NEW off, NEW ev, TotalsTold(p, from, off, ev),
         NEW n \in Nat, DOMAIN ev = 1 .. n, NEW m \in Nat, NEW to, NEW new, n <= m, DOMAIN new = 1 .. m,
         \A j \in 1 .. n : Alike(ev[j], new[j]),
         \A j \in 1 .. m : j > n /\ IsUsage(new[j]) => EventTold(p, new, j, to),
         \A k \in DOMAIN script[p] : Past(k, off) => Past(k, to),
         \A k \in DOMAIN script[p] :
           (Past(k, to) /\ ~Past(k, off) /\ IsTotal(script[p][k])) => LineTold(p, new, k)
  PROVE  TotalsTold(p, from, to, new)
<1>1. ASSUME NEW j \in 1 .. m, IsUsage(new[j]), j <= n PROVE EventTold(p, new, j, to)
  <2>1. j \in 1 .. n /\ IsUsage(ev[j]) /\ ev[j].id = new[j].id /\ ev[j].n = new[j].n
    <3>1. j \in 1 .. n
      BY <1>1
    <3>2. Alike(ev[j], new[j])
      BY <3>1
    <3> QED
      BY <1>1, <3>1, <3>2, AlikeGives
  <2>2. PICK k \in DOMAIN script[p] :
          /\ At(p, k, ev[j].id) /\ Past(k, off) /\ Measured(ev[j])
          /\ \A v \in 1 .. ev[j].id[4] : \E i \in 1 .. j : Given(p, ev[i], k, v)
    BY <2>1 DEF TotalsTold, EventTold
  <2>3. ASSUME NEW v \in 1 .. new[j].id[4] PROVE \E i \in 1 .. j : Given(p, new[i], k, v)
    <3>1. PICK i \in 1 .. j : Given(p, ev[i], k, v)
      BY <2>1, <2>2
    <3>2. i \in 1 .. n
      BY <2>1
    <3> QED
      BY <3>1, <3>2, AlikeGives
  <2>4. Measured(new[j]) /\ At(p, k, new[j].id) /\ Past(k, to)
    BY <2>1, <2>2 DEF Measured
  <2> QED
    BY <2>3, <2>4 DEF EventTold
<1>2. ASSUME NEW k \in DOMAIN script[p], Past(k, to), ~Past(k, from), IsTotal(script[p][k]), Past(k, off)
      PROVE  LineTold(p, new, k)
  <2>1. LineTold(p, ev, k)
    BY <1>2 DEF TotalsTold
  <2>2. SUFFICES ASSUME NEW v \in 1 .. script[p][k].total PROVE \E j \in 1 .. m : Given(p, new[j], k, v)
    BY DEF LineTold
  <2>3. PICK j \in 1 .. n : Given(p, ev[j], k, v)
    BY <2>1 DEF LineTold
  <2> QED
    BY <2>3, AlikeGives
<1> QED
  BY <1>1, <1>2 DEF TotalsTold

Quiet(x) == \A j \in DOMAIN x : ~IsUsage(x[j])

\* x is a followed by b.
Follows(x, a, b, n, m) ==
  /\ DOMAIN a = 1 .. n /\ DOMAIN b = 1 .. m /\ DOMAIN x = 1 .. n + m
  /\ \A j \in 1 .. n : x[j] = a[j]
  /\ \A j \in 1 .. m : x[n + j] = b[j]

LEMMA Appending ==
  ASSUME NEW a, IsList(a), NEW b, IsList(b)
  PROVE  IsList(a \o b) /\ \E n, m \in Nat : Follows(a \o b, a, b, n, m)
<1>1. IsList(a \o b)
  BY JoinedLists
<1>2. PICK S : a \in Seq(S)
  BY DEF IsList
<1>3. PICK U : b \in Seq(U)
  BY DEF IsList
<1>4. a \in Seq(S \cup U) /\ b \in Seq(S \cup U)
  BY <1>2, <1>3, WiderSeq
<1>5. /\ Len(a) \in Nat /\ Len(b) \in Nat
      /\ DOMAIN a = 1 .. Len(a) /\ DOMAIN b = 1 .. Len(b) /\ DOMAIN (a \o b) = 1 .. Len(a) + Len(b)
      /\ \A j \in 1 .. Len(a) : (a \o b)[j] = a[j]
      /\ \A j \in 1 .. Len(b) : (a \o b)[Len(a) + j] = b[j]
  BY <1>4
<1>6. Follows(a \o b, a, b, Len(a), Len(b))
  BY <1>5 DEF Follows
<1> QED
  BY <1>1, <1>5, <1>6

LEMMA QuietTold ==
  ASSUME NEW p, NEW from, NEW off, NEW a, IsList(a), TotalsTold(p, from, off, a),
         NEW b, IsList(b), Quiet(b)
  PROVE  IsList(a \o b) /\ TotalsTold(p, from, off, a \o b)
<1>a. PICK n, m \in Nat : Follows(a \o b, a, b, n, m)
  BY Appending
<1>1. /\ DOMAIN a = 1 .. n /\ DOMAIN b = 1 .. m /\ DOMAIN (a \o b) = 1 .. n + m
      /\ \A j \in 1 .. n : (a \o b)[j] = a[j]
      /\ \A j \in 1 .. m : (a \o b)[n + j] = b[j]
  BY <1>a DEF Follows
<1>2. PICK x : x = a \o b
  OBVIOUS
<1>3. \A j \in 1 .. n : Alike(a[j], x[j])
  BY <1>1, <1>2 DEF Alike
<1>4. ASSUME NEW j \in 1 .. n + m, j > n PROVE ~IsUsage(x[j])
  <2>1. j - n \in 1 .. m /\ n + (j - n) = j
    BY <1>4
  <2> QED
    BY <1>1, <1>2, <2>1 DEF Quiet
<1>5. n + m \in Nat /\ n <= n + m /\ DOMAIN x = 1 .. n + m
  BY <1>1, <1>2
<1>6. TotalsTold(p, from, off, x)
  BY <1>1, <1>3, <1>4, <1>5, ToldFurther
<1> QED
  BY <1>2, <1>6, Appending

\* A context gives models to what has been read.
LEMMA ReworkedAlike ==
  ASSUME NEW p, NEW l, NEW ev, IsList(ev), NEW model, \A e \in ToSet(ev) : Sound(p, e)
  PROVE  /\ DOMAIN Reworked(l, ev, model) = DOMAIN ev
         /\ \A j \in DOMAIN ev : Alike(ev[j], Reworked(l, ev, model)[j])
<1>1. CASE l.kind # "context" \/ model = NoModel
  <2>1. Reworked(l, ev, model) = ev
    BY <1>1 DEF Reworked, Annotated
  <2> QED
    BY <2>1 DEF Alike
<1>2. CASE l.kind = "context" /\ model # NoModel
  <2> DEFINE new(e) == IF e.type = "usage" /\ e.model = Fallback THEN [e EXCEPT !.model = model] ELSE e
  <2>1. PICK x : x = Reworked(l, ev, model)
    OBVIOUS
  <2>2. x = [i \in DOMAIN ev |-> new(ev[i])]
    BY <1>2, <2>1 DEF Reworked, Annotated
  <2>3. ASSUME NEW e, Sound(p, e) PROVE Alike(e, new(e))
    <3>1. CASE ~(e.type = "usage" /\ e.model = Fallback)
      BY <3>1 DEF Alike
    <3>2. CASE e.type = "usage" /\ e.model = Fallback
      <4>1. e = [type |-> "usage", id |-> e.id, n |-> e.n, model |-> e.model, ts |-> e.ts]
        BY <2>3, <3>2 DEF Sound, UsageOf
      <4>2. new(e) = [type |-> "usage", id |-> e.id, n |-> e.n, model |-> model, ts |-> e.ts]
        BY <3>2, <4>1
      <4>3. new(e).type = "usage" /\ new(e).id = e.id /\ new(e).n = e.n
        BY <4>2
      <4> QED
        BY <3>2, <4>3 DEF Alike
    <3> QED
      BY <3>1, <3>2
  <2> HIDE DEF new
  <2>4. ASSUME NEW j \in DOMAIN ev PROVE Alike(ev[j], x[j])
    <3>1. ev[j] \in ToSet(ev)
      BY DEF ToSet
    <3>2. Sound(p, ev[j])
      BY <3>1
    <3>3. x[j] = new(ev[j])
      BY <2>2
    <3> QED
      BY <2>3, <3>2, <3>3
  <2> QED
    BY <2>1, <2>2, <2>4
<1> QED
  BY <1>1, <1>2

\* The usage of a line: of a total, the tokens since the one before.
FromTo(e, l, previous) ==
  /\ IsUsage(e) /\ Measured(e)
  /\ e.id[2] = l.ts /\ e.id[4] = l.total /\ e.id[4] - e.n = previous
LEMMA UsageTold ==
  ASSUME NEW l \in AllLines, NEW sess, NEW model, NEW previous \in Nat
  PROVE  LET U == UsageFrom(l, sess, model, previous) IN
         /\ U = <<>> \/ \E e : U = <<e>> /\ (IF IsTotal(l) THEN FromTo(e, l, previous) ELSE ~IsUsage(e))
         /\ IsTotal(l) /\ U = <<>> => l.total <= previous
<1>1. PICK U : U = UsageFrom(l, sess, model, previous)
  OBVIOUS
<1>2. CASE IsTotal(l)
  <2>1. l.kind = "total" /\ l.total \in Nat
    BY <1>2, CodexAssumption DEF IsTotal
  <2>2. PICK n : n = IF previous = 0 THEN l.total ELSE NonNegativeDelta(l.total, previous)
    OBVIOUS
  <2>3. n \in Nat /\ (n = 0 => l.total <= previous) /\ (n # 0 => l.total - n = previous)
    BY <2>1, <2>2 DEF NonNegativeDelta
  <2>4. PICK m : m = EventModel(model, l.model)
    OBVIOUS
  <2>5. U = IF n = 0 THEN <<>> ELSE Usage(l, <<"total", l.ts, m, l.total>>, n, m)
    BY <1>1, <2>1, <2>2, <2>4 DEF UsageFrom, TotalUsage
  <2>6. CASE n = 0
    BY <1>1, <1>2, <2>3, <2>5, <2>6
  <2>7. CASE n # 0
    <3>1. PICK e : e = [type |-> "usage", id |-> <<"total", l.ts, m, l.total>>, n |-> n, model |-> m, ts |-> l.ts]
      OBVIOUS
    <3>2. U = <<e>>
      BY <2>5, <2>7, <3>1 DEF Usage
    <3>3. e.type = "usage" /\ e.id = <<"total", l.ts, m, l.total>> /\ e.n = n
      BY <3>1
    <3>4. e.id[1] = "total" /\ e.id[2] = l.ts /\ e.id[4] = l.total
      BY <3>3
    <3>5. FromTo(e, l, previous)
      BY <2>1, <2>3, <2>7, <3>3, <3>4 DEF FromTo, IsUsage, Summed, Measured
    <3>6. U # <<>>
      BY <3>2
    <3> QED
      BY <1>1, <1>2, <3>2, <3>5, <3>6
  <2> QED
    BY <2>6, <2>7
<1>3. CASE ~IsTotal(l)
  <2>1. l.kind # "total"
    BY <1>3 DEF IsTotal
  <2>2. ASSUME NEW id, NEW n, NEW m, id[1] # "total"
        PROVE  \E e : Usage(l, id, n, m) = <<e>> /\ ~IsUsage(e)
    <3>1. PICK e : e = [type |-> "usage", id |-> id, n |-> n, model |-> m, ts |-> l.ts]
      OBVIOUS
    <3>2. e.id = id
      BY <3>1
    <3> QED
      BY <2>2, <3>1, <3>2 DEF Usage, IsUsage, Summed
  <2>3. U = <<>> \/ \E id, n, m : id[1] # "total" /\ U = Usage(l, id, n, m)
    <3>1. CASE l.kind = "last"
      <4>1. U = LastUsage(l, sess, model)
        BY <1>1, <3>1 DEF UsageFrom
      <4>2. PICK id : id = IF l.total # 0 THEN <<"session-total", sess, l.total>>
                           ELSE <<"last", sess, l.ts, l.last>>
        OBVIOUS
      <4>3. id[1] # "total"
        BY <4>2
      <4>4. U = <<>> \/ U = Usage(l, id, l.last, EventModel(model, l.model))
        BY <4>1, <4>2 DEF LastUsage
      <4> QED
        BY <4>3, <4>4
    <3>2. CASE l.kind = "exec"
      <4>1. U = ExecUsage(l, sess, model)
        BY <1>1, <3>2 DEF UsageFrom
      <4>2. PICK id : id = <<"exec", sess, l.ts, l.n>>
        OBVIOUS
      <4>3. id[1] # "total"
        BY <4>2
      <4>4. U = <<>> \/ U = Usage(l, id, l.n, EventModel(model, l.model))
        BY <4>1, <4>2 DEF ExecUsage
      <4> QED
        BY <4>3, <4>4
    <3>3. CASE l.kind \notin {"last", "exec"}
      BY <1>1, <2>1, <3>3 DEF UsageFrom
    <3> QED
      BY <3>1, <3>2, <3>3
  <2> QED
    BY <1>1, <1>3, <2>2, <2>3
<1> QED
  BY <1>2, <1>3

\* An entry is told.
EntryTold(p, from, to, l, model, previous, calls, ev) ==
  /\ TotalsTold(p, from, to, EventsAfter(p, l, model, previous, calls, ev))
  /\ PreviousTold(p, from, to, Previous(l, previous))
LEMMA EntryTells ==
  ASSUME script \in Scenarios, Histories, NEW p \in Rollout, NEW from \in Nat, NEW off \in Nat, from <= off,
         NEW ev, IsList(ev), \A e \in ToSet(ev) : Sound(p, e), TotalsTold(p, from, off, ev),
         NEW previous \in Nat, PreviousTold(p, from, off, previous),
         NEW i \in DOMAIN script[p], NEW l, l = script[p][i], NEW model \in SessionModels, NEW calls, NEW to,
         \A j \in DOMAIN script[p] : Past(j, to) <=> j <= i,
         \A j \in DOMAIN script[p] : Past(j, off) <=> j < i
  PROVE  EntryTold(p, from, to, l, model, previous, calls, ev)
<1>1. /\ DOMAIN script[p] = 1 .. Len(script[p]) /\ Len(script[p]) \in Nat
      /\ l \in AllLines /\ i \in Nat
  BY EntryIs
<1>2. ~Past(i, from) /\ Past(i, to) /\ ~Past(i, off)
  BY <1>1 DEF Past
<1>3. \A k \in DOMAIN script[p] : Past(k, off) => Past(k, to)
  BY <1>1
<1>4. \A k \in DOMAIN script[p] : Past(k, to) /\ ~Past(k, off) => k = i
  BY <1>1
<1>5. PICK r : r = Reworked(l, ev, model)
  OBVIOUS
<1>6. PICK u : u = UsageFrom(l, SessOf[p], model, previous)
  OBVIOUS
<1>7. PICK n \in Nat : DOMAIN ev = 1 .. n
  BY ListIs
<1>8. IsList(r) /\ DOMAIN r = 1 .. n /\ \A j \in 1 .. n : Alike(ev[j], r[j])
  <2>1. IsList(r)
    BY <1>1, <1>5, ReworkedIs
  <2>2. DOMAIN r = DOMAIN ev /\ \A j \in DOMAIN ev : Alike(ev[j], r[j])
    BY <1>5, ReworkedAlike
  <2> QED
    BY <1>7, <2>1, <2>2
<1>9. /\ u = <<>> \/ \E e : u = <<e>> /\ (IF IsTotal(l) THEN FromTo(e, l, previous) ELSE ~IsUsage(e))
      /\ IsTotal(l) /\ u = <<>> => l.total <= previous
  BY <1>1, <1>6, UsageTold
<1>10. TotalsTold(p, from, off, r)
  BY <1>7, <1>8, ToldFurther
\* The line of the total to subtract comes before.
<1>11. ASSUME IsTotal(l), previous # 0
       PROVE  \E k \in 1 .. i - 1 : LineTold(p, r, k) /\ script[p][k].total = previous /\ k \in DOMAIN script[p]
  <2>1. PICK k \in DOMAIN script[p] : /\ Past(k, off) /\ ~Past(k, from)
                                      /\ script[p][k].kind \in {"total", "last"} /\ script[p][k].total = previous
    BY <1>11 DEF PreviousTold
  <2>2. script[p][k].kind # "last"
    BY <1>11, <2>1 DEF Histories
  <2>3. IsTotal(script[p][k]) /\ k < i /\ k \in Nat /\ k >= 1
    BY <1>1, <2>1, <2>2 DEF IsTotal
  <2>4. LineTold(p, r, k)
    BY <1>10, <2>1, <2>3 DEF TotalsTold
  <2>5. k \in 1 .. i - 1
    BY <1>1, <2>3
  <2> QED
    BY <2>1, <2>4, <2>5
<1>12. IsList(r \o u) /\ TotalsTold(p, from, to, r \o u)
  <2>1. CASE u = <<>>
    <3>1. IsList(u) /\ Quiet(u)
      BY <2>1, ShortLists DEF Quiet
    <3>2. TotalsTold(p, from, off, r \o u) /\ IsList(r \o u)
      BY <1>8, <1>10, <3>1, QuietTold
    <3>3. PICK x : x = r \o u
      OBVIOUS
    <3>4. PICK m \in Nat : DOMAIN x = 1 .. m
      BY <3>2, <3>3, ListIs
    <3>5. \A j \in 1 .. m : Alike(x[j], x[j])
      BY DEF Alike
    <3>6. ASSUME IsTotal(l) PROVE LineTold(p, x, i)
      <4> SUFFICES ASSUME NEW v \in 1 .. script[p][i].total PROVE \E j \in DOMAIN x : Given(p, x[j], i, v)
        BY DEF LineTold
      <4>1. l.total <= previous /\ l.total \in Nat
        BY <1>1, <1>9, <2>1, <3>6, CodexAssumption DEF IsTotal
      <4>2. previous # 0 /\ v \in 1 .. previous
        BY <4>1
      <4>4. PICK k \in DOMAIN script[p] :
              Past(k, off) /\ ~Past(k, from) /\ IsTotal(script[p][k]) /\ script[p][k].total = previous
        BY <1>1, <3>6, <4>2 DEF PreviousTold, Histories, IsTotal
      <4>5. LineTold(p, x, k) /\ k < i /\ k \in Nat
        BY <1>1, <3>2, <3>3, <4>4 DEF TotalsTold
      <4>6. PICK j \in DOMAIN x : Given(p, x[j], k, v)
        BY <4>2, <4>4, <4>5 DEF LineTold
      <4>7. Given(p, x[j], i, v)
        BY <1>1, <4>5, <4>6 DEF Given
      <4> QED
        BY <4>7
    <3>7. TotalsTold(p, from, to, x)
      <4>1. \A j \in 1 .. m : j > m /\ IsUsage(x[j]) => EventTold(p, x, j, to)
        OBVIOUS
      <4>2. m <= m
        OBVIOUS
      <4>3. \A k \in DOMAIN script[p] :
              (Past(k, to) /\ ~Past(k, off) /\ IsTotal(script[p][k])) => LineTold(p, x, k)
        BY <1>4, <3>6
      <4>4. TotalsTold(p, from, off, x)
        BY <3>2, <3>3
      <4> QED
        BY <1>3, <3>4, <3>5, <4>1, <4>2, <4>3, <4>4, ToldFurther
    <3> QED
      BY <3>2, <3>3, <3>7
  <2>2. CASE u # <<>>
    <3>1. PICK e : u = <<e>> /\ (IF IsTotal(l) THEN FromTo(e, l, previous) ELSE ~IsUsage(e))
      BY <1>9, <2>2
    <3>2. IsList(u) /\ DOMAIN u = 1 .. 1 /\ u[1] = e
      BY <3>1, ShortLists
    <3>3. PICK x : x = r \o u
      OBVIOUS
    <3>4. PICK a, b \in Nat : Follows(x, r, u, a, b)
      BY <1>8, <3>2, <3>3, Appending
    <3>5. a = n /\ b = 1
      <4>1. 1 .. a = 1 .. n /\ 1 .. b = 1 .. 1
        BY <1>8, <3>2, <3>4 DEF Follows
      <4> QED
        BY <4>1
    <3>6. DOMAIN x = 1 .. n + 1 /\ (\A j \in 1 .. n : x[j] = r[j]) /\ x[n + 1] = e
      <4>1. \A j \in 1 .. 1 : x[n + j] = u[j]
        BY <3>4, <3>5 DEF Follows
      <4> QED
        BY <3>2, <3>4, <3>5, <4>1 DEF Follows
    <3>7. \A j \in 1 .. n : Alike(r[j], x[j])
      BY <3>6 DEF Alike
    <3>8. ASSUME IsTotal(l), NEW v \in 1 .. l.total
          PROVE  \E j \in 1 .. n + 1 : Given(p, x[j], i, v)
      <4>1. FromTo(e, l, previous) /\ l.total \in Nat /\ l.kind = "total"
        BY <1>1, <3>1, <3>8, CodexAssumption DEF IsTotal
      <4>2. CASE v > previous
        <5>1. Spans(e, v) /\ IsUsage(e)
          BY <3>8, <4>1, <4>2 DEF FromTo, Spans, IsUsage
        <5>2. At(p, i, e.id)
          BY <3>8, <4>1 DEF At, FromTo
        <5>3. Given(p, x[n + 1], i, v)
          BY <1>1, <3>6, <5>1, <5>2 DEF Given
        <5> QED
          BY <5>3
      <4>3. CASE v <= previous
        <5>1. previous # 0 /\ v \in 1 .. previous
          BY <4>3
        <5>2. PICK k \in 1 .. i - 1 : LineTold(p, r, k) /\ script[p][k].total = previous /\ k \in DOMAIN script[p]
          BY <1>11, <3>8, <5>1
        <5>3. PICK j \in 1 .. n : Given(p, r[j], k, v)
          BY <1>8, <5>1, <5>2 DEF LineTold
        <5>4. Given(p, x[j], k, v)
          BY <3>6, <5>3
        <5>5. Given(p, x[j], i, v)
          BY <1>1, <5>2, <5>4 DEF Given
        <5> QED
          BY <5>5
      <4> QED
        BY <1>1, <4>1, <4>2, <4>3
    <3>9. IsTotal(l) => LineTold(p, x, i)
      BY <3>6, <3>8 DEF LineTold
    <3>10. ASSUME NEW j \in 1 .. n + 1, j > n, IsUsage(x[j]) PROVE EventTold(p, x, j, to)
      <4>1. j = n + 1 /\ x[j] = e
        BY <3>6, <3>10
      <4>2. IsTotal(l) /\ FromTo(e, l, previous)
        BY <3>1, <3>10, <4>1
      <4>3. At(p, i, e.id) /\ Measured(e) /\ e.id[4] = l.total
        BY <4>2 DEF At, FromTo
      <4>4. \A v \in 1 .. e.id[4] : \E k \in 1 .. j : Given(p, x[k], i, v)
        BY <3>8, <4>1, <4>2, <4>3
      <4> QED
        BY <1>2, <4>1, <4>3, <4>4 DEF EventTold
    <3>11. \A k \in DOMAIN script[p] :
              (Past(k, to) /\ ~Past(k, off) /\ IsTotal(script[p][k])) => LineTold(p, x, k)
      BY <1>4, <3>9
    <3>12. n + 1 \in Nat /\ n <= n + 1
      OBVIOUS
    <3>13. TotalsTold(p, from, to, x)
      BY <1>3, <1>8, <1>10, <3>6, <3>7, <3>10, <3>11, <3>12, ToldFurther
    <3>14. IsList(x)
      BY <1>8, <3>2, <3>3, Appending
    <3> QED
      BY <3>3, <3>13, <3>14
  <2> QED
    BY <2>1, <2>2
<1>13. /\ IsList(OtherEvents(l, SessOf[p])) /\ Quiet(OtherEvents(l, SessOf[p]))
       /\ IsList(ChangeEvents(l, calls)) /\ Quiet(ChangeEvents(l, calls))
  <2>1. \A e \in ToSet(OtherEvents(l, SessOf[p])) : e.type # "usage"
    BY <1>1, OtherIs
  <2>2. \A e \in ToSet(ChangeEvents(l, calls)) : e.type # "usage"
    BY <1>1, ChangeIs
  <2> QED
    BY <1>1, <2>1, <2>2, OtherIs, ChangeIs DEF Quiet, IsUsage, ToSet
<1>14. TotalsTold(p, from, to, EventsAfter(p, l, model, previous, calls, ev))
  <2>1. PICK o : o = OtherEvents(l, SessOf[p])
    OBVIOUS
  <2>2. PICK c : c = ChangeEvents(l, calls)
    OBVIOUS
  <2>3. IsList(r \o u \o o) /\ TotalsTold(p, from, to, r \o u \o o)
    BY <1>12, <1>13, <2>1, QuietTold
  <2>4. TotalsTold(p, from, to, r \o u \o o \o c)
    BY <1>13, <2>2, <2>3, QuietTold
  <2> QED
    BY <1>5, <1>6, <2>1, <2>2, <2>4 DEF EventsAfter
<1>15. PreviousTold(p, from, to, Previous(l, previous))
  <2>1. CASE l.kind \in {"total", "last"} /\ l.total # 0
    BY <1>2, <2>1 DEF Previous, PreviousTold
  <2>2. CASE ~(l.kind \in {"total", "last"} /\ l.total # 0)
    BY <1>3, <2>2 DEF Previous, PreviousTold
  <2> QED
    BY <2>1, <2>2
<1> QED
  BY <1>14, <1>15 DEF EntryTold

\* What is copied is copied with all that comes before it.
LEMMA CopiedToo ==
  ASSUME script \in Scenarios, Histories, NEW p \in Rollout, NEW k \in DOMAIN script[p], NEW id, At(p, k, id),
         NEW m \in 1 .. k, NEW own, At(p, m, own), NEW q \in Rollout, InFile(q, id)
  PROVE  InFile(q, own)
<1>1. PICK j \in DOMAIN script[q] : At(q, j, id)
  BY DEF InFile
<1>2. SameTotal(script[p][k], script[q][j])
  BY <1>1 DEF At, SameTotal
<1>3. CASE m = k
  <2>1. At(q, j, own)
    BY <1>1, <1>3 DEF At
  <2> QED
    BY <2>1 DEF InFile
<1>4. CASE m # k
  <2>1. DOMAIN script[p] = 1 .. Len(script[p]) /\ Len(script[p]) \in Nat
    BY EntryIs
  <2>2. m \in 1 .. k - 1
    BY <1>4, <2>1
  <2>3. IsTotal(script[p][k]) /\ IsTotal(script[p][m])
    BY DEF At
  <2>4. PICK i \in DOMAIN script[q] : SameTotal(script[p][m], script[q][i])
    BY <1>2, <2>2, <2>3 DEF Histories
  <2>5. At(q, i, own)
    BY <2>4 DEF At, SameTotal
  <2> QED
    BY <2>5 DEF InFile
<1> QED
  BY <1>3, <1>4

\* A start in front of the events.
LEMMA BehindQuiet ==
  ASSUME NEW p, NEW from, NEW off, NEW ev, IsList(ev), TotalsTold(p, from, off, ev),
         NEW d, IsList(d), Quiet(d)
  PROVE  /\ IsList(d \o ev) /\ TotalsTold(p, from, off, d \o ev)
         /\ \A k \in DOMAIN script[p] : LineTold(p, ev, k) => LineTold(p, d \o ev, k)
<1>1. PICK x : x = d \o ev
  OBVIOUS
<1>2. PICK a, b \in Nat : Follows(x, d, ev, a, b)
  BY <1>1, Appending
<1>3. /\ DOMAIN d = 1 .. a /\ DOMAIN ev = 1 .. b /\ DOMAIN x = 1 .. a + b
      /\ \A j \in 1 .. a : x[j] = d[j]
      /\ \A j \in 1 .. b : x[a + j] = ev[j]
  BY <1>2 DEF Follows
<1>4. ASSUME NEW j \in 1 .. a + b, IsUsage(x[j]) PROVE EventTold(p, x, j, off)
  <2>1. j > a
    BY <1>3, <1>4 DEF Quiet
  <2>2. PICK h : h = j - a
    OBVIOUS
  <2>3. h \in 1 .. b /\ a + h = j
    BY <2>1, <2>2
  <2>4. x[j] = ev[h]
    BY <1>3, <2>3
  <2>5. EventTold(p, ev, h, off)
    BY <1>3, <1>4, <2>3, <2>4 DEF TotalsTold
  <2>6. PICK k \in DOMAIN script[p] :
          /\ At(p, k, ev[h].id) /\ Past(k, off)
          /\ \A v \in 1 .. ev[h].id[4] : \E i \in 1 .. h : Given(p, ev[i], k, v)
    BY <2>5 DEF EventTold
  <2>7. ASSUME NEW v \in 1 .. ev[h].id[4] PROVE \E i \in 1 .. j : Given(p, x[i], k, v)
    <3>1. PICK i \in 1 .. h : Given(p, ev[i], k, v)
      BY <2>6
    <3>2. i \in 1 .. b /\ a + i \in 1 .. j
      BY <2>3
    <3> QED
      BY <1>3, <3>1, <3>2
  <2> QED
    BY <2>4, <2>5, <2>6, <2>7 DEF EventTold
<1>5. ASSUME NEW k \in DOMAIN script[p], LineTold(p, ev, k) PROVE LineTold(p, x, k)
  <2> SUFFICES ASSUME NEW v \in 1 .. script[p][k].total PROVE \E j \in DOMAIN x : Given(p, x[j], k, v)
    BY DEF LineTold
  <2>1. PICK j \in 1 .. b : Given(p, ev[j], k, v)
    BY <1>3, <1>5 DEF LineTold
  <2>2. a + j \in 1 .. a + b
    OBVIOUS
  <2> QED
    BY <1>3, <2>1, <2>2
<1>6. TotalsTold(p, from, off, x)
  BY <1>3, <1>4, <1>5 DEF TotalsTold
<1> QED
  BY <1>1, <1>5, <1>6, Appending

\* An event and the row made of it, if its id is new.
RowOfEvent(p, e) == [id |-> e.id, n |-> e.n, model |-> e.model, path |-> p, ts |-> e.ts]
FirstOfId(x, i) ==
  /\ x[i].type = "usage" /\ \A r \in usageRows : r.id # x[i].id
  /\ \A j \in DOMAIN x : x[j].type = "usage" /\ j < i => x[j].id # x[i].id
\* A row gives a token that an event gave, in every file that has the event's total.
Stands(e, v, rs) == \E y \in rs : Spans(y, v) /\ \A q \in Rollout : InFile(q, e.id) => InFile(q, y.id)
RowsAfter(p, x, rs) == rs = usageRows \cup {RowOfEvent(p, x[i]) : i \in {k \in DOMAIN x : FirstOfId(x, k)}}

LEMMA InsertStands ==
  ASSUME script \in Scenarios, Histories, NEW p \in Rollout, NEW from, NEW off, NEW x, NEW n \in Nat, DOMAIN x = 1 .. n,
         TotalsTold(p, from, off, x), RowsReach(usageRows), NEW rs, RowsAfter(p, x, rs),
         NEW j \in 1 .. n, IsUsage(x[j]), NEW v \in Nat \ {0}, Spans(x[j], v)
  PROVE  Stands(x[j], v, rs)
<1> DEFINE B == {i \in 1 .. n : IsUsage(x[i]) /\ Spans(x[i], v) /\ \A q \in Rollout : InFile(q, x[j].id) => InFile(q, x[i].id)}
<1>1. B \in SUBSET Nat /\ B # {}
  <2>1. j \in B
    OBVIOUS
  <2> QED
    BY <2>1
<1> HIDE DEF B
<1>2. PICK b \in B : \A c \in B : b <= c
  BY <1>1, LeastOf
<1>3. /\ b \in 1 .. n /\ IsUsage(x[b]) /\ Spans(x[b], v)
      /\ \A q \in Rollout : InFile(q, x[j].id) => InFile(q, x[b].id)
  BY <1>2 DEF B
<1>4. Measured(x[b]) /\ v <= x[b].id[4]
  BY <1>3 DEF TotalsTold, EventTold, Spans
<1>5. ASSUME NEW i \in 1 .. n, x[i].type = "usage", i < b, x[i].id = x[b].id PROVE FALSE
  <2>1. IsUsage(x[i])
    BY <1>3, <1>5 DEF IsUsage, Summed
  <2>2. PICK k \in DOMAIN script[p] :
          At(p, k, x[i].id) /\ \A w \in 1 .. x[i].id[4] : \E h \in 1 .. i : Given(p, x[h], k, w)
    BY <2>1 DEF TotalsTold, EventTold
  <2>3. v \in 1 .. x[i].id[4]
    BY <1>4, <1>5 DEF Measured
  <2>4. PICK h \in 1 .. i : Given(p, x[h], k, v)
    BY <2>2, <2>3
  <2>5. PICK m \in 1 .. k : At(p, m, x[h].id)
    BY <2>4 DEF Given
  <2>6. \A q \in Rollout : InFile(q, x[i].id) => InFile(q, x[h].id)
    BY <2>2, <2>5, CopiedToo
  <2>7. h \in 1 .. n /\ IsUsage(x[h]) /\ Spans(x[h], v)
    BY <2>4 DEF Given
  <2>8. h \in B
    BY <1>3, <1>5, <2>6, <2>7 DEF B
  <2> QED
    BY <1>2, <1>3, <1>5, <2>8
<1>6. CASE \E r \in usageRows : r.id = x[b].id
  <2>1. PICK r \in usageRows : r.id = x[b].id
    BY <1>6
  <2>2. Summed(r) /\ v \in 1 .. r.id[4]
    BY <1>3, <1>4, <2>1 DEF IsUsage, Summed, Measured
  <2>3. PICK y \in usageRows : Spans(y, v) /\ \A q \in Rollout : InFile(q, r.id) => InFile(q, y.id)
    BY <2>2 DEF RowsReach, Reaches
  <2>4. y \in rs
    BY DEF RowsAfter
  <2> QED
    BY <1>3, <2>1, <2>3, <2>4 DEF Stands
<1>7. CASE \A r \in usageRows : r.id # x[b].id
  <2>1. FirstOfId(x, b)
    BY <1>3, <1>5, <1>7 DEF FirstOfId, IsUsage
  <2>2. PICK y : y = RowOfEvent(p, x[b])
    OBVIOUS
  <2>3. y \in rs
    BY <1>3, <2>1, <2>2 DEF RowsAfter
  <2>4. y.id = x[b].id /\ y.n = x[b].n
    BY <2>2 DEF RowOfEvent
  <2>5. Spans(y, v)
    BY <1>3, <2>4 DEF Spans, Summed
  <2> QED
    BY <1>3, <2>3, <2>4, <2>5 DEF Stands
<1> QED
  BY <1>6, <1>7

\* What the rows give after an insertion.
TotalsKept(p, ev, rs) ==
  /\ usageRows \subseteq rs /\ IsFiniteSet(rs)
  /\ RowsReach(rs)
  /\ \A k \in DOMAIN script[p] : LineTold(p, ev, k) => LineIn(p, k, rs)

LEMMA InsertKeeps ==
  ASSUME script \in Scenarios, Histories, NEW p \in Rollout, NEW from, NEW off, NEW x, IsList(x),
         TotalsTold(p, from, off, x), RowsReach(usageRows), IsFiniteSet(usageRows), NEW rs, RowsAfter(p, x, rs)
  PROVE  TotalsKept(p, x, rs)
<1>1. PICK n \in Nat : DOMAIN x = 1 .. n
  BY ListIs
<1>2. usageRows \subseteq rs
  BY DEF RowsAfter
<1>3. IsFiniteSet(rs)
  <2> DEFINE I == {k \in DOMAIN x : FirstOfId(x, k)}
  <2>1. IsFiniteSet(1 .. n)
    BY FS_Interval
  <2>2. IsFiniteSet(I)
    BY <1>1, <2>1, FS_Subset
  <2> HIDE DEF I
  <2> DEFINE f == [i \in I |-> RowOfEvent(p, x[i])]
  <2>a. IsFiniteSet(Onto(f, I))
    BY <2>2, ImageFinite
  <2>b. Onto(f, I) = {RowOfEvent(p, x[i]) : i \in I}
    BY DEF Onto
  <2>3. IsFiniteSet({RowOfEvent(p, x[i]) : i \in I})
    BY <2>a, <2>b
  <2> QED
    BY <2>3, FS_Union DEF RowsAfter, I
<1>4. ASSUME NEW r \in rs, Summed(r) PROVE Measured(r) /\ Reaches(r.id, rs)
  <2>1. CASE r \in usageRows
    BY <1>2, <1>4, <2>1 DEF RowsReach, Reaches
  <2>2. CASE r \notin usageRows
    <3>1. PICK j \in 1 .. n : FirstOfId(x, j) /\ r = RowOfEvent(p, x[j])
      BY <1>1, <2>2 DEF RowsAfter
    <3>2. r.id = x[j].id /\ r.n = x[j].n
      BY <3>1 DEF RowOfEvent
    <3>3. IsUsage(x[j])
      BY <1>4, <3>1, <3>2 DEF FirstOfId, IsUsage, Summed
    <3>4. EventTold(p, x, j, off)
      BY <1>1, <3>3 DEF TotalsTold
    <3>5. PICK k \in DOMAIN script[p] :
            At(p, k, x[j].id) /\ \A w \in 1 .. x[j].id[4] : \E h \in 1 .. j : Given(p, x[h], k, w)
      BY <3>4 DEF EventTold
    <3>6. ASSUME NEW v \in 1 .. r.id[4]
          PROVE  \E y \in rs : Spans(y, v) /\ \A q \in Rollout : InFile(q, r.id) => InFile(q, y.id)
      <4>1. PICK h \in 1 .. j : Given(p, x[h], k, v)
        BY <3>2, <3>5
      <4>2. PICK m \in 1 .. k : At(p, m, x[h].id)
        BY <4>1 DEF Given
      <4>3. \A q \in Rollout : InFile(q, x[j].id) => InFile(q, x[h].id)
        BY <3>5, <4>2, CopiedToo
      <4>4. h \in 1 .. n /\ IsUsage(x[h]) /\ Spans(x[h], v)
        BY <4>1 DEF Given
      <4>5. v \in Nat \ {0}
        OBVIOUS
      <4>6. Stands(x[h], v, rs)
        BY <1>1, <4>4, <4>5, InsertStands
      <4>7. PICK y \in rs : Spans(y, v) /\ \A q \in Rollout : InFile(q, x[h].id) => InFile(q, y.id)
        BY <4>6 DEF Stands
      <4>8. \A q \in Rollout : InFile(q, r.id) => InFile(q, y.id)
        BY <3>2, <4>3, <4>7
      <4> QED
        BY <4>7, <4>8
    <3>7. Measured(r)
      BY <3>2, <3>4 DEF EventTold, Measured
    <3> QED
      BY <3>6, <3>7 DEF Reaches
  <2> QED
    BY <2>1, <2>2
<1>5. ASSUME NEW k \in DOMAIN script[p], LineTold(p, x, k), NEW v \in 1 .. script[p][k].total
      PROVE  \E y \in rs : Spans(y, v) /\ InFile(p, y.id)
  <2>1. PICK j \in 1 .. n : Given(p, x[j], k, v)
    BY <1>1, <1>5 DEF LineTold
  <2>2. PICK m \in 1 .. k : At(p, m, x[j].id)
    BY <2>1 DEF Given
  <2>3. DOMAIN script[p] = 1 .. Len(script[p]) /\ Len(script[p]) \in Nat
    BY EntryIs
  <2>4. m \in DOMAIN script[p]
    BY <2>3
  <2>5. InFile(p, x[j].id)
    BY <2>2, <2>4 DEF InFile
  <2>6. v \in Nat \ {0} /\ IsUsage(x[j]) /\ Spans(x[j], v)
    BY <2>1 DEF Given
  <2>7. Stands(x[j], v, rs)
    BY <1>1, <2>6, InsertStands
  <2> QED
    BY <2>5, <2>7 DEF Stands
<1> QED
  BY <1>2, <1>3, <1>4, <1>5 DEF TotalsKept, RowsReach, LineIn

LEMMA EmitTotals ==
  ASSUME script \in Scenarios, Histories, NEW p \in Rollout, NEW from, NEW off, NEW ev, IsList(ev),
         TotalsTold(p, from, off, ev), RowsReach(usageRows), IsFiniteSet(usageRows), EmitOrDefer(p, ev)
  PROVE  TotalsKept(p, ev, usageRows')
<1>1. CASE ~Substantive(ev)
  <2>1. usageRows' = usageRows
    BY <1>1 DEF EmitOrDefer, effectVars
  <2>2. ASSUME NEW k \in DOMAIN script[p], LineTold(p, ev, k), NEW v \in 1 .. script[p][k].total PROVE FALSE
    <3>1. PICK j \in DOMAIN ev : Given(p, ev[j], k, v)
      BY <2>2 DEF LineTold
    <3>2. ev[j] \in ToSet(ev) /\ ev[j].type = "usage"
      BY <3>1 DEF ToSet, Given, IsUsage
    <3> QED
      BY <1>1, <3>2 DEF Substantive
  <2> QED
    BY <2>1, <2>2 DEF TotalsKept, LineIn
<1>2. CASE Substantive(ev)
  <2>1. PICK d : d = Deferred(SessOf[p])
    OBVIOUS
  <2>2. PICK x : x = d \o ev
    OBVIOUS
  <2>3. Emit(p, x)
    BY <1>2, <2>1, <2>2 DEF EmitOrDefer
  <2>4. IsList(d) /\ Quiet(d)
    <3>1. PICK e : e = [type |-> "start", id |-> SessOf[p]]
      OBVIOUS
    <3>2. ~IsUsage(e)
      BY <3>1 DEF IsUsage
    <3>3. d = <<e>> \/ d = <<>>
      BY <2>1, <3>1 DEF Deferred
    <3> QED
      BY <3>2, <3>3, ShortLists DEF Quiet
  <2>5. IsList(x) /\ TotalsTold(p, from, off, x)
    BY <2>2, <2>4, BehindQuiet
  <2>6. RowsAfter(p, x, usageRows')
    <3>1. usageRows' = usageRows \cup
            {[id |-> x[i].id, n |-> x[i].n, model |-> x[i].model, path |-> p, ts |-> x[i].ts] :
               i \in {k \in {h \in DOMAIN x : x[h].type = "usage"} :
                        /\ \A r \in usageRows : r.id # x[k].id
                        /\ \A j \in {h \in DOMAIN x : x[h].type = "usage"} : j < k => x[j].id # x[k].id}}
      BY <2>3 DEF Emit
    <3>2. {k \in {h \in DOMAIN x : x[h].type = "usage"} :
                        /\ \A r \in usageRows : r.id # x[k].id
                        /\ \A j \in {h \in DOMAIN x : x[h].type = "usage"} : j < k => x[j].id # x[k].id}
            = {k \in DOMAIN x : FirstOfId(x, k)}
      BY DEF FirstOfId
    <3> QED
      BY <3>1, <3>2, Zenon DEF RowsAfter, RowOfEvent
  <2>7. TotalsKept(p, x, usageRows')
    BY <2>5, <2>6, InsertKeeps
  <2>8. \A k \in DOMAIN script[p] : LineTold(p, ev, k) => LineTold(p, x, k)
    BY <2>2, <2>4, BehindQuiet
  <2> QED
    BY <2>7, <2>8 DEF TotalsKept
<1> QED
  BY <1>1, <1>2

-----------------------------------------------------------------------------
(* Codex: the scans, and their totals.                                     *)

WellTold(p, from, at) ==
  TotalsTold(p, from, at.off, at.events) /\ PreviousTold(p, from, at.off, at.previous)

LEMMA StepTells ==
  ASSUME script \in Scenarios, Histories, NEW p \in Rollout, grown[p] \in Nat, grown[p] <= 3 * Len(script[p]),
         NEW K, NEW from \in Nat, NEW model, NEW calls,
         NEW at, WellRead(p, from, model, calls, K, at), WellTold(p, from, at)
  PROVE  WellTold(p, from, ReadStep(p, at))
<1>1. PICK r : r = ReadLine(script[p], grown[p], at.off)
  OBVIOUS
<1>2. StepsTo(p, at, r, ReadStep(p, at))
  BY <1>1, StepIs
<1>3. CASE at.eof \/ at.off >= grown[p]
  BY <1>2, <1>3 DEF StepsTo
<1>4. CASE ~(at.eof \/ at.off >= grown[p])
  <2>1. /\ HasRead(p, from, at.off, at.model, at.calls, ToSet(at.events), K)
        /\ at.previous \in Nat /\ IsList(at.events)
    BY DEF WellRead
  <2>2. /\ Boundary(at.off) /\ at.off \in Nat /\ at.off < grown[p] /\ Len(script[p]) \in Nat /\ from <= at.off
        /\ at.model \in SessionModels /\ \A e \in ToSet(at.events) : Sound(p, e)
    BY <1>4, <2>1, EntryIs DEF HasRead, Boundary
  <2>3. EntryRead(script[p], at.off, grown[p], r)
    BY <1>1, <2>2, EntryIs, EntryReadIs
  <2>4. PICK x : x = ReadStep(p, at)
    OBVIOUS
  <2>5. CASE ~r.parsed
    <3>1. x = [at EXCEPT !.off = r.to, !.eof = r.eof]
      BY <1>2, <1>4, <2>4, <2>5 DEF StepsTo
    <3>2. x = [off |-> r.to, eof |-> r.eof, model |-> at.model, calls |-> at.calls,
               previous |-> at.previous, events |-> at.events]
      BY <3>1 DEF WellRead
    <3>3. x.off = r.to /\ x.previous = at.previous /\ x.events = at.events
      BY <3>2
    <3>4. \A k \in DOMAIN script[p] : Past(k, r.to) => Past(k, at.off) \/ ~IsTotal(script[p][k])
      BY <2>3, <2>5 DEF EntryRead, IsTotal
    <3>5. \A k \in DOMAIN script[p] : Past(k, at.off) => Past(k, r.to)
      <4>1. at.off <= r.to /\ r.to \in Nat
        BY <2>3 DEF EntryRead, Boundary
      <4>2. \A k \in DOMAIN script[p] : k \in Nat
        BY EntryIs
      <4> QED
        BY <2>2, <4>1, <4>2 DEF Past
    <3>6. PICK n \in Nat : DOMAIN at.events = 1 .. n
      BY <2>1, ListIs
    <3>7. TotalsTold(p, from, r.to, at.events)
      <4>1. TotalsTold(p, from, at.off, at.events)
        BY DEF WellTold
      <4>2. \A j \in 1 .. n : Alike(at.events[j], at.events[j])
        BY DEF Alike
      <4>3. \A j \in 1 .. n : j > n /\ IsUsage(at.events[j]) => EventTold(p, at.events, j, r.to)
        OBVIOUS
      <4>4. \A k \in DOMAIN script[p] :
              (Past(k, r.to) /\ ~Past(k, at.off) /\ IsTotal(script[p][k])) => LineTold(p, at.events, k)
        BY <3>4
      <4>5. n <= n
        OBVIOUS
      <4> QED
        BY <3>5, <3>6, <4>1, <4>2, <4>3, <4>4, <4>5, ToldFurther
    <3>8. PreviousTold(p, from, r.to, at.previous)
      BY <3>5 DEF WellTold, PreviousTold
    <3> QED
      BY <2>4, <3>3, <3>7, <3>8 DEF WellTold
  <2>6. CASE r.parsed
    <3>1. PICK l : l = r.line
      OBVIOUS
    <3>2. PICK i \in DOMAIN script[p] :
            /\ l = script[p][i]
            /\ \A j \in DOMAIN script[p] : Past(j, r.to) <=> j <= i
            /\ \A j \in DOMAIN script[p] : Past(j, at.off) <=> j < i
      BY <2>3, <2>6, <3>1 DEF EntryRead
    <3>3. PICK m : m = ContextModel(l, at.model)
      OBVIOUS
    <3>4. m \in SessionModels
      BY <2>2, <3>2, <3>3, EntryIs, ModelIs
    <3>5. TotalsTold(p, from, at.off, at.events) /\ PreviousTold(p, from, at.off, at.previous)
      BY DEF WellTold
    <3>6. EntryTold(p, from, r.to, l, m, at.previous, at.calls, at.events)
      BY <2>1, <2>2, <3>2, <3>4, <3>5, EntryTells
    <3>7. x = [off |-> r.to, eof |-> r.eof, model |-> m, calls |-> CallsAfter(l, at.calls),
               previous |-> Previous(l, at.previous),
               events |-> EventsAfter(p, l, m, at.previous, at.calls, at.events)]
      BY <1>2, <1>4, <2>4, <2>6, <3>1, <3>3 DEF StepsTo
    <3>8. /\ x.off = r.to /\ x.previous = Previous(l, at.previous)
          /\ x.events = EventsAfter(p, l, m, at.previous, at.calls, at.events)
      BY <3>7
    <3> QED
      BY <2>4, <3>6, <3>8 DEF WellTold, EntryTold
  <2> QED
    BY <2>5, <2>6
<1> QED
  BY <1>3, <1>4

LEMMA ReadTells ==
  ASSUME script \in Scenarios, Histories, NEW p \in Rollout, grown[p] \in Nat, grown[p] <= 3 * Len(script[p]),
         NEW K, FailedCalls \subseteq K, NEW from \in Nat, NEW model, NEW calls,
         HasRead(p, from, from, model, calls, {}, K), NEW at, at = ReadRollout(p, from, model, calls)
  PROVE  TotalsTold(p, from, at.off, at.events)
<1>1. PICK n \in Nat : n = Len(script[p]) + 1
  BY EntryIs
<1>2. PICK start : start = [off |-> from, eof |-> FALSE, model |-> model, calls |-> calls,
                            previous |-> 0, events |-> <<>>]
  OBVIOUS
<1> DEFINE F == CHOOSE g : g = [k \in 0 .. n |-> IF k = 0 THEN start ELSE ReadStep(p, g[k - 1])]
<1>3. at = F[n]
  BY <1>1, <1>2 DEF ReadRollout
<1>4. F = [k \in 0 .. n |-> IF k = 0 THEN start ELSE ReadStep(p, F[k - 1])]
  <2>1. \E g : g = [k \in 0 .. n |-> IF k = 0 THEN start ELSE ReadStep(p, g[k - 1])]
    <3>1. \E g : ReadsUpTo(p, start, n, g)
      BY ReadsExist
    <3> QED
      BY <3>1 DEF ReadsUpTo
  <2> QED
    BY <2>1
<1> HIDE DEF F
<1> DEFINE S == {k \in 0 .. n : WellRead(p, from, model, calls, K, F[k]) /\ WellTold(p, from, F[k])}
<1>5. 0 \in S
  <2>1. F[0] = start
    BY <1>4
  <2>2. /\ start.off = from /\ start.eof = FALSE /\ start.model = model /\ start.calls = calls
        /\ start.previous = 0 /\ start.events = <<>>
    BY <1>2
  <2>3. IsList(<<>>) /\ ToSet(<<>>) = {}
    BY ShortLists
  <2>4. WellRead(p, from, model, calls, K, start)
    BY <1>2, <2>2, <2>3 DEF WellRead
  <2>5. TotalsTold(p, from, from, <<>>) /\ PreviousTold(p, from, from, 0)
    BY DEF TotalsTold, PreviousTold
  <2>6. WellTold(p, from, start)
    BY <2>2, <2>5 DEF WellTold
  <2> QED
    BY <2>1, <2>4, <2>6
<1>6. ASSUME NEW k \in 1 .. n, k - 1 \in S PROVE k \in S
  <2>1. F[k] = ReadStep(p, F[k - 1])
    <3>1. k \in 0 .. n /\ k # 0
      OBVIOUS
    <3> QED
      BY <1>4, <3>1
  <2>2. WellRead(p, from, model, calls, K, F[k - 1]) /\ WellTold(p, from, F[k - 1])
    BY <1>6
  <2>3. WellRead(p, from, model, calls, K, F[k])
    BY <2>1, <2>2, StepKeeps
  <2>4. WellTold(p, from, F[k])
    BY <2>1, <2>2, StepTells
  <2> QED
    BY <2>3, <2>4
<1> HIDE DEF S
<1>7. n \in S
  <2>1. \A k \in 0 .. n : k \in S
    BY <1>5, <1>6, UpTo
  <2> QED
    BY <2>1
<1> QED
  BY <1>3, <1>7 DEF S, WellTold

\* Where a known file is read from, that much has been read of it.
LEMMA KnownRead ==
  ASSUME CodexInv, ~codexDone, NEW p \in Rollout, NEW from,
         from = 0 \/ (from = codexSeen[p] /\ codexSeen[p] # Unseen)
  PROVE  HasRead(p, from, from, models[SessOf[p]], pendingCalls, {}, Settled)
<1>1. /\ CodexTyped /\ SeenKept(p) /\ script \in Scenarios
      /\ models[SessOf[p]] \in SessionModels /\ pendingCalls \in [CallId -> CallState]
  BY SessionIs DEF CodexInv, CodexTyped
<1>2. CASE from = 0
  BY <1>1, <1>2, FromTheStart
<1>3. CASE from # 0
  <2>1. from = codexSeen[p] /\ codexSeen[p] # Unseen
    BY <1>3
  <2>2. Contexted(p, from, models[SessOf[p]])
    BY <1>1, <2>1 DEF SeenKept
  <2>3. CallsKept(p, from, pendingCalls, Settled) /\ OutputsKept(p, from, Settled)
    BY <1>1, <2>1 DEF SeenKept
  <2>4. Settled \cup Changes({}) = Settled
    BY DEF Changes
  <2>5. MetaKept(p, from, from, {})
    BY DEF MetaKept
  <2>6. Boundary(from) /\ from <= from /\ from <= 3 * Len(script[p])
    BY <1>1, <2>1 DEF CodexTyped, Boundary
  <2> HIDE DEF Settled
  <2> QED
    BY <1>1, <2>2, <2>3, <2>4, <2>5, <2>6 DEF HasRead
<1> QED
  BY <1>2, <1>3

-----------------------------------------------------------------------------
(* Codex: the actions, and their totals.                                   *)

\* These speak of the scripts and of what they are given.
LEMMA SameTotals ==
  ASSUME UNCHANGED script
  PROVE  /\ \A p, from, off, ev : TotalsTold(p, from, off, ev)' <=> TotalsTold(p, from, off, ev)
         /\ \A p, off, rs : Accounted(p, off, rs)' <=> Accounted(p, off, rs)
         /\ \A rs : RowsReach(rs)' <=> RowsReach(rs)
BY DEF TotalsTold, EventTold, LineTold, Given, At, Accounted, LineIn, RowsReach, Reaches, InFile, IsUsage, Measured,
       Spans, Summed

LEMMA NoneAccounted ==
  ASSUME script \in Scenarios, NEW p \in Rollout, NEW rs
  PROVE  Accounted(p, 0, rs)
<1>1. DOMAIN script[p] = 1 .. Len(script[p]) /\ Len(script[p]) \in Nat
  BY EntryIs
<1>2. \A k \in DOMAIN script[p] : ~Past(k, 0)
  BY <1>1 DEF Past
<1> QED
  BY <1>2 DEF Accounted

AllTold(got) == \A r \in got : TotalsTold(r.path, 0, r.off, r.events)

LEMMA TotalsAre ==
  ASSUME Histories, CodexInv', UNCHANGED script, NEW rs, usageRows' = rs, IsFiniteSet(rs), RowsReach(rs),
         NEW seen2, codexSeen' = seen2,
         ~codexDone' => \A p \in Rollout : seen2[p] # Unseen => Accounted(p, seen2[p], rs),
         codexPass'.pc = "collect" => AllTold(codexPass'.got)
  PROVE  TotalsInv'
<1>1. RowsReach(rs)'
  BY SameTotals
<1>2. ASSUME ~codexDone', NEW p \in Rollout, seen2[p] # Unseen PROVE Accounted(p, seen2[p], rs)'
  BY <1>2, SameTotals
<1>3. ASSUME codexPass'.pc = "collect", NEW r \in codexPass'.got PROVE TotalsTold(r.path, 0, r.off, r.events)'
  BY <1>3, SameTotals DEF AllTold
<1>4. RowsReach(usageRows)'
  BY <1>1 DEF RowsReach, Reaches, InFile, At, Measured, Spans, Summed
<1>5. ASSUME ~codexDone', NEW p \in Rollout, codexSeen'[p] # Unseen PROVE Accounted(p, codexSeen[p], usageRows)'
  BY <1>2, <1>5 DEF Accounted, LineIn, InFile, At, Spans, Summed
<1>6. Histories'
  BY DEF Histories
<1> QED
  BY <1>3, <1>4, <1>5, <1>6 DEF TotalsInv

\* No row comes, and no offset moves but to where nothing is read.
LEMMA TotalsQuiet ==
  ASSUME TotalsInv, CodexInv', UNCHANGED <<script, usageRows>>,
         ~codexDone' => \A p \in Rollout : \/ codexSeen'[p] \in {Unseen, 0}
                                           \/ ~codexDone /\ codexSeen'[p] = codexSeen[p],
         codexPass'.pc = "collect" => AllTold(codexPass'.got)
  PROVE  TotalsInv'
<1>1. Histories /\ CodexInv /\ IsFiniteSet(usageRows) /\ RowsReach(usageRows) /\ script \in Scenarios
  BY DEF TotalsInv, CodexInv, CodexTyped
<1>2. ASSUME ~codexDone', NEW p \in Rollout, codexSeen'[p] # Unseen PROVE Accounted(p, codexSeen'[p], usageRows)
  <2>1. CASE codexSeen'[p] = 0
    BY <1>1, <2>1, NoneAccounted
  <2>2. CASE codexSeen'[p] # 0
    <3>1. ~codexDone /\ codexSeen'[p] = codexSeen[p]
      BY <1>2, <2>2
    <3> QED
      BY <1>2, <3>1 DEF TotalsInv
  <2> QED
    BY <2>1, <2>2
<1> QED
  BY <1>1, <1>2, TotalsAre

\* A file is read and its events emitted.
LEMMA TotalsRead ==
  ASSUME TotalsInv, CodexInv', UNCHANGED <<script, codexDone>>, NEW p \in Rollout, NEW ev, IsList(ev),
         NEW from, NEW off, TotalsTold(p, from, off, ev), EmitOrDefer(p, ev),
         from = 0 \/ (from = codexSeen[p] /\ codexSeen[p] # Unseen),
         codexSeen' = [codexSeen EXCEPT ![p] = off],
         codexPass'.pc = "collect" => AllTold(codexPass'.got)
  PROVE  TotalsInv'
<1>1. Histories /\ CodexInv /\ IsFiniteSet(usageRows) /\ RowsReach(usageRows) /\ script \in Scenarios
  BY DEF TotalsInv, CodexInv, CodexTyped
<1>2. PICK rs : rs = usageRows'
  OBVIOUS
<1>3. TotalsKept(p, ev, rs)
  BY <1>1, <1>2, EmitTotals
<1>4. usageRows \subseteq rs /\ IsFiniteSet(rs) /\ RowsReach(rs)
  BY <1>3 DEF TotalsKept
<1>5. \A q, k : LineIn(q, k, usageRows) => LineIn(q, k, rs)
  BY <1>4 DEF LineIn
<1>6. ASSUME ~codexDone', NEW q \in Rollout, codexSeen'[q] # Unseen PROVE Accounted(q, codexSeen'[q], rs)
  <2>1. CASE q = p
    <3>1. codexSeen'[p] = off
      BY <1>1 DEF CodexInv, CodexTyped
    <3> SUFFICES ASSUME NEW k \in DOMAIN script[p], Past(k, off), IsTotal(script[p][k]) PROVE LineIn(p, k, rs)
      BY <2>1, <3>1 DEF Accounted
    <3>2. CASE Past(k, from)
      <4>1. from = codexSeen[p] /\ codexSeen[p] # Unseen
        <5>1. CASE from = 0
          BY <1>1, <3>2, <5>1, EntryIs DEF Past
        <5> QED
          BY <5>1
      <4>2. Accounted(p, codexSeen[p], usageRows)
        BY <1>6, <4>1 DEF TotalsInv
      <4> QED
        BY <1>5, <3>2, <4>1, <4>2 DEF Accounted
    <3>3. CASE ~Past(k, from)
      <4>1. LineTold(p, ev, k)
        BY <3>3 DEF TotalsTold
      <4> QED
        BY <1>3, <4>1 DEF TotalsKept
    <3> QED
      BY <3>2, <3>3
  <2>2. CASE q # p
    <3>1. codexSeen'[q] = codexSeen[q]
      BY <1>1, <2>2 DEF CodexInv, CodexTyped
    <3>2. Accounted(q, codexSeen[q], usageRows)
      BY <1>6, <3>1 DEF TotalsInv
    <3> QED
      BY <1>5, <3>1, <3>2 DEF Accounted
  <2> QED
    BY <2>1, <2>2
<1> QED
  BY <1>1, <1>2, <1>4, <1>6, TotalsAre

LEMMA TickTotals ==
  ASSUME TotalsInv, CodexTick
  PROVE  TotalsInv'
<1>1. CodexInv /\ CodexInv'
  BY TickKeeps DEF TotalsInv
<1>2. UNCHANGED <<script, usageRows, codexSeen, codexDone>>
  BY DEF CodexTick, fileVars, memoryVars, effectVars
<1>3. codexPass'.pc = "collect" => codexPass'.got = {}
  BY DEF CodexTick
<1>4. codexPass'.pc = "collect" => AllTold(codexPass'.got)
  BY <1>3 DEF AllTold
<1> QED
  BY <1>1, <1>2, <1>4, TotalsQuiet

LEMMA DiscoverTotals ==
  ASSUME TotalsInv, NEW p \in Rollout, DiscoverOne(p)
  PROVE  TotalsInv'
<1> DEFINE at == ReadRollout(p, Max({codexSeen[p], 0}), models[SessOf[p]], NoCalls)
           result == [path |-> p, off |-> at.off, model |-> at.model, calls |-> at.calls, events |-> at.events]
<1>1. CodexInv /\ CodexInv' /\ Histories
  BY DiscoverKeeps DEF TotalsInv
<1>2. UNCHANGED <<script, usageRows, codexSeen, codexDone>>
  BY DEF DiscoverOne, fileVars, memoryVars, effectVars
<1>3. /\ CodexTyped /\ script \in Scenarios /\ CodexPassKept
      /\ grown[p] \in Nat /\ grown[p] <= 3 * Len(script[p])
      /\ models[SessOf[p]] \in SessionModels
  BY <1>1, SessionIs DEF CodexInv, CodexTyped
<1>4. codexPass.pc = "collect" /\ p \in codexPass.todo
  BY DEF DiscoverOne
<1>5. /\ codexPass = [pc |-> "collect", got |-> codexPass.got, todo |-> codexPass.todo]
      /\ codexSeen[p] = Unseen
  BY <1>3, <1>4, CodexPassIs
<1>6. codexPass' = IF codexDone THEN [codexPass EXCEPT !.todo = {}]
                   ELSE [codexPass EXCEPT !.todo = @ \ {p},
                           !.got = IF Exists(p) THEN @ \cup {result} ELSE @]
  BY DEF DiscoverOne
<1>7. TotalsTold(result.path, 0, result.off, result.events)
  <2>1. Max({codexSeen[p], 0}) = 0
    BY <1>3, <1>5, KnownIs
  <2>2. NoCalls \in [CallId -> CallState]
    BY DEF NoCalls, CallState
  <2>3. HasRead(p, 0, 0, models[SessOf[p]], NoCalls, {}, FailedCalls)
    BY <1>3, <2>2, FromTheStart
  <2>4. PICK x : x = ReadRollout(p, 0, models[SessOf[p]], NoCalls)
    OBVIOUS
  <2>5. TotalsTold(p, 0, x.off, x.events)
    BY <1>1, <1>3, <2>3, <2>4, ReadTells
  <2>6. at = x
    BY <2>1, <2>4
  <2> QED
    BY <2>5, <2>6
<1> HIDE DEF at, result
<1>8. codexPass'.got \subseteq codexPass.got \cup {result}
  <2>1. CASE codexDone
    BY <1>5, <1>6, <2>1
  <2>2. CASE ~codexDone
    <3>1. PICK new : new = IF Exists(p) THEN codexPass.got \cup {result} ELSE codexPass.got
      OBVIOUS
    <3>2. codexPass' = [codexPass EXCEPT !.todo = @ \ {p}, !.got = new]
      BY <1>6, <2>2, <3>1, Zenon
    <3>3. PICK mid : mid = [codexPass EXCEPT !.todo = @ \ {p}]
      OBVIOUS
    <3>4. mid = [pc |-> "collect", got |-> codexPass.got, todo |-> codexPass.todo \ {p}]
      BY <1>5, <3>3
    <3>5. codexPass' = [mid EXCEPT !.got = new]
      BY <3>2, <3>3, Zenon
    <3>6. codexPass'.got = new
      BY <3>4, <3>5
    <3> QED
      BY <3>1, <3>6
  <2> QED
    BY <2>1, <2>2
<1>9. AllTold(codexPass'.got)
  BY <1>4, <1>7, <1>8 DEF AllTold, TotalsInv
<1> QED
  BY <1>1, <1>2, <1>9, TotalsQuiet

LEMMA MergeTotals ==
  ASSUME TotalsInv, NEW r \in codexPass.got, MergeResult(r)
  PROVE  TotalsInv'
<1>1. CodexInv /\ CodexInv'
  BY MergeKeeps DEF TotalsInv
<1>2. codexPass.pc = "collect" /\ codexPass.todo = {}
  BY DEF MergeResult
<1>3. /\ codexPass = [pc |-> "collect", got |-> codexPass.got, todo |-> codexPass.todo]
      /\ \A x \in codexPass.got : Found(x)
  BY <1>1, <1>2, CodexPassIs DEF CodexInv
<1>4. /\ UNCHANGED <<script, codexDone>>
      /\ codexSeen' = [codexSeen EXCEPT ![r.path] = r.off]
      /\ codexPass' = [codexPass EXCEPT !.got = @ \ {r}]
  BY DEF MergeResult, fileVars
<1>5. IF codexDone /\ Substantive(r.events)
      THEN UNCHANGED <<effectVars, pendingStarts>> ELSE EmitOrDefer(r.path, r.events)
  BY DEF MergeResult
<1>6. AllTold(codexPass.got) /\ TotalsTold(r.path, 0, r.off, r.events)
  BY <1>2 DEF TotalsInv, AllTold
<1>7. codexPass'.got = codexPass.got \ {r}
  BY <1>3, <1>4
<1>8. AllTold(codexPass'.got)
  BY <1>6, <1>7 DEF AllTold
<1>9. CASE codexDone /\ Substantive(r.events)
  <2>1. usageRows' = usageRows
    BY <1>5, <1>9 DEF effectVars
  <2> QED
    BY <1>1, <1>4, <1>8, <1>9, <2>1, TotalsQuiet
<1>10. CASE ~(codexDone /\ Substantive(r.events))
  <2>1. r.path \in Rollout /\ IsList(r.events)
    BY <1>3 DEF Found
  <2>2. EmitOrDefer(r.path, r.events)
    BY <1>5, <1>10
  <2>3. UNCHANGED <<script, codexDone>>
    BY <1>4
  <2> QED
    BY <1>1, <1>4, <1>6, <1>8, <2>1, <2>2, <2>3, TotalsRead
<1> QED
  BY <1>9, <1>10

LEMMA ProcessTotals ==
  ASSUME TotalsInv, CodexInv', ~codexDone, NEW p \in Rollout, ProcessFile(p), UNCHANGED <<fileVars, codexDone>>,
         codexPass'.pc # "collect"
  PROVE  TotalsInv'
<1> DEFINE known == Max({codexSeen[p], 0})
           from == IF grown[p] < known THEN 0 ELSE known
           at == ReadRollout(p, from, models[SessOf[p]], pendingCalls)
<1>1. /\ CodexInv /\ Histories /\ CodexTyped /\ script \in Scenarios /\ UNCHANGED <<script, codexDone>>
      /\ grown[p] \in Nat /\ grown[p] <= 3 * Len(script[p]) /\ FailedCalls \subseteq Settled
      /\ codexSeen \in [Rollout -> Nat \cup {Unseen}]
  BY DEF TotalsInv, CodexInv, CodexTyped, fileVars, Settled
<1>2. known = (IF codexSeen[p] = Unseen THEN 0 ELSE codexSeen[p]) /\ known \in Nat
  BY <1>1, KnownIs
<1>3. from \in Nat /\ (from = 0 \/ (from = codexSeen[p] /\ codexSeen[p] # Unseen))
  BY <1>2
<1> HIDE DEF known
<1>4. CASE grown[p] = from
  <2>1. /\ codexSeen' = IF from < known THEN [codexSeen EXCEPT ![p] = 0] ELSE codexSeen
        /\ usageRows' = usageRows
    BY <1>4 DEF ProcessFile, known, effectVars
  <2>2. \A q \in Rollout : codexSeen'[q] \in {Unseen, 0} \/ codexSeen'[q] = codexSeen[q]
    BY <1>1, <2>1
  <2>3. UNCHANGED <<script, usageRows>>
    BY <1>1, <2>1
  <2> QED
    BY <1>1, <2>2, <2>3, TotalsQuiet
<1>5. CASE grown[p] # from
  <2>1. codexSeen' = [codexSeen EXCEPT ![p] = at.off] /\ EmitOrDefer(p, at.events)
    BY <1>5 DEF ProcessFile, known
  <2> HIDE DEF from
  <2>2. HasRead(p, from, from, models[SessOf[p]], pendingCalls, {}, Settled)
    BY <1>1, <1>3, KnownRead
  <2>3. PICK x : x = at
    OBVIOUS
  <2>4. TotalsTold(p, from, x.off, x.events)
    <3> HIDE DEF Settled
    <3> QED
      BY <1>1, <1>3, <2>2, <2>3, ReadTells
  <2>5. WellRead(p, from, models[SessOf[p]], pendingCalls, Settled, at)
    <3> HIDE DEF Settled
    <3> QED
      BY <1>1, <1>3, <2>2, ReadKeeps
  <2>6. IsList(x.events)
    <3> HIDE DEF at
    <3> QED
      BY <2>3, <2>5 DEF WellRead
  <2>7. codexSeen' = [codexSeen EXCEPT ![p] = x.off] /\ EmitOrDefer(p, x.events)
    BY <2>1, <2>3
  <2> HIDE DEF at
  <2> QED
    BY <1>1, <1>3, <2>4, <2>6, <2>7, TotalsRead
<1> QED
  BY <1>4, <1>5

LEMMA StillTotals ==
  ASSUME TotalsInv, CodexInv', UNCHANGED <<script, usageRows, codexSeen>>, codexDone' \/ ~codexDone,
         codexPass'.pc = "collect" => codexPass' = codexPass
  PROVE  TotalsInv'
<1>1. codexPass'.pc = "collect" => AllTold(codexPass'.got)
  BY DEF TotalsInv, AllTold
<1> QED
  BY <1>1, TotalsQuiet

LEMMA ScanTotals ==
  ASSUME TotalsInv, NEW p \in Rollout, ScanKnown(p) \/ ScanRecent(p)
  PROVE  TotalsInv'
<1>1. CodexInv /\ CodexInv' /\ CodexPassKept
  BY ScanKnownKeeps, ScanRecentKeeps DEF TotalsInv, CodexInv
<1>2. /\ codexPass.pc \in {"known", "recent"} /\ ~codexDone /\ UNCHANGED <<fileVars, codexDone>>
      /\ codexPass' = [codexPass EXCEPT !.todo = @ \ {p}]
  BY DEF ScanKnown, ScanRecent
<1>3. codexPass'.pc # "collect"
  <2>1. codexPass = [pc |-> codexPass.pc, todo |-> codexPass.todo]
    BY <1>1, <1>2, CodexPassIs
  <2>2. codexPass'.pc = codexPass.pc
    BY <1>2, <2>1
  <2> QED
    BY <1>2, <2>2
<1>4. CASE ProcessFile(p)
  BY <1>1, <1>2, <1>3, <1>4, ProcessTotals
<1>5. CASE ~ProcessFile(p)
  <2>1. UNCHANGED <<script, usageRows>> /\ (codexSeen' = [codexSeen EXCEPT ![p] = Unseen] \/ codexSeen' = codexSeen)
    BY <1>5 DEF ScanKnown, ScanRecent, fileVars, effectVars
  <2>2. \A q \in Rollout : codexSeen'[q] \in {Unseen, 0} \/ codexSeen'[q] = codexSeen[q]
    BY <1>1, <2>1 DEF CodexInv, CodexTyped
  <2> QED
    BY <1>1, <1>2, <1>3, <2>1, <2>2, TotalsQuiet
<1> QED
  BY <1>4, <1>5

LEMMA PassTotals ==
  ASSUME TotalsInv, Discovered \/ KnownScanned \/ ScanEnds
  PROVE  TotalsInv'
<1>1. CodexInv'
  BY DiscoveredKeeps, KnownScannedKeeps, ScanEndsKeeps DEF TotalsInv
<1>2. UNCHANGED <<script, usageRows, codexSeen, codexDone>>
  BY DEF Discovered, KnownScanned, ScanEnds, fileVars, memoryVars, effectVars
<1>3. codexPass'.pc # "collect"
  BY DEF Discovered, KnownScanned, ScanEnds, Idling
<1> QED
  BY <1>1, <1>2, <1>3, StillTotals

LEMMA RestartTotals ==
  ASSUME TotalsInv, RestartCodex
  PROVE  TotalsInv'
<1>1. CodexInv'
  BY RestartKeeps DEF TotalsInv
<1>2. UNCHANGED <<script, usageRows>> /\ codexSeen' = [p \in Rollout |-> Unseen] /\ codexPass' = Idling
  BY DEF RestartCodex, fileVars, effectVars
<1>3. codexPass'.pc # "collect"
  BY <1>2 DEF Idling
<1> QED
  BY <1>1, <1>2, <1>3, TotalsQuiet

LEMMA OutsideTotals ==
  ASSUME TotalsInv,
         StopCodex \/ TwoHoursPass \/ \E p \in Rollout : GrowRollout(p) \/ CutRollout(p) \/ MoveRollout(p)
  PROVE  TotalsInv'
<1>1. CodexInv'
  BY StopKeeps, TwoHoursKeep, GrowKeeps, CutKeeps, MoveKeeps DEF TotalsInv
<1>2. /\ UNCHANGED <<script, usageRows, codexSeen>> /\ (codexDone' \/ codexDone' = codexDone)
      /\ codexPass' = codexPass
  BY DEF StopCodex, TwoHoursPass, GrowRollout, CutRollout, MoveRollout, fileVars, memoryVars, effectVars
<1> QED
  BY <1>1, <1>2, StillTotals

LEMMA TotalsStart ==
  ASSUME Histories, CodexInit
  PROVE  TotalsInv
<1>1. CodexInv /\ usageRows = {} /\ codexPass = Idling /\ \A p \in Rollout : codexSeen[p] = Unseen
  BY CodexStarts DEF CodexInit
<1>2. codexPass.pc # "collect"
  BY <1>1 DEF Idling
<1>3. IsFiniteSet(usageRows) /\ RowsReach(usageRows)
  BY <1>1, FS_EmptySet DEF RowsReach
<1> QED
  BY <1>1, <1>2, <1>3 DEF TotalsInv

LEMMA TotalsStep ==
  ASSUME TotalsInv, [CodexNext]_codexVars
  PROVE  TotalsInv'
<1>1. CASE CodexTick \/ \E p \in Rollout : DiscoverOne(p)
  BY <1>1, TickTotals, DiscoverTotals
<1>2. CASE codexPass.pc = "collect" /\ \E r \in codexPass.got : MergeResult(r)
  BY <1>2, MergeTotals
<1>3. CASE \E p \in Rollout : ScanKnown(p) \/ ScanRecent(p)
  BY <1>3, ScanTotals
<1>4. CASE Discovered \/ KnownScanned \/ ScanEnds
  BY <1>4, PassTotals
<1>5. CASE RestartCodex
  BY <1>5, RestartTotals
<1>6. CASE StopCodex \/ TwoHoursPass \/ \E p \in Rollout : GrowRollout(p) \/ CutRollout(p) \/ MoveRollout(p)
  BY <1>6, OutsideTotals
<1>7. CASE UNCHANGED codexVars
  <2>1. CodexInv'
    BY <1>7, CodexStutters DEF TotalsInv
  <2>2. UNCHANGED <<script, usageRows, codexSeen, codexDone, codexPass>>
    BY <1>7 DEF codexVars
  <2> QED
    BY <2>1, <2>2, StillTotals
<1> QED
  BY <1>1, <1>2, <1>3, <1>4, <1>5, <1>6, <1>7 DEF CodexNext

\* The numbers 1 to m lie in the spans of some rows: these add up to m.
SpanOf(n, top, r) == (top[r] - n[r]) + 1 .. top[r]
LEMMA SpansAddUp ==
  ASSUME NEW R, IsFiniteSet(R), NEW n, NEW top, \A r \in R : n[r] \in Nat /\ top[r] \in Nat,
         NEW m \in Nat, \A v \in 1 .. m : \E r \in R : v \in SpanOf(n, top, r)
  PROVE  m <= SumOn(n, R)
<1> DEFINE U(T) == {v \in 1 .. m : \E r \in T : v \in SpanOf(n, top, r)}
           P == {T \in SUBSET R : IsFiniteSet(U(T)) /\ Cardinality(U(T)) <= SumOn(n, T)}
<1>1. IsFiniteSet(1 .. m) /\ Cardinality(1 .. m) = m
  <2>1. CASE m = 0
    <3>1. 1 .. m = {}
      BY <2>1
    <3> QED
      BY <2>1, <3>1, FS_EmptySet
  <2>2. CASE m # 0
    <3>1. 1 <= m /\ m - 1 + 1 = m
      BY <2>2
    <3> QED
      BY <3>1, FS_Interval
  <2> QED
    BY <2>1, <2>2
<1>2. {} \in P
  <2>1. U({}) = {}
    OBVIOUS
  <2>2. IsFiniteSet(U({})) /\ Cardinality(U({})) = 0
    BY <2>1, FS_EmptySet
  <2>3. SumOn(n, {}) = 0
    BY SumEmpty
  <2> HIDE DEF U
  <2> QED
    BY <2>2, <2>3
<1>3. ASSUME NEW T \in SUBSET R, T \in P, NEW x \in R \ T PROVE T \cup {x} \in P
  <2>1. IsFiniteSet(U(T)) /\ Cardinality(U(T)) <= SumOn(n, T)
    BY <1>3
  <2> DEFINE I == {v \in 1 .. m : v \in SpanOf(n, top, x)}
  <2>2. U(T \cup {x}) = U(T) \cup I
    OBVIOUS
  <2>3. IsFiniteSet(I) /\ Cardinality(I) <= n[x]
    <3> DEFINE J == SpanOf(n, top, x)
    <3>1. IsFiniteSet(J) /\ Cardinality(J) = n[x]
      <4>1. PICK a \in Int : a = (top[x] - n[x]) + 1
        OBVIOUS
      <4>2. PICK b \in Int : b = top[x]
        OBVIOUS
      <4>3. J = a .. b
        BY <4>1, <4>2 DEF SpanOf
      <4>4. Cardinality(a .. b) = IF a > b THEN 0 ELSE b - a + 1
        BY FS_Interval
      <4>5. IsFiniteSet(a .. b)
        BY FS_Interval
      <4>6. (a > b => n[x] = 0) /\ b - a + 1 = n[x]
        BY <4>1, <4>2
      <4> QED
        BY <4>3, <4>4, <4>5, <4>6
    <3>2. I \subseteq J
      OBVIOUS
    <3> HIDE DEF I, J
    <3> QED
      BY <3>1, <3>2, FS_Subset
  <2>4. /\ IsFiniteSet(U(T) \cup I)
        /\ Cardinality(U(T) \cup I) = Cardinality(U(T)) + Cardinality(I) - Cardinality(U(T) \cap I)
    <3> HIDE DEF U, I
    <3> QED
      BY <2>1, <2>3, FS_Union
  <2>5. IsFiniteSet(U(T) \cap I)
    <3> HIDE DEF U, I
    <3> QED
      BY <2>1, FS_Intersection
  <2>6. /\ Cardinality(U(T)) \in Nat /\ Cardinality(I) \in Nat /\ Cardinality(U(T) \cap I) \in Nat
    <3> HIDE DEF U, I
    <3> QED
      BY <2>1, <2>3, <2>5, FS_CardinalityType
  <2>7. SumOn(n, T \cup {x}) = n[x] + SumOn(n, T) /\ SumOn(n, T) \in Int
    <3>1. IsFiniteSet(T)
      BY FS_Subset
    <3>2. \A y \in T \cup {x} : n[y] \in Int
      OBVIOUS
    <3>3. SumOn(n, T \cup {x}) = n[x] + SumOn(n, T)
      BY <3>1, <3>2, SumInsert
    <3>4. SumOn(n, T) \in Int
      BY <3>1, <3>2, SumInt
    <3> QED
      BY <3>3, <3>4
  <2>8. n[x] \in Nat
    OBVIOUS
  <2> HIDE DEF U, I
  <2>9. Cardinality(U(T \cup {x})) <= SumOn(n, T \cup {x})
    <3>1. PICK a \in Nat : a = Cardinality(U(T))
      BY <2>6
    <3>2. PICK b \in Nat : b = Cardinality(I)
      BY <2>6
    <3>3. PICK c \in Nat : c = Cardinality(U(T) \cap I)
      BY <2>6
    <3>4. PICK s \in Int : s = SumOn(n, T)
      BY <2>7
    <3>5. PICK k \in Nat : k = n[x]
      BY <2>8
    <3>6. Cardinality(U(T \cup {x})) = (a + b) - c
      <4>1. Cardinality(U(T \cup {x})) = Cardinality(U(T) \cup I)
        BY <2>2
      <4>2. Cardinality(U(T) \cup I) = Cardinality(U(T)) + Cardinality(I) - Cardinality(U(T) \cap I)
        BY <2>4
      <4>3. Cardinality(U(T) \cup I) = (a + b) - c
        BY <4>2, <3>1, <3>2, <3>3
      <4> QED
        BY <4>1, <4>3
    <3>7. SumOn(n, T \cup {x}) = k + s
      BY <2>7, <3>4, <3>5
    <3>8. a <= s
      BY <2>1, <3>1, <3>4
    <3>9. b <= k
      BY <2>3, <3>2, <3>5
    <3>10. (a + b) - c <= k + s
      BY <3>8, <3>9
    <3> QED
      BY <3>6, <3>7, <3>10
  <2> QED
    BY <2>2, <2>4, <2>9
<1>4. R \in P
  <2> HIDE DEF P
  <2> QED
    BY <1>2, <1>3, OneMore
<1>5. U(R) = 1 .. m
  OBVIOUS
<1> HIDE DEF U
<1> QED
  BY <1>1, <1>4, <1>5

LEMMA GreatestIn ==
  ASSUME NEW S, IsFiniteSet(S), S # {}, S \subseteq Int
  PROVE  Max(S) \in S
<1> DEFINE P == {T \in SUBSET S : T = {} \/ \E x \in T : \A y \in T : x >= y}
<1>1. {} \in P
  OBVIOUS
<1>2. ASSUME NEW T \in SUBSET S, T \in P, NEW x \in S \ T PROVE T \cup {x} \in P
  <2>1. CASE T = {}
    <3>1. x >= x
      OBVIOUS
    <3> QED
      BY <2>1, <3>1
  <2>2. CASE T # {}
    <3>1. PICK z \in T : \A y \in T : z >= y
      BY <1>2, <2>2
    <3>2. PICK g \in {x, z} : g >= x /\ g >= z
      OBVIOUS
    <3>3. \A y \in T \cup {x} : g >= y
      <4>1. x \in Int /\ z \in Int /\ g \in Int /\ \A y \in T : y \in Int
        OBVIOUS
      <4> QED
        BY <3>1, <3>2, <4>1
    <3> QED
      BY <3>1, <3>3
  <2> QED
    BY <2>1, <2>2
<1>3. S \in P
  <2> HIDE DEF P
  <2> QED
    BY <1>1, <1>2, OneMore
<1>4. \E x \in S : \A y \in S : x >= y
  BY <1>3
<1> QED
  BY <1>4 DEF Max

LEMMA TotalsMean ==
  ASSUME TotalsInv
  PROVE  CumulativeNotLost
<1> SUFFICES ASSUME NEW p \in Rollout, TotalsOf(p) # {}
             PROVE  Tokens(RowsOfTotals(p)) >= Max(TotalsOf(p))
  BY DEF CumulativeNotLost
<1>1. /\ CodexInv /\ IsFiniteSet(usageRows) /\ RowsReach(usageRows) /\ script \in Scenarios
      /\ ~codexDone => \A q \in Rollout : codexSeen[q] # Unseen => Accounted(q, codexSeen[q], usageRows)
      /\ codexSeen \in [Rollout -> Nat \cup {Unseen}]
  BY DEF TotalsInv, CodexInv, CodexTyped
<1>2. DOMAIN script[p] = 1 .. Len(script[p]) /\ Len(script[p]) \in Nat
  BY <1>1, EntryIs
<1> DEFINE K == {j \in DOMAIN script[p] : Committed(p, j) /\ script[p][j].kind = "total"}
<1>3. TotalsOf(p) = {script[p][k].total : k \in K}
  BY DEF TotalsOf
<1>4. ASSUME NEW k \in K PROVE LineIn(p, k, usageRows) /\ script[p][k].total \in Nat
  <2>1. k \in 1 .. Len(script[p]) /\ ~codexDone /\ 3 * k - 1 <= codexSeen[p] /\ IsTotal(script[p][k])
    BY <1>2 DEF Committed, IsTotal
  <2>2. codexSeen[p] # Unseen
    BY <2>1 DEF Unseen
  <2>3. Accounted(p, codexSeen[p], usageRows)
    BY <1>1, <2>1, <2>2
  <2>4. LineIn(p, k, usageRows)
    BY <1>2, <2>1, <2>3 DEF Accounted, Past
  <2>5. script[p][k].total \in Nat
    BY <1>1, <1>2, <2>1, EntryIs, CodexAssumption DEF IsTotal
  <2> QED
    BY <2>4, <2>5
<1> HIDE DEF K
<1>5. Max(TotalsOf(p)) \in TotalsOf(p)
  <2> DEFINE f == [k \in K |-> script[p][k].total]
  <2>1. IsFiniteSet(K)
    <3>1. IsFiniteSet(DOMAIN script[p])
      BY <1>2, FS_Interval
    <3> QED
      BY <3>1, FS_Subset DEF K
  <2>2. IsFiniteSet(Onto(f, K))
    BY <2>1, ImageFinite
  <2>3. Onto(f, K) = TotalsOf(p)
    BY <1>3 DEF Onto
  <2>4. TotalsOf(p) \subseteq Int
    BY <1>3, <1>4
  <2> QED
    BY <2>2, <2>3, <2>4, GreatestIn
<1>6. PICK k \in K : script[p][k].total = Max(TotalsOf(p))
  BY <1>3, <1>5
<1> DEFINE R == RowsOfTotals(p)
           n == [r \in R |-> r.n]
           top == [r \in R |-> r.id[4]]
<1>7. IsFiniteSet(R)
  BY <1>1, FS_Subset DEF RowsOfTotals
<1>8. \A r \in R : n[r] \in Nat /\ top[r] \in Nat
  BY <1>1 DEF RowsOfTotals, RowsReach, Summed, Measured
<1>9. ASSUME NEW v \in 1 .. script[p][k].total PROVE \E r \in R : v \in SpanOf(n, top, r)
  <2>1. PICK r \in usageRows : Spans(r, v) /\ InFile(p, r.id)
    BY <1>4 DEF LineIn
  <2>2. r \in R
    BY <2>1 DEF RowsOfTotals, Spans, Summed, InFile, At, IsTotal
  <2>3. r.n \in Nat /\ r.id[4] \in Nat
    BY <1>8, <2>2
  <2>4. n[r] = r.n /\ top[r] = r.id[4]
    BY <2>2
  <2> HIDE DEF R, n, top
  <2>5. v \in SpanOf(n, top, r)
    BY <2>1, <2>3, <2>4 DEF Spans, SpanOf
  <2> QED
    BY <2>2, <2>5
<1>10. Tokens(R) = SumOn(n, R)
  BY DEF Tokens
<1> HIDE DEF R, n, top
<1>11. script[p][k].total <= SumOn(n, R)
  BY <1>4, <1>7, <1>8, <1>9, SpansAddUp
<1>12. SumOn(n, R) \in Nat
  BY <1>7, <1>8, SumNat
<1> QED
  BY <1>4, <1>6, <1>10, <1>11, <1>12 DEF R

\* Codex reports what a session has used in all; the watcher stores the tokens
\* from one such total to the next, under an id that names the total.  Every
\* token up to a total that was read once is in a row of some file that holds
\* the total, over cuts, copies, removals, parallel discovery and ends of the
\* process.  Histories is needed: where a turn with a total of its own comes
\* between two totals, or a copy leaves out what it continues, the first row
\* that claims an id may be too short for the file that claims it second.
THEOREM TotalsServed == Histories /\ CodexSpec => []CumulativeNotLost
<1>1. Histories /\ CodexInit => TotalsInv
  BY TotalsStart
<1>2. TotalsInv /\ [CodexNext]_codexVars => TotalsInv'
  BY TotalsStep
<1>3. TotalsInv => CumulativeNotLost
  BY TotalsMean
<1> QED
  BY <1>1, <1>2, <1>3, PTL DEF CodexSpec

\* The same of the two watchers beside one another.
THEOREM TotalsHold == Spec => []CumulativeNotLost
<1>1. Init => CodexInit
  BY DEF Init
<1>2. [Next]_vars => [CodexNext]_codexVars
  BY DEF Next, vars
<1> QED
  BY <1>1, <1>2, MCHistories, TotalsServed, PTL DEF Spec, CodexSpec

=============================================================================
