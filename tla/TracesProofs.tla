---------------------------- MODULE TracesProofs ----------------------------
(***************************************************************************)
(* Proofs about Traces for traces of any length, any domains, lanes, lane  *)
(* maps and polarities, and every fault of a recorder.                     *)
(***************************************************************************)
EXTENDS Traces, FiniteSetTheorems, WellFoundedInduction, TLAPS

Datum  == {x.data[l] : x \in Bus, l \in Lanes}
Event  == [data : [Lanes -> Datum], enabled : SUBSET Lanes, time : Nat \cup {None}]
Words == [data : [Lanes -> Datum], enable : SUBSET Lanes, time : Nat]
Line   == [domain : Domains, seq : Nat, native : Words]
(***************************************************************************)
(* The inductive invariant.  The inputs do not change, and each raw trace  *)
(* is a recording of its bus.                                              *)
(***************************************************************************)
Inputs ==
    /\ selected \in Selections /\ lane_to_canonical \in LaneMaps
    /\ emitted \in [Sides -> BusTraces] /\ DOMAIN raw = Sides
    /\ \A s \in Sides : raw[s] \in Recordings(lane_to_canonical, s, emitted[s])

Types ==
    /\ pc \in Stages /\ side \in Sides /\ line \in Nat /\ damage \in 0 .. 1
    /\ DOMAIN spool = Domains /\ DOMAIN meta = Sides
    /\ DOMAIN file = Sides /\ \A s \in Sides : DOMAIN file[s] = Domains
    /\ at \in 1 .. Len(selected) + 1 /\ pos \in Nat
    /\ DOMAIN diverged = Domains

\* The first n lines of a raw trace that are of domain d, and what they become.
Of(s, d, n) == {i \in 1 .. n : raw[s][i].domain = d}
Canonical(s, d, n) ==
    {[seq |-> raw[s][i].seq, event |-> canonicalize_event(s, raw[s][i])] : i \in Of(s, d, n)}

\* The events of a sequence, numbered from zero.
Numbered(q) == {[seq |-> k - 1, event |-> q[k]] : k \in 1 .. Len(q)}

\* q holds the events of d among the first n lines, each of which was in its place.
Holds(q, s, d, n) ==
    /\ q \in Seq(Event)
    /\ Numbered(q) = Canonical(s, d, n)
    /\ Len(q) = Cardinality(Of(s, d, n))
    /\ \A i \in Of(s, d, n) :
          raw[s][i].seq = SeqOf(raw[s], i) /\ map_byte_enable(s, raw[s][i].native.enable) # {}
    /\ q # <<>> => validate_contract

HoldsAll(q, s, d) == Holds(q, s, d, Len(raw[s]))

Reads(s, n) == \A d \in Selected : \E q : spool[d] = q /\ Holds(q, s, d, n)
Whole(s) == \A d \in Selected : \E q : file[s][d] = q /\ q # <<>> /\ HoldsAll(q, s, d)

Described(s) == meta[s] \in {None, file[s]}

\* The spools hold the lines read, and a file that was not cut holds them all.
FilesInv ==
    /\ pc = "normalize" =>
          \A s \in Sides : side = s => \E n \in 0 .. Len(raw[s]) : line = n + 1 /\ Reads(s, n)
    /\ pc = "sidecar" => \A s \in Sides : side = s => Whole(s)
    /\ pc \in {"normalize", "sidecar"} =>
          damage = 0 /\ meta["rtl"] = None
          /\ IF side = "rtl" THEN Whole("mame") /\ Described("mame") ELSE meta["mame"] = None
    /\ pc = "scan" => \A s \in Sides :
          /\ damage = 0 => Described(s)
          /\ Described(s) => Whole(s)
    /\ pc \in {"compare", "MATCH", "DIVERGED"} => \A s \in Sides : Described(s) /\ Whole(s)

\* Two files agree on the first i events of a domain, and no further.
Same(d) == file["mame"][d] = file["rtl"][d]
Agreed(d, i) ==
    LET l == file["mame"][d]  r == file["rtl"][d]
    IN  i <= Len(l) /\ i <= Len(r) /\ \A k \in 1 .. i : l[k] = r[k]
Part(d, i) ==
    LET l == file["mame"][d]  r == file["rtl"][d]
    IN  /\ Agreed(d, i)
        /\ i < Len(l) \/ i < Len(r)
        /\ i < Len(l) /\ i < Len(r) => l[i + 1] # r[i + 1]

\* The divergence found first is that of the kth domain, at its event i + 1.
Found(k, d, i) ==
    /\ first = [domain |-> d, index |-> i] /\ selected[k] = d
    /\ \A j \in 1 .. k - 1, e \in Domains : selected[j] = e => Same(e)
    /\ Part(d, i)

\* The comparison: the domains behind it are judged, the one at hand agrees so
\* far, and the first divergence is that of the first domain that differs.
VerdictInv ==
    /\ pc \in {"normalize", "sidecar", "scan"} =>
          at = 1 /\ pos = 0 /\ first = None /\ \A d \in Domains : diverged[d] = None
    /\ pc \in {"compare", "MATCH", "DIVERGED"} =>
          /\ \A d \in Domains, i \in Nat :
                at <= Len(selected) /\ selected[at] = d /\ pos = i => Agreed(d, i)
          /\ \A j \in at .. Len(selected) : diverged[selected[j]] = None
          /\ \A j \in 1 .. at - 1, d \in Domains :
                selected[j] = d => (diverged[d] = None <=> Same(d))
          /\ first = None => \A j \in 1 .. at - 1, d \in Domains : selected[j] = d => Same(d)
          /\ first # None => \E k \in 1 .. at - 1, d \in Domains, i \in Nat : Found(k, d, i)
    /\ pc = "MATCH" => at > Len(selected) /\ first = None
    /\ pc = "DIVERGED" => at > Len(selected) /\ first # None

IInv == Inputs /\ Types /\ FilesInv /\ VerdictInv
-----------------------------------------------------------------------------
(***************************************************************************)
(* What a recorder writes.                                                 *)
(***************************************************************************)
\* A set of numbers has a least one.
LEMMA Least ==
    ASSUME NEW S \in SUBSET Nat, S # {} PROVE \E n \in S : \A m \in S : n <= m
<1> DEFINE R == OpToRel(<, Nat)
<1>1. IsWellFoundedOn(R, Nat) BY NatLessThanWellFounded
<1>2. \A x, y \in Nat : x < y => <<x, y>> \in R BY DEF OpToRel
<1> HIDE DEF R
<1>3. PICK n \in S : \A y \in S : <<y, n>> \notin R BY <1>1, WFMin
<1>4. ASSUME NEW y \in S PROVE n <= y
  <2>1. n \in Nat /\ y \in Nat /\ ~(y < n) BY <1>2, <1>3
  <2> QED BY <2>1
<1> QED BY <1>4

LEMMA AsSequence ==
    ASSUME NEW S, NEW n \in Nat, NEW f \in [1 .. n -> S]
    PROVE  f \in Seq(S) /\ Len(f) = n /\ \A i \in 1 .. n : f[i] \in S
  OBVIOUS

\* A bus trace, event by event.
LEMMA BusTrace ==
    ASSUME NEW trace \in BusTraces
    PROVE  /\ Len(trace) \in Nat /\ DOMAIN trace = 1 .. Len(trace)
           /\ \A i \in 1 .. Len(trace) : trace[i] \in [domain : Domains, bus : Bus]
<1>1. PICK n \in 0 .. MaxEvents : trace \in [1 .. n -> [domain : Domains, bus : Bus]]
  BY DEF BusTraces
<1>2. n \in Nat
  BY <1>1, TracesAssumption
<1> DEFINE S == [domain : Domains, bus : Bus]
<1>3. trace \in [1 .. n -> S]
  BY <1>1
<1> HIDE DEF S
<1>4. Len(trace) = n /\ DOMAIN trace = 1 .. n /\ \A i \in 1 .. n : trace[i] \in S
  BY <1>2, <1>3, AsSequence
<1> QED BY <1>2, <1>4 DEF S

\* What the native lanes and enables of a bus event are.
LEMMA NativeType ==
    ASSUME NEW map \in LaneMaps, NEW s \in Sides, NEW w \in Bus
    PROVE  Native(map, s, w) \in Words
<1>1. map[s] \in [Lanes -> Lanes]
  BY TracesAssumption
<1>2. [l \in Lanes |-> w.data[map[s][l]]] \in [Lanes -> Datum]
  BY <1>1 DEF Datum
<1>3. w.time \in Nat
  BY TracesAssumption
<1> QED BY <1>2, <1>3 DEF Native, Words

\* The events before i in the same domain are counted.
LEMMA Counted ==
    ASSUME NEW trace, NEW i \in Nat
    PROVE  SeqOf(trace, i) \in Nat
<1>1. IsFiniteSet(1 .. i - 1)
  BY FS_Interval
<1>2. IsFiniteSet({k \in 1 .. i - 1 : trace[k].domain = trace[i].domain})
  BY <1>1, FS_Subset
<1> QED BY <1>2, FS_CardinalityType DEF SeqOf

\* The faithful recording.
LEMMA FaithfulType ==
    ASSUME NEW map \in LaneMaps, NEW s \in Sides, NEW trace \in BusTraces
    PROVE  /\ Faithful(map, s, trace) \in Seq(Line)
           /\ Len(Faithful(map, s, trace)) = Len(trace)
           /\ \A i \in 1 .. Len(trace) :
                 /\ Faithful(map, s, trace)[i].domain = trace[i].domain
                 /\ Faithful(map, s, trace)[i].seq = SeqOf(trace, i)
                 /\ Faithful(map, s, trace)[i].native = Native(map, s, trace[i].bus)
<1> DEFINE n == Len(trace)
           f == Faithful(map, s, trace)
<1>1. n \in Nat /\ \A i \in 1 .. n : trace[i] \in [domain : Domains, bus : Bus]
  BY BusTrace
<1>2. ASSUME NEW i \in 1 .. n
      PROVE  [domain |-> trace[i].domain, seq |-> SeqOf(trace, i),
              native |-> Native(map, s, trace[i].bus)] \in Line
  <2>1. trace[i].domain \in Domains /\ trace[i].bus \in Bus
    BY <1>1
  <2>2. SeqOf(trace, i) \in Nat
    BY <1>1, Counted
  <2>3. Native(map, s, trace[i].bus) \in Words
    BY <2>1, NativeType
  <2> QED BY <2>1, <2>2, <2>3 DEF Line
<1>3. f = [i \in 1 .. n |-> [domain |-> trace[i].domain, seq |-> SeqOf(trace, i),
              native |-> Native(map, s, trace[i].bus)]]
  BY DEF Faithful
<1>4. f \in [1 .. n -> Line]
  BY <1>2, <1>3
<1>5. f \in Seq(Line) /\ Len(f) = n
  BY <1>1, <1>4
<1> QED BY <1>3, <1>5


\* A sequence without one of its elements, and one with an element twice.
LEMMA OneGone ==
    ASSUME NEW S, NEW f \in Seq(S), NEW i \in 1 .. Len(f)
    PROVE  /\ Without(f, i) \in Seq(S) /\ Len(Without(f, i)) = Len(f) - 1
           /\ \A k \in 1 .. i - 1 : Without(f, i)[k] = f[k]
           /\ \A k \in i .. Len(f) - 1 : Without(f, i)[k] = f[k + 1]
<1>1. PICK n \in Nat : n = Len(f)
  OBVIOUS
<1>2. SubSeq(f, 1, i - 1) \in Seq(S) /\ Len(SubSeq(f, 1, i - 1)) = i - 1
      /\ \A k \in 1 .. i - 1 : SubSeq(f, 1, i - 1)[k] = f[k]
  BY <1>1
<1>3. SubSeq(f, i + 1, n) \in Seq(S) /\ Len(SubSeq(f, i + 1, n)) = n - i
      /\ \A k \in 1 .. n - i : SubSeq(f, i + 1, n)[k] = f[k + i]
  BY <1>1
<1> DEFINE p == SubSeq(f, 1, i - 1)
           q == SubSeq(f, i + 1, n)
<1> HIDE DEF p, q
<1>4. p \o q \in Seq(S) /\ Len(p \o q) = n - 1
      /\ (\A k \in 1 .. i - 1 : (p \o q)[k] = p[k])
      /\ (\A k \in i .. n - 1 : (p \o q)[k] = q[k - (i - 1)])
  <2>1. i - 1 \in Nat /\ n - i \in Nat /\ (i - 1) + (n - i) = n - 1 /\ (i - 1) + 1 = i
    BY <1>1
  <2>2. p \in Seq(S) /\ q \in Seq(S) /\ Len(p) = i - 1 /\ Len(q) = n - i
    BY <1>2, <1>3 DEF p, q
  <2>3. /\ p \o q \in Seq(S) /\ Len(p \o q) = (i - 1) + (n - i)
        /\ \A k \in 1 .. i - 1 : (p \o q)[k] = p[k]
        /\ \A k \in (i - 1) + 1 .. (i - 1) + (n - i) : (p \o q)[k] = q[k - (i - 1)]
    <3> DEFINE a == i - 1
               b == n - i
    <3> HIDE DEF a, b
    <3>1. a \in Nat /\ b \in Nat /\ Len(p) = a /\ Len(q) = b
      BY <2>1, <2>2 DEF a, b
    <3>2. /\ p \o q \in Seq(S) /\ Len(p \o q) = a + b
          /\ \A k \in 1 .. a : (p \o q)[k] = p[k]
          /\ \A k \in a + 1 .. a + b : (p \o q)[k] = q[k - a]
      BY <2>2, <3>1
    <3> QED BY <3>2 DEF a, b
  <2> QED BY <2>1, <2>3
<1>5. \A k \in i .. n - 1 : q[k - (i - 1)] = f[k + 1]
  <2> SUFFICES ASSUME NEW k \in i .. n - 1 PROVE q[k - (i - 1)] = f[k + 1]
    OBVIOUS
  <2>1. k - (i - 1) \in 1 .. n - i /\ (k - (i - 1)) + i = k + 1
    BY <1>1
  <2> QED BY <1>3, <2>1 DEF q
<1> QED BY <1>1, <1>2, <1>4, <1>5 DEF Without, p, q

LEMMA OneTwice ==
    ASSUME NEW S, NEW f \in Seq(S), NEW i \in 1 .. Len(f)
    PROVE  LET r == SubSeq(f, 1, i) \o SubSeq(f, i, Len(f))
           IN  /\ r \in Seq(S) /\ Len(r) = Len(f) + 1
               /\ \A k \in 1 .. i : r[k] = f[k]
               /\ \A k \in i + 1 .. Len(f) + 1 : r[k] = f[k - 1]
<1>1. PICK n \in Nat : n = Len(f)
  OBVIOUS
<1>2. SubSeq(f, 1, i) \in Seq(S) /\ Len(SubSeq(f, 1, i)) = i
      /\ \A k \in 1 .. i : SubSeq(f, 1, i)[k] = f[k]
  BY <1>1
<1>3. SubSeq(f, i, n) \in Seq(S) /\ Len(SubSeq(f, i, n)) = n - i + 1
      /\ \A k \in 1 .. n - i + 1 : SubSeq(f, i, n)[k] = f[k + i - 1]
  BY <1>1
<1> DEFINE p == SubSeq(f, 1, i)
           q == SubSeq(f, i, n)
<1> HIDE DEF p, q
<1>4. p \o q \in Seq(S) /\ Len(p \o q) = n + 1
      /\ (\A k \in 1 .. i : (p \o q)[k] = p[k])
      /\ (\A k \in i + 1 .. n + 1 : (p \o q)[k] = q[k - i])
  <2>1. i \in Nat /\ n - i + 1 \in Nat /\ i + (n - i + 1) = n + 1
    BY <1>1
  <2>2. p \in Seq(S) /\ q \in Seq(S) /\ Len(p) = i /\ Len(q) = n - i + 1
    BY <1>2, <1>3 DEF p, q
  <2>3. /\ p \o q \in Seq(S) /\ Len(p \o q) = i + (n - i + 1)
        /\ \A k \in 1 .. i : (p \o q)[k] = p[k]
        /\ \A k \in i + 1 .. i + (n - i + 1) : (p \o q)[k] = q[k - i]
    <3> DEFINE b == n - i + 1
    <3> HIDE DEF b
    <3>1. i \in Nat /\ b \in Nat /\ Len(p) = i /\ Len(q) = b
      BY <2>1, <2>2 DEF b
    <3>2. /\ p \o q \in Seq(S) /\ Len(p \o q) = i + b
          /\ \A k \in 1 .. i : (p \o q)[k] = p[k]
          /\ \A k \in i + 1 .. i + b : (p \o q)[k] = q[k - i]
      BY <2>2, <3>1
    <3> QED BY <3>2 DEF b
  <2> QED BY <2>1, <2>3
<1>5. \A k \in i + 1 .. n + 1 : q[k - i] = f[k - 1]
  <2> SUFFICES ASSUME NEW k \in i + 1 .. n + 1 PROVE q[k - i] = f[k - 1]
    OBVIOUS
  <2>1. k - i \in 1 .. n - i + 1 /\ (k - i) + i - 1 = k - 1
    BY <1>1
  <2> QED BY <1>3, <2>1 DEF q
<1> QED BY <1>1, <1>2, <1>4, <1>5 DEF p, q

\* What a recorder writes are lines, whatever its fault.
LEMMA RecordingType ==
    ASSUME NEW map \in LaneMaps, NEW s \in Sides, NEW trace \in BusTraces,
           NEW r \in Recordings(map, s, trace)
    PROVE  r \in Seq(Line)
<1> DEFINE f == Faithful(map, s, trace)
           n == Len(f)
<1>1. f \in Seq(Line)
  BY FaithfulType
<1> HIDE DEF f
<1>2. ASSUME NEW i \in 1 .. n PROVE Without(f, i) \in Seq(Line)
  BY <1>1, OneGone
<1>3. ASSUME NEW i \in 1 .. n PROVE SubSeq(f, 1, i) \o SubSeq(f, i, n) \in Seq(Line)
  BY <1>1, OneTwice
<1>4. ASSUME NEW i \in 1 .. n - 1 PROVE [f EXCEPT ![i] = f[i + 1], ![i + 1] = f[i]] \in Seq(Line)
  BY <1>1
<1>5. ASSUME NEW i \in 1 .. n
      PROVE  [f EXCEPT ![i].native.enable = IF s \in ActiveLow THEN Lanes ELSE {}] \in Seq(Line)
  <2> DEFINE e == [f[i] EXCEPT !.native = [f[i].native EXCEPT !.enable = IF s \in ActiveLow THEN Lanes ELSE {}]]
  <2>1. f[i] \in Line
    BY <1>1
  <2>2. e \in Line
    BY <2>1 DEF Line, Words
  <2>3. [f EXCEPT ![i] = e] \in Seq(Line)
    BY <1>1, <2>2
  <2> QED BY <2>3
<1> QED BY <1>1, <1>2, <1>3, <1>4, <1>5 DEF Recordings, f

\* The same of the lines of a trace that the inputs allow.
LEMMA RawType ==
    ASSUME Inputs, NEW s \in Sides
    PROVE  raw[s] \in Seq(Line)
<1>1. emitted[s] \in BusTraces
  BY DEF Inputs
<1> QED BY <1>1, RecordingType DEF Inputs
-----------------------------------------------------------------------------
(***************************************************************************)
(* The lanes.  A map that passes the contract is a permutation, so that    *)
(* what canonicalization gives back is what was on the bus.                *)
(***************************************************************************)
LEMMA Permutes ==
    ASSUME Inputs, validate_contract, NEW s \in Sides
    PROVE  /\ lane_to_canonical[s] \in [Lanes -> Lanes]
           /\ \A c \in Lanes : \E l \in Lanes : lane_to_canonical[s][l] = c
<1> DEFINE map == lane_to_canonical[s]
<1>1. map \in [Lanes -> Lanes]
  BY TracesAssumption DEF Inputs
<1>2. \A l, k \in Lanes : map[l] = map[k] => l = k
  BY DEF validate_contract
<1>3. map \in Injection(Lanes, Lanes)
  BY <1>1, <1>2 DEF Injection, IsInjective
<1>4. map \in Surjection(Lanes, Lanes)
  BY <1>3, TracesAssumption, FS_Injection
<1> QED BY <1>1, <1>4 DEF Surjection

\* An event, as its domain shows it.
Shown(d, w) ==
    [data |-> w.data, enabled |-> w.enabled, time |-> IF d \in TimeDomains THEN w.time ELSE None]

LEMMA LanesReturn ==
    ASSUME Inputs, validate_contract, NEW s \in Sides, NEW w \in Bus, NEW e,
           e.native = Native(lane_to_canonical, s, w)
    PROVE  canonicalize_event(s, e) = Shown(e.domain, w)
<1> DEFINE map == lane_to_canonical[s]
           data == [l \in Lanes |-> w.data[map[l]]]
           on == {l \in Lanes : map[l] \in w.enabled}
<1>1. e.native.data = data /\ e.native.enable = (IF s \in ActiveLow THEN Lanes \ on ELSE on)
      /\ e.native.time = w.time
  BY DEF Native
<1>2. map \in [Lanes -> Lanes] /\ \A c \in Lanes : \E l \in Lanes : map[l] = c
  BY Permutes
<1>3. w.data = [l \in Lanes |-> w.data[l]] /\ w.enabled \subseteq Lanes
  BY TracesAssumption
<1>4. map_lanes(s, data) = w.data
  <2>1. ASSUME NEW c \in Lanes
        PROVE  data[CHOOSE l \in Lanes : map[l] = c] = w.data[c]
    <3>1. PICK l \in Lanes : l = (CHOOSE k \in Lanes : map[k] = c) /\ map[l] = c
      BY <1>2
    <3> QED BY <3>1
  <2>2. map_lanes(s, data) = [c \in Lanes |-> data[CHOOSE l \in Lanes : map[l] = c]]
    BY DEF map_lanes
  <2> HIDE DEF data, map
  <2>3. [c \in Lanes |-> data[CHOOSE l \in Lanes : map[l] = c]] = [c \in Lanes |-> w.data[c]]
    BY <2>1
  <2> QED BY <1>3, <2>2, <2>3
<1>5. map_byte_enable(s, e.native.enable) = w.enabled
  <2>1. on \subseteq Lanes /\ Lanes \ (Lanes \ on) = on
    OBVIOUS
  <2>2. map_byte_enable(s, e.native.enable) = {map[l] : l \in on}
    BY <1>1, <2>1 DEF map_byte_enable
  <2> QED BY <1>2, <1>3, <2>2
<1> QED BY <1>1, <1>4, <1>5 DEF canonicalize_event, Shown

\* Whatever a line says, what becomes of it is an event.
LEMMA EventType ==
    ASSUME Inputs, validate_contract, NEW s \in Sides, NEW e \in Line
    PROVE  canonicalize_event(s, e) \in Event
<1> DEFINE map == lane_to_canonical[s]
<1>1. map \in [Lanes -> Lanes] /\ \A c \in Lanes : \E l \in Lanes : map[l] = c
  BY Permutes
<1>2. e.native.data \in [Lanes -> Datum] /\ e.native.enable \subseteq Lanes /\ e.native.time \in Nat
  BY DEF Line, Words
<1>3. \A c \in Lanes : (CHOOSE l \in Lanes : map[l] = c) \in Lanes
  BY <1>1
<1>4. map_lanes(s, e.native.data) \in [Lanes -> Datum]
  BY <1>2, <1>3 DEF map_lanes
<1>5. map_byte_enable(s, e.native.enable) \in SUBSET Lanes
  BY <1>1, <1>2 DEF map_byte_enable
<1> QED BY <1>2, <1>4, <1>5 DEF canonicalize_event, Event
-----------------------------------------------------------------------------
(***************************************************************************)
(* Reading a line.                                                         *)
(***************************************************************************)
LEMMA OfFacts ==
    ASSUME NEW s, NEW d, NEW n \in Nat
    PROVE  /\ IsFiniteSet(Of(s, d, n)) /\ Cardinality(Of(s, d, n)) \in Nat
           /\ Of(s, d, 0) = {}
           /\ n + 1 \notin Of(s, d, n)
           /\ Of(s, d, n + 1) = IF raw[s][n + 1].domain = d THEN Of(s, d, n) \cup {n + 1}
                                ELSE Of(s, d, n)
<1>1. IsFiniteSet(Of(s, d, n))
  <2>1. IsFiniteSet(1 .. n)
    BY FS_Interval
  <2>2. Of(s, d, n) \in SUBSET (1 .. n)
    BY DEF Of
  <2> QED BY <2>1, <2>2, FS_Subset
<1> QED BY <1>1, FS_CardinalityType DEF Of

LEMMA NumberedAppend ==
    ASSUME NEW S, NEW q \in Seq(S), NEW x \in S
    PROVE  /\ Append(q, x) \in Seq(S) /\ Len(Append(q, x)) = Len(q) + 1
           /\ Numbered(Append(q, x)) = Numbered(q) \cup {[seq |-> Len(q), event |-> x]}
<1>1. PICK n \in Nat : n = Len(q)
  OBVIOUS
<1>2. /\ Append(q, x) \in Seq(S) /\ Len(Append(q, x)) = n + 1
      /\ Append(q, x)[n + 1] = x /\ \A k \in 1 .. n : Append(q, x)[k] = q[k]
  BY <1>1
<1>3. Numbered(Append(q, x)) =
         {[seq |-> k - 1, event |-> Append(q, x)[k]] : k \in 1 .. n} \cup
         {[seq |-> k - 1, event |-> Append(q, x)[k]] : k \in {n + 1}}
  <2>1. 1 .. n + 1 = (1 .. n) \cup {n + 1}
    BY <1>1
  <2> QED BY <1>2, <2>1 DEF Numbered
<1>4. {[seq |-> k - 1, event |-> Append(q, x)[k]] : k \in 1 .. n} = Numbered(q)
  BY <1>1, <1>2 DEF Numbered
<1>5. (n + 1) - 1 = n
  BY <1>1
<1> QED BY <1>1, <1>2, <1>3, <1>4, <1>5

LEMMA PassedOver ==
    ASSUME NEW q, NEW s, NEW d, NEW n \in Nat, Holds(q, s, d, n), raw[s][n + 1].domain # d
    PROVE  Holds(q, s, d, n + 1)
<1>1. Of(s, d, n + 1) = Of(s, d, n)
  BY DEF Of
<1>2. Canonical(s, d, n + 1) = Canonical(s, d, n)
  BY <1>1 DEF Canonical
<1> QED BY <1>1, <1>2 DEF Holds

LEMMA Spooled ==
    ASSUME Inputs, NEW q, NEW s \in Sides, NEW d, NEW n \in Nat, Holds(q, s, d, n),
           n + 1 \in 1 .. Len(raw[s]), raw[s][n + 1].domain = d,
           validate_contract, raw[s][n + 1].seq = Len(q),
           map_byte_enable(s, raw[s][n + 1].native.enable) # {}
    PROVE  Holds(Append(q, canonicalize_event(s, raw[s][n + 1])), s, d, n + 1)
<1> DEFINE x == canonicalize_event(s, raw[s][n + 1])
<1>1. x \in Event
  BY RawType, EventType
<1>2. q \in Seq(Event)
  BY DEF Holds
<1> HIDE DEF x
<1>3. /\ Append(q, x) \in Seq(Event) /\ Len(Append(q, x)) = Len(q) + 1
      /\ Numbered(Append(q, x)) = Numbered(q) \cup {[seq |-> Len(q), event |-> x]}
  BY <1>1, <1>2, NumberedAppend
<1>4. /\ IsFiniteSet(Of(s, d, n)) /\ n + 1 \notin Of(s, d, n)
      /\ Of(s, d, n + 1) = Of(s, d, n) \cup {n + 1}
  BY OfFacts
<1>5. Canonical(s, d, n + 1) = Canonical(s, d, n) \cup {[seq |-> Len(q), event |-> x]}
  BY <1>4 DEF Canonical, x
<1>6. Cardinality(Of(s, d, n + 1)) = Len(q) + 1
  BY <1>4, FS_AddElement DEF Holds
<1>7. raw[s][n + 1].seq = SeqOf(raw[s], n + 1)
  <2>1. Of(s, d, n) = {k \in 1 .. (n + 1) - 1 : raw[s][k].domain = raw[s][n + 1].domain}
    BY DEF Of
  <2> QED BY <2>1 DEF Holds, SeqOf
<1> QED BY <1>3, <1>4, <1>5, <1>6, <1>7 DEF Holds, x
-----------------------------------------------------------------------------
(***************************************************************************)
(* A recording of which every line of a domain is in its place shows what  *)
(* the bus did in that domain: a repeated or exchanged event changes no    *)
(* set of numbered events, an event that is missing leaves a later one out *)
(* of its place, and one without enables is not accepted.                  *)
(***************************************************************************)
FaithfulOf(s) == Faithful(lane_to_canonical, s, emitted[s])
OfFaithful(s, d) == {i \in 1 .. Len(FaithfulOf(s)) : FaithfulOf(s)[i].domain = d}

LEMMA FaithfulSeen ==
    ASSUME Inputs, validate_contract, NEW s \in Sides, NEW d
    PROVE  {[seq |-> FaithfulOf(s)[i].seq, event |-> canonicalize_event(s, FaithfulOf(s)[i])] :
               i \in OfFaithful(s, d)} = Seen(s, d)
<1> DEFINE trace == emitted[s]
           f == FaithfulOf(s)
           n == Len(trace)
<1>1. trace \in BusTraces /\ lane_to_canonical \in LaneMaps
  BY DEF Inputs
<1>2. DOMAIN trace = 1 .. n /\ \A i \in 1 .. n : trace[i] \in [domain : Domains, bus : Bus]
  BY <1>1, BusTrace
<1>3. /\ Len(f) = n
      /\ \A i \in 1 .. n : /\ f[i].domain = trace[i].domain /\ f[i].seq = SeqOf(trace, i)
                            /\ f[i].native = Native(lane_to_canonical, s, trace[i].bus)
  BY <1>1, FaithfulType DEF FaithfulOf
<1> HIDE DEF f, trace
<1>4. OfFaithful(s, d) = {i \in DOMAIN trace : trace[i].domain = d}
  <2>1. OfFaithful(s, d) = {i \in 1 .. n : f[i].domain = d}
    BY <1>3 DEF OfFaithful, f
  <2> QED BY <1>2, <1>3, <2>1
<1>5. ASSUME NEW i \in OfFaithful(s, d)
      PROVE  /\ f[i].seq = SeqOf(trace, i)
             /\ canonicalize_event(s, f[i]) = Shown(d, trace[i].bus)
  <2>1. i \in 1 .. n /\ trace[i].domain = d /\ trace[i].bus \in Bus
    <3>1. i \in 1 .. n /\ trace[i].domain = d
      BY <1>2, <1>4
    <3>2. trace[i] \in [domain : Domains, bus : Bus]
      BY <1>2, <3>1
    <3> QED BY <3>1, <3>2
  <2>2. f[i].domain = d /\ f[i].native = Native(lane_to_canonical, s, trace[i].bus)
        /\ f[i].seq = SeqOf(trace, i)
    BY <1>3, <2>1
  <2> QED BY <2>1, <2>2, LanesReturn
<1> QED BY <1>4, <1>5 DEF Seen, Shown, f, trace

LEMMA SeenWhole ==
    ASSUME Inputs, validate_contract, NEW s \in Sides, NEW d,
           \A i \in Of(s, d, Len(raw[s])) :
              raw[s][i].seq = SeqOf(raw[s], i) /\ map_byte_enable(s, raw[s][i].native.enable) # {}
    PROVE  Canonical(s, d, Len(raw[s])) = Seen(s, d)
<1> DEFINE f == FaithfulOf(s)
           n == Len(f)
           r == raw[s]
           ofR == Of(s, d, Len(r))
           ofF == OfFaithful(s, d)
<1>1. lane_to_canonical \in LaneMaps /\ emitted[s] \in BusTraces
  BY DEF Inputs
<1>2. /\ f \in Seq(Line) /\ n = Len(emitted[s]) /\ n \in Nat
      /\ \A i \in 1 .. n : f[i].domain = emitted[s][i].domain /\ f[i].seq = SeqOf(emitted[s], i)
  BY <1>1, FaithfulType DEF FaithfulOf
<1> SUFFICES ASSUME ~(/\ \A k \in ofR : \E i \in ofF : r[k] = f[i]
                      /\ \A i \in ofF : \E k \in ofR : r[k] = f[i])
             PROVE  FALSE
  <2>1. CASE /\ \A k \in ofR : \E i \in ofF : r[k] = f[i]
             /\ \A i \in ofF : \E k \in ofR : r[k] = f[i]
    <3>1. Canonical(s, d, Len(r)) = {[seq |-> f[i].seq, event |-> canonicalize_event(s, f[i])] : i \in ofF}
      BY <2>1 DEF Canonical
    <3> QED BY <3>1, FaithfulSeen
  <2> QED BY <2>1
<1>3. r \in Recordings(lane_to_canonical, s, emitted[s])
  BY DEF Inputs
<1> HIDE DEF f, r, n
<1>4. CASE r = f
  BY <1>4 DEF Of, OfFaithful, f, r, n
<1>5. ASSUME NEW i \in 1 .. n, NEW j \in i + 1 .. n, f[j].domain = f[i].domain, r = Without(f, i)
      PROVE  FALSE
  <2>1. /\ Len(r) = n - 1 /\ \A k \in 1 .. i - 1 : r[k] = f[k]
        /\ \A k \in i .. n - 1 : r[k] = f[k + 1]
    BY <1>2, <1>5, OneGone DEF n
  <2>2. CASE f[i].domain # d
    <3>1. ASSUME NEW k \in ofR PROVE \E m \in ofF : r[k] = f[m]
      <4>1. k \in 1 .. n - 1 /\ r[k].domain = d
        BY <2>1 DEF Of, r
      <4>2. CASE k < i
        BY <1>2, <2>1, <4>1, <4>2 DEF OfFaithful, f, n
      <4>3. CASE ~(k < i)
        <5>1. r[k] = f[k + 1] /\ k + 1 \in 1 .. n
          BY <1>2, <2>1, <4>1, <4>3
        <5> QED BY <4>1, <5>1 DEF OfFaithful, f, n
      <4> QED BY <4>2, <4>3
    <3>2. ASSUME NEW m \in ofF PROVE \E k \in ofR : r[k] = f[m]
      <4>1. m \in 1 .. n /\ f[m].domain = d /\ m # i
        BY <2>2 DEF OfFaithful, f, n
      <4>2. CASE m < i
        <5>1. r[m] = f[m] /\ m \in 1 .. n - 1
          BY <1>2, <2>1, <4>1, <4>2
        <5> QED BY <2>1, <4>1, <5>1 DEF Of, r
      <4>3. CASE m > i
        <5>1. r[m - 1] = f[m] /\ m - 1 \in 1 .. n - 1
          <6>1. m - 1 \in i .. n - 1 /\ (m - 1) + 1 = m
            BY <1>2, <4>1, <4>3
          <6> QED BY <2>1, <6>1
        <5> QED BY <2>1, <4>1, <5>1 DEF Of, r
      <4> QED BY <1>2, <4>1, <4>2, <4>3
    <3> QED BY <3>1, <3>2
  <2>3. CASE f[i].domain = d
    <3> DEFINE T == {k \in i + 1 .. n : f[k].domain = d}
    <3>1. T # {} /\ T \subseteq Nat
      BY <1>2, <1>5, <2>3
    <3>2. PICK m \in T : \A k \in T : m <= k
      BY <3>1, Least
    <3>3. m \in i + 1 .. n /\ f[m].domain = d /\ \A k \in i + 1 .. m - 1 : f[k].domain # d
      BY <1>2, <3>2
    <3> HIDE DEF T
    <3>4. r[m - 1] = f[m] /\ m - 1 \in ofR
      <4>1. m - 1 \in i .. n - 1 /\ (m - 1) + 1 = m /\ m - 1 \in 1 .. n - 1
        BY <1>2, <3>3
      <4>2. r[m - 1] = f[m]
        BY <2>1, <4>1
      <4> QED BY <2>1, <3>3, <4>1, <4>2 DEF Of, r
    <3>5. SeqOf(r, m - 1) = SeqOf(emitted[s], m)
      BY <1>2, <3>3, <3>4 DEF r
    <3> DEFINE B == {k \in 1 .. i - 1 : f[k].domain = d}
    <3>6. {k \in 1 .. (m - 1) - 1 : r[k].domain = r[m - 1].domain} = B
      <4>1. ASSUME NEW k \in 1 .. (m - 1) - 1
            PROVE  r[k].domain = d <=> k \in B
        <5>1. CASE k < i
          BY <2>1, <5>1
        <5>2. CASE ~(k < i)
          <6>1. k \in i .. n - 1 /\ k + 1 \in i + 1 .. m - 1
            BY <1>2, <3>3, <5>2
          <6> QED BY <2>1, <3>3, <5>2, <6>1
        <5> QED BY <5>1, <5>2
      <4>2. B \subseteq 1 .. (m - 1) - 1
        BY <1>2, <3>3
      <4> QED BY <3>3, <3>4, <4>1, <4>2
    <3>7. {k \in 1 .. m - 1 : emitted[s][k].domain = emitted[s][m].domain} = B \cup {i}
      <4>1. m \in 1 .. n /\ emitted[s][m].domain = d
        BY <1>2, <3>3
      <4>2. ASSUME NEW k \in 1 .. m - 1
            PROVE  emitted[s][k].domain = d <=> k \in B \cup {i}
        <5>1. k \in 1 .. n /\ emitted[s][k].domain = f[k].domain
          BY <1>2, <4>1
        <5>2. CASE k > i
          BY <1>2, <3>3, <5>1, <5>2
        <5>3. CASE k <= i
          BY <2>3, <5>1, <5>3
        <5> QED BY <5>2, <5>3
      <4>3. B \cup {i} \subseteq 1 .. m - 1
        BY <1>2, <3>3
      <4>4. {k \in 1 .. m - 1 : emitted[s][k].domain = d} = B \cup {i}
        <5> HIDE DEF B
        <5> QED BY <4>2, <4>3
      <4> QED BY <4>1, <4>4
    <3>8. IsFiniteSet(B)
      <4>1. 1 \in Int /\ i - 1 \in Int
        BY <1>2
      <4>2. IsFiniteSet(1 .. i - 1)
        BY <4>1, FS_Interval
      <4>3. B \in SUBSET (1 .. i - 1)
        OBVIOUS
      <4> HIDE DEF B
      <4> QED BY <4>2, <4>3, FS_Subset
    <3>9. Cardinality(B) \in Nat /\ Cardinality(B \cup {i}) = Cardinality(B) + 1
      <4>1. i \notin B
        OBVIOUS
      <4> HIDE DEF B
      <4>2. Cardinality(B) \in Nat
        BY <3>8, FS_CardinalityType
      <4> QED BY <3>8, <4>1, <4>2, FS_AddElement
    <3>10. SeqOf(r, m - 1) = Cardinality(B)
      BY <3>6 DEF SeqOf
    <3>11. SeqOf(emitted[s], m) = Cardinality(B \cup {i})
      BY <3>7 DEF SeqOf
    <3> QED BY <3>5, <3>9, <3>10, <3>11
  <2> QED BY <2>2, <2>3
<1>6. ASSUME NEW i \in 1 .. n, r = SubSeq(f, 1, i) \o SubSeq(f, i, n) PROVE FALSE
  <2>1. /\ Len(r) = n + 1 /\ \A k \in 1 .. i : r[k] = f[k]
        /\ \A k \in i + 1 .. n + 1 : r[k] = f[k - 1]
    BY <1>2, <1>6, OneTwice DEF n
  <2>2. ASSUME NEW k \in ofR PROVE \E m \in ofF : r[k] = f[m]
    <3>1. k \in 1 .. n + 1 /\ r[k].domain = d
      BY <2>1 DEF Of, r
    <3>2. CASE k <= i
      BY <1>2, <2>1, <3>1, <3>2 DEF OfFaithful, f, n
    <3>3. CASE ~(k <= i)
      <4>1. r[k] = f[k - 1] /\ k - 1 \in 1 .. n
        BY <1>2, <2>1, <3>1, <3>3
      <4> QED BY <3>1, <4>1 DEF OfFaithful, f, n
    <3> QED BY <3>2, <3>3
  <2>3. ASSUME NEW m \in ofF PROVE \E k \in ofR : r[k] = f[m]
    <3>1. m \in 1 .. n /\ f[m].domain = d
      BY DEF OfFaithful, f, n
    <3>2. CASE m <= i
      <4>1. r[m] = f[m] /\ m \in 1 .. n + 1
        BY <1>2, <2>1, <3>1, <3>2
      <4> QED BY <2>1, <3>1, <4>1 DEF Of, r
    <3>3. CASE m > i
      <4>1. r[m + 1] = f[m] /\ m + 1 \in 1 .. n + 1
        <5>1. m + 1 \in i + 1 .. n + 1 /\ (m + 1) - 1 = m
          BY <1>2, <3>1, <3>3
        <5> QED BY <2>1, <5>1
      <4> QED BY <2>1, <3>1, <4>1 DEF Of, r
    <3> QED BY <1>2, <3>1, <3>2, <3>3
  <2> QED BY <2>2, <2>3
<1>7. ASSUME NEW i \in 1 .. n - 1, r = [f EXCEPT ![i] = f[i + 1], ![i + 1] = f[i]] PROVE FALSE
  <2>1. /\ Len(r) = n /\ r[i] = f[i + 1] /\ r[i + 1] = f[i]
        /\ \A k \in 1 .. n : k # i /\ k # i + 1 => r[k] = f[k]
    BY <1>2, <1>7 DEF n
  <2>2. ASSUME NEW k \in 1 .. n
        PROVE  \E m \in 1 .. n : r[k] = f[m] /\ r[m] = f[k]
    BY <1>2, <2>1
  <2>3. ofR = {k \in 1 .. n : r[k].domain = d} /\ ofF = {k \in 1 .. n : f[k].domain = d}
    BY <2>1 DEF Of, OfFaithful, f, r, n
  <2> QED BY <2>2, <2>3
<1>8. ASSUME NEW i \in 1 .. n,
             r = [f EXCEPT ![i].native.enable = IF s \in ActiveLow THEN Lanes ELSE {}]
      PROVE  FALSE
  <2>1. /\ Len(r) = n /\ \A k \in 1 .. n : k # i => r[k] = f[k]
        /\ r[i].domain = f[i].domain
        /\ r[i].native.enable = IF s \in ActiveLow THEN Lanes ELSE {}
    <3>1. f[i] \in Line
      BY <1>2, <1>8 DEF n
    <3> QED BY <1>2, <1>8, <3>1 DEF n, Line, Words
  <2>2. map_byte_enable(s, r[i].native.enable) = {}
    BY <2>1 DEF map_byte_enable
  <2>3. ofR = {k \in 1 .. n : r[k].domain = d} /\ ofF = {k \in 1 .. n : f[k].domain = d}
    BY <2>1 DEF Of, OfFaithful, f, r, n
  <2>4. r[i].domain # d
    BY <1>8, <2>2, <2>3 DEF r
  <2> QED BY <2>1, <2>3, <2>4
<1>9. \/ r = f
      \/ \E i \in 1 .. n : (\E j \in i + 1 .. n : f[j].domain = f[i].domain) /\ r = Without(f, i)
      \/ \E i \in 1 .. n : r = SubSeq(f, 1, i) \o SubSeq(f, i, n)
      \/ \E i \in 1 .. n - 1 : r = [f EXCEPT ![i] = f[i + 1], ![i + 1] = f[i]]
      \/ \E i \in 1 .. n : r = [f EXCEPT ![i].native.enable = IF s \in ActiveLow THEN Lanes ELSE {}]
  BY <1>3 DEF Recordings, FaithfulOf, f, n
<1> QED BY <1>4, <1>5, <1>6, <1>7, <1>8, <1>9
-----------------------------------------------------------------------------
(***************************************************************************)
(* The inductive invariant holds.                                          *)
(***************************************************************************)
LEMMA InitIInv == Init => IInv
<1> SUFFICES ASSUME Init PROVE IInv
  OBVIOUS
<1>1. Inputs
  <2>0. PICK s \in Sides : \E r \in Recordings(lane_to_canonical, s, emitted[s]) :
           raw = [q \in Sides |-> IF q = s THEN r ELSE Faithful(lane_to_canonical, q, emitted[q])]
    BY DEF Init
  <2>1. PICK r \in Recordings(lane_to_canonical, s, emitted[s]) :
           raw = [q \in Sides |-> IF q = s THEN r ELSE Faithful(lane_to_canonical, q, emitted[q])]
    BY <2>0
  <2>2. \A q \in Sides : Faithful(lane_to_canonical, q, emitted[q])
                            \in Recordings(lane_to_canonical, q, emitted[q])
    BY DEF Recordings
  <2>3. \A q \in Sides : raw[q] \in Recordings(lane_to_canonical, q, emitted[q])
    BY <2>1, <2>2
  <2> QED BY <2>1, <2>3 DEF Init, Inputs
<1>2. Types
  <2>1. Len(selected) \in Nat
    BY TracesAssumption DEF Init
  <2> QED BY <2>1 DEF Init, Types, Stages, Sides, Empty
<1>3. FilesInv
  <2>1. \A s \in Sides : Len(raw[s]) \in Nat
    BY <1>1, RawType
  <2>2. \A d \in Selected : spool[d] = <<>>
    BY TracesAssumption DEF Init, Selected, Empty
  <2>3. \A s, d : Holds(<<>>, s, d, 0)
    <3> SUFFICES ASSUME NEW s, NEW d PROVE Holds(<<>>, s, d, 0)
      OBVIOUS
    <3>1. Of(s, d, 0) = {}
      BY DEF Of
    <3>2. Numbered(<<>>) = {} /\ Canonical(s, d, 0) = {}
      BY <3>1 DEF Numbered, Canonical
    <3>3. Cardinality(Of(s, d, 0)) = 0
      BY <3>1, FS_EmptySet
    <3> QED BY <3>1, <3>2, <3>3 DEF Holds
  <2>4. \A s \in Sides : Reads(s, 0)
    BY <2>2, <2>3 DEF Reads
  <2>5. \A s \in Sides : 0 \in 0 .. Len(raw[s])
    BY <2>1
  <2> QED BY <2>4, <2>5 DEF Init, FilesInv, Sides
<1>4. VerdictInv
  BY DEF Init, VerdictInv
<1> QED BY <1>1, <1>2, <1>3, <1>4 DEF IInv

\* The selected domains are in order, and each once.
LEMMA Selection ==
    ASSUME Inputs
    PROVE  /\ Len(selected) \in Nat /\ selected \in Seq(Domains)
           /\ Selected \subseteq Domains
           /\ \A j \in 1 .. Len(selected) : selected[j] \in Selected
           /\ \A i, j \in 1 .. Len(selected) : i # j => selected[i] # selected[j]
<1>1. selected \in Seq(Domains) /\ \A i, j \in 1 .. Len(selected) : i < j => selected[i] # selected[j]
  BY TracesAssumption DEF Inputs
<1>2. Len(selected) \in Nat
  BY <1>1
<1>3. \A i, j \in 1 .. Len(selected) : i # j => selected[i] # selected[j]
  <2> SUFFICES ASSUME NEW i \in 1 .. Len(selected), NEW j \in 1 .. Len(selected), i # j
               PROVE  selected[i] # selected[j]
    OBVIOUS
  <2>1. i < j \/ j < i
    BY <1>2
  <2> QED BY <1>1, <2>1
<1> QED BY <1>1, <1>2, <1>3 DEF Selected

\* Nothing changes the inputs, and so what a spool or a file holds.
LEMMA InputsKept ==
    ASSUME Inputs, [Next]_vars
    PROVE  /\ Inputs' /\ UNCHANGED inputs /\ Selected' = Selected
           /\ \A q, s, d, n : Holds(q, s, d, n) => Holds(q, s, d, n)'
           /\ \A q, s, d : HoldsAll(q, s, d) => HoldsAll(q, s, d)'
           /\ \A s \in Sides : raw'[s] = raw[s]
<1>1. UNCHANGED inputs
  BY DEF Next, ReadLine, WriteFile, WriteSidecar, Cut, Scan, Agree, Diverge, EndDomain, Report, vars
<1>2. /\ raw' = raw /\ emitted' = emitted /\ selected' = selected
      /\ lane_to_canonical' = lane_to_canonical
  BY <1>1 DEF inputs
<1>3. Inputs'
  BY <1>2 DEF Inputs
<1>4. Selected' = Selected
  BY <1>2 DEF Selected
<1>5. \A s, e : canonicalize_event(s, e)' = canonicalize_event(s, e)
  BY <1>2 DEF canonicalize_event, map_lanes, map_byte_enable
<1>6. \A s, e : map_byte_enable(s, e)' = map_byte_enable(s, e)
  BY <1>2 DEF map_byte_enable
<1>7. validate_contract' = validate_contract
  BY <1>2 DEF validate_contract
<1>8. \A q, s, d, n : Holds(q, s, d, n) => Holds(q, s, d, n)'
  BY <1>2, <1>5, <1>6, <1>7 DEF Holds, Canonical, Of
<1>9. \A q, s, d : HoldsAll(q, s, d) => HoldsAll(q, s, d)'
  BY <1>2, <1>5, <1>6, <1>7 DEF HoldsAll, Holds, Canonical, Of
<1> QED BY <1>1, <1>2, <1>3, <1>4, <1>8, <1>9

LEMMA TypesStep ==
    ASSUME Inputs, Types, [Next]_vars
    PROVE  Types'
<1> USE DEF Types
<1>1. Len(selected) \in Nat /\ selected' = selected
  BY Selection, InputsKept DEF inputs
<1>2. CASE ReadLine
  BY <1>1, <1>2 DEF ReadLine, Reject, verdict, inputs, Stages
<1>3. CASE WriteFile
  <2>1. \A s \in Sides : DOMAIN file'[s] = Domains /\ DOMAIN file' = Sides
    BY <1>3 DEF WriteFile, Reject
  <2> QED BY <1>1, <1>3, <2>1 DEF WriteFile, Reject, verdict, inputs, Stages
<1>4. CASE WriteSidecar
  BY <1>1, <1>4 DEF WriteSidecar, verdict, inputs, Stages, Sides, Empty
<1>5. CASE Cut
  <2>1. DOMAIN file' = Sides /\ \A s \in Sides : DOMAIN file'[s] = DOMAIN file[s]
    BY <1>5 DEF Cut
  <2> QED BY <1>1, <1>5, <2>1 DEF Cut, verdict, inputs, Stages
<1>6. CASE Scan
  BY <1>1, <1>6 DEF Scan, verdict, inputs, Stages
<1>7. CASE Agree
  BY <1>1, <1>7 DEF Agree, inputs, Stages
<1>8. CASE Diverge
  BY <1>1, <1>8 DEF Diverge, NextDomain, inputs, Stages
<1>9. CASE EndDomain
  BY <1>1, <1>9 DEF EndDomain, NextDomain, inputs, Stages
<1>10. CASE Report
  BY <1>1, <1>10 DEF Report, verdict, inputs, Stages
<1>11. CASE UNCHANGED vars
  BY <1>1, <1>11 DEF vars, verdict, inputs, Stages
<1> QED BY <1>2, <1>3, <1>4, <1>5, <1>6, <1>7, <1>8, <1>9, <1>10, <1>11 DEF Next

\* What a file holds stays, as long as the file does.
LEMMA WholeKept ==
    ASSUME Inputs, [Next]_vars, NEW s \in Sides, Whole(s), file'[s] = file[s]
    PROVE  Whole(s)'
<1>1. Selected' = Selected /\ \A q, d : HoldsAll(q, s, d) => HoldsAll(q, s, d)'
  BY InputsKept
<1> QED BY <1>1 DEF Whole

\* A line of a selected domain is spooled if it is acceptable.
LEMMA ReadLineFiles ==
    ASSUME Inputs, Types, FilesInv, ReadLine
    PROVE  FilesInv'
<1>0. [Next]_vars
  BY DEF Next
<1> PICK sd \in Sides : sd = side
  BY DEF Types
<1>1. /\ pc = "normalize" /\ line <= Len(raw[sd]) /\ side' = sd /\ file' = file /\ meta' = meta
      /\ damage' = damage
  BY DEF ReadLine, Types, Reject
<1>2. PICK n \in 0 .. Len(raw[sd]) : line = n + 1 /\ Reads(sd, n)
  BY <1>1 DEF FilesInv
<1>3. raw[sd] \in Seq(Line)
  BY <1>1, RawType
<1> DEFINE e == raw[sd][n + 1]
<1>4. n \in Nat /\ n + 1 \in 1 .. Len(raw[sd]) /\ e \in Line
  BY <1>1, <1>2, <1>3
<1>5. /\ UNCHANGED inputs /\ Selected' = Selected
      /\ \A q, s, d, k : Holds(q, s, d, k) => Holds(q, s, d, k)'
      /\ \A s \in Sides : raw'[s] = raw[s]
  BY <1>0, InputsKept
<1>6. \A s \in Sides : Whole(s) => Whole(s)'
  BY <1>0, <1>1, WholeKept
<1>7. ASSUME pc' = "normalize"
      PROVE  line' = n + 2 /\ Reads(sd, n + 1)'
  <2>1. line' = n + 2
    BY <1>1, <1>2, <1>4, <1>7 DEF ReadLine, Reject
  <2>2. ASSUME NEW d \in Selected
        PROVE  \E q : spool'[d] = q /\ Holds(q, sd, d, n + 1)
    <3>1. Holds(spool[d], sd, d, n) /\ d \in Domains
      BY <1>2, Selection DEF Reads
    <3>2. CASE e.domain # d
      <4>1. spool'[d] = spool[d]
        BY <1>1, <1>2, <1>7, <3>1, <3>2 DEF ReadLine, Reject, Types
      <4>2. Holds(spool[d], sd, d, n + 1)
        BY <1>4, <3>1, <3>2, PassedOver
      <4> QED BY <4>1, <4>2
    <3>3. CASE e.domain = d
      <4>1. acceptable(sd, e) /\ spool'[d] = Append(spool[d], canonicalize_event(sd, e))
        BY <1>1, <1>2, <1>7, <3>1, <3>3 DEF ReadLine, Reject, Types
      <4>2. Holds(Append(spool[d], canonicalize_event(sd, e)), sd, d, n + 1)
        BY <1>1, <1>4, <3>1, <3>3, <4>1, Spooled DEF acceptable
      <4> QED BY <4>1, <4>2
    <3> QED BY <3>2, <3>3
  <2>3. \A d \in Selected : \E q : spool'[d] = q /\ Holds(q, sd, d, n + 1)'
    BY <1>5, <2>2
  <2>4. Reads(sd, n + 1)'
    BY <1>5, <2>3 DEF Reads
  <2> QED BY <2>1, <2>4
<1>8. pc' \in {"normalize", "error"}
  BY <1>1 DEF ReadLine, Reject
<1>9. pc' = "normalize" =>
         \A s \in Sides : side' = s => \E k \in 0 .. Len(raw'[s]) : line' = k + 1 /\ Reads(s, k)'
  BY <1>1, <1>4, <1>5, <1>7
<1>10. Whole("mame") => Whole("mame")'
  BY <1>6 DEF Sides
<1>11. /\ damage' = 0 /\ meta'["rtl"] = None
       /\ IF side' = "rtl" THEN Whole("mame")' /\ Described("mame")' ELSE meta'["mame"] = None
  BY <1>1, <1>10 DEF FilesInv, Described
<1> QED BY <1>8, <1>9, <1>11 DEF FilesInv

LEMMA WriteFileFiles ==
    ASSUME Inputs, Types, FilesInv, WriteFile
    PROVE  FilesInv'
<1>0. [Next]_vars
  BY DEF Next
<1> PICK sd \in Sides : sd = side
  BY DEF Types
<1>1. CASE pc' = "error"
  BY <1>1 DEF FilesInv
<1>2. CASE pc' # "error"
  <2>1. /\ pc = "normalize" /\ line > Len(raw[sd]) /\ side' = sd /\ meta' = meta /\ damage' = damage
        /\ pc' = "sidecar" /\ file' = [file EXCEPT ![sd] = spool]
        /\ \A d \in Selected : spool[d] # <<>>
    BY <1>2 DEF WriteFile, Reject
  <2>2. PICK n \in 0 .. Len(raw[sd]) : line = n + 1 /\ Reads(sd, n)
    BY <2>1 DEF FilesInv
  <2>3. n = Len(raw[sd])
    <3>1. Len(raw[sd]) \in Nat
      BY RawType
    <3> QED BY <2>1, <2>2, <3>1
  <2>4. \A d \in Selected : HoldsAll(spool[d], sd, d)
    BY <2>2, <2>3 DEF Reads, HoldsAll
  <2>5. Selected' = Selected /\ \A q, s, d : HoldsAll(q, s, d) => HoldsAll(q, s, d)'
    BY <1>0, InputsKept
  <2>6. file'[sd] = spool /\ \A s \in Sides : s # sd => file'[s] = file[s]
    BY <2>1 DEF Types
  <2>7. Whole(sd)'
    <3>1. \A d \in Selected : \E q : spool[d] = q /\ q # <<>> /\ HoldsAll(q, sd, d)'
      <4>1. ASSUME NEW d \in Selected PROVE \E q : spool[d] = q /\ q # <<>> /\ HoldsAll(q, sd, d)'
        <5>1. PICK q : q = spool[d]
          OBVIOUS
        <5> QED BY <2>1, <2>4, <2>5, <5>1
      <4> QED BY <4>1
    <3> QED BY <2>5, <2>6, <3>1 DEF Whole
  <2>8. sd = "rtl" => Whole("mame")' /\ Described("mame")'
    <3> SUFFICES ASSUME sd = "rtl" PROVE Whole("mame")' /\ Described("mame")'
      OBVIOUS
    <3>1. Whole("mame") /\ Described("mame") /\ "mame" \in Sides /\ file'["mame"] = file["mame"]
      BY <2>1, <2>6 DEF FilesInv, Sides
    <3> QED BY <1>0, <2>1, <3>1, WholeKept DEF Described
  <2> QED BY <2>1, <2>7, <2>8 DEF FilesInv
<1> QED BY <1>1, <1>2

LEMMA WriteSidecarFiles ==
    ASSUME Inputs, Types, FilesInv, WriteSidecar
    PROVE  FilesInv'
<1>0. [Next]_vars
  BY DEF Next
<1>1. /\ pc = "sidecar" /\ side' = "rtl" /\ file' = file /\ damage' = damage /\ line' = 1
      /\ spool' = Empty /\ meta' \in {meta, [meta EXCEPT ![side] = file[side]]}
      /\ side \in Sides /\ DOMAIN meta = Sides /\ damage = 0 /\ meta["rtl"] = None
      /\ pc' = IF side = "mame" THEN "normalize" ELSE "scan"
  BY DEF WriteSidecar, Types, FilesInv
<1>2. \A s \in Sides : Whole(s) => Whole(s)'
  BY <1>0, <1>1, WholeKept
<1>3. CASE side = "mame"
  <2>1. Whole("mame")' /\ Described("mame")' /\ meta'["rtl"] = None
    <3>1. Whole("mame") /\ meta["mame"] = None /\ "mame" \in Sides
      BY <1>1, <1>3 DEF FilesInv, Sides
    <3> QED BY <1>1, <1>2, <1>3, <3>1 DEF Described, Sides
  <2>2. Reads("rtl", 0)'
    <3>1. \A d : Holds(<<>>, "rtl", d, 0)'
      <4> SUFFICES ASSUME NEW d PROVE Holds(<<>>, "rtl", d, 0)'
        OBVIOUS
      <4>1. Of("rtl", d, 0)' = {} /\ Cardinality({}) = 0
        BY FS_EmptySet DEF Of
      <4>2. Numbered(<<>>) = {} /\ Canonical("rtl", d, 0)' = {}
        BY <4>1 DEF Numbered, Canonical
      <4>3. Cardinality(Of("rtl", d, 0)') = Len(<<>>) /\ <<>> \in Seq(Event)
        BY <4>1
      <4> QED BY <4>1, <4>2, <4>3 DEF Holds
    <3>2. Selected' \subseteq Domains
      BY <1>0, InputsKept, Selection
    <3>3. \A d \in Selected' : spool'[d] = <<>>
      BY <1>1, <3>2 DEF Empty
    <3> QED BY <3>1, <3>3 DEF Reads
  <2>3. 0 \in 0 .. Len(raw'["rtl"])
    <3>1. raw'["rtl"] = raw["rtl"] /\ Len(raw["rtl"]) \in Nat
      BY <1>0, InputsKept, RawType DEF Sides
    <3> QED BY <3>1
  <2>4. \A s \in Sides : s = "rtl" => \E k \in 0 .. Len(raw'[s]) : line' = k + 1 /\ Reads(s, k)'
    BY <1>1, <2>2, <2>3
  <2>5. pc' = "normalize" /\ side' = "rtl" /\ damage' = 0
    BY <1>1, <1>3
  <2> QED BY <2>1, <2>4, <2>5 DEF FilesInv
<1>4. CASE side = "rtl"
  <2>1. Whole("mame") /\ Described("mame") /\ Whole("rtl")
    BY <1>1, <1>4 DEF FilesInv
  <2>2. Whole("mame")' /\ Whole("rtl")'
    BY <1>2, <2>1 DEF Sides
  <2>3. Described("mame")' /\ Described("rtl")'
    BY <1>1, <1>4, <2>1 DEF Described, Sides
  <2> QED BY <1>1, <1>4, <2>2, <2>3 DEF FilesInv, Sides
<1> QED BY <1>1, <1>3, <1>4 DEF Sides

\* A file that has its sidecar is no longer the one described once it is cut.
LEMMA CutFiles ==
    ASSUME Inputs, Types, FilesInv, Cut
    PROVE  FilesInv'
<1>0. [Next]_vars
  BY DEF Next
<1>1. /\ pc = "scan" /\ pc' = "scan" /\ damage = 0 /\ damage' = 1 /\ meta' = meta
  BY DEF Cut
<1>2. PICK s \in Sides, d \in Selected :
         /\ meta[s] # None
         /\ file' = [file EXCEPT ![s][d] = SubSeq(@, 1, Len(@) - 1)]
  BY DEF Cut
<1>3. meta[s] = file[s] /\ Whole(s)
  BY <1>1, <1>2 DEF FilesInv, Described
<1>4. PICK q : file[s][d] = q /\ q # <<>> /\ q \in Seq(Event)
  BY <1>3 DEF Whole, HoldsAll, Holds
<1>5. file'[s][d] = SubSeq(q, 1, Len(q) - 1) /\ \A t \in Sides : t # s => file'[t] = file[t]
  BY <1>2, <1>4, Selection DEF Types
<1>6. SubSeq(q, 1, Len(q) - 1) # q
  <2>1. PICK n \in Nat : n = Len(q)
    BY <1>4
  <2>2. n > 0 /\ Len(SubSeq(q, 1, n - 1)) = n - 1
    BY <1>4, <2>1
  <2> QED BY <2>1, <2>2
<1>7. ~Described(s)'
  <2>1. file'[s] # file[s]
    BY <1>4, <1>5, <1>6
  <2> QED BY <1>1, <1>2, <1>3, <2>1 DEF Described
<1>8. \A t \in Sides : t # s => (Described(t)' => Whole(t)')
  <2> SUFFICES ASSUME NEW t \in Sides, t # s, Described(t)' PROVE Whole(t)'
    OBVIOUS
  <2>1. file'[t] = file[t] /\ Described(t)
    BY <1>1, <1>5 DEF Described
  <2> QED BY <1>0, <1>1, <2>1, WholeKept DEF FilesInv
<1> QED BY <1>1, <1>7, <1>8 DEF FilesInv

LEMMA FilesStep ==
    ASSUME Inputs, Types, FilesInv, [Next]_vars
    PROVE  FilesInv'
<1>1. CASE file' = file /\ meta' = meta /\ pc \in {"scan", "compare"} /\ damage' = damage
           /\ pc' \in {"compare", "MATCH", "DIVERGED", "error"}
           /\ (pc = "scan" => pc' \in {"compare", "error"})
           /\ (pc = "scan" /\ pc' = "compare" => \A s \in Sides : Described(s))
  <2>1. CASE pc' = "error"
    BY <2>1 DEF FilesInv
  <2>2. CASE pc' # "error"
    <3>1. \A s \in Sides : Described(s) /\ Whole(s)
      BY <1>1, <2>2 DEF FilesInv
    <3>2. \A s \in Sides : Whole(s)' /\ Described(s)'
      BY <1>1, <3>1, WholeKept DEF Described
    <3> QED BY <1>1, <2>2, <3>2 DEF FilesInv
  <2> QED BY <2>1, <2>2
<1>2. CASE Scan
  <2>1. pc' = "compare" => \A s \in Sides : Described(s)
    BY <1>2 DEF Scan, validate_sidecar, Described
  <2> QED BY <1>1, <1>2, <2>1 DEF Scan
<1>3. CASE Agree \/ Diverge \/ EndDomain \/ Report
  BY <1>1, <1>3 DEF Agree, Diverge, EndDomain, Report
<1>4. CASE UNCHANGED vars
  <2>1. /\ pc' = pc /\ side' = side /\ line' = line /\ spool' = spool /\ file' = file
        /\ meta' = meta /\ damage' = damage
    BY <1>4 DEF vars
  <2>2. \A s \in Sides : Whole(s) => Whole(s)'
    BY <2>1, WholeKept
  <2>3. \A n : \A s \in Sides : Reads(s, n) => Reads(s, n)'
    <3>1. Selected' = Selected /\ \A q, s, d, n : Holds(q, s, d, n) => Holds(q, s, d, n)'
      BY InputsKept
    <3> QED BY <2>1, <3>1 DEF Reads
  <2>4. \A s \in Sides : raw'[s] = raw[s]
    BY InputsKept
  <2>5. \A s \in Sides : Described(s)' <=> Described(s)
    BY <2>1 DEF Described
  <2>6. pc = "normalize" => \A s \in Sides : side' = s => \E n \in 0 .. Len(raw'[s]) : line' = n + 1 /\ Reads(s, n)'
    BY <2>1, <2>3, <2>4 DEF FilesInv
  <2>7. Whole("mame") => Whole("mame")'
    BY <2>2 DEF Sides
  <2>8. Described("mame")' <=> Described("mame")
    BY <2>5 DEF Sides
  <2> QED BY <2>1, <2>2, <2>5, <2>6, <2>7, <2>8 DEF FilesInv
<1> QED BY <1>2, <1>3, <1>4, ReadLineFiles, WriteFileFiles, WriteSidecarFiles, CutFiles DEF Next

\* While files are compared, they are sequences of events.
LEMMA Compared ==
    ASSUME Inputs, FilesInv, pc \in {"compare", "MATCH", "DIVERGED"}, NEW s \in Sides, NEW d \in Selected
    PROVE  file[s][d] \in Seq(Event) /\ Len(file[s][d]) \in Nat
  BY DEF FilesInv, Whole, HoldsAll, Holds

LEMMA CompareStep ==
    ASSUME Inputs, Types, FilesInv, VerdictInv, Agree \/ Diverge \/ EndDomain
    PROVE  VerdictInv'
<1>1. /\ pc = "compare" /\ pc' = "compare" /\ at <= Len(selected) /\ file' = file /\ selected' = selected
      /\ at \in 1 .. Len(selected) /\ pos \in Nat /\ Len(selected) \in Nat /\ DOMAIN diverged = Domains
      /\ selected[at] \in Selected /\ selected[at] \in Domains
  <2>1. Len(selected) \in Nat /\ Selected \subseteq Domains
        /\ \A j \in 1 .. Len(selected) : selected[j] \in Selected
    BY Selection
  <2> QED BY <2>1 DEF Types, Agree, Diverge, EndDomain, inputs
<1> PICK d \in Domains : d = selected[at]
  BY <1>1
<1> PICK i \in Nat : i = pos
  BY <1>1
<1> DEFINE l == file["mame"][d]
           r == file["rtl"][d]
<1>2. /\ l \in Seq(Event) /\ r \in Seq(Event) /\ Len(l) \in Nat /\ Len(r) \in Nat
  BY <1>1, Compared DEF Sides
<1>3. Agreed(d, i)
  BY <1>1 DEF VerdictInv
<1>4. \A j \in 1 .. Len(selected) :
         selected[j] \in Domains /\ \A k \in 1 .. Len(selected) : j # k => selected[j] # selected[k]
  BY Selection
<1>5. \A j \in 1 .. Len(selected), e \in Domains : selected[j] = e => Agreed(e, 0)
  <2> SUFFICES ASSUME NEW j \in 1 .. Len(selected), NEW e \in Domains, selected[j] = e
               PROVE  Agreed(e, 0)
    OBVIOUS
  <2>1. e \in Selected
    BY Selection
  <2> QED BY <1>1, <2>1, Compared DEF Agreed, Sides
<1>6. /\ \A e, n : Agreed(e, n)' <=> Agreed(e, n)
      /\ \A e : Same(e)' <=> Same(e)
      /\ \A e, n : Part(e, n)' <=> Part(e, n)
  BY <1>1 DEF Agreed, Same, Part
<1>7. /\ \A j \in at .. Len(selected) : diverged[selected[j]] = None
      /\ \A j \in 1 .. at - 1, e \in Domains : selected[j] = e => (diverged[e] = None <=> Same(e))
      /\ first = None => \A j \in 1 .. at - 1, e \in Domains : selected[j] = e => Same(e)
      /\ first # None => \E k \in 1 .. at - 1, e \in Domains, n \in Nat : Found(k, e, n)
  BY <1>1 DEF VerdictInv
<1>8. CASE Agree
  <2>1. /\ at' = at /\ pos' = i + 1 /\ first' = first /\ diverged' = diverged
        /\ i < Len(l) /\ i < Len(r) /\ l[i + 1] = r[i + 1]
    BY <1>8 DEF Agree, mismatch, left, right
  <2>2. Agreed(d, i + 1)
    <3>1. \A k \in 1 .. i + 1 : k \in 1 .. i \/ k = i + 1
      OBVIOUS
    <3> QED BY <1>2, <1>3, <2>1, <3>1 DEF Agreed
  <2>3. \A e \in Domains, n \in Nat : at' <= Len(selected') /\ selected'[at'] = e /\ pos' = n => Agreed(e, n)'
    BY <1>1, <1>6, <2>1, <2>2
  <2>4. \A k, e, n : Found(k, e, n) => Found(k, e, n)'
    BY <1>1, <1>6, <2>1 DEF Found
  <2> QED BY <1>1, <1>6, <1>7, <2>1, <2>3, <2>4 DEF VerdictInv
<1>9. CASE Diverge \/ EndDomain
  <2>1. at' = at + 1 /\ pos' = 0
    BY <1>9 DEF Diverge, EndDomain, NextDomain
  <2>2. \A e \in Domains, n \in Nat : at' <= Len(selected') /\ selected'[at'] = e /\ pos' = n => Agreed(e, n)'
    <3> SUFFICES ASSUME NEW e \in Domains, NEW n \in Nat, at' <= Len(selected'), selected'[at'] = e, pos' = n
                 PROVE  Agreed(e, n)'
      OBVIOUS
    <3>1. at' \in 1 .. Len(selected) /\ selected[at'] = e /\ n = 0
      BY <1>1, <2>1
    <3> QED BY <1>5, <1>6, <3>1
  <2>3. /\ \A j \in 1 .. at' - 1 : j = at \/ j \in 1 .. at - 1
        /\ \A j \in at' .. Len(selected) : j \in at .. Len(selected) /\ selected[j] # d
        /\ \A j \in 1 .. at - 1 : selected[j] # d
        /\ at \in 1 .. at' - 1 /\ 1 .. at - 1 \subseteq 1 .. at' - 1
    <3>1. \A j \in at' .. Len(selected) : j \in 1 .. Len(selected) /\ j # at /\ j \in at .. Len(selected)
      BY <1>1, <2>1
    <3>2. \A j \in 1 .. at - 1 : j \in 1 .. Len(selected) /\ j # at
      BY <1>1, <2>1
    <3>3. /\ \A j \in 1 .. at' - 1 : j = at \/ j \in 1 .. at - 1
          /\ at \in 1 .. at' - 1 /\ 1 .. at - 1 \subseteq 1 .. at' - 1
      BY <1>1, <2>1
    <3> QED BY <1>1, <1>4, <3>1, <3>2, <3>3
  <2>4. /\ \A j \in at' .. Len(selected) : diverged'[selected[j]] = None
        /\ diverged'[d] = None <=> Same(d)
        /\ \A e \in Domains : e # d => diverged'[e] = diverged[e]
        /\ first' = None => first = None /\ Same(d)
        /\ first' # None => \E k \in 1 .. at' - 1, e \in Domains, n \in Nat : Found(k, e, n)'
    <3>1. CASE Diverge
      <4>1. /\ diverged' = [diverged EXCEPT ![d] = i]
            /\ first' = IF first = None THEN [domain |-> d, index |-> i] ELSE first
            /\ \/ i < Len(l) /\ i >= Len(r)
               \/ i >= Len(l) /\ i < Len(r)
               \/ i < Len(l) /\ i < Len(r) /\ l[i + 1] # r[i + 1]
        BY <3>1 DEF Diverge, mismatch, left, right, earliest
      <4>2. Part(d, i)
        BY <1>2, <1>3, <4>1 DEF Part
      <4>3. ~Same(d)
        BY <1>2, <4>1 DEF Same
      <4>4. diverged'[d] # None /\ \A e \in Domains : e # d => diverged'[e] = diverged[e]
        BY <1>1, <4>1, TracesAssumption
      <4>5. first' # None
        BY <4>1, TracesAssumption
      <4>6. \E k \in 1 .. at' - 1, e \in Domains, n \in Nat : Found(k, e, n)'
        <5>1. CASE first = None
          <6> PICK k : k = at
            OBVIOUS
          <6>1. Found(k, d, i)'
            <7>1. first' = [domain |-> d, index |-> i] /\ selected'[k] = d
              BY <1>1, <4>1, <5>1
            <7>2. \A j \in 1 .. k - 1, e \in Domains : selected'[j] = e => Same(e)'
              BY <1>1, <1>6, <1>7, <5>1
            <7>3. Part(d, i)'
              BY <1>6, <4>2
            <7> QED BY <7>1, <7>2, <7>3 DEF Found
          <6> QED BY <2>3, <6>1
        <5>2. CASE first # None
          <6>1. PICK k \in 1 .. at - 1, e \in Domains, n \in Nat : Found(k, e, n)
            BY <1>7, <5>2
          <6>2. Found(k, e, n)'
            BY <1>1, <1>6, <4>1, <5>2, <6>1 DEF Found
          <6> QED BY <2>3, <6>1, <6>2
        <5> QED BY <5>1, <5>2
      <4>7. \A j \in at' .. Len(selected) : diverged'[selected[j]] = None
        <5> SUFFICES ASSUME NEW j \in at' .. Len(selected) PROVE diverged'[selected[j]] = None
          OBVIOUS
        <5>1. j \in at .. Len(selected) /\ j \in 1 .. Len(selected) /\ selected[j] # d
          BY <1>1, <2>1, <2>3
        <5> QED BY <1>4, <1>7, <4>4, <5>1
      <4> QED BY <4>3, <4>4, <4>5, <4>6, <4>7
    <3>2. CASE EndDomain
      <4>1. /\ diverged' = diverged /\ first' = first
            /\ i >= Len(l) \/ i >= Len(r)
            /\ ~(i < Len(l) /\ i >= Len(r)) /\ ~(i >= Len(l) /\ i < Len(r))
        BY <3>2 DEF EndDomain, mismatch, left, right
      <4>2. Same(d)
        <5>1. Len(l) = i /\ Len(r) = i
          BY <1>2, <1>3, <4>1 DEF Agreed
        <5>2. \A k \in 1 .. i : l[k] = r[k]
          BY <1>3 DEF Agreed
        <5> HIDE DEF l, r
        <5>3. l = r
          BY <1>2, <5>1, <5>2
        <5> QED BY <5>3 DEF Same, l, r
      <4>3. diverged[d] = None
        BY <1>1, <1>7
      <4>4. \A k, e, n : Found(k, e, n) => Found(k, e, n)'
        BY <1>1, <1>6, <4>1 DEF Found
      <4>5. first' # None => \E k \in 1 .. at' - 1, e \in Domains, n \in Nat : Found(k, e, n)'
        BY <1>7, <2>3, <4>1, <4>4
      <4> QED BY <1>7, <2>3, <4>1, <4>2, <4>3, <4>5
    <3> QED BY <1>9, <3>1, <3>2
  <2>5. \A j \in 1 .. at' - 1, e \in Domains : selected'[j] = e => (diverged'[e] = None <=> Same(e)')
    BY <1>1, <1>6, <1>7, <2>3, <2>4
  <2>6. first' = None => \A j \in 1 .. at' - 1, e \in Domains : selected'[j] = e => Same(e)'
    BY <1>1, <1>6, <1>7, <2>3, <2>4
  <2>7. \A j \in at' .. Len(selected') : diverged'[selected'[j]] = None
    BY <1>1, <2>4
  <2> QED BY <1>1, <2>2, <2>4, <2>5, <2>6, <2>7 DEF VerdictInv
<1> QED BY <1>8, <1>9

\* The verdict and the comparison are left alone until both files are written.
LEMMA VerdictStep ==
    ASSUME Inputs, Types, FilesInv, VerdictInv, [Next]_vars
    PROVE  VerdictInv'
<1>0. selected' = selected /\ Len(selected) \in Nat
  BY InputsKept, Selection DEF inputs
<1>1. CASE ReadLine \/ WriteFile \/ WriteSidecar \/ Cut
  BY <1>1 DEF ReadLine, WriteFile, WriteSidecar, Cut, Reject, verdict, VerdictInv
<1>2. CASE Scan
  <2>1. CASE pc' = "error"
    BY <2>1 DEF VerdictInv
  <2>2. CASE pc' = "compare"
    <3>1. /\ pc = "scan" /\ at' = 1 /\ pos' = 0 /\ first' = None /\ diverged' = diverged
          /\ \A d \in Domains : diverged[d] = None
      BY <1>2 DEF Scan, verdict, VerdictInv
    <3>2. \A s \in Sides : Whole(s)'
      BY <1>2, <2>2, FilesStep DEF Next, FilesInv
    <3>3. \A j \in 1 .. Len(selected) : selected'[j] \in Selected' /\ selected'[j] \in Domains
      BY <1>0, InputsKept, Selection
    <3>4. \A d \in Selected' : Agreed(d, 0)'
      <4> SUFFICES ASSUME NEW d \in Selected' PROVE Agreed(d, 0)'
        OBVIOUS
      <4>1. \A s \in Sides : \E q : file'[s][d] = q /\ HoldsAll(q, s, d)'
        BY <3>2 DEF Whole
      <4>2. \A s \in Sides : file'[s][d] \in Seq(Event)
        BY <4>1 DEF HoldsAll, Holds
      <4>3. \A s \in Sides : Len(file'[s][d]) \in Nat
        BY <4>2
      <4> QED BY <4>3 DEF Agreed, Sides
    <3>5. \A d \in Domains, i \in Nat :
             at' <= Len(selected') /\ selected'[at'] = d /\ pos' = i => Agreed(d, i)'
      <4> SUFFICES ASSUME NEW d \in Domains, NEW i \in Nat, at' <= Len(selected'), selected'[at'] = d, pos' = i
                   PROVE  Agreed(d, i)'
        OBVIOUS
      <4>1. d \in Selected' /\ i = 0
        BY <1>0, <3>1, <3>3
      <4> QED BY <3>4, <4>1
    <3>6. \A j \in at' .. Len(selected') : diverged'[selected'[j]] = None
      BY <1>0, <3>1, <3>3
    <3>7. 1 .. at' - 1 = {}
      BY <3>1
    <3> QED BY <2>2, <3>1, <3>5, <3>6, <3>7 DEF VerdictInv
  <2> QED BY <1>2, <2>1, <2>2 DEF Scan
<1>3. CASE Agree \/ Diverge \/ EndDomain
  BY <1>3, CompareStep
<1>4. CASE Report \/ UNCHANGED vars
  <2>1. /\ selected' = selected /\ file' = file /\ at' = at /\ pos' = pos /\ first' = first /\ diverged' = diverged
        /\ \/ pc' = pc
           \/ pc = "compare" /\ at > Len(selected) /\ pc' = IF first = None THEN "MATCH" ELSE "DIVERGED"
    BY <1>4 DEF Report, vars, verdict, inputs
  <2>2. /\ \A e, n : Agreed(e, n)' <=> Agreed(e, n)
        /\ \A e : Same(e)' <=> Same(e)
        /\ \A e, n : Part(e, n)' <=> Part(e, n)
    BY <2>1 DEF Agreed, Same, Part
  <2>3. \A k, e, n : Found(k, e, n) => Found(k, e, n)'
    BY <2>1, <2>2 DEF Found
  <2> QED BY <2>1, <2>2, <2>3 DEF VerdictInv
<1> QED BY <1>1, <1>2, <1>3, <1>4 DEF Next

\* The inductive invariant holds.
THEOREM TracesInvariant == Spec => []IInv
<1>1. Init => IInv
  BY InitIInv
<1>2. IInv /\ [Next]_vars => IInv'
  BY InputsKept, TypesStep, FilesStep, VerdictStep DEF IInv
<1> QED BY <1>1, <1>2, PTL DEF Spec
-----------------------------------------------------------------------------
(***************************************************************************)
(* What was compared and what the buses did.                               *)
(***************************************************************************)
\* An event is numbered with its place, so that the numbered events of two
\* sequences are the same only if the sequences are.
LEMMA NumberedElement ==
    ASSUME NEW S, NEW q \in Seq(S), NEW k \in Nat, NEW x
    PROVE  [seq |-> k, event |-> x] \in Numbered(q) <=> k < Len(q) /\ q[k + 1] = x
<1>1. PICK n \in Nat : n = Len(q)
  OBVIOUS
<1>2. ASSUME [seq |-> k, event |-> x] \in Numbered(q) PROVE k < n /\ q[k + 1] = x
  <2>1. PICK j \in 1 .. n : [seq |-> k, event |-> x] = [seq |-> j - 1, event |-> q[j]]
    BY <1>1, <1>2 DEF Numbered
  <2>2. k = j - 1 /\ x = q[j]
    BY <2>1
  <2>3. j = k + 1
    BY <2>2
  <2> QED BY <2>2, <2>3
<1>3. ASSUME k < n, q[k + 1] = x PROVE [seq |-> k, event |-> x] \in Numbered(q)
  <2>1. k + 1 \in 1 .. n /\ (k + 1) - 1 = k
    BY <1>3
  <2>2. [seq |-> (k + 1) - 1, event |-> q[k + 1]] \in Numbered(q)
    BY <1>1, <2>1 DEF Numbered
  <2> QED BY <1>3, <2>1, <2>2
<1> QED BY <1>1, <1>2, <1>3

LEMMA NumberedEqual ==
    ASSUME NEW S, NEW p \in Seq(S), NEW q \in Seq(S), Numbered(p) = Numbered(q)
    PROVE  p = q
<1>1. PICK m \in Nat : m = Len(p)
  OBVIOUS
<1>2. PICK n \in Nat : n = Len(q)
  OBVIOUS
<1>3. ASSUME NEW u \in Seq(S), NEW v \in Seq(S), Numbered(u) = Numbered(v), NEW k \in Nat, k < Len(u)
      PROVE  k < Len(v) /\ v[k + 1] = u[k + 1]
  <2>1. [seq |-> k, event |-> u[k + 1]] \in Numbered(u)
    BY <1>3, NumberedElement
  <2>2. [seq |-> k, event |-> u[k + 1]] \in Numbered(v)
    BY <1>3, <2>1
  <2> HIDE <1>3
  <2> QED BY <2>2, NumberedElement
<1>4. \A k \in Nat : k < m => k < n /\ q[k + 1] = p[k + 1]
  BY <1>1, <1>2, <1>3
<1>5. \A k \in Nat : k < n => k < m
  BY <1>1, <1>2, <1>3
<1>6. m = n
  <2>1. ~(m < n) /\ ~(n < m)
    BY <1>4, <1>5
  <2> QED BY <2>1
<1>7. \A k \in 1 .. m : p[k] = q[k]
  <2> SUFFICES ASSUME NEW k \in 1 .. m PROVE p[k] = q[k]
    OBVIOUS
  <2>1. \E j \in Nat : j = k - 1
    OBVIOUS
  <2>2. PICK j \in Nat : j = k - 1
    BY <2>1
  <2>3. j < m /\ k = j + 1
    BY <2>2
  <2>4. q[j + 1] = p[j + 1]
    BY <1>4, <2>3
  <2> QED BY <2>3, <2>4
<1>8. Len(p) = m /\ Len(q) = m /\ p \in Seq(S) /\ q \in Seq(S)
  BY <1>1, <1>2, <1>6
<1> QED BY <1>7, <1>8

\* The numbered events of a sequence that come before the nth.
Opening(q, n) == {e \in Numbered(q) : e.seq < n}

LEMMA OpeningElement ==
    ASSUME NEW S, NEW q \in Seq(S), NEW n \in Nat
    PROVE  /\ \A e \in Opening(q, n) : \E k \in Nat : e = [seq |-> k, event |-> q[k + 1]] /\ k < n
           /\ \A x : \A k \in Nat :
                 [seq |-> k, event |-> x] \in Opening(q, n) <=> k < Len(q) /\ k < n /\ q[k + 1] = x
<1>1. ASSUME NEW e \in Opening(q, n)
      PROVE  \E k \in Nat : e = [seq |-> k, event |-> q[k + 1]] /\ k < n
  <2>1. PICK j \in 1 .. Len(q) : e = [seq |-> j - 1, event |-> q[j]]
    BY DEF Opening, Numbered
  <2>2. j \in Nat /\ j - 1 \in Nat /\ (j - 1) + 1 = j
    OBVIOUS
  <2>3. e.seq = j - 1 /\ e.seq < n
    BY <2>1 DEF Opening
  <2>4. e = [seq |-> j - 1, event |-> q[(j - 1) + 1]]
    BY <2>1, <2>2
  <2> QED BY <2>2, <2>3, <2>4
<1>2. ASSUME NEW k \in Nat, NEW x
      PROVE  [seq |-> k, event |-> x] \in Opening(q, n) <=> k < Len(q) /\ k < n /\ q[k + 1] = x
  <2>1. [seq |-> k, event |-> x].seq = k
    OBVIOUS
  <2> QED BY <2>1, NumberedElement DEF Opening
<1> QED BY <1>1, <1>2

\* Two sequences that agree on their first n events open alike.
LEMMA OpeningsAlike ==
    ASSUME NEW S, NEW p \in Seq(S), NEW q \in Seq(S), NEW n \in Nat,
           n <= Len(p), n <= Len(q), \A k \in 1 .. n : p[k] = q[k]
    PROVE  Opening(p, n) = Opening(q, n)
<1>1. ASSUME NEW u \in Seq(S), NEW v \in Seq(S), n <= Len(v), \A k \in 1 .. n : u[k] = v[k],
             NEW e \in Opening(u, n)
      PROVE  e \in Opening(v, n)
  <2>1. PICK k \in Nat : e = [seq |-> k, event |-> u[k + 1]] /\ k < n
    BY <1>1, OpeningElement
  <2>2. PICK m \in Nat : m = Len(v)
    OBVIOUS
  <2>3. k < Len(v) /\ v[k + 1] = u[k + 1]
    BY <1>1, <2>1, <2>2
  <2> QED BY <2>1, <2>3, OpeningElement
<1>2. \A k \in 1 .. n : q[k] = p[k]
  OBVIOUS
<1>3. Opening(p, n) \subseteq Opening(q, n)
  BY <1>1
<1>4. Opening(q, n) \subseteq Opening(p, n)
  BY <1>1, <1>2
<1> QED BY <1>3, <1>4

\* Two sequences that differ at an event, or of which one ends there, do not.
LEMMA OpeningsPart ==
    ASSUME NEW S, NEW p \in Seq(S), NEW q \in Seq(S), NEW n \in Nat, n < Len(p),
           n < Len(q) => q[n + 1] # p[n + 1]
    PROVE  Opening(p, n + 1) # Opening(q, n + 1)
<1> DEFINE x == [seq |-> n, event |-> p[n + 1]]
<1>1. n + 1 \in Nat /\ n < n + 1
  OBVIOUS
<1>2. x \in Opening(p, n + 1)
  BY <1>1, OpeningElement
<1>3. x \notin Opening(q, n + 1)
  BY <1>1, OpeningElement
<1> QED BY <1>2, <1>3

\* A file that is compared holds what the bus did, each event recorded in its place.
LEMMA FileSeen ==
    ASSUME IInv, pc \in {"compare", "MATCH", "DIVERGED"}, NEW s \in Sides, NEW d \in Selected
    PROVE  /\ file[s][d] \in Seq(Event) /\ Numbered(file[s][d]) = Seen(s, d)
           /\ \A i \in Of(s, d, Len(raw[s])) : raw[s][i].seq = SeqOf(raw[s], i)
<1>1. PICK q : file[s][d] = q /\ q # <<>> /\ HoldsAll(q, s, d)
  BY DEF IInv, FilesInv, Whole
<1>2. Holds(q, s, d, Len(raw[s]))
  BY <1>1 DEF HoldsAll
<1>3. validate_contract
  BY <1>1, <1>2 DEF Holds
<1>4. \A i \in Of(s, d, Len(raw[s])) :
         raw[s][i].seq = SeqOf(raw[s], i) /\ map_byte_enable(s, raw[s][i].native.enable) # {}
  BY <1>2 DEF Holds
<1>5. Canonical(s, d, Len(raw[s])) = Seen(s, d)
  BY <1>3, <1>4, SeenWhole DEF IInv
<1> QED BY <1>1, <1>2, <1>4, <1>5 DEF Holds

LEMMA SameSeen ==
    ASSUME IInv, pc \in {"compare", "MATCH", "DIVERGED"}, NEW d \in Selected
    PROVE  Same(d) <=> Seen("mame", d) = Seen("rtl", d)
<1>1. \A s \in Sides : file[s][d] \in Seq(Event) /\ Numbered(file[s][d]) = Seen(s, d)
  BY FileSeen
<1> DEFINE l == file["mame"][d]
           r == file["rtl"][d]
<1>2. l \in Seq(Event) /\ r \in Seq(Event) /\ Numbered(l) = Seen("mame", d) /\ Numbered(r) = Seen("rtl", d)
  BY <1>1 DEF Sides
<1> HIDE DEF l, r
<1>3. Numbered(l) = Numbered(r) <=> l = r
  BY <1>2, NumberedEqual
<1> QED BY <1>2, <1>3 DEF Same, l, r
-----------------------------------------------------------------------------
(***************************************************************************)
(* The theorems.                                                           *)
(***************************************************************************)
\* Where the comparison ended, every selected domain is judged.
LEMMA Judged ==
    ASSUME IInv, pc \in {"MATCH", "DIVERGED"}, NEW d \in Selected
    PROVE  /\ diverged[d] = None <=> Same(d)
           /\ first = None => Same(d)
<1>1. PICK j \in 1 .. Len(selected) : selected[j] = d
  BY DEF Selected
<1>2. j \in 1 .. at - 1 /\ d \in Domains
  <2>1. at > Len(selected) /\ at \in Nat /\ Len(selected) \in Nat /\ d \in Domains
    BY Selection DEF IInv, VerdictInv, Types
  <2> QED BY <2>1
<1> QED BY <1>1, <1>2 DEF IInv, VerdictInv

\* The first divergence is that of a selected domain.
LEMMA FoundOne ==
    ASSUME IInv, pc = "DIVERGED"
    PROVE  \E k \in 1 .. Len(selected), d \in Selected, i \in Nat : Found(k, d, i)
<1>1. Len(selected) \in Nat /\ at \in 1 .. Len(selected) + 1
      /\ \A j \in 1 .. Len(selected) : selected[j] \in Selected
  BY Selection DEF IInv, Types
<1>2. PICK k \in 1 .. at - 1, d \in Domains, i \in Nat : Found(k, d, i)
  BY DEF IInv, VerdictInv
<1>3. k \in 1 .. Len(selected) /\ selected[k] = d
  BY <1>1, <1>2 DEF Found
<1> QED BY <1>1, <1>2, <1>3

\* A verdict is about the two buses: MATCH when they did the same in every
\* selected domain, and a domain is marked when they did not.
THEOREM VerdictIsExact == Spec => []VerdictExact
<1>1. IInv => VerdictExact
  <2> SUFFICES ASSUME IInv, pc \in {"MATCH", "DIVERGED"} PROVE VerdictExact
    BY DEF VerdictExact
  <2>1. \A d \in Selected : diverged[d] = None <=> Seen("mame", d) = Seen("rtl", d)
    BY Judged, SameSeen
  <2>2. CASE pc = "MATCH"
    <3>1. first = None
      BY <2>2 DEF IInv, VerdictInv
    <3>2. \A d \in Selected : Seen("mame", d) = Seen("rtl", d)
      BY <3>1, Judged, SameSeen
    <3> QED BY <2>1, <2>2, <3>2 DEF VerdictExact
  <2>3. CASE pc = "DIVERGED"
    <3>1. PICK k \in 1 .. Len(selected), d \in Selected, i \in Nat : Found(k, d, i)
      BY <2>3, FoundOne
    <3>2. file["mame"][d] \in Seq(Event) /\ file["rtl"][d] \in Seq(Event)
      BY <2>3, FileSeen DEF Sides
    <3>3. ~Same(d)
      BY <3>1, <3>2 DEF Found, Part, Same
    <3>4. Seen("mame", d) # Seen("rtl", d)
      BY <2>3, <3>3, SameSeen
    <3> QED BY <2>1, <2>3, <3>4 DEF VerdictExact
  <2> QED BY <2>2, <2>3
<1> QED BY <1>1, TracesInvariant, PTL

\* The divergence reported is the earliest event of the first selected domain
\* whose streams part.
THEOREM FirstDivergence == Spec => []FirstIsFirst
<1>1. IInv => FirstIsFirst
  <2> SUFFICES ASSUME IInv, pc = "DIVERGED" PROVE FirstIsFirst
    BY DEF FirstIsFirst
  <2>1. PICK k \in 1 .. Len(selected), d \in Selected, i \in Nat : Found(k, d, i)
    BY FoundOne
  <2>2. first.domain = d /\ first.index = i /\ selected[k] = d /\ Part(d, i) /\ Agreed(d, i)
    BY <2>1 DEF Found, Part
  <2>3. \A j \in 1 .. k - 1 : Seen("mame", selected[j]) = Seen("rtl", selected[j])
    <3> SUFFICES ASSUME NEW j \in 1 .. k - 1
                 PROVE  Seen("mame", selected[j]) = Seen("rtl", selected[j])
      OBVIOUS
    <3>1. Len(selected) \in Nat /\ Selected \subseteq Domains
          /\ \A m \in 1 .. Len(selected) : selected[m] \in Selected
      BY Selection DEF IInv
    <3>2. j \in 1 .. Len(selected)
      BY <3>1
    <3>3. PICK e \in Selected : e = selected[j]
      BY <3>1, <3>2
    <3>4. Same(e)
      BY <2>1, <3>1, <3>3 DEF Found
    <3> QED BY <3>3, <3>4, SameSeen
  <2> DEFINE l == file["mame"][d]
             r == file["rtl"][d]
  <2>4. l \in Seq(Event) /\ r \in Seq(Event) /\ Numbered(l) = Seen("mame", d) /\ Numbered(r) = Seen("rtl", d)
    BY FileSeen DEF Sides
  <2>5. /\ i <= Len(l) /\ i <= Len(r) /\ \A n \in 1 .. i : l[n] = r[n]
        /\ i < Len(l) \/ i < Len(r)
        /\ i < Len(l) /\ i < Len(r) => l[i + 1] # r[i + 1]
    BY <2>2 DEF Part, Agreed
  <2> HIDE DEF l, r
  <2>6. Opening(l, i) = Opening(r, i)
    BY <2>4, <2>5, OpeningsAlike
  <2>7. Opening(l, i + 1) # Opening(r, i + 1)
    <3>1. CASE i < Len(l)
      BY <2>4, <2>5, <3>1, OpeningsPart
    <3>2. CASE i < Len(r)
      BY <2>4, <2>5, <3>2, OpeningsPart
    <3> QED BY <2>5, <3>1, <3>2
  <2>8. \A n : Before("mame", d, n) = Opening(l, n) /\ Before("rtl", d, n) = Opening(r, n)
    BY <2>4 DEF Before, Opening
  <2> QED BY <2>1, <2>2, <2>3, <2>6, <2>7, <2>8 DEF FirstIsFirst
<1> QED BY <1>1, TracesInvariant, PTL

\* A verdict is only reached when every selected event was recorded once and in
\* its place.
THEOREM FaultsAreFatal == Spec => []FaultsFatal
<1>1. IInv => FaultsFatal
  <2> SUFFICES ASSUME IInv, pc \in {"MATCH", "DIVERGED"}, NEW s \in Sides, NEW i \in DOMAIN raw[s],
                      raw[s][i].domain \in Selected
               PROVE  raw[s][i].seq = SeqOf(raw[s], i)
    BY DEF FaultsFatal
  <2>1. raw[s] \in Seq(Line)
    BY RawType DEF IInv
  <2>2. i \in Of(s, raw[s][i].domain, Len(raw[s]))
    BY <2>1 DEF Of
  <2> QED BY <2>2, FileSeen
<1> QED BY <1>1, TracesInvariant, PTL

\* What is compared is what normalization wrote.
THEOREM WholeCompared == Spec => []ComparedWhole
<1>1. IInv => ComparedWhole
  BY DEF IInv, FilesInv, Described, ComparedWhole
<1> QED BY <1>1, TracesInvariant, PTL

\* Every variable keeps to its type.
THEOREM TracesTyped == Spec => []TypeOK
<1>1. IInv => TypeOK
  BY DEF IInv, Types, TypeOK
<1> QED BY <1>1, TracesInvariant, PTL
=============================================================================
