------------------------------- MODULE Traces -------------------------------
(***************************************************************************)
(* The comparison of a MAME trace with an RTL trace: tools/misterlib's     *)
(* traces.py and observability.py.  Two recorders write raw traces whose   *)
(* domains interleave, each with its own order of byte lanes and its own   *)
(* byte-enable polarity.  normalize_trace turns each into a file grouped   *)
(* by domain with a sidecar that holds its hash; compare_normalized reads  *)
(* the two files side by side.                                             *)
(*                                                                         *)
(* The recorders are not in the repository.  They may drop, repeat or swap *)
(* events and record one with no byte enabled; what they saw on the bus is *)
(* kept in emitted.                                                        *)
(***************************************************************************)
EXTENDS Integers, Sequences, FiniteSets

CONSTANTS
    Domains,
    Selections,     \* the lists of domains a scenario may select
    TimeDomains,    \* the domains ordered by canonical_time
    Lanes,          \* the byte lanes of the bus
    LaneMaps,       \* the lane_to_canonical pairs a contract may state
    ActiveLow,      \* the sides whose byte enables are active low
    Bus,            \* bus events: [data, enabled, time]
    MaxEvents, None

Sides == {"mame", "rtl"}

ASSUME TracesAssumption ==
    /\ \A s \in Selections :
          s \in Seq(Domains) /\ \A i, j \in 1 .. Len(s) : i < j => s[i] # s[j]
    /\ IsFiniteSet(Lanes)
    /\ LaneMaps \subseteq [Sides -> [Lanes -> Lanes]]
    /\ ActiveLow \subseteq Sides
    /\ \A b \in Bus :
          /\ DOMAIN b = {"data", "enabled", "time"} /\ b.time \in Nat
          /\ b.data = [l \in Lanes |-> b.data[l]]
          /\ b.enabled \subseteq Lanes /\ b.enabled # {}
    /\ MaxEvents \in Nat
    /\ None \notin Nat /\ None \notin [domain : Domains, index : Nat]

VARIABLES
    emitted,        \* of each side, the events of its bus
    raw,            \* of each side, the trace its recorder wrote
    selected, lane_to_canonical,
    pc, side, line, \* the stage, the side it works on and the line it reads
    spool,          \* of each domain, the canonical events so far
    file,           \* of each side, its normalized trace, by domain
    meta,           \* of each side, the file its sidecar describes, or None
    at, pos,        \* the domain and the event under comparison
    first,          \* the first divergence: [domain, index], or None
    diverged,       \* of each domain, its first mismatch, or None
    resync,         \* the diagnostic re-synchronization candidates
    damage          \* files cut short so far

inputs == <<emitted, raw, selected, lane_to_canonical>>
verdict == <<at, pos, first, diverged, resync>>
vars == <<inputs, pc, side, line, spool, file, meta, verdict, damage>>

Selected == {selected[i] : i \in 1 .. Len(selected)}
Empty == [d \in Domains |-> <<>>]
-----------------------------------------------------------------------------
\* A recorder writes native lanes, and byte enables in its own polarity.
Native(map, s, b) ==
    LET on == {l \in Lanes : map[s][l] \in b.enabled}
    IN  [data   |-> [l \in Lanes |-> b.data[map[s][l]]],
         enable |-> IF s \in ActiveLow THEN Lanes \ on ELSE on,
         time   |-> b.time]

\* The position of event i among those of its domain.
SeqOf(trace, i) == Cardinality({k \in 1 .. i - 1 : trace[k].domain = trace[i].domain})

Faithful(map, s, trace) ==
    [i \in 1 .. Len(trace) |->
        [domain |-> trace[i].domain, seq |-> SeqOf(trace, i),
         native |-> Native(map, s, trace[i].bus)]]

Without(q, i) == SubSeq(q, 1, i - 1) \o SubSeq(q, i + 1, Len(q))

\* The recordings of a trace: faithful, or with one fault a gap can show.
Recordings(map, s, trace) ==
    LET f == Faithful(map, s, trace)
        n == Len(f)
    IN  {f}
        \cup {Without(f, i) : i \in {k \in 1 .. n : \E j \in k + 1 .. n : f[j].domain = f[k].domain}}
        \cup {SubSeq(f, 1, i) \o SubSeq(f, i, n) : i \in 1 .. n}
        \cup {[f EXCEPT ![i] = f[i + 1], ![i + 1] = f[i]] :
                 i \in {k \in 1 .. n - 1 : f[k].domain = f[k + 1].domain}}
        \cup {[f EXCEPT ![i].native.enable = IF s \in ActiveLow THEN Lanes ELSE {}] : i \in 1 .. n}

BusTraces == UNION {[1 .. n -> [domain : Domains, bus : Bus]] : n \in 0 .. MaxEvents}

Init ==
    /\ selected \in Selections /\ lane_to_canonical \in LaneMaps
    /\ emitted \in [Sides -> BusTraces]
    /\ \E s \in Sides :
          \E r \in Recordings(lane_to_canonical, s, emitted[s]) :
             raw = [q \in Sides |-> IF q = s THEN r ELSE Faithful(lane_to_canonical, q, emitted[q])]
    /\ pc = "normalize" /\ side = "mame" /\ line = 1
    /\ spool = Empty
    /\ file = [s \in Sides |-> Empty] /\ meta = [s \in Sides |-> None]
    /\ at = 1 /\ pos = 0 /\ first = None
    /\ diverged = [d \in Domains |-> None] /\ resync = {}
    /\ damage = 0
-----------------------------------------------------------------------------
\* validate_contract: each lane map is a permutation.
validate_contract ==
    \A s \in Sides : \A l, k \in Lanes :
       lane_to_canonical[s][l] = lane_to_canonical[s][k] => l = k

\* Mutant: the map is applied the wrong way round.
map_lanes_inverse(s, data) == [c \in Lanes |-> data[lane_to_canonical[s][c]]]

map_lanes(s, data) ==
    [c \in Lanes |-> data[CHOOSE l \in Lanes : lane_to_canonical[s][l] = c]]

map_byte_enable(s, enable) ==
    {lane_to_canonical[s][l] : l \in IF s \in ActiveLow THEN Lanes \ enable ELSE enable}

canonicalize_event(s, e) ==
    [data    |-> map_lanes(s, e.native.data),
     enabled |-> map_byte_enable(s, e.native.enable),
     time    |-> IF e.domain \in TimeDomains THEN e.native.time ELSE None]

\* Mutant: the number of an event is not held against its place.
acceptable_unnumbered(s, e) == validate_contract /\ map_byte_enable(s, e.native.enable) # {}

\* An event whose domain has a valid contract, with a byte enabled, in its place.
acceptable(s, e) ==
    /\ validate_contract
    /\ map_byte_enable(s, e.native.enable) # {}
    /\ e.seq = Len(spool[e.domain])

Reject == pc' = "error" /\ UNCHANGED <<side, line, spool, file, meta>>

\* One line of the raw trace: passed over, spooled, or fatal.
ReadLine ==
    /\ pc = "normalize" /\ line <= Len(raw[side])
    /\ LET e == raw[side][line]
       IN  \/ /\ e.domain \notin Selected
              /\ line' = line + 1 /\ UNCHANGED <<pc, side, spool, file, meta>>
           \/ /\ e.domain \in Selected /\ acceptable(side, e)
              /\ spool' = [spool EXCEPT ![e.domain] = Append(@, canonicalize_event(side, e))]
              /\ line' = line + 1 /\ UNCHANGED <<pc, side, file, meta>>
           \/ e.domain \in Selected /\ ~acceptable(side, e) /\ Reject
    /\ UNCHANGED <<inputs, verdict, damage>>

\* The spools are joined in the order of the selection and the file replaced.
WriteFile ==
    /\ pc = "normalize" /\ line > Len(raw[side])
    /\ \/ (\E d \in Selected : spool[d] = <<>>) /\ Reject
       \/ /\ \A d \in Selected : spool[d] # <<>>
          /\ file' = [file EXCEPT ![side] = spool]
          /\ pc' = "sidecar" /\ UNCHANGED <<side, line, spool, meta>>
    /\ UNCHANGED <<inputs, verdict, damage>>

\* The sidecar comes after the file; a tool killed between leaves none.
WriteSidecar ==
    /\ pc = "sidecar"
    /\ meta' \in {meta, [meta EXCEPT ![side] = file[side]]}
    /\ spool' = Empty /\ line' = 1 /\ side' = "rtl"
    /\ pc' = IF side = "mame" THEN "normalize" ELSE "scan"
    /\ UNCHANGED <<inputs, file, verdict, damage>>

\* A file that has its sidecar loses its last event, as a cut copy would.
Cut ==
    /\ pc = "scan" /\ damage = 0 /\ damage' = 1
    /\ \E s \in Sides, d \in Selected :
          /\ meta[s] # None
          /\ file' = [file EXCEPT ![s][d] = SubSeq(@, 1, Len(@) - 1)]
    /\ UNCHANGED <<inputs, pc, side, line, spool, meta, verdict>>

\* Mutant: a sidecar only has to be there.
validate_sidecar_present(s) == TRUE

validate_sidecar(s) == meta[s] \in {None, file[s]}

\* canonical_time may not move backward within a domain.
in_time(events) == \A i, j \in 1 .. Len(events) : i < j => events[i].time <= events[j].time

\* _scan_normalized of both files, before anything is compared.
Scan ==
    /\ pc = "scan"
    /\ pc' = IF \A s \in Sides :
                    validate_sidecar(s) /\ \A d \in Selected \cap TimeDomains : in_time(file[s][d])
             THEN "compare" ELSE "error"
    /\ UNCHANGED <<inputs, side, line, spool, file, meta, verdict, damage>>

left == file["mame"][selected[at]]
right == file["rtl"][selected[at]]

NextDomain == at' = at + 1 /\ pos' = 0

mismatch ==
    \/ pos < Len(left) /\ pos >= Len(right)
    \/ pos >= Len(left) /\ pos < Len(right)
    \/ pos < Len(left) /\ pos < Len(right) /\ left[pos + 1] # right[pos + 1]

\* Two events that agree are passed over.
Agree ==
    /\ pc = "compare" /\ at <= Len(selected)
    /\ pos < Len(left) /\ pos < Len(right) /\ ~mismatch
    /\ pos' = pos + 1
    /\ UNCHANGED <<inputs, pc, side, line, spool, file, meta, at, first, diverged, resync, damage>>

\* Equal events further on, shown as a hint and nothing else.
diagnostic_resync ==
    {at_both \in (pos + 1 .. Len(left)) \X (pos + 1 .. Len(right)) :
        at_both # <<pos + 1, pos + 1>> /\ left[at_both[1]] = right[at_both[2]]}

\* Mutant: the report names the divergence found last.
earliest_last(d) == d

earliest(d) == IF first = None THEN d ELSE first

Diverge ==
    /\ pc = "compare" /\ at <= Len(selected) /\ mismatch
    /\ diverged' = [diverged EXCEPT ![selected[at]] = pos]
    /\ first' = earliest([domain |-> selected[at], index |-> pos])
    /\ resync' = resync \cup diagnostic_resync
    /\ NextDomain
    /\ UNCHANGED <<inputs, pc, side, line, spool, file, meta, damage>>

EndDomain ==
    /\ pc = "compare" /\ at <= Len(selected)
    /\ pos >= Len(left) \/ pos >= Len(right)
    /\ ~mismatch
    /\ NextDomain
    /\ UNCHANGED <<inputs, pc, side, line, spool, file, meta, first, diverged, resync, damage>>

Report ==
    /\ pc = "compare" /\ at > Len(selected)
    /\ pc' = IF first = None THEN "MATCH" ELSE "DIVERGED"
    /\ UNCHANGED <<inputs, side, line, spool, file, meta, verdict, damage>>

Next ==
    \/ ReadLine \/ WriteFile \/ WriteSidecar \/ Cut \/ Scan
    \/ Agree \/ Diverge \/ EndDomain \/ Report

Spec == Init /\ [][Next]_vars
-----------------------------------------------------------------------------
Stages == {"normalize", "sidecar", "scan", "compare", "error", "MATCH", "DIVERGED"}

\* Every variable that changes keeps to its type.
TypeOK ==
    /\ pc \in Stages /\ side \in Sides /\ line \in Nat
    /\ DOMAIN spool = Domains /\ DOMAIN file = Sides /\ DOMAIN meta = Sides
    /\ at \in 1 .. Len(selected) + 1 /\ pos \in Nat /\ damage \in 0 .. 1

\* What a bus did in a domain, numbered, as the contract of the domain shows it.
Seen(s, d) ==
    {[seq |-> SeqOf(emitted[s], i),
      event |-> LET w == emitted[s][i].bus
                IN  [data |-> w.data, enabled |-> w.enabled,
                     time |-> IF d \in TimeDomains THEN w.time ELSE None]] :
        i \in {k \in DOMAIN emitted[s] : emitted[s][k].domain = d}}

Before(s, d, n) == {e \in Seen(s, d) : e.seq < n}

\* A verdict is about the two buses, in all and for each selected domain: MATCH
\* when they did the same, whatever the lanes, the polarities, the interleaving,
\* the faults of a recorder and a damaged file.
VerdictExact ==
    pc \in {"MATCH", "DIVERGED"} =>
        /\ pc = "MATCH" <=> \A d \in Selected : Seen("mame", d) = Seen("rtl", d)
        /\ \A d \in Selected : diverged[d] = None <=> Seen("mame", d) = Seen("rtl", d)

\* The divergence reported is the earliest event of the first domain of the
\* selection whose streams part: everything before it is the same.
FirstIsFirst ==
    pc = "DIVERGED" =>
        \E k \in 1 .. Len(selected) :
           /\ first.domain = selected[k]
           /\ \A j \in 1 .. k - 1 : Seen("mame", selected[j]) = Seen("rtl", selected[j])
           /\ Before("mame", selected[k], first.index) = Before("rtl", selected[k], first.index)
           /\ Before("mame", selected[k], first.index + 1) # Before("rtl", selected[k], first.index + 1)

\* "Missing, duplicated, filtered or reordered events are fatal": a verdict is
\* only reached when every selected event was recorded once and in order.
FaultsFatal ==
    pc \in {"MATCH", "DIVERGED"} =>
        \A s \in Sides : \A i \in DOMAIN raw[s] :
           raw[s][i].domain \in Selected => raw[s][i].seq = SeqOf(raw[s], i)

\* What is compared is what normalization wrote: a file cut after its sidecar
\* was written reaches no verdict.
ComparedWhole ==
    pc \in {"compare", "MATCH", "DIVERGED"} =>
        \A s \in Sides : meta[s] # None => file[s] = meta[s]
=============================================================================
