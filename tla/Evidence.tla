------------------------------ MODULE Evidence ------------------------------
(***************************************************************************)
(* The evidence workflow, tools/misterlib/workflow.py with state.py and    *)
(* cache.py: processes that build the RTL, capture a reference from MAME   *)
(* and a trace from the simulator, compare them and keep the verdict in    *)
(* one state file.  References are shared through a cache of files that    *)
(* several processes write with no lock.  A process may die at any step.   *)
(*                                                                         *)
(* The inputs are two versions: rtl, what source_globs select, and ref,    *)
(* everything the reference identity covers (MAME, ROMs, adapter,          *)
(* scenario, contract, configuration).  A trace is the version it was      *)
(* captured from, Noise when the capture was disturbed, or Torn when the   *)
(* file is half copied.  A sidecar is the trace its hash describes.        *)
(***************************************************************************)
EXTENDS Naturals

CONSTANTS
    Procs, Versions,
    Agrees,         \* the pairs <<rtl, ref>> whose event streams are equal
    None, Noise, Torn,
    Flaky,          \* TRUE when a capture may be disturbed
    EditsDuring,    \* TRUE when inputs may change while a process runs
    MaxEdits, MaxCrashes

ASSUME EvidenceAssumption ==
    /\ Agrees \subseteq Versions \X Versions
    /\ {None, Noise, Torn} \cap Versions = {}
    /\ None # Noise /\ None # Torn /\ Noise # Torn
    /\ Flaky \in BOOLEAN /\ EditsDuring \in BOOLEAN
    /\ MaxEdits \in Nat /\ MaxCrashes \in Nat

VARIABLES
    rtl, ref,       \* the inputs on disk
    file,           \* .mister/state.json
    trace, meta,    \* of each identity, the files of its cache entry
    manifest,       \* of each identity, the hashes of both, or None
    pc, mem,        \* where each process is, and its StateStore.data
    built,          \* the version its simulator was built from
    key,            \* its reference identity
    mame, sidecar,  \* its reference trace and metadata
    hashes,         \* what it found in the entry it is about to publish
    edits, crashes

disk == <<trace, meta, manifest>>
local == <<built, key, mame, sidecar, hashes>>
vars == <<rtl, ref, file, disk, pc, mem, local, edits, crashes>>

Traces  == Versions \cup {Noise}
Files   == Traces \cup {None, Torn}
Pairs   == Versions \X Versions
Hashes  == [trace : Files, meta : Files]
Verdict == {"MATCH", "DIVERGED"}
State   == [status : {"NEW", "RUNNING", "BLOCKED", "FAILED"} \cup Verdict,
            fingerprints : Pairs \cup {None}]
Stages  == {"idle", "converge", "force", "resume", "build", "build_forced", "lookup", "lookup_forced",
            "copy_trace", "copy_meta", "capture", "recapture", "store_trace", "fill_trace",
            "store_meta", "fill_meta", "hash", "publish", "rtl", "compare", "match",
            "diverge", "block", "fail"}

\* DEFAULT_STATE
New == [status |-> "NEW", fingerprints |-> None]

Start ==
    /\ file = New
    /\ trace = [i \in Versions |-> None] /\ meta = [i \in Versions |-> None]
    /\ manifest = [i \in Versions |-> None]
    /\ pc = [p \in Procs |-> "idle"] /\ mem = [p \in Procs |-> New]
    /\ built = [p \in Procs |-> None] /\ key = [p \in Procs |-> None]
    /\ mame = [p \in Procs |-> None] /\ sidecar = [p \in Procs |-> None]
    /\ hashes = [p \in Procs |-> None]
    /\ edits = 0 /\ crashes = 0

Init == rtl \in Versions /\ ref \in Versions /\ Start

Goto(p, s) == pc' = [pc EXCEPT ![p] = s]

\* A process that ends takes its memory with it.
Exit(p) ==
    /\ Goto(p, "idle")
    /\ mem' = [mem EXCEPT ![p] = New]
    /\ built' = [built EXCEPT ![p] = None] /\ key' = [key EXCEPT ![p] = None]
    /\ mame' = [mame EXCEPT ![p] = None] /\ sidecar' = [sidecar EXCEPT ![p] = None]
    /\ hashes' = [hashes EXCEPT ![p] = None]

\* transition and save: the whole of p's data replaces the state file.
Save(p, data) == mem' = [mem EXCEPT ![p] = data] /\ file' = data

\* What a verdict is about: the hashes of the inputs of both sides.
fingerprints == <<rtl, ref>>

begin_run(p) == Save(p, [status |-> "RUNNING", fingerprints |-> fingerprints])

transition(p, status) == Save(p, [mem[p] EXCEPT !.status = status])

inputs == <<rtl, ref, edits, crashes>>
-----------------------------------------------------------------------------
\* A process starts, loads the state file and enters the command it was given.
Open(p) ==
    /\ pc[p] = "idle"
    /\ mem' = [mem EXCEPT ![p] = file]
    /\ \E command \in {"converge", "force", "resume"} : Goto(p, command)
    /\ UNCHANGED <<inputs, file, disk, local>>

\* Mutant: a finished run is trusted whatever the inputs are now.
UnchangedAssumed(p) == mem[p].fingerprints # None

unchanged(p) == mem[p].fingerprints = fingerprints

\* A finished run of the same inputs answers; else resume is converge.
Resume(p) ==
    /\ pc[p] = "resume"
    /\ IF mem[p].status \in Verdict /\ unchanged(p)
       THEN Exit(p)
       ELSE Goto(p, "converge") /\ UNCHANGED <<mem, local>>
    /\ UNCHANGED <<inputs, file, disk>>

\* doctor lets the command through, or raises before anything is saved.
Begin(p) ==
    /\ pc[p] \in {"converge", "force"}
    /\ \/ begin_run(p) /\ Goto(p, IF pc[p] = "force" THEN "build_forced" ELSE "build")
          /\ UNCHANGED local
       \/ Exit(p) /\ UNCHANGED file
    /\ UNCHANGED <<inputs, disk>>

\* The lint and build tasks; either may fail.
Build(p) ==
    /\ pc[p] \in {"build", "build_forced"}
    /\ transition(p, "RUNNING")
    /\ built' = [built EXCEPT ![p] = rtl]
    /\ \/ Goto(p, IF pc[p] = "build" THEN "lookup" ELSE "lookup_forced")
       \/ Goto(p, "fail")
    /\ UNCHANGED <<inputs, disk, key, mame, sidecar, hashes>>

\* restore accepts an entry whose files have the hashes of its manifest.
accepts(i) ==
    /\ manifest[i] # None
    /\ trace[i] # None /\ meta[i] # None
    /\ manifest[i] = [trace |-> trace[i], meta |-> meta[i]]

Lookup(p) ==
    /\ pc[p] \in {"lookup", "lookup_forced"}
    /\ key' = [key EXCEPT ![p] = ref]
    /\ IF pc[p] = "lookup" /\ accepts(ref)
       THEN Goto(p, "copy_trace") /\ UNCHANGED <<mem, file>>
       ELSE Goto(p, "capture") /\ transition(p, "RUNNING")
    /\ UNCHANGED <<inputs, disk, built, mame, sidecar, hashes>>

\* restore copies the two files after it has hashed them.
CopyTrace(p) ==
    /\ pc[p] = "copy_trace"
    /\ mame' = [mame EXCEPT ![p] = trace[key[p]]]
    /\ Goto(p, "copy_meta")
    /\ UNCHANGED <<inputs, file, disk, mem, built, key, sidecar, hashes>>

CopyMeta(p) ==
    /\ pc[p] = "copy_meta"
    /\ sidecar' = [sidecar EXCEPT ![p] = meta[key[p]]]
    /\ Goto(p, "rtl")
    /\ UNCHANGED <<inputs, file, disk, mem, built, key, mame, hashes>>

\* What one run of a simulator on version v may write.
captures(v) == IF Flaky THEN {v, Noise} ELSE {v}

\* Two captures with the same events.  A disturbance does not come twice alike.
same(a, b) == a = b /\ a # Noise

Capture(p) ==
    /\ pc[p] = "capture"
    /\ \E t \in captures(ref) : mame' = [mame EXCEPT ![p] = t]
    /\ \E s \in {"recapture", "fail"} : Goto(p, s)
    /\ UNCHANGED <<inputs, file, disk, mem, built, key, sidecar, hashes>>

Recapture(p) ==
    /\ pc[p] = "recapture"
    /\ sidecar' = [sidecar EXCEPT ![p] = mame[p]]
    /\ \/ \E t \in captures(ref) : Goto(p, IF same(mame[p], t) THEN "store_trace" ELSE "block")
       \/ Goto(p, "fail")
    /\ UNCHANGED <<inputs, file, disk, mem, built, key, mame, hashes>>

\* store: each copy truncates the file and then fills it.
StoreTrace(p) ==
    /\ \/ /\ pc[p] = "store_trace"
          /\ trace' = [trace EXCEPT ![key[p]] = Torn] /\ Goto(p, "fill_trace")
       \/ /\ pc[p] = "fill_trace"
          /\ trace' = [trace EXCEPT ![key[p]] = mame[p]] /\ Goto(p, "store_meta")
    /\ UNCHANGED <<inputs, file, meta, manifest, mem, local>>

StoreMeta(p) ==
    /\ \/ /\ pc[p] = "store_meta"
          /\ meta' = [meta EXCEPT ![key[p]] = Torn] /\ Goto(p, "fill_meta")
       \/ /\ pc[p] = "fill_meta"
          /\ meta' = [meta EXCEPT ![key[p]] = sidecar[p]] /\ Goto(p, "hash")
    /\ UNCHANGED <<inputs, file, trace, manifest, mem, local>>

\* The manifest holds the hashes of the files as they stand in the entry.
HashEntry(p) ==
    /\ pc[p] = "hash"
    /\ hashes' = [hashes EXCEPT ![p] = [trace |-> trace[key[p]], meta |-> meta[key[p]]]]
    /\ Goto(p, "publish")
    /\ UNCHANGED <<inputs, file, disk, mem, built, key, mame, sidecar>>

Publish(p) ==
    /\ pc[p] = "publish"
    /\ manifest' = [manifest EXCEPT ![key[p]] = hashes[p]]
    /\ hashes' = [hashes EXCEPT ![p] = None]
    /\ Goto(p, "rtl")
    /\ UNCHANGED <<inputs, file, trace, meta, mem, built, key, mame, sidecar>>

\* Two captures of the simulator that was built.
CaptureRtl(p) ==
    /\ pc[p] = "rtl"
    /\ transition(p, "RUNNING")
    /\ \/ \E a, b \in captures(built[p]) : Goto(p, IF same(a, b) THEN "compare" ELSE "block")
       \/ Goto(p, "fail")
    /\ UNCHANGED <<inputs, disk, local>>

\* Mutant: a trace is not held against its sidecar.
SidecarIgnored(p) == TRUE

\* _validate_sidecar: the trace is the one its metadata was written for.
whole(p) == mame[p] \in Versions /\ sidecar[p] = mame[p]

agree(p) == <<built[p], mame[p]>> \in Agrees

Compare(p) ==
    /\ pc[p] = "compare"
    /\ transition(p, "RUNNING")
    /\ Goto(p, CASE ~whole(p) -> "fail"
                 [] whole(p) /\ agree(p) -> "match"
                 [] whole(p) /\ ~agree(p) -> "diverge")
    /\ UNCHANGED <<inputs, disk, local>>

Outcome == [match |-> "MATCH", diverge |-> "DIVERGED", block |-> "BLOCKED", fail |-> "FAILED"]

\* The last save of a run: its verdict, a blocked side, or a failed stage.
Finish(p) ==
    /\ pc[p] \in DOMAIN Outcome
    /\ file' = [mem[p] EXCEPT !.status = Outcome[pc[p]]]
    /\ Exit(p)
    /\ UNCHANGED <<inputs, disk>>

\* The process is killed, or leaves by Ctrl-C, which converge does not catch.
Crash(p) ==
    /\ pc[p] # "idle" /\ crashes < MaxCrashes
    /\ crashes' = crashes + 1
    /\ Exit(p)
    /\ UNCHANGED <<rtl, ref, file, disk, edits>>

Edit ==
    /\ edits < MaxEdits /\ edits' = edits + 1
    /\ EditsDuring \/ \A p \in Procs : pc[p] = "idle"
    /\ \/ rtl' \in Versions \ {rtl} /\ UNCHANGED ref
       \/ ref' \in Versions \ {ref} /\ UNCHANGED rtl
    /\ UNCHANGED <<file, disk, pc, mem, local, crashes>>

Step(p) ==
    \/ Open(p) \/ Resume(p) \/ Begin(p) \/ Build(p)
    \/ Lookup(p) \/ CopyTrace(p) \/ CopyMeta(p) \/ Capture(p) \/ Recapture(p)
    \/ StoreTrace(p) \/ StoreMeta(p) \/ HashEntry(p) \/ Publish(p)
    \/ CaptureRtl(p) \/ Compare(p) \/ Finish(p) \/ Crash(p)

Next == Edit \/ \E p \in Procs : Step(p)

Spec == Init /\ [][Next]_vars
-----------------------------------------------------------------------------
\* Every variable keeps to its type.
TypeOK ==
    /\ rtl \in Versions /\ ref \in Versions /\ file \in State
    /\ trace \in [Versions -> Files] /\ meta \in [Versions -> Files]
    /\ manifest \in [Versions -> Hashes \cup {None}]
    /\ pc \in [Procs -> Stages] /\ mem \in [Procs -> State]
    /\ built \in [Procs -> Versions \cup {None}]
    /\ key \in [Procs -> Versions \cup {None}]
    /\ mame \in [Procs -> Files] /\ sidecar \in [Procs -> Files]
    /\ hashes \in [Procs -> Hashes \cup {None}]
    /\ edits \in 0 .. MaxEdits /\ crashes \in 0 .. MaxCrashes

\* A verdict is the truth about the inputs it is filed under, however many
\* processes share the reference cache and wherever they die.
VerdictTrue ==
    /\ file.status = "MATCH" => file.fingerprints \in Agrees
    /\ file.status = "DIVERGED" => file.fingerprints \notin Agrees

\* resume answers without a run only for inputs that were compared: the text
\* of its answer, "still matches the current source".
ResumeTrue ==
    [][\A p \in Procs : pc[p] = "resume" /\ pc'[p] = "idle" /\ crashes' = crashes =>
         (mem[p].status = "MATCH" <=> <<rtl, ref>> \in Agrees)]_vars

=============================================================================
