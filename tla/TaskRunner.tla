----------------------------- MODULE TaskRunner -----------------------------
(***************************************************************************)
(* Heavy build tasks, tools/misterlib/process.py and locking.py: executor  *)
(* processes that run one configured task of one project, serialised by a  *)
(* lock file, with a cache of results keyed by a fingerprint of the        *)
(* sources, and with time-outs, Ctrl-C and edits of the sources under way. *)
(*                                                                         *)
(* A source tree is a value of Sources; what a build leaves on disk is the *)
(* tree it was built from, Broken when it died half way, None before the   *)
(* first build.  A fingerprint names the tree it was computed from.  The   *)
(* child reads its sources when it starts.  A Ctrl-C may come at any step  *)
(* of an executor: loose is a history variable naming the executors that   *)
(* one took out of run past their tool, that is between the fork and the   *)
(* try block that waits for the tool, or inside _terminate_tree.           *)
(***************************************************************************)
EXTENDS Naturals, FiniteSets

CONSTANTS
    Procs,          \* executor processes on the machine
    Sources, None, Broken,
    Free,           \* value of lock when nobody holds it
    TimeLimit,      \* TRUE when the child may exceed timeout_s
    Idles,          \* TRUE when a child may succeed and leave old outputs
    EditsDuring,    \* TRUE when sources may change while a task is under way
    MaxEdits, MaxInterrupts, MaxRuns

ASSUME TaskAssumption ==
    /\ Sources # {} /\ {None, Broken} \cap Sources = {} /\ None # Broken
    /\ Free \notin Procs
    /\ TimeLimit \in BOOLEAN /\ Idles \in BOOLEAN /\ EditsDuring \in BOOLEAN
    /\ MaxEdits \in Nat /\ MaxInterrupts \in Nat /\ MaxRuns \in Nat

VARIABLES
    source, outputs,  \* the files on disk
    cache,            \* fingerprint -> cache_output_manifest, or None
    lock,             \* holder of heavy.lock
    pc,               \* where each executor is in run
    fingerprint,      \* computed when run began
    before,           \* pre_output_manifest
    child,            \* "none", "alive", "done", "failed"
    building,         \* the tree the child read
    loose,            \* executors a Ctrl-C took out of run past their tool
    edits, interrupts, runs

vars == <<source, outputs, cache, lock, pc, fingerprint, before, child, building,
          loose, edits, interrupts, runs>>

Rest   == {"idle", "returned", "failed", "interrupted"}

\* Where a tool may be alive: being started, waited for, or terminated after
\* a time-out (expired, grace) or a Ctrl-C (cancelled, stopping).
Watching == {"starting", "running", "expired", "grace", "cancelled", "stopping"}

Active == {"lookup", "waiting", "locked", "report"} \cup Watching
Disk   == Sources \cup {None, Broken}

Init ==
    /\ source \in Sources /\ outputs = None
    /\ cache = [s \in Sources |-> None]
    /\ lock = Free
    /\ pc = [p \in Procs |-> "idle"]
    /\ fingerprint = [p \in Procs |-> source]
    /\ before = [p \in Procs |-> None]
    /\ child = [p \in Procs |-> "none"]
    /\ building = [p \in Procs |-> source]
    /\ loose = {} /\ edits = 0 /\ interrupts = 0 /\ runs = 0

Goto(p, l) == pc' = [pc EXCEPT ![p] = l]

\* The hash of the task, its tool and the inputs it declares.
task_fingerprint == source

\* The paths and hashes of the declared outputs, None when there are none.
output_manifest == outputs

Begin(p) ==
    /\ pc[p] \in Rest /\ runs < MaxRuns /\ child[p] # "alive"
    /\ Goto(p, "lookup")
    /\ fingerprint' = [fingerprint EXCEPT ![p] = task_fingerprint]
    /\ loose' = loose \ {p}
    /\ runs' = runs + 1
    /\ UNCHANGED <<source, outputs, cache, lock, before, child, building, edits, interrupts>>

\* The cached result of s may be reused: its outputs are still on disk.
Verified(s) == cache[s] # None /\ cache[s] = output_manifest

CacheHit(p) ==
    /\ pc[p] = "lookup" /\ Verified(fingerprint[p])
    /\ Goto(p, "returned")
    /\ UNCHANGED <<source, outputs, cache, lock, fingerprint, before, child, building,
                   loose, edits, interrupts, runs>>

\* The outputs of the past are recorded before the wait for the lock.  A run
\* with force set goes this way too.
CacheMiss(p) ==
    /\ pc[p] = "lookup"
    /\ before' = [before EXCEPT ![p] = output_manifest]
    /\ Goto(p, "waiting")
    /\ UNCHANGED <<source, outputs, cache, lock, fingerprint, child, building,
                   loose, edits, interrupts, runs>>

\* Mutant: an executor whose wait timed out goes on without the lock.
AcquireAnyway(p) == lock' = p

Acquire(p) == lock = Free /\ lock' = p

TakeLock(p) ==
    /\ pc[p] = "waiting" /\ Acquire(p)
    /\ Goto(p, "locked")
    /\ UNCHANGED <<source, outputs, cache, fingerprint, before, child, building,
                   loose, edits, interrupts, runs>>

\* Popen: the tool is alive before run enters the try block that waits for it.
Fork(p) ==
    /\ pc[p] = "locked"
    /\ child' = [child EXCEPT ![p] = "alive"]
    /\ building' = [building EXCEPT ![p] = source]
    /\ Goto(p, "starting")
    /\ UNCHANGED <<source, outputs, cache, lock, fingerprint, before,
                   loose, edits, interrupts, runs>>

EnterTry(p) ==
    /\ pc[p] = "starting"
    /\ Goto(p, "running")
    /\ UNCHANGED <<source, outputs, cache, lock, fingerprint, before, child, building,
                   loose, edits, interrupts, runs>>

\* LockTimeout is an OSError, which run reports as a failure to start.
LockTimeout(p) ==
    /\ pc[p] = "waiting" /\ lock # Free
    /\ Goto(p, "failed")
    /\ UNCHANGED <<source, outputs, cache, lock, fingerprint, before, child, building,
                   loose, edits, interrupts, runs>>

\* Mutant: the lock is not released.
ReleaseForgotten(p) == UNCHANGED lock

\* Leaving the with block, by whatever path, releases the lock.
Release(p) == lock' = IF lock = p THEN Free ELSE lock

\* The logs cannot be opened or the tool cannot be started.
StartFails(p) ==
    /\ pc[p] = "locked"
    /\ Release(p) /\ Goto(p, "failed")
    /\ UNCHANGED <<source, outputs, cache, fingerprint, before, child, building,
                   loose, edits, interrupts, runs>>

\* The child ends by itself, whoever still waits for it.
ChildExits(p) ==
    /\ child[p] = "alive"
    /\ \/ child' = [child EXCEPT ![p] = "done"] /\ outputs' = building[p]
       \/ Idles /\ child' = [child EXCEPT ![p] = "done"] /\ UNCHANGED outputs
       \/ child' = [child EXCEPT ![p] = "failed"] /\ outputs' \in {outputs, Broken}
    /\ UNCHANGED <<source, cache, lock, pc, fingerprint, before, building,
                   loose, edits, interrupts, runs>>

Reap(p) ==
    /\ pc[p] = "running" /\ child[p] \in {"done", "failed"}
    /\ Release(p)
    /\ Goto(p, IF child[p] = "done" THEN "report" ELSE "failed")
    /\ UNCHANGED <<source, outputs, cache, fingerprint, before, child, building,
                   loose, edits, interrupts, runs>>

TimesOut(p) ==
    /\ TimeLimit /\ pc[p] = "running" /\ child[p] = "alive"
    /\ Goto(p, "expired")
    /\ UNCHANGED <<source, outputs, cache, lock, fingerprint, before, child, building,
                   loose, edits, interrupts, runs>>

\* What SIGTERM does to p's tool: it dies, or goes on closing down.
Sigterm(p) ==
    \/ child[p] = "alive" /\ child' = [child EXCEPT ![p] = "failed"] /\ outputs' \in {outputs, Broken}
    \/ UNCHANGED <<child, outputs>>

Terminate(p) ==
    /\ pc[p] \in {"expired", "cancelled"}
    /\ Sigterm(p)
    /\ Goto(p, IF pc[p] = "expired" THEN "grace" ELSE "stopping")
    /\ UNCHANGED <<source, cache, lock, fingerprint, before, building,
                   loose, edits, interrupts, runs>>

\* Mutant: a tool still closing down after the grace is not killed.
SigkillSkipped(p) == UNCHANGED <<child, outputs>>

\* A second after SIGTERM the process group is killed.
Sigkill(p) ==
    IF child[p] = "alive"
    THEN child' = [child EXCEPT ![p] = "failed"] /\ outputs' \in {outputs, Broken}
    ELSE UNCHANGED <<child, outputs>>

GraceEnds(p) ==
    /\ pc[p] \in {"grace", "stopping"}
    /\ Sigkill(p) /\ Release(p)
    /\ Goto(p, IF pc[p] = "grace" THEN "failed" ELSE "interrupted")
    /\ UNCHANGED <<source, cache, fingerprint, before, building, loose, edits, interrupts, runs>>

\* Ctrl-C.  Only the wait for the tool catches it and goes on to terminate
\* the tool; anywhere else it leaves run at once, and the lock with it.
Interrupt(p) ==
    /\ interrupts < MaxInterrupts /\ interrupts' = interrupts + 1
    /\ pc[p] \in Active
    /\ IF pc[p] = "running"
       THEN Goto(p, "cancelled") /\ UNCHANGED <<lock, loose>>
       ELSE /\ Release(p) /\ Goto(p, "interrupted")
            /\ loose' = IF pc[p] \in Watching THEN loose \cup {p} ELSE loose
    /\ UNCHANGED <<source, outputs, cache, fingerprint, before, child, building, edits, runs>>

\* The declared outputs exist and are not those there before this run.
Rewrote(p) == output_manifest # None /\ output_manifest # before[p]

\* A successful run caches the outputs it finds, after the lock is released.
Report(p) ==
    /\ pc[p] = "report"
    /\ cache' = IF Rewrote(p) THEN [cache EXCEPT ![fingerprint[p]] = output_manifest] ELSE cache
    /\ Goto(p, "returned")
    /\ UNCHANGED <<source, outputs, lock, fingerprint, before, child, building,
                   loose, edits, interrupts, runs>>

Edit ==
    /\ edits < MaxEdits /\ edits' = edits + 1
    /\ EditsDuring \/ \A p \in Procs : pc[p] \in Rest /\ child[p] # "alive"
    /\ source' \in Sources \ {source}
    /\ UNCHANGED <<outputs, cache, lock, pc, fingerprint, before, child, building,
                   loose, interrupts, runs>>

Executor(p) ==
    \/ CacheHit(p) \/ CacheMiss(p) \/ TakeLock(p) \/ Fork(p) \/ EnterTry(p)
    \/ Reap(p) \/ Terminate(p) \/ GraceEnds(p) \/ Report(p)

Next == Edit \/ \E p \in Procs :
    \/ Begin(p) \/ Executor(p) \/ LockTimeout(p) \/ StartFails(p)
    \/ ChildExits(p) \/ TimesOut(p) \/ Interrupt(p)

Spec == Init /\ [][Next]_vars

\* Executors and children keep running.  A time-out, a Ctrl-C or an edit is
\* never owed.  Runs are bounded, so the lock that the executors poll is free
\* in the end, and weak fairness is enough.
FairSpec == Spec /\ \A p \in Procs :
    WF_vars(Executor(p)) /\ WF_vars(ChildExits(p))
-----------------------------------------------------------------------------
\* Every variable keeps to its type.
TypeOK ==
    /\ source \in Sources /\ outputs \in Disk
    /\ cache \in [Sources -> Disk]
    /\ lock \in Procs \cup {Free}
    /\ pc \in [Procs -> Rest \cup Active]
    /\ fingerprint \in [Procs -> Sources] /\ before \in [Procs -> Disk]
    /\ child \in [Procs -> {"none", "alive", "done", "failed"}]
    /\ building \in [Procs -> Sources] /\ loose \subseteq Procs
    /\ edits \in 0 .. MaxEdits /\ interrupts \in 0 .. MaxInterrupts /\ runs \in 0 .. MaxRuns

\* The lock serialises heavy jobs: no two tools run at once on the machine,
\* whatever time-outs, failures to start and interrupts happen, but for a tool
\* that a Ctrl-C left behind.
HeavyExclusive ==
    \A p, q \in Procs \ loose : child[p] = "alive" /\ child[q] = "alive" => p = q

\* A tool runs on without its executor only when a Ctrl-C came as it was being
\* started or already being terminated: one that comes while run waits for
\* the tool, and every time-out, ends the tool before the executor leaves.
NoOrphan == \A p \in Procs : child[p] = "alive" => pc[p] \in Watching \/ p \in loose

\* The comment on the BaseException branch of process.py as it stands: Ctrl-C
\* leaves no tool running after its executor exits.
NoneLeftBehind == \A p \in Procs : child[p] = "alive" => pc[p] \in Watching

\* A run answered from the cache finds on disk the outputs of the sources it
\* was asked to build.
CachedIsBuilt ==
    [][\A p \in Procs : pc[p] = "lookup" /\ pc'[p] = "returned"
                            => outputs = fingerprint[p]]_vars

\* Every run ends: no lock is left behind for the others to wait on.
EveryRunEnds == \A p \in Procs : (pc[p] \in Active) ~> (pc[p] \in Rest)
=============================================================================
