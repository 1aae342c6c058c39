-------------------------- MODULE TaskRunnerProofs --------------------------
(***************************************************************************)
(* Proofs about TaskRunner for any number of executors, sources, runs,     *)
(* edits, time-outs and interrupts.                                        *)
(***************************************************************************)
EXTENDS TaskRunner, TLAPS

USE DEF task_fingerprint, output_manifest

(***************************************************************************)
(* An executor that starts, awaits or terminates a tool holds the lock,    *)
(* and a tool that is alive has such an executor, or lost it to a Ctrl-C.  *)
(***************************************************************************)
Holding == \A p \in Procs : pc[p] \in {"locked"} \cup Watching => lock = p
Watched == \A p \in Procs : child[p] = "alive" => pc[p] \in Watching \/ p \in loose

IInv == TypeOK /\ Holding /\ Watched

Step(p) ==
    \/ Begin(p) \/ Executor(p) \/ LockTimeout(p) \/ StartFails(p)
    \/ ChildExits(p) \/ TimesOut(p) \/ Interrupt(p)

-----------------------------------------------------------------------------
\* SIGTERM keeps the types, and starts no tool.
LEMMA SigtermStep ==
    ASSUME TypeOK, NEW p \in Procs, Sigterm(p)
    PROVE  /\ outputs' \in Disk
           /\ child' \in [Procs -> {"none", "alive", "done", "failed"}]
           /\ \A q \in Procs \ {p} : child'[q] = child[q]
           /\ child'[p] = "alive" => child[p] = "alive"
  BY DEF Sigterm, TypeOK, Disk

\* SIGKILL keeps the types, and kills any tool.
LEMMA SigkillStep ==
    ASSUME TypeOK, NEW p \in Procs, Sigkill(p)
    PROVE  /\ outputs' \in Disk
           /\ child' \in [Procs -> {"none", "alive", "done", "failed"}]
           /\ \A q \in Procs \ {p} : child'[q] = child[q]
           /\ child'[p] # "alive"
  BY DEF Sigkill, TypeOK, Disk

\* Every action keeps to the types.
LEMMA TypeStep == ASSUME TypeOK, Next PROVE TypeOK'
<1> USE TaskAssumption DEF Rest, Active, Watching
<1>1. CASE Edit
  BY <1>1 DEF Edit, TypeOK
<1>2. ASSUME NEW p \in Procs, Step(p) PROVE TypeOK'
  <2>1. CASE Begin(p)
    BY <2>1 DEF Begin, Goto, TypeOK
  <2>2. CASE CacheHit(p) \/ CacheMiss(p) \/ LockTimeout(p)
    BY <2>2 DEF CacheHit, CacheMiss, LockTimeout, Goto, TypeOK
  <2>3. CASE TakeLock(p) \/ StartFails(p)
    BY <2>3 DEF TakeLock, StartFails, Acquire, Release, Goto, TypeOK
  <2>4. CASE Fork(p) \/ EnterTry(p) \/ TimesOut(p)
    BY <2>4 DEF Fork, EnterTry, TimesOut, Goto, TypeOK
  <2>5. CASE Reap(p)
    BY <2>5 DEF Reap, Release, Goto, TypeOK
  <2>6. CASE Terminate(p)
    BY <2>6, SigtermStep DEF Terminate, Goto, TypeOK
  <2>7. CASE GraceEnds(p)
    BY <2>7, SigkillStep DEF GraceEnds, Release, Goto, TypeOK
  <2>8. CASE Report(p)
    BY <2>8 DEF Report, Goto, TypeOK
  <2>9. CASE ChildExits(p)
    BY <2>9 DEF ChildExits, TypeOK, Disk
  <2>10. CASE Interrupt(p)
    BY <2>10 DEF Interrupt, Release, Goto, TypeOK
  <2> QED BY <1>2, <2>1, <2>2, <2>3, <2>4, <2>5, <2>6, <2>7, <2>8, <2>9, <2>10 DEF Step, Executor
<1> QED BY <1>1, <1>2 DEF Next, Step

\* Every variable of TaskRunner keeps to its type, whatever the executors,
\* their tools, time-outs and interrupts do.
THEOREM TypeCorrect == Spec => []TypeOK
<1>1. Init => TypeOK
  BY TaskAssumption DEF Init, TypeOK, Rest, Active, Watching, Disk
<1>2. TypeOK /\ [Next]_vars => TypeOK'
  <2>1. ASSUME TypeOK, UNCHANGED vars PROVE TypeOK'
    BY <2>1 DEF vars, TypeOK
  <2> QED BY <2>1, TypeStep
<1> QED BY <1>1, <1>2, PTL DEF Spec

-----------------------------------------------------------------------------
\* Every action keeps the lock with the executor that looks after a tool, and
\* no tool without such an executor but for those a Ctrl-C left behind.
LEMMA LockStep == ASSUME IInv, Next PROVE Holding' /\ Watched'
<1> USE TaskAssumption DEF IInv, Holding, Watched, Watching
<1>1. CASE Edit
  BY <1>1 DEF Edit
<1>2. ASSUME NEW p \in Procs, Step(p) PROVE Holding' /\ Watched'
  <2>1. CASE Begin(p)
    BY <2>1 DEF Begin, Goto, TypeOK, Rest
  <2>2. CASE CacheHit(p) \/ CacheMiss(p) \/ LockTimeout(p)
    BY <2>2 DEF CacheHit, CacheMiss, LockTimeout, Goto, TypeOK
  <2>3. CASE TakeLock(p)
    \* The lock was free, so nobody else looks after a tool.
    <3>1. lock = Free /\ \A q \in Procs : pc[q] \notin {"locked"} \cup Watching
      BY <2>3 DEF TakeLock, Acquire
    <3> QED BY <2>3, <3>1 DEF TakeLock, Acquire, Goto, TypeOK
  <2>4. CASE Fork(p) \/ EnterTry(p) \/ TimesOut(p)
    BY <2>4 DEF Fork, EnterTry, TimesOut, Goto, TypeOK
  <2>5. CASE StartFails(p)
    \* Nobody else holds the lock; p's tool, if alive, was left behind before.
    BY <2>5 DEF StartFails, Release, Goto, TypeOK
  <2>6. CASE Reap(p)
    BY <2>6 DEF Reap, Release, Goto, TypeOK
  <2>7. CASE Terminate(p)
    BY <2>7, SigtermStep DEF Terminate, Goto, TypeOK
  <2>8. CASE GraceEnds(p)
    BY <2>8, SigkillStep DEF GraceEnds, Release, Goto, TypeOK
  <2>9. CASE Report(p)
    BY <2>9 DEF Report, Goto, TypeOK
  <2>10. CASE ChildExits(p)
    BY <2>10 DEF ChildExits, TypeOK
  <2>11. CASE Interrupt(p)
    <3>1. CASE pc[p] = "running"
      BY <2>11, <3>1 DEF Interrupt, Goto, TypeOK
    <3>2. CASE pc[p] # "running"
      BY <2>11, <3>2 DEF Interrupt, Release, Goto, TypeOK
    <3> QED BY <3>1, <3>2
  <2> QED BY <1>2, <2>1, <2>2, <2>3, <2>4, <2>5, <2>6, <2>7, <2>8, <2>9, <2>10, <2>11
      DEF Step, Executor
<1> QED BY <1>1, <1>2 DEF Next, Step

\* IInv is inductive.
THEOREM Inductive == Spec => []IInv
<1>1. Init => IInv
  BY TaskAssumption DEF Init, IInv, TypeOK, Holding, Watched, Rest, Active, Watching, Disk
<1>2. IInv /\ [Next]_vars => IInv'
  <2>1. ASSUME IInv, UNCHANGED vars PROVE IInv'
    BY <2>1 DEF vars, IInv, TypeOK, Holding, Watched
  <2>2. ASSUME IInv, Next PROVE IInv'
    BY <2>2, TypeStep, LockStep DEF IInv
  <2> QED BY <2>1, <2>2
<1> QED BY <1>1, <1>2, PTL DEF Spec

\* No two tools run at once, but for those a Ctrl-C left behind: the lock file
\* of locking.py serialises the rest through time-outs and second interrupts,
\* whether or not a tool obeys SIGTERM.
THEOREM Exclusive == Spec => []HeavyExclusive
<1>1. IInv => HeavyExclusive
  BY DEF IInv, Holding, Watched, Watching, HeavyExclusive
<1> QED BY <1>1, Inductive, PTL

\* A tool outlives its executor only when a Ctrl-C came outside the wait of
\* process.py for it: in the start of the tool or in _terminate_tree.
THEOREM NoOrphans == Spec => []NoOrphan
<1>1. IInv => NoOrphan
  BY DEF IInv, Watched, NoOrphan
<1> QED BY <1>1, Inductive, PTL
=============================================================================
