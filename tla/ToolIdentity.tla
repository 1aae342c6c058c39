---------------------------- MODULE ToolIdentity ----------------------------
(***************************************************************************)
(* tool_identity of tools/misterlib/util.py: what a process says of an     *)
(* executable, from its own memory, from tool-identities.json or from the  *)
(* file.  The executable may be replaced between any two steps.  Each      *)
(* replacement has a modification time of its own; a size is one of a few. *)
(***************************************************************************)
EXTENDS Naturals

CONSTANTS
    Processes, Nobody,
    SizeOf(_),      \* the size of each version of the executable
    MaxReplaced

VARIABLES
    exe,            \* the version on disk; also its modification time
    disk,           \* tool-identities.json: an identity, or Nobody
    memory,         \* each process's _PERSISTENT_TOOL_CACHE: loaded, and what
    known,          \* each process's _TOOL_ID_CACHE, by size and time
    call,           \* the call each process is in: [at, stat, identity]
    answer          \* what the last step answered from a cache, and the versions
                    \* there were during that call; or Nobody

vars == <<exe, disk, memory, known, call, answer>>

Stat(v) == [size |-> SizeOf(v), mtime |-> v]
Rest == [at |-> "rest", stat |-> Stat(0), identity |-> Nobody]
Forgotten == [loaded |-> FALSE, entry |-> Nobody]

Init ==
    /\ exe = 0 /\ disk = Nobody
    /\ memory = [p \in Processes |-> Forgotten]
    /\ known = [p \in Processes |-> {}]
    /\ call = [p \in Processes |-> Rest]
    /\ answer = Nobody

Call(p, c) == call' = [call EXCEPT ![p] = c]
Answer(i, from) == answer' = [identity |-> i, during |-> from .. exe]
-----------------------------------------------------------------------------
\* Mutant: an entry of the right size is taken.
matches_size(entry, s) == entry # Nobody /\ entry.stat.size = s.size

\* The entry describes an executable of this size and this time.
matches(entry, s) == entry # Nobody /\ entry.stat = s

\* tool_identity begins with a stat and its own memory.
Begin(p) ==
    /\ call[p].at = "rest"
    /\ \/ \E i \in known[p] : i.stat = Stat(exe) /\ Answer(i, exe) /\ UNCHANGED call
       \/ /\ \A i \in known[p] : i.stat # Stat(exe)
          /\ Call(p, [Rest EXCEPT !.at = "load", !.stat = Stat(exe)])
          /\ answer' = Nobody
    /\ UNCHANGED <<exe, disk, memory, known>>

\* The file is read once in the life of a process.
_load_persistent_tool_cache(p) ==
    /\ call[p].at = "load"
    /\ LET entry == IF memory[p].loaded THEN memory[p].entry ELSE disk
       IN  /\ memory' = [memory EXCEPT ![p] = [loaded |-> TRUE, entry |-> entry]]
           /\ IF matches(entry, call[p].stat)
              THEN /\ known' = [known EXCEPT ![p] = @ \cup {entry}]
                   /\ Answer(entry, call[p].stat.mtime) /\ Call(p, Rest)
              ELSE Call(p, [call[p] EXCEPT !.at = "hash"]) /\ UNCHANGED known /\ answer' = Nobody
    /\ UNCHANGED <<exe, disk>>

Hash(p) ==
    /\ call[p].at = "hash"
    /\ Call(p, [call[p] EXCEPT !.at = "run",
                               !.identity = [stat |-> call[p].stat, sha256 |-> exe, version |-> {}]])
    /\ UNCHANGED <<exe, disk, memory, known>> /\ answer' = Nobody

\* The executable that is there is asked for its version; it may not say.
run_capture(p) ==
    /\ call[p].at = "run"
    /\ \E says \in {{exe}, {}} : Call(p, [call[p] EXCEPT !.at = "store", !.identity.version = says])
    /\ UNCHANGED <<exe, disk, memory, known>> /\ answer' = Nobody

\* The identity is kept under the size and the time from before the hash.
noted(p) == call[p].identity

\* The whole file is replaced at once, by what this process knows, if it can.
_store_persistent_tool_cache(p) ==
    /\ call[p].at = "store"
    /\ known' = [known EXCEPT ![p] = @ \cup {noted(p)}]
    /\ memory' = [memory EXCEPT ![p].entry = noted(p)]
    /\ disk' \in {noted(p), disk}
    /\ Call(p, Rest)
    /\ UNCHANGED <<exe>> /\ answer' = Nobody

\* A process ends, in a call or between two.
Exit(p) ==
    /\ memory' = [memory EXCEPT ![p] = Forgotten]
    /\ known' = [known EXCEPT ![p] = {}] /\ Call(p, Rest)
    /\ UNCHANGED <<exe, disk>> /\ answer' = Nobody

Replace ==
    /\ exe < MaxReplaced /\ exe' = exe + 1
    /\ UNCHANGED <<disk, memory, known, call>> /\ answer' = Nobody

Next ==
    \/ \E p \in Processes :
          \/ Begin(p) \/ _load_persistent_tool_cache(p) \/ Hash(p)
          \/ run_capture(p) \/ _store_persistent_tool_cache(p) \/ Exit(p)
    \/ Replace

Spec == Init /\ [][Next]_vars
-----------------------------------------------------------------------------
\* What is answered from a cache is the hash and the version of executables that
\* were there during the call, though the executable be replaced while this
\* process or another one measured it.
CachedIdentityTrue ==
    answer # Nobody =>
        {answer.identity.sha256} \cup answer.identity.version \subseteq answer.during
=============================================================================
