------------------------------- MODULE Donors -------------------------------
(***************************************************************************)
(* Donor repositories: fetch_donor, scan_donor and add_donor of            *)
(* tools/misterlib/provenance.py.  Each process fetches one donor under a  *)
(* label; git may fail, hang until its time-out, or end with its process,  *)
(* and the branch asked for moves while it is fetched.  Nothing keeps two  *)
(* processes from one label: crossed is a history variable naming the      *)
(* labels for which one of them found no directory while another was still *)
(* at work on it.                                                          *)
(***************************************************************************)
EXTENDS Naturals

CONSTANTS
    Fetchers,
    LabelOf,        \* the label each of them is given
    Absent,
    MaxCommits      \* commits the branch moves on by

Labels == {LabelOf[p] : p \in Fetchers}

Commits == 0 .. MaxCommits

DonorsAssumption ==
    /\ MaxCommits \in Nat /\ Absent \notin Nat
    /\ Absent \notin [part : {"checked out"}, head : Commits, fetched : Commits]

VARIABLES
    branch,         \* the commit the branch is at
    clone,          \* under each label: Absent, or [part, head, fetched]
    provenance,     \* the records of docs/PROVENANCE.json
    licences,       \* the labels whose licence texts are kept
    step,           \* where each process is
    record, data,   \* what it scanned, and the file as it read it
    crossed         \* the labels at which two of them were at work at once

vars == <<branch, clone, provenance, licences, step, record, data, crossed>>

Bare == [part |-> "cloned", head |-> branch, fetched |-> Absent]
Broken == [part |-> "broken", head |-> Absent, fetched |-> Absent]
Cloning == {"clone", "clone again", "fetch", "checkout"}

Init ==
    /\ branch = 0
    /\ clone = [l \in Labels |-> Absent]
    /\ provenance = {} /\ licences = {}
    /\ step = [p \in Fetchers |-> "begin"]
    /\ record = [p \in Fetchers |-> Absent]
    /\ data = [p \in Fetchers |-> {}]
    /\ crossed = {}

To(p, s) == step' = [step EXCEPT ![p] = s]
Put(p, c) == clone' = [clone EXCEPT ![LabelOf[p]] = c]
Mine(p) == clone[LabelOf[p]]
Kept == UNCHANGED <<branch, provenance, licences, record, data>>
Alone == UNCHANGED crossed

\* What a process knew is gone with it.
Forgets(p) ==
    /\ record' = [record EXCEPT ![p] = Absent]
    /\ data' = [data EXCEPT ![p] = {}]
-----------------------------------------------------------------------------
\* A destination that exists is refused; one that another process is about to
\* make does not exist yet.
Begin(p) ==
    /\ step[p] = "begin" /\ Kept /\ UNCHANGED clone
    /\ \/ Mine(p) # Absent /\ To(p, "refused") /\ Alone
       \/ /\ Mine(p) = Absent /\ To(p, "clone")
          /\ crossed' = crossed \cup
                 {LabelOf[q] : q \in {o \in Fetchers \ {p} : LabelOf[o] = LabelOf[p] /\ step[o] \in Cloning}}

\* A git command that fails leaves what it likes; the tree is then removed.  One
\* that takes too long raises, and leaves the tree half-made or untouched.
Fails(p, next) == Put(p, Absent) /\ To(p, next)
Spoils(p) == Put(p, Broken) \/ UNCHANGED clone
Hangs(p) == Spoils(p) /\ To(p, "timed out")

\* A partial clone is tried first, then a whole one.  git refuses a directory
\* that is not empty.
Clone(p, here, next) ==
    /\ step[p] = here /\ Kept /\ Alone
    /\ \/ Mine(p) = Absent /\ Put(p, Bare) /\ To(p, "fetch")
       \/ Fails(p, next)
       \/ Hangs(p)

Fetch(p) ==
    /\ step[p] = "fetch" /\ Kept /\ Alone
    /\ \/ Mine(p) # Absent /\ Put(p, [Mine(p) EXCEPT !.fetched = branch]) /\ To(p, "checkout")
       \/ Fails(p, "failed")
       \/ Hangs(p)

\* Mutant: a checkout that fails is not noticed.
checkout_failed_ignored(p) == UNCHANGED clone /\ To(p, "scan")

checkout_failed(p) == Fails(p, "failed")

Checkout(p) ==
    /\ step[p] = "checkout" /\ Kept /\ Alone
    /\ \/ /\ Mine(p) # Absent /\ Mine(p).fetched # Absent /\ To(p, "scan")
          /\ Put(p, [part |-> "checked out", head |-> Mine(p).fetched, fetched |-> Mine(p).fetched])
       \/ checkout_failed(p)
       \/ Hangs(p)

\* scan_donor raises when there is no tree.  It records what it finds there,
\* and no commit when git does not answer: git_info swallows its errors.
Scan(p) ==
    /\ step[p] = "scan"
    /\ \/ Mine(p) = Absent /\ To(p, "failed") /\ UNCHANGED record
       \/ /\ Mine(p) # Absent /\ To(p, "add")
          /\ \E found \in {Mine(p).head, Absent} :
                record' = [record EXCEPT ![p] =
                    [label |-> LabelOf[p], commit |-> found,
                     license_status |-> IF Mine(p).part = "checked out" THEN "recorded" ELSE "MISSING"]]
    /\ UNCHANGED <<branch, clone, provenance, licences, data, crossed>>

\* add_donor reads PROVENANCE.json, replaces the record of this source, commit
\* and path, writes the file anew and copies the licence texts.
Load(p) ==
    /\ step[p] = "add"
    /\ data' = [data EXCEPT ![p] = provenance]
    /\ To(p, "save")
    /\ UNCHANGED <<branch, clone, provenance, licences, record, crossed>>

Save(p) ==
    /\ step[p] = "save"
    /\ provenance' = {r \in data[p] : r.label # record[p].label \/ r.commit # record[p].commit}
                        \cup {record[p]}
    /\ To(p, "copy")
    /\ UNCHANGED <<branch, clone, licences, record, data, crossed>>

CopyLicences(p) ==
    /\ step[p] = "copy"
    /\ licences' = IF record[p].license_status = "recorded" THEN licences \cup {LabelOf[p]} ELSE licences
    /\ To(p, "recorded") /\ Forgets(p)
    /\ UNCHANGED <<branch, clone, provenance, crossed>>

\* The process is killed, and git with it.
Killed(p) ==
    /\ step[p] \notin {"begin", "refused", "failed", "timed out", "recorded", "killed"}
    /\ To(p, "killed") /\ Forgets(p)
    /\ UNCHANGED <<branch, provenance, licences, crossed>>
    /\ IF step[p] \in Cloning THEN Spoils(p) ELSE UNCHANGED clone

\* Asked for again, with the label it had before.
Again(p) ==
    /\ step[p] \in {"refused", "failed", "timed out", "killed"}
    /\ To(p, "begin") /\ Kept /\ Alone /\ UNCHANGED clone

\* The donor's authors go on.
Push == branch < MaxCommits /\ branch' = branch + 1
        /\ UNCHANGED <<clone, provenance, licences, step, record, data, crossed>>

Next ==
    \/ \E p \in Fetchers :
          \/ Begin(p) \/ Clone(p, "clone", "clone again") \/ Clone(p, "clone again", "failed")
          \/ Fetch(p) \/ Checkout(p) \/ Scan(p) \/ Load(p) \/ Save(p) \/ CopyLicences(p)
          \/ Killed(p) \/ Again(p)
    \/ Push

Spec == Init /\ [][Next]_vars
-----------------------------------------------------------------------------
\* A donor in PROVENANCE.json lies under its label, checked out at the commit the
\* record names or with none named, wherever git or a process failed before and
\* however the branch moves, unless two fetches were at work on its label at once:
\* then the one that git refuses removes the tree of the other.
RecordedAsFetched ==
    \A r \in provenance : r.label \notin crossed =>
        /\ clone[r.label] # Absent /\ clone[r.label].part = "checked out"
        /\ r.commit \in {clone[r.label].head, Absent}
=============================================================================
