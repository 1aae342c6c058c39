------------------------------ MODULE Release ------------------------------
(***************************************************************************)
(* The release gate: Workflow.release and what it calls in config.py,      *)
(* quartus.py, mra.py and provenance.py.  One process asks the doctor,     *)
(* converges every release scenario, runs lint and regression, compiles    *)
(* with Quartus, judges the reports, the RBF and the MRA files, may run a  *)
(* hardware test and writes release.json.  The files of earlier builds lie *)
(* about, a tool may succeed and not write what it should, and the RTL may *)
(* be edited meanwhile.  A verdict of converge is taken at its word:       *)
(* Evidence is about that.                                                 *)
(***************************************************************************)
EXTENDS Naturals, Sequences, FiniteSetsExt

CONSTANTS
    Configs,        \* the project configurations
    Donors,         \* the sets of donor records PROVENANCE.json may hold
    Mras,           \* the sets of MRA files the project may list
    OldReports,     \* the reports an earlier build may have left
    NewReports,     \* the reports a compile may write
    Scenarios,      \* workflow.release_scenarios
    MaxEdits, None

Trees == 0 .. MaxEdits
Reports == Seq([fresh : BOOLEAN, errors : BOOLEAN, slacks : Seq({"met", "missed"}),
                unconstrained : BOOLEAN])
Statuses == {"RELEASE_READY", "SOFTWARE_VERIFIED_HARDWARE_PENDING"}

ReleaseAssumption ==
    /\ Scenarios \in Nat \ {0} /\ MaxEdits \in Nat
    /\ OldReports \subseteq Reports /\ NewReports \subseteq Reports
    /\ None \notin Nat \cup {"met", "missed"}
    /\ None \notin [status : Statuses, source : Trees, rbf : [fresh : BOOLEAN, version : Trees]]

VARIABLES
    config, donors, mras,   \* what the release finds
    src,            \* the version of the RTL
    reports,        \* the report files by path: [fresh, errors, slacks, unconstrained]
    rbf,            \* the RBF: [fresh, version], or None
    pc, scenario,   \* the gate, and the scenario it converges
    matched,        \* of each scenario, the version it matched at
    ran,            \* the tasks that were run to success
    release         \* release.json: [status, source, rbf], or None

given == <<config, donors, mras>>
vars == <<given, src, reports, rbf, pc, scenario, matched, ran, release>>

Given ==
    /\ config \in Configs /\ donors \in Donors /\ mras \in Mras
    /\ reports \in OldReports
    /\ rbf \in {None, [fresh |-> FALSE, version |-> None]}

Start ==
    /\ src = 0
    /\ pc = "doctor" /\ scenario = 1
    /\ matched = [s \in 1 .. Scenarios |-> None]
    /\ ran = {} /\ release = None

Init == Given /\ Start

Goto(gate) == pc' = gate
-----------------------------------------------------------------------------
\* A donor is reproducible, licensed, and reviewed before it is used.
validate_provenance ==
    \A d \in donors : d.commit /\ d.licensed /\ (d.used => d.reviewed)

task_is_ready(name) == name \in config.ready

\* The part of validate_config a release adds; the rest is config.valid.
validate_config ==
    /\ config.valid
    /\ {"lint", "regression", "quartus"} \subseteq config.ready
    /\ config.report_dir /\ config.output_rbf
    /\ config.require_mra => mras # {} /\ config.rbf_name

\* main answers an exception with EXIT_FAILED and a refusal with EXIT_BLOCKED.
Doctor ==
    /\ pc = "doctor"
    /\ Goto(IF validate_config /\ (config.require_provenance => validate_provenance)
            THEN "converge" ELSE "EXIT_FAILED")
    /\ UNCHANGED <<given, src, reports, rbf, scenario, matched, ran, release>>

\* One scenario: it matches, it does not, or converge raises.
Converge ==
    /\ pc = "converge"
    /\ \/ /\ matched' = [matched EXCEPT ![scenario] = src]
          /\ scenario' = scenario + 1
          /\ Goto(IF scenario = Scenarios THEN "lint" ELSE "converge")
       \/ Goto("EXIT_BLOCKED") /\ UNCHANGED <<scenario, matched>>
       \/ Goto("EXIT_FAILED") /\ UNCHANGED <<scenario, matched>>
    /\ UNCHANGED <<given, src, reports, rbf, ran, release>>

\* A task that is not ready is passed over; one that fails raises.
RunTask(name, next) ==
    /\ pc = name
    /\ \/ task_is_ready(name) /\ ran' = ran \cup {name} /\ Goto(next)
       \/ task_is_ready(name) /\ Goto("EXIT_FAILED") /\ UNCHANGED ran
       \/ ~task_is_ready(name) /\ Goto(next) /\ UNCHANGED ran
    /\ UNCHANGED <<given, src, reports, rbf, scenario, matched, release>>

\* The full compile, which the doctor saw to be ready, writes new files or
\* leaves the old ones where they are.
Compile ==
    /\ pc = "quartus"
    /\ \/ /\ ran' = ran \cup {"quartus"} /\ Goto("gates")
          /\ \E new \in NewReports : reports' \in {reports \o new, new \o reports, new}
          /\ rbf' \in {rbf, [fresh |-> TRUE, version |-> src]}
       \/ Goto("EXIT_FAILED") /\ UNCHANGED <<reports, rbf, ran>>
    /\ UNCHANGED <<given, src, scenario, matched, release>>

\* Mutant: reports older than the build count.
fresh_any == DOMAIN reports

\* The reports written since the build began, by their places.
fresh == {i \in DOMAIN reports : reports[i].fresh}

\* The first slack of the first report that has one.
extract_first ==
    LET timed == {i \in fresh : reports[i].slacks # <<>>}
    IN  IF timed = {} THEN None ELSE reports[Min(timed)].slacks[1]

unconstrained == \E i \in fresh : reports[i].unconstrained

\* parse_quartus_reports: every gate holds on the fresh reports.
parse_quartus_reports ==
    /\ fresh # {}
    /\ \A i \in fresh : ~reports[i].errors
    /\ extract_first = "met"
    /\ config.allow_unconstrained \/ ~unconstrained

Gates ==
    /\ pc = "gates"
    /\ Goto(IF parse_quartus_reports THEN "rbf" ELSE "EXIT_BLOCKED")
    /\ UNCHANGED <<given, src, reports, rbf, scenario, matched, ran, release>>

\* output_rbf must be there, and no older than the build.
rbf_accepted == config.output_rbf => rbf # None /\ ("quartus" \in ran => rbf.fresh)

CheckRbf ==
    /\ pc = "rbf"
    /\ Goto(IF rbf_accepted THEN "mra" ELSE "EXIT_BLOCKED")
    /\ UNCHANGED <<given, src, reports, rbf, scenario, matched, ran, release>>

\* validate_mras: each file names a supported set and this RBF, numbers its
\* ROMs once each and maps something.
validate_mras ==
    /\ mras # {}
    /\ \A m \in mras :
          /\ m.exists /\ m.supported /\ m.rbf = "own" /\ ~m.duplicates
          /\ config.require_rom_mapping => m.usable

CheckMra ==
    /\ pc = "mra"
    /\ Goto(IF config.require_mra /\ ~validate_mras THEN "EXIT_BLOCKED" ELSE "hardware")
    /\ UNCHANGED <<given, src, reports, rbf, scenario, matched, ran, release>>

status ==
    IF config.hardware_required /\ "hardware" \notin ran
    THEN "SOFTWARE_VERIFIED_HARDWARE_PENDING" ELSE "RELEASE_READY"

\* release.json is written, and main answers EXIT_OK only for RELEASE_READY.
Finish ==
    /\ pc = "finish"
    /\ \/ /\ status # "RELEASE_READY" /\ ~config.allow_pending
          /\ Goto("EXIT_BLOCKED") /\ UNCHANGED release
       \/ /\ status = "RELEASE_READY" \/ config.allow_pending
          /\ release' = [status |-> status, source |-> src,
                         rbf |-> IF config.output_rbf THEN rbf ELSE None]
          /\ Goto(IF status = "RELEASE_READY" THEN "EXIT_OK" ELSE "EXIT_BLOCKED")
    /\ UNCHANGED <<given, src, reports, rbf, scenario, matched, ran>>

Edit ==
    /\ src < MaxEdits /\ src' = src + 1
    /\ UNCHANGED <<given, reports, rbf, pc, scenario, matched, ran, release>>

Next ==
    \/ Doctor \/ Converge
    \/ RunTask("lint", "regression") \/ RunTask("regression", "quartus")
    \/ Compile \/ Gates \/ CheckRbf \/ CheckMra \/ RunTask("hardware", "finish")
    \/ Finish \/ Edit

Spec == Init /\ [][Next]_vars
-----------------------------------------------------------------------------
FreshReports == {reports[i] : i \in {j \in DOMAIN reports : reports[j].fresh}}
SlacksOf(r) == {r.slacks[i] : i \in 1 .. Len(r.slacks)}

\* A release.json is earned in this run: every scenario matched, lint, the
\* regression and the compile were run, all reports of the compile pass, the
\* RBF in it was built here after the last scenario matched, the MRA files fit
\* and the donors are clean, as far as the project requires them.  Success is
\* told to the caller only for a release whose hardware test, if the project
\* requires one, was run.
ReleaseEarned ==
    /\ release # None =>
        /\ \A s \in 1 .. Scenarios : matched[s] # None
        /\ {"lint", "regression", "quartus"} \subseteq ran
        /\ \E r \in FreshReports : "met" \in SlacksOf(r)
        /\ \A r \in FreshReports : ~r.errors /\ (config.allow_unconstrained \/ ~r.unconstrained)
        /\ release.rbf.fresh
        /\ \A s \in 1 .. Scenarios : matched[s] <= release.rbf.version
        /\ config.require_mra => \A m \in mras : m.rbf = "own" /\ m.supported
        /\ config.require_provenance => \A d \in donors : d.commit
    /\ pc = "EXIT_OK" => release # None /\ (config.hardware_required => "hardware" \in ran)

\* "enforce gates": every slack of the reports of a release is met.
TimingMet ==
    release # None => \A r \in FreshReports : "missed" \notin SlacksOf(r)
=============================================================================
