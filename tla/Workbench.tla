------------------------------ MODULE Workbench ------------------------------
(***************************************************************************)
(* Six tools of the repository side by side: the evidence workflow         *)
(* (Evidence, extended here), the release gate (Release), the identity of  *)
(* an executable (ToolIdentity), the donors (Donors), the mixer reference  *)
(* (Mixer) and the replay of sprite frames (SpriteReplay).  No variable of *)
(* one is a variable of another, so that a behaviour follows one of them,  *)
(* its unit, and the others keep their initial state: what holds of each   *)
(* here holds of all.                                                      *)
(***************************************************************************)
EXTENDS Evidence

CONSTANTS
    Configs, DonorSets, Mras, OldReports, NewReports, Scenarios,
    Processes, Nobody, SizeOf(_), MaxReplaced,
    Fetchers, LabelOf, Absent, MaxCommits,
    Inputs,
    Storage, Wide, Narrow, Height, Entries, Texels, WordPixels, EndCode, Hidden,
    First, Rewrites, Settings, NoShot

VARIABLES
    unit,
    \* Release
    config, donors, mras, src, reports, rbf, gate, scenario, matched, ran, release,
    \* ToolIdentity
    exe, identity_file, memory, known, call, answer,
    \* Donors
    branch, clone, provenance, licences, step, record, data, crossed,
    \* Mixer
    pixel_inputs, result,
    \* SpriteReplay
    ram, controls, latched, front, back, selected, render_count, left,
    frontIs, backIs, shot

releaseVars  == <<config, donors, mras, src, reports, rbf, gate, scenario, matched, ran, release>>
identityVars == <<exe, identity_file, memory, known, call, answer>>
donorVars    == <<branch, clone, provenance, licences, step, record, data, crossed>>
mixerVars    == <<pixel_inputs, result>>
spriteVars   == <<ram, controls, latched, front, back, selected, render_count, left,
                  frontIs, backIs, shot>>
benchVars    == <<unit, vars, releaseVars, identityVars, donorVars, mixerVars, spriteVars>>

Gate       == INSTANCE Release WITH Donors <- DonorSets, pc <- gate
Identities == INSTANCE ToolIdentity WITH disk <- identity_file
Fetching   == INSTANCE Donors
Pixels     == INSTANCE Mixer WITH inputs <- pixel_inputs
Replay     == INSTANCE SpriteReplay

ASSUME WorkbenchAssumption ==
    /\ Gate!ReleaseAssumption /\ Fetching!DonorsAssumption /\ Pixels!MixerAssumption
    /\ Replay!SpriteAssumption

\* A tool that does not run is given nothing.
BenchInit ==
    /\ IF unit = "evidence" THEN rtl \in Versions /\ ref \in Versions
       ELSE rtl = None /\ ref = None
    /\ Start
    /\ IF unit = "release" THEN Gate!Given
       ELSE config = None /\ donors = None /\ mras = None /\ reports = None /\ rbf = None
    /\ Gate!Start
    /\ Identities!Init /\ Fetching!Init
    /\ IF unit = "mixer" THEN pixel_inputs \in Inputs ELSE pixel_inputs = None
    /\ result = Pixels!Nothing
    /\ IF unit = "sprites" THEN Replay!Given ELSE ram = None /\ left = 0
    /\ Replay!Start /\ shot = NoShot

Converging ==
    /\ unit = "evidence" /\ Next
    /\ UNCHANGED <<unit, releaseVars, identityVars, donorVars, mixerVars, spriteVars>>

Releasing ==
    /\ unit = "release" /\ Gate!Next
    /\ UNCHANGED <<unit, vars, identityVars, donorVars, mixerVars, spriteVars>>

Identifying ==
    /\ unit = "identity" /\ Identities!Next
    /\ UNCHANGED <<unit, vars, releaseVars, donorVars, mixerVars, spriteVars>>

FetchingDonors ==
    /\ unit = "donors" /\ Fetching!Next
    /\ UNCHANGED <<unit, vars, releaseVars, identityVars, mixerVars, spriteVars>>

Mixing ==
    /\ unit = "mixer" /\ Pixels!Next
    /\ UNCHANGED <<unit, vars, releaseVars, identityVars, donorVars, spriteVars>>

Replaying ==
    /\ unit = "sprites" /\ Replay!ReplayNext
    /\ UNCHANGED <<unit, vars, releaseVars, identityVars, donorVars, mixerVars>>

BenchNext == Converging \/ Releasing \/ Identifying \/ FetchingDonors \/ Mixing \/ Replaying

BenchSpec == BenchInit /\ [][BenchNext]_benchVars
-----------------------------------------------------------------------------
\* A release.json, and success, is earned in the run that tells of it.
ReleaseEarned == Gate!ReleaseEarned

\* A cached identity is of executables that were there during the call.
CachedIdentityTrue == Identities!CachedIdentityTrue

\* A recorded donor lies under its label at the commit recorded, unless two
\* fetches were given the label at once.
RecordedAsFetched == Fetching!RecordedAsFetched

\* A pixel shows, blends and darkens as the order of the layers says.
MixedAsRanked == Pixels!MixedAsRanked

\* The buffers show what was drawn on them since they were erased.
DrawnAsDefined == unit = "sprites" => Replay!DrawnAsDefined

\* A captured frame replays as the controller draws it.
ReplayFaithful == Replay!ReplayFaithful

\* The verdict on the RTL and the audit of a frame are right.
VerdictRight == Replay!VerdictRight
=============================================================================
