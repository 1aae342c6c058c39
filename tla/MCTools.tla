------------------------------- MODULE MCTools -------------------------------
(***************************************************************************)
(* A small instance of Tools for TLC.  The inputs of the mixer are here,   *)
(* those of a larger tool in its own MC module, which does not depend on   *)
(* the constants they are for: these are given no value here.              *)
(***************************************************************************)
EXTENDS Tools, TLC

CONSTANTS v1, v2, Values, Scratch

\* The processes of the workflow, and the versions: which is which matters to no tool.
Alike == Permutations(Procs) \cup Permutations(Versions)

\* The first version of the RTL agrees with its reference, and so the second.
SomeAgree == {<<v1, v1>>, <<v2, v2>>}

ReleaseCases == INSTANCE MCRelease WITH pc <- gate,
    Configs <- {}, Donors <- {}, Mras <- {}, OldReports <- {}, NewReports <- {}
SomeConfigs == ReleaseCases!SomeConfigs
SomeDonors == ReleaseCases!SomeDonors
SomeMras == ReleaseCases!SomeMras
OldOnes == ReleaseCases!Left
NewOnes == ReleaseCases!Written

\* A replacement may have the size of the old executable.
SomeSize(v) == 0 * v

\* Two fetches under one label, one after the other or both at once.
SomeLabels == [p \in {1, 2} |-> "fm"]

SpriteCases == INSTANCE MCSpriteReplay WITH
    Texels <- {}, First <- {}, Rewrites <- {}, Settings <- {}
ROM == SpriteCases!ROM
Families == SpriteCases!Families
Few == SpriteCases!Few
SomeSettings == SpriteCases!Written

RomCases == INSTANCE MCRomImages WITH pc <- rom_pc,
    Sets <- {}, Media <- {}, Slot <- {}, Stream <- {}, Patches <- {}
SomeSets == RomCases!SomeSets
SomeMedia == RomCases!SomeMedia
MCSlot == RomCases!MCSlot
MCStream == RomCases!MCStream
MCPatches == RomCases!MCPatches

MixerCases == INSTANCE Mixer WITH inputs <- pixel_inputs, Inputs <- {}

\* Three layers, the sprite and the backdrop in every rank.
Off == [priority |-> 0, opaque |-> TRUE, pen |-> 1, mask |-> {}, mode |-> 0, value |-> 0]
SomeLayers == {[priority |-> p, opaque |-> o, pen |-> n, mask |-> m, mode |-> 1, value |-> 3] :
                  p \in {0, 1, 15}, o \in BOOLEAN, n \in 0 .. 1, m \in {{}, {5, 6}}}
SomeSprites == {[priority |-> p, top |-> t, pixel |-> x] :
                   p \in {0, 1, 15}, t \in BOOLEAN, x \in {"clear", "shadow pen", "pen"}}

\* The text layer always shows, one tilemap and a bitmap may blend.
SomeInputs ==
    {[layer |-> [l \in MixerCases!Layers |-> IF l = 0 THEN a ELSE IF l = 2 THEN b ELSE IF l = 5 THEN c ELSE Off],
      layer_off |-> IF ~b.opaque /\ b.pen = 0 THEN {0, 1} ELSE {}, sprite |-> s, shadows |-> TRUE, group |-> g] :
        a \in {x \in SomeLayers : x.pen = 1 /\ x.opaque /\ x.mask = {}}, b \in SomeLayers,
        c \in {x \in SomeLayers : x.pen = 1 /\ x.mask = {} /\ x.priority # 0}, s \in SomeSprites, g \in {3, 4}}

SomeSeeded == <<"r0", "r1">>
CpuCases == INSTANCE MCV60Ref WITH pc <- cpu_pc, mem <- cpu_mem, Seeded <- SomeSeeded, Programs <- {}
AndOf(a, b) == CpuCases!AndOf(a, b)
OrOf(a, b) == CpuCases!OrOf(a, b)
XorOf(a, b) == CpuCases!XorOf(a, b)
SomePrograms == CpuCases!SomePrograms
=============================================================================
