-------------------------------- MODULE Tools --------------------------------
(***************************************************************************)
(* Eight tools of the repository side by side: those of Workbench, the ROM *)
(* images (RomImages) and the V60 reference (V60Ref).  They too share no   *)
(* variable.                                                               *)
(***************************************************************************)
EXTENDS Workbench

CONSTANTS
    Sets, Media, Games, IgnoredSets, IgnoredParents, Unsupported, Stream, Slot,
    SpriteSizes, Patches, Bad,
    Byte, BitAnd(_, _), BitOr(_, _), BitXor(_, _), Registers, SP, Size, Programs, MaxCalls

VARIABLES
    \* RomImages
    romset, media, rom_pc, mra, images,
    \* V60Ref
    program, r, cpu_pc, fl, cpu_mem, halted, last, calls

romVars    == <<romset, media, rom_pc, mra, images>>
cpuVars    == <<program, r, cpu_pc, fl, cpu_mem, halted, last, calls>>
toolVars   == <<benchVars, romVars, cpuVars>>

Roms   == INSTANCE RomImages WITH pc <- rom_pc
Cpu    == INSTANCE V60Ref WITH pc <- cpu_pc, mem <- cpu_mem

ASSUME ToolsAssumption == Roms!RomAssumption /\ Cpu!V60Assumption

Units == {"evidence", "release", "identity", "donors", "sprites", "roms", "mixer", "cpu"}

ToolsInit ==
    /\ unit \in Units /\ BenchInit
    /\ IF unit = "roms" THEN Roms!Given ELSE romset = None /\ media = None
    /\ Roms!Start
    /\ IF unit = "cpu" THEN Cpu!Given ELSE program = None /\ cpu_mem = None
    /\ Cpu!Start

AtTheBench == BenchNext /\ UNCHANGED <<romVars, cpuVars>>

BuildingImages ==
    /\ unit = "roms" /\ Roms!Next
    /\ UNCHANGED <<benchVars, cpuVars>>

Stepping ==
    /\ unit = "cpu" /\ Cpu!Next
    /\ UNCHANGED <<benchVars, romVars>>

ToolsNext == AtTheBench \/ BuildingImages \/ Stepping

ToolsSpec == ToolsInit /\ [][ToolsNext]_toolVars
-----------------------------------------------------------------------------
\* The images are the memory that MAME declares.
ImagesAsDeclared == Roms!ImagesAsDeclared

\* An operation of the V60 reference gives what arithmetic gives.
ResultsExact == Cpu!ResultsExact

\* A return goes behind its call, with the stack as it was.
ReturnsHome == Cpu!ReturnsHome
=============================================================================
