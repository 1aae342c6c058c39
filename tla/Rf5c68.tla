------------------------------- MODULE Rf5c68 -------------------------------
(***************************************************************************)
(* The voices of the RF5C68, rtl/audio/s32_rf5c68.sv, with the wave RAM on *)
(* the chip as s32_soundsys.sv instantiates it.  A step is one edge of     *)
(* clk_sys.  One channel is launched per slot and walks through the voice  *)
(* pipeline while the Z80 may be writing the registers; the strobe of a    *)
(* write lasts a period of the Z80's clock enable.                         *)
(*                                                                         *)
(* Addresses are whole samples modulo Positions and every channel advances *)
(* by one; what the RAM holds at an address (a sample or the loop marker)  *)
(* is a choice at each fetch, since the program may rewrite it.  The mix   *)
(* keeps which channels contributed, not their amplitudes.                 *)
(***************************************************************************)
EXTENDS Naturals

CONSTANTS
    Last,           \* the last channel, 7 in the chip
    Positions,      \* addresses of the wave RAM
    LoopStart,      \* what the LS registers hold, by channel
    SlotClocks,     \* clk_sys edges between two launches, about 185
    WriteClocks,    \* clk_sys edges the strobe of a write may last, at least 5
    MaxWrites

Channels == 0 .. Last
Address == 0 .. Positions - 1

VoiceAssumption ==
    /\ Last \in Nat \ {0} /\ Positions \in Nat \ {0} /\ LoopStart \in [Channels -> Address]
    /\ SlotClocks \in Nat /\ SlotClocks > 6
    /\ WriteClocks \subseteq Nat /\ \A n \in WriteClocks : n >= 5
    /\ MaxWrites \in Nat

VARIABLES
    enable, cbank,
    st, caddr,
    chan_off_m,        \* channels that are off
    slot, ch,          \* edges into the slot, next channel to launch
    voice_state, voice_ch,
    voice_next, voice_advance, voice_sounds,
    acc, out,          \* channels mixed so far, and in the last sample
    frame,             \* channels that sounded in the frame under way
    bus, left,         \* the register write under way and its edges left
    writes

regs  == <<enable, cbank, st, chan_off_m>>
voice == <<voice_state, voice_ch, voice_next, voice_advance, voice_sounds>>
vars  == <<regs, caddr, slot, ch, voice, acc, out, frame, bus, left, writes>>

Quiet == [reg |-> "none"]
BusWrites ==
    [reg : {"st"}, addr : Address] \cup [reg : {"off"}, mask : SUBSET Channels]
        \cup [reg : {"control"}, on : BOOLEAN, bank : Channels]

Init ==
    /\ enable = FALSE /\ cbank = 0 /\ chan_off_m = Channels
    /\ st = [c \in Channels |-> 0] /\ caddr = st
    /\ slot = 0 /\ ch = 0
    /\ voice_state = "idle" /\ voice_ch = 0 /\ voice_next = 0
    /\ voice_advance = FALSE /\ voice_sounds = FALSE
    /\ acc = {} /\ out = {} /\ frame = {}
    /\ bus = Quiet /\ left = 0 /\ writes = 0

After(a) == (a + 1) % Positions

Launches == slot = 0 /\ voice_state = "idle"
Starts == Launches /\ enable /\ ch \notin chan_off_m
SampleEnds == (Launches /\ ~Starts /\ ch = Last) \/ (voice_state = "accum" /\ voice_ch = Last)

\* What the voice pipeline leaves in caddr on this edge; marker is TRUE when
\* the byte it looks at is 0xff.
Advanced(marker) ==
    IF voice_state = "fetch_use" /\ marker
        THEN [caddr EXCEPT ![voice_ch] = LoopStart[voice_ch]]
    ELSE IF voice_state = "accum" /\ voice_advance
        THEN [caddr EXCEPT ![voice_ch] = voice_next]
    ELSE caddr

PipelineStep(marker) ==
    /\ voice_state' =
           CASE voice_state = "idle"       -> IF Starts THEN "fetch_wait" ELSE "idle"
             [] voice_state = "fetch_wait" -> "fetch_use"
             [] voice_state = "fetch_use"  -> IF marker THEN "loop_wait" ELSE "accum"
             [] voice_state = "loop_wait"  -> "loop_use"
             [] voice_state = "loop_use"   -> "accum"
             [] voice_state = "accum"      -> "idle"
    /\ voice_ch' = IF Launches THEN ch ELSE voice_ch
    /\ IF voice_state = "fetch_use" /\ ~marker
           THEN /\ voice_next' = After(caddr[voice_ch])
                /\ voice_advance' = TRUE /\ voice_sounds' = TRUE
       ELSE IF voice_state = "loop_use"
           THEN /\ voice_next' = IF marker THEN voice_next ELSE After(LoopStart[voice_ch])
                /\ voice_advance' = ~marker /\ voice_sounds' = ~marker
       ELSE UNCHANGED <<voice_next, voice_advance, voice_sounds>>
    /\ slot' = (slot + 1) % SlotClocks
    /\ ch' = IF Launches THEN (ch + 1) % (Last + 1) ELSE ch

Sounding == IF voice_state = "accum" /\ voice_sounds THEN {voice_ch} ELSE {}

\* Mutant: a last channel that is off leaves the mix for the next sample.
AccKept == IF voice_state = "accum" /\ voice_ch = Last THEN {} ELSE acc \cup Sounding

AccNext == IF SampleEnds THEN {} ELSE acc \cup Sounding

MixStep ==
    /\ acc' = AccNext
    /\ out' = IF SampleEnds THEN acc \cup Sounding ELSE out
    /\ frame' = IF Launches /\ ch = 0 THEN {} ELSE frame \cup Sounding

\* Mutant: the voice wins over the write.
VoiceWins(a) ==
    IF bus.reg = "off" /\ ~(voice_state = "accum" /\ voice_advance)
    THEN [c \in Channels |-> IF c \in bus.mask THEN st[c] ELSE a[c]] ELSE a

\* A register write comes after the voice on the same edge and wins.
Written(a) ==
    IF bus.reg = "st" /\ cbank \in chan_off_m THEN [a EXCEPT ![cbank] = bus.addr]
    ELSE IF bus.reg = "off"
    THEN [c \in Channels |-> IF c \in bus.mask THEN st[c] ELSE a[c]]
    ELSE a

RegisterStep ==
    /\ st' = IF bus.reg = "st" THEN [st EXCEPT ![cbank] = bus.addr] ELSE st
    /\ chan_off_m' = IF bus.reg = "off" THEN bus.mask ELSE chan_off_m
    /\ enable' = IF bus.reg = "control" THEN bus.on ELSE enable
    /\ cbank' = IF bus.reg = "control" THEN bus.bank ELSE cbank

BusStep ==
    \/ left > 1 /\ left' = left - 1 /\ UNCHANGED <<bus, writes>>
    \/ left <= 1 /\ bus' = Quiet /\ left' = 0 /\ UNCHANGED writes
    \/ /\ left = 0 /\ writes < MaxWrites /\ writes' = writes + 1
       /\ bus' \in BusWrites /\ left' \in WriteClocks

Clock ==
    /\ \E marker \in BOOLEAN :
           /\ marker => voice_state \in {"fetch_use", "loop_use"}
           /\ PipelineStep(marker) /\ caddr' = Written(Advanced(marker))
    /\ MixStep /\ RegisterStep /\ BusStep

Spec == Init /\ [][Clock]_vars
-----------------------------------------------------------------------------
\* Where a channel that is off may rest.  The longest walk of the pipeline, that
\* of a voice at its loop marker, takes six edges: a write shorter than that may
\* end before the voice launched on its first edge moves the channel.
Rests(c) ==
    \/ caddr[c] = st[c]
    \/ (\E n \in WriteClocks : n < 6) /\ caddr[c] = After(LoopStart[c])

\* Once a write that switches a channel off or moves the start of one that is
\* off has ended, the channel rests at its start: the start/off write wins over
\* the voice in flight, so that the next key-on plays from the beginning.
StoppedRests ==
    left = 0 => \A c \in chan_off_m : Rests(c)

\* A sample mixes the channels that sounded since channel 0 was launched, each
\* of them and none of the sample before.
SampleComplete == [][SampleEnds => out' = frame \cup Sounding]_vars
=============================================================================
