------------------------------ MODULE SoundIrq ------------------------------
(***************************************************************************)
(* The interrupt controller of the sound Z80, rtl/audio/s32_soundsys.sv:   *)
(* three slots that take the YM3438's interrupt or the V60's doorbell.  A  *)
(* step is one edge of clk_sys.  The Z80 holds the strobes of an I/O write *)
(* for a period of its clock enable, and the controller acts on the level. *)
(*                                                                         *)
(* Left out: the mask, which only gates the request combinationally, and   *)
(* the banking registers written through the same decoder.                 *)
(***************************************************************************)
EXTENDS Naturals, FiniteSets

CONSTANTS
    IoClocks,      \* clk_sys edges an I/O write lasts, about six in the design
    MaxConfigs     \* writes to the slots' control registers

SoundAssumption == IoClocks \in Nat \ {0} /\ MaxConfigs \in Nat

Slots == 0 .. 2
Wirings == {"none", "ym", "v60"}

VARIABLES
    snd_irq_ctl,       \* the source each slot takes
    snd_irq_input,     \* slots pending
    ym_irq, ym_irq_d,  \* the YM3438's interrupt and its last value
    bus,               \* the I/O write under way
    left,              \* the edges it still lasts
    owed,              \* slots with an event the program has not acknowledged
    configs

vars == <<snd_irq_ctl, snd_irq_input, ym_irq, ym_irq_d, bus, left, owed, configs>>

Quiet == [port |-> "none"]
BusWrites == [port : {"ack"}, keep : SUBSET Slots] \cup [port : {"ctl"}, slot : Slots, wiring : Wirings]

Init ==
    /\ snd_irq_ctl = [i \in Slots |-> "none"] /\ snd_irq_input = {}
    /\ ym_irq = FALSE /\ ym_irq_d = FALSE
    /\ bus = Quiet /\ left = 0
    /\ owed = {} /\ configs = 0

Wired(w) == {i \in Slots : snd_irq_ctl[i] = w}

\* What arrives on an edge: the YM's line rises, or the V60 rings.
Arrivals(doorbell) ==
    (IF ym_irq /\ ~ym_irq_d THEN Wired("ym") ELSE {})
        \cup (IF doorbell THEN Wired("v60") ELSE {})

\* The YM's line falls.
Withdrawn == IF ~ym_irq /\ ym_irq_d THEN Wired("ym") ELSE {}

Acknowledged == IF bus.port = "ack" THEN Slots \ bus.keep ELSE {}

\* Mutant: the YM withdraws nothing.
InputNotWithdrawn(doorbell) == (snd_irq_input \ Acknowledged) \cup Arrivals(doorbell)

\* The acknowledgement is merged with the arrivals of its edge.
InputNext(doorbell) ==
    ((snd_irq_input \ Acknowledged) \ Withdrawn) \cup Arrivals(doorbell)

ControlNext ==
    IF bus.port = "ctl" THEN [snd_irq_ctl EXCEPT ![bus.slot] = bus.wiring] ELSE snd_irq_ctl

\* The Z80 goes on with its write or, once the strobes have been high again,
\* begins another.
BusStep ==
    \/ left > 1 /\ left' = left - 1 /\ UNCHANGED <<bus, configs>>
    \/ left <= 1 /\ bus' = Quiet /\ left' = 0 /\ UNCHANGED configs
    \/ /\ left = 0 /\ bus' \in BusWrites /\ left' = IoClocks
       /\ configs' = IF bus'.port = "ctl" THEN configs + 1 ELSE configs
       /\ configs' <= MaxConfigs

\* An acknowledgement answers what was pending when it began.
OwedNext(doorbell) ==
    ((owed \ (IF left = IoClocks THEN Acknowledged ELSE {})) \ Withdrawn)
        \cup Arrivals(doorbell)

Clock ==
    \E doorbell \in BOOLEAN :
        /\ snd_irq_input' = InputNext(doorbell)
        /\ owed' = OwedNext(doorbell)
        /\ snd_irq_ctl' = ControlNext
        /\ ym_irq' \in BOOLEAN /\ ym_irq_d' = ym_irq
        /\ BusStep

Spec == Init /\ [][Clock]_vars
-----------------------------------------------------------------------------
\* An event stays pending until an acknowledgement that began after it, or
\* until the YM withdraws it: the comment on snd_irq_next.
EventsKept == owed \subseteq snd_irq_input

\* A slot pends only for an event nobody has acknowledged or withdrawn.
NoSpurious == snd_irq_input \subseteq owed
=============================================================================
