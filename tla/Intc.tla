-------------------------------- MODULE Intc --------------------------------
(***************************************************************************)
(* The V60 interrupt controller and its two one-shot timers, module        *)
(* s32_intc of rtl/io/s32_io.sv.  A step is one edge of clk_sys; a write   *)
(* is strobed for one edge (wr_stb of s32_core.sv), and so is each source. *)
(*                                                                         *)
(* A timer register is two byte lanes; the periods keep the form of the    *)
(* code with smaller factors.  The mask and the vectors only choose among  *)
(* the pending sources, combinationally, and are left out.                 *)
(***************************************************************************)
EXTENDS Integers, FiniteSets

CONSTANTS
    Pulsed,         \* the pulsed sources, {0, 1, 2}: vblank start and end, sound
    LaneMax,        \* largest value of a byte lane
    Period0,        \* clk_sys edges per count of timer 0, 6144 in the code
    Width0,         \* the counter of timer 0 wraps here, 2^25 in the code
    Ticks1,         \* timer 1 ticks per count, 256 in the code
    Step1, Mod1,    \* the NCO of timer 1, 1085094 and 2^24 in the code
    Unwritten,      \* a lane that the bus does not enable
    MaxArms         \* writes to the timer registers

IntcAssumption ==
    /\ Pulsed \subseteq 0 .. 2
    /\ LaneMax \in Nat /\ Period0 \in Nat \ {0} /\ Ticks1 \in Nat \ {0}
    /\ Step1 \in Nat \ {0} /\ Mod1 \in Nat \ {0} /\ Step1 < Mod1
    /\ Unwritten \notin 0 .. LaneMax /\ MaxArms \in Nat
    /\ Width0 \in Nat /\ Width0 >= Period0 * (LaneMax + 1) * (LaneMax + 1)

Sources == Pulsed \cup {3, 4}     \* 3 is timer 0, 4 timer 1
Timers == {"t0", "t1"}
Lanes == [lo : 0 .. LaneMax, hi : 0 .. LaneMax]

VARIABLES
    pending,
    timer,             \* the count registers, bytes 8 to 11
    t0_cnt, t0_run, t1_cnt, t1_run, t1_acc,
    due0,              \* edges until timer 0 is due, 0 when it is not armed
    armed1, since1,    \* the count timer 1 was armed with, and the edges since
    owed,              \* sources that arrived and were not acknowledged
    arms

regs   == <<pending, timer, t0_cnt, t0_run, t1_cnt, t1_run, t1_acc>>
ghosts == <<due0, armed1, since1, owed, arms>>
vars   == <<regs, ghosts>>

Init ==
    /\ pending = Sources
    /\ timer = [t \in Timers |-> [lo |-> LaneMax, hi |-> LaneMax]]
    /\ t0_cnt = 0 /\ t0_run = FALSE
    /\ t1_cnt = 0 /\ t1_run = FALSE /\ t1_acc = 0
    /\ due0 = 0 /\ armed1 = 0 /\ since1 = 0 /\ owed = Sources /\ arms = 0

t1_sum == t1_acc + Step1
t1_tick == t1_sum >= Mod1

t0_expire == t0_run /\ t0_cnt = 0
t1_expire == t1_run /\ t1_tick /\ t1_cnt = 0

Expired == {s \in {3, 4} : IF s = 3 THEN t0_expire ELSE t1_expire}

\* What the bus writes on an edge: nothing of interest, an acknowledgement (the
\* sources it keeps) or a timer register with its enabled lanes.
NoWrite == [to |-> "none"]
LaneWrites == [lo : {Unwritten} \cup 0 .. LaneMax, hi : {Unwritten} \cup 0 .. LaneMax]
Writes ==
    {NoWrite}
        \cup [to : {"ack"}, keep : SUBSET Sources]
        \cup [to : Timers, lanes : LaneWrites]

Merge(old, w) ==
    [l \in {"lo", "hi"} |-> IF w.lanes[l] = Unwritten THEN old[l] ELSE w.lanes[l]]

Count(r) == r.lo + (LaneMax + 1) * r.hi

\* The count a write arms timer t with, 0 when it arms nothing.
Arms(t, w) == IF w.to = t THEN Count(Merge(timer[t], w)) ELSE 0

\* Mutant: the acknowledgement forgets the sources of its own edge.
PendingAckOnly(arrived, w) ==
    IF w.to = "ack" THEN pending \cap w.keep ELSE pending \cup arrived

\* Every source is accumulated first, then acknowledged.
PendingNext(arrived, w) ==
    IF w.to = "ack" THEN (pending \cup arrived) \cap w.keep ELSE pending \cup arrived

\* The stored value is the period less one: expiry is tested before the decrement.
Load0(n) == (Period0 * n - 1) % Width0
Load1(n) == Ticks1 * n - 1

Timer0Step(w) ==
    LET n == Arms("t0", w)
    IN  /\ t0_run' = (n # 0 \/ (t0_run /\ ~t0_expire))
        /\ t0_cnt' = IF n # 0 THEN Load0(n)
                     ELSE IF t0_run /\ t0_cnt # 0 THEN t0_cnt - 1 ELSE t0_cnt

Acc1(n) == IF n # 0 THEN 0 ELSE IF t1_run THEN t1_sum % Mod1 ELSE t1_acc

Timer1Step(w) ==
    LET n == Arms("t1", w)
    IN  /\ t1_run' = (n # 0 \/ (t1_run /\ ~t1_expire))
        /\ t1_acc' = Acc1(n)
        /\ t1_cnt' = IF n # 0 THEN Load1(n)
                     ELSE IF t1_run /\ t1_tick /\ t1_cnt # 0 THEN t1_cnt - 1 ELSE t1_cnt

RegisterStep(w) ==
    timer' = [t \in Timers |-> IF w.to = t THEN Merge(timer[t], w) ELSE timer[t]]

\* What the program armed, in the terms of the board: a count of timer 0 lasts
\* Period0 edges, one of timer 1 Ticks1 ticks of a clock of Step1 / Mod1 edges.
Armed(t, w) == IF w.to = t THEN Count(timer'[t]) ELSE 0
Due1 == armed1 # 0 /\ ((since1 + 1) * Step1) \div Mod1 >= Ticks1 * armed1

GhostStep(arrived, w) ==
    LET came == arrived \cup {s \in {3, 4} : IF s = 3 THEN due0 = 1 ELSE Due1}
        left == owed \cup came
    IN  /\ due0' = IF Armed("t0", w) # 0 THEN Period0 * Armed("t0", w)
                   ELSE IF due0 = 0 THEN 0 ELSE due0 - 1
        /\ armed1' = IF Armed("t1", w) # 0 THEN Armed("t1", w)
                     ELSE IF Due1 THEN 0 ELSE armed1
        /\ since1' = IF Armed("t1", w) # 0 \/ armed1 = 0 \/ Due1 THEN 0 ELSE since1 + 1
        /\ owed' = IF w.to = "ack" THEN left \cap w.keep ELSE left
        /\ arms' = IF w.to \in Timers THEN arms + 1 ELSE arms

Clock ==
    \E arrived \in SUBSET Pulsed, w \in Writes :
        /\ w.to \in Timers => arms < MaxArms
        /\ pending' = PendingNext(arrived \cup Expired, w)
        /\ Timer0Step(w) /\ Timer1Step(w) /\ RegisterStep(w)
        /\ GhostStep(arrived, w)

Spec == Init /\ [][Clock]_vars
-----------------------------------------------------------------------------
\* A source is pending exactly while an arrival of it is not acknowledged.  An
\* acknowledgement of another source on the same edge does not take it along and
\* none comes back (the comment on pending_sources); a timer arrives on the very
\* edge its period ends, whichever lanes armed it, for every count and however
\* often it is armed again.
PendingExact == pending = owed
=============================================================================
