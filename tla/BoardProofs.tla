----------------------------- MODULE BoardProofs -----------------------------
(***************************************************************************)
(* Proofs about Board: the main ROM cache, the interrupt controllers, the  *)
(* voices and the path of a download, for any number of lines, channels,   *)
(* sources, edges, words, transfers and PLL losses.                        *)
(***************************************************************************)
EXTENDS Board, Integers, TLAPS

(***************************************************************************)
(* A step of the board is one of the device its behaviour follows, and the *)
(* variables of the others keep their values.                              *)
(***************************************************************************)
LEMMA CacheMoves ==
    ASSUME [Next]_vars
    PROVE  (\E arrives \in BOOLEAN : Cache!Clock(arrives)) \/ Cache!Reset \/ UNCHANGED cacheVars
  BY DEF Next, Download, PllLoss, ReadRom, ResetCache, Interrupts, SoundInterrupts, Play, vars

LEMMA TimersMove == ASSUME [Next]_vars PROVE Timers!Clock \/ UNCHANGED timerVars
  BY DEF Next, Download, PllLoss, ReadRom, ResetCache, Interrupts, SoundInterrupts, Play, vars

LEMMA SoundMoves == ASSUME [Next]_vars PROVE Sound!Clock \/ UNCHANGED soundVars
  BY DEF Next, Download, PllLoss, ReadRom, ResetCache, Interrupts, SoundInterrupts, Play, vars

LEMMA VoicesMove == ASSUME [Next]_vars PROVE Voices!Clock \/ UNCHANGED voiceVars
  BY DEF Next, Download, PllLoss, ReadRom, ResetCache, Interrupts, SoundInterrupts, Play, vars

-----------------------------------------------------------------------------
\* A slot of the sound Z80 pends only for an event that nobody acknowledged or
\* withdrew, for writes of any length: an acknowledgement that lasts several
\* edges takes away more than it answers, never less.
THEOREM SoundSpurious == Spec => []NoSpurious
<1>1. Init => NoSpurious
  BY DEF Init, Sound!Init, NoSpurious, Sound!NoSpurious
<1>2. ASSUME NoSpurious, Sound!Clock PROVE NoSpurious'
  BY <1>2 DEF Sound!Clock, NoSpurious, Sound!NoSpurious, Sound!InputNext, Sound!OwedNext
<1>3. ASSUME NoSpurious, UNCHANGED soundVars PROVE NoSpurious'
  BY <1>3 DEF soundVars, NoSpurious, Sound!NoSpurious
<1>4. NoSpurious /\ [Next]_vars => NoSpurious'
  BY <1>2, <1>3, SoundMoves
<1> QED BY <1>1, <1>4, PTL DEF Spec

-----------------------------------------------------------------------------
(***************************************************************************)
(* The voices.  A channel that is off is at its start at every edge, not   *)
(* only between writes, because a voice that is still in flight on it is   *)
(* so under the write that stopped it: Need is the edges the write must    *)
(* still last for the voice to end before it.                              *)
(***************************************************************************)
VoiceStates == {"idle", "fetch_wait", "fetch_use", "loop_wait", "loop_use", "accum"}

Need(state) ==
    CASE state = "fetch_wait" -> 5
      [] state = "fetch_use"  -> 4
      [] state = "loop_wait"  -> 3
      [] state = "loop_use"   -> 2
      [] OTHER                -> 1

ShortWrites == \E n \in WriteClocks : n < 6

VoiceTypes ==
    /\ {cbank, ch, voice_ch} \subseteq Voices!Channels
    /\ st \in [Voices!Channels -> Voices!Address]
    /\ caddr \in [Voices!Channels -> Voices!Address]
    /\ chan_off_m \subseteq Voices!Channels
    /\ voice_state \in VoiceStates /\ voice_next \in Voices!Address
    /\ bus \in Voices!BusWrites \cup {Voices!Quiet}
    /\ left \in Nat /\ (left = 0 => bus = Voices!Quiet)

OffRest == \A c \in chan_off_m : Voices!Rests(c)

\* The mask of an off write takes effect on the first of its edges.
MaskTaken == bus.reg = "off" => chan_off_m = bus.mask \/ left \in WriteClocks

\* A voice on a channel that is off is covered by the write, unless that is a
\* short one, which leaves it one edge too many at the loop marker.
Covered ==
    voice_state # "idle" /\ voice_ch \in chan_off_m =>
        \/ bus.reg = "off" /\ left >= Need(voice_state)
        \/ ShortWrites /\ bus.reg = "off" /\ voice_state # "accum" /\ left + 1 = Need(voice_state)
        \/ /\ ShortWrites /\ left = 0 /\ voice_state = "accum"
           /\ voice_advance => voice_next = Voices!After(LoopStart[voice_ch])

VoiceInv == VoiceTypes /\ OffRest /\ MaskTaken /\ Covered

\* The addresses of the wave RAM wrap.
LEMMA AfterIsAddress == ASSUME NEW a \in Voices!Address PROVE Voices!After(a) \in Voices!Address
  BY BoardAssumption DEF BoardAssumption, Voices!VoiceAssumption, Voices!After, Voices!Address

LEMMA ChannelWraps ==
    ASSUME NEW c \in Voices!Channels
    PROVE  (c + 1) % (Last + 1) = IF c = Last THEN 0 ELSE c + 1
  BY BoardAssumption DEF BoardAssumption, Voices!VoiceAssumption, Voices!Channels

\* A write goes on, ends, or begins.
LEMMA BusMoves ==
    ASSUME VoiceTypes, Voices!BusStep
    PROVE  \/ left > 1 /\ left' = left - 1 /\ bus' = bus
           \/ left <= 1 /\ left' = 0 /\ bus' = Voices!Quiet
           \/ left = 0 /\ left' \in WriteClocks /\ left' \in Nat /\ left' >= 5 /\ bus' \in Voices!BusWrites
  BY BoardAssumption DEF BoardAssumption, Voices!VoiceAssumption, Voices!BusStep

LEMMA VoiceTypesInit == ASSUME Init PROVE VoiceTypes
<1> USE BoardAssumption DEF BoardAssumption, Voices!VoiceAssumption
<1>1. 0 \in Voices!Address /\ 0 \in Voices!Channels
  BY DEF Voices!Address, Voices!Channels
<1> QED BY <1>1 DEF Init, Voices!Init, VoiceTypes, VoiceStates

LEMMA VoiceTypesStep == ASSUME VoiceTypes, Voices!Clock PROVE VoiceTypes'
<1> USE BoardAssumption DEF BoardAssumption, Voices!VoiceAssumption
<1>0. PICK marker \in BOOLEAN :
        Voices!PipelineStep(marker) /\ caddr' = Voices!Written(Voices!Advanced(marker))
  BY DEF Voices!Clock
<1>1. {cbank, ch, voice_ch}' \subseteq Voices!Channels
  <2>1. ch' \in Voices!Channels
    BY <1>0, ChannelWraps DEF Voices!PipelineStep, VoiceTypes, Voices!Channels
  <2>2. voice_ch' \in Voices!Channels
    BY <1>0 DEF Voices!PipelineStep, VoiceTypes
  <2>3. cbank' \in Voices!Channels
    BY DEF Voices!Clock, Voices!RegisterStep, VoiceTypes, Voices!BusWrites, Voices!Quiet
  <2> QED BY <2>1, <2>2, <2>3
<1>2. voice_state' \in VoiceStates
  BY <1>0 DEF Voices!PipelineStep, VoiceTypes, VoiceStates
<1>3. voice_next' \in Voices!Address
  BY <1>0, AfterIsAddress DEF Voices!PipelineStep, VoiceTypes
<1>4. st' \in [Voices!Channels -> Voices!Address] /\ chan_off_m' \subseteq Voices!Channels
  BY DEF Voices!Clock, Voices!RegisterStep, VoiceTypes, Voices!BusWrites, Voices!Quiet
<1>5. caddr' \in [Voices!Channels -> Voices!Address]
  <2>1. Voices!Advanced(marker) \in [Voices!Channels -> Voices!Address]
    BY DEF Voices!Advanced, VoiceTypes
  <2> QED BY <1>0, <2>1 DEF Voices!Written, VoiceTypes, Voices!BusWrites, Voices!Quiet
<1>6. bus' \in Voices!BusWrites \cup {Voices!Quiet}
  BY BusMoves DEF Voices!Clock, VoiceTypes
<1>7. left' \in Nat /\ (left' = 0 => bus' = Voices!Quiet)
  BY BusMoves DEF Voices!Clock, VoiceTypes
<1> QED BY <1>1, <1>2, <1>3, <1>4, <1>5, <1>6, <1>7 DEF VoiceTypes

\* A voice in flight on a channel that is off does not move it, but at the end
\* of a short write.
LEMMA CoveredVoiceStays ==
    ASSUME VoiceInv, NEW marker \in BOOLEAN, bus.reg # "off", NEW c \in chan_off_m
    PROVE  \/ Voices!Advanced(marker)[c] = caddr[c]
           \/ ShortWrites /\ Voices!Advanced(marker)[c] = Voices!After(LoopStart[c])
<1>1. CASE voice_ch = c /\ voice_state # "idle"
  <2>1. voice_state = "accum" /\ ShortWrites
        /\ (voice_advance => voice_next = Voices!After(LoopStart[voice_ch]))
    BY <1>1 DEF VoiceInv, Covered
  <2> QED BY <1>1, <2>1 DEF VoiceInv, VoiceTypes, Voices!Advanced
<1>2. CASE voice_ch # c \/ voice_state = "idle"
  BY <1>2 DEF VoiceInv, VoiceTypes, Voices!Advanced
<1> QED BY <1>1, <1>2

LEMMA OffRestStep == ASSUME VoiceInv, Voices!Clock PROVE OffRest'
<1>0. PICK marker \in BOOLEAN : caddr' = Voices!Written(Voices!Advanced(marker))
  BY DEF Voices!Clock
<1> DEFINE moved == Voices!Advanced(marker)
<1>1. moved \in [Voices!Channels -> Voices!Address]
  BY BoardAssumption
     DEF BoardAssumption, Voices!VoiceAssumption, Voices!Advanced, VoiceInv, VoiceTypes
<1> SUFFICES ASSUME NEW c \in chan_off_m' PROVE Voices!Rests(c)'
  BY DEF OffRest
<1>2. CASE bus.reg = "off"
  <2>1. c \in bus.mask /\ st' = st
    BY <1>2 DEF Voices!Clock, Voices!RegisterStep
  <2>2. c \in Voices!Channels
    BY <1>2, <2>1 DEF VoiceInv, VoiceTypes, Voices!BusWrites, Voices!Quiet
  <2> QED BY <1>0, <1>2, <2>1, <2>2 DEF Voices!Written, Voices!Rests
<1>3. CASE bus.reg # "off"
  <2>1. c \in chan_off_m /\ c \in Voices!Channels /\ cbank \in Voices!Channels
    BY <1>3 DEF Voices!Clock, Voices!RegisterStep, VoiceInv, VoiceTypes
  <2>2. moved[c] = caddr[c] \/ (ShortWrites /\ moved[c] = Voices!After(LoopStart[c]))
    BY <1>3, <2>1, CoveredVoiceStays
  <2>3. Voices!Rests(c)
    BY <2>1 DEF VoiceInv, OffRest
  <2>4. CASE bus.reg = "st" /\ c = cbank
    BY <1>0, <1>1, <2>1, <2>4
       DEF Voices!Clock, Voices!RegisterStep, Voices!Written, Voices!Rests, VoiceInv, VoiceTypes
  <2>5. CASE ~(bus.reg = "st" /\ c = cbank)
    <3>1. caddr'[c] = moved[c]
      BY <1>0, <1>1, <1>3, <2>1, <2>5 DEF Voices!Written
    <3>2. st'[c] = st[c]
      BY <2>1, <2>5 DEF Voices!Clock, Voices!RegisterStep, VoiceInv, VoiceTypes
    <3> QED BY <2>2, <2>3, <3>1, <3>2 DEF Voices!Rests, ShortWrites
  <2> QED BY <2>4, <2>5
<1> QED BY <1>2, <1>3

LEMMA MaskTakenStep == ASSUME VoiceInv, Voices!Clock PROVE MaskTaken'
<1>1. Voices!BusStep /\ Voices!RegisterStep /\ VoiceTypes
  BY DEF Voices!Clock, VoiceInv
<1> SUFFICES ASSUME bus'.reg = "off", left' \notin WriteClocks PROVE chan_off_m' = bus'.mask
  BY DEF MaskTaken
<1>2. bus' = bus
  BY <1>1, BusMoves DEF Voices!Quiet
<1> QED BY <1>1, <1>2 DEF Voices!RegisterStep

\* A voice is launched on a channel that is on, or goes one state further.
LEMMA VoiceMoves ==
    ASSUME VoiceTypes, NEW marker \in BOOLEAN, Voices!PipelineStep(marker), voice_state' # "idle"
    PROVE  \/ /\ voice_state = "idle" /\ voice_state' = "fetch_wait"
              /\ voice_ch' = ch /\ ch \notin chan_off_m
           \/ /\ voice_ch' = voice_ch
              /\ \/ voice_state = "fetch_wait" /\ voice_state' = "fetch_use"
                 \/ voice_state = "fetch_use" /\ voice_state' \in {"loop_wait", "accum"}
                 \/ voice_state = "loop_wait" /\ voice_state' = "loop_use"
                 \/ /\ voice_state = "loop_use" /\ voice_state' = "accum"
                    /\ voice_advance' => voice_next' = Voices!After(LoopStart[voice_ch'])
<1>1. CASE voice_state = "idle"
  <2>1. voice_state' = "fetch_wait" /\ Voices!Starts
    BY <1>1 DEF Voices!PipelineStep
  <2> QED BY <1>1, <2>1 DEF Voices!PipelineStep, Voices!Starts
<1>2. CASE voice_state = "loop_use"
  BY <1>2 DEF Voices!PipelineStep, Voices!Launches
<1>3. CASE voice_state \in {"fetch_wait", "fetch_use", "loop_wait", "accum"}
  BY <1>3 DEF Voices!PipelineStep, Voices!Launches
<1> QED BY <1>1, <1>2, <1>3 DEF VoiceTypes, VoiceStates

LEMMA CoveredStep == ASSUME VoiceInv, Voices!Clock PROVE Covered'
<1>0. PICK marker \in BOOLEAN : Voices!PipelineStep(marker)
  BY DEF Voices!Clock
<1>1. Voices!BusStep /\ Voices!RegisterStep /\ VoiceTypes
  BY DEF Voices!Clock, VoiceInv
<1> SUFFICES ASSUME voice_state' # "idle", voice_ch' \in chan_off_m'
    PROVE  \/ bus'.reg = "off" /\ left' >= Need(voice_state')
           \/ /\ ShortWrites /\ bus'.reg = "off" /\ voice_state' # "accum"
              /\ left' + 1 = Need(voice_state')
           \/ /\ ShortWrites /\ left' = 0 /\ voice_state' = "accum"
              /\ voice_advance' => voice_next' = Voices!After(LoopStart[voice_ch'])
  BY DEF Covered, ShortWrites
<1>2. CASE bus.reg # "off"
  <2>1. chan_off_m' = chan_off_m
    BY <1>1, <1>2 DEF Voices!RegisterStep
  <2>2. voice_ch' = voice_ch /\ voice_state # "idle"
    BY <1>0, <1>1, <2>1, VoiceMoves
  <2>3. voice_state = "accum"
    BY <1>2, <2>1, <2>2 DEF VoiceInv, Covered
  <2> QED BY <1>0, <1>1, <2>3, VoiceMoves
<1>3. CASE bus.reg = "off"
  <2>1. chan_off_m' = bus.mask
    BY <1>1, <1>3 DEF Voices!RegisterStep
  <2>2. left \in Nat /\ left # 0
    BY <1>1, <1>3 DEF VoiceTypes, Voices!Quiet
  <2>3. left' = left - 1 /\ (left' # 0 => bus'.reg = "off")
    BY <1>1, <1>3, <2>2, BusMoves
  <2>4. CASE voice_state = "idle" \/ voice_ch \notin chan_off_m
    <3>1. left \in WriteClocks
      BY <1>0, <1>1, <1>3, <2>1, <2>4, VoiceMoves DEF VoiceInv, MaskTaken
    <3>2. left >= 5 /\ (left >= 6 \/ ShortWrites)
      BY <2>2, <3>1, BoardAssumption DEF BoardAssumption, Voices!VoiceAssumption, ShortWrites
    <3>3. CASE voice_state = "idle"
      <4>1. voice_state' = "fetch_wait"
        BY <1>0, <1>1, <3>3, VoiceMoves
      <4> QED BY <2>2, <2>3, <3>2, <4>1 DEF Need
    <3>4. CASE voice_state # "idle"
      <4>1. voice_state' \in {"fetch_use", "loop_wait", "loop_use", "accum"}
        BY <1>0, <1>1, <3>4, VoiceMoves
      <4> QED BY <2>2, <2>3, <3>2, <4>1 DEF Need
    <3> QED BY <3>3, <3>4
  <2>5. CASE voice_state # "idle" /\ voice_ch \in chan_off_m
    <3>1. \/ left >= Need(voice_state)
          \/ ShortWrites /\ voice_state # "accum" /\ left + 1 = Need(voice_state)
      BY <2>2, <2>5 DEF VoiceInv, Covered
    <3>2. \/ voice_state = "fetch_wait" /\ voice_state' = "fetch_use"
          \/ voice_state = "fetch_use" /\ voice_state' \in {"loop_wait", "accum"}
          \/ voice_state = "loop_wait" /\ voice_state' = "loop_use"
          \/ /\ voice_state = "loop_use" /\ voice_state' = "accum"
             /\ voice_advance' => voice_next' = Voices!After(LoopStart[voice_ch'])
      BY <1>0, <1>1, <2>5, VoiceMoves
    <3> QED BY <2>2, <2>3, <3>1, <3>2 DEF Need
  <2> QED BY <2>4, <2>5
<1> QED BY <1>2, <1>3

\* A channel that is off rests at its start once the write that stopped it has
\* ended, for any number of channels and any wave RAM: what writes last at least
\* six edges always do, and what a shorter one may leave at the loop point.
THEOREM VoicesRest == Spec => []StoppedRests
<1>1. ASSUME Init PROVE VoiceInv
  <2>1. VoiceTypes /\ Voices!Init
    BY <1>1, VoiceTypesInit DEF Init
  <2>2. OffRest
    BY <2>1 DEF Voices!Init, OffRest, Voices!Rests
  <2>3. MaskTaken /\ Covered
    BY <2>1 DEF Voices!Init, MaskTaken, Covered, Voices!Quiet
  <2> QED BY <2>1, <2>2, <2>3 DEF VoiceInv
<1>2. VoiceInv /\ [Next]_vars => VoiceInv'
  <2>1. ASSUME VoiceInv, UNCHANGED voiceVars PROVE VoiceInv'
    BY <2>1 DEF voiceVars, VoiceInv, VoiceTypes, OffRest, Voices!Rests, MaskTaken, Covered
  <2>2. ASSUME VoiceInv, Voices!Clock PROVE VoiceInv'
    BY <2>2, VoiceTypesStep, OffRestStep, MaskTakenStep, CoveredStep DEF VoiceInv
  <2> QED BY <2>1, <2>2, VoicesMove
<1>3. VoiceInv => StoppedRests
  BY DEF VoiceInv, OffRest, StoppedRests, Voices!StoppedRests
<1> QED BY <1>1, <1>2, <1>3, PTL DEF Spec

-----------------------------------------------------------------------------
(***************************************************************************)
(* The mix.  The accumulator holds what the frame did, except between the  *)
(* end of a sample and the launch of channel 0, where it is empty and the  *)
(* frame still the last one.                                               *)
(***************************************************************************)
MixInv ==
    /\ VoiceTypes
    /\ voice_state # "idle" => ch = IF voice_ch = Last THEN 0 ELSE voice_ch + 1
    /\ acc = IF voice_state = "idle" /\ ch = 0 THEN {} ELSE frame

\* The channel to launch next, while a voice is in flight and when one is launched.
LEMMA ChannelMoves ==
    ASSUME VoiceTypes, NEW marker \in BOOLEAN, Voices!PipelineStep(marker)
    PROVE  /\ Voices!Launches => ch' = (IF ch = Last THEN 0 ELSE ch + 1) /\ voice_ch' = ch
           /\ ~Voices!Launches => ch' = ch /\ voice_ch' = voice_ch
           /\ voice_state' = "idle" <=>
                  voice_state = "accum" \/ (voice_state = "idle" /\ ~Voices!Starts)
<1>1. /\ Voices!Launches => ch' = (IF ch = Last THEN 0 ELSE ch + 1) /\ voice_ch' = ch
      /\ ~Voices!Launches => ch' = ch /\ voice_ch' = voice_ch
  BY ChannelWraps DEF Voices!PipelineStep, VoiceTypes
<1>2. CASE voice_state \in {"idle", "accum"}
  BY <1>1, <1>2 DEF Voices!PipelineStep
<1>3. CASE voice_state \in {"fetch_wait", "fetch_use", "loop_wait", "loop_use"}
  BY <1>1, <1>3 DEF Voices!PipelineStep
<1> QED BY <1>2, <1>3 DEF VoiceTypes, VoiceStates

\* Where a sample ends, the accumulator is the frame.
LEMMA MixedAtEnd == ASSUME MixInv, Voices!SampleEnds PROVE acc = frame
  BY BoardAssumption
     DEF BoardAssumption, Voices!VoiceAssumption, MixInv, Voices!SampleEnds, Voices!Launches

LEMMA MixStepInv == ASSUME MixInv, Voices!Clock PROVE MixInv'
<1> USE BoardAssumption DEF BoardAssumption, Voices!VoiceAssumption
<1>0. PICK marker \in BOOLEAN : Voices!PipelineStep(marker)
  BY DEF Voices!Clock
<1>1. VoiceTypes /\ VoiceTypes' /\ Voices!MixStep
  BY VoiceTypesStep DEF MixInv, Voices!Clock
<1>2. ch \in 0 .. Last /\ voice_ch \in 0 .. Last /\ Last # 0
  BY <1>1 DEF VoiceTypes, Voices!Channels
<1>3. voice_state' # "idle" => ch' = IF voice_ch' = Last THEN 0 ELSE voice_ch' + 1
  <2>1. CASE Voices!Launches
    BY <1>0, <1>1, <2>1, ChannelMoves
  <2>2. CASE ~Voices!Launches
    <3>1. voice_state' # "idle" => voice_state # "idle"
      BY <1>0, <1>1, <2>2, ChannelMoves DEF Voices!Starts
    <3> QED BY <1>0, <1>1, <2>2, <3>1, ChannelMoves DEF MixInv
  <2> QED BY <2>1, <2>2
<1>4. acc' = IF voice_state' = "idle" /\ ch' = 0 THEN {} ELSE frame'
  <2>1. CASE Voices!Launches
    <3>1. voice_state = "idle" /\ Voices!Sounding = {}
      BY <2>1 DEF Voices!Launches, Voices!Sounding
    <3>2. ch' = (IF ch = Last THEN 0 ELSE ch + 1) /\ (voice_state' = "idle" <=> ~Voices!Starts)
      BY <1>0, <1>1, <2>1, <3>1, ChannelMoves
    <3>3. Voices!SampleEnds <=> ~Voices!Starts /\ ch = Last
      BY <2>1, <3>1 DEF Voices!SampleEnds
    <3>4. acc' = (IF Voices!SampleEnds THEN {} ELSE acc) /\ frame' = (IF ch = 0 THEN {} ELSE frame)
      BY <1>1, <2>1, <3>1 DEF Voices!MixStep, Voices!AccNext
    <3> QED BY <1>2, <3>1, <3>2, <3>3, <3>4 DEF MixInv
  <2>2. CASE ~Voices!Launches
    <3>1. ch' = ch /\ frame' = frame \cup Voices!Sounding
      BY <1>0, <1>1, <2>2, ChannelMoves DEF Voices!MixStep
    <3>2. CASE voice_state = "accum"
      <4>1. voice_state' = "idle"
        BY <1>0, <1>1, <3>2, ChannelMoves
      <4>2. Voices!SampleEnds <=> voice_ch = Last
        BY <2>2, <3>2 DEF Voices!SampleEnds
      <4>3. ch = 0 <=> voice_ch = Last
        BY <1>2, <3>2 DEF MixInv
      <4> QED BY <1>1, <3>1, <3>2, <4>1, <4>2, <4>3 DEF Voices!MixStep, Voices!AccNext, MixInv
    <3>3. CASE voice_state # "accum"
      <4>1. acc' = acc /\ frame' = frame
        BY <1>1, <2>2, <3>1, <3>3
           DEF Voices!MixStep, Voices!AccNext, Voices!SampleEnds, Voices!Sounding
      <4>2. voice_state' = "idle" <=> voice_state = "idle"
        BY <1>0, <1>1, <2>2, <3>3, ChannelMoves DEF Voices!Starts
      <4> QED BY <3>1, <4>1, <4>2 DEF MixInv
    <3> QED BY <3>2, <3>3
  <2> QED BY <2>1, <2>2
<1> QED BY <1>1, <1>3, <1>4 DEF MixInv

\* A sample mixes the channels that sounded in its frame, each of them and none
\* of another sample, for any number of channels, and whatever is switched off
\* in the middle of it.
THEOREM SamplesComplete == Spec => SampleComplete
<1>1. Init => MixInv
  BY VoiceTypesInit DEF Init, Voices!Init, MixInv
<1>2. MixInv /\ [Next]_vars => MixInv'
  <2>1. ASSUME MixInv, UNCHANGED voiceVars PROVE MixInv'
    BY <2>1 DEF voiceVars, MixInv, VoiceTypes
  <2> QED BY <2>1, MixStepInv, VoicesMove
<1>3. MixInv /\ [Next]_vars => [Voices!SampleEnds => out' = frame \cup Voices!Sounding]_(Voices!vars)
  <2>1. ASSUME MixInv, Voices!Clock, Voices!SampleEnds PROVE out' = frame \cup Voices!Sounding
    BY <2>1, MixedAtEnd DEF Voices!Clock, Voices!MixStep
  <2>2. UNCHANGED voiceVars => UNCHANGED Voices!vars
    BY DEF voiceVars, Voices!vars, Voices!regs, Voices!voice
  <2> QED BY <2>1, <2>2, VoicesMove
<1> QED BY <1>1, <1>2, <1>3, PTL DEF Spec, SampleComplete, Voices!SampleComplete

-----------------------------------------------------------------------------
(***************************************************************************)
(* The cache of the main ROM.  It works for one request at a time: that of *)
(* a client which asks, was not answered and holds its address.  The SDRAM *)
(* then owes the line of the fill or nothing.                              *)
(***************************************************************************)
Requests == [client : Cache!Clients, line : Lines]

CacheTypes ==
    /\ {if_req, prot_req, m_req, ack_r, lookup_pending, filling, rom_req} \subseteq BOOLEAN
    /\ addr \in [Cache!Clients -> Lines]
    /\ ack \in [Cache!Clients -> BOOLEAN]
    /\ DOMAIN line_out = Cache!Clients /\ DOMAIN cache_mem = Cache!Indices
    /\ lookup \in Requests /\ fill \in Requests
    /\ line_owed \in [pending : BOOLEAN, line : Lines]

\* r is the request of a client that waits for it.
Waits(r) ==
    /\ Cache!Asks[r.client] /\ ~ack[r.client]
    /\ r.line = addr[r.client]

\* A valid entry holds the line its tag tells, of the game that is loaded.
EntriesTrue ==
    \A line \in Lines :
        Cache!Index(line) \in cache_valid /\ cache_mem[Cache!Index(line)].tag = Cache!Tag(line)
            => cache_mem[Cache!Index(line)].data = Cache!Content(line)

LookupLive ==
    lookup_pending =>
        /\ ~filling /\ Waits(lookup)
        /\ cache_q = cache_mem[Cache!Index(lookup.line)]

FillLive ==
    /\ filling =>
        /\ Waits(fill)
        /\ rom_req \/ line_owed.pending
        /\ line_owed.pending => line_owed.line = fill.line
    /\ rom_req => filling /\ ~line_owed.pending
    /\ line_owed.pending => filling

Answered ==
    /\ \A c \in Cache!Clients :
           ack[c] /\ Cache!Asks[c] => line_out[c] = Cache!Content(addr[c])
    /\ m_req /\ ack_r => rmux = Cache!Content(addr["data"])

CacheInv == CacheTypes /\ EntriesTrue /\ LookupLive /\ FillLive /\ Answered

\* An index and a tag make a line.
LEMMA LineOfTag ==
    \A a, b \in Lines :
        Cache!Index(a) = Cache!Index(b) /\ Cache!Tag(a) = Cache!Tag(b) => a = b
  BY BoardAssumption
     DEF BoardAssumption, Cache!CacheAssumption, Cache!Index, Cache!Tag

\* A client that asks holds its address, and until it is acknowledged it asks.
LEMMA AddressHeld ==
    ASSUME CacheTypes, Cache!Readers, NEW c \in Cache!Clients
    PROVE  /\ Cache!Asks[c] => addr'[c] = addr[c]
           /\ m_req => addr'["data"] = addr["data"]
           /\ Cache!Asks[c] /\ ~ack[c] => Cache!Asks'[c]
<1>1. /\ if_req => addr'["fetch"] = addr["fetch"]
      /\ prot_req => addr'["prot"] = addr["prot"]
      /\ m_req => addr'["data"] = addr["data"]
  BY DEF Cache!Readers, Cache!Addresses, Cache!Raises, CacheTypes, Cache!Clients
<1>2. /\ if_req /\ ~ack["fetch"] => if_req'
      /\ prot_req /\ ~ack["prot"] => prot_req'
      /\ Cache!data_req /\ ~ack["data"] => Cache!data_req'
  BY DEF Cache!Readers, Cache!FetchStep, Cache!ProtStep, Cache!BusStep, Cache!data_req,
         CacheTypes, Cache!Clients
<1>3. /\ Cache!Asks["fetch"] = if_req /\ Cache!Asks'["fetch"] = if_req'
      /\ Cache!Asks["prot"] = prot_req /\ Cache!Asks'["prot"] = prot_req'
      /\ Cache!Asks["data"] = Cache!data_req /\ Cache!Asks'["data"] = Cache!data_req'
  BY DEF Cache!Asks
<1>4. Cache!data_req => m_req
  BY DEF Cache!data_req
<1>5. CASE c = "fetch"
  BY <1>1, <1>2, <1>3, <1>5
<1>6. CASE c = "prot"
  BY <1>1, <1>2, <1>3, <1>6
<1>7. CASE c = "data"
  BY <1>1, <1>2, <1>3, <1>4, <1>7
<1> QED BY <1>5, <1>6, <1>7 DEF Cache!Clients

\* A client that waits goes on waiting until it is answered.
LEMMA WaitsKept ==
    ASSUME CacheInv, NEW arrives \in BOOLEAN, Cache!Clock(arrives),
           NEW r \in Requests, Waits(r), ~Cache!Answers(r.client, arrives)
    PROVE  Waits(r)'
<1>1. r.client \in Cache!Clients
  BY DEF Requests
<1>2. Cache!Readers /\ CacheTypes
  BY DEF Cache!Clock, CacheInv
<1>3. addr'[r.client] = addr[r.client] /\ Cache!Asks'[r.client]
  BY <1>1, <1>2, AddressHeld DEF Waits
<1>4. ~ack'[r.client]
  BY <1>1 DEF Cache!Clock, Cache!Cache, Cache!AckNext, Waits
<1> QED BY <1>3, <1>4 DEF Waits

\* The line that comes from the SDRAM is that of the fill.
LEMMA ArrivesOwn ==
    ASSUME CacheInv, NEW arrives \in BOOLEAN, Cache!Clock(arrives), arrives
    PROVE  filling /\ ~rom_req /\ line_owed.line = fill.line
  BY DEF Cache!Clock, Cache!Memory, CacheInv, FillLive

LEMMA EntriesStep ==
    ASSUME CacheInv, NEW arrives \in BOOLEAN, Cache!Clock(arrives) PROVE EntriesTrue'
<1> SUFFICES ASSUME NEW line \in Lines, Cache!Index(line) \in cache_valid',
                    cache_mem'[Cache!Index(line)].tag = Cache!Tag(line)
             PROVE  cache_mem'[Cache!Index(line)].data = Cache!Content(line)'
  BY DEF EntriesTrue
<1>1. Cache!Content(line)' = Cache!Content(line)
  BY DEF Cache!Clock, Cache!Content
<1>2. CASE filling /\ arrives
  <2>1. /\ cache_mem' = [cache_mem EXCEPT ![Cache!Index(fill.line)] = Cache!Entry]
        /\ cache_valid' = cache_valid \cup {Cache!Index(fill.line)}
    BY <1>2 DEF Cache!Clock, Cache!Cache
  <2>2. Cache!Index(line) \in DOMAIN cache_mem /\ fill.line \in Lines
    BY DEF CacheInv, CacheTypes, Cache!Indices, Requests
  <2>3. CASE Cache!Index(line) = Cache!Index(fill.line)
    <3>1. cache_mem'[Cache!Index(line)] = Cache!Entry
      BY <2>1, <2>2, <2>3
    <3>2. Cache!Tag(line) = Cache!Tag(fill.line)
      BY <3>1 DEF Cache!Entry
    <3>3. line = fill.line
      BY <2>2, <2>3, <3>2, LineOfTag
    <3>4. line_owed.line = fill.line
      BY <1>2, ArrivesOwn
    <3> QED BY <1>1, <3>1, <3>3, <3>4 DEF Cache!Entry
  <2>4. CASE Cache!Index(line) # Cache!Index(fill.line)
    BY <1>1, <2>1, <2>2, <2>4 DEF CacheInv, EntriesTrue
  <2> QED BY <2>3, <2>4
<1>3. CASE ~(filling /\ arrives)
  BY <1>1, <1>3 DEF Cache!Clock, Cache!Cache, CacheInv, EntriesTrue
<1> QED BY <1>2, <1>3

LEMMA LookupStep ==
    ASSUME CacheInv, NEW arrives \in BOOLEAN, Cache!Clock(arrives) PROVE LookupLive'
<1> SUFFICES ASSUME lookup_pending'
    PROVE  ~filling' /\ Waits(lookup)' /\ cache_q' = cache_mem'[Cache!Index(lookup'.line)]
  BY DEF LookupLive
<1>1. Cache!Launches /\ lookup' = [client |-> Cache!Chosen, line |-> addr[Cache!Chosen]]
  BY DEF Cache!Clock, Cache!Cache
<1>2. Cache!Chosen \in Cache!Clients /\ Cache!Wants(Cache!Chosen)
  BY <1>1 DEF Cache!Launches, Cache!Chosen, Cache!Clients
<1>3. PICK r \in Requests : lookup' = r /\ r.line = addr[Cache!Chosen] /\ Waits(r)
  BY <1>1, <1>2 DEF Requests, Waits, Cache!Wants, CacheInv, CacheTypes
<1>4. ~filling /\ ~lookup_pending
  BY <1>1 DEF Cache!Launches
<1>5. Waits(r)'
  <2>1. ~Cache!Answers(r.client, arrives)
    BY <1>4 DEF Cache!Answers
  <2> QED BY <1>3, <2>1, WaitsKept
<1>6. ~filling' /\ cache_mem' = cache_mem
  BY <1>4 DEF Cache!Clock, Cache!Cache, Cache!Misses
<1>7. cache_q' = cache_mem[Cache!Index(r.line)]
  BY <1>3, <1>4 DEF Cache!Clock, Cache!Cache
<1> QED BY <1>3, <1>5, <1>6, <1>7 DEF Waits

LEMMA FillStep ==
    ASSUME CacheInv, NEW arrives \in BOOLEAN, Cache!Clock(arrives) PROVE FillLive'
<1>1. /\ rom_req' = Cache!Misses
      /\ fill' = (IF Cache!Misses THEN lookup ELSE fill)
      /\ filling' = (Cache!Misses \/ (filling /\ ~arrives))
      /\ line_owed' = IF rom_req THEN [pending |-> TRUE, line |-> fill.line]
                      ELSE [line_owed EXCEPT !.pending = @ /\ ~arrives]
      /\ arrives => filling /\ ~rom_req
  <2>1. arrives => filling /\ ~rom_req
    BY ArrivesOwn
  <2> QED BY <2>1 DEF Cache!Clock, Cache!Cache, Cache!Memory
<1>2. /\ lookup \in Requests /\ fill \in Requests
      /\ line_owed \in [pending : BOOLEAN, line : Lines]
  BY DEF CacheInv, CacheTypes
<1>3. CASE Cache!Misses
  <2>1. ~filling /\ ~rom_req /\ ~line_owed.pending /\ Waits(lookup)
    BY <1>3 DEF Cache!Misses, CacheInv, FillLive, LookupLive
  <2>2. ~Cache!Answers(lookup.client, arrives)
    BY <1>3 DEF Cache!Misses, Cache!Answers
  <2>3. PICK r \in Requests : r = lookup
    BY <1>2
  <2>4. Waits(r)'
    BY <2>1, <2>2, <2>3, WaitsKept
  <2>5. Waits(fill)'
    BY <1>1, <1>3, <2>3, <2>4 DEF Waits
  <2>6. filling' /\ rom_req' /\ ~line_owed'.pending
    BY <1>1, <1>2, <1>3, <2>1
  <2> QED BY <2>5, <2>6 DEF FillLive
<1>4. CASE ~Cache!Misses /\ filling /\ ~arrives
  <2>1. Waits(fill) /\ ~Cache!Answers(fill.client, arrives)
    BY <1>4 DEF CacheInv, FillLive, Cache!Answers
  <2>2. PICK r \in Requests : r = fill
    BY <1>2
  <2>3. Waits(r)'
    BY <2>1, <2>2, WaitsKept
  <2>4. Waits(fill)'
    BY <1>1, <1>4, <2>2, <2>3 DEF Waits
  <2>5. filling' /\ ~rom_req' /\ line_owed'.pending /\ line_owed'.line = fill'.line
    BY <1>1, <1>2, <1>4 DEF CacheInv, FillLive
  <2> QED BY <2>4, <2>5 DEF FillLive
<1>5. CASE ~Cache!Misses /\ ~(filling /\ ~arrives)
  <2>1. ~filling' /\ ~rom_req'
    BY <1>1, <1>5
  <2>2. ~line_owed'.pending
    BY <1>1, <1>2, <1>5 DEF CacheInv, FillLive
  <2> QED BY <2>1, <2>2 DEF FillLive
<1> QED BY <1>3, <1>4, <1>5

\* What a client is answered with is the line it asks for.
LEMMA AnswerOwn ==
    ASSUME CacheInv, NEW arrives \in BOOLEAN, Cache!Clock(arrives),
           NEW c \in Cache!Clients, Cache!Answers(c, arrives)
    PROVE  line_out'[c] = Cache!Content(addr[c])'
<1>1. Cache!Readers /\ CacheTypes
  BY DEF Cache!Clock, CacheInv
<1>2. line_out'[c] = IF filling THEN Cache!Entry.data ELSE cache_q.data
  BY DEF Cache!Clock, Cache!Cache
<1>3. game' = game
  BY DEF Cache!Clock
<1>4. CASE filling
  <2>1. arrives /\ fill.client = c
    BY <1>4 DEF Cache!Answers
  <2>2. line_owed.line = fill.line
    BY <2>1, ArrivesOwn
  <2>3. fill.line = addr[c] /\ Cache!Asks[c]
    BY <1>4, <2>1 DEF CacheInv, FillLive, Waits
  <2>4. addr'[c] = addr[c]
    BY <1>1, <2>3, AddressHeld
  <2> QED BY <1>2, <1>3, <1>4, <2>2, <2>3, <2>4 DEF Cache!Entry, Cache!Content
<1>5. CASE ~filling
  <2>1. lookup_pending /\ Cache!Hit /\ lookup.client = c
    BY <1>5 DEF Cache!Answers
  <2>2. /\ lookup.line = addr[c] /\ Cache!Asks[c]
        /\ cache_q = cache_mem[Cache!Index(lookup.line)]
    BY <2>1 DEF CacheInv, LookupLive, Waits
  <2>3. lookup.line \in Lines
    BY <1>1 DEF CacheTypes, Requests
  <2>4. cache_q.data = Cache!Content(lookup.line)
    BY <2>1, <2>2, <2>3 DEF CacheInv, EntriesTrue, Cache!Hit
  <2>5. addr'[c] = addr[c]
    BY <1>1, <2>2, AddressHeld
  <2> QED BY <1>2, <1>3, <1>5, <2>2, <2>4, <2>5 DEF Cache!Content
<1> QED BY <1>4, <1>5

LEMMA AnsweredStep ==
    ASSUME CacheInv, NEW arrives \in BOOLEAN, Cache!Clock(arrives) PROVE Answered'
<1>1. Cache!Readers /\ CacheTypes /\ game' = game
  BY DEF Cache!Clock, CacheInv
<1>2. ASSUME NEW c \in Cache!Clients, ack'[c], Cache!Asks'[c]
      PROVE  line_out'[c] = Cache!Content(addr[c])'
  <2>1. CASE Cache!Answers(c, arrives)
    BY <2>1, AnswerOwn
  <2>2. CASE ~Cache!Answers(c, arrives)
    <3>1. ack[c] /\ Cache!Asks[c] /\ line_out'[c] = line_out[c]
      BY <1>2, <2>2 DEF Cache!Clock, Cache!Cache, Cache!AckNext
    <3>2. addr'[c] = addr[c]
      BY <1>1, <3>1, AddressHeld
    <3> QED BY <1>1, <3>1, <3>2 DEF CacheInv, Answered, Cache!Content
  <2> QED BY <2>1, <2>2
<1>3. ASSUME m_req', ack_r' PROVE rmux' = Cache!Content(addr["data"])'
  <2>1. m_req /\ (ack_r \/ ack["data"])
    BY <1>1, <1>3 DEF Cache!Readers, Cache!BusStep
  <2>2. addr'["data"] = addr["data"]
    BY <1>1, <2>1, AddressHeld DEF Cache!Clients
  <2>3. CASE ack_r
    BY <1>1, <2>1, <2>2, <2>3
       DEF Cache!Readers, Cache!BusStep, Cache!data_req, CacheInv, Answered, Cache!Content
  <2>4. CASE ~ack_r
    <3>1. Cache!Asks["data"] /\ ack["data"] /\ rmux' = line_out["data"]
      BY <1>1, <2>1, <2>4 DEF Cache!Readers, Cache!BusStep, Cache!data_req, Cache!Asks
    <3> QED BY <1>1, <2>2, <3>1 DEF CacheInv, Answered, Cache!Content, Cache!Clients
  <2> QED BY <2>3, <2>4
<1> QED BY <1>2, <1>3 DEF Answered

LEMMA CacheTypesStep ==
    ASSUME CacheInv, NEW arrives \in BOOLEAN, Cache!Clock(arrives) PROVE CacheTypes'
<1>1. CacheTypes /\ Cache!Readers /\ Cache!Cache(arrives) /\ Cache!Memory(arrives)
  BY DEF CacheInv, Cache!Clock
<1>2. {if_req, prot_req, m_req, ack_r}' \subseteq BOOLEAN
  <2>1. if_req' \in BOOLEAN
    BY <1>1 DEF Cache!Readers, Cache!FetchStep
  <2>2. prot_req' \in BOOLEAN
    BY <1>1 DEF Cache!Readers, Cache!ProtStep
  <2>3. m_req' \in BOOLEAN
    BY <1>1 DEF Cache!Readers, Cache!BusStep, CacheTypes
  <2>4. ack_r' \in BOOLEAN
    BY <1>1 DEF Cache!Readers, Cache!BusStep
  <2> QED BY <2>1, <2>2, <2>3, <2>4
<1>3. {lookup_pending, filling, rom_req}' \subseteq BOOLEAN
  BY <1>1 DEF Cache!Cache, Cache!Launches, Cache!Misses
<1>4. addr' \in [Cache!Clients -> Lines]
  <2>1. PICK f \in Lines, p \in Lines, d \in Lines : addr' = [fetch |-> f, prot |-> p, data |-> d]
    BY <1>1 DEF Cache!Readers, Cache!Addresses, CacheTypes, Cache!Clients
  <2> QED BY <2>1 DEF Cache!Clients
<1>5. ack' \in [Cache!Clients -> BOOLEAN]
  BY <1>1 DEF Cache!Cache, Cache!AckNext, Cache!Answers
<1>6. DOMAIN line_out' = Cache!Clients
  BY <1>1 DEF Cache!Cache
<1>7. DOMAIN cache_mem' = Cache!Indices
  BY <1>1 DEF Cache!Cache, CacheTypes
<1>8. lookup' \in Requests /\ fill' \in Requests
  <2>1. Cache!Chosen \in Cache!Clients
    BY DEF Cache!Chosen, Cache!Clients
  <2> QED BY <1>1, <2>1 DEF Cache!Cache, CacheTypes, Requests
<1>9. line_owed' \in [pending : BOOLEAN, line : Lines]
  BY <1>1 DEF Cache!Memory, CacheTypes, Requests
<1> QED BY <1>2, <1>3, <1>4, <1>5, <1>6, <1>7, <1>8, <1>9 DEF CacheTypes

\* A reset forgets the requests and the lines, and the SDRAM owes nothing.
LEMMA CacheResets == ASSUME CacheInv, Cache!Reset PROVE CacheInv'
<1>1. /\ ~if_req' /\ ~prot_req' /\ ~m_req' /\ ~ack_r' /\ ~lookup_pending' /\ ~filling' /\ ~rom_req'
      /\ ~line_owed'.pending /\ cache_valid' = {}
  BY DEF Cache!Reset, CacheInv, CacheTypes
<1>2. CacheTypes'
  <2>1. Cache!NoRequest \in Requests
    BY BoardAssumption
       DEF BoardAssumption, Cache!CacheAssumption, Cache!NoRequest, Cache!AnyLine, Requests,
           Cache!Clients
  <2> QED BY <2>1 DEF Cache!Reset, CacheInv, CacheTypes
<1>3. \A c \in Cache!Clients : ~ack'[c]
  BY DEF Cache!Reset
<1> QED BY <1>1, <1>2, <1>3 DEF CacheInv, EntriesTrue, LookupLive, FillLive, Answered

\* Each reader of the main ROM that sees its acknowledge reads the line it asks
\* for, of the game loaded, and the cache has one burst out at most: for any
\* lines, any number of games and however late the SDRAM answers.
THEOREM ReadersOwn == Spec => []AnswersOwn
<1>1. ASSUME Init PROVE CacheInv
  <2>1. Cache!AnyLine \in Lines
    BY BoardAssumption DEF BoardAssumption, Cache!CacheAssumption, Cache!AnyLine
  <2>2. Cache!Init
    BY <1>1 DEF Init
  <2>3. CacheTypes
    BY <2>1, <2>2 DEF Cache!Init, Cache!NoRequest, Cache!Clients, CacheTypes, Requests
  <2> QED BY <2>2, <2>3
          DEF Cache!Init, CacheInv, EntriesTrue, LookupLive, FillLive, Answered
<1>2. CacheInv /\ [Next]_vars => CacheInv'
  <2>1. ASSUME CacheInv, UNCHANGED cacheVars PROVE CacheInv'
    BY <2>1 DEF cacheVars, CacheInv, CacheTypes, EntriesTrue, LookupLive, FillLive, Answered,
                Waits, Cache!Asks, Cache!data_req, Cache!Content
  <2>2. ASSUME CacheInv, NEW arrives \in BOOLEAN, Cache!Clock(arrives) PROVE CacheInv'
    BY <2>2, CacheTypesStep, EntriesStep, LookupStep, FillStep, AnsweredStep DEF CacheInv
  <2>3. ASSUME CacheInv, Cache!Reset PROVE CacheInv'
    BY <2>3, CacheResets
  <2> QED BY <2>1, <2>2, <2>3, CacheMoves
<1>3. CacheInv => AnswersOwn
  BY DEF CacheInv, FillLive, Answered, AnswersOwn, Cache!AnswersOwn, Cache!Asks, Cache!Clients
<1> QED BY <1>1, <1>2, <1>3, PTL DEF Spec

-----------------------------------------------------------------------------
(***************************************************************************)
(* Arithmetic of the timers: division by the period of a clock.            *)
(***************************************************************************)
LEMMA SmallMod ==
    ASSUME NEW m \in Nat \ {0}, NEW x \in 0 .. m - 1
    PROVE  x % m = x /\ x \div m = 0
  OBVIOUS

LEMMA Divided ==
    ASSUME NEW m \in Nat \ {0}, NEW x \in Nat
    PROVE  (x % m) \in 0 .. m - 1 /\ x \div m \in Nat /\ x = m * (x \div m) + (x % m)
  OBVIOUS

LEMMA QuotientIs ==
    ASSUME NEW m \in Nat \ {0}, NEW q \in Nat, NEW r \in 0 .. m - 1,
           NEW x \in Nat, x = m * q + r
    PROVE  x \div m = q /\ x % m = r
  OBVIOUS

\* What a step shorter than the modulus adds to a quotient and a remainder.
LEMMA DivStep ==
    ASSUME NEW m \in Nat \ {0}, NEW x \in Nat, NEW s \in 0 .. m - 1
    PROVE  /\ (x + s) \div m = (x \div m) + (IF (x % m) + s >= m THEN 1 ELSE 0)
           /\ (x + s) % m = ((x % m) + s) % m
<1>1. (x % m) \in 0 .. m - 1 /\ x \div m \in Nat /\ x = m * (x \div m) + (x % m)
  BY Divided
<1>2. PICK q \in Nat, r \in 0 .. m - 1 : q = x \div m /\ r = x % m
  BY <1>1
<1>3. x = m * q + r
  BY <1>1, <1>2
<1>4. PICK y \in Nat, t \in Nat : y = x + s /\ t = r + s
  OBVIOUS
<1>5. CASE t >= m
  <2>1. PICK k \in Nat, d \in 0 .. m - 1 : k = q + 1 /\ d = t - m
    BY <1>4, <1>5
  <2>2. m * k = m * q + m
    BY <1>2, <2>1
  <2>3. y = m * k + d
    BY <1>3, <1>4, <2>1, <2>2
  <2>4. y \div m = k /\ y % m = d
    BY <2>3, QuotientIs
  <2>5. t = m * 1 + d
    BY <2>1
  <2>6. t % m = d
    BY <2>5, QuotientIs
  <2> QED BY <1>2, <1>4, <1>5, <2>1, <2>4, <2>6
<1>6. CASE t < m
  <2>1. y = m * q + t /\ t \in 0 .. m - 1
    BY <1>3, <1>4, <1>6
  <2>2. y \div m = q /\ y % m = t
    BY <2>1, QuotientIs
  <2>3. t % m = t
    BY <2>1, SmallMod
  <2> QED BY <1>2, <1>4, <1>6, <2>2, <2>3
<1> QED BY <1>4, <1>5, <1>6

LEMMA ProductGrows ==
    ASSUME NEW c \in Nat, NEW a \in Nat, NEW b \in Nat, a <= b
    PROVE  c * a <= c * b /\ c * a \in Nat
  OBVIOUS

\* Two lanes make a count below the square of their range.
LEMMA CountBound ==
    ASSUME NEW max \in Nat, NEW lo \in 0 .. max, NEW hi \in 0 .. max
    PROVE  lo + (max + 1) * hi \in 0 .. (max + 1) * (max + 1) - 1
<1>1. (max + 1) * hi <= (max + 1) * max /\ (max + 1) * hi \in Nat
  BY ProductGrows
<1>2. (max + 1) * (max + 1) = (max + 1) * max + (max + 1)
  OBVIOUS
<1> QED BY <1>1, <1>2

-----------------------------------------------------------------------------
(***************************************************************************)
(* The timers of the V60's interrupt controller.  Timer 0 counts down the  *)
(* edges that are left; timer 1 has counted the ticks of its NCO in the    *)
(* edges since it was armed, and its accumulator is what they left over.   *)
(***************************************************************************)
TimerTypes ==
    /\ DOMAIN timer = Timers!Timers
    /\ \A t \in Timers!Timers : timer[t].lo \in 0 .. LaneMax /\ timer[t].hi \in 0 .. LaneMax
    /\ t0_run \in BOOLEAN /\ t1_run \in BOOLEAN
    /\ {due0, armed1, since1} \subseteq Nat

Timer0Inv ==
    /\ t0_run <=> due0 # 0
    /\ t0_run => t0_cnt = due0 - 1

Elapsed == since1 * Step1

Timer1Inv ==
    /\ t1_run <=> armed1 # 0
    /\ t1_run => /\ t1_acc = Elapsed % Mod1
                 /\ t1_cnt = Ticks1 * armed1 - 1 - (Elapsed \div Mod1)
                 /\ t1_cnt \in Nat

TimerInv == TimerTypes /\ Timer0Inv /\ Timer1Inv /\ PendingExact

\* The lanes that a write leaves in a register are lanes.
LEMMA MergedLanes ==
    ASSUME TimerTypes, NEW w \in Timers!Writes, NEW t \in Timers!Timers, w.to = t
    PROVE  /\ Timers!Merge(timer[t], w).lo \in 0 .. LaneMax
           /\ Timers!Merge(timer[t], w).hi \in 0 .. LaneMax
<1>1. w.lanes \in Timers!LaneWrites
  BY DEF Timers!Writes, Timers!NoWrite, Timers!Timers
<1>2. /\ w.lanes.lo \in {Unwritten} \cup 0 .. LaneMax
      /\ w.lanes.hi \in {Unwritten} \cup 0 .. LaneMax
  BY <1>1 DEF Timers!LaneWrites
<1> QED BY <1>2 DEF TimerTypes, Timers!Merge

\* What a write arms a timer with.
LEMMA ArmsBound ==
    ASSUME TimerTypes, NEW w \in Timers!Writes, NEW t \in Timers!Timers
    PROVE  Timers!Arms(t, w) \in 0 .. (LaneMax + 1) * (LaneMax + 1) - 1
<1>0. LaneMax \in Nat
  BY BoardAssumption DEF BoardAssumption, Timers!IntcAssumption
<1>1. CASE w.to = t
  <2>1. PICK lo \in 0 .. LaneMax, hi \in 0 .. LaneMax :
          lo = Timers!Merge(timer[t], w).lo /\ hi = Timers!Merge(timer[t], w).hi
    BY <1>1, MergedLanes
  <2>2. Timers!Arms(t, w) = lo + (LaneMax + 1) * hi
    BY <1>1, <2>1 DEF Timers!Arms, Timers!Count
  <2> QED BY <1>0, <2>2, CountBound
<1>2. CASE w.to # t
  <2>1. 0 + (LaneMax + 1) * 0 \in 0 .. (LaneMax + 1) * (LaneMax + 1) - 1
    BY <1>0, CountBound
  <2> QED BY <1>0, <1>2, <2>1 DEF Timers!Arms
<1> QED BY <1>1, <1>2

\* The counter of timer 0 is wide enough for every count.
LEMMA LoadExact ==
    ASSUME NEW n \in 0 .. (LaneMax + 1) * (LaneMax + 1) - 1, n # 0
    PROVE  Timers!Load0(n) = Period0 * n - 1 /\ Period0 * n \in Nat /\ Period0 * n # 0
<1> USE BoardAssumption DEF BoardAssumption, Timers!IntcAssumption
<1>1. PICK square \in Nat : square = (LaneMax + 1) * (LaneMax + 1)
  OBVIOUS
<1>2. Period0 * (LaneMax + 1) * (LaneMax + 1) = Period0 * square
  BY <1>1
<1>3. n \in Nat /\ 1 <= n /\ n <= square
  BY <1>1
<1>4. Period0 * n <= Period0 * square /\ Period0 * n \in Nat /\ Period0 * 1 <= Period0 * n
  BY <1>1, <1>3, ProductGrows
<1>5. Period0 * n - 1 \in 0 .. Width0 - 1 /\ Width0 \in Nat \ {0}
  BY <1>2, <1>4
<1> QED BY <1>4, <1>5, SmallMod DEF Timers!Load0

LEMMA ArmedIs ==
    ASSUME TimerTypes, NEW w \in Timers!Writes, NEW t \in Timers!Timers, Timers!RegisterStep(w)
    PROVE  Timers!Armed(t, w) = Timers!Arms(t, w)
  BY DEF Timers!RegisterStep, Timers!Armed, Timers!Arms

\* Both timers expire on the edge they are due.
LEMMA Expiry0 == ASSUME TimerTypes, Timer0Inv PROVE Timers!t0_expire <=> due0 = 1
  BY DEF TimerTypes, Timer0Inv, Timers!t0_expire

\* One more edge of the NCO: it ticks when the accumulator overflows.
LEMMA ElapsedStep ==
    ASSUME TimerTypes, Timer1Inv, t1_run
    PROVE  /\ Elapsed \in Nat /\ Elapsed \div Mod1 \in Nat
           /\ (since1 + 1) * Step1 = Elapsed + Step1
           /\ ((since1 + 1) * Step1) \div Mod1
                  = (Elapsed \div Mod1) + (IF Timers!t1_tick THEN 1 ELSE 0)
           /\ ((since1 + 1) * Step1) % Mod1 = Timers!t1_sum % Mod1
<1>1. /\ Mod1 \in Nat \ {0} /\ Step1 \in 0 .. Mod1 - 1
      /\ since1 \in Nat
  BY BoardAssumption DEF BoardAssumption, Timers!IntcAssumption, TimerTypes
<1>2. PICK x \in Nat : x = Elapsed
  BY <1>1 DEF Elapsed
<1>3. (since1 + 1) * Step1 = x + Step1
  BY <1>1, <1>2 DEF Elapsed
<1>4. t1_acc = x % Mod1
  BY <1>2 DEF Timer1Inv
<1>5. x \div Mod1 \in Nat
  BY <1>1, Divided
<1>6. /\ (x + Step1) \div Mod1 = (x \div Mod1) + (IF (x % Mod1) + Step1 >= Mod1 THEN 1 ELSE 0)
      /\ (x + Step1) % Mod1 = ((x % Mod1) + Step1) % Mod1
  BY <1>1, DivStep
<1> QED BY <1>2, <1>3, <1>4, <1>5, <1>6 DEF Timers!t1_tick, Timers!t1_sum

LEMMA Expiry1 == ASSUME TimerTypes, Timer1Inv PROVE Timers!t1_expire <=> Timers!Due1
<1>1. CASE t1_run
  <2>1. PICK q \in Nat, total \in Nat : q = Elapsed \div Mod1 /\ total = Ticks1 * armed1
    BY <1>1, ElapsedStep, BoardAssumption
       DEF BoardAssumption, Timers!IntcAssumption, TimerTypes
  <2>2. t1_cnt = total - 1 - q /\ t1_cnt \in Nat /\ armed1 # 0
    BY <1>1, <2>1 DEF Timer1Inv
  <2>3. Timers!Due1 <=> q + (IF Timers!t1_tick THEN 1 ELSE 0) >= total
    BY <1>1, <2>1, <2>2, ElapsedStep DEF Timers!Due1
  <2> QED BY <1>1, <2>1, <2>2, <2>3 DEF Timers!t1_expire
<1>2. CASE ~t1_run
  BY <1>2 DEF Timers!t1_expire, Timers!Due1, Timer1Inv
<1> QED BY <1>1, <1>2 DEF TimerTypes

LEMMA Timer0InvStep ==
    ASSUME TimerInv, NEW arrived \in SUBSET Pulsed, NEW w \in Timers!Writes,
           Timers!Timer0Step(w), Timers!RegisterStep(w), Timers!GhostStep(arrived, w)
    PROVE  Timer0Inv' /\ due0' \in Nat /\ t0_run' \in BOOLEAN
<1>0. TimerTypes /\ Timer0Inv /\ due0 \in Nat /\ t0_run \in BOOLEAN
  BY DEF TimerInv, TimerTypes
<1>1. PICK n \in 0 .. (LaneMax + 1) * (LaneMax + 1) - 1 : n = Timers!Arms("t0", w)
  BY <1>0, ArmsBound DEF Timers!Timers
<1>2. n = Timers!Armed("t0", w)
  BY <1>0, <1>1, ArmedIs DEF Timers!Timers
<1>3. /\ t0_run' = (n # 0 \/ (t0_run /\ ~Timers!t0_expire))
      /\ t0_cnt' = IF n # 0 THEN Timers!Load0(n)
                   ELSE IF t0_run /\ t0_cnt # 0 THEN t0_cnt - 1 ELSE t0_cnt
      /\ due0' = IF n # 0 THEN Period0 * n ELSE IF due0 = 0 THEN 0 ELSE due0 - 1
  BY <1>1, <1>2 DEF Timers!Timer0Step, Timers!GhostStep
<1>4. CASE n # 0
  <2>1. Timers!Load0(n) = Period0 * n - 1 /\ Period0 * n \in Nat /\ Period0 * n # 0
    BY <1>4, LoadExact
  <2> QED BY <1>3, <1>4, <2>1 DEF Timer0Inv
<1>5. CASE n = 0
  <2>1. Timers!t0_expire <=> due0 = 1
    BY <1>0, Expiry0
  <2>2. t0_run' = (t0_run /\ due0 # 1) /\ due0' = IF due0 = 0 THEN 0 ELSE due0 - 1
    BY <1>3, <1>5, <2>1
  <2>3. t0_run <=> due0 # 0
    BY <1>0 DEF Timer0Inv
  <2>4. t0_run' <=> due0' # 0
    <3>1. CASE due0 = 0
      BY <2>2, <2>3, <3>1
    <3>2. CASE due0 # 0
      <4>1. t0_run' <=> due0 # 1
        BY <2>2, <2>3, <3>2
      <4>2. due0' = 0 <=> due0 = 1
        BY <1>0, <2>2, <3>2
      <4> QED BY <4>1, <4>2
    <3> QED BY <3>1, <3>2
  <2>5. t0_run' => t0_cnt' = due0' - 1
    <3>1. t0_run' => t0_run /\ due0 # 0 /\ due0 # 1 /\ t0_cnt = due0 - 1
      BY <1>0, <2>2, <2>3 DEF Timer0Inv
    <3>2. t0_run' => t0_cnt' = t0_cnt - 1
      BY <1>0, <1>3, <1>5, <3>1
    <3> QED BY <1>0, <2>2, <3>1, <3>2
  <2> QED BY <1>0, <2>2, <2>4, <2>5 DEF Timer0Inv
<1> QED BY <1>4, <1>5

LEMMA Timer1InvStep ==
    ASSUME TimerInv, NEW arrived \in SUBSET Pulsed, NEW w \in Timers!Writes,
           Timers!Timer1Step(w), Timers!RegisterStep(w), Timers!GhostStep(arrived, w)
    PROVE  Timer1Inv' /\ {armed1, since1}' \subseteq Nat /\ t1_run' \in BOOLEAN
<1>0. TimerTypes /\ Timer1Inv /\ {armed1, since1} \subseteq Nat
  BY DEF TimerInv, TimerTypes
<1>1. PICK n \in Nat : n = Timers!Arms("t1", w)
  BY <1>0, ArmsBound, BoardAssumption
     DEF BoardAssumption, Timers!IntcAssumption, Timers!Timers
<1>2. n = Timers!Armed("t1", w)
  BY <1>0, <1>1, ArmedIs DEF Timers!Timers
<1>3. Timers!t1_expire <=> Timers!Due1
  BY <1>0, Expiry1
<1>4. /\ t1_run' = (n # 0 \/ (t1_run /\ ~Timers!Due1))
      /\ t1_acc' = Timers!Acc1(n)
      /\ t1_cnt' = IF n # 0 THEN Timers!Load1(n)
                   ELSE IF t1_run /\ Timers!t1_tick /\ t1_cnt # 0 THEN t1_cnt - 1 ELSE t1_cnt
      /\ armed1' = IF n # 0 THEN n ELSE IF Timers!Due1 THEN 0 ELSE armed1
      /\ since1' = IF n # 0 \/ armed1 = 0 \/ Timers!Due1 THEN 0 ELSE since1 + 1
  BY <1>1, <1>2, <1>3 DEF Timers!Timer1Step, Timers!GhostStep
<1>5. {armed1, since1}' \subseteq Nat /\ t1_run' \in BOOLEAN
  BY <1>0, <1>4
<1>6. t1_run' <=> armed1' # 0
  BY <1>0, <1>4 DEF Timer1Inv, Timers!Due1
<1>7. CASE n # 0
  <2>1. /\ Mod1 \in Nat \ {0} /\ Step1 \in Nat /\ Ticks1 \in Nat \ {0}
    BY BoardAssumption DEF BoardAssumption, Timers!IntcAssumption
  <2>2. Elapsed' = 0
    BY <1>4, <1>7, <2>1 DEF Elapsed
  <2>3. 0 % Mod1 = 0 /\ 0 \div Mod1 = 0
    BY <2>1, SmallMod
  <2>4. Ticks1 * n \in Nat /\ Ticks1 * 1 <= Ticks1 * n
    BY <1>7, <2>1, ProductGrows
  <2>5. t1_acc' = 0 /\ t1_cnt' = Ticks1 * n - 1 /\ armed1' = n
    BY <1>4, <1>7 DEF Timers!Acc1, Timers!Load1
  <2>6. /\ t1_acc' = Elapsed' % Mod1
        /\ t1_cnt' = Ticks1 * armed1' - 1 - (Elapsed' \div Mod1)
        /\ t1_cnt' \in Nat
    BY <2>1, <2>2, <2>3, <2>4, <2>5
  <2> QED BY <1>5, <1>6, <2>6 DEF Timer1Inv
<1>8. CASE n = 0 /\ t1_run'
  <2>1. t1_run /\ ~Timers!Due1 /\ armed1' = armed1 /\ armed1 # 0 /\ since1' = since1 + 1
    BY <1>0, <1>4, <1>8 DEF Timer1Inv
  <2>2. PICK q \in Nat, total \in Nat : q = Elapsed \div Mod1 /\ total = Ticks1 * armed1
    BY <1>0, <2>1, ElapsedStep, BoardAssumption
       DEF BoardAssumption, Timers!IntcAssumption, TimerTypes
  <2>3. t1_cnt = total - 1 - q /\ t1_cnt \in Nat
    BY <1>0, <2>1, <2>2 DEF Timer1Inv
  <2>4. Elapsed' = (since1 + 1) * Step1
    BY <2>1 DEF Elapsed
  <2>5. /\ Elapsed' \div Mod1 = q + (IF Timers!t1_tick THEN 1 ELSE 0)
        /\ Elapsed' % Mod1 = Timers!t1_sum % Mod1
    BY <1>0, <2>1, <2>2, <2>4, ElapsedStep
  <2>6. t1_acc' = Elapsed' % Mod1
    BY <1>4, <1>8, <2>1, <2>5 DEF Timers!Acc1
  <2>7. Timers!t1_tick => t1_cnt # 0
    BY <1>3, <2>1 DEF Timers!t1_expire
  <2>8. t1_cnt' = total - 1 - (Elapsed' \div Mod1) /\ t1_cnt' \in Nat
    BY <1>4, <1>8, <2>1, <2>2, <2>3, <2>5, <2>7
  <2>9. t1_cnt' = Ticks1 * armed1' - 1 - (Elapsed' \div Mod1)
    BY <2>1, <2>2, <2>8
  <2> QED BY <1>5, <1>6, <2>6, <2>8, <2>9 DEF Timer1Inv
<1>9. CASE n = 0 /\ ~t1_run'
  BY <1>5, <1>6, <1>9 DEF Timer1Inv
<1> QED BY <1>5, <1>7, <1>8, <1>9

\* What the registers hold pending and what the program is owed stay the same.
LEMMA PendingStep ==
    ASSUME TimerInv, NEW arrived \in SUBSET Pulsed, NEW w \in Timers!Writes,
           pending' = Timers!PendingNext(arrived \cup Timers!Expired, w),
           Timers!GhostStep(arrived, w)
    PROVE  pending' = owed'
<1>1. Timers!t0_expire <=> due0 = 1
  BY Expiry0 DEF TimerInv
<1>2. Timers!t1_expire <=> Timers!Due1
  BY Expiry1 DEF TimerInv
<1>3. Timers!Expired = {s \in {3, 4} : IF s = 3 THEN due0 = 1 ELSE Timers!Due1}
  BY <1>1, <1>2 DEF Timers!Expired
<1>4. pending = owed
  BY DEF TimerInv, PendingExact, Timers!PendingExact
<1> QED BY <1>3, <1>4 DEF Timers!PendingNext, Timers!GhostStep

\* A source of the V60 is pending exactly while an arrival of it is not
\* acknowledged: a timer arrives on the edge its period ends for every count,
\* every pair of lanes and however often it is armed again, with the periods of
\* the code, and no acknowledgement takes another source along.
THEOREM PendingAsOwed == Spec => []PendingExact
<1>1. ASSUME Init PROVE TimerInv
  <2>1. Timers!Init
    BY <1>1 DEF Init
  <2>2. LaneMax \in 0 .. LaneMax
    BY BoardAssumption DEF BoardAssumption, Timers!IntcAssumption
  <2>3. TimerTypes
    <3>1. timer = [t \in Timers!Timers |-> [lo |-> LaneMax, hi |-> LaneMax]]
      BY <2>1 DEF Timers!Init
    <3>2. ~t0_run /\ ~t1_run /\ due0 = 0 /\ armed1 = 0 /\ since1 = 0
      BY <2>1 DEF Timers!Init
    <3>3. t0_run \in BOOLEAN /\ t1_run \in BOOLEAN
      BY <2>1 DEF Timers!Init
    <3> QED BY <2>2, <3>1, <3>2, <3>3 DEF TimerTypes
  <2>4. Timer0Inv /\ Timer1Inv
    BY <2>1 DEF Timers!Init, Timer0Inv, Timer1Inv
  <2>5. PendingExact
    BY <2>1 DEF Timers!Init, PendingExact, Timers!PendingExact
  <2> QED BY <2>3, <2>4, <2>5 DEF TimerInv
<1>2. TimerInv /\ [Next]_vars => TimerInv'
  <2>1. ASSUME TimerInv, UNCHANGED timerVars PROVE TimerInv'
    BY <2>1 DEF timerVars, TimerInv, TimerTypes, Timer0Inv, Timer1Inv, Elapsed, PendingExact,
                Timers!PendingExact
  <2>2. ASSUME TimerInv, Timers!Clock PROVE TimerInv'
    <3>1. PICK arrived \in SUBSET Pulsed, w \in Timers!Writes :
            /\ pending' = Timers!PendingNext(arrived \cup Timers!Expired, w)
            /\ Timers!Timer0Step(w) /\ Timers!Timer1Step(w) /\ Timers!RegisterStep(w)
            /\ Timers!GhostStep(arrived, w)
      BY <2>2 DEF Timers!Clock
    <3>2. Timer0Inv' /\ due0' \in Nat /\ t0_run' \in BOOLEAN
      BY <2>2, <3>1, Timer0InvStep
    <3>3. Timer1Inv' /\ {armed1, since1}' \subseteq Nat /\ t1_run' \in BOOLEAN
      BY <2>2, <3>1, Timer1InvStep
    <3>4. PendingExact'
      BY <2>2, <3>1, PendingStep DEF PendingExact, Timers!PendingExact
    <3>5. DOMAIN timer' = Timers!Timers
      BY <3>1 DEF Timers!RegisterStep
    <3>6. ASSUME NEW t \in Timers!Timers
          PROVE  timer'[t].lo \in 0 .. LaneMax /\ timer'[t].hi \in 0 .. LaneMax
      <4>1. timer'[t] = IF w.to = t THEN Timers!Merge(timer[t], w) ELSE timer[t]
        BY <3>1 DEF Timers!RegisterStep
      <4> QED BY <2>2, <4>1, MergedLanes DEF TimerInv, TimerTypes
    <3> QED BY <3>2, <3>3, <3>4, <3>5, <3>6 DEF TimerInv, TimerTypes
  <2> QED BY <2>1, <2>2, TimersMove
<1>3. TimerInv => PendingExact
  BY DEF TimerInv
<1> QED BY <1>1, <1>2, <1>3, PTL DEF Spec

-----------------------------------------------------------------------------
(***************************************************************************)
(* The path of a download (Download): its loader, its multiplexer and the  *)
(* SDRAM behind them, in whatever order the loader and the sound program   *)
(* write.                                                                  *)
(***************************************************************************)

LEMMA DownloadMoves ==
    ASSUME [Next]_vars PROVE Downloads!Clock \/ Downloads!PllLoss \/ UNCHANGED downloadVars
  BY DEF Next, Download, PllLoss, ReadRom, ResetCache, Interrupts, SoundInterrupts, Play, vars

-----------------------------------------------------------------------------
Strobes ==
    [zero : BOOLEAN, first : BOOLEAN, data : Data, addr : RomWords \cup {None}]

DownTypes ==
    /\ {sdr_wr_req, busy, index0_seen, wave_clear_active, rom_loaded, d_req, active, cooldown,
        ioctl_download, started, mem_ready, wave_wr_req, latched, d_ack} \subseteq BOOLEAN
    /\ owner \in {0, 1} /\ wave_clear_word \in 0 .. WaveWords - 1
    /\ index \in {"zero", "region", "eeprom"}
    /\ strobe \in {None} \cup Strobes
    /\ sdr_wr_req => sdr_wr_word \in Downloads!Write
    /\ wave_wr_req => wave_wr_word \in Downloads!Write
    /\ memory \in [Downloads!Words -> Data \cup {Cleared}]
    /\ expected \in [Downloads!Words -> Data \cup {Cleared}]

\* The loader: it takes no word while a write is out, and the gate is closed
\* from the first word of index 0 to the last of the clear.
LoaderInv ==
    /\ busy = sdr_wr_req
    /\ rom_loaded => ~sdr_wr_req /\ ~wave_clear_active /\ ~index0_seen /\ mem_ready
    /\ wave_clear_active =>
           /\ index0_seen /\ mem_ready
           /\ sdr_wr_req =>
                  sdr_wr_word = [addr |-> Downloads!Wave(wave_clear_word), data |-> Cleared]

\* The host: a word on the bus belongs to the transfer, and was sent where
\* nothing was in its way; a word for the memory finds the gate closed.
HostInv ==
    /\ strobe # None =>
           /\ ioctl_download /\ started /\ mem_ready /\ ~busy
           /\ strobe.zero <=> index = "zero"
           /\ strobe.addr # None => ~rom_loaded
    /\ ioctl_download /\ started => ~wave_clear_active
    /\ ioctl_download /\ index = "region" => ~index0_seen /\ ~rom_loaded
    /\ ioctl_download /\ started /\ index = "zero" =>
           ~rom_loaded \/ (strobe # None /\ strobe.first)

\* The multiplexer and the port behind it: one write is granted, then latched,
\* then in the memory, and its client asks for it until it is acknowledged.
Waiting == ~latched /\ port_pending = NoWord /\ ~d_ack
Latched == latched /\ port_pending = d_word /\ ~d_ack
Served  ==
    /\ latched /\ port_pending = NoWord /\ d_ack
    /\ memory[d_word.addr] = d_word.data

Waving == active /\ owner = 1

PortInv ==
    /\ ~active => ~d_req /\ port_pending = NoWord /\ ~d_ack /\ (latched => cooldown)
    /\ active => d_req /\ d_word \in Downloads!Write /\ (Waiting \/ Latched \/ Served)
    /\ active /\ owner = 0 => sdr_wr_req /\ sdr_wr_word = d_word
    /\ Waving /\ wave_wr_req => wave_wr_word = d_word

\* The wave port: a request is granted on the edge after it is raised, one that
\* a reset took back is still served, and no transfer ends before it is.
WaveInv ==
    /\ Waving /\ ~wave_wr_req => Downloads!reset
    /\ Downloads!reset /\ ~ioctl_download => ~wave_wr_req /\ ~Waving
    /\ wave_wr_req /\ ~Waving =>
           ~active /\ ~cooldown /\ ~sdr_wr_req /\ rom_loaded

ControlInv == DownTypes /\ LoaderInv /\ HostInv /\ PortInv /\ WaveInv

-----------------------------------------------------------------------------
(***************************************************************************)
(* What the loader does on an edge: it loads a word of the stream, arms    *)
(* the next write of the clear, is acknowledged, opens and closes the      *)
(* gate.                                                                   *)
(***************************************************************************)
Loads    == strobe # None /\ strobe.addr # None
Rearming == wave_clear_active /\ ~sdr_wr_req
Acked    == Downloads!c0_ack(d_ack)
Closes   == strobe # None /\ strobe.zero /\ strobe.first
Clears   == mem_ready /\ ~ioctl_download /\ Downloads!Drained
Ends     == Downloads!LastClear(Acked)

Loaded == [addr |-> strobe.addr, data |-> strobe.data]
Blanks == [addr |-> Downloads!Wave(wave_clear_word), data |-> Cleared]

LEMMA RaisedIs ==
    ASSUME ControlInv
    PROVE  LET raised == Downloads!Raised(strobe, Acked, mem_ready)
           IN  /\ Acked => sdr_wr_req
               /\ Loads => raised = Loaded /\ raised # None /\ ~sdr_wr_req /\ ~wave_clear_active
               /\ Rearming => raised = Blanks /\ raised # None /\ ~Loads
               /\ ~Loads /\ ~Rearming => raised = None
               /\ raised # None => raised \in Downloads!Write
<1> DEFINE raised == Downloads!Raised(strobe, Acked, mem_ready)
<1>0. Acked => sdr_wr_req
  BY DEF Acked, Downloads!c0_ack, ControlInv, PortInv
<1>1. CASE Loads
  <2>1. raised = Loaded
    BY <1>1 DEF ControlInv, HostInv, Downloads!Raised, Downloads!Accepts, Loads, Loaded
  <2>2. strobe.addr \in RomWords /\ strobe.data \in Data
    BY <1>1 DEF ControlInv, DownTypes, Strobes, Loads
  <2>3. raised \in Downloads!Write
    BY <2>1, <2>2 DEF Downloads!Write, Downloads!Words, Loaded
  <2>4. raised # None
    BY <2>3, BoardAssumption
       DEF BoardAssumption, Downloads!DownloadAssumption, Downloads!Write, Downloads!Words
  <2>5. ~sdr_wr_req /\ ~wave_clear_active
    BY <1>1 DEF ControlInv, HostInv, LoaderInv, DownTypes, Loads
  <2> QED BY <1>0, <1>1, <2>1, <2>3, <2>4, <2>5 DEF Rearming
<1>2. CASE ~Loads /\ Rearming
  <2>1. raised = Blanks
    BY <1>0, <1>2
       DEF Downloads!Raised, Downloads!Accepts, Downloads!Rearms, Loads, Rearming, Blanks
  <2>2. raised \in Downloads!Write
    BY <2>1 DEF ControlInv, DownTypes, Downloads!Write, Downloads!Words, Downloads!Aperture, Blanks
  <2>3. raised # None
    BY <2>2, BoardAssumption
       DEF BoardAssumption, Downloads!DownloadAssumption, Downloads!Write, Downloads!Words
  <2> QED BY <1>0, <1>2, <2>1, <2>2, <2>3
<1>3. CASE ~Loads /\ ~Rearming
  <2>1. raised = None
    BY <1>3 DEF Downloads!Raised, Downloads!Accepts, Downloads!Rearms, Loads, Rearming
  <2> QED BY <1>0, <1>3, <2>1
<1> QED BY <1>1, <1>2, <1>3

LEMMA LoaderMoves ==
    ASSUME ControlInv, Downloads!Clock
    PROVE  /\ sdr_wr_req' = (Loads \/ Rearming \/ (sdr_wr_req /\ ~Acked))
           /\ busy' = sdr_wr_req'
           /\ sdr_wr_word' = IF Loads THEN Loaded ELSE IF Rearming THEN Blanks ELSE sdr_wr_word
           /\ sdr_wr_req' => sdr_wr_word' \in Downloads!Write
           /\ wave_clear_active' = (Clears \/ (wave_clear_active /\ ~Ends))
           /\ wave_clear_word' = IF Clears THEN 0
                                 ELSE IF wave_clear_active /\ Acked /\ ~Ends
                                      THEN wave_clear_word + 1
                                 ELSE wave_clear_word
           /\ rom_loaded' = (~Closes /\ (rom_loaded \/ Ends))
           /\ index0_seen' = (Closes \/ (index0_seen /\ ~Ends))
<1> DEFINE raised == Downloads!Raised(strobe, Acked, mem_ready)
<1>0. Downloads!LoaderStep(strobe, Acked, mem_ready, ioctl_download)
  BY DEF Downloads!Clock, Acked
<1>1. /\ sdr_wr_req' = (raised # None \/ (sdr_wr_req /\ ~Acked))
      /\ busy' = (raised # None \/ (busy /\ ~Acked))
      /\ sdr_wr_word' = IF raised = None THEN sdr_wr_word ELSE raised
      /\ wave_clear_active' = (Clears \/ (wave_clear_active /\ ~Ends))
      /\ wave_clear_word' = IF Clears THEN 0
                            ELSE IF wave_clear_active /\ Acked /\ ~Ends
                                 THEN wave_clear_word + 1
                            ELSE wave_clear_word
  BY <1>0 DEF Downloads!LoaderStep, Clears, Ends
<1>2. strobe # None => mem_ready
  BY DEF ControlInv, HostInv
<1>3. /\ rom_loaded' = (~Closes /\ (rom_loaded \/ Ends))
      /\ index0_seen' = (Closes \/ (index0_seen /\ ~Ends))
  BY <1>0, <1>2 DEF Downloads!LoaderStep, Closes, Ends
<1>4. /\ raised # None <=> Loads \/ Rearming
      /\ raised = IF Loads THEN Loaded ELSE IF Rearming THEN Blanks ELSE None
      /\ raised # None => raised \in Downloads!Write
  BY RaisedIs DEF Rearming
<1>5. busy = sdr_wr_req /\ (sdr_wr_req => sdr_wr_word \in Downloads!Write)
  BY DEF ControlInv, LoaderInv, DownTypes
<1> HIDE DEF raised
<1>6. sdr_wr_req' = (Loads \/ Rearming \/ (sdr_wr_req /\ ~Acked)) /\ busy' = sdr_wr_req'
  BY <1>1, <1>4, <1>5
<1>7. sdr_wr_word' = IF Loads THEN Loaded ELSE IF Rearming THEN Blanks ELSE sdr_wr_word
  BY <1>1, <1>4
<1>8. sdr_wr_req' => sdr_wr_word' \in Downloads!Write
  BY <1>1, <1>4, <1>5
<1> QED BY <1>1, <1>3, <1>6, <1>7, <1>8

(***************************************************************************)
(* What the multiplexer and the port do: nothing, a grant, the write that  *)
(* is under way, or its end.                                               *)
(***************************************************************************)
Grants == ~active /\ ~cooldown /\ ~d_ack /\ (sdr_wr_req \/ wave_wr_req)

Rests == ~active /\ ~Grants /\ ~active' /\ memory' = memory /\ UNCHANGED <<owner, d_word>>

Granted ==
    /\ Grants /\ active' /\ memory' = memory
    /\ owner' = IF sdr_wr_req THEN 0 ELSE 1
    /\ d_word' = IF sdr_wr_req THEN sdr_wr_word ELSE wave_wr_word

Writing ==
    /\ active /\ ~d_ack /\ active' /\ UNCHANGED <<owner, d_word>>
    /\ memory' \in {memory, [memory EXCEPT ![d_word.addr] = d_word.data]}

Finishes ==
    /\ active /\ d_ack /\ Served /\ ~active' /\ UNCHANGED <<owner, d_word>>
    /\ memory' = memory

Phases ==
    /\ ~active => ~d_req /\ port_pending = NoWord /\ ~d_ack /\ (latched => cooldown)
    /\ active => d_req /\ d_word \in Downloads!Write /\ (Waiting \/ Latched \/ Served)

LEMMA PortMoves ==
    ASSUME ControlInv, Downloads!Clock
    PROVE  /\ Rests \/ Granted \/ Writing \/ Finishes
           /\ Phases'
<1>1. Phases /\ DownTypes
  BY DEF ControlInv, PortInv, Phases
<1>2. PICK served \in {FALSE, port_pending # NoWord} :
        /\ d_ack' = served
        /\ port_pending' = IF d_req /\ ~latched THEN d_word
                           ELSE IF served THEN NoWord ELSE port_pending
        /\ memory' = IF served THEN [memory EXCEPT ![port_pending.addr] = port_pending.data]
                     ELSE memory
  BY DEF Downloads!Clock, Downloads!PortStep, Downloads!AckNext
<1>3. latched' = d_req
  BY DEF Downloads!Clock, Downloads!PortStep
<1>4. /\ Grants => /\ owner' = IF sdr_wr_req THEN 0 ELSE 1
                   /\ d_word' = IF sdr_wr_req THEN sdr_wr_word ELSE wave_wr_word
                   /\ d_req' /\ active'
      /\ ~Grants => /\ UNCHANGED <<owner, d_word>>
                    /\ d_req' = (d_req /\ ~(active /\ d_ack))
                    /\ active' = (active /\ ~d_ack)
  BY DEF Downloads!Clock, Downloads!MuxStep, Downloads!CanGrant, Downloads!req, Downloads!word, Grants
<1>5. active /\ d_ack => cooldown'
  BY DEF Downloads!Clock, Downloads!MuxStep, Downloads!CooldownNext
<1>6. CASE ~active /\ ~Grants
  <2>1. ~d_req /\ port_pending = NoWord /\ ~d_ack
    BY <1>1, <1>6 DEF Phases
  <2>2. port_pending' = NoWord /\ ~d_ack' /\ memory' = memory /\ ~latched'
    BY <1>2, <1>3, <2>1
  <2>3. ~active' /\ ~d_req' /\ UNCHANGED <<owner, d_word>>
    BY <1>4, <1>6, <2>1
  <2> QED BY <1>6, <2>2, <2>3 DEF Rests, Phases
<1>7. CASE Grants
  <2>1. ~active /\ ~d_req /\ port_pending = NoWord
    BY <1>1, <1>7 DEF Phases, Grants
  <2>2. port_pending' = NoWord /\ ~d_ack' /\ memory' = memory /\ ~latched'
    BY <1>2, <1>3, <2>1
  <2>3. d_word' \in Downloads!Write
    BY <1>1, <1>4, <1>7 DEF DownTypes, Grants
  <2> QED BY <1>4, <1>7, <2>2, <2>3 DEF Granted, Phases, Waiting
<1>8. CASE active /\ ~d_ack
  <2>1. ~Grants /\ d_req /\ d_word \in Downloads!Write /\ (Waiting \/ Latched)
    BY <1>1, <1>8 DEF Phases, Grants, Served
  <2>2. active' /\ d_req' /\ UNCHANGED <<owner, d_word>>
    BY <1>4, <1>8, <2>1
  <2>3. CASE Waiting
    <3>1. latched' /\ port_pending' = d_word /\ ~d_ack' /\ memory' = memory
      BY <1>2, <1>3, <2>1, <2>3 DEF Waiting
    <3> QED BY <1>8, <2>1, <2>2, <3>1 DEF Writing, Phases, Latched
  <2>4. CASE Latched /\ ~served
    <3>1. latched' /\ port_pending' = d_word /\ ~d_ack' /\ memory' = memory
      BY <1>2, <1>3, <2>1, <2>4 DEF Latched
    <3> QED BY <1>8, <2>1, <2>2, <3>1 DEF Writing, Phases, Latched
  <2>5. CASE Latched /\ served
    <3>1. /\ latched' /\ port_pending' = NoWord /\ d_ack'
          /\ memory' = [memory EXCEPT ![d_word.addr] = d_word.data]
      BY <1>2, <1>3, <2>1, <2>5 DEF Latched
    <3>2. memory'[d_word.addr] = d_word.data
      BY <1>1, <2>1, <3>1 DEF DownTypes, Downloads!Write
    <3> QED BY <1>8, <2>1, <2>2, <3>1, <3>2 DEF Writing, Phases, Served
  <2> QED BY <1>2, <2>1, <2>3, <2>4, <2>5
<1>9. CASE active /\ d_ack
  <2>1. ~Grants /\ d_req /\ Served
    BY <1>1, <1>9 DEF Phases, Grants, Waiting, Latched
  <2>2. ~active' /\ ~d_req' /\ cooldown' /\ UNCHANGED <<owner, d_word>>
    BY <1>4, <1>5, <1>9, <2>1
  <2>3. port_pending' = NoWord /\ ~d_ack' /\ memory' = memory
    BY <1>2, <2>1 DEF Served
  <2> QED BY <1>9, <2>1, <2>2, <2>3 DEF Finishes, Phases
<1> QED BY <1>6, <1>7, <1>8, <1>9

\* The wave port raises a request, keeps it until its acknowledge or drops it.
LEMMA WaveMoves ==
    ASSUME ControlInv, Downloads!Clock
    PROVE  \/ Downloads!reset /\ ~wave_wr_req'
           \/ ~Downloads!reset /\ wave_wr_req /\ wave_wr_word' = wave_wr_word
              /\ wave_wr_req' = ~Downloads!c1_ack(d_ack)
           \/ ~Downloads!reset /\ ~wave_wr_req /\ ~wave_wr_req'
           \/ ~Downloads!reset /\ ~wave_wr_req /\ wave_wr_req'
              /\ wave_wr_word' \in [addr : Downloads!Aperture, data : Data]
<1>1. Downloads!WaveStep
  BY DEF Downloads!Clock
<1> QED BY <1>1 DEF Downloads!WaveStep, Downloads!wave

-----------------------------------------------------------------------------
\* Where the loader may work, nothing else does: consequences of ControlInv.
LEMMA Apart ==
    ASSUME ControlInv
    PROVE  /\ Ends => Acked /\ wave_clear_active /\ sdr_wr_req /\ wave_clear_word = WaveWords - 1
           /\ Clears => ~sdr_wr_req /\ ~wave_clear_active /\ index0_seen /\ strobe = None
           /\ Clears => Downloads!reset /\ ~wave_wr_req /\ ~Waving
           /\ Acked => active /\ owner = 0 /\ d_ack /\ sdr_wr_req
           /\ Downloads!reset <=> ioctl_download \/ ~rom_loaded
           /\ ~Downloads!reset => ~sdr_wr_req /\ ~wave_clear_active /\ strobe = None
           /\ ~Downloads!reset => ~Loads /\ ~Rearming /\ ~Clears /\ ~Closes /\ ~Ends
<1>1. Acked => active /\ owner = 0 /\ d_ack /\ sdr_wr_req
  BY DEF Acked, Downloads!c0_ack, ControlInv, PortInv
<1>2. Ends => Acked /\ wave_clear_active /\ sdr_wr_req /\ wave_clear_word = WaveWords - 1
  BY <1>1 DEF Ends, Downloads!LastClear
<1>3. Clears => /\ ~sdr_wr_req /\ ~wave_clear_active /\ index0_seen /\ strobe = None
                /\ ~ioctl_download
  BY DEF Clears, Downloads!Drained, ControlInv, HostInv
<1>4. Downloads!reset <=> ioctl_download \/ ~rom_loaded
  BY DEF Downloads!reset, ControlInv, LoaderInv
<1>5. Clears => Downloads!reset /\ ~wave_wr_req /\ ~Waving
  BY <1>3, <1>4 DEF ControlInv, LoaderInv, WaveInv
<1>6. ~Downloads!reset => ~sdr_wr_req /\ ~wave_clear_active /\ strobe = None
  BY <1>4 DEF ControlInv, LoaderInv, HostInv
<1>7. ~Downloads!reset => ~Loads /\ ~Rearming /\ ~Clears /\ ~Closes /\ ~Ends
  BY <1>2, <1>5, <1>6 DEF Loads, Rearming, Closes
<1> QED BY <1>1, <1>2, <1>3, <1>4, <1>5, <1>6, <1>7

\* A transfer goes on, begins, presents a word or ends.
LEMMA HostMoves ==
    ASSUME ControlInv, Downloads!Clock
    PROVE  \/ strobe' = None /\ UNCHANGED <<ioctl_download, index, started>>
           \/ /\ ~ioctl_download /\ strobe = None /\ ioctl_download' /\ ~started' /\ strobe' = None
              /\ index' \in {"zero", "region", "eeprom"}
              /\ index' = "region" => ~index0_seen /\ ~rom_loaded
           \/ /\ ioctl_download /\ strobe = None /\ started' /\ UNCHANGED <<ioctl_download, index>>
              /\ ~busy /\ ~wave_clear_active /\ mem_ready
              /\ strobe' \in Strobes
              /\ strobe'.zero <=> index = "zero"
              /\ strobe'.addr # None => index # "eeprom" /\ (index = "zero" => started)
              /\ strobe'.first = ~started
           \/ /\ ioctl_download /\ strobe = None /\ ~ioctl_download' /\ strobe' = None
              /\ ~wave_wr_req /\ ~Waving /\ UNCHANGED <<index, started>>
<1>1. CASE Downloads!HostIdles
  BY <1>1 DEF Downloads!HostIdles
<1>2. CASE Downloads!HostRaises
  BY <1>2 DEF Downloads!HostRaises
<1>3. CASE Downloads!HostSends
  <2>1. /\ ioctl_download /\ strobe = None /\ started' /\ UNCHANGED <<ioctl_download, index>>
        /\ ~busy /\ ~wave_clear_active /\ mem_ready
        /\ strobe' \in Downloads!Stream(index)
    BY <1>3 DEF Downloads!HostSends, Downloads!ioctl_wait, ControlInv, DownTypes
  <2>2. /\ strobe' \in Strobes
        /\ strobe'.zero = (index = "zero") /\ strobe'.first = ~started
    BY <2>1 DEF Downloads!Stream, Strobes
  <2>3. strobe'.addr # None => index # "eeprom" /\ (index = "zero" => started)
    BY <2>1 DEF Downloads!Stream
  <2> QED BY <2>1, <2>2, <2>3
<1>4. CASE Downloads!HostLowers
  BY <1>4 DEF Downloads!HostLowers, Waving
<1> QED BY <1>1, <1>2, <1>3, <1>4 DEF Downloads!Clock, Downloads!Host

LEMMA ReadyMoves == ASSUME ControlInv, Downloads!Clock PROVE mem_ready => mem_ready'
  BY DEF Downloads!Clock

LEMMA LoaderInvStep == ASSUME ControlInv, Downloads!Clock PROVE LoaderInv'
<1>1. LoaderInv /\ HostInv /\ DownTypes
  BY DEF ControlInv
<1>2. busy' = sdr_wr_req'
  BY LoaderMoves
<1>3. ASSUME rom_loaded' PROVE ~sdr_wr_req' /\ ~wave_clear_active' /\ ~index0_seen' /\ mem_ready'
  <2>1. ~Closes /\ (rom_loaded \/ Ends)
    BY <1>3, LoaderMoves
  <2>2. CASE rom_loaded
    <3>1. ~sdr_wr_req /\ ~wave_clear_active /\ ~index0_seen /\ mem_ready /\ ~Rearming
      BY <1>1, <2>2 DEF LoaderInv, Rearming
    <3>2. ~Loads
      BY <1>1, <2>2 DEF HostInv, Loads
    <3>3. ~Clears
      BY <3>1, Apart
    <3> QED BY <2>1, <3>1, <3>2, <3>3, LoaderMoves, ReadyMoves
  <2>3. CASE Ends
    <3>1. Acked /\ wave_clear_active /\ sdr_wr_req /\ mem_ready /\ ~Rearming
      BY <1>1, <2>3, Apart DEF LoaderInv, Rearming
    <3>2. ~Loads /\ ~Clears
      BY <3>1, Apart, RaisedIs
    <3> QED BY <2>1, <2>3, <3>1, <3>2, LoaderMoves, ReadyMoves
  <2> QED BY <2>1, <2>2, <2>3
<1>4. ASSUME wave_clear_active'
      PROVE  /\ index0_seen' /\ mem_ready'
             /\ sdr_wr_req' =>
                    sdr_wr_word' = [addr |-> Downloads!Wave(wave_clear_word'), data |-> Cleared]
  <2>1. CASE Clears
    <3>1. index0_seen /\ ~Ends /\ ~Loads /\ ~Rearming /\ ~sdr_wr_req /\ mem_ready
      BY <2>1, Apart DEF Loads, Rearming, Clears
    <3> QED BY <3>1, LoaderMoves, ReadyMoves
  <2>2. CASE ~Clears
    <3>1. wave_clear_active /\ ~Ends /\ index0_seen /\ mem_ready
      BY <1>1, <1>4, <2>2, LoaderMoves DEF LoaderInv
    <3>2. ~Loads
      BY <3>1, RaisedIs
    <3>3. index0_seen' /\ mem_ready'
      BY <3>1, LoaderMoves, ReadyMoves
    <3>4. CASE Rearming
      <4>1. ~Acked
        BY <3>4, Apart DEF Rearming
      <4>2. wave_clear_word' = wave_clear_word /\ sdr_wr_word' = Blanks
        BY <2>2, <3>2, <3>4, <4>1, LoaderMoves
      <4> QED BY <3>3, <4>2 DEF Blanks
    <3>5. CASE ~Rearming
      <4>1. sdr_wr_req' => sdr_wr_req /\ ~Acked /\ sdr_wr_word' = sdr_wr_word
        BY <3>2, <3>5, LoaderMoves
      <4>2. sdr_wr_req' => wave_clear_word' = wave_clear_word
        BY <2>2, <4>1, LoaderMoves
      <4> QED BY <1>1, <3>1, <3>3, <4>1, <4>2 DEF LoaderInv
    <3> QED BY <3>4, <3>5
  <2> QED BY <2>1, <2>2
<1> QED BY <1>2, <1>3, <1>4 DEF LoaderInv

LEMMA HostInvStep == ASSUME ControlInv, Downloads!Clock PROVE HostInv'
<1>1. LoaderInv /\ HostInv /\ index \in {"zero", "region", "eeprom"} /\ started \in BOOLEAN
  BY DEF ControlInv, DownTypes
<1>2. Ends => wave_clear_active
  BY Apart
<1>3. rom_loaded' = (~Closes /\ (rom_loaded \/ Ends)) /\ index0_seen' = (Closes \/ (index0_seen /\ ~Ends))
      /\ wave_clear_active' = (Clears \/ (wave_clear_active /\ ~Ends))
  BY LoaderMoves
<1>4. ioctl_download => ~Clears
  BY DEF Clears
<1>5. Closes => index = "zero" /\ strobe # None
  BY <1>1 DEF HostInv, Closes
<1>6. CASE strobe' = None /\ UNCHANGED <<ioctl_download, index, started>>
  <2>1. ioctl_download' /\ started' => ~wave_clear_active'
    BY <1>1, <1>3, <1>4, <1>6 DEF HostInv
  <2>2. ioctl_download' /\ index' = "region" => ~index0_seen' /\ ~rom_loaded'
    BY <1>1, <1>2, <1>3, <1>5, <1>6 DEF HostInv, LoaderInv
  <2>3. ioctl_download' /\ started' /\ index' = "zero" => ~rom_loaded'
    BY <1>1, <1>2, <1>3, <1>6 DEF HostInv, Closes
  <2> QED BY <1>6, <2>1, <2>2, <2>3 DEF HostInv
<1>7. CASE /\ ~ioctl_download /\ strobe = None /\ ioctl_download' /\ ~started' /\ strobe' = None
           /\ index' \in {"zero", "region", "eeprom"}
           /\ index' = "region" => ~index0_seen /\ ~rom_loaded
  <2>1. index' = "region" => ~index0_seen' /\ ~rom_loaded'
    BY <1>1, <1>2, <1>3, <1>5, <1>7 DEF LoaderInv
  <2> QED BY <1>7, <2>1 DEF HostInv
<1>8. CASE /\ ioctl_download /\ strobe = None /\ started' /\ UNCHANGED <<ioctl_download, index>>
           /\ ~busy /\ ~wave_clear_active /\ mem_ready
           /\ strobe' \in Strobes
           /\ strobe'.zero <=> index = "zero"
           /\ strobe'.addr # None => index # "eeprom" /\ (index = "zero" => started)
           /\ strobe'.first = ~started
  <2>1. mem_ready' /\ ~busy'
    <3>1. ~sdr_wr_req /\ ~Loads /\ ~Rearming
      BY <1>1, <1>8 DEF LoaderInv, Loads, Rearming
    <3>2. ~sdr_wr_req' /\ busy' = sdr_wr_req'
      BY <3>1, LoaderMoves
    <3> QED BY <1>8, <3>2, ReadyMoves
  <2>2. ~Ends /\ ~Clears /\ ~Closes
    BY <1>2, <1>4, <1>5, <1>8
  <2>3. rom_loaded' = rom_loaded /\ index0_seen' = index0_seen /\ ~wave_clear_active'
    BY <1>1, <1>3, <1>8, <2>2 DEF ControlInv, DownTypes
  <2>4. strobe'.addr # None => ~rom_loaded'
    BY <1>1, <1>8, <2>3 DEF HostInv
  <2>5. index' = "region" => ~index0_seen' /\ ~rom_loaded'
    BY <1>1, <1>8, <2>3 DEF HostInv
  <2>6. index' = "zero" => ~rom_loaded' \/ (strobe' # None /\ strobe'.first)
    <3>1. CASE started
      BY <1>1, <1>8, <2>3, <3>1 DEF HostInv
    <3>2. CASE ~started
      <4>1. strobe' # None
        BY <1>8, <3>2, BoardAssumption DEF BoardAssumption, Downloads!DownloadAssumption, Strobes
      <4> QED BY <1>8, <3>2, <4>1
    <3> QED BY <3>1, <3>2
  <2> QED BY <1>8, <2>1, <2>3, <2>4, <2>5, <2>6 DEF HostInv
<1>9. CASE /\ ioctl_download /\ strobe = None /\ ~ioctl_download' /\ strobe' = None
           /\ ~wave_wr_req /\ ~Waving /\ UNCHANGED <<index, started>>
  BY <1>9 DEF HostInv
<1> QED BY <1>6, <1>7, <1>8, <1>9, HostMoves

LEMMA PortInvStep == ASSUME ControlInv, Downloads!Clock PROVE PortInv'
<1>1. LoaderInv /\ PortInv /\ WaveInv /\ owner \in {0, 1}
  BY DEF ControlInv, DownTypes
<1>2. sdr_wr_req /\ ~Acked => sdr_wr_req' /\ sdr_wr_word' = sdr_wr_word
  <2>1. sdr_wr_req => ~Loads /\ ~Rearming
    BY RaisedIs DEF Rearming
  <2> QED BY <2>1, LoaderMoves
<1>3. Acked => active /\ d_ack
  BY Apart
<1>4. ASSUME active', owner' = 0 PROVE sdr_wr_req' /\ sdr_wr_word' = d_word'
  <2>1. CASE Granted
    <3>1. sdr_wr_req /\ ~Acked /\ d_word' = sdr_wr_word
      BY <1>3, <1>4, <2>1 DEF Granted, Grants
    <3> QED BY <1>2, <3>1
  <2>2. CASE Writing
    <3>1. active /\ ~d_ack /\ owner = 0 /\ d_word' = d_word
      BY <1>4, <2>2 DEF Writing
    <3>2. sdr_wr_req /\ sdr_wr_word = d_word /\ ~Acked
      BY <1>1, <1>3, <3>1 DEF PortInv
    <3> QED BY <1>2, <3>1, <3>2
  <2> QED BY <1>4, <2>1, <2>2, PortMoves DEF Rests, Finishes
<1>5. ASSUME Waving', wave_wr_req' PROVE wave_wr_word' = d_word'
  <2>1. wave_wr_req => wave_wr_word' = wave_wr_word
    BY <1>5, WaveMoves
  <2>2. CASE Granted
    <3>1. wave_wr_req /\ d_word' = wave_wr_word
      BY <1>5, <2>2 DEF Granted, Grants, Waving
    <3> QED BY <2>1, <3>1
  <2>3. CASE Writing
    <3>1. Waving /\ d_word' = d_word
      BY <1>5, <2>3 DEF Writing, Waving
    <3>2. wave_wr_req
      BY <1>1, <1>5, <3>1, WaveMoves DEF WaveInv
    <3> QED BY <1>1, <2>1, <3>1, <3>2 DEF PortInv
  <2> QED BY <1>5, <2>2, <2>3, PortMoves DEF Rests, Finishes, Waving
<1>6. Phases'
  BY PortMoves
<1> QED BY <1>4, <1>5, <1>6 DEF PortInv, Phases

\* While reset stands and a wave write is under way, its transfer does too.
LEMMA WavingStays ==
    ASSUME ControlInv, Downloads!Clock, Downloads!reset, wave_wr_req \/ Waving
    PROVE  ioctl_download' /\ Downloads!reset'
<1>1. ioctl_download
  BY DEF ControlInv, WaveInv
<1>2. ioctl_download'
  BY <1>1, HostMoves
<1> QED BY <1>2 DEF Downloads!reset

LEMMA WaveInvStep == ASSUME ControlInv, Downloads!Clock PROVE WaveInv'
<1>1. LoaderInv /\ PortInv /\ WaveInv /\ owner \in {0, 1}
  BY DEF ControlInv, DownTypes
<1>2. Waving' => (Granted /\ wave_wr_req) \/ (Writing /\ Waving)
  <2>1. Granted /\ owner' = 1 => wave_wr_req
    BY DEF Granted, Grants
  <2>2. Writing /\ owner' = 1 => Waving
    BY DEF Writing, Waving
  <2>3. Rests \/ Finishes => ~active'
    BY DEF Rests, Finishes
  <2> QED BY <2>1, <2>2, <2>3, PortMoves DEF Waving
<1>3. ASSUME Waving', ~wave_wr_req' PROVE Downloads!reset'
  <2>1. CASE Downloads!reset
    BY <1>2, <1>3, <2>1, WavingStays
  <2>2. CASE ~Downloads!reset
    <3>1. wave_wr_req
      BY <1>1, <1>2, <1>3, <2>2 DEF WaveInv
    <3>2. Downloads!c1_ack(d_ack)
      BY <1>3, <2>2, <3>1, WaveMoves
    <3> QED BY <1>2, <1>3, <3>2 DEF Downloads!c1_ack, Granted, Grants, Writing
  <2> QED BY <2>1, <2>2
<1>4. ASSUME Downloads!reset', ~ioctl_download' PROVE ~wave_wr_req' /\ ~Waving'
  <2>1. Downloads!reset
    <3>1. ASSUME ~Downloads!reset PROVE FALSE
      <4>1. rom_loaded /\ mem_ready /\ ~Closes
        BY <3>1, Apart DEF Downloads!reset
      <4>2. rom_loaded' /\ mem_ready'
        BY <4>1, LoaderMoves, ReadyMoves
      <4> QED BY <1>4, <4>2 DEF Downloads!reset
    <3> QED BY <3>1
  <2>2. ~wave_wr_req'
    BY <2>1, WaveMoves
  <2> QED BY <1>2, <1>4, <2>1, <2>2, WavingStays
<1>5. ASSUME wave_wr_req', ~Waving'
      PROVE  ~active' /\ ~cooldown' /\ ~sdr_wr_req' /\ rom_loaded'
  <2>0. ~Downloads!reset
    BY <1>5, WaveMoves
  <2>1. ~wave_wr_req
    <3>1. ASSUME wave_wr_req PROVE FALSE
      <4>1. ~Downloads!c1_ack(d_ack)
        BY <1>5, <3>1, WaveMoves
      <4>2. CASE Waving
        <5>1. ~d_ack /\ active /\ owner = 1
          BY <4>1, <4>2 DEF Downloads!c1_ack, Waving
        <5> QED BY <1>5, <5>1, PortMoves DEF Rests, Granted, Grants, Writing, Finishes, Waving
      <4>3. CASE ~Waving
        <5>1. ~active /\ ~cooldown /\ ~sdr_wr_req /\ ~d_ack
          BY <1>1, <3>1, <4>3 DEF WaveInv, PortInv
        <5>2. Granted
          BY <3>1, <5>1, PortMoves DEF Rests, Grants, Writing, Finishes
        <5> QED BY <1>5, <5>1, <5>2 DEF Granted, Waving
      <4> QED BY <4>2, <4>3
    <3> QED BY <3>1
  <2>2. ~sdr_wr_req /\ rom_loaded /\ ~Loads /\ ~Rearming /\ ~Closes
    BY <2>0, Apart DEF Downloads!reset
  <2>3. ~active
    BY <1>1, <2>0, <2>1, <2>2 DEF PortInv, WaveInv, Waving
  <2>4. ~active'
    BY <2>1, <2>2, <2>3, PortMoves DEF Rests, Granted, Grants, Writing, Finishes
  <2>5. ~cooldown'
    <3>1. cooldown' = Downloads!CooldownNext(Downloads!req, d_ack)
      BY DEF Downloads!Clock, Downloads!MuxStep
    <3>2. ~d_ack
      BY <1>1, <2>3 DEF PortInv
    <3>3. ~Downloads!req[owner]
      BY <1>1, <2>1, <2>2 DEF Downloads!req
    <3> QED BY <2>3, <3>1, <3>2, <3>3 DEF Downloads!CooldownNext
  <2>6. ~sdr_wr_req' /\ rom_loaded'
    BY <2>2, LoaderMoves
  <2> QED BY <2>4, <2>5, <2>6
<1> QED BY <1>3, <1>4, <1>5 DEF WaveInv

\* What memory should hold follows the stream, the start of a clear and the
\* requests of the wave port.
Asks == wave_wr_req' /\ ~wave_wr_req

LEMMA ExpectedMoves ==
    ASSUME ControlInv, Downloads!Clock
    PROVE  \/ Loads /\ expected' = [expected EXCEPT ![strobe.addr] = strobe.data]
           \/ /\ Clears /\ ~Loads
              /\ expected' = [a \in Downloads!Words |->
                                  IF a \in Downloads!Aperture THEN Cleared ELSE expected[a]]
           \/ /\ Asks /\ ~Downloads!reset /\ ~Loads /\ ~Clears
              /\ expected' = [expected EXCEPT ![wave_wr_word'.addr] = wave_wr_word'.data]
              /\ wave_wr_word' \in [addr : Downloads!Aperture, data : Data]
           \/ ~Loads /\ ~Clears /\ ~Asks /\ expected' = expected
<1>1. wave_clear_active' /\ ~wave_clear_active <=> Clears
  BY LoaderMoves, Apart
<1>2. Asks => ~Downloads!reset /\ wave_wr_word' \in [addr : Downloads!Aperture, data : Data]
  BY WaveMoves DEF Asks
<1>3. Downloads!ExpectedNext
  BY DEF Downloads!Clock
<1> QED BY <1>1, <1>2, <1>3 DEF Downloads!ExpectedNext, Loads, Asks

LEMMA DownTypesStep == ASSUME ControlInv, Downloads!Clock PROVE DownTypes'
<1>1. DownTypes
  BY DEF ControlInv
<1>2. {sdr_wr_req', busy', index0_seen', wave_clear_active', rom_loaded'} \subseteq BOOLEAN
  BY <1>1, LoaderMoves DEF DownTypes
<1>3. {d_req', active', cooldown', latched', d_ack'} \subseteq BOOLEAN /\ owner' \in {0, 1}
  <2>1. {d_req', active'} \subseteq BOOLEAN /\ owner' \in {0, 1}
    <3>1. \/ owner' = owner /\ d_req' = (d_req /\ ~(active /\ d_ack)) /\ active' = (active /\ ~d_ack)
          \/ owner' \in {0, 1} /\ d_req' = TRUE /\ active' = TRUE
      BY DEF Downloads!Clock, Downloads!MuxStep
    <3> QED BY <1>1, <3>1 DEF DownTypes
  <2>2. cooldown' \in BOOLEAN
    BY <1>1 DEF Downloads!Clock, Downloads!MuxStep, Downloads!CooldownNext, DownTypes
  <2>3. {latched', d_ack'} \subseteq BOOLEAN
    BY <1>1 DEF Downloads!Clock, Downloads!PortStep, Downloads!AckNext, DownTypes
  <2> QED BY <2>1, <2>2, <2>3
<1>4. {ioctl_download', started', mem_ready', wave_wr_req'} \subseteq BOOLEAN
  <2>1. {ioctl_download', started'} \subseteq BOOLEAN
    BY <1>1 DEF Downloads!Clock, Downloads!Host, Downloads!HostIdles, Downloads!HostRaises,
                Downloads!HostSends, Downloads!HostLowers, DownTypes
  <2>2. mem_ready' \in BOOLEAN
    BY <1>1 DEF Downloads!Clock, DownTypes
  <2>3. wave_wr_req' \in BOOLEAN
    BY <1>1 DEF Downloads!Clock, Downloads!WaveStep, Downloads!wave, DownTypes
  <2> QED BY <2>1, <2>2, <2>3
<1>5. index' \in {"zero", "region", "eeprom"} /\ strobe' \in {None} \cup Strobes
  BY <1>1, HostMoves DEF DownTypes
<1>6. wave_clear_word' \in 0 .. WaveWords - 1
  <2>1. WaveWords \in Nat \ {0} /\ wave_clear_word \in 0 .. WaveWords - 1
    BY <1>1, BoardAssumption DEF BoardAssumption, Downloads!DownloadAssumption, DownTypes
  <2>2. wave_clear_active /\ Acked /\ ~Ends => wave_clear_word # WaveWords - 1
    BY DEF Ends, Downloads!LastClear
  <2>3. wave_clear_word' \in {0, wave_clear_word}
        \/ (wave_clear_word # WaveWords - 1 /\ wave_clear_word' = wave_clear_word + 1)
    BY <2>2, LoaderMoves
  <2> QED BY <2>1, <2>3
<1>7. sdr_wr_req' => sdr_wr_word' \in Downloads!Write
  BY LoaderMoves
<1>8. wave_wr_req' => wave_wr_word' \in Downloads!Write
  <2>1. [addr : Downloads!Aperture, data : Data] \subseteq Downloads!Write
    BY DEF Downloads!Write, Downloads!Words
  <2> QED BY <1>1, <2>1, WaveMoves DEF DownTypes
<1>9. memory' \in [Downloads!Words -> Data \cup {Cleared}]
  <2>1. CASE Writing
    <3>1. d_word \in Downloads!Write
      BY <2>1 DEF ControlInv, PortInv, Writing
    <3> QED BY <1>1, <2>1, <3>1 DEF Writing, DownTypes, Downloads!Write
  <2> QED BY <1>1, <2>1, PortMoves DEF Rests, Granted, Finishes, DownTypes
<1>10. expected' \in [Downloads!Words -> Data \cup {Cleared}]
  <2>1. expected \in [Downloads!Words -> Data \cup {Cleared}]
    BY <1>1 DEF DownTypes
  <2>2. Loads => strobe.data \in Data
    BY <1>1 DEF DownTypes, Strobes, Loads
  <2>3. wave_wr_word' \in [addr : Downloads!Aperture, data : Data] => wave_wr_word'.data \in Data
    OBVIOUS
  <2> QED BY <2>1, <2>2, <2>3, ExpectedMoves
<1> QED BY <1>2, <1>3, <1>4, <1>5, <1>6, <1>7, <1>8, <1>9, <1>10 DEF DownTypes

LEMMA ControlInit == ASSUME Init PROVE ControlInv
<1>1. /\ Downloads!LoaderInit /\ Downloads!MuxInit
      /\ ioctl_download = FALSE /\ index = "region" /\ started = FALSE /\ strobe = None
      /\ mem_ready = FALSE /\ wave_wr_req = FALSE
      /\ latched = FALSE /\ port_pending = NoWord /\ d_ack = FALSE
      /\ memory \in [Downloads!Words -> Data] /\ expected = memory
  BY DEF Init, Downloads!Init
<1>2. WaveWords \in Nat \ {0}
  BY BoardAssumption DEF BoardAssumption, Downloads!DownloadAssumption
<1>3. DownTypes
  <2>1. memory \in [Downloads!Words -> Data \cup {Cleared}]
    BY <1>1
  <2>2. 0 \in 0 .. WaveWords - 1
    BY <1>2
  <2> QED BY <1>1, <2>1, <2>2 DEF DownTypes, Downloads!LoaderInit, Downloads!MuxInit
<1>4. LoaderInv /\ HostInv /\ PortInv /\ WaveInv
  BY <1>1 DEF LoaderInv, HostInv, PortInv, WaveInv, Waving,
              Downloads!LoaderInit, Downloads!MuxInit
<1> QED BY <1>3, <1>4 DEF ControlInv

LEMMA ControlClock == ASSUME ControlInv, Downloads!Clock PROVE ControlInv'
  BY DownTypesStep, LoaderInvStep, HostInvStep, PortInvStep, WaveInvStep DEF ControlInv

LEMMA ControlInvStep == ASSUME ControlInv, [Next]_vars PROVE ControlInv'
<1>1. CASE Downloads!Clock
  BY <1>1, ControlClock
<1>2. CASE Downloads!PllLoss
  <2>1. /\ Downloads!LoaderReset /\ Downloads!MuxReset
        /\ ioctl_download' = FALSE /\ index' = "region" /\ started' = FALSE /\ strobe' = None
        /\ mem_ready' = FALSE /\ wave_wr_req' = FALSE
        /\ latched' = FALSE /\ port_pending' = NoWord /\ d_ack' = FALSE
        /\ memory' = memory /\ expected' = memory
    BY <1>2 DEF Downloads!PllLoss
  <2>2. WaveWords \in Nat \ {0}
    BY BoardAssumption DEF BoardAssumption, Downloads!DownloadAssumption
  <2>3. DownTypes'
    <3>1. memory \in [Downloads!Words -> Data \cup {Cleared}]
      BY DEF ControlInv, DownTypes
    <3>2. 0 \in 0 .. WaveWords - 1
      BY <2>2
    <3> QED BY <2>1, <3>1, <3>2 DEF DownTypes, Downloads!LoaderReset, Downloads!MuxReset
  <2>4. (LoaderInv /\ HostInv /\ PortInv /\ WaveInv)'
    BY <2>1 DEF LoaderInv, HostInv, PortInv, WaveInv, Waving,
                Downloads!LoaderReset, Downloads!MuxReset
  <2> QED BY <2>3, <2>4 DEF ControlInv
<1>3. CASE UNCHANGED downloadVars
  BY <1>3 DEF downloadVars, ControlInv, DownTypes, LoaderInv, HostInv, PortInv, WaveInv,
              Waiting, Latched, Served, Waving, Downloads!reset
<1> QED BY <1>1, <1>2, <1>3, DownloadMoves

\* No write is lost on its way.  A word the host presents is taken, however late
\* ioctl_wait rises, and the loader is not using its port for a clear then; an
\* acknowledge finds an owner and reaches the client whose word is in memory.
THEOREM NothingLost == Spec => []NoWriteLost
<1>1. Init => ControlInv
  BY ControlInit
<1>2. ControlInv /\ [Next]_vars => ControlInv'
  BY ControlInvStep
<1>3. ControlInv => NoWriteLost
  <2> SUFFICES ASSUME ControlInv PROVE NoWriteLost
    OBVIOUS
  <2>1. strobe # None => /\ Downloads!Accepts(strobe, mem_ready)
                         /\ Downloads!Raised(None, Acked, mem_ready) = None
    <3> SUFFICES ASSUME strobe # None
                 PROVE  /\ Downloads!Accepts(strobe, mem_ready)
                        /\ Downloads!Raised(None, Acked, mem_ready) = None
      OBVIOUS
    <3>1. mem_ready /\ ~busy /\ ~wave_clear_active
      BY DEF ControlInv, HostInv
    <3> QED BY <3>1 DEF Downloads!Accepts, Downloads!Raised, Downloads!Rearms
  <2>2. d_ack => active /\ Served
    BY DEF ControlInv, PortInv, Waiting, Latched
  <2>3. Acked => sdr_wr_req /\ memory[sdr_wr_word.addr] = sdr_wr_word.data
    BY <2>2 DEF ControlInv, PortInv, Served, Acked, Downloads!c0_ack
  <2>4. Downloads!c1_ack(d_ack) /\ wave_wr_req => memory[wave_wr_word.addr] = wave_wr_word.data
    BY <2>2 DEF ControlInv, PortInv, Served, Waving, Downloads!c1_ack
  <2> QED BY <2>1, <2>2, <2>3, <2>4 DEF NoWriteLost, Downloads!NoWriteLost, Acked
<1> QED BY <1>1, <1>2, <1>3, PTL DEF Spec

-----------------------------------------------------------------------------
(***************************************************************************)
(* Where memory differs from what it should hold, the write that makes up  *)
(* for it is on its way: raised, granted, or still to be cleared.  What is *)
(* on its way is what memory should hold; only a wave write under way when *)
(* reset came may be overtaken by a word of the stream, which follows it.  *)
(***************************************************************************)
Asked(w) == expected[w.addr] = w.data

OnItsWay(a) ==
    \/ sdr_wr_req /\ sdr_wr_word.addr = a
    \/ wave_clear_active /\ \E i \in wave_clear_word .. WaveWords - 1 : a = Downloads!Wave(i)
    \/ wave_wr_req /\ ~Waving /\ wave_wr_word.addr = a
    \/ Waving /\ d_word.addr = a

LoaderAsked == sdr_wr_req => Asked(sdr_wr_word)
WaveAsked   == wave_wr_req /\ ~Waving => Asked(wave_wr_word)
WavingAsked ==
    Waving => Asked(d_word) \/ (sdr_wr_req /\ sdr_wr_word.addr = d_word.addr)
ClearAsked  ==
    wave_clear_active =>
        \A i \in 0 .. WaveWords - 1 : expected[Downloads!Wave(i)] = Cleared
Settled     == \A a \in Downloads!Words : memory[a] = expected[a] \/ OnItsWay(a)

DataInv == LoaderAsked /\ WaveAsked /\ WavingAsked /\ ClearAsked /\ Settled

\* A write of the loader stays until it is acknowledged.
LEMMA LoaderStays ==
    ASSUME ControlInv, Downloads!Clock, sdr_wr_req, ~Acked
    PROVE  sdr_wr_req' /\ sdr_wr_word' = sdr_wr_word
<1>1. ~Loads /\ ~Rearming
  BY RaisedIs DEF Rearming
<1> QED BY <1>1, LoaderMoves

\* A request of the wave port that is not granted yet is granted on this edge,
\* and what memory should hold does not change on it.
LEMMA WaveGranted ==
    ASSUME ControlInv, Downloads!Clock, wave_wr_req, ~Waving
    PROVE  Waving' /\ d_word' = wave_wr_word /\ expected' = expected
<1>1. ~active /\ ~cooldown /\ ~sdr_wr_req /\ ~d_ack /\ rom_loaded
  BY DEF ControlInv, WaveInv, PortInv
<1>2. Granted
  BY <1>1, PortMoves DEF Rests, Grants, Writing, Finishes
<1>3. ~Loads
  BY <1>1 DEF ControlInv, HostInv, Loads
<1>4. expected' = expected
  BY <1>3, ExpectedMoves, Apart DEF Asks
<1> QED BY <1>1, <1>2, <1>4 DEF Granted, Waving

\* A request is raised where no wave write is under way, and is not granted yet.
LEMMA AskedApart ==
    ASSUME ControlInv, Downloads!Clock, Asks PROVE ~Waving /\ ~Waving' /\ ~Downloads!reset
<1>1. ~Downloads!reset
  BY WaveMoves DEF Asks
<1>2. ~Waving
  BY <1>1 DEF Asks, ControlInv, WaveInv
<1>3. ~Granted \/ owner' # 1
  <2>1. ~sdr_wr_req
    BY <1>1, Apart
  <2> QED BY <2>1 DEF Granted, Grants, Asks
<1> QED BY <1>1, <1>2, <1>3, PortMoves DEF Rests, Writing, Finishes, Waving

\* While the aperture is cleared nothing else is asked for.
LEMMA ClearedApart ==
    ASSUME ControlInv, Downloads!Clock, wave_clear_active PROVE ~Clears /\ expected' = expected
<1>1. ~Loads /\ ~Clears
  BY RaisedIs, Apart
<1>2. ~Asks
  BY AskedApart, Apart
<1> QED BY <1>1, <1>2, ExpectedMoves

LEMMA LoaderAskedStep == ASSUME ControlInv, DataInv, Downloads!Clock PROVE LoaderAsked'
<1>1. CASE Loads
  <2>1. sdr_wr_word' = Loaded /\ expected' = [expected EXCEPT ![strobe.addr] = strobe.data]
    BY <1>1, LoaderMoves, ExpectedMoves
  <2>2. strobe.addr \in RomWords /\ expected \in [Downloads!Words -> Data \cup {Cleared}]
    BY <1>1 DEF ControlInv, DownTypes, Strobes, Loads
  <2>3. strobe.addr \in Downloads!Words
    BY <2>2 DEF Downloads!Words
  <2> QED BY <2>1, <2>2, <2>3 DEF LoaderAsked, Asked, Loaded
<1>2. CASE ~Loads /\ Rearming
  <2>1. wave_clear_active /\ sdr_wr_word' = Blanks
    BY <1>2, LoaderMoves DEF Rearming
  <2>2. expected' = expected
    BY <2>1, ClearedApart
  <2>3. expected[Downloads!Wave(wave_clear_word)] = Cleared
    BY <2>1 DEF DataInv, ClearAsked, ControlInv, DownTypes
  <2> QED BY <2>1, <2>2, <2>3 DEF LoaderAsked, Asked, Blanks
<1>3. CASE ~Loads /\ ~Rearming
  <2> SUFFICES ASSUME sdr_wr_req' PROVE Asked(sdr_wr_word)'
    BY DEF LoaderAsked
  <2>1. sdr_wr_req /\ sdr_wr_word' = sdr_wr_word
    BY <1>3, LoaderMoves
  <2>2. ~Clears /\ ~Asks
    BY <2>1, Apart, AskedApart
  <2>3. expected' = expected
    BY <1>3, <2>2, ExpectedMoves
  <2> QED BY <2>1, <2>3 DEF DataInv, LoaderAsked, Asked
<1> QED BY <1>1, <1>2, <1>3

LEMMA WaveAskedStep == ASSUME ControlInv, DataInv, Downloads!Clock PROVE WaveAsked'
<1> SUFFICES ASSUME wave_wr_req', ~Waving' PROVE Asked(wave_wr_word)'
  BY DEF WaveAsked
<1>1. Asks
  <2>1. ASSUME wave_wr_req PROVE FALSE
    <3>1. ~Downloads!reset /\ ~Downloads!c1_ack(d_ack)
      BY <2>1, WaveMoves
    <3>2. Waving
      BY <2>1, WaveGranted
    <3>3. active /\ owner = 1 /\ ~d_ack
      BY <3>1, <3>2 DEF Downloads!c1_ack, Waving
    <3> QED BY <3>3, PortMoves DEF Rests, Granted, Grants, Writing, Finishes, Waving
  <2> QED BY <2>1 DEF Asks
<1>2. /\ expected' = [expected EXCEPT ![wave_wr_word'.addr] = wave_wr_word'.data]
      /\ wave_wr_word' \in [addr : Downloads!Aperture, data : Data]
  BY <1>1, AskedApart, Apart, ExpectedMoves
<1>3. wave_wr_word'.addr \in Downloads!Words
  BY <1>2 DEF Downloads!Words
<1> QED BY <1>2, <1>3 DEF Asked, ControlInv, DownTypes

LEMMA WavingAskedStep == ASSUME ControlInv, DataInv, Downloads!Clock PROVE WavingAsked'
<1> SUFFICES ASSUME Waving'
             PROVE  Asked(d_word)' \/ (sdr_wr_req' /\ sdr_wr_word'.addr = d_word'.addr)
  BY DEF WavingAsked
<1>1. CASE ~Waving
  <2>1. wave_wr_req
    BY <1>1, PortMoves DEF Rests, Granted, Grants, Writing, Finishes, Waving
  <2>2. d_word' = wave_wr_word /\ expected' = expected
    BY <1>1, <2>1, WaveGranted
  <2> QED BY <1>1, <2>1, <2>2 DEF DataInv, WaveAsked, Asked
<1>2. CASE Waving
  <2>1. d_word' = d_word /\ ~Acked /\ ~Clears /\ ~Asks /\ d_word \in Downloads!Write
    <3>1. d_word' = d_word
      BY <1>2, PortMoves DEF Rests, Granted, Grants, Writing, Finishes, Waving
    <3>2. ~Acked /\ ~Clears /\ ~Asks
      BY <1>2, Apart, AskedApart DEF Waving
    <3> QED BY <1>2, <3>1, <3>2 DEF ControlInv, PortInv, Waving
  <2>2. CASE Loads
    <3>1. ~sdr_wr_req /\ sdr_wr_req' /\ sdr_wr_word' = Loaded
      BY <2>2, RaisedIs, LoaderMoves
    <3>2. expected' = [expected EXCEPT ![strobe.addr] = strobe.data]
      BY <2>2, ExpectedMoves
    <3>3. Asked(d_word)
      BY <1>2, <3>1 DEF DataInv, WavingAsked
    <3>4. strobe.addr # d_word.addr => expected'[d_word.addr] = expected[d_word.addr]
      BY <2>1, <3>2 DEF ControlInv, DownTypes, Downloads!Write
    <3> QED BY <2>1, <3>1, <3>3, <3>4 DEF Asked, Loaded
  <2>3. CASE ~Loads
    <3>1. expected' = expected
      BY <2>1, <2>3, ExpectedMoves
    <3>2. sdr_wr_req => sdr_wr_req' /\ sdr_wr_word' = sdr_wr_word
      BY <2>1, LoaderStays
    <3> QED BY <1>2, <2>1, <3>1, <3>2 DEF DataInv, WavingAsked, Asked
  <2> QED BY <2>2, <2>3
<1> QED BY <1>1, <1>2

LEMMA ClearAskedStep == ASSUME ControlInv, DataInv, Downloads!Clock PROVE ClearAsked'
<1> SUFFICES ASSUME wave_clear_active', NEW i \in 0 .. WaveWords - 1
             PROVE  expected'[Downloads!Wave(i)] = Cleared
  BY DEF ClearAsked
<1>1. CASE Clears
  <2>1. ~Loads
    BY <1>1, Apart DEF Loads
  <2>2. expected' = [a \in Downloads!Words |->
                         IF a \in Downloads!Aperture THEN Cleared ELSE expected[a]]
    BY <1>1, <2>1, ExpectedMoves
  <2>3. Downloads!Wave(i) \in Downloads!Aperture
    BY DEF Downloads!Aperture
  <2> QED BY <2>2, <2>3 DEF Downloads!Words
<1>2. CASE ~Clears
  <2>1. wave_clear_active
    BY <1>2, LoaderMoves
  <2> QED BY <2>1, ClearedApart DEF DataInv, ClearAsked
<1> QED BY <1>1, <1>2

\* A write that is on its way stays so or is in the memory.
LEMMA SettledStep == ASSUME ControlInv, DataInv, Downloads!Clock PROVE Settled'
<1> SUFFICES ASSUME NEW a \in Downloads!Words, memory'[a] # expected'[a] PROVE OnItsWay(a)'
  BY DEF Settled
<1>0. /\ memory \in [Downloads!Words -> Data \cup {Cleared}]
      /\ expected \in [Downloads!Words -> Data \cup {Cleared}]
  BY DEF ControlInv, DownTypes
<1>1. CASE expected'[a] # expected[a]
  <2>1. CASE Loads
    <3>1. strobe.addr = a
      BY <1>0, <1>1, <2>1, ExpectedMoves
    <3>2. sdr_wr_req' /\ sdr_wr_word' = Loaded
      BY <2>1, LoaderMoves
    <3> QED BY <3>1, <3>2 DEF OnItsWay, Loaded
  <2>2. CASE Clears /\ ~Loads
    <3>1. a \in Downloads!Aperture
      BY <1>1, <2>2, ExpectedMoves
    <3>2. PICK i \in 0 .. WaveWords - 1 : a = Downloads!Wave(i)
      BY <3>1 DEF Downloads!Aperture
    <3>3. wave_clear_active' /\ wave_clear_word' = 0
      BY <2>2, LoaderMoves
    <3> QED BY <3>2, <3>3 DEF OnItsWay
  <2>3. CASE Asks /\ ~Loads /\ ~Clears
    <3>1. wave_wr_word'.addr = a
      BY <1>0, <1>1, <2>3, ExpectedMoves
    <3> QED BY <2>3, <3>1, AskedApart DEF OnItsWay, Asks
  <2> QED BY <1>1, <2>1, <2>2, <2>3, ExpectedMoves
<1>2. CASE expected'[a] = expected[a] /\ memory'[a] # memory[a]
  <2>1. Writing /\ a = d_word.addr
    BY <1>0, <1>2, PortMoves DEF Rests, Granted, Writing, Finishes
  <2>2. owner \in {0, 1} /\ active /\ active' /\ owner' = owner /\ d_word' = d_word /\ ~d_ack
    BY <2>1 DEF Writing, ControlInv, DownTypes
  <2>3. CASE owner = 0
    <3>1. sdr_wr_req /\ sdr_wr_word = d_word /\ ~Acked
      BY <2>2, <2>3, Apart DEF ControlInv, PortInv
    <3>2. sdr_wr_req' /\ sdr_wr_word' = d_word
      BY <3>1, LoaderStays
    <3> QED BY <2>1, <3>2 DEF OnItsWay
  <2>4. CASE owner = 1
    BY <2>1, <2>2, <2>4 DEF OnItsWay, Waving
  <2> QED BY <2>2, <2>3, <2>4
<1>3. CASE expected'[a] = expected[a] /\ memory'[a] = memory[a]
  <2>1. OnItsWay(a) /\ memory[a] # expected[a]
    BY <1>3 DEF DataInv, Settled
  <2>2. sdr_wr_req /\ sdr_wr_word.addr = a => ~Acked
    <3>1. Acked => memory[sdr_wr_word.addr] = sdr_wr_word.data
      BY DEF ControlInv, PortInv, Waiting, Latched, Served, Acked, Downloads!c0_ack
    <3> QED BY <2>1, <3>1 DEF DataInv, LoaderAsked, Asked
  <2>3. CASE sdr_wr_req /\ sdr_wr_word.addr = a
    BY <2>2, <2>3, LoaderStays DEF OnItsWay
  <2>4. ASSUME wave_clear_active, NEW i \in wave_clear_word .. WaveWords - 1, a = Downloads!Wave(i)
        PROVE  OnItsWay(a)'
    <3>1. wave_clear_word \in 0 .. WaveWords - 1 /\ WaveWords \in Nat \ {0}
      BY BoardAssumption
         DEF BoardAssumption, Downloads!DownloadAssumption, ControlInv, DownTypes
    <3>2. ~Clears
      BY <2>4, ClearedApart
    <3>3. i = wave_clear_word => ~Acked
      <4>1. Acked => sdr_wr_word.addr = Downloads!Wave(wave_clear_word)
        BY <2>4, Apart DEF ControlInv, LoaderInv
      <4> QED BY <2>2, <2>4, <4>1, Apart
    <3>4. ~Ends
      BY <3>1, <3>3, Apart
    <3>5. wave_clear_active' /\ i \in wave_clear_word' .. WaveWords - 1
      <4>1. wave_clear_word' = IF wave_clear_active /\ Acked /\ ~Ends THEN wave_clear_word + 1
                               ELSE wave_clear_word
        BY <3>2, LoaderMoves
      <4>2. CASE Acked
        <5>1. wave_clear_word' = wave_clear_word + 1 /\ i # wave_clear_word
          BY <2>4, <3>3, <3>4, <4>1, <4>2
        <5>2. i \in wave_clear_word' .. WaveWords - 1
          BY <3>1, <5>1
        <5> QED BY <2>4, <3>4, <5>2, LoaderMoves
      <4>3. CASE ~Acked
        <5>1. wave_clear_word' = wave_clear_word
          BY <4>1, <4>3
        <5> QED BY <2>4, <3>4, <5>1, LoaderMoves
      <4> QED BY <4>2, <4>3
    <3> QED BY <2>4, <3>5 DEF OnItsWay
  <2>5. CASE wave_wr_req /\ ~Waving /\ wave_wr_word.addr = a
    BY <2>5, WaveGranted DEF OnItsWay
  <2>6. CASE Waving /\ d_word.addr = a
    <3>1. CASE Finishes
      <4>1. memory[a] = d_word.data /\ ~Acked
        BY <2>6, <3>1, Apart DEF Finishes, Served, Waving
      <4>2. sdr_wr_req /\ sdr_wr_word.addr = a
        BY <2>1, <2>6, <4>1 DEF DataInv, WavingAsked, Asked
      <4> QED BY <4>1, <4>2, LoaderStays DEF OnItsWay
    <3>2. CASE Writing
      BY <2>6, <3>2 DEF Writing, Waving, OnItsWay
    <3> QED BY <2>6, <3>1, <3>2, PortMoves DEF Rests, Granted, Grants, Waving
  <2> QED BY <2>1, <2>3, <2>4, <2>5, <2>6 DEF OnItsWay
<1> QED BY <1>1, <1>2, <1>3

LoadInv == ControlInv /\ DataInv

LEMMA LoadInit == ASSUME Init PROVE LoadInv
<1>1. memory = expected /\ ~sdr_wr_req /\ ~wave_wr_req /\ ~active /\ ~wave_clear_active
  BY DEF Init, Downloads!Init, Downloads!LoaderInit, Downloads!MuxInit
<1>2. DataInv
  BY <1>1 DEF DataInv, LoaderAsked, WaveAsked, WavingAsked, ClearAsked, Settled, Waving
<1> QED BY <1>2, ControlInit DEF LoadInv

LEMMA DataClock == ASSUME LoadInv, Downloads!Clock PROVE DataInv'
<1>1. ControlInv /\ DataInv
  BY DEF LoadInv
<1>2. LoaderAsked' /\ WaveAsked' /\ WavingAsked' /\ ClearAsked'
  BY <1>1, LoaderAskedStep, WaveAskedStep, WavingAskedStep, ClearAskedStep
<1>3. Settled'
  BY <1>1, SettledStep
<1> QED BY <1>2, <1>3 DEF DataInv

LEMMA LoadStep == ASSUME LoadInv, [Next]_vars PROVE LoadInv'
<1> SUFFICES DataInv'
  BY ControlInvStep DEF LoadInv
<1>2. CASE Downloads!Clock
  BY <1>2, DataClock
<1>3. CASE Downloads!PllLoss
  <2>1. memory' = expected' /\ ~sdr_wr_req' /\ ~wave_wr_req' /\ ~active' /\ ~wave_clear_active'
    BY <1>3 DEF Downloads!PllLoss, Downloads!LoaderReset, Downloads!MuxReset
  <2> QED BY <2>1 DEF DataInv, LoaderAsked, WaveAsked, WavingAsked, ClearAsked, Settled, Waving
<1>4. CASE UNCHANGED downloadVars
  BY <1>4 DEF downloadVars, LoadInv, DataInv, LoaderAsked, WaveAsked, WavingAsked, ClearAsked,
              Settled, OnItsWay, Asked, Waving
<1> QED BY <1>2, <1>3, <1>4, DownloadMoves

\* When reset is released, nothing is on its way: all that was asked for since
\* the PLL last locked is in the SDRAM, for any size of the aperture, any
\* stream, and whatever the sound program wrote before.
THEOREM LoadedAtRelease == Spec => ReleasedWhenLoaded
<1>1. Init => LoadInv
  BY LoadInit
<1>2. LoadInv /\ [Next]_vars => LoadInv'
  BY LoadStep
<1>3. LoadInv /\ [Next]_vars
          => [Downloads!reset /\ ~Downloads!reset' => memory' = expected']_(Downloads!vars)
  <2>1. ASSUME LoadInv, Downloads!Clock, Downloads!reset, ~Downloads!reset'
        PROVE  memory' = expected'
    <3>1. ControlInv' /\ DataInv'
      BY <2>1, ControlClock, DataClock DEF LoadInv
    <3>2. ~wave_wr_req'
      BY <2>1, WaveMoves DEF LoadInv
    <3>3. ~Waving'
      BY <2>1, <3>1, <3>2 DEF ControlInv, WaveInv
    <3>4. ~sdr_wr_req' /\ ~wave_clear_active'
      BY <2>1, <3>1 DEF ControlInv, LoaderInv, Downloads!reset
    <3>5. \A a \in Downloads!Words : memory'[a] = expected'[a]
      BY <3>1, <3>2, <3>3, <3>4 DEF DataInv, Settled, OnItsWay
    <3> QED BY <3>1, <3>5 DEF ControlInv, DownTypes
  <2>2. Downloads!PllLoss => Downloads!reset'
    BY DEF Downloads!PllLoss, Downloads!reset
  <2>3. UNCHANGED downloadVars => UNCHANGED Downloads!vars
    BY DEF downloadVars, Downloads!vars, Downloads!loader, Downloads!mux, Downloads!host,
           Downloads!wave, Downloads!port
  <2> QED BY <2>1, <2>2, <2>3, DownloadMoves
<1> QED BY <1>1, <1>2, <1>3, PTL DEF Spec, ReleasedWhenLoaded, Downloads!ReleasedWhenLoaded
=============================================================================
