------------------------------- MODULE Mixer -------------------------------
(***************************************************************************)
(* The scalar reference of the 315-5387 mixer, s32_mixer_ref.py: which     *)
(* layer a pixel shows, which one it is blended with and whether a sprite  *)
(* darkens it.  The sums of colours, the palette addresses and the colour  *)
(* offsets are left out.                                                   *)
(***************************************************************************)
EXTENDS Integers, FiniteSets, FiniteSetsExt

CONSTANT Inputs     \* the registers and pixels to mix

Layers == 0 .. 5
NBG == 1 .. 4
SPRITE == 6
BACKGROUND == 7

\* A priority is four bits of a register.
MixerAssumption ==
    \A i \in Inputs :
        /\ \A l \in Layers : i.layer[l].priority \in 0 .. 15 /\ i.layer[l].opaque \in BOOLEAN
        /\ i.sprite.priority \in 0 .. 15

VARIABLES inputs, result
vars == <<inputs, result>>

Nothing == [winner |-> -1]

Init == inputs \in Inputs /\ result = Nothing
-----------------------------------------------------------------------------
\* The sprite groups a layer blends with.
sprite_blend_mask(mode, value) ==
    CASE mode = 0 -> {value} [] mode = 1 -> 0 .. value [] mode = 2 -> value .. 15 [] mode = 3 -> 0 .. 15

opaque_zero(l) == l \in NBG /\ inputs.layer[l].opaque /\ inputs.layer[l].pen = 0

\* Mutant: the fallback of an opaque pen 0 ranks with the ordinary pixels.
effpri_zero(l) ==
    IF l = BACKGROUND THEN 1
    ELSE IF l = SPRITE THEN inputs.sprite.priority * 8 + 7
    ELSE inputs.layer[l].priority * 8 + (6 - l)

\* The key the layers are sorted by.
effpri(l) ==
    IF l = BACKGROUND THEN 1
    ELSE IF l = SPRITE THEN inputs.sprite.priority * 8 + 7
    ELSE IF opaque_zero(l) THEN 6 - l
    ELSE inputs.layer[l].priority * 8 + (6 - l)

\* The layers that take part; one of priority 0 is off.
Enabled ==
    {l \in Layers : l \notin inputs.layer_off /\ inputs.layer[l].priority # 0}
    \cup {BACKGROUND} \cup (IF inputs.sprite.priority # 0 THEN {SPRITE} ELSE {})

Shows(l) ==
    CASE l = BACKGROUND -> TRUE
      [] l = SPRITE -> inputs.sprite.pixel = "pen"
      [] OTHER -> inputs.layer[l].opaque

\* The shadow after the scan has seen the sprite: the top bit of its pixel
\* decides, and a shadow pen darkens whatever that bit says.
SpriteShadow == (inputs.shadows /\ ~inputs.sprite.top) \/ inputs.sprite.pixel = "shadow pen"

\* Down from below the key, to the first layer that shows.
scan(key, shadow) ==
    LET candidates == {l \in Enabled : effpri(l) < key}
        layer == CHOOSE l \in candidates :
                     Shows(l) /\ \A m \in candidates : Shows(m) => effpri(m) <= effpri(l)
    IN  [layer |-> layer,
         shadow |-> IF SPRITE \in candidates /\ effpri(SPRITE) >= effpri(layer)
                    THEN SpriteShadow ELSE shadow]

shadow_of_blend(first, second) == second.shadow

mix_pixel ==
    /\ result = Nothing
    /\ LET first == scan(128, FALSE)
           blend == IF first.layer \in Layers THEN inputs.layer[first.layer]
                    ELSE [mask |-> {}, mode |-> 0, value |-> 0]
           second == scan(effpri(first.layer), first.shadow)
           blended == /\ second.layer \in blend.mask
                      /\ second.layer = SPRITE =>
                            inputs.group \in sprite_blend_mask(blend.mode, blend.value)
       IN  result' = IF blend.mask = {}
                     THEN [winner |-> first.layer, partner |-> -1, blended |-> FALSE, shadowed |-> first.shadow]
                     ELSE [winner |-> first.layer, partner |-> second.layer, blended |-> blended,
                           shadowed |-> shadow_of_blend(first, second)]
    /\ UNCHANGED inputs

Next == mix_pixel

Spec == Init /\ [][Next]_vars
-----------------------------------------------------------------------------
\* The order of the hardware: an ordinary pixel before the opaque pen 0 of a
\* tilemap, and that before the backdrop; then the greater priority; then the
\* sprites, then the layers in their order.
Class(l) == IF l = BACKGROUND THEN 0 ELSE IF l # SPRITE /\ opaque_zero(l) THEN 1 ELSE 2
Priority(l) == IF l = SPRITE THEN inputs.sprite.priority
               ELSE IF Class(l) = 2 THEN inputs.layer[l].priority ELSE 0
Above(l, m) ==
    \/ Class(l) > Class(m)
    \/ Class(l) = Class(m) /\ Priority(l) > Priority(m)
    \/ Class(l) = Class(m) /\ Priority(l) = Priority(m) /\ l # m /\ (l = SPRITE \/ (m # SPRITE /\ l < m))

Tops(S) == {l \in S : Shows(l) /\ \A m \in S : Shows(m) /\ m # l => Above(l, m)}

\* A pixel shows the first layer of that order that is opaque, the layer below
\* is the one it is blended with, and it is darkened exactly when a sprite that
\* casts a shadow stands before what is seen.
MixedAsRanked ==
    result # Nothing =>
        /\ Tops(Enabled) = {result.winner}
        /\ result.partner # -1 =>
              Tops({l \in Enabled : Above(result.winner, l)}) = {result.partner}
        /\ LET last == IF result.partner = -1 THEN result.winner ELSE result.partner
           IN  result.shadowed <=>
                   /\ SPRITE \in Enabled /\ SpriteShadow
                   /\ last = SPRITE \/ result.winner = SPRITE \/ Above(SPRITE, last)
=============================================================================
