---------------------------- MODULE SpriteReplay ----------------------------
(***************************************************************************)
(* The replay of captured frames, sprite_replay/: capture_holo.py turns    *)
(* the sprite state at the end of vertical blanking into a fixture,        *)
(* descriptor_audit.py walks its list, run.py renders it with the          *)
(* reference and with the RTL and compares the buffers.  Here the RTL is   *)
(* a renderer that mirrors its writes and may be wrong in one cell.        *)
(***************************************************************************)
EXTENDS SpriteRef

CONSTANTS NoShot

VARIABLE shot       \* of the update just done: what was captured and replayed

replay_vars == <<vars, shot>>
-----------------------------------------------------------------------------
inline_entries(d) == IF d.command = "draw" /\ d.indirect /\ d.local THEN 2 ELSE 0

\* The draws of the list, by a walk of the audit's own.
audit_step(list, a) ==
    LET d == list[a.n]
    IN  CASE d.command = "draw" -> [n |-> (a.n + 1 + inline_entries(d)) % Entries,
                                    draws |-> Append(a.draws, a.n)]
          [] d.command = "clip" -> [a EXCEPT !.n = (@ + 1) % Entries]
          [] d.command = "jump" -> [a EXCEPT !.n = d.target % Entries]
          [] d.command = "end"  -> a

audit(list) ==
    LET At[k \in 0 .. Entries] == IF k = 0 THEN [n |-> 0, draws |-> <<>>]
                                  ELSE audit_step(list, At[k - 1])
    IN  At[Entries].draws

\* The command the upcoming callback is expected to find.
controller_command(c, count) ==
    IF c.manual THEN c.command ELSE IF count = 0 THEN 3 ELSE 0

\* Mutant: the registers latched at the last swap are replayed.
replay_controls_latched == [latched EXCEPT !.command = 0]
replay_controls == [controls EXCEPT !.command = 0]

\* _postprocess: the fixture of one frame, none for a callback without swap.
\* The target of the coming render is the buffer now in front.
postprocess ==
    LET command == controller_command(controls, render_count)
    IN  IF command \notin {1, 3} THEN NoShot
        ELSE [controls |-> replay_controls, latched |-> replay_controls, sprite_ram |-> ram,
              back_fb |-> IF command = 3 THEN Blank ELSE front]

\* from_manifest and _render_cli, for the event "render".
run_oracle(m) == walk(m.back_fb, m.sprite_ram, m.latched).fb
-----------------------------------------------------------------------------
\* Where a visible cell lies in physical storage under the global flips.
Flipped(cell, width, c) ==
    <<IF c.flip_x THEN width - 1 - cell[1] ELSE cell[1],
      IF c.flip_y THEN Height - 1 - cell[2] ELSE cell[2]>>

Visible(width) == {cell \in Cells : cell[1] < width}

\* Mutant: the flips are taken for those of a picture as wide as the storage.
active_scanout_stored(fb, width, c) ==
    [cell \in Visible(width) |-> fb[Flipped(cell, Storage, c)]]

active_scanout(fb, width, c) == [cell \in Visible(width) |-> fb[Flipped(cell, width, c)]]
active_crop(fb, width) == [cell \in Visible(width) |-> fb[cell]]

\* The initial contents for an RTL whose writes are mirrored.
rtl_storage_initial(fb, width, c) ==
    [cell \in Cells |-> IF cell \in Visible(width) THEN active_scanout(fb, width, c)[cell]
                        ELSE fb[cell]]

\* A pixel that is missing, or one where there is none.
Wrong(pixel) == IF pixel = NoPixel THEN [NoPixel EXCEPT !.top = FALSE] ELSE NoPixel

\* The RTL: it starts from what it is given and mirrors each write; it may leave
\* a wrong pixel in the cells bad.
Rtl(m, width, initial, bad) ==
    LET plain == run_oracle([m EXCEPT !.back_fb =
                     [cell \in Cells |-> IF cell \in Visible(width)
                                         THEN initial[Flipped(cell, width, m.latched)]
                                         ELSE initial[cell]]])
        right == [cell \in Cells |-> IF cell \in Visible(width)
                                     THEN plain[Flipped(cell, width, m.latched)] ELSE plain[cell]]
    IN  [cell \in Cells |-> IF cell \in bad THEN Wrong(right[cell]) ELSE right[cell]]

\* run_fixture: whether the buffers match, in the visible part and, without
\* flips, in all of the storage.
match(m, bad) ==
    LET width == IF m.latched.wide THEN Wide ELSE Narrow
        expected == run_oracle(m)
        actual == Rtl(m, width, rtl_storage_initial(m.back_fb, width, m.latched), bad)
    IN  /\ active_scanout(expected, width, m.latched) = active_crop(actual, width)
        /\ m.latched.flip_x \/ m.latched.flip_y \/ expected = actual
-----------------------------------------------------------------------------
ReplayInit == Init /\ shot = NoShot

\* The update, with what the capture made of the moment before it.
Captured ==
    /\ vblank
    /\ \E bad \in {{}, {<<0, 0>>}, {<<Narrow - 1, Height - 1>>}} :
          LET m == postprocess
          IN  shot' = [captured |-> m # NoShot,
                       replayed |-> IF m = NoShot THEN <<>> ELSE run_oracle(m),
                       audited |-> audit(ram),
                       bad |-> bad,
                       match |-> m # NoShot /\ match(m, bad)]

Uncaptured == (run_event \/ write_control \/ WriteList) /\ shot' = NoShot

ReplayNext == Captured \/ Uncaptured

ReplaySpec == ReplayInit /\ [][ReplayNext]_replay_vars
-----------------------------------------------------------------------------
\* Replayed with the reference, a captured frame is the one the controller
\* draws at that update.
ReplayFaithful == shot # NoShot /\ shot.captured => shot.replayed = back

\* What the replay says of a captured frame is so: a wrong visible pixel of the
\* RTL is seen wherever it is, the right pictures match however they are flipped,
\* and the audit speaks of the sprites the renderer draws, no more.
VerdictRight ==
    shot # NoShot /\ shot.captured =>
        /\ shot.match <=> shot.bad = {}
        /\ shot.audited = [k \in DOMAIN backIs[Len(backIs)] |-> backIs[Len(backIs)][k].n]
=============================================================================
