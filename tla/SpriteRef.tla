----------------------------- MODULE SpriteRef -----------------------------
(***************************************************************************)
(* The reference renderer of the 315-5386A, s32_sprite_ref.py: the control *)
(* registers and their latched copy, the two frame buffers, the automatic  *)
(* and the commanded update, the walk through the list in sprite RAM and   *)
(* the zoomed drawing of one sprite.  A pixel is its top bit and a colour; *)
(* a source word is the sequence of its pixel codes, of one depth; what    *)
(* the colour tables hold and what the priority masks hide are constants.  *)
(* Statistics and the trace of events are left out.                        *)
(***************************************************************************)
EXTENDS Integers, Sequences

CONSTANTS
    Storage, Wide, Narrow,  \* the columns of a buffer, and of the two pictures
    Height,
    Entries,            \* entries of the list in sprite RAM; also the command limit
    Texels,             \* by source ("rom", "ram") and address: the codes of a word
    WordPixels, EndCode,
    Hidden,             \* the colours the priority mask makes transparent
    First,              \* sets of sprite RAMs to begin with, and for how many events
    Rewrites,           \* the sprite RAMs a game may write later
    Settings            \* the control registers a game may write

Controls == [command : 0 .. 3, manual : BOOLEAN, rate : Nat, shadows : BOOLEAN,
             wide : BOOLEAN, flip_x : BOOLEAN, flip_y : BOOLEAN]
Rects == [x0 : Int, x1 : Int, y0 : Int, y1 : Int]

\* The fields of an entry of the list are those of its command.
WellFormed(d) ==
    /\ d.command \in {"draw", "clip", "jump", "end"}
    /\ d.command = "draw" =>
          /\ {d.words, d.source_height, d.dest_width, d.dest_height, d.address} \subseteq Nat
          /\ {d.x, d.y} \subseteq Int /\ {d.adjust_x, d.adjust_y} \subseteq 0 .. 3
    /\ d.command = "clip" => {d.clipin, d.clipout} \subseteq Rects
    /\ d.command = "jump" => d.target \in Nat /\ {d.xoffs, d.yoffs} \subseteq Int

Prepared == Rewrites \cup UNION {f.lists : f \in First}

SpriteAssumption ==
    /\ {Storage, Height, Entries, WordPixels} \subseteq Nat
    /\ Narrow \in 1 .. Wide /\ Wide \in 1 .. Storage
    /\ Height > 0 /\ Entries > 1 /\ WordPixels > 1
    /\ \A list \in Prepared : \A n \in 0 .. Entries - 1 : WellFormed(list[n])
    /\ Settings \subseteq Controls

VARIABLES
    ram, controls, latched, front, back, selected, render_count,
    left,               \* the events that may follow
    \* What a reader knows of the buffers, and the code does not store:
    frontIs, backIs     \* the lists drawn on each since it was erased

buffers == <<front, back, selected>>
ghosts == <<frontIs, backIs>>
vars == <<ram, controls, latched, buffers, render_count, left, ghosts>>

Unit == 65536
Cells == (0 .. Storage - 1) \X (0 .. Height - 1)
NoPixel == [top |-> TRUE, colour |-> "blank"]
Blank == [cell \in Cells |-> NoPixel]

\* Also the least settings: automatic, at full rate, the narrow picture.
Reset == [command |-> 0, manual |-> FALSE, rate |-> 0, shadows |-> FALSE,
          wide |-> FALSE, flip_x |-> FALSE, flip_y |-> FALSE]

Given == \E f \in First : ram \in f.lists /\ left = f.events

Start ==
    /\ controls = Reset /\ latched = Reset
    /\ front = Blank /\ back = Blank /\ selected = 1 /\ render_count = 0
    /\ frontIs = <<>> /\ backIs = <<>>

Init == Given /\ Start
-----------------------------------------------------------------------------
Rect(x0, x1, y0, y1) == [x0 |-> x0, x1 |-> x1, y0 |-> y0, y1 |-> y1]
Larger(m, n) == IF m > n THEN m ELSE n
Smaller(m, n) == IF m < n THEN m ELSE n
intersect(r, s) ==
    Rect(Larger(r.x0, s.x0), Smaller(r.x1, s.x1), Larger(r.y0, s.y0), Smaller(r.y1, s.y1))
Outer(wide) == Rect(0, (IF wide THEN Wide ELSE Narrow) - 1, 0, Height - 1)
Nowhere == Rect(0, -1, 0, -1)

source_word(d, address) ==
    LET bank == Texels[IF d.from_ram THEN "ram" ELSE "rom"]
    IN  bank[(address % Len(bank)) + 1]

\* A sprite as it is to be drawn: the command d, the entry n it stands in, the
\* clips and the offsets in force, the width and whether there are shadows.
shadow(j) == j.d.shadow /\ j.shadows

\* The pixel a code stands for, or None when it is transparent at its place in
\* the word.
Colour(j, code, place) ==
    LET transparent == IF j.d.opaque THEN 0 ELSE EndCode
        edge == IF place \in {0, WordPixels - 1} THEN transparent ELSE 0
        table == j.ram[(IF j.d.local THEN j.n + 1 ELSE j.d.base) % Entries].palette
        value == [table[code] EXCEPT !.top = @ \/ j.shadows]
    IN  IF code = edge \/ (~j.d.indirect /\ code = 0) THEN <<>>
        ELSE IF ~j.d.indirect THEN <<[top |-> TRUE, colour |-> j.d.colour[code]]>>
        ELSE IF value.colour \in Hidden THEN <<>>
        ELSE <<value>>

draw_pixel(j, fb, x, y, code, place) ==
    LET pixel == Colour(j, code, place)
        out == /\ j.clipout.y0 <= y /\ y <= j.clipout.y1
               /\ j.clipout.x0 <= x /\ x <= j.clipout.x1
    IN  IF x < j.clipin.x0 \/ x > j.clipin.x1 \/ out \/ pixel = <<>> THEN fb
        ELSE [fb EXCEPT ![<<x, y>>] = IF shadow(j) THEN [@ EXCEPT !.top = FALSE] ELSE pixel[1]]

\* Mutant: a centred sprite of even size goes one pixel too far.
placed_rounded(at, offset, offs, adjust, size) ==
    at + (IF offset THEN offs ELSE 0)
       - (IF adjust \in {0, 3} THEN size \div 2 ELSE IF adjust = 1 THEN size - 1 ELSE 0)

\* The least coordinate of a sprite of the given size.
placed(at, offset, offs, adjust, size) ==
    at + (IF offset THEN offs ELSE 0)
       - (IF adjust \in {0, 3} THEN (size - 1) \div 2 ELSE IF adjust = 1 THEN size - 1 ELSE 0)

zoom(source, dest) == (source * Unit) \div dest

advance(acc) == acc - Unit

\* A step in a row: a pixel is drawn while the accumulator is below one; then the
\* next pixel of the source is taken, unless an end code closes the word.
row_step(j, y, address, to, s) ==
    LET d == j.d
        place == s.i % WordPixels
        code == source_word(d, address + (s.i \div WordPixels))[place + 1]
    IN  IF s.x = to \/ s.ended THEN s
        ELSE IF s.acc < Unit
             THEN [s EXCEPT !.fb = draw_pixel(j, @, s.x, y, code, place),
                            !.x = @ + (IF d.flip_x THEN -1 ELSE 1),
                            !.acc = @ + zoom(WordPixels * d.words, d.dest_width)]
        ELSE IF place = WordPixels - 1 /\ ~d.opaque /\ code = EndCode THEN [s EXCEPT !.ended = TRUE]
        ELSE [s EXCEPT !.i = @ + 1, !.acc = advance(@)]

\* One row of the picture: no more steps than pixels, of the picture and the source.
draw_row(j, fb, y, address, x, to) ==
    LET Steps == j.d.dest_width + WordPixels * j.d.words
        At[k \in 0 .. Steps] ==
            IF k = 0 THEN [fb |-> fb, x |-> x, i |-> 0, acc |-> 0, ended |-> FALSE]
            ELSE row_step(j, y, address, to, At[k - 1])
    IN  At[Steps].fb

\* The rows, of which only those inside the clip are drawn.
next_row(j, x, to, s) ==
    LET d == j.d
        acc == s.yacc + zoom(d.source_height, d.dest_height)
    IN  [fb      |-> IF j.clipin.y0 <= s.y /\ s.y <= j.clipin.y1
                     THEN draw_row(j, s.fb, s.y, s.address, x, to) ELSE s.fb,
         y       |-> s.y + (IF d.flip_y THEN -1 ELSE 1),
         address |-> s.address + d.words * (acc \div Unit),
         yacc    |-> acc % Unit]

draw_rows(j, fb, x, to, y) ==
    LET At[k \in 0 .. j.d.dest_height] ==
            IF k = 0 THEN [fb |-> fb, y |-> y, address |-> j.d.address, yacc |-> 0]
            ELSE next_row(j, x, to, At[k - 1])
    IN  At[j.d.dest_height].fb

draw_one_sprite(j, fb) ==
    LET d == j.d
        least == placed(d.x, d.offset_x, j.xoffs, d.adjust_x, d.dest_width)
        top == placed(d.y, d.offset_y, j.yoffs, d.adjust_y, d.dest_height)
        x == IF d.flip_x THEN least + d.dest_width - 1 ELSE least
        y == IF d.flip_y THEN top + d.dest_height - 1 ELSE top
        past == IF d.flip_x THEN x - d.dest_width ELSE x + d.dest_width
        to == IF d.flip_x THEN (IF past < j.clipin.x0 THEN j.clipin.x0 - 1 ELSE past)
                          ELSE (IF past > j.clipin.x1 THEN j.clipin.x1 + 1 ELSE past)
        outside == to # past /\ (IF d.flip_x THEN x <= to ELSE x >= to)
    IN  IF 0 \in {d.words, d.source_height, d.dest_width, d.dest_height} \/ outside THEN fb
        ELSE draw_rows(j, fb, x, to, y)

skipped_entries(d) == IF d.indirect /\ d.local THEN 2 ELSE 0

clip(w, d) ==
    [w EXCEPT !.n = @ + 1,
              !.clipin = IF d.sets_in THEN intersect(d.clipin, Outer(w.wide)) ELSE @,
              !.clipout = IF d.sets_out THEN d.clipout ELSE @]

jump(w, d) ==
    [w EXCEPT !.n = d.target,
              !.xoffs = IF d.sets_offsets THEN d.xoffs ELSE @,
              !.yoffs = IF d.sets_offsets THEN d.yoffs ELSE @]

draw(w, d) ==
    [w EXCEPT !.n = @ + 1 + skipped_entries(d),
              !.fb = draw_one_sprite([w EXCEPT !.d = d, !.n = @ % Entries], @),
              !.draws = Append(@, [w EXCEPT !.d = d, !.n = @ % Entries, !.fb = <<>>, !.draws = <<>>])]

command_step(w) ==
    LET d == w.ram[w.n % Entries]
    IN  CASE d.command = "draw" -> draw(w, d)
          [] d.command = "clip" -> clip(w, d)
          [] d.command = "jump" -> jump(w, d)
          [] d.command = "end"  -> w

\* The walk through the list: to an end command, or to the limit.  Of the latched
\* controls l it reads two.
walk(fb, list, l) ==
    LET At[k \in 0 .. Entries] ==
            IF k = 0 THEN [n |-> 0, clipin |-> Outer(l.wide), clipout |-> Nowhere,
                           xoffs |-> 0, yoffs |-> 0, fb |-> fb, draws |-> <<>>, d |-> <<>>,
                           ram |-> list, wide |-> l.wide, shadows |-> l.shadows]
            ELSE command_step(At[k - 1])
    IN  At[Entries]

\* render_list: the buffer afterwards, and the draws made on it.
render_list(fb, l) == walk(fb, ram, l)
-----------------------------------------------------------------------------
auto_command == 3

\* The update after vertical blanking: erase first, then swap, then draw.
Update(command) ==
    LET erases == command \in {2, 3}
        swaps == command \in {1, 3}
        old == IF erases THEN Blank ELSE front
        oldIs == IF erases THEN <<>> ELSE frontIs
        r == render_list(old, controls)
    IN  /\ front' = IF swaps THEN back ELSE old
        /\ back' = IF swaps THEN r.fb ELSE back
        /\ frontIs' = IF swaps THEN backIs ELSE oldIs
        /\ backIs' = IF swaps THEN Append(oldIs, r.draws) ELSE backIs
        /\ selected' = IF swaps THEN 1 - selected ELSE selected
        /\ latched' = IF swaps THEN [controls EXCEPT !.command = command] ELSE latched
        /\ controls' = [controls EXCEPT !.command = 0]

Event == left > 0 /\ left' = left - 1

vblank ==
    LET counts == ~controls.manual
        due == counts /\ render_count = 0
        command == IF due THEN auto_command ELSE controls.command
    IN  /\ Event
        /\ render_count' = IF due THEN controls.rate
                           ELSE IF counts THEN render_count - 1 ELSE render_count
        /\ Update(command)
        /\ UNCHANGED ram

\* A capture may replay a render, an erasure or a swap on its own.
run_event ==
    /\ Event
    /\ \/ LET r == render_list(back, latched)
          IN  back' = r.fb /\ backIs' = Append(backIs, r.draws)
              /\ UNCHANGED <<front, frontIs, selected, latched>>
       \/ front' = Blank /\ frontIs' = <<>> /\ UNCHANGED <<back, backIs, selected, latched>>
       \/ front' = back /\ back' = front /\ frontIs' = backIs /\ backIs' = frontIs
          /\ selected' = 1 - selected /\ latched' = controls
    /\ UNCHANGED <<ram, controls, render_count>>

write_control ==
    /\ Event /\ controls' \in Settings
    /\ UNCHANGED <<ram, latched, buffers, render_count, ghosts>>

WriteList ==
    /\ Event /\ ram' \in Rewrites
    /\ UNCHANGED <<controls, latched, buffers, render_count, ghosts>>

Next == vblank \/ run_event \/ write_control \/ WriteList

Spec == Init /\ [][Next]_vars
-----------------------------------------------------------------------------
\* The definition the drawing is measured by.  The k-th code of a line of the
\* source; whether an end code closes the line before the i-th; what a code makes
\* of a pixel; the least coordinate of a sprite.
Code(d, line, k) == source_word(d, line + (k \div WordPixels))[(k % WordPixels) + 1]

Closed(d, line, i) ==
    ~d.opaque /\ \E k \in 1 .. i \div WordPixels : Code(d, line, WordPixels * k - 1) = EndCode

Becomes(j, code, place, old) ==
    LET pixel == Colour(j, code, place)
    IN  IF pixel = <<>> THEN old
        ELSE IF shadow(j) THEN [old EXCEPT !.top = FALSE]
        ELSE pixel[1]

Least(at, offset, offs, adjust, size) ==
    at + (IF offset THEN offs ELSE 0) -
        (IF adjust = 2 THEN 0 ELSE IF adjust = 1 THEN size - 1 ELSE (size - 1) \div 2)

\* What one draw makes of a cell, from where the cell lies in the scaled, placed
\* and mirrored source.
Ideal(j, cell, old) ==
    LET d == j.d
        x == cell[1]
        y == cell[2]
        least == Least(d.x, d.offset_x, j.xoffs, d.adjust_x, d.dest_width)
        top == Least(d.y, d.offset_y, j.yoffs, d.adjust_y, d.dest_height)
        column == IF d.flip_x THEN least + d.dest_width - 1 - x ELSE x - least
        row == IF d.flip_y THEN top + d.dest_height - 1 - y ELSE y - top
        i == (column * ((WordPixels * d.words * Unit) \div d.dest_width)) \div Unit
        line == d.address + d.words * ((row * ((d.source_height * Unit) \div d.dest_height)) \div Unit)
        inside == /\ column \in 0 .. d.dest_width - 1 /\ row \in 0 .. d.dest_height - 1
                  /\ x \in j.clipin.x0 .. j.clipin.x1 /\ y \in j.clipin.y0 .. j.clipin.y1
                  /\ ~(x \in j.clipout.x0 .. j.clipout.x1 /\ y \in j.clipout.y0 .. j.clipout.y1)
                  /\ x < (IF j.wide THEN Wide ELSE Narrow)
    IN  IF 0 \in {d.words, d.source_height, d.dest_width, d.dest_height} \/ ~inside
           \/ Closed(d, line, i) THEN old
        ELSE Becomes(j, Code(d, line, i), i % WordPixels, old)

Shown(draws, fb) ==
    LET At[k \in 0 .. Len(draws)] ==
            IF k = 0 THEN fb
            ELSE LET old == At[k - 1] IN [cell \in Cells |-> Ideal(draws[k], cell, old[cell])]
    IN  At[Len(draws)]

Picture(lists) ==
    LET At[k \in 0 .. Len(lists)] == IF k = 0 THEN Blank ELSE Shown(lists[k], At[k - 1])
    IN  At[Len(lists)]

\* Each buffer shows what was drawn on it since it was erased, each sprite where
\* its place, size, mirroring and clips put it, and nothing beyond the picture.
DrawnAsDefined == front = Picture(frontIs) /\ back = Picture(backIs)
=============================================================================
