--------------------------- MODULE MCSpriteReplay ----------------------------
(* One sprite in every place, size and direction; short lists of every kind *)
(* of command; and sequences of updates over a few lists.                   *)
EXTENDS SpriteReplay, TLC

MCPalette == <<[top |-> FALSE, colour |-> "p0"], [top |-> TRUE, colour |-> "p1"],
             [top |-> TRUE, colour |-> "hidden"], [top |-> FALSE, colour |-> "p3"]>>
TheTable == [code \in 0 .. 3 |-> MCPalette[code + 1]]

ROM == [rom |-> <<<<1, 2, 1>>, <<2, 0, 3>>, <<3, 1, 2>>, <<0, 2, 1>>>>, ram |-> <<<<2, 1, 3>>, <<1, 1, 1>>>>]

Sprite == [command |-> "draw", palette |-> TheTable, is_palette |-> FALSE,
           indirect |-> FALSE, local |-> FALSE, base |-> 0, shadow |-> FALSE, from_ram |-> FALSE,
           opaque |-> FALSE, flip_x |-> FALSE, flip_y |-> FALSE, offset_x |-> FALSE, offset_y |-> FALSE,
           adjust_x |-> 2, adjust_y |-> 2, words |-> 1, source_height |-> 2, dest_width |-> 3,
           dest_height |-> 2, x |-> 1, y |-> 0, address |-> 0,
           colour |-> [code \in 0 .. 3 |-> <<"c0", "c1", "c2", "c3">>[code + 1]]]
End == [command |-> "end", palette |-> TheTable]
Clip == [command |-> "clip", palette |-> TheTable, sets_in |-> TRUE, sets_out |-> FALSE,
         clipin |-> Rect(1, 2, 0, 1), clipout |-> Rect(2, 2, 0, 0)]
Clips == {[Clip EXCEPT !.sets_in = i, !.sets_out = o, !.clipin = r] :
             i, o \in BOOLEAN, r \in {Rect(1, 2, 0, 1), Rect(-2, 9, -1, 9), Rect(2, 1, 0, 2)}}
Jump == [command |-> "jump", palette |-> TheTable, target |-> 2, sets_offsets |-> TRUE,
         xoffs |-> 1, yoffs |-> -1]
Jumps == {Jump, [Jump EXCEPT !.target = 0], [Jump EXCEPT !.sets_offsets = FALSE]}

List(a, b, c) == 0 :> a @@ 1 :> b @@ 2 :> c @@ 3 :> End

Across == {[Sprite EXCEPT !.flip_x = f, !.adjust_x = a, !.words = w, !.dest_width = n, !.x = x,
                          !.address = ad, !.opaque = op] :
              f, op \in BOOLEAN, a \in 0 .. 3, w \in 0 .. 2, n \in {0, 1, 4, 7}, x \in {-2, 0, 3}, ad \in 0 .. 1}
Down == {[Sprite EXCEPT !.flip_y = f, !.adjust_y = a, !.source_height = w, !.dest_height = n, !.y = y] :
              f \in BOOLEAN, a \in 0 .. 3, w \in 0 .. 3, n \in {0, 1, 2, 3, 5}, y \in {-1, 0, 2}}
Kinds == {[Sprite EXCEPT !.indirect = i, !.local = l, !.shadow = s, !.from_ram = m, !.offset_x = o, !.offset_y = o] :
              i, l, s, m, o \in BOOLEAN}
Palette == [Sprite EXCEPT !.is_palette = TRUE]
OfWalk == {List(a, [Sprite EXCEPT !.x = 0], [Sprite EXCEPT !.indirect = TRUE, !.shadow = TRUE]) : a \in Kinds \cup Clips \cup Jumps}
          \cup {List(a, k, End) : a \in Clips \cup Jumps, k \in Kinds}
          \cup {List(c, j, Sprite) : c \in Clips, j \in Jumps}
          \cup {List([Sprite EXCEPT !.indirect = TRUE, !.local = TRUE], Palette, Palette)}
OfOne == {List(d, End, End) : d \in Across \cup Down}
Few == {List(Sprite, End, End), List(Clip, [Sprite EXCEPT !.x = 0, !.shadow = TRUE], End)}

Families == {[lists |-> OfOne, events |-> 1], [lists |-> OfWalk, events |-> 2], [lists |-> Few, events |-> 4]}
Written == {[Reset EXCEPT !.manual = TRUE, !.command = c] : c \in 0 .. 3}
           \cup {[Reset EXCEPT !.rate = r, !.command = c] : r \in 0 .. 1, c \in 0 .. 1}
           \cup {[Reset EXCEPT !.wide = TRUE, !.shadows = s, !.flip_x = ~s, !.flip_y = s] : s \in BOOLEAN}
           \cup {[Reset EXCEPT !.flip_x = TRUE]}
=============================================================================
