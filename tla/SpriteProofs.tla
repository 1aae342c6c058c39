---------------------------- MODULE SpriteProofs ----------------------------
(***************************************************************************)
(* Proofs about the sprite reference and its replay, for buffers, pictures *)
(* and lists of any size, any sprites, settings and sequence of events.    *)
(***************************************************************************)
EXTENDS Workbench, Sequences, SequenceTheorems, WellFoundedInduction, TLAPS

\* A set of numbers has a least one.
LEMMA Least ==
    ASSUME NEW S \in SUBSET Nat, S # {} PROVE \E n \in S : \A m \in S : n <= m
<1> DEFINE R == OpToRel(<, Nat)
<1>1. IsWellFoundedOn(R, Nat) BY NatLessThanWellFounded
<1>2. \A x, y \in Nat : x < y => <<x, y>> \in R BY DEF OpToRel
<1> HIDE DEF R
<1>3. PICK n \in S : \A y \in S : <<y, n>> \notin R BY <1>1, WFMin
<1>4. ASSUME NEW y \in S PROVE n <= y
  <2>1. n \in Nat /\ y \in Nat /\ ~(y < n) BY <1>2, <1>3
  <2> QED BY <2>1
<1> QED BY <1>4

-----------------------------------------------------------------------------
(***************************************************************************)
(* The loops of the code are functions of the number of steps, each of     *)
(* which is the step of the loop applied to the one before.  Turn is the   *)
(* k-th step of the loop p from the state s: one lemma says of all the     *)
(* loops that they run, the others what each of them computes.             *)
(***************************************************************************)
Over(job, fb) == [cell \in Replay!Cells |-> Replay!Ideal(job, cell, fb[cell])]

Turn(p, k, s) ==
    CASE p.loop = "walk"    -> Replay!command_step(s)
      [] p.loop = "audit"   -> Replay!audit_step(p.list, s)
      [] p.loop = "row"     -> Replay!row_step(p.j, p.y, p.address, p.to, s)
      [] p.loop = "rows"    -> Replay!next_row(p.j, p.x, p.to, s)
      [] p.loop = "shown"   -> Over(p.draws[k], s)
      [] p.loop = "picture" -> Replay!Shown(p.lists[k], s)

Turns(at, p, start, n) ==
    at = [k \in 0 .. n |-> IF k = 0 THEN start ELSE Turn(p, k, at[k - 1])]

\* A loop of any number of steps runs.
LEMMA LoopRuns == ASSUME NEW p, NEW start, NEW n \in Nat PROVE \E at : Turns(at, p, start, n)
<1> DEFINE T == {m \in Nat : ~ \E at : Turns(at, p, start, m)}
<1> SUFFICES ASSUME T # {} PROVE FALSE
  OBVIOUS
<1>1. PICK m \in T : \A k \in T : m <= k
  BY Least
<1>2. CASE m = 0
  <2> DEFINE at == [k \in 0 .. m |-> start]
  <2>1. Turns(at, p, start, m)
    BY <1>2 DEF Turns
  <2> QED BY <2>1
<1>3. CASE m # 0
  <2>1. m - 1 \in Nat /\ m - 1 \notin T
    BY <1>1, <1>3
  <2>2. PICK at : Turns(at, p, start, m - 1)
    BY <2>1
  <2> DEFINE next == [k \in 0 .. m |-> IF k = m THEN Turn(p, m, at[m - 1]) ELSE at[k]]
  <2>3. \A k \in 0 .. m - 1 : at[k] = IF k = 0 THEN start ELSE Turn(p, k, at[k - 1])
    BY <2>2 DEF Turns
  <2>4. \A k \in 0 .. m : next[k] = IF k = 0 THEN start ELSE Turn(p, k, next[k - 1])
    <3> SUFFICES ASSUME NEW k \in 0 .. m
                 PROVE  next[k] = IF k = 0 THEN start ELSE Turn(p, k, next[k - 1])
      OBVIOUS
    <3>1. CASE k = m
      BY <1>3, <3>1
    <3>2. CASE k # m
      <4>1. k \in 0 .. m - 1 /\ (k # 0 => k - 1 \in 0 .. m /\ k - 1 # m)
        BY <3>2
      <4> QED BY <2>3, <3>2, <4>1
    <3> QED BY <3>1, <3>2
  <2>5. Turns(next, p, start, m)
    <3> DEFINE f == [k \in 0 .. m |-> IF k = 0 THEN start ELSE Turn(p, k, next[k - 1])]
    <3>1. next = f
      BY <2>4
    <3> QED BY <3>1 DEF Turns
  <2> QED BY <2>5
<1> QED BY <1>2, <1>3

\* The walk through the list.
WalkStart(fb, list, l) ==
    [n |-> 0, clipin |-> Replay!Outer(l.wide), clipout |-> Replay!Nowhere,
     xoffs |-> 0, yoffs |-> 0, fb |-> fb, draws |-> <<>>, d |-> <<>>,
     ram |-> list, wide |-> l.wide, shadows |-> l.shadows]

LEMMA WalkIs ==
    ASSUME NEW fb, NEW list, NEW l
    PROVE  \E at : /\ at[0] = WalkStart(fb, list, l)
                   /\ \A k \in 1 .. Entries : at[k] = Replay!command_step(at[k - 1])
                   /\ Replay!walk(fb, list, l) = at[Entries]
<1> DEFINE w == WalkStart(fb, list, l)
           Is(at) == at = [k \in 0 .. Entries |-> IF k = 0 THEN w ELSE Replay!command_step(at[k - 1])]
           A == CHOOSE at : Is(at)
<1>0. Entries \in Nat /\ Entries > 1
  BY WorkbenchAssumption DEF Replay!SpriteAssumption
<1>1. Replay!walk(fb, list, l) = A[Entries]
  BY DEF Replay!walk, WalkStart
<1> HIDE DEF w
<1>2. PICK at : Turns(at, [loop |-> "walk"], w, Entries)
  BY <1>0, LoopRuns
<1>3. \A k, s : Turn([loop |-> "walk"], k, s) = Replay!command_step(s)
  BY DEF Turn
<1>4. Is(at)
  BY <1>2, <1>3 DEF Turns
<1>5. Is(A)
  BY <1>4
<1> HIDE DEF A
<1>6. A[0] = w /\ \A k \in 1 .. Entries : A[k] = Replay!command_step(A[k - 1])
  BY <1>0, <1>5
<1> QED BY <1>1, <1>6 DEF w

\* The walk of the audit.
LEMMA AuditIs ==
    ASSUME NEW list
    PROVE  \E at : /\ at[0] = [n |-> 0, draws |-> <<>>]
                   /\ \A k \in 1 .. Entries : at[k] = Replay!audit_step(list, at[k - 1])
                   /\ Replay!audit(list) = at[Entries].draws
<1> DEFINE Is(at) == at = [k \in 0 .. Entries |-> IF k = 0 THEN [n |-> 0, draws |-> <<>>]
                                                  ELSE Replay!audit_step(list, at[k - 1])]
           A == CHOOSE at : Is(at)
<1>0. Entries \in Nat /\ Entries > 1
  BY WorkbenchAssumption DEF Replay!SpriteAssumption
<1>1. Replay!audit(list) = A[Entries].draws
  BY DEF Replay!audit
<1>2. PICK at : Turns(at, [loop |-> "audit", list |-> list], [n |-> 0, draws |-> <<>>], Entries)
  BY <1>0, LoopRuns
<1>3. \A k, s : Turn([loop |-> "audit", list |-> list], k, s) = Replay!audit_step(list, s)
  BY DEF Turn
<1>4. Is(at)
  BY <1>2, <1>3 DEF Turns
<1>5. Is(A)
  BY <1>4
<1> HIDE DEF A
<1>6. A[0] = [n |-> 0, draws |-> <<>>] /\ \A k \in 1 .. Entries : A[k] = Replay!audit_step(list, A[k - 1])
  BY <1>0, <1>5
<1> QED BY <1>1, <1>6

\* The pixels of a row.
RowStart(fb, x) == [fb |-> fb, x |-> x, i |-> 0, acc |-> 0, ended |-> FALSE]

LEMMA RowIs ==
    ASSUME NEW j, NEW fb, NEW y, NEW address, NEW x, NEW to, NEW n \in Nat,
           n = j.d.dest_width + WordPixels * j.d.words
    PROVE  \E at : /\ at[0] = RowStart(fb, x)
                   /\ \A k \in 1 .. n : at[k] = Replay!row_step(j, y, address, to, at[k - 1])
                   /\ Replay!draw_row(j, fb, y, address, x, to) = at[n].fb
<1> DEFINE Is(at) == at = [k \in 0 .. n |-> IF k = 0 THEN RowStart(fb, x)
                                            ELSE Replay!row_step(j, y, address, to, at[k - 1])]
           A == CHOOSE at : Is(at)
           p == [loop |-> "row", j |-> j, y |-> y, address |-> address, to |-> to]
<1>1. Replay!draw_row(j, fb, y, address, x, to) = A[n].fb
  BY DEF Replay!draw_row, RowStart
<1>2. PICK at : Turns(at, p, RowStart(fb, x), n)
  BY LoopRuns
<1>3. \A k, s : Turn(p, k, s) = Replay!row_step(j, y, address, to, s)
  BY DEF Turn
<1> HIDE DEF p
<1>4. Is(at)
  BY <1>2, <1>3 DEF Turns
<1>5. Is(A)
  BY <1>4
<1> HIDE DEF A
<1>6. A[0] = RowStart(fb, x) /\ \A k \in 1 .. n : A[k] = Replay!row_step(j, y, address, to, A[k - 1])
  BY <1>5
<1> QED BY <1>1, <1>6

\* The rows of a sprite.
RowsStart(j, fb, y) == [fb |-> fb, y |-> y, address |-> j.d.address, yacc |-> 0]

LEMMA RowsAre ==
    ASSUME NEW j, NEW fb, NEW x, NEW to, NEW y, NEW n \in Nat, n = j.d.dest_height
    PROVE  \E at : /\ at[0] = RowsStart(j, fb, y)
                   /\ \A k \in 1 .. n : at[k] = Replay!next_row(j, x, to, at[k - 1])
                   /\ Replay!draw_rows(j, fb, x, to, y) = at[n].fb
<1> DEFINE Is(at) == at = [k \in 0 .. n |-> IF k = 0 THEN RowsStart(j, fb, y)
                                            ELSE Replay!next_row(j, x, to, at[k - 1])]
           A == CHOOSE at : Is(at)
           p == [loop |-> "rows", j |-> j, x |-> x, to |-> to]
<1>1. Replay!draw_rows(j, fb, x, to, y) = A[n].fb
  BY DEF Replay!draw_rows, RowsStart
<1>2. PICK at : Turns(at, p, RowsStart(j, fb, y), n)
  BY LoopRuns
<1>3. \A k, s : Turn(p, k, s) = Replay!next_row(j, x, to, s)
  BY DEF Turn
<1> HIDE DEF p
<1>4. Is(at)
  BY <1>2, <1>3 DEF Turns
<1>5. Is(A)
  BY <1>4
<1> HIDE DEF A
<1>6. A[0] = RowsStart(j, fb, y) /\ \A k \in 1 .. n : A[k] = Replay!next_row(j, x, to, A[k - 1])
  BY <1>5
<1> QED BY <1>1, <1>6

\* What holds at first, and after a step when it holds before it, holds after any
\* number of them.
LEMMA Steps ==
    ASSUME NEW n \in Nat, NEW S, 0 \in S, \A k \in 1 .. n : k - 1 \in S => k \in S
    PROVE  \A k \in 0 .. n : k \in S
<1> DEFINE T == {k \in Nat : k \in 0 .. n /\ k \notin S}
<1> SUFFICES ASSUME T # {} PROVE FALSE
  OBVIOUS
<1>1. PICK m \in T : \A k \in T : m <= k
  BY Least
<1>2. m \in 1 .. n /\ m - 1 \in Nat
  BY <1>1
<1>3. m - 1 \in S
  BY <1>1, <1>2
<1> QED BY <1>1, <1>2, <1>3

-----------------------------------------------------------------------------
(***************************************************************************)
(* Whatever is drawn, a buffer has its cells.                              *)
(***************************************************************************)
IsBuffer(fb) == fb = [cell \in Replay!Cells |-> fb[cell]]

LEMMA PixelKeepsBuffer ==
    ASSUME NEW j, NEW fb, NEW x, NEW y, NEW code, NEW place, IsBuffer(fb)
    PROVE  IsBuffer(Replay!draw_pixel(j, fb, x, y, code, place))
<1>1. ASSUME NEW c, NEW v PROVE IsBuffer([fb EXCEPT ![c] = v])
  BY DEF IsBuffer
<1>2. \/ Replay!draw_pixel(j, fb, x, y, code, place) = fb
      \/ \E c, v : Replay!draw_pixel(j, fb, x, y, code, place) = [fb EXCEPT ![c] = v]
  BY DEF Replay!draw_pixel
<1> QED BY <1>1, <1>2

\* The state of a row, and that of the rows.
IsRow(s) == s = [fb |-> s.fb, x |-> s.x, i |-> s.i, acc |-> s.acc, ended |-> s.ended]

LEMMA RowStepIsRow ==
    ASSUME NEW j, NEW y, NEW address, NEW to, NEW s, IsRow(s), IsBuffer(s.fb)
    PROVE  /\ IsRow(Replay!row_step(j, y, address, to, s))
           /\ IsBuffer(Replay!row_step(j, y, address, to, s).fb)
<1> DEFINE d == j.d
           place == s.i % WordPixels
           code == Replay!source_word(d, address + (s.i \div WordPixels))[place + 1]
           drawn == Replay!draw_pixel(j, s.fb, s.x, y, code, place)
           t == Replay!row_step(j, y, address, to, s)
<1> SUFFICES IsRow(t) /\ IsBuffer(t.fb)
  OBVIOUS
<1>1. \/ t = s
      \/ t = [s EXCEPT !.fb = drawn, !.x = @ + (IF d.flip_x THEN -1 ELSE 1),
                       !.acc = @ + Replay!zoom(WordPixels * d.words, d.dest_width)]
      \/ t = [s EXCEPT !.ended = TRUE]
      \/ t = [s EXCEPT !.i = @ + 1, !.acc = Replay!advance(@)]
  <2>1. s.fb = [s EXCEPT !.fb = s.fb].fb
    BY DEF IsRow
  <2> QED BY <2>1 DEF Replay!row_step
<1>2. IsBuffer(drawn)
  BY PixelKeepsBuffer
<1> HIDE DEF d, place, code, drawn, t
<1>3. PICK fb, x, i, acc, ended :
          s = [fb |-> fb, x |-> x, i |-> i, acc |-> acc, ended |-> ended]
  BY DEF IsRow
<1>4. CASE t = s
  BY <1>4
<1>5. CASE t = [s EXCEPT !.fb = drawn, !.x = @ + (IF d.flip_x THEN -1 ELSE 1),
                         !.acc = @ + Replay!zoom(WordPixels * d.words, d.dest_width)]
  BY <1>2, <1>3, <1>5 DEF IsRow
<1>6. CASE t = [s EXCEPT !.ended = TRUE]
  BY <1>3, <1>6 DEF IsRow
<1>7. CASE t = [s EXCEPT !.i = @ + 1, !.acc = Replay!advance(@)]
  BY <1>3, <1>7 DEF IsRow
<1> QED BY <1>1, <1>4, <1>5, <1>6, <1>7

LEMMA RowKeepsBuffer ==
    ASSUME NEW j, NEW fb, NEW y, NEW address, NEW x, NEW to, IsBuffer(fb),
           j.d.dest_width \in Nat, j.d.words \in Nat
    PROVE  IsBuffer(Replay!draw_row(j, fb, y, address, x, to))
<1>0. WordPixels \in Nat
  BY WorkbenchAssumption DEF Replay!SpriteAssumption
<1>1. PICK n \in Nat : n = j.d.dest_width + WordPixels * j.d.words
  BY <1>0
<1>2. PICK at : /\ at[0] = RowStart(fb, x)
                /\ \A k \in 1 .. n : at[k] = Replay!row_step(j, y, address, to, at[k - 1])
                /\ Replay!draw_row(j, fb, y, address, x, to) = at[n].fb
  BY <1>1, RowIs
<1> DEFINE S == {k \in 0 .. n : IsRow(at[k]) /\ IsBuffer(at[k].fb)}
<1>3. 0 \in S
  BY <1>2 DEF RowStart, IsRow
<1>4. ASSUME NEW k \in 1 .. n, k - 1 \in S PROVE k \in S
  <2>1. k - 1 \in 0 .. n /\ at[k] = Replay!row_step(j, y, address, to, at[k - 1])
    BY <1>2
  <2> QED BY <1>4, <2>1, RowStepIsRow
<1>5. n \in S
  <2> HIDE DEF S
  <2>1. \A k \in 0 .. n : k \in S
    BY <1>3, <1>4, Steps
  <2> QED BY <2>1
<1> QED BY <1>2, <1>5

LEMMA RowsKeepBuffer ==
    ASSUME NEW j, NEW fb, NEW x, NEW to, NEW y, IsBuffer(fb),
           j.d.dest_width \in Nat, j.d.words \in Nat, j.d.dest_height \in Nat
    PROVE  IsBuffer(Replay!draw_rows(j, fb, x, to, y))
<1>1. PICK n \in Nat : n = j.d.dest_height
  OBVIOUS
<1>2. PICK at : /\ at[0] = RowsStart(j, fb, y)
                /\ \A k \in 1 .. n : at[k] = Replay!next_row(j, x, to, at[k - 1])
                /\ Replay!draw_rows(j, fb, x, to, y) = at[n].fb
  BY <1>1, RowsAre
<1> DEFINE S == {k \in 0 .. n : IsBuffer(at[k].fb)}
<1>3. 0 \in S
  BY <1>2 DEF RowsStart
<1>4. ASSUME NEW k \in 1 .. n, k - 1 \in S PROVE k \in S
  <2>1. k - 1 \in 0 .. n /\ at[k] = Replay!next_row(j, x, to, at[k - 1])
    BY <1>2
  <2>2. \/ at[k].fb = at[k - 1].fb
        \/ at[k].fb = Replay!draw_row(j, at[k - 1].fb, at[k - 1].y, at[k - 1].address, x, to)
    BY <2>1 DEF Replay!next_row
  <2> QED BY <1>4, <2>1, <2>2, RowKeepsBuffer
<1>5. n \in S
  <2> HIDE DEF S
  <2>1. \A k \in 0 .. n : k \in S
    BY <1>3, <1>4, Steps
  <2> QED BY <2>1
<1> QED BY <1>2, <1>5

LEMMA SpriteKeepsBuffer ==
    ASSUME NEW j, NEW fb, IsBuffer(fb), Replay!WellFormed(j.d), j.d.command = "draw"
    PROVE  IsBuffer(Replay!draw_one_sprite(j, fb))
<1>1. j.d.dest_width \in Nat /\ j.d.words \in Nat /\ j.d.dest_height \in Nat
  BY DEF Replay!WellFormed
<1>2. \/ Replay!draw_one_sprite(j, fb) = fb
      \/ \E x, to, y : Replay!draw_one_sprite(j, fb) = Replay!draw_rows(j, fb, x, to, y)
  BY DEF Replay!draw_one_sprite
<1> QED BY <1>1, <1>2, RowsKeepBuffer

-----------------------------------------------------------------------------
(***************************************************************************)
(* The states of the walk: what a walk through a prepared list may hold.   *)
(***************************************************************************)
Commands == {list[n] : list \in Replay!Prepared, n \in 0 .. Entries - 1}

\* The clips that keep to the picture.
Windows(wide) ==
    {r \in Replay!Rects : /\ r.x0 >= 0 /\ r.x1 < (IF wide THEN Wide ELSE Narrow)
                          /\ r.y0 >= 0 /\ r.y1 < Height}

\* The sprites to be drawn.
Jobs == [n : 0 .. Entries - 1, clipin : Windows(TRUE) \cup Windows(FALSE), clipout : Replay!Rects,
         xoffs : Int, yoffs : Int, fb : {<<>>}, draws : {<<>>},
         d : {d \in Commands : d.command = "draw"}, ram : Replay!Prepared,
         wide : BOOLEAN, shadows : BOOLEAN]

IsWalk(w, list, wide, shadows) ==
    \E n \in Nat : \E in \in Windows(wide) : \E out \in Replay!Rects :
    \E dx, dy \in Int : \E draws \in Seq(Jobs) : \E fb :
        /\ IsBuffer(fb)
        /\ w = [n |-> n, clipin |-> in, clipout |-> out, xoffs |-> dx, yoffs |-> dy, fb |-> fb,
                draws |-> draws, d |-> <<>>, ram |-> list, wide |-> wide, shadows |-> shadows]

LEMMA Sizes ==
    /\ Entries \in Nat /\ Entries > 1 /\ Height \in Nat /\ Height > 0
    /\ Storage \in Nat /\ WordPixels \in Nat /\ WordPixels > 1
    /\ Wide \in Nat /\ Narrow \in Nat /\ 1 <= Narrow /\ Narrow <= Wide /\ Wide <= Storage
BY WorkbenchAssumption DEF Replay!SpriteAssumption

LEMMA Divides ==
    ASSUME NEW m \in Nat \ {0}, NEW n \in Nat
    PROVE  n % m \in 0 .. m - 1 /\ n \div m \in Nat /\ n = m * (n \div m) + (n % m)
OBVIOUS

LEMMA CommandsWellFormed ==
    ASSUME NEW list \in Replay!Prepared, NEW n \in Nat
    PROVE  /\ list[n % Entries] \in Commands
           /\ Replay!WellFormed(list[n % Entries])
<1>1. n % Entries \in 0 .. Entries - 1
  BY Sizes, Divides
<1> QED BY <1>1, WorkbenchAssumption DEF Replay!SpriteAssumption, Commands

LEMMA OuterIsWindow ==
    ASSUME NEW wide \in BOOLEAN PROVE Replay!Outer(wide) \in Windows(wide)
BY Sizes DEF Replay!Outer, Replay!Rect, Replay!Rects, Windows

LEMMA IntersectIsWindow ==
    ASSUME NEW wide \in BOOLEAN, NEW r \in Replay!Rects
    PROVE  Replay!intersect(r, Replay!Outer(wide)) \in Windows(wide)
BY Sizes DEF Replay!Outer, Replay!Rect, Replay!Rects, Windows, Replay!intersect,
             Replay!Larger, Replay!Smaller

LEMMA StartIsWalk ==
    ASSUME NEW fb, NEW list, NEW l, l.wide \in BOOLEAN, IsBuffer(fb)
    PROVE  IsWalk(WalkStart(fb, list, l), list, l.wide, l.shadows)
<1>1. Replay!Nowhere \in Replay!Rects
  BY DEF Replay!Nowhere, Replay!Rect, Replay!Rects
<1>2. Replay!Outer(l.wide) \in Windows(l.wide)
  BY OuterIsWindow
<1>3. <<>> \in Seq(Jobs) /\ 0 \in Nat /\ 0 \in Int
  OBVIOUS
<1> QED BY <1>1, <1>2, <1>3 DEF WalkStart, IsWalk

\* The sprite a draw command stands for, as it is recorded and as it is drawn.
Job(w, d) == [w EXCEPT !.d = d, !.n = @ % Entries, !.fb = <<>>, !.draws = <<>>]

LEMMA JobIsJob ==
    ASSUME NEW w, NEW list \in Replay!Prepared, NEW wide \in BOOLEAN, NEW shadows \in BOOLEAN,
           IsWalk(w, list, wide, shadows), NEW d \in Commands, d.command = "draw"
    PROVE  Job(w, d) \in Jobs
<1>1. PICK n \in Nat : \E in \in Windows(wide) : \E out \in Replay!Rects :
      \E dx, dy \in Int : \E draws \in Seq(Jobs) : \E fb :
        w = [n |-> n, clipin |-> in, clipout |-> out, xoffs |-> dx, yoffs |-> dy, fb |-> fb,
             draws |-> draws, d |-> <<>>, ram |-> list, wide |-> wide, shadows |-> shadows]
  BY DEF IsWalk
<1>2. PICK in \in Windows(wide), out \in Replay!Rects, dx \in Int, dy \in Int :
      \E draws, fb :
        w = [n |-> n, clipin |-> in, clipout |-> out, xoffs |-> dx, yoffs |-> dy, fb |-> fb,
             draws |-> draws, d |-> <<>>, ram |-> list, wide |-> wide, shadows |-> shadows]
  BY <1>1
<1>3. n % Entries \in 0 .. Entries - 1
  BY Sizes, Divides
<1>a. PICK draws, fb :
        w = [n |-> n, clipin |-> in, clipout |-> out, xoffs |-> dx, yoffs |-> dy, fb |-> fb,
             draws |-> draws, d |-> <<>>, ram |-> list, wide |-> wide, shadows |-> shadows]
  BY <1>2
<1>4. PICK j : j = [w EXCEPT !.d = d, !.n = @ % Entries, !.fb = <<>>, !.draws = <<>>]
  OBVIOUS
<1>5. j = [n |-> n % Entries, clipin |-> in, clipout |-> out, xoffs |-> dx, yoffs |-> dy,
           fb |-> <<>>, draws |-> <<>>, d |-> d, ram |-> list, wide |-> wide, shadows |-> shadows]
  BY <1>a, <1>4
<1>6. in \in Windows(TRUE) \cup Windows(FALSE)
  <2>1. CASE wide
    BY <2>1 DEF Windows
  <2>2. CASE ~wide
    BY <2>2 DEF Windows
  <2> QED BY <2>1, <2>2
<1>7. j \in Jobs
  BY <1>3, <1>5, <1>6 DEF Jobs
<1> QED BY <1>4, <1>7 DEF Job

LEMMA CommandKeepsWalk ==
    ASSUME NEW w, NEW list \in Replay!Prepared, NEW wide \in BOOLEAN, NEW shadows \in BOOLEAN,
           IsWalk(w, list, wide, shadows)
    PROVE  IsWalk(Replay!command_step(w), list, wide, shadows)
<1>1. PICK n \in Nat : \E in \in Windows(wide) : \E out \in Replay!Rects :
      \E dx, dy \in Int : \E draws \in Seq(Jobs) : \E fb :
        /\ IsBuffer(fb)
        /\ w = [n |-> n, clipin |-> in, clipout |-> out, xoffs |-> dx, yoffs |-> dy, fb |-> fb,
                draws |-> draws, d |-> <<>>, ram |-> list, wide |-> wide, shadows |-> shadows]
  BY DEF IsWalk
<1>2. PICK in \in Windows(wide), out \in Replay!Rects, dx \in Int, dy \in Int, draws \in Seq(Jobs) :
      \E fb :
        /\ IsBuffer(fb)
        /\ w = [n |-> n, clipin |-> in, clipout |-> out, xoffs |-> dx, yoffs |-> dy, fb |-> fb,
                draws |-> draws, d |-> <<>>, ram |-> list, wide |-> wide, shadows |-> shadows]
  BY <1>1
<1>3. PICK fb :
        /\ IsBuffer(fb)
        /\ w = [n |-> n, clipin |-> in, clipout |-> out, xoffs |-> dx, yoffs |-> dy, fb |-> fb,
                draws |-> draws, d |-> <<>>, ram |-> list, wide |-> wide, shadows |-> shadows]
  BY <1>2
<1> DEFINE d == list[n % Entries]
<1>4. d \in Commands /\ Replay!WellFormed(d)
  BY CommandsWellFormed
<1>5. Replay!command_step(w) = CASE d.command = "draw" -> Replay!draw(w, d)
                                 [] d.command = "clip" -> Replay!clip(w, d)
                                 [] d.command = "jump" -> Replay!jump(w, d)
                                 [] d.command = "end"  -> w
  BY <1>3 DEF Replay!command_step
<1> HIDE DEF d
<1>6. CASE d.command = "draw"
  <2>1. PICK m \in Nat : m = n + 1 + Replay!skipped_entries(d)
    BY DEF Replay!skipped_entries
  <2>2. PICK drawn : drawn = Replay!draw_one_sprite([w EXCEPT !.d = d, !.n = n % Entries], fb)
    OBVIOUS
  <2>3. IsBuffer(drawn)
    <3>1. [w EXCEPT !.d = d, !.n = n % Entries].d = d
      BY <1>3
    <3> QED BY <1>3, <1>4, <1>6, <2>2, <3>1, SpriteKeepsBuffer
  <2>4. Job(w, d) \in Jobs
    BY <1>4, <1>6, JobIsJob
  <2>5. PICK more \in Seq(Jobs) : more = Append(draws, Job(w, d))
    BY <2>4, AppendProperties
  <2>6. Replay!command_step(w) =
            [n |-> m, clipin |-> in, clipout |-> out, xoffs |-> dx, yoffs |-> dy, fb |-> drawn,
             draws |-> more, d |-> <<>>, ram |-> list, wide |-> wide, shadows |-> shadows]
    BY <1>3, <1>5, <1>6, <2>1, <2>2, <2>5 DEF Replay!draw, Job
  <2> QED BY <2>3, <2>6 DEF IsWalk
<1>7. CASE d.command = "clip"
  <2>1. PICK ci \in Windows(wide) : ci = IF d.sets_in THEN Replay!intersect(d.clipin, Replay!Outer(wide)) ELSE in
    BY <1>4, <1>7, IntersectIsWindow DEF Replay!WellFormed
  <2>2. PICK co \in Replay!Rects : co = IF d.sets_out THEN d.clipout ELSE out
    BY <1>4, <1>7 DEF Replay!WellFormed
  <2>3. PICK m \in Nat : m = n + 1
    OBVIOUS
  <2>4. Replay!command_step(w) =
            [n |-> m, clipin |-> ci, clipout |-> co, xoffs |-> dx, yoffs |-> dy, fb |-> fb,
             draws |-> draws, d |-> <<>>, ram |-> list, wide |-> wide, shadows |-> shadows]
    BY <1>3, <1>5, <1>7, <2>1, <2>2, <2>3 DEF Replay!clip
  <2> QED BY <1>3, <2>4 DEF IsWalk
<1>8. CASE d.command = "jump"
  <2>1. PICK ex \in Int, ey \in Int : /\ ex = IF d.sets_offsets THEN d.xoffs ELSE dx
                                      /\ ey = IF d.sets_offsets THEN d.yoffs ELSE dy
    BY <1>4, <1>8 DEF Replay!WellFormed
  <2>2. PICK m \in Nat : m = d.target
    BY <1>4, <1>8 DEF Replay!WellFormed
  <2>3. Replay!command_step(w) =
            [n |-> m, clipin |-> in, clipout |-> out, xoffs |-> ex, yoffs |-> ey, fb |-> fb,
             draws |-> draws, d |-> <<>>, ram |-> list, wide |-> wide, shadows |-> shadows]
    BY <1>3, <1>5, <1>8, <2>1, <2>2 DEF Replay!jump
  <2> QED BY <1>3, <2>3 DEF IsWalk
<1>9. CASE d.command = "end"
  BY <1>5, <1>9
<1> QED BY <1>4, <1>6, <1>7, <1>8, <1>9 DEF Replay!WellFormed

LEMMA WalkIsWalk ==
    ASSUME NEW fb, NEW list \in Replay!Prepared, NEW l \in Replay!Controls, IsBuffer(fb)
    PROVE  IsWalk(Replay!walk(fb, list, l), list, l.wide, l.shadows)
<1>1. l.wide \in BOOLEAN /\ l.shadows \in BOOLEAN
  BY DEF Replay!Controls
<1>2. PICK wide \in BOOLEAN, shadows \in BOOLEAN : wide = l.wide /\ shadows = l.shadows
  BY <1>1
<1>3. PICK at : /\ at[0] = WalkStart(fb, list, l)
                /\ \A k \in 1 .. Entries : at[k] = Replay!command_step(at[k - 1])
                /\ Replay!walk(fb, list, l) = at[Entries]
  BY WalkIs
<1> DEFINE S == {k \in 0 .. Entries : IsWalk(at[k], list, wide, shadows)}
<1>4. 0 \in S
  BY <1>1, <1>2, <1>3, Sizes, StartIsWalk
<1>5. ASSUME NEW k \in 1 .. Entries, k - 1 \in S PROVE k \in S
  <2>1. k \in 0 .. Entries /\ k - 1 \in 0 .. Entries /\ at[k] = Replay!command_step(at[k - 1])
    BY <1>3, Sizes
  <2> QED BY <1>5, <2>1, CommandKeepsWalk
<1>6. Entries \in S
  <2> HIDE DEF S
  <2>1. \A k \in 0 .. Entries : k \in S
    BY <1>4, <1>5, Sizes, Steps
  <2> QED BY <2>1, Sizes
<1> QED BY <1>2, <1>3, <1>6

LEMMA WalkYields ==
    ASSUME NEW fb, NEW list \in Replay!Prepared, NEW l \in Replay!Controls, IsBuffer(fb)
    PROVE  /\ IsBuffer(Replay!walk(fb, list, l).fb)
           /\ Replay!walk(fb, list, l).draws \in Seq(Jobs)
<1>1. PICK w : w = Replay!walk(fb, list, l)
  OBVIOUS
<1>2. IsWalk(w, list, l.wide, l.shadows)
  BY <1>1, WalkIsWalk
<1>3. IsBuffer(w.fb) /\ w.draws \in Seq(Jobs)
  BY <1>2 DEF IsWalk
<1> QED BY <1>1, <1>3

-----------------------------------------------------------------------------
(***************************************************************************)
(* The audit walks beside the renderer.                                    *)
(***************************************************************************)
LEMMA QuotientIs ==
    ASSUME NEW m \in Nat \ {0}, NEW q \in Nat, NEW r \in 0 .. m - 1,
           NEW n \in Nat, n = m * q + r
    PROVE  n \div m = q /\ n % m = r
OBVIOUS

LEMMA ModAdd ==
    ASSUME NEW m \in Nat \ {0}, NEW n \in Nat, NEW c \in Nat
    PROVE  ((n % m) + c) % m = (n + c) % m
<1>1. n % m \in 0 .. m - 1 /\ n \div m \in Nat /\ n = m * (n \div m) + (n % m)
  BY Divides
<1>2. PICK q \in Nat, r \in 0 .. m - 1 : n = m * q + r /\ r = n % m
  BY <1>1
<1>3. PICK e \in Nat : e = r + c
  OBVIOUS
<1>4. e % m \in 0 .. m - 1 /\ e \div m \in Nat /\ e = m * (e \div m) + (e % m)
  BY Divides
<1>5. PICK s \in Nat, t \in 0 .. m - 1 : e = m * s + t /\ t = e % m
  BY <1>4
<1>6. PICK u \in Nat, x \in Nat : u = q + s /\ x = n + c
  OBVIOUS
<1>7. m * u = m * q + m * s
  BY <1>6
<1>8. x = m * u + t
  <2>1. PICK a \in Nat, b \in Nat, v \in Nat : a = m * q /\ b = m * s /\ v = m * u
    OBVIOUS
  <2>2. n = a + r /\ e = b + t /\ v = a + b
    BY <1>2, <1>5, <1>7, <2>1
  <2>3. x = v + t
    BY <1>3, <1>6, <2>2
  <2> QED BY <2>1, <2>3
<1>9. x % m = t
  BY <1>8, QuotientIs
<1> QED BY <1>2, <1>3, <1>5, <1>6, <1>9

SameDraws(w, a) ==
    a = [n |-> w.n % Entries, draws |-> [k \in 1 .. Len(w.draws) |-> w.draws[k].n]]

LEMMA AuditStepAgrees ==
    ASSUME NEW w, NEW list \in Replay!Prepared, NEW wide \in BOOLEAN, NEW shadows \in BOOLEAN,
           IsWalk(w, list, wide, shadows), NEW a, SameDraws(w, a)
    PROVE  SameDraws(Replay!command_step(w), Replay!audit_step(list, a))
<1>1. /\ w.n \in Nat /\ w.draws \in Seq(Jobs) /\ w.ram = list
      /\ \A n, fb, draws : [w EXCEPT !.n = n, !.fb = fb, !.draws = draws].n = n
      /\ \A n, fb, draws : [w EXCEPT !.n = n, !.fb = fb, !.draws = draws].draws = draws
      /\ \A n, in, out : [w EXCEPT !.n = n, !.clipin = in, !.clipout = out].n = n
      /\ \A n, in, out : [w EXCEPT !.n = n, !.clipin = in, !.clipout = out].draws = w.draws
      /\ \A n, dx, dy : [w EXCEPT !.n = n, !.xoffs = dx, !.yoffs = dy].n = n
      /\ \A n, dx, dy : [w EXCEPT !.n = n, !.xoffs = dx, !.yoffs = dy].draws = w.draws
      /\ \A d : Job(w, d).n = w.n % Entries
  BY DEF IsWalk, Job
<1>2. PICK n \in Nat, draws \in Seq(Jobs), len \in Nat : n = w.n /\ draws = w.draws /\ len = Len(draws)
  BY <1>1
<1>3. PICK m \in 0 .. Entries - 1 : m = n % Entries
  <2>1. n % Entries \in 0 .. Entries - 1
    BY Sizes, Divides
  <2> QED BY <2>1
<1>4. PICK said : said = [k \in 1 .. len |-> draws[k].n]
  OBVIOUS
<1>5. a = [n |-> m, draws |-> said]
  BY <1>2, <1>3, <1>4 DEF SameDraws
<1> DEFINE d == list[m]
<1>6. d \in Commands /\ Replay!WellFormed(d)
  BY <1>3, CommandsWellFormed
<1>7. Replay!command_step(w) = CASE d.command = "draw" -> Replay!draw(w, d)
                                 [] d.command = "clip" -> Replay!clip(w, d)
                                 [] d.command = "jump" -> Replay!jump(w, d)
                                 [] d.command = "end"  -> w
  BY <1>1, <1>2, <1>3 DEF Replay!command_step
<1>8. Replay!audit_step(list, a) =
        CASE d.command = "draw" -> [n |-> (m + 1 + Replay!inline_entries(d)) % Entries,
                                    draws |-> Append(said, m)]
          [] d.command = "clip" -> [a EXCEPT !.n = (@ + 1) % Entries]
          [] d.command = "jump" -> [a EXCEPT !.n = d.target % Entries]
          [] d.command = "end"  -> a
  BY <1>5 DEF Replay!audit_step
<1> HIDE DEF d
<1>9. Entries \in Nat \ {0}
  BY Sizes
<1>10. CASE d.command = "draw"
  <2>1. PICK c \in Nat : c = 1 + Replay!skipped_entries(d) /\ c = 1 + Replay!inline_entries(d)
    BY <1>10 DEF Replay!skipped_entries, Replay!inline_entries
  <2>2. PICK job \in Jobs : job = Job(w, d)
    BY <1>6, <1>10, JobIsJob
  <2>3. job.n = m
    BY <1>1, <1>2, <1>3, <2>2
  <2>4. PICK more \in Seq(Jobs) : more = Append(draws, job)
    BY AppendProperties
  <2>5. Len(more) = len + 1 /\ (\A k \in 1 .. len : more[k] = draws[k]) /\ more[len + 1] = job
    BY <1>2, <2>4, AppendProperties
  <2>6. Replay!command_step(w).n = n + c /\ Replay!command_step(w).draws = more
    <3>1. PICK drawn : Replay!draw(w, d) =
              [w EXCEPT !.n = @ + 1 + Replay!skipped_entries(d), !.fb = drawn,
                        !.draws = Append(@, Job(w, d))]
      BY DEF Replay!draw, Job
    <3>2. Replay!draw(w, d).n = w.n + 1 + Replay!skipped_entries(d)
          /\ Replay!draw(w, d).draws = Append(w.draws, Job(w, d))
      BY <1>1, <3>1
    <3>3. c \in Nat /\ Replay!skipped_entries(d) \in Nat
      BY DEF Replay!skipped_entries
    <3>4. Replay!command_step(w) = Replay!draw(w, d)
      BY <1>7, <1>10
    <3>5. n + 1 + Replay!skipped_entries(d) = n + c
      BY <2>1, <3>3
    <3>6. Append(w.draws, Job(w, d)) = more
      BY <1>2, <2>2, <2>4
    <3> QED BY <1>2, <3>2, <3>4, <3>5, <3>6
  <2>7. Append(said, m) = [k \in 1 .. len + 1 |-> more[k].n]
    <3>1. said \in Seq({draws[k].n : k \in 1 .. len} \cup {m}) /\ Len(said) = len
      BY <1>4
    <3>2. PICK p \in Seq({draws[k].n : k \in 1 .. len} \cup {m}) : p = Append(said, m)
      BY <3>1, AppendProperties
    <3>3. Len(p) = len + 1 /\ (\A k \in 1 .. len : p[k] = said[k]) /\ p[len + 1] = m
      BY <3>1, <3>2, AppendProperties
    <3>4. p = [k \in 1 .. len + 1 |-> p[k]]
      <4>1. p = [k \in 1 .. Len(p) |-> p[k]]
        OBVIOUS
      <4> QED BY <3>3, <4>1
    <3>5. \A k \in 1 .. len + 1 : p[k] = more[k].n
      <4> SUFFICES ASSUME NEW k \in 1 .. len + 1 PROVE p[k] = more[k].n
        OBVIOUS
      <4>1. CASE k = len + 1
        BY <2>3, <2>5, <3>3, <4>1
      <4>2. CASE k # len + 1
        <5>1. k \in 1 .. len
          BY <4>2
        <5> QED BY <1>4, <2>5, <3>3, <5>1
      <4> QED BY <4>1, <4>2
    <3> QED BY <3>2, <3>4, <3>5
  <2>8. (m + c) % Entries = (n + c) % Entries
    BY <1>3, <1>9, ModAdd
  <2>9. Replay!audit_step(list, a) = [n |-> (m + c) % Entries, draws |-> Append(said, m)]
    <3>1. Replay!audit_step(list, a) =
            [n |-> (m + 1 + Replay!inline_entries(d)) % Entries, draws |-> Append(said, m)]
      BY <1>8, <1>10
    <3>2. m + 1 + Replay!inline_entries(d) = m + c
      BY <2>1 DEF Replay!inline_entries
    <3> QED BY <3>1, <3>2
  <2>10. PICK x, y : x = Replay!command_step(w) /\ y = Replay!audit_step(list, a)
    OBVIOUS
  <2>11. Len(x.draws) = len + 1 /\ x.draws = more /\ x.n = n + c
    BY <2>5, <2>6, <2>10
  <2>12. y = [n |-> x.n % Entries, draws |-> [k \in 1 .. len + 1 |-> x.draws[k].n]]
    BY <2>7, <2>8, <2>9, <2>10, <2>11
  <2> QED BY <2>10, <2>11, <2>12 DEF SameDraws
<1>11. CASE d.command = "clip"
  <2>1. Replay!command_step(w).n = n + 1 /\ Replay!command_step(w).draws = draws
    <3>1. PICK in, out : Replay!clip(w, d) = [w EXCEPT !.n = @ + 1, !.clipin = in, !.clipout = out]
      BY DEF Replay!clip
    <3>2. Replay!command_step(w) = Replay!clip(w, d)
      BY <1>7, <1>11
    <3> QED BY <1>1, <1>2, <3>1, <3>2
  <2>2. (m + 1) % Entries = (n + 1) % Entries
    BY <1>3, <1>9, ModAdd
  <2>3. PICK b : b = [a EXCEPT !.n = (@ + 1) % Entries]
    OBVIOUS
  <2>4. b = [n |-> (m + 1) % Entries, draws |-> said]
    BY <1>5, <2>3
  <2> QED BY <1>2, <1>4, <1>8, <1>11, <2>1, <2>2, <2>3, <2>4 DEF SameDraws
<1>12. CASE d.command = "jump"
  <2>1. Replay!command_step(w).n = d.target /\ Replay!command_step(w).draws = draws
    <3>1. PICK dx, dy : Replay!jump(w, d) = [w EXCEPT !.n = d.target, !.xoffs = dx, !.yoffs = dy]
      BY DEF Replay!jump
    <3>2. Replay!command_step(w) = Replay!jump(w, d)
      BY <1>7, <1>12
    <3> QED BY <1>1, <1>2, <3>1, <3>2
  <2>2. PICK b : b = [a EXCEPT !.n = d.target % Entries]
    OBVIOUS
  <2>3. b = [n |-> d.target % Entries, draws |-> said]
    BY <1>5, <2>2
  <2> QED BY <1>2, <1>4, <1>8, <1>12, <2>1, <2>2, <2>3 DEF SameDraws
<1>13. CASE d.command = "end"
  BY <1>7, <1>8, <1>13
<1> QED BY <1>6, <1>10, <1>11, <1>12, <1>13 DEF Replay!WellFormed

LEMMA AuditAgrees ==
    ASSUME NEW fb, NEW list \in Replay!Prepared, NEW l \in Replay!Controls, IsBuffer(fb),
           NEW draws, draws = Replay!walk(fb, list, l).draws
    PROVE  Replay!audit(list) = [k \in DOMAIN draws |-> draws[k].n]
<1>1. l.wide \in BOOLEAN /\ l.shadows \in BOOLEAN
  BY DEF Replay!Controls
<1>2. PICK wide \in BOOLEAN, shadows \in BOOLEAN : wide = l.wide /\ shadows = l.shadows
  BY <1>1
<1>3. PICK at : /\ at[0] = WalkStart(fb, list, l)
                /\ \A k \in 1 .. Entries : at[k] = Replay!command_step(at[k - 1])
                /\ Replay!walk(fb, list, l) = at[Entries]
  BY WalkIs
<1>4. PICK by : /\ by[0] = [n |-> 0, draws |-> <<>>]
                /\ \A k \in 1 .. Entries : by[k] = Replay!audit_step(list, by[k - 1])
                /\ Replay!audit(list) = by[Entries].draws
  BY AuditIs
<1> DEFINE S == {k \in 0 .. Entries : IsWalk(at[k], list, wide, shadows) /\ SameDraws(at[k], by[k])}
<1>5. 0 \in S
  <2>1. IsWalk(at[0], list, wide, shadows)
    BY <1>1, <1>2, <1>3, StartIsWalk
  <2>2. at[0].n = 0 /\ at[0].draws = <<>>
    BY <1>3 DEF WalkStart
  <2>3. 0 % Entries = 0
    BY Sizes
  <2>4. [k \in 1 .. Len(<<>>) |-> <<>>[k].n] = <<>>
    OBVIOUS
  <2>5. SameDraws(at[0], by[0])
    BY <1>4, <2>2, <2>3, <2>4 DEF SameDraws
  <2> QED BY <2>1, <2>5, Sizes
<1>6. ASSUME NEW k \in 1 .. Entries, k - 1 \in S PROVE k \in S
  <2>1. k \in 0 .. Entries /\ k - 1 \in 0 .. Entries /\ at[k] = Replay!command_step(at[k - 1])
        /\ by[k] = Replay!audit_step(list, by[k - 1])
    BY <1>3, <1>4, Sizes
  <2>2. IsWalk(at[k - 1], list, wide, shadows) /\ SameDraws(at[k - 1], by[k - 1])
    BY <1>6
  <2>3. IsWalk(at[k], list, wide, shadows)
    BY <2>1, <2>2, CommandKeepsWalk
  <2>4. SameDraws(at[k], by[k])
    BY <2>1, <2>2, AuditStepAgrees
  <2> QED BY <2>1, <2>3, <2>4
<1>7. Entries \in S
  <2> HIDE DEF S
  <2>1. \A k \in 0 .. Entries : k \in S
    BY <1>5, <1>6, Sizes, Steps
  <2> QED BY <2>1, Sizes
<1>8. draws \in Seq(Jobs) /\ DOMAIN draws = 1 .. Len(draws)
  BY WalkYields
<1>9. by[Entries] = [n |-> at[Entries].n % Entries,
                     draws |-> [k \in 1 .. Len(draws) |-> draws[k].n]]
  BY <1>3, <1>7 DEF SameDraws
<1> QED BY <1>4, <1>8, <1>9

-----------------------------------------------------------------------------
(***************************************************************************)
(* What the replay keeps: the registers are registers, each buffer has its *)
(* cells, what was drawn on it are sprites of prepared lists.              *)
(***************************************************************************)
SpriteInv ==
    /\ controls \in Replay!Controls /\ latched \in Replay!Controls
    /\ IsBuffer(front) /\ IsBuffer(back)
    /\ frontIs \in Seq(Seq(Jobs)) /\ backIs \in Seq(Seq(Jobs))
    /\ unit = "sprites" => ram \in Replay!Prepared
    /\ unit # "sprites" => shot = NoShot

LEMMA BlankIsBuffer == IsBuffer(Replay!Blank)
BY DEF IsBuffer, Replay!Blank

LEMMA SpriteInvInit == BenchInit => SpriteInv
<1> SUFFICES ASSUME BenchInit PROVE SpriteInv
  OBVIOUS
<1>1. Replay!Start /\ shot = NoShot /\ (unit = "sprites" => Replay!Given)
  BY DEF BenchInit
<1>2. Replay!Reset \in Replay!Controls
  BY DEF Replay!Reset, Replay!Controls
<1>3. <<>> \in Seq(Seq(Jobs))
  OBVIOUS
<1>4. unit = "sprites" => ram \in Replay!Prepared
  BY <1>1 DEF Replay!Given, Replay!Prepared
<1> QED BY <1>1, <1>2, <1>3, <1>4, BlankIsBuffer DEF Replay!Start, SpriteInv

\* The update after vertical blanking, in full.
LEMMA UpdateDoes ==
    ASSUME SpriteInv, unit = "sprites", Replay!vblank
    PROVE  \E command, old, oldIs, r :
              /\ command \in 0 .. 3
              /\ command = IF ~controls.manual /\ render_count = 0 THEN 3 ELSE controls.command
              /\ old = (IF command \in {2, 3} THEN Replay!Blank ELSE front) /\ IsBuffer(old)
              /\ oldIs = (IF command \in {2, 3} THEN <<>> ELSE frontIs) /\ oldIs \in Seq(Seq(Jobs))
              /\ r = Replay!walk(old, ram, controls) /\ IsBuffer(r.fb) /\ r.draws \in Seq(Jobs)
              /\ front' = IF command \in {1, 3} THEN back ELSE old
              /\ back' = IF command \in {1, 3} THEN r.fb ELSE back
              /\ frontIs' = IF command \in {1, 3} THEN backIs ELSE oldIs
              /\ backIs' = IF command \in {1, 3} THEN Append(oldIs, r.draws) ELSE backIs
              /\ latched' = IF command \in {1, 3} THEN [controls EXCEPT !.command = command]
                            ELSE latched
              /\ controls' = [controls EXCEPT !.command = 0]
              /\ ram' = ram
<1>1. PICK command \in 0 .. 3 :
          command = IF ~controls.manual /\ render_count = 0 THEN 3 ELSE controls.command
  BY DEF SpriteInv, Replay!Controls
<1>2. PICK old : old = IF command \in {2, 3} THEN Replay!Blank ELSE front
  OBVIOUS
<1>3. PICK oldIs : oldIs = IF command \in {2, 3} THEN <<>> ELSE frontIs
  OBVIOUS
<1>4. PICK r : r = Replay!walk(old, ram, controls)
  OBVIOUS
<1>5. IsBuffer(old)
  BY <1>2, BlankIsBuffer DEF SpriteInv
<1>6. oldIs \in Seq(Seq(Jobs))
  BY <1>3 DEF SpriteInv
<1>7. IsBuffer(r.fb) /\ r.draws \in Seq(Jobs)
  BY <1>4, <1>5, WalkYields DEF SpriteInv
<1>8. Replay!Update(command) /\ ram' = ram
  BY <1>1 DEF Replay!vblank, Replay!auto_command
<1>9. /\ front' = IF command \in {1, 3} THEN back ELSE old
      /\ back' = IF command \in {1, 3} THEN r.fb ELSE back
      /\ frontIs' = IF command \in {1, 3} THEN backIs ELSE oldIs
      /\ backIs' = IF command \in {1, 3} THEN Append(oldIs, r.draws) ELSE backIs
      /\ latched' = IF command \in {1, 3} THEN [controls EXCEPT !.command = command] ELSE latched
      /\ controls' = [controls EXCEPT !.command = 0]
  BY <1>2, <1>3, <1>4, <1>8 DEF Replay!Update, Replay!render_list
<1> QED BY <1>1, <1>2, <1>3, <1>4, <1>5, <1>6, <1>7, <1>8, <1>9

LEMMA SpriteInvNext == ASSUME SpriteInv, [BenchNext]_benchVars PROVE SpriteInv'
<1>1. CASE UNCHANGED <<unit, spriteVars>>
  BY <1>1 DEF SpriteInv, spriteVars, IsBuffer
<1>2. ASSUME unit = "sprites", Replay!vblank, unit' = unit PROVE SpriteInv'
  <2>1. PICK command, old, oldIs, r :
              /\ command \in 0 .. 3
              /\ command = IF ~controls.manual /\ render_count = 0 THEN 3 ELSE controls.command
              /\ old = (IF command \in {2, 3} THEN Replay!Blank ELSE front) /\ IsBuffer(old)
              /\ oldIs = (IF command \in {2, 3} THEN <<>> ELSE frontIs) /\ oldIs \in Seq(Seq(Jobs))
              /\ r = Replay!walk(old, ram, controls) /\ IsBuffer(r.fb) /\ r.draws \in Seq(Jobs)
              /\ front' = IF command \in {1, 3} THEN back ELSE old
              /\ back' = IF command \in {1, 3} THEN r.fb ELSE back
              /\ frontIs' = IF command \in {1, 3} THEN backIs ELSE oldIs
              /\ backIs' = IF command \in {1, 3} THEN Append(oldIs, r.draws) ELSE backIs
              /\ latched' = IF command \in {1, 3} THEN [controls EXCEPT !.command = command]
                            ELSE latched
              /\ controls' = [controls EXCEPT !.command = 0]
              /\ ram' = ram
    BY <1>2, UpdateDoes
  <2>2. controls' \in Replay!Controls /\ latched' \in Replay!Controls
    <3>1. PICK c \in Replay!Controls, l \in Replay!Controls : c = controls /\ l = latched
      BY DEF SpriteInv
    <3>2. PICK p, q : p = [c EXCEPT !.command = 0] /\ q = [c EXCEPT !.command = command]
      OBVIOUS
    <3>0. command \in 0 .. 3
      BY <2>1
    <3>3. p \in Replay!Controls /\ q \in Replay!Controls
      BY <3>0, <3>2 DEF Replay!Controls
    <3>4. controls' = p /\ latched' \in {q, l}
      BY <2>1, <3>1, <3>2
    <3> QED BY <3>1, <3>3, <3>4
  <2>3. IsBuffer(front') /\ IsBuffer(back')
    BY <2>1 DEF SpriteInv
  <2>4. Append(oldIs, r.draws) \in Seq(Seq(Jobs))
    BY <2>1, AppendProperties
  <2>5. frontIs' \in Seq(Seq(Jobs)) /\ backIs' \in Seq(Seq(Jobs))
    BY <2>1, <2>4 DEF SpriteInv
  <2> QED BY <1>2, <2>1, <2>2, <2>3, <2>5 DEF SpriteInv, IsBuffer
<1>3. ASSUME unit = "sprites", Replay!run_event, unit' = unit PROVE SpriteInv'
  <2>1. ram' = ram /\ controls' = controls
    BY <1>3 DEF Replay!run_event
  <2>2. PICK r : r = Replay!walk(back, ram, latched)
    OBVIOUS
  <2>3. IsBuffer(r.fb) /\ r.draws \in Seq(Jobs)
    BY <1>3, <2>2, WalkYields DEF SpriteInv
  <2>4. Append(backIs, r.draws) \in Seq(Seq(Jobs))
    BY <2>3, AppendProperties DEF SpriteInv
  <2>5. CASE /\ back' = r.fb /\ backIs' = Append(backIs, r.draws)
             /\ UNCHANGED <<front, frontIs, selected, latched>>
    BY <1>3, <2>1, <2>3, <2>4, <2>5 DEF SpriteInv, IsBuffer
  <2>6. CASE front' = Replay!Blank /\ frontIs' = <<>> /\ UNCHANGED <<back, backIs, selected, latched>>
    <3>1. IsBuffer(front') /\ IsBuffer(back')
      BY <2>6, BlankIsBuffer DEF SpriteInv
    <3>2. frontIs' \in Seq(Seq(Jobs)) /\ backIs' \in Seq(Seq(Jobs))
      BY <2>6 DEF SpriteInv
    <3> QED BY <1>3, <2>1, <2>6, <3>1, <3>2 DEF SpriteInv, IsBuffer
  <2>7. CASE /\ front' = back /\ back' = front /\ frontIs' = backIs /\ backIs' = frontIs
             /\ latched' = controls
    BY <1>3, <2>1, <2>7 DEF SpriteInv, IsBuffer
  <2> QED BY <1>3, <2>2, <2>5, <2>6, <2>7 DEF Replay!run_event, Replay!render_list
<1>4. ASSUME unit = "sprites", Replay!write_control \/ Replay!WriteList, unit' = unit PROVE SpriteInv'
  <2>1. Settings \subseteq Replay!Controls /\ Rewrites \subseteq Replay!Prepared
    BY WorkbenchAssumption DEF Replay!SpriteAssumption, Replay!Prepared
  <2>2. UNCHANGED <<latched, front, back, frontIs, backIs>>
        /\ controls' \in Settings \cup {controls} /\ ram' \in Rewrites \cup {ram}
    BY <1>4 DEF Replay!write_control, Replay!WriteList, Replay!buffers, Replay!ghosts
  <2> QED BY <1>4, <2>1, <2>2 DEF SpriteInv, IsBuffer
<1>5. CASE Replaying
  <2>1. unit = "sprites" /\ unit' = unit /\
        (Replay!vblank \/ Replay!run_event \/ Replay!write_control \/ Replay!WriteList)
    BY <1>5 DEF Replaying, Replay!ReplayNext, Replay!Captured, Replay!Uncaptured
  <2> QED BY <1>2, <1>3, <1>4, <2>1
<1>6. CASE Converging \/ Releasing \/ Identifying \/ FetchingDonors \/ Mixing
  BY <1>1, <1>6 DEF Converging, Releasing, Identifying, FetchingDonors, Mixing
<1>7. CASE UNCHANGED benchVars
  BY <1>1, <1>7 DEF benchVars
<1> QED BY <1>5, <1>6, <1>7 DEF BenchNext

THEOREM SpriteInvariant == BenchSpec => []SpriteInv
<1>1. SpriteInv /\ [BenchNext]_benchVars => SpriteInv'
  BY SpriteInvNext
<1> QED BY SpriteInvInit, <1>1, PTL DEF BenchSpec

-----------------------------------------------------------------------------
(***************************************************************************)
(* A captured frame: the fixture m is that of the update, and a walk reads *)
(* nothing of the registers that the capture changes.                      *)
(***************************************************************************)
Fixture(list, l, fb) == [controls |-> l, latched |-> l, sprite_ram |-> list, back_fb |-> fb]

Bads == {{}, {<<0, 0>>}, {<<Narrow - 1, Height - 1>>}}

IsFrame(list, l, fb, oldIs, bad) ==
    /\ list \in Replay!Prepared /\ l \in Replay!Controls /\ IsBuffer(fb)
    /\ oldIs \in Seq(Seq(Jobs)) /\ bad \in Bads

LEMMA WalkReadsTwo ==
    ASSUME NEW fb, NEW list, NEW l, NEW c, l.wide = c.wide, l.shadows = c.shadows
    PROVE  Replay!walk(fb, list, l) = Replay!walk(fb, list, c)
BY DEF Replay!walk

LEMMA CapturedFrame ==
    ASSUME SpriteInv, unit = "sprites", Replay!Captured, shot' # NoShot, shot'.captured
    PROVE  \E list, l, fb, oldIs, bad, r :
              /\ IsFrame(list, l, fb, oldIs, bad)
              /\ r = Replay!walk(fb, list, l)
              /\ back' = r.fb /\ backIs' = Append(oldIs, r.draws)
              /\ shot'.replayed = Replay!run_oracle(Fixture(list, l, fb))
              /\ shot'.audited = Replay!audit(list)
              /\ shot'.bad = bad
              /\ shot'.match <=> Replay!match(Fixture(list, l, fb), bad)
<1>1. PICK command, old, oldIs, r :
              /\ command \in 0 .. 3
              /\ command = IF ~controls.manual /\ render_count = 0 THEN 3 ELSE controls.command
              /\ old = (IF command \in {2, 3} THEN Replay!Blank ELSE front) /\ IsBuffer(old)
              /\ oldIs = (IF command \in {2, 3} THEN <<>> ELSE frontIs) /\ oldIs \in Seq(Seq(Jobs))
              /\ r = Replay!walk(old, ram, controls) /\ IsBuffer(r.fb) /\ r.draws \in Seq(Jobs)
              /\ front' = IF command \in {1, 3} THEN back ELSE old
              /\ back' = IF command \in {1, 3} THEN r.fb ELSE back
              /\ frontIs' = IF command \in {1, 3} THEN backIs ELSE oldIs
              /\ backIs' = IF command \in {1, 3} THEN Append(oldIs, r.draws) ELSE backIs
              /\ latched' = IF command \in {1, 3} THEN [controls EXCEPT !.command = command]
                            ELSE latched
              /\ controls' = [controls EXCEPT !.command = 0]
              /\ ram' = ram
  BY UpdateDoes DEF Replay!Captured
<1>2. PICK list \in Replay!Prepared, c \in Replay!Controls : list = ram /\ c = controls
  BY DEF SpriteInv
<1>3. PICK l : l = [c EXCEPT !.command = 0]
  OBVIOUS
<1>4. l \in Replay!Controls /\ l.wide = c.wide /\ l.shadows = c.shadows
  BY <1>3 DEF Replay!Controls
<1>5. PICK m : m = Replay!postprocess
  OBVIOUS
<1>6. PICK bad \in Bads :
          shot' = [captured |-> m # NoShot,
                   replayed |-> IF m = NoShot THEN <<>> ELSE Replay!run_oracle(m),
                   audited |-> Replay!audit(list),
                   bad |-> bad,
                   match |-> m # NoShot /\ Replay!match(m, bad)]
  BY <1>2, <1>5 DEF Replay!Captured, Bads
<1>7. m # NoShot
  BY <1>6
<1>8. Replay!controller_command(controls, render_count) \in {1, 3}
      /\ m = [controls |-> l, latched |-> l, sprite_ram |-> list,
              back_fb |-> IF Replay!controller_command(controls, render_count) = 3
                          THEN Replay!Blank ELSE front]
  BY <1>2, <1>3, <1>5, <1>7 DEF Replay!postprocess, Replay!replay_controls
<1>9. command \in {1, 3} /\ command = Replay!controller_command(controls, render_count)
  BY <1>1, <1>8 DEF Replay!controller_command
<1>10. old = IF command = 3 THEN Replay!Blank ELSE front
  BY <1>1, <1>9
<1>11. m = Fixture(list, l, old)
  BY <1>8, <1>9, <1>10 DEF Fixture
<1>12. r = Replay!walk(old, list, l)
  BY <1>1, <1>2, <1>4, WalkReadsTwo
<1>13. back' = r.fb /\ backIs' = Append(oldIs, r.draws)
  BY <1>1, <1>9
<1>14. IsFrame(list, l, old, oldIs, bad)
  BY <1>1, <1>4 DEF IsFrame
<1>15. /\ shot'.replayed = Replay!run_oracle(m) /\ shot'.audited = Replay!audit(list)
       /\ shot'.bad = bad /\ (shot'.match <=> Replay!match(m, bad))
  BY <1>6, <1>7
<1> QED BY <1>11, <1>12, <1>13, <1>14, <1>15

LEMMA OthersKeepShot ==
    ASSUME SpriteInv, [BenchNext]_benchVars, ~(unit = "sprites" /\ Replay!Captured)
    PROVE  shot' = NoShot \/ UNCHANGED spriteVars
<1>1. CASE Replaying
  BY <1>1 DEF Replaying, Replay!ReplayNext, Replay!Uncaptured
<1>2. CASE Converging \/ Releasing \/ Identifying \/ FetchingDonors \/ Mixing
  BY <1>2 DEF Converging, Releasing, Identifying, FetchingDonors, Mixing
<1>3. CASE UNCHANGED benchVars
  BY <1>3 DEF benchVars
<1> QED BY <1>1, <1>2, <1>3 DEF BenchNext

\* A captured frame, replayed with the reference, is the one the controller draws
\* at that update.
THEOREM FramesReplay == BenchSpec => []ReplayFaithful
<1>1. BenchInit => ReplayFaithful
  BY DEF BenchInit, ReplayFaithful, Replay!ReplayFaithful
<1>2. SpriteInv /\ ReplayFaithful /\ [BenchNext]_benchVars => ReplayFaithful'
  <2> SUFFICES ASSUME SpriteInv, ReplayFaithful, [BenchNext]_benchVars,
                      shot' # NoShot, shot'.captured
               PROVE  shot'.replayed = back'
    BY DEF ReplayFaithful, Replay!ReplayFaithful
  <2>1. CASE unit = "sprites" /\ Replay!Captured
    <3>1. PICK list, l, fb, oldIs, bad, r :
              /\ r = Replay!walk(fb, list, l) /\ back' = r.fb
              /\ shot'.replayed = Replay!run_oracle(Fixture(list, l, fb))
      BY <2>1, CapturedFrame
    <3>2. Replay!run_oracle(Fixture(list, l, fb)) = Replay!walk(fb, list, l).fb
      BY DEF Replay!run_oracle, Fixture
    <3> QED BY <3>1, <3>2
  <2>2. CASE ~(unit = "sprites" /\ Replay!Captured)
    <3>1. UNCHANGED spriteVars
      BY <2>2, OthersKeepShot
    <3> QED BY <3>1 DEF spriteVars, ReplayFaithful, Replay!ReplayFaithful
  <2> QED BY <2>1, <2>2
<1> QED BY SpriteInvariant, <1>1, <1>2, PTL DEF BenchSpec

-----------------------------------------------------------------------------
(***************************************************************************)
(* The verdict: the flips undo themselves on the visible cells, so that    *)
(* the RTL is given the buffer of the frame, and a wrong pixel differs.    *)
(***************************************************************************)
LEMMA FlipFlips ==
    ASSUME NEW width \in 1 .. Storage, NEW c \in Replay!Controls,
           NEW cell \in Replay!Visible(width)
    PROVE  /\ Replay!Flipped(cell, width, c) \in Replay!Visible(width)
           /\ Replay!Flipped(Replay!Flipped(cell, width, c), width, c) = cell
           /\ ~c.flip_x /\ ~c.flip_y => Replay!Flipped(cell, width, c) = cell
<1>1. PICK x \in 0 .. Storage - 1, y \in 0 .. Height - 1 : cell = <<x, y>> /\ x < width
  BY DEF Replay!Visible, Replay!Cells
<1>2. PICK u, v : /\ u = IF c.flip_x THEN width - 1 - x ELSE x
                  /\ v = IF c.flip_y THEN Height - 1 - y ELSE y
  OBVIOUS
<1>3. /\ u \in 0 .. Storage - 1 /\ u < width /\ v \in 0 .. Height - 1
      /\ x = IF c.flip_x THEN width - 1 - u ELSE u
      /\ y = IF c.flip_y THEN Height - 1 - v ELSE v
  BY <1>1, <1>2, Sizes
<1>4. Replay!Flipped(cell, width, c) = <<u, v>>
  BY <1>1, <1>2 DEF Replay!Flipped
<1>5. Replay!Flipped(<<u, v>>, width, c) = <<x, y>>
  BY <1>3 DEF Replay!Flipped
<1>6. <<u, v>> \in Replay!Visible(width)
  BY <1>3 DEF Replay!Visible, Replay!Cells
<1> QED BY <1>1, <1>2, <1>4, <1>5, <1>6

LEMMA WrongDiffers == ASSUME NEW pixel PROVE Replay!Wrong(pixel) # pixel
<1>1. [Replay!NoPixel EXCEPT !.top = FALSE] # Replay!NoPixel
  BY DEF Replay!NoPixel
<1> QED BY <1>1 DEF Replay!Wrong

LEMMA BadIsVisible ==
    ASSUME NEW width \in Nat, Narrow <= width, NEW bad \in Bads
    PROVE  bad \subseteq Replay!Visible(width)
BY Sizes DEF Bads, Replay!Visible, Replay!Cells

\* What the RTL starts from is the buffer of the frame.
LEMMA GivenIsBuffer ==
    ASSUME NEW width \in 1 .. Storage, NEW l \in Replay!Controls, NEW fb, IsBuffer(fb),
           NEW initial, initial = Replay!rtl_storage_initial(fb, width, l)
    PROVE  [cell \in Replay!Cells |-> IF cell \in Replay!Visible(width)
                THEN initial[Replay!Flipped(cell, width, l)] ELSE initial[cell]] = fb
<1>1. \A cell \in Replay!Visible(width) :
          cell \in Replay!Cells /\ initial[cell] = fb[Replay!Flipped(cell, width, l)]
  BY DEF Replay!rtl_storage_initial, Replay!active_scanout, Replay!Visible
<1>2. \A cell \in Replay!Cells : cell \notin Replay!Visible(width) => initial[cell] = fb[cell]
  BY DEF Replay!rtl_storage_initial
<1>3. ASSUME NEW cell \in Replay!Cells
      PROVE  (IF cell \in Replay!Visible(width)
              THEN initial[Replay!Flipped(cell, width, l)] ELSE initial[cell]) = fb[cell]
  <2>1. CASE cell \in Replay!Visible(width)
    <3>1. PICK other \in Replay!Visible(width) :
              other = Replay!Flipped(cell, width, l) /\ Replay!Flipped(other, width, l) = cell
      BY <2>1, FlipFlips
    <3>2. initial[other] = fb[cell]
      BY <1>1, <3>1
    <3> QED BY <2>1, <3>1, <3>2
  <2>2. CASE cell \notin Replay!Visible(width)
    BY <1>2, <2>2
  <2> QED BY <2>1, <2>2
<1> QED BY <1>3 DEF IsBuffer

LEMMA MatchRight ==
    ASSUME NEW list, NEW l, NEW fb, NEW oldIs, NEW bad, IsFrame(list, l, fb, oldIs, bad)
    PROVE  Replay!match(Fixture(list, l, fb), bad) <=> bad = {}
<1> DEFINE m == Fixture(list, l, fb)
<1>1. list \in Replay!Prepared /\ l \in Replay!Controls /\ IsBuffer(fb) /\ bad \in Bads
  BY DEF IsFrame
<1>2. PICK width \in 1 .. Storage : width = (IF l.wide THEN Wide ELSE Narrow) /\ Narrow <= width
  BY Sizes
<1>3. PICK p : p = Replay!walk(fb, list, l).fb
  OBVIOUS
<1>4. IsBuffer(p)
  BY <1>1, <1>3, WalkYields
<1>5. Replay!run_oracle(m) = p /\ m.latched = l /\ m.back_fb = fb
  BY <1>3 DEF Replay!run_oracle, Fixture
<1>6. PICK initial : initial = Replay!rtl_storage_initial(fb, width, l)
  OBVIOUS
<1>7. PICK given : given = [cell \in Replay!Cells |-> IF cell \in Replay!Visible(width)
                THEN initial[Replay!Flipped(cell, width, l)] ELSE initial[cell]]
  OBVIOUS
<1>8. given = fb
  BY <1>1, <1>6, <1>7, GivenIsBuffer
<1>9. Replay!run_oracle([m EXCEPT !.back_fb = given]) = p
  <2>1. [m EXCEPT !.back_fb = fb] = m
    BY DEF Fixture
  <2> QED BY <1>5, <1>8, <2>1
<1>10. PICK right : right = [cell \in Replay!Cells |-> IF cell \in Replay!Visible(width)
                THEN p[Replay!Flipped(cell, width, l)] ELSE p[cell]]
  OBVIOUS
<1>11. PICK actual : actual = [cell \in Replay!Cells |-> IF cell \in bad
                THEN Replay!Wrong(right[cell]) ELSE right[cell]]
  OBVIOUS
<1>12. Replay!Rtl(m, width, initial, bad) = actual
  BY <1>5, <1>7, <1>9, <1>10, <1>11 DEF Replay!Rtl
<1> HIDE DEF m
<1>13. Replay!match(m, bad) <=>
          /\ Replay!active_scanout(p, width, l) = Replay!active_crop(actual, width)
          /\ l.flip_x \/ l.flip_y \/ p = actual
  BY <1>2, <1>5, <1>6, <1>12 DEF Replay!match
<1>14. Replay!active_scanout(p, width, l) =
          [cell \in Replay!Visible(width) |-> p[Replay!Flipped(cell, width, l)]]
  BY DEF Replay!active_scanout
<1>15. Replay!active_crop(actual, width) = [cell \in Replay!Visible(width) |-> actual[cell]]
  BY DEF Replay!active_crop
<1>16. \A cell \in Replay!Visible(width) :
          cell \in Replay!Cells /\ right[cell] = p[Replay!Flipped(cell, width, l)]
  BY <1>10 DEF Replay!Visible
<1>17. CASE bad = {}
  <2>1. actual = right
    BY <1>10, <1>11, <1>17
  <2>2. Replay!active_scanout(p, width, l) = Replay!active_crop(actual, width)
    BY <1>14, <1>15, <1>16, <2>1
  <2>3. ASSUME ~l.flip_x, ~l.flip_y PROVE p = actual
    <3>1. \A cell \in Replay!Visible(width) : Replay!Flipped(cell, width, l) = cell
      BY <1>1, <2>3, FlipFlips
    <3>2. \A cell \in Replay!Cells : right[cell] = p[cell]
      BY <1>10, <3>1
    <3> QED BY <1>4, <1>10, <2>1, <3>2 DEF IsBuffer
  <2> QED BY <1>13, <1>17, <2>2, <2>3 DEF m
<1>18. CASE bad # {}
  <2>1. PICK cell \in bad : cell \in Replay!Visible(width)
    BY <1>1, <1>2, <1>18, BadIsVisible
  <2>2. actual[cell] = Replay!Wrong(right[cell]) /\ right[cell] = p[Replay!Flipped(cell, width, l)]
    BY <1>11, <1>16, <2>1
  <2>3. actual[cell] # p[Replay!Flipped(cell, width, l)]
    BY <2>2, WrongDiffers
  <2>4. Replay!active_scanout(p, width, l) # Replay!active_crop(actual, width)
    <3>1. Replay!active_scanout(p, width, l)[cell] = p[Replay!Flipped(cell, width, l)]
      BY <1>14, <2>1
    <3>2. Replay!active_crop(actual, width)[cell] = actual[cell]
      BY <1>15, <2>1
    <3> QED BY <2>3, <3>1, <3>2
  <2> QED BY <1>13, <1>18, <2>4 DEF m
<1> QED BY <1>17, <1>18

\* The verdict on the RTL tells whether any visible pixel is wrong, however the
\* picture is flipped, and the audit names the sprites that were drawn.
THEOREM VerdictsAreRight == BenchSpec => []VerdictRight
<1>1. BenchInit => VerdictRight
  BY DEF BenchInit, VerdictRight, Replay!VerdictRight
<1>2. SpriteInv /\ VerdictRight /\ [BenchNext]_benchVars => VerdictRight'
  <2> SUFFICES ASSUME SpriteInv, VerdictRight, [BenchNext]_benchVars
               PROVE  VerdictRight'
    OBVIOUS
  <2>1. CASE unit = "sprites" /\ Replay!Captured
    <3> SUFFICES ASSUME shot' # NoShot, shot'.captured
                 PROVE  /\ shot'.match <=> shot'.bad = {}
                        /\ shot'.audited = [k \in DOMAIN backIs'[Len(backIs')] |->
                                                backIs'[Len(backIs')][k].n]
      BY DEF VerdictRight, Replay!VerdictRight
    <3>1. PICK list, l, fb, oldIs, bad, r :
              /\ IsFrame(list, l, fb, oldIs, bad)
              /\ r = Replay!walk(fb, list, l)
              /\ back' = r.fb /\ backIs' = Append(oldIs, r.draws)
              /\ shot'.replayed = Replay!run_oracle(Fixture(list, l, fb))
              /\ shot'.audited = Replay!audit(list)
              /\ shot'.bad = bad
              /\ shot'.match <=> Replay!match(Fixture(list, l, fb), bad)
      BY <2>1, CapturedFrame
    <3>2. Replay!match(Fixture(list, l, fb), bad) <=> bad = {}
      BY <3>1, MatchRight
    <3>3. PICK draws : draws = r.draws
      OBVIOUS
    <3>4. draws \in Seq(Jobs) /\ Replay!audit(list) = [k \in DOMAIN draws |-> draws[k].n]
      BY <3>1, <3>3, WalkYields, AuditAgrees DEF IsFrame
    <3>5. backIs'[Len(backIs')] = draws
      <4>1. oldIs \in Seq(Seq(Jobs)) /\ backIs' = Append(oldIs, draws)
        BY <3>1, <3>3 DEF IsFrame
      <4>2. Len(Append(oldIs, draws)) = Len(oldIs) + 1 /\ Append(oldIs, draws)[Len(oldIs) + 1] = draws
        BY <3>4, <4>1, AppendProperties
      <4> QED BY <4>1, <4>2
    <3> QED BY <3>1, <3>2, <3>4, <3>5
  <2>2. CASE ~(unit = "sprites" /\ Replay!Captured)
    <3>1. shot' = NoShot \/ UNCHANGED spriteVars
      BY <2>2, OthersKeepShot
    <3> QED BY <3>1 DEF spriteVars, VerdictRight, Replay!VerdictRight
  <2> QED BY <2>1, <2>2
<1> QED BY SpriteInvariant, <1>1, <1>2, PTL DEF BenchSpec

-----------------------------------------------------------------------------
(***************************************************************************)
(* The drawing of one sprite is its definition.  First the definition, by  *)
(* rows and columns counted in the direction of the drawing.               *)
(***************************************************************************)
IsJob(j) ==
    /\ j.d \in Commands /\ j.d.command = "draw" /\ Replay!WellFormed(j.d)
    /\ j.wide \in BOOLEAN /\ j.clipin \in Windows(j.wide) /\ j.clipout \in Replay!Rects
    /\ j.xoffs \in Int /\ j.yoffs \in Int

InClips(j, x, y) ==
    /\ j.clipin.x0 <= x /\ x <= j.clipin.x1
    /\ ~(/\ j.clipout.x0 <= x /\ x <= j.clipout.x1
         /\ j.clipout.y0 <= y /\ y <= j.clipout.y1)

Across(j) == Replay!zoom(WordPixels * j.d.words, j.d.dest_width)
Down(j) == Replay!zoom(j.d.source_height, j.d.dest_height)

\* What a row makes of the pixel in its column c, at <<x, y>>.
InRow(j, address, c, x, y, old) ==
    IF InClips(j, x, y) /\ ~Replay!Closed(j.d, address, (c * Across(j)) \div Replay!Unit)
    THEN Replay!Becomes(j, Replay!Code(j.d, address, (c * Across(j)) \div Replay!Unit),
                 ((c * Across(j)) \div Replay!Unit) % WordPixels, old)
    ELSE old

Line(j, k) == j.d.address + j.d.words * ((k * Down(j)) \div Replay!Unit)

HasSize(j) == 0 \notin {j.d.words, j.d.source_height, j.d.dest_width, j.d.dest_height}

LeastX(j) == Replay!placed(j.d.x, j.d.offset_x, j.xoffs, j.d.adjust_x, j.d.dest_width)
LeastY(j) == Replay!placed(j.d.y, j.d.offset_y, j.yoffs, j.d.adjust_y, j.d.dest_height)

FirstX(j) == IF j.d.flip_x THEN LeastX(j) + j.d.dest_width - 1 ELSE LeastX(j)
FirstY(j) == IF j.d.flip_y THEN LeastY(j) + j.d.dest_height - 1 ELSE LeastY(j)

Column(j, x0, x) == IF j.d.flip_x THEN x0 - x ELSE x - x0
Row(j, y0, y) == IF j.d.flip_y THEN y0 - y ELSE y - y0

LEMMA JobTypes ==
    ASSUME NEW j, IsJob(j)
    PROVE  /\ j.d.words \in Nat /\ j.d.source_height \in Nat /\ j.d.dest_width \in Nat
           /\ j.d.dest_height \in Nat /\ j.d.address \in Nat
           /\ j.d.x \in Int /\ j.d.y \in Int /\ j.d.adjust_x \in 0 .. 3 /\ j.d.adjust_y \in 0 .. 3
           /\ j.clipin \in Replay!Rects
           /\ j.clipin.x0 \in Int /\ j.clipin.x1 \in Int /\ j.clipin.y0 \in Int /\ j.clipin.y1 \in Int
           /\ j.clipout.x0 \in Int /\ j.clipout.x1 \in Int
           /\ j.clipout.y0 \in Int /\ j.clipout.y1 \in Int
           /\ j.clipin.x0 >= 0 /\ j.clipin.x1 < (IF j.wide THEN Wide ELSE Narrow)
           /\ j.clipin.y0 >= 0 /\ j.clipin.y1 < Height
<1>1. j.clipin \in Windows(j.wide) /\ j.clipout \in Replay!Rects /\ Replay!WellFormed(j.d)
      /\ j.d.command = "draw"
  BY DEF IsJob
<1>2. /\ j.clipin \in Replay!Rects
      /\ j.clipin.x0 >= 0 /\ j.clipin.x1 < (IF j.wide THEN Wide ELSE Narrow)
      /\ j.clipin.y0 >= 0 /\ j.clipin.y1 < Height
  BY <1>1 DEF Windows
<1>3. \A r \in Replay!Rects : r.x0 \in Int /\ r.x1 \in Int /\ r.y0 \in Int /\ r.y1 \in Int
  BY DEF Replay!Rects
<1>4. /\ j.d.words \in Nat /\ j.d.source_height \in Nat /\ j.d.dest_width \in Nat
      /\ j.d.dest_height \in Nat /\ j.d.address \in Nat
      /\ j.d.x \in Int /\ j.d.y \in Int /\ j.d.adjust_x \in 0 .. 3 /\ j.d.adjust_y \in 0 .. 3
  BY <1>1 DEF Replay!WellFormed
<1> QED BY <1>1, <1>2, <1>3, <1>4

LEMMA PlacedInt ==
    ASSUME NEW at \in Int, NEW offset, NEW offs \in Int, NEW adjust \in 0 .. 3,
           NEW size \in Nat \ {0}
    PROVE  Replay!placed(at, offset, offs, adjust, size) \in Int
<1>1. size - 1 \in Nat
  OBVIOUS
<1>2. (size - 1) \div 2 \in Int
  BY <1>1
<1> QED BY <1>1, <1>2 DEF Replay!placed

LEMMA FirstInt ==
    ASSUME NEW j, IsJob(j), HasSize(j)
    PROVE  FirstX(j) \in Int /\ FirstY(j) \in Int /\ LeastX(j) \in Int /\ LeastY(j) \in Int
<1>1. j.d.dest_width \in Nat \ {0} /\ j.d.dest_height \in Nat \ {0} /\ j.xoffs \in Int /\ j.yoffs \in Int
  BY JobTypes DEF HasSize, IsJob
<1>2. LeastX(j) \in Int /\ LeastY(j) \in Int
  BY <1>1, JobTypes, PlacedInt DEF LeastX, LeastY
<1> QED BY <1>1, <1>2 DEF FirstX, FirstY

LEMMA ZoomNat ==
    ASSUME NEW source \in Nat, NEW dest \in Nat \ {0}
    PROVE  /\ Replay!zoom(source, dest) \in Nat
           /\ dest * Replay!zoom(source, dest) <= source * Replay!Unit
<1>1. PICK n \in Nat : n = source * Replay!Unit
  BY DEF Replay!Unit
<1>2. n % dest \in 0 .. dest - 1 /\ n \div dest \in Nat /\ n = dest * (n \div dest) + (n % dest)
  BY Divides
<1>3. PICK q \in Nat, r \in 0 .. dest - 1 : q = n \div dest /\ n = dest * q + r
  BY <1>2
<1>4. dest * q <= n
  <2>1. PICK p \in Nat : p = dest * q
    OBVIOUS
  <2> QED BY <1>3, <2>1
<1> QED BY <1>1, <1>3, <1>4 DEF Replay!zoom

\* The definition in these terms.
LEMMA IdealIs ==
    ASSUME NEW j, IsJob(j), NEW cell, NEW old, NEW x, NEW y, x = cell[1], y = cell[2],
           x \in Int, y \in Int
    PROVE  Replay!Ideal(j, cell, old) =
              IF /\ HasSize(j)
                 /\ Column(j, FirstX(j), x) \in 0 .. j.d.dest_width - 1
                 /\ Row(j, FirstY(j), y) \in 0 .. j.d.dest_height - 1
                 /\ j.clipin.y0 <= y /\ y <= j.clipin.y1
              THEN InRow(j, Line(j, Row(j, FirstY(j), y)), Column(j, FirstX(j), x), x, y, old)
              ELSE old
<1>1. CASE ~HasSize(j)
  BY <1>1 DEF HasSize, Replay!Ideal
<1>2. CASE HasSize(j)
  <2>1. LeastX(j) = Replay!Least(j.d.x, j.d.offset_x, j.xoffs, j.d.adjust_x, j.d.dest_width)
    BY JobTypes DEF LeastX, Replay!placed, Replay!Least
  <2>2. LeastY(j) = Replay!Least(j.d.y, j.d.offset_y, j.yoffs, j.d.adjust_y, j.d.dest_height)
    BY JobTypes DEF LeastY, Replay!placed, Replay!Least
  <2>3. PICK c \in Int : c = Column(j, FirstX(j), x)
    BY <1>2, FirstInt DEF Column
  <2>4. PICK r \in Int : r = Row(j, FirstY(j), y)
    BY <1>2, FirstInt DEF Row
  <2>5. c = IF j.d.flip_x THEN LeastX(j) + j.d.dest_width - 1 - x ELSE x - LeastX(j)
    BY <1>2, <2>3, FirstInt, JobTypes DEF Column, FirstX
  <2>6. r = IF j.d.flip_y THEN LeastY(j) + j.d.dest_height - 1 - y ELSE y - LeastY(j)
    BY <1>2, <2>4, FirstInt, JobTypes DEF Row, FirstY
  <2>7. PICK i, line :
          /\ i = (c * Across(j)) \div Replay!Unit
          /\ line = j.d.address + j.d.words * ((r * Down(j)) \div Replay!Unit)
    OBVIOUS
  <2>8. PICK inside : inside \in BOOLEAN /\ (inside <=>
           /\ c \in 0 .. j.d.dest_width - 1 /\ r \in 0 .. j.d.dest_height - 1
           /\ x \in j.clipin.x0 .. j.clipin.x1 /\ y \in j.clipin.y0 .. j.clipin.y1
           /\ ~(x \in j.clipout.x0 .. j.clipout.x1 /\ y \in j.clipout.y0 .. j.clipout.y1)
           /\ x < (IF j.wide THEN Wide ELSE Narrow))
    OBVIOUS
  <2>9. Replay!Ideal(j, cell, old) =
          IF ~inside \/ Replay!Closed(j.d, line, i) THEN old
          ELSE Replay!Becomes(j, Replay!Code(j.d, line, i), i % WordPixels, old)
    BY <1>2, <2>1, <2>2, <2>5, <2>6, <2>7, <2>8
       DEF Replay!Ideal, HasSize, Across, Down, Replay!zoom
  <2>10. inside <=> /\ c \in 0 .. j.d.dest_width - 1 /\ r \in 0 .. j.d.dest_height - 1
                    /\ j.clipin.y0 <= y /\ y <= j.clipin.y1 /\ InClips(j, x, y)
    <3>1. PICK a \in Int, b \in Int, e \in Int, f \in Int :
              /\ a = j.clipin.x0 /\ b = j.clipin.x1 /\ e = j.clipin.y0 /\ f = j.clipin.y1
              /\ b < (IF j.wide THEN Wide ELSE Narrow)
      BY JobTypes
    <3>2. PICK g \in Int, h \in Int, k \in Int, l \in Int :
              g = j.clipout.x0 /\ h = j.clipout.x1 /\ k = j.clipout.y0 /\ l = j.clipout.y1
      BY JobTypes
    <3>3. PICK width \in Nat : width = IF j.wide THEN Wide ELSE Narrow
      BY Sizes
    <3> QED BY <2>8, <3>1, <3>2, <3>3 DEF InClips
  <2>11. Line(j, Row(j, FirstY(j), y)) = line
    BY <2>4, <2>7 DEF Line
  <2>12. InRow(j, line, c, x, y, old) =
            IF InClips(j, x, y) /\ ~Replay!Closed(j.d, line, i)
            THEN Replay!Becomes(j, Replay!Code(j.d, line, i), i % WordPixels, old) ELSE old
    BY <2>7 DEF InRow
  <2>13. Replay!Ideal(j, cell, old) = IF inside THEN InRow(j, line, c, x, y, old) ELSE old
    BY <2>9, <2>10, <2>12
  <2> QED BY <1>2, <2>3, <2>4, <2>10, <2>11, <2>12, <2>13
<1> QED BY <1>1, <1>2

\* One pixel of it.
LEMMA PixelIs ==
    ASSUME NEW j, IsJob(j), NEW fb, IsBuffer(fb), NEW x \in Int, NEW y \in Int,
           NEW code, NEW place, NEW after, after = Replay!draw_pixel(j, fb, x, y, code, place),
           j.clipin.y0 <= y, y <= j.clipin.y1
    PROVE  /\ IsBuffer(after)
           /\ \A cell \in Replay!Cells :
                 after[cell] = IF cell = <<x, y>> /\ InClips(j, x, y)
                               THEN Replay!Becomes(j, code, place, fb[cell]) ELSE fb[cell]
<1>1. IsBuffer(after)
  BY PixelKeepsBuffer
<1>2. PICK pixel : pixel = Replay!Colour(j, code, place)
  OBVIOUS
<1>3. Replay!draw_pixel(j, fb, x, y, code, place) =
        IF ~InClips(j, x, y) \/ pixel = <<>> THEN fb
        ELSE [fb EXCEPT ![<<x, y>>] = IF Replay!shadow(j) THEN [@ EXCEPT !.top = FALSE] ELSE pixel[1]]
  BY <1>2, JobTypes DEF Replay!draw_pixel, InClips
<1>4. \A old : Replay!Becomes(j, code, place, old) =
                  IF pixel = <<>> THEN old
                  ELSE IF Replay!shadow(j) THEN [old EXCEPT !.top = FALSE] ELSE pixel[1]
  BY <1>2 DEF Replay!Becomes
<1>5. CASE ~InClips(j, x, y) \/ pixel = <<>>
  BY <1>1, <1>3, <1>4, <1>5
<1>6. CASE InClips(j, x, y) /\ pixel # <<>>
  <2>1. PICK v : v = IF Replay!shadow(j) THEN [fb[<<x, y>>] EXCEPT !.top = FALSE] ELSE pixel[1]
    OBVIOUS
  <2>2. after = [fb EXCEPT ![<<x, y>>] = v]
    BY <1>3, <1>6, <2>1
  <2>3. <<x, y>> \in Replay!Cells => Replay!Becomes(j, code, place, fb[<<x, y>>]) = v
    BY <1>4, <1>6, <2>1
  <2>4. DOMAIN fb = Replay!Cells
    BY DEF IsBuffer
  <2>5. ASSUME NEW cell \in Replay!Cells
        PROVE  after[cell] = IF cell = <<x, y>> THEN v ELSE fb[cell]
    BY <2>2, <2>4
  <2> QED BY <1>1, <1>6, <2>3, <2>5
<1> QED BY <1>5, <1>6

-----------------------------------------------------------------------------
(***************************************************************************)
(* A row: after so many steps c columns are drawn and i codes passed, the  *)
(* accumulator says how far the columns are ahead of the codes.            *)
(***************************************************************************)
IsSpan(j, x0, to, n) ==
    /\ n \in 0 .. j.d.dest_width /\ x0 \in Int
    /\ to = IF j.d.flip_x THEN x0 - n ELSE x0 + n
    /\ n < j.d.dest_width => to = IF j.d.flip_x THEN j.clipin.x0 - 1 ELSE j.clipin.x1 + 1

DrawnTo(j, address, x0, y, c, fb0, fb) ==
    \A cell \in Replay!Cells :
        fb[cell] = IF cell[2] = y /\ Column(j, x0, cell[1]) \in 0 .. c - 1
                   THEN InRow(j, address, Column(j, x0, cell[1]), cell[1], y, fb0[cell])
                   ELSE fb0[cell]

RowAt(j, address, x0, y, n, fb0, k, s, c) ==
    /\ IsRow(s) /\ IsBuffer(s.fb)
    /\ s.i \in Nat /\ s.acc \in Nat
    /\ s.x = IF j.d.flip_x THEN x0 - c ELSE x0 + c
    /\ c * Across(j) = s.acc + s.i * Replay!Unit
    /\ ~Replay!Closed(j.d, address, s.i)
    /\ s.ended => /\ ~j.d.opaque /\ s.acc >= Replay!Unit /\ s.i % WordPixels = WordPixels - 1
                  /\ Replay!Code(j.d, address, s.i) = EndCode
    /\ s.ended \/ c = n \/ c + s.i = k
    /\ DrawnTo(j, address, x0, y, c, fb0, s.fb)

LEMMA WordEnds ==
    ASSUME NEW i \in Nat
    PROVE  /\ i % WordPixels = WordPixels - 1 =>
                 /\ (i + 1) \div WordPixels = (i \div WordPixels) + 1
                 /\ WordPixels * ((i + 1) \div WordPixels) - 1 = i
           /\ i % WordPixels # WordPixels - 1 => (i + 1) \div WordPixels = i \div WordPixels
<1>1. WordPixels \in Nat \ {0}
  BY Sizes
<1>2. i % WordPixels \in 0 .. WordPixels - 1 /\ i \div WordPixels \in Nat
      /\ i = WordPixels * (i \div WordPixels) + (i % WordPixels)
  BY <1>1, Divides
<1>w. PICK w \in Nat \ {0} : w = WordPixels
  BY <1>1
<1>3. PICK q \in Nat, r \in 0 .. w - 1 :
          w = WordPixels /\ q = i \div WordPixels /\ r = i % WordPixels /\ i = w * q + r
  BY <1>2, <1>w
<1>4. CASE r = w - 1
  <2>1. PICK u \in Nat : u = q + 1
    OBVIOUS
  <2>2. w * u = w * q + w
    BY <2>1
  <2>3. PICK k \in Nat : k = i + 1
    OBVIOUS
  <2>4. k = w * u + 0 /\ w * u - 1 = i
    <3>1. PICK a \in Nat, b \in Nat : a = w * q /\ b = w * u
      OBVIOUS
    <3> QED BY <1>3, <1>4, <2>2, <2>3, <3>1
  <2>5. 0 \in 0 .. w - 1
    OBVIOUS
  <2>6. k \div w = u
    BY <2>4, <2>5, QuotientIs
  <2> QED BY <1>3, <1>4, <2>1, <2>3, <2>4, <2>6
<1>5. CASE r # w - 1
  <2>1. PICK k \in Nat, t \in 0 .. w - 1 : k = i + 1 /\ t = r + 1
    BY <1>5
  <2>2. k = w * q + t
    BY <1>3, <2>1
  <2>3. k \div w = q
    BY <2>2, QuotientIs
  <2> QED BY <1>3, <1>5, <2>1, <2>3
<1> QED BY <1>4, <1>5

\* A code passed closes the line only by its last place in a word.
LEMMA PassedOpen ==
    ASSUME NEW d, NEW address, NEW i \in Nat, ~Replay!Closed(d, address, i),
           ~(i % WordPixels = WordPixels - 1 /\ ~d.opaque /\ Replay!Code(d, address, i) = EndCode)
    PROVE  ~Replay!Closed(d, address, i + 1)
<1>1. CASE i % WordPixels = WordPixels - 1
  <2>1. PICK q \in Nat : q = i \div WordPixels
    <3>1. WordPixels \in Nat \ {0}
      BY Sizes
    <3>2. i \div WordPixels \in Nat
      BY <3>1, Divides
    <3> QED BY <3>2
  <2>2. (i + 1) \div WordPixels = q + 1 /\ WordPixels * (q + 1) - 1 = i
    BY <1>1, <2>1, WordEnds
  <2>3. \A k \in 1 .. q + 1 : k \in 1 .. q \/ k = q + 1
    OBVIOUS
  <2> QED BY <1>1, <2>1, <2>2, <2>3 DEF Replay!Closed
<1>2. CASE i % WordPixels # WordPixels - 1
  <2>1. (i + 1) \div WordPixels = i \div WordPixels
    BY <1>2, WordEnds
  <2> QED BY <2>1 DEF Replay!Closed
<1> QED BY <1>1, <1>2

\* An end code that is passed closes the line for all that follows.
LEMMA EndCloses ==
    ASSUME NEW d, NEW address, NEW i \in Nat, NEW m \in Nat, i < m,
           i % WordPixels = WordPixels - 1, ~d.opaque, Replay!Code(d, address, i) = EndCode
    PROVE  Replay!Closed(d, address, m)
<1>3. WordPixels \in Nat \ {0}
  BY Sizes
<1>0. i \div WordPixels \in Nat
  BY <1>3, Divides
<1>1. PICK q \in Nat : q = (i + 1) \div WordPixels /\ q = (i \div WordPixels) + 1
  BY <1>0, WordEnds
<1>2. q >= 1 /\ WordPixels * q - 1 = i
  BY <1>0, <1>1, WordEnds
<1>4. m % WordPixels \in 0 .. WordPixels - 1 /\ m \div WordPixels \in Nat
      /\ m = WordPixels * (m \div WordPixels) + (m % WordPixels)
  BY <1>3, Divides
<1>w. PICK w \in Nat \ {0} : w = WordPixels
  BY <1>3
<1>5. PICK u \in Nat, r \in 0 .. w - 1 :
          w = WordPixels /\ u = m \div WordPixels /\ m = w * u + r
  BY <1>4, <1>w
<1>6. q <= u
  <2> SUFFICES ASSUME u < q PROVE FALSE
    OBVIOUS
  <2>1. PICK g \in Nat : q = u + 1 + g
    <3>1. q - u - 1 \in Nat /\ q = u + 1 + (q - u - 1)
      OBVIOUS
    <3> QED BY <3>1
  <2>2. w * q = w * u + w + w * g
    BY <2>1
  <2>3. w * g \in Nat /\ w * u \in Nat
    OBVIOUS
  <2>4. m < w * q
    BY <1>5, <2>2, <2>3
  <2> QED BY <1>2, <1>5, <2>4
<1>7. q \in 1 .. m \div WordPixels
  BY <1>2, <1>5, <1>6
<1> QED BY <1>2, <1>7 DEF Replay!Closed

LEMMA RowSteps ==
    ASSUME NEW j, IsJob(j), HasSize(j), NEW address, NEW x0, NEW to, NEW n, IsSpan(j, x0, to, n),
           NEW y \in Int, j.clipin.y0 <= y, y <= j.clipin.y1, NEW fb0, NEW k \in Nat,
           NEW c \in 0 .. n, NEW s, RowAt(j, address, x0, y, n, fb0, k, s, c),
           NEW t, t = Replay!row_step(j, y, address, to, s)
    PROVE  \E e \in 0 .. n : RowAt(j, address, x0, y, n, fb0, k + 1, t, e)
<1> DEFINE U == Replay!Unit
<1>1. U \in Nat /\ U > 0 /\ n \in Nat /\ x0 \in Int /\ c \in Nat
  BY JobTypes DEF Replay!Unit, IsSpan
<1>2. PICK z \in Nat : z = Across(j)
  <2>1. WordPixels * j.d.words \in Nat /\ j.d.dest_width \in Nat \ {0}
    BY Sizes, JobTypes DEF HasSize
  <2> QED BY <2>1, ZoomNat DEF Across
<1>3. PICK fb, x, i, acc, ended :
          s = [fb |-> fb, x |-> x, i |-> i, acc |-> acc, ended |-> ended]
  BY DEF RowAt, IsRow
<1>4. /\ IsBuffer(fb) /\ i \in Nat /\ acc \in Nat
      /\ x = (IF j.d.flip_x THEN x0 - c ELSE x0 + c) /\ x \in Int
      /\ c * z = acc + i * U
      /\ ~Replay!Closed(j.d, address, i)
      /\ ended => /\ ~j.d.opaque /\ acc >= U /\ i % WordPixels = WordPixels - 1
                  /\ Replay!Code(j.d, address, i) = EndCode
      /\ ended \/ c = n \/ c + i = k
      /\ DrawnTo(j, address, x0, y, c, fb0, fb)
  BY <1>1, <1>2, <1>3 DEF RowAt
<1>5. x = to <=> c = n
  BY <1>1, <1>4 DEF IsSpan
<1>6. PICK code, place : code = Replay!Code(j.d, address, i) /\ place = i % WordPixels
  OBVIOUS
<1>7. t = IF x = to \/ ended THEN s
          ELSE IF acc < U
               THEN [s EXCEPT !.fb = Replay!draw_pixel(j, fb, x, y, code, place),
                              !.x = x + (IF j.d.flip_x THEN -1 ELSE 1), !.acc = acc + z]
          ELSE IF place = WordPixels - 1 /\ ~j.d.opaque /\ code = EndCode THEN [s EXCEPT !.ended = TRUE]
          ELSE [s EXCEPT !.i = i + 1, !.acc = acc - U]
  BY <1>2, <1>3, <1>6 DEF Replay!row_step, Replay!Code, Replay!advance, Across
<1>8. CASE x = to \/ ended
  <2>1. t = s
    BY <1>7, <1>8
  <2>2. RowAt(j, address, x0, y, n, fb0, k + 1, t, c)
    BY <1>5, <1>8, <2>1, <1>3 DEF RowAt
  <2> QED BY <2>2
<1>9. CASE x # to /\ ~ended /\ acc < U
  <2>1. PICK after : after = Replay!draw_pixel(j, fb, x, y, code, place)
    OBVIOUS
  <2>2. PICK e \in 0 .. n : e = c + 1
    BY <1>1, <1>5, <1>9
  <2>3. PICK x2 \in Int, acc2 \in Nat : x2 = x + (IF j.d.flip_x THEN -1 ELSE 1) /\ acc2 = acc + z
    BY <1>4
  <2>4. t = [fb |-> after, x |-> x2, i |-> i, acc |-> acc2, ended |-> ended]
    BY <1>3, <1>7, <1>9, <2>1, <2>3
  <2>5. IsBuffer(after) /\ \A cell \in Replay!Cells :
            after[cell] = IF cell = <<x, y>> /\ InClips(j, x, y)
                          THEN Replay!Becomes(j, code, place, fb[cell]) ELSE fb[cell]
    BY <1>4, <2>1, PixelIs
  <2>6. (c * Across(j)) \div U = i
    <3>1. U * i = i * U /\ U \in Nat \ {0} /\ acc \in 0 .. U - 1 /\ c * z \in Nat
      BY <1>1, <1>4, <1>9
    <3>2. PICK p \in Nat : p = c * z
      BY <3>1
    <3>3. p = U * i + acc
      BY <1>4, <3>1, <3>2
    <3>4. p \div U = i
      <4> HIDE DEF U
      <4> QED BY <1>4, <3>1, <3>3, QuotientIs
    <3> QED BY <1>2, <3>2, <3>4
  <2>7. \A old : InRow(j, address, c, x, y, old) =
                   IF InClips(j, x, y) THEN Replay!Becomes(j, code, place, old) ELSE old
    BY <1>4, <1>6, <2>6 DEF InRow
  <2>8. DrawnTo(j, address, x0, y, e, fb0, after)
    <3> SUFFICES ASSUME NEW cell \in Replay!Cells
                 PROVE  after[cell] = IF cell[2] = y /\ Column(j, x0, cell[1]) \in 0 .. e - 1
                                      THEN InRow(j, address, Column(j, x0, cell[1]), cell[1], y, fb0[cell])
                                      ELSE fb0[cell]
      BY DEF DrawnTo
    <3>1. PICK u \in Int, v \in Int : cell = <<u, v>>
      BY Sizes DEF Replay!Cells
    <3>2. PICK m \in Int : m = Column(j, x0, u)
      <4>1. x0 - u \in Int /\ u - x0 \in Int
        BY <1>1
      <4>2. Column(j, x0, u) \in Int
        BY <4>1 DEF Column
      <4> QED BY <4>2
    <3>3. fb[cell] = IF v = y /\ m \in 0 .. c - 1 THEN InRow(j, address, m, u, y, fb0[cell]) ELSE fb0[cell]
      BY <1>4, <3>1, <3>2 DEF DrawnTo
    <3>4. m = c <=> u = x
      BY <1>1, <1>4, <3>1, <3>2 DEF Column
    <3>5. m \in 0 .. e - 1 <=> m \in 0 .. c - 1 \/ m = c
      BY <1>1, <2>2, <3>2
    <3>6. CASE v = y /\ m = c
      <4>1. cell = <<x, y>> /\ fb[cell] = fb0[cell]
        BY <3>1, <3>3, <3>4, <3>6
      <4>2. after[cell] = InRow(j, address, c, x, y, fb0[cell])
        BY <2>5, <2>7, <4>1
      <4> QED BY <3>1, <3>2, <3>4, <3>5, <3>6, <4>2
    <3>7. CASE ~(v = y /\ m = c)
      <4>1. after[cell] = fb[cell]
        BY <2>5, <3>1, <3>4, <3>7
      <4> QED BY <3>1, <3>2, <3>3, <3>5, <3>7, <4>1
    <3> QED BY <3>6, <3>7
  <2>9. e * Across(j) = acc2 + i * U
    <3>1. e * z = c * z + z
      BY <1>1, <2>2
    <3>2. PICK p \in Nat, q \in Nat : p = e * z /\ q = c * z
      BY <1>1, <2>2
    <3>3. PICK g \in Nat : g = i * U
      BY <1>1, <1>4
    <3> QED BY <1>2, <1>4, <2>3, <3>1, <3>2, <3>3
  <2>10. x2 = IF j.d.flip_x THEN x0 - e ELSE x0 + e
    BY <1>1, <1>4, <2>2, <2>3
  <2>11. e = n \/ e + i = k + 1
    BY <1>1, <1>4, <1>5, <1>9, <2>2
  <2>12. IsRow(t)
    BY <2>4 DEF IsRow
  <2>13. RowAt(j, address, x0, y, n, fb0, k + 1, t, e)
    BY <1>4, <1>9, <2>3, <2>4, <2>5, <2>8, <2>9, <2>10, <2>11, <2>12 DEF RowAt
  <2> QED BY <2>13
<1>10. CASE x # to /\ ~ended /\ ~(acc < U) /\ place = WordPixels - 1 /\ ~j.d.opaque /\ code = EndCode
  <2>2. t = [fb |-> fb, x |-> x, i |-> i, acc |-> acc, ended |-> TRUE]
    BY <1>3, <1>7, <1>10
  <2>3. IsRow(t)
    BY <2>2 DEF IsRow
  <2>4. acc >= U
    BY <1>1, <1>4, <1>10
  <2>5. i % WordPixels = WordPixels - 1 /\ Replay!Code(j.d, address, i) = EndCode /\ ~j.d.opaque
    BY <1>6, <1>10
  <2>6. /\ t.fb = fb /\ t.x = x /\ t.i = i /\ t.acc = acc /\ t.ended
    BY <2>2
  <2> HIDE DEF U
  <2>7. RowAt(j, address, x0, y, n, fb0, k + 1, t, c)
    BY <1>2, <1>4, <2>3, <2>4, <2>5, <2>6 DEF RowAt, U
  <2> QED BY <2>7
<1>11. CASE x # to /\ ~ended /\ ~(acc < U) /\ ~(place = WordPixels - 1 /\ ~j.d.opaque /\ code = EndCode)
  <2>1. PICK i2 \in Nat, acc2 \in Nat : i2 = i + 1 /\ acc2 = acc - U
    BY <1>1, <1>4, <1>11
  <2>2. t = [fb |-> fb, x |-> x, i |-> i2, acc |-> acc2, ended |-> ended]
    BY <1>3, <1>7, <1>11, <2>1
  <2>3. IsRow(t)
    BY <2>2 DEF IsRow
  <2>4. ~Replay!Closed(j.d, address, i2)
    BY <1>4, <1>6, <1>11, <2>1, PassedOpen
  <2>5. c * Across(j) = acc2 + i2 * U
    <3>1. i2 * U = i * U + U
      BY <1>1, <1>4, <2>1 DEF Replay!Unit
    <3>2. PICK p \in Nat, g \in Nat, h \in Nat : p = c * z /\ g = i * U /\ h = i2 * U
      BY <1>1, <1>4, <2>1
    <3> QED BY <1>1, <1>2, <1>4, <2>1, <3>1, <3>2
  <2>6. c = n \/ c + i2 = k + 1
    BY <1>1, <1>4, <1>11, <2>1
  <2>7. RowAt(j, address, x0, y, n, fb0, k + 1, t, c)
    BY <1>4, <1>11, <2>1, <2>2, <2>3, <2>4, <2>5, <2>6 DEF RowAt
  <2> QED BY <2>7
<1> QED BY <1>8, <1>9, <1>10, <1>11

\* Where nothing more is drawn nothing more is to be drawn.
LEMMA RowEnds ==
    ASSUME NEW j, IsJob(j), HasSize(j), NEW address, NEW x0, NEW to, NEW n, IsSpan(j, x0, to, n),
           NEW y, NEW fb0, NEW k \in Nat, k = j.d.dest_width + WordPixels * j.d.words,
           NEW c \in 0 .. n, NEW s, RowAt(j, address, x0, y, n, fb0, k, s, c),
           NEW m \in c .. j.d.dest_width - 1, NEW x \in Int, m = Column(j, x0, x), NEW old
    PROVE  InRow(j, address, m, x, y, old) = old
<1> DEFINE U == Replay!Unit
<1>1. U \in Nat \ {0} /\ n \in Nat /\ x0 \in Int /\ c \in Nat /\ m \in Nat /\ n <= j.d.dest_width
  BY JobTypes DEF Replay!Unit, IsSpan
<1>2. PICK z \in Nat, dw \in Nat, p \in Nat : z = Across(j) /\ dw = j.d.dest_width /\ p = WordPixels * j.d.words
          /\ dw * z <= p * U
  <2>1. WordPixels * j.d.words \in Nat /\ j.d.dest_width \in Nat \ {0}
    BY Sizes, JobTypes DEF HasSize
  <2>2. Across(j) \in Nat /\ j.d.dest_width * Across(j) <= (WordPixels * j.d.words) * U
    BY <2>1, ZoomNat DEF Across
  <2> QED BY <2>1, <2>2
<1>3. PICK i \in Nat, acc \in Nat : i = s.i /\ acc = s.acc /\ c * z = acc + i * U
  BY <1>2 DEF RowAt
<1> HIDE DEF U
<1>4. CASE s.ended
  <2>1. /\ ~j.d.opaque /\ acc >= U /\ i % WordPixels = WordPixels - 1
        /\ Replay!Code(j.d, address, i) = EndCode
    BY <1>3, <1>4 DEF RowAt, U
  <2>2. PICK g \in Nat : m = c + g
    <3>1. m - c \in Nat /\ m = c + (m - c)
      BY <1>1
    <3> QED BY <3>1
  <2>3. m * z = c * z + g * z
    BY <1>1, <2>2
  <2>4. PICK a \in Nat, b \in Nat, e \in Nat, f \in Nat : a = m * z /\ b = c * z /\ e = g * z /\ f = i * U
    <3>1. m * z \in Nat /\ c * z \in Nat /\ g * z \in Nat /\ i * U \in Nat
      BY <1>1
    <3> QED BY <3>1
  <2>5. a >= f + U
    BY <1>1, <1>3, <2>1, <2>3, <2>4
  <2>6. a % U \in 0 .. U - 1 /\ a \div U \in Nat /\ a = U * (a \div U) + (a % U)
    BY <1>1, Divides
  <2>7. PICK q \in Nat, r \in 0 .. U - 1 : q = a \div U /\ a = U * q + r
    BY <2>6
  <2>8. i < q
    <3> SUFFICES ASSUME q <= i PROVE FALSE
      OBVIOUS
    <3>1. PICK h \in Nat : i = q + h
      <4>1. i - q \in Nat /\ i = q + (i - q)
        OBVIOUS
      <4> QED BY <4>1
    <3>2. i * U = U * q + h * U
      BY <1>1, <3>1
    <3>3. PICK v \in Nat, u \in Nat : v = h * U /\ u = U * q
      BY <1>1
    <3> QED BY <1>1, <2>4, <2>5, <2>7, <3>2, <3>3
  <2>9. Replay!Closed(j.d, address, q)
    BY <2>1, <2>8, EndCloses
  <2>10. (m * Across(j)) \div Replay!Unit = q
    BY <1>2, <2>4, <2>7 DEF U
  <2> QED BY <2>9, <2>10 DEF InRow
<1>5. CASE c = n
  <2>1. n < j.d.dest_width
    BY <1>1, <1>2, <1>5
  <2>2. /\ to = (IF j.d.flip_x THEN x0 - n ELSE x0 + n)
        /\ to = (IF j.d.flip_x THEN j.clipin.x0 - 1 ELSE j.clipin.x1 + 1)
    BY <2>1 DEF IsSpan
  <2>3. PICK a \in Int, b \in Int : a = j.clipin.x0 /\ b = j.clipin.x1
    BY JobTypes
  <2>4. CASE j.d.flip_x
    <3>1. x0 - n = a - 1 /\ m = x0 - x /\ m >= n
      BY <1>1, <1>5, <2>2, <2>3, <2>4 DEF Column
    <3>2. x < a
      BY <1>1, <2>3, <3>1
    <3> QED BY <2>3, <3>2 DEF InRow, InClips
  <2>5. CASE ~j.d.flip_x
    <3>1. x0 + n = b + 1 /\ m = x - x0 /\ m >= n
      BY <1>1, <1>5, <2>2, <2>3, <2>5 DEF Column
    <3>2. x > b
      BY <1>1, <2>3, <3>1
    <3> QED BY <2>3, <3>2 DEF InRow, InClips
  <2> QED BY <2>4, <2>5
<1>6. CASE ~s.ended /\ c # n
  <2>1. c + i = dw + p
    BY <1>2, <1>3, <1>6 DEF RowAt
  <2>2. c < dw /\ i > p
    BY <1>1, <1>2, <1>6, <2>1
  <2>3. PICK g \in Nat, h \in Nat : dw = c + g /\ i = p + h /\ h > 0
    <3>1. dw - c \in Nat /\ i - p \in Nat /\ i - p > 0 /\ dw = c + (dw - c) /\ i = p + (i - p)
      BY <1>1, <2>2
    <3> QED BY <3>1
  <2>4. dw * z = c * z + g * z /\ i * U = p * U + h * U
    BY <1>1, <2>3
  <2>5. PICK a \in Nat, b \in Nat, e \in Nat, f \in Nat, u \in Nat :
            a = dw * z /\ b = c * z /\ e = g * z /\ f = p * U /\ u = h * U
    BY <1>1
  <2>6. u > 0
    BY <1>1, <2>3, <2>5
  <2>7. a <= f /\ b = acc + f + u /\ a = b + e
    BY <1>1, <1>2, <1>3, <2>4, <2>5
  <2> QED BY <2>6, <2>7
<1> QED BY <1>4, <1>5, <1>6

LEMMA RowDrawn ==
    ASSUME NEW j, IsJob(j), HasSize(j), NEW address, NEW x0, NEW to, NEW n, IsSpan(j, x0, to, n),
           NEW y \in Int, j.clipin.y0 <= y, y <= j.clipin.y1, NEW fb0, IsBuffer(fb0),
           NEW after, after = Replay!draw_row(j, fb0, y, address, x0, to)
    PROVE  IsBuffer(after) /\ DrawnTo(j, address, x0, y, j.d.dest_width, fb0, after)
<1>1. PICK total \in Nat : total = j.d.dest_width + WordPixels * j.d.words
  BY Sizes, JobTypes
<1>2. PICK at : /\ at[0] = RowStart(fb0, x0)
                /\ \A k \in 1 .. total : at[k] = Replay!row_step(j, y, address, to, at[k - 1])
                /\ Replay!draw_row(j, fb0, y, address, x0, to) = at[total].fb
  BY <1>1, RowIs
<1> DEFINE S == {k \in 0 .. total : \E c \in 0 .. n : RowAt(j, address, x0, y, n, fb0, k, at[k], c)}
<1>3. 0 \in S
  <2>1. PICK s : s = at[0]
    OBVIOUS
  <2>2. s = [fb |-> fb0, x |-> x0, i |-> 0, acc |-> 0, ended |-> FALSE]
    BY <1>2, <2>1 DEF RowStart
  <2>3. 0 * Across(j) = 0 + 0 * Replay!Unit
    <3>1. Across(j) \in Nat
      <4>1. WordPixels * j.d.words \in Nat /\ j.d.dest_width \in Nat \ {0}
        BY Sizes, JobTypes DEF HasSize
      <4> QED BY <4>1, ZoomNat DEF Across
    <3> QED BY <3>1 DEF Replay!Unit
  <2>4. ~Replay!Closed(j.d, address, 0)
    <3>1. 0 \div WordPixels = 0
      BY Sizes
    <3> QED BY <3>1 DEF Replay!Closed
  <2>5. DrawnTo(j, address, x0, y, 0, fb0, fb0)
    BY DEF DrawnTo
  <2>6. x0 = (IF j.d.flip_x THEN x0 - 0 ELSE x0 + 0) /\ 0 \in 0 .. n
    BY JobTypes DEF IsSpan
  <2>7. IsRow(s)
    BY <2>2 DEF IsRow
  <2>8. RowAt(j, address, x0, y, n, fb0, 0, s, 0)
    BY <2>2, <2>3, <2>4, <2>5, <2>6, <2>7 DEF RowAt
  <2> QED BY <2>1, <2>6, <2>8
<1>4. ASSUME NEW k \in 1 .. total, k - 1 \in S PROVE k \in S
  <2>1. PICK h \in Nat : k = h + 1 /\ h = k - 1
    <3>1. k - 1 \in Nat /\ k = (k - 1) + 1
      OBVIOUS
    <3> QED BY <3>1
  <2>2. PICK c \in 0 .. n : RowAt(j, address, x0, y, n, fb0, h, at[h], c)
    BY <1>4, <2>1
  <2>3. at[k] = Replay!row_step(j, y, address, to, at[h])
    BY <1>2, <2>1
  <2>4. \E e \in 0 .. n : RowAt(j, address, x0, y, n, fb0, h + 1, at[k], e)
    BY <2>2, <2>3, RowSteps
  <2> QED BY <2>1, <2>4
<1>5. total \in S
  <2> HIDE DEF S
  <2>1. \A k \in 0 .. total : k \in S
    BY <1>3, <1>4, Steps
  <2> QED BY <2>1
<1>6. PICK c, s : c \in 0 .. n /\ s = at[total] /\ RowAt(j, address, x0, y, n, fb0, total, s, c)
  BY <1>5
<1>7. IsBuffer(after) /\ after = s.fb
  BY <1>2, <1>6 DEF RowAt
<1>8. ASSUME NEW cell \in Replay!Cells
      PROVE  after[cell] = IF cell[2] = y /\ Column(j, x0, cell[1]) \in 0 .. j.d.dest_width - 1
                           THEN InRow(j, address, Column(j, x0, cell[1]), cell[1], y, fb0[cell])
                           ELSE fb0[cell]
  <2>1. PICK u \in Int : u = cell[1]
    BY Sizes DEF Replay!Cells
  <2>2. PICK m : m = Column(j, x0, u)
    OBVIOUS
  <2>3. after[cell] = IF cell[2] = y /\ m \in 0 .. c - 1
                      THEN InRow(j, address, m, u, y, fb0[cell]) ELSE fb0[cell]
    BY <1>6, <1>7, <2>1, <2>2 DEF RowAt, DrawnTo
  <2>0. c \in 0 .. n
    BY <1>6
  <2>4. m \in 0 .. j.d.dest_width - 1 <=> m \in 0 .. c - 1 \/ m \in c .. j.d.dest_width - 1
    BY <2>0, JobTypes DEF IsSpan
  <2>5. CASE m \in c .. j.d.dest_width - 1
    <3>1. InRow(j, address, m, u, y, fb0[cell]) = fb0[cell]
      BY <1>1, <1>6, <2>2, <2>5, RowEnds
    <3> QED BY <2>1, <2>2, <2>3, <2>4, <2>5, <3>1
  <2>6. CASE m \notin c .. j.d.dest_width - 1
    BY <2>1, <2>2, <2>3, <2>4, <2>6
  <2> QED BY <2>5, <2>6
<1> QED BY <1>7, <1>8 DEF DrawnTo

-----------------------------------------------------------------------------
(***************************************************************************)
(* The rows, and with them the sprite.                                     *)
(***************************************************************************)
LEMMA DivAdd ==
    ASSUME NEW m \in Nat \ {0}, NEW a \in Nat, NEW b \in Nat
    PROVE  /\ (a + b) \div m = (a \div m) + (((a % m) + b) \div m)
           /\ (a + b) % m = ((a % m) + b) % m
<1>1. a % m \in 0 .. m - 1 /\ a \div m \in Nat /\ a = m * (a \div m) + (a % m)
  BY Divides
<1>2. PICK q \in Nat, r \in 0 .. m - 1 : q = a \div m /\ r = a % m /\ a = m * q + r
  BY <1>1
<1>3. PICK e \in Nat : e = r + b
  OBVIOUS
<1>4. e % m \in 0 .. m - 1 /\ e \div m \in Nat /\ e = m * (e \div m) + (e % m)
  BY Divides
<1>5. PICK s \in Nat, t \in 0 .. m - 1 : s = e \div m /\ t = e % m /\ e = m * s + t
  BY <1>4
<1>6. PICK u \in Nat, x \in Nat : u = q + s /\ x = a + b
  OBVIOUS
<1>7. m * u = m * q + m * s
  BY <1>6
<1>8. x = m * u + t
  <2>1. PICK f \in Nat, g \in Nat, v \in Nat : f = m * q /\ g = m * s /\ v = m * u
    OBVIOUS
  <2>2. a = f + r /\ e = g + t /\ v = f + g
    BY <1>2, <1>5, <1>7, <2>1
  <2>3. x = v + t
    BY <1>3, <1>6, <2>2
  <2> QED BY <2>1, <2>3
<1>9. x \div m = u /\ x % m = t
  BY <1>8, QuotientIs
<1> QED BY <1>2, <1>3, <1>5, <1>6, <1>9

RowsAt(j, fb0, k, s) ==
    /\ IsBuffer(s.fb)
    /\ s.y = IF j.d.flip_y THEN FirstY(j) - k ELSE FirstY(j) + k
    /\ s.yacc = (k * Down(j)) % Replay!Unit
    /\ s.address = Line(j, k)
    /\ \A cell \in Replay!Cells :
          s.fb[cell] = IF Row(j, FirstY(j), cell[2]) \in 0 .. k - 1
                       THEN Replay!Ideal(j, cell, fb0[cell]) ELSE fb0[cell]

LEMMA NextLine ==
    ASSUME NEW j, IsJob(j), HasSize(j), NEW k \in Nat, NEW acc,
           acc = ((k * Down(j)) % Replay!Unit) + Down(j)
    PROVE  /\ acc % Replay!Unit = ((k + 1) * Down(j)) % Replay!Unit
           /\ Line(j, k) + j.d.words * (acc \div Replay!Unit) = Line(j, k + 1)
<1>1. PICK U \in Nat \ {0} : U = Replay!Unit
  BY DEF Replay!Unit
<1>2. PICK vz \in Nat, words \in Nat, base \in Nat :
          vz = Down(j) /\ words = j.d.words /\ base = j.d.address
  BY JobTypes, ZoomNat DEF Down, HasSize
<1>3. PICK a \in Nat, b \in Nat : a = k * vz /\ b = (k + 1) * vz
  OBVIOUS
<1>4. b = a + vz
  BY <1>3
<1>5. (a + vz) \div U = (a \div U) + (((a % U) + vz) \div U) /\ (a + vz) % U = ((a % U) + vz) % U
  BY DivAdd
<1>6. acc = (a % U) + vz
  BY <1>1, <1>2, <1>3
<1>7. acc % U = b % U /\ b \div U = (a \div U) + (acc \div U)
  BY <1>4, <1>5, <1>6
<1>8. a \div U \in Nat /\ acc \div U \in Nat
  <2>1. a % U \in 0 .. U - 1 /\ a \div U \in Nat
    BY Divides
  <2>2. acc \in Nat
    BY <1>6, <2>1
  <2> QED BY <2>1, <2>2, Divides
<1>9. PICK p \in Nat, q \in Nat : p = a \div U /\ q = acc \div U
  BY <1>8
<1>10. words * (p + q) = words * p + words * q
  OBVIOUS
<1>11. (base + words * p) + words * q = base + words * (p + q)
  <2>1. PICK f \in Nat, g \in Nat : f = words * p /\ g = words * q
    OBVIOUS
  <2> QED BY <1>10, <2>1
<1> QED BY <1>1, <1>2, <1>3, <1>7, <1>9, <1>11 DEF Line

LEMMA RowsStep ==
    ASSUME NEW j, IsJob(j), HasSize(j), NEW to, NEW n, IsSpan(j, FirstX(j), to, n), NEW fb0,
           NEW k \in 0 .. j.d.dest_height - 1, NEW s, RowsAt(j, fb0, k, s),
           NEW t, t = Replay!next_row(j, FirstX(j), to, s)
    PROVE  RowsAt(j, fb0, k + 1, t)
<1>1. PICK y \in Int, x0 \in Int, y0 \in Int, h \in Nat :
          /\ x0 = FirstX(j) /\ y0 = FirstY(j) /\ h = j.d.dest_height /\ k < h
          /\ y = s.y /\ y = IF j.d.flip_y THEN y0 - k ELSE y0 + k
  BY FirstInt, JobTypes DEF RowsAt
<1>2. PICK acc : acc = ((k * Down(j)) % Replay!Unit) + Down(j)
  OBVIOUS
<1>3. /\ t.fb = (IF j.clipin.y0 <= y /\ y <= j.clipin.y1
                 THEN Replay!draw_row(j, s.fb, y, Line(j, k), x0, to) ELSE s.fb)
      /\ t.y = y + (IF j.d.flip_y THEN -1 ELSE 1)
      /\ t.address = Line(j, k) + j.d.words * (acc \div Replay!Unit)
      /\ t.yacc = acc % Replay!Unit
  BY <1>1, <1>2 DEF Replay!next_row, RowsAt, Down
<1>4. t.y = IF j.d.flip_y THEN FirstY(j) - (k + 1) ELSE FirstY(j) + (k + 1)
  BY <1>1, <1>3
<1>5. t.yacc = ((k + 1) * Down(j)) % Replay!Unit /\ t.address = Line(j, k + 1)
  BY <1>2, <1>3, NextLine
<1>6. IsBuffer(s.fb)
  BY DEF RowsAt
<1>7. \A cell \in Replay!Cells : cell[1] \in Int /\ cell[2] \in Int
  BY Sizes DEF Replay!Cells
<1>8. \A v \in Int : Row(j, y0, v) \in Int /\ (Row(j, y0, v) = k <=> v = y)
  BY <1>1 DEF Row
<1>9. ASSUME NEW cell \in Replay!Cells, NEW m \in Int, m = Row(j, y0, cell[2]), NEW now,
             now = t.fb[cell], IsBuffer(t.fb),
             m # k => now = s.fb[cell],
             m = k => now = Replay!Ideal(j, cell, fb0[cell])
      PROVE  now = IF m \in 0 .. k THEN Replay!Ideal(j, cell, fb0[cell]) ELSE fb0[cell]
  <2>1. s.fb[cell] = IF m \in 0 .. k - 1 THEN Replay!Ideal(j, cell, fb0[cell]) ELSE fb0[cell]
    BY <1>1, <1>9 DEF RowsAt
  <2> QED BY <1>9, <2>1
<1>10. ASSUME IsBuffer(t.fb),
              \A cell \in Replay!Cells :
                 /\ Row(j, y0, cell[2]) # k => t.fb[cell] = s.fb[cell]
                 /\ Row(j, y0, cell[2]) = k => t.fb[cell] = Replay!Ideal(j, cell, fb0[cell])
       PROVE  RowsAt(j, fb0, k + 1, t)
  <2>1. ASSUME NEW cell \in Replay!Cells
        PROVE  t.fb[cell] = IF Row(j, y0, cell[2]) \in 0 .. (k + 1) - 1
                            THEN Replay!Ideal(j, cell, fb0[cell]) ELSE fb0[cell]
    <3>1. PICK m, now : m \in Int /\ m = Row(j, y0, cell[2]) /\ now = t.fb[cell]
      BY <1>7, <1>8
    <3>2. now = IF m \in 0 .. k THEN Replay!Ideal(j, cell, fb0[cell]) ELSE fb0[cell]
      BY <1>9, <1>10, <3>1
    <3>3. (k + 1) - 1 = k
      OBVIOUS
    <3> QED BY <3>1, <3>2, <3>3
  <2> QED BY <1>1, <1>4, <1>5, <1>10, <2>1 DEF RowsAt
<1>11. CASE j.clipin.y0 <= y /\ y <= j.clipin.y1
  <2>1. PICK after : after = Replay!draw_row(j, s.fb, y, Line(j, k), x0, to)
    OBVIOUS
  <2>2. IsBuffer(after) /\ DrawnTo(j, Line(j, k), x0, y, j.d.dest_width, s.fb, after)
    BY <1>1, <1>6, <1>11, <2>1, RowDrawn
  <2>3. t.fb = after
    BY <1>3, <1>11, <2>1
  <2>4. ASSUME NEW cell \in Replay!Cells
        PROVE  /\ Row(j, y0, cell[2]) # k => after[cell] = s.fb[cell]
               /\ Row(j, y0, cell[2]) = k => after[cell] = Replay!Ideal(j, cell, fb0[cell])
    <3>1. PICK u \in Int, v \in Int : u = cell[1] /\ v = cell[2]
      BY <1>7
    <3>2. PICK c : c = Column(j, x0, u)
      OBVIOUS
    <3>3. after[cell] = IF v = y /\ c \in 0 .. j.d.dest_width - 1
                        THEN InRow(j, Line(j, k), c, u, y, s.fb[cell]) ELSE s.fb[cell]
      BY <2>2, <3>1, <3>2 DEF DrawnTo
    <3>4. CASE Row(j, y0, v) # k
      BY <1>8, <3>1, <3>3, <3>4
    <3>5. CASE Row(j, y0, v) = k
      <4>1. v = y
        BY <1>8, <3>1, <3>5
      <4>2. s.fb[cell] = fb0[cell]
        BY <1>1, <3>1, <3>5 DEF RowsAt
      <4>3. k \in 0 .. j.d.dest_height - 1
        OBVIOUS
      <4>4. Replay!Ideal(j, cell, fb0[cell]) =
              IF c \in 0 .. j.d.dest_width - 1
              THEN InRow(j, Line(j, k), c, u, y, fb0[cell]) ELSE fb0[cell]
        <5>1. PICK old : old = fb0[cell]
          OBVIOUS
        <5>2. Replay!Ideal(j, cell, old) =
                IF /\ HasSize(j)
                   /\ Column(j, FirstX(j), u) \in 0 .. j.d.dest_width - 1
                   /\ Row(j, FirstY(j), v) \in 0 .. j.d.dest_height - 1
                   /\ j.clipin.y0 <= v /\ v <= j.clipin.y1
                THEN InRow(j, Line(j, Row(j, FirstY(j), v)), Column(j, FirstX(j), u), u, v, old)
                ELSE old
          BY <3>1, IdealIs
        <5>3. Column(j, FirstX(j), u) = c /\ Row(j, FirstY(j), v) = k
          BY <1>1, <3>2, <3>5
        <5> QED BY <1>11, <4>1, <4>3, <5>1, <5>2, <5>3
      <4> QED BY <3>1, <3>3, <3>5, <4>1, <4>2, <4>4
    <3> QED BY <3>1, <3>4, <3>5
  <2> QED BY <1>10, <2>2, <2>3, <2>4
<1>12. CASE ~(j.clipin.y0 <= y /\ y <= j.clipin.y1)
  <2>1. t.fb = s.fb
    BY <1>3, <1>12
  <2>2. ASSUME NEW cell \in Replay!Cells, Row(j, y0, cell[2]) = k
        PROVE  s.fb[cell] = Replay!Ideal(j, cell, fb0[cell])
    <3>1. PICK u \in Int, v \in Int : u = cell[1] /\ v = cell[2] /\ v = y
      BY <1>7, <1>8, <2>2
    <3>2. Replay!Ideal(j, cell, fb0[cell]) = fb0[cell]
      BY <1>12, <3>1, IdealIs
    <3>3. s.fb[cell] = fb0[cell]
      BY <1>1, <2>2 DEF RowsAt
    <3> QED BY <3>2, <3>3
  <2> QED BY <1>6, <1>10, <2>1, <2>2
<1> QED BY <1>11, <1>12

LEMMA RowsDrawn ==
    ASSUME NEW j, IsJob(j), HasSize(j), NEW to, NEW n, IsSpan(j, FirstX(j), to, n),
           NEW fb0, IsBuffer(fb0), NEW after,
           after = Replay!draw_rows(j, fb0, FirstX(j), to, FirstY(j))
    PROVE  /\ IsBuffer(after)
           /\ \A cell \in Replay!Cells : after[cell] = Replay!Ideal(j, cell, fb0[cell])
<1>1. PICK h \in Nat : h = j.d.dest_height
  BY JobTypes
<1>2. PICK at : /\ at[0] = RowsStart(j, fb0, FirstY(j))
                /\ \A k \in 1 .. h : at[k] = Replay!next_row(j, FirstX(j), to, at[k - 1])
                /\ Replay!draw_rows(j, fb0, FirstX(j), to, FirstY(j)) = at[h].fb
  BY <1>1, RowsAre
<1> DEFINE S == {k \in 0 .. h : RowsAt(j, fb0, k, at[k])}
<1>3. 0 \in S
  <2>1. 0 * Down(j) = 0
    <3>1. Down(j) \in Nat
      BY JobTypes, ZoomNat DEF Down, HasSize
    <3> QED BY <3>1
  <2>2. 0 % Replay!Unit = 0 /\ 0 \div Replay!Unit = 0
    BY DEF Replay!Unit
  <2>3. Line(j, 0) = j.d.address
    BY <2>1, <2>2, JobTypes DEF Line
  <2>4. FirstY(j) = (IF j.d.flip_y THEN FirstY(j) - 0 ELSE FirstY(j) + 0)
    BY FirstInt
  <2>5. RowsAt(j, fb0, 0, at[0])
    BY <1>2, <2>1, <2>2, <2>3, <2>4 DEF RowsStart, RowsAt
  <2> QED BY <2>5
<1>4. ASSUME NEW k \in 1 .. h, k - 1 \in S PROVE k \in S
  <2>1. PICK i \in 0 .. j.d.dest_height - 1 : i = k - 1 /\ k = i + 1
    BY <1>1
  <2>2. RowsAt(j, fb0, i, at[i]) /\ at[k] = Replay!next_row(j, FirstX(j), to, at[i])
    BY <1>2, <1>4, <2>1
  <2>3. RowsAt(j, fb0, i + 1, at[k])
    BY <2>2, RowsStep
  <2> QED BY <2>1, <2>3
<1>5. h \in S
  <2> HIDE DEF S
  <2>1. \A k \in 0 .. h : k \in S
    BY <1>3, <1>4, Steps
  <2> QED BY <2>1
<1>6. PICK s : s = at[h] /\ RowsAt(j, fb0, h, s)
  BY <1>5
<1>7. ASSUME NEW cell \in Replay!Cells PROVE after[cell] = Replay!Ideal(j, cell, fb0[cell])
  <2>1. PICK u \in Int, v \in Int : u = cell[1] /\ v = cell[2]
    BY Sizes DEF Replay!Cells
  <2>2. PICK r : r = Row(j, FirstY(j), v)
    OBVIOUS
  <2>3. after[cell] = IF r \in 0 .. h - 1 THEN Replay!Ideal(j, cell, fb0[cell]) ELSE fb0[cell]
    BY <1>2, <1>6, <2>1, <2>2 DEF RowsAt
  <2>4. CASE r \in 0 .. h - 1
    BY <2>3, <2>4
  <2>5. CASE r \notin 0 .. h - 1
    <3>1. Replay!Ideal(j, cell, fb0[cell]) = fb0[cell]
      BY <1>1, <2>1, <2>2, <2>5, IdealIs
    <3> QED BY <2>3, <2>5, <3>1
  <2> QED BY <2>4, <2>5
<1> QED BY <1>2, <1>6, <1>7 DEF RowsAt

\* A sprite is drawn as it is defined.
LEMMA SpriteDrawn ==
    ASSUME NEW j, IsJob(j), NEW fb, IsBuffer(fb)
    PROVE  Replay!draw_one_sprite(j, fb) =
              [cell \in Replay!Cells |-> Replay!Ideal(j, cell, fb[cell])]
<1>1. \A cell \in Replay!Cells : cell[1] \in Int /\ cell[2] \in Int
  BY Sizes DEF Replay!Cells
<1>2. ASSUME \A cell \in Replay!Cells : Replay!Ideal(j, cell, fb[cell]) = fb[cell]
      PROVE  fb = [cell \in Replay!Cells |-> Replay!Ideal(j, cell, fb[cell])]
  BY <1>2 DEF IsBuffer
<1>3. CASE ~HasSize(j)
  <2>1. Replay!draw_one_sprite(j, fb) = fb
    BY <1>3 DEF HasSize, Replay!draw_one_sprite
  <2>2. ASSUME NEW cell \in Replay!Cells PROVE Replay!Ideal(j, cell, fb[cell]) = fb[cell]
    BY <1>1, <1>3, IdealIs
  <2> QED BY <1>2, <2>1, <2>2
<1>4. CASE HasSize(j)
  <2>1. PICK x0 \in Int, dw \in Nat \ {0}, a \in Int, b \in Int :
            x0 = FirstX(j) /\ dw = j.d.dest_width /\ a = j.clipin.x0 /\ b = j.clipin.x1
    BY <1>4, FirstInt, JobTypes DEF HasSize
  <2>a. x0 - dw \in Int /\ x0 + dw \in Int /\ a - 1 \in Int /\ b + 1 \in Int
    OBVIOUS
  <2>2. PICK past \in Int : past = IF j.d.flip_x THEN x0 - dw ELSE x0 + dw
    <3>1. (IF j.d.flip_x THEN x0 - dw ELSE x0 + dw) \in Int
      BY <2>a
    <3> QED BY <3>1
  <2>3. PICK to \in Int : to = IF j.d.flip_x THEN (IF past < a THEN a - 1 ELSE past)
                               ELSE (IF past > b THEN b + 1 ELSE past)
    <3>1. (IF j.d.flip_x THEN (IF past < a THEN a - 1 ELSE past)
           ELSE (IF past > b THEN b + 1 ELSE past)) \in Int
      BY <2>a
    <3> QED BY <3>1
  <2>4. Replay!draw_one_sprite(j, fb) =
           IF to # past /\ (IF j.d.flip_x THEN x0 <= to ELSE x0 >= to) THEN fb
           ELSE Replay!draw_rows(j, fb, x0, to, FirstY(j))
    BY <1>4, <2>1, <2>2, <2>3
       DEF Replay!draw_one_sprite, HasSize, FirstX, FirstY, LeastX, LeastY
  <2>5. CASE to # past /\ (IF j.d.flip_x THEN x0 <= to ELSE x0 >= to)
    <3>1. ASSUME NEW cell \in Replay!Cells PROVE Replay!Ideal(j, cell, fb[cell]) = fb[cell]
      <4>1. PICK u, v, c : u \in Int /\ v \in Int /\ u = cell[1] /\ v = cell[2] /\ c = Column(j, x0, u)
        BY <1>1
      <4>2. c \in 0 .. dw - 1 => ~InClips(j, u, v)
        BY <2>1, <2>2, <2>3, <2>5, <4>1 DEF Column, InClips
      <4>3. ~InClips(j, u, v) => InRow(j, Line(j, Row(j, FirstY(j), v)), c, u, v, fb[cell]) = fb[cell]
        BY DEF InRow
      <4> QED BY <2>1, <4>1, <4>2, <4>3, IdealIs
    <3> QED BY <1>2, <2>4, <2>5, <3>1
  <2>6. CASE ~(to # past /\ (IF j.d.flip_x THEN x0 <= to ELSE x0 >= to))
    <3>1. PICK n \in 0 .. dw : /\ to = IF j.d.flip_x THEN x0 - n ELSE x0 + n
                               /\ n < dw => to = IF j.d.flip_x THEN a - 1 ELSE b + 1
      <4>1. CASE to = past
        BY <2>2, <4>1
      <4>2. CASE to # past /\ j.d.flip_x
        <5>1. x0 - to \in 0 .. dw /\ x0 - to < dw /\ to = x0 - (x0 - to) /\ to = a - 1
          BY <2>2, <2>3, <2>6, <4>2
        <5> QED BY <4>2, <5>1
      <4>3. CASE to # past /\ ~j.d.flip_x
        <5>1. to - x0 \in 0 .. dw /\ to - x0 < dw /\ to = x0 + (to - x0) /\ to = b + 1
          BY <2>2, <2>3, <2>6, <4>3
        <5> QED BY <4>3, <5>1
      <4> QED BY <4>1, <4>2, <4>3
    <3>2. IsSpan(j, FirstX(j), to, n)
      BY <2>1, <3>1 DEF IsSpan
    <3>3. PICK after : after = Replay!draw_rows(j, fb, FirstX(j), to, FirstY(j))
      OBVIOUS
    <3>4. IsBuffer(after) /\ \A cell \in Replay!Cells : after[cell] = Replay!Ideal(j, cell, fb[cell])
      BY <1>4, <3>2, <3>3, RowsDrawn
    <3>5. after = [cell \in Replay!Cells |-> Replay!Ideal(j, cell, fb[cell])]
      BY <3>4 DEF IsBuffer
    <3> QED BY <2>1, <2>4, <2>6, <3>3, <3>5
  <2> QED BY <2>5, <2>6
<1> QED BY <1>3, <1>4

\* The definition reads nothing but these fields of a job.
SameJob(j, h) ==
    /\ j.n = h.n /\ j.d = h.d /\ j.clipin = h.clipin /\ j.clipout = h.clipout
    /\ j.xoffs = h.xoffs /\ j.yoffs = h.yoffs
    /\ j.ram = h.ram /\ j.wide = h.wide /\ j.shadows = h.shadows

LEMMA SameIdeal ==
    ASSUME NEW j, NEW h, SameJob(j, h), NEW cell, NEW old
    PROVE  Replay!Ideal(j, cell, old) = Replay!Ideal(h, cell, old)
<1>1. Replay!shadow(j) = Replay!shadow(h)
  BY DEF SameJob, Replay!shadow
<1>2. ASSUME NEW code, NEW place PROVE Replay!Colour(j, code, place) = Replay!Colour(h, code, place)
  BY DEF SameJob, Replay!Colour
<1>3. ASSUME NEW code, NEW place PROVE Replay!Becomes(j, code, place, old) = Replay!Becomes(h, code, place, old)
  BY <1>1, <1>2 DEF Replay!Becomes
<1> QED BY <1>3 DEF SameJob, Replay!Ideal

-----------------------------------------------------------------------------
(***************************************************************************)
(* A buffer shows the sprites drawn on it, one after another, since it was *)
(* erased.                                                                 *)
(***************************************************************************)
Shows(at, draws, fb, n) ==
    /\ at[0] = fb
    /\ \A k \in 1 .. n : at[k] = Over(draws[k], at[k - 1])
    /\ Replay!Shown(draws, fb) = at[n]

LEMMA ShownIs ==
    ASSUME NEW draws, NEW fb, NEW n \in Nat, n = Len(draws)
    PROVE  \E at : Shows(at, draws, fb, n)
<1> DEFINE Is(at) == at = [k \in 0 .. n |-> IF k = 0 THEN fb ELSE Over(draws[k], at[k - 1])]
           A == CHOOSE at : Is(at)
           p == [loop |-> "shown", draws |-> draws]
<1>1. Replay!Shown(draws, fb) = A[n]
  BY DEF Replay!Shown, Over
<1>2. PICK at : Turns(at, p, fb, n)
  BY LoopRuns
<1>3. \A k, s : Turn(p, k, s) = Over(draws[k], s)
  BY DEF Turn
<1> HIDE DEF p
<1>4. Is(at)
  BY <1>2, <1>3 DEF Turns
<1>5. Is(A)
  BY <1>4
<1> HIDE DEF A
<1>6. A[0] = fb /\ \A k \in 1 .. n : A[k] = Over(draws[k], A[k - 1])
  BY <1>5
<1> QED BY <1>1, <1>6 DEF Shows

LEMMA PictureIs ==
    ASSUME NEW lists, NEW n \in Nat, n = Len(lists)
    PROVE  \E at : /\ at[0] = Replay!Blank
                   /\ \A k \in 1 .. n : at[k] = Replay!Shown(lists[k], at[k - 1])
                   /\ Replay!Picture(lists) = at[n]
<1> DEFINE Is(at) == at = [k \in 0 .. n |-> IF k = 0 THEN Replay!Blank
                              ELSE Replay!Shown(lists[k], at[k - 1])]
           A == CHOOSE at : Is(at)
           p == [loop |-> "picture", lists |-> lists]
<1>1. Replay!Picture(lists) = A[n]
  BY DEF Replay!Picture
<1>2. PICK at : Turns(at, p, Replay!Blank, n)
  BY LoopRuns
<1>3. \A k, s : Turn(p, k, s) = Replay!Shown(lists[k], s)
  BY DEF Turn
<1> HIDE DEF p
<1>4. Is(at)
  BY <1>2, <1>3 DEF Turns
<1>5. Is(A)
  BY <1>4
<1> HIDE DEF A
<1>6. A[0] = Replay!Blank /\ \A k \in 1 .. n : A[k] = Replay!Shown(lists[k], A[k - 1])
  BY <1>5
<1> QED BY <1>1, <1>6

LEMMA NothingShown ==
    ASSUME NEW fb PROVE Replay!Shown(<<>>, fb) = fb /\ Replay!Picture(<<>>) = Replay!Blank
<1>1. Len(<<>>) = 0 /\ 0 \in Nat
  OBVIOUS
<1>2. PICK at : at[0] = fb /\ Replay!Shown(<<>>, fb) = at[0]
  BY <1>1, ShownIs DEF Shows
<1>3. PICK bt : bt[0] = Replay!Blank /\ Replay!Picture(<<>>) = bt[0]
  BY <1>1, PictureIs
<1> QED BY <1>2, <1>3

LEMMA OneMoreShown ==
    ASSUME NEW draws \in Seq(Jobs), NEW job \in Jobs, NEW fb
    PROVE  Replay!Shown(Append(draws, job), fb) =
              Over(job, Replay!Shown(draws, fb))
<1>1. PICK n \in Nat : n = Len(draws)
  OBVIOUS
<1>2. PICK more : more = Append(draws, job)
  OBVIOUS
<1>3. Len(more) = n + 1 /\ (\A k \in 1 .. n : more[k] = draws[k]) /\ more[n + 1] = job
  BY <1>1, <1>2, AppendProperties
<1>4. PICK at : Shows(at, draws, fb, n)
  BY <1>1, ShownIs
<1>5. PICK m \in Nat : m = n + 1
  OBVIOUS
<1>6. PICK bt : Shows(bt, more, fb, m)
  BY <1>3, <1>5, ShownIs
<1> DEFINE S == {k \in 0 .. n : at[k] = bt[k]}
<1>7. 0 \in S
  BY <1>4, <1>6 DEF Shows
<1>8. ASSUME NEW k \in 1 .. n, k - 1 \in S PROVE k \in S
  <2>1. at[k - 1] = bt[k - 1] /\ k \in 1 .. m /\ more[k] = draws[k]
    BY <1>3, <1>5, <1>8
  <2> QED BY <1>4, <1>6, <2>1 DEF Shows
<1>9. at[n] = bt[n]
  <2> HIDE DEF S
  <2>1. \A k \in 0 .. n : k \in S
    BY <1>7, <1>8, Steps
  <2> QED BY <2>1 DEF S
<1>10. bt[m] = Over(job, bt[n])
  <2>1. m \in 1 .. m /\ m - 1 = n /\ more[m] = job
    BY <1>3, <1>5
  <2> QED BY <1>6, <2>1 DEF Shows
<1> QED BY <1>2, <1>4, <1>6, <1>9, <1>10 DEF Shows

LEMMA OneMoreList ==
    ASSUME NEW lists \in Seq(Seq(Jobs)), NEW draws \in Seq(Jobs)
    PROVE  Replay!Picture(Append(lists, draws)) = Replay!Shown(draws, Replay!Picture(lists))
<1>1. PICK n \in Nat : n = Len(lists)
  OBVIOUS
<1>2. PICK more : more = Append(lists, draws)
  OBVIOUS
<1>3. Len(more) = n + 1 /\ (\A k \in 1 .. n : more[k] = lists[k]) /\ more[n + 1] = draws
  BY <1>1, <1>2, AppendProperties
<1>4. PICK at : /\ at[0] = Replay!Blank
                /\ \A k \in 1 .. n : at[k] = Replay!Shown(lists[k], at[k - 1])
                /\ Replay!Picture(lists) = at[n]
  BY <1>1, PictureIs
<1>5. PICK m \in Nat : m = n + 1
  OBVIOUS
<1>6. PICK bt : /\ bt[0] = Replay!Blank
                /\ \A k \in 1 .. m : bt[k] = Replay!Shown(more[k], bt[k - 1])
                /\ Replay!Picture(more) = bt[m]
  BY <1>3, <1>5, PictureIs
<1> DEFINE S == {k \in 0 .. n : at[k] = bt[k]}
<1>7. 0 \in S
  BY <1>4, <1>6
<1>8. ASSUME NEW k \in 1 .. n, k - 1 \in S PROVE k \in S
  <2>1. at[k - 1] = bt[k - 1] /\ k \in 1 .. m /\ more[k] = lists[k]
    BY <1>3, <1>5, <1>8
  <2> QED BY <1>4, <1>6, <2>1
<1>9. at[n] = bt[n]
  <2> HIDE DEF S
  <2>1. \A k \in 0 .. n : k \in S
    BY <1>7, <1>8, Steps
  <2> QED BY <2>1 DEF S
<1>10. bt[m] = Replay!Shown(draws, bt[n])
  <2>1. m \in 1 .. m /\ m - 1 = n /\ more[m] = draws
    BY <1>3, <1>5
  <2> QED BY <1>6, <2>1
<1> QED BY <1>2, <1>4, <1>6, <1>9, <1>10

LEMMA DrawShows ==
    ASSUME NEW w, NEW list \in Replay!Prepared, NEW wide \in BOOLEAN, NEW shadows \in BOOLEAN,
           IsWalk(w, list, wide, shadows), NEW fb0, w.fb = Replay!Shown(w.draws, fb0)
    PROVE  Replay!command_step(w).fb = Replay!Shown(Replay!command_step(w).draws, fb0)
<1>1. /\ w.n \in Nat /\ w.draws \in Seq(Jobs) /\ w.ram = list /\ IsBuffer(w.fb)
      /\ w.wide = wide /\ w.clipin \in Windows(wide) /\ w.clipout \in Replay!Rects
      /\ w.xoffs \in Int /\ w.yoffs \in Int
      /\ \A n, fb, draws : [w EXCEPT !.n = n, !.fb = fb, !.draws = draws].fb = fb
      /\ \A n, fb, draws : [w EXCEPT !.n = n, !.fb = fb, !.draws = draws].draws = draws
      /\ \A n, in, out : [w EXCEPT !.n = n, !.clipin = in, !.clipout = out].fb = w.fb
      /\ \A n, in, out : [w EXCEPT !.n = n, !.clipin = in, !.clipout = out].draws = w.draws
      /\ \A n, dx, dy : [w EXCEPT !.n = n, !.xoffs = dx, !.yoffs = dy].fb = w.fb
      /\ \A n, dx, dy : [w EXCEPT !.n = n, !.xoffs = dx, !.yoffs = dy].draws = w.draws
  BY DEF IsWalk
<1> DEFINE d == list[w.n % Entries]
<1>2. d \in Commands /\ Replay!WellFormed(d)
  BY <1>1, CommandsWellFormed
<1>3. Replay!command_step(w) = CASE d.command = "draw" -> Replay!draw(w, d)
                                 [] d.command = "clip" -> Replay!clip(w, d)
                                 [] d.command = "jump" -> Replay!jump(w, d)
                                 [] d.command = "end"  -> w
  BY <1>1 DEF Replay!command_step
<1> HIDE DEF d
<1>4. CASE d.command = "draw"
  <2>1. PICK j : j = [w EXCEPT !.d = d, !.n = @ % Entries]
    OBVIOUS
  <2>2. PICK job \in Jobs : job = Job(w, d)
    BY <1>2, <1>4, JobIsJob
  <2>3. /\ j.d = d /\ j.n = job.n /\ j.clipin = job.clipin /\ j.clipout = job.clipout
        /\ j.xoffs = job.xoffs /\ j.yoffs = job.yoffs /\ j.d = job.d /\ j.ram = job.ram
        /\ j.wide = job.wide /\ j.shadows = job.shadows
        /\ j.wide = w.wide /\ j.clipin = w.clipin /\ j.clipout = w.clipout
        /\ j.xoffs = w.xoffs /\ j.yoffs = w.yoffs
    BY <2>1, <2>2 DEF IsWalk, Job
  <2>a. SameJob(j, job)
    BY <2>3 DEF SameJob
  <2>4. IsJob(j)
    BY <1>1, <1>2, <1>4, <2>3 DEF IsJob
  <2>5. PICK drawn : drawn = Replay!draw_one_sprite(j, w.fb)
    OBVIOUS
  <2>6. PICK fb : fb = w.fb
    OBVIOUS
  <2>7. drawn = [cell \in Replay!Cells |-> Replay!Ideal(j, cell, fb[cell])]
    BY <1>1, <2>4, <2>5, <2>6, SpriteDrawn
  <2>8. drawn = Over(job, w.fb)
    <3>1. \A cell, old : Replay!Ideal(j, cell, old) = Replay!Ideal(job, cell, old)
      BY <2>a, SameIdeal
    <3> QED BY <2>6, <2>7, <3>1 DEF Over
  <2>9. PICK draws \in Seq(Jobs) : draws = w.draws
    BY <1>1
  <2>10. drawn = Replay!Shown(Append(draws, job), fb0)
    BY <2>8, <2>9, OneMoreShown
  <2>11. PICK n : Replay!draw(w, d) = [w EXCEPT !.n = n, !.fb = drawn, !.draws = Append(draws, job)]
    BY <2>1, <2>2, <2>5, <2>9 DEF Replay!draw, Job
  <2>12. Replay!command_step(w) = Replay!draw(w, d)
    BY <1>3, <1>4
  <2> QED BY <1>1, <2>10, <2>11, <2>12
<1>5. CASE d.command = "clip"
  <2>1. PICK n, in, out : Replay!clip(w, d) = [w EXCEPT !.n = n, !.clipin = in, !.clipout = out]
    BY DEF Replay!clip
  <2>2. Replay!command_step(w) = Replay!clip(w, d)
    BY <1>3, <1>5
  <2> QED BY <1>1, <2>1, <2>2
<1>6. CASE d.command = "jump"
  <2>1. PICK n, dx, dy : Replay!jump(w, d) = [w EXCEPT !.n = n, !.xoffs = dx, !.yoffs = dy]
    BY DEF Replay!jump
  <2>2. Replay!command_step(w) = Replay!jump(w, d)
    BY <1>3, <1>6
  <2> QED BY <1>1, <2>1, <2>2
<1>7. CASE d.command = "end"
  BY <1>3, <1>7
<1> QED BY <1>2, <1>4, <1>5, <1>6, <1>7 DEF Replay!WellFormed

LEMMA WalkShows ==
    ASSUME NEW fb, NEW list \in Replay!Prepared, NEW l \in Replay!Controls, IsBuffer(fb),
           NEW w, w = Replay!walk(fb, list, l)
    PROVE  w.fb = Replay!Shown(w.draws, fb)
<1>1. l.wide \in BOOLEAN /\ l.shadows \in BOOLEAN
  BY DEF Replay!Controls
<1>2. PICK wide \in BOOLEAN, shadows \in BOOLEAN : wide = l.wide /\ shadows = l.shadows
  BY <1>1
<1>3. PICK at : /\ at[0] = WalkStart(fb, list, l)
                /\ \A k \in 1 .. Entries : at[k] = Replay!command_step(at[k - 1])
                /\ Replay!walk(fb, list, l) = at[Entries]
  BY WalkIs
<1> DEFINE S == {k \in 0 .. Entries : /\ IsWalk(at[k], list, wide, shadows)
                                      /\ at[k].fb = Replay!Shown(at[k].draws, fb)}
<1>4. 0 \in S
  <2>1. IsWalk(at[0], list, wide, shadows)
    BY <1>1, <1>2, <1>3, StartIsWalk
  <2>2. at[0].fb = fb /\ at[0].draws = <<>>
    BY <1>3 DEF WalkStart
  <2> QED BY <2>1, <2>2, NothingShown, Sizes
<1>5. ASSUME NEW k \in 1 .. Entries, k - 1 \in S PROVE k \in S
  <2>1. k \in 0 .. Entries /\ k - 1 \in 0 .. Entries /\ at[k] = Replay!command_step(at[k - 1])
    BY <1>3, Sizes
  <2> QED BY <1>5, <2>1, CommandKeepsWalk, DrawShows
<1>6. Entries \in S
  <2> HIDE DEF S
  <2>1. \A k \in 0 .. Entries : k \in S
    BY <1>4, <1>5, Sizes, Steps
  <2> QED BY <2>1, Sizes
<1> QED BY <1>3, <1>6

DrawnInv == front = Replay!Picture(frontIs) /\ back = Replay!Picture(backIs)

LEMMA DrawnNext == ASSUME SpriteInv, DrawnInv, [BenchNext]_benchVars PROVE DrawnInv'
<1>1. ASSUME unit = "sprites", Replay!vblank PROVE DrawnInv'
  <2>1. PICK command, old, oldIs, r :
              /\ command \in 0 .. 3
              /\ command = IF ~controls.manual /\ render_count = 0 THEN 3 ELSE controls.command
              /\ old = (IF command \in {2, 3} THEN Replay!Blank ELSE front) /\ IsBuffer(old)
              /\ oldIs = (IF command \in {2, 3} THEN <<>> ELSE frontIs) /\ oldIs \in Seq(Seq(Jobs))
              /\ r = Replay!walk(old, ram, controls) /\ IsBuffer(r.fb) /\ r.draws \in Seq(Jobs)
              /\ front' = IF command \in {1, 3} THEN back ELSE old
              /\ back' = IF command \in {1, 3} THEN r.fb ELSE back
              /\ frontIs' = IF command \in {1, 3} THEN backIs ELSE oldIs
              /\ backIs' = IF command \in {1, 3} THEN Append(oldIs, r.draws) ELSE backIs
              /\ latched' = IF command \in {1, 3} THEN [controls EXCEPT !.command = command]
                            ELSE latched
              /\ controls' = [controls EXCEPT !.command = 0]
              /\ ram' = ram
    BY <1>1, UpdateDoes
  <2>2. old = Replay!Picture(oldIs)
    BY <2>1, NothingShown DEF DrawnInv
  <2>3. PICK list \in Replay!Prepared, c \in Replay!Controls : list = ram /\ c = controls
    BY <1>1 DEF SpriteInv
  <2>4. r = Replay!walk(old, list, c)
    BY <2>1, <2>3
  <2>5. r.fb = Replay!Shown(r.draws, old)
    BY <2>1, <2>4, WalkShows
  <2>6. PICK draws \in Seq(Jobs), lists \in Seq(Seq(Jobs)) : draws = r.draws /\ lists = oldIs
    BY <2>1
  <2>7. r.fb = Replay!Picture(Append(oldIs, r.draws))
    BY <2>2, <2>5, <2>6, OneMoreList
  <2>8. PICK f, b, fi, bi : f = front /\ b = back /\ fi = frontIs /\ bi = backIs
    OBVIOUS
  <2>9. f = Replay!Picture(fi) /\ b = Replay!Picture(bi)
    BY <2>8 DEF DrawnInv
  <2>10. CASE command \in {1, 3}
    <3>1. front' = b /\ frontIs' = bi /\ back' = r.fb /\ backIs' = Append(oldIs, r.draws)
      BY <2>1, <2>8, <2>10
    <3> QED BY <2>7, <2>9, <3>1 DEF DrawnInv
  <2>11. CASE command \notin {1, 3}
    <3>1. front' = old /\ frontIs' = oldIs /\ back' = b /\ backIs' = bi
      BY <2>1, <2>8, <2>11
    <3> QED BY <2>2, <2>9, <3>1 DEF DrawnInv
  <2> QED BY <2>10, <2>11
<1>2. ASSUME unit = "sprites", Replay!run_event PROVE DrawnInv'
  <2>1. PICK f, b, fi, bi : f = front /\ b = back /\ fi = frontIs /\ bi = backIs
    OBVIOUS
  <2>2. f = Replay!Picture(fi) /\ b = Replay!Picture(bi)
    BY <2>1 DEF DrawnInv
  <2>3. PICK list \in Replay!Prepared, l \in Replay!Controls : list = ram /\ l = latched
    BY <1>2 DEF SpriteInv
  <2>4. PICK r : r = Replay!walk(b, list, l)
    OBVIOUS
  <2>5. IsBuffer(b) /\ bi \in Seq(Seq(Jobs))
    BY <2>1 DEF SpriteInv
  <2>6. r.fb = Replay!Shown(r.draws, b) /\ r.draws \in Seq(Jobs)
    BY <2>3, <2>4, <2>5, WalkShows, WalkYields
  <2>7. r.fb = Replay!Picture(Append(bi, r.draws))
    BY <2>2, <2>5, <2>6, OneMoreList
  <2>8. CASE back' = r.fb /\ backIs' = Append(bi, r.draws) /\ front' = f /\ frontIs' = fi
    BY <2>2, <2>7, <2>8 DEF DrawnInv
  <2>9. CASE front' = Replay!Blank /\ frontIs' = <<>> /\ back' = b /\ backIs' = bi
    BY <2>2, <2>9, NothingShown DEF DrawnInv
  <2>10. CASE front' = b /\ back' = f /\ frontIs' = bi /\ backIs' = fi
    BY <2>2, <2>10 DEF DrawnInv
  <2> QED BY <1>2, <2>1, <2>3, <2>4, <2>8, <2>9, <2>10 DEF Replay!run_event, Replay!render_list
<1>3. ASSUME UNCHANGED <<front, back, frontIs, backIs>> PROVE DrawnInv'
  BY <1>3 DEF DrawnInv
<1>4. CASE Replaying
  <2>1. Replay!write_control \/ Replay!WriteList => UNCHANGED <<front, back, frontIs, backIs>>
    BY DEF Replay!write_control, Replay!WriteList, Replay!buffers, Replay!ghosts
  <2> QED BY <1>1, <1>2, <1>3, <1>4, <2>1
          DEF Replaying, Replay!ReplayNext, Replay!Captured, Replay!Uncaptured
<1>5. CASE Converging \/ Releasing \/ Identifying \/ FetchingDonors \/ Mixing
  BY <1>3, <1>5 DEF Converging, Releasing, Identifying, FetchingDonors, Mixing, spriteVars
<1>6. CASE UNCHANGED benchVars
  BY <1>3, <1>6 DEF benchVars, spriteVars
<1> QED BY <1>4, <1>5, <1>6 DEF BenchNext

\* Whatever the events, each buffer shows what was drawn on it since it was erased:
\* each sprite scaled, placed, mirrored and clipped as it is defined.
THEOREM BuffersShowDraws == BenchSpec => []DrawnAsDefined
<1>1. BenchInit => DrawnInv
  BY NothingShown DEF BenchInit, Replay!Start, DrawnInv
<1>2. SpriteInv /\ DrawnInv /\ [BenchNext]_benchVars => DrawnInv'
  BY DrawnNext
<1>3. DrawnInv => DrawnAsDefined
  BY DEF DrawnInv, DrawnAsDefined, Replay!DrawnAsDefined
<1> QED BY SpriteInvariant, <1>1, <1>2, <1>3, PTL DEF BenchSpec
=============================================================================
