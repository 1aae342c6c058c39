------------------------- MODULE FrameBufferProofs --------------------------
(***************************************************************************)
(* Proofs about FrameBuffer for every size of a line and of the screen and *)
(* any amount of drawing.                                                  *)
(***************************************************************************)
EXTENDS FrameBuffer, WellFoundedInduction, TLAPS

Wires == [start : BOOLEAN, valid : BOOLEAN, end : BOOLEAN, at : Word \X Lane, shadow : BOOLEAN]
Hpos  == {"zero", "past", "kick", "kick2", "rest"}
Line  == [Word -> [Lane -> Pixels]]

EngineType ==
    /\ wr \in Wires /\ drawing \in BOOLEAN /\ er_req \in BOOLEAN
    /\ work \in 0 .. MaxWork /\ runs \in 0 .. work

RunType ==
    /\ run_msk \in SUBSET (Word \X Lane)
    /\ run_ram \in [Word -> [Lane -> 0 .. MaxWork]]
    /\ run_ram_q \in [word : Word, runs : [Lane -> 0 .. MaxWork]]
    /\ run_shadow \in BOOLEAN /\ run_active \in BOOLEAN /\ flush_req \in BOOLEAN

DdrType ==
    /\ dst \in States /\ daddr \in Word /\ dwe \in BOOLEAN /\ drd \in BOOLEAN
    /\ ddin \in [Lane -> Pixels] /\ dbe \in SUBSET Lane
    /\ beat \in Word /\ beats \in Word /\ run_word_q \in Word
    /\ busy \in BOOLEAN /\ owing \in Nat /\ store \in Line /\ drawn \in Line

LineType ==
    /\ er_ack \in BOOLEAN /\ rd_ack \in BOOLEAN /\ rd_req \in BOOLEAN /\ rd_y \in Shown
    /\ line_ready \in BOOLEAN /\ display_bank \in Banks /\ fill_bank \in Banks
    /\ banks \in [Banks -> [Word -> Shown]]
    /\ vcnt \in 0 .. Visible /\ hpos \in Hpos /\ late \in BOOLEAN

TypeInv == EngineType /\ RunType /\ DdrType /\ LineType

(***************************************************************************)
(* Who has the turn: the engine draws a row, or the row it has ended is    *)
(* being written, or a line is being erased, and never two of them.        *)
(***************************************************************************)
Resting  == ~drawing /\ ~wr.start /\ ~wr.valid /\ ~wr.end
Flushing == dst \in FlushStates

TurnInv ==
    /\ wr.start => drawing /\ ~wr.valid /\ ~wr.end
    /\ wr.valid => run_active /\ (drawing \/ wr.end)
    /\ wr.end => run_active /\ ~drawing /\ ~er_req /\ ~flush_req /\ ~Flushing
    /\ drawing => (wr.start \/ run_active) /\ ~er_req /\ ~flush_req /\ ~Flushing
    /\ flush_req => Resting /\ ~er_req /\ ~Flushing
    /\ Flushing => Resting /\ ~er_req
    /\ dst = "ER" => er_req /\ ~er_ack
    /\ er_req => Resting

(***************************************************************************)
(* What is still to be written.  A flush walks from the first word of the  *)
(* run to the last; the words behind it are as drawn, and those before it  *)
(* lack just the pixels of the run.  The run RAM is one word ahead.        *)
(***************************************************************************)
AfterRun(w, l) ==
    IF l \notin LanesOf(w) THEN store[w][l]
    ELSE IF run_shadow THEN Shadowed(store[w][l]) ELSE Drawn(w, runs)

Lookup(w) == [word |-> w, runs |-> run_ram[w]]

WalkInv ==
    /\ run_msk # {} /\ daddr = run_word_q
    /\ run_word_q = run_x0 + beat /\ beats = run_xe - run_x0 /\ beat <= beats
    /\ run_shadow <=> dst \in {"SH_R", "SH_RW", "SH_W", "SH_SKIP"}
    /\ \A w \in Word : w < run_word_q => store[w] = drawn[w]
    /\ \A w \in Word, l \in Lane : run_word_q <= w => drawn[w][l] = AfterRun(w, l)

DataInv ==
    /\ dst \in {"WR_PF", "WR_SKIP_PF"} => run_ram_q = Lookup(run_word_q)
    /\ dst = "WR" =>
           /\ beat < beats => run_ram_q = Lookup(run_word_q + 1)
           /\ dbe = LanesOf(run_word_q)
           /\ \A l \in dbe : ddin[l] = Drawn(run_word_q, runs)
    /\ dst = "SH_W" =>
           /\ dbe = LanesOf(run_word_q)
           /\ \A l \in dbe : ddin[l] = Shadowed(store[run_word_q][l])

EraseInv ==
    /\ daddr = beat /\ dbe = Lane /\ ddin = BlankWord
    /\ \A w \in Word : w < beat => store[w] = BlankWord

StoreInv ==
    /\ ~wr.start => \A p \in run_msk : run_ram[p[1]][p[2]] = runs
    /\ dwe <=> dst \in {"ER", "WR", "SH_W"}
    /\ Flushing => WalkInv /\ DataInv
    /\ dst = "ER" => EraseInv
    /\ ~Flushing /\ dst # "ER" => store = drawn

(***************************************************************************)
(* The line banks.  The bank being filled is not the one being shown, and  *)
(* a line that has come stays in it until the raster publishes it.         *)
(***************************************************************************)
Fetched == ~rd_req \/ rd_ack
Holds(bank, y) == \A w \in Word : banks[bank][w] = y
Whole(bank) == \A w \in Word : banks[bank][w] = banks[bank][0]

FillInv ==
    /\ Whole(display_bank)
    /\ line_ready => fill_bank = 1 - display_bank /\ Whole(fill_bank) /\ dst \notin {"RD", "RD_W"}
    /\ line_ready /\ Fetched => Holds(fill_bank, rd_y)
    /\ rd_req /\ rd_ack => line_ready
    /\ dst \in {"RD", "RD_W"} => ~line_ready /\ fill_bank = 1 - display_bank /\ rd_req /\ ~rd_ack
    /\ dst = "RD" => beat = 0
    /\ dst = "RD_W" => \A w \in Word : w < beat => banks[fill_bank][w] = rd_y

\* The line of the raster has been fetched and is shown; the next one may have
\* been asked for, and when it has come it waits to be published.
ShownInv ==
    vcnt \in Shown /\ ~late =>
        /\ Holds(scan_bank, vcnt)
        /\ \/ rd_y = vcnt /\ (hpos \in {"zero", "past", "kick"} \/ vcnt = Visible - 1 => Fetched)
           \/ /\ rd_y = vcnt + 1 /\ hpos \in {"kick2", "rest"}
              /\ Fetched => line_ready

\* In the blank, line 0 is asked for again unless an unpublished one is there.
BlankInv ==
    vcnt = Visible /\ ~late =>
        /\ hpos = "kick" /\ Fetched /\ ~line_ready => ~rd_req /\ ~rd_ack
        /\ hpos \in {"kick2", "rest"} /\ rd_y = 0 /\ Fetched => line_ready

LineInv == FillInv /\ ShownInv /\ BlankInv

-----------------------------------------------------------------------------
(***************************************************************************)
(* Arithmetic and pixels.                                                  *)
(***************************************************************************)

\* A set of numbers has a least element, and a bounded one a greatest.
LEMMA Least ==
    ASSUME NEW S \in SUBSET Nat, S # {} PROVE Min(S) \in S /\ \A y \in S : Min(S) <= y
<1> DEFINE R == OpToRel(<, Nat)
<1>1. IsWellFoundedOn(R, Nat) BY NatLessThanWellFounded
<1>2. \A x, y \in Nat : x < y => <<x, y>> \in R BY DEF OpToRel
<1> HIDE DEF R
<1>3. PICK x \in S : \A y \in S : <<y, x>> \notin R BY <1>1, WFMin
<1>4. ASSUME NEW y \in S PROVE x <= y
  <2>1. x \in Nat /\ y \in Nat OBVIOUS
  <2>2. ~(y < x) BY <1>2, <1>3, <2>1
  <2> QED BY <2>1, <2>2
<1> QED BY <1>4 DEF Min

LEMMA Greatest ==
    ASSUME NEW n \in Nat, NEW S \in SUBSET (0 .. n), S # {}
    PROVE  Max(S) \in S /\ \A y \in S : y <= Max(S)
<1> DEFINE T == {n - x : x \in S}
<1>1. T \in SUBSET Nat BY \A x \in S : n - x \in Nat
<1>2. T # {} OBVIOUS
<1>3. Min(T) \in T /\ \A y \in T : Min(T) <= y BY <1>1, <1>2, Least
<1>4. PICK x \in S : Min(T) = n - x BY <1>3
<1>5. \A y \in S : x >= y BY <1>3, <1>4
<1>6. Max(S) \in S /\ \A y \in S : Max(S) >= y BY <1>5 DEF Max
<1> QED BY <1>6

\* A run that has pixels goes from its first word to its last.
LEMMA Span ==
    ASSUME run_msk \in SUBSET (Word \X Lane), run_msk # {}
    PROVE  /\ run_x0 \in Word /\ run_xe \in Word /\ run_x0 <= run_xe
           /\ \A p \in run_msk : run_x0 <= p[1] /\ p[1] <= run_xe
<1> DEFINE S == {p[1] : p \in run_msk}
<1>1. Words - 1 \in Nat BY LineAssumption
<1>2. S \in SUBSET (0 .. Words - 1) /\ S # {} BY DEF Word
<1>3. S \in SUBSET Nat BY <1>1, <1>2
<1> HIDE DEF S
<1>4. Min(S) \in S /\ \A y \in S : Min(S) <= y BY <1>2, <1>3, Least
<1>5. Max(S) \in S /\ \A y \in S : y <= Max(S) BY <1>1, <1>2, Greatest
<1>6. run_x0 = Min(S) /\ run_xe = Max(S) BY DEF run_x0, run_xe, S
<1>7. \A p \in run_msk : p[1] \in S BY DEF S
<1> QED BY <1>2, <1>4, <1>5, <1>6, <1>7 DEF Word

\* The next word of a line, while there is one, and the next line.
LEMMA UpIs ==
    ASSUME NEW w \in Word, NEW n \in Nat
    PROVE  Up(w, n) \in Word /\ (w + n \in Word => Up(w, n) = w + n)
BY LineAssumption DEF Up, Word

LEMMA NextLineIs ==
    ASSUME vcnt \in 0 .. Visible
    PROVE  NextLine = IF vcnt = Visible THEN 0 ELSE vcnt + 1
<1>1. CASE vcnt = Visible
  <2>1. \A n \in Nat : (n + 1) % (n + 1) = 0 OBVIOUS
  <2> QED BY <1>1, <2>1, LineAssumption DEF NextLine
<1>2. CASE vcnt # Visible
  <2>1. \A m \in Nat, n \in Nat : n + 1 < m => (n + 1) % m = n + 1 OBVIOUS
  <2> QED BY <1>2, <2>1, LineAssumption DEF NextLine
<1> QED BY <1>1, <1>2

\* Pixels are pixels when they are drawn, and when a shadow falls on them.
LEMMA PixelTypes ==
    /\ Erased \in Pixels
    /\ \A w \in Word : Held(w) \in Pixels
    /\ \A w \in Word, r \in 0 .. MaxWork : Drawn(w, r) \in Pixels
    /\ \A p \in Pixels : Shadowed(p) \in Pixels
<1>1. \A p \in Lit : Shadowed(Shadowed(p)) = Shadowed(p)
  <2>1. \A x : Shadowed(Shadowed([pen |-> x, lit |-> TRUE])) = Shadowed([pen |-> x, lit |-> TRUE])
    BY DEF Shadowed
  <2>2. \A p \in Lit : \E x : p = [pen |-> x, lit |-> TRUE]
    BY DEF Lit, Erased, Held, Drawn
  <2> QED BY <2>1, <2>2
<1>2. \A p \in Lit : p \in Pixels /\ Shadowed(p) \in Pixels BY DEF Pixels
<1>3. ASSUME NEW p \in Pixels PROVE Shadowed(p) \in Pixels
  <2>1. CASE p \in Lit BY <1>2, <2>1
  <2>2. CASE p \notin Lit
    <3>1. PICK q \in Lit : p = Shadowed(q) BY <2>2 DEF Pixels
    <3> QED BY <1>1, <1>2, <3>1
  <2> QED BY <2>1, <2>2
<1>4. /\ Erased \in Lit /\ (\A w \in Word : Held(w) \in Lit)
      /\ \A w \in Word, r \in 0 .. MaxWork : Drawn(w, r) \in Lit
  BY DEF Lit
<1> QED BY <1>2, <1>3, <1>4

-----------------------------------------------------------------------------
(***************************************************************************)
(* The turn.                                                               *)
(***************************************************************************)

LEMMA NoWireIsOne == NoWire \in Wires
<1>1. 0 \in Word /\ 1 \in Lane BY LineAssumption DEF Word, Lane
<1> QED BY <1>1 DEF NoWire, Wires

\* The engine's wires are those of one of its four moves.
LEMMA EngineTypeStep == ASSUME EngineType, Engine PROVE EngineType'
<1>0. NoWire \in Wires BY NoWireIsOne
<1>m. MaxWork \in Nat BY LineAssumption
<1>1. ASSUME NEW shadow \in BOOLEAN, StartsRow(shadow) PROVE EngineType'
  <2>1. wr' \in Wires BY <1>0, <1>1 DEF StartsRow, Wires
  <2>2. work' \in 0 .. MaxWork /\ runs' \in 0 .. work' BY <1>1, <1>m DEF StartsRow, EngineType
  <2> QED BY <1>1, <2>1, <2>2 DEF StartsRow, EngineType
<1>2. ASSUME NEW valid \in BOOLEAN, NEW end \in BOOLEAN, NEW at \in Word \X Lane,
             Draws(valid, end, at)
      PROVE EngineType'
  <2>1. wr' \in Wires BY <1>0, <1>2 DEF Draws, Wires
  <2>2. work' \in 0 .. MaxWork /\ work <= work' BY <1>2, <1>m DEF Draws, EngineType
  <2> QED BY <1>2, <1>m, <2>1, <2>2 DEF Draws, EngineType
<1>3. CASE StartsErase \/ EngineWaits
  <2>1. wr' = NoWire /\ drawing' = drawing /\ runs' = runs /\ er_req' \in BOOLEAN
    BY <1>3 DEF StartsErase, EngineWaits
  <2>2. work' \in 0 .. MaxWork /\ work <= work'
    BY <1>3, <1>m DEF StartsErase, EngineWaits, EngineType
  <2> QED BY <1>0, <1>m, <2>1, <2>2 DEF EngineType
<1> QED BY <1>1, <1>2, <1>3 DEF Engine

\* What each move does, without its details.
LEMMA EngineMoves ==
    ASSUME EngineType, Engine
    PROVE  \/ /\ ~drawing /\ ~wr.start /\ ~er_req /\ ~wr_busy
              /\ drawing' /\ ~er_req' /\ wr'.start /\ ~wr'.valid /\ ~wr'.end
           \/ /\ drawing /\ er_req' = er_req /\ runs' = runs
              /\ ~wr'.start /\ drawing' = ~wr'.end
           \/ /\ ~drawing /\ ~wr.start /\ ~wr_busy /\ runs' = runs /\ er_req'
              /\ ~drawing' /\ ~wr'.start /\ ~wr'.valid /\ ~wr'.end
           \/ /\ ~drawing /\ ~drawing' /\ er_req' = (er_req /\ ~er_ack) /\ runs' = runs
              /\ ~wr'.start /\ ~wr'.valid /\ ~wr'.end
<1>1. ASSUME NEW shadow \in BOOLEAN, StartsRow(shadow)
      PROVE  /\ ~drawing /\ ~wr.start /\ ~er_req /\ ~wr_busy
             /\ drawing' /\ ~er_req' /\ wr'.start /\ ~wr'.valid /\ ~wr'.end
  BY <1>1 DEF StartsRow, NoWire
<1>2. ASSUME NEW valid \in BOOLEAN, NEW end \in BOOLEAN, NEW at \in Word \X Lane,
             Draws(valid, end, at)
      PROVE  /\ drawing /\ er_req' = er_req /\ runs' = runs
             /\ ~wr'.start /\ drawing' = ~wr'.end
  BY <1>2 DEF Draws, NoWire
<1>3. CASE StartsErase BY <1>3 DEF StartsErase, NoWire
<1>4. CASE EngineWaits BY <1>4 DEF EngineWaits, NoWire
<1> QED BY <1>1, <1>2, <1>3, <1>4 DEF Engine

\* The DDR engine enters a flush or an erase from its idle state only.
LEMMA DdrMoves ==
    ASSUME NEW arrives \in BOOLEAN, DdrEngine(arrives)
    PROVE  /\ Flushing' => Flushing \/ (flush_accept /\ run_msk # {})
           /\ dst' = "ER" => (dst = "ER" /\ ~EraseDone) \/ (dst = "IDLE" /\ erase_pending)
           /\ dst' = "RD" => \/ dst = "RD" /\ beat' = beat
                             \/ dst = "IDLE" /\ ~erase_pending /\ read_pending /\ beat' = 0
           /\ dst' = "RD_W" => \/ dst = "RD" /\ beat' = beat
                               \/ dst = "RD_W" /\ ~arrives /\ beat' = beat
                               \/ dst = "RD_W" /\ arrives /\ beat # Words - 1 /\ beat' = beat + 1
<1> USE DEF Flushing, FlushStates, Goto, LineDone, EraseDone
<1>1. CASE Idle BY <1>1 DEF Idle
<1>2. CASE Prefetched BY <1>2 DEF Prefetched
<1>3. CASE EraseWord BY <1>3 DEF EraseWord
<1>4. CASE WriteWord BY <1>4 DEF WriteWord
<1>5. CASE SkipWord BY <1>5 DEF SkipWord, Skip
<1>6. CASE ReadAccepted BY <1>6 DEF ReadAccepted
<1>7. CASE ShadowRead(arrives) BY <1>7 DEF ShadowRead
<1>8. CASE ShadowWrite BY <1>8 DEF ShadowWrite
<1>9. CASE ShadowSkip BY <1>9 DEF ShadowSkip, Skip
<1>10. CASE LineWord(arrives) BY <1>10 DEF LineWord
<1>11. CASE Stalled(arrives) BY <1>11 DEF Stalled, ddrVars
<1> QED BY <1>1, <1>2, <1>3, <1>4, <1>5, <1>6, <1>7, <1>8, <1>9, <1>10, <1>11 DEF DdrEngine

\* The turn passes from the engine to the flush it asked for and back.
LEMMA TurnStep ==
    ASSUME TypeInv, TurnInv, NEW arrives \in BOOLEAN, Clock(arrives) PROVE TurnInv'
<1>c. Engine /\ Capture /\ DdrEngine(arrives) /\ Lines(arrives) BY DEF Clock
<1>b. /\ wr.start \in BOOLEAN /\ wr.valid \in BOOLEAN /\ wr.end \in BOOLEAN
      /\ drawing \in BOOLEAN /\ er_req \in BOOLEAN /\ er_ack \in BOOLEAN
      /\ run_active \in BOOLEAN /\ flush_req \in BOOLEAN
  BY DEF TypeInv, EngineType, RunType, LineType, Wires
<1>e. /\ EngineType'
      /\ \/ /\ ~drawing /\ ~wr.start /\ ~er_req /\ ~wr_busy
            /\ drawing' /\ ~er_req' /\ wr'.start /\ ~wr'.valid /\ ~wr'.end
         \/ /\ drawing /\ er_req' = er_req
            /\ ~wr'.start /\ drawing' = ~wr'.end
         \/ /\ ~drawing /\ ~wr.start /\ ~wr_busy /\ er_req'
            /\ ~drawing' /\ ~wr'.start /\ ~wr'.valid /\ ~wr'.end
         \/ /\ ~drawing /\ ~drawing' /\ er_req' = (er_req /\ ~er_ack)
            /\ ~wr'.start /\ ~wr'.valid /\ ~wr'.end
  BY <1>c, EngineMoves, EngineTypeStep DEF TypeInv
<1>b2. /\ wr'.start \in BOOLEAN /\ wr'.valid \in BOOLEAN /\ wr'.end \in BOOLEAN
       /\ drawing' \in BOOLEAN /\ er_req' \in BOOLEAN
  BY <1>e DEF EngineType, Wires
<1>d. /\ Flushing' => Flushing \/ (flush_accept /\ run_msk # {})
      /\ dst' = "ER" => (dst = "ER" /\ ~EraseDone) \/ (dst = "IDLE" /\ erase_pending)
  BY <1>c, DdrMoves
<1>r. /\ run_active' = ((wr.start \/ run_active) /\ ~flush_accept)
      /\ flush_req' = ((wr.end /\ run_active) \/ (flush_req /\ ~flush_accept))
      /\ er_ack' = (er_req /\ (er_ack \/ EraseDone))
  BY <1>c DEF Capture, Lines
<1>w. wr_busy <=> wr.end \/ flush_req \/ Flushing BY DEF wr_busy, Flushing
<1>a. flush_accept => dst = "IDLE" /\ flush_req BY DEF flush_accept
<1>n. /\ dst = "ER" \/ dst = "IDLE" => ~Flushing
      /\ dst = "IDLE" => ~EraseDone
  BY DEF Flushing, FlushStates, EraseDone
<1>p. erase_pending <=> er_req /\ ~er_ack BY DEF erase_pending
<1>i. /\ wr.start => drawing /\ ~wr.valid /\ ~wr.end
      /\ wr.valid => run_active /\ (drawing \/ wr.end)
      /\ wr.end => run_active /\ ~drawing /\ ~er_req /\ ~flush_req /\ ~Flushing
      /\ drawing => (wr.start \/ run_active) /\ ~er_req /\ ~flush_req /\ ~Flushing
      /\ flush_req => ~drawing /\ ~wr.start /\ ~wr.valid /\ ~wr.end /\ ~er_req /\ ~Flushing
      /\ Flushing => ~drawing /\ ~wr.start /\ ~wr.valid /\ ~wr.end /\ ~er_req
      /\ dst = "ER" => er_req /\ ~er_ack
      /\ er_req => ~drawing /\ ~wr.start /\ ~wr.valid /\ ~wr.end
  BY DEF TurnInv, Resting
<1> HIDE DEF Flushing
<1>1. /\ (wr'.start => drawing' /\ ~wr'.valid /\ ~wr'.end)
      /\ (wr'.valid => run_active' /\ (drawing' \/ wr'.end))
  BY <1>a, <1>b, <1>b2, <1>e, <1>i, <1>r
<1>2. wr'.end => run_active' /\ ~drawing' /\ ~er_req' /\ ~flush_req' /\ ~Flushing'
  BY <1>a, <1>b, <1>b2, <1>d, <1>e, <1>i, <1>r
<1>3. drawing' => (wr'.start \/ run_active') /\ ~er_req' /\ ~flush_req' /\ ~Flushing'
  BY <1>a, <1>b, <1>b2, <1>d, <1>e, <1>i, <1>r, <1>w
<1>4. flush_req' => ~drawing' /\ ~wr'.start /\ ~wr'.valid /\ ~wr'.end /\ ~er_req' /\ ~Flushing'
  BY <1>a, <1>b, <1>b2, <1>d, <1>e, <1>i, <1>r, <1>w
<1>5. Flushing' => ~drawing' /\ ~wr'.start /\ ~wr'.valid /\ ~wr'.end /\ ~er_req'
  BY <1>a, <1>b, <1>b2, <1>d, <1>e, <1>i, <1>r, <1>w
<1>6. dst' = "ER" => er_req' /\ ~er_ack'
  BY <1>b, <1>b2, <1>d, <1>e, <1>i, <1>n, <1>p, <1>r, <1>w
<1>7. er_req' => ~drawing' /\ ~wr'.start /\ ~wr'.valid /\ ~wr'.end
  BY <1>b, <1>b2, <1>e, <1>i
<1> QED BY <1>1, <1>2, <1>3, <1>4, <1>5, <1>6, <1>7 DEF TurnInv, Resting

-----------------------------------------------------------------------------
(***************************************************************************)
(* The lines.                                                              *)
(***************************************************************************)

\* The raster rests, goes on in its line or reaches the next one.
LEMMA RasterMoves ==
    ASSUME vcnt \in 0 .. Visible, hpos \in Hpos, RasterStep
    PROVE  \/ hpos' = hpos /\ vcnt' = vcnt /\ hpos \notin {"kick", "kick2"}
           \/ hpos = "zero" /\ hpos' = "past" /\ vcnt' = vcnt
           \/ hpos = "past" /\ hpos' = "kick" /\ vcnt' = vcnt
           \/ hpos = "kick" /\ hpos' = "kick2" /\ vcnt' = vcnt
           \/ hpos = "kick2" /\ hpos' = "rest" /\ vcnt' = vcnt
           \/ /\ hpos = "rest" /\ hpos' = "zero"
              /\ vcnt' = IF vcnt = Visible THEN 0 ELSE vcnt + 1
BY NextLineIs DEF RasterStep, HposAfter, Hpos

\* A request stays until it is acknowledged; the raster makes the next one.
LEMMA RequestMoves ==
    ASSUME LineType, LineRequest, NEW arrives \in BOOLEAN, Lines(arrives)
    PROVE  \/ rd_req /\ rd_req' = ~rd_ack /\ rd_y' = rd_y
           \/ /\ ~rd_req /\ ~rd_ack /\ Kick /\ rd_req' = TRUE /\ rd_ack' = FALSE
              /\ rd_y' = (IF vcnt = Visible THEN 0 ELSE vcnt + 1)
           \/ ~rd_req /\ (rd_ack \/ ~Kick) /\ rd_req' = FALSE /\ rd_ack' = FALSE /\ rd_y' = rd_y
BY NextLineIs DEF LineRequest, Lines, LineType

\* Every part of the line side keeps its type.
LEMMA LineTypeStep ==
    ASSUME TypeInv, NEW arrives \in BOOLEAN, Clock(arrives) PROVE LineType'
<1>c. RasterStep /\ LineRequest /\ Lines(arrives) /\ late' = LateNext BY DEF Clock
<1>t. LineType /\ EngineType /\ beat \in Word BY DEF TypeInv, DdrType
<1>v. Visible \in Nat /\ Visible > 1 BY LineAssumption
<1>1. vcnt' \in 0 .. Visible /\ hpos' \in Hpos
  <2>1. vcnt \in 0 .. Visible /\ hpos \in Hpos BY <1>t DEF LineType
  <2> QED BY <1>c, <1>v, <2>1, RasterMoves DEF Hpos
<1>2. rd_y' \in Shown /\ rd_req' \in BOOLEAN
  <2>1. rd_y \in Shown /\ rd_ack \in BOOLEAN /\ vcnt \in 0 .. Visible BY <1>t DEF LineType
  <2>2. Kick => (IF vcnt = Visible THEN 0 ELSE vcnt + 1) \in Shown
    BY <1>v, <2>1 DEF Kick, Shown
  <2> QED BY <1>c, <1>t, <2>1, <2>2, RequestMoves
<1>3. /\ er_ack' \in BOOLEAN /\ rd_ack' \in BOOLEAN /\ line_ready' \in BOOLEAN
      /\ display_bank' \in Banks /\ fill_bank' \in Banks
  BY <1>c, <1>t DEF Lines, LineType, EngineType, Banks, LineDone, EraseDone
<1>4. banks' \in [Banks -> [Word -> Shown]]
  BY <1>c, <1>t DEF Lines, LineType
<1>5. late' \in BOOLEAN BY <1>c, <1>t DEF LateNext, LineType
<1> QED BY <1>1, <1>2, <1>3, <1>4, <1>5 DEF LineType

\* What an edge does to the banks and to the line that has come.
LEMMA LineMoves ==
    ASSUME LineType, FillInv, NEW arrives \in BOOLEAN, Lines(arrives), DdrEngine(arrives)
    PROVE  /\ rd_ack' = (rd_req /\ (rd_ack \/ LineDone(arrives)))
           /\ line_ready' = (LineDone(arrives) \/ (line_ready /\ ~Publish))
           /\ display_bank' = IF Publish THEN fill_bank ELSE display_bank
           /\ LineDone(arrives) => dst = "RD_W" /\ arrives /\ ~line_ready
           /\ dst \in {"RD", "RD_W"} \/ line_ready => fill_bank' = fill_bank
           /\ dst # "RD_W" => banks' = banks
           /\ \A w \in Word : banks'[display_bank][w] = banks[display_bank][w]
BY DEF Lines, FillInv, LineDone, read_pending, LineType, Banks

LEMMA FillStep ==
    ASSUME TypeInv, FillInv, NEW arrives \in BOOLEAN, Clock(arrives) PROVE FillInv'
<1>c. LineRequest /\ DdrEngine(arrives) /\ Lines(arrives) BY DEF Clock
<1>t. LineType /\ beat \in Word /\ 0 \in Word /\ Words \in Nat
  BY LineAssumption DEF TypeInv, DdrType, Word
<1>r. \/ rd_req /\ rd_req' = ~rd_ack /\ rd_y' = rd_y
      \/ ~rd_req /\ rd_req' = TRUE /\ rd_ack' = FALSE
      \/ ~rd_req /\ rd_req' = FALSE /\ rd_ack' = FALSE /\ rd_y' = rd_y
  BY <1>c, <1>t, RequestMoves
<1>m. /\ rd_ack' = (rd_req /\ (rd_ack \/ LineDone(arrives)))
      /\ line_ready' = (LineDone(arrives) \/ (line_ready /\ ~Publish))
      /\ display_bank' = IF Publish THEN fill_bank ELSE display_bank
      /\ LineDone(arrives) => dst = "RD_W" /\ arrives /\ ~line_ready
      /\ dst \in {"RD", "RD_W"} \/ line_ready => fill_bank' = fill_bank
      /\ dst # "RD_W" => banks' = banks
      /\ \A w \in Word : banks'[display_bank][w] = banks[display_bank][w]
  BY <1>c, <1>t, LineMoves
<1>d. /\ dst' = "RD" => \/ dst = "RD" /\ beat' = beat
                        \/ dst = "IDLE" /\ ~erase_pending /\ read_pending /\ beat' = 0
      /\ dst' = "RD_W" => \/ dst = "RD" /\ beat' = beat
                          \/ dst = "RD_W" /\ ~arrives /\ beat' = beat
                          \/ dst = "RD_W" /\ arrives /\ beat # Words - 1 /\ beat' = beat + 1
  BY <1>c, DdrMoves
<1>b. /\ rd_req \in BOOLEAN /\ rd_ack \in BOOLEAN /\ line_ready \in BOOLEAN
      /\ display_bank \in {0, 1} /\ fill_bank \in {0, 1}
  BY <1>t DEF LineType, Banks
<1>p. Publish => line_ready BY DEF Publish
<1>1. CASE dst = "RD_W" /\ arrives
  <2>1. /\ ~line_ready /\ ~Publish /\ fill_bank = 1 - display_bank /\ rd_req /\ ~rd_ack
        /\ fill_bank' = fill_bank /\ display_bank' = display_bank /\ rd_y' = rd_y /\ rd_req'
        /\ \A w \in Word : w < beat => banks[fill_bank][w] = rd_y
    BY <1>1, <1>m, <1>p, <1>r DEF FillInv
  <2>2. \A w \in Word : banks'[fill_bank][w] = IF w = beat THEN rd_y ELSE banks[fill_bank][w]
    <3>1. banks' = [banks EXCEPT ![fill_bank][beat] = rd_y] BY <1>1, <1>c DEF Lines
    <3>2. fill_bank \in Banks /\ banks \in [Banks -> [Word -> Shown]] BY <1>t DEF LineType
    <3> QED BY <1>t, <3>1, <3>2
  <2>3. Whole(display_bank)'
    <3>1. Whole(display_bank) BY DEF FillInv
    <3>2. \A w \in Word : banks'[display_bank'][w] = banks[display_bank][w] BY <1>m, <2>1
    <3> QED BY <1>t, <3>1, <3>2 DEF Whole
  <2>4. \A w \in Word : w < beat + 1 => banks'[fill_bank][w] = rd_y
    BY <1>t, <2>1, <2>2 DEF Word
  <2>5. CASE LineDone(arrives)
    <3>1. Holds(fill_bank, rd_y)'
      <4>1. beat = Words - 1 BY <2>5 DEF LineDone
      <4> QED BY <1>t, <2>1, <2>4, <4>1 DEF Holds, Word
    <3>2. Whole(fill_bank)' BY <1>t, <3>1 DEF Holds, Whole
    <3>3. dst' \notin {"RD", "RD_W"} BY <1>1, <1>d, <2>5 DEF LineDone
    <3> QED BY <1>m, <2>1, <2>3, <2>5, <3>1, <3>2, <3>3 DEF FillInv
  <2>6. CASE ~LineDone(arrives)
    <3>1. ~line_ready' /\ ~rd_ack' BY <1>m, <2>1, <2>6
    <3>2. dst' = "RD_W" => beat' = beat + 1 BY <1>1, <1>d
    <3>3. dst' # "RD" BY <1>1, <1>d
    <3> QED BY <2>1, <2>3, <2>4, <3>1, <3>2, <3>3 DEF FillInv
  <2> QED BY <2>5, <2>6
<1>2. CASE ~(dst = "RD_W" /\ arrives)
  <2>1. banks' = banks /\ ~LineDone(arrives) BY <1>2, <1>c, <1>m DEF Lines
  <2>2. /\ Whole(display_bank)'
        /\ line_ready' => line_ready /\ ~Publish /\ fill_bank' = fill_bank
                          /\ display_bank' = display_bank
    <3>1. Whole(display_bank) /\ (line_ready => Whole(fill_bank)) BY DEF FillInv
    <3> QED BY <1>m, <1>p, <2>1, <3>1 DEF Whole
  <2>3. line_ready' => /\ fill_bank' = 1 - display_bank' /\ Whole(fill_bank)'
                       /\ dst' \notin {"RD", "RD_W"}
    BY <1>d, <2>1, <2>2 DEF FillInv, Whole, read_pending
  <2>4. line_ready' /\ Fetched' => Holds(fill_bank, rd_y)'
    <3>1. Fetched' => Fetched /\ rd_y' = rd_y BY <1>b, <1>m, <1>r, <2>1 DEF Fetched
    <3> QED BY <2>1, <2>2, <3>1 DEF FillInv, Holds
  <2>5. rd_req' /\ rd_ack' => line_ready' BY <1>b, <1>m, <1>r, <2>1
  <2>6. dst' \in {"RD", "RD_W"} =>
            /\ ~line_ready' /\ fill_bank' = 1 - display_bank' /\ rd_req' /\ ~rd_ack'
            /\ rd_y' = rd_y
    <3> SUFFICES ASSUME dst' \in {"RD", "RD_W"}
                 PROVE  /\ ~line_ready' /\ fill_bank' = 1 - display_bank' /\ rd_req' /\ ~rd_ack'
                        /\ rd_y' = rd_y
      OBVIOUS
    <3>1. rd_req /\ ~rd_ack /\ ~line_ready
      BY <1>d DEF FillInv, read_pending
    <3>2. fill_bank' = 1 - display_bank
      BY <1>c, <1>d, <1>m DEF Lines, FillInv
    <3> QED BY <1>m, <1>p, <1>r, <2>1, <3>1, <3>2
  <2>7. dst' = "RD" => beat' = 0 BY <1>d DEF FillInv
  <2>8. dst' = "RD_W" => \A w \in Word : w < beat' => banks'[fill_bank'][w] = rd_y'
    <3> SUFFICES ASSUME dst' = "RD_W", NEW w \in Word, w < beat'
                 PROVE  banks'[fill_bank'][w] = rd_y'
      OBVIOUS
    <3>1. \/ dst = "RD" /\ beat' = beat
          \/ dst = "RD_W" /\ beat' = beat
      BY <1>2, <1>d
    <3>2. dst # "RD" BY <3>1 DEF FillInv, Word
    <3>3. banks[fill_bank][w] = rd_y BY <3>1, <3>2 DEF FillInv
    <3> QED BY <1>m, <2>1, <2>6, <3>1, <3>3
  <2> QED BY <2>2, <2>3, <2>4, <2>5, <2>6, <2>7, <2>8 DEF FillInv
<1> QED BY <1>1, <1>2

\* What both invariants of the raster need of an edge.
LEMMA FetchMoves ==
    ASSUME TypeInv, FillInv, NEW arrives \in BOOLEAN, Clock(arrives)
    PROVE  /\ \/ rd_y' = rd_y /\ (Fetched /\ ~Kick => Fetched')
                 /\ (Fetched' => Fetched \/ line_ready')
              \/ /\ ~rd_req /\ ~rd_ack /\ Kick /\ ~Fetched'
                 /\ rd_y' = (IF vcnt = Visible THEN 0 ELSE vcnt + 1)
           /\ Kick /\ ~rd_req /\ ~rd_ack => ~Fetched'
           /\ Fetched /\ ~line_ready => ~rd_req
           /\ Fetched /\ ~rd_req /\ ~Kick => ~rd_req' /\ ~rd_ack'
           /\ line_ready /\ hpos # "zero" => line_ready'
<1>c. LineRequest /\ DdrEngine(arrives) /\ Lines(arrives) BY DEF Clock
<1>t. LineType BY DEF TypeInv
<1>r. \/ rd_req /\ rd_req' = ~rd_ack /\ rd_y' = rd_y
      \/ /\ ~rd_req /\ ~rd_ack /\ Kick /\ rd_req' = TRUE /\ rd_ack' = FALSE
         /\ rd_y' = (IF vcnt = Visible THEN 0 ELSE vcnt + 1)
      \/ ~rd_req /\ (rd_ack \/ ~Kick) /\ rd_req' = FALSE /\ rd_ack' = FALSE /\ rd_y' = rd_y
  BY <1>c, <1>t, RequestMoves
<1>m. /\ rd_ack' = (rd_req /\ (rd_ack \/ LineDone(arrives)))
      /\ line_ready' = (LineDone(arrives) \/ (line_ready /\ ~Publish))
  BY <1>c, <1>t, LineMoves
<1>b. rd_req \in BOOLEAN /\ rd_ack \in BOOLEAN /\ line_ready \in BOOLEAN BY <1>t DEF LineType
<1>a. rd_req /\ rd_ack => line_ready BY DEF FillInv
<1> DEFINE done == LineDone(arrives)
<1> HIDE DEF done
<1>n. /\ rd_ack' = (rd_req /\ (rd_ack \/ done))
      /\ line_ready' = (done \/ (line_ready /\ ~Publish))
  BY <1>m DEF done
<1>1. CASE rd_req /\ rd_req' = ~rd_ack /\ rd_y' = rd_y
  BY <1>1, <1>a, <1>b, <1>n DEF Fetched, Publish
<1>2. CASE ~rd_req /\ ~rd_ack /\ Kick /\ rd_req' = TRUE /\ rd_ack' = FALSE
  BY <1>2, <1>b, <1>n, <1>r DEF Fetched, Publish
<1>3. CASE ~rd_req /\ (rd_ack \/ ~Kick) /\ rd_req' = FALSE /\ rd_ack' = FALSE /\ rd_y' = rd_y
  BY <1>3, <1>b, <1>n DEF Fetched, Publish
<1> QED BY <1>1, <1>2, <1>3, <1>r

\* The bank on the screen keeps its line until the raster reaches the next one.
LEMMA ScanKeeps ==
    ASSUME TypeInv, FillInv, NEW arrives \in BOOLEAN, Clock(arrives),
           hpos = "zero" => Fetched,
           ~(hpos # "zero" /\ hpos' = "zero"), NEW y, Holds(scan_bank, y)
    PROVE  Holds(scan_bank, y)'
<1>c. DdrEngine(arrives) /\ Lines(arrives) /\ LineType BY DEF Clock, TypeInv
<1>m. /\ line_ready' = (LineDone(arrives) \/ (line_ready /\ ~Publish))
      /\ display_bank' = IF Publish THEN fill_bank ELSE display_bank
      /\ LineDone(arrives) => dst = "RD_W" /\ arrives /\ ~line_ready
      /\ dst # "RD_W" => banks' = banks
      /\ \A w \in Word : banks'[display_bank][w] = banks[display_bank][w]
  BY <1>c, LineMoves
<1>1. CASE hpos = "zero"
  <2>1. dst # "RD_W" BY <1>1 DEF FillInv, Fetched
  <2>2. display_bank' = scan_bank /\ ~line_ready'
    BY <1>1, <1>c, <1>m, <2>1 DEF scan_bank, Publish, LineType
  <2>3. scan_bank' = scan_bank BY <2>2 DEF scan_bank, Publish
  <2> QED BY <1>m, <2>1, <2>3 DEF Holds
<1>2. CASE hpos # "zero"
  <2>1. scan_bank = display_bank /\ display_bank' = display_bank BY <1>2, <1>m DEF scan_bank, Publish
  <2>2. scan_bank' = display_bank' BY <1>2 DEF scan_bank, Publish
  <2> QED BY <1>m, <2>1, <2>2 DEF Holds
<1> QED BY <1>1, <1>2

LEMMA ShownStep ==
    ASSUME TypeInv, LineInv, NEW arrives \in BOOLEAN, Clock(arrives) PROVE ShownInv'
<1>c. RasterStep /\ DdrEngine(arrives) /\ Lines(arrives) /\ late' = LateNext /\ LineType
  BY DEF Clock, TypeInv
<1>i. FillInv /\ ShownInv /\ BlankInv BY DEF LineInv
<1>v. Visible \in Nat /\ Visible > 1 /\ vcnt \in 0 .. Visible /\ hpos \in Hpos /\ rd_y \in Shown
  BY <1>c, LineAssumption DEF LineType
<1>f. /\ \/ rd_y' = rd_y /\ (Fetched /\ ~Kick => Fetched') /\ (Fetched' => Fetched \/ line_ready')
         \/ /\ Kick /\ ~Fetched' /\ rd_y' = (IF vcnt = Visible THEN 0 ELSE vcnt + 1)
      /\ line_ready /\ hpos # "zero" => line_ready'
  BY <1>i, FetchMoves
<1>p. \/ hpos' = hpos /\ vcnt' = vcnt /\ hpos \notin {"kick", "kick2"}
      \/ hpos = "zero" /\ hpos' = "past" /\ vcnt' = vcnt
      \/ hpos = "past" /\ hpos' = "kick" /\ vcnt' = vcnt
      \/ hpos = "kick" /\ hpos' = "kick2" /\ vcnt' = vcnt
      \/ hpos = "kick2" /\ hpos' = "rest" /\ vcnt' = vcnt
      \/ hpos = "rest" /\ hpos' = "zero" /\ vcnt' = IF vcnt = Visible THEN 0 ELSE vcnt + 1
  BY <1>c, <1>v, RasterMoves
<1> SUFFICES ASSUME vcnt' \in Shown, ~late'
             PROVE  /\ Holds(scan_bank, vcnt)'
                    /\ \/ /\ rd_y' = vcnt'
                          /\ hpos' \in {"zero", "past", "kick"} \/ vcnt' = Visible - 1 => Fetched'
                       \/ /\ rd_y' = vcnt' + 1 /\ hpos' \in {"kick2", "rest"}
                          /\ Fetched' => line_ready'
  BY DEF ShownInv, Shown
<1>1. CASE hpos # "zero" /\ hpos' = "zero"
  <2>1. hpos = "rest" /\ vcnt' = IF vcnt = Visible THEN 0 ELSE vcnt + 1 BY <1>1, <1>p
  <2>2. ~late /\ rd_y = vcnt' /\ Fetched
    <3>1. vcnt' # Visible BY <1>v DEF Shown
    <3>2. late' = (vcnt' # Visible /\ (late \/ ~Answered(vcnt'))) BY <1>1, <1>c DEF LateNext
    <3> QED BY <3>1, <3>2 DEF Answered, Fetched
  <2>3. line_ready
    <3>1. CASE vcnt = Visible BY <1>i, <2>1, <2>2, <3>1 DEF BlankInv
    <3>2. CASE vcnt # Visible
      <4>1. vcnt \in Shown /\ rd_y = vcnt + 1 BY <1>v, <2>1, <2>2, <3>2 DEF Shown
      <4> QED BY <1>i, <1>v, <2>2, <4>1 DEF ShownInv, Shown
    <3> QED BY <3>1, <3>2
  <2>4. ~Kick BY <2>1 DEF Kick
  <2>5. /\ line_ready' /\ fill_bank' = fill_bank /\ banks' = banks
        /\ rd_y' = rd_y /\ Fetched'
    BY <1>c, <1>f, <1>i, <2>1, <2>2, <2>3, <2>4, LineMoves DEF FillInv
  <2>6. scan_bank' = fill_bank BY <1>1, <2>5 DEF scan_bank, Publish
  <2>7. Holds(fill_bank, rd_y) BY <1>i, <2>2, <2>3 DEF FillInv
  <2> QED BY <1>1, <2>2, <2>5, <2>6, <2>7 DEF Holds
<1>2. CASE ~(hpos # "zero" /\ hpos' = "zero")
  <2>1. vcnt' = vcnt /\ late' = late BY <1>2, <1>c, <1>p DEF LateNext
  <2>2. /\ Holds(scan_bank, vcnt)
        /\ \/ rd_y = vcnt /\ (hpos \in {"zero", "past", "kick"} \/ vcnt = Visible - 1 => Fetched)
           \/ rd_y = vcnt + 1 /\ hpos \in {"kick2", "rest"} /\ (Fetched => line_ready)
    BY <1>i, <2>1 DEF ShownInv
  <2>3. Holds(scan_bank, vcnt)'
    <3>1. hpos = "zero" => Fetched BY <2>2
    <3> QED BY <1>2, <1>i, <2>1, <2>2, <3>1, ScanKeeps DEF Holds
  <2>4. vcnt \in Shown /\ vcnt # Visible BY <1>v, <2>1 DEF Shown
  <2>5. CASE Kick /\ ~Fetched' /\ rd_y' = (IF vcnt = Visible THEN 0 ELSE vcnt + 1)
    <3>1. hpos' \in {"kick2", "rest"} BY <1>p, <2>5 DEF Kick
    <3> QED BY <2>1, <2>3, <2>4, <2>5, <3>1
  <2>6. CASE /\ rd_y' = rd_y /\ (Fetched /\ ~Kick => Fetched')
             /\ (Fetched' => Fetched \/ line_ready')
    <3>1. CASE rd_y = vcnt /\ (hpos \in {"zero", "past", "kick"} \/ vcnt = Visible - 1 => Fetched)
      <4>1. hpos' \in {"zero", "past", "kick"} => hpos \in {"zero", "past"} BY <1>2, <1>p, <1>v
      <4>2. hpos \in {"zero", "past"} \/ vcnt = Visible - 1 => ~Kick BY DEF Kick
      <4> QED BY <2>1, <2>3, <2>6, <3>1, <4>1, <4>2
    <3>2. CASE rd_y = vcnt + 1 /\ hpos \in {"kick2", "rest"} /\ (Fetched => line_ready)
      <4>1. hpos' \in {"kick2", "rest"} BY <1>2, <1>p, <3>2
      <4>2. Fetched' => line_ready' BY <1>f, <2>6, <3>2
      <4> QED BY <2>1, <2>3, <2>6, <3>2, <4>1, <4>2
    <3> QED BY <2>2, <3>1, <3>2
  <2> QED BY <1>f, <2>5, <2>6
<1> QED BY <1>1, <1>2

LEMMA BlankStep ==
    ASSUME TypeInv, LineInv, NEW arrives \in BOOLEAN, Clock(arrives) PROVE BlankInv'
<1>c. RasterStep /\ late' = LateNext /\ LineType BY DEF Clock, TypeInv
<1>i. FillInv /\ BlankInv BY DEF LineInv
<1>v. Visible \in Nat /\ Visible > 1 /\ vcnt \in 0 .. Visible /\ hpos \in Hpos
  BY <1>c, LineAssumption DEF LineType
<1>f. /\ \/ rd_y' = rd_y /\ (Fetched' => Fetched \/ line_ready')
         \/ Kick /\ ~Fetched'
      /\ Kick /\ ~rd_req /\ ~rd_ack => ~Fetched'
      /\ Fetched /\ ~line_ready => ~rd_req
      /\ Fetched /\ ~rd_req /\ ~Kick => ~rd_req' /\ ~rd_ack'
      /\ line_ready /\ hpos # "zero" => line_ready'
  BY <1>i, FetchMoves
<1>p. \/ hpos' = hpos /\ vcnt' = vcnt /\ hpos \notin {"kick", "kick2"}
      \/ hpos = "zero" /\ hpos' = "past" /\ vcnt' = vcnt
      \/ hpos = "past" /\ hpos' = "kick" /\ vcnt' = vcnt
      \/ hpos = "kick" /\ hpos' = "kick2" /\ vcnt' = vcnt
      \/ hpos = "kick2" /\ hpos' = "rest" /\ vcnt' = vcnt
      \/ hpos = "rest" /\ hpos' = "zero" /\ vcnt' = IF vcnt = Visible THEN 0 ELSE vcnt + 1
  BY <1>c, <1>v, RasterMoves
<1> SUFFICES ASSUME vcnt' = Visible, ~late', hpos' # "zero"
             PROVE  /\ hpos' = "kick" /\ Fetched' /\ ~line_ready' => ~rd_req' /\ ~rd_ack'
                    /\ hpos' \in {"kick2", "rest"} /\ rd_y' = 0 /\ Fetched' => line_ready'
  BY DEF BlankInv
<1>1. vcnt = Visible /\ ~late BY <1>c, <1>p DEF LateNext
<1>2. ASSUME hpos' = "kick", Fetched', ~line_ready' PROVE ~rd_req' /\ ~rd_ack'
  <2>1. hpos = "past" BY <1>2, <1>p
  <2>2. ~Kick BY <2>1 DEF Kick
  <2>3. Fetched /\ ~line_ready BY <1>2, <1>f, <2>1, <2>2
  <2> QED BY <1>f, <2>2, <2>3
<1>3. ASSUME hpos' \in {"kick2", "rest"}, rd_y' = 0, Fetched' PROVE line_ready'
  <2>1. rd_y = 0 /\ (Fetched \/ line_ready') BY <1>3, <1>f
  <2>2. CASE hpos = "kick"
    <3>1. Kick BY <1>1, <1>v, <2>2 DEF Kick
    <3>2. ~(~rd_req /\ ~rd_ack) BY <1>3, <1>f, <3>1
    <3>3. Fetched => line_ready BY <1>1, <1>i, <2>2, <3>2 DEF BlankInv
    <3> QED BY <1>f, <2>1, <2>2, <3>3
  <2>3. CASE hpos \in {"kick2", "rest"}
    <3>1. Fetched => line_ready BY <1>1, <1>i, <2>1, <2>3 DEF BlankInv
    <3> QED BY <1>f, <2>1, <2>3, <3>1
  <2> QED BY <1>3, <1>p, <2>2, <2>3
<1> QED BY <1>2, <1>3

-----------------------------------------------------------------------------
(***************************************************************************)
(* The store.                                                              *)
(***************************************************************************)
USE DEF Goto, Strobes

\* The captured run is left alone from its end until it has been written, and
\* the run RAM then looks up the word it is told to.
LEMMA RunRests ==
    ASSUME TypeInv, TurnInv, NEW arrives \in BOOLEAN, Clock(arrives), flush_req \/ Flushing
    PROVE  /\ run_msk' = run_msk /\ run_ram' = run_ram /\ run_shadow' = run_shadow
           /\ runs' = runs /\ run_ram_q' = Lookup(RunReadAddress)
<1>c. Engine /\ Capture BY DEF Clock
<1>1. ~wr.start /\ ~wr.valid /\ ~drawing BY DEF TurnInv, Resting
<1>2. wr_busy BY DEF wr_busy, Flushing
<1>3. runs' = runs BY <1>c, <1>1, <1>2, EngineMoves DEF TypeInv
<1>4. run_msk' = run_msk /\ run_ram' = run_ram /\ run_shadow' = run_shadow
  BY <1>c, <1>1 DEF Capture, Capturing
<1>5. run_ram_q' = Lookup(RunReadAddress) BY <1>c, <1>4 DEF Capture, Lookup
<1> QED BY <1>3, <1>4, <1>5

\* The pixels captured are of the row being drawn.
LEMMA RunIsOwn ==
    ASSUME TypeInv, TurnInv, StoreInv, NEW arrives \in BOOLEAN, Clock(arrives), ~wr'.start
    PROVE  \A p \in run_msk' : run_ram'[p[1]][p[2]] = runs'
<1>c. Engine /\ Capture /\ RunType /\ EngineType BY DEF Clock, TypeInv
<1>1. runs' = runs BY <1>c, EngineMoves
<1>2. CASE wr.start BY <1>2, <1>c DEF Capture
<1>3. CASE ~wr.start
  <2>1. \A p \in run_msk : run_ram[p[1]][p[2]] = runs BY <1>3 DEF StoreInv
  <2>2. CASE Capturing
    <3>1. wr.at \in Word \X Lane BY <1>c DEF EngineType, Wires
    <3>2. PICK w \in Word, l \in Lane : wr.at = <<w, l>> BY <3>1
    <3>3. run_msk' = run_msk \cup {<<w, l>>} /\ run_ram' = [run_ram EXCEPT ![w][l] = runs]
      BY <1>3, <1>c, <2>2, <3>2 DEF Capture
    <3>4. ASSUME NEW p \in run_msk' PROVE run_ram'[p[1]][p[2]] = runs
      <4>1. PICK v \in Word, m \in Lane : p = <<v, m>> BY <1>c, <3>3 DEF RunType
      <4>2. run_ram'[v][m] = IF v = w /\ m = l THEN runs ELSE run_ram[v][m]
        BY <1>c, <3>3 DEF RunType
      <4>3. (v = w /\ m = l) \/ run_ram[v][m] = runs
        <5>1. p \in run_msk \/ p = <<w, l>> BY <3>3
        <5> QED BY <2>1, <4>1, <5>1
      <4> QED BY <4>1, <4>2, <4>3
    <3> QED BY <1>1, <3>4
  <2>3. CASE ~Capturing
    <3>1. run_msk' = run_msk /\ run_ram' = run_ram BY <1>3, <1>c, <2>3 DEF Capture
    <3> QED BY <1>1, <2>1, <3>1
  <2> QED BY <2>2, <2>3
<1> QED BY <1>2, <1>3

\* The write strobe is up in the three states that write.
LEMMA StrobeStep ==
    ASSUME StoreInv, NEW arrives \in BOOLEAN, DdrEngine(arrives)
    PROVE  dwe' <=> dst' \in {"ER", "WR", "SH_W"}
<1>i. dwe <=> dst \in {"ER", "WR", "SH_W"} BY DEF StoreInv
<1>1. CASE Idle BY <1>1, <1>i DEF Idle
<1>2. CASE Prefetched BY <1>2 DEF Prefetched
<1>3. CASE EraseWord BY <1>3 DEF EraseWord
<1>4. CASE WriteWord BY <1>4 DEF WriteWord
<1>5. CASE SkipWord BY <1>5 DEF SkipWord, Skip
<1>6. CASE ReadAccepted BY <1>6 DEF ReadAccepted
<1>7. CASE ShadowRead(arrives) BY <1>7 DEF ShadowRead
<1>8. CASE ShadowWrite BY <1>8 DEF ShadowWrite
<1>9. CASE ShadowSkip BY <1>9 DEF ShadowSkip, Skip
<1>10. CASE LineWord(arrives) BY <1>10, <1>i DEF LineWord
<1>11. CASE Stalled(arrives) BY <1>11, <1>i DEF Stalled, ddrVars
<1> QED BY <1>1, <1>2, <1>3, <1>4, <1>5, <1>6, <1>7, <1>8, <1>9, <1>10, <1>11 DEF DdrEngine

\* Every part of the DDR side keeps its type.
LEMMA LineIs ==
    ASSUME NEW s \in Line, NEW t \in Line
    PROVE  (\A w \in Word : s[w] = t[w]) => s = t
BY DEF Line

LEMMA StoreTypeStep ==
    ASSUME TypeInv, NEW arrives \in BOOLEAN, Clock(arrives)
    PROVE  store' \in Line /\ drawn' \in Line /\ busy' \in BOOLEAN /\ owing' \in Nat
<1>c. Memory(arrives) /\ Composed /\ DdrType /\ EngineType BY DEF Clock, TypeInv
<1>m. MaxWork \in Nat /\ Words \in Nat BY LineAssumption
<1>1. store' \in Line
  <2>1. store \in [Word -> [Lane -> Pixels]] /\ ddin \in [Lane -> Pixels] /\ daddr \in Word
    BY <1>c DEF DdrType, Line
  <2>2. [l \in Lane |-> IF l \in dbe THEN ddin[l] ELSE store[daddr][l]] \in [Lane -> Pixels]
    BY <2>1
  <2> QED BY <1>c, <2>1, <2>2 DEF Memory, Line
<1>2. drawn' \in Line
  <2>1. runs \in 0 .. MaxWork BY <1>c, <1>m DEF EngineType
  <2>2. drawn \in [Word -> [Lane -> Pixels]] BY <1>c DEF DdrType, Line
  <2>3. \A w \in Word, l \in Lane :
            /\ drawn[w][l] \in Pixels /\ Shadowed(drawn[w][l]) \in Pixels
            /\ Drawn(w, runs) \in Pixels
    BY <2>1, <2>2, PixelTypes
  <2>4. [w \in Word |-> BlankWord] \in Line BY PixelTypes DEF BlankWord, Line
  <2>5. [w \in Word |-> [l \in Lane |->
            IF l \notin LanesOf(w) THEN drawn[w][l]
            ELSE IF run_shadow THEN Shadowed(drawn[w][l]) ELSE Drawn(w, runs)]] \in Line
    BY <2>3 DEF Line
  <2> QED BY <1>c, <2>2, <2>4, <2>5 DEF Composed, Line
<1>3. busy' \in BOOLEAN BY <1>c DEF Memory
<1>4. owing' \in Nat BY <1>c, <1>m DEF Memory, DdrType
<1> QED BY <1>1, <1>2, <1>3, <1>4

LEMMA WalkTypes ==
    ASSUME TypeInv, StoreInv, Flushing, beat # beats
    PROVE  beat + 1 \in Word /\ run_word_q + 1 \in Word /\ beat < beats
<1>1. WalkInv /\ beat \in Word /\ beats \in Word /\ run_msk \in SUBSET (Word \X Lane)
  BY DEF StoreInv, TypeInv, DdrType, RunType
<1>2. run_x0 \in Word /\ run_xe \in Word BY <1>1, Span DEF WalkInv
<1> QED BY <1>1, <1>2, LineAssumption DEF WalkInv, Word

LEMMA DdrTypeStep ==
    ASSUME TypeInv, StoreInv, NEW arrives \in BOOLEAN, Clock(arrives)
    PROVE  DdrType'
<1>c. DdrEngine(arrives) /\ DdrType /\ RunType BY DEF Clock, TypeInv
<1>s. store' \in Line /\ drawn' \in Line /\ busy' \in BOOLEAN /\ owing' \in Nat
  BY StoreTypeStep
<1>m. 0 \in Word /\ Words - 1 \in Word BY LineAssumption DEF Word
<1>b. BlankWord \in [Lane -> Pixels] BY PixelTypes DEF BlankWord
<1>r. FromRun \in [Lane -> Pixels]
  <2>1. /\ run_ram_q.word \in Word
        /\ \A l \in Lane : run_ram_q.runs[l] \in 0 .. MaxWork
    BY <1>c DEF RunType
  <2> QED BY <2>1, PixelTypes DEF FromRun
<1>l. \A w : LanesOf(w) \subseteq Lane BY DEF LanesOf
<1>u. \A n \in {1, 2} : Up(run_word_q, n) \in Word /\ Up(daddr, n) \in Word
  BY <1>c, UpIs DEF DdrType
<1>w. Flushing /\ beat # beats => beat + 1 \in Word BY WalkTypes
<1>t. /\ dst \in States /\ daddr \in Word /\ dwe \in BOOLEAN /\ drd \in BOOLEAN
      /\ ddin \in [Lane -> Pixels] /\ dbe \in SUBSET Lane
      /\ beat \in Word /\ beats \in Word /\ run_word_q \in Word
  BY <1>c DEF DdrType
<1> SUFFICES /\ dst' \in States /\ daddr' \in Word /\ dwe' \in BOOLEAN /\ drd' \in BOOLEAN
             /\ ddin' \in [Lane -> Pixels] /\ dbe' \in SUBSET Lane
             /\ beat' \in Word /\ beats' \in Word /\ run_word_q' \in Word
  BY <1>s DEF DdrType
<1>1. CASE Idle
  <2>1. run_msk # {} => run_x0 \in Word /\ run_xe - run_x0 \in Word
    BY <1>c, Span, LineAssumption DEF RunType, Word
  <2> QED BY <1>1, <1>b, <1>m, <1>t, <2>1 DEF Idle, States, FlushStates
<1>2. CASE Prefetched BY <1>2, <1>l, <1>r, <1>t DEF Prefetched, States, FlushStates
<1>3. CASE EraseWord
  <2>1. beat = daddr BY <1>3 DEF EraseWord, StoreInv, EraseInv
  <2>2. beat # Words - 1 => beat + 1 \in Word BY <1>t, LineAssumption DEF Word
  <2> QED BY <1>3, <1>t, <2>1, <2>2 DEF EraseWord, States
<1>4. CASE WriteWord
  <2>1. Flushing BY <1>4 DEF WriteWord, Flushing, FlushStates
  <2> QED BY <1>4, <1>l, <1>r, <1>t, <1>u, <1>w, <2>1 DEF WriteWord, NextWord, States, FlushStates
<1>5. CASE SkipWord \/ ShadowSkip
  <2>1. Flushing BY <1>5 DEF SkipWord, ShadowSkip, Flushing, FlushStates
  <2> QED BY <1>5, <1>t, <1>u, <1>w, <2>1
          DEF SkipWord, ShadowSkip, Skip, NextWord, States, FlushStates
<1>6. CASE ReadAccepted BY <1>6, <1>t DEF ReadAccepted, States, FlushStates
<1>7. CASE ShadowRead(arrives)
  <2>1. \A l \in Lane : store[daddr][l] \in Pixels BY <1>c DEF DdrType, Line
  <2>2. ddin' \in [Lane -> Pixels] BY <1>7, <2>1, PixelTypes DEF ShadowRead
  <2> QED BY <1>7, <1>l, <1>t, <2>2 DEF ShadowRead, States, FlushStates
<1>8. CASE ShadowWrite
  <2>1. Flushing BY <1>8 DEF ShadowWrite, Flushing, FlushStates
  <2> QED BY <1>8, <1>l, <1>t, <1>u, <1>w, <2>1 DEF ShadowWrite, NextWord, States, FlushStates
<1>9. CASE LineWord(arrives)
  <2>1. beat # Words - 1 => beat + 1 \in Word BY <1>t, LineAssumption DEF Word
  <2> QED BY <1>9, <1>m, <1>t, <2>1 DEF LineWord, States
<1>10. CASE Stalled(arrives) BY <1>10, <1>t DEF Stalled, ddrVars
<1> QED BY <1>c, <1>1, <1>2, <1>3, <1>4, <1>5, <1>6, <1>7, <1>8, <1>9, <1>10 DEF DdrEngine

LEMMA RunTypeStep ==
    ASSUME TypeInv, NEW arrives \in BOOLEAN, Clock(arrives) PROVE RunType'
<1>c. Capture /\ RunType /\ EngineType /\ DdrType BY DEF Clock, TypeInv
<1>1. wr.at \in Word \X Lane /\ wr.shadow \in BOOLEAN /\ runs \in 0 .. MaxWork
  BY <1>c, LineAssumption DEF EngineType, Wires
<1>2. run_msk' \in SUBSET (Word \X Lane) BY <1>1, <1>c DEF Capture, RunType
<1>3. run_ram' \in [Word -> [Lane -> 0 .. MaxWork]]
  <2>1. PICK w \in Word, l \in Lane : wr.at = <<w, l>> BY <1>1
  <2>2. run_ram' = run_ram \/ run_ram' = [run_ram EXCEPT ![w][l] = runs]
    BY <1>c, <2>1 DEF Capture
  <2>3. run_ram \in [Word -> [Lane -> 0 .. MaxWork]] BY <1>c DEF RunType
  <2>4. [run_ram[w] EXCEPT ![l] = runs] \in [Lane -> 0 .. MaxWork] BY <1>1, <2>1, <2>3
  <2>5. CASE run_ram' = run_ram BY <2>3, <2>5
  <2>6. CASE run_ram' = [run_ram EXCEPT ![w][l] = runs] BY <2>1, <2>3, <2>4, <2>6
  <2> QED BY <2>2, <2>5, <2>6
<1>4. RunReadAddress \in Word
  <2>1. run_msk # {} => run_x0 \in Word BY <1>c, Span DEF RunType
  <2>2. Words - 1 \in Word BY LineAssumption DEF Word
  <2>3. run_word_q \in Word /\ Up(run_word_q, 1) \in Word /\ Up(run_word_q, 2) \in Word
    BY <1>c, UpIs DEF DdrType
  <2> QED BY <2>1, <2>2, <2>3 DEF RunReadAddress
<1>5. run_ram_q' \in [word : Word, runs : [Lane -> 0 .. MaxWork]]
  BY <1>3, <1>4, <1>c DEF Capture, RunType
<1>6. run_shadow' \in BOOLEAN /\ run_active' \in BOOLEAN /\ flush_req' \in BOOLEAN
  BY <1>1, <1>c DEF Capture, RunType
<1> QED BY <1>2, <1>3, <1>5, <1>6 DEF RunType

\* The word on the wires is taken as it should be.
LEMMA WordTaken ==
    ASSUME TypeInv, NEW arrives \in BOOLEAN, Memory(arrives), dwe, ~busy
    PROVE  \A w \in Word, l \in Lane :
               store'[w][l] = IF w = daddr /\ l \in dbe THEN ddin[l] ELSE store[w][l]
<1>1. store \in [Word -> [Lane -> Pixels]] /\ daddr \in Word
  BY DEF TypeInv, DdrType, Line
<1>2. store' = [store EXCEPT ![daddr] = [l \in Lane |-> IF l \in dbe THEN ddin[l] ELSE @[l]]]
  BY DEF Memory
<1> QED BY <1>1, <1>2

\* A flush leaves the history alone, and the frame and the run with it.
LEMMA FlushFrame ==
    ASSUME TypeInv, TurnInv, NEW arrives \in BOOLEAN, Clock(arrives), Flushing
    PROVE  /\ drawn' = drawn /\ runs' = runs /\ run_shadow' = run_shadow
           /\ run_msk' = run_msk /\ run_ram' = run_ram /\ run_ram_q' = Lookup(RunReadAddress)
           /\ run_x0' = run_x0 /\ run_xe' = run_xe /\ \A w : LanesOf(w)' = LanesOf(w)
<1>1. /\ run_msk' = run_msk /\ run_ram' = run_ram /\ run_shadow' = run_shadow
      /\ runs' = runs /\ run_ram_q' = Lookup(RunReadAddress)
  BY RunRests
<1>2. ~flush_req /\ dst # "ER" BY DEF TurnInv, Flushing, FlushStates
<1>3. drawn' = drawn BY <1>2 DEF Clock, Composed, EraseDone
<1> QED BY <1>1, <1>3 DEF run_x0, run_xe, LanesOf

\* A flush that stays at its word.
LEMMA WalkStays ==
    ASSUME TypeInv, TurnInv, WalkInv, NEW arrives \in BOOLEAN, Clock(arrives), Flushing,
           UNCHANGED <<daddr, run_word_q, beat, beats, store>>,
           run_shadow <=> dst' \in {"SH_R", "SH_RW", "SH_W", "SH_SKIP"}
    PROVE  WalkInv'
<1>1. /\ drawn' = drawn /\ runs' = runs /\ run_shadow' = run_shadow /\ run_msk' = run_msk
      /\ run_x0' = run_x0 /\ run_xe' = run_xe /\ \A w : LanesOf(w)' = LanesOf(w)
  BY FlushFrame
<1>2. \A w, l : AfterRun(w, l)' = AfterRun(w, l) BY <1>1 DEF AfterRun
<1> QED BY <1>1, <1>2 DEF WalkInv

\* A flush whose word is as drawn goes to the next or has ended.
LEMMA WalkOn ==
    ASSUME TypeInv, TurnInv, StoreInv, NEW arrives \in BOOLEAN, Clock(arrives), Flushing,
           store'[run_word_q] = drawn[run_word_q],
           \A w \in Word : w # run_word_q => store'[w] = store[w]
    PROVE  /\ beat = beats => store' = drawn'
           /\ /\ beat # beats /\ NextWord /\ beats' = beats
              /\ run_shadow <=> dst' \in {"SH_R", "SH_RW", "SH_W", "SH_SKIP"}
              => /\ WalkInv'
                 /\ run_word_q' = run_word_q + 1 /\ Up(run_word_q, 1) = run_word_q + 1
<1>i. WalkInv BY DEF StoreInv
<1>t. /\ run_msk \in SUBSET (Word \X Lane) /\ run_word_q \in Word /\ daddr = run_word_q
      /\ beat \in Word /\ beats \in Word /\ store \in Line /\ drawn \in Line
  BY <1>i DEF TypeInv, RunType, DdrType, WalkInv
<1>f. /\ drawn' = drawn /\ runs' = runs /\ run_shadow' = run_shadow /\ run_msk' = run_msk
      /\ run_x0' = run_x0 /\ run_xe' = run_xe /\ \A w : LanesOf(w)' = LanesOf(w)
  BY FlushFrame
<1>s. /\ run_x0 \in Word /\ run_xe \in Word
      /\ \A p \in run_msk : run_x0 <= p[1] /\ p[1] <= run_xe
  BY <1>i, <1>t, Span DEF WalkInv
<1>b. \A w \in Word : w <= run_word_q => store'[w] = drawn[w]
  BY <1>i, <1>t DEF WalkInv, Word
<1>1. ASSUME beat = beats PROVE store' = drawn'
  <2>1. run_word_q = run_xe BY <1>1, <1>i, <1>s, <1>t DEF WalkInv, Word
  <2>2. ASSUME NEW w \in Word, run_xe < w PROVE store[w] = drawn[w]
    <3>1. LanesOf(w) = {}
      <4>1. ASSUME NEW l \in Lane, <<w, l>> \in run_msk PROVE FALSE
        <5>1. w <= run_xe BY <1>s, <4>1
        <5> QED BY <1>s, <2>2, <5>1 DEF Word
      <4> QED BY <4>1 DEF LanesOf
    <3>2. run_word_q <= w BY <1>s, <2>1, <2>2 DEF Word
    <3>3. \A l \in Lane : drawn[w][l] = store[w][l]
      BY <1>i, <3>1, <3>2 DEF WalkInv, AfterRun
    <3> QED BY <1>t, <3>3 DEF Line
  <2>3. \A w \in Word : store'[w] = drawn[w]
    <3> TAKE w \in Word
    <3>1. CASE w <= run_word_q BY <1>b, <3>1
    <3>2. CASE ~(w <= run_word_q)
      <4>1. run_xe < w /\ w # run_word_q BY <1>s, <2>1, <3>2 DEF Word
      <4> QED BY <2>2, <4>1
    <3> QED BY <3>1, <3>2
  <2>4. store' \in Line BY StoreTypeStep
  <2> QED BY <1>f, <1>t, <2>3, <2>4, LineIs
<1>2. ASSUME beat # beats, NextWord, beats' = beats,
             run_shadow <=> dst' \in {"SH_R", "SH_RW", "SH_W", "SH_SKIP"}
      PROVE  /\ WalkInv'
             /\ run_word_q' = run_word_q + 1 /\ Up(run_word_q, 1) = run_word_q + 1
  <2>1. beat + 1 \in Word /\ run_word_q + 1 \in Word /\ beat < beats BY <1>2, WalkTypes
  <2>2. Up(run_word_q, 1) = run_word_q + 1 BY <1>t, <2>1, UpIs
  <2>3. beat' = beat + 1 /\ run_word_q' = run_word_q + 1 /\ daddr' = run_word_q + 1
    BY <1>2, <1>t, <2>2 DEF NextWord
  <2>4. run_word_q' = run_x0' + beat' /\ beats' = run_xe' - run_x0' /\ beat' <= beats'
    BY <1>2, <1>f, <1>i, <1>s, <1>t, <2>1, <2>3 DEF WalkInv, Word
  <2>5. \A w \in Word : w < run_word_q' => store'[w] = drawn'[w]
    BY <1>b, <1>f, <1>t, <2>3 DEF Word
  <2>6. ASSUME NEW w \in Word, NEW l \in Lane, run_word_q' <= w
        PROVE  drawn'[w][l] = AfterRun(w, l)'
    <3>1. run_word_q <= w /\ w # run_word_q BY <1>t, <2>3, <2>6 DEF Word
    <3>2. drawn[w][l] = AfterRun(w, l) /\ store'[w] = store[w] BY <1>i, <3>1 DEF WalkInv
    <3> QED BY <1>f, <3>2 DEF AfterRun
  <2> QED BY <1>2, <1>f, <1>i, <2>2, <2>3, <2>4, <2>5, <2>6 DEF WalkInv
<1> QED BY <1>1, <1>2

\* A word without a pixel of the run is as drawn.
LEMMA NothingToWrite ==
    ASSUME TypeInv, WalkInv, LanesOf(run_word_q) = {} PROVE store[run_word_q] = drawn[run_word_q]
<1>1. run_word_q \in Word /\ store \in Line /\ drawn \in Line BY DEF TypeInv, DdrType
<1>2. run_word_q <= run_word_q BY <1>1 DEF Word
<1>3. \A l \in Lane : drawn[run_word_q][l] = store[run_word_q][l]
  BY <1>1, <1>2 DEF WalkInv, AfterRun
<1> QED BY <1>1, <1>3 DEF Line

\* The word a flush writes is as drawn once it has been taken.
LEMMA WordWritten ==
    ASSUME TypeInv, StoreInv, NEW arrives \in BOOLEAN, Memory(arrives), ~busy,
           dst \in {"WR", "SH_W"}
    PROVE  /\ store'[run_word_q] = drawn[run_word_q]
           /\ \A w \in Word : w # run_word_q => store'[w] = store[w]
<1>1. WalkInv /\ DataInv /\ dwe BY DEF StoreInv, Flushing, FlushStates
<1>2. /\ run_word_q \in Word /\ store \in Line /\ drawn \in Line /\ store' \in Line
      /\ daddr = run_word_q
  BY <1>1, WordTaken DEF TypeInv, DdrType, WalkInv, Memory, Line
<1>3. \A w \in Word, l \in Lane :
          store'[w][l] = IF w = run_word_q /\ l \in dbe THEN ddin[l] ELSE store[w][l]
  BY <1>1, <1>2, WordTaken
<1>4. dbe = LanesOf(run_word_q) BY <1>1 DEF DataInv
<1>5. \A l \in dbe : ddin[l] = IF run_shadow THEN Shadowed(store[run_word_q][l])
                               ELSE Drawn(run_word_q, runs)
  BY <1>1 DEF DataInv, WalkInv
<1>6. \A l \in Lane : drawn[run_word_q][l] = AfterRun(run_word_q, l)
  <2>1. run_word_q <= run_word_q BY <1>2 DEF Word
  <2> QED BY <1>1, <1>2, <2>1 DEF WalkInv
<1>7. \A l \in Lane : store'[run_word_q][l] = drawn[run_word_q][l]
  BY <1>2, <1>3, <1>4, <1>5, <1>6 DEF AfterRun
<1> QED BY <1>2, <1>3, <1>7 DEF Line

\* Without a write strobe, or while it is held up, nothing is written.
LEMMA NothingTaken ==
    ASSUME StoreInv, NEW arrives \in BOOLEAN, Memory(arrives),
           busy \/ dst \notin {"ER", "WR", "SH_W"}
    PROVE  store' = store
BY DEF StoreInv, Memory

\* The data of a word that the run RAM has looked up.
LEMMA RunData ==
    ASSUME TypeInv, StoreInv, ~wr.start, NEW w \in Word, run_ram_q = Lookup(w)
    PROVE  \A l \in LanesOf(w) : FromRun[l] = Drawn(w, runs)
<1> SUFFICES ASSUME NEW l \in LanesOf(w) PROVE FromRun[l] = Drawn(w, runs)
  OBVIOUS
<1>1. l \in Lane /\ <<w, l>> \in run_msk BY DEF LanesOf
<1>2. run_ram[w][l] = runs BY <1>1 DEF StoreInv
<1>3. run_ram_q.word = w /\ run_ram_q.runs[l] = run_ram[w][l] BY DEF Lookup
<1> QED BY <1>1, <1>2, <1>3 DEF FromRun

\* What the walk has left once its word is done with.
FlushGoal ==
    /\ Flushing' => WalkInv' /\ DataInv'
    /\ dst' # "ER" /\ (~Flushing' => store' = drawn')

LEMMA PlainStep ==
    ASSUME TypeInv, TurnInv, StoreInv, NEW arrives \in BOOLEAN, Clock(arrives),
           Prefetched \/ WriteWord
    PROVE  FlushGoal
<1>f. Flushing BY DEF Prefetched, WriteWord, Flushing, FlushStates
<1>c. Memory(arrives) /\ run_word_q \in Word /\ beat \in Word /\ beats \in Word
  BY DEF Clock, TypeInv, DdrType
<1>i. WalkInv /\ DataInv BY <1>f DEF StoreInv
<1>w. ~wr.start BY <1>f DEF TurnInv, Resting
<1>h. ~run_shadow BY <1>i DEF WalkInv, Prefetched, WriteWord
<1>r. /\ runs' = runs /\ run_ram' = run_ram /\ run_ram_q' = Lookup(RunReadAddress)
      /\ \A w : LanesOf(w)' = LanesOf(w)
  BY <1>f, FlushFrame
<1>n. beat # beats => /\ beat + 1 \in Word /\ run_word_q + 1 \in Word /\ beat < beats
                      /\ Up(run_word_q, 1) = run_word_q + 1
  BY <1>c, <1>f, UpIs, WalkTypes
<1>1. CASE Prefetched
  <2>1. /\ dst \in {"WR_PF", "WR_SKIP_PF"} /\ dst' = "WR" /\ ddin' = FromRun
        /\ dbe' = LanesOf(run_word_q)
        /\ UNCHANGED <<daddr, beat, beats, run_word_q>>
    BY <1>1 DEF Prefetched
  <2>2. store' = store BY <1>c, <2>1, NothingTaken
  <2>3. WalkInv' BY <1>f, <1>h, <1>i, <2>1, <2>2, WalkStays
  <2>4. run_ram_q = Lookup(run_word_q) BY <1>i, <2>1 DEF DataInv
  <2>5. \A l \in dbe' : ddin'[l] = Drawn(run_word_q', runs')
    BY <1>c, <1>r, <1>w, <2>1, <2>4, RunData
  <2>6. beat' < beats' => run_ram_q' = Lookup(run_word_q + 1)'
    <3>1. RunReadAddress = Up(run_word_q, 1) BY <2>1 DEF RunReadAddress
    <3>2. beat' < beats' => beat # beats BY <1>c, <2>1 DEF Word
    <3>3. beat' < beats' => run_ram_q' = Lookup(run_word_q + 1) BY <1>n, <1>r, <3>1, <3>2
    <3> QED BY <1>r, <2>1, <3>3 DEF Lookup
  <2>7. dbe' = LanesOf(run_word_q)' BY <1>r, <2>1 DEF LanesOf
  <2> QED BY <2>1, <2>3, <2>5, <2>6, <2>7 DEF FlushGoal, DataInv, Flushing, FlushStates
<1>2. CASE WriteWord
  <2>1. dst = "WR" /\ ~busy /\ ddin' = FromRun /\ beats' = beats BY <1>2 DEF WriteWord
  <2>2. /\ store'[run_word_q] = drawn[run_word_q]
        /\ \A w \in Word : w # run_word_q => store'[w] = store[w]
    BY <1>c, <2>1, WordWritten
  <2>3. /\ beat = beats => store' = drawn'
        /\ beat # beats /\ NextWord
              /\ (run_shadow <=> dst' \in {"SH_R", "SH_RW", "SH_W", "SH_SKIP"})
           => WalkInv' /\ run_word_q' = run_word_q + 1
    BY <1>f, <2>1, <2>2, WalkOn
  <2>4. CASE beat = beats
    BY <1>2, <2>3, <2>4 DEF WriteWord, FlushGoal, Flushing, FlushStates
  <2>5. CASE beat # beats /\ LanesOf(Up(run_word_q, 1)) = {}
    <3>1. NextWord /\ dst' = "WR_SKIP" BY <1>2, <2>5 DEF WriteWord
    <3> QED BY <1>h, <2>3, <2>5, <3>1 DEF FlushGoal, DataInv, Flushing, FlushStates
  <2>6. CASE beat # beats /\ LanesOf(Up(run_word_q, 1)) # {}
    <3>1. NextWord /\ dst' = "WR" /\ dbe' = LanesOf(run_word_q + 1)
      BY <1>2, <1>n, <2>1, <2>6 DEF WriteWord
    <3>2. WalkInv' /\ run_word_q' = run_word_q + 1 /\ beat' = beat + 1
      BY <1>h, <2>3, <2>6, <3>1 DEF NextWord
    <3>3. run_ram_q = Lookup(run_word_q + 1) BY <1>i, <1>n, <2>1, <2>6 DEF DataInv
    <3>4. \A l \in dbe' : ddin'[l] = Drawn(run_word_q', runs')
      BY <1>n, <1>r, <1>w, <2>1, <2>6, <3>1, <3>2, <3>3, RunData
    <3>5. dbe' = LanesOf(run_word_q)' BY <1>r, <3>1, <3>2 DEF LanesOf
    <3>6. beat' < beats' => run_ram_q' = Lookup(run_word_q + 1)'
      <4>1. run_x0 \in Word /\ run_xe \in Word
        BY <1>i, Span DEF WalkInv, TypeInv, RunType
      <4>2. RunReadAddress = Up(run_word_q, 2) BY <2>1 DEF RunReadAddress
      <4>3. run_word_q = run_x0 + beat /\ beats = run_xe - run_x0 BY <1>i DEF WalkInv
      <4>4. beat + 1 < beats => run_word_q + 2 \in Word
        BY <1>c, <4>1, <4>3, LineAssumption DEF Word
      <4>5. beat + 1 < beats => Up(run_word_q, 2) = run_word_q + 2
        BY <1>c, <4>4, UpIs
      <4>6. beat + 1 < beats => run_ram_q' = Lookup(run_word_q + 2)
        BY <1>r, <4>2, <4>5
      <4>7. run_word_q' + 1 = run_word_q + 2 BY <1>c, <3>2 DEF Word
      <4> QED BY <1>r, <2>1, <3>2, <4>6, <4>7 DEF Lookup
    <3> QED BY <3>1, <3>2, <3>4, <3>5, <3>6 DEF FlushGoal, DataInv, Flushing, FlushStates
  <2> QED BY <2>4, <2>5, <2>6
<1> QED BY <1>1, <1>2

LEMMA SkipStep ==
    ASSUME TypeInv, TurnInv, StoreInv, NEW arrives \in BOOLEAN, Clock(arrives),
           SkipWord \/ ShadowSkip
    PROVE  FlushGoal
<1>f. Flushing BY DEF SkipWord, ShadowSkip, Flushing, FlushStates
<1>i. WalkInv /\ DataInv BY <1>f DEF StoreInv
<1>d. dst \in {"WR_SKIP", "SH_SKIP"} /\ (run_shadow <=> dst = "SH_SKIP")
  BY <1>i DEF SkipWord, ShadowSkip, WalkInv
<1>s. store' = store
  <2>1. Memory(arrives) BY DEF Clock
  <2> QED BY <1>d, <2>1, NothingTaken
<1>k. /\ beats' = beats
      /\ \/ /\ dst' = (IF dst = "WR_SKIP" THEN "WR_SKIP_PF" ELSE "SH_R")
            /\ UNCHANGED <<beat, run_word_q, daddr>>
         \/ LanesOf(run_word_q) = {} /\ beat = beats /\ dst' = "IDLE"
         \/ LanesOf(run_word_q) = {} /\ beat # beats /\ NextWord /\ dst' = dst
  BY DEF SkipWord, ShadowSkip, Skip
<1>1. CASE /\ dst' = (IF dst = "WR_SKIP" THEN "WR_SKIP_PF" ELSE "SH_R")
           /\ UNCHANGED <<beat, run_word_q, daddr>>
  <2>1. WalkInv' BY <1>1, <1>d, <1>f, <1>i, <1>k, <1>s, WalkStays
  <2>2. run_ram_q' = Lookup(run_word_q) /\ run_ram' = run_ram
    <3>1. RunReadAddress = run_word_q BY <1>d DEF RunReadAddress
    <3> QED BY <1>f, <3>1, FlushFrame
  <2>3. DataInv' BY <1>1, <1>d, <2>2 DEF DataInv, Lookup
  <2> QED BY <1>1, <1>d, <2>1, <2>3 DEF FlushGoal, Flushing, FlushStates
<1>2. CASE LanesOf(run_word_q) = {}
  <2>1. /\ beat = beats => store' = drawn'
        /\ beat # beats /\ NextWord /\ dst' = dst => WalkInv'
    <3>1. store'[run_word_q] = drawn[run_word_q] BY <1>2, <1>i, <1>s, NothingToWrite
    <3> QED BY <1>d, <1>f, <1>k, <1>s, <3>1, WalkOn
  <2>2. CASE beat = beats /\ dst' = "IDLE"
    BY <2>1, <2>2 DEF FlushGoal, Flushing, FlushStates
  <2>3. CASE beat # beats /\ NextWord /\ dst' = dst
    BY <1>d, <2>1, <2>3 DEF FlushGoal, DataInv, Flushing, FlushStates
  <2> QED BY <1>1, <1>k, <2>2, <2>3
<1> QED BY <1>1, <1>2, <1>k

LEMMA ShadowStep ==
    ASSUME TypeInv, TurnInv, StoreInv, NEW arrives \in BOOLEAN, Clock(arrives), Flushing,
           ReadAccepted \/ ShadowRead(arrives) \/ ShadowWrite
    PROVE  FlushGoal
<1>c. Memory(arrives) /\ run_word_q \in Word BY DEF Clock, TypeInv, DdrType
<1>i. WalkInv /\ DataInv BY DEF StoreInv
<1>d. dst \in {"SH_R", "SH_RW", "SH_W"} /\ run_shadow
  BY <1>i DEF ReadAccepted, ShadowRead, ShadowWrite, WalkInv, Flushing, FlushStates
<1>l. \A w : LanesOf(w)' = LanesOf(w) BY FlushFrame
<1>1. CASE ReadAccepted
  <2>1. dst = "SH_R" /\ dst' = "SH_RW" /\ UNCHANGED <<daddr, beat, beats, run_word_q>>
    BY <1>1, <1>d DEF ReadAccepted
  <2>2. store' = store BY <1>c, <2>1, NothingTaken
  <2>3. WalkInv' BY <1>d, <1>i, <2>1, <2>2, WalkStays
  <2> QED BY <2>1, <2>3 DEF FlushGoal, DataInv, Flushing, FlushStates
<1>2. CASE ShadowRead(arrives)
  <2>1. /\ dst = "SH_RW" /\ dst' = "SH_W" /\ UNCHANGED <<daddr, beat, beats, run_word_q>>
        /\ ddin' = [l \in Lane |-> Shadowed(store[daddr][l])] /\ dbe' = LanesOf(run_word_q)
    BY <1>2 DEF ShadowRead
  <2>2. store' = store BY <1>c, <2>1, NothingTaken
  <2>3. WalkInv' BY <1>d, <1>i, <2>1, <2>2, WalkStays
  <2>4. daddr = run_word_q /\ LanesOf(run_word_q) \subseteq Lane BY <1>i DEF WalkInv, LanesOf
  <2>5. \A l \in dbe' : ddin'[l] = Shadowed(store'[run_word_q'][l]) BY <2>1, <2>2, <2>4
  <2>6. dbe' = LanesOf(run_word_q)' BY <1>l, <2>1 DEF LanesOf
  <2> QED BY <2>1, <2>3, <2>5, <2>6 DEF FlushGoal, DataInv, Flushing, FlushStates
<1>3. CASE ShadowWrite
  <2>1. dst = "SH_W" /\ ~busy /\ beats' = beats BY <1>3 DEF ShadowWrite
  <2>2. /\ store'[run_word_q] = drawn[run_word_q]
        /\ \A w \in Word : w # run_word_q => store'[w] = store[w]
    BY <1>c, <2>1, WordWritten
  <2>3. /\ beat = beats => store' = drawn'
        /\ beat # beats /\ NextWord /\ dst' \in {"SH_R", "SH_SKIP"} => WalkInv'
    BY <1>d, <2>1, <2>2, WalkOn
  <2>4. CASE beat = beats
    BY <1>3, <2>3, <2>4 DEF ShadowWrite, FlushGoal, Flushing, FlushStates
  <2>5. CASE beat # beats
    <3>1. NextWord /\ dst' \in {"SH_R", "SH_SKIP"} BY <1>3, <2>5 DEF ShadowWrite
    <3> QED BY <2>3, <2>5, <3>1 DEF FlushGoal, DataInv, Flushing, FlushStates
  <2> QED BY <2>4, <2>5
<1> QED BY <1>1, <1>2, <1>3

\* A stalled flush; the look-ahead waits for the write it is ahead of.
LEMMA StalledStep ==
    ASSUME TypeInv, TurnInv, StoreInv, NEW arrives \in BOOLEAN, Clock(arrives), Flushing,
           Stalled(arrives)
    PROVE  FlushGoal
<1>c. Memory(arrives) /\ run_word_q \in Word /\ beat \in Word /\ beats \in Word
  BY DEF Clock, TypeInv, DdrType
<1>i. WalkInv /\ DataInv BY DEF StoreInv
<1>d. /\ (dst \in {"WR", "SH_R", "SH_W"} /\ busy) \/ dst = "SH_RW"
      /\ UNCHANGED ddrVars
  BY DEF Stalled, Flushing, FlushStates
<1>1. store' = store BY <1>c, <1>d, NothingTaken
<1>2. WalkInv'
  <2>1. run_shadow <=> dst' \in {"SH_R", "SH_RW", "SH_W", "SH_SKIP"}
    BY <1>d, <1>i DEF WalkInv, ddrVars
  <2> QED BY <1>1, <1>d, <1>i, <2>1, WalkStays DEF ddrVars
<1>3. /\ runs' = runs /\ run_ram' = run_ram /\ run_ram_q' = Lookup(RunReadAddress)
      /\ \A w : LanesOf(w)' = LanesOf(w)
  BY FlushFrame
<1>4. dst = "WR" /\ beat < beats => run_ram_q' = Lookup(run_word_q + 1)
  <2> SUFFICES ASSUME dst = "WR", beat < beats PROVE run_ram_q' = Lookup(run_word_q + 1)
    OBVIOUS
  <2>1. RunReadAddress = Up(run_word_q, 1) BY <1>d DEF RunReadAddress
  <2>2. beat # beats BY <1>c DEF Word
  <2>3. Up(run_word_q, 1) = run_word_q + 1 BY <1>c, <2>2, UpIs, WalkTypes
  <2> QED BY <1>3, <2>1, <2>3
<1>5. DataInv'
  <2>1. dst' = dst /\ beat' = beat /\ beats' = beats /\ run_word_q' = run_word_q
        /\ dbe' = dbe /\ ddin' = ddin
    BY <1>d DEF ddrVars
  <2>2. dst \notin {"WR_PF", "WR_SKIP_PF"} BY <1>d
  <2>3. Lookup(run_word_q + 1)' = Lookup(run_word_q + 1) BY <1>3, <2>1 DEF Lookup
  <2>4. LanesOf(run_word_q)' = LanesOf(run_word_q) BY <1>3, <2>1 DEF LanesOf
  <2> QED BY <1>1, <1>3, <1>4, <1>i, <2>1, <2>2, <2>3, <2>4 DEF DataInv
<1> QED BY <1>2, <1>5, <1>d DEF FlushGoal, ddrVars, Flushing, FlushStates

LEMMA FlushStep ==
    ASSUME TypeInv, TurnInv, StoreInv, NEW arrives \in BOOLEAN, Clock(arrives), Flushing
    PROVE  FlushGoal
<1>1. DdrEngine(arrives) BY DEF Clock
<1>2. ~(Idle \/ EraseWord \/ LineWord(arrives))
  BY DEF Idle, EraseWord, LineWord, Flushing, FlushStates
<1> QED BY <1>1, <1>2, PlainStep, ShadowStep, SkipStep, StalledStep DEF DdrEngine

\* An ended run is taken up: what it lacks is all of it, or it has no pixel.
LEMMA FlushBegins ==
    ASSUME TypeInv, TurnInv, StoreInv, NEW arrives \in BOOLEAN, Clock(arrives), flush_accept
    PROVE  FlushGoal
<1>c. /\ Idle /\ Memory(arrives) /\ Composed /\ Capture
      /\ run_msk \in SUBSET (Word \X Lane) /\ store \in Line /\ drawn \in Line
  BY DEF Clock, TypeInv, RunType, DdrType, DdrEngine, Prefetched, EraseWord, WriteWord,
         SkipWord, ReadAccepted, ShadowRead, ShadowWrite, ShadowSkip, LineWord, Stalled,
         flush_accept
<1>a. dst = "IDLE" /\ flush_req /\ ~erase_pending /\ ~read_pending BY DEF flush_accept
<1>s. store' = store /\ store = drawn
  BY <1>a, <1>c, NothingTaken DEF StoreInv, Flushing, FlushStates
<1>r. /\ run_msk' = run_msk /\ run_ram' = run_ram /\ run_shadow' = run_shadow
      /\ runs' = runs /\ run_ram_q' = Lookup(RunReadAddress)
  BY <1>a, RunRests
<1>e. ~flush_req'
  <2>1. ~wr.end BY <1>a DEF TurnInv, Resting
  <2> QED BY <1>c, <2>1 DEF Capture
<1>d. \A w \in Word, l \in Lane :
          drawn'[w][l] = IF l \notin LanesOf(w) THEN store[w][l]
                         ELSE IF run_shadow THEN Shadowed(store[w][l]) ELSE Drawn(w, runs)
  BY <1>a, <1>c, <1>e, <1>s DEF Composed
<1>t. store' \in Line /\ drawn' \in Line BY StoreTypeStep
<1>1. CASE run_msk = {}
  <2>1. dst' = "IDLE" BY <1>1, <1>a, <1>c DEF Idle
  <2>2. \A w \in Word, l \in Lane : drawn'[w][l] = store'[w][l]
    BY <1>1, <1>d, <1>s DEF LanesOf
  <2>3. \A w \in Word : drawn'[w] = store'[w] BY <1>t, <2>2 DEF Line
  <2>4. drawn' = store' BY <1>t, <2>3, LineIs
  <2> QED BY <2>1, <2>4 DEF FlushGoal, Flushing, FlushStates
<1>2. CASE run_msk # {}
  <2>1. /\ beat' = 0 /\ beats' = run_xe - run_x0 /\ run_word_q' = run_x0 /\ daddr' = run_x0
        /\ dst' = (IF run_shadow THEN "SH_R" ELSE "WR_PF")
    BY <1>2, <1>a, <1>c DEF Idle
  <2>2. /\ run_x0 \in Word /\ run_xe \in Word /\ run_x0 <= run_xe
        /\ \A p \in run_msk : run_x0 <= p[1] /\ p[1] <= run_xe
    BY <1>2, <1>c, Span
  <2>3. run_x0' = run_x0 /\ run_xe' = run_xe /\ \A w : LanesOf(w)' = LanesOf(w)
    BY <1>r DEF run_x0, run_xe, LanesOf
  <2>4. run_shadow \in BOOLEAN BY DEF TypeInv, RunType
  <2>5. ASSUME NEW w \in Word, w < run_x0 PROVE store'[w] = drawn'[w]
    <3>1. LanesOf(w) = {}
      <4>1. ASSUME NEW l \in Lane, <<w, l>> \in run_msk PROVE FALSE
        <5>1. run_x0 <= w BY <2>2, <4>1
        <5> QED BY <2>2, <2>5, <5>1 DEF Word
      <4> QED BY <4>1 DEF LanesOf
    <3>2. \A l \in Lane : drawn'[w][l] = store'[w][l] BY <1>d, <1>s, <3>1
    <3> QED BY <1>t, <3>2 DEF Line
  <2>6. \A w \in Word, l \in Lane : drawn'[w][l] = AfterRun(w, l)'
    BY <1>d, <1>r, <1>s, <2>3 DEF AfterRun
  <2>7. run_word_q' = run_x0' + beat' /\ beats' = run_xe' - run_x0' /\ beat' <= beats'
    BY <2>1, <2>2, <2>3 DEF Word
  <2>8. WalkInv' BY <1>2, <1>r, <2>1, <2>4, <2>5, <2>6, <2>7 DEF WalkInv
  <2>9. DataInv'
    <3>1. RunReadAddress = run_x0 BY <1>2, <1>a DEF RunReadAddress
    <3>2. run_ram_q' = Lookup(run_word_q)' BY <1>r, <2>1, <3>1 DEF Lookup
    <3> QED BY <2>1, <3>2 DEF DataInv
  <2> QED BY <2>1, <2>8, <2>9 DEF FlushGoal, Flushing, FlushStates
<1> QED BY <1>1, <1>2

\* Outside a flush and an erase nothing is written or composed.
LEMMA NothingDone ==
    ASSUME TypeInv, TurnInv, StoreInv, NEW arrives \in BOOLEAN, Clock(arrives),
           ~Flushing, dst # "ER", ~flush_accept
    PROVE  store' = drawn' /\ ~Flushing'
<1>c. Memory(arrives) /\ Composed /\ Capture /\ DdrEngine(arrives) BY DEF Clock
<1>1. store' = store /\ store = drawn
  BY <1>c, NothingTaken DEF StoreInv, Flushing, FlushStates
<1>2. flush_req => flush_req' BY <1>c DEF Capture
<1>3. drawn' = drawn BY <1>c, <1>2 DEF Composed, EraseDone
<1>4. ~Flushing' BY <1>c, DdrMoves
<1> QED BY <1>1, <1>3, <1>4

\* An erase goes over the whole line and over nothing else.
LEMMA EraseBegins ==
    ASSUME TypeInv, NEW arrives \in BOOLEAN, DdrEngine(arrives), dst # "ER", dst' = "ER"
    PROVE  EraseInv'
<1>1. dst = "IDLE" /\ erase_pending BY DdrMoves
<1>2. Idle
  BY <1>1 DEF DdrEngine, Prefetched, EraseWord, WriteWord, SkipWord, ReadAccepted,
              ShadowRead, ShadowWrite, ShadowSkip, LineWord, Stalled
<1>3. daddr' = 0 /\ dbe' = Lane /\ ddin' = BlankWord /\ beat' = 0
  BY <1>1, <1>2 DEF Idle
<1>4. \A w \in Word : ~(w < 0) BY DEF Word
<1> QED BY <1>3, <1>4 DEF EraseInv

LEMMA EraseStep ==
    ASSUME TypeInv, TurnInv, StoreInv, NEW arrives \in BOOLEAN, Clock(arrives), dst = "ER"
    PROVE  ~Flushing' /\ (dst' = "ER" => EraseInv') /\ (dst' # "ER" => store' = drawn')
<1>c. /\ Memory(arrives) /\ Composed /\ Capture /\ DdrEngine(arrives)
      /\ beat \in Word /\ daddr \in Word /\ store \in Line
  BY DEF Clock, TypeInv, DdrType
<1>i. daddr = beat /\ dbe = Lane /\ ddin = BlankWord /\ dwe
      /\ \A w \in Word : w < beat => store[w] = BlankWord
  BY DEF StoreInv, EraseInv
<1>n. ~Flushing' /\ ~flush_req
  <2>1. ~flush_accept /\ ~Flushing BY DEF flush_accept, Flushing, FlushStates
  <2> QED BY <1>c, <2>1, DdrMoves DEF TurnInv, Resting
<1>1. CASE busy
  <2>1. UNCHANGED ddrVars
    BY <1>1, <1>c DEF DdrEngine, Idle, Prefetched, EraseWord, WriteWord, SkipWord, ReadAccepted,
                      ShadowRead, ShadowWrite, ShadowSkip, LineWord, Stalled
  <2>2. store' = store BY <1>1, <1>c, NothingTaken
  <2> QED BY <1>i, <1>n, <2>1, <2>2 DEF ddrVars, EraseInv
<1>2. CASE ~busy
  <2>1. EraseWord
    BY <1>2, <1>c DEF DdrEngine, Idle, Prefetched, EraseWord, WriteWord, SkipWord, ReadAccepted,
                      ShadowRead, ShadowWrite, ShadowSkip, LineWord, Stalled
  <2>2. \A w \in Word, l \in Lane :
            store'[w][l] = IF w = beat /\ l \in dbe THEN ddin[l] ELSE store[w][l]
    BY <1>2, <1>c, <1>i, WordTaken
  <2>3. store' \in Line /\ drawn' \in Line BY StoreTypeStep
  <2>4. ASSUME NEW w \in Word, w <= beat PROVE store'[w] = BlankWord
    <3>1. ASSUME NEW l \in Lane PROVE store'[w][l] = BlankWord[l]
      <4>1. CASE w = beat BY <1>i, <2>2, <4>1
      <4>2. CASE w # beat
        <5>1. w < beat BY <1>c, <2>4, <4>2 DEF Word
        <5>2. store[w] = BlankWord BY <1>i, <5>1
        <5> QED BY <2>2, <4>2, <5>2
      <4> QED BY <4>1, <4>2
    <3>2. \A l \in Lane : store'[w][l] = BlankWord[l] BY <3>1
    <3> QED BY <2>3, <3>2 DEF Line, BlankWord
  <2>5. CASE beat = Words - 1
    <3>1. dst' = "IDLE" BY <2>1, <2>5 DEF EraseWord
    <3>2. drawn' = [w \in Word |-> BlankWord]
      BY <1>2, <1>c, <1>n, <2>5 DEF Composed, EraseDone
    <3>3. \A w \in Word : store'[w] = BlankWord BY <1>c, <2>4, <2>5, LineAssumption DEF Word
    <3>4. \A w \in Word : store'[w] = drawn'[w] BY <3>2, <3>3
    <3>5. store' = drawn' BY <2>3, <3>4, LineIs
    <3> QED BY <1>n, <3>1, <3>5
  <2>6. CASE beat # Words - 1
    <3>1. /\ beat' = beat + 1 /\ daddr' = beat + 1 /\ dst' = "ER"
          /\ ddin' = ddin /\ dbe' = dbe
      BY <1>i, <2>1, <2>6 DEF EraseWord
    <3>2. \A w \in Word : w < beat' => store'[w] = BlankWord
      <4> SUFFICES ASSUME NEW w \in Word, w < beat' PROVE store'[w] = BlankWord
        OBVIOUS
      <4>1. w <= beat BY <1>c, <3>1 DEF Word
      <4> QED BY <2>4, <4>1
    <3>3. EraseInv' BY <1>i, <3>1, <3>2 DEF EraseInv
    <3> QED BY <1>n, <3>1, <3>3
  <2> QED BY <2>5, <2>6
<1> QED BY <1>1, <1>2

LEMMA StoreStep ==
    ASSUME TypeInv, TurnInv, StoreInv, NEW arrives \in BOOLEAN, Clock(arrives) PROVE StoreInv'
<1>c. DdrEngine(arrives) BY DEF Clock
<1>1. ~wr'.start => \A p \in run_msk' : run_ram'[p[1]][p[2]] = runs' BY RunIsOwn
<1>2. dwe' <=> dst' \in {"ER", "WR", "SH_W"} BY <1>c, StrobeStep
<1>3. Flushing => dst # "ER" BY DEF Flushing, FlushStates
<1>4. /\ Flushing' => WalkInv' /\ DataInv'
      /\ dst' = "ER" => EraseInv'
      /\ ~Flushing' /\ dst' # "ER" => store' = drawn'
  <2>1. CASE Flushing \/ flush_accept BY <2>1, FlushBegins, FlushStep DEF FlushGoal
  <2>2. CASE dst = "ER" BY <2>2, EraseStep
  <2>3. CASE ~Flushing /\ ~flush_accept /\ dst # "ER"
    BY <1>c, <2>3, EraseBegins, NothingDone
  <2> QED BY <2>1, <2>2, <2>3
<1> QED BY <1>1, <1>2, <1>4 DEF StoreInv

-----------------------------------------------------------------------------
(***************************************************************************)
(* Results.                                                                *)
(***************************************************************************)
IInv == TypeInv /\ TurnInv /\ StoreInv /\ LineInv

LEMMA InitHolds == ASSUME Init PROVE IInv
<1>0. 0 \in Word /\ 1 \in Lane /\ 0 \in Shown /\ Visible \in Nat /\ Words \in Nat /\ MaxWork \in Nat
  BY LineAssumption DEF Word, Lane, Shown
<1>1. EngineType
  <2>1. 0 \in 0 .. MaxWork /\ 0 \in 0 .. 0 BY <1>0
  <2> QED BY <2>1, NoWireIsOne DEF Init, EngineType
<1>2. RunType
  <2>1. run_ram = [w \in Word |-> [l \in Lane |-> 0]] /\ 0 \in 0 .. MaxWork BY <1>0 DEF Init
  <2>2. run_ram \in [Word -> [Lane -> 0 .. MaxWork]] BY <2>1
  <2>3. run_ram_q \in [word : Word, runs : [Lane -> 0 .. MaxWork]] BY <1>0, <2>2 DEF Init
  <2> QED BY <2>2, <2>3 DEF Init, RunType
<1>3. DdrType
  <2>1. store \in Line /\ drawn \in Line BY PixelTypes DEF Init, Line
  <2>2. BlankWord \in [Lane -> Pixels] BY PixelTypes DEF BlankWord
  <2> QED BY <1>0, <2>1, <2>2 DEF Init, DdrType, States
<1>4. LineType
  <2>1. banks = [b \in Banks |-> [w \in Word |-> 0]] BY DEF Init
  <2>2. banks \in [Banks -> [Word -> Shown]] BY <1>0, <2>1
  <2>3. Visible \in 0 .. Visible BY <1>0
  <2> QED BY <1>0, <2>2, <2>3 DEF Init, LineType, Banks, Hpos
<1>5. TurnInv BY DEF Init, TurnInv, Resting, Flushing, FlushStates, NoWire
<1>6. StoreInv BY DEF Init, StoreInv, Flushing, FlushStates
<1>7. FillInv BY <1>0 DEF Init, FillInv, Whole, Banks
<1>8. ShownInv /\ BlankInv BY DEF Init, ShownInv, BlankInv
<1> QED BY <1>1, <1>2, <1>3, <1>4, <1>5, <1>6, <1>7, <1>8 DEF IInv, TypeInv, LineInv

LEMMA StepHolds == ASSUME IInv, [Next]_vars PROVE IInv'
<1> USE DEF IInv
<1>1. ASSUME NEW arrives \in BOOLEAN, Clock(arrives) PROVE IInv'
  <2>1. EngineType'
    <3>1. Engine BY <1>1 DEF Clock
    <3> QED BY <3>1, EngineTypeStep DEF TypeInv
  <2>2. TypeInv' BY <1>1, <2>1, DdrTypeStep, LineTypeStep, RunTypeStep DEF TypeInv
  <2>3. FillInv' BY <1>1, FillStep DEF LineInv
  <2>4. LineInv' BY <1>1, <2>3, BlankStep, ShownStep DEF LineInv
  <2> QED BY <1>1, <2>2, <2>4, StoreStep, TurnStep
<1>2. CASE UNCHANGED vars
  <2>1. UNCHANGED <<engineVars, runVars, ddrVars, lineVars, rasterVars, busy, owing, store, drawn, late>>
    BY <1>2 DEF vars
  <2>2. TypeInv'
    BY <2>1 DEF TypeInv, EngineType, RunType, DdrType, LineType,
                engineVars, runVars, ddrVars, lineVars, rasterVars
  <2>3. TurnInv' BY <2>1 DEF TurnInv, Resting, Flushing, engineVars, runVars, ddrVars, lineVars
  <2>4. StoreInv'
    BY <2>1 DEF StoreInv, WalkInv, DataInv, EraseInv, AfterRun, Lookup, LanesOf, run_x0, run_xe,
                Flushing, engineVars, runVars, ddrVars
  <2>5. LineInv'
    BY <2>1 DEF LineInv, FillInv, ShownInv, BlankInv, Holds, Whole, Fetched, scan_bank, Publish,
                ddrVars, lineVars, rasterVars
  <2> QED BY <2>2, <2>3, <2>4, <2>5
<1> QED BY <1>1, <1>2 DEF Next

LEMMA Invariance == Spec => []IInv
<1>1. Init => IInv BY InitHolds
<1>2. IInv /\ [Next]_vars => IInv' BY StepHolds
<1> QED BY <1>1, <1>2, PTL DEF Spec

\* Every variable keeps its type: no address leaves the line, no pixel comes
\* from anywhere but an erased one, the buffer or a run.
THEOREM TypeCorrect == Spec => []TypeInv
<1>1. IInv => TypeInv BY DEF IInv
<1> QED BY <1>1, Invariance, PTL

\* When wr_busy and erase_pending of rtl/mem/s32_fb_if.sv are down, the buffer
\* holds exactly what the engine drew, for lines of any length.
THEOREM BufferHolds == Spec => []BufferAsDrawn
<1>1. ASSUME IInv, ~wr_busy, ~erase_pending PROVE store = drawn
  <2>1. ~Flushing BY <1>1 DEF wr_busy, Flushing
  <2>2. dst # "ER" BY <1>1 DEF IInv, TurnInv, erase_pending
  <2> QED BY <1>1, <2>1, <2>2 DEF IInv, StoreInv
<1>2. IInv => BufferAsDrawn BY <1>1 DEF BufferAsDrawn
<1> QED BY <1>2, Invariance, PTL

\* The bank the raster reads is one whole line, and the raster's own line for as
\* long as the lines of the frame have come in time, for a screen of any size.
THEOREM NeverTorn == Spec => []NoTear
<1>1. ASSUME IInv PROVE NoTear
  <2>1. FillInv /\ ShownInv /\ 0 \in Word
    BY <1>1, LineAssumption DEF IInv, LineInv, Word
  <2>2. Whole(scan_bank) BY <2>1 DEF FillInv, scan_bank, Publish, Whole
  <2>3. vcnt \in Shown /\ ~late => banks[scan_bank][0] = vcnt BY <2>1 DEF ShownInv, Holds
  <2> QED BY <2>2, <2>3 DEF NoTear, Whole
<1> QED BY <1>1, Invariance, PTL
=============================================================================
