---------------------------- MODULE FrameBuffer -----------------------------
(***************************************************************************)
(* The sprite frame buffer interface, rtl/mem/s32_fb_if.sv, with the       *)
(* sprite engine that draws and erases through it, the line requests of    *)
(* s32_core.sv that follow the raster, and the DDR3 controller behind it.  *)
(* A step is one edge of clk_ram.                                          *)
(*                                                                         *)
(* The engine draws on one line of the buffer being composed; the lines    *)
(* the raster shows belong to another buffer, and of those only the line   *)
(* number is kept.  A pixel is a pen and the bit a shadow clears; the pen  *)
(* of a drawn pixel is its word and the number of its run, so a word       *)
(* written with another word's or another run's data is seen.              *)
(***************************************************************************)
EXTENDS Naturals, FiniteSetsExt

CONSTANTS
    Words, Lanes,   \* 64-bit words per line (128), pixels per word (4)
    Visible,        \* lines the raster shows (224)
    MaxWork         \* bound on the runs, their pixels and the lines erased

ASSUME LineAssumption ==
    /\ {Words, Lanes, Visible} \subseteq Nat \ {0} /\ Visible > 1
    /\ MaxWork \in Nat

Word == 0 .. Words - 1
Lane == 1 .. Lanes
Banks == {0, 1}

\* Pens are of an erased pixel, of what the DDR3 held before, or of a run.
Erased == [pen |-> <<>>, lit |-> TRUE]
Held(w) == [pen |-> <<w>>, lit |-> TRUE]
Drawn(w, run) == [pen |-> <<w, run>>, lit |-> TRUE]
Shadowed(pixel) == [pixel EXCEPT !.lit = FALSE]
Lit == {Erased} \cup {Held(w) : w \in Word} \cup {Drawn(w, r) : w \in Word, r \in 0 .. MaxWork}
Pixels == Lit \cup {Shadowed(p) : p \in Lit}
BlankWord == [l \in Lane |-> Erased]

VARIABLES
    wr, drawing, er_req,                     \* the sprite engine
    runs, work,
    run_msk, run_ram, run_shadow, run_active, flush_req, run_ram_q,
    dst, daddr, dwe, drd, ddin, dbe, beat, beats, run_word_q,
    er_ack, rd_ack,
    display_bank, fill_bank, line_ready, banks,
    vcnt, hpos, rd_req, rd_y,                \* the raster and its requests
    busy, owing, store,                      \* the DDR3
    drawn, late                              \* history

engineVars == <<wr, drawing, er_req, runs, work>>
runVars    == <<run_msk, run_ram, run_shadow, run_active, flush_req, run_ram_q>>
ddrVars    == <<dst, daddr, dwe, drd, ddin, dbe, beat, beats, run_word_q>>
lineVars   == <<er_ack, rd_ack, display_bank, fill_bank, line_ready, banks>>
rasterVars == <<vcnt, hpos, rd_req, rd_y>>
vars == <<engineVars, runVars, ddrVars, lineVars, rasterVars, busy, owing, store, drawn, late>>

FlushStates == {"WR_PF", "WR", "WR_SKIP", "WR_SKIP_PF", "SH_R", "SH_RW", "SH_W", "SH_SKIP"}
States == FlushStates \cup {"IDLE", "ER", "RD", "RD_W"}

NoWire == [start |-> FALSE, valid |-> FALSE, end |-> FALSE, at |-> <<0, 1>>, shadow |-> FALSE]
wr_busy == wr.end \/ flush_req \/ dst \in FlushStates

Init ==
    /\ wr = NoWire /\ drawing = FALSE /\ er_req = FALSE /\ runs = 0 /\ work = 0
    /\ run_msk = {} /\ run_ram = [w \in Word |-> [l \in Lane |-> 0]]
    /\ run_shadow = FALSE /\ run_active = FALSE /\ flush_req = FALSE
    /\ run_ram_q = [word |-> 0, runs |-> run_ram[0]]
    /\ dst = "IDLE" /\ daddr = 0 /\ dwe = FALSE /\ drd = FALSE
    /\ ddin = BlankWord /\ dbe = {} /\ beat = 0 /\ beats = 0 /\ run_word_q = 0
    /\ er_ack = FALSE /\ rd_ack = FALSE
    /\ display_bank = 0 /\ fill_bank = 1 /\ line_ready = FALSE
    /\ banks = [b \in Banks |-> [w \in Word |-> 0]]
    /\ vcnt = Visible /\ hpos = "rest" /\ rd_req = FALSE /\ rd_y = 0
    /\ busy = FALSE /\ owing = 0 /\ store = [w \in Word |-> [l \in Lane |-> Held(w)]]
    /\ drawn = store /\ late = TRUE

(***************************************************************************)
(* The sprite engine: lines are erased and rows drawn one after the other. *)
(* Its wires are registers.                                                *)
(***************************************************************************)
StartsRow(shadow) ==
    /\ ~drawing /\ ~wr.start /\ ~er_req /\ ~wr_busy /\ work < MaxWork
    /\ drawing' = TRUE /\ runs' = runs + 1 /\ work' = work + 1
    /\ wr' = [NoWire EXCEPT !.start = TRUE, !.shadow = shadow]
    /\ UNCHANGED er_req

Pending == run_msk \cup (IF wr.valid THEN {wr.at} ELSE {})

Draws(valid, end, at) ==
    /\ drawing /\ (valid => at \notin Pending /\ work < MaxWork)
    /\ work' = IF valid THEN work + 1 ELSE work
    /\ wr' = [NoWire EXCEPT !.valid = valid, !.end = end, !.at = IF valid THEN at ELSE @]
    /\ drawing' = ~end
    /\ UNCHANGED <<er_req, runs>>

StartsErase ==
    /\ ~drawing /\ ~wr.start /\ ~wr_busy /\ ~er_req /\ work < MaxWork
    /\ er_req' = TRUE /\ work' = work + 1 /\ wr' = NoWire
    /\ UNCHANGED <<drawing, runs>>

EngineWaits ==
    /\ ~drawing /\ wr' = NoWire
    /\ er_req' = (er_req /\ ~er_ack)
    /\ UNCHANGED <<drawing, runs, work>>

Engine ==
    \/ \E shadow \in BOOLEAN : StartsRow(shadow)
    \/ \E valid, end \in BOOLEAN, at \in Word \X Lane : Draws(valid, end, at)
    \/ StartsErase \/ EngineWaits

(***************************************************************************)
(* The raster and its line requests.  hpos is where hcnt is: at 0, past it,*)
(* at 16 for the two clk_ram edges of its ce_pix, and beyond.  vcnt counts *)
(* the shown lines; at Visible it stands for the blank and the last line,  *)
(* 261, which asks for line 0.                                             *)
(***************************************************************************)
Shown == 0 .. Visible - 1
NextLine == (vcnt + 1) % (Visible + 1)
Kick == hpos \in {"kick", "kick2"} /\ vcnt # Visible - 1

HposAfter == [zero |-> "past", past |-> "kick", kick |-> "kick2", kick2 |-> "rest"]

RasterStep ==
    \/ hpos \notin {"kick", "kick2"} /\ UNCHANGED <<vcnt, hpos>>
    \/ hpos # "rest" /\ hpos' = HposAfter[hpos] /\ UNCHANGED vcnt
    \/ hpos = "rest" /\ hpos' = "zero" /\ vcnt' = NextLine

LineRequest ==
    IF rd_req THEN rd_req' = ~rd_ack /\ UNCHANGED rd_y
    ELSE IF ~rd_ack /\ Kick THEN rd_req' = TRUE /\ rd_y' = NextLine
    ELSE UNCHANGED <<rd_req, rd_y>>

\* History: a line of this frame was not fetched when the raster reached it.
Answered(y) == rd_y = y /\ (~rd_req \/ rd_ack)
LateNext ==
    IF hpos # "zero" /\ hpos' = "zero"
    THEN vcnt' # Visible /\ (late \/ ~Answered(vcnt'))
    ELSE late

(***************************************************************************)
(* Capturing a run: pixels come in any order and leave gaps.               *)
(***************************************************************************)
erase_pending == er_req /\ ~er_ack

\* Mutant: the fill bank is used again before the raster has published it.
read_pending_unpublished == rd_req /\ ~rd_ack

read_pending == rd_req /\ ~rd_ack /\ ~line_ready

flush_accept == dst = "IDLE" /\ ~erase_pending /\ ~read_pending /\ flush_req

Capturing == wr.valid /\ run_active
run_x0 == Min({p[1] : p \in run_msk})
run_xe == Max({p[1] : p \in run_msk})
LanesOf(w) == {l \in Lane : <<w, l>> \in run_msk}
Up(w, n) == (w + n) % Words

\* Mutant: the look-ahead does not wait for a stalled write.
RunReadAddressEager ==
    CASE dst = "IDLE" -> IF run_msk = {} THEN Words - 1 ELSE run_x0
      [] dst \in {"WR_PF", "WR_SKIP_PF"} -> Up(run_word_q, 1)
      [] dst = "WR" -> Up(run_word_q, 2)
      [] OTHER -> run_word_q

\* The word the run RAM looks up for the next edge.
RunReadAddress ==
    CASE dst = "IDLE" -> IF run_msk = {} THEN Words - 1 ELSE run_x0
      [] dst \in {"WR_PF", "WR_SKIP_PF"} -> Up(run_word_q, 1)
      [] dst = "WR" -> Up(run_word_q, IF busy THEN 1 ELSE 2)
      [] OTHER -> run_word_q

Capture ==
    /\ run_msk' = IF wr.start THEN {} ELSE IF Capturing THEN run_msk \cup {wr.at} ELSE run_msk
    /\ run_ram' = IF Capturing THEN [run_ram EXCEPT ![wr.at[1]][wr.at[2]] = runs] ELSE run_ram
    /\ run_shadow' = IF wr.start THEN wr.shadow ELSE run_shadow
    /\ run_active' = ((wr.start \/ run_active) /\ ~flush_accept)
    /\ flush_req' = ((wr.end /\ run_active) \/ (flush_req /\ ~flush_accept))
    \* A word read as it is written may come out either way.
    /\ run_ram_q' \in {[word |-> RunReadAddress, runs |-> ram[RunReadAddress]] : ram \in {run_ram, run_ram'}}

(***************************************************************************)
(* The DDR engine, one action per state.                                   *)
(***************************************************************************)
FromRun == [l \in Lane |-> Drawn(run_ram_q.word, run_ram_q.runs[l])]
Goto(state) == dst' = state
Strobes(write, read) == dwe' = write /\ drd' = read
NextWord ==
    beat' = beat + 1 /\ run_word_q' = Up(run_word_q, 1) /\ daddr' = Up(daddr, 1)

Idle ==
    /\ dst = "IDLE"
    /\ \/ /\ erase_pending
          /\ Goto("ER") /\ Strobes(TRUE, FALSE)
          /\ daddr' = 0 /\ ddin' = BlankWord /\ dbe' = Lane /\ beat' = 0 /\ beats' = Words - 1
          /\ UNCHANGED run_word_q
       \/ /\ ~erase_pending /\ read_pending
          /\ Goto("RD") /\ Strobes(FALSE, TRUE)
          /\ daddr' = 0 /\ dbe' = Lane /\ beat' = 0
          /\ UNCHANGED <<ddin, beats, run_word_q>>
       \/ /\ flush_accept /\ run_msk # {}
          /\ beat' = 0 /\ beats' = run_xe - run_x0
          /\ run_word_q' = run_x0 /\ daddr' = run_x0 /\ UNCHANGED ddin
          /\ IF run_shadow THEN Goto("SH_R") /\ Strobes(FALSE, TRUE) /\ dbe' = Lane
                           ELSE Goto("WR_PF") /\ Strobes(FALSE, FALSE) /\ UNCHANGED dbe
       \/ /\ ~erase_pending /\ ~read_pending /\ ~(flush_accept /\ run_msk # {})
          /\ Strobes(FALSE, FALSE)
          /\ UNCHANGED <<dst, daddr, ddin, dbe, beat, beats, run_word_q>>

\* The word the run RAM has read goes out.
Prefetched ==
    /\ dst \in {"WR_PF", "WR_SKIP_PF"}
    /\ Goto("WR") /\ Strobes(TRUE, FALSE) /\ ddin' = FromRun /\ dbe' = LanesOf(run_word_q)
    /\ UNCHANGED <<daddr, beat, beats, run_word_q>>

EraseWord ==
    /\ dst = "ER" /\ ~busy
    /\ IF beat = Words - 1
       THEN Goto("IDLE") /\ Strobes(FALSE, FALSE) /\ UNCHANGED <<beat, daddr>>
       ELSE beat' = beat + 1 /\ daddr' = daddr + 1 /\ Strobes(TRUE, FALSE) /\ UNCHANGED dst
    /\ UNCHANGED <<ddin, dbe, beats, run_word_q>>

\* Words without a pixel are walked over.
WriteWord ==
    /\ dst = "WR" /\ ~busy
    /\ ddin' = FromRun
    /\ \/ /\ beat = beats
          /\ Goto("IDLE") /\ Strobes(FALSE, FALSE)
          /\ UNCHANGED <<beat, run_word_q, daddr, dbe>>
       \/ /\ beat # beats /\ LanesOf(Up(run_word_q, 1)) = {}
          /\ NextWord /\ Goto("WR_SKIP") /\ Strobes(FALSE, FALSE) /\ UNCHANGED dbe
       \/ /\ beat # beats /\ LanesOf(Up(run_word_q, 1)) # {}
          /\ NextWord /\ Strobes(TRUE, FALSE) /\ dbe' = LanesOf(Up(run_word_q, 1)) /\ UNCHANGED dst
    /\ UNCHANGED beats

Skip(found) ==
    /\ \/ LanesOf(run_word_q) # {} /\ found /\ UNCHANGED <<beat, run_word_q, daddr>>
       \/ /\ LanesOf(run_word_q) = {} /\ Strobes(FALSE, FALSE) /\ UNCHANGED dbe
          /\ IF beat = beats THEN Goto("IDLE") /\ UNCHANGED <<beat, run_word_q, daddr>>
                             ELSE NextWord /\ UNCHANGED dst
    /\ UNCHANGED <<ddin, beats>>

SkipWord ==
    /\ dst = "WR_SKIP"
    /\ Skip(Goto("WR_SKIP_PF") /\ Strobes(FALSE, FALSE) /\ UNCHANGED dbe)

\* Mutant: the read strobe drops whether or not the DDR3 took it.
ReadPulsed ==
    /\ dst \in {"SH_R", "RD"}
    /\ Strobes(FALSE, FALSE) /\ Goto(IF dst = "RD" THEN "RD_W" ELSE "SH_RW")
    /\ UNCHANGED <<daddr, ddin, dbe, beat, beats, run_word_q>>

\* A shadow reads a word, clears the bit and writes the word back.
ReadAccepted ==
    /\ dst \in {"SH_R", "RD"} /\ ~busy
    /\ Strobes(FALSE, FALSE) /\ Goto(IF dst = "RD" THEN "RD_W" ELSE "SH_RW")
    /\ UNCHANGED <<daddr, ddin, dbe, beat, beats, run_word_q>>

ShadowRead(arrives) ==
    /\ dst = "SH_RW" /\ arrives
    /\ ddin' = [l \in Lane |-> Shadowed(store[daddr][l])]
    /\ dbe' = LanesOf(run_word_q) /\ Strobes(TRUE, FALSE) /\ Goto("SH_W")
    /\ UNCHANGED <<daddr, beat, beats, run_word_q>>

ShadowWrite ==
    /\ dst = "SH_W" /\ ~busy
    /\ \/ /\ beat = beats
          /\ Goto("IDLE") /\ Strobes(FALSE, FALSE)
          /\ UNCHANGED <<beat, run_word_q, daddr, dbe>>
       \/ /\ beat # beats /\ NextWord
          /\ IF LanesOf(Up(run_word_q, 1)) # {}
             THEN Goto("SH_R") /\ Strobes(FALSE, TRUE) /\ dbe' = Lane
             ELSE Goto("SH_SKIP") /\ Strobes(FALSE, FALSE) /\ UNCHANGED dbe
    /\ UNCHANGED <<ddin, beats>>

ShadowSkip ==
    /\ dst = "SH_SKIP"
    /\ Skip(Goto("SH_R") /\ Strobes(FALSE, TRUE) /\ dbe' = Lane)

\* beat counts the words of a line that have come, rbeat in the code.
LineWord(arrives) ==
    /\ dst = "RD_W" /\ arrives
    /\ beat' = IF beat = Words - 1 THEN 0 ELSE beat + 1
    /\ Goto(IF beat = Words - 1 THEN "IDLE" ELSE "RD_W")
    /\ UNCHANGED <<daddr, dwe, drd, ddin, dbe, beats, run_word_q>>

Stalled(arrives) ==
    /\ \/ dst \in {"ER", "WR", "SH_R", "SH_W", "RD"} /\ busy
       \/ dst \in {"SH_RW", "RD_W"} /\ ~arrives
    /\ UNCHANGED ddrVars

DdrEngine(arrives) ==
    \/ Idle \/ Prefetched \/ EraseWord \/ WriteWord \/ SkipWord
    \/ ReadAccepted \/ ShadowRead(arrives) \/ ShadowWrite \/ ShadowSkip
    \/ LineWord(arrives) \/ Stalled(arrives)

(***************************************************************************)
(* Acknowledges and the two line banks.                                    *)
(***************************************************************************)
Publish == hpos = "zero" /\ line_ready
scan_bank == IF Publish THEN fill_bank ELSE display_bank
EraseDone == dst = "ER" /\ ~busy /\ beat = Words - 1
LineDone(arrives) == dst = "RD_W" /\ arrives /\ beat = Words - 1

Lines(arrives) ==
    /\ er_ack' = (er_req /\ (er_ack \/ EraseDone))
    /\ rd_ack' = (rd_req /\ (rd_ack \/ LineDone(arrives)))
    /\ line_ready' = (LineDone(arrives) \/ (line_ready /\ ~Publish))
    /\ display_bank' = IF Publish THEN fill_bank ELSE display_bank
    /\ fill_bank' = IF dst = "IDLE" /\ ~erase_pending /\ read_pending THEN 1 - display_bank
                    ELSE fill_bank
    /\ banks' = IF dst = "RD_W" /\ arrives THEN [banks EXCEPT ![fill_bank][beat] = rd_y] ELSE banks

(***************************************************************************)
(* The DDR3: it takes a request when it is not busy, which nobody looks at *)
(* without one, and answers reads word by word, whenever it likes.         *)
(***************************************************************************)
Memory(arrives) ==
    /\ busy' \in (IF dwe' \/ drd' THEN BOOLEAN ELSE {FALSE})
    /\ arrives => owing > 0
    /\ owing' = IF drd /\ ~busy THEN IF dst = "RD" THEN Words ELSE 1
                ELSE IF arrives THEN owing - 1 ELSE owing
    /\ store' = IF dwe /\ ~busy
                THEN [store EXCEPT ![daddr] = [l \in Lane |-> IF l \in dbe THEN ddin[l] ELSE @[l]]]
                ELSE store

\* History: the line as the engine's commands, each taken as a whole, leave it.
Composed ==
    drawn' =
        IF flush_req /\ ~flush_req' THEN
            [w \in Word |-> [l \in Lane |->
                IF l \notin LanesOf(w) THEN drawn[w][l]
                ELSE IF run_shadow THEN Shadowed(drawn[w][l]) ELSE Drawn(w, runs)]]
        ELSE IF EraseDone THEN [w \in Word |-> BlankWord]
        ELSE drawn

Clock(arrives) ==
    /\ Engine /\ RasterStep /\ LineRequest /\ Capture
    /\ DdrEngine(arrives) /\ Lines(arrives) /\ Memory(arrives)
    /\ Composed /\ late' = LateNext

Next == \E arrives \in BOOLEAN : Clock(arrives)

Spec == Init /\ [][Next]_vars

\* The DDR3 is not busy for ever and answers every read, and the raster goes
\* round: each is about one input of the clock's step, so it is not a fairness
\* of an action.
FairSpec ==
    Spec /\ []<>(~busy) /\ []<>(owing = 0) /\ []<>(hpos = "zero") /\ []<>(hpos # "zero")
-----------------------------------------------------------------------------
\* When the interface tells the engine it is free, the buffer holds what the
\* engine drew: exactly the pixels of each run, with their own data, in the
\* order of the runs, whatever stalls and line reads came between.
BufferAsDrawn == ~wr_busy /\ ~erase_pending => store = drawn

\* A line is never torn: the bank the raster reads is one whole line, and the
\* line of that place while every line of the frame was fetched in time; a late
\* one spoils at most the rest of its frame.
NoTear ==
    /\ \A w \in Word : banks[scan_bank][w] = banks[scan_bank][0]
    /\ vcnt \in Shown /\ ~late => banks[scan_bank][0] = vcnt

\* Every run that has ended and every line to erase is done with, though the
\* lines the raster asks for go before a run, and the engine is let go on.
EveryCommandEnds == []<>(~wr_busy /\ ~er_req)
=============================================================================
