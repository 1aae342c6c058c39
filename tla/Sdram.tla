------------------------------- MODULE Sdram --------------------------------
(***************************************************************************)
(* The SDRAM controller, rtl/mem/sdram.sv, with the requesters on its      *)
(* ports and the chip on its pins.  One step is one rising edge of         *)
(* clk_ram: every register of the controller, of the requesters and of the *)
(* chip moves at once, so Clock is a conjunction of the parts and the      *)
(* sequencer part is a disjunction with one action per FSM state.          *)
(*                                                                         *)
(* Abstractions.  A bank, row or column is a small number; addresses are   *)
(* aligned lines of eight words.  The power-up wait, the refresh interval  *)
(* and the cell contents are constants.  wrrc_cnt, refw_cnt and pre_cnt    *)
(* are never live together and share the variable cnt.                     *)
(***************************************************************************)
EXTENDS SdramArbiter, SdramChip, FiniteSets, Sequences

CONSTANTS
    ReadPorts,      \* the read ports with a requester, a subset of 0 .. 5
    Writer,         \* TRUE when the write port has a requester
    LevelPorts,     \* ports whose requester holds req until it samples ack
    RamClockPorts,  \* ports whose requester runs on clk_ram, not clk_sys
    Requests,       \* port -> the requests its requester may make
    Banks, Rows, Bytes,
    InitMem,        \* the cells at power-up
    RefPeriod,      \* ref_cnt value that schedules a refresh (700)
    InitCycles,     \* length of the power-up sequence (16'hffff)
    InitCommand,    \* init_cnt -> the command the power-up sequence issues
    MaxResets       \* bound on the number of PLL losses

Ports   == ReadPorts \cup (IF Writer THEN {WR} ELSE {})
Word    == [{0, 1} -> Bytes]
Cells   == Banks \X Rows \X Cols
Request == [bank : Banks, row : Rows, col : Cols, burst : BOOLEAN,
            data : Word, be : SUBSET {0, 1}]

Command == [op : Ops, at : Request, ap : BOOLEAN]

\* A request nobody makes: what the address and data registers hold before
\* their first use.
NoRequest == [bank |-> CHOOSE b \in Banks : TRUE, row |-> CHOOSE r \in Rows : TRUE,
              col |-> 0, burst |-> FALSE, data |-> CHOOSE w \in Word : TRUE,
              be |-> {}]
Cmd(op)   == [op |-> op, at |-> NoRequest, ap |-> FALSE]
CmdAt(op, r, ap) == [op |-> op, at |-> r, ap |-> ap]

ASSUME PortsAssumption ==
    /\ ReadPorts \subseteq PortIds
    /\ Writer \in BOOLEAN
    /\ LevelPorts \subseteq Ports /\ RamClockPorts \subseteq LevelPorts
    /\ Requests \in [Ports -> SUBSET Request]
    \* The write port is driven by s32_sdram_write_mux2, which holds d_req.
    /\ Writer => WR \in LevelPorts \ RamClockPorts

ASSUME DataAssumption ==
    /\ Banks # {} /\ Rows # {} /\ Bytes # {}
    /\ Rows \subseteq Nat
    /\ InitMem \in [Cells -> Word]

ASSUME TimingAssumption ==
    \* An eight-word read and the precharges before and after it take 22 edges.
    /\ RefPeriod \in Nat /\ RefPeriod >= 22
    /\ InitCycles \in Nat \ {0}
    /\ InitCommand \in [1 .. InitCycles -> {"NOP", "PRE", "REF", "MRS"}]
    /\ MaxResets \in Nat

\* The power-up sequence precharges every bank first and keeps its refreshes
\* apart; the last command is well before ready.
ASSUME PowerUpAssumption ==
    \E first \in 8 .. InitCycles :
        /\ InitCommand[first] = "PRE"
        /\ \A i \in 1 .. InitCycles : InitCommand[i] # "NOP" => i \in 8 .. first
        /\ \A i \in 1 .. InitCycles : InitCommand[i] = "REF" =>
               \A j \in i + 1 .. InitCycles :
                   /\ InitCommand[j] = "PRE" => j - i >= 2
                   /\ InitCommand[j] = "REF" => j - i >= 7

States == {"IDLE", "DISPATCH", "ACT", "RCD1", "RCD2", "RD", "RDW",
           "WR", "WRRC", "PRE_XFER", "PRE_REF", "REFW"}

VARIABLES
    phase,                       \* 1 when this clk_ram edge is a clk_sys edge
    \* the requesters
    req, bus, busy, want,        \* request wire, payload wires, waiting, for what
    served,                      \* history: completions since the last request
    passed,                      \* history: reads granted to others while waiting
    \* mailboxes and acknowledges, one per port
    pend, req_d, payload_p, ack, ack_d2, dout, ack_stretch,
    \* the sequencer
    ready, init_cnt, state, grant, rr_next, p1_was_last,
    rd_total, rd_issued, xfer, reuse_open_write_row, cnt,
    row_open, open_bank, open_row, ref_cnt, ref_pend,
    \* the read capture pipeline and the command register
    cl_pipe, cap_buf, dq_in, cmd,
    \* the chip
    open, mem, dq_p1, dq_p2, age,
    \* the number of PLL losses
    resets

clientVars  == <<req, bus, busy, want>>
portVars    == <<pend, req_d, payload_p, ack, ack_d2, dout, ack_stretch>>
refreshVars == <<ref_cnt, ref_pend>>
rowVars     == <<row_open, open_bank, open_row>>
xferVars    == <<grant, rr_next, p1_was_last, rd_total, xfer, reuse_open_write_row>>
seqVars     == <<ready, init_cnt, state, rd_issued, cnt>>
pipeVars    == <<cl_pipe, cap_buf, dq_in, cmd>>
chipVars    == <<open, mem, dq_p1, dq_p2, age>>
vars == <<phase, clientVars, served, passed, portVars, seqVars, xferVars, rowVars,
          refreshVars, pipeVars, chipVars, resets>>

(***************************************************************************)
(* Requesters.  A requester has one transaction outstanding: it raises     *)
(* req, either drops it again after a clock or holds it, and is done when  *)
(* it samples ack, which it does on its own clock only.  A requester that  *)
(* pulses may raise the next request on the very edge it samples ack; one  *)
(* that holds drops req there, and one on clk_ram waits for ack to fall.   *)
(***************************************************************************)
Samples(p)  == phase = 1 \/ p \in RamClockPorts
CanStart(p) ==
    /\ ready /\ Samples(p) /\ ~req[p]
    /\ IF busy[p] THEN ack[p] /\ p \notin LevelPorts
                  ELSE p \in RamClockPorts => ~ack[p]
Collects(p) == Samples(p) /\ busy[p] /\ ack[p]

\* Requesters that end a pulse here; they may put another payload on the wires.
CanDrop(p) == Samples(p) /\ req[p] /\ busy[p] /\ ~ack[p] /\ p \notin LevelPorts

Requesters ==
    \E starts \in SUBSET {p \in Ports : CanStart(p)},
       drops  \in SUBSET {p \in Ports : CanDrop(p)} :
    \E next \in {f \in [starts \cup drops -> UNION {Requests[p] : p \in Ports}] :
                    \A p \in starts \cup drops : f[p] \in Requests[p]} :
        /\ req' = [p \in Ports |-> \/ p \in starts
                                   \/ req[p] /\ p \notin drops /\ ~Collects(p)]
        /\ bus' = [p \in Ports |-> IF p \in starts \cup drops THEN next[p] ELSE bus[p]]
        /\ want' = [p \in Ports |-> IF p \in starts THEN next[p] ELSE want[p]]
        /\ busy' = [p \in Ports |-> p \in starts \/ (busy[p] /\ ~Collects(p))]

(***************************************************************************)
(* Mailboxes: a rising edge of req latches the payload; the first cycle of *)
(* an acknowledge empties the mailbox, and loses to a rising edge.         *)
(***************************************************************************)
Rises(p)    == req[p] /\ ~req_d[p]
AckRises(p) == ack[p] /\ ~ack_d2[p]

\* Mutant: the level-sampled guard the code had before, which drops a request
\* that meets the clearing mailbox or the stretched acknowledge.
PendLevelSampled ==
    [p \in Ports |-> (req[p] /\ ~pend[p] /\ ~ack[p]) \/ (pend[p] /\ ~AckRises(p))]

\* Mutant: the mailbox empties on the second cycle of the acknowledge.
PendClearedLate ==
    [p \in Ports |-> Rises(p) \/ (pend[p] /\ ~(ack[p] /\ ack_d2[p]))]

PendNext == [p \in Ports |-> Rises(p) \/ (pend[p] /\ ~AckRises(p))]

PayloadNext(p) == IF Rises(p) THEN bus[p] ELSE payload_p[p]

Mailboxes ==
    /\ pend' = PendNext
    /\ payload_p' = [p \in Ports |-> PayloadNext(p)]
    /\ req_d' = req
    /\ ack_d2' = ack

(***************************************************************************)
(* The read capture pipeline.  cl_pipe[0] is set by the READ issued on     *)
(* this edge; four edges later dq_in holds the word it asked for.  cap_buf *)
(* is the words captured for this transaction, so Len(cap_buf) is          *)
(* rd_captured.                                                            *)
(***************************************************************************)
Capture   == cl_pipe[3] = 1
Captured  == IF Capture THEN Append(cap_buf, dq_in) ELSE cap_buf
LastWord  == Capture /\ Len(cap_buf) + 1 = rd_total

Pipeline ==
    /\ cl_pipe' = [i \in 0 .. 3 |-> IF i > 0 THEN cl_pipe[i - 1]
                                    ELSE IF ready /\ state = "RD" THEN 1 ELSE 0]
    /\ dq_in' = dq_p2

\* The ports acknowledged on this edge.
WriteDone == ready /\ state = "WRRC" /\ cnt = 2
Delivers  == (IF LastWord THEN {grant} ELSE {}) \cup (IF WriteDone THEN {WR} ELSE {})

\* Mutant: the acknowledge is stretched to three cycles.
StretchThree ==
    IF Delivers # {} THEN 2 ELSE IF ack_stretch > 0 THEN ack_stretch - 1 ELSE 0

\* An acknowledge is held for this cycle and the next.
StretchNext == IF Delivers # {} THEN 1 ELSE 0

Acknowledge ==
    /\ ack' = [p \in Ports |-> p \in Delivers \/ (ack_stretch # 0 /\ ack[p])]
    /\ ack_stretch' = StretchNext
    /\ dout' = [p \in Ports |-> IF LastWord /\ p = grant THEN Captured ELSE dout[p]]
    /\ served' = [p \in Ports |->
                    (IF busy'[p] /\ (busy[p] => Collects(p)) THEN 0 ELSE served[p])
                    + (IF p \in Delivers THEN 1 ELSE 0)]

\* Reads granted to other ports since this port's request was latched.
GrantsRead == ready /\ state = "IDLE" /\ state' = "DISPATCH" /\ grant' # WR

Waiting ==
    passed' = [p \in Ports |-> IF pend'[p] /\ pend[p] /\ ~AckRises(p)
                               THEN IF GrantsRead /\ grant' # p THEN passed[p] + 1
                                                                ELSE passed[p]
                               ELSE 0]

(***************************************************************************)
(* The chip samples the command registered by the previous edge.           *)
(***************************************************************************)
Chip ==
    /\ open'  = ChipOpen(open, cmd)
    /\ mem'   = ChipMem(mem, open, cmd)
    /\ dq_p1' = ChipRead(mem, open, cmd)
    /\ dq_p2' = dq_p1
    /\ age'   = ChipAge(age, cmd)

(***************************************************************************)
(* The sequencer, one action per state.  Each says what the edge does to   *)
(* its own registers; RefreshTimer and the parts above do the rest.        *)
(***************************************************************************)
RefreshDue == ref_cnt = RefPeriod

\* Schedule a refresh every RefPeriod cycles; issuing one clears the flag last.
RefreshTimer ==
    /\ ref_cnt'  = IF RefreshDue THEN 0 ELSE ref_cnt + 1
    /\ ref_pend' = ((ref_pend \/ RefreshDue) /\ ~(state = "PRE_REF" /\ cnt = 0))

NoBurst == rd_issued' = rd_issued /\ cap_buf' = Captured

Initialise ==
    /\ ~ready
    /\ init_cnt' = init_cnt - 1
    /\ ready' = (init_cnt = 1)
    /\ cmd' = Cmd(InitCommand[init_cnt])
    /\ NoBurst
    /\ UNCHANGED <<state, cnt, xferVars, rowVars, refreshVars>>

Running == ready /\ RefreshTimer /\ UNCHANGED <<ready, init_cnt>>

PipeEmpty == \A i \in 0 .. 3 : cl_pipe[i] = 0

\* Mutant: a refresh waits until no read wants the chip.
RefreshYields == ref_pend /\ PipeEmpty /\ ~ReadValid(pend, p1_was_last)

\* A pending refresh goes first: precharge all banks.
RefreshGo == ref_pend /\ PipeEmpty

IdleRefresh ==
    /\ state = "IDLE" /\ RefreshGo
    /\ cmd' = Cmd("PRE")
    /\ row_open' = FALSE
    /\ cnt' = 1
    /\ state' = "PRE_REF"
    /\ NoBurst
    /\ UNCHANGED <<xferVars, open_bank, open_row>>

WritePend == WR \in Ports /\ pend[WR]

\* rd_total for a port, and the first word of the burst its address selects.
RdTotal(p, r) == IF p = 2 THEN 8
                 ELSE IF p \in {1, 5} \/ (p = 0 /\ r.burst) THEN 4 ELSE 1
Aligned(r, n) == [r EXCEPT !.col = r.col - (r.col % n)]

Idle(target) ==
    /\ state = "IDLE" /\ ~RefreshGo
    /\ cmd' = Cmd("NOP")
    /\ state' = target

IdleWait ==
    /\ Idle("IDLE")
    /\ ~WritePend /\ ~ReadValid(pend, p1_was_last)
    /\ NoBurst
    /\ UNCHANGED <<cnt, xferVars, rowVars>>

\* Mutant: the row comparison forgets the bank.
SameRowNumber(r) == row_open /\ r.row = open_row

SameOpenRow(r) == row_open /\ r.bank = open_bank /\ r.row = open_row

\* A write goes before every read.
IdleGrantWrite ==
    /\ Idle("DISPATCH")
    /\ WritePend
    /\ grant' = WR
    /\ rd_total' = 1
    /\ xfer' = payload_p[WR]
    /\ reuse_open_write_row' = SameOpenRow(payload_p[WR])
    /\ rd_issued' = 0 /\ cap_buf' = <<>>
    /\ UNCHANGED <<cnt, rr_next, p1_was_last, rowVars>>

\* The rotation pointer after granting g.
PointerAfter(g) == IF PriorityGrant(pend, p1_was_last) THEN rr_next ELSE After(g)

IdleGrantRead ==
    /\ Idle("DISPATCH")
    /\ ~WritePend /\ ReadValid(pend, p1_was_last)
    /\ LET g == ReadGrant(pend, rr_next, p1_was_last) IN
        /\ grant' = g
        /\ p1_was_last' = (g = TilePort)
        /\ rr_next' = PointerAfter(g)
        /\ rd_total' = RdTotal(g, payload_p[g])
        /\ xfer' = Aligned(payload_p[g], RdTotal(g, payload_p[g]))
    /\ reuse_open_write_row' = FALSE
    /\ rd_issued' = 0 /\ cap_buf' = <<>>
    /\ UNCHANGED <<cnt, rowVars>>

\* Only a write to the row an earlier write left open keeps it open.
Dispatch ==
    /\ state = "DISPATCH"
    /\ \/ /\ reuse_open_write_row
          /\ state' = "WR" /\ cmd' = Cmd("NOP")
          /\ UNCHANGED <<row_open, cnt>>
       \/ /\ ~reuse_open_write_row /\ row_open
          /\ state' = "PRE_XFER" /\ cmd' = Cmd("PRE")
          /\ row_open' = FALSE /\ cnt' = 1
       \/ /\ ~reuse_open_write_row /\ ~row_open
          /\ state' = "ACT" /\ cmd' = Cmd("NOP")
          /\ UNCHANGED <<row_open, cnt>>
    /\ NoBurst
    /\ UNCHANGED <<xferVars, open_bank, open_row>>

\* States that count down and move on: PRE_XFER, PRE_REF, REFW.
CountDown(from, target) ==
    /\ state = from
    /\ IF cnt = 0 THEN state' = target /\ UNCHANGED cnt
                  ELSE cnt' = cnt - 1 /\ UNCHANGED state
    /\ cmd' = Cmd("NOP")
    /\ NoBurst
    /\ UNCHANGED <<xferVars, rowVars>>

PreXfer     == CountDown("PRE_XFER", "ACT")
RefreshWait == CountDown("REFW", "IDLE")

PreRefresh ==
    /\ state = "PRE_REF"
    /\ IF cnt = 0
       THEN cmd' = Cmd("REF") /\ row_open' = FALSE /\ cnt' = 6 /\ state' = "REFW"
       ELSE cmd' = Cmd("NOP") /\ cnt' = cnt - 1 /\ UNCHANGED <<row_open, state>>
    /\ NoBurst
    /\ UNCHANGED <<xferVars, open_bank, open_row>>

Activate ==
    /\ state = "ACT"
    /\ cmd' = CmdAt("ACT", xfer, FALSE)
    /\ open_bank' = xfer.bank
    /\ open_row' = xfer.row
    /\ row_open' = TRUE
    /\ state' = "RCD1"
    /\ NoBurst
    /\ UNCHANGED <<cnt, xferVars>>

RasToCas ==
    /\ \/ state = "RCD1" /\ state' = "RCD2"
       \/ state = "RCD2" /\ state' = IF grant = WR THEN "WR" ELSE "RD"
    /\ cmd' = Cmd("NOP")
    /\ NoBurst
    /\ UNCHANGED <<cnt, xferVars, rowVars>>

\* The row stays open after a write.
Write ==
    /\ state = "WR"
    /\ cmd' = CmdAt("WRITE", xfer, FALSE)
    /\ cnt' = 2
    /\ state' = "WRRC"
    /\ NoBurst
    /\ UNCHANGED <<xferVars, rowVars>>

WriteRecovery == CountDown("WRRC", "IDLE")

\* One READ per cycle; the last one precharges and closes the row.
Read ==
    /\ state = "RD"
    /\ LET last == rd_issued + 1 = rd_total IN
        /\ cmd' = CmdAt("READ", xfer, last)
        /\ row_open' = (row_open /\ ~last)
        /\ state' = IF last THEN "RDW" ELSE "RD"
    /\ xfer' = [xfer EXCEPT !.col = (xfer.col + 1) % 8]
    /\ rd_issued' = rd_issued + 1
    /\ cap_buf' = Captured
    /\ UNCHANGED <<cnt, grant, rr_next, p1_was_last, rd_total,
                   reuse_open_write_row, open_bank, open_row>>

ReadDrain ==
    /\ state = "RDW"
    /\ state' = IF PipeEmpty THEN "IDLE" ELSE "RDW"
    /\ cmd' = Cmd("NOP")
    /\ NoBurst
    /\ UNCHANGED <<cnt, xferVars, rowVars>>

Sequencer ==
    \/ Initialise
    \/ Running /\ \/ IdleRefresh \/ IdleWait \/ IdleGrantWrite \/ IdleGrantRead
                  \/ Dispatch \/ PreXfer \/ Activate \/ RasToCas
                  \/ Write \/ WriteRecovery \/ Read \/ ReadDrain
                  \/ PreRefresh \/ RefreshWait

(***************************************************************************)
(* The whole system.                                                       *)
(***************************************************************************)
Init ==
    /\ phase = 0 /\ resets = 0
    /\ req = [p \in Ports |-> FALSE] /\ busy = [p \in Ports |-> FALSE]
    /\ bus = [p \in Ports |-> NoRequest] /\ want = [p \in Ports |-> NoRequest]
    /\ served = [p \in Ports |-> 1] /\ passed = [p \in Ports |-> 0]
    /\ pend = [p \in Ports |-> FALSE] /\ req_d = [p \in Ports |-> FALSE]
    /\ payload_p = [p \in Ports |-> NoRequest]
    /\ ack = [p \in Ports |-> FALSE] /\ ack_d2 = [p \in Ports |-> FALSE]
    /\ dout = [p \in Ports |-> <<>>] /\ ack_stretch = 0
    /\ ready = FALSE /\ init_cnt = InitCycles /\ state = "IDLE"
    /\ grant = 0 /\ rr_next = 0 /\ p1_was_last = FALSE
    /\ rd_total = 0 /\ rd_issued = 0 /\ xfer = NoRequest
    /\ reuse_open_write_row = FALSE /\ cnt = 0
    /\ row_open = FALSE /\ open_bank = NoRequest.bank /\ open_row = NoRequest.row
    /\ ref_cnt = 0 /\ ref_pend = FALSE
    /\ cl_pipe = [i \in 0 .. 3 |-> 0] /\ cap_buf = <<>>
    /\ dq_in = NoWord /\ cmd = Cmd("NOP")
    /\ open = [b \in Banks |-> NoRow] /\ mem = InitMem
    /\ dq_p1 = NoWord /\ dq_p2 = NoWord /\ age = FreshAge

Clock ==
    /\ phase' = 1 - phase
    /\ Requesters /\ Mailboxes /\ Pipeline /\ Acknowledge /\ Chip /\ Sequencer
    /\ Waiting
    /\ UNCHANGED resets

\* Mutant: init does not empty the mailboxes.
ResetKeepsPend ==
    /\ pend' = pend /\ req_d' = [p \in Ports |-> FALSE]
    /\ ack' = [p \in Ports |-> FALSE] /\ ack_d2' = [p \in Ports |-> FALSE]
    /\ payload_p' = payload_p
    /\ ack_stretch' = 0

\* What init resets: the mailboxes and the sequencer's own registers.
ResetMailboxes ==
    /\ pend' = [p \in Ports |-> FALSE] /\ req_d' = [p \in Ports |-> FALSE]
    /\ ack' = [p \in Ports |-> FALSE] /\ ack_d2' = [p \in Ports |-> FALSE]
    /\ payload_p' = [p \in Ports |-> NoRequest]
    /\ ack_stretch' = 0

ResetRow ==
    /\ row_open' = FALSE
    /\ open_bank' = NoRequest.bank /\ open_row' = NoRequest.row

ResetSequencer ==
    /\ ready' = FALSE /\ init_cnt' = InitCycles /\ state' = "IDLE"
    /\ rr_next' = 0 /\ p1_was_last' = FALSE
    /\ reuse_open_write_row' = FALSE /\ cnt' = 0
    /\ ref_cnt' = 0 /\ ref_pend' = FALSE
    /\ cl_pipe' = [i \in 0 .. 3 |-> 0]
    /\ cmd' = Cmd("NOP")
    /\ UNCHANGED <<grant, rd_total, rd_issued, xfer, cap_buf>>

\* The PLL loses lock: init and the requesters' resets are asserted for long
\* enough to settle.  The chip keeps its cells and its open rows, and still
\* obeys the command already on its pins.
PllLoss ==
    /\ resets < MaxResets /\ resets' = resets + 1
    /\ req' = [p \in Ports |-> FALSE] /\ busy' = [p \in Ports |-> FALSE]
    /\ served' = [p \in Ports |-> 1] /\ passed' = [p \in Ports |-> 0]
    /\ ResetMailboxes /\ ResetRow /\ ResetSequencer
    /\ open' = ChipOpen(open, cmd) /\ mem' = ChipMem(mem, open, cmd)
    /\ dq_in' = NoWord /\ dq_p1' = NoWord /\ dq_p2' = NoWord /\ age' = FreshAge
    /\ UNCHANGED <<phase, bus, want, dout>>

Next == Clock \/ PllLoss

Spec     == Init /\ [][Next]_vars
\* The clock keeps running: its edges, which alone change phase, never stop.
Edge     == phase' = 1 - phase
FairSpec == Spec /\ WF_phase(Edge)

-----------------------------------------------------------------------------
(***************************************************************************)
(* Properties.                                                             *)
(***************************************************************************)

\* Every register holds a value of its type.
TypeOK ==
    /\ phase \in {0, 1} /\ resets \in 0 .. MaxResets
    /\ req \in [Ports -> BOOLEAN] /\ busy \in [Ports -> BOOLEAN]
    /\ bus \in [Ports -> Request] /\ want \in [Ports -> Request]
    /\ served \in [Ports -> Nat] /\ passed \in [Ports -> Nat]
    /\ pend \in [Ports -> BOOLEAN] /\ req_d \in [Ports -> BOOLEAN]
    /\ payload_p \in [Ports -> Request]
    /\ ack \in [Ports -> BOOLEAN] /\ ack_d2 \in [Ports -> BOOLEAN]
    /\ dout \in [Ports -> Seq(Word \cup {NoWord})] /\ ack_stretch \in {0, 1}
    /\ ready \in BOOLEAN /\ init_cnt \in 0 .. InitCycles /\ (~ready => init_cnt > 0)
    /\ state \in States /\ grant \in PortIds \cup {WR} /\ rr_next \in PortIds
    /\ p1_was_last \in BOOLEAN /\ rd_total \in {0, 1, 4, 8} /\ rd_issued \in 0 .. 8
    /\ xfer \in Request /\ reuse_open_write_row \in BOOLEAN /\ cnt \in 0 .. 6
    /\ row_open \in BOOLEAN /\ open_bank \in Banks /\ open_row \in Rows
    /\ ref_cnt \in 0 .. RefPeriod /\ ref_pend \in BOOLEAN
    /\ cl_pipe \in [0 .. 3 -> {0, 1}] /\ cap_buf \in Seq(Word \cup {NoWord})
    /\ dq_in \in Word \cup {NoWord} /\ dq_p1 \in Word \cup {NoWord}
    /\ dq_p2 \in Word \cup {NoWord}
    /\ cmd \in Command
    /\ open \in [Banks -> Rows \cup {NoRow}] /\ mem \in [Cells -> Word]
    /\ age \in [act : 1 .. MaxAge, pre : 1 .. MaxAge, ref : 1 .. MaxAge, wr : 1 .. MaxAge]

\* The request contract, first half: a request is never dropped.  Until it is
\* served, its rising edge is still to be latched or its mailbox is full, and
\* no acknowledge of an earlier request is about to empty it.
NoRequestLost ==
    \A p \in Ports : busy[p] /\ served[p] = 0 =>
        Rises(p) \/ (pend[p] /\ ~AckRises(p))

\* The request contract, second half: each rising edge of req is served once.
\* No port is served while it owes nothing, and no request is served twice.
ServedOnce ==
    \A p \in Ports : served[p] \in {0, 1} /\ (served[p] = 0 => busy[p])

\* The two-cycle acknowledge a requester samples answers its own request, not
\* the one before it.
AckAnswersRequest == \A p \in Ports : Collects(p) => served[p] = 1

\* The chip never sees a command it must not: the row the controller believes
\* open is the row the chip has open, an access finds the row of its own
\* address, ACT and REF find the bank precharged, and commands keep the spacing
\* the comments of the sequencer claim.
CommandsLegal ==
    /\ LegalCommand(open, cmd)
    /\ cmd.op \in {"READ", "WRITE"} => open[cmd.at.bank] = cmd.at.row
    /\ WellSpaced(age, cmd)

\* A refresh is always issued before the next one is due.
RefreshInTime == ready /\ RefreshDue => ~ref_pend

\* A tile fetch waits for at most one other read.  The tile port's credit and
\* the rotation together bound what a background port waits for: every other
\* background port once, and a tile fetch before each of them and before itself.
WaitBounded ==
    \A p \in ReadPorts :
        passed[p] <= IF p = TilePort THEN 1
                     ELSE IF TilePort \in ReadPorts
                     THEN 2 * (Cardinality(ReadPorts) - 2) + 1
                     ELSE Cardinality(ReadPorts) - 1

\* Every request is served.
EveryRequestServed ==
    \A p \in Ports : (busy[p] /\ served[p] = 0) ~> (served[p] = 1 \/ ~ready)

\* The cells a request names, and what a write leaves in a cell.
LineOf(p, r) ==
    LET n == IF p = WR THEN 1 ELSE RdTotal(p, r)
    IN [i \in 1 .. n |-> <<r.bank, r.row, r.col - (r.col % n) + i - 1>>]
MergeLanes(old, r) ==
    [lane \in {0, 1} |-> IF lane \in r.be THEN r.data[lane] ELSE old[lane]]

\* The detailed controller implements a memory with atomic accesses: whatever
\* the arbitration, the row handling and the capture pipeline do, a read
\* returns the cells at its own latched address, in order, as one instant saw
\* them, and a write changes exactly its own cell and lanes.
Answered(p) == busy[p] /\ served[p] = 1

Memory == INSTANCE MemoryPorts WITH
    WritePorts <- Ports \cap {WR},
    AnyRequest <- Request,
    InitStore  <- InitMem,
    Span       <- LineOf,
    Merge      <- MergeLanes,
    status     <- [p \in Ports |-> IF ~busy[p] THEN "idle"
                                   ELSE IF served[p] = 0 THEN "waiting" ELSE "done"],
    request    <- want,
    result     <- [p \in Ports |-> IF Answered(p) /\ p # WR THEN dout[p] ELSE <<>>],
    store      <- mem

ImplementsMemory == Memory!MemSpec
=============================================================================
