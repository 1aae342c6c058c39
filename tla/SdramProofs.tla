---------------------------- MODULE SdramProofs -----------------------------
(***************************************************************************)
(* Proofs about Sdram for every set of ports, addresses, cell contents,    *)
(* refresh interval and power-up sequence: its requests, the commands the  *)
(* chip sees and their spacing, refreshes in time, an arbiter that starves *)
(* nobody, and that what the users of the ports see is a memory.           *)
(***************************************************************************)
EXTENDS Sdram, FiniteSetTheorems, TLAPS

(***************************************************************************)
(* The inductive invariant.  Each part explains one piece of the timing.   *)
(***************************************************************************)
PipeSum == cl_pipe[0] + cl_pipe[1] + cl_pipe[2] + cl_pipe[3]

Started == {"DISPATCH", "PRE_XFER", "ACT", "RCD1", "RCD2"}

\* A transaction's words are either captured or still in the CAS pipeline, so
\* the last word leaves the pipeline empty and nothing is captured early.
PipeInv ==
    /\ ~ready => state = "IDLE"
    /\ state \notin {"RD", "RDW"} => PipeEmpty
    /\ state \in Started => rd_issued = 0 /\ cap_buf = <<>> /\ rd_total > 0 /\ grant \in Ports
    /\ state = "RD" => rd_issued < rd_total
    /\ state = "RDW" => rd_issued = rd_total
    /\ state \in {"RD", "RDW"} =>
            Len(cap_buf) + PipeSum = rd_issued /\ grant \in Ports \ {WR}
    /\ state \in {"WR", "WRRC"} => grant = WR /\ WR \in Ports
    /\ state = "DISPATCH" /\ reuse_open_write_row => grant = WR
    /\ state = "WRRC" => cnt <= 2

\* p's transaction is being carried out and is not yet acknowledged.
InFlight(p) ==
    /\ grant = p
    /\ \/ state \in Started \cup {"RD", "WR"}
       \/ state = "RDW" /\ ~PipeEmpty
       \/ state = "WRRC" /\ cnt = 2

\* p was acknowledged on the last edge; the sequencer is one edge from IDLE.
JustServed(p) ==
    /\ grant = p
    /\ \/ state = "RDW" /\ PipeEmpty
       \/ state = "WRRC" /\ cnt = 1

Latched(p) == pend[p] /\ ~AckRises(p)
Owed(p)    == busy[p] /\ served[p] = 0

PortInv(p) ==
    /\ served[p] \in {0, 1}
    /\ served[p] = 0 => busy[p]
    /\ Owed(p) => Rises(p) \/ Latched(p)
    /\ Latched(p) => Owed(p)
    /\ Rises(p) => Owed(p)
    /\ InFlight(p) => Latched(p)
    /\ AckRises(p) => JustServed(p) /\ busy[p] /\ served[p] = 1
    /\ ack[p] => (AckRises(p) <=> ack_stretch = 1)
    /\ ack[p] /\ ~AckRises(p) => state = "IDLE" \/ (state = "WRRC" /\ cnt = 0)
    /\ ack[p] /\ Owed(p) => phase = 0 /\ p \notin RamClockPorts

IInv == TypeOK /\ PipeInv /\ \A p \in Ports : PortInv(p)

-----------------------------------------------------------------------------
(***************************************************************************)
(* Constants and the arbiter.                                              *)
(***************************************************************************)
USE DEF PortIds, TilePort, WR

\* The payload registers start with a value of their type.
LEMMA NoRequestType == NoRequest \in Request
<1>1. \E w \in Word : TRUE
  <2>1. PICK b \in Bytes : TRUE BY DataAssumption
  <2>2. [lane \in {0, 1} |-> b] \in Word BY <2>1 DEF Word
  <2> QED BY <2>2
<1>2. (CHOOSE w \in Word : TRUE) \in Word BY <1>1
<1>3. (CHOOSE b \in Banks : TRUE) \in Banks /\ (CHOOSE r \in Rows : TRUE) \in Rows
  BY DataAssumption
<1> QED BY <1>2, <1>3 DEF NoRequest, Request, Cols

\* A default command and a command that carries a request are commands.
LEMMA CmdType ==
    ASSUME NEW op \in Ops
    PROVE  /\ Cmd(op) \in Command
           /\ \A r \in Request, ap \in BOOLEAN :
                CmdAt(op, r, ap) \in Command
BY NoRequestType DEF Cmd, CmdAt, Command

\* The ports are numbers; the write port is not a read port.
LEMMA PortsType == Ports \subseteq PortIds \cup {WR} /\ ReadPorts = Ports \ {WR}
BY PortsAssumption DEF Ports

\* Among a non-empty set of read ports one is nearest to the pointer.
LEMMA Nearest ==
    ASSUME NEW S \in SUBSET PortIds, S # {}, NEW r \in PortIds
    PROVE  \E p \in S : \A q \in S : Distance(r, p) <= Distance(r, q)
<1> DEFINE At(k) == \E p \in S : Distance(r, p) = k
<1>1. \A p \in S : Distance(r, p) \in 0 .. 5 BY DEF Distance
<1>2. \E k \in 0 .. 5 : At(k) BY <1>1
<1>3. PICK k \in 0 .. 5 : At(k) /\ \A j \in 0 .. 5 : At(j) => k <= j
  <2> HIDE DEF At
  <2> QED BY <1>2
<1>4. PICK p \in S : Distance(r, p) = k BY <1>3
<1>5. \A q \in S : k <= Distance(r, q) BY <1>1, <1>3
<1> QED BY <1>4, <1>5

\* The arbiter grants a reader that is waiting.
LEMMA GrantWaits ==
    ASSUME NEW f \in [Ports -> BOOLEAN], NEW r \in PortIds, NEW last \in BOOLEAN,
           ReadValid(f, last)
    PROVE  ReadGrant(f, r, last) \in Ports \ {WR} /\ f[ReadGrant(f, r, last)]
<1> DEFINE S == Eligible(f, last)
<1>1. S \subseteq {p \in Ports \cap PortIds : f[p]} BY DEF Eligible
<1>2. CASE PriorityGrant(f, last)
  BY <1>2, PortsType DEF PriorityGrant, ReadGrant
<1>3. CASE ~PriorityGrant(f, last)
  <2>1. S # {} BY <1>3 DEF ReadValid
  <2>2. \E p \in S : \A q \in S : Distance(r, p) <= Distance(r, q)
    BY <1>1, <2>1, Nearest
  <2>3. ReadGrant(f, r, last) \in S
    BY <1>3, <2>2 DEF ReadGrant
  <2> QED BY <1>1, <2>3
<1> QED BY <1>2, <1>3
-----------------------------------------------------------------------------
(***************************************************************************)
(* What one clock edge does to one port.                                   *)
(***************************************************************************)

ClientType ==
    /\ req \in [Ports -> BOOLEAN] /\ busy \in [Ports -> BOOLEAN]
    /\ bus \in [Ports -> Request] /\ want \in [Ports -> Request]

PortType ==
    /\ served \in [Ports -> Nat] /\ passed \in [Ports -> Nat]
    /\ pend \in [Ports -> BOOLEAN] /\ req_d \in [Ports -> BOOLEAN]
    /\ payload_p \in [Ports -> Request]
    /\ ack \in [Ports -> BOOLEAN] /\ ack_d2 \in [Ports -> BOOLEAN]
    /\ dout \in [Ports -> Seq(Word \cup {NoWord})] /\ ack_stretch \in {0, 1}

SeqType ==
    /\ ready \in BOOLEAN /\ init_cnt \in 0 .. InitCycles /\ (~ready => init_cnt > 0)
    /\ state \in States /\ grant \in PortIds \cup {WR} /\ rr_next \in PortIds
    /\ p1_was_last \in BOOLEAN /\ rd_total \in {0, 1, 4, 8} /\ rd_issued \in 0 .. 8
    /\ xfer \in Request /\ reuse_open_write_row \in BOOLEAN /\ cnt \in 0 .. 6
    /\ row_open \in BOOLEAN /\ open_bank \in Banks /\ open_row \in Rows
    /\ ref_cnt \in 0 .. RefPeriod /\ ref_pend \in BOOLEAN
    /\ cap_buf \in Seq(Word \cup {NoWord})
    /\ cmd \in Command

ChipType ==
    /\ cl_pipe \in [0 .. 3 -> {0, 1}]
    /\ dq_in \in Word \cup {NoWord} /\ dq_p1 \in Word \cup {NoWord}
    /\ dq_p2 \in Word \cup {NoWord}
    /\ open \in [Banks -> Rows \cup {NoRow}] /\ mem \in [Cells -> Word]
    /\ age \in [act : 1 .. MaxAge, pre : 1 .. MaxAge, ref : 1 .. MaxAge, wr : 1 .. MaxAge]

LEMMA TypeParts ==
    TypeOK <=> /\ phase \in {0, 1} /\ resets \in 0 .. MaxResets
               /\ ClientType /\ PortType /\ SeqType /\ ChipType
BY DEF TypeOK, ClientType, PortType, SeqType, ChipType

\* A requester starts, ends its pulse, collects its answer or stays as it is.
LEMMA RequesterStep ==
    ASSUME ClientType, Requesters, NEW p \in Ports
    PROVE  \/ CanStart(p) /\ req'[p] /\ busy'[p]
           \/ CanDrop(p) /\ ~req'[p] /\ busy'[p]
           \/ Collects(p) /\ ~req'[p] /\ ~busy'[p]
           \/ ~Collects(p) /\ req'[p] = req[p] /\ busy'[p] = busy[p]
BY DEF Requesters, ClientType, CanStart, CanDrop, Collects

LEMMA ClientTypeStep ==
    ASSUME ClientType, Requesters
    PROVE  ClientType'
<1>1. PICK starts \in SUBSET {p \in Ports : CanStart(p)},
           drops  \in SUBSET {p \in Ports : CanDrop(p)} :
       \E next \in {f \in [starts \cup drops -> UNION {Requests[p] : p \in Ports}] :
                    \A p \in starts \cup drops : f[p] \in Requests[p]} :
        /\ req' = [p \in Ports |-> \/ p \in starts
                                   \/ req[p] /\ p \notin drops /\ ~Collects(p)]
        /\ bus' = [p \in Ports |-> IF p \in starts \cup drops THEN next[p] ELSE bus[p]]
        /\ want' = [p \in Ports |-> IF p \in starts THEN next[p] ELSE want[p]]
        /\ busy' = [p \in Ports |-> p \in starts \/ (busy[p] /\ ~Collects(p))]
  BY DEF Requesters
<1>2. PICK next \in {f \in [starts \cup drops -> UNION {Requests[p] : p \in Ports}] :
                    \A p \in starts \cup drops : f[p] \in Requests[p]} :
        /\ req' = [p \in Ports |-> \/ p \in starts
                                   \/ req[p] /\ p \notin drops /\ ~Collects(p)]
        /\ bus' = [p \in Ports |-> IF p \in starts \cup drops THEN next[p] ELSE bus[p]]
        /\ want' = [p \in Ports |-> IF p \in starts THEN next[p] ELSE want[p]]
        /\ busy' = [p \in Ports |-> p \in starts \/ (busy[p] /\ ~Collects(p))]
  BY <1>1
<1>3. \A p \in starts \cup drops : next[p] \in Request
  BY PortsAssumption
<1> QED BY <1>2, <1>3 DEF ClientType

LEMMA PortTypeStep ==
    ASSUME ClientType, PortType, SeqType, ChipType,
           Mailboxes, Acknowledge, Waiting
    PROVE  PortType'
<1>1. Captured \in Seq(Word \cup {NoWord})
  BY DEF Captured, SeqType, ChipType
<1>2. /\ pend' \in [Ports -> BOOLEAN] /\ req_d' \in [Ports -> BOOLEAN]
      /\ payload_p' \in [Ports -> Request] /\ ack_d2' \in [Ports -> BOOLEAN]
  BY DEF Mailboxes, PendNext, PayloadNext, ClientType, PortType
<1>3. ack' \in [Ports -> BOOLEAN] /\ ack_stretch' \in {0, 1}
  BY DEF Acknowledge, StretchNext
<1>4. dout' \in [Ports -> Seq(Word \cup {NoWord})]
  BY <1>1 DEF Acknowledge, PortType
<1>5. served' \in [Ports -> Nat] BY DEF Acknowledge, PortType
<1>6. passed' \in [Ports -> Nat] BY DEF Waiting, PortType
<1> QED BY <1>2, <1>3, <1>4, <1>5, <1>6 DEF PortType

\* Whatever command is on its pins, the chip keeps rows and cells of their types.
LEMMA ChipCommandType ==
    ASSUME ChipType, SeqType
    PROVE  /\ ChipOpen(open, cmd) \in [Banks -> Rows \cup {NoRow}]
           /\ ChipMem(mem, open, cmd) \in [Cells -> Word]
           /\ ChipRead(mem, open, cmd) \in Word \cup {NoWord}
<1> USE DEF ChipType, SeqType
<1>2. cmd.at.bank \in Banks /\ cmd.at.row \in Rows /\ cmd.at.col \in Cols /\ cmd.at.data \in Word
  BY DEF Request, Command
<1>3. ChipOpen(open, cmd) \in [Banks -> Rows \cup {NoRow}]
  BY <1>2 DEF ChipOpen
<1>4. open[cmd.at.bank] # NoRow => Cell(open, cmd.at) \in Cells
  BY <1>2 DEF Cell, Cells
<1>5. ChipMem(mem, open, cmd) \in [Cells -> Word]
  <2>1. CASE ~(cmd.op = "WRITE" /\ open[cmd.at.bank] # NoRow)
    BY <2>1 DEF ChipMem
  <2>2. CASE cmd.op = "WRITE" /\ open[cmd.at.bank] # NoRow
    <3> DEFINE c == Cell(open, cmd.at)
               w == [lane \in {0, 1} |-> IF lane \in cmd.at.be
                                         THEN cmd.at.data[lane] ELSE mem[c][lane]]
    <3>1. w \in Word BY <1>2, <1>4, <2>2 DEF Word
    <3>2. ChipMem(mem, open, cmd) = [mem EXCEPT ![c] = w] BY <2>2 DEF ChipMem
    <3> QED BY <3>1, <3>2
  <2> QED BY <2>1, <2>2
<1>6. ChipRead(mem, open, cmd) \in Word \cup {NoWord}
  BY <1>4 DEF ChipRead
<1> QED BY <1>3, <1>5, <1>6

LEMMA ChipTypeStep ==
    ASSUME ChipType, SeqType, Pipeline, Chip
    PROVE  ChipType'
<1>1. cl_pipe' \in [0 .. 3 -> {0, 1}] /\ dq_in' \in Word \cup {NoWord}
  BY DEF Pipeline, ChipType
<1>2. /\ open' \in [Banks -> Rows \cup {NoRow}] /\ mem' \in [Cells -> Word]
      /\ dq_p1' \in Word \cup {NoWord} /\ dq_p2' \in Word \cup {NoWord}
  BY ChipCommandType DEF Chip, ChipType
<1>3. age' \in [act : 1 .. MaxAge, pre : 1 .. MaxAge, ref : 1 .. MaxAge, wr : 1 .. MaxAge]
  BY DEF Chip, ChipType, ChipAge, Older, MaxAge
<1> QED BY <1>1, <1>2, <1>3 DEF ChipType
-----------------------------------------------------------------------------
(***************************************************************************)
(* The sequencer: types.                                                   *)
(***************************************************************************)

LEMMA CapturedType ==
    ASSUME SeqType, ChipType
    PROVE  /\ Captured \in Seq(Word \cup {NoWord})
           /\ Len(Captured) = IF Capture THEN Len(cap_buf) + 1 ELSE Len(cap_buf)
BY DEF SeqType, ChipType, Captured

LEMMA AlignedType ==
    ASSUME NEW r \in Request, NEW p \in Ports
    PROVE  RdTotal(p, r) \in {1, 4, 8} /\ Aligned(r, RdTotal(p, r)) \in Request
<1>1. RdTotal(p, r) \in {1, 4, 8} BY DEF RdTotal
<1>2. \A n \in {1, 4, 8} : Aligned(r, n) \in Request
  <2> SUFFICES ASSUME NEW n \in {1, 4, 8} PROVE Aligned(r, n) \in Request
    OBVIOUS
  <2>1. r.col - (r.col % n) \in Cols BY DEF Request, Cols
  <2> QED BY <2>1 DEF Aligned, Request
<1> QED BY <1>1, <1>2

LEMMA SeqTypeStep ==
    ASSUME PortType, SeqType, ChipType, PipeInv, Sequencer
    PROVE  SeqType'
<1> USE DEF SeqType
<1>c. \A o \in Ops : Cmd(o) \in Command BY CmdType
<1>a. \A o \in Ops, ap \in BOOLEAN : CmdAt(o, xfer, ap) \in Command BY CmdType
<1>b. Captured \in Seq(Word \cup {NoWord}) BY CapturedType
<1>o. {"NOP", "ACT", "READ", "WRITE", "PRE", "REF"} \subseteq Ops BY DEF Ops
<1> DEFINE CmdIn == cmd' \in Command
           RowIn == row_open' \in BOOLEAN /\ open_bank' \in Banks /\ open_row' \in Rows
<1>1. CASE Initialise
  <2>1. init_cnt \in 1 .. InitCycles BY <1>1 DEF Initialise
  <2>2. InitCommand[init_cnt] \in Ops BY <2>1, TimingAssumption DEF Ops
  <2>r. ready' \in BOOLEAN BY <1>1 DEF Initialise
  <2>3. init_cnt' \in 0 .. InitCycles /\ (~ready' => init_cnt' > 0)
    <3>1. init_cnt' = init_cnt - 1 /\ (ready' <=> init_cnt = 1) BY <1>1 DEF Initialise
    <3> QED BY <2>1, <3>1, TimingAssumption
  <2>4. CmdIn BY <1>1, <1>c, <2>2 DEF Initialise
  <2> QED BY <1>b, <1>1, <2>r, <2>3, <2>4
      DEF Initialise, NoBurst, xferVars, rowVars, refreshVars
<1>2. CASE Running /\ ~Initialise
  <2> USE <1>2
  <2>1. /\ ready' \in BOOLEAN /\ init_cnt' \in 0 .. InitCycles
        /\ (~ready' => init_cnt' > 0)
        /\ ref_cnt' \in 0 .. RefPeriod /\ ref_pend' \in BOOLEAN
    BY TimingAssumption DEF Running, RefreshTimer, RefreshDue
  <2> USE DEF xferVars, rowVars, NoBurst, States
  <2>3. CASE IdleRefresh
    <3>1. CmdIn BY <1>c, <1>o, <2>3 DEF IdleRefresh
    <3>n. cnt' \in 0 .. 6 BY <2>3 DEF IdleRefresh
    <3> QED BY <1>b, <3>n, <2>1, <2>3, <3>1 DEF IdleRefresh
  <2>4. CASE IdleWait
    <3>1. CmdIn BY <1>c, <1>o, <2>4 DEF IdleWait, Idle
    <3> QED BY <1>b, <2>1, <2>4, <3>1 DEF IdleWait, Idle
  <2>5. CASE IdleGrantWrite
    <3>1. CmdIn BY <1>c, <1>o, <2>5 DEF IdleGrantWrite, Idle
    <3>2. xfer' \in Request BY <2>5 DEF IdleGrantWrite, WritePend, PortType
    <3>3. reuse_open_write_row' \in BOOLEAN BY <2>5 DEF IdleGrantWrite, SameOpenRow
    <3> QED BY <2>1, <2>5, <3>1, <3>2, <3>3 DEF IdleGrantWrite, Idle
  <2>6. CASE IdleGrantRead
    <3> DEFINE g == ReadGrant(pend, rr_next, p1_was_last)
               n == RdTotal(g, payload_p[g])
    <3>1. g \in Ports \ {WR} /\ g \in PortIds
      BY <2>6, GrantWaits, PortsType DEF IdleGrantRead, PortType
    <3>2. n \in {1, 4, 8} /\ Aligned(payload_p[g], n) \in Request
      BY <3>1, AlignedType DEF PortType
    <3>3. After(g) \in PortIds BY <3>1 DEF After
    <3>4. rr_next' \in PortIds BY <2>6, <3>3 DEF IdleGrantRead, PointerAfter
    <3>5. CmdIn BY <1>c, <1>o, <2>6 DEF IdleGrantRead, Idle
    <3>6. grant' \in PortIds /\ rd_total' \in {1, 4, 8} /\ xfer' \in Request
      BY <2>6, <3>1, <3>2 DEF IdleGrantRead
    <3>7. p1_was_last' \in BOOLEAN /\ reuse_open_write_row' \in BOOLEAN
          /\ state' \in States
      BY <2>6 DEF IdleGrantRead, Idle
    <3>8. rd_issued' \in 0 .. 8 /\ cap_buf' \in Seq(Word \cup {NoWord})
      BY <2>6 DEF IdleGrantRead
    <3>9. UNCHANGED <<cnt, rowVars>> BY <2>6 DEF IdleGrantRead
    <3> HIDE DEF g, n
    <3> QED BY <2>1, <3>4, <3>5, <3>6, <3>7, <3>8, <3>9
  <2>7. CASE Dispatch
    <3>1. CmdIn BY <1>c, <1>o, <2>7 DEF Dispatch
    <3>2. cnt' \in 0 .. 6 BY <2>7 DEF Dispatch
    <3>3. row_open' \in BOOLEAN /\ state' \in States BY <2>7 DEF Dispatch
    <3> QED BY <1>b, <2>1, <2>7, <3>1, <3>2, <3>3 DEF Dispatch
  <2>8. CASE PreXfer \/ WriteRecovery \/ RefreshWait
    <3>1. CmdIn BY <1>c, <1>o, <2>8 DEF PreXfer, WriteRecovery, RefreshWait, CountDown
    <3>n. cnt' \in 0 .. 6 BY <2>8 DEF PreXfer, WriteRecovery, RefreshWait, CountDown
    <3> QED BY <1>b, <3>n, <2>1, <2>8, <3>1 DEF PreXfer, WriteRecovery, RefreshWait, CountDown
  <2>9. CASE Activate
    <3>1. CmdIn BY <1>a, <1>o, <2>9 DEF Activate
    <3>2. RowIn BY <2>9 DEF Activate, Request
    <3> QED BY <1>b, <2>1, <2>9, <3>1, <3>2 DEF Activate
  <2>10. CASE RasToCas
    <3>1. CmdIn BY <1>c, <1>o, <2>10 DEF RasToCas
    <3> QED BY <1>b, <2>1, <2>10, <3>1 DEF RasToCas
  <2>11. CASE Write
    <3>1. CmdIn BY <1>a, <1>o, <2>11 DEF Write
    <3>n. cnt' \in 0 .. 6 BY <2>11 DEF Write
    <3> QED BY <1>b, <3>n, <2>1, <2>11, <3>1 DEF Write
  <2>12. CASE Read
    <3>1. rd_issued' \in 0 .. 8 BY <2>12 DEF Read, PipeInv
    <3>2. xfer' \in Request BY <2>12 DEF Read, Request, Cols
    <3>3. CmdIn BY <1>a, <1>o, <2>12 DEF Read
    <3>4. row_open' \in BOOLEAN /\ state' \in States BY <2>12 DEF Read
    <3> QED BY <1>b, <2>1, <2>12, <3>1, <3>2, <3>3, <3>4 DEF Read
  <2>13. CASE ReadDrain
    <3>1. CmdIn BY <1>c, <1>o, <2>13 DEF ReadDrain
    <3> QED BY <1>b, <2>1, <2>13, <3>1 DEF ReadDrain
  <2>14. CASE PreRefresh
    <3>1. CmdIn BY <1>c, <1>o, <2>14 DEF PreRefresh
    <3>2. cnt' \in 0 .. 6 BY <2>14 DEF PreRefresh
    <3>3. row_open' \in BOOLEAN /\ state' \in States BY <2>14 DEF PreRefresh
    <3> QED BY <1>b, <2>1, <2>14, <3>1, <3>2, <3>3 DEF PreRefresh
  <2> QED BY <2>3, <2>4, <2>5, <2>6, <2>7, <2>8, <2>9, <2>10, <2>11, <2>12, <2>13, <2>14
          DEF Sequencer
<1> QED BY <1>1, <1>2 DEF Sequencer
-----------------------------------------------------------------------------
(***************************************************************************)
(* The sequencer: how a transaction moves through the pipeline.            *)
(***************************************************************************)

\* The pipeline shifts by one: its words are conserved, one goes in during RD,
\* one comes out on Capture.
LEMMA PipeShift ==
    ASSUME ChipType, Pipeline
    PROVE  /\ PipeSum \in 0 .. 4 /\ PipeSum' \in 0 .. 4
           /\ PipeEmpty <=> PipeSum = 0
           /\ PipeEmpty' <=> PipeSum' = 0
           /\ PipeSum' = PipeSum + (IF ready /\ state = "RD" THEN 1 ELSE 0)
                                 - (IF Capture THEN 1 ELSE 0)
<1>1. /\ cl_pipe'[0] = IF ready /\ state = "RD" THEN 1 ELSE 0
      /\ cl_pipe'[1] = cl_pipe[0] /\ cl_pipe'[2] = cl_pipe[1] /\ cl_pipe'[3] = cl_pipe[2]
  BY DEF Pipeline
<1>2. \A i \in 0 .. 3 : cl_pipe[i] \in {0, 1} BY DEF ChipType
<1>3. cl_pipe[0] \in {0, 1} /\ cl_pipe[1] \in {0, 1} /\ cl_pipe[2] \in {0, 1} /\ cl_pipe[3] \in {0, 1}
  BY <1>2
<1>4. PipeEmpty <=> cl_pipe[0] = 0 /\ cl_pipe[1] = 0 /\ cl_pipe[2] = 0 /\ cl_pipe[3] = 0
  <2>1. PipeEmpty => cl_pipe[0] = 0 /\ cl_pipe[1] = 0 /\ cl_pipe[2] = 0 /\ cl_pipe[3] = 0
    BY DEF PipeEmpty
  <2>2. ASSUME cl_pipe[0] = 0, cl_pipe[1] = 0, cl_pipe[2] = 0, cl_pipe[3] = 0
        PROVE PipeEmpty
    <3>1. \A i \in 0 .. 3 : i = 0 \/ i = 1 \/ i = 2 \/ i = 3 OBVIOUS
    <3> QED BY <2>2, <3>1 DEF PipeEmpty
  <2> QED BY <2>1, <2>2
<1>5. PipeEmpty' <=> cl_pipe'[0] = 0 /\ cl_pipe'[1] = 0 /\ cl_pipe'[2] = 0 /\ cl_pipe'[3] = 0
  <2>1. PipeEmpty' => cl_pipe'[0] = 0 /\ cl_pipe'[1] = 0 /\ cl_pipe'[2] = 0 /\ cl_pipe'[3] = 0
    BY DEF PipeEmpty
  <2>2. ASSUME cl_pipe'[0] = 0, cl_pipe'[1] = 0, cl_pipe'[2] = 0, cl_pipe'[3] = 0
        PROVE PipeEmpty'
    <3>1. \A i \in 0 .. 3 : i = 0 \/ i = 1 \/ i = 2 \/ i = 3 OBVIOUS
    <3> QED BY <2>2, <3>1 DEF PipeEmpty
  <2> QED BY <2>1, <2>2
<1> QED BY <1>1, <1>3, <1>4, <1>5 DEF PipeSum, Capture

LEMMA PipeInvStep ==
    ASSUME PortType, SeqType, ChipType, PipeInv, Pipeline, Sequencer
    PROVE  PipeInv'
<1> USE DEF SeqType, States
<1>s. PipeSum \in 0 .. 4 /\ PipeSum' \in 0 .. 4 /\ (PipeEmpty <=> PipeSum = 0)
      /\ (PipeEmpty' <=> PipeSum' = 0)
  BY PipeShift
<1>c. /\ Len(cap_buf) \in Nat
      /\ Len(Captured) = IF Capture THEN Len(cap_buf) + 1 ELSE Len(cap_buf)
  BY CapturedType
<1>m. PipeSum' = PipeSum + (IF ready /\ state = "RD" THEN 1 ELSE 0)
                         - (IF Capture THEN 1 ELSE 0)
  BY PipeShift
<1>e. PipeEmpty => ~Capture BY DEF PipeEmpty, Capture
<1>p. state \notin {"RD", "RDW"} => PipeEmpty /\ PipeEmpty'
  BY <1>s, <1>m, <1>e DEF PipeInv
<1>1. CASE Initialise
  <2>1. state' = "IDLE" /\ PipeEmpty'
    BY <1>1, <1>p DEF Initialise, PipeInv
  <2> QED BY <2>1 DEF PipeInv, Started
<1>2. CASE Running /\ ~Initialise
  <2>1. ready /\ ready' BY <1>2 DEF Running
  <2> USE DEF NoBurst, xferVars, rowVars
  <2>2. CASE IdleRefresh \/ IdleWait \/ RefreshWait \/ PreRefresh \/ WriteRecovery
    <3>1. state' \in {"IDLE", "PRE_REF", "REFW", "WRRC"}
      BY <2>2 DEF IdleRefresh, IdleWait, Idle, RefreshWait, PreRefresh, WriteRecovery, CountDown
    <3>2. PipeEmpty'
      BY <2>2, <1>p DEF IdleRefresh, IdleWait, Idle, RefreshWait, PreRefresh, WriteRecovery, CountDown
    <3>3. state' = "WRRC" => state = "WRRC" /\ grant' = grant /\ cnt' <= 2
      BY <2>2 DEF IdleRefresh, IdleWait, Idle, RefreshWait, PreRefresh, WriteRecovery, CountDown, PipeInv
    <3> QED BY <2>1, <3>1, <3>2, <3>3 DEF PipeInv, Started
  <2>3. CASE IdleGrantWrite
    <3>1. PipeEmpty' BY <2>3, <1>p DEF IdleGrantWrite, Idle
    <3> QED BY <2>1, <2>3, <3>1 DEF IdleGrantWrite, Idle, PipeInv, Started, WritePend
  <2>4. CASE IdleGrantRead
    <3>1. PipeEmpty' BY <2>4, <1>p DEF IdleGrantRead, Idle
    <3> DEFINE g == ReadGrant(pend, rr_next, p1_was_last)
    <3>2. g \in Ports BY <2>4, GrantWaits DEF IdleGrantRead, PortType
    <3>3. RdTotal(g, payload_p[g]) > 0 BY DEF RdTotal
    <3>4. /\ grant' \in Ports /\ rd_total' > 0 /\ rd_issued' = 0 /\ cap_buf' = <<>>
          /\ state' = "DISPATCH" /\ reuse_open_write_row' = FALSE
      BY <2>4, <3>2, <3>3 DEF IdleGrantRead, Idle
    <3> QED BY <2>1, <3>1, <3>4 DEF PipeInv, Started
  <2>5. CASE Dispatch \/ PreXfer \/ Activate \/ RasToCas
    <3> USE DEF Dispatch, PreXfer, CountDown, Activate, RasToCas
    <3>1. PipeEmpty' /\ PipeEmpty BY <2>5, <1>p
    <3>2. Captured = cap_buf BY <3>1, <1>e DEF Captured
    <3>3. cap_buf' = cap_buf /\ rd_issued' = rd_issued /\ rd_total' = rd_total /\ grant' = grant
      BY <2>5, <3>2
    <3>4. state \in Started BY <2>5 DEF Started
    <3>5. cap_buf = <<>> /\ rd_issued = 0 /\ rd_total > 0 /\ grant \in Ports
      BY <3>4 DEF PipeInv
    <3>6. state' \in {"PRE_XFER", "ACT", "RCD1", "RCD2", "RD"} \/ (state' = "WR" /\ grant = WR)
      BY <2>5 DEF PipeInv
    <3>7. state' = "RD" => grant # WR BY <2>5
    <3>8. Len(cap_buf) = 0 BY <3>5
    <3>9. PipeSum' = 0 BY <3>1, <1>s
    <3> HIDE DEF Dispatch, PreXfer, CountDown, Activate, RasToCas
    <3> QED BY <2>1, <3>1, <3>3, <3>5, <3>6, <3>7, <3>8, <3>9 DEF PipeInv, Started
  <2>6. CASE Write
    <3>1. PipeEmpty' BY <2>6, <1>p DEF Write
    <3> QED BY <2>1, <2>6, <3>1 DEF Write, PipeInv, Started
  <2>7. CASE Read
    <3>1. /\ rd_issued' = rd_issued + 1 /\ rd_total' = rd_total /\ cap_buf' = Captured
          /\ grant' = grant /\ state = "RD"
          /\ state' = IF rd_issued + 1 = rd_total THEN "RDW" ELSE "RD"
      BY <2>7 DEF Read
    <3>2. rd_issued < rd_total /\ grant \in Ports \ {WR} /\ Len(cap_buf) + PipeSum = rd_issued
      BY <3>1 DEF PipeInv
    <3>3. Len(cap_buf') + PipeSum' = rd_issued'
      BY <1>c, <1>m, <1>s, <2>1, <3>1, <3>2
    <3> QED BY <2>1, <3>1, <3>2, <3>3 DEF PipeInv, Started
  <2>8. CASE ReadDrain
    <3>1. /\ rd_issued' = rd_issued /\ rd_total' = rd_total /\ cap_buf' = Captured
          /\ grant' = grant /\ state = "RDW"
          /\ state' = IF PipeEmpty THEN "IDLE" ELSE "RDW"
      BY <2>8 DEF ReadDrain
    <3>2. rd_issued = rd_total /\ grant \in Ports \ {WR} /\ Len(cap_buf) + PipeSum = rd_issued
      BY <3>1 DEF PipeInv
    <3>3. Len(cap_buf') + PipeSum' = rd_issued'
      BY <1>c, <1>m, <1>s, <2>1, <3>1, <3>2
    <3>4. PipeEmpty => PipeEmpty' BY <1>s, <1>m, <1>e, <3>1
    <3> QED BY <2>1, <3>1, <3>2, <3>3, <3>4 DEF PipeInv, Started
  <2> QED BY <1>2, <2>2, <2>3, <2>4, <2>5, <2>6, <2>7, <2>8 DEF Sequencer
<1> QED BY <1>1, <1>2 DEF Sequencer
-----------------------------------------------------------------------------
(***************************************************************************)
(* The sequencer and one port: a delivery ends a flight, a flight starts   *)
(* with a grant to a waiting port, and the acknowledge that follows lasts  *)
(* exactly until the sequencer is idle again.                              *)
(***************************************************************************)

LEMMA DeliverStep ==
    ASSUME PortType, SeqType, ChipType, PipeInv, Pipeline, Sequencer, NEW p \in Delivers
    PROVE  InFlight(p) /\ JustServed(p)' /\ p \in Ports /\ Delivers = {p}
<1> USE DEF SeqType
<1>s. PipeSum \in 0 .. 4 /\ PipeSum' \in 0 .. 4 /\ (PipeEmpty <=> PipeSum = 0)
      /\ (PipeEmpty' <=> PipeSum' = 0)
  BY PipeShift
<1>m. PipeSum' = PipeSum + (IF ready /\ state = "RD" THEN 1 ELSE 0)
                         - (IF Capture THEN 1 ELSE 0)
  BY PipeShift
<1>e. PipeEmpty => ~Capture BY DEF PipeEmpty, Capture
<1>c. Len(cap_buf) \in Nat OBVIOUS
<1>1. CASE LastWord
  <2>1. Capture /\ Len(cap_buf) + 1 = rd_total BY <1>1 DEF LastWord
  <2>2. state \in {"RD", "RDW"} BY <2>1, <1>e DEF PipeInv
  <2>3. Len(cap_buf) + PipeSum = rd_issued /\ grant \in Ports \ {WR} BY <2>2 DEF PipeInv
  <2>4. PipeSum >= 1 BY <1>s, <1>e, <2>1
  <2>5. rd_issued >= rd_total BY <1>c, <1>s, <2>1, <2>3, <2>4
  <2>6. state = "RDW" /\ rd_issued = rd_total BY <2>2, <2>5 DEF PipeInv
  <2>7. PipeSum = 1 BY <1>c, <1>s, <2>1, <2>3, <2>6
  <2>8. ~PipeEmpty /\ PipeEmpty' BY <1>s, <1>m, <2>1, <2>6, <2>7
  <2>9. ~WriteDone BY <2>6 DEF WriteDone
  <2>10. p = grant /\ Delivers = {p} BY <1>1, <2>9 DEF Delivers
  <2>11. ReadDrain BY <2>6 DEF Sequencer, Initialise, PipeInv, IdleRefresh, IdleWait,
           IdleGrantWrite, IdleGrantRead, Idle, Dispatch, PreXfer, CountDown, Activate,
           RasToCas, Write, WriteRecovery, Read, PreRefresh, RefreshWait
  <2>12. state' = "RDW" /\ grant' = grant BY <2>8, <2>11 DEF ReadDrain, xferVars
  <2> QED BY <2>3, <2>6, <2>8, <2>10, <2>12 DEF InFlight, JustServed
<1>2. CASE ~LastWord
  <2>1. WriteDone /\ p = WR /\ Delivers = {WR} BY <1>2 DEF Delivers
  <2>2. ready /\ state = "WRRC" /\ cnt = 2 BY <2>1 DEF WriteDone
  <2>3. grant = WR /\ WR \in Ports BY <2>2 DEF PipeInv
  <2>4. WriteRecovery BY <2>2 DEF Sequencer, Initialise, PipeInv, IdleRefresh, IdleWait,
           IdleGrantWrite, IdleGrantRead, Idle, Dispatch, PreXfer, CountDown, Activate,
           RasToCas, Write, ReadDrain, Read, PreRefresh, RefreshWait
  <2>5. state' = "WRRC" /\ cnt' = 1 /\ grant' = grant
    BY <2>2, <2>4 DEF WriteRecovery, CountDown, xferVars
  <2> QED BY <2>1, <2>2, <2>3, <2>5 DEF InFlight, JustServed
<1> QED BY <1>1, <1>2

\* Nothing is delivered just after a delivery nor while the sequencer is idle.
LEMMA NothingDelivered ==
    ASSUME SeqType, ChipType, PipeInv, NEW q,
           JustServed(q) \/ state = "IDLE" \/ (state = "WRRC" /\ cnt = 0)
    PROVE  Delivers = {}
<1>1. PipeEmpty BY DEF JustServed, PipeInv
<1>2. ~LastWord BY <1>1 DEF PipeEmpty, LastWord, Capture
<1>3. ~WriteDone BY DEF JustServed, WriteDone
<1> QED BY <1>2, <1>3 DEF Delivers

\* A port in flight was in flight before, or is granted now because it waits.
LEMMA FlightStep ==
    ASSUME PortType, SeqType, ChipType, PipeInv, Pipeline, Sequencer,
           NEW p \in Ports, InFlight(p)'
    PROVE  \/ InFlight(p) /\ p \notin Delivers
           \/ state = "IDLE" /\ pend[p]
<1> USE DEF SeqType
<1>s. PipeSum \in 0 .. 4 /\ PipeSum' \in 0 .. 4 /\ (PipeEmpty <=> PipeSum = 0)
      /\ (PipeEmpty' <=> PipeSum' = 0)
  BY PipeShift
<1>m. PipeSum' = PipeSum + (IF ready /\ state = "RD" THEN 1 ELSE 0)
                         - (IF Capture THEN 1 ELSE 0)
  BY PipeShift
<1>e. PipeEmpty => ~Capture BY DEF PipeEmpty, Capture
<1>n. p \notin Delivers
  <2>1. SUFFICES ASSUME p \in Delivers PROVE FALSE OBVIOUS
  <2>2. JustServed(p)' BY <2>1, DeliverStep
  <2> QED BY <2>2 DEF JustServed, InFlight, Started
<1>g. grant' = p /\ (state' \in Started \cup {"RD", "WR"} \/ (state' = "RDW" /\ ~PipeEmpty')
                     \/ (state' = "WRRC" /\ cnt' = 2))
  BY DEF InFlight
<1> USE DEF Started, xferVars
<1>1. CASE Initialise
  BY <1>1, <1>g DEF Initialise, PipeInv
<1>2. CASE IdleRefresh \/ IdleWait \/ RefreshWait \/ PreRefresh
  BY <1>2, <1>g DEF IdleRefresh, IdleWait, Idle, RefreshWait, PreRefresh, CountDown
<1>3. CASE WriteRecovery
  <2>1. state = "WRRC" /\ state' \in {"IDLE", "WRRC"} /\ grant' = grant /\ (cnt = 0 => state' = "IDLE")
        /\ (cnt # 0 => cnt' = cnt - 1)
    BY <1>3 DEF WriteRecovery, CountDown
  <2>2. cnt <= 2 BY <2>1 DEF PipeInv
  <2> QED BY <1>g, <2>1, <2>2
<1>4. CASE IdleGrantWrite
  BY <1>4, <1>g DEF IdleGrantWrite, Idle, WritePend
<1>5. CASE IdleGrantRead
  <2>1. pend[ReadGrant(pend, rr_next, p1_was_last)]
    BY <1>5, GrantWaits DEF IdleGrantRead, PortType
  <2>2. p = ReadGrant(pend, rr_next, p1_was_last) /\ state = "IDLE"
    BY <1>5, <1>g DEF IdleGrantRead, Idle
  <2> QED BY <2>1, <2>2
<1>6. CASE Dispatch \/ PreXfer \/ Activate \/ RasToCas
  <2>1. state \in Started /\ grant' = grant
    BY <1>6 DEF Dispatch, PreXfer, CountDown, Activate, RasToCas
  <2> QED BY <1>n, <1>g, <2>1 DEF InFlight
<1>7. CASE Write \/ Read
  <2>1. state \in {"RD", "WR"} /\ grant' = grant BY <1>7 DEF Write, Read
  <2> QED BY <1>n, <1>g, <2>1 DEF InFlight
<1>8. CASE ReadDrain
  <2>1. state = "RDW" /\ grant' = grant /\ (PipeEmpty => state' = "IDLE")
        /\ state' \in {"IDLE", "RDW"}
    BY <1>8 DEF ReadDrain
  <2> QED BY <1>n, <1>g, <2>1 DEF InFlight
<1> QED BY <1>1, <1>2, <1>3, <1>4, <1>5, <1>6, <1>7, <1>8 DEF Sequencer

\* The edge after a delivery the sequencer is idle or one edge from it; the
\* edge after that it may be granting the next transaction.
LEMMA ServedStep ==
    ASSUME SeqType, PipeInv, Sequencer, NEW p, JustServed(p)
    PROVE  state' = "IDLE" \/ (state' = "WRRC" /\ cnt' = 0)
<1> USE DEF SeqType, JustServed
<1>1. CASE state = "RDW" /\ PipeEmpty
  <2>1. ReadDrain BY <1>1 DEF Sequencer, Initialise, PipeInv, IdleRefresh, IdleWait,
           IdleGrantWrite, IdleGrantRead, Idle, Dispatch, PreXfer, CountDown, Activate,
           RasToCas, Write, WriteRecovery, Read, PreRefresh, RefreshWait
  <2> QED BY <1>1, <2>1 DEF ReadDrain
<1>2. CASE state = "WRRC" /\ cnt = 1
  <2>1. WriteRecovery BY <1>2 DEF Sequencer, Initialise, PipeInv, IdleRefresh, IdleWait,
           IdleGrantWrite, IdleGrantRead, Idle, Dispatch, PreXfer, CountDown, Activate,
           RasToCas, Write, ReadDrain, Read, PreRefresh, RefreshWait
  <2> QED BY <1>2, <2>1 DEF WriteRecovery, CountDown
<1> QED BY <1>1, <1>2

\* Every part of a port's invariant survives a clock edge.
LEMMA PortInvStep ==
    ASSUME TypeOK, PipeInv, NEW p \in Ports, PortInv(p), phase' = 1 - phase,
           Requesters, Mailboxes, Pipeline, Acknowledge, Sequencer
    PROVE  PortInv(p)'
<1>t. phase \in {0, 1} /\ ClientType /\ PortType /\ SeqType /\ ChipType BY TypeParts
<1>b. /\ req[p] \in BOOLEAN /\ busy[p] \in BOOLEAN /\ pend[p] \in BOOLEAN
      /\ req_d[p] \in BOOLEAN /\ ack[p] \in BOOLEAN /\ ack_d2[p] \in BOOLEAN
      /\ ack_stretch \in {0, 1}
  BY <1>t DEF ClientType, PortType
<1>m. /\ pend'[p] <=> Rises(p) \/ Latched(p)
      /\ req_d'[p] = req[p] /\ ack_d2'[p] = ack[p]
      /\ ack'[p] <=> p \in Delivers \/ (ack_stretch # 0 /\ ack[p])
      /\ served'[p] = (IF busy'[p] /\ (busy[p] => Collects(p)) THEN 0 ELSE served[p])
                      + (IF p \in Delivers THEN 1 ELSE 0)
  BY DEF Mailboxes, PendNext, Acknowledge, Latched
<1>s. ack_stretch' = 1 <=> Delivers # {} BY DEF Acknowledge, StretchNext
<1>r. \/ CanStart(p) /\ req'[p] /\ busy'[p]
      \/ CanDrop(p) /\ ~req'[p] /\ busy'[p]
      \/ Collects(p) /\ ~req'[p] /\ ~busy'[p]
      \/ ~Collects(p) /\ req'[p] = req[p] /\ busy'[p] = busy[p]
  BY <1>t, RequesterStep
\* A port is served only while it is owed, and its last acknowledge is over.
<1>d. p \in Delivers => Owed(p) /\ Latched(p) /\ ~ack[p] /\ InFlight(p)
  <2>1. SUFFICES ASSUME p \in Delivers PROVE Owed(p) /\ Latched(p) /\ ~ack[p] /\ InFlight(p)
    OBVIOUS
  <2>2. InFlight(p) BY <1>t, <2>1, DeliverStep
  <2>3. Latched(p) /\ Owed(p) BY <2>2 DEF PortInv
  <2>4. ~ack[p]
    <3>1. ~AckRises(p) BY <2>3 DEF Latched
    <3>2. ~(state = "IDLE" \/ (state = "WRRC" /\ cnt = 0))
      BY <1>t, <2>1, NothingDelivered
    <3> QED BY <3>1, <3>2 DEF PortInv
  <2> QED BY <2>2, <2>3, <2>4
<1>o. Owed(p) /\ ack[p] => ~Samples(p)
  BY DEF PortInv, Samples
<1>k. ack_stretch # 0 /\ ack[p] => AckRises(p) /\ JustServed(p) /\ busy[p] /\ served[p] = 1
                                   /\ Delivers = {}
  <2>1. ack_stretch # 0 /\ ack[p] => AckRises(p) BY <1>b DEF PortInv
  <2>2. AckRises(p) => JustServed(p) /\ busy[p] /\ served[p] = 1 BY DEF PortInv
  <2>3. JustServed(p) => Delivers = {} BY <1>t, NothingDelivered
  <2> QED BY <2>1, <2>2, <2>3
\* The acknowledge rises exactly where the port is served.
<1>a. AckRises(p)' <=> p \in Delivers
  BY <1>m, <1>d DEF AckRises
\* A start: the next request is owed and its edge is yet to be latched.
<1>1. CASE CanStart(p) /\ req'[p] /\ busy'[p]
  <2>1. ~req[p] /\ Samples(p) /\ (busy[p] => ack[p] /\ p \notin LevelPorts) BY <1>1 DEF CanStart
  <2>2. busy[p] => Collects(p) BY <2>1 DEF Collects
  <2>3. ~Owed(p) BY <1>o, <2>1 DEF Owed
  <2>4. p \notin Delivers BY <1>d, <2>3
  <2>5. served'[p] = 0 BY <1>1, <1>m, <2>2, <2>4
  <2>6. Owed(p)' /\ Rises(p)' BY <1>1, <1>m, <2>1, <2>5 DEF Owed, Rises
  <2>7. ~Latched(p)'
    <3>1. ~Rises(p) /\ ~Latched(p) BY <2>3 DEF PortInv
    <3> QED BY <1>m, <3>1 DEF Latched
  <2>8. ~InFlight(p)'
    <3>1. ~Latched(p) BY <2>3 DEF PortInv
    <3>2. ~InFlight(p) BY <3>1 DEF PortInv
    <3>3. state = "IDLE" => ~AckRises(p) BY DEF PortInv, JustServed
    <3>4. ~(state = "IDLE" /\ pend[p]) BY <3>1, <3>3 DEF Latched
    <3> QED BY <1>t, <3>2, <3>4, FlightStep
  <2>9. ~AckRises(p)' BY <1>a, <2>4
  <2>10. ack'[p] => ack[p] /\ ack_stretch # 0 BY <1>m, <2>4
  <2>11. ack'[p] => ack_stretch' # 1 /\ busy[p] BY <1>k, <1>s, <2>10
  <2>12. ack'[p] => state' = "IDLE" \/ (state' = "WRRC" /\ cnt' = 0)
    BY <1>k, <1>t, <2>10, ServedStep
  <2>13. ack'[p] => phase' = 0 /\ p \notin RamClockPorts
    <3>1. ack'[p] => p \notin LevelPorts BY <2>1, <2>11
    <3>2. ack'[p] => p \notin RamClockPorts BY <3>1, PortsAssumption
    <3> QED BY <3>2, <2>1, <1>t DEF Samples
  <2> QED BY <2>5, <2>6, <2>7, <2>8, <2>9, <2>11, <2>12, <2>13, <1>1 DEF PortInv
\* No start: what is owed stays owed until it is delivered.
<1>2. CASE ~(CanStart(p) /\ req'[p] /\ busy'[p])
  <2>0. \/ CanDrop(p) /\ ~req'[p] /\ busy'[p]
        \/ Collects(p) /\ ~req'[p] /\ ~busy'[p]
        \/ ~Collects(p) /\ req'[p] = req[p] /\ busy'[p] = busy[p]
    BY <1>r, <1>2
  <2>1. ~(busy'[p] /\ (busy[p] => Collects(p)))
    BY <2>0 DEF CanDrop, Collects
  <2>2. served'[p] = served[p] + (IF p \in Delivers THEN 1 ELSE 0) BY <1>m, <2>1
  <2>3. Owed(p) => busy'[p] BY <2>0, <1>o DEF Owed, Collects, CanDrop
  <2>4. served'[p] \in {0, 1} BY <1>d, <2>2 DEF PortInv, Owed
  <2>5. Owed(p)' <=> Owed(p) /\ p \notin Delivers
    <3>1. Owed(p) /\ p \notin Delivers => Owed(p)' BY <2>2, <2>3 DEF Owed
    <3>2. Owed(p)' => Owed(p) /\ p \notin Delivers
      BY <2>2, <2>4 DEF Owed, PortInv
    <3> QED BY <3>1, <3>2
  <2>6. served'[p] = 0 => busy'[p]
    <3>1. served'[p] = 0 => served[p] = 0 BY <2>2 DEF PortInv
    <3>2. served[p] = 0 => Owed(p) BY DEF PortInv, Owed
    <3> QED BY <2>3, <3>1, <3>2
  <2>7. ~Rises(p)' BY <1>m, <2>0 DEF Rises
  <2>8. Latched(p)' <=> (Rises(p) \/ Latched(p)) /\ p \notin Delivers
    <3>1. Latched(p)' <=> pend'[p] /\ ~AckRises(p)' BY DEF Latched
    <3> QED BY <1>a, <1>m, <3>1
  <2>9. InFlight(p)' => Latched(p)'
    <3>1. state = "IDLE" => ~AckRises(p) BY DEF PortInv, JustServed
    <3>2. state = "IDLE" /\ pend[p] => Latched(p) /\ p \notin Delivers
      BY <1>t, <3>1, NothingDelivered DEF Latched
    <3>3. InFlight(p) => Latched(p) BY DEF PortInv
    <3>4. InFlight(p)' => \/ InFlight(p) /\ p \notin Delivers
                          \/ state = "IDLE" /\ pend[p]
      BY <1>t, FlightStep
    <3> QED BY <2>8, <3>2, <3>3, <3>4
  <2>10. AckRises(p)' => JustServed(p)' /\ busy'[p] /\ served'[p] = 1
    <3>1. SUFFICES ASSUME p \in Delivers PROVE JustServed(p)' /\ busy'[p] /\ served'[p] = 1
      BY <1>a
    <3>2. JustServed(p)' BY <1>t, <3>1, DeliverStep
    <3>3. served[p] = 0 BY <1>d, <3>1 DEF Owed
    <3> QED BY <1>d, <2>2, <2>3, <3>1, <3>2, <3>3
  <2>11. ack'[p] => (AckRises(p)' <=> ack_stretch' = 1)
    <3>1. p \notin Delivers /\ ack'[p] => Delivers = {} BY <1>k, <1>m
    <3> QED BY <1>a, <1>s, <3>1
  <2>12. ack'[p] /\ ~AckRises(p)' => state' = "IDLE" \/ (state' = "WRRC" /\ cnt' = 0)
    BY <1>a, <1>k, <1>m, <1>t, ServedStep
  <2>13. ack'[p] => ~Owed(p)'
    <3>1. ack_stretch # 0 /\ ack[p] => ~Owed(p) BY <1>k DEF Owed
    <3> QED BY <1>m, <2>5, <3>1
  <2>14. Owed(p) => Rises(p) \/ Latched(p) BY DEF PortInv
  <2>15. Latched(p) \/ Rises(p) => Owed(p) BY DEF PortInv
  <2>16. Owed(p)' => Latched(p)' BY <2>5, <2>8, <2>14
  <2>17. Latched(p)' => Owed(p)' BY <2>5, <2>8, <2>15
  <2> QED BY <2>4, <2>6, <2>7, <2>9, <2>10, <2>11, <2>12, <2>13, <2>16, <2>17 DEF PortInv
<1> QED BY <1>1, <1>2
-----------------------------------------------------------------------------
(***************************************************************************)
(* The steps of the specification.                                         *)
(***************************************************************************)

LEMMA InitInv == ASSUME Init PROVE IInv
<1>1. TypeOK
  <2>1. NoRequest \in Request /\ Cmd("NOP") \in Command
    BY NoRequestType, CmdType DEF Ops
  <2>2. NoRequest.bank \in Banks /\ NoRequest.row \in Rows BY <2>1 DEF Request
  <2>3. ClientType BY <2>1 DEF Init, ClientType
  <2>4. PortType BY <2>1 DEF Init, PortType
  <2>5. SeqType
    <3>1. /\ ready = FALSE /\ init_cnt = InitCycles /\ state = "IDLE" /\ grant = 0 /\ rr_next = 0
          /\ rd_total = 0 /\ rd_issued = 0 /\ cnt = 0 /\ ref_cnt = 0 /\ cap_buf = <<>>
      BY DEF Init
    <3>2. p1_was_last = FALSE /\ reuse_open_write_row = FALSE /\ row_open = FALSE /\ ref_pend = FALSE
      BY DEF Init
    <3>3. xfer \in Request /\ open_bank \in Banks /\ open_row \in Rows /\ cmd \in Command
      BY <2>1, <2>2 DEF Init
    <3>4. /\ ready \in BOOLEAN /\ p1_was_last \in BOOLEAN /\ reuse_open_write_row \in BOOLEAN
          /\ row_open \in BOOLEAN /\ ref_pend \in BOOLEAN
      BY <3>1, <3>2
    <3>5. init_cnt \in 0 .. InitCycles /\ init_cnt > 0 /\ ref_cnt \in 0 .. RefPeriod
      BY <3>1, TimingAssumption
    <3>6. /\ state \in States /\ grant \in PortIds \cup {WR} /\ rr_next \in PortIds
          /\ rd_total \in {0, 1, 4, 8} /\ rd_issued \in 0 .. 8 /\ cnt \in 0 .. 6
      BY <3>1 DEF States
    <3>7. cap_buf \in Seq(Word \cup {NoWord}) BY <3>1
    <3> QED BY <3>3, <3>4, <3>5, <3>6, <3>7 DEF SeqType
  <2>6. ChipType BY DataAssumption DEF Init, ChipType, FreshAge, MaxAge
  <2>7. phase \in {0, 1} /\ resets \in 0 .. MaxResets BY TimingAssumption DEF Init
  <2> QED BY <2>3, <2>4, <2>5, <2>6, <2>7, TypeParts
<1>2. PipeInv BY DEF Init, PipeInv, PipeEmpty, Started
<1>3. \A p \in Ports : PortInv(p)
  BY DEF Init, PortInv, Owed, Rises, Latched, AckRises, InFlight, Started
<1> QED BY <1>1, <1>2, <1>3 DEF IInv

LEMMA ResetStep == ASSUME IInv, PllLoss PROVE IInv'
<1>t. /\ phase \in {0, 1} /\ resets \in 0 .. MaxResets
      /\ ClientType /\ PortType /\ SeqType /\ ChipType
  BY TypeParts DEF IInv
<1>1. TypeOK'
  <2>1. NoRequest \in Request /\ Cmd("NOP") \in Command
    BY NoRequestType, CmdType DEF Ops
  <2>2. NoRequest.bank \in Banks /\ NoRequest.row \in Rows BY <2>1 DEF Request
  <2>3. ClientType' BY <1>t DEF PllLoss, ClientType
  <2>4. PortType' BY <1>t, <2>1 DEF PllLoss, ResetMailboxes, PortType
  <2>5. SeqType'
    <3>1. /\ ready' = FALSE /\ init_cnt' = InitCycles /\ state' = "IDLE" /\ rr_next' = 0
          /\ cnt' = 0 /\ ref_cnt' = 0
          /\ UNCHANGED <<grant, rd_total, rd_issued, xfer, cap_buf>>
      BY DEF PllLoss, ResetSequencer
    <3>2. /\ p1_was_last' = FALSE /\ reuse_open_write_row' = FALSE
          /\ row_open' = FALSE /\ ref_pend' = FALSE
      BY DEF PllLoss, ResetSequencer, ResetRow
    <3>3. open_bank' \in Banks /\ open_row' \in Rows /\ cmd' \in Command
      BY <2>1, <2>2 DEF PllLoss, ResetSequencer, ResetRow
    <3>4. /\ ready' \in BOOLEAN /\ p1_was_last' \in BOOLEAN /\ reuse_open_write_row' \in BOOLEAN
          /\ row_open' \in BOOLEAN /\ ref_pend' \in BOOLEAN
      BY <3>1, <3>2
    <3>5. init_cnt' \in 0 .. InitCycles /\ init_cnt' > 0 /\ ref_cnt' \in 0 .. RefPeriod
      BY <3>1, TimingAssumption
    <3>6. state' \in States /\ rr_next' \in PortIds /\ cnt' \in 0 .. 6
      BY <3>1 DEF States
    <3>7. /\ grant' \in PortIds \cup {WR} /\ rd_total' \in {0, 1, 4, 8} /\ rd_issued' \in 0 .. 8
          /\ xfer' \in Request /\ cap_buf' \in Seq(Word \cup {NoWord})
      BY <1>t, <3>1 DEF SeqType
    <3> QED BY <3>3, <3>4, <3>5, <3>6, <3>7 DEF SeqType
  <2>6. ChipType'
    <3>1. /\ cl_pipe' \in [0 .. 3 -> {0, 1}]
          /\ dq_in' \in Word \cup {NoWord} /\ dq_p1' \in Word \cup {NoWord}
          /\ dq_p2' \in Word \cup {NoWord}
          /\ age' \in [act : 1 .. MaxAge, pre : 1 .. MaxAge, ref : 1 .. MaxAge, wr : 1 .. MaxAge]
      BY DEF PllLoss, ResetSequencer, FreshAge, MaxAge
    <3>2. open' \in [Banks -> Rows \cup {NoRow}] /\ mem' \in [Cells -> Word]
      BY <1>t, ChipCommandType DEF PllLoss
    <3> QED BY <3>1, <3>2 DEF ChipType
  <2>7. phase' \in {0, 1} /\ resets' \in 0 .. MaxResets
    BY <1>t, TimingAssumption DEF PllLoss
  <2> QED BY <2>3, <2>4, <2>5, <2>6, <2>7, TypeParts DEF TypeOK, ClientType, PortType, SeqType, ChipType
<1>2. PipeInv'
  BY DEF PllLoss, ResetSequencer, PipeInv, PipeEmpty, Started
<1>3. \A p \in Ports : PortInv(p)'
  BY DEF PllLoss, ResetSequencer, ResetMailboxes, PortInv, Owed, Rises, Latched, AckRises, InFlight, Started
<1> QED BY <1>1, <1>2, <1>3 DEF IInv

LEMMA ClockStep == ASSUME IInv, Clock PROVE IInv'
<1>t. /\ phase \in {0, 1} /\ resets \in 0 .. MaxResets
      /\ ClientType /\ PortType /\ SeqType /\ ChipType
  BY TypeParts DEF IInv
<1>c. /\ phase' = 1 - phase /\ resets' = resets
      /\ Requesters /\ Mailboxes /\ Pipeline /\ Acknowledge /\ Chip /\ Sequencer /\ Waiting
  BY DEF Clock
<1>i. PipeInv BY DEF IInv
<1>1. TypeOK'
  <2>1. ClientType' BY <1>t, <1>c, ClientTypeStep
  <2>2. PortType' BY <1>t, <1>c, PortTypeStep
  <2>3. SeqType' BY <1>t, <1>c, <1>i, SeqTypeStep
  <2>4. ChipType' BY <1>t, <1>c, ChipTypeStep
  <2>5. phase' \in {0, 1} /\ resets' \in 0 .. MaxResets BY <1>t, <1>c
  <2> QED BY <2>1, <2>2, <2>3, <2>4, <2>5 DEF TypeOK, ClientType, PortType, SeqType, ChipType
<1>2. PipeInv' BY <1>t, <1>c, <1>i, PipeInvStep
<1>3. ASSUME NEW p \in Ports PROVE PortInv(p)'
  <2>1. PortInv(p) /\ TypeOK BY DEF IInv
  <2> QED BY <1>c, <1>i, <2>1, PortInvStep
<1> QED BY <1>1, <1>2, <1>3 DEF IInv

LEMMA StutterStep == ASSUME IInv, UNCHANGED vars PROVE IInv'
<1> USE DEF vars, clientVars, portVars, refreshVars, rowVars, xferVars, seqVars,
            pipeVars, chipVars
<1>1. TypeOK' BY DEF IInv, TypeOK
<1>2. PipeInv' BY DEF IInv, PipeInv, PipeEmpty, PipeSum, Started
<1>3. \A p \in Ports : PortInv(p)'
  BY DEF IInv, PortInv, Owed, Rises, Latched, AckRises, InFlight, JustServed, PipeEmpty, Started
<1> QED BY <1>1, <1>2, <1>3 DEF IInv

\* The strengthening holds in every state of every behaviour.
THEOREM Inductive == Spec => []IInv
<1>1. Init => IInv BY InitInv
<1>2. IInv /\ [Next]_vars => IInv'
  BY ResetStep, ClockStep, StutterStep DEF Next
<1> QED BY <1>1, <1>2, PTL DEF Spec

\* Every register of rtl/mem/sdram.sv and of the chip keeps to its type.
THEOREM TypeCorrect == Spec => []TypeOK
<1>1. IInv => TypeOK BY DEF IInv
<1> QED BY <1>1, Inductive, PTL

\* A request raised on any port stays raised or pending until it is served:
\* neither the two-cycle acknowledge nor the clearing of the mailbox drops it.
THEOREM NoLostRequests == Spec => []NoRequestLost
<1>1. IInv => NoRequestLost
  BY DEF IInv, PortInv, NoRequestLost, Owed, Latched
<1> QED BY <1>1, Inductive, PTL

\* One rising edge of req is served once and a port that asked for nothing never.
THEOREM NoDoubleService == Spec => []ServedOnce
<1>1. IInv => ServedOnce BY DEF IInv, PortInv, ServedOnce
<1> QED BY <1>1, Inductive, PTL

\* The acknowledge a requester samples is the acknowledge of its own request.
THEOREM NoStaleAck == Spec => []AckAnswersRequest
<1>1. IInv => AckAnswersRequest
  BY DEF IInv, PortInv, AckAnswersRequest, Owed, Collects, Samples
<1> QED BY <1>1, Inductive, PTL
-----------------------------------------------------------------------------
(***************************************************************************)
(* The chip as it will be once it has sampled the command on its pins: the *)
(* state the sequencer believes it is in.                                  *)
(***************************************************************************)
RowsNow == ChipOpen(open, cmd)
AgeNow  == ChipAge(age, cmd)

SinceAct   == AgeNow.act
SincePre   == AgeNow.pre
SinceRef   == AgeNow.ref
SinceWrite == AgeNow.wr

Closed == \A b \in Banks : RowsNow[b] = NoRow

\* The only open row is the one the controller remembers, and an access finds
\* the row of its address open.
RowInv ==
    /\ ready => \A b \in Banks :
           RowsNow[b] = IF row_open /\ b = open_bank THEN open_row ELSE NoRow
    /\ ~ready => ~row_open
    /\ state \in {"PRE_XFER", "ACT", "PRE_REF", "REFW", "RDW"} => ~row_open
    /\ state \in {"RCD1", "RCD2", "RD", "WR"} \/ (state = "DISPATCH" /\ reuse_open_write_row)
           => row_open /\ xfer.bank = open_bank /\ xfer.row = open_row

\* The power-up sequence, at its entry init_cnt: an age tells the entry that
\* issued the command, and once a precharge was issued every bank is closed.
PowerUpInv ==
    ~ready =>
        /\ SinceAct = MaxAge /\ SinceWrite = MaxAge
        /\ SincePre < MaxAge =>
               /\ init_cnt + SincePre <= InitCycles
               /\ InitCommand[init_cnt + SincePre] = "PRE"
        /\ SinceRef < MaxAge =>
               /\ init_cnt + SinceRef <= InitCycles
               /\ InitCommand[init_cnt + SinceRef] = "REF"
        /\ (\E j \in init_cnt + 1 .. InitCycles : InitCommand[j] = "PRE") => Closed

\* Once ready, each state knows how long ago the last command of a kind was.
SpaceInv ==
    ready =>
        /\ state \in {"IDLE", "DISPATCH", "PRE_XFER", "ACT", "PRE_REF", "REFW"} => SinceAct >= 7
        /\ state = "RCD2" => SinceAct >= 2
        /\ state \in {"RD", "WR"} => SinceAct >= 3
        /\ state = "WRRC" => SinceAct >= 6 - cnt /\ SinceWrite >= 3 - cnt
        /\ state = "RDW" =>
               /\ SinceAct >= 4
               /\ cl_pipe[0] = 0 => SinceAct >= 5 /\ SincePre >= 2
               /\ cl_pipe[0] = 0 /\ cl_pipe[1] = 0 => SinceAct >= 6
               /\ cl_pipe[0] = 0 /\ cl_pipe[1] = 0 /\ cl_pipe[2] = 0 => SinceAct >= 7
        /\ state \in {"PRE_XFER", "PRE_REF"} => cnt = 1 \/ (cnt = 0 /\ SincePre >= 2)
        /\ state \notin {"PRE_XFER", "PRE_REF", "RDW"} => SincePre >= 2
        /\ state = "REFW" => SinceRef >= 7 - cnt
        /\ state # "REFW" => SinceRef >= 7
        /\ state # "WRRC" => SinceWrite >= 2

TimingInv == RowInv /\ PowerUpInv /\ SpaceInv /\ CommandsLegal

-----------------------------------------------------------------------------
LEMMA Parts ==
    ASSUME IInv PROVE SeqType /\ ChipType /\ PortType /\ ClientType /\ PipeInv
BY TypeParts DEF IInv

LEMMA Issues ==
    ASSUME Clock
    PROVE  /\ age' = AgeNow /\ open' = RowsNow
           /\ AgeNow' = ChipAge(AgeNow, cmd') /\ RowsNow' = ChipOpen(RowsNow, cmd')
BY DEF Clock, Chip, AgeNow, RowsNow

LEMMA AgeTypes ==
    ASSUME IInv
    PROVE  /\ SinceAct \in 1 .. MaxAge /\ SincePre \in 1 .. MaxAge
           /\ SinceRef \in 1 .. MaxAge /\ SinceWrite \in 1 .. MaxAge
<1>1. age \in [act : 1 .. MaxAge, pre : 1 .. MaxAge, ref : 1 .. MaxAge, wr : 1 .. MaxAge]
  BY Parts DEF ChipType
<1> QED BY <1>1 DEF SinceAct, SincePre, SinceRef, SinceWrite, AgeNow, ChipAge, Older, MaxAge

LEMMA Ageing ==
    ASSUME Clock
    PROVE  /\ SinceAct' = IF cmd'.op = "ACT" THEN 1 ELSE Older(SinceAct)
           /\ SincePre' = IF cmd'.op = "PRE" \/ (cmd'.op \in {"READ", "WRITE"} /\ cmd'.ap)
                          THEN 1 ELSE Older(SincePre)
           /\ SinceRef' = IF cmd'.op = "REF" THEN 1 ELSE Older(SinceRef)
           /\ SinceWrite' = IF cmd'.op = "WRITE" THEN 1 ELSE Older(SinceWrite)
<1>1. AgeNow' = ChipAge(AgeNow, cmd') BY Issues
<1> QED BY <1>1 DEF SinceAct, SincePre, SinceRef, SinceWrite, ChipAge

\* The chip samples the command of this edge on the next one.
LEMMA Legal ==
    ASSUME Clock
    PROVE  CommandsLegal' <=>
               /\ LegalCommand(RowsNow, cmd')
               /\ cmd'.op \in {"READ", "WRITE"} => RowsNow[cmd'.at.bank] = cmd'.at.row
               /\ WellSpaced(AgeNow, cmd')
BY Issues DEF CommandsLegal

USE DEF PortIds, TilePort, WR

\* What the sequencer puts on the pins, and where.
LEMMA Pins ==
    /\ \A c : c = Cmd("NOP") => c.op = "NOP" /\ c.ap = FALSE
    /\ \A c : c = Cmd("PRE") => c.op = "PRE"
    /\ \A c : c = Cmd("REF") => c.op = "REF"
    /\ \A c : c = CmdAt("ACT", xfer, FALSE) => c.op = "ACT" /\ c.at = xfer
    /\ \A c : c = CmdAt("WRITE", xfer, FALSE) => c.op = "WRITE" /\ c.at = xfer /\ c.ap = FALSE
    /\ \A c, ap : c = CmdAt("READ", xfer, ap) => c.op = "READ" /\ c.at = xfer /\ c.ap = ap
BY DEF Cmd, CmdAt

LEMMA RowsType ==
    ASSUME IInv
    PROVE  /\ RowsNow \in [Banks -> Rows \cup {NoRow}] /\ DOMAIN RowsNow = Banks
           /\ NoRow \notin Rows /\ xfer.bank \in Banks /\ xfer.row \in Rows
<1>1. RowsNow \in [Banks -> Rows \cup {NoRow}]
  BY Parts, ChipCommandType DEF RowsNow
<1>2. NoRow \notin Rows BY DataAssumption DEF NoRow
<1>3. xfer \in Request BY Parts DEF SeqType
<1> QED BY <1>1, <1>2, <1>3 DEF Request

\* What the chip makes of the command on its pins.
LEMMA RowsMove ==
    ASSUME IInv, Clock
    PROVE  /\ cmd'.op \in {"NOP", "MRS"} => RowsNow' = RowsNow
           /\ cmd'.op = "WRITE" /\ ~cmd'.ap => RowsNow' = RowsNow
           /\ cmd'.op = "READ" /\ ~cmd'.ap => RowsNow' = RowsNow
           /\ cmd'.op \in {"PRE", "REF"} => RowsNow' = [b \in Banks |-> NoRow]
           /\ cmd'.op = "ACT" => RowsNow' = [RowsNow EXCEPT ![cmd'.at.bank] = cmd'.at.row]
           /\ cmd'.op = "READ" /\ cmd'.ap => RowsNow' = [RowsNow EXCEPT ![cmd'.at.bank] = NoRow]
<1>1. RowsNow' = ChipOpen(RowsNow, cmd') BY Issues
<1> QED BY <1>1, RowsType DEF ChipOpen

\* The row the controller remembers, after an edge, as its registers tell it.
Remembered(b) == IF row_open /\ b = open_bank THEN open_row ELSE NoRow

LEMMA RowInvStep == ASSUME IInv, TimingInv, Clock PROVE RowInv'
<1>p. RowInv /\ PowerUpInv BY DEF TimingInv
<1>s. Sequencer BY DEF Clock
<1>1. CASE Initialise
  <2>1. /\ ~ready /\ state' = state /\ row_open' = row_open /\ init_cnt' = init_cnt - 1
        /\ cmd' = Cmd(InitCommand[init_cnt]) /\ (ready' <=> init_cnt = 1)
    BY <1>1 DEF Initialise, rowVars
  <2>2. state' = "IDLE" /\ ~row_open'
    BY <1>p, <2>1, Parts DEF PipeInv, RowInv
  <2>3. ready' => Closed'
    <3> SUFFICES ASSUME ready' PROVE Closed'
      OBVIOUS
    <3>1. PICK first \in 8 .. InitCycles :
             /\ InitCommand[first] = "PRE"
             /\ \A i \in 1 .. InitCycles : InitCommand[i] # "NOP" => i \in 8 .. first
      BY PowerUpAssumption
    <3>2. init_cnt = 1 /\ 1 \in 1 .. InitCycles /\ 1 \notin 8 .. first
      BY <2>1, <3>1, TimingAssumption
    <3>3. cmd'.op = "NOP"
      <4>1. cmd' = Cmd("NOP")
        BY <2>1, <3>1, <3>2
      <4> QED BY <4>1, Pins
    <3>4. first \in init_cnt + 1 .. InitCycles
      BY <3>1, <3>2, TimingAssumption
    <3>5. Closed
      BY <1>p, <2>1, <3>1, <3>4 DEF PowerUpInv
    <3> QED BY <3>3, <3>5, RowsMove DEF Closed
  <2> QED BY <2>2, <2>3 DEF RowInv, Closed
<1>2. CASE Running
  <2>r. ready /\ ready' BY <1>2 DEF Running
  <2>0. \A b \in Banks : RowsNow[b] = Remembered(b)
    BY <1>p, <2>r DEF RowInv, Remembered
  <2>t. RowsNow \in [Banks -> Rows \cup {NoRow}] /\ xfer.bank \in Banks /\ xfer.row \in Rows
    BY RowsType
  <2> USE DEF Remembered
  <2>1. CASE \/ IdleRefresh
             \/ Dispatch /\ state' = "PRE_XFER"
             \/ PreRefresh /\ cnt = 0
    <3>1. cmd'.op \in {"PRE", "REF"} /\ ~row_open' /\ state' \in {"PRE_REF", "PRE_XFER", "REFW"}
      <4>1. cmd' = Cmd("PRE") \/ cmd' = Cmd("REF")
        BY <2>1 DEF IdleRefresh, Dispatch, PreRefresh
      <4>2. ~row_open' /\ state' \in {"PRE_REF", "PRE_XFER", "REFW"}
        BY <2>1 DEF IdleRefresh, Dispatch, PreRefresh
      <4> QED BY <4>1, <4>2, Pins
    <3>2. \A b \in Banks : RowsNow'[b] = NoRow
      BY <3>1, RowsMove
    <3> QED BY <2>r, <3>1, <3>2 DEF RowInv
  <2>2. CASE Activate
    <3>1. /\ cmd'.op = "ACT" /\ cmd'.at = xfer /\ row_open' /\ state' = "RCD1"
          /\ open_bank' = xfer.bank /\ open_row' = xfer.row /\ xfer' = xfer /\ ~row_open
      BY <1>p, <2>2, Pins DEF Activate, xferVars, RowInv
    <3>2. RowsNow' = [RowsNow EXCEPT ![xfer.bank] = xfer.row]
      BY <3>1, RowsMove
    <3>3. \A b \in Banks : RowsNow'[b] = Remembered(b)'
      BY <2>0, <2>t, <3>1, <3>2
    <3> QED BY <2>r, <3>1, <3>3 DEF RowInv
  <2>3. CASE Read
    <3>0. /\ row_open /\ xfer.bank = open_bank /\ xfer.row = open_row
          /\ open_bank' = open_bank /\ open_row' = open_row
          /\ xfer'.bank = xfer.bank /\ xfer'.row = xfer.row
      BY <1>p, <2>3, Parts DEF Read, RowInv, SeqType, Request
    <3>1. CASE rd_issued + 1 = rd_total
      <4>1. /\ cmd'.op = "READ" /\ cmd'.at = xfer /\ cmd'.ap /\ ~row_open' /\ state' = "RDW"
        <5>1. cmd' = CmdAt("READ", xfer, TRUE) /\ ~row_open' /\ state' = "RDW"
          BY <2>3, <3>1 DEF Read
        <5> QED BY <5>1, Pins
      <4>2. RowsNow' = [RowsNow EXCEPT ![xfer.bank] = NoRow]
        BY <4>1, RowsMove
      <4>3. \A b \in Banks : RowsNow'[b] = NoRow
        BY <2>0, <2>t, <3>0, <4>2
      <4> QED BY <2>r, <4>1, <4>3 DEF RowInv
    <3>2. CASE rd_issued + 1 # rd_total
      <4>1. /\ cmd'.op = "READ" /\ ~cmd'.ap /\ row_open' /\ state' = "RD"
        <5>1. cmd' = CmdAt("READ", xfer, FALSE) /\ row_open' /\ state' = "RD"
          BY <2>3, <3>0, <3>2 DEF Read
        <5> QED BY <5>1, Pins
      <4>2. RowsNow' = RowsNow
        BY <4>1, RowsMove
      <4> QED BY <2>0, <2>r, <3>0, <4>1, <4>2 DEF RowInv
    <3> QED BY <3>1, <3>2
  <2>4. CASE \/ IdleWait \/ IdleGrantWrite \/ IdleGrantRead \/ PreXfer \/ RasToCas \/ Write
             \/ WriteRecovery \/ ReadDrain \/ RefreshWait
             \/ Dispatch /\ state' # "PRE_XFER"
             \/ PreRefresh /\ cnt # 0
    <3>1. cmd'.op = "NOP" \/ (cmd'.op = "WRITE" /\ ~cmd'.ap)
      <4>1. cmd' = Cmd("NOP") \/ cmd' = CmdAt("WRITE", xfer, FALSE)
        BY <2>4 DEF IdleWait, IdleGrantWrite, IdleGrantRead, Idle, PreXfer, RasToCas, Write,
                    WriteRecovery, ReadDrain, RefreshWait, CountDown, Dispatch, PreRefresh
      <4> QED BY <4>1, Pins
    <3>2. RowsNow' = RowsNow
      BY <3>1, RowsMove
    <3>3. UNCHANGED rowVars
      BY <2>4 DEF IdleWait, IdleGrantWrite, IdleGrantRead, Idle, PreXfer, RasToCas, Write, rowVars,
                  WriteRecovery, ReadDrain, RefreshWait, CountDown, Dispatch, PreRefresh
    <3>4. \A b \in Banks : RowsNow'[b] = Remembered(b)'
      BY <2>0, <3>2, <3>3 DEF rowVars
    <3>5. state' \in {"PRE_XFER", "ACT", "PRE_REF", "REFW", "RDW"} => ~row_open'
      BY <1>p, <2>4, <3>3
         DEF IdleWait, IdleGrantWrite, IdleGrantRead, Idle, PreXfer, RasToCas, Write, rowVars,
             WriteRecovery, ReadDrain, RefreshWait, CountDown, Dispatch, PreRefresh, RowInv
    <3>6. state' \in {"RCD1", "RCD2", "RD", "WR"} \/ (state' = "DISPATCH" /\ reuse_open_write_row')
              => row_open' /\ xfer'.bank = open_bank' /\ xfer'.row = open_row'
      BY <1>p, <2>4, <3>3
         DEF IdleWait, IdleGrantWrite, IdleGrantRead, Idle, PreXfer, RasToCas, Write, rowVars,
             WriteRecovery, ReadDrain, RefreshWait, CountDown, Dispatch, PreRefresh, RowInv,
             xferVars, SameOpenRow
    <3> QED BY <2>r, <3>4, <3>5, <3>6 DEF RowInv
  <2> QED BY <1>2, <1>s, <2>1, <2>2, <2>3, <2>4, <2>r DEF Sequencer, Initialise
<1> QED BY <1>1, <1>2, <1>s DEF Sequencer

\* On an edge of the power-up sequence entry init_cnt is issued.
LEMMA PowerUpEdge ==
    ASSUME IInv, Clock, Initialise
    PROVE  /\ init_cnt \in 1 .. InitCycles /\ init_cnt' = init_cnt - 1 /\ ~ready
           /\ cmd'.op = InitCommand[init_cnt] /\ cmd'.ap = FALSE
           /\ InitCommand[init_cnt] \in {"NOP", "PRE", "REF", "MRS"}
           /\ ready' <=> init_cnt = 1
<1>1. /\ ~ready /\ init_cnt' = init_cnt - 1 /\ cmd' = Cmd(InitCommand[init_cnt])
      /\ ready' <=> init_cnt = 1
  BY DEF Initialise
<1>2. init_cnt \in 1 .. InitCycles
  BY <1>1, Parts, TimingAssumption DEF SeqType
<1>3. InitCommand[init_cnt] \in {"NOP", "PRE", "REF", "MRS"}
  BY <1>2, TimingAssumption
<1>4. cmd'.op = InitCommand[init_cnt] /\ cmd'.ap = FALSE
  BY <1>1 DEF Cmd
<1> QED BY <1>1, <1>2, <1>3, <1>4

LEMMA PowerUpInvStep == ASSUME IInv, TimingInv, Clock PROVE PowerUpInv'
<1> SUFFICES ASSUME ~ready' PROVE PowerUpInv'
  BY DEF PowerUpInv
<1>1. Initialise
  BY DEF Clock, Sequencer, Running
<1>2. /\ init_cnt \in 1 .. InitCycles /\ init_cnt' = init_cnt - 1 /\ ~ready
      /\ cmd'.op = InitCommand[init_cnt] /\ cmd'.ap = FALSE
      /\ InitCommand[init_cnt] \in {"NOP", "PRE", "REF", "MRS"}
  BY <1>1, PowerUpEdge
<1>3. PowerUpInv /\ ~ready
  BY <1>2 DEF TimingInv
<1>4. /\ SinceAct' = Older(SinceAct) /\ SinceWrite' = Older(SinceWrite)
      /\ SincePre' = IF InitCommand[init_cnt] = "PRE" THEN 1 ELSE Older(SincePre)
      /\ SinceRef' = IF InitCommand[init_cnt] = "REF" THEN 1 ELSE Older(SinceRef)
  BY <1>2, Ageing
<1>5. SinceAct' = MaxAge /\ SinceWrite' = MaxAge
  BY <1>3, <1>4 DEF PowerUpInv, Older, MaxAge
<1>t. SincePre \in 1 .. MaxAge /\ SinceRef \in 1 .. MaxAge /\ MaxAge = 8
      /\ InitCycles \in Nat
  BY AgeTypes, TimingAssumption DEF MaxAge
<1>6. SincePre' < MaxAge => /\ init_cnt' + SincePre' <= InitCycles
                            /\ InitCommand[init_cnt' + SincePre'] = "PRE"
  <2>1. CASE InitCommand[init_cnt] = "PRE"
    <3>1. init_cnt' + SincePre' = init_cnt BY <1>2, <1>4, <2>1
    <3> QED BY <1>2, <2>1, <3>1
  <2>2. CASE InitCommand[init_cnt] # "PRE"
    <3> SUFFICES ASSUME SincePre' < MaxAge
                 PROVE  /\ init_cnt' + SincePre' <= InitCycles
                        /\ InitCommand[init_cnt' + SincePre'] = "PRE"
      OBVIOUS
    <3>1. SincePre' = SincePre + 1 /\ SincePre < MaxAge
      BY <1>4, <1>t, <2>2 DEF Older
    <3>2. init_cnt' + SincePre' = init_cnt + SincePre BY <1>2, <1>t, <3>1
    <3> QED BY <1>3, <3>1, <3>2 DEF PowerUpInv
  <2> QED BY <2>1, <2>2
<1>7. SinceRef' < MaxAge => /\ init_cnt' + SinceRef' <= InitCycles
                            /\ InitCommand[init_cnt' + SinceRef'] = "REF"
  <2>1. CASE InitCommand[init_cnt] = "REF"
    <3>1. init_cnt' + SinceRef' = init_cnt BY <1>2, <1>4, <2>1
    <3> QED BY <1>2, <2>1, <3>1
  <2>2. CASE InitCommand[init_cnt] # "REF"
    <3> SUFFICES ASSUME SinceRef' < MaxAge
                 PROVE  /\ init_cnt' + SinceRef' <= InitCycles
                        /\ InitCommand[init_cnt' + SinceRef'] = "REF"
      OBVIOUS
    <3>1. SinceRef' = SinceRef + 1 /\ SinceRef < MaxAge
      BY <1>4, <1>t, <2>2 DEF Older
    <3>2. init_cnt' + SinceRef' = init_cnt + SinceRef BY <1>2, <1>t, <3>1
    <3> QED BY <1>3, <3>1, <3>2 DEF PowerUpInv
  <2> QED BY <2>1, <2>2
<1>8. ASSUME NEW j \in init_cnt' + 1 .. InitCycles, InitCommand[j] = "PRE" PROVE Closed'
  <2>1. CASE InitCommand[init_cnt] \in {"PRE", "REF"}
    <3>1. RowsNow' = [b \in Banks |-> NoRow]
      BY <1>2, <2>1, RowsMove
    <3> QED BY <3>1 DEF Closed
  <2>2. CASE InitCommand[init_cnt] \in {"NOP", "MRS"}
    <3>1. j # init_cnt BY <1>8, <2>2
    <3>2. j \in init_cnt + 1 .. InitCycles BY <1>2, <1>8, <1>t, <3>1
    <3>3. Closed BY <1>3, <1>8, <3>2 DEF PowerUpInv
    <3>4. RowsNow' = RowsNow BY <1>2, <2>2, RowsMove
    <3> QED BY <3>3, <3>4 DEF Closed
  <2> QED BY <1>2, <2>1, <2>2
<1> QED BY <1>5, <1>6, <1>7, <1>8 DEF PowerUpInv

LEMMA SpaceInvStep == ASSUME IInv, TimingInv, Clock PROVE SpaceInv'
<1> SUFFICES ASSUME ready' PROVE SpaceInv'
  BY DEF SpaceInv
<1>s. Sequencer /\ Pipeline BY DEF Clock
<1>p. PipeInv /\ SeqType /\ ChipType BY Parts
<1>t. /\ SinceAct \in 1 .. MaxAge /\ SincePre \in 1 .. MaxAge
      /\ SinceRef \in 1 .. MaxAge /\ SinceWrite \in 1 .. MaxAge /\ MaxAge = 8
  BY AgeTypes DEF MaxAge
<1>a. /\ SinceAct' = IF cmd'.op = "ACT" THEN 1 ELSE Older(SinceAct)
      /\ SincePre' = IF cmd'.op = "PRE" \/ (cmd'.op \in {"READ", "WRITE"} /\ cmd'.ap)
                     THEN 1 ELSE Older(SincePre)
      /\ SinceRef' = IF cmd'.op = "REF" THEN 1 ELSE Older(SinceRef)
      /\ SinceWrite' = IF cmd'.op = "WRITE" THEN 1 ELSE Older(SinceWrite)
  BY Ageing
<1>o. \A n \in 1 .. 8 : /\ Older(n) \in 1 .. 8 /\ Older(n) >= n
                        /\ n < 8 => Older(n) = n + 1
                        /\ n = 8 => Older(n) = 8
  BY DEF Older, MaxAge
<1>1. CASE Initialise
  <2>1. /\ init_cnt \in 1 .. InitCycles /\ ~ready /\ init_cnt = 1
        /\ cmd'.op = InitCommand[init_cnt] /\ cmd'.ap = FALSE
    BY <1>1, PowerUpEdge
  <2>2. state' = "IDLE" BY <1>1, <1>p, <2>1 DEF Initialise, PipeInv
  <2>3. \A i \in 1 .. 7 : i <= InitCycles => InitCommand[i] = "NOP"
    <3>1. PICK first \in 8 .. InitCycles :
             \A i \in 1 .. InitCycles : InitCommand[i] # "NOP" => i \in 8 .. first
      BY PowerUpAssumption
    <3> QED BY <3>1, TimingAssumption
  <2>4. cmd'.op = "NOP" BY <2>1, <2>3, TimingAssumption
  <2>5. PowerUpInv BY DEF TimingInv
  <2>6. SinceAct = 8 /\ SinceWrite = 8 BY <1>t, <2>1, <2>5 DEF PowerUpInv
  <2>7. SincePre >= 7
    <3> SUFFICES ASSUME SincePre < 7 PROVE FALSE BY <1>t
    <3>1. init_cnt + SincePre \in 1 .. 7 /\ init_cnt + SincePre <= InitCycles
          /\ InitCommand[init_cnt + SincePre] = "PRE"
      BY <1>t, <2>1, <2>5 DEF PowerUpInv
    <3> QED BY <2>3, <3>1
  <2>8. SinceRef >= 7
    <3> SUFFICES ASSUME SinceRef < 7 PROVE FALSE BY <1>t
    <3>1. init_cnt + SinceRef \in 1 .. 7 /\ init_cnt + SinceRef <= InitCycles
          /\ InitCommand[init_cnt + SinceRef] = "REF"
      BY <1>t, <2>1, <2>5 DEF PowerUpInv
    <3> QED BY <2>3, <3>1
  <2>9. SinceAct' = Older(SinceAct) /\ SincePre' = Older(SincePre)
        /\ SinceRef' = Older(SinceRef) /\ SinceWrite' = Older(SinceWrite)
    BY <1>a, <2>4
  <2>10. SinceAct' >= 7 /\ SincePre' >= 7 /\ SinceRef' >= 7 /\ SinceWrite' >= 7
    BY <1>o, <1>t, <2>6, <2>7, <2>8, <2>9
  <2>11. SinceAct' \in 1 .. 8 /\ SincePre' \in 1 .. 8 /\ SinceRef' \in 1 .. 8 /\ SinceWrite' \in 1 .. 8
    BY <1>o, <1>t, <2>9
  <2> QED BY <2>2, <2>10, <2>11 DEF SpaceInv
<1>2. CASE Running
  <2>r. ready BY <1>2 DEF Running
  <2>i. SpaceInv /\ RowInv BY DEF TimingInv
  <2>c. cnt \in 0 .. 6 BY <1>p DEF SeqType
  <2>n. cmd' = Cmd("NOP") =>
            SinceAct' = Older(SinceAct) /\ SincePre' = Older(SincePre)
            /\ SinceRef' = Older(SinceRef) /\ SinceWrite' = Older(SinceWrite)
    BY <1>a, Pins
  <2>q. cmd' = Cmd("PRE") =>
            SinceAct' = Older(SinceAct) /\ SincePre' = 1
            /\ SinceRef' = Older(SinceRef) /\ SinceWrite' = Older(SinceWrite)
    BY <1>a, Pins
  <2>1. CASE IdleWait \/ IdleGrantWrite \/ IdleGrantRead
    <3>1. state = "IDLE" /\ state' \in {"IDLE", "DISPATCH"} /\ cmd' = Cmd("NOP")
      BY <2>1 DEF IdleWait, IdleGrantWrite, IdleGrantRead, Idle
    <3> QED BY <1>o, <1>t, <2>r, <2>i, <2>n, <3>1 DEF SpaceInv
  <2>2. CASE IdleRefresh
    <3>1. state = "IDLE" /\ state' = "PRE_REF" /\ cnt' = 1 /\ cmd' = Cmd("PRE")
      BY <2>2 DEF IdleRefresh
    <3> QED BY <1>o, <1>t, <2>r, <2>i, <2>q, <3>1 DEF SpaceInv
  <2>3. CASE Dispatch
    <3>1. \/ state' = "PRE_XFER" /\ cnt' = 1 /\ cmd' = Cmd("PRE")
          \/ state' \in {"WR", "ACT"} /\ cmd' = Cmd("NOP")
      BY <2>3 DEF Dispatch
    <3>2. state = "DISPATCH" BY <2>3 DEF Dispatch
    <3> QED BY <1>o, <1>t, <2>r, <2>i, <2>n, <2>q, <3>1, <3>2 DEF SpaceInv
  <2>4. CASE PreXfer
    <3>1. /\ state = "PRE_XFER" /\ cmd' = Cmd("NOP")
          /\ IF cnt = 0 THEN state' = "ACT" /\ cnt' = cnt ELSE cnt' = cnt - 1 /\ state' = state
      BY <2>4 DEF PreXfer, CountDown
    <3> QED BY <1>o, <1>t, <2>r, <2>i, <2>n, <2>c, <3>1 DEF SpaceInv
  <2>5. CASE PreRefresh
    <3>1. CASE cnt = 0
      <4>1. state = "PRE_REF" /\ state' = "REFW" /\ cnt' = 6 /\ cmd' = Cmd("REF")
        BY <2>5, <3>1 DEF PreRefresh
      <4>2. SinceAct' = Older(SinceAct) /\ SincePre' = Older(SincePre)
            /\ SinceRef' = 1 /\ SinceWrite' = Older(SinceWrite)
        BY <1>a, <4>1, Pins
      <4> QED BY <1>o, <1>t, <2>r, <2>i, <3>1, <4>1, <4>2 DEF SpaceInv
    <3>2. CASE cnt # 0
      <4>1. state = "PRE_REF" /\ state' = "PRE_REF" /\ cnt' = cnt - 1 /\ cmd' = Cmd("NOP")
        BY <2>5, <3>2 DEF PreRefresh
      <4> QED BY <1>o, <1>t, <2>r, <2>i, <2>n, <2>c, <3>2, <4>1 DEF SpaceInv
    <3> QED BY <3>1, <3>2
  <2>6. CASE Activate
    <3>1. state = "ACT" /\ state' = "RCD1" /\ cmd' = CmdAt("ACT", xfer, FALSE)
      BY <2>6 DEF Activate
    <3>2. SinceAct' = 1 /\ SincePre' = Older(SincePre)
          /\ SinceRef' = Older(SinceRef) /\ SinceWrite' = Older(SinceWrite)
      BY <1>a, <3>1, Pins
    <3> QED BY <1>o, <1>t, <2>r, <2>i, <3>1, <3>2 DEF SpaceInv
  <2>7. CASE RasToCas
    <3>1. /\ \/ state = "RCD1" /\ state' = "RCD2"
             \/ state = "RCD2" /\ state' \in {"WR", "RD"}
          /\ cmd' = Cmd("NOP")
      BY <2>7 DEF RasToCas
    <3> QED BY <1>o, <1>t, <2>r, <2>i, <2>n, <3>1 DEF SpaceInv
  <2>8. CASE Write
    <3>1. state = "WR" /\ state' = "WRRC" /\ cnt' = 2 /\ cmd' = CmdAt("WRITE", xfer, FALSE)
      BY <2>8 DEF Write
    <3>2. SinceAct' = Older(SinceAct) /\ SincePre' = Older(SincePre)
          /\ SinceRef' = Older(SinceRef) /\ SinceWrite' = 1
      BY <1>a, <3>1, Pins
    <3> QED BY <1>o, <1>t, <2>r, <2>i, <3>1, <3>2 DEF SpaceInv
  <2>9. CASE WriteRecovery
    <3>1. /\ state = "WRRC" /\ cmd' = Cmd("NOP") /\ cnt <= 2
          /\ IF cnt = 0 THEN state' = "IDLE" /\ cnt' = cnt ELSE cnt' = cnt - 1 /\ state' = state
      BY <1>p, <2>9 DEF WriteRecovery, CountDown, PipeInv
    <3> QED BY <1>o, <1>t, <2>r, <2>i, <2>n, <2>c, <3>1 DEF SpaceInv
  <2>10. CASE Read
    <3>1. /\ state = "RD" /\ state' \in {"RD", "RDW"}
          /\ \E ap \in BOOLEAN : cmd' = CmdAt("READ", xfer, ap) /\ (state' = "RD" => ~ap)
      BY <2>10 DEF Read
    <3>2. /\ SinceAct' = Older(SinceAct) /\ SinceRef' = Older(SinceRef)
          /\ SinceWrite' = Older(SinceWrite)
          /\ state' = "RD" => SincePre' = Older(SincePre)
      BY <1>a, <3>1, Pins
    <3>3. cl_pipe'[0] = 1
      BY <1>s, <2>r, <3>1 DEF Pipeline
    <3> QED BY <1>o, <1>t, <2>r, <2>i, <3>1, <3>2, <3>3 DEF SpaceInv
  <2>11. CASE ReadDrain
    <3>1. /\ state = "RDW" /\ cmd' = Cmd("NOP")
          /\ state' = IF PipeEmpty THEN "IDLE" ELSE "RDW"
      BY <2>11 DEF ReadDrain
    <3>2. cl_pipe'[1] = cl_pipe[0] /\ cl_pipe'[2] = cl_pipe[1]
      BY <1>s DEF Pipeline
    <3>3. PipeEmpty => cl_pipe[0] = 0 /\ cl_pipe[1] = 0 /\ cl_pipe[2] = 0
      BY DEF PipeEmpty
    <3>4. cl_pipe[0] \in {0, 1}
      BY <1>p DEF ChipType
    <3>5. SinceAct' = Older(SinceAct) /\ SincePre' = Older(SincePre)
          /\ SinceRef' = Older(SinceRef) /\ SinceWrite' = Older(SinceWrite)
      BY <2>n, <3>1
    <3>6. SincePre' >= 2
      BY <1>o, <1>t, <3>5
    <3> QED BY <1>o, <1>t, <2>r, <2>i, <3>1, <3>2, <3>3, <3>5, <3>6 DEF SpaceInv
  <2>12. CASE RefreshWait
    <3>1. /\ state = "REFW" /\ cmd' = Cmd("NOP")
          /\ IF cnt = 0 THEN state' = "IDLE" /\ cnt' = cnt ELSE cnt' = cnt - 1 /\ state' = state
      BY <2>12 DEF RefreshWait, CountDown
    <3> QED BY <1>o, <1>t, <2>r, <2>i, <2>n, <2>c, <3>1 DEF SpaceInv
  <2> QED BY <1>2, <1>s, <2>1, <2>2, <2>3, <2>4, <2>5, <2>6, <2>7, <2>8, <2>9, <2>10, <2>11, <2>12, <2>r
      DEF Sequencer, Initialise
<1> QED BY <1>1, <1>2, <1>s DEF Sequencer

LEMMA CommandsLegalStep == ASSUME IInv, TimingInv, Clock PROVE CommandsLegal'
<1>s. Sequencer BY DEF Clock
<1>t. /\ SinceAct \in 1 .. MaxAge /\ SincePre \in 1 .. MaxAge
      /\ SinceRef \in 1 .. MaxAge /\ SinceWrite \in 1 .. MaxAge /\ MaxAge = 8
  BY AgeTypes DEF MaxAge
<1>r. /\ RowsNow \in [Banks -> Rows \cup {NoRow}] /\ DOMAIN RowsNow = Banks
      /\ NoRow \notin Rows /\ xfer.bank \in Banks /\ xfer.row \in Rows
  BY RowsType
<1>p. PipeInv /\ SeqType BY Parts
<1>i. RowInv /\ PowerUpInv /\ SpaceInv BY DEF TimingInv
<1> SUFFICES /\ LegalCommand(RowsNow, cmd')
             /\ cmd'.op \in {"READ", "WRITE"} => RowsNow[cmd'.at.bank] = cmd'.at.row
             /\ WellSpaced(AgeNow, cmd')
  BY Legal
<1>n. ASSUME cmd'.op = "NOP"
      PROVE  /\ LegalCommand(RowsNow, cmd')
             /\ cmd'.op \in {"READ", "WRITE"} => RowsNow[cmd'.at.bank] = cmd'.at.row
             /\ WellSpaced(AgeNow, cmd')
  BY <1>n DEF LegalCommand, WellSpaced
<1>1. CASE Initialise
  <2>1. /\ init_cnt \in 1 .. InitCycles /\ ~ready
        /\ cmd'.op = InitCommand[init_cnt]
        /\ InitCommand[init_cnt] \in {"NOP", "PRE", "REF", "MRS"}
    BY <1>1, PowerUpEdge
  <2>2. CASE cmd'.op = "PRE"
    <3>1. SinceWrite = 8 BY <1>i, <1>t, <2>1 DEF PowerUpInv
    <3> QED BY <2>2, <3>1 DEF LegalCommand, WellSpaced, SinceWrite
  <2>3. CASE cmd'.op \in {"REF", "MRS"}
    <3>1. PICK first \in 8 .. InitCycles :
             /\ InitCommand[first] = "PRE"
             /\ \A i \in 1 .. InitCycles : InitCommand[i] # "NOP" => i \in 8 .. first
             /\ \A i \in 1 .. InitCycles : InitCommand[i] = "REF" =>
                    \A j \in i + 1 .. InitCycles :
                        /\ InitCommand[j] = "PRE" => j - i >= 2
                        /\ InitCommand[j] = "REF" => j - i >= 7
      BY PowerUpAssumption
    <3>2. init_cnt \in 8 .. first /\ init_cnt # first
      BY <2>1, <2>3, <3>1
    <3>3. first \in init_cnt + 1 .. InitCycles
      BY <2>1, <3>1, <3>2, TimingAssumption
    <3>4. Closed
      BY <1>i, <2>1, <3>1, <3>3 DEF PowerUpInv
    <3>5. cmd'.op = "REF" => SincePre >= 2
      <4> SUFFICES ASSUME cmd'.op = "REF", SincePre = 1 PROVE FALSE
        BY <1>t
      <4>1. init_cnt + 1 <= InitCycles /\ InitCommand[init_cnt + 1] = "PRE"
        BY <1>i, <1>t, <2>1 DEF PowerUpInv
      <4> QED BY <2>1, <3>1, <4>1, TimingAssumption
    <3>6. cmd'.op = "REF" => SinceRef >= 7
      <4> SUFFICES ASSUME cmd'.op = "REF", SinceRef < 7 PROVE FALSE
        BY <1>t
      <4>1. init_cnt + SinceRef <= InitCycles /\ InitCommand[init_cnt + SinceRef] = "REF"
        BY <1>i, <1>t, <2>1 DEF PowerUpInv
      <4>2. init_cnt + SinceRef \in init_cnt + 1 .. InitCycles
        BY <1>t, <2>1, <4>1, TimingAssumption
      <4>3. (init_cnt + SinceRef) - init_cnt >= 7
        BY <2>1, <3>1, <4>1, <4>2
      <4> QED BY <1>t, <2>1, <4>3
    <3> QED BY <1>r, <2>3, <3>4, <3>5, <3>6
        DEF LegalCommand, WellSpaced, Closed, SincePre, SinceRef
  <2> QED BY <1>n, <2>1, <2>2, <2>3
<1>2. CASE Running
  <2>r. ready BY <1>2 DEF Running
  <2>0. \A b \in Banks : RowsNow[b] = Remembered(b)
    BY <1>i, <2>r DEF RowInv, Remembered
  <2>1. CASE \/ IdleWait \/ IdleGrantWrite \/ IdleGrantRead \/ PreXfer \/ RasToCas
             \/ WriteRecovery \/ ReadDrain \/ RefreshWait
             \/ Dispatch /\ state' # "PRE_XFER"
             \/ PreRefresh /\ cnt # 0
    <3>1. cmd' = Cmd("NOP")
      BY <2>1 DEF IdleWait, IdleGrantWrite, IdleGrantRead, Idle, PreXfer, RasToCas,
                  WriteRecovery, ReadDrain, RefreshWait, CountDown, Dispatch, PreRefresh
    <3> QED BY <1>n, <3>1, Pins
  <2>2. CASE IdleRefresh \/ (Dispatch /\ state' = "PRE_XFER")
    <3>1. cmd' = Cmd("PRE") /\ state \in {"IDLE", "DISPATCH"}
      BY <2>2 DEF IdleRefresh, Dispatch
    <3>2. SinceWrite >= 2
      BY <1>i, <2>r, <3>1 DEF SpaceInv
    <3>3. cmd'.op = "PRE" BY <3>1, Pins
    <3> QED BY <3>2, <3>3 DEF LegalCommand, WellSpaced, SinceWrite
  <2>3. CASE PreRefresh /\ cnt = 0
    <3>1. cmd' = Cmd("REF") /\ state = "PRE_REF"
      BY <2>3 DEF PreRefresh
    <3>2. SincePre >= 2 /\ SinceRef >= 7 /\ ~row_open
      BY <1>i, <2>3, <2>r, <3>1 DEF SpaceInv, RowInv
    <3>3. cmd'.op = "REF" BY <3>1, Pins
    <3>4. \A b \in Banks : RowsNow[b] = NoRow
      BY <2>0, <3>2 DEF Remembered
    <3> QED BY <1>r, <3>2, <3>3, <3>4 DEF LegalCommand, WellSpaced, SincePre, SinceRef
  <2>4. CASE Activate
    <3>1. cmd' = CmdAt("ACT", xfer, FALSE) /\ state = "ACT"
      BY <2>4 DEF Activate
    <3>2. SinceAct >= 7 /\ SincePre >= 2 /\ SinceRef >= 7 /\ ~row_open
      BY <1>i, <2>r, <3>1 DEF SpaceInv, RowInv
    <3>3. cmd'.op = "ACT" /\ cmd'.at = xfer BY <3>1, Pins
    <3>4. RowsNow[xfer.bank] = NoRow
      BY <1>r, <2>0, <3>2 DEF Remembered
    <3> QED BY <3>2, <3>3, <3>4 DEF LegalCommand, WellSpaced, SincePre, SinceRef, SinceAct
  <2>5. CASE Write \/ Read
    <3>1. /\ cmd' = CmdAt("WRITE", xfer, FALSE) \/ (\E ap : cmd' = CmdAt("READ", xfer, ap))
          /\ state \in {"RD", "WR"}
      BY <2>5 DEF Write, Read
    <3>2. SinceAct >= 3 /\ row_open /\ xfer.bank = open_bank /\ xfer.row = open_row
      BY <1>i, <2>r, <3>1 DEF SpaceInv, RowInv
    <3>3. cmd'.op \in {"READ", "WRITE"} /\ cmd'.at = xfer BY <3>1, Pins
    <3>4. RowsNow[xfer.bank] = xfer.row /\ xfer.row # NoRow
      BY <1>r, <2>0, <3>2 DEF Remembered
    <3> QED BY <3>2, <3>3, <3>4 DEF LegalCommand, WellSpaced, SinceAct
  <2> QED BY <1>2, <1>s, <2>1, <2>2, <2>3, <2>4, <2>5, <2>r DEF Sequencer, Initialise
<1> QED BY <1>1, <1>2, <1>s DEF Sequencer

LEMMA TimingInit == ASSUME Init PROVE TimingInv
<1>1. /\ cmd = Cmd("NOP") /\ age = FreshAge /\ ~ready /\ state = "IDLE" /\ ~row_open
      /\ init_cnt = InitCycles
  BY DEF Init
<1>2. cmd.op = "NOP" /\ cmd.ap = FALSE BY <1>1, Pins
<1>3. RowInv BY <1>1 DEF RowInv
<1>4. SinceAct = MaxAge /\ SincePre = MaxAge /\ SinceRef = MaxAge /\ SinceWrite = MaxAge
  BY <1>1, <1>2 DEF SinceAct, SincePre, SinceRef, SinceWrite, AgeNow, ChipAge, FreshAge, Older,
                    MaxAge
<1>5. PowerUpInv BY <1>1, <1>4, TimingAssumption DEF PowerUpInv, MaxAge
<1>6. SpaceInv BY <1>1 DEF SpaceInv
<1>7. CommandsLegal BY <1>2 DEF CommandsLegal, LegalCommand, WellSpaced
<1> QED BY <1>3, <1>5, <1>6, <1>7 DEF TimingInv

LEMMA TimingReset == ASSUME PllLoss PROVE TimingInv'
<1>1. /\ cmd' = Cmd("NOP") /\ age' = FreshAge /\ ~ready' /\ state' = "IDLE" /\ ~row_open'
      /\ init_cnt' = InitCycles
  BY DEF PllLoss, ResetSequencer, ResetRow
<1>2. cmd'.op = "NOP" /\ cmd'.ap = FALSE BY <1>1, Pins
<1>3. RowInv' BY <1>1 DEF RowInv
<1>4. SinceAct' = MaxAge /\ SincePre' = MaxAge /\ SinceRef' = MaxAge /\ SinceWrite' = MaxAge
  BY <1>1, <1>2 DEF SinceAct, SincePre, SinceRef, SinceWrite, AgeNow, ChipAge, FreshAge, Older,
                    MaxAge
<1>5. PowerUpInv' BY <1>1, <1>4, TimingAssumption DEF PowerUpInv, MaxAge
<1>6. SpaceInv' BY <1>1 DEF SpaceInv
<1>7. CommandsLegal' BY <1>2 DEF CommandsLegal, LegalCommand, WellSpaced
<1> QED BY <1>3, <1>5, <1>6, <1>7 DEF TimingInv

LEMMA TimingStep == ASSUME IInv, TimingInv, [Next]_vars PROVE TimingInv'
<1>1. CASE Clock
  BY <1>1, RowInvStep, PowerUpInvStep, SpaceInvStep, CommandsLegalStep DEF TimingInv
<1>2. CASE PllLoss BY <1>2, TimingReset
<1>3. CASE UNCHANGED vars
  BY <1>3 DEF vars, seqVars, xferVars, rowVars, pipeVars, chipVars, TimingInv, RowInv,
              PowerUpInv, SpaceInv, CommandsLegal, RowsNow, AgeNow, Closed,
              SinceAct, SincePre, SinceRef, SinceWrite
<1> QED BY <1>1, <1>2, <1>3 DEF Next

\* The chip never sees a command it must not, from power-up on and after every
\* loss of the PLL: an access finds the row of its own address open, ACT, REF
\* and MRS find what they address precharged, and commands keep their distance.
THEOREM LegalCommands == Spec => []CommandsLegal
<1>1. Init => TimingInv BY TimingInit
<1>2. IInv /\ TimingInv /\ [Next]_vars => TimingInv' BY TimingStep
<1>3. TimingInv => CommandsLegal BY DEF TimingInv
<1> QED BY <1>1, <1>2, <1>3, Inductive, PTL DEF Spec

-----------------------------------------------------------------------------
(***************************************************************************)
(* Refresh.  A request for one finds the sequencer idle or in the middle   *)
(* of a transaction; nothing else is granted before it, and each state     *)
(* knows how long the request can have waited.                             *)
(***************************************************************************)
WaitedAtMost ==
    /\ state = "IDLE" => ref_cnt <= 19
    /\ state = "DISPATCH" => ref_cnt = 0
    /\ state = "PRE_XFER" => ref_cnt + cnt <= 2
    /\ state = "ACT" => ref_cnt <= 3
    /\ state = "RCD1" => ref_cnt <= 4
    /\ state = "RCD2" => ref_cnt <= 5
    /\ state = "RD" => ref_cnt <= 6 + rd_issued
    /\ state = "WR" => ref_cnt <= 6
    /\ state = "WRRC" => ref_cnt + cnt <= 9
    /\ state = "RDW" =>
           /\ ref_cnt <= 18
           /\ cl_pipe[0] = 1 => ref_cnt <= 14
           /\ cl_pipe[1] = 1 => ref_cnt <= 15
           /\ cl_pipe[2] = 1 => ref_cnt <= 16
           /\ cl_pipe[3] = 1 => ref_cnt <= 17
    /\ state = "PRE_REF" => ref_cnt + cnt <= 21
    /\ state = "REFW" => ref_cnt + cnt <= 6

DeadlineInv == ref_pend => ready /\ WaitedAtMost

\* A request that has just been made has not waited.
LEMMA JustDue ==
    ASSUME IInv', SpaceInv', ready', ref_cnt' = 0 PROVE WaitedAtMost'
<1>1. SeqType' /\ PipeInv' /\ ChipType'
  BY TypeParts DEF IInv, TypeOK, SeqType, ChipType
<1>2. cnt' \in 0 .. 6 /\ rd_issued' \in 0 .. 8 /\ state' \in States
  BY <1>1 DEF SeqType
<1>3. state' = "PRE_XFER" => cnt' <= 1
  BY <1>2 DEF SpaceInv
<1>4. \A c \in 0 .. 6, i \in 0 .. 8 :
          /\ 0 + c <= 6 /\ 0 + c <= 9 /\ 0 + c <= 21 /\ 0 <= 6 + i
          /\ c <= 1 => 0 + c <= 2
  OBVIOUS
<1>5. /\ ref_cnt' + cnt' <= 6 /\ ref_cnt' + cnt' <= 9 /\ ref_cnt' + cnt' <= 21
      /\ ref_cnt' <= 6 + rd_issued'
      /\ cnt' <= 1 => ref_cnt' + cnt' <= 2
  BY <1>2, <1>4, Zenon
<1>6. /\ ref_cnt' <= 3 /\ ref_cnt' <= 4 /\ ref_cnt' <= 5 /\ ref_cnt' <= 6 /\ ref_cnt' <= 14
      /\ ref_cnt' <= 15 /\ ref_cnt' <= 16 /\ ref_cnt' <= 17 /\ ref_cnt' <= 18 /\ ref_cnt' <= 19
  OBVIOUS
<1> QED BY <1>3, <1>5, <1>6, Zenon DEF WaitedAtMost

\* One that waits does so for one edge more, and is served or comes nearer.
LEMMA WaitsOn ==
    ASSUME IInv, TimingInv, Clock, ready, ref_pend, WaitedAtMost, ref_pend'
    PROVE  ref_cnt' = ref_cnt + 1 => WaitedAtMost'
<1> SUFFICES ASSUME ref_cnt' = ref_cnt + 1 PROVE WaitedAtMost'
  OBVIOUS
<1>s. Running /\ Sequencer /\ Pipeline BY DEF Clock, Sequencer, Initialise
<1>p. SeqType /\ ChipType /\ PipeInv BY Parts
<1>t. /\ cnt \in 0 .. 6 /\ rd_issued \in 0 .. 8 /\ rd_total \in {0, 1, 4, 8} /\ ref_cnt \in Nat
      /\ state \in States
  BY <1>p DEF SeqType
<1>i. SpaceInv BY DEF TimingInv
<1>1. CASE state = "IDLE"
  <2>1. RefreshGo BY <1>1, <1>p DEF PipeInv, RefreshGo
  <2>2. IdleRefresh
    BY <1>1, <1>s, <2>1
       DEF Sequencer, Initialise, IdleWait, IdleGrantWrite, IdleGrantRead, Idle, Dispatch, PreXfer,
           Activate, RasToCas, Write, WriteRecovery, Read, ReadDrain, PreRefresh, RefreshWait,
           CountDown, Running
  <2>3. state' = "PRE_REF" /\ cnt' = 1 BY <2>2 DEF IdleRefresh
  <2> QED BY <1>1, <1>t, <2>3 DEF WaitedAtMost
<1>2. CASE Dispatch
  <2>1. \/ state' = "PRE_XFER" /\ cnt' = 1
        \/ state' \in {"WR", "ACT"}
    BY <1>2 DEF Dispatch
  <2>2. state = "DISPATCH" BY <1>2 DEF Dispatch
  <2> QED BY <1>t, <2>1, <2>2 DEF WaitedAtMost
<1>3. CASE PreXfer
  <2>1. /\ state = "PRE_XFER"
        /\ IF cnt = 0 THEN state' = "ACT" /\ cnt' = cnt ELSE cnt' = cnt - 1 /\ state' = state
    BY <1>3 DEF PreXfer, CountDown
  <2> QED BY <1>t, <2>1 DEF WaitedAtMost
<1>4. CASE Activate \/ RasToCas
  <2>1. /\ \/ state = "ACT" /\ state' = "RCD1"
           \/ state = "RCD1" /\ state' = "RCD2"
           \/ state = "RCD2" /\ state' \in {"WR", "RD"}
        /\ rd_issued' = rd_issued
    BY <1>4 DEF Activate, RasToCas, NoBurst
  <2> QED BY <1>t, <2>1 DEF WaitedAtMost
<1>5. CASE Write
  <2>1. state = "WR" /\ state' = "WRRC" /\ cnt' = 2 BY <1>5 DEF Write
  <2> QED BY <1>t, <2>1 DEF WaitedAtMost
<1>6. CASE WriteRecovery
  <2>1. /\ state = "WRRC" /\ cnt <= 2
        /\ IF cnt = 0 THEN state' = "IDLE" /\ cnt' = cnt ELSE cnt' = cnt - 1 /\ state' = state
    BY <1>6, <1>p DEF WriteRecovery, CountDown, PipeInv
  <2> QED BY <1>t, <2>1 DEF WaitedAtMost
<1>7. CASE Read
  <2>1. /\ state = "RD" /\ rd_issued < rd_total /\ rd_issued' = rd_issued + 1
        /\ state' = IF rd_issued + 1 = rd_total THEN "RDW" ELSE "RD"
    BY <1>7, <1>p DEF Read, PipeInv
  <2>2. ref_cnt <= 13 /\ (state' = "RD" => ref_cnt' <= 6 + rd_issued')
    BY <1>t, <2>1 DEF WaitedAtMost
  <2> QED BY <1>t, <2>1, <2>2 DEF WaitedAtMost
<1>8. CASE ReadDrain
  <2>1. state = "RDW" /\ state' = IF PipeEmpty THEN "IDLE" ELSE "RDW"
    BY <1>8 DEF ReadDrain
  <2>2. /\ cl_pipe'[0] = 0 /\ cl_pipe'[1] = cl_pipe[0] /\ cl_pipe'[2] = cl_pipe[1]
        /\ cl_pipe'[3] = cl_pipe[2]
    BY <1>s, <2>1 DEF Pipeline
  <2>3. ~PipeEmpty => ref_cnt <= 17
    <3> SUFFICES ASSUME ~PipeEmpty PROVE ref_cnt <= 17
      OBVIOUS
    <3>1. PICK i \in 0 .. 3 : cl_pipe[i] = 1
      BY <1>p DEF PipeEmpty, ChipType
    <3>2. i = 0 \/ i = 1 \/ i = 2 \/ i = 3 OBVIOUS
    <3>3. cl_pipe[0] = 1 \/ cl_pipe[1] = 1 \/ cl_pipe[2] = 1 \/ cl_pipe[3] = 1
      BY <3>1, <3>2
    <3> QED BY <1>t, <2>1, <3>3 DEF WaitedAtMost
  <2>4. /\ ref_cnt <= 18
        /\ cl_pipe'[1] = 1 => ref_cnt' <= 15
        /\ cl_pipe'[2] = 1 => ref_cnt' <= 16
        /\ cl_pipe'[3] = 1 => ref_cnt' <= 17
    BY <1>t, <2>1, <2>2 DEF WaitedAtMost
  <2> QED BY <1>t, <2>1, <2>2, <2>3, <2>4 DEF WaitedAtMost
<1>9. CASE PreRefresh
  <2>1. /\ state = "PRE_REF" /\ cnt # 0 => state' = "PRE_REF" /\ cnt' = cnt - 1
    BY <1>9 DEF PreRefresh
  <2>2. cnt # 0
    BY <1>9, <1>s DEF Running, RefreshTimer, PreRefresh
  <2>3. state = "PRE_REF" BY <1>9 DEF PreRefresh
  <2> QED BY <1>t, <2>1, <2>2, <2>3 DEF WaitedAtMost
<1>10. CASE RefreshWait
  <2>1. /\ state = "REFW"
        /\ IF cnt = 0 THEN state' = "IDLE" /\ cnt' = cnt ELSE cnt' = cnt - 1 /\ state' = state
    BY <1>10 DEF RefreshWait, CountDown
  <2> QED BY <1>t, <2>1 DEF WaitedAtMost
<1> QED BY <1>s, <1>1, <1>2, <1>3, <1>4, <1>5, <1>6, <1>7, <1>8, <1>9, <1>10
        DEF Sequencer, Initialise, IdleWait, IdleGrantWrite, IdleGrantRead, Idle, IdleRefresh

LEMMA DeadlineStep == ASSUME IInv, TimingInv, DeadlineInv, [Next]_vars PROVE DeadlineInv'
<1>1. CASE Clock
  <2>0. IInv' /\ TimingInv'
    BY <1>1, ClockStep, TimingStep DEF Next
  <2>p. SeqType BY Parts
  <2>1. CASE Initialise
    BY <2>1 DEF DeadlineInv, Initialise, refreshVars
  <2>2. CASE Running
    <3> SUFFICES ASSUME ref_pend' PROVE ready' /\ WaitedAtMost'
      BY DEF DeadlineInv
    <3>1. ready /\ ready' /\ RefreshTimer BY <2>2 DEF Running
    <3>2. CASE RefreshDue
      <4>1. ref_cnt' = 0 BY <3>1, <3>2 DEF RefreshTimer
      <4> QED BY <2>0, <3>1, <4>1, JustDue DEF TimingInv
    <3>3. CASE ~RefreshDue
      <4>1. ref_pend /\ ref_cnt' = ref_cnt + 1 BY <3>1, <3>3 DEF RefreshTimer
      <4>2. WaitedAtMost BY <4>1 DEF DeadlineInv
      <4> QED BY <1>1, <3>1, <4>1, <4>2, WaitsOn
    <3> QED BY <3>2, <3>3
  <2> QED BY <1>1, <2>1, <2>2 DEF Clock, Sequencer
<1>2. CASE PllLoss
  BY <1>2 DEF PllLoss, ResetSequencer, DeadlineInv
<1>3. CASE UNCHANGED vars
  BY <1>3 DEF vars, seqVars, refreshVars, pipeVars, DeadlineInv, WaitedAtMost
<1> QED BY <1>1, <1>2, <1>3 DEF Next

\* A refresh is issued before the next one is due, whatever is being transferred
\* when it falls due: with RefPeriod = 700 the chip gets all of its refreshes.
THEOREM RefreshNeverLate == Spec => []RefreshInTime
<1>1. Init => TimingInv /\ DeadlineInv
  BY TimingInit DEF Init, DeadlineInv
<1>2. IInv /\ TimingInv /\ DeadlineInv /\ [Next]_vars => TimingInv' /\ DeadlineInv'
  BY TimingStep, DeadlineStep
<1>3. IInv /\ TimingInv /\ DeadlineInv => RefreshInTime
  <2> SUFFICES ASSUME IInv, DeadlineInv, TimingInv, ref_pend PROVE ref_cnt < RefPeriod
    BY TimingAssumption DEF RefreshInTime, RefreshDue
  <2>1. /\ cnt \in 0 .. 6 /\ rd_issued \in 0 .. 8 /\ rd_total \in {0, 1, 4, 8} /\ ref_cnt \in Nat
        /\ state \in States /\ (state = "RD" => rd_issued < rd_total)
    BY Parts DEF SeqType, PipeInv
  <2>2. ref_cnt <= 21
    BY <2>1 DEF DeadlineInv, WaitedAtMost, States
  <2> QED BY <2>1, <2>2, TimingAssumption
<1> QED BY <1>1, <1>2, <1>3, Inductive, PTL DEF Spec

-----------------------------------------------------------------------------
(***************************************************************************)
(* Fairness of the arbiter.  What a background port still has to wait for  *)
(* is promised by where the rotation pointer stands and by who holds the   *)
(* credit; every grant to another port uses the promise up.                *)
(***************************************************************************)
Others(p)   == ReadPorts \ {TilePort, p}
Ahead(r, p) == {q \in Others(p) : Distance(r, q) < Distance(r, p)}
Waits(p)    == Latched(p) /\ ~InFlight(p)

\* The grants that may still pass a background port.
Promise(p) ==
    IF TilePort \in ReadPorts
    THEN 2 * Cardinality(Ahead(rr_next, p)) + (IF p1_was_last THEN 0 ELSE 1)
    ELSE Cardinality(Ahead(rr_next, p))

MostPassed(p) == IF p = TilePort THEN 1
                 ELSE IF TilePort \in ReadPorts THEN 2 * Cardinality(Others(p)) + 1
                 ELSE Cardinality(Others(p))

FairInv ==
    \A p \in ReadPorts :
        /\ passed[p] <= MostPassed(p)
        /\ Waits(p) => IF p = TilePort THEN passed[p] > 0 => ~p1_was_last
                       ELSE passed[p] + Promise(p) <= MostPassed(p)

\* The sets of ports are finite.
LEMMA Counted ==
    ASSUME NEW p, NEW r
    PROVE  /\ IsFiniteSet(ReadPorts) /\ IsFiniteSet(Others(p)) /\ IsFiniteSet(Ahead(r, p))
           /\ Cardinality(Ahead(r, p)) \in Nat /\ Cardinality(Others(p)) \in Nat
           /\ Cardinality(Ahead(r, p)) <= Cardinality(Others(p))
<1>1. IsFiniteSet(ReadPorts)
  <2>1. IsFiniteSet(0 .. 5) BY FS_Interval, 0 \in Int, 5 \in Int, Zenon
  <2>2. ReadPorts \in SUBSET (0 .. 5) BY PortsAssumption DEF PortIds
  <2> QED BY <2>1, <2>2, FS_Subset
<1>2. Others(p) \in SUBSET ReadPorts /\ Ahead(r, p) \in SUBSET Others(p)
  BY DEF Others, Ahead
<1>3. IsFiniteSet(Others(p)) BY <1>1, <1>2, FS_Subset
<1>4. IsFiniteSet(Ahead(r, p)) /\ Cardinality(Ahead(r, p)) <= Cardinality(Others(p))
  BY <1>2, <1>3, FS_Subset
<1> QED BY <1>1, <1>3, <1>4, FS_CardinalityType

\* The bounds of WaitBounded in terms of the other ports.
LEMMA Bounds ==
    ASSUME NEW p \in ReadPorts, p # TilePort
    PROVE  MostPassed(p) = IF TilePort \in ReadPorts THEN 2 * (Cardinality(ReadPorts) - 2) + 1
                           ELSE Cardinality(ReadPorts) - 1
<1>1. IsFiniteSet(ReadPorts) /\ Cardinality(ReadPorts) \in Nat BY Counted, FS_CardinalityType
<1>2. /\ IsFiniteSet(ReadPorts \ {p})
      /\ Cardinality(ReadPorts \ {p}) = Cardinality(ReadPorts) - 1
  BY <1>1, FS_RemoveElement
<1>3. Cardinality((ReadPorts \ {p}) \ {TilePort}) =
          IF TilePort \in ReadPorts \ {p} THEN Cardinality(ReadPorts \ {p}) - 1
                                          ELSE Cardinality(ReadPorts \ {p})
  BY <1>2, FS_RemoveElement
<1>4. Others(p) = (ReadPorts \ {p}) \ {TilePort} BY DEF Others
<1>5. TilePort \in ReadPorts \ {p} <=> TilePort \in ReadPorts OBVIOUS
<1>6. Cardinality(Others(p)) = IF TilePort \in ReadPorts THEN Cardinality(ReadPorts) - 2
                               ELSE Cardinality(ReadPorts) - 1
  BY <1>1, <1>2, <1>3, <1>4, <1>5
<1> QED BY <1>1, <1>6 DEF MostPassed

\* Granting a port ahead of p by the rotation takes it out of p's way and puts
\* nobody in it.
LEMMA Rotates ==
    ASSUME NEW p \in PortIds, NEW r \in PortIds, NEW g \in Others(p),
           Distance(r, g) <= Distance(r, p)
    PROVE  Cardinality(Ahead(After(g), p)) <= Cardinality(Ahead(r, p)) - 1
<1>0. ReadPorts \subseteq PortIds BY PortsAssumption
<1>1. g \in PortIds /\ g # p BY <1>0 DEF Others
<1>2. Distance(r, g) < Distance(r, p) BY <1>1 DEF Distance
<1>3. \A q \in PortIds : Distance(After(g), q) < Distance(After(g), p) =>
                             q # g /\ Distance(r, q) < Distance(r, p)
  BY <1>1, <1>2 DEF Distance, After
<1>4. Others(p) \subseteq PortIds BY <1>0 DEF Others
<1>5. Ahead(After(g), p) \in SUBSET (Ahead(r, p) \ {g}) BY <1>3, <1>4 DEF Ahead
<1>6. g \in Ahead(r, p) BY <1>2 DEF Ahead
<1>7. /\ IsFiniteSet(Ahead(r, p) \ {g})
      /\ Cardinality(Ahead(r, p) \ {g}) = Cardinality(Ahead(r, p)) - 1
  BY <1>6, Counted, FS_RemoveElement
<1>8. Cardinality(Ahead(After(g), p)) <= Cardinality(Ahead(r, p) \ {g})
  BY <1>5, <1>7, FS_Subset
<1> QED BY <1>7, <1>8

\* Without the credit the arbiter grants the nearest reader that waits, never the
\* tile port over a background port after a tile fetch.
LEMMA RotationGrant ==
    ASSUME NEW f \in [Ports -> BOOLEAN], NEW r \in PortIds, NEW last \in BOOLEAN,
           ~PriorityGrant(f, last), NEW p \in ReadPorts \ {TilePort}, f[p]
    PROVE  LET g == ReadGrant(f, r, last)
           IN  g \in ReadPorts \ {TilePort} /\ Distance(r, g) <= Distance(r, p)
<1> DEFINE S == Eligible(f, last)
<1>1. p \in Ports /\ p \in PortIds BY PortsType, PortsAssumption DEF Ports
<1>2. p \in S BY <1>1 DEF Eligible
<1>3. S \in SUBSET PortIds BY DEF Eligible
<1>4. \E h \in S : \A q \in S : Distance(r, h) <= Distance(r, q)
  BY <1>2, <1>3, Nearest
<1>5. /\ ReadGrant(f, r, last) \in S
      /\ \A q \in S : Distance(r, ReadGrant(f, r, last)) <= Distance(r, q)
  BY <1>4 DEF ReadGrant
<1>6. TilePort \notin S
  <2>1. BackgroundPend(f) BY <1>1 DEF BackgroundPend
  <2> QED BY <2>1 DEF Eligible, FairnessBlock, PriorityGrant
<1>7. S \subseteq ReadPorts BY PortsType DEF Eligible
<1> QED BY <1>2, <1>5, <1>6, <1>7

\* A transaction in flight stays in flight until it is acknowledged: its port is
\* not set waiting again.
LEMMA FlightEnds ==
    ASSUME IInv, Clock, NEW p \in ReadPorts, Latched(p), Waits(p)'
    PROVE  Waits(p)
<1> SUFFICES ASSUME InFlight(p) PROVE FALSE
  BY DEF Waits
<1>t. /\ PortType /\ SeqType /\ ChipType /\ PipeInv /\ Pipeline /\ Sequencer /\ Acknowledge
      /\ Mailboxes
  BY Parts, TypeParts DEF IInv, Clock
<1> USE DEF SeqType
<1>r. p \in Ports /\ p # WR BY PortsAssumption DEF Ports
<1>q. PortInv(p) BY <1>r DEF IInv
<1>g. grant = p /\ (state \in Started \cup {"RD"} \/ (state = "RDW" /\ ~PipeEmpty))
  BY <1>r, <1>t DEF InFlight, PipeInv
<1>1. CASE p \in Delivers
  <2>1. ~(state = "IDLE" \/ (state = "WRRC" /\ cnt = 0)) BY <1>g DEF Started
  <2>2. ~ack[p] BY <1>q, <2>1 DEF PortInv, Latched
  <2>3. ack'[p] /\ ~ack_d2'[p] BY <1>1, <1>r, <1>t, <2>2 DEF Acknowledge, Mailboxes
  <2> QED BY <2>3 DEF Waits, Latched, AckRises
<1>2. CASE p \notin Delivers
  <2> SUFFICES InFlight(p)'
    BY DEF Waits
  <2>s. PipeSum \in 0 .. 4 /\ PipeSum' \in 0 .. 4 /\ (PipeEmpty <=> PipeSum = 0)
        /\ (PipeEmpty' <=> PipeSum' = 0)
    BY <1>t, PipeShift
  <2>m. PipeSum' = PipeSum + (IF ready /\ state = "RD" THEN 1 ELSE 0)
                           - (IF Capture THEN 1 ELSE 0)
    BY <1>t, PipeShift
  <2>n. ready BY <1>g, <1>t DEF PipeInv, Started
  <2>1. CASE state \in Started
    <3>1. Dispatch \/ PreXfer \/ Activate \/ RasToCas
      BY <1>t, <2>1, <2>n DEF Started, Sequencer, Initialise, IdleRefresh, IdleWait,
             IdleGrantWrite, IdleGrantRead, Idle, CountDown, WriteRecovery, ReadDrain, Write,
             Read, PreRefresh, RefreshWait
    <3>2. grant' = grant /\ state' \in Started \cup {"RD", "WR"}
      BY <2>1, <3>1 DEF Dispatch, PreXfer, CountDown, Activate, RasToCas, xferVars, Started
    <3> QED BY <1>g, <3>2 DEF InFlight
  <2>2. CASE state = "RD"
    <3>1. Read
      BY <1>t, <2>2, <2>n DEF Sequencer, Initialise, IdleRefresh, IdleWait, IdleGrantWrite,
             IdleGrantRead, Idle, CountDown, WriteRecovery, ReadDrain, Write, Dispatch, PreXfer,
             Activate, RasToCas, PreRefresh, RefreshWait
    <3>2. grant' = grant /\ state' \in {"RD", "RDW"} BY <3>1 DEF Read
    <3>3. cl_pipe'[0] = 1 BY <1>t, <2>2, <2>n DEF Pipeline
    <3>4. ~PipeEmpty' BY <3>3 DEF PipeEmpty
    <3> QED BY <1>g, <3>2, <3>4 DEF InFlight
  <2>3. CASE state = "RDW" /\ ~PipeEmpty
    <3>1. ReadDrain
      BY <1>t, <2>3, <2>n DEF Sequencer, Initialise, IdleRefresh, IdleWait, IdleGrantWrite,
             IdleGrantRead, Idle, CountDown, WriteRecovery, Read, Write, Dispatch, PreXfer,
             Activate, RasToCas, PreRefresh, RefreshWait
    <3>2. grant' = grant /\ state' = "RDW" BY <2>3, <3>1 DEF ReadDrain, xferVars
    <3>3. ~LastWord BY <1>2, <1>g DEF Delivers
    <3>4. Len(cap_buf) + PipeSum = rd_total /\ Len(cap_buf) \in Nat
      BY <1>t, <2>3 DEF PipeInv
    <3>5. ~PipeEmpty' BY <2>3, <2>m, <2>s, <3>3, <3>4 DEF LastWord
    <3> QED BY <1>g, <3>2, <3>5 DEF InFlight
  <2> QED BY <1>g, <2>1, <2>2, <2>3
<1> QED BY <1>1, <1>2

\* What a grant does to the pointer and the credit, and that only grants move them.
LEMMA GrantStep ==
    ASSUME IInv, Clock, NEW p \in ReadPorts, Waits(p)
    PROVE  \/ /\ GrantsRead /\ IdleGrantRead /\ state = "IDLE" /\ pend[p]
              /\ grant' = ReadGrant(pend, rr_next, p1_was_last)
              /\ p1_was_last' = (grant' = TilePort)
              /\ rr_next' = PointerAfter(grant')
           \/ ~GrantsRead /\ rr_next' = rr_next /\ p1_was_last' = p1_was_last
<1>p. SeqType /\ PipeInv BY Parts
<1>s. Sequencer BY DEF Clock
<1>1. CASE IdleGrantRead
  <2>1. ready BY <1>1, <1>s DEF Sequencer, Initialise, Running, IdleGrantRead, Idle
  <2>2. PortType BY TypeParts DEF IInv
  <2>3. ReadGrant(pend, rr_next, p1_was_last) # WR
    BY <1>1, <1>p, <2>2, GrantWaits DEF IdleGrantRead, PortType, SeqType
  <2> QED BY <1>1, <2>1, <2>3 DEF IdleGrantRead, Idle, GrantsRead, Waits, Latched
<1>2. CASE ~IdleGrantRead
  <2>1. rr_next' = rr_next /\ p1_was_last' = p1_was_last
    BY <1>2, <1>s
       DEF Sequencer, Initialise, Running, IdleRefresh, IdleWait, IdleGrantWrite, Dispatch,
           PreXfer, CountDown, Activate, RasToCas, Write, WriteRecovery, Read, ReadDrain,
           PreRefresh, RefreshWait, xferVars
  <2>2. ~GrantsRead
    BY <1>2, <1>s
       DEF GrantsRead, Sequencer, Initialise, Running, IdleRefresh, IdleWait, IdleGrantWrite,
           Idle, Dispatch, PreXfer, CountDown, Activate, RasToCas, Write, WriteRecovery, Read,
           ReadDrain, PreRefresh, RefreshWait
  <2> QED BY <2>1, <2>2
<1> QED BY <1>1, <1>2

\* A port that goes on waiting keeps its promise.
LEMMA KeepsPromise ==
    ASSUME IInv, IInv', FairInv, Clock, NEW p \in ReadPorts, Waits(p), Waits(p)'
    PROVE  /\ passed'[p] <= MostPassed(p)
           /\ IF p = TilePort THEN passed'[p] > 0 => ~p1_was_last'
              ELSE passed'[p] + Promise(p)' <= MostPassed(p)
<1>r. p \in Ports /\ p \in PortIds /\ p # WR BY PortsAssumption DEF Ports
<1>t. PortType /\ SeqType BY Parts, TypeParts DEF IInv
<1>n. passed[p] \in Nat /\ rr_next \in PortIds /\ p1_was_last \in BOOLEAN
      /\ pend \in [Ports -> BOOLEAN]
  BY <1>r, <1>t DEF PortType, SeqType
<1>m. MostPassed(p) \in Nat BY Counted DEF MostPassed
<1>w. passed'[p] = IF GrantsRead /\ grant' # p THEN passed[p] + 1 ELSE passed[p]
  <2>1. Latched(p) BY DEF Waits
  <2>2. pend'[p] /\ pend[p] /\ ~AckRises(p)
    BY <1>r, <2>1 DEF Latched, Clock, Mailboxes, PendNext
  <2> QED BY <1>r, <2>2 DEF Clock, Waiting
<1>f. /\ passed[p] <= MostPassed(p)
      /\ IF p = TilePort THEN passed[p] > 0 => ~p1_was_last
         ELSE passed[p] + Promise(p) <= MostPassed(p)
  BY DEF FairInv
<1>1. CASE ~GrantsRead
  <2>1. rr_next' = rr_next /\ p1_was_last' = p1_was_last BY <1>1, GrantStep
  <2>2. Promise(p)' = Promise(p) BY <2>1 DEF Promise
  <2> QED BY <1>1, <1>w, <1>f, <2>1, <2>2
<1>2. CASE GrantsRead
  <2>1. /\ state = "IDLE" /\ pend[p] /\ IdleGrantRead
        /\ grant' = ReadGrant(pend, rr_next, p1_was_last)
        /\ p1_was_last' = (grant' = TilePort)
        /\ rr_next' = PointerAfter(grant')
    BY <1>2, GrantStep
  <2>2. grant' # p
    <3>1. state' = "DISPATCH" BY <1>2 DEF GrantsRead
    <3> QED BY <3>1 DEF Waits, InFlight, Started
  <2>3. passed'[p] = passed[p] + 1 BY <1>2, <1>w, <2>2
  <2>4. PriorityGrant(pend, p1_was_last) => grant' = TilePort BY <2>1 DEF ReadGrant
  <2>5. CASE p = TilePort
    <3>1. p1_was_last BY <1>n, <1>r, <2>1, <2>2, <2>4, <2>5 DEF PriorityGrant
    <3>2. passed[p] = 0 BY <1>f, <1>n, <2>5, <3>1
    <3>3. ~p1_was_last' BY <2>1, <2>2, <2>5
    <3> QED BY <2>3, <2>5, <3>2, <3>3 DEF MostPassed
  <2>6. CASE p # TilePort
    <3> DEFINE K == Cardinality(Ahead(rr_next, p))
    <3>k. K \in Nat /\ Cardinality(Ahead(rr_next', p)) \in Nat /\ Cardinality(Others(p)) \in Nat
      BY Counted
    <3>1. CASE PriorityGrant(pend, p1_was_last)
      <4>1. grant' = TilePort /\ rr_next' = rr_next /\ ~p1_was_last /\ p1_was_last'
        BY <2>1, <2>4, <3>1 DEF PointerAfter, PriorityGrant
      <4>2. TilePort \in ReadPorts
        BY <1>n, <3>1, PortsType DEF PriorityGrant
      <4>3. Promise(p) = 2 * K + 1 /\ Promise(p)' = 2 * K
        BY <4>1, <4>2, <3>k DEF Promise
      <4>4. PICK k \in Nat : k = K BY <3>k
      <4> QED BY <1>f, <1>m, <1>n, <2>3, <2>6, <4>3, <4>4
    <3>2. CASE ~PriorityGrant(pend, p1_was_last)
      <4>1. /\ grant' \in ReadPorts \ {TilePort}
            /\ Distance(rr_next, grant') <= Distance(rr_next, p)
        BY <1>n, <2>1, <2>6, <3>2, RotationGrant
      <4>2. grant' \in Others(p) BY <2>2, <4>1 DEF Others
      <4>3. rr_next' = After(grant') /\ ~p1_was_last'
        BY <2>1, <3>2, <4>1 DEF PointerAfter
      <4>4. PICK g \in Others(p) : g = grant' BY <4>2
      <4>5. Cardinality(Ahead(After(g), p)) <= K - 1
        BY <1>n, <1>r, <4>1, <4>4, Rotates
      <4>6. Cardinality(Ahead(rr_next', p)) <= K - 1 BY <4>3, <4>4, <4>5
      <4>7. PICK k \in Nat : k = Cardinality(Ahead(rr_next', p)) BY <3>k
      <4>8. Promise(p)' = IF TilePort \in ReadPorts THEN 2 * k + 1 ELSE k
        BY <4>3, <4>7 DEF Promise
      <4>9. Promise(p) \in Nat /\ Promise(p) >= IF TilePort \in ReadPorts THEN 2 * K ELSE K
        BY <1>n, <3>k DEF Promise
      <4>10. Promise(p)' \in Nat /\ Promise(p)' + 1 <= Promise(p)
        <5> HIDE DEF K
        <5> QED BY <3>k, <4>6, <4>7, <4>8, <4>9
      <4>11. PICK a \in Nat, b \in Nat : a = Promise(p)' /\ b = Promise(p) BY <4>9, <4>10
      <4> QED BY <1>f, <1>m, <1>n, <2>3, <2>6, <4>10, <4>11
    <3> QED BY <3>1, <3>2
  <2> QED BY <2>5, <2>6
<1> QED BY <1>1, <1>2

LEMMA FairStep == ASSUME IInv, FairInv, [Next]_vars PROVE FairInv'
<1>1. CASE Clock
  <2>1. IInv' BY <1>1, ClockStep
  <2> SUFFICES ASSUME NEW p \in ReadPorts
               PROVE  /\ passed'[p] <= MostPassed(p)
                      /\ Waits(p)' => IF p = TilePort THEN passed'[p] > 0 => ~p1_was_last'
                                      ELSE passed'[p] + Promise(p)' <= MostPassed(p)
    BY DEF FairInv, MostPassed, Others
  <2>p. p \in Ports BY PortsAssumption DEF Ports
  <2>m. /\ MostPassed(p) \in Nat
        /\ Promise(p)' <= MostPassed(p) \/ p = TilePort
        /\ Promise(p)' \in Nat
    <3>1. /\ Cardinality(Ahead(rr_next', p)) \in Nat /\ Cardinality(Others(p)) \in Nat
          /\ Cardinality(Ahead(rr_next', p)) <= Cardinality(Others(p))
      BY Counted
    <3>2. PICK k \in Nat, n \in Nat : /\ k = Cardinality(Ahead(rr_next', p))
                                      /\ n = Cardinality(Others(p)) /\ k <= n
      BY <3>1
    <3>3. Promise(p)' = IF TilePort \in ReadPorts THEN 2 * k + (IF p1_was_last' THEN 0 ELSE 1)
                        ELSE k
      BY <3>2 DEF Promise
    <3>4. p # TilePort => MostPassed(p) = IF TilePort \in ReadPorts THEN 2 * n + 1 ELSE n
      BY <3>2 DEF MostPassed
    <3>5. MostPassed(p) \in Nat BY <3>1 DEF MostPassed
    <3> QED BY <3>2, <3>3, <3>4, <3>5
  <2>2. CASE ~Latched(p)
    <3>1. passed'[p] = 0
      BY <1>1, <2>2, <2>p DEF Clock, Waiting, Latched
    <3> QED BY <2>m, <3>1
  <2>3. CASE Latched(p)
    <3>1. CASE Waits(p)'
      <4>1. Waits(p) BY <1>1, <2>3, <3>1, FlightEnds
      <4> QED BY <1>1, <2>1, <3>1, <4>1, KeepsPromise
    <3>2. CASE ~Waits(p)'
      <4>n. passed[p] \in Nat /\ passed[p] <= MostPassed(p)
        BY <2>p, TypeParts DEF IInv, PortType, FairInv
      <4>1. CASE GrantsRead /\ grant' # p
        <5>2. state = "IDLE" BY <4>1 DEF GrantsRead
        <5>3. Delivers = {} BY <5>2, Parts, NothingDelivered
        <5>4. ack'[p] => ack[p] BY <1>1, <2>p, <5>3 DEF Clock, Acknowledge
        <5>5. ack_d2'[p] = ack[p] /\ pend'[p]
          BY <1>1, <2>3, <2>p DEF Clock, Mailboxes, PendNext, Latched
        <5>6. Latched(p)' BY <5>4, <5>5 DEF Latched, AckRises
        <5>7. Waits(p)' BY <4>1, <5>6 DEF Waits, InFlight
        <5> QED BY <3>2, <5>7
      <4>2. CASE ~(GrantsRead /\ grant' # p)
        <5>1. passed'[p] = passed[p] \/ passed'[p] = 0
          BY <1>1, <2>p, <4>2 DEF Clock, Waiting
        <5> QED BY <2>m, <3>2, <4>n, <5>1
      <4> QED BY <4>1, <4>2
    <3> QED BY <3>1, <3>2
  <2> QED BY <2>2, <2>3
<1>2. CASE PllLoss
  <2>1. \A p \in ReadPorts : p \in Ports BY PortsAssumption DEF Ports
  <2>2. ASSUME NEW p \in ReadPorts PROVE passed'[p] = 0 /\ ~Waits(p)'
    BY <1>2, <2>1 DEF PllLoss, ResetMailboxes, Waits, Latched
  <2>3. ASSUME NEW p \in ReadPorts PROVE MostPassed(p) \in Nat
    BY Counted DEF MostPassed
  <2> QED BY <2>2, <2>3 DEF FairInv, MostPassed, Others
<1>3. CASE UNCHANGED vars
  BY <1>3 DEF vars, portVars, seqVars, xferVars, pipeVars, FairInv, Waits, Latched, AckRises,
              InFlight, PipeEmpty, Promise, MostPassed
<1> QED BY <1>1, <1>2, <1>3 DEF Next

\* The arbiter is fair to every reader however often the others ask: a tile fetch
\* waits for at most one other read, and a background read for every other
\* background port once and a tile fetch before each of them and before itself.
THEOREM FairArbitration == Spec => []WaitBounded
<1>1. Init => FairInv
  <2> SUFFICES ASSUME Init, NEW p \in ReadPorts
               PROVE  passed[p] <= MostPassed(p) /\ ~Waits(p)
    BY DEF FairInv
  <2>1. p \in Ports BY PortsAssumption DEF Ports
  <2>2. MostPassed(p) \in Nat BY Counted DEF MostPassed
  <2>3. passed[p] = 0 /\ ~pend[p] BY <2>1 DEF Init
  <2> QED BY <2>2, <2>3 DEF Waits, Latched
<1>2. IInv /\ FairInv /\ [Next]_vars => FairInv' BY FairStep
<1>3. FairInv => WaitBounded
  <2> SUFFICES ASSUME FairInv, NEW p \in ReadPorts
               PROVE  passed[p] <= IF p = TilePort THEN 1
                                   ELSE IF TilePort \in ReadPorts
                                   THEN 2 * (Cardinality(ReadPorts) - 2) + 1
                                   ELSE Cardinality(ReadPorts) - 1
    BY DEF WaitBounded
  <2>1. passed[p] <= MostPassed(p) BY DEF FairInv
  <2>2. p = TilePort => MostPassed(p) = 1 BY DEF MostPassed
  <2> QED BY <2>1, <2>2, Bounds
<1> QED BY <1>1, <1>2, <1>3, Inductive, PTL DEF Spec
-----------------------------------------------------------------------------
(***************************************************************************)
(* The controller implements the memory of MemoryPorts: every step of      *)
(* Sdram is, through the refinement mapping Memory, an atomic access, a    *)
(* request, the taking of an answer, or a step that changes nothing.       *)
(***************************************************************************)
(***************************************************************************)
(* The inductive invariant: where the address of a transaction and the     *)
(* words of a burst are, between the wires of the requester and its        *)
(* answer.                                                                 *)
(***************************************************************************)

\* The cell the n-th word of p's burst is in.
Base(p)      == want[p].col - (want[p].col % rd_total)
CellOf(p, n) == <<want[p].bank, want[p].row, Base(p) + n - 1>>

\* The word each stage of the capture pipeline holds, if it holds one: dq_in,
\* dq_p2, dq_p1, and the command on the pins.
At3 == Len(cap_buf) + 1
At2 == At3 + cl_pipe[3]
At1 == At2 + cl_pipe[2]
At0 == At1 + cl_pipe[1]

\* A read between its grant and its acknowledge: the words captured so far and
\* those on their way are what the cells hold now.
BurstInv(p) ==
    /\ rd_total = RdTotal(p, want[p])
    /\ xfer.bank = want[p].bank /\ xfer.row = want[p].row
    /\ xfer.col = (Base(p) + rd_issued) % 8
    /\ \A i \in 1 .. Len(cap_buf) : cap_buf[i] = mem[CellOf(p, i)]
    /\ cl_pipe[3] = 1 => dq_in = mem[CellOf(p, At3)]
    /\ cl_pipe[2] = 1 => dq_p2 = mem[CellOf(p, At2)]
    /\ cl_pipe[1] = 1 => dq_p1 = mem[CellOf(p, At1)]
    /\ cl_pipe[0] = 1 =>
           cmd.op = "READ" /\ <<cmd.at.bank, cmd.at.row, cmd.at.col>> = CellOf(p, At0)

\* The payload follows its request from the wires to the mailbox.
PayloadInv(p) ==
    /\ Rises(p) => bus[p] = want[p]
    /\ Latched(p) => payload_p[p] = want[p]

\* A write takes its payload from the mailbox to the pins, where it stays for
\* the one edge that acknowledges it.
StoreInv ==
    /\ WR \in Ports /\ InFlight(WR) => xfer = want[WR]
    /\ cmd.op = "WRITE" <=> state = "WRRC" /\ cnt = 2
    /\ cmd.op = "WRITE" => cmd.at = want[WR]

DataInv ==
    /\ \A p \in Ports : PayloadInv(p)
    /\ \A p \in Ports \ {WR} : InFlight(p) => BurstInv(p)
    /\ StoreInv

-----------------------------------------------------------------------------
USE DEF PortIds, TilePort, WR

\* A requester starts with one payload on its wires and in its memory, or
\* keeps the request it remembers.
LEMMA Asks ==
    ASSUME ClientType, Requesters, NEW p \in Ports
    PROVE  \/ /\ CanStart(p) /\ req'[p] /\ busy'[p]
              /\ bus'[p] = want'[p] /\ want'[p] \in Requests[p]
           \/ want'[p] = want[p] /\ (req'[p] => req[p])
              /\ busy'[p] = (busy[p] /\ ~Collects(p))
<1>1. PICK starts \in SUBSET {q \in Ports : CanStart(q)},
           drops \in SUBSET {q \in Ports : CanDrop(q)} :
      \E next \in {f \in [starts \cup drops -> UNION {Requests[q] : q \in Ports}] :
                      \A q \in starts \cup drops : f[q] \in Requests[q]} :
        /\ req' = [q \in Ports |-> \/ q \in starts
                                   \/ req[q] /\ q \notin drops /\ ~Collects(q)]
        /\ bus' = [q \in Ports |-> IF q \in starts \cup drops THEN next[q] ELSE bus[q]]
        /\ want' = [q \in Ports |-> IF q \in starts THEN next[q] ELSE want[q]]
        /\ busy' = [q \in Ports |-> q \in starts \/ (busy[q] /\ ~Collects(q))]
  BY DEF Requesters
<1>2. PICK next \in {f \in [starts \cup drops -> UNION {Requests[q] : q \in Ports}] :
                      \A q \in starts \cup drops : f[q] \in Requests[q]} :
        /\ req' = [q \in Ports |-> \/ q \in starts
                                   \/ req[q] /\ q \notin drops /\ ~Collects(q)]
        /\ bus' = [q \in Ports |-> IF q \in starts \cup drops THEN next[q] ELSE bus[q]]
        /\ want' = [q \in Ports |-> IF q \in starts THEN next[q] ELSE want[q]]
        /\ busy' = [q \in Ports |-> q \in starts \/ (busy[q] /\ ~Collects(q))]
  BY <1>1
<1>3. CASE p \in starts
  <2>1. next[p] \in Requests[p] BY <1>3
  <2> QED BY <1>1, <1>2, <1>3, <2>1
<1>4. CASE p \notin starts
  BY <1>2, <1>4
<1> QED BY <1>3, <1>4

\* A requester that is owed an answer keeps its request.
LEMMA Keeps ==
    ASSUME IInv, Requesters, NEW p \in Ports, Owed(p)
    PROVE  want'[p] = want[p] /\ busy'[p] /\ ~Collects(p)
<1>1. ~(ack[p] /\ Samples(p))
  BY DEF IInv, PortInv, Samples
<1>2. ~CanStart(p) /\ ~Collects(p)
  BY <1>1 DEF CanStart, Collects, Owed
<1>3. want'[p] = want[p] /\ busy'[p] = (busy[p] /\ ~Collects(p))
  BY <1>2, Asks, Parts
<1> QED BY <1>2, <1>3 DEF Owed

LEMMA PayloadStep ==
    ASSUME IInv, Clock, NEW p \in Ports, PayloadInv(p)
    PROVE  PayloadInv(p)'
<1>1. Requesters /\ Mailboxes BY DEF Clock
<1>2. ASSUME Rises(p)' PROVE bus'[p] = want'[p]
  <2>1. req'[p] /\ ~req[p] BY <1>1, <1>2 DEF Rises, Mailboxes
  <2> QED BY <1>1, <2>1, Asks, Parts
<1>3. ASSUME Latched(p)' PROVE payload_p'[p] = want'[p]
  <2>1. pend'[p] BY <1>3 DEF Latched
  <2>2. Rises(p) \/ Latched(p) BY <1>1, <2>1 DEF Mailboxes, PendNext, Latched
  <2>3. Owed(p) BY <2>2 DEF IInv, PortInv
  <2>4. want'[p] = want[p] BY <1>1, <2>3, Keeps
  <2>5. payload_p'[p] = PayloadNext(p) BY <1>1 DEF Mailboxes
  <2> QED BY <2>2, <2>4, <2>5 DEF PayloadInv, PayloadNext
<1> QED BY <1>2, <1>3 DEF PayloadInv

\* A port the idle sequencer finds waiting has its request in its mailbox.
LEMMA WaitingPayload ==
    ASSUME IInv, NEW p \in Ports, PayloadInv(p), state = "IDLE", pend[p]
    PROVE  Owed(p) /\ payload_p[p] = want[p]
<1>1. ~AckRises(p) BY DEF IInv, PortInv, JustServed
<1>2. Latched(p) BY <1>1 DEF Latched
<1> QED BY <1>2 DEF IInv, PortInv, PayloadInv

LEMMA FlightOwed ==
    ASSUME IInv, NEW p \in Ports, InFlight(p)
    PROVE  Owed(p) /\ Latched(p)
BY DEF IInv, PortInv

\* What the edge does to the transfer registers and to a write on its way.
LEMMA StoreStep ==
    ASSUME IInv, Clock, DataInv
    PROVE  StoreInv'
<1> USE DEF States
<1>t. SeqType /\ PipeInv /\ ChipType /\ PortType BY Parts
<1>c. Requesters /\ Sequencer /\ Pipeline BY DEF Clock
<1>w. WR \in Ports /\ InFlight(WR) => want'[WR] = want[WR] /\ xfer = want[WR]
  BY <1>c, FlightOwed, Keeps DEF DataInv, StoreInv
<1>p. WR \in Ports /\ state = "IDLE" /\ pend[WR] => payload_p[WR] = want[WR] /\ want'[WR] = want[WR]
  BY <1>c, WaitingPayload, Keeps DEF DataInv
<1>1. ASSUME WR \in Ports, InFlight(WR)' PROVE xfer' = want'[WR]
  <2>1. CASE InFlight(WR)
    <3>1. grant = WR /\ state \notin {"IDLE", "RD"} BY <1>t, <2>1 DEF InFlight, Started, PipeInv
    <3>2. xfer' = xfer
      BY <1>c, <1>t, <3>1 DEF Sequencer, Initialise, PipeInv, IdleRefresh, IdleWait,
           IdleGrantWrite, IdleGrantRead, Idle, Dispatch, PreXfer, CountDown, Activate,
           RasToCas, Write, WriteRecovery, Read, ReadDrain, PreRefresh, RefreshWait, xferVars
    <3> QED BY <1>1, <1>w, <2>1, <3>2
  <2>2. CASE ~InFlight(WR)
    <3>1. state = "IDLE" /\ pend[WR] BY <1>1, <1>c, <1>t, <2>2, FlightStep
    <3>2. grant' = WR /\ state' \in Started \cup {"RD", "WR", "RDW", "WRRC"}
      BY <1>1 DEF InFlight
    <3>3. IdleGrantWrite \/ IdleGrantRead
      BY <1>c, <3>1, <3>2 DEF Started, Sequencer, Initialise, IdleRefresh, IdleWait,
           IdleGrantWrite, IdleGrantRead, Idle, Dispatch, PreXfer, CountDown, Activate,
           RasToCas, Write, WriteRecovery, Read, ReadDrain, PreRefresh, RefreshWait, xferVars
    <3>4. WritePend BY <1>1, <3>1 DEF WritePend
    <3>5. xfer' = payload_p[WR] BY <3>3, <3>4 DEF IdleGrantWrite, IdleGrantRead
    <3> QED BY <1>1, <1>p, <3>1, <3>5
  <2> QED BY <2>1, <2>2
<1>2. ASSUME cmd'.op = "WRITE"
      PROVE  state' = "WRRC" /\ cnt' = 2 /\ cmd'.at = want'[WR]
  <2>1. Write
    <3>1. ~Initialise
      <4>1. SUFFICES ASSUME Initialise PROVE FALSE OBVIOUS
      <4>2. init_cnt \in 1 .. InitCycles /\ cmd'.op = InitCommand[init_cnt]
        BY <1>t, <4>1, TimingAssumption DEF SeqType, Initialise, Cmd
      <4> QED BY <1>2, <4>2, TimingAssumption
    <3>2. /\ \A op \in Ops : Cmd(op).op = op
          /\ \A op \in Ops, ap \in BOOLEAN : CmdAt(op, xfer, ap).op = op
      BY DEF Cmd, CmdAt
    <3>3. cmd' \notin {Cmd("NOP"), Cmd("PRE"), Cmd("REF"), CmdAt("ACT", xfer, FALSE),
                       CmdAt("READ", xfer, TRUE), CmdAt("READ", xfer, FALSE)}
      BY <1>2, <3>2 DEF Ops
    <3>4. (rd_issued + 1 = rd_total) \in BOOLEAN OBVIOUS
    <3> QED BY <1>c, <3>1, <3>3, <3>4 DEF Sequencer, IdleRefresh, IdleWait,
           IdleGrantWrite, IdleGrantRead, Idle, Dispatch, PreXfer, CountDown, Activate,
           RasToCas, WriteRecovery, Read, ReadDrain, PreRefresh, RefreshWait
  <2>2. state' = "WRRC" /\ cnt' = 2 /\ cmd'.at = xfer /\ state = "WR"
    BY <2>1, Pins DEF Write
  <2>3. WR \in Ports /\ InFlight(WR) BY <1>t, <2>2 DEF InFlight, PipeInv
  <2> QED BY <1>w, <2>2, <2>3
<1>3. ASSUME state' = "WRRC", cnt' = 2 PROVE cmd'.op = "WRITE"
  <2>1. Write \/ WriteRecovery
    BY <1>c, <1>t, <1>3 DEF Sequencer, Initialise, PipeInv, IdleRefresh, IdleWait,
         IdleGrantWrite, IdleGrantRead, Idle, Dispatch, PreXfer, CountDown, Activate,
         RasToCas, Read, ReadDrain, PreRefresh, RefreshWait
  <2>2. ~WriteRecovery
    BY <1>t, <1>3 DEF WriteRecovery, CountDown, PipeInv, SeqType
  <2> QED BY <2>1, <2>2, Pins DEF Write
<1> QED BY <1>1, <1>2, <1>3 DEF StoreInv

\* No write is on the pins while a read is in flight, and the chip's cells rest.
LEMMA CellsRest ==
    ASSUME IInv, Clock, StoreInv, NEW p \in Ports \ {WR}, InFlight(p)
    PROVE  mem' = mem
<1>1. grant # WR /\ state # "WRRC" BY Parts DEF InFlight, PipeInv
<1>2. cmd.op # "WRITE" BY <1>1 DEF StoreInv
<1> QED BY <1>2 DEF Clock, Chip, ChipMem

\* A burst stays within its line, and its cells are those of LineOf.
LEMMA BurstLine ==
    ASSUME NEW c \in 0 .. 7, NEW n \in {1, 4, 8}
    PROVE  /\ c - (c % n) \in 0 .. 8 - n
           /\ \A k \in 0 .. n - 1 : (c - (c % n) + k) % 8 = c - (c % n) + k
<1>1. CASE n = 1 BY <1>1
<1>2. CASE n = 4 BY <1>2
<1>3. CASE n = 8 BY <1>3
<1> QED BY <1>1, <1>2, <1>3

LEMMA BaseType ==
    ASSUME IInv, NEW p \in Ports, rd_total = RdTotal(p, want[p])
    PROVE  /\ rd_total \in {1, 4, 8} /\ Base(p) \in 0 .. 8 - rd_total
           /\ \A k \in 0 .. rd_total - 1 : (Base(p) + k) % 8 = Base(p) + k
<1>1. want[p].col \in 0 .. 7 BY Parts DEF ClientType, Request, Cols
<1>2. rd_total \in {1, 4, 8} BY DEF RdTotal
<1> QED BY <1>1, <1>2, BurstLine DEF Base

\* A read that is granted: its line is the one its request names.
LEMMA BurstStarts ==
    ASSUME IInv, Clock, DataInv, NEW p \in Ports \ {WR}, InFlight(p)', state = "IDLE", pend[p]
    PROVE  BurstInv(p)'
<1>t. SeqType /\ PipeInv /\ ChipType /\ PortType BY Parts
<1>c. Requesters /\ Sequencer /\ Pipeline BY DEF Clock
<1>1. payload_p[p] = want[p] /\ want'[p] = want[p]
  BY <1>c, WaitingPayload, Keeps DEF DataInv
<1>2. IdleGrantRead /\ ready
  <2>1. grant' = p /\ state' \in Started \cup {"RD", "WR", "RDW", "WRRC"} BY DEF InFlight
  <2> QED BY <1>c, <2>1 DEF Started, Sequencer, Running, Initialise, IdleRefresh, IdleWait,
           IdleGrantWrite, IdleGrantRead, Idle, Dispatch, PreXfer, CountDown, Activate,
           RasToCas, Write, WriteRecovery, Read, ReadDrain, PreRefresh, RefreshWait, xferVars
<1>3. /\ rd_total' = RdTotal(p, want[p]) /\ xfer' = Aligned(want[p], rd_total')
      /\ rd_issued' = 0 /\ cap_buf' = <<>>
  <2>1. grant' = p BY DEF InFlight
  <2> QED BY <1>1, <1>2, <2>1 DEF IdleGrantRead
<1>4. \A i \in 0 .. 3 : cl_pipe'[i] = 0
  <2>1. \A i \in 0 .. 3 : cl_pipe[i] = 0 BY <1>t DEF PipeInv, PipeEmpty
  <2> QED BY <1>c, <2>1 DEF Pipeline
<1>5. want[p] \in Request BY Parts DEF ClientType
<1>6. /\ xfer'.bank = want[p].bank /\ xfer'.row = want[p].row
      /\ xfer'.col = want[p].col - (want[p].col % rd_total')
  BY <1>3, <1>5 DEF Aligned, Request
<1>7. /\ Base(p)' = want[p].col - (want[p].col % rd_total')
      /\ Base(p)' \in 0 .. 7
  <2>1. want[p].col \in 0 .. 7 BY <1>5 DEF Request, Cols
  <2>2. rd_total' \in {1, 4, 8} BY <1>3 DEF RdTotal
  <2> QED BY <1>1, <2>1, <2>2, BurstLine DEF Base
<1>8. xfer'.col = (Base(p)' + rd_issued') % 8 BY <1>3, <1>6, <1>7
<1>9. cl_pipe'[0] = 0 /\ cl_pipe'[1] = 0 /\ cl_pipe'[2] = 0 /\ cl_pipe'[3] = 0 BY <1>4
<1>10. 1 .. Len(cap_buf') = {} BY <1>3
<1> QED BY <1>1, <1>3, <1>6, <1>8, <1>9, <1>10 DEF BurstInv

\* What an edge does to a burst in flight: only READ moves its address.
LEMMA BurstRegisters ==
    ASSUME IInv, Clock, NEW p \in Ports \ {WR}, InFlight(p)
    PROVE  /\ ready /\ rd_total' = rd_total /\ cap_buf' = Captured
           /\ IF state = "RD"
              THEN /\ rd_issued' = rd_issued + 1 /\ rd_issued < rd_total
                   /\ xfer' = [xfer EXCEPT !.col = (xfer.col + 1) % 8]
                   /\ cmd'.op = "READ" /\ cmd'.at = xfer
              ELSE UNCHANGED <<rd_issued, xfer>>
<1>t. SeqType /\ PipeInv BY Parts
<1>c. Sequencer BY DEF Clock
<1>1. state \in Started \cup {"RD", "RDW"} /\ ready BY <1>t DEF InFlight, PipeInv, Started
<1>2. ~Initialise /\ (state = "RD" => rd_issued < rd_total)
  BY <1>t, <1>1 DEF Initialise, PipeInv
<1>3. CASE state = "RD"
  <2>1. Read BY <1>c, <1>2, <1>3 DEF Sequencer, IdleRefresh, IdleWait,
           IdleGrantWrite, IdleGrantRead, Idle, Dispatch, PreXfer, CountDown, Activate,
           RasToCas, Write, WriteRecovery, ReadDrain, PreRefresh, RefreshWait
  <2> QED BY <1>1, <1>2, <1>3, <2>1, Pins DEF Read
<1>4. CASE state # "RD"
  <2>1. Dispatch \/ PreXfer \/ Activate \/ RasToCas \/ ReadDrain
    BY <1>c, <1>1, <1>2, <1>4 DEF Started, Sequencer, IdleRefresh, IdleWait,
           IdleGrantWrite, IdleGrantRead, Idle, CountDown, Write, WriteRecovery,
           Read, PreRefresh, RefreshWait
  <2> QED BY <1>1, <1>4, <2>1 DEF Dispatch, PreXfer, CountDown, Activate, RasToCas,
           ReadDrain, NoBurst, xferVars
<1> QED BY <1>3, <1>4

\* The words move one stage on, and the cells they came from do not change.
LEMMA BurstMoves ==
    ASSUME IInv, TimingInv, Clock, DataInv, NEW p \in Ports \ {WR}, InFlight(p), InFlight(p)'
    PROVE  BurstInv(p)'
<1>t. SeqType /\ PipeInv /\ ChipType /\ PortType BY Parts
<1>c. Requesters /\ Sequencer /\ Pipeline /\ Chip BY DEF Clock
<1>b. BurstInv(p) BY DEF DataInv
<1>k. want'[p] = want[p] BY <1>c, FlightOwed, Keeps
<1>r. /\ ready /\ rd_total' = rd_total /\ cap_buf' = Captured
      /\ IF state = "RD"
         THEN /\ rd_issued' = rd_issued + 1 /\ rd_issued < rd_total
              /\ xfer' = [xfer EXCEPT !.col = (xfer.col + 1) % 8]
              /\ cmd'.op = "READ" /\ cmd'.at = xfer
         ELSE UNCHANGED <<rd_issued, xfer>>
  BY BurstRegisters
<1>m. mem' = mem BY CellsRest DEF DataInv
<1>B. Base(p)' = Base(p) /\ \A n : CellOf(p, n)' = CellOf(p, n)
  BY <1>k, <1>r DEF Base, CellOf
<1>T. /\ rd_total \in {1, 4, 8} /\ Base(p) \in 0 .. 8 - rd_total
      /\ \A k \in 0 .. rd_total - 1 : (Base(p) + k) % 8 = Base(p) + k
  BY <1>b, BaseType DEF BurstInv
<1>l. /\ cl_pipe[0] \in {0, 1} /\ cl_pipe[1] \in {0, 1} /\ cl_pipe[2] \in {0, 1}
      /\ cl_pipe[3] \in {0, 1}
      /\ cl_pipe'[0] = (IF state = "RD" THEN 1 ELSE 0)
      /\ cl_pipe'[1] = cl_pipe[0] /\ cl_pipe'[2] = cl_pipe[1] /\ cl_pipe'[3] = cl_pipe[2]
  BY <1>t, <1>c, <1>r DEF ChipType, Pipeline
<1>n. /\ Len(cap_buf) \in Nat /\ Len(cap_buf') = Len(cap_buf) + cl_pipe[3]
      /\ \A i \in 1 .. Len(cap_buf) : cap_buf'[i] = cap_buf[i]
      /\ cl_pipe[3] = 1 => cap_buf'[At3] = dq_in
  <2>1. cap_buf \in Seq(Word \cup {NoWord}) BY <1>t DEF SeqType
  <2>2. CASE cl_pipe[3] = 1
    <3>1. cap_buf' = Append(cap_buf, dq_in) BY <1>r, <2>2 DEF Captured, Capture
    <3>2. dq_in \in Word \cup {NoWord} BY <1>t DEF ChipType
    <3>3. /\ Len(cap_buf') = Len(cap_buf) + 1 /\ cap_buf'[Len(cap_buf) + 1] = dq_in
          /\ \A i \in 1 .. Len(cap_buf) : cap_buf'[i] = cap_buf[i]
      BY <2>1, <3>1, <3>2
    <3> QED BY <2>1, <2>2, <3>3 DEF At3
  <2>3. CASE cl_pipe[3] = 0
    <3>1. cap_buf' = cap_buf BY <1>r, <2>3 DEF Captured, Capture
    <3> QED BY <2>1, <2>3, <3>1
  <2> QED BY <1>l, <2>2, <2>3
<1>a. /\ At3 \in Int /\ At2 \in Int /\ At1 \in Int /\ At0 \in Int
      /\ At3' = At2 /\ At2' = At1 /\ At1' = At0
      /\ At0' = At0 + cl_pipe[0]
  <2>1. /\ cl_pipe[0] \in Int /\ cl_pipe[1] \in Int /\ cl_pipe[2] \in Int /\ cl_pipe[3] \in Int
    BY <1>l
  <2>2. At3 \in Int /\ At3' = At2 BY <1>n, <2>1 DEF At3, At2
  <2>3. At2 \in Int /\ At2' = At1 BY <1>l, <2>1, <2>2 DEF At2, At1
  <2>4. At1 \in Int /\ At1' = At0 BY <1>l, <2>1, <2>3 DEF At1, At0
  <2>5. At0 \in Int /\ At0' = At0 + cl_pipe[0] BY <1>l, <2>1, <2>4 DEF At0
  <2> QED BY <2>2, <2>3, <2>4, <2>5
<1>1. xfer'.bank = want'[p].bank /\ xfer'.row = want'[p].row
  <2>1. xfer \in Request BY <1>t DEF SeqType
  <2> QED BY <1>k, <1>r, <1>b, <2>1 DEF BurstInv, Request
<1>2. xfer'.col = (Base(p)' + rd_issued') % 8
  <2>1. xfer \in Request /\ rd_issued \in 0 .. 8 BY <1>t DEF SeqType
  <2>2. CASE state = "RD"
    <3>1. rd_issued \in 0 .. rd_total - 1 BY <1>r, <1>T, <2>1, <2>2
    <3>2. xfer.col = Base(p) + rd_issued BY <1>b, <1>T, <3>1 DEF BurstInv
    <3>3. xfer'.col = (xfer.col + 1) % 8 BY <1>r, <2>1, <2>2 DEF Request
    <3>4. Base(p) + rd_issued + 1 = Base(p) + (rd_issued + 1) BY <1>T, <2>1
    <3> QED BY <1>B, <1>r, <2>2, <3>2, <3>3, <3>4
  <2>3. CASE state # "RD" BY <1>b, <1>B, <1>r, <2>3 DEF BurstInv
  <2> QED BY <2>2, <2>3
<1>3. \A i \in 1 .. Len(cap_buf') : cap_buf'[i] = mem'[CellOf(p, i)']
  <2>1. SUFFICES ASSUME NEW i \in 1 .. Len(cap_buf') PROVE cap_buf'[i] = mem[CellOf(p, i)]
    BY <1>m, <1>B
  <2>2. CASE i \in 1 .. Len(cap_buf) BY <1>b, <1>n, <2>2 DEF BurstInv
  <2>3. CASE i \notin 1 .. Len(cap_buf)
    <3>1. i = At3 /\ cl_pipe[3] = 1 BY <1>l, <1>n, <2>1, <2>3 DEF At3
    <3> QED BY <1>b, <1>n, <3>1 DEF BurstInv
  <2> QED BY <2>2, <2>3
<1>4. cl_pipe'[3] = 1 => dq_in' = mem'[CellOf(p, At3)']
  <2>1. cl_pipe[2] = 1 => dq_in' = mem[CellOf(p, At2)] BY <1>b, <1>c DEF BurstInv, Pipeline
  <2>2. CellOf(p, At3)' = CellOf(p, At2) BY <1>a, <1>B, <1>k DEF CellOf
  <2> QED BY <1>l, <1>m, <2>1, <2>2
<1>5. cl_pipe'[2] = 1 => dq_p2' = mem'[CellOf(p, At2)']
  <2>1. cl_pipe[1] = 1 => dq_p2' = mem[CellOf(p, At1)] BY <1>b, <1>c DEF BurstInv, Chip
  <2>2. CellOf(p, At2)' = CellOf(p, At1) BY <1>a, <1>B, <1>k DEF CellOf
  <2> QED BY <1>l, <1>m, <2>1, <2>2
<1>6. cl_pipe'[1] = 1 => dq_p1' = mem'[CellOf(p, At1)']
  <2>1. SUFFICES ASSUME cl_pipe[0] = 1 PROVE dq_p1' = mem[CellOf(p, At0)]
    <3>1. CellOf(p, At1)' = CellOf(p, At0) BY <1>a, <1>B, <1>k DEF CellOf
    <3> QED BY <1>l, <1>m, <3>1
  <2>2. cmd.op = "READ" /\ <<cmd.at.bank, cmd.at.row, cmd.at.col>> = CellOf(p, At0)
    BY <1>b, <2>1 DEF BurstInv
  <2>3. open[cmd.at.bank] = cmd.at.row /\ open[cmd.at.bank] # NoRow
    BY <2>2 DEF TimingInv, CommandsLegal, LegalCommand
  <2> QED BY <1>c, <2>2, <2>3 DEF Chip, ChipRead, Cell
<1>7. cl_pipe'[0] = 1 =>
          cmd'.op = "READ" /\ <<cmd'.at.bank, cmd'.at.row, cmd'.at.col>> = CellOf(p, At0)'
  <2>1. SUFFICES ASSUME state = "RD"
                 PROVE  /\ cmd'.op = "READ"
                        /\ <<cmd'.at.bank, cmd'.at.row, cmd'.at.col>> = CellOf(p, At0)'
    BY <1>l
  <2>2. cmd'.op = "READ" /\ cmd'.at = xfer /\ rd_issued < rd_total BY <1>r, <2>1
  <2>3. Len(cap_buf) + PipeSum = rd_issued /\ rd_issued \in 0 .. 8
    BY <1>t, <2>1 DEF PipeInv, SeqType
  <2>4. At0' = rd_issued + 1
    <3>1. At0 + cl_pipe[0] = Len(cap_buf) + PipeSum + 1
      <4>1. PICK n \in Int : n = Len(cap_buf) BY <1>n
      <4>2. At0 = n + 1 + cl_pipe[3] + cl_pipe[2] + cl_pipe[1]
        BY <4>1 DEF At0, At1, At2, At3
      <4>3. At0 + cl_pipe[0] = n + PipeSum + 1 BY <1>l, <4>2 DEF PipeSum
      <4> QED BY <4>1, <4>3
    <3> QED BY <1>a, <2>3, <3>1
  <2>5. xfer.col = Base(p) + rd_issued
    <3>1. rd_issued \in 0 .. rd_total - 1 BY <1>T, <2>2, <2>3
    <3> QED BY <1>b, <1>T, <3>1 DEF BurstInv
  <2>6. CellOf(p, At0)' = <<want[p].bank, want[p].row, Base(p) + (rd_issued + 1) - 1>>
    BY <1>k, <1>B, <2>4 DEF CellOf
  <2>7. Base(p) + (rd_issued + 1) - 1 = xfer.col BY <1>T, <2>3, <2>5
  <2> QED BY <1>b, <2>2, <2>6, <2>7 DEF BurstInv
<1>8. rd_total' = RdTotal(p, want'[p]) BY <1>b, <1>k, <1>r DEF BurstInv
<1> QED BY <1>1, <1>2, <1>3, <1>4, <1>5, <1>6, <1>7, <1>8 DEF BurstInv

LEMMA DataStep ==
    ASSUME IInv, TimingInv, DataInv, [Next]_vars
    PROVE  DataInv'
<1>1. CASE Clock
  <2>t. SeqType /\ PipeInv /\ ChipType /\ PortType BY Parts
  <2>1. ASSUME NEW p \in Ports PROVE PayloadInv(p)'
    BY <1>1, PayloadStep DEF DataInv
  <2>2. ASSUME NEW p \in Ports \ {WR}, InFlight(p)' PROVE BurstInv(p)'
    <3>1. InFlight(p) \/ (state = "IDLE" /\ pend[p])
      BY <1>1, <2>t, <2>2, FlightStep DEF Clock
    <3> QED BY <1>1, <2>2, <3>1, BurstStarts, BurstMoves
  <2> QED BY <1>1, <2>1, <2>2, StoreStep DEF DataInv
<1>2. CASE PllLoss
  <2>1. /\ \A p \in Ports : req'[p] = FALSE /\ pend'[p] = FALSE
        /\ state' = "IDLE" /\ cmd' = Cmd("NOP")
    BY <1>2 DEF PllLoss, ResetMailboxes, ResetSequencer
  <2>2. cmd'.op # "WRITE" BY <2>1, Pins
  <2> QED BY <2>1, <2>2
       DEF DataInv, PayloadInv, StoreInv, Rises, Latched, InFlight, Started
<1>3. CASE UNCHANGED vars
  BY <1>3 DEF vars, clientVars, portVars, refreshVars, rowVars, xferVars, seqVars, pipeVars,
       chipVars, DataInv, PayloadInv, StoreInv, BurstInv, Rises, Latched, AckRises, InFlight,
       PipeEmpty, CellOf, Base, At0, At1, At2, At3
<1> QED BY <1>1, <1>2, <1>3 DEF Next

LEMMA DataInit == ASSUME Init PROVE DataInv
<1>1. /\ \A p \in Ports : req[p] = FALSE /\ pend[p] = FALSE
      /\ state = "IDLE" /\ cmd = Cmd("NOP")
  BY DEF Init
<1>2. cmd.op # "WRITE" BY <1>1, Pins
<1> QED BY <1>1, <1>2 DEF DataInv, PayloadInv, StoreInv, Rises, Latched, InFlight, Started

THEOREM Consistent == Spec => [](IInv /\ TimingInv /\ DataInv)
<1>1. Init => IInv /\ TimingInv /\ DataInv BY InitInv, TimingInit, DataInit
<1>2. IInv /\ TimingInv /\ DataInv /\ [Next]_vars => (IInv /\ TimingInv /\ DataInv)'
  BY ResetStep, ClockStep, StutterStep, TimingStep, DataStep DEF Next
<1> QED BY <1>1, <1>2, PTL DEF Spec

-----------------------------------------------------------------------------
(***************************************************************************)
(* The refinement.                                                         *)
(***************************************************************************)

\* An edge that acknowledges p finds it owed and leaves it waiting to collect.
LEMMA Acknowledged ==
    ASSUME IInv, Clock, NEW p \in Ports, p \in Delivers
    PROVE  /\ Delivers = {p} /\ InFlight(p) /\ Owed(p)
           /\ busy'[p] /\ served'[p] = 1 /\ want'[p] = want[p]
<1>t. SeqType /\ PipeInv /\ ChipType /\ PortType BY Parts
<1>c. Requesters /\ Sequencer /\ Pipeline /\ Acknowledge BY DEF Clock
<1>1. Delivers = {p} /\ InFlight(p) BY <1>t, <1>c, DeliverStep
<1>2. Owed(p) BY <1>1, FlightOwed
<1>3. want'[p] = want[p] /\ busy'[p] /\ ~Collects(p) BY <1>c, <1>2, Keeps
<1>4. served'[p] = 1
  BY <1>c, <1>2, <1>3 DEF Acknowledge, Owed
<1> QED BY <1>1, <1>2, <1>3, <1>4

\* A write reaches its cell on the edge that acknowledges it, and no other.
LEMMA StoresThen ==
    ASSUME IInv, TimingInv, DataInv
    PROVE  /\ cmd.op = "WRITE" <=> WR \in Delivers
           /\ cmd.op = "WRITE" =>
                  WR \in Ports /\ InFlight(WR) /\ Delivers = {WR} /\ cmd.at = want[WR]
<1>1. PipeInv /\ SeqType BY Parts
<1>2. ASSUME cmd.op = "WRITE" PROVE WR \in Ports /\ InFlight(WR) /\ Delivers = {WR}
  <2>1. state = "WRRC" /\ cnt = 2 BY <1>2 DEF DataInv, StoreInv
  <2>2. ready /\ grant = WR /\ WR \in Ports /\ PipeEmpty BY <1>1, <2>1 DEF PipeInv, SeqType
  <2>3. ~LastWord BY <2>2 DEF LastWord, Capture, PipeEmpty
  <2> QED BY <2>1, <2>2, <2>3 DEF WriteDone, InFlight, Delivers
<1>3. ASSUME WR \in Delivers PROVE cmd.op = "WRITE"
  <2>1. WriteDone
    <3>1. LastWord => grant # WR
      BY <1>1, Parts DEF LastWord, Capture, PipeInv, PipeEmpty
    <3> QED BY <1>3, <3>1 DEF Delivers
  <2> QED BY <2>1 DEF WriteDone, DataInv, StoreInv
<1> QED BY <1>2, <1>3 DEF DataInv, StoreInv

\* The memory's view of a port.
Status(p) == IF ~busy[p] THEN "idle" ELSE IF served[p] = 0 THEN "waiting" ELSE "done"
Result(p) == IF Answered(p) /\ p # WR THEN dout[p] ELSE <<>>
ReadNow(p) == [i \in 1 .. Len(LineOf(p, want[p])) |-> mem[LineOf(p, want[p])[i]]]

LEMMA Mapped ==
    ASSUME NEW p \in Ports
    PROVE  /\ Memory!Stay(p) <=> /\ Status(p)' = Status(p) /\ want'[p] = want[p]
                                 /\ Result(p)' = Result(p)
           /\ Memory!Ask(p) <=> /\ Status(p) \in {"idle", "done"} /\ Status(p)' = "waiting"
                                /\ want'[p] \in Requests[p] /\ Result(p)' = <<>>
           /\ Memory!Take(p) <=> /\ Status(p) = "done" /\ Status(p)' = "idle"
                                 /\ want'[p] = want[p] /\ Result(p)' = <<>>
           /\ Memory!Answer(p) <=>
                  /\ Status(p) = "waiting" /\ Status(p)' = "done" /\ want'[p] = want[p]
                  /\ Result(p)' = IF p \in Ports \cap {WR} THEN <<>> ELSE ReadNow(p)
BY DEF Memory!Stay, Memory!Ask, Memory!Take, Memory!Answer, Status, Result, ReadNow

LEMMA MemoryInit == ASSUME Init PROVE Memory!MemInit
<1>1. want \in [Ports -> Request] BY NoRequestType DEF Init
<1>2. \A p \in Ports : busy[p] = FALSE BY DEF Init
<1> QED BY <1>1, <1>2 DEF Init, Memory!MemInit, Answered

\* A port that is not answered stays as it is, asks, or takes its answer.
LEMMA OthersStep ==
    ASSUME IInv, Clock, NEW p \in Ports, p \notin Delivers
    PROVE  Memory!Stay(p) \/ Memory!Ask(p) \/ Memory!Take(p)
<1>c. Requesters /\ Acknowledge BY DEF Clock
<1>p. served[p] \in {0, 1} /\ (served[p] = 0 => busy[p]) BY DEF IInv, PortInv
<1>b. busy[p] \in BOOLEAN BY Parts DEF ClientType
<1>s. served'[p] = (IF busy'[p] /\ (busy[p] => Collects(p)) THEN 0 ELSE served[p])
  BY <1>c, <1>p DEF Acknowledge
<1>k. Collects(p) => served[p] = 1
  BY DEF IInv, PortInv, Owed, Collects, Samples
<1>1. CASE /\ CanStart(p) /\ req'[p] /\ busy'[p]
           /\ bus'[p] = want'[p] /\ want'[p] \in Requests[p]
  <2>1. busy[p] => Collects(p) BY <1>1 DEF CanStart, Collects
  <2>2. served'[p] = 0 BY <1>1, <1>s, <2>1
  <2>3. Status(p) \in {"idle", "done"} BY <1>k, <2>1 DEF Status
  <2>4. Status(p)' = "waiting" /\ Result(p)' = <<>> BY <1>1, <2>2 DEF Status, Result, Answered
  <2> QED BY <1>1, <2>3, <2>4, Mapped
<1>2. CASE /\ want'[p] = want[p] /\ (req'[p] => req[p])
           /\ busy'[p] = (busy[p] /\ ~Collects(p))
  <2>1. CASE Collects(p)
    <3>1. busy[p] /\ ~busy'[p] BY <1>2, <2>1 DEF Collects
    <3>2. Status(p) = "done" /\ Status(p)' = "idle" /\ Result(p)' = <<>>
      BY <1>k, <2>1, <3>1 DEF Status, Result, Answered
    <3> QED BY <1>2, <3>2, Mapped
  <2>2. CASE ~Collects(p)
    <3>1. busy'[p] = busy[p] /\ served'[p] = served[p] BY <1>2, <1>s, <1>b, <2>2
    <3>2. Status(p)' = Status(p) BY <3>1 DEF Status
    <3>3. p # WR => dout'[p] = dout[p]
      <4>1. ~(LastWord /\ p = grant) BY DEF Delivers
      <4> QED BY <1>c, <4>1 DEF Acknowledge
    <3>4. Result(p)' = Result(p) BY <3>1, <3>3 DEF Result, Answered
    <3> QED BY <1>2, <3>2, <3>4, Mapped
  <2> QED BY <2>1, <2>2
<1> QED BY <1>1, <1>2, <1>c, Asks, Parts

\* The answer to a read is its line as the cells are on that edge.
LEMMA ReadsNow ==
    ASSUME IInv, TimingInv, DataInv, Clock, NEW p \in Ports \ {WR}, p \in Delivers
    PROVE  dout'[p] = ReadNow(p)
<1>t. SeqType /\ PipeInv /\ ChipType BY Parts
<1>f. InFlight(p) /\ Owed(p) BY Acknowledged
<1>b. BurstInv(p) BY <1>f DEF DataInv
<1>T. rd_total \in {1, 4, 8} BY <1>b, BaseType DEF BurstInv
<1>1. LastWord /\ p = grant BY DEF Delivers
<1>2. dout'[p] = Append(cap_buf, dq_in) /\ Len(cap_buf) + 1 = rd_total /\ cl_pipe[3] = 1
  BY <1>1 DEF Clock, Acknowledge, LastWord, Captured, Capture
<1>3. /\ Append(cap_buf, dq_in) \in [1 .. rd_total -> Word \cup {NoWord}]
      /\ \A i \in 1 .. Len(cap_buf) : Append(cap_buf, dq_in)[i] = cap_buf[i]
      /\ Append(cap_buf, dq_in)[rd_total] = dq_in
  <2>1. cap_buf \in Seq(Word \cup {NoWord}) /\ dq_in \in Word \cup {NoWord}
    BY <1>t DEF SeqType, ChipType
  <2>2. /\ Append(cap_buf, dq_in) \in Seq(Word \cup {NoWord})
        /\ Len(Append(cap_buf, dq_in)) = Len(cap_buf) + 1
        /\ \A i \in 1 .. Len(cap_buf) : Append(cap_buf, dq_in)[i] = cap_buf[i]
        /\ Append(cap_buf, dq_in)[Len(cap_buf) + 1] = dq_in
    BY <2>1
  <2>3. \A s \in Seq(Word \cup {NoWord}) : s \in [1 .. Len(s) -> Word \cup {NoWord}]
    OBVIOUS
  <2> QED BY <1>2, <2>2, <2>3
<1>4. \A i \in 1 .. rd_total : Append(cap_buf, dq_in)[i] = mem[CellOf(p, i)]
  <2>1. SUFFICES ASSUME NEW i \in 1 .. rd_total
                 PROVE  Append(cap_buf, dq_in)[i] = mem[CellOf(p, i)]
    OBVIOUS
  <2>2. Len(cap_buf) \in Nat BY <1>t DEF SeqType
  <2>3. CASE i = rd_total
    <3>1. dq_in = mem[CellOf(p, At3)] /\ At3 = rd_total BY <1>b, <1>2 DEF BurstInv, At3
    <3> QED BY <1>3, <2>3, <3>1
  <2>4. CASE i # rd_total
    <3>1. i \in 1 .. Len(cap_buf) BY <1>2, <1>T, <2>2, <2>4
    <3> QED BY <1>3, <1>b, <3>1 DEF BurstInv
  <2> QED BY <2>3, <2>4
<1>5. LineOf(p, want[p]) = [i \in 1 .. rd_total |-> CellOf(p, i)]
  BY <1>b DEF BurstInv, LineOf, CellOf, Base
<1>6. Len(LineOf(p, want[p])) = rd_total /\ \A i \in 1 .. rd_total : LineOf(p, want[p])[i] = CellOf(p, i)
  BY <1>5, <1>T
<1>7. ReadNow(p) = [i \in 1 .. rd_total |-> mem[CellOf(p, i)]] BY <1>6 DEF ReadNow
<1> QED BY <1>2, <1>3, <1>4, <1>7

\* The answered port is answered as the memory answers it.
LEMMA AnswerStep ==
    ASSUME IInv, TimingInv, DataInv, Clock, NEW p \in Ports, p \in Delivers
    PROVE  Memory!Answer(p)
<1>1. Owed(p) /\ busy'[p] /\ served'[p] = 1 /\ want'[p] = want[p] BY Acknowledged
<1>2. Status(p) = "waiting" /\ Status(p)' = "done" BY <1>1 DEF Status, Owed
<1>3. Result(p)' = IF p \in Ports \cap {WR} THEN <<>> ELSE ReadNow(p)
  BY <1>1, ReadsNow DEF Result, Answered
<1> QED BY <1>1, <1>2, <1>3, Mapped

\* What a WRITE on the pins leaves in the cells is what its requester asked for.
LEMMA StoredCells ==
    ASSUME IInv, TimingInv, DataInv, cmd.op = "WRITE"
    PROVE  /\ WR \in Ports /\ Status(WR) = "waiting"
           /\ ChipMem(mem, open, cmd) = Memory!Stored(WR)
<1>1. WR \in Ports /\ InFlight(WR) /\ cmd.at = want[WR] BY StoresThen
<1>2. Status(WR) = "waiting" BY <1>1, FlightOwed DEF Owed, Status
<1>3. open[cmd.at.bank] = cmd.at.row /\ open[cmd.at.bank] # NoRow
  BY DEF TimingInv, CommandsLegal, LegalCommand
<1> DEFINE r == want[WR]
           cell == <<r.bank, r.row, r.col>>
<1>4. r \in Request /\ mem \in [Cells -> Word] BY <1>1, Parts DEF ClientType, ChipType
<1>5. cell \in Cells BY <1>4 DEF Request, Cells
<1>6. ChipMem(mem, open, cmd) = [mem EXCEPT ![cell] = MergeLanes(@, r)]
  BY <1>1, <1>3 DEF ChipMem, Cell, MergeLanes
<1>7. LineOf(WR, r) = <<cell>>
  <2>1. r.col \in 0 .. 7 BY <1>4 DEF Request, Cols
  <2>2. r.col - (r.col % 1) + 1 - 1 = r.col BY <2>1
  <2>3. LineOf(WR, r) = [i \in 1 .. 1 |-> <<r.bank, r.row, r.col - (r.col % 1) + i - 1>>]
    BY DEF LineOf
  <2> QED BY <2>2, <2>3
<1>8. \A c : (\E i \in 1 .. Len(LineOf(WR, r)) : LineOf(WR, r)[i] = c) <=> c = cell
  BY <1>7
<1>9. Memory!Stored(WR) = [c \in Cells |-> IF c = cell THEN MergeLanes(mem[c], r) ELSE mem[c]]
  BY <1>8 DEF Memory!Stored
<1> QED BY <1>1, <1>2, <1>4, <1>5, <1>6, <1>9

LEMMA EdgeStep ==
    ASSUME IInv, TimingInv, DataInv, Clock
    PROVE  Memory!Step
<1>t. SeqType /\ PipeInv /\ ChipType /\ PortType BY Parts
<1>1. \A p \in Ports \ Delivers : Memory!Stay(p) \/ Memory!Ask(p) \/ Memory!Take(p)
  BY OthersStep
<1>2. \A p \in Delivers : p \in Ports /\ Delivers = {p}
  BY <1>t, DeliverStep DEF Clock
<1>3. \A p \in Delivers : Memory!Answer(p) BY <1>2, AnswerStep
<1>4. Delivers \in {{}} \cup {{p} : p \in Ports} BY <1>2
<1>5. mem' = IF Delivers \cap (Ports \cap {WR}) = {} THEN mem
             ELSE Memory!Stored(CHOOSE p \in Delivers : TRUE)
  <2>1. mem' = ChipMem(mem, open, cmd) BY DEF Clock, Chip
  <2>2. CASE cmd.op = "WRITE"
    <3>1. WR \in Ports /\ Delivers = {WR} BY <2>2, StoresThen
    <3>2. (CHOOSE p \in Delivers : TRUE) = WR BY <3>1
    <3> QED BY <2>1, <2>2, <3>1, <3>2, StoredCells
  <2>3. CASE cmd.op # "WRITE"
    <3>1. WR \notin Delivers BY <2>3, StoresThen
    <3> QED BY <2>1, <2>3, <3>1 DEF ChipMem
  <2> QED BY <2>2, <2>3
<1> QED BY <1>1, <1>3, <1>4, <1>5 DEF Memory!Step

\* A PLL loss is the memory forgetting; a write on the pins still lands.
LEMMA ForgetStep ==
    ASSUME IInv, TimingInv, DataInv, PllLoss
    PROVE  Memory!Forget
<1>1. \A p \in Ports : busy'[p] = FALSE BY DEF PllLoss
<1>2. mem' = ChipMem(mem, open, cmd) BY DEF PllLoss
<1>3. \/ mem' = mem
      \/ WR \in Ports \cap {WR} /\ Status(WR) = "waiting" /\ mem' = Memory!Stored(WR)
  <2>1. CASE cmd.op = "WRITE" BY <1>2, <2>1, StoredCells
  <2>2. CASE cmd.op # "WRITE" BY <1>2, <2>2 DEF ChipMem
  <2> QED BY <2>1, <2>2
<1> QED BY <1>1, <1>3 DEF Memory!Forget, Status, Answered

\* Whatever the arbitration, the refreshes, the row handling, the write that
\* keeps its row and the four stages of the capture pipeline do, the ports of
\* rtl/mem/sdram.sv see a memory of atomic accesses: a read answers the cells
\* of its own line as they are at one instant, a write changes its own cell
\* and lanes, and power loss may at most let the write on its way land.
THEOREM AtomicMemory == Spec => ImplementsMemory
<1>1. Init => Memory!MemInit BY MemoryInit
<1>2. IInv /\ TimingInv /\ DataInv /\ [Next]_vars => [Memory!MemNext]_(Memory!memVars)
  <2>1. CASE Clock BY <2>1, EdgeStep DEF Memory!MemNext
  <2>2. CASE PllLoss BY <2>2, ForgetStep DEF Memory!MemNext
  <2>3. CASE UNCHANGED vars
    BY <2>3 DEF vars, clientVars, portVars, chipVars, Memory!memVars, Answered
  <2> QED BY <2>1, <2>2, <2>3 DEF Next
<1> QED BY <1>1, <1>2, Consistent, PTL DEF Spec, ImplementsMemory, Memory!MemSpec
=============================================================================
