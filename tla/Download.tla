------------------------------ MODULE Download ------------------------------
(***************************************************************************)
(* The path of a download, Arcade-SegaSystem32.sv: the HPS stream, the ROM *)
(* loader, the write multiplexer it shares with the RF5C68's wave port,    *)
(* the write port of the SDRAM controller and the reset the boot gate      *)
(* holds.  A step is one edge of clk_sys, on which every part moves.       *)
(*                                                                         *)
(* hps_io presents a word one clock after it decided to, with ioctl_wait   *)
(* low.  Region transfers come before the index-0 one, as the MRA orders   *)
(* them; the EEPROM image (index 2 or 3) may come at any time.             *)
(***************************************************************************)
EXTENDS RomLoader, WriteMux, FiniteSets

CONSTANTS
    Data,            \* data of ROM words and of wave writes
    MaxWords,        \* ROM words the host sends before it stops
    MaxTransfers,    \* transfers the host starts
    MaxPllLosses

DownloadAssumption ==
    /\ None \notin RomWords \cup Data \cup {Cleared} /\ NoWord = None
    /\ None \notin [addr : RomWords \cup Aperture, data : Data \cup {Cleared}]
    /\ None \notin [zero : BOOLEAN, first : BOOLEAN, data : Data, addr : RomWords \cup {None}]
    /\ WaveWords \in Nat \ {0}
    /\ MaxWords \in Nat /\ MaxTransfers \in Nat /\ MaxPllLosses \in Nat

VARIABLES
    ioctl_download, index,   \* "zero", "region" or "eeprom"
    started,                 \* the first word of the transfer is out
    strobe,                  \* the word ioctl_wr presents, or None
    mem_ready,               \* sdram_ready_sys
    wave_wr_req, wave_wr_word,
    latched, pending, d_ack, \* the controller's write port
    memory,
    expected,                \* what memory should hold, word by word
    words, transfers, losses

host == <<ioctl_download, index, started, strobe>>
wave == <<wave_wr_req, wave_wr_word>>
port == <<latched, pending, d_ack, memory>>
vars == <<loader, mux, host, mem_ready, wave, port, expected, words, transfers, losses>>

Words == RomWords \cup Aperture

\* Everything but the loader and the multiplexer is held in reset.
reset == ioctl_download \/ ~rom_loaded \/ ~mem_ready

req  == [c \in {0, 1} |-> IF c = 0 THEN sdr_wr_req ELSE wave_wr_req]
word == [c \in {0, 1} |-> IF c = 0 THEN sdr_wr_word ELSE wave_wr_word]

Init ==
    /\ LoaderInit /\ MuxInit
    /\ ioctl_download = FALSE /\ index = "region" /\ started = FALSE /\ strobe = None
    /\ mem_ready = FALSE
    /\ wave_wr_req = FALSE /\ wave_wr_word = NoWord
    /\ latched = FALSE /\ pending = NoWord /\ d_ack = FALSE
    /\ memory \in [Words -> Data] /\ expected = memory
    /\ words = 0 /\ transfers = 0 /\ losses = 0

-----------------------------------------------------------------------------
\* The host.  A transfer is raised, sends words and is lowered again once the
\* last word has been presented.  A command takes the host far longer than a
\* write takes the memory, so a transfer outlasts a wave write under way.
Stream(i) ==
    [zero : {i = "zero"}, first : {~started}, data : Data,
     addr : IF i = "eeprom" THEN {None}
            ELSE IF i = "zero" /\ ~started THEN {None} ELSE RomWords]

HostIdles == strobe' = None /\ UNCHANGED <<ioctl_download, index, started, words, transfers>>

HostRaises ==
    /\ ~ioctl_download /\ strobe = None /\ transfers < MaxTransfers
    /\ \E i \in {"zero", "region", "eeprom"} :
           /\ i = "region" => ~index0_seen /\ ~rom_loaded
           /\ index' = i
    /\ ioctl_download' = TRUE /\ started' = FALSE /\ strobe' = None
    /\ transfers' = transfers + 1
    /\ UNCHANGED words

HostSends ==
    /\ ioctl_download /\ strobe = None /\ ~ioctl_wait(mem_ready)
    /\ words < MaxWords /\ words' = words + 1
    /\ strobe' \in Stream(index)
    /\ started' = TRUE
    /\ UNCHANGED <<ioctl_download, index, transfers>>

HostLowers ==
    /\ ioctl_download /\ started /\ strobe = None
    /\ ~wave_wr_req /\ ~(active /\ owner = 1)
    /\ ioctl_download' = FALSE /\ strobe' = None
    /\ UNCHANGED <<index, started, words, transfers>>

Host == HostIdles \/ HostRaises \/ HostSends \/ HostLowers

\* The wave port: a request is held until its acknowledge and re-armed only
\* after it.
WaveStep ==
    IF reset THEN wave_wr_req' = FALSE /\ wave_wr_word' = NoWord
    ELSE IF wave_wr_req THEN wave_wr_req' = (~c1_ack(d_ack)) /\ UNCHANGED wave_wr_word
    ELSE \/ UNCHANGED wave
         \/ /\ ~c1_ack(d_ack)
            /\ wave_wr_req' = TRUE
            /\ wave_wr_word' \in [addr : Aperture, data : Data]

\* Two clk_ram cycles of acknowledge hold exactly one edge of clk_sys.
AckNext(served) == d_ack' = served

\* The write port: a rising edge of the request is latched with its word and
\* served some cycles later.
PortStep ==
    /\ latched' = d_req
    /\ \E served \in {FALSE, pending # NoWord} :
           /\ AckNext(served)
           /\ pending' = IF d_req /\ ~latched THEN d_word ELSE IF served THEN NoWord ELSE pending
           /\ memory' = IF served THEN [memory EXCEPT ![pending.addr] = pending.data] ELSE memory

\* What the stream, the clear and the sound program asked for.
ExpectedNext ==
    expected' =
        IF strobe # None /\ strobe.addr # None
            THEN [expected EXCEPT ![strobe.addr] = strobe.data]
        ELSE IF wave_clear_active' /\ ~wave_clear_active
            THEN [a \in Words |-> IF a \in Aperture THEN Cleared ELSE expected[a]]
        ELSE IF wave_wr_req' /\ ~wave_wr_req
            THEN [expected EXCEPT ![wave_wr_word'.addr] = wave_wr_word'.data]
        ELSE expected

Clock ==
    /\ LoaderStep(strobe, c0_ack(d_ack), mem_ready, ioctl_download)
    /\ MuxStep(req, word, d_ack)
    /\ Host /\ WaveStep /\ PortStep /\ ExpectedNext
    /\ \/ UNCHANGED mem_ready
       \/ ~mem_ready /\ mem_ready' = TRUE
    /\ UNCHANGED losses

\* Losing the PLL resets every part and forgets the transfer; the host gives
\* it up and has to start again.
PllLoss ==
    /\ losses < MaxPllLosses /\ losses' = losses + 1
    /\ LoaderReset /\ MuxReset
    /\ ioctl_download' = FALSE /\ index' = "region" /\ started' = FALSE /\ strobe' = None
    /\ mem_ready' = FALSE
    /\ wave_wr_req' = FALSE /\ wave_wr_word' = NoWord
    /\ latched' = FALSE /\ pending' = NoWord /\ d_ack' = FALSE
    /\ expected' = memory
    /\ UNCHANGED <<memory, words, transfers>>

Next == Clock \/ PllLoss

Spec == Init /\ [][Next]_vars

\* The clock runs, the memory becomes ready and the controller serves what it
\* latched (see Sdram); the host owes nothing.
FairSpec ==
    /\ Spec /\ WF_vars(Clock)
    /\ WF_vars(Clock /\ ~mem_ready /\ mem_ready')
    /\ WF_vars(Clock /\ d_ack')
-----------------------------------------------------------------------------
Write == [addr : Words, data : Data \cup {Cleared}]

\* When reset is released, every word of the stream, every cleared word of the
\* aperture and every earlier wave write is in the SDRAM: the comment on the
\* boot gate of s32_rom_loader.sv.
ReleasedWhenLoaded == [][reset /\ ~reset' => memory' = expected']_vars

\* No write is lost on its way.  A word the host presents is taken, however late
\* ioctl_wait rises, and the loader is not using its port for a clear then.  An
\* acknowledge finds an owner and reaches the client whose word it completes,
\* after the word is in the memory: the two simulation checks of
\* s32_sdram_write_mux2.sv.
NoWriteLost ==
    /\ strobe # None => /\ Accepts(strobe, mem_ready)
                        /\ Raised(None, c0_ack(d_ack), mem_ready) = None
    /\ d_ack => active
    /\ c0_ack(d_ack) => sdr_wr_req /\ memory[sdr_wr_word.addr] = sdr_wr_word.data
    /\ c1_ack(d_ack) /\ wave_wr_req => memory[wave_wr_word.addr] = wave_wr_word.data

\* Neither client waits for ever behind the cooldown or behind the other, and
\* index 0, once its transfer has ended, opens the gate unless the PLL fails.
DownloadEnds ==
    /\ \A c \in {0, 1} : []<>~req[c]
    /\ []<>(rom_loaded \/ ~index0_seen \/ ioctl_download \/ ~mem_ready)
=============================================================================
