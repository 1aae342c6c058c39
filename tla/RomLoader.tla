----------------------------- MODULE RomLoader ------------------------------
(***************************************************************************)
(* The loader of rtl/mem/s32_rom_loader.sv with WIDE = 1 and               *)
(* CLEAR_RF_WAVE = 1, as Arcade-SegaSystem32.sv instantiates it: words of  *)
(* the HPS stream become SDRAM writes, then the wave aperture is cleared,  *)
(* then the boot gate rom_loaded opens.                                    *)
(*                                                                         *)
(* A stream word is a record: zero, it belongs to index 0; first, its      *)
(* ioctl_addr is 0; addr, the SDRAM word it maps to, None for the board    *)
(* descriptor and for EEPROM words (which pulse eep_wr and touch nothing   *)
(* here).  The descriptor fields and the V25 observation port are left out.*)
(***************************************************************************)
EXTENDS Naturals

CONSTANTS
    RomWords,      \* SDRAM words of the ROM regions
    WaveWords,     \* number of words of the wave aperture, 32768 in the code
    Cleared,       \* the datum 0000
    None

Wave(i) == [wave |-> i]          \* word i of the aperture
Aperture == {Wave(i) : i \in 0 .. WaveWords - 1}

VARIABLES
    sdr_wr_req, sdr_wr_word, busy, index0_seen, wave_clear_active,
    wave_clear_word, rom_loaded

loader == <<sdr_wr_req, sdr_wr_word, busy, index0_seen, wave_clear_active,
            wave_clear_word, rom_loaded>>

LoaderInit ==
    /\ sdr_wr_req = FALSE /\ sdr_wr_word = [addr |-> None, data |-> Cleared]
    /\ busy = FALSE /\ index0_seen = FALSE /\ wave_clear_active = FALSE /\ wave_clear_word = 0
    /\ rom_loaded = FALSE

LoaderReset ==
    /\ sdr_wr_req' = FALSE /\ sdr_wr_word' = [addr |-> None, data |-> Cleared]
    /\ busy' = FALSE /\ index0_seen' = FALSE /\ wave_clear_active' = FALSE /\ wave_clear_word' = 0
    /\ rom_loaded' = FALSE

\* Mutant: nothing holds the host off while the aperture is cleared.
WaitBusy(mem_ready) == busy \/ ~mem_ready

ioctl_wait(mem_ready) == busy \/ wave_clear_active \/ ~mem_ready

\* The word w on the bus is taken: w is None when ioctl_wr is low.
Accepts(w, mem_ready) == w # None /\ mem_ready /\ ~busy

\* Mutant: the end of the stream does not wait for its last write.
EndsAtOnce == index0_seen /\ ~wave_clear_active

\* The stream that opened the gate has ended and drained.
Drained == index0_seen /\ ~wave_clear_active /\ ~busy /\ ~sdr_wr_req

LastClear(ack) == ack /\ wave_clear_active /\ wave_clear_word = WaveWords - 1

\* Mutant: the next clear is raised under the acknowledge of the last.
RearmEarly(ack) == wave_clear_active /\ (~sdr_wr_req \/ ack)

Rearms(ack) == wave_clear_active /\ ~sdr_wr_req /\ ~ack

\* The write the loader raises on this edge: a later assignment wins.
Raised(w, ack, mem_ready) ==
    IF Accepts(w, mem_ready) /\ w.addr # None THEN [addr |-> w.addr, data |-> w.data]
    ELSE IF Rearms(ack) THEN [addr |-> Wave(wave_clear_word), data |-> Cleared]
    ELSE None

LoaderStep(w, ack, mem_ready, download) ==
    LET raised == Raised(w, ack, mem_ready)
        opens  == w # None /\ mem_ready /\ w.zero /\ w.first
        clears == mem_ready /\ ~download /\ Drained
    IN  /\ sdr_wr_req' = (raised # None \/ (sdr_wr_req /\ ~ack))
        /\ busy' = (raised # None \/ (busy /\ ~ack))
        /\ sdr_wr_word' = IF raised = None THEN sdr_wr_word ELSE raised
        /\ wave_clear_active' = (clears \/ (wave_clear_active /\ ~LastClear(ack)))
        /\ wave_clear_word' =
               IF clears THEN 0
               ELSE IF wave_clear_active /\ ack /\ ~LastClear(ack)
                    THEN wave_clear_word + 1
               ELSE wave_clear_word
        /\ rom_loaded' = (~opens /\ (rom_loaded \/ LastClear(ack)))
        /\ index0_seen' = (opens \/ (index0_seen /\ ~LastClear(ack)))
=============================================================================
