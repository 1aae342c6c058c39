-------------------------------- MODULE Board --------------------------------
(***************************************************************************)
(* Five devices of the board side by side: the path of a download          *)
(* (Download), the cache of the main ROM (RomCache), the interrupt         *)
(* controller of the V60 (Intc), that of the sound Z80 (SoundIrq) and the  *)
(* voices of the RF5C68 (Rf5c68).  They are on one clock and share no      *)
(* register, so that a behaviour follows one of them, its unit, and the    *)
(* others keep their reset state: what holds of each here holds of the     *)
(* five together.                                                          *)
(***************************************************************************)
EXTENDS Naturals

CONSTANTS
    RomWords, WaveWords, Cleared, None, NoWord, Data, MaxWords, MaxTransfers, MaxPllLosses,
    Lines, MaxGames, MaxAhead, MaxCopied,
    Pulsed, LaneMax, Period0, Width0, Ticks1, Step1, Mod1, Unwritten, MaxArms,
    IoClocks, MaxConfigs,
    Last, Positions, LoopStart, SlotClocks, WriteClocks, MaxWrites

VARIABLES
    unit,
    \* Download
    sdr_wr_req, sdr_wr_word, busy, index0_seen, wave_clear_active, wave_clear_word,
    rom_loaded, d_req, d_word, owner, active, cooldown, ioctl_download, index, started,
    strobe, mem_ready, wave_wr_req, wave_wr_word, latched, port_pending, d_ack, memory,
    expected, words, transfers, losses,
    \* RomCache
    ce, if_req, prot_req, m_req, addr, ack_r, rmux, ahead, copied, ack, line_out,
    cache_mem, cache_valid, cache_q, lookup_pending, lookup, filling, fill, rom_req,
    line_owed, game,
    \* Intc
    pending, timer, t0_cnt, t0_run, t1_cnt, t1_run, t1_acc, due0, armed1, since1, owed, arms,
    \* SoundIrq
    snd_irq_ctl, snd_irq_input, ym_irq, ym_irq_d, snd_bus, snd_left, snd_owed, configs,
    \* Rf5c68
    enable, cbank, st, caddr, chan_off_m, slot, ch, voice_state, voice_ch, voice_next,
    voice_advance, voice_sounds, acc, out, frame, bus, left, writes

downloadVars ==
    <<sdr_wr_req, sdr_wr_word, busy, index0_seen, wave_clear_active, wave_clear_word,
      rom_loaded, d_req, d_word, owner, active, cooldown, ioctl_download, index, started,
      strobe, mem_ready, wave_wr_req, wave_wr_word, latched, port_pending, d_ack, memory,
      expected, words, transfers, losses>>
cacheVars ==
    <<ce, if_req, prot_req, m_req, addr, ack_r, rmux, ahead, copied, ack, line_out,
      cache_mem, cache_valid, cache_q, lookup_pending, lookup, filling, fill, rom_req,
      line_owed, game>>
timerVars ==
    <<pending, timer, t0_cnt, t0_run, t1_cnt, t1_run, t1_acc, due0, armed1, since1, owed, arms>>
soundVars ==
    <<snd_irq_ctl, snd_irq_input, ym_irq, ym_irq_d, snd_bus, snd_left, snd_owed, configs>>
voiceVars ==
    <<enable, cbank, st, caddr, chan_off_m, slot, ch, voice_state, voice_ch, voice_next,
      voice_advance, voice_sounds, acc, out, frame, bus, left, writes>>
vars == <<unit, downloadVars, cacheVars, timerVars, soundVars, voiceVars>>

Downloads == INSTANCE Download WITH pending <- port_pending
Cache     == INSTANCE RomCache WITH out <- line_out, owed <- line_owed
Timers    == INSTANCE Intc
Sound     == INSTANCE SoundIrq WITH bus <- snd_bus, left <- snd_left, owed <- snd_owed
Voices    == INSTANCE Rf5c68

ASSUME BoardAssumption ==
    /\ Downloads!DownloadAssumption
    /\ Cache!CacheAssumption
    /\ Timers!IntcAssumption
    /\ Sound!SoundAssumption
    /\ Voices!VoiceAssumption

\* The contents of the memory before a download matter to the download alone.
Init ==
    /\ unit \in {"download", "rom cache", "interrupts", "sound interrupts", "voices"}
    /\ Downloads!Init
    /\ unit # "download" => memory = (CHOOSE m \in [DOMAIN memory -> Data] : TRUE)
    /\ Cache!Init /\ Timers!Init /\ Sound!Init /\ Voices!Init

Download ==
    /\ unit = "download" /\ Downloads!Clock
    /\ UNCHANGED <<unit, cacheVars, timerVars, soundVars, voiceVars>>

PllLoss ==
    /\ unit = "download" /\ Downloads!PllLoss
    /\ UNCHANGED <<unit, cacheVars, timerVars, soundVars, voiceVars>>

ReadRom ==
    /\ unit = "rom cache" /\ \E arrives \in BOOLEAN : Cache!Clock(arrives)
    /\ UNCHANGED <<unit, downloadVars, timerVars, soundVars, voiceVars>>

ResetCache ==
    /\ unit = "rom cache" /\ Cache!Reset
    /\ UNCHANGED <<unit, downloadVars, timerVars, soundVars, voiceVars>>

Interrupts ==
    /\ unit = "interrupts" /\ Timers!Clock
    /\ UNCHANGED <<unit, downloadVars, cacheVars, soundVars, voiceVars>>

SoundInterrupts ==
    /\ unit = "sound interrupts" /\ Sound!Clock
    /\ UNCHANGED <<unit, downloadVars, cacheVars, timerVars, voiceVars>>

Play ==
    /\ unit = "voices" /\ Voices!Clock
    /\ UNCHANGED <<unit, downloadVars, cacheVars, timerVars, soundVars>>

Next == Download \/ PllLoss \/ ReadRom \/ ResetCache \/ Interrupts \/ SoundInterrupts \/ Play

Spec == Init /\ [][Next]_vars

\* The fairness of Download and of RomCache, each for its own behaviours: the
\* clock runs, the memory becomes ready and serves what it latched.
FairSpec ==
    /\ Spec
    /\ WF_vars(Download)
    /\ WF_vars(Download /\ ~mem_ready /\ mem_ready')
    /\ WF_vars(Download /\ d_ack')
    /\ []<>(unit = "rom cache" => ce)
    /\ []<>(unit = "rom cache" => ~ce)
    /\ []<>(unit = "rom cache" => ~line_owed.pending)
-----------------------------------------------------------------------------
\* When reset is released, every word of the stream, every cleared word of the
\* aperture and every earlier wave write is in the SDRAM.
ReleasedWhenLoaded == Downloads!ReleasedWhenLoaded

\* No write of the loader or of the wave port is lost on its way.
NoWriteLost == Downloads!NoWriteLost

\* Every write is served, and a drained stream opens the boot gate.
DownloadEnds == Downloads!DownloadEnds

\* Each reader of the main ROM gets its own line of the game loaded.
AnswersOwn == Cache!AnswersOwn

\* Every read of the main ROM is answered, the V60's data also, which comes last.
EveryReadAnswered == Cache!EveryReadAnswered

\* A source of the V60 is pending exactly while an arrival is not acknowledged.
PendingExact == Timers!PendingExact

\* A slot of the sound Z80 pends only for an event nobody has acknowledged or
\* withdrawn.
NoSpurious == Sound!NoSpurious

\* A voice that is off rests at its start once the write that stopped it ended.
StoppedRests == Voices!StoppedRests

\* A sample mixes each channel that sounded in its frame, and nothing else.
SampleComplete == Voices!SampleComplete
=============================================================================
