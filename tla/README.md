# A verification development for the System 32 core

The repository is a Sega System 32 core for MiSTer (SystemVerilog) with the
Python tools that build it and compare it with MAME. This directory holds TLA+
modules translated from that code, TLC configurations that check them on small
instances and TLAPS proofs of what matters most. Every definition that models
code is listed, with its lines, under `map` in `PROJECT.json`.

## The system

Three clocks of one PLL drive the board: `clk_ram` (96.6 MHz), `clk_sys` (half)
and `clk_v25` (a quarter). On them run, all at once:

| Part | State | Operations and partners | Hard behaviours | What makes it correct |
| --- | --- | --- | --- | --- |
| SDRAM controller `rtl/mem/sdram.sv` | mailbox per port, arbiter, one FSM, open-row bookkeeping, refresh timer, CAS pipeline | six readers and a writer, the chip | two clocks, stretched acknowledge, arbitration order, refresh against traffic, PLL loss | no request lost or served twice, legal commands, refresh in time, bounded waits, atomic reads and writes |
| SDRAM write mux `rtl/mem/s32_sdram_write_mux2.sv` | owner, active, cooldown | ROM loader, RF5C68 wave port, SDRAM write port | acknowledge reaching the wrong client; a request raised during the cooldown | each client gets its own acknowledge, nobody waits for ever |
| ROM loader `rtl/mem/s32_rom_loader.sv` | busy, boot gate, wave clear counter | HPS `ioctl` stream, write mux | back-pressure, a second download, end of stream while a write is out | every accepted word is written where it belongs; reset is released only after the last write |
| Frame buffer interface `rtl/mem/s32_fb_if.sv` | two line banks, a FIFO, a DDR3 FSM | sprite engine, mixer, DDR3 | erase, line read and flush compete for one bus | a line shown is the line drawn; no burst is cut |
| V60 CPU `rtl/cpu/v60/*`, `rtl/cpu/v60x/*` | registers, prefetch, bus unit | core bus | interrupts and bus waits inside an instruction | architectural results |
| Main ROM cache, in `rtl/s32_core.sv` | a direct-mapped store, one lookup, one fill | V60 prefetch, protection copy, V60 data, SDRAM port 0 | three readers replace each other's lines; held acknowledges; data comes last | each reader gets its own line, every read is answered |
| Core bus and decode `rtl/s32_core.sv` | V60 bus cycle, line requests, sound mailbox | V60, video RAMs, I/O, SDRAM | one-shot strobes under a held request | every bus cycle ends once with its own data |
| V25 protection `rtl/cpu/v25/s32_v25_cpu.sv`, `s32_v25_rom_cache.sv` | reset sequencing, a small read cache | SDRAM port, main CPU | a clock crossing, a fill outrun by an invalidate or a new address | no stale byte is executed |
| Sound system `rtl/audio/s32_soundsys.sv` | Z80 ROM cache, interrupt controller, banks | T80, JT12, RF5C68, main CPU | an interrupt acknowledged while another arrives | no interrupt lost |
| RF5C68 `rtl/audio/s32_rf5c68.sv` | eight voices, voice pipeline, wave port client | Z80, SDRAM read and write ports | register writes while a voice is being fetched | a stopped voice rests at its start address |
| MultiPCM, clock enables, mixing `rtl/audio/s32_multipcm.sv`, `s32_audio_ce.sv`, `s32_audio_mix.sv` | voices, fractional dividers | Z80 | rounding, drift | long-term rates |
| I/O, interrupts, timers, EEPROM `rtl/io/s32_io.sv` | 315-5296 ports, interrupt state, timers, 93C46 FSM | V60, loader, controls | set against clear of an interrupt, serial protocol | no interrupt lost; the EEPROM obeys its lock |
| GunCon SNAC `rtl/io/s32_guncon_snac.sv`, lightgun, driving | serial poll FSM, timeouts | pins, I/O | timeouts and partial packets | a stale sample is never reported as fresh |
| Sprite engine `rtl/video/s32_sprite.sv` | list walker, ROM fetch with retry, blitter | object RAM, SDRAM port, frame buffer | swap while rendering, retries | each frame drawn from one list |
| Tilemaps, mixer, palette, line buffers `rtl/video/*` | pipelines | video RAM, SDRAM port | a line not ready in time | MAME's picture |
| Protection HLE `rtl/prot/s32_prot.sv` | work registers | V60 | games' polling order | MAME's values |
| Clock sync and top `Arcade-SegaSystem32.sv` | resets, input mapping, synchronisers | everything | reset release order | documented order |
| Task executor `misterlib/process.py`, `locking.py` | heavy.lock, the task cache, a child process | builds and tests it runs, other executors | Ctrl-C, time-outs, a tool that will not die, two executors | one heavy tool at a time, no orphan, cached outputs are those asked for |
| Evidence workflow `misterlib/workflow.py`, `state.py`, `cache.py` | state.json, a shared cache of reference traces | MAME, the simulator, other processes | a kill between two saved stages, two processes in one cache entry, disturbed captures, edits | a verdict is filed under the inputs it was measured on |
| Traces `misterlib/traces.py`, `observability.py` | normalised files and sidecars | the recorders | lost, repeated and malformed events, cut files, lane orders | MATCH exactly for equal buses, and the first divergence is the first |
| Release gate `misterlib/workflow.py`, `quartus.py`, `mra.py`, `config.py` | release.json, reports and RBF on disk | Quartus, the workflow | reports and RBF of an earlier build, sources that move, several corners | what is released was compared, compiled and met timing |
| Tool identity `misterlib/util.py` | a memory and a file of identities | executables on disk | replacement between stat, hash and `--version` | a cached identity is that of the file |
| Donors `misterlib/provenance.py` | PROVENANCE.json, clones, licences | git | git fails or hangs, the branch moves | what is recorded lies under the label |
| Sprite reference and replay `verif/reference/s32_sprite_ref.py`, `verif/sprite_replay/*` | sprite RAM, controls and their latches, two buffers | captured frames, the RTL | zoom, clips and wrapping at their edges; swap and erase; mirrored storage | the picture is the list's; a replay repeats the update captured |
| ROM images `tools/gen_mra.py`, `make_sim_images.py` | MRA files, memory images | MAME's ROM_LOAD lines, ROM files | interleaves, gaps, repeats, patches | the images are the memory MAME builds |
| Mixer reference `verif/reference/s32_mixer_ref.py` | none | vectors for the RTL's mixer | ties between fallback, backdrop and lowest layer | the pixel is that of the highest rank |
| V60 reference `verif/cosim/v60_ref.py`, `gen_diff_program.py` | registers, flags, memory | vectors for the RTL's CPU | carry and overflow by width, return addresses | arithmetic, and calls that return |
| Other generators and verification scripts | none | files | none | tests of their own |

Vendored parts (`rtl/audio/jt12`, `rtl/audio/T80`, `rtl/cpu/v25/s80x86`, `sys/`)
are left aside, and so is `rtl/cpu/v60x`, which no production build contains.
`PROJECT.json` lists every part under `components`, and under `hazards` what is
hard to test in each, at its line.

## Modules

Every hardware module takes one step per edge of the clock its code runs on:
all registers move at once, so a step is a conjunction of one operator per
`always` block and a finite-state machine is a disjunction with one action per
state. What the code does not decide (when the memory answers, what a program
writes, when a host strobes) is a nondeterministic choice. Variables and
actions keep the names of the code.

| Module | Models | State and actions |
| --- | --- | --- |
| `SdramArbiter` | choice of the next read port, `sdram.sv` 156-187 | pure operators over the pending ports, the rotation pointer and the tile port's credit |
| `SdramChip` | the chip of the repository's test benches | open rows, cells, two stages of CAS latency, ages of the last commands |
| `Sdram` | `rtl/mem/sdram.sv`, with requesters and chip | one step per edge of `clk_ram`; `phase` tells which edges are edges of `clk_sys`. `Requesters`, `Mailboxes`, `Pipeline`, `Acknowledge`, `Chip` move on every edge beside one action of `Sequencer`; `PllLoss` is the reset |
| `MemoryPorts` | nothing: the promise to the users of the ports | `Ask`, one atomic `Answer`, `Take`, and `Forget` for a loss of power |
| `WriteMux`, `RomLoader`, `Download` | the two modules of those names and the path around them: host stream, loader, multiplexer, wave port, write port, reset | one step per edge of `clk_sys`; `Download` composes the other two by conjunction |
| `FrameBuffer` | `s32_fb_if.sv` with the sprite engine's commands, the raster's line requests and the DDR3 | one step per edge of `clk_ram`; one action per state of the DDR engine |
| `RomCache` | `s32_ga_rom_cache` with its three readers and SDRAM port 0 | one step per edge of `clk_sys` |
| `Intc` | `s32_intc` of `s32_io.sv`: pending bits and two timers | one step per edge of `clk_sys` |
| `SoundIrq` | interrupt slots of `s32_soundsys.sv` | one step per edge of `clk_sys`; a write of the Z80 lasts `IoClocks` edges |
| `Rf5c68` | voices and registers of `s32_rf5c68.sv` | one step per edge of `clk_sys`; a write lasts one of `WriteClocks` |
| `Board` | `Download`, `RomCache`, `Intc`, `SoundIrq` and `Rf5c68`, side by side | one action per device; see below |
| `TaskRunner` | `misterlib/process.py` and `locking.py` | one action per step of a Python process between two effects the others can see; the child process, Ctrl-C and edits are actions of their own |
| `Evidence` | `converge` and `resume` with the state file and the reference cache | one action per saved stage, file copy or hash; `Crash`, `Exit` and `Edit` are the world's |
| `Traces` | `normalize_trace` and `compare_normalized` | one action per line read, file written, event compared; recorders and a cut file are the world's |
| `Release` | `Workflow.release` and its gates | one action per stage of the command |
| `ToolIdentity` | `tool_identity` | one action per look at the file system |
| `Donors` | `fetch_donor`, `scan_donor`, `add_donor` | one action per git command and file written |
| `SpriteRef`, `SpriteReplay` | the reference renderer; capture, audit and replay of one update | one action per update or write; drawing is made of operators named for the methods, a loop is a function of the number of its steps |
| `RomImages` | `gen_mra.py`, `make_sim_images.py` | two actions, `gen` and `build_regions`, over operators for their functions |
| `Mixer` | `mix_pixel` | one action |
| `V60Ref` | `V60.step` | one action per group of opcodes; a shift is a function of the number of its steps |
| `V60Programs` | `gen_diff_program.py` | how a program is put together, and the programs of the generator; only for the runs |
| `Workbench` | `Evidence`, `Release`, `ToolIdentity`, `Donors`, `Mixer` and `SpriteReplay`, side by side | one disjunct per tool |
| `Tools` | `Workbench` with `RomImages` and `V60Ref` | one disjunct per tool, and one for the bench |
| `SdramProofs` | | theorems about `Sdram`: its requests; its commands and waits, and that it implements `MemoryPorts` |
| `BoardProofs` | | theorems about `Board`: the cache, the interrupts, the voices and the download |
| `FrameBufferProofs`, `TaskRunnerProofs` | | theorems about `FrameBuffer` and `TaskRunner` |
| `TracesProofs` | | theorems about `Traces` |
| `WorkbenchProofs`, `SpriteProofs` | | theorems about `Workbench`: five of its tools; the sprites |
| `ToolsProofs` | | a theorem about `Tools`: the V60 reference |
| `MC*` | | values for the constants of the runs |

`Board`, `Workbench` and `Tools` put side by side what shares no state. The devices of the
board do share a clock, but none of them reads a register of another, and no
file is modelled in two of the tools; a product of their states would say nothing that the sum of their
behaviours does not. A behaviour therefore follows one of them, named by `unit`,
and the others keep their initial state. Where components do meet (loader,
multiplexer and SDRAM; cache, readers and SDRAM; sprite engine, raster and DDR3;
workflow processes and their cache; reference, capture and replay) they are
composed inside their module.

Some variables are history: they record what was asked, so that an invariant can
compare it with what was done (`served` and `passed` in `Sdram`, `drawn` and
`late` in `FrameBuffer`, where the frame that a reset cuts counts as late, `loose` in
`TaskRunner`, `crossed` in `Donors`, `expected` in `Download`, `owed` and `due0` in `Intc`,
`frame` in `Rf5c68`, `emitted` in `Traces`, `matched` in `Release`,
`frontIs` and `backIs` in `SpriteRef`, `last` and `calls` in `V60Ref`). No guard of
the code's actions reads them, but for the bound on `calls` and a return without
a call. Operators marked *Mutant* are plausible errors; `PROJECT.json` says which property each
one breaks, and nothing else uses them.

### Abstractions

* `Sdram`: banks, rows and columns are small numbers, a word is two bytes of a
  small set, and the power-up wait, the refresh interval and the chip's contents
  are constants. The counters `wrrc_cnt`, `refw_cnt` and `pre_cnt` share a
  variable because they are never live together. A requester keeps to the
  request contract at the head of `sdram.sv`; which ports pulse, which hold and
  which run on `clk_ram` are constants.
* `Download`: a word of the stream is its address and datum. Losing the PLL
  resets every part at once.
* `FrameBuffer`: one line of the buffer being composed, whose pixels carry the
  word and run they were drawn by; of the lines shown, only their number. The
  engine starts a run or an erase only when the last one is done, as
  `s32_sprite.sv` does (629, 444, 960), and draws a pixel at most once in a run.
* `RomCache`: the content of a line is the line's name and the game loaded. The
  place of a word in its line is latched with the line and left out. The input
  `invalidate` is tied to 0 by the only instance. A reset outlasts the SDRAM's
  answer, which it does by far in `Arcade-SegaSystem32.sv` (216).
* `Intc`, `SoundIrq`: masks and vectors only choose among pending sources, and
  are left out. The width of timer 0's counter is kept (`Width0`), because the
  code has a history of getting it wrong.
* `Rf5c68`: an address counts whole samples; the mix keeps which channels
  sounded. The external wave RAM, which `s32_soundsys.sv` does not enable, is
  left out; for the same reason client 1 of the write multiplexer is idle in
  production, and `Download` exercises it as the code provides for it.
* `TaskRunner`: a fingerprint is the sources it is computed from, the outputs are
  the sources they were built from or `Broken`. Taking the lock, the fork in
  `Popen` and the `try` that waits for the tool are three steps, and SIGTERM and
  the SIGKILL a second later two, with Ctrl-C possible between any of them. A tool
  and what it forks, which are signalled together, are one process, which
  obeys SIGTERM at once, later or never. The Windows branches and the logs are left out.
* `Evidence`: a trace is the version of the inputs it was captured from, `Noise`
  or `Torn`; the two fingerprints of a verdict are two versions. The checks of
  `doctor` are one choice between going on and raising. The build task is ready:
  the code passes over one that is not (`workflow.py` 411) and runs the simulator
  that lies there. A state file is replaced
  in one step, which `atomic_write_json` provides; a copied trace is not.
* `Traces`: an event has an address lane or two, enabled bytes and a time. The
  fields of the contract are one of two lane maps, right or wrong.
* `Release`: a report is four facts the gates read of it, the rules of the
  configuration's schema are one flag, and a verdict of `converge` is taken at
  its word, because `Evidence` is about that.
* `ToolIdentity`: every replacement has a modification time of its own; an error
  while a file is hashed is left out.
* `Donors`: a git command is one step, which ends with the process that asked for
  it. Nothing keeps two processes from one label. `git_info` may get no answer
  from git, and the record then names no commit (`validate_provenance` refuses it
  later).
* `SpriteRef`: a pixel is its top bit and a colour, of one depth; what the colour
  tables hold and what the priority masks hide are constants.
* `RomImages`: a byte is its file and place in it. A declaration may be wrong in
  every way its macro can be: a load short, out of its place, of another macro, or
  of one `parse` does not read.
* `Mixer`: ranks, blending and shadow, and no sum of colours.
* `V60Ref`: a byte has `Byte` values, any even number above two; halfwords and
  words are two and four bytes. The run has bytes of two bits. The operators take
  the width from the operand, as `dimext` and `sx` do. `&`, `|` and `^` are
  parameters, which the run gives their meaning and the proof takes to yield words.
  `_div` divides floats, which is exact for the quotients of two words of 32 bits
  once truncated, and is an integer division here.

## Runs

There are twelve, eight that pass and four that do not.

| Run | Question | Bounds, and why they are enough |
| --- | --- | --- |
| `sdram_ports` | Is every request of a port served, once, answered by its own acknowledge, and in bounded time, and is the chip refreshed in time? | Ports 0 (pulsing), 1 (tile, held) and 2 (held, on `clk_ram`, eight words): one of each kind of requester, in every phase. A refresh every 37 edges falls on every state of the sequencer. |
| `sdram_memory` | Are the chip's commands legal, and do the ports implement `MemoryPorts`? | Two banks, two rows; writes that reuse, change row and change bank, one with a byte lane, and a four-word burst that overlaps them; one PLL loss at any edge. |
| `sdram_live` | Is every request served? | The tile port, a background port and the writer, which all hold. |
| `frame_buffer` | Is the buffer what was drawn, is no line torn, does every command end? | Three words, so that a run can have a gap; two lines and the blank; three units of work among runs, pixels and erases, so that every pair of commands follows each other. |
| `board` | Download: is every accepted write in memory when reset rises, and does the download end? ROM cache: does each reader get its own line, and an answer? Interrupts: do the sources of the V60 pend exactly when they should, and does no slot of the Z80 pend for nothing? Voices: does a stopped one rest, does a sample mix what sounded? | Download: four words over three transfers, an aperture of two words, one PLL loss, so two words in flight, a second download while the core runs, a repeated clear. Cache: two lines of one index, two games. Timers: lanes of two values, three writes. Z80: writes of three edges. Voices: two channels, three writes of five or six edges in slots of seven. |
| `task` | One tool at a time, no orphan, every run ends? | Two executors, three runs, two Ctrl-C, one edit: a second Ctrl-C meets the grace that the first began, and a run follows beside what is left. |
| `traces` | Is the verdict MATCH exactly for equal buses, is the first divergence the first, and does no numbering fault, cut file or false sidecar pass? | Two domains, one of them ordered by time, two events and three raw lines a side, three lanes, a rotated and active-low RTL side, a contract that is right or merges lanes. |
| `tools` | Workflow: is a verdict, saved or resumed, true? Release: was all of it earned? Identity: is it that of the file? Donors: is what is recorded there? Sprites: is the picture as defined, and does the replay repeat and judge it? Images: are they as declared? Mixer: is the pixel as ranked? V60: is the arithmetic exact, and do calls return? | Two processes, a kill and an edit, two versions; each requirement of a release on and off; two processes and a replacement; two fetches of one label and two new commits; one sprite in every place, size and direction, pairs of commands, four updates; one or two groups of every macro, whole or broken; every rank of three layers, sprite and backdrop; every program of the generator over five values, every pair of byte operands, and each addressing mode. |
| `task_orphan`, `task_shared`, `sound_irq_long`, `release_corners` | Refuted; see Findings. | Two executors and one Ctrl-C; two executors; writes of three edges; one report of two corners. |

`CHECK_DEADLOCK FALSE` is set where a behaviour may end: for `TaskRunner` and the
tools, where every bounded run may have ended. The processes of the workflow are
interchangeable, and so are the versions, each of which agrees with itself only;
`tools` uses both symmetries (`Alike`). Its properties are invariants and action
properties that treat all processes and all versions alike. With four
units of work instead of three, `FrameBuffer` has 3.6 million states and its
safety properties hold too; that takes too long for an everyday run.

### Fairness

* `Sdram`: the clock goes on. Nothing else is assumed; the refresh timer and the
  arbiter are deterministic.
* `Download`, in `Board`: the clock goes on, the SDRAM gets ready and serves what
  it has latched, which `sdram_live` shows. The host owes nothing. `SampleComplete`
  and `ReleasedWhenLoaded` are action properties and need none.
* `FrameBuffer`, and `RomCache` in `Board`: the clock goes on and the memory is not busy for
  ever and answers every read. These are about an input of the step and not
  about an action of its own, so they are stated as formulas `[]<>P`. In
  `RomCache` the readers that come first are not always asking: while an
  instruction waits for data the prefetch window, of 24 bytes, fills up
  (`MaxAhead`, `s32_v60.sv` 4038), and a protection copy, of sixteen bytes, ends
  (`MaxCopied`) and is started only by a write of the V60. The two constants
  count that and are 2 and 1 in the run.
* `TaskRunner`: processes and their children keep running. Runs are bounded, so
  the lock is free in the end; with unbounded runs a polled lock gives no such
  promise. Time-outs, Ctrl-C and edits are never owed.
* The other tools are one process that ends or is killed; nothing is promised of
  when, and no liveness is stated.

## Proofs

`SdramProofs` proves, for every set of ports and requesters that satisfies
`PortsAssumption`, any addresses and contents, any refresh interval and power-up
length and any number of PLL losses:

* `TypeCorrect`: `Spec => []TypeOK`
* `NoLostRequests`: `Spec => []NoRequestLost`
* `NoDoubleService`: `Spec => []ServedOnce`
* `NoStaleAck`: `Spec => []AckAnswersRequest`

None of the last three is inductive: whether a request survives depends on where
the sequencer stands when its mailbox is emptied, and that on how many words are
still in the CAS pipeline. `IInv` is `TypeOK` with

* `PipeInv`, the account of a transaction: the words captured and those in the
  pipeline add up to the words asked for, so the last word leaves the pipeline
  empty, and the state in which a write is acknowledged is one of a known count;
* `PortInv(p)`, for each port: its request is owed exactly while its rising edge
  is still to come through or its mailbox is full (`Rises`, `Latched`); a
  transaction in flight has its mailbox full; the first edge of an acknowledge
  is exactly one edge before the sequencer is idle again (`JustServed`), when the
  mailbox is emptied; and the second edge of an acknowledge meets a new request
  only off the edges on which its requester looks.

The arbiter contributes that a granted port is a waiting one (`GrantWaits`). The
steps are split as the module is: `ClockStep` combines lemmas about the
requesters, mailboxes, pipeline and sequencer, `ResetStep` is the loss of the
PLL, and the theorems follow from `Inductive`.

`TaskRunnerProofs` proves, for any number of executors, source trees, runs,
edits, time-outs and interrupts:

* `TypeCorrect`: `Spec => []TypeOK`
* `Exclusive`: `Spec => []HeavyExclusive`
* `NoOrphans`: `Spec => []NoOrphan`

Two tools exclude each other only through their executors, so `IInv` adds to
`TypeOK` that an executor from `locked` to the end of the grace holds the lock
(`Holding`), and that a living tool has an executor at work on it or was left behind
by a Ctrl-C (`Watched`). No tool is taken to obey SIGTERM. What the two properties
except is exactly what `loose` records: the executors that a Ctrl-C took out of
`run` between the fork and the `try`, or inside `_terminate_tree`. `task_orphan`
shows that the exception is needed.

`WorkbenchProofs` proves of `Evidence`, for any number of processes and versions,
captures that may be disturbed, any number of kills, and edits while no process
runs (`~EditsDuring`):

* `EvidenceInductive`: `Spec => []EvidenceInv`
* `EvidenceTypes`: `Spec => []TypeOK`
* `SoundVerdicts`: `Spec => []VerdictTrue`
* `ResumeSound`: `Spec => ResumeTrue`

A verdict is only as good as what the process that saves it has in hand, so
`EvidenceInv` adds to `TypeOK` what each process holds at each stage (`InHand`: the simulator
built from the present sources, the identity of the present reference, a trace
that is of that identity, disturbed or torn), that every file of a cache entry is
absent, torn or of the entry's identity (`EntryOwn`), and that every copy of a
verdict is true (`True`). That processes interfere only through files of which
this is known is the lemma `OthersRest`. The assumption is needed: when an input
is edited between the fingerprints and the build, a true measurement is filed
under inputs it was not made on.

`SdramProofs` goes on from this invariant to the commands and waits:

* `LegalCommands`: `Spec => []CommandsLegal`
* `RefreshNeverLate`: `Spec => []RefreshInTime`
* `FairArbitration`: `Spec => []WaitBounded`

The first needs `TimingInv`: the only row open in the chip is the one the
controller remembers (`RowInv`), and each state of the sequencer knows how long
ago the last command of each kind was (`SpaceInv`), before `ready` by the entry
of the power-up sequence it is at (`PowerUpInv`). That sequence is a constant of
the module, and `PowerUpAssumption` says of it what the code shows: the precharge
of all banks comes first (`init_cnt` 0x400), the refreshes follow 0x40 edges
apart (0x3c0 to 0x200), the mode is set at 0xa0 and nothing comes after. The
second needs `DeadlineInv`, the most edges each state may still take before it
looks at the refresh timer, counted for the longest burst: 22 in all. Hence the
assumption `RefPeriod >= 22`; the code's interval is 700. The third needs
`FairInv`: the reads that were served since a port began to wait have promised
it a place, because each of them is now behind it in the rotation (`Ahead`,
`Promise`).

Its last theorem is the refinement, `AtomicMemory`: `Spec => ImplementsMemory`,
through the mapping that sees the request a port's requester remembers, the data
of its last answer and the cells of the chip. It needs, beside the two invariants
above, `DataInv`: where the payload is between the wires and the pins (`PayloadInv`,
`StoreInv`) and what each of the four stages of the capture pipeline holds. The
word a stage holds is numbered by the words captured and the full stages after it
(`At3` to `At0`), and is what its cell holds now (`BurstInv`): no write is on the
pins while a read is in flight (`CellsRest`), so the instant of the atomic access
may be the edge that acknowledges it. That the READ found the row of its address
open is `CommandsLegal`. A write reaches its cell on the very edge that
acknowledges it (`StoresThen`), and after a loss of the PLL on that edge or not
at all. Every edge of the clock is then a step of the memory (`EdgeStep`): the
port that is acknowledged is answered, and every other asks, takes its answer or
stays (`OthersStep`).

`BoardProofs` proves of the devices of the board:

* `ReadersOwn`: `Spec => []AnswersOwn`, for any lines, games and readers' windows
* `PendingAsOwed`: `Spec => []PendingExact`, for any periods and counts
* `SoundSpurious`: `Spec => []NoSpurious`, for writes of any length
* `VoicesRest`: `Spec => []StoppedRests`, `SamplesComplete`: `Spec => SampleComplete`,
  for any number of channels and any loop points

`CacheInv` follows a reader's address through lookup, fill and answer: while its
request waits or is served, the line that was looked up, that is being filled
and that arrives is the line of its address in the game loaded, although the
store's entry may be replaced by another reader's in between. `TimerInv` relates each timer's
counter with the history of what is due: timer 0's with the product of the count
and the tick, from which the width of the counter follows, timer 1's with the
phase of the accumulator (`Divided`). `VoiceInv` says that a channel that is off
rests at every edge, not only between writes, because a voice still in flight on
it is so under the write that stopped it: that write lasts at least the edges the
voice needs (`Need`), or falls one short of it and the voice has met its loop
marker. `MixInv` says
that the channels mixed so far are those of the frame that have had their turn.
Of the lengths of a write, `WriteClocks`, it is assumed that they are at
least 5: the enable of the Z80 is a fractional divider of `s32_audio_ce.sv` which
adds 715924818 modulo 2^32 (periods of six edges and, once in 1231, of five) or
10851 modulo 2^16 (six or seven). There are two
channels or more (`Last > 0`), so that a frame does not begin while its last
channel sounds.

Of a download it proves, for any number of words, transfers and PLL losses:

* `NothingLost`: `Spec => []NoWriteLost`
* `LoadedAtRelease`: `Spec => ReleasedWhenLoaded`

`ControlInv` is the account of one write on its way (`Waiting`, `Latched`,
`Served`): its client asks for it, with the same word, until it is acknowledged
(`LoaderInv`, `PortInv`, `WaveInv`), and the host sends a word only where the
loader can take it (`HostInv`). `DataInv` says of each word of the memory that it
is as expected but for the words still on the way, the last of which the gate
waits for. `None` is assumed to be no record of the module.

`FrameBufferProofs` proves, for lines of any length, screens of more than one
line and any amount of work:

* `TypeCorrect`: `Spec => []TypeInv`
* `BufferHolds`: `Spec => []BufferAsDrawn`
* `NeverTorn`: `Spec => []NoTear`

`TurnInv` says who has the turn: the engine draws a row, or a row that ended is
being written, or a line is being erased, and never two of these. `StoreInv` is
what each of them still has to write: of a run, the words behind the walk are as
drawn and those before it lack only the pixels of this run, whose RAM is read
one word ahead (`WalkInv`, `DataInv`); of an erase, the words beyond the beat
(`EraseInv`). `LineInv` says of the two banks that the one that is filled holds
the line asked for up to the beat (`FillInv`), that the one that is shown is whole
and, unless a line of the frame came late, the raster's (`ShownInv`), and where in the
blank the first lines of a frame are fetched (`BlankInv`).

`WorkbenchProofs` proves of five tools of `Workbench`, for any configurations,
reports, processes, labels and pixels:

* `EarnedRelease`: `BenchSpec => []ReleaseEarned`
* `CachedIdentity`: `BenchSpec => []CachedIdentityTrue`
* `DonorsLie`: `BenchSpec => []RecordedAsFetched`
* `RankedMix`: `BenchSpec => []MixedAsRanked`

The gates of a release are proved in their order: `GatesInv` says which fact each
of them leaves behind, from the next gate on and of the release that is written.
That a task which is not ready is passed over does no harm, because the doctor
asked for three of them to be ready; that an RBF counts only when it is fresh
follows from `output_rbf`, which the doctor asks for too; and the RBF is of a
version no older than any a scenario matched (`BuiltRbf`), though edits go on.
`IdentityInv` says that every identity, wherever it is kept, is of executables
from the one of its modification time to the one of now (`TrueIds`), which a
replacement can only widen. `DonorInv` says that, at a label that was never
`crossed`, at most one fetch is at work (`Sole`) and a tree that was checked out is
not touched again (`Lies`): its own fetch is over and the next one is refused. How
many fetches there are, and under which labels, is not assumed. Of the mixer, the
lemma `KeyRanks` shows that the sorting key orders the layers as the hardware
ranks them, for priorities of four bits, and so that no two have one key.

`SpriteProofs` proves of the sprite reference and its replay, for buffers,
pictures and lists of any size, any well-formed commands, and any sequence of
updates, writes of the registers and rewrites of the list:

* `BuffersShowDraws`: `BenchSpec => []DrawnAsDefined`
* `FramesReplay`: `BenchSpec => []ReplayFaithful`
* `VerdictsAreRight`: `BenchSpec => []VerdictRight`
* `SpriteInvariant`: `BenchSpec => []SpriteInv`, the types they rest on

Each loop of the code (a row, the rows of a sprite, the walk, the audit) is a
function of the number of its steps. That such a function exists, for any number,
is the lemma `LoopRuns`, by the least number for which it would not; what it
computes is `Steps`: what holds at first and is kept by each step holds after all.
The invariant of a row (`RowAt`) is the account of its zoom: as many source pixels
and pixels of the picture have gone by as the accumulator says, `c * zoom = acc + i * 65536`,
so that the pixel drawn in column `c` is that of the definition, whose index is a
quotient; the cells drawn are those of the columns gone by, and either the word was
closed by an end code or each step moved one of the two. As many steps as there are
pixels in the picture and the source are therefore enough (`RowEnds`). `RowsAt` is the same
for the rows, where the fraction that is left goes over to the next line
(`NextLine`). A sprite that begins beyond its clip, of which the code draws
nothing, has no cell inside it (`SpriteDrawn`). A list drawn is then the fold of the definition
(`WalkShows`), and an update or an event appends to the lists of one buffer,
forgets them or exchanges both (`DrawnNext`). For the replay, a walk reads but two of the latched
registers (`WalkReadsTwo`), which the capture keeps, the audit's walk stays beside
that of the renderer although one takes its index modulo the list's length where
the other does not (`AuditAgrees`), and mirroring twice is no mirroring
(`FlipFlips`). Of the constants it is assumed that the pictures lie in the
buffer, the narrow in the wide, and that the entries of a list are well formed
(`WellFormed`), numbers where the code has numbers.

`TracesProofs` proves of the comparison of traces, for traces of any length, any
domains, finite lanes, lane maps and polarities, and each fault of a recorder:

* `VerdictIsExact`: `Spec => []VerdictExact`
* `FirstDivergence`: `Spec => []FirstIsFirst`
* `FaultsAreFatal`: `Spec => []FaultsFatal`
* `WholeCompared`: `Spec => []ComparedWhole`

None of them is inductive: a verdict is right because of what normalization left
in the files long before. `FilesInv` says what that is. While a trace is read, each
spool holds the events of its domain among the lines passed, numbered as they are
in the raw trace, each of which was in its place with a byte enabled (`Holds`); so
a file that was replaced holds all of them (`Whole`). What makes
such a file that of the bus is the lemma `SeenWhole`: a line repeated or exchanged
changes no set of numbered events, a line that is missing leaves the next of its
domain one short of its place (the next is the least one behind it, `Least`, and
the places are counted with the library's facts on cardinality), and a line
without enables is refused. What canonicalization makes of a faithful line is what was on the bus (`LanesReturn`),
because a lane map that passes the contract is injective on finite lanes and so a
permutation (`Permutes`). After the sidecars, a file that is the one its sidecar
describes is whole, and a cut one is not the one described. `VerdictInv` is the
account of the comparison: the domains behind `at` are judged by whether their
files are the same, the one at hand agrees as far as `pos`, and `first` is where the
first domain that differs parts (`Found`). Two sequences are the same when their
numbered events are (`NumberedEqual`), which carries the judgement from files to
buses. Of the constants it is assumed that a bus event has its three fields, and
that `None` is neither a number nor a divergence.

`ToolsProofs` proves of the V60 reference, for bytes of any even number of values,
any registers and memory, and any programs that can be encoded:

* `ArithmeticExact`: `ToolsSpec => []ResultsExact`

What is to be proved is about one operation, so the work is in the operators. The
invariant, `CpuInv`, adds to the types of the machine that the operation just done
has finished (`Finished`): its result is that of `Result` for the operands noted,
and lies where it goes. From the code's sums of remainders `Right`
says what each operation gives as numbers: a carry is a sum beyond the width, an
overflow is a signed sum, difference or quotient out of its range, and a quotient and its
remainder are those of a division toward zero. What a comparison leaves in the flags, as
the sixteen conditions read them, is `ComparedFor`. That the number stored is the number
found, and that nothing else changed, is `StoreLands`: digits put into bytes come back
as the same number, and a part of a register leaves the rest of it. Nothing is
said of a destination that reaches over the end of the memory, where Python would
lengthen it and the model does not, nor of the overflow of `MUL`, of which the code looks at the upper bits
of a signed product. The provers know no products of variables: the lemmas on division
give each product a name, and what is left of a step is linear.

Only model-checked:

* liveness, because the prover does neither `ENABLED` nor fairness;
* `ImagesAsDeclared`: a sort, two parsers and an interleaving, each of which folds
  over lists of lists of any length; it is checked on every input of its instance;
* `ReturnsHome`: of a program that writes over its own stack it is not true, and
  the run's programs do not.

## Findings

* `task_orphan`: a tool is alive from the fork inside `Popen`, but the `try` that
  terminates it begins only at `process.py` 296. A Ctrl-C in between, or one inside
  `_terminate_tree` (46 to 51), leaves `run` with the tool alive and the lock
  free, against the comment at 306, and a second tool may then run beside it.
* `task_shared`: `TaskRunner.run` hashes the outputs for its cache entry after it
  has released the lock (`process.py` 334), when another executor of the task may
  be rebuilding them. A later run with the same sources is answered with outputs
  that are not theirs.
* `sound_irq_long`: an acknowledgement acts on the level of the Z80's write
  strobe, which lasts about six edges. An event of the same slot that arrives on
  any of them but the last is lost, against the comment at `s32_soundsys.sv` 377;
  the test bench drives a strobe of one edge.

* `release_corners`: `_extract_first` (`quartus.py` 59) returns the first slack of
  the first report that has one, and only that is compared with zero. A compile
  whose next corner, clock or report misses timing passes the gates and is
  released. `mister.py` 97 promises that the command enforces the gates.

More are not runs, but a constant or a step away:

* `CachedIsBuilt` also fails when sources are edited between the fingerprint and
  the start of the tool (`process.py` 218; `MaxEdits` and `EditsDuring`).
* A write of five edges, which `s32_audio_ce.sv` sometimes produces, may stop a
  channel whose voice is just reading its loop marker. The write is then over when
  the voice stores where it goes on, and the channel rests at its loop point and
  not at its start. `StoppedRests` and its theorem allow this for such writes only.
* `VerdictTrue` fails with `EditsDuring`, see above.
* `release` takes its scenarios from the list of the configuration and may name
  one that is disabled.
* A frame captured in manual mode, whose callback asks for an automatic command
  of its own, is one `_controller_command` does not foresee; `ReplayFaithful` is
  about the frames it does.
* `RecordedAsFetched` fails without its exception for `crossed` labels: of two
  fetches that find no directory, git refuses the second clone, and `fetch_donor`
  then removes the directory (`provenance.py` 158), which is the first one's and
  may be recorded already.
* `ImagesAsDeclared` fails without `LanesFollow`: of a group of `ROM_LOAD32_BYTE` or
  `ROM_LOAD64_BYTE` loads only the number is asserted (`gen_mra.py` 342 to 345),
  and each load is given the lane of its turn, whatever its offset, against the
  docstring's "map per offset&3" (20); nor is it asserted that the loads of a
  group are of one macro. The MRA is written and its image is wrong.
* It fails without `AllRead` too: a macro that the pattern of `parse` (251) does
  not have, such as `ROM_LOAD16_WORD_SWAP`, is passed over without a word.
* `_exec_f12` (`v60_ref.py` 206) loads its first operand whatever the opcode, so
  `_movea` stores what its source holds and not where it is. The test bench of
  the RTL asserts the opposite (`tb_v60_seq.sv` 2360), and the random programs
  hold no MOVEA that would show it.
* `release.json` names the sources as they are at its end (`workflow.py` 764). When
  they were edited meanwhile, they are not those that were compared or compiled.
* Two fetches of donors that end together may lose one of the records, and one
  that timed out leaves a directory on account of which its label is refused.
* `verif/cosim/compare.py` 31 zips two traces, so a trace that ends early agrees.

## Not modelled

* The CPUs (V60, V60X, V25's core, Z80) and the pixel pipelines: data paths whose
  correctness is a matter of values, compared with MAME by traces and pictures.
* The V25 program ROM path (`s32_v25_rom_cache.sv`, and the toggles between
  `clk_v25` and `clk_sys` at `s32_v25_cpu.sv` 286, where an address and its data
  cross beside two toggles and the two sides leave reset on different edges), the
  sound ROM cache (`s32_soundsys.sv` 185, which re-arms when the acknowledge is
  low, and 388, where the YM's line may fall between request and acknowledge),
  the sprite engine's two reads of a ROM line (`s32_sprite.sv` 670), the GunCon
  poll (`s32_guncon_snac.sv` 312, an acknowledge on the edge of the time-out) and
  the EEPROM. They can be modelled in the way of `RomCache` and `Intc`, and are
  what a next step of this development would take up, in this order. What the
  first three rely on of the SDRAM, `AckAnswersRequest`, is proved.
* The board descriptor, EEPROM part, titles and buttons of an MRA; indexed modes,
  SHA and ROT of the V60 reference; packed pixels, statistics and traces of the
  sprite reference; `validate_input_events` and all Markdown.
* Scripts that turn one file into another and keep nothing (`tools/v60x`,
  `verif/mame`, `verif/timing`, `tools/mister.py`'s parsing of its arguments).

What is left to prove: the images of `RomImages`, whose loops are functions of the
number of their steps, as those of `SpriteRef` are, and the returns of `V60Ref`
for programs that keep off their stack.
