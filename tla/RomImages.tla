----------------------------- MODULE RomImages -----------------------------
(***************************************************************************)
(* From MAME's declaration of a ROM set to the memory images of a          *)
(* simulation: gen_mra.py writes an MRA, whose parts are padded and        *)
(* interleaved from the ROM_LOAD macros, and make_sim_images.py interprets *)
(* the MRA as MiSTer does, with the ROM files it finds.  A byte of a ROM   *)
(* is its file and place, a region is named by its index; titles, buttons  *)
(* and the bits of the board descriptor are left out.                      *)
(***************************************************************************)
EXTENDS Integers, Sequences, FiniteSets, SequencesExt

CONSTANTS
    Sets,           \* the sets of the driver: [name, parent, lines]
    Media,          \* the ROM sources given: sequences of sets of [name, crc]
    Games, IgnoredSets, IgnoredParents, Unsupported,
    Stream,         \* STREAM_ORDER
    Slot,           \* REGION_SIZES
    SpriteSizes,    \* the sprite regions with bank metadata
    Patches,        \* by parent: the patches of maincpu, [offset, bytes]
    Bad             \* the CRC of a file that is not what its name says

RomAssumption == DOMAIN Slot = Range(Stream) /\ {"maincpu", "sprites"} \subseteq DOMAIN Slot

VARIABLES romset, media, pc, mra, images
vars == <<romset, media, pc, mra, images>>

FF == "FF"
Fill(n) == [i \in 1 .. n |-> FF]
Sizes(loads) == FoldLeft(LAMBDA acc, l : acc + l.size, 0, loads)

Given == romset \in Sets /\ media \in Media

Start == pc = "gen" /\ mra = <<>> /\ images = <<>>

Init == Given /\ Start
-----------------------------------------------------------------------------
\* The macros the pattern of parse matches; a _x suffix is the load's rep.
Read == {"ROM_LOAD", "ROM_LOAD16_BYTE", "ROM_LOAD16_WORD", "ROM_LOAD32_WORD", "ROM_LOAD32_BYTE",
         "ROM_LOAD64_BYTE", "ROM_LOAD64_WORD"}

\* parse: each load belongs to the region whose line came last; a load of
\* another macro is passed over without a word.
parse(lines) ==
    FoldLeft(LAMBDA regions, line :
        IF line.kind = "region" THEN Append(regions, [name |-> line.name, size |-> line.size, loads |-> <<>>])
        ELSE IF line.kind = "load" /\ regions # <<>> /\ line.load.macro \in Read
             THEN [regions EXCEPT ![Len(regions)].loads = Append(@, line.load)]
        ELSE regions, <<>>, lines)

\* The last region of a name, as the dictionary of gen keeps it.
Named(regions, name) == SelectLastInSeq(regions, LAMBDA r : r.name = name)
Has(regions, name) == Named(regions, name) # 0
Region(regions, name) == regions[Named(regions, name)]

Plain == {"ROM_LOAD", "ROM_LOAD16_WORD"}
ByteLanes == {"ROM_LOAD32_BYTE", "ROM_LOAD64_BYTE"}

\* The consecutive bytes a macro loads, and how far apart.
Shape(macro) ==
    CASE macro \in Plain -> [unit |-> 1, stride |-> 1]
      [] macro = "ROM_LOAD16_BYTE" -> [unit |-> 1, stride |-> 2]
      [] macro = "ROM_LOAD32_WORD" -> [unit |-> 2, stride |-> 4]
      [] macro = "ROM_LOAD64_WORD" -> [unit |-> 2, stride |-> 8]
      [] macro = "ROM_LOAD32_BYTE" -> [unit |-> 1, stride |-> 4]
      [] macro = "ROM_LOAD64_BYTE" -> [unit |-> 1, stride |-> 8]
Members(macro) == Shape(macro).stride \div Shape(macro).unit

\* Each load of a group is a unit behind the one before it.
InStep(group) ==
    \A k \in DOMAIN group :
        group[k].offset = group[1].offset + Shape(group[1].macro).unit * (k - 1)

\* What the assertions ask of the loads taken for one interleave: of byte lanes
\* in fours and eights only their number, and of no group that its loads are of
\* one macro.
GroupFits(group) ==
    /\ Len(group) = Members(group[1].macro)
    /\ group[1].macro \in ByteLanes \/ InStep(group)

\* The map of the k-th part: for each lane, which of its bytes goes there.
Lanes(macro, k) ==
    [lane \in 1 .. Shape(macro).stride |->
        IF (lane - 1) \div Shape(macro).unit = k - 1 THEN 1 + ((lane - 1) % Shape(macro).unit) ELSE 0]

Element(group) ==
    IF group[1].macro \in Plain THEN [kind |-> "part", file |-> group[1].file, crc |-> group[1].crc]
    ELSE [kind |-> "interleave", output |-> Shape(group[1].macro).stride,
          parts |-> [k \in DOMAIN group |-> [file |-> group[k].file, crc |-> group[k].crc,
                                             lanes |-> Lanes(group[1].macro, k)]]]

Repeats(load) ==
    IF load.macro \in {"ROM_LOAD", "ROM_LOAD16_BYTE", "ROM_LOAD32_WORD"} THEN load.rep ELSE 1

Smaller(m, n) == IF m < n THEN m ELSE n
Padding(n) == IF n = 0 THEN <<>> ELSE <<[kind |-> "fill", count |-> n]>>

\* Mutant: a gap between two loads is not padded.
pad_to_none(cursor, offset) == <<>>
pad_to(cursor, offset) == Padding(offset - cursor)

\* One turn over the loads that are left, from s.at on; s.fits says whether the
\* assertions held so far.
next_group(loads, s) ==
    LET first == loads[s.at]
        n == Smaller(Members(first.macro), Len(loads) + 1 - s.at)
        group == SubSeq(loads, s.at, s.at + n - 1)
    IN  IF s.at > Len(loads) THEN s
        ELSE [at     |-> s.at + n,
              fits   |-> s.fits /\ GroupFits(group) /\ first.offset >= s.cursor,
              cursor |-> first.offset + Repeats(first) * Sizes(group),
              out    |-> s.out \o pad_to(s.cursor, first.offset)
                               \o FlattenSeq([i \in 1 .. Repeats(first) |-> <<Element(group)>>])]

\* The turns over the loads, one at most for each.
turns(loads) ==
    LET After[k \in 0 .. Len(loads)] ==
            IF k = 0 THEN [at |-> 1, fits |-> TRUE, cursor |-> 0, out |-> <<>>]
            ELSE next_group(loads, After[k - 1])
    IN  After

\* The elements of a region; <<>> when an assertion fails.
interleave_parts(loads, size) ==
    LET last == turns(loads)[Len(loads)]
    IN  IF last.fits /\ last.cursor <= size THEN <<last.out \o Padding(size - last.cursor)>> ELSE <<>>

\* In the order of their offsets; loads of one offset as they were declared.
ByOffset(loads) ==
    LET Before(i) == {j \in DOMAIN loads : loads[j].offset < loads[i].offset
                                             \/ (loads[j].offset = loads[i].offset /\ j < i)}
    IN  [k \in DOMAIN loads |-> loads[CHOOSE i \in DOMAIN loads : Cardinality(Before(i)) = k - 1]]

Parts(region) == interleave_parts(ByOffset(region.loads), region.size)

Parent(set) == IF set.parent = "" THEN set.name ELSE set.parent

\* Whether the set is one this core is for.
Supported(set) ==
    /\ set.name \notin IgnoredSets /\ {set.name, Parent(set)} \cap IgnoredParents = {}
    /\ {set.name, Parent(set)} \cap Games # {} /\ set.name \notin Unsupported

SlotsHold(regions) ==
    \A name \in DOMAIN Slot : Has(regions, name) =>
        Sizes(Region(regions, name).loads) <= Slot[name]

\* gen: the rom elements of the MRA, the descriptor last.
gen ==
    /\ pc = "gen"
    /\ LET regions == parse(romset.lines)
           emitted == SelectSeq(Stream, LAMBDA name :
                          Has(regions, name) /\ Region(regions, name).loads # <<>>)
           patches(name) == IF name = "maincpu" /\ Parent(romset) \in DOMAIN Patches
                            THEN Patches[Parent(romset)] ELSE <<>>
           roms == [i \in DOMAIN emitted |->
                       [index |-> emitted[i], elements |-> Parts(Region(regions, emitted[i])),
                        patches |-> patches(emitted[i])]]
           fails == \/ Has(regions, "sprites") /\ Region(regions, "sprites").size \notin SpriteSizes
                    \/ ~SlotsHold(regions)
                    \/ \E i \in DOMAIN emitted : Region(regions, emitted[i]).size > Slot[emitted[i]]
                    \/ \E i \in DOMAIN roms : roms[i].elements = <<>>
       IN  IF ~Supported(romset) THEN pc' = "skipped" /\ UNCHANGED mra
           ELSE IF fails THEN pc' = "AssertionError" /\ UNCHANGED mra
           ELSE /\ pc' = "build"
                /\ mra' = [i \in DOMAIN roms |-> [roms[i] EXCEPT !.elements = @[1]]]
    /\ UNCHANGED <<romset, media, images>>
-----------------------------------------------------------------------------
\* load_part: in each source by name, else by CRC; the CRC of what is found
\* by name is not insisted on.  A file is the sequence of its bytes.
load_part(part) ==
    LET Found(source) ==
            IF \E e \in source : e.name = part.file
            THEN {CHOOSE e \in source : e.name = part.file}
            ELSE {e \in source : e.crc = part.crc}
        first == SelectInSeq(media, LAMBDA source : Found(source) # {})
    IN  IF first = 0 THEN <<>>
        ELSE <<LET e == CHOOSE e \in Found(media[first]) : TRUE
               IN  [i \in 1 .. e.size |-> <<e.crc, i - 1>>]>>

\* interleave: <<>> when the parts do not fit together.
interleave(el) ==
    LET loaded == [k \in DOMAIN el.parts |-> load_part(el.parts[k])]
        data == [k \in DOMAIN loaded |-> loaded[k][1]]
        used(k) == Cardinality({lane \in DOMAIN el.parts[k].lanes : el.parts[k].lanes[lane] # 0})
        groups == Len(data[1]) \div used(1)
        Source(lane) == CHOOSE k \in DOMAIN el.parts : el.parts[k].lanes[lane] # 0
    IN  IF \E k \in DOMAIN loaded : loaded[k] = <<>> THEN <<>>
        ELSE IF \E k \in DOMAIN data : Len(data[k]) \div used(k) # groups THEN <<>>
        ELSE <<[at \in 1 .. groups * el.output |->
                  LET lane == 1 + ((at - 1) % el.output)
                      k == Source(lane)
                  IN  data[k][((at - 1) \div el.output) * used(k) + el.parts[k].lanes[lane]]]>>

Bytes(el) ==
    CASE el.kind = "fill" -> <<Fill(el.count)>>
      [] el.kind = "part" -> load_part(el)
      [] el.kind = "interleave" -> interleave(el)

\* The patches over the stream; <<>> when a patch reaches beyond the stream.
Patched(stream, patches) ==
    IF \E i \in DOMAIN patches : patches[i].offset + Len(patches[i].bytes) > Len(stream) THEN <<>>
    ELSE <<FoldLeft(LAMBDA s, p : [at \in DOMAIN s |->
                 IF at - 1 \in p.offset .. p.offset + Len(p.bytes) - 1 THEN p.bytes[at - p.offset] ELSE s[at]],
             stream, patches)>>

\* build_rom: <<>> when a part is missing or a patch does not fit.
build_rom(rom) ==
    LET bytes == [i \in DOMAIN rom.elements |-> Bytes(rom.elements[i])]
    IN  IF \E i \in DOMAIN bytes : bytes[i] = <<>> THEN <<>>
        ELSE Patched(FlattenSeq([i \in DOMAIN bytes |-> bytes[i][1]]), rom.patches)

\* A region that was built and fits its slot, and the slot with FF behind it.
Fits(data, size) == data # <<>> /\ Len(data[1]) <= size
Filled(data, size) == data[1] \o Fill(size - Len(data[1]))

\* build_regions: every region filled to its slot with FF.
build_regions ==
    /\ pc = "build"
    /\ LET rom(name) == SelectInSeq(mra, LAMBDA r : r.index = name)
           data == [name \in DOMAIN Slot |-> IF rom(name) = 0 THEN <<<<>>>> ELSE build_rom(mra[rom(name)])]
           fails == \E name \in DOMAIN Slot : ~Fits(data[name], Slot[name])
       IN  IF fails THEN pc' = "AssertionError" /\ UNCHANGED images
           ELSE /\ pc' = "done"
                /\ images' = [name \in DOMAIN Slot |-> Filled(data[name], Slot[name])]
    /\ UNCHANGED <<romset, media, mra>>

Next == gen \/ build_regions

Spec == Init /\ [][Next]_vars
-----------------------------------------------------------------------------
\* What MAME puts at an address: the byte of the load that covers it, repeated
\* as its macro says.
Covers(load, at) ==
    LET shape == Shape(load.macro)
        span == (load.size \div shape.unit) * shape.stride
        far == at - load.offset
    IN  far >= 0 /\ far < Repeats(load) * span /\ far % shape.stride < shape.unit
Placed(load, at) ==
    LET shape == Shape(load.macro)
        far == (at - load.offset) % ((load.size \div shape.unit) * shape.stride)
    IN  <<load.crc, (far \div shape.stride) * shape.unit + (far % shape.stride)>>

\* The loads of a region: those between its line and the next region's.
LoadsOf(name) ==
    LET lines == romset.lines
        head == SelectLastInSeq(lines, LAMBDA l : l.kind = "region" /\ l.name = name)
    IN  {lines[i].load : i \in {j \in head + 1 .. Len(lines) :
            head # 0 /\ \A k \in head + 1 .. j : lines[k].kind # "region" /\ lines[j].kind = "load"}}
PatchOf(name, at) ==
    IF name = "maincpu" /\ Parent(romset) \in DOMAIN Patches
    THEN {p \in Range(Patches[Parent(romset)]) : at \in p.offset .. p.offset + Len(p.bytes) - 1} ELSE {}

\* The media hold no false file under a name of the set.
Genuine == \A i \in DOMAIN media : \A e \in media[i] : e.crc # Bad

\* Every load is of a macro that parse reads: the others it drops.
AllRead == \A i \in DOMAIN romset.lines :
    romset.lines[i].kind = "load" => romset.lines[i].load.macro \in Read

\* What no assertion looks at is in order: the loads taken for one interleave are
\* of one macro, and byte lanes in step.
LanesFollow ==
    LET regions == parse(romset.lines)
    IN  \A name \in {n \in DOMAIN Slot : Has(regions, n)} :
            LET loads == ByOffset(Region(regions, name).loads)
                starts == {turns(loads)[k].at : k \in DOMAIN loads \cup {0}} \cap DOMAIN loads
            IN  \A i \in starts :
                    LET n == Smaller(Members(loads[i].macro), Len(loads) + 1 - i)
                        group == SubSeq(loads, i, i + n - 1)
                    IN  /\ \A k \in DOMAIN group : group[k].macro = group[1].macro
                        /\ group[1].macro \in ByteLanes => InStep(group)

\* Out of genuine media comes, wherever the tools do not refuse, the memory
\* MAME builds: every load in its lanes, repeated as declared, the gaps FF and
\* the patches over them; nothing is dropped on the way.  Not so for the
\* declarations gen_mra.py neither builds nor refuses: a load of a macro it does
\* not read, an interleave of two macros, and byte lanes out of step.
ImagesAsDeclared ==
    pc = "done" /\ Genuine /\ AllRead /\ LanesFollow =>
        \A name \in DOMAIN Slot : \A at \in 0 .. Slot[name] - 1 :
            images[name][at + 1] =
                IF PatchOf(name, at) # {} THEN LET p == CHOOSE p \in PatchOf(name, at) : TRUE
                                               IN  p.bytes[at - p.offset + 1]
                ELSE IF \E l \in LoadsOf(name) : Covers(l, at)
                     THEN Placed(CHOOSE l \in LoadsOf(name) : Covers(l, at), at)
                ELSE FF
=============================================================================
