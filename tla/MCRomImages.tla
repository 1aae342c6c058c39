---------------------------- MODULE MCRomImages ----------------------------
(* One or two groups of loads of every macro in the program region, whole,  *)
(* broken, overlapping or too long, and a few sets of several regions.      *)
EXTENDS RomImages

FileSize(tag) == IF tag = "A" THEN 2 ELSE 4
Load(macro, rep, offset, tag, k) ==
    [macro |-> macro, rep |-> rep, offset |-> offset, size |-> FileSize(tag), file |-> <<tag, k>>, crc |-> <<tag, k, "crc">>]
Group(macro, rep, offset, tag) ==
    [k \in 1 .. Members(macro) |-> Load(macro, rep, offset + Shape(macro).unit * (k - 1), tag, k)]
Macros == {"ROM_LOAD", "ROM_LOAD16_WORD", "ROM_LOAD16_BYTE", "ROM_LOAD32_WORD", "ROM_LOAD64_WORD",
           "ROM_LOAD32_BYTE", "ROM_LOAD64_BYTE"}
Repeating == {"ROM_LOAD", "ROM_LOAD16_BYTE", "ROM_LOAD32_WORD"}
Once(tag) == {Group(m, 1, o, tag) : m \in Macros, o \in {0, 4, 8}}
Wholes(tag) == Once(tag) \cup {Group(m, 2, o, tag) : m \in Repeating, o \in {0, 4, 8}}

\* A load short, one out of its place, and one of another macro.
Broken(tag) == {Tail(Group(m, 1, 0, tag)) : m \in Macros}
    \cup {[Group(m, 1, 0, tag) EXCEPT ![2].offset = @ + 1] : m \in Macros \ Plain}
    \cup {[Group(m, 1, 0, tag) EXCEPT ![2].macro = "ROM_LOAD"] : m \in Macros \ Plain}
Unread == Load("ROM_LOAD16_WORD_SWAP", 1, 4, "A", 1)
Header(name, size) == [kind |-> "region", name |-> name, size |-> size]
Body(loads) == [i \in DOMAIN loads |-> [kind |-> "load", load |-> loads[i]]]
Main(loads, size) == <<Header("maincpu", size)>> \o Body(loads)
Other == [kind |-> "other"]

MainRoms == {Main(a, n) : a \in Wholes("A") \cup Wholes("B") \cup Broken("A") \cup Broken("B"), n \in {8, 16}}
    \cup {Main(a \o b, 16) : a \in Wholes("A"), b \in Once("B") \cup Broken("B")}
Full == Main(Group("ROM_LOAD16_BYTE", 1, 0, "B"), 8)
Sprites(n) == <<Header("sprites", n)>> \o Body(Group("ROM_LOAD64_WORD", 1, 0, "A"))
Wholesets == {Full \o Sprites(8), Full \o Sprites(6), Full \o Sprites(16), Full \o <<Header("subpcb_maincpu", 8), Other>> \o Body(Group("ROM_LOAD", 1, 0, "A")),
    Main(Group("ROM_LOAD", 1, 0, "A") \o <<Unread>>, 8),
    Full \o <<Header("maincpu", 16)>> \o Body(Group("ROM_LOAD", 2, 4, "A")), Body(Group("ROM_LOAD", 1, 0, "A")) \o Full}

SomeSets == {[name |-> "game", parent |-> "", lines |-> l] : l \in MainRoms \cup Wholesets}
    \cup {[name |-> n, parent |-> p, lines |-> Full] :
             n \in {"clone", "ignored", "game", "other"}, p \in {"", "game", "ignoredparent", "patched", "short"}}

Files == {[name |-> <<t, k>>, crc |-> <<t, k, "crc">>, size |-> FileSize(t)] : t \in {"A", "B"}, k \in 1 .. 8}
Renamed == {[e EXCEPT !.name = <<"renamed", @>>] : e \in Files}
Clone == {e \in Files : e.name = <<"B", 1>>}
SomeMedia == {<<Files>>, <<Clone, Files \ Clone>>, <<{}, Renamed>>, <<Files \ Clone>>,
              <<{[e EXCEPT !.crc = Bad] : e \in Clone}, Files>>}

MCSlot == [name \in {"maincpu", "tiles", "sprites"} |-> IF name = "tiles" THEN 8 ELSE 16]
MCStream == <<"maincpu", "tiles", "sprites">>
MCPatches == [p \in {"patched", "short"} |-> <<[offset |-> IF p = "short" THEN 7 ELSE 3, bytes |-> <<"p0", "p1">>]>>]
=============================================================================
