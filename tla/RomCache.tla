------------------------------ MODULE RomCache ------------------------------
(***************************************************************************)
(* The main ROM cache of the production builds, s32_ga_rom_cache in        *)
(* rtl/s32_core.sv, with its three readers and the SDRAM port behind it.   *)
(* A step is one edge of clk_sys.                                          *)
(*                                                                         *)
(* The cache is direct mapped: a line has an index and a tag, and what is  *)
(* in it is told by the line and the game whose ROM is loaded.  The place  *)
(* of a word in its line is latched with the line and left out.  The input *)
(* invalidate is tied to 0 where the cache is used.                        *)
(***************************************************************************)
EXTENDS Naturals

CONSTANTS
    Lines,               \* pairs of an index and a tag
    MaxGames,            \* bound on the games loaded one after the other
    MaxAhead, MaxCopied  \* lines the window takes, reads of a protection copy

CacheAssumption ==
    /\ Lines # {} /\ Lines \subseteq Nat \X Nat
    /\ {MaxGames, MaxAhead, MaxCopied} \subseteq Nat /\ MaxGames > 0

Clients == {"fetch", "prot", "data"}
Index(line) == line[1]
Tag(line) == line[2]
Indices == {Index(line) : line \in Lines}
Tags == {Tag(line) : line \in Lines}
AnyLine == CHOOSE line \in Lines : TRUE

VARIABLES
    ce,                                \* s32_v60_exec_cadence
    if_req, prot_req, m_req, addr,     \* the readers' wires and addresses
    ack_r, rmux, ahead, copied,
    ack, out,                          \* what each client reads
    cache_mem, cache_valid, cache_q, lookup_pending, lookup, filling, fill,
    rom_req, owed, game                \* port 0 of the SDRAM, the ROM in it

readerVars == <<ce, if_req, prot_req, m_req, addr, ack_r, rmux, ahead, copied>>
cacheVars  == <<ack, out, cache_mem, cache_valid, cache_q, lookup_pending, lookup, filling, fill, rom_req>>
vars       == <<readerVars, cacheVars, owed, game>>

Content(line) == [line |-> line, game |-> game]
Contents == [line : Lines, game : 0 .. MaxGames]
Blank == [line |-> AnyLine, game |-> 0]
BlankEntry == [tag |-> Tag(AnyLine), data |-> Blank]
NoRequest == [client |-> "data", line |-> AnyLine]

Init ==
    /\ ce = FALSE /\ if_req = FALSE /\ prot_req = FALSE /\ m_req = FALSE
    /\ addr = [c \in Clients |-> AnyLine]
    /\ ack_r = FALSE /\ rmux = Blank /\ ahead = 0 /\ copied = 0
    /\ ack = [c \in Clients |-> FALSE] /\ out = [c \in Clients |-> Blank]
    /\ cache_mem = [i \in Indices |-> BlankEntry] /\ cache_valid = {} /\ cache_q = BlankEntry
    /\ lookup_pending = FALSE /\ lookup = NoRequest
    /\ filling = FALSE /\ fill = NoRequest /\ rom_req = FALSE
    /\ owed = [pending |-> FALSE, line |-> AnyLine] /\ game = 1

(***************************************************************************)
(* The readers.  The V60 moves on every other edge.  Its prefetch unit and *)
(* the protection copy drop a request that was answered; the bus of the    *)
(* V60 drops m_req when it pleases.  While an instruction waits for data   *)
(* the window fills, and a copy ends and is not started again.             *)
(***************************************************************************)
data_req == m_req /\ ~ack_r

FetchStep ==
    \/ if_req /\ if_req' = ~(ce /\ ack["fetch"])
       /\ ahead' = IF data_req THEN ahead ELSE 0
    \/ ~if_req /\ if_req' = FALSE /\ ahead' = IF data_req THEN ahead ELSE 0
    \/ ~if_req /\ ce /\ if_req' = TRUE /\ (data_req => ahead < MaxAhead)
       /\ ahead' = IF data_req THEN ahead + 1 ELSE 0

ProtStep ==
    \/ prot_req /\ prot_req' = ~ack["prot"]
       /\ copied' = IF data_req THEN copied ELSE 0
    \/ ~prot_req /\ prot_req' = FALSE /\ copied' = IF data_req THEN copied ELSE 0
    \/ ~prot_req /\ prot_req' = TRUE /\ (data_req => copied < MaxCopied)
       /\ copied' = IF data_req THEN copied + 1 ELSE 0

BusStep ==
    /\ m_req' \in IF m_req THEN {TRUE, ~ack_r} ELSE BOOLEAN
    /\ ack_r' = (m_req /\ (ack_r \/ ack["data"]))
    /\ rmux' = IF data_req /\ ack["data"] THEN out["data"] ELSE rmux

Raises(c) == CASE c = "fetch" -> ~if_req /\ if_req'
               [] c = "prot"  -> ~prot_req /\ prot_req'
               [] OTHER       -> ~m_req /\ m_req'

Addresses ==
    LET New(c) == IF Raises(c) THEN Lines ELSE {addr[c]} IN
    \E f \in New("fetch"), p \in New("prot"), d \in New("data") :
        addr' = [fetch |-> f, prot |-> p, data |-> d]

Readers == ce' = ~ce /\ FetchStep /\ ProtStep /\ BusStep /\ Addresses

(***************************************************************************)
(* The cache: it looks up one line at a time, reading its memory on one    *)
(* edge and comparing on the next, and fetches a missing line as a whole.  *)
(***************************************************************************)
Asks == [fetch |-> if_req, prot |-> prot_req, data |-> data_req]

Wants(c) == Asks[c] /\ ~ack[c]

Chosen == CASE Wants("fetch") -> "fetch" [] Wants("prot") -> "prot" [] OTHER -> "data"
Launches == ~filling /\ ~lookup_pending /\ \E c \in Clients : Wants(c)

\* Mutant: the tag of a line is not compared.
HitUntagged == Index(lookup.line) \in cache_valid

Hit == Index(lookup.line) \in cache_valid /\ cache_q.tag = Tag(lookup.line)

Misses == ~filling /\ lookup_pending /\ ~Hit

Answers(c, arrives) ==
    \/ filling /\ arrives /\ fill.client = c
    \/ ~filling /\ lookup_pending /\ Hit /\ lookup.client = c

\* Mutant: an acknowledge is a pulse.
AckPulsed(arrives) == [c \in Clients |-> Answers(c, arrives)]

AckNext(arrives) == [c \in Clients |-> Answers(c, arrives) \/ (ack[c] /\ Asks[c])]

\* The completed line, rom_data.
Entry == [tag |-> Tag(fill.line), data |-> Content(owed.line)]

Cache(arrives) ==
    /\ ack' = AckNext(arrives)
    /\ out' = [c \in Clients |->
        IF Answers(c, arrives) THEN IF filling THEN Entry.data ELSE cache_q.data ELSE out[c]]
    /\ lookup_pending' = Launches
    /\ lookup' = IF Launches THEN [client |-> Chosen, line |-> addr[Chosen]] ELSE lookup
    /\ cache_q' = cache_mem[Index(IF lookup_pending THEN lookup.line ELSE addr[Chosen])]
    /\ rom_req' = Misses
    /\ fill' = IF Misses THEN lookup ELSE fill
    /\ filling' = (Misses \/ (filling /\ ~arrives))
    /\ IF filling /\ arrives
       THEN /\ cache_mem' = [cache_mem EXCEPT ![Index(fill.line)] = Entry]
            /\ cache_valid' = cache_valid \cup {Index(fill.line)}
       ELSE UNCHANGED <<cache_mem, cache_valid>>

(***************************************************************************)
(* Port 0 of the SDRAM controller latches the address of a pulsed request  *)
(* and answers it once, whenever it likes.                                 *)
(***************************************************************************)
Memory(arrives) ==
    /\ arrives => owed.pending
    /\ owed' = IF rom_req THEN [pending |-> TRUE, line |-> fill.line]
               ELSE [owed EXCEPT !.pending = @ /\ ~arrives]

Clock(arrives) == Readers /\ Cache(arrives) /\ Memory(arrives) /\ UNCHANGED game

\* A reset, after which the ROM may be another.  It is held for longer than the
\* SDRAM takes to answer.
Reset ==
    /\ ce' = FALSE /\ if_req' = FALSE /\ prot_req' = FALSE /\ m_req' = FALSE
    /\ ack_r' = FALSE /\ ahead' = 0 /\ copied' = 0
    /\ ack' = [c \in Clients |-> FALSE] /\ out' = [c \in Clients |-> Blank]
    /\ cache_valid' = {} /\ lookup_pending' = FALSE /\ lookup' = NoRequest
    /\ filling' = FALSE /\ fill' = NoRequest /\ rom_req' = FALSE
    /\ owed' = [owed EXCEPT !.pending = FALSE]
    /\ game' \in {game, game + 1} /\ game' <= MaxGames
    /\ UNCHANGED <<addr, rmux, cache_mem, cache_q>>

Next == (\E arrives \in BOOLEAN : Clock(arrives)) \/ Reset

Spec == Init /\ [][Next]_vars

\* The clock runs and the SDRAM answers every request.
FairSpec == Spec /\ []<>ce /\ []<>~ce /\ []<>~owed.pending
-----------------------------------------------------------------------------
\* A reader that sees its acknowledge reads the line it asks for, of the game
\* that is loaded, whatever the others looked up, missed or replaced meanwhile;
\* and the cache never has two bursts out, so no answer is taken for another.
AnswersOwn ==
    /\ if_req /\ ack["fetch"] => out["fetch"] = Content(addr["fetch"])
    /\ prot_req /\ ack["prot"] => out["prot"] = Content(addr["prot"])
    /\ m_req /\ ack_r => rmux = Content(addr["data"])
    /\ rom_req => ~owed.pending

\* Every read is answered, the V60's data also, which comes last.
EveryReadAnswered ==
    /\ []<>~if_req
    /\ []<>~prot_req
    /\ []<>~data_req
=============================================================================
