------------------------------ MODULE WriteMux ------------------------------
(***************************************************************************)
(* The serializer in front of the SDRAM controller's write port,           *)
(* rtl/mem/s32_sdram_write_mux2.sv: client 0 (the ROM loader) has priority *)
(* over client 1 (the RF5C68 wave port).  A step is one edge of clk_sys.   *)
(* A word is a record of an address and a datum; byte enables are left out.*)
(***************************************************************************)
EXTENDS Naturals

CONSTANT NoWord        \* the payload before the first grant

VARIABLES d_req, d_word, owner, active, cooldown

mux == <<d_req, d_word, owner, active, cooldown>>

MuxInit ==
    /\ d_req = FALSE /\ d_word = NoWord /\ owner = 0
    /\ active = FALSE /\ cooldown = FALSE

MuxReset ==
    /\ d_req' = FALSE /\ d_word' = NoWord /\ owner' = 0
    /\ active' = FALSE /\ cooldown' = FALSE

c0_ack(d_ack) == active /\ owner = 0 /\ d_ack
c1_ack(d_ack) == active /\ owner = 1 /\ d_ack

\* One transfer ends when the acknowledge and the client's request are low.
CooldownNext(req, d_ack) ==
    (active /\ d_ack) \/ (cooldown /\ (d_ack \/ req[owner]))

CanGrant(d_ack) == ~active /\ ~cooldown /\ ~d_ack

\* req and word are functions of the client.
MuxStep(req, word, d_ack) ==
    /\ cooldown' = CooldownNext(req, d_ack)
    /\ IF CanGrant(d_ack) /\ (req[0] \/ req[1])
       THEN LET c == IF req[0] THEN 0 ELSE 1
            IN  owner' = c /\ d_word' = word[c] /\ d_req' = TRUE /\ active' = TRUE
       ELSE /\ UNCHANGED <<owner, d_word>>
            /\ d_req' = (d_req /\ ~(active /\ d_ack))
            /\ active' = (active /\ ~d_ack)
=============================================================================
