---------------------------- MODULE SdramArbiter ----------------------------
(***************************************************************************)
(* The read arbiter of the SDRAM controller, rtl/mem/sdram.sv, as pure     *)
(* operators: which of the six read ports is granted next.  The tile port  *)
(* p1 owns one deadline credit; every other grant follows a rotation whose *)
(* pointer a credit grant leaves where it was.                             *)
(***************************************************************************)
EXTENDS Integers

PortIds  == 0 .. 5          \* p0 .. p5
TilePort == 1
WR       == 7               \* the code the grant register uses for the write port

\* background_pend: some reader other than the tile port is waiting.
BackgroundPend(pend) == \E p \in DOMAIN pend \ {TilePort, WR} : pend[p]

\* p1_fairness_block
FairnessBlock(pend, p1_was_last) == p1_was_last /\ BackgroundPend(pend)

\* Mutant: the tile port has no credit and waits its turn.
NoPriorityGrant(pend, p1_was_last) == FALSE

\* p1_priority_grant: the tile port uses its credit.
PriorityGrant(pend, p1_was_last) ==
    TilePort \in DOMAIN pend /\ pend[TilePort] /\ ~p1_was_last

\* Mutant: an arm of the rotation forgets p4.
EligibleWithoutP4(pend, p1_was_last) ==
    {p \in DOMAIN pend \cap (PortIds \ {4}) :
        pend[p] /\ (p = TilePort => ~FairnessBlock(pend, p1_was_last))}

\* The readers the rotation may grant.
Eligible(pend, p1_was_last) ==
    {p \in DOMAIN pend \cap PortIds :
        pend[p] /\ (p = TilePort => ~FairnessBlock(pend, p1_was_last))}

\* How far the rotation travels from rr_next before it meets p.
Distance(rr_next, p) == IF p >= rr_next THEN p - rr_next ELSE p - rr_next + 6

ReadValid(pend, p1_was_last) ==
    PriorityGrant(pend, p1_was_last) \/ Eligible(pend, p1_was_last) # {}

\* read_grant: the credit first, else the first eligible port from rr_next on.
ReadGrant(pend, rr_next, p1_was_last) ==
    IF PriorityGrant(pend, p1_was_last)
    THEN TilePort
    ELSE CHOOSE p \in Eligible(pend, p1_was_last) :
            \A q \in Eligible(pend, p1_was_last) :
                Distance(rr_next, p) <= Distance(rr_next, q)

\* The rotation pointer after a grant that was not a credit grant.
After(p) == IF p = 5 THEN 0 ELSE p + 1
=============================================================================
