------------------------------ MODULE MCSdram -------------------------------
(***************************************************************************)
(* Small instances of Sdram for TLC.                                       *)
(***************************************************************************)
EXTENDS Sdram

Zero == [lane \in {0, 1} |-> 0]
R(bank, row, col, burst) ==
    [bank |-> bank, row |-> row, col |-> col, burst |-> burst,
     data |-> Zero, be |-> {}]
W(bank, row, col, byte, be) ==
    [bank |-> bank, row |-> row, col |-> col, burst |-> FALSE,
     data |-> [lane \in {0, 1} |-> byte], be |-> be]

\* A power-up sequence with the code's order and legal gaps, shortened.
MCInitCycles  == 32
MCInitCommand == [i \in 1 .. MCInitCycles |->
    CASE i = 31 -> "PRE" [] i \in {28, 18} -> "REF" [] i = 8 -> "MRS" [] OTHER -> "NOP"]

\* Three contending readers, one of them the tile port, all on single cells.
PortsReads  == {0, 1, 2}
LevelReads  == {1, 2}
MCRequestsReads == [p \in PortsReads |-> {R(0, p % 2, 0, FALSE)}]
MCMemReads  == [c \in Cells |-> Zero]

\* Every word of a line differs from its neighbours.
MCMemData == [c \in Cells |-> [lane \in {0, 1} |-> IF c[3] % 2 = lane THEN 2 + ((c[3] \div 2) % 2) ELSE 0]]

\* The tile port, a background port and the writer, all level held.
PortsLive == {1, 4}
LevelLive == {1, 4, WR}
MCRequestsLive == [p \in PortsLive \cup {WR} |->
    IF p = WR THEN {W(0, 0, 0, 0, {0, 1})} ELSE {R(0, 0, 0, FALSE)}]

\* A burst reader and a writer that revisits its row, changes row, changes bank
\* and writes one byte lane.
PortsMem == {5}
LevelMem == {WR}
MCRequestsMem == [p \in PortsMem \cup {WR} |->
    IF p = WR THEN {W(0, 0, 2, 1, {0, 1}), W(0, 1, 2, 1, {0, 1}), W(1, 0, 5, 1, {0})}
              ELSE {R(0, 0, 0, TRUE)}]
=============================================================================
