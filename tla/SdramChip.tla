----------------------------- MODULE SdramChip ------------------------------
(***************************************************************************)
(* What the SDR SDRAM chip does with the command it samples on a clock     *)
(* edge, from the behavioural chip of the repository's closed-loop tests,  *)
(* verif/common/s32_sdr_chip_model.sv.  A command is a record              *)
(*   op  the JEDEC command,                                                *)
(*   at  the bank, row, column, write data and byte enables on the pins,   *)
(*   ap  address pin A10: auto-precharge on READ and WRITE.                *)
(***************************************************************************)
EXTENDS Integers

NoRow  == -1     \* the bank is precharged
NoWord == [lane \in {0, 1} |-> -1]   \* a floating or undefined data bus

Cols  == 0 .. 7  \* the columns of one 16-byte line; longer bursts do not exist
Ops   == {"NOP", "ACT", "READ", "WRITE", "PRE", "REF", "MRS"}

\* row_open and act_row of every bank after the command.
ChipOpen(open, cmd) ==
    CASE cmd.op = "ACT"            -> [open EXCEPT ![cmd.at.bank] = cmd.at.row]
      [] cmd.op \in {"PRE", "REF"} -> [b \in DOMAIN open |-> NoRow]
      [] cmd.op \in {"READ", "WRITE"} /\ cmd.ap ->
            [open EXCEPT ![cmd.at.bank] = NoRow]
      [] OTHER                     -> open

\* The cell a READ or WRITE touches: the column of the row open in its bank.
Cell(open, at) == <<at.bank, open[at.bank], at.col>>

\* A WRITE stores the byte lanes its mask leaves enabled.
ChipMem(mem, open, cmd) ==
    IF cmd.op = "WRITE" /\ open[cmd.at.bank] # NoRow
    THEN [mem EXCEPT ![Cell(open, cmd.at)] =
             [lane \in {0, 1} |-> IF lane \in cmd.at.be
                                  THEN cmd.at.data[lane] ELSE @[lane]]]
    ELSE mem

\* The word a READ puts in the CAS pipeline.
ChipRead(mem, open, cmd) ==
    IF cmd.op = "READ" /\ open[cmd.at.bank] # NoRow
    THEN mem[Cell(open, cmd.at)]
    ELSE NoWord

(***************************************************************************)
(* Cycles since the last ACT, PRE (explicit or automatic), REF and WRITE,  *)
(* counted up to MaxAge, to state the spacing the data sheet asks for.     *)
(***************************************************************************)
MaxAge == 8
FreshAge == [act |-> MaxAge, pre |-> MaxAge, ref |-> MaxAge, wr |-> MaxAge]

Older(n) == IF n < MaxAge THEN n + 1 ELSE n

ChipAge(age, cmd) ==
    [act |-> IF cmd.op = "ACT" THEN 1 ELSE Older(age.act),
     pre |-> IF cmd.op = "PRE" \/ (cmd.op \in {"READ", "WRITE"} /\ cmd.ap)
             THEN 1 ELSE Older(age.pre),
     ref |-> IF cmd.op = "REF" THEN 1 ELSE Older(age.ref),
     wr  |-> IF cmd.op = "WRITE" THEN 1 ELSE Older(age.wr)]

\* The command respects tRCD = 3, tRP = 2, tRC = 7, tRFC = 7 and tWR = 2.
WellSpaced(age, cmd) ==
    /\ cmd.op \in {"READ", "WRITE"} => age.act >= 3
    /\ cmd.op = "ACT" => age.pre >= 2 /\ age.act >= 7 /\ age.ref >= 7
    /\ cmd.op = "REF" => age.pre >= 2 /\ age.ref >= 7
    /\ cmd.op = "PRE" => age.wr >= 2

\* What the chip model reports as a protocol error, and the data sheet's rule
\* that ACT and REF find the bank, or every bank, precharged.
LegalCommand(open, cmd) ==
    /\ cmd.op \in {"READ", "WRITE"} => open[cmd.at.bank] # NoRow
    /\ cmd.op = "ACT" => open[cmd.at.bank] = NoRow
    /\ cmd.op \in {"REF", "MRS"} => \A b \in DOMAIN open : open[b] = NoRow
=============================================================================
