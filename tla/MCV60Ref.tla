----------------------------- MODULE MCV60Ref ------------------------------
(* Two registers and the stack pointer; bytes of two bits, words of eight.  *)
EXTENDS V60Programs, Bitwise

AndOf(a, b) == a & b
OrOf(a, b) == a | b
XorOf(a, b) == a ^^ b

SomeSeeded == <<"r0", "r1">>

\* Every pair of bytes and most of halfwords, with more in the rest of the registers.
NarrowOperations ==
    {Assembled(<<imm_to_reg(a + 64, "r0"), imm_to_reg(b + 128, "r1"),
                 Two(op, IF op = "shl" THEN 0 ELSE d, IF op \in {"movs", "movz"} THEN d + 1 ELSE d,
                     Register("r0"), InField("r1")),
                 [op |-> "halt"]>>, 0) :
        op \in F12 \ {"mov", "movea"}, d \in 0 .. 1,
        a \in {0, 1, 2, 3, 7, 8, 9, 15}, b \in {0, 1, 2, 3, 7, 8, 14, 15}}

Inc == [mode |-> "autoincrement", reg |-> "r0", len |-> 1]
Dec == [mode |-> "autodecrement", reg |-> "r0", len |-> 1]
Ind == [mode |-> "indirect", reg |-> "r0", len |-> 1]
Disp(k) == [mode |-> "disp", reg |-> "r0", disp |-> k, len |-> 2]
Deferred(k) == [mode |-> "disp deferred", reg |-> "r0", disp |-> k, len |-> 2]
Double(k, l) == [mode |-> "double", reg |-> "r0", disp |-> k, disp2 |-> l, len |-> 3]
FromPc(k) == [mode |-> "pc disp", disp |-> k, len |-> 2]
FromPcDeferred(k) == [mode |-> "pc deferred", disp |-> k, len |-> 2]
DirectDeferred(a) == [mode |-> "direct deferred", disp |-> a, len |-> 5]

\* Each addressing mode, over pointers in memory.
Modes ==
    {Assembled(<<imm_to_reg(68, "r0"), st_abs("r0", 64), st_abs("r0", 72)>>
               \o <<Two(op, 2, 2, s, InField("r1")), [op |-> "test", d1 |-> 2, src |-> t],
                    [op |-> "nop"], [op |-> "halt"]>>, 0) :
        op \in {"mov", "add", "movea"}, s \in {Inc, Dec, Ind, Disp(4), Deferred(4), Double(4, 4), DirectDeferred(64)},
        t \in {Ind, FromPc(40), FromPcDeferred(64 - 24)}}

\* Two calls deep, with pushes and pops between and what a return drops.
Calls(inner, drop) ==
    Assembled(<<imm_to_reg(96, "sp"), imm_to_reg(5, "r0"),
                [op |-> "push", src |-> Register("r0")],
                [op |-> "jsr", src |-> FromPc(5)],
                [op |-> "bcc", cc |-> 10, disp |-> 17, len |-> 2],
                [op |-> "push", src |-> Register("r0")],
                [op |-> "bsr", disp |-> inner],
                [op |-> "pop", dst |-> Register("r1")],
                [op |-> "ret", src |-> Immediate(drop, 0)],
                [op |-> "nop"],
                [op |-> "jmp", src |-> FromPc(2 + 1)],
                [op |-> "ret", src |-> Immediate(0, 0)],
                [op |-> "halt"]>>, 0)
SomePrograms == Generated \cup NarrowOperations \cup Modes \cup {Calls(7, d) : d \in {0, 4}}
=============================================================================
