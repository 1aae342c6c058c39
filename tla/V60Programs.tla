---------------------------- MODULE V60Programs ----------------------------
(***************************************************************************)
(* The programs that gen_diff_program.py has the reference of the V60 run, *)
(* with one operation each, and how a program is put together.             *)
(***************************************************************************)
EXTENDS V60Ref

CONSTANTS
    Values,
    Seeded,         \* the registers gen works on, R0 to R7, as a sequence
    Scratch         \* where a generated program leaves its results
-----------------------------------------------------------------------------
Register(n) == [mode |-> "register", reg |-> n, len |-> 1]
InField(n) == [mode |-> "register", reg |-> n, len |-> 0]
Immediate(v, n) == [mode |-> "immediate", disp |-> v, len |-> 1 + n]
Direct(a) == [mode |-> "direct", disp |-> a, len |-> 5]
Two(op, d1, d2, s, t) == [op |-> op, d1 |-> d1, d2 |-> d2, src |-> s, dst |-> t]

Length(i) ==
    CASE i.op \in F12 -> 2 + i.src.len + i.dst.len
      [] i.op \in {"halt", "nop"} -> 1
      [] i.op = "bcc" -> i.len
      [] i.op = "bsr" -> 3
      [] i.op \in {"pop", "getpsw"} -> 1 + i.dst.len
      [] OTHER -> 1 + i.src.len

RECURSIVE Assembled(_, _)
Assembled(code, at) ==
    IF code = <<>> THEN [x \in {} |-> 0]
    ELSE LET rest == Assembled(Tail(code), at + Length(Head(code)))
         IN  [x \in DOMAIN rest \cup {at} |-> IF x = at THEN Head(code) ELSE rest[x]]

imm_to_reg(v, n) == Two("mov", 2, 2, Immediate(v, 4), InField(n))
alu_rr(op, s, t) == Two(op, 2, 2, Register(s), InField(t))
st_abs(n, a) == Two("mov", 2, 2, InField(n), Direct(a))
ALU == {"add", "sub", "cmp", "and", "or", "xor", "mul", "mulu", "div", "divu"}

\* One operation: a division has its divisor seeded first.
Operation(op, s, t, v) ==
    IF op \in {"div", "divu"} THEN <<imm_to_reg(v, s), alu_rr(op, s, t)>> ELSE <<alu_rr(op, s, t)>>

\* Seeds, an operation, the flags and the results.
gen(seeds, operation) ==
    LET n == Len(Seeded)
    IN  Assembled([i \in 1 .. n |-> imm_to_reg(seeds[i], Seeded[i])] \o operation
                  \o <<[op |-> "getpsw", dst |-> Register(Seeded[n])]>>
                  \o [i \in 1 .. n |-> st_abs(Seeded[i], Scratch + 4 * (i - 1))] \o <<[op |-> "halt"]>>, 0)

Generated ==
    {gen(seeds, Operation(op, s, t, v)) :
        seeds \in [1 .. Len(Seeded) -> Values], op \in ALU,
        s \in {Seeded[i] : i \in DOMAIN Seeded}, t \in {Seeded[i] : i \in DOMAIN Seeded}, v \in Values \ {0}}
=============================================================================
