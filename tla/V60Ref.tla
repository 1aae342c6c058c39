------------------------------ MODULE V60Ref -------------------------------
(***************************************************************************)
(* The reference of the V60, verif/cosim/v60_ref.py, and the programs that *)
(* gen_diff_program.py has it run.  Instructions are records instead of    *)
(* bytes, each as long as its encoding; the widths of the data are         *)
(* parameters.  A program is not in the memory it works on, and addresses  *)
(* written stay below Size, where the memory of the code would grow.       *)
(***************************************************************************)
EXTENDS Integers, Sequences

CONSTANTS
    Byte,           \* the values of a byte
    BitAnd(_, _), BitOr(_, _), BitXor(_, _),
    Registers, SP,  \* SP is R31
    Size,           \* of the memory, in bytes
    Programs,       \* the programs it may be given
    MaxCalls

\* By the width of an operand, 0 to 2: its bytes and its values.
Width(d) == CASE d = 0 -> 1 [] d = 1 -> 2 [] d = 2 -> 4
Modulus(d) == CASE d = 0 -> Byte [] d = 1 -> Byte * Byte [] d = 2 -> Byte * Byte * Byte * Byte
Words == 0 .. Modulus(2) - 1

F12 == {"mov", "movs", "movz", "movea", "add", "sub", "cmp", "and", "or", "xor", "not", "neg",
        "mul", "mulu", "div", "divu", "shl"}

\* The operands, [mode, reg, disp, disp2, len], and the instructions that can be encoded.
Fits(o, d) ==
    /\ o.len \in Nat
    /\ o.mode \in {"immediate", "register", "disp", "indirect", "disp deferred", "pc disp",
                   "pc deferred", "direct", "direct deferred", "autoincrement",
                   "autodecrement", "double"}
    /\ o.mode = "immediate" => o.disp \in 0 .. Modulus(d) - 1
    /\ o.mode \in {"direct", "direct deferred"} => o.disp \in Words
    /\ o.mode \in {"disp", "disp deferred", "pc disp", "pc deferred", "double"} => o.disp \in Int
    /\ o.mode = "double" => o.disp2 \in Int
    /\ o.mode \notin {"immediate", "pc disp", "pc deferred", "direct", "direct deferred"} =>
          o.reg \in Registers

Encodable(i) ==
    /\ i.op \in F12 => i.d1 \in 0 .. 2 /\ i.d2 \in 0 .. 2 /\ Fits(i.src, i.d1) /\ Fits(i.dst, i.d2)
    /\ i.op \in {"movs", "movz"} => i.d1 < i.d2
    /\ i.op \in {"jmp", "jsr", "ret", "push"} => Fits(i.src, 2)
    /\ i.op \in {"pop", "getpsw"} => Fits(i.dst, 2)
    /\ i.op = "test" => i.d1 \in 0 .. 2 /\ Fits(i.src, i.d1)

V60Assumption ==
    /\ Byte \in {2 * k : k \in 1 .. Byte} /\ Byte > 2
    /\ \A a, b \in Words : {BitAnd(a, b), BitOr(a, b), BitXor(a, b)} \subseteq Words
    /\ SP \in Registers /\ Size \in 1 .. Modulus(2)
    /\ \A p \in Programs : DOMAIN p \subseteq Nat /\ \A at \in DOMAIN p : Encodable(p[at])

VARIABLES
    program,        \* what is at each address
    r, pc, fl, mem, halted,
    last,           \* the instruction just done, its operands, where the result goes, and
                    \* the state before it
    calls           \* of each call still open, where it returns and its stack

state == <<r, pc, fl, mem, halted>>
vars == <<program, state, last, calls>>

NoLast == [op |-> "none"]
-----------------------------------------------------------------------------
M32(v) == v % Modulus(2)
dimext(v, d) == v % Modulus(d)
dimsgn(v, d) == dimext(v, d) >= Modulus(d) \div 2

\* The signed number of m values that v stands for.
sx(v, m) == IF v % m >= m \div 2 THEN (v % m) - m ELSE v % m

\* The number in the bytes of m from a on; there is nothing behind the memory.
ReadFrom(m, a, d) ==
    LET byte(k) == IF a + k \in DOMAIN m THEN m[a + k] ELSE 0
    IN  CASE d = 0 -> byte(0)
          [] d = 1 -> byte(0) + Byte * byte(1)
          [] d = 2 -> byte(0) + Byte * (byte(1) + Byte * (byte(2) + Byte * byte(3)))
Read(a, d) == ReadFrom(mem, a, d)

Digit(v, k) ==
    CASE k = 0 -> v % Byte
      [] k = 1 -> (v \div Byte) % Byte
      [] k = 2 -> ((v \div Byte) \div Byte) % Byte
      [] k = 3 -> (((v \div Byte) \div Byte) \div Byte) % Byte

Written(m, a, d, v) ==
    [x \in DOMAIN m |-> IF x - a \in 0 .. Width(d) - 1 THEN Digit(v, x - a) ELSE m[x]]

\* The address of an operand; regs are the registers it finds.
Address(o, regs, d) ==
    CASE o.mode = "disp" -> M32(regs[o.reg] + o.disp)
      [] o.mode = "indirect" -> regs[o.reg]
      [] o.mode = "disp deferred" -> Read(M32(regs[o.reg] + o.disp), 2)
      [] o.mode = "pc disp" -> M32(pc + o.disp)
      [] o.mode = "pc deferred" -> Read(M32(pc + o.disp), 2)
      [] o.mode = "direct" -> o.disp
      [] o.mode = "direct deferred" -> Read(o.disp, 2)
      [] o.mode = "autoincrement" -> regs[o.reg]
      [] o.mode = "autodecrement" -> M32(regs[o.reg] - Width(d))
      [] o.mode = "double" -> M32(Read(M32(regs[o.reg] + o.disp), 2) + o.disp2)

Stepped(o, regs, d) ==
    CASE o.mode = "autoincrement" -> [regs EXCEPT ![o.reg] = M32(@ + Width(d))]
      [] o.mode = "autodecrement" -> [regs EXCEPT ![o.reg] = M32(@ - Width(d))]
      [] OTHER -> regs

\* decode_am, for the value of an operand and for the place of a destination.
decode_value(o, regs, d) ==
    CASE o.mode = "immediate" -> [value |-> o.disp, regs |-> regs]
      [] o.mode = "register" -> [value |-> dimext(regs[o.reg], d), regs |-> regs]
      [] OTHER -> [value |-> Read(Address(o, regs, d), d), regs |-> Stepped(o, regs, d)]

decode_addr(o, regs, d) ==
    CASE o.mode = "immediate" -> [kind |-> "imm", value |-> o.disp, regs |-> regs]
      [] o.mode = "register" -> [kind |-> "reg", value |-> o.reg, regs |-> regs]
      [] OTHER -> [kind |-> "mem", value |-> Address(o, regs, d), regs |-> Stepped(o, regs, d)]

load(op, d) ==
    CASE op.kind = "imm" -> op.value [] op.kind = "reg" -> op.regs[op.value] [] op.kind = "mem" -> Read(op.value, d)

Stored(op, v, d) ==
    IF op.kind = "reg" THEN [op.regs EXCEPT ![op.value] = @ - dimext(@, d) + dimext(v, d)] ELSE op.regs

\* v goes to a register or to memory; there is nowhere to put it in an immediate.
store(op, v, d) ==
    /\ r' = Stored(op, v, d)
    /\ mem' = IF op.kind = "mem" THEN Written(mem, op.value, d, v) ELSE mem

setzs(f, v, d) == [f EXCEPT !.z = (dimext(v, d) = 0), !.s = dimsgn(v, d)]

psw(f) == LET bit(b, n) == IF b THEN n ELSE 0 IN bit(f.cy, 8) + bit(f.ov, 4) + bit(f.s, 2) + bit(f.z, 1)

\* A condition and, with the low bit set, its opposite.
cond(cc, f) ==
    LET half == CASE cc \div 2 = 0 -> f.ov [] cc \div 2 = 1 -> f.cy [] cc \div 2 = 2 -> f.z
                  [] cc \div 2 = 3 -> f.cy \/ f.z [] cc \div 2 = 4 -> f.s [] cc \div 2 = 5 -> TRUE
                  [] cc \div 2 = 6 -> f.s # f.ov [] cc \div 2 = 7 -> (f.s # f.ov) \/ f.z
    IN  half <=> cc % 2 = 0
-----------------------------------------------------------------------------
\* The arithmetic of _exec_f12, on the source a and the destination b: the
\* value to store, or NoValue, and the flags.
NoValue == -1

Sum(a, b, d) ==
    LET v == M32(b + a)
    IN  [value |-> v,
         fl |-> [setzs(fl, v, d) EXCEPT !.cy = dimext(b, d) + dimext(a, d) >= Modulus(d),
                                        !.ov = dimsgn(b, d) = dimsgn(a, d) /\ dimsgn(b, d) # dimsgn(v, d)]]

\* Mutant: the overflow of a sum.
DifferenceSummed(a, b, d) ==
    LET v == M32(b - a)
    IN  [value |-> v,
         fl |-> [setzs(fl, v, d) EXCEPT !.cy = dimext(b, d) < dimext(a, d),
                                        !.ov = dimsgn(b, d) = dimsgn(a, d) /\ dimsgn(b, d) # dimsgn(v, d)]]

Difference(a, b, d) ==
    LET v == M32(b - a)
    IN  [value |-> v,
         fl |-> [setzs(fl, v, d) EXCEPT !.cy = dimext(b, d) < dimext(a, d),
                                        !.ov = dimsgn(b, d) # dimsgn(a, d) /\ dimsgn(b, d) # dimsgn(v, d)]]

Logical(v, d) == [value |-> v, fl |-> [setzs(fl, v, d) EXCEPT !.ov = FALSE]]
Inverted(a, d) ==
    LET v == M32(-1 - a) IN [value |-> v, fl |-> [setzs(fl, v, d) EXCEPT !.ov = FALSE, !.cy = FALSE]]
Negated(a, d) ==
    LET v == M32(-a)
    IN  [value |-> v, fl |-> [setzs(fl, v, d) EXCEPT !.cy = dimext(a, d) # 0, !.ov = dimsgn(a, d) /\ dimsgn(v, d)]]

\* The overflow looks at the bits above, of a product kept in one word for
\* bytes and halfwords and in two for words.
Product(p, d) ==
    [value |-> M32(p),
     fl |-> [setzs(fl, M32(p), d) EXCEPT
                !.ov = (p % (IF d < 2 THEN Modulus(2) ELSE Modulus(2) * Modulus(2))) \div Modulus(d) # 0]]

Undivided == [value |-> NoValue, fl |-> fl]

abs(n) == IF n < 0 THEN -n ELSE n
toward_zero(n, by) == IF (n < 0) <=> (by < 0) THEN abs(n) \div abs(by) ELSE -(abs(n) \div abs(by))

Quotient(a, b, d) ==
    LET v == M32(toward_zero(sx(b, Modulus(d)), sx(a, Modulus(d))))
    IN  IF dimext(a, d) = 0 THEN Undivided
        ELSE [value |-> v,
              fl |-> [setzs(fl, v, d) EXCEPT
                        !.ov = dimext(b, d) = Modulus(d) \div 2 /\ dimext(a, d) = Modulus(d) - 1]]

UnsignedQuotient(a, b, d) ==
    IF a = 0 THEN Undivided
    ELSE [value |-> M32(b \div a), fl |-> [setzs(fl, M32(b \div a), d) EXCEPT !.ov = FALSE]]

\* A shift by the signed byte c, to the left or, below 0, to the right, bit by bit.
Shifted(a, b, d) ==
    LET c == sx(a, Byte)
        by[n \in 0 .. Byte] == IF n = 0 THEN dimext(b, d)
                               ELSE IF c >= 0 THEN M32(2 * by[n - 1]) ELSE by[n - 1] \div 2
        v == by[IF c >= 0 THEN c ELSE -c]
    IN  [value |-> v, fl |-> setzs(fl, v, d)]

Result(i, a, b) ==
    CASE i.op \in {"mov", "movz", "movea"} -> [value |-> a, fl |-> fl]
      [] i.op = "movs" -> [value |-> M32(sx(a, Modulus(i.d1))), fl |-> fl]
      [] i.op = "add" -> Sum(a, b, i.d2)
      [] i.op = "sub" -> Difference(a, b, i.d2)
      [] i.op = "cmp" -> [Difference(a, b, i.d2) EXCEPT !.value = NoValue]
      [] i.op = "and" -> Logical(BitAnd(b, a), i.d2)
      [] i.op = "or"  -> Logical(BitOr(b, a), i.d2)
      [] i.op = "xor" -> Logical(BitXor(b, a), i.d2)
      [] i.op = "not" -> Inverted(a, i.d2)
      [] i.op = "neg" -> Negated(a, i.d2)
      [] i.op = "mul" -> Product(sx(b, Modulus(i.d2)) * sx(a, Modulus(i.d2)), i.d2)
      [] i.op = "mulu" -> Product(dimext(b, i.d2) * dimext(a, i.d2), i.d2)
      [] i.op = "div" -> Quotient(a, b, i.d2)
      [] i.op = "divu" -> UnsignedQuotient(dimext(a, i.d2), dimext(b, i.d2), i.d2)
      [] i.op = "shl" -> Shifted(a, b, i.d2)
-----------------------------------------------------------------------------
Here == program[pc]
NoteTo(a, b, to) ==
    last' = [op |-> Here.op, at |-> pc, a |-> a, b |-> b, to |-> to, r |-> r, fl |-> fl, mem |-> mem]
Note(a, b) == NoteTo(a, b, <<>>)
Steps(ops) == ~halted /\ pc \in DOMAIN program /\ Here.op \in ops /\ UNCHANGED program
Quiet == UNCHANGED <<halted, calls>>

_exec_f12 ==
    /\ Steps(F12) /\ Quiet
    /\ LET o1 == decode_value(Here.src, r, Here.d1)
           o2 == decode_addr(Here.dst, o1.regs, Here.d2)
           b == load(o2, Here.d2)
           result == Result(Here, o1.value, b)
       IN  /\ IF result.value = NoValue THEN r' = o2.regs /\ UNCHANGED mem
              ELSE store(o2, result.value, Here.d2)
           /\ fl' = result.fl
           /\ NoteTo(o1.value, b, o2)
    /\ pc' = pc + 2 + Here.src.len + Here.dst.len

Halt == Steps({"halt"}) /\ halted' = TRUE /\ Note(0, 0) /\ UNCHANGED <<r, pc, fl, mem, calls>>
Nop == Steps({"nop"}) /\ pc' = pc + 1 /\ Note(0, 0) /\ Quiet /\ UNCHANGED <<r, fl, mem>>
Bcc ==
    /\ Steps({"bcc"}) /\ Quiet /\ Note(0, 0)
    /\ pc' = pc + IF cond(Here.cc, fl) THEN Here.disp ELSE Here.len
    /\ UNCHANGED <<r, fl, mem>>

Target(o) == LET k == decode_addr(o, r, 2)
             IN  [pc |-> IF k.kind = "mem" THEN k.value ELSE k.regs[k.value], regs |-> k.regs]
Jmp ==
    /\ Steps({"jmp"}) /\ Quiet /\ Note(0, 0)
    /\ pc' = Target(Here.src).pc /\ r' = Target(Here.src).regs
    /\ UNCHANGED <<fl, mem>>

Pushed(regs, v) ==
    /\ r' = [regs EXCEPT ![SP] = M32(@ - 4)]
    /\ mem' = Written(mem, M32(regs[SP] - 4), 2, v)

\* Mutant: the return address leaves the operand out.
return_address_short == pc + 1
return_address == M32(pc + 1 + Here.src.len)

Jsr ==
    /\ Steps({"jsr"}) /\ Len(calls) < MaxCalls /\ Note(0, 0)
    /\ Pushed(Target(Here.src).regs, return_address)
    /\ pc' = Target(Here.src).pc
    /\ calls' = Append(calls, [to |-> pc + 1 + Here.src.len, sp |-> r[SP]])
    /\ UNCHANGED <<fl, halted>>

Bsr ==
    /\ Steps({"bsr"}) /\ Len(calls) < MaxCalls /\ Note(0, 0)
    /\ Pushed(r, M32(pc + 3))
    /\ pc' = M32(pc + Here.disp)
    /\ calls' = Append(calls, [to |-> pc + 3, sp |-> r[SP]])
    /\ UNCHANGED <<fl, halted>>

Ret ==
    /\ Steps({"ret"}) /\ calls # <<>>
    /\ LET k == decode_value(Here.src, r, 2)
       IN  /\ pc' = Read(k.regs[SP], 2)
           /\ r' = [k.regs EXCEPT ![SP] = M32(@ + 4 + k.value)]
           /\ Note(k.value, 0)
    /\ calls' = SubSeq(calls, 1, Len(calls) - 1)
    /\ UNCHANGED <<fl, mem, halted>>

Push ==
    /\ Steps({"push"}) /\ Quiet
    /\ LET k == decode_value(Here.src, r, 2) IN Pushed(k.regs, k.value) /\ Note(k.value, 0)
    /\ pc' = pc + 1 + Here.src.len
    /\ UNCHANGED fl

\* The stack pointer moves after the store, which may be into itself.
Pop ==
    /\ Steps({"pop"}) /\ Quiet
    /\ LET k == decode_addr(Here.dst, r, 2)
           v == Read(k.regs[SP], 2)
       IN  /\ r' = [Stored(k, v, 2) EXCEPT ![SP] = M32(@ + 4)]
           /\ mem' = IF k.kind = "mem" THEN Written(mem, k.value, 2, v) ELSE mem
           /\ Note(v, 0)
    /\ pc' = pc + 1 + Here.dst.len
    /\ UNCHANGED fl

Test ==
    /\ Steps({"test"}) /\ Quiet
    /\ LET k == decode_value(Here.src, r, Here.d1)
       IN  /\ fl' = [setzs(fl, k.value, Here.d1) EXCEPT !.ov = FALSE, !.cy = FALSE]
           /\ r' = k.regs /\ Note(k.value, 0)
    /\ pc' = pc + 1 + Here.src.len
    /\ UNCHANGED mem

GetPsw ==
    /\ Steps({"getpsw"}) /\ Quiet /\ Note(0, 0)
    /\ store(decode_addr(Here.dst, r, 2), psw(fl), 2)
    /\ pc' = pc + 1 + Here.dst.len
    /\ UNCHANGED fl

step == _exec_f12 \/ Halt \/ Nop \/ Bcc \/ Jmp \/ Jsr \/ Bsr \/ Ret \/ Push \/ Pop \/ Test \/ GetPsw
-----------------------------------------------------------------------------
Given == program \in Programs /\ mem = [a \in 0 .. Size - 1 |-> 0]

Start ==
    /\ r \in [Registers -> {0}]
    /\ pc = 0 /\ fl = [z |-> FALSE, s |-> FALSE, ov |-> FALSE, cy |-> FALSE]
    /\ halted = FALSE /\ last = NoLast /\ calls = <<>>

Init == Given /\ Start

Next == step

Spec == Init /\ [][Next]_vars
-----------------------------------------------------------------------------
Op == program[last.at]
To == last.to

\* The destination, and whether all of it is there to be written.
Dest ==
    CASE To.kind = "imm" -> To.value [] To.kind = "reg" -> r[To.value] [] To.kind = "mem" -> Read(To.value, Op.d2)
Landed == To.kind = "reg" \/ (To.kind = "mem" /\ To.value + Width(Op.d2) <= Size)

Signed(m) == -(m \div 2) .. (m \div 2) - 1

\* What the sum, the difference, the product or the quotient of two operands is,
\* as numbers.
Exact(m, ua, ub, sa, sb, v) ==
    CASE Op.op = "add" -> v = (ub + ua) % m /\ (fl.cy <=> ub + ua >= m) /\ (fl.ov <=> sb + sa \notin Signed(m))
      [] Op.op = "sub" -> v = (ub - ua) % m /\ (fl.cy <=> ub < ua) /\ (fl.ov <=> sb - sa \notin Signed(m))
      [] Op.op = "neg" -> v = (0 - ua) % m /\ (fl.cy <=> ua > 0) /\ (fl.ov <=> 0 - sa \notin Signed(m))
      [] Op.op = "mulu" -> v = (ub * ua) % m /\ (fl.ov <=> ub * ua >= m)
      [] Op.op = "mul" -> v = (sb * sa) % m
      [] Op.op = "divu" -> IF ua = 0 THEN v = ub ELSE ub - v * ua \in 0 .. ua - 1
      [] Op.op = "div" ->
            LET q == IF sb = -(m \div 2) /\ sa = -1 THEN m \div 2 ELSE sx(v, m)
                rest == sb - q * sa
            IN  IF ua = 0 THEN v = ub
                ELSE /\ rest * rest < sa * sa /\ (rest = 0 \/ (rest < 0 <=> sb < 0))
                     /\ fl.ov <=> q \notin Signed(m)
      [] Op.op = "movs" -> sx(v, m) = sx(ua, Modulus(Op.d1))
      [] OTHER -> TRUE

Compared(ua, ub, sa, sb) ==
    /\ cond(2, fl) <=> ub < ua
    /\ cond(6, fl) <=> ub <= ua
    /\ cond(4, fl) <=> ub = ua
    /\ cond(12, fl) <=> sb < sa
    /\ cond(14, fl) <=> sb <= sa
    /\ \A cc \in 0 .. 15 : cond(cc, fl) # cond(IF cc % 2 = 0 THEN cc + 1 ELSE cc - 1, fl)

\* Nothing changes but, of the destination, as many bits as the operation has.
OnlyDest ==
    /\ \A x \in Registers : (To.kind = "reg" /\ To.value = x) \/ r[x] = To.regs[x]
    /\ To.kind = "reg" => Dest \div Modulus(Op.d2) = To.regs[To.value] \div Modulus(Op.d2)
    /\ \A x \in DOMAIN mem :
          (To.kind = "mem" /\ x - To.value \in 0 .. Width(Op.d2) - 1) \/ mem[x] = last.mem[x]

\* An operation on any width leaves the number, the carry and the overflow that
\* arithmetic gives, the conditions after a comparison say how the operands
\* stand, and nothing changes but the part of the destination written.
ResultsExact ==
    last.op \in F12 =>
        LET m == Modulus(Op.d2)
            ua == IF Op.op = "movs" THEN last.a ELSE dimext(last.a, Op.d2)
            ub == dimext(last.b, Op.d2)
            sa == sx(last.a, m)
            sb == sx(last.b, m)
        IN  /\ Op.op = "cmp" => Compared(ua, ub, sa, sb) /\ r = To.regs /\ mem = last.mem
            /\ Op.op # "cmp" /\ Landed => Exact(m, ua, ub, sa, sb, dimext(Dest, Op.d2))
            /\ Op.op \in F12 \ {"mov", "movs", "movz", "movea", "cmp", "div", "divu"} /\ Landed =>
                  (fl.z <=> dimext(Dest, Op.d2) = 0) /\ (fl.s <=> sx(Dest, m) < 0)
            /\ OnlyDest

\* A return goes behind the call it answers, with the stack as it was before
\* the call, but for what the return drops; however calls, pushes and pops nest.
ReturnsHome ==
    [][Len(calls') < Len(calls) =>
          LET call == calls[Len(calls)]
          IN  pc' = call.to /\ r'[SP] = M32(call.sp + last'.a)]_vars
=============================================================================
