---------------------------- MODULE ToolsProofs -----------------------------
(***************************************************************************)
(* Proofs about the V60 reference, for bytes of any even number of values, *)
(* any registers and memory, and any programs that can be encoded.         *)
(***************************************************************************)
EXTENDS Tools, SpriteProofs, Integers, TLAPS

-----------------------------------------------------------------------------
(***************************************************************************)
(* Division.  Products of two variables are given names, so that what is   *)
(* left of a step is linear.                                               *)
(***************************************************************************)
LEMMA Divided ==
    ASSUME NEW m \in Nat \ {0}, NEW n \in Int
    PROVE  n % m \in 0 .. m - 1 /\ n \div m \in Int /\ n = m * (n \div m) + (n % m)
OBVIOUS

LEMMA Quotient ==
    ASSUME NEW m \in Nat \ {0}, NEW q \in Int, NEW s \in 0 .. m - 1,
           NEW n \in Int, n = m * q + s
    PROVE  n \div m = q /\ n % m = s
OBVIOUS

LEMMA Remains ==
    ASSUME NEW m \in Nat \ {0}, NEW n \in 0 .. m - 1
    PROVE  n % m = n /\ n \div m = 0
<1>1. n = m * 0 + n
  OBVIOUS
<1> QED BY <1>1, Quotient

\* Multiples of m do not matter modulo m.
LEMMA ModShift ==
    ASSUME NEW m \in Nat \ {0}, NEW n \in Int, NEW k \in Int
    PROVE  (n + m * k) % m = n % m
<1>1. PICK q \in Int, s \in 0 .. m - 1 : n = m * q + s /\ s = n % m
  BY Divided
<1>2. PICK u \in Int : u = q + k
  OBVIOUS
<1>3. m * u = m * q + m * k
  BY <1>2
<1>4. PICK x \in Int, y \in Int, z \in Int : x = m * q /\ y = m * k /\ z = m * u
  OBVIOUS
<1>5. n = x + s /\ z = x + y
  BY <1>1, <1>3, <1>4
<1>6. PICK e \in Int : e = n + y
  BY <1>4
<1>7. e = m * u + s
  BY <1>4, <1>5, <1>6
<1>8. e % m = s
  BY <1>7, Quotient
<1> QED BY <1>1, <1>4, <1>6, <1>8

\* A remainder by a multiple keeps the remainder.
LEMMA ModMod ==
    ASSUME NEW m \in Nat \ {0}, NEW k \in Nat \ {0}, NEW w \in Nat \ {0}, w = m * k, NEW n \in Int
    PROVE  (n % w) % m = n % m
<1>1. PICK q \in Int, s \in 0 .. w - 1 : n = w * q + s /\ s = n % w
  BY Divided
<1>2. PICK t \in Int : t = k * q
  OBVIOUS
<1>3. w * q = m * t
  BY <1>2
<1>4. n = s + m * t
  <2>1. PICK x \in Int : x = w * q
    OBVIOUS
  <2>2. x = m * t /\ n = x + s
    BY <1>1, <1>3, <2>1
  <2> QED BY <2>1, <2>2
<1>5. s \in Int
  OBVIOUS
<1>6. (s + m * t) % m = s % m
  BY <1>5, ModShift
<1> QED BY <1>1, <1>4, <1>6

\* Sums and differences of remainders.
LEMMA ModSum ==
    ASSUME NEW m \in Nat \ {0}, NEW a \in Int, NEW b \in Int
    PROVE  /\ ((b % m) + (a % m)) % m = (b + a) % m
           /\ ((b % m) - (a % m)) % m = (b - a) % m
<1>1. PICK q \in Int, s \in 0 .. m - 1 : a = m * q + s /\ s = a % m
  BY Divided
<1>2. PICK p \in Int, t \in 0 .. m - 1 : b = m * p + t /\ t = b % m
  BY Divided
<1>3. PICK u \in Int, v \in Int : u = p + q /\ v = p - q
  OBVIOUS
<1>4. m * u = m * p + m * q /\ m * v = m * p - m * q
  BY <1>3
<1>5. PICK c \in Int, d \in Int, e \in Int, f \in Int :
          c = m * u /\ d = m * v /\ e = m * p /\ f = m * q
  OBVIOUS
<1>6. b + a = (t + s) + c /\ b - a = (t - s) + d
  <2>1. a = f + s /\ b = e + t /\ c = e + f /\ d = e - f
    BY <1>1, <1>2, <1>4, <1>5
  <2> QED BY <2>1
<1>7. (b + a) % m = (t + s) % m
  <2>1. PICK g \in Int : g = t + s
    OBVIOUS
  <2>2. (g + m * u) % m = g % m
    BY <1>3, ModShift
  <2> QED BY <1>5, <1>6, <2>1, <2>2
<1>8. (b - a) % m = (t - s) % m
  <2>1. PICK g \in Int : g = t - s
    OBVIOUS
  <2>2. (g + m * v) % m = g % m
    BY <1>3, ModShift
  <2> QED BY <1>5, <1>6, <2>1, <2>2
<1> QED BY <1>1, <1>2, <1>7, <1>8

-----------------------------------------------------------------------------
(***************************************************************************)
(* The widths: the values of each are even in number, and divide those of  *)
(* the wider.                                                              *)
(***************************************************************************)
LEMMA ByteIs == Byte \in Nat /\ Byte > 2 /\ \E h \in Nat : h > 1 /\ Byte = 2 * h
<1>1. Byte \in {2 * k : k \in 1 .. Byte} /\ Byte > 2
  BY ToolsAssumption DEF Cpu!V60Assumption
<1>2. PICK k \in 1 .. Byte : Byte = 2 * k
  BY <1>1
<1>3. k \in Int
  BY <1>2
<1> QED BY <1>1, <1>2, <1>3

LEMMA WidthsAre ==
    /\ Cpu!Width(0) = 1 /\ Cpu!Width(1) = 2 /\ Cpu!Width(2) = 4
    /\ Cpu!Modulus(0) = Byte /\ Cpu!Modulus(1) = Byte * Byte
    /\ Cpu!Modulus(2) = Byte * Byte * Byte * Byte
BY DEF Cpu!Width, Cpu!Modulus

\* The values of width d: even, at least four, and a divisor of those of a word.
IsWidth(m, h, k) ==
    /\ m \in Nat \ {0} /\ h \in Nat \ {0} /\ k \in Nat \ {0} /\ h > 1
    /\ m = 2 * h /\ m \div 2 = h /\ Cpu!Modulus(2) = m * k

LEMMA ModulusIs ==
    ASSUME NEW d \in 0 .. 2
    PROVE  \E h, k : IsWidth(Cpu!Modulus(d), h, k) /\ (d < 2 => k >= Cpu!Modulus(d))
<1>1. PICK B \in Nat, g \in Nat : B = Byte /\ B = 2 * g /\ g > 1
  BY ByteIs
<1>2. PICK B2 \in Nat, g2 \in Nat : B2 = B * B /\ g2 = g * B
  OBVIOUS
<1>3. B2 = 2 * g2 /\ g2 > 1 /\ B2 >= B
  BY <1>1, <1>2
<1>4. PICK B3 \in Nat, B4 \in Nat, g4 \in Nat : B3 = B2 * B /\ B4 = B3 * B /\ g4 = g2 * B2
  OBVIOUS
<1>5. B4 = B2 * B2 /\ B3 >= B2
  BY <1>1, <1>2, <1>3, <1>4
<1>6. B4 = 2 * g4 /\ g4 > 1
  BY <1>3, <1>4, <1>5
<1>7. Cpu!Modulus(0) = B /\ Cpu!Modulus(1) = B2 /\ Cpu!Modulus(2) = B4
  BY <1>1, <1>2, <1>4, WidthsAre
<1>8. B4 = B * B3
  BY <1>4
<1>9. CASE d = 0
  <2>1. IsWidth(B, g, B3) /\ B3 >= B
    BY <1>1, <1>3, <1>5, <1>7, <1>8 DEF IsWidth
  <2> QED BY <1>7, <1>9, <2>1
<1>10. CASE d = 1
  <2>1. IsWidth(B2, g2, B2)
    BY <1>3, <1>5, <1>7 DEF IsWidth
  <2> QED BY <1>7, <1>10, <2>1
<1>11. CASE d = 2
  <2>1. IsWidth(B4, g4, 1)
    BY <1>6, <1>7 DEF IsWidth
  <2> QED BY <1>7, <1>11, <2>1
<1> QED BY <1>9, <1>10, <1>11

LEMMA WordIs == Cpu!Modulus(2) \in Nat \ {0} /\ Cpu!Modulus(2) >= 16 /\ Cpu!Words = 0 .. Cpu!Modulus(2) - 1
<1>1. PICK B \in Nat : B = Byte /\ B > 2
  BY ByteIs
<1>2. PICK C \in Nat : C = B * B
  OBVIOUS
<1>3. C > 3
  BY <1>1, <1>2
<1>4. C * C > 15
  BY <1>3
<1>5. Cpu!Modulus(2) = C * C
  BY <1>1, <1>2, WidthsAre
<1> QED BY <1>4, <1>5 DEF Cpu!Words

\* The halves of the values of a width, signed and not.
LEMMA Signs ==
    ASSUME NEW m, NEW h, NEW k, IsWidth(m, h, k), NEW a \in Int
    PROVE  \E x \in 0 .. m - 1, s \in Int :
              /\ x = a % m /\ s = Cpu!sx(a, m)
              /\ x >= h => s = x - m
              /\ x < h => s = x
              /\ -h <= s /\ s < h /\ s % m = x
<1>1. PICK x \in 0 .. m - 1 : x = a % m
  BY Divided DEF IsWidth
<1>2. PICK s \in Int : s = Cpu!sx(a, m) /\ (x >= h => s = x - m) /\ (x < h => s = x)
  BY <1>1 DEF Cpu!sx, IsWidth
<1>3. -h <= s /\ s < h
  BY <1>1, <1>2 DEF IsWidth
<1>4. s % m = x
  <2>1. x % m = x
    BY <1>1, Remains DEF IsWidth
  <2>2. (x + m * (-1)) % m = x % m
    <3>1. m \in Nat \ {0} /\ x \in Int /\ -1 \in Int
      BY DEF IsWidth
    <3> QED BY <3>1, ModShift
  <2>3. x + m * (-1) = x - m
    BY DEF IsWidth
  <2> QED BY <1>2, <2>1, <2>2, <2>3 DEF IsWidth
<1> QED BY <1>1, <1>2, <1>3, <1>4

-----------------------------------------------------------------------------
(***************************************************************************)
(* Memory: the digits of a number, written and read again.                 *)
(***************************************************************************)
Memories == [0 .. Size - 1 -> 0 .. Byte - 1]
RegisterFiles == [Registers -> Cpu!Words]

\* The last digit of a number, and the digits before it.
LEMMA LastDigit ==
    ASSUME NEW b \in Nat \ {0}, NEW k \in Nat \ {0}, NEW v \in Nat
    PROVE  v % (b * k) = (v % b) + b * ((v \div b) % k)
<1> PICK w \in Nat \ {0} : w = b * k
  OBVIOUS
<1>1. v % b \in 0 .. b - 1 /\ v \div b \in Nat /\ v = b * (v \div b) + (v % b)
  OBVIOUS
<1>2. PICK q \in Nat, s \in 0 .. b - 1 : q = v \div b /\ s = v % b /\ v = b * q + s
  BY <1>1
<1>3. q % k \in 0 .. k - 1 /\ q \div k \in Nat /\ q = k * (q \div k) + (q % k)
  OBVIOUS
<1>4. PICK p \in Nat, t \in 0 .. k - 1 : p = q \div k /\ t = q % k /\ q = k * p + t
  BY <1>3
<1>5. b * q = b * (k * p) + b * t
  BY <1>4
<1>6. b * (k * p) = w * p
  OBVIOUS
<1>7. PICK x \in Nat, y \in Nat, z \in Nat : x = b * q /\ y = w * p /\ z = b * t
  OBVIOUS
<1>8. x = y + z /\ v = x + s
  BY <1>2, <1>5, <1>6, <1>7
<1>9. z + s \in 0 .. w - 1
  <2>1. t + 1 <= k
    BY <1>4
  <2>2. b * (t + 1) <= b * k
    BY <2>1
  <2>3. b * (t + 1) = z + b
    BY <1>7
  <2> QED BY <2>2, <2>3
<1>10. PICK u \in 0 .. w - 1 : u = z + s
  BY <1>9
<1>11. v = w * p + u
  BY <1>7, <1>8, <1>10
<1>12. v % w = u
  <2>1. v \in Int /\ p \in Int
    OBVIOUS
  <2> QED BY <1>11, <2>1, Quotient
<1> QED BY <1>1, <1>2, <1>4, <1>7, <1>10, <1>12

LEMMA DigitsAre ==
    ASSUME NEW v \in Nat
    PROVE  /\ \A k \in 0 .. 3 : Cpu!Digit(v, k) \in 0 .. Byte - 1
           /\ v % Cpu!Modulus(0) = Cpu!Digit(v, 0)
           /\ v % Cpu!Modulus(1) = Cpu!Digit(v, 0) + Byte * Cpu!Digit(v, 1)
           /\ v % Cpu!Modulus(2) =
                 Cpu!Digit(v, 0) + Byte * (Cpu!Digit(v, 1) + Byte * (Cpu!Digit(v, 2) + Byte * Cpu!Digit(v, 3)))
<1>1. PICK B \in Nat \ {0} : B = Byte
  BY ByteIs
<1>2. PICK B2 \in Nat \ {0} : B2 = B * B
  OBVIOUS
<1>3. PICK B3 \in Nat \ {0} : B3 = B * B2
  OBVIOUS
<1>4. PICK B4 \in Nat \ {0} : B4 = B * B3
  OBVIOUS
<1>5. \A w \in Nat : w \div B \in Nat /\ w % B \in 0 .. B - 1
  OBVIOUS
<1>6. PICK v1 \in Nat, v2 \in Nat, v3 \in Nat : v1 = v \div B /\ v2 = v1 \div B /\ v3 = v2 \div B
  BY <1>5
<1>7. PICK d0 \in 0 .. B - 1, d1 \in 0 .. B - 1, d2 \in 0 .. B - 1, d3 \in 0 .. B - 1 :
          d0 = v % B /\ d1 = v1 % B /\ d2 = v2 % B /\ d3 = v3 % B
  BY <1>5
<1>9. v % B2 = (v % B) + B * ((v \div B) % B) /\ v % B4 = (v % B) + B * ((v \div B) % B3)
  BY <1>2, <1>4, LastDigit
<1>10. v1 % B3 = (v1 % B) + B * ((v1 \div B) % B2)
  BY <1>3, LastDigit
<1>11. v2 % B2 = (v2 % B) + B * ((v2 \div B) % B)
  BY <1>2, LastDigit
<1>12. Cpu!Digit(v, 0) = d0 /\ Cpu!Digit(v, 1) = d1 /\ Cpu!Digit(v, 2) = d2 /\ Cpu!Digit(v, 3) = d3
  BY <1>1, <1>6, <1>7 DEF Cpu!Digit
<1>13. Cpu!Modulus(0) = B /\ Cpu!Modulus(1) = B2 /\ Cpu!Modulus(2) = B4
  <2>1. Cpu!Modulus(2) = (B2 * B) * B
    BY <1>1, <1>2, WidthsAre
  <2>2. B2 * B = B3 /\ B3 * B = B4
    BY <1>3, <1>4
  <2> QED BY <1>1, <1>2, <2>1, <2>2, WidthsAre
<1>14. \A k \in 0 .. 3 : Cpu!Digit(v, k) \in 0 .. Byte - 1
  <2> SUFFICES ASSUME NEW k \in 0 .. 3 PROVE Cpu!Digit(v, k) \in 0 .. Byte - 1
    OBVIOUS
  <2>1. k = 0 \/ k = 1 \/ k = 2 \/ k = 3
    OBVIOUS
  <2> QED BY <1>1, <1>12, <2>1
<1>15. v2 % B2 = d2 + B * d3
  BY <1>6, <1>7, <1>11
<1>16. v1 % B3 = d1 + B * (d2 + B * d3)
  BY <1>6, <1>7, <1>10, <1>15
<1>17. v % B2 = d0 + B * d1 /\ v % B4 = d0 + B * (d1 + B * (d2 + B * d3))
  BY <1>6, <1>7, <1>9, <1>16
<1> QED BY <1>1, <1>7, <1>12, <1>13, <1>14, <1>17

LEMMA BytesBound ==
    ASSUME NEW x \in 0 .. Byte - 1, NEW k \in Nat \ {0}, NEW y \in 0 .. k - 1
    PROVE  x + Byte * y \in 0 .. Byte * k - 1
<1>1. PICK B \in Nat \ {0} : B = Byte
  BY ByteIs
<1>2. B * (y + 1) <= B * k
  OBVIOUS
<1>3. B * (y + 1) = B * y + B
  OBVIOUS
<1>4. PICK p \in Nat, q \in Nat : p = B * y /\ q = B * k
  OBVIOUS
<1>5. x + p \in 0 .. q - 1
  BY <1>1, <1>2, <1>3, <1>4
<1> QED BY <1>1, <1>4, <1>5

LEMMA ReadsNumber ==
    ASSUME NEW m \in Memories, NEW a \in Nat, NEW d \in 0 .. 2
    PROVE  Cpu!ReadFrom(m, a, d) \in 0 .. Cpu!Modulus(d) - 1
<1>1. PICK B \in Nat \ {0} : B = Byte
  BY ByteIs
<1> DEFINE byte(k) == IF a + k \in DOMAIN m THEN m[a + k] ELSE 0
<1>2. PICK b0 \in 0 .. B - 1, b1 \in 0 .. B - 1, b2 \in 0 .. B - 1, b3 \in 0 .. B - 1 :
          b0 = byte(0) /\ b1 = byte(1) /\ b2 = byte(2) /\ b3 = byte(3)
  BY <1>1 DEF Memories
<1>3. Cpu!ReadFrom(m, a, d) =
          CASE d = 0 -> b0
            [] d = 1 -> b0 + B * b1
            [] d = 2 -> b0 + B * (b1 + B * (b2 + B * b3))
  BY <1>1, <1>2 DEF Cpu!ReadFrom
<1>4. CASE d = 0
  BY <1>1, <1>3, <1>4, WidthsAre
<1>5. CASE d = 1
  <2>1. b0 + Byte * b1 \in 0 .. Byte * B - 1
    BY <1>1, BytesBound
  <2> QED BY <1>1, <1>3, <1>5, <2>1, WidthsAre
<1>6. CASE d = 2
  <2>1. PICK B2 \in Nat \ {0} : B2 = B * B
    OBVIOUS
  <2>2. PICK B3 \in Nat \ {0} : B3 = B * B2
    OBVIOUS
  <2>3. PICK x \in 0 .. B2 - 1 : x = b2 + B * b3
    BY <1>1, <2>1, BytesBound
  <2>4. PICK y \in 0 .. B3 - 1 : y = b1 + B * x
    BY <1>1, <2>2, BytesBound
  <2>5. b0 + Byte * y \in 0 .. Byte * B3 - 1
    BY <1>1, BytesBound
  <2>6. Cpu!ReadFrom(m, a, d) = b0 + Byte * y
    BY <1>1, <1>3, <1>6, <2>3, <2>4
  <2>7. Cpu!Modulus(2) = (B2 * B) * B /\ B2 * B = B3 /\ B3 * B = B * B3
    BY <1>1, <2>1, <2>2, WidthsAre
  <2> QED BY <1>1, <1>6, <2>5, <2>6, <2>7
<1> QED BY <1>4, <1>5, <1>6

\* What is written is a memory, keeps what is not written, and is read again.
LEMMA WriteReads ==
    ASSUME NEW m \in Memories, NEW a \in Nat, NEW d \in 0 .. 2, NEW v \in Nat
    PROVE  /\ Cpu!Written(m, a, d, v) \in Memories
           /\ \A x \in 0 .. Size - 1 :
                 x - a \in 0 .. Cpu!Width(d) - 1 \/ Cpu!Written(m, a, d, v)[x] = m[x]
           /\ a + Cpu!Width(d) <= Size =>
                 Cpu!ReadFrom(Cpu!Written(m, a, d, v), a, d) = v % Cpu!Modulus(d)
<1> PICK n : n = Cpu!Written(m, a, d, v)
  OBVIOUS
<1>1. Size \in Nat /\ Cpu!Width(d) \in 1 .. 4
  <2>1. Size \in Nat
    BY WordIs, ToolsAssumption DEF Cpu!V60Assumption
  <2> QED BY <2>1, WidthsAre
<1>2. DOMAIN m = 0 .. Size - 1 /\ DOMAIN n = 0 .. Size - 1
  BY DEF Memories, Cpu!Written
<1>3. ASSUME NEW x \in 0 .. Size - 1
      PROVE  n[x] = IF x - a \in 0 .. Cpu!Width(d) - 1 THEN Cpu!Digit(v, x - a) ELSE m[x]
  BY <1>2 DEF Cpu!Written
<1>4. n \in Memories
  <2>1. n = [x \in 0 .. Size - 1 |-> n[x]]
    BY <1>2 DEF Cpu!Written
  <2>2. ASSUME NEW x \in 0 .. Size - 1 PROVE n[x] \in 0 .. Byte - 1
    <3>1. CASE x - a \in 0 .. Cpu!Width(d) - 1
      <4>1. x - a \in 0 .. 3
        BY <1>1, <3>1
      <4> QED BY <1>3, <3>1, <4>1, DigitsAre
    <3>2. CASE x - a \notin 0 .. Cpu!Width(d) - 1
      BY <1>3, <3>2 DEF Memories
    <3> QED BY <3>1, <3>2
  <2> QED BY <2>1, <2>2 DEF Memories
<1>5. ASSUME a + Cpu!Width(d) <= Size PROVE Cpu!ReadFrom(n, a, d) = v % Cpu!Modulus(d)
  <2>1. ASSUME NEW k \in 0 .. Cpu!Width(d) - 1
        PROVE  a + k \in DOMAIN n /\ n[a + k] = Cpu!Digit(v, k)
    <3>1. a + k \in 0 .. Size - 1 /\ (a + k) - a = k
      BY <1>1, <1>5
    <3> QED BY <1>2, <1>3, <3>1
  <2>2. CASE d = 0
    <3>1. a + 0 \in DOMAIN n /\ n[a + 0] = Cpu!Digit(v, 0)
      BY <2>1, <2>2, WidthsAre
    <3> QED BY <2>2, <3>1, DigitsAre DEF Cpu!ReadFrom
  <2>3. CASE d = 1
    <3>1. /\ a + 0 \in DOMAIN n /\ n[a + 0] = Cpu!Digit(v, 0)
          /\ a + 1 \in DOMAIN n /\ n[a + 1] = Cpu!Digit(v, 1)
      BY <2>1, <2>3, WidthsAre
    <3> QED BY <2>3, <3>1, DigitsAre DEF Cpu!ReadFrom
  <2>4. CASE d = 2
    <3>1. /\ a + 0 \in DOMAIN n /\ n[a + 0] = Cpu!Digit(v, 0)
          /\ a + 1 \in DOMAIN n /\ n[a + 1] = Cpu!Digit(v, 1)
          /\ a + 2 \in DOMAIN n /\ n[a + 2] = Cpu!Digit(v, 2)
          /\ a + 3 \in DOMAIN n /\ n[a + 3] = Cpu!Digit(v, 3)
      BY <2>1, <2>4, WidthsAre
    <3> QED BY <2>4, <3>1, DigitsAre DEF Cpu!ReadFrom
  <2> QED BY <2>2, <2>3, <2>4
<1> QED BY <1>3, <1>4, <1>5

-----------------------------------------------------------------------------
(***************************************************************************)
(* Operands.  A machine state has words in its registers, bytes in its     *)
(* memory, and flags.                                                      *)
(***************************************************************************)
Flags == [z : BOOLEAN, s : BOOLEAN, ov : BOOLEAN, cy : BOOLEAN]

Machine == cpu_pc \in Int /\ cpu_mem \in Memories /\ r \in RegisterFiles /\ fl \in Flags

IsOperand(o, d) ==
    /\ o.regs \in RegisterFiles
    /\ \/ o.kind = "imm" /\ o.value \in 0 .. Cpu!Modulus(d) - 1
       \/ o.kind = "reg" /\ o.value \in Registers
       \/ o.kind = "mem" /\ o.value \in Cpu!Words

LEMMA MaskIs == ASSUME NEW v \in Int PROVE Cpu!M32(v) \in Cpu!Words
BY WordIs, Divided DEF Cpu!M32

LEMMA AddressIs ==
    ASSUME NEW o, NEW d \in 0 .. 2, NEW regs \in RegisterFiles, Cpu!Fits(o, d), Machine,
           o.mode \notin {"immediate", "register"}
    PROVE  Cpu!Address(o, regs, d) \in Cpu!Words /\ Cpu!Stepped(o, regs, d) \in RegisterFiles
<1>1. \A w \in Cpu!Words : w \in Nat /\ w \in Int
  BY WordIs
<1>2. \A a \in Cpu!Words : Cpu!Read(a, 2) \in Cpu!Words
  BY <1>1, WordIs, ReadsNumber DEF Cpu!Read, Machine
<1>3. \A x \in Registers : regs[x] \in Cpu!Words /\ regs[x] \in Int
  BY <1>1 DEF RegisterFiles
<1>4. Cpu!Width(d) \in Nat
  BY WidthsAre
<1>5. CASE o.mode \in {"disp", "indirect", "disp deferred"}
  <2>1. o.reg \in Registers /\ (o.mode # "indirect" => o.disp \in Int)
    BY <1>5 DEF Cpu!Fits
  <2>2. o.mode # "indirect" => Cpu!M32(regs[o.reg] + o.disp) \in Cpu!Words
    <3>1. o.mode # "indirect" => regs[o.reg] + o.disp \in Int
      BY <1>3, <2>1
    <3> QED BY <3>1, MaskIs
  <2>3. Cpu!Stepped(o, regs, d) = regs
    BY <1>5 DEF Cpu!Stepped
  <2>4. Cpu!Address(o, regs, d) = CASE o.mode = "disp" -> Cpu!M32(regs[o.reg] + o.disp)
                                    [] o.mode = "indirect" -> regs[o.reg]
                                    [] o.mode = "disp deferred" -> Cpu!Read(Cpu!M32(regs[o.reg] + o.disp), 2)
    BY <1>5 DEF Cpu!Address
  <2> QED BY <1>2, <1>3, <1>5, <2>1, <2>2, <2>3, <2>4
<1>6. CASE o.mode \in {"pc disp", "pc deferred"}
  <2>1. o.disp \in Int
    BY <1>6 DEF Cpu!Fits
  <2>2. Cpu!M32(cpu_pc + o.disp) \in Cpu!Words
    BY <2>1, MaskIs DEF Machine
  <2>3. Cpu!Stepped(o, regs, d) = regs
    BY <1>6 DEF Cpu!Stepped
  <2>4. Cpu!Address(o, regs, d) = CASE o.mode = "pc disp" -> Cpu!M32(cpu_pc + o.disp)
                                    [] o.mode = "pc deferred" -> Cpu!Read(Cpu!M32(cpu_pc + o.disp), 2)
    BY <1>6 DEF Cpu!Address
  <2> QED BY <1>2, <1>6, <2>2, <2>3, <2>4
<1>7. CASE o.mode \in {"direct", "direct deferred"}
  <2>1. o.disp \in Cpu!Words
    BY <1>7 DEF Cpu!Fits
  <2>2. Cpu!Stepped(o, regs, d) = regs
    BY <1>7 DEF Cpu!Stepped
  <2>3. Cpu!Address(o, regs, d) = CASE o.mode = "direct" -> o.disp
                                    [] o.mode = "direct deferred" -> Cpu!Read(o.disp, 2)
    BY <1>7 DEF Cpu!Address
  <2> QED BY <1>2, <1>7, <2>1, <2>2, <2>3
<1>8. CASE o.mode \in {"autoincrement", "autodecrement"}
  <2>1. o.reg \in Registers
    BY <1>8 DEF Cpu!Fits
  <2>2. regs[o.reg] \in Cpu!Words /\ regs[o.reg] \in Int
    BY <1>3, <2>1
  <2>3. /\ Cpu!M32(regs[o.reg] + Cpu!Width(d)) \in Cpu!Words
        /\ Cpu!M32(regs[o.reg] - Cpu!Width(d)) \in Cpu!Words
    BY <1>4, <2>2, MaskIs
  <2>4. Cpu!Stepped(o, regs, d) =
            [regs EXCEPT ![o.reg] = IF o.mode = "autoincrement" THEN Cpu!M32(regs[o.reg] + Cpu!Width(d))
                                    ELSE Cpu!M32(regs[o.reg] - Cpu!Width(d))]
    BY <1>8 DEF Cpu!Stepped
  <2>5. Cpu!Stepped(o, regs, d) \in RegisterFiles
    BY <2>3, <2>4 DEF RegisterFiles
  <2>6. Cpu!Address(o, regs, d) = IF o.mode = "autoincrement" THEN regs[o.reg]
                                  ELSE Cpu!M32(regs[o.reg] - Cpu!Width(d))
    BY <1>8 DEF Cpu!Address
  <2> QED BY <2>2, <2>3, <2>5, <2>6
<1>9. CASE o.mode = "double"
  <2>1. o.reg \in Registers /\ o.disp \in Int /\ o.disp2 \in Int
    BY <1>9 DEF Cpu!Fits
  <2>2. Cpu!M32(regs[o.reg] + o.disp) \in Cpu!Words
    BY <1>1, <1>3, <2>1, MaskIs
  <2>3. Cpu!Read(Cpu!M32(regs[o.reg] + o.disp), 2) \in Cpu!Words
    BY <1>2, <2>2
  <2>4. Cpu!M32(Cpu!Read(Cpu!M32(regs[o.reg] + o.disp), 2) + o.disp2) \in Cpu!Words
    <3>1. Cpu!Read(Cpu!M32(regs[o.reg] + o.disp), 2) + o.disp2 \in Int
      BY <1>1, <2>1, <2>3
    <3> QED BY <3>1, MaskIs
  <2>5. Cpu!Stepped(o, regs, d) = regs
    BY <1>9 DEF Cpu!Stepped
  <2>6. Cpu!Address(o, regs, d) = Cpu!M32(Cpu!Read(Cpu!M32(regs[o.reg] + o.disp), 2) + o.disp2)
    BY <1>9 DEF Cpu!Address
  <2> QED BY <2>4, <2>5, <2>6
<1>10. o.mode \in {"disp", "indirect", "disp deferred", "pc disp", "pc deferred", "direct",
                   "direct deferred", "autoincrement", "autodecrement", "double"}
  BY DEF Cpu!Fits
<1> QED BY <1>5, <1>6, <1>7, <1>8, <1>9, <1>10

\* A word is cut to a value of the width.
LEMMA CutIs == ASSUME NEW v \in Int, NEW d \in 0 .. 2 PROVE Cpu!dimext(v, d) \in 0 .. Cpu!Modulus(d) - 1
<1>1. Cpu!Modulus(d) \in Nat \ {0}
  BY ModulusIs DEF IsWidth
<1> QED BY <1>1, Divided DEF Cpu!dimext

\* A value of any width is a word.
LEMMA NarrowIs == ASSUME NEW d \in 0 .. 2, NEW v \in 0 .. Cpu!Modulus(d) - 1 PROVE v \in Cpu!Words
<1>1. PICK h, k : IsWidth(Cpu!Modulus(d), h, k)
  BY ModulusIs
<1>2. PICK m \in Nat, w \in Nat : m = Cpu!Modulus(d) /\ w = Cpu!Modulus(2) /\ w = m * k /\ k \in Nat \ {0}
  BY <1>1 DEF IsWidth
<1>3. m <= w
  BY <1>2
<1> QED BY <1>2, <1>3, WordIs

LEMMA DecodedValue ==
    ASSUME NEW o, NEW d \in 0 .. 2, NEW regs \in RegisterFiles, Cpu!Fits(o, d), Machine
    PROVE  /\ Cpu!decode_value(o, regs, d).value \in 0 .. Cpu!Modulus(d) - 1
           /\ Cpu!decode_value(o, regs, d).regs \in RegisterFiles
<1>1. CASE o.mode = "immediate"
  <2>1. Cpu!decode_value(o, regs, d) = [value |-> o.disp, regs |-> regs]
    BY <1>1 DEF Cpu!decode_value
  <2>2. o.disp \in 0 .. Cpu!Modulus(d) - 1
    BY <1>1 DEF Cpu!Fits
  <2> QED BY <2>1, <2>2
<1>2. CASE o.mode = "register"
  <2>1. Cpu!decode_value(o, regs, d) =
            [value |-> Cpu!dimext(regs[o.reg], d), regs |-> regs]
    BY <1>2 DEF Cpu!decode_value
  <2>2. regs[o.reg] \in Int
    BY <1>2, WordIs DEF Cpu!Fits, RegisterFiles
  <2> QED BY <2>1, <2>2, CutIs
<1>3. CASE o.mode \notin {"immediate", "register"}
  <2>1. Cpu!decode_value(o, regs, d) =
            [value |-> Cpu!Read(Cpu!Address(o, regs, d), d), regs |-> Cpu!Stepped(o, regs, d)]
    BY <1>3 DEF Cpu!decode_value
  <2>2. Cpu!Address(o, regs, d) \in Cpu!Words /\ Cpu!Stepped(o, regs, d) \in RegisterFiles
    BY <1>3, AddressIs
  <2>3. Cpu!Address(o, regs, d) \in Nat
    BY <2>2, WordIs
  <2>4. Cpu!Read(Cpu!Address(o, regs, d), d) \in 0 .. Cpu!Modulus(d) - 1
    BY <2>3, ReadsNumber DEF Cpu!Read, Machine
  <2> QED BY <2>1, <2>2, <2>4
<1> QED BY <1>1, <1>2, <1>3

LEMMA DecodedPlace ==
    ASSUME NEW o, NEW d \in 0 .. 2, NEW regs \in RegisterFiles, Cpu!Fits(o, d), Machine
    PROVE  IsOperand(Cpu!decode_addr(o, regs, d), d)
<1>1. CASE o.mode = "immediate"
  <2>1. Cpu!decode_addr(o, regs, d) = [kind |-> "imm", value |-> o.disp, regs |-> regs]
    BY <1>1 DEF Cpu!decode_addr
  <2>2. o.disp \in 0 .. Cpu!Modulus(d) - 1
    BY <1>1 DEF Cpu!Fits
  <2> QED BY <2>1, <2>2 DEF IsOperand
<1>2. CASE o.mode = "register"
  <2>1. Cpu!decode_addr(o, regs, d) = [kind |-> "reg", value |-> o.reg, regs |-> regs]
    BY <1>2 DEF Cpu!decode_addr
  <2>2. o.reg \in Registers
    BY <1>2 DEF Cpu!Fits
  <2> QED BY <2>1, <2>2 DEF IsOperand
<1>3. CASE o.mode \notin {"immediate", "register"}
  <2>1. Cpu!decode_addr(o, regs, d) =
            [kind |-> "mem", value |-> Cpu!Address(o, regs, d), regs |-> Cpu!Stepped(o, regs, d)]
    BY <1>3 DEF Cpu!decode_addr
  <2>2. Cpu!Address(o, regs, d) \in Cpu!Words /\ Cpu!Stepped(o, regs, d) \in RegisterFiles
    BY <1>3, AddressIs
  <2> QED BY <2>1, <2>2 DEF IsOperand
<1> QED BY <1>1, <1>2, <1>3

\* What an operand holds.
LEMMA LoadIs ==
    ASSUME NEW o, NEW d \in 0 .. 2, IsOperand(o, d), Machine
    PROVE  Cpu!load(o, d) \in Cpu!Words
<1>3. CASE o.kind = "imm"
  <2>1. o.value \in 0 .. Cpu!Modulus(d) - 1
    BY <1>3 DEF IsOperand
  <2> QED BY <1>3, <2>1, NarrowIs DEF Cpu!load
<1>4. CASE o.kind = "reg"
  BY <1>4 DEF IsOperand, Cpu!load, RegisterFiles
<1>5. CASE o.kind = "mem"
  <2>1. o.value \in Nat
    BY <1>5, WordIs DEF IsOperand
  <2>2. Cpu!Read(o.value, d) \in 0 .. Cpu!Modulus(d) - 1
    BY <2>1, ReadsNumber DEF Cpu!Read, Machine
  <2> QED BY <1>5, <2>2, NarrowIs DEF Cpu!load
<1> QED BY <1>3, <1>4, <1>5 DEF IsOperand

-----------------------------------------------------------------------------
(***************************************************************************)
(* Stores: what lands in the destination o, of width d, is v, and nothing  *)
(* else changes, from the registers of o and the memory old to regs and    *)
(* new.                                                                    *)
(***************************************************************************)
Lands(o, d, regs, old, new, v) ==
    /\ o.kind = "reg" =>
          /\ regs[o.value] % Cpu!Modulus(d) = v % Cpu!Modulus(d)
          /\ regs[o.value] \div Cpu!Modulus(d) = o.regs[o.value] \div Cpu!Modulus(d)
    /\ o.kind = "mem" /\ o.value + Cpu!Width(d) <= Size =>
          Cpu!ReadFrom(new, o.value, d) % Cpu!Modulus(d) = v % Cpu!Modulus(d)
    /\ \A x \in Registers : (o.kind = "reg" /\ o.value = x) \/ regs[x] = o.regs[x]
    /\ \A x \in 0 .. Size - 1 :
          (o.kind = "mem" /\ x - o.value \in 0 .. Cpu!Width(d) - 1) \/ new[x] = old[x]

\* The low part of a word is replaced.
LEMMA LowReplaced ==
    ASSUME NEW d \in 0 .. 2, NEW u \in Cpu!Words, NEW v \in Int
    PROVE  \E n \in Cpu!Words : /\ n = (u - Cpu!dimext(u, d)) + Cpu!dimext(v, d)
                                /\ n % Cpu!Modulus(d) = v % Cpu!Modulus(d)
                                /\ n \div Cpu!Modulus(d) = u \div Cpu!Modulus(d)
<1>1. PICK m \in Nat \ {0}, k \in Nat \ {0}, w \in Nat : m = Cpu!Modulus(d) /\ w = Cpu!Modulus(2) /\ w = m * k
  <2>1. PICK h, k : IsWidth(Cpu!Modulus(d), h, k)
    BY ModulusIs
  <2> QED BY <2>1 DEF IsWidth
<1>2. u \in Int /\ u \in 0 .. w - 1
  BY <1>1, WordIs
<1>3. PICK q \in Int, s \in 0 .. m - 1 : u = m * q + s /\ s = u % m /\ q = u \div m
  BY <1>2, Divided
<1>4. PICK t \in 0 .. m - 1 : t = v % m
  BY Divided
<1>5. PICK x \in Int : x = m * q
  OBVIOUS
<1>6. x >= 0 /\ x + m <= w
  <2>1. q >= 0
    <3>1. CASE q < 0
      <4>1. m * q <= m * (-1)
        BY <3>1
      <4>2. x <= -m
        BY <1>5, <4>1
      <4> QED BY <1>2, <1>3, <1>5, <4>2
    <3> QED BY <3>1
  <2>2. q < k
    <3>1. CASE q >= k
      <4>1. m * q >= m * k
        BY <3>1
      <4> QED BY <1>1, <1>2, <1>3, <1>5, <4>1
    <3> QED BY <3>1
  <2>3. m * (q + 1) <= m * k
    BY <2>2
  <2>4. m * (q + 1) = m * q + m
    OBVIOUS
  <2>5. m * q >= 0
    BY <2>1
  <2> QED BY <1>1, <1>5, <2>3, <2>4, <2>5
<1>7. PICK n \in 0 .. w - 1 : n = x + t
  BY <1>6
<1>8. n = m * q + t
  BY <1>5, <1>7
<1>9. n \div m = q /\ n % m = t
  BY <1>8, Quotient
<1>10. n = (u - s) + t
  BY <1>3, <1>5, <1>7
<1> QED BY <1>1, <1>3, <1>4, <1>7, <1>9, <1>10, WordIs DEF Cpu!dimext

LEMMA RegisterStored ==
    ASSUME NEW o, NEW d \in 0 .. 2, IsOperand(o, d), o.kind = "reg", Machine, NEW v \in Cpu!Words
    PROVE  /\ Cpu!Stored(o, v, d) \in RegisterFiles
           /\ Lands(o, d, Cpu!Stored(o, v, d), cpu_mem, cpu_mem, v)
<1>1. o.regs \in RegisterFiles /\ o.value \in Registers
  BY DEF IsOperand
<1>2. PICK u \in Cpu!Words : u = o.regs[o.value]
  BY <1>1 DEF RegisterFiles
<1>3. v \in Int
  BY WordIs
<1>4. PICK n \in Cpu!Words : /\ n = (u - Cpu!dimext(u, d)) + Cpu!dimext(v, d)
                             /\ n % Cpu!Modulus(d) = v % Cpu!Modulus(d)
                             /\ n \div Cpu!Modulus(d) = u \div Cpu!Modulus(d)
  BY <1>3, LowReplaced
<1>5. Cpu!Stored(o, v, d) = [o.regs EXCEPT ![o.value] = n]
  BY <1>1, <1>2, <1>4 DEF Cpu!Stored, RegisterFiles
<1>6. PICK f : f = Cpu!Stored(o, v, d)
  OBVIOUS
<1>7. f \in RegisterFiles /\ f[o.value] = n /\ \A x \in Registers : o.value = x \/ f[x] = o.regs[x]
  BY <1>1, <1>4, <1>5, <1>6 DEF RegisterFiles
<1>8. Lands(o, d, f, cpu_mem, cpu_mem, v)
  BY <1>2, <1>4, <1>7 DEF Lands
<1> QED BY <1>6, <1>7, <1>8

LEMMA MemoryStored ==
    ASSUME NEW o, NEW d \in 0 .. 2, IsOperand(o, d), o.kind = "mem", Machine, NEW v \in Cpu!Words
    PROVE  /\ Cpu!Stored(o, v, d) = o.regs
           /\ Cpu!Written(cpu_mem, o.value, d, v) \in Memories
           /\ Lands(o, d, o.regs, cpu_mem, Cpu!Written(cpu_mem, o.value, d, v), v)
<1>1. PICK a \in Nat : a = o.value
  BY WordIs DEF IsOperand
<1>2. cpu_mem \in Memories /\ v \in Nat /\ v \in Int
  BY WordIs DEF Machine
<1>3. PICK n : n = Cpu!Written(cpu_mem, a, d, v)
  OBVIOUS
<1>4. /\ n \in Memories
      /\ \A x \in 0 .. Size - 1 : x - a \in 0 .. Cpu!Width(d) - 1 \/ n[x] = cpu_mem[x]
      /\ a + Cpu!Width(d) <= Size => Cpu!ReadFrom(n, a, d) = v % Cpu!Modulus(d)
  BY <1>2, <1>3, WriteReads
<1>5. a + Cpu!Width(d) <= Size => Cpu!ReadFrom(n, a, d) % Cpu!Modulus(d) = v % Cpu!Modulus(d)
  <2>1. Cpu!Modulus(d) \in Nat \ {0}
    BY ModulusIs DEF IsWidth
  <2>2. v % Cpu!Modulus(d) \in 0 .. Cpu!Modulus(d) - 1
    BY <1>2, <2>1, Divided
  <2>3. (v % Cpu!Modulus(d)) % Cpu!Modulus(d) = v % Cpu!Modulus(d)
    BY <2>1, <2>2, Remains
  <2> QED BY <1>4, <2>3
<1>6. Lands(o, d, o.regs, cpu_mem, n, v)
  BY <1>1, <1>4, <1>5 DEF Lands
<1>7. Cpu!Stored(o, v, d) = o.regs
  BY DEF Cpu!Stored
<1> QED BY <1>1, <1>3, <1>4, <1>6, <1>7

\* A store of any word, or none.
LEMMA StoreLands ==
    ASSUME NEW o, NEW d \in 0 .. 2, IsOperand(o, d), Machine, NEW v \in Cpu!Words, Cpu!store(o, v, d)
    PROVE  r' \in RegisterFiles /\ cpu_mem' \in Memories /\ Lands(o, d, r', cpu_mem, cpu_mem', v)
<1>1. CASE o.kind = "reg"
  <2>1. r' = Cpu!Stored(o, v, d) /\ cpu_mem' = cpu_mem
    BY <1>1 DEF Cpu!store
  <2> QED BY <1>1, <2>1, RegisterStored DEF Machine
<1>2. CASE o.kind = "mem"
  <2>1. r' = Cpu!Stored(o, v, d) /\ cpu_mem' = Cpu!Written(cpu_mem, o.value, d, v)
    BY <1>2 DEF Cpu!store
  <2>2. o.regs \in RegisterFiles
    BY DEF IsOperand
  <2> QED BY <1>2, <2>1, <2>2, MemoryStored
<1>3. CASE o.kind = "imm"
  <2>1. r' = o.regs /\ cpu_mem' = cpu_mem
    BY <1>3 DEF Cpu!store, Cpu!Stored
  <2> QED BY <1>3, <2>1 DEF Lands, IsOperand, Machine
<1> QED BY <1>1, <1>2, <1>3 DEF IsOperand

LEMMA KeptLands ==
    ASSUME NEW o, NEW d \in 0 .. 2, IsOperand(o, d), Machine, r' = o.regs, UNCHANGED cpu_mem
    PROVE  /\ r' \in RegisterFiles /\ cpu_mem' \in Memories
           /\ Lands(o, d, r', cpu_mem, cpu_mem', Cpu!load(o, d))
<1>1. o.kind = "reg" => Cpu!load(o, d) = r'[o.value]
  BY DEF Cpu!load
<1>2. o.kind = "mem" => Cpu!load(o, d) = Cpu!ReadFrom(cpu_mem', o.value, d)
  BY DEF Cpu!load, Cpu!Read
<1> QED BY <1>1, <1>2 DEF Lands, IsOperand, Machine

-----------------------------------------------------------------------------
(***************************************************************************)
(* Arithmetic, on remainders and on the signed numbers they stand for.     *)
(***************************************************************************)
\* Less than one turn away.
LEMMA Wraps ==
    ASSUME NEW m \in Nat \ {0}, NEW n \in Int, -m <= n, n < 2 * m
    PROVE  /\ n < 0 => n % m = n + m
           /\ n >= 0 /\ n < m => n % m = n
           /\ n >= m => n % m = n - m
<1>1. ASSUME n < 0 PROVE n % m = n + m
  <2>1. n = m * (-1) + (n + m) /\ n + m \in 0 .. m - 1
    BY <1>1
  <2> QED BY <2>1, Quotient
<1>2. ASSUME n >= 0, n < m PROVE n % m = n
  <2>1. n = m * 0 + n /\ n \in 0 .. m - 1
    BY <1>2
  <2> QED BY <2>1, Quotient
<1>3. ASSUME n >= m PROVE n % m = n - m
  <2>1. n = m * 1 + (n - m) /\ n - m \in 0 .. m - 1
    BY <1>3
  <2> QED BY <2>1, Quotient
<1> QED BY <1>1, <1>2, <1>3

\* Cut to a word and then to a width, is cut to the width.
LEMMA CutWord ==
    ASSUME NEW m, NEW h, NEW k, IsWidth(m, h, k), NEW n \in Int
    PROVE  Cpu!M32(n) % m = n % m
<1>1. PICK w \in Nat \ {0} : w = Cpu!Modulus(2) /\ w = m * k
  BY WordIs DEF IsWidth
<1>2. m \in Nat \ {0} /\ k \in Nat \ {0}
  BY DEF IsWidth
<1>3. (n % w) % m = n % m
  BY <1>1, <1>2, ModMod
<1> QED BY <1>1, <1>3 DEF Cpu!M32

LEMMA SumExact ==
    ASSUME NEW m, NEW h, NEW k, IsWidth(m, h, k), NEW a \in Int, NEW b \in Int
    PROVE  /\ Cpu!M32(b + a) % m = ((b % m) + (a % m)) % m
           /\ (((b % m >= h) <=> (a % m >= h)) /\ ~((b % m >= h) <=> (Cpu!M32(b + a) % m >= h)))
              <=> ~(-h <= Cpu!sx(b, m) + Cpu!sx(a, m) /\ Cpu!sx(b, m) + Cpu!sx(a, m) <= h - 1)
<1>1. m \in Nat \ {0} /\ h \in Nat \ {0} /\ m = 2 * h
  BY DEF IsWidth
<1>2. PICK x \in 0 .. m - 1, s \in Int :
          x = a % m /\ s = Cpu!sx(a, m) /\ (x >= h => s = x - m) /\ (x < h => s = x)
  BY Signs
<1>3. PICK y \in 0 .. m - 1, t \in Int :
          y = b % m /\ t = Cpu!sx(b, m) /\ (y >= h => t = y - m) /\ (y < h => t = y)
  BY Signs
<1>4. b + a \in Int
  OBVIOUS
<1>5. Cpu!M32(b + a) % m = (y + x) % m
  <2>1. Cpu!M32(b + a) % m = (b + a) % m
    BY <1>4, CutWord
  <2> QED BY <1>1, <1>2, <1>3, <2>1, ModSum
<1>6. PICK n \in Int : n = y + x
  OBVIOUS
<1>7. /\ n >= 0 /\ n < m => n % m = n
      /\ n >= m => n % m = n - m
  <2>1. -m <= n /\ n < 2 * m
    BY <1>1, <1>6
  <2> QED BY <1>1, <2>1, Wraps
<1>8. PICK z \in Int : z = n % m /\ (n < m => z = n) /\ (n >= m => z = n - m)
  BY <1>1, <1>6, <1>7
<1>9. (((y >= h) <=> (x >= h)) /\ ~((y >= h) <=> (z >= h))) <=> ~(-h <= t + s /\ t + s <= h - 1)
  BY <1>1, <1>2, <1>3, <1>6, <1>8
<1> QED BY <1>2, <1>3, <1>5, <1>6, <1>8, <1>9

LEMMA DifferenceExact ==
    ASSUME NEW m, NEW h, NEW k, IsWidth(m, h, k), NEW a \in Int, NEW b \in Int
    PROVE  /\ Cpu!M32(b - a) % m = ((b % m) - (a % m)) % m
           /\ (~((b % m >= h) <=> (a % m >= h)) /\ ~((b % m >= h) <=> (Cpu!M32(b - a) % m >= h)))
              <=> ~(-h <= Cpu!sx(b, m) - Cpu!sx(a, m) /\ Cpu!sx(b, m) - Cpu!sx(a, m) <= h - 1)
           /\ Cpu!M32(b - a) % m = 0 <=> b % m = a % m
           /\ Cpu!sx(b, m) = Cpu!sx(a, m) <=> b % m = a % m
           /\ ~((Cpu!M32(b - a) % m >= h) <=>
                (~((b % m >= h) <=> (a % m >= h)) /\ ~((b % m >= h) <=> (Cpu!M32(b - a) % m >= h))))
              <=> Cpu!sx(b, m) < Cpu!sx(a, m)
<1>1. m \in Nat \ {0} /\ h \in Nat \ {0} /\ m = 2 * h
  BY DEF IsWidth
<1>2. PICK x \in 0 .. m - 1, s \in Int :
          x = a % m /\ s = Cpu!sx(a, m) /\ (x >= h => s = x - m) /\ (x < h => s = x)
  BY Signs
<1>3. PICK y \in 0 .. m - 1, t \in Int :
          y = b % m /\ t = Cpu!sx(b, m) /\ (y >= h => t = y - m) /\ (y < h => t = y)
  BY Signs
<1>4. b - a \in Int
  OBVIOUS
<1>5. Cpu!M32(b - a) % m = (y - x) % m
  <2>1. Cpu!M32(b - a) % m = (b - a) % m
    BY <1>4, CutWord
  <2> QED BY <1>1, <1>2, <1>3, <2>1, ModSum
<1>6. PICK n \in Int : n = y - x
  OBVIOUS
<1>7. /\ n < 0 => n % m = n + m
      /\ n >= 0 /\ n < m => n % m = n
  <2>1. -m <= n /\ n < 2 * m
    BY <1>1, <1>6
  <2> QED BY <1>1, <2>1, Wraps
<1>8. PICK z \in Int : z = n % m /\ (n < 0 => z = n + m) /\ (n >= 0 => z = n)
  BY <1>1, <1>6, <1>7
<1>9. PICK g \in Int : g = t - s
  OBVIOUS
<1>10. (~((y >= h) <=> (x >= h)) /\ ~((y >= h) <=> (z >= h))) <=> ~(-h <= g /\ g <= h - 1)
  BY <1>1, <1>2, <1>3, <1>6, <1>8, <1>9
<1>11. (z = 0 <=> y = x) /\ (t = s <=> y = x)
  BY <1>1, <1>2, <1>3, <1>6, <1>8
<1>12. ~((z >= h) <=> (~((y >= h) <=> (x >= h)) /\ ~((y >= h) <=> (z >= h)))) <=> t < s
  BY <1>1, <1>2, <1>3, <1>6, <1>8
<1> QED BY <1>2, <1>3, <1>5, <1>6, <1>8, <1>9, <1>10, <1>11, <1>12

LEMMA NegationExact ==
    ASSUME NEW m, NEW h, NEW k, IsWidth(m, h, k), NEW a \in Int
    PROVE  /\ Cpu!M32(-a) % m = (0 - (a % m)) % m
           /\ (a % m >= h /\ Cpu!M32(-a) % m >= h)
              <=> ~(-h <= 0 - Cpu!sx(a, m) /\ 0 - Cpu!sx(a, m) <= h - 1)
<1>1. m \in Nat \ {0} /\ h \in Nat \ {0} /\ m = 2 * h
  BY DEF IsWidth
<1>2. PICK x \in 0 .. m - 1, s \in Int :
          x = a % m /\ s = Cpu!sx(a, m) /\ (x >= h => s = x - m) /\ (x < h => s = x)
  BY Signs
<1>3. Cpu!M32(-a) % m = (0 - x) % m
  <2>1. -a \in Int /\ -a = 0 - a /\ 0 \in Int /\ 0 \in 0 .. m - 1
    BY <1>1
  <2>2. Cpu!M32(-a) % m = (0 - a) % m
    BY <2>1, CutWord
  <2>3. ((0 % m) - (a % m)) % m = (0 - a) % m
    BY <1>1, <2>1, ModSum
  <2>4. 0 % m = 0
    BY <1>1, <2>1, Remains
  <2> QED BY <1>2, <2>2, <2>3, <2>4
<1>4. PICK n \in Int : n = 0 - x
  OBVIOUS
<1>5. /\ n < 0 => n % m = n + m
      /\ n >= 0 /\ n < m => n % m = n
  <2>1. -m <= n /\ n < 2 * m
    BY <1>1, <1>4
  <2> QED BY <1>1, <2>1, Wraps
<1>6. PICK z \in Int : z = n % m /\ (n < 0 => z = n + m) /\ (n >= 0 => z = n)
  BY <1>1, <1>4, <1>5
<1>7. (x >= h /\ z >= h) <=> ~(-h <= 0 - s /\ 0 - s <= h - 1)
  BY <1>1, <1>2, <1>4, <1>6
<1> QED BY <1>2, <1>3, <1>4, <1>6, <1>7

\* The bits above a product tell whether it fits.
LEMMA ProductOverflows ==
    ASSUME NEW m \in Nat \ {0}, NEW top \in Nat \ {0}, m * m <= top, NEW x \in 0 .. m - 1, NEW y \in 0 .. m - 1
    PROVE  /\ y * x \in Nat
           /\ ((y * x) % top) \div m # 0 <=> y * x >= m
<1>1. PICK p \in Nat : p = y * x
  OBVIOUS
<1>2. p < top
  <2>1. y * x <= y * m
    OBVIOUS
  <2>2. PICK u \in Nat, v \in Nat : u = y * m /\ v = m * m
    OBVIOUS
  <2>3. u + m <= v
    <3>1. (y + 1) * m <= m * m
      OBVIOUS
    <3>2. (y + 1) * m = y * m + m
      OBVIOUS
    <3> QED BY <2>2, <3>1, <3>2
  <2> QED BY <1>1, <2>1, <2>2, <2>3
<1>3. p % top = p
  BY <1>2, Remains
<1>4. PICK q \in Int, s \in 0 .. m - 1 : p = m * q + s /\ q = p \div m
  BY Divided
<1>5. q = 0 => p < m
  BY <1>4
<1>6. q > 0 => p >= m
  <2>1. q > 0 => m * q >= m * 1
    OBVIOUS
  <2> QED BY <1>4, <2>1
<1>7. q >= 0
  <2>1. q < 0 => m * q <= m * (-1)
    OBVIOUS
  <2> QED BY <1>4, <2>1
<1> QED BY <1>1, <1>3, <1>4, <1>5, <1>6, <1>7

\* A number in the range of the signed ones is found again.
LEMMA SignedAgain ==
    ASSUME NEW m, NEW h, NEW k, IsWidth(m, h, k), NEW q \in Int, -h <= q, q <= h - 1
    PROVE  Cpu!sx(q, m) = q
<1>1. m \in Nat \ {0} /\ h \in Nat \ {0} /\ m = 2 * h
  BY DEF IsWidth
<1>2. PICK x \in 0 .. m - 1, s \in Int :
          x = q % m /\ s = Cpu!sx(q, m) /\ (x >= h => s = x - m) /\ (x < h => s = x)
  BY Signs
<1>3. /\ q < 0 => q % m = q + m
      /\ q >= 0 /\ q < m => q % m = q
  <2>1. -m <= q /\ q < 2 * m
    BY <1>1
  <2> QED BY <1>1, <2>1, Wraps
<1>4. s = q
  BY <1>1, <1>2, <1>3
<1> QED BY <1>2, <1>4

\* What stands for the same number.
LEMMA SignedCut ==
    ASSUME NEW m, NEW h, NEW k, IsWidth(m, h, k), NEW v \in Int
    PROVE  Cpu!sx(v % m, m) = Cpu!sx(v, m)
<1>1. m \in Nat \ {0}
  BY DEF IsWidth
<1>2. v % m \in 0 .. m - 1
  BY <1>1, Divided
<1>3. (v % m) % m = v % m
  BY <1>1, <1>2, Remains
<1> QED BY <1>3 DEF Cpu!sx

\* The quotient toward zero, and what is left.
LEMMA QuotientExact ==
    ASSUME NEW h \in Nat \ {0}, NEW s \in Int, NEW t \in Int, s # 0, -h <= t, t <= h - 1
    PROVE  \E q \in Int, e \in Int :
              /\ q = Cpu!toward_zero(t, s) /\ e = t - q * s
              /\ e * e < s * s /\ (e = 0 \/ ((e < 0) <=> (t < 0)))
              /\ -h <= q /\ q <= h
              /\ q = h <=> t = -h /\ s = -1
<1>1. PICK a \in Nat \ {0} : a = Cpu!abs(s) /\ (s < 0 => a = -s) /\ (s >= 0 => a = s)
  BY DEF Cpu!abs
<1>2. PICK b \in Nat : b = Cpu!abs(t) /\ (t < 0 => b = -t) /\ (t >= 0 => b = t)
  BY DEF Cpu!abs
<1>3. PICK c \in Int, g \in 0 .. a - 1 : b = a * c + g /\ c = b \div a
  BY Divided
<1>4. PICK p \in Int : p = a * c
  OBVIOUS
<1>5. c >= 0 /\ c <= b
  <2>1. c < 0 => a * c <= a * (-1)
    OBVIOUS
  <2>2. c >= 0
    BY <1>3, <1>4, <2>1
  <2>3. a * c >= c
    BY <2>2
  <2> QED BY <1>3, <1>4, <2>2, <2>3
<1>6. g * g < a * a
  <2>1. g * g <= g * a
    OBVIOUS
  <2>2. g * a < a * a
    OBVIOUS
  <2> QED BY <2>1, <2>2
<1>7. b <= h /\ (b = h => t = -h)
  BY <1>2
<1>8. c = h => a = 1 /\ t = -h
  <2> SUFFICES ASSUME c = h PROVE a = 1 /\ t = -h
    OBVIOUS
  <2>1. b = h /\ t = -h
    BY <1>5, <1>7
  <2>2. CASE a >= 2
    <3>1. a * c >= 2 * c
      BY <1>5, <2>2
    <3> QED BY <1>3, <1>4, <2>1, <3>1
  <2> QED BY <2>1, <2>2
<1>9. a = 1 => c = b
  BY <1>3
<1>10. PICK q \in Int : q = Cpu!toward_zero(t, s) /\ (((t < 0) <=> (s < 0)) => q = c) /\ (~((t < 0) <=> (s < 0)) => q = -c)
  BY <1>1, <1>2, <1>3 DEF Cpu!toward_zero
<1>11. PICK y \in Int : y = q * s
  OBVIOUS
<1>12. (t < 0 => y = -p) /\ (t >= 0 => y = p)
  <2>1. CASE t < 0 /\ s < 0
    <3>1. q = c /\ s = -a
      BY <1>1, <1>10, <2>1
    <3>2. c * (-a) = -(a * c)
      OBVIOUS
    <3> QED BY <1>4, <1>11, <2>1, <3>1, <3>2
  <2>2. CASE t < 0 /\ s >= 0
    <3>1. q = -c /\ s = a
      BY <1>1, <1>10, <2>2
    <3>2. (-c) * a = -(a * c)
      OBVIOUS
    <3> QED BY <1>4, <1>11, <2>2, <3>1, <3>2
  <2>3. CASE t >= 0 /\ s < 0
    <3>1. q = -c /\ s = -a
      BY <1>1, <1>10, <2>3
    <3>2. (-c) * (-a) = a * c
      OBVIOUS
    <3> QED BY <1>4, <1>11, <2>3, <3>1, <3>2
  <2>4. CASE t >= 0 /\ s >= 0
    <3>1. q = c /\ s = a
      BY <1>1, <1>10, <2>4
    <3>2. c * a = a * c
      OBVIOUS
    <3> QED BY <1>4, <1>11, <2>4, <3>1, <3>2
  <2> QED BY <2>1, <2>2, <2>3, <2>4
<1>13. PICK e \in Int : e = t - y
  OBVIOUS
<1>14. (t < 0 => e = -g) /\ (t >= 0 => e = g)
  BY <1>2, <1>3, <1>4, <1>12, <1>13
<1>15. e * e = g * g /\ s * s = a * a
  <2>1. e = g \/ e = -g
    BY <1>14
  <2>2. s = a \/ s = -a
    BY <1>1
  <2>3. (-g) * (-g) = g * g /\ (-a) * (-a) = a * a
    OBVIOUS
  <2> QED BY <2>1, <2>2, <2>3
<1>16. e * e < s * s
  BY <1>6, <1>15
<1>17. e = 0 \/ ((e < 0) <=> (t < 0))
  BY <1>14
<1>18. -h <= q /\ q <= h
  BY <1>5, <1>7, <1>10
<1>19. q = h <=> t = -h /\ s = -1
  <2>1. ASSUME q = h PROVE t = -h /\ s = -1
    <3>1. c = h
      BY <1>5, <1>10, <2>1
    <3>2. a = 1 /\ t = -h
      BY <1>8, <3>1
    <3>3. t < 0
      BY <3>2
    <3>4. s < 0
      BY <1>5, <1>10, <2>1, <3>1, <3>3
    <3> QED BY <1>1, <3>2, <3>4
  <2>2. ASSUME t = -h, s = -1 PROVE q = h
    <3>1. a = 1 /\ b = h
      BY <1>1, <1>2, <2>2
    <3> QED BY <1>9, <1>10, <2>2, <3>1
  <2> QED BY <2>1, <2>2
<1> QED BY <1>10, <1>11, <1>13, <1>16, <1>17, <1>18, <1>19

-----------------------------------------------------------------------------
(***************************************************************************)
(* Results: a word or none, and the flags.                                 *)
(***************************************************************************)
ZeroSign(f, v, d) ==
    /\ f.z <=> v % Cpu!Modulus(d) = 0
    /\ f.s <=> v % Cpu!Modulus(d) >= Cpu!Modulus(d) \div 2

LEMMA FlagsSet ==
    ASSUME NEW f \in Flags, NEW v, NEW d
    PROVE  /\ Cpu!setzs(f, v, d) \in Flags
           /\ ZeroSign(Cpu!setzs(f, v, d), v, d)
<1>1. PICK x \in BOOLEAN : x <=> Cpu!dimext(v, d) = 0
  OBVIOUS
<1>2. PICK y \in BOOLEAN : y <=> Cpu!dimext(v, d) >= Cpu!Modulus(d) \div 2
  OBVIOUS
<1>3. x = (Cpu!dimext(v, d) = 0) /\ y = Cpu!dimsgn(v, d)
  BY <1>1, <1>2 DEF Cpu!dimsgn
<1>4. PICK g : g = [f EXCEPT !.z = x, !.s = y]
  OBVIOUS
<1>5. g = Cpu!setzs(f, v, d)
  BY <1>3, <1>4 DEF Cpu!setzs
<1>6. g \in Flags /\ g.z = x /\ g.s = y
  BY <1>4 DEF Flags
<1>7. ZeroSign(g, v, d)
  BY <1>1, <1>2, <1>6 DEF ZeroSign, Cpu!dimext
<1> QED BY <1>5, <1>6, <1>7

LEMMA SignIs ==
    ASSUME NEW d, NEW m, NEW h, NEW k, m = Cpu!Modulus(d), IsWidth(m, h, k), NEW v
    PROVE  \E p \in BOOLEAN : p = Cpu!dimsgn(v, d) /\ (p <=> v % m >= h)
<1>1. PICK p \in BOOLEAN : p <=> v % m >= h
  OBVIOUS
<1>2. p <=> Cpu!dimext(v, d) >= Cpu!Modulus(d) \div 2
  BY <1>1 DEF Cpu!dimext, IsWidth
<1>3. p = Cpu!dimsgn(v, d)
  BY <1>2 DEF Cpu!dimsgn
<1> QED BY <1>1, <1>3

LEMMA SumIs ==
    ASSUME NEW d \in 0 .. 2, NEW a \in Int, NEW b \in Int, fl \in Flags
    PROVE  \E v \in Cpu!Words, f \in Flags :
              /\ Cpu!Sum(a, b, d) = [value |-> v, fl |-> f] /\ ZeroSign(f, v, d)
              /\ v % Cpu!Modulus(d) = (Cpu!dimext(b, d) + Cpu!dimext(a, d)) % Cpu!Modulus(d)
              /\ f.cy <=> Cpu!dimext(b, d) + Cpu!dimext(a, d) >= Cpu!Modulus(d)
              /\ f.ov <=> Cpu!sx(b, Cpu!Modulus(d)) + Cpu!sx(a, Cpu!Modulus(d)) \notin Cpu!Signed(Cpu!Modulus(d))
<1>1. PICK m, h, k : m = Cpu!Modulus(d) /\ IsWidth(m, h, k)
  BY ModulusIs
<1>2. PICK v \in Cpu!Words : v = Cpu!M32(b + a)
  BY MaskIs
<1>3. PICK g \in Flags : g = Cpu!setzs(fl, v, d) /\ ZeroSign(g, v, d)
  BY FlagsSet
<1>4. PICK c \in BOOLEAN : c <=> Cpu!dimext(b, d) + Cpu!dimext(a, d) >= Cpu!Modulus(d)
  OBVIOUS
<1>5. PICK p \in BOOLEAN : p = Cpu!dimsgn(b, d) /\ (p <=> b % m >= h)
  BY <1>1, SignIs
<1>p. PICK q \in BOOLEAN : q = Cpu!dimsgn(a, d) /\ (q <=> a % m >= h)
  BY <1>1, SignIs
<1>q. PICK w \in BOOLEAN : w = Cpu!dimsgn(v, d) /\ (w <=> v % m >= h)
  BY <1>1, SignIs
<1>o. PICK o \in BOOLEAN : o <=> (p <=> q) /\ ~(p <=> w)
  OBVIOUS
<1>6. /\ c = (Cpu!dimext(b, d) + Cpu!dimext(a, d) >= Cpu!Modulus(d))
      /\ o = (p = q /\ p # w)
  BY <1>4, <1>o
<1>7. PICK f : f = [g EXCEPT !.cy = c, !.ov = o]
  OBVIOUS
<1>8. f \in Flags /\ f.cy = c /\ f.ov = o /\ f.z = g.z /\ f.s = g.s
  BY <1>7 DEF Flags
<1>9. ZeroSign(f, v, d)
  BY <1>3, <1>8 DEF ZeroSign
<1>10. Cpu!Sum(a, b, d) = [value |-> v, fl |-> f]
  BY <1>2, <1>3, <1>5, <1>p, <1>q, <1>6, <1>7 DEF Cpu!Sum
<1>11. v % m = ((b % m) + (a % m)) % m
  BY <1>1, <1>2, SumExact
<1>12. o <=> ~(-h <= Cpu!sx(b, m) + Cpu!sx(a, m) /\ Cpu!sx(b, m) + Cpu!sx(a, m) <= h - 1)
  <2>1. (((b % m >= h) <=> (a % m >= h)) /\ ~((b % m >= h) <=> (Cpu!M32(b + a) % m >= h)))
        <=> ~(-h <= Cpu!sx(b, m) + Cpu!sx(a, m) /\ Cpu!sx(b, m) + Cpu!sx(a, m) <= h - 1)
    BY <1>1, SumExact
  <2>2. Cpu!M32(b + a) % m = v % m
    BY <1>2
  <2>3. ((p <=> q) /\ ~(p <=> w)) <=> ~(-h <= Cpu!sx(b, m) + Cpu!sx(a, m) /\ Cpu!sx(b, m) + Cpu!sx(a, m) <= h - 1)
    BY <1>5, <1>p, <1>q, <2>1, <2>2, Zenon
  <2> QED BY <1>o, <2>3
<1>13. PICK s \in Int, t \in Int : s = Cpu!sx(a, m) /\ t = Cpu!sx(b, m)
  BY <1>1, Signs
<1>14. o <=> t + s \notin Cpu!Signed(m)
  BY <1>1, <1>12, <1>13 DEF Cpu!Signed, IsWidth
<1>15. v % Cpu!Modulus(d) = (Cpu!dimext(b, d) + Cpu!dimext(a, d)) % Cpu!Modulus(d)
  BY <1>1, <1>11 DEF Cpu!dimext
<1> QED BY <1>1, <1>4, <1>8, <1>9, <1>10, <1>13, <1>14, <1>15

IsDifference(d, a, b, v, f, s, t) ==
    /\ Cpu!Difference(a, b, d) = [value |-> v, fl |-> f] /\ ZeroSign(f, v, d)
    /\ s = Cpu!sx(a, Cpu!Modulus(d)) /\ t = Cpu!sx(b, Cpu!Modulus(d))
    /\ v % Cpu!Modulus(d) = (Cpu!dimext(b, d) - Cpu!dimext(a, d)) % Cpu!Modulus(d)
    /\ f.cy <=> Cpu!dimext(b, d) < Cpu!dimext(a, d)
    /\ f.ov <=> t - s \notin Cpu!Signed(Cpu!Modulus(d))
    /\ f.z <=> Cpu!dimext(b, d) = Cpu!dimext(a, d)
    /\ t = s <=> Cpu!dimext(b, d) = Cpu!dimext(a, d)
    /\ ~(f.s <=> f.ov) <=> t < s

LEMMA DifferenceIs ==
    ASSUME NEW d \in 0 .. 2, NEW a \in Int, NEW b \in Int, fl \in Flags
    PROVE  \E v \in Cpu!Words, f \in Flags, s \in Int, t \in Int : IsDifference(d, a, b, v, f, s, t)
<1>1. PICK m, h, k : m = Cpu!Modulus(d) /\ IsWidth(m, h, k)
  BY ModulusIs
<1>2. PICK v \in Cpu!Words : v = Cpu!M32(b - a)
  BY MaskIs
<1>3. PICK g \in Flags : g = Cpu!setzs(fl, v, d) /\ ZeroSign(g, v, d)
  BY FlagsSet
<1>4. PICK c \in BOOLEAN : c <=> Cpu!dimext(b, d) < Cpu!dimext(a, d)
  OBVIOUS
<1>5. PICK p \in BOOLEAN : p = Cpu!dimsgn(b, d) /\ (p <=> b % m >= h)
  BY <1>1, SignIs
<1>6. PICK q \in BOOLEAN : q = Cpu!dimsgn(a, d) /\ (q <=> a % m >= h)
  BY <1>1, SignIs
<1>7. PICK w \in BOOLEAN : w = Cpu!dimsgn(v, d) /\ (w <=> v % m >= h)
  BY <1>1, SignIs
<1>8. PICK o \in BOOLEAN : o <=> ~(p <=> q) /\ ~(p <=> w)
  OBVIOUS
<1>9. /\ c = (Cpu!dimext(b, d) < Cpu!dimext(a, d))
      /\ o = (p # q /\ p # w)
  BY <1>4, <1>8
<1>10. PICK f : f = [g EXCEPT !.cy = c, !.ov = o]
  OBVIOUS
<1>11. f \in Flags /\ f.cy = c /\ f.ov = o /\ f.z = g.z /\ f.s = g.s
  BY <1>10 DEF Flags
<1>12. ZeroSign(f, v, d)
  BY <1>3, <1>11 DEF ZeroSign
<1>13. Cpu!Difference(a, b, d) = [value |-> v, fl |-> f]
  BY <1>2, <1>3, <1>5, <1>6, <1>7, <1>9, <1>10 DEF Cpu!Difference
<1>14. v % m = ((b % m) - (a % m)) % m
  BY <1>1, <1>2, DifferenceExact
<1>15. PICK s \in Int, t \in Int : s = Cpu!sx(a, m) /\ t = Cpu!sx(b, m)
  BY <1>1, Signs
<1>16. /\ (~((b % m >= h) <=> (a % m >= h)) /\ ~((b % m >= h) <=> (v % m >= h)))
          <=> ~(-h <= t - s /\ t - s <= h - 1)
       /\ v % m = 0 <=> b % m = a % m
       /\ t = s <=> b % m = a % m
       /\ ~((v % m >= h) <=>
            (~((b % m >= h) <=> (a % m >= h)) /\ ~((b % m >= h) <=> (v % m >= h))))
          <=> t < s
  BY <1>1, <1>2, <1>15, DifferenceExact
<1>17. o <=> ~(-h <= t - s /\ t - s <= h - 1)
  BY <1>5, <1>6, <1>7, <1>8, <1>16, Zenon
<1>18. t - s \notin Cpu!Signed(m) <=> ~(-h <= t - s /\ t - s <= h - 1)
  BY <1>1 DEF Cpu!Signed, IsWidth
<1>19. ~(w <=> o) <=> t < s
  BY <1>5, <1>6, <1>7, <1>8, <1>16, Zenon
<1>20. f.s <=> w
  BY <1>1, <1>7, <1>12 DEF ZeroSign, IsWidth
<1>21. f.z <=> b % m = a % m
  BY <1>1, <1>12, <1>16 DEF ZeroSign
<1>22. v % Cpu!Modulus(d) = (Cpu!dimext(b, d) - Cpu!dimext(a, d)) % Cpu!Modulus(d)
  BY <1>1, <1>14 DEF Cpu!dimext
<1>23. /\ f.z <=> Cpu!dimext(b, d) = Cpu!dimext(a, d)
       /\ t = s <=> Cpu!dimext(b, d) = Cpu!dimext(a, d)
  BY <1>1, <1>16, <1>21 DEF Cpu!dimext
<1>24. f.ov <=> t - s \notin Cpu!Signed(m)
  BY <1>11, <1>17, <1>18
<1>25. ~(f.s <=> f.ov) <=> t < s
  BY <1>11, <1>19, <1>20
<1>26. IsDifference(d, a, b, v, f, s, t)
  BY <1>1, <1>4, <1>11, <1>12, <1>13, <1>15, <1>22, <1>23, <1>24, <1>25 DEF IsDifference
<1> QED BY <1>11, <1>15, <1>26

LEMMA NegatedIs ==
    ASSUME NEW d \in 0 .. 2, NEW a \in Int, fl \in Flags
    PROVE  \E v \in Cpu!Words, f \in Flags, s \in Int :
              /\ Cpu!Negated(a, d) = [value |-> v, fl |-> f] /\ ZeroSign(f, v, d)
              /\ s = Cpu!sx(a, Cpu!Modulus(d))
              /\ v % Cpu!Modulus(d) = (0 - Cpu!dimext(a, d)) % Cpu!Modulus(d)
              /\ f.cy <=> Cpu!dimext(a, d) > 0
              /\ f.ov <=> 0 - s \notin Cpu!Signed(Cpu!Modulus(d))
<1>1. PICK m, h, k : m = Cpu!Modulus(d) /\ IsWidth(m, h, k)
  BY ModulusIs
<1>2. PICK v \in Cpu!Words : v = Cpu!M32(-a)
  BY MaskIs
<1>3. PICK g \in Flags : g = Cpu!setzs(fl, v, d) /\ ZeroSign(g, v, d)
  BY FlagsSet
<1>4. PICK x \in 0 .. m - 1 : x = Cpu!dimext(a, d)
  BY <1>1, Divided DEF Cpu!dimext, IsWidth
<1>5. PICK c \in BOOLEAN : c <=> x > 0
  OBVIOUS
<1>6. PICK q \in BOOLEAN : q = Cpu!dimsgn(a, d) /\ (q <=> a % m >= h)
  BY <1>1, SignIs
<1>7. PICK w \in BOOLEAN : w = Cpu!dimsgn(v, d) /\ (w <=> v % m >= h)
  BY <1>1, SignIs
<1>8. PICK o \in BOOLEAN : o <=> q /\ w
  OBVIOUS
<1>9. /\ c = (Cpu!dimext(a, d) # 0)
      /\ o = (q /\ w)
  BY <1>1, <1>4, <1>5, <1>8
<1>10. PICK f : f = [g EXCEPT !.cy = c, !.ov = o]
  OBVIOUS
<1>11. f \in Flags /\ f.cy = c /\ f.ov = o /\ f.z = g.z /\ f.s = g.s
  BY <1>10 DEF Flags
<1>12. ZeroSign(f, v, d)
  BY <1>3, <1>11 DEF ZeroSign
<1>13. Cpu!Negated(a, d) = [value |-> v, fl |-> f]
  BY <1>2, <1>3, <1>6, <1>7, <1>9, <1>10 DEF Cpu!Negated
<1>14. PICK s \in Int : s = Cpu!sx(a, m)
  BY <1>1, Signs
<1>15. /\ v % m = (0 - (a % m)) % m
       /\ (a % m >= h /\ v % m >= h) <=> ~(-h <= 0 - s /\ 0 - s <= h - 1)
  BY <1>1, <1>2, <1>14, NegationExact
<1>16. o <=> ~(-h <= 0 - s /\ 0 - s <= h - 1)
  BY <1>6, <1>7, <1>8, <1>15, Zenon
<1>17. 0 - s \notin Cpu!Signed(m) <=> ~(-h <= 0 - s /\ 0 - s <= h - 1)
  BY <1>1 DEF Cpu!Signed, IsWidth
<1>18. f.ov <=> 0 - s \notin Cpu!Signed(m)
  BY <1>11, <1>16, <1>17
<1>19. v % Cpu!Modulus(d) = (0 - Cpu!dimext(a, d)) % Cpu!Modulus(d)
  BY <1>1, <1>15 DEF Cpu!dimext
<1> QED BY <1>1, <1>4, <1>5, <1>11, <1>12, <1>13, <1>14, <1>18, <1>19

\* The conditions come in pairs, of a condition and its opposite.
LEMMA ConditionsAre ==
    ASSUME NEW f \in Flags
    PROVE  /\ Cpu!cond(2, f) <=> f.cy
           /\ Cpu!cond(6, f) <=> f.cy \/ f.z
           /\ Cpu!cond(4, f) <=> f.z
           /\ Cpu!cond(12, f) <=> ~(f.s <=> f.ov)
           /\ Cpu!cond(14, f) <=> ~(f.s <=> f.ov) \/ f.z
           /\ \A cc \in 0 .. 15 : Cpu!cond(cc, f) # Cpu!cond(IF cc % 2 = 0 THEN cc + 1 ELSE cc - 1, f)
<1>1. f.z \in BOOLEAN /\ f.s \in BOOLEAN /\ f.ov \in BOOLEAN /\ f.cy \in BOOLEAN
  BY DEF Flags
<1>2. /\ Cpu!cond(2, f) <=> f.cy
      /\ Cpu!cond(6, f) <=> f.cy \/ f.z
      /\ Cpu!cond(4, f) <=> f.z
      /\ Cpu!cond(12, f) <=> ~(f.s <=> f.ov)
      /\ Cpu!cond(14, f) <=> ~(f.s <=> f.ov) \/ f.z
  BY <1>1 DEF Cpu!cond
<1>0. \A n \in {0, 1, 2, 3, 4, 5, 6, 7} : Cpu!cond(2 * n, f) # Cpu!cond((2 * n) + 1, f)
  <2>0. Cpu!cond(0, f) # Cpu!cond(1, f)
    BY <1>1 DEF Cpu!cond
  <2>1. Cpu!cond(2, f) # Cpu!cond(3, f)
    BY <1>1 DEF Cpu!cond
  <2>2. Cpu!cond(4, f) # Cpu!cond(5, f)
    BY <1>1 DEF Cpu!cond
  <2>3. Cpu!cond(6, f) # Cpu!cond(7, f)
    BY <1>1 DEF Cpu!cond
  <2>4. Cpu!cond(8, f) # Cpu!cond(9, f)
    BY <1>1 DEF Cpu!cond
  <2>5. Cpu!cond(10, f) # Cpu!cond(11, f)
    <3>1. Cpu!cond(10, f)
      BY DEF Cpu!cond
    <3>2. ~Cpu!cond(11, f)
      BY DEF Cpu!cond
    <3> QED BY <3>1, <3>2
  <2>6. Cpu!cond(12, f) # Cpu!cond(13, f)
    BY <1>1 DEF Cpu!cond
  <2>7. Cpu!cond(14, f) # Cpu!cond(15, f)
    BY <1>1 DEF Cpu!cond
  <2> QED BY <2>0, <2>1, <2>2, <2>3, <2>4, <2>5, <2>6, <2>7
<1>3. ASSUME NEW cc \in 0 .. 15
      PROVE  Cpu!cond(cc, f) # Cpu!cond(IF cc % 2 = 0 THEN cc + 1 ELSE cc - 1, f)
  <2>1. PICK n \in 0 .. 7, u \in 0 .. 1 : cc = 2 * n + u
    OBVIOUS
  <2>2. n \in {0, 1, 2, 3, 4, 5, 6, 7}
    OBVIOUS
  <2>3. Cpu!cond(2 * n, f) # Cpu!cond((2 * n) + 1, f)
    BY <1>0, <2>2
  <2>4. CASE u = 0
    <3>1. cc = 2 * n /\ (IF cc % 2 = 0 THEN cc + 1 ELSE cc - 1) = (2 * n) + 1
      BY <2>1, <2>4
    <3> QED BY <2>3, <3>1
  <2>5. CASE u = 1
    <3>1. cc = (2 * n) + 1 /\ (IF cc % 2 = 0 THEN cc + 1 ELSE cc - 1) = 2 * n
      BY <2>1, <2>5
    <3> QED BY <2>3, <3>1
  <2> QED BY <2>4, <2>5
<1> QED BY <1>2, <1>3

LEMMA OverflowSet ==
    ASSUME NEW v, NEW d, fl \in Flags, NEW o \in BOOLEAN
    PROVE  \E f \in Flags : /\ f = [Cpu!setzs(fl, v, d) EXCEPT !.ov = o]
                            /\ ZeroSign(f, v, d) /\ f.ov = o
<1>1. PICK g \in Flags : g = Cpu!setzs(fl, v, d) /\ ZeroSign(g, v, d)
  BY FlagsSet
<1>2. PICK f : f = [g EXCEPT !.ov = o]
  OBVIOUS
<1>3. f \in Flags /\ f.ov = o /\ f.z = g.z /\ f.s = g.s
  BY <1>2 DEF Flags
<1>4. ZeroSign(f, v, d)
  BY <1>1, <1>3 DEF ZeroSign
<1> QED BY <1>1, <1>2, <1>3, <1>4

LEMMA ProductIs ==
    ASSUME NEW d \in 0 .. 2, NEW p \in Int, fl \in Flags
    PROVE  \E v \in Cpu!Words, f \in Flags, top \in Nat \ {0} :
              /\ Cpu!Product(p, d) = [value |-> v, fl |-> f] /\ ZeroSign(f, v, d)
              /\ v % Cpu!Modulus(d) = p % Cpu!Modulus(d)
              /\ f.ov <=> (p % top) \div Cpu!Modulus(d) # 0
              /\ Cpu!Modulus(d) * Cpu!Modulus(d) <= top
<1>1. PICK m, h, k : m = Cpu!Modulus(d) /\ IsWidth(m, h, k) /\ (d < 2 => k >= m)
  BY ModulusIs
<1>2. PICK v \in Cpu!Words : v = Cpu!M32(p)
  BY MaskIs
<1>3. PICK w \in Nat \ {0} : w = Cpu!Modulus(2) /\ w = m * k
  BY <1>1, WordIs DEF IsWidth
<1>4. PICK top \in Nat \ {0} : top = IF d < 2 THEN Cpu!Modulus(2) ELSE Cpu!Modulus(2) * Cpu!Modulus(2)
  BY <1>3
<1>5. m * m <= top
  <2>1. CASE d < 2
    <3>1. m \in Nat /\ k \in Nat /\ k >= m
      BY <1>1, <2>1 DEF IsWidth
    <3>2. m * m <= m * k
      BY <3>1
    <3> QED BY <1>3, <1>4, <2>1, <3>2
  <2>2. CASE d = 2
    <3>1. m = w /\ top = w * w
      BY <1>1, <1>3, <1>4, <2>2
    <3>2. PICK u \in Nat : u = w * w
      OBVIOUS
    <3> QED BY <3>1, <3>2
  <2> QED BY <2>1, <2>2
<1>6. PICK o \in BOOLEAN : o <=> (p % top) \div Cpu!Modulus(d) # 0
  OBVIOUS
<1>7. o = ((p % (IF d < 2 THEN Cpu!Modulus(2) ELSE Cpu!Modulus(2) * Cpu!Modulus(2))) \div Cpu!Modulus(d) # 0)
  BY <1>4, <1>6
<1>8. PICK f \in Flags : /\ f = [Cpu!setzs(fl, v, d) EXCEPT !.ov = o]
                         /\ ZeroSign(f, v, d) /\ f.ov = o
  BY OverflowSet
<1>9. Cpu!Product(p, d) = [value |-> v, fl |-> f]
  BY <1>2, <1>7, <1>8 DEF Cpu!Product
<1>10. v % m = p % m
  BY <1>1, <1>2, CutWord
<1> QED BY <1>1, <1>4, <1>5, <1>6, <1>8, <1>9, <1>10

LEMMA UnsignedProductIs ==
    ASSUME NEW d \in 0 .. 2, NEW a \in Int, NEW b \in Int, fl \in Flags
    PROVE  \E v \in Cpu!Words, f \in Flags :
              /\ Cpu!Product(Cpu!dimext(b, d) * Cpu!dimext(a, d), d) = [value |-> v, fl |-> f]
              /\ ZeroSign(f, v, d)
              /\ v % Cpu!Modulus(d) = (Cpu!dimext(b, d) * Cpu!dimext(a, d)) % Cpu!Modulus(d)
              /\ f.ov <=> Cpu!dimext(b, d) * Cpu!dimext(a, d) >= Cpu!Modulus(d)
<1>1. PICK m \in Nat \ {0} : m = Cpu!Modulus(d)
  BY ModulusIs DEF IsWidth
<1>2. PICK x \in 0 .. m - 1, y \in 0 .. m - 1 : x = Cpu!dimext(a, d) /\ y = Cpu!dimext(b, d)
  BY <1>1, CutIs
<1>3. PICK p \in Int : p = y * x
  OBVIOUS
<1>4. PICK v \in Cpu!Words, f \in Flags, top \in Nat \ {0} :
          /\ Cpu!Product(p, d) = [value |-> v, fl |-> f] /\ ZeroSign(f, v, d)
          /\ v % Cpu!Modulus(d) = p % Cpu!Modulus(d)
          /\ f.ov <=> (p % top) \div Cpu!Modulus(d) # 0
          /\ Cpu!Modulus(d) * Cpu!Modulus(d) <= top
  BY ProductIs
<1>5. m * m <= top
  BY <1>1, <1>4
<1>6. ((y * x) % top) \div m # 0 <=> y * x >= m
  BY <1>5, ProductOverflows
<1>7. f.ov <=> p >= m
  BY <1>1, <1>3, <1>4, <1>6
<1>8. Cpu!dimext(b, d) * Cpu!dimext(a, d) = p
  BY <1>2, <1>3
<1> QED BY <1>1, <1>4, <1>7, <1>8

\* What is left when the divisor is 0.
LEMMA UndividedIs ==
    /\ \A d, a, b : Cpu!dimext(a, d) = 0 => Cpu!Quotient(a, b, d) = [value |-> Cpu!NoValue, fl |-> fl]
    /\ \A d, b : Cpu!UnsignedQuotient(0, b, d) = [value |-> Cpu!NoValue, fl |-> fl]
BY DEF Cpu!Quotient, Cpu!UnsignedQuotient, Cpu!Undivided

LEMMA UnsignedQuotientIs ==
    ASSUME NEW d \in 0 .. 2, NEW x \in 0 .. Cpu!Modulus(d) - 1, x # 0, NEW y \in 0 .. Cpu!Modulus(d) - 1, fl \in Flags
    PROVE  \E v \in Cpu!Words, f \in Flags :
              /\ Cpu!UnsignedQuotient(x, y, d) = [value |-> v, fl |-> f] /\ ZeroSign(f, v, d)
              /\ y - (v % Cpu!Modulus(d)) * x \in 0 .. x - 1
<1>1. PICK m \in Nat \ {0}, k \in Nat \ {0}, w \in Nat \ {0} : m = Cpu!Modulus(d) /\ w = Cpu!Modulus(2) /\ w = m * k
  <2>1. PICK h, k : IsWidth(Cpu!Modulus(d), h, k)
    BY ModulusIs
  <2> QED BY <2>1, WordIs DEF IsWidth
<1>2. PICK q \in Int, s \in 0 .. x - 1 : y = x * q + s /\ q = y \div x
  <2>1. x \in Nat \ {0} /\ y \in Int
    BY <1>1
  <2> QED BY <2>1, Divided
<1>3. PICK u \in Int : u = x * q
  OBVIOUS
<1>4. q \in 0 .. m - 1
  <2>1. q < 0 => x * q <= x * (-1)
    BY <1>1
  <2>2. q >= 0
    BY <1>1, <1>2, <1>3, <2>1
  <2>3. x * q >= q
    BY <1>1, <2>2
  <2> QED BY <1>1, <1>2, <1>3, <2>2, <2>3
<1>5. m <= w
  BY <1>1
<1>6. q % w = q /\ q % m = q
  <2>1. q \in 0 .. w - 1
    BY <1>4, <1>5
  <2> QED BY <1>4, <2>1, Remains
<1>7. PICK v \in Cpu!Words : v = Cpu!M32(y \div x)
  BY <1>2, MaskIs
<1>8. v = q
  BY <1>1, <1>2, <1>6, <1>7 DEF Cpu!M32
<1>9. PICK f \in Flags : /\ f = [Cpu!setzs(fl, v, d) EXCEPT !.ov = FALSE]
                         /\ ZeroSign(f, v, d)
  BY OverflowSet
<1>10. Cpu!UnsignedQuotient(x, y, d) = [value |-> v, fl |-> f]
  BY <1>7, <1>9 DEF Cpu!UnsignedQuotient
<1>11. y - (v % m) * x = s
  <2>1. q * x = u
    BY <1>3
  <2>2. v % m = q
    BY <1>6, <1>8
  <2>3. y - u = s
    BY <1>2, <1>3
  <2> QED BY <2>1, <2>2, <2>3
<1> QED BY <1>1, <1>9, <1>10, <1>11

LEMMA SignedQuotientIs ==
    ASSUME NEW d \in 0 .. 2, NEW a \in Int, NEW b \in Int, Cpu!dimext(a, d) # 0, fl \in Flags
    PROVE  \E v \in Cpu!Words, f \in Flags, q \in Int, s \in Int, t \in Int, e \in Int :
              /\ Cpu!Quotient(a, b, d) = [value |-> v, fl |-> f] /\ ZeroSign(f, v, d)
              /\ s = Cpu!sx(a, Cpu!Modulus(d)) /\ t = Cpu!sx(b, Cpu!Modulus(d)) /\ s # 0
              /\ q = IF t = -(Cpu!Modulus(d) \div 2) /\ s = -1 THEN Cpu!Modulus(d) \div 2
                     ELSE Cpu!sx(v % Cpu!Modulus(d), Cpu!Modulus(d))
              /\ e = t - q * s /\ e * e < s * s /\ (e = 0 \/ ((e < 0) <=> (t < 0)))
              /\ f.ov <=> q \notin Cpu!Signed(Cpu!Modulus(d))
<1>1. PICK m, h, k : m = Cpu!Modulus(d) /\ IsWidth(m, h, k)
  BY ModulusIs
<1>2. m \in Nat \ {0} /\ h \in Nat \ {0} /\ m = 2 * h /\ m \div 2 = h
  BY <1>1 DEF IsWidth
<1>3. PICK x \in 0 .. m - 1, s \in Int :
          x = a % m /\ s = Cpu!sx(a, m) /\ (x >= h => s = x - m) /\ (x < h => s = x)
  BY <1>1, Signs
<1>4. PICK y \in 0 .. m - 1, t \in Int :
          y = b % m /\ t = Cpu!sx(b, m) /\ (y >= h => t = y - m) /\ (y < h => t = y)
  BY <1>1, Signs
<1>5. x # 0 /\ s # 0 /\ -h <= t /\ t <= h - 1
  BY <1>1, <1>2, <1>3, <1>4 DEF Cpu!dimext
<1>6. PICK q \in Int, e \in Int :
          /\ q = Cpu!toward_zero(t, s) /\ e = t - q * s
          /\ e * e < s * s /\ (e = 0 \/ ((e < 0) <=> (t < 0)))
          /\ -h <= q /\ q <= h
          /\ q = h <=> t = -h /\ s = -1
  BY <1>2, <1>5, QuotientExact
<1>7. PICK v \in Cpu!Words : v = Cpu!M32(q)
  BY MaskIs
<1>8. PICK o \in BOOLEAN : o <=> y = h /\ x = m - 1
  OBVIOUS
<1>9. o = (Cpu!dimext(b, d) = Cpu!Modulus(d) \div 2 /\ Cpu!dimext(a, d) = Cpu!Modulus(d) - 1)
  BY <1>1, <1>2, <1>3, <1>4, <1>8 DEF Cpu!dimext
<1>10. PICK f \in Flags : /\ f = [Cpu!setzs(fl, v, d) EXCEPT !.ov = o]
                          /\ ZeroSign(f, v, d) /\ f.ov = o
  BY OverflowSet
<1>11. v = Cpu!M32(Cpu!toward_zero(Cpu!sx(b, Cpu!Modulus(d)), Cpu!sx(a, Cpu!Modulus(d))))
  BY <1>1, <1>3, <1>4, <1>6, <1>7
<1>12. Cpu!Quotient(a, b, d) = [value |-> v, fl |-> f]
  BY <1>9, <1>10, <1>11 DEF Cpu!Quotient
<1>13. o <=> q = h
  <2>1. y = h <=> t = -h
    BY <1>2, <1>4
  <2>2. x = m - 1 <=> s = -1
    BY <1>1, <1>2, <1>3 DEF IsWidth
  <2> QED BY <1>6, <1>8, <2>1, <2>2, Zenon
<1>14. f.ov <=> q \notin Cpu!Signed(m)
  <2>1. Cpu!Signed(m) = -h .. h - 1
    BY <1>2 DEF Cpu!Signed
  <2>2. q \notin -h .. h - 1 <=> q = h
    BY <1>2, <1>6
  <2> QED BY <1>10, <1>13, <2>1, <2>2
<1>15. q # h => Cpu!sx(v % m, m) = q
  <2> SUFFICES ASSUME q # h PROVE Cpu!sx(v % m, m) = q
    OBVIOUS
  <2>1. v % m = q % m
    BY <1>1, <1>7, CutWord
  <2>2. Cpu!sx(q % m, m) = Cpu!sx(q, m)
    BY <1>1, SignedCut
  <2>3. q <= h - 1
    BY <1>2, <1>6
  <2>4. Cpu!sx(q, m) = q
    BY <1>1, <1>6, <2>3, SignedAgain
  <2> QED BY <2>1, <2>2, <2>4
<1>16. q = IF t = -(m \div 2) /\ s = -1 THEN m \div 2 ELSE Cpu!sx(v % m, m)
  BY <1>2, <1>6, <1>15
<1> QED BY <1>1, <1>3, <1>4, <1>5, <1>6, <1>10, <1>12, <1>14, <1>16

\* The sign extended.
LEMMA ExtendedIs ==
    ASSUME NEW c \in 0 .. 2, NEW d \in 0 .. 2, c < d, NEW a \in Int
    PROVE  \E v \in Cpu!Words : /\ v = Cpu!M32(Cpu!sx(a, Cpu!Modulus(c)))
                                /\ Cpu!sx(v % Cpu!Modulus(d), Cpu!Modulus(d)) = Cpu!sx(a, Cpu!Modulus(c))
<1>1. PICK m, h, k : m = Cpu!Modulus(d) /\ IsWidth(m, h, k)
  BY ModulusIs
<1>2. PICK n, g, l : n = Cpu!Modulus(c) /\ IsWidth(n, g, l)
  BY ModulusIs
<1>3. n <= m
  <2>1. PICK B \in Nat : B = Byte /\ B > 2
    BY ByteIs
  <2>2. PICK B2 \in Nat : B2 = B * B
    OBVIOUS
  <2>3. B <= B2
    BY <2>1, <2>2
  <2>4. PICK B4 \in Nat : B4 = B2 * B2
    OBVIOUS
  <2>5. B2 <= B4
    BY <2>1, <2>3, <2>4
  <2>6. Cpu!Modulus(0) = B /\ Cpu!Modulus(1) = B2 /\ Cpu!Modulus(2) = B4
    <3>1. B4 = B * B * B * B
      BY <2>2, <2>4
    <3> QED BY <2>1, <2>2, <3>1, WidthsAre
  <2>7. (c = 0 \/ c = 1) /\ (d = 1 \/ d = 2)
    OBVIOUS
  <2> QED BY <1>1, <1>2, <2>3, <2>5, <2>6, <2>7
<1>4. g <= h
  BY <1>1, <1>2, <1>3 DEF IsWidth
<1>5. PICK s \in Int : s = Cpu!sx(a, n) /\ -g <= s /\ s < g
  BY <1>2, Signs
<1>6. -h <= s /\ s <= h - 1
  BY <1>1, <1>2, <1>4, <1>5 DEF IsWidth
<1>7. PICK v \in Cpu!Words : v = Cpu!M32(s)
  BY MaskIs
<1>8. v % m = s % m
  BY <1>1, <1>7, CutWord
<1>9. Cpu!sx(s % m, m) = Cpu!sx(s, m)
  BY <1>1, SignedCut
<1>10. Cpu!sx(s, m) = s
  BY <1>1, <1>6, SignedAgain
<1> QED BY <1>1, <1>2, <1>5, <1>7, <1>8, <1>9, <1>10

LEMMA LogicalIs ==
    ASSUME NEW v, NEW d, fl \in Flags
    PROVE  \E f \in Flags : Cpu!Logical(v, d) = [value |-> v, fl |-> f] /\ ZeroSign(f, v, d)
<1>1. PICK f \in Flags : f = [Cpu!setzs(fl, v, d) EXCEPT !.ov = FALSE] /\ ZeroSign(f, v, d)
  BY OverflowSet
<1> QED BY <1>1 DEF Cpu!Logical

LEMMA InvertedIs ==
    ASSUME NEW d, NEW a \in Int, fl \in Flags
    PROVE  \E v \in Cpu!Words, f \in Flags :
              Cpu!Inverted(a, d) = [value |-> v, fl |-> f] /\ ZeroSign(f, v, d)
<1>1. PICK v \in Cpu!Words : v = Cpu!M32(-1 - a)
  BY MaskIs
<1>2. PICK g \in Flags : g = Cpu!setzs(fl, v, d) /\ ZeroSign(g, v, d)
  BY FlagsSet
<1>3. PICK f : f = [g EXCEPT !.ov = FALSE, !.cy = FALSE]
  OBVIOUS
<1>4. f \in Flags /\ f.z = g.z /\ f.s = g.s
  BY <1>3 DEF Flags
<1>5. ZeroSign(f, v, d)
  BY <1>2, <1>4 DEF ZeroSign
<1>6. Cpu!Inverted(a, d) = [value |-> v, fl |-> f]
  BY <1>1, <1>2, <1>3 DEF Cpu!Inverted
<1> QED BY <1>4, <1>5, <1>6

\* A shift is a loop of as many steps as bits.
Shifts(by, v, up, n) ==
    by = [k \in 0 .. n |-> IF k = 0 THEN v ELSE IF up = 1 THEN Cpu!M32(2 * by[k - 1]) ELSE by[k - 1] \div 2]

LEMMA ShiftRuns == ASSUME NEW v, NEW up, NEW n \in Nat PROVE \E by : Shifts(by, v, up, n)
<1> DEFINE Bit(x) == IF up = 1 THEN Cpu!M32(2 * x) ELSE x \div 2
           T == {m \in Nat : ~ \E by : Shifts(by, v, up, m)}
<1> SUFFICES ASSUME T # {} PROVE FALSE
  OBVIOUS
<1>0. \A by, m : Shifts(by, v, up, m) <=> by = [k \in 0 .. m |-> IF k = 0 THEN v ELSE Bit(by[k - 1])]
  BY DEF Shifts
<1> HIDE DEF Bit
<1>1. PICK m \in T : \A k \in T : m <= k
  BY Least
<1>2. CASE m = 0
  <2> DEFINE by == [k \in 0 .. m |-> v]
  <2>1. by = [k \in 0 .. m |-> IF k = 0 THEN v ELSE Bit(by[k - 1])]
    BY <1>2
  <2> QED BY <1>0, <2>1
<1>3. CASE m # 0
  <2>1. m - 1 \in Nat /\ m - 1 \notin T
    BY <1>1, <1>3
  <2>2. PICK by : Shifts(by, v, up, m - 1)
    BY <2>1
  <2>3. \A k \in 0 .. m - 1 : by[k] = IF k = 0 THEN v ELSE Bit(by[k - 1])
    BY <1>0, <2>2
  <2> DEFINE more == [k \in 0 .. m |-> IF k = m THEN Bit(by[m - 1]) ELSE by[k]]
  <2>4. \A k \in 0 .. m : more[k] = IF k = 0 THEN v ELSE Bit(more[k - 1])
    <3> SUFFICES ASSUME NEW k \in 0 .. m PROVE more[k] = IF k = 0 THEN v ELSE Bit(more[k - 1])
      OBVIOUS
    <3>1. CASE k = m
      BY <1>3, <3>1
    <3>2. CASE k # m
      <4>1. k \in 0 .. m - 1 /\ (k # 0 => k - 1 \in 0 .. m /\ k - 1 # m)
        BY <3>2
      <4> QED BY <2>3, <3>2, <4>1
    <3> QED BY <3>1, <3>2
  <2>5. more = [k \in 0 .. m |-> IF k = 0 THEN v ELSE Bit(more[k - 1])]
    BY <2>4
  <2> QED BY <1>0, <2>5
<1> QED BY <1>2, <1>3

LEMMA ShiftIsWord ==
    ASSUME NEW v \in Cpu!Words, NEW up, NEW n \in Nat, NEW by, Shifts(by, v, up, n)
    PROVE  \A k \in 0 .. n : by[k] \in Cpu!Words
<1> DEFINE T == {k \in 0 .. n : by[k] \notin Cpu!Words}
<1> SUFFICES ASSUME T # {} PROVE FALSE
  OBVIOUS
<1>1. PICK k \in T : \A j \in T : k <= j
  <2>1. T \in SUBSET Nat
    OBVIOUS
  <2> QED BY <2>1, Least
<1>2. k \in 0 .. n /\ by[k] \notin Cpu!Words
  BY <1>1
<1>3. by[k] = IF k = 0 THEN v ELSE IF up = 1 THEN Cpu!M32(2 * by[k - 1]) ELSE by[k - 1] \div 2
  BY <1>2 DEF Shifts
<1>4. k # 0
  BY <1>2, <1>3
<1>5. k - 1 \in 0 .. n /\ k - 1 \notin T
  BY <1>1, <1>2, <1>4
<1>6. PICK w \in Cpu!Words : w = by[k - 1]
  BY <1>5
<1>7. Cpu!M32(2 * w) \in Cpu!Words
  <2>1. 2 * w \in Int
    BY WordIs
  <2> QED BY <2>1, MaskIs
<1>8. w \div 2 \in Cpu!Words
  BY WordIs
<1> QED BY <1>2, <1>3, <1>4, <1>6, <1>7, <1>8

LEMMA ShiftedIs ==
    ASSUME NEW d \in 0 .. 2, NEW a \in Int, NEW b \in Int, fl \in Flags
    PROVE  \E v \in Cpu!Words, f \in Flags :
              Cpu!Shifted(a, b, d) = [value |-> v, fl |-> f] /\ ZeroSign(f, v, d)
<1>1. PICK c \in Int, g \in Nat : c = Cpu!sx(a, Byte) /\ -g <= c /\ c < g /\ Byte = 2 * g
  <2>1. PICK h, k : IsWidth(Byte, h, k)
    BY ModulusIs, WidthsAre
  <2>2. h \in Nat /\ Byte = 2 * h
    BY <2>1 DEF IsWidth
  <2> QED BY <2>1, <2>2, Signs
<1>2. PICK u \in Cpu!Words : u = Cpu!dimext(b, d)
  BY CutIs, NarrowIs
<1>3. PICK up : up = IF c >= 0 THEN 1 ELSE 0
  OBVIOUS
<1>4. Byte \in Nat
  BY <1>1
<1> DEFINE Is(by) == by = [n \in 0 .. Byte |-> IF n = 0 THEN u
                                               ELSE IF c >= 0 THEN Cpu!M32(2 * by[n - 1]) ELSE by[n - 1] \div 2]
           B == CHOOSE by : Is(by)
           n0 == IF c >= 0 THEN c ELSE -c
<1>5. \A by : Is(by) <=> Shifts(by, u, up, Byte)
  BY <1>3 DEF Shifts
<1>6. \E by : Is(by)
  BY <1>4, <1>5, ShiftRuns
<1>7. Is(B)
  BY <1>6
<1>8. PICK f \in Flags : f = Cpu!setzs(fl, B[n0], d) /\ ZeroSign(f, B[n0], d)
  BY FlagsSet
<1>9. Cpu!Shifted(a, b, d) = [value |-> B[n0], fl |-> f]
  BY <1>1, <1>2, <1>8 DEF Cpu!Shifted
<1> HIDE DEF B, Is
<1>10. n0 \in 0 .. Byte
  BY <1>1
<1> HIDE DEF n0
<1>11. B[n0] \in Cpu!Words
  <2>1. Shifts(B, u, up, Byte)
    BY <1>5, <1>7
  <2> QED BY <1>4, <1>10, <2>1, ShiftIsWord
<1> QED BY <1>8, <1>9, <1>11

-----------------------------------------------------------------------------
(***************************************************************************)
(* The result of each operation is what arithmetic says: Exact and         *)
(* Compared of V60Ref, of an instruction, the flags it leaves, and values. *)
(***************************************************************************)
ExactFor(i, f, m, ua, ub, sa, sb, v) ==
    CASE i.op = "add" -> v = (ub + ua) % m /\ (f.cy <=> ub + ua >= m) /\ (f.ov <=> sb + sa \notin Cpu!Signed(m))
      [] i.op = "sub" -> v = (ub - ua) % m /\ (f.cy <=> ub < ua) /\ (f.ov <=> sb - sa \notin Cpu!Signed(m))
      [] i.op = "neg" -> v = (0 - ua) % m /\ (f.cy <=> ua > 0) /\ (f.ov <=> 0 - sa \notin Cpu!Signed(m))
      [] i.op = "mulu" -> v = (ub * ua) % m /\ (f.ov <=> ub * ua >= m)
      [] i.op = "mul" -> v = (sb * sa) % m
      [] i.op = "divu" -> IF ua = 0 THEN v = ub ELSE ub - v * ua \in 0 .. ua - 1
      [] i.op = "div" ->
            LET q == IF sb = -(m \div 2) /\ sa = -1 THEN m \div 2 ELSE Cpu!sx(v, m)
                rest == sb - q * sa
            IN  IF ua = 0 THEN v = ub
                ELSE /\ rest * rest < sa * sa /\ (rest = 0 \/ (rest < 0 <=> sb < 0))
                     /\ f.ov <=> q \notin Cpu!Signed(m)
      [] i.op = "movs" -> Cpu!sx(v, m) = Cpu!sx(ua, Cpu!Modulus(i.d1))
      [] OTHER -> TRUE

ComparedFor(f, ua, ub, sa, sb) ==
    /\ Cpu!cond(2, f) <=> ub < ua
    /\ Cpu!cond(6, f) <=> ub <= ua
    /\ Cpu!cond(4, f) <=> ub = ua
    /\ Cpu!cond(12, f) <=> sb < sa
    /\ Cpu!cond(14, f) <=> sb <= sa
    /\ \A cc \in 0 .. 15 : Cpu!cond(cc, f) # Cpu!cond(IF cc % 2 = 0 THEN cc + 1 ELSE cc - 1, f)

Moves == {"mov", "movz", "movea"}

\* The numbers that the operands a and b, and the value v or none, stand for.
Numbers(i, a, b, v, m, ua, ub, sa, sb, w) ==
    /\ m = Cpu!Modulus(i.d2)
    /\ ua = IF i.op = "movs" THEN a ELSE Cpu!dimext(a, i.d2)
    /\ ub = Cpu!dimext(b, i.d2) /\ sa = Cpu!sx(a, m) /\ sb = Cpu!sx(b, m)
    /\ w = (IF v = Cpu!NoValue THEN b ELSE v) % m

Judged(i, v, f, m, ua, ub, sa, sb, w) ==
    /\ i.op = "cmp" => v = Cpu!NoValue /\ ComparedFor(f, ua, ub, sa, sb)
    /\ i.op # "cmp" => ExactFor(i, f, m, ua, ub, sa, sb, w)
    /\ i.op \notin Moves \cup {"movs", "cmp", "div", "divu"} => ZeroSign(f, v, i.d2) /\ v # Cpu!NoValue

Right(i, a, b, v, f) ==
    \E m, ua, ub, sa, sb, w :
       Numbers(i, a, b, v, m, ua, ub, sa, sb, w) /\ Judged(i, v, f, m, ua, ub, sa, sb, w)

IsResult(i, a, b, v, f) ==
    /\ Cpu!Result(i, a, b) = [value |-> v, fl |-> f] /\ (v \in Cpu!Words \/ v = Cpu!NoValue)
    /\ Right(i, a, b, v, f)

LEMMA HasNumbers ==
    ASSUME NEW i, i.d2 \in 0 .. 2, NEW a \in Cpu!Words, NEW b \in Cpu!Words, NEW v
    PROVE  \E m, ua, ub, sa, sb, w :
              /\ Numbers(i, a, b, v, m, ua, ub, sa, sb, w)
              /\ ub \in Int /\ ua \in Int /\ sa \in Int /\ sb \in Int
<1>1. PICK d \in 0 .. 2 : d = i.d2
  OBVIOUS
<1>2. PICK m, h, k : m = Cpu!Modulus(d) /\ IsWidth(m, h, k)
  BY ModulusIs
<1>3. m \in Nat \ {0}
  BY <1>2 DEF IsWidth
<1>4. a \in Int /\ b \in Int
  BY WordIs
<1>5. PICK x \in 0 .. m - 1 : x = Cpu!dimext(a, d)
  BY <1>2, <1>4, CutIs
<1>6. PICK y \in 0 .. m - 1 : y = Cpu!dimext(b, d)
  BY <1>2, <1>4, CutIs
<1>7. PICK s \in Int : s = Cpu!sx(a, m)
  BY <1>2, <1>4, Signs
<1>8. PICK t \in Int : t = Cpu!sx(b, m)
  BY <1>2, <1>4, Signs
<1>9. PICK w : w = (IF v = Cpu!NoValue THEN b ELSE v) % m
  OBVIOUS
<1>10. PICK u \in Int : u = (IF i.op = "movs" THEN a ELSE x)
  BY <1>3, <1>4
<1>11. Numbers(i, a, b, v, m, u, y, s, t, w)
  BY <1>1, <1>2, <1>5, <1>6, <1>7, <1>8, <1>9, <1>10 DEF Numbers
<1> QED BY <1>3, <1>6, <1>7, <1>8, <1>10, <1>11

LEMMA Concluded ==
    ASSUME NEW i, NEW a, NEW b, NEW v, NEW f, v \in Cpu!Words \/ v = Cpu!NoValue,
           Cpu!Result(i, a, b) = [value |-> v, fl |-> f],
           NEW m, NEW ua, NEW ub, NEW sa, NEW sb, NEW w,
           Numbers(i, a, b, v, m, ua, ub, sa, sb, w), Judged(i, v, f, m, ua, ub, sa, sb, w)
    PROVE  IsResult(i, a, b, v, f)
<1>1. \E x1, x2, x3, x4, x5, x6 :
         Numbers(i, a, b, v, x1, x2, x3, x4, x5, x6) /\ Judged(i, v, f, x1, x2, x3, x4, x5, x6)
  OBVIOUS
<1> QED BY <1>1 DEF IsResult, Right

\* The operations that only set the flags of a value.
LEMMA PlainRight ==
    ASSUME NEW i, i.d2 \in 0 .. 2, NEW a \in Cpu!Words, NEW b \in Cpu!Words, NEW v \in Cpu!Words, NEW f \in Flags,
           Cpu!Result(i, a, b) = [value |-> v, fl |-> f],
           i.op \in Moves \cup {"and", "or", "xor", "not", "shl"},
           i.op \notin Moves => ZeroSign(f, v, i.d2)
    PROVE  IsResult(i, a, b, v, f)
<1>1. v # Cpu!NoValue
  BY WordIs DEF Cpu!NoValue
<1>2. PICK m, ua, ub, sa, sb, w : Numbers(i, a, b, v, m, ua, ub, sa, sb, w)
  BY HasNumbers
<1>3. Judged(i, v, f, m, ua, ub, sa, sb, w)
  BY <1>1 DEF Judged, ExactFor, Moves
<1> QED BY <1>1, <1>2, <1>3, Concluded

LEMMA AddSubNegRight ==
    ASSUME NEW i, i.d2 \in 0 .. 2, i.op \in {"add", "sub", "neg", "cmp"},
           NEW a \in Cpu!Words, NEW b \in Cpu!Words, fl \in Flags
    PROVE  \E f \in Flags : \E v : IsResult(i, a, b, v, f)
<1>1. PICK d \in 0 .. 2 : d = i.d2
  OBVIOUS
<1>2. a \in Int /\ b \in Int
  BY WordIs
<1>3. \A v \in Cpu!Words : v # Cpu!NoValue
  BY WordIs DEF Cpu!NoValue
<1>4. CASE i.op = "add"
  <2>1. PICK v \in Cpu!Words, f \in Flags :
            /\ Cpu!Sum(a, b, d) = [value |-> v, fl |-> f] /\ ZeroSign(f, v, d)
            /\ v % Cpu!Modulus(d) = (Cpu!dimext(b, d) + Cpu!dimext(a, d)) % Cpu!Modulus(d)
            /\ f.cy <=> Cpu!dimext(b, d) + Cpu!dimext(a, d) >= Cpu!Modulus(d)
            /\ f.ov <=> Cpu!sx(b, Cpu!Modulus(d)) + Cpu!sx(a, Cpu!Modulus(d)) \notin Cpu!Signed(Cpu!Modulus(d))
    BY <1>2, SumIs
  <2>2. Cpu!Result(i, a, b) = [value |-> v, fl |-> f]
    BY <1>1, <1>4, <2>1 DEF Cpu!Result
  <2>4. PICK m, ua, ub, sa, sb, w : /\ Numbers(i, a, b, v, m, ua, ub, sa, sb, w)
                                    /\ ub \in Int /\ ua \in Int /\ sa \in Int /\ sb \in Int
    BY HasNumbers
  <2>5. /\ m = Cpu!Modulus(d) /\ ua = Cpu!dimext(a, d) /\ ub = Cpu!dimext(b, d)
        /\ sa = Cpu!sx(a, m) /\ sb = Cpu!sx(b, m) /\ w = v % m
    BY <1>1, <1>3, <1>4, <2>4 DEF Numbers
  <2>6. ExactFor(i, f, m, ua, ub, sa, sb, w)
    BY <1>4, <2>1, <2>5 DEF ExactFor
  <2>7. Judged(i, v, f, m, ua, ub, sa, sb, w)
    BY <1>1, <1>3, <1>4, <2>1, <2>6 DEF Judged
  <2>8. IsResult(i, a, b, v, f)
    BY <2>1, <2>2, <2>4, <2>7, Concluded
  <2> QED BY <2>1, <2>8
<1>5. CASE i.op = "sub"
  <2>1. PICK v \in Cpu!Words, f \in Flags, s \in Int, t \in Int : IsDifference(d, a, b, v, f, s, t)
    BY <1>2, DifferenceIs
  <2>2. Cpu!Result(i, a, b) = [value |-> v, fl |-> f]
    BY <1>1, <1>5, <2>1 DEF Cpu!Result, IsDifference
  <2>4. PICK m, ua, ub, sa, sb, w : /\ Numbers(i, a, b, v, m, ua, ub, sa, sb, w)
                                    /\ ub \in Int /\ ua \in Int /\ sa \in Int /\ sb \in Int
    BY HasNumbers
  <2>5. /\ m = Cpu!Modulus(d) /\ ua = Cpu!dimext(a, d) /\ ub = Cpu!dimext(b, d)
        /\ sa = Cpu!sx(a, m) /\ sb = Cpu!sx(b, m) /\ w = v % m
    BY <1>1, <1>3, <1>5, <2>4 DEF Numbers
  <2>6. ExactFor(i, f, m, ua, ub, sa, sb, w)
    BY <1>5, <2>1, <2>5 DEF ExactFor, IsDifference
  <2>7. Judged(i, v, f, m, ua, ub, sa, sb, w)
    BY <1>1, <1>3, <1>5, <2>1, <2>6 DEF Judged, IsDifference
  <2>8. IsResult(i, a, b, v, f)
    BY <2>1, <2>2, <2>4, <2>7, Concluded
  <2> QED BY <2>1, <2>8
<1>6. CASE i.op = "cmp"
  <2>1. PICK v \in Cpu!Words, f \in Flags, s \in Int, t \in Int : IsDifference(d, a, b, v, f, s, t)
    BY <1>2, DifferenceIs
  <2>2. Cpu!Result(i, a, b) = [value |-> Cpu!NoValue, fl |-> f]
    <3>1. Cpu!Result(i, a, b) = [Cpu!Difference(a, b, d) EXCEPT !.value = Cpu!NoValue]
      BY <1>1, <1>6 DEF Cpu!Result
    <3>2. Cpu!Difference(a, b, d) = [value |-> v, fl |-> f]
      BY <2>1 DEF IsDifference
    <3> QED BY <3>1, <3>2
  <2>4. PICK m, ua, ub, sa, sb, w : /\ Numbers(i, a, b, Cpu!NoValue, m, ua, ub, sa, sb, w)
                                    /\ ub \in Int /\ ua \in Int /\ sa \in Int /\ sb \in Int
    BY HasNumbers
  <2>5. /\ m = Cpu!Modulus(d) /\ ua = Cpu!dimext(a, d) /\ ub = Cpu!dimext(b, d)
        /\ sa = s /\ sb = t
    BY <1>1, <1>6, <2>1, <2>4 DEF Numbers, IsDifference
  <2>6. ub \in Int /\ ua \in Int /\ sa \in Int /\ sb \in Int
    BY <2>4
  <2>7. /\ f.cy <=> ub < ua
        /\ f.z <=> ub = ua
        /\ sb = sa <=> ub = ua
        /\ ~(f.s <=> f.ov) <=> sb < sa
    BY <2>1, <2>5 DEF IsDifference
  <2>8. ComparedFor(f, ua, ub, sa, sb)
    <3>1. Cpu!cond(2, f) <=> ub < ua
      BY <2>7, ConditionsAre
    <3>2. Cpu!cond(4, f) <=> ub = ua
      BY <2>7, ConditionsAre
    <3>3. Cpu!cond(6, f) <=> ub <= ua
      <4>1. Cpu!cond(6, f) <=> f.cy \/ f.z
        BY ConditionsAre
      <4> QED BY <2>6, <2>7, <4>1
    <3>4. Cpu!cond(12, f) <=> sb < sa
      BY <2>7, ConditionsAre
    <3>5. Cpu!cond(14, f) <=> sb <= sa
      <4>1. Cpu!cond(14, f) <=> ~(f.s <=> f.ov) \/ f.z
        BY ConditionsAre
      <4>2. Cpu!cond(14, f) <=> sb < sa \/ sb = sa
        BY <2>7, <4>1, Zenon
      <4>3. sb <= sa <=> sb < sa \/ sb = sa
        BY <2>6
      <4> QED BY <4>2, <4>3, Zenon
    <3>6. \A cc \in 0 .. 15 : Cpu!cond(cc, f) # Cpu!cond(IF cc % 2 = 0 THEN cc + 1 ELSE cc - 1, f)
      BY ConditionsAre
    <3> QED BY <3>1, <3>2, <3>3, <3>4, <3>5, <3>6 DEF ComparedFor
  <2>9. Judged(i, Cpu!NoValue, f, m, ua, ub, sa, sb, w)
    BY <1>6, <2>8 DEF Judged
  <2>10. IsResult(i, a, b, Cpu!NoValue, f)
    BY <2>2, <2>4, <2>9, Concluded
  <2> QED BY <2>1, <2>10
<1>7. CASE i.op = "neg"
  <2>1. PICK v \in Cpu!Words, f \in Flags, s \in Int :
            /\ Cpu!Negated(a, d) = [value |-> v, fl |-> f] /\ ZeroSign(f, v, d)
            /\ s = Cpu!sx(a, Cpu!Modulus(d))
            /\ v % Cpu!Modulus(d) = (0 - Cpu!dimext(a, d)) % Cpu!Modulus(d)
            /\ f.cy <=> Cpu!dimext(a, d) > 0
            /\ f.ov <=> 0 - s \notin Cpu!Signed(Cpu!Modulus(d))
    BY <1>2, NegatedIs
  <2>2. Cpu!Result(i, a, b) = [value |-> v, fl |-> f]
    BY <1>1, <1>7, <2>1 DEF Cpu!Result
  <2>4. PICK m, ua, ub, sa, sb, w : /\ Numbers(i, a, b, v, m, ua, ub, sa, sb, w)
                                    /\ ub \in Int /\ ua \in Int /\ sa \in Int /\ sb \in Int
    BY HasNumbers
  <2>5. /\ m = Cpu!Modulus(d) /\ ua = Cpu!dimext(a, d) /\ ub = Cpu!dimext(b, d)
        /\ sa = Cpu!sx(a, m) /\ sb = Cpu!sx(b, m) /\ w = v % m
    BY <1>1, <1>3, <1>7, <2>4 DEF Numbers
  <2>6. ExactFor(i, f, m, ua, ub, sa, sb, w)
    BY <1>7, <2>1, <2>5 DEF ExactFor
  <2>7. Judged(i, v, f, m, ua, ub, sa, sb, w)
    BY <1>1, <1>3, <1>7, <2>1, <2>6 DEF Judged
  <2>8. IsResult(i, a, b, v, f)
    BY <2>1, <2>2, <2>4, <2>7, Concluded
  <2> QED BY <2>1, <2>8
<1> QED BY <1>4, <1>5, <1>6, <1>7

LEMMA ProductRight ==
    ASSUME NEW i, i.d2 \in 0 .. 2, i.op \in {"mul", "mulu"},
           NEW a \in Cpu!Words, NEW b \in Cpu!Words, fl \in Flags
    PROVE  \E f \in Flags : \E v : IsResult(i, a, b, v, f)
<1>1. PICK d \in 0 .. 2 : d = i.d2
  OBVIOUS
<1>2. a \in Int /\ b \in Int
  BY WordIs
<1>3. \A v \in Cpu!Words : v # Cpu!NoValue
  BY WordIs DEF Cpu!NoValue
<1>4. CASE i.op = "mul"
  <2>1. PICK s \in Int, t \in Int : s = Cpu!sx(a, Cpu!Modulus(d)) /\ t = Cpu!sx(b, Cpu!Modulus(d))
    <3>1. PICK h, k : IsWidth(Cpu!Modulus(d), h, k)
      BY ModulusIs
    <3> QED BY <1>2, <3>1, Signs
  <2>2. PICK p \in Int : p = t * s
    OBVIOUS
  <2>3. PICK v \in Cpu!Words, f \in Flags, top \in Nat \ {0} :
            /\ Cpu!Product(p, d) = [value |-> v, fl |-> f] /\ ZeroSign(f, v, d)
            /\ v % Cpu!Modulus(d) = p % Cpu!Modulus(d)
            /\ f.ov <=> (p % top) \div Cpu!Modulus(d) # 0
            /\ Cpu!Modulus(d) * Cpu!Modulus(d) <= top
    BY ProductIs
  <2>4. Cpu!Result(i, a, b) = Cpu!Product(Cpu!sx(b, Cpu!Modulus(i.d2)) * Cpu!sx(a, Cpu!Modulus(i.d2)), i.d2)
    BY <1>4 DEF Cpu!Result
  <2>5. Cpu!Result(i, a, b) = [value |-> v, fl |-> f]
    BY <1>1, <2>1, <2>2, <2>3, <2>4
  <2>6. PICK m, ua, ub, sa, sb, w : Numbers(i, a, b, v, m, ua, ub, sa, sb, w)
    BY HasNumbers
  <2>7. m = Cpu!Modulus(d) /\ sa = s /\ sb = t /\ w = v % m
    BY <1>1, <1>3, <1>4, <2>1, <2>6 DEF Numbers
  <2>8. w = (sb * sa) % m
    BY <2>2, <2>3, <2>7
  <2>9. Judged(i, v, f, m, ua, ub, sa, sb, w)
    BY <1>1, <1>3, <1>4, <2>3, <2>8 DEF Judged, ExactFor
  <2>10. IsResult(i, a, b, v, f)
    BY <2>3, <2>5, <2>6, <2>9, Concluded
  <2> QED BY <2>3, <2>10
<1>5. CASE i.op = "mulu"
  <2>1. PICK v \in Cpu!Words, f \in Flags :
            /\ Cpu!Product(Cpu!dimext(b, d) * Cpu!dimext(a, d), d) = [value |-> v, fl |-> f]
            /\ ZeroSign(f, v, d)
            /\ v % Cpu!Modulus(d) = (Cpu!dimext(b, d) * Cpu!dimext(a, d)) % Cpu!Modulus(d)
            /\ f.ov <=> Cpu!dimext(b, d) * Cpu!dimext(a, d) >= Cpu!Modulus(d)
    BY <1>2, UnsignedProductIs
  <2>2. Cpu!Result(i, a, b) = [value |-> v, fl |-> f]
    <3>1. Cpu!Result(i, a, b) = Cpu!Product(Cpu!dimext(b, i.d2) * Cpu!dimext(a, i.d2), i.d2)
      BY <1>5 DEF Cpu!Result
    <3> QED BY <1>1, <2>1, <3>1
  <2>3. PICK m, ua, ub, sa, sb, w : Numbers(i, a, b, v, m, ua, ub, sa, sb, w)
    BY HasNumbers
  <2>4. m = Cpu!Modulus(d) /\ ua = Cpu!dimext(a, d) /\ ub = Cpu!dimext(b, d) /\ w = v % m
    BY <1>1, <1>3, <1>5, <2>3 DEF Numbers
  <2>5. w = (ub * ua) % m /\ (f.ov <=> ub * ua >= m)
    BY <2>1, <2>4
  <2>6. Judged(i, v, f, m, ua, ub, sa, sb, w)
    BY <1>1, <1>3, <1>5, <2>1, <2>5 DEF Judged, ExactFor
  <2>7. IsResult(i, a, b, v, f)
    BY <2>1, <2>2, <2>3, <2>6, Concluded
  <2> QED BY <2>1, <2>7
<1> QED BY <1>4, <1>5

LEMMA QuotientRight ==
    ASSUME NEW i, i.d2 \in 0 .. 2, i.op \in {"div", "divu"},
           NEW a \in Cpu!Words, NEW b \in Cpu!Words, fl \in Flags
    PROVE  \E f \in Flags : \E v : IsResult(i, a, b, v, f)
<1>1. PICK d \in 0 .. 2 : d = i.d2
  OBVIOUS
<1>2. a \in Int /\ b \in Int
  BY WordIs
<1>3. \A v \in Cpu!Words : v # Cpu!NoValue
  BY WordIs DEF Cpu!NoValue
<1>4. PICK x, y : x = Cpu!dimext(a, d) /\ y = Cpu!dimext(b, d)
  OBVIOUS
<1>5. x \in 0 .. Cpu!Modulus(d) - 1 /\ y \in 0 .. Cpu!Modulus(d) - 1
  BY <1>2, <1>4, CutIs
<1>6. CASE x = 0
  <2>1. Cpu!Result(i, a, b) = [value |-> Cpu!NoValue, fl |-> fl]
    <3>1. i.op = "div" => Cpu!Result(i, a, b) = Cpu!Quotient(a, b, d)
      BY <1>1 DEF Cpu!Result
    <3>2. i.op = "divu" => Cpu!Result(i, a, b) = Cpu!UnsignedQuotient(x, y, d)
      BY <1>1, <1>4 DEF Cpu!Result
    <3>3. Cpu!Quotient(a, b, d) = [value |-> Cpu!NoValue, fl |-> fl]
      <4>1. Cpu!dimext(a, d) = 0
        BY <1>4, <1>6
      <4> QED BY <4>1, UndividedIs
    <3>4. Cpu!UnsignedQuotient(x, y, d) = [value |-> Cpu!NoValue, fl |-> fl]
      BY <1>6, UndividedIs
    <3> QED BY <3>1, <3>2, <3>3, <3>4
  <2>2. PICK m, ua, ub, sa, sb, w : Numbers(i, a, b, Cpu!NoValue, m, ua, ub, sa, sb, w)
    BY HasNumbers
  <2>3. ua = 0 /\ ub = w
    BY <1>1, <1>4, <1>6, <2>2 DEF Numbers, Cpu!dimext
  <2>4. ExactFor(i, fl, m, ua, ub, sa, sb, w)
    BY <2>3 DEF ExactFor
  <2>5. Judged(i, Cpu!NoValue, fl, m, ua, ub, sa, sb, w)
    BY <2>4 DEF Judged
  <2>6. IsResult(i, a, b, Cpu!NoValue, fl)
    BY <2>1, <2>2, <2>5, Concluded
  <2> QED BY <2>6
<1>7. CASE x # 0 /\ i.op = "div"
  <2>1. PICK v \in Cpu!Words, f \in Flags, q \in Int, s \in Int, t \in Int, e \in Int :
            /\ Cpu!Quotient(a, b, d) = [value |-> v, fl |-> f] /\ ZeroSign(f, v, d)
            /\ s = Cpu!sx(a, Cpu!Modulus(d)) /\ t = Cpu!sx(b, Cpu!Modulus(d)) /\ s # 0
            /\ q = IF t = -(Cpu!Modulus(d) \div 2) /\ s = -1 THEN Cpu!Modulus(d) \div 2
                   ELSE Cpu!sx(v % Cpu!Modulus(d), Cpu!Modulus(d))
            /\ e = t - q * s /\ e * e < s * s /\ (e = 0 \/ ((e < 0) <=> (t < 0)))
            /\ f.ov <=> q \notin Cpu!Signed(Cpu!Modulus(d))
    BY <1>2, <1>4, <1>7, SignedQuotientIs
  <2>2. Cpu!Result(i, a, b) = [value |-> v, fl |-> f]
    <3>1. Cpu!Result(i, a, b) = Cpu!Quotient(a, b, d)
      BY <1>1, <1>7 DEF Cpu!Result
    <3> QED BY <2>1, <3>1
  <2>3. PICK m, ua, ub, sa, sb, w : Numbers(i, a, b, v, m, ua, ub, sa, sb, w)
    BY HasNumbers
  <2>4. m = Cpu!Modulus(d) /\ ua = x /\ sa = s /\ sb = t /\ w = v % m
    BY <1>1, <1>3, <1>4, <1>7, <2>1, <2>3 DEF Numbers
  <2>5. q = IF sb = -(m \div 2) /\ sa = -1 THEN m \div 2 ELSE Cpu!sx(w, m)
    BY <2>1, <2>4
  <2>6. e = sb - q * sa
    BY <2>1, <2>4
  <2>7. e * e < sa * sa /\ (e = 0 \/ (e < 0 <=> sb < 0)) /\ (f.ov <=> q \notin Cpu!Signed(m))
    BY <2>1, <2>4
  <2>8. ExactFor(i, f, m, ua, ub, sa, sb, w)
    BY <1>7, <2>4, <2>5, <2>6, <2>7 DEF ExactFor
  <2>9. Judged(i, v, f, m, ua, ub, sa, sb, w)
    BY <1>7, <2>8 DEF Judged
  <2>10. IsResult(i, a, b, v, f)
    BY <2>1, <2>2, <2>3, <2>9, Concluded
  <2> QED BY <2>1, <2>10
<1>8. CASE x # 0 /\ i.op = "divu"
  <2>1. PICK v \in Cpu!Words, f \in Flags :
            /\ Cpu!UnsignedQuotient(x, y, d) = [value |-> v, fl |-> f] /\ ZeroSign(f, v, d)
            /\ y - (v % Cpu!Modulus(d)) * x \in 0 .. x - 1
    BY <1>5, <1>8, UnsignedQuotientIs
  <2>2. Cpu!Result(i, a, b) = [value |-> v, fl |-> f]
    <3>1. Cpu!Result(i, a, b) = Cpu!UnsignedQuotient(x, y, d)
      BY <1>1, <1>4, <1>8 DEF Cpu!Result
    <3> QED BY <2>1, <3>1
  <2>3. PICK m, ua, ub, sa, sb, w : Numbers(i, a, b, v, m, ua, ub, sa, sb, w)
    BY HasNumbers
  <2>4. m = Cpu!Modulus(d) /\ ua = x /\ ub = y /\ w = v % m
    BY <1>1, <1>3, <1>4, <1>8, <2>3 DEF Numbers
  <2>5. ub - w * ua \in 0 .. ua - 1
    BY <2>1, <2>4
  <2>6. ExactFor(i, f, m, ua, ub, sa, sb, w)
    BY <1>8, <2>4, <2>5 DEF ExactFor
  <2>7. Judged(i, v, f, m, ua, ub, sa, sb, w)
    BY <1>8, <2>6 DEF Judged
  <2>8. IsResult(i, a, b, v, f)
    BY <2>1, <2>2, <2>3, <2>7, Concluded
  <2> QED BY <2>1, <2>8
<1> QED BY <1>6, <1>7, <1>8

LEMMA ExtensionRight ==
    ASSUME NEW i, i.d1 \in 0 .. 2, i.d2 \in 0 .. 2, i.d1 < i.d2, i.op = "movs",
           NEW a \in Cpu!Words, NEW b \in Cpu!Words, fl \in Flags
    PROVE  \E f \in Flags : \E v : IsResult(i, a, b, v, f)
<1>1. PICK c \in 0 .. 2, d \in 0 .. 2 : c = i.d1 /\ d = i.d2
  OBVIOUS
<1>2. a \in Int /\ c < d
  BY <1>1, WordIs
<1>3. PICK v \in Cpu!Words : /\ v = Cpu!M32(Cpu!sx(a, Cpu!Modulus(c)))
                             /\ Cpu!sx(v % Cpu!Modulus(d), Cpu!Modulus(d)) = Cpu!sx(a, Cpu!Modulus(c))
  BY <1>2, ExtendedIs
<1>4. Cpu!Result(i, a, b) = [value |-> v, fl |-> fl]
  BY <1>1, <1>3 DEF Cpu!Result
<1>5. v # Cpu!NoValue
  BY WordIs DEF Cpu!NoValue
<1>6. PICK m, ua, ub, sa, sb, w : Numbers(i, a, b, v, m, ua, ub, sa, sb, w)
  BY HasNumbers
<1>7. m = Cpu!Modulus(d) /\ ua = a /\ w = v % m
  BY <1>1, <1>5, <1>6 DEF Numbers
<1>8. ExactFor(i, fl, m, ua, ub, sa, sb, w)
  BY <1>1, <1>3, <1>7 DEF ExactFor
<1>9. Judged(i, v, fl, m, ua, ub, sa, sb, w)
  BY <1>8 DEF Judged
<1>10. IsResult(i, a, b, v, fl)
  BY <1>4, <1>6, <1>9, Concluded
<1> QED BY <1>10

\* The logical operations and the shifts.
LEMMA LogicRight ==
    ASSUME NEW i, i.d2 \in 0 .. 2, i.op \in {"and", "or", "xor", "not", "shl"},
           NEW a \in Cpu!Words, NEW b \in Cpu!Words, fl \in Flags
    PROVE  \E f \in Flags : \E v : IsResult(i, a, b, v, f)
<1>1. a \in Int /\ b \in Int
  BY WordIs
<1>2. \E v \in Cpu!Words, f \in Flags : Cpu!Result(i, a, b) = [value |-> v, fl |-> f] /\ ZeroSign(f, v, i.d2)
  <2>1. CASE i.op \in {"and", "or", "xor"}
    <3>1. BitAnd(b, a) \in Cpu!Words /\ BitOr(b, a) \in Cpu!Words /\ BitXor(b, a) \in Cpu!Words
      BY ToolsAssumption DEF Cpu!V60Assumption
    <3>2. PICK v \in Cpu!Words : Cpu!Result(i, a, b) = Cpu!Logical(v, i.d2)
      <4>1. i.op = "and" => Cpu!Result(i, a, b) = Cpu!Logical(BitAnd(b, a), i.d2)
        BY DEF Cpu!Result
      <4>2. i.op = "or" => Cpu!Result(i, a, b) = Cpu!Logical(BitOr(b, a), i.d2)
        BY DEF Cpu!Result
      <4>3. i.op = "xor" => Cpu!Result(i, a, b) = Cpu!Logical(BitXor(b, a), i.d2)
        BY DEF Cpu!Result
      <4> QED BY <2>1, <3>1, <4>1, <4>2, <4>3
    <3>3. PICK f \in Flags : Cpu!Logical(v, i.d2) = [value |-> v, fl |-> f] /\ ZeroSign(f, v, i.d2)
      BY LogicalIs
    <3> QED BY <3>2, <3>3
  <2>2. CASE i.op = "not"
    <3>1. Cpu!Result(i, a, b) = Cpu!Inverted(a, i.d2)
      BY <2>2 DEF Cpu!Result
    <3> QED BY <1>1, <3>1, InvertedIs
  <2>3. CASE i.op = "shl"
    <3>1. Cpu!Result(i, a, b) = Cpu!Shifted(a, b, i.d2)
      BY <2>3 DEF Cpu!Result
    <3> QED BY <1>1, <3>1, ShiftedIs
  <2> QED BY <2>1, <2>2, <2>3
<1>3. PICK v \in Cpu!Words, f \in Flags :
          Cpu!Result(i, a, b) = [value |-> v, fl |-> f] /\ ZeroSign(f, v, i.d2)
  BY <1>2
<1>4. IsResult(i, a, b, v, f)
  BY <1>3, PlainRight
<1> QED BY <1>3, <1>4

LEMMA ResultIs ==
    ASSUME NEW i, i.op \in Cpu!F12, Cpu!Encodable(i),
           NEW a \in Cpu!Words, NEW b \in Cpu!Words, fl \in Flags
    PROVE  \E f \in Flags : \E v : IsResult(i, a, b, v, f)
<1>1. i.d1 \in 0 .. 2 /\ i.d2 \in 0 .. 2 /\ (i.op = "movs" => i.d1 < i.d2)
  BY DEF Cpu!Encodable
<1>2. CASE i.op \in Moves
  <2>1. Cpu!Result(i, a, b) = [value |-> a, fl |-> fl]
    BY <1>2 DEF Cpu!Result, Moves
  <2>2. IsResult(i, a, b, a, fl)
    BY <1>1, <1>2, <2>1, PlainRight
  <2> QED BY <2>2
<1>3. CASE i.op \in {"add", "sub", "neg", "cmp"}
  BY <1>1, <1>3, AddSubNegRight
<1>4. CASE i.op \in {"mul", "mulu"}
  BY <1>1, <1>4, ProductRight
<1>5. CASE i.op \in {"div", "divu"}
  BY <1>1, <1>5, QuotientRight
<1>6. CASE i.op = "movs"
  BY <1>1, <1>6, ExtensionRight
<1>7. CASE i.op \in {"and", "or", "xor", "not", "shl"}
  BY <1>1, <1>7, LogicRight
<1> QED BY <1>2, <1>3, <1>4, <1>5, <1>6, <1>7 DEF Cpu!F12, Moves

-----------------------------------------------------------------------------
(***************************************************************************)
(* The steps of the V60.                                                   *)
(***************************************************************************)
\* What an operation left: i put v, or nothing, in its destination o.
Finished(i, o, a, b, v, regs, old, new, f) ==
    /\ i.d2 \in 0 .. 2 /\ IsOperand(o, i.d2) /\ new \in Memories
    /\ a \in Cpu!Words /\ b \in Cpu!Words
    /\ v \in Cpu!Words \/ v = Cpu!NoValue
    /\ Lands(o, i.d2, regs, old, new, IF v = Cpu!NoValue THEN b ELSE v)
    /\ Right(i, a, b, v, f)
    /\ v = Cpu!NoValue => regs = o.regs /\ new = old

CpuInv ==
    /\ unit = "cpu" => program \in Programs /\ cpu_mem \in Memories /\ r \in RegisterFiles /\ fl \in Flags
    /\ unit # "cpu" => last = Cpu!NoLast
    /\ last.op \in Cpu!F12 =>
          \E v : Finished(program[last.at], last.to, last.a, last.b, v, r, last.mem, cpu_mem, fl)

LEMMA FinishedExact ==
    ASSUME NEW v, Finished(Cpu!Op, Cpu!To, last.a, last.b, v, r, last.mem, cpu_mem, fl)
    PROVE  Cpu!ResultsExact
<1>1. PICK d \in 0 .. 2 : d = Cpu!Op.d2
  BY DEF Finished
<1>2. PICK m, h, k : m = Cpu!Modulus(d) /\ IsWidth(m, h, k)
  BY ModulusIs
<1>3. PICK ma, ua, ub, sa, sb, w :
          /\ Numbers(Cpu!Op, last.a, last.b, v, ma, ua, ub, sa, sb, w)
          /\ Judged(Cpu!Op, v, fl, ma, ua, ub, sa, sb, w)
  BY DEF Finished, Right
<1>4. /\ ma = m
      /\ ua = IF Cpu!Op.op = "movs" THEN last.a ELSE Cpu!dimext(last.a, Cpu!Op.d2)
      /\ ub = Cpu!dimext(last.b, Cpu!Op.d2) /\ sa = Cpu!sx(last.a, m) /\ sb = Cpu!sx(last.b, m)
      /\ w = (IF v = Cpu!NoValue THEN last.b ELSE v) % m
  BY <1>1, <1>2, <1>3 DEF Numbers
<1>5. Lands(Cpu!To, d, r, last.mem, cpu_mem, IF v = Cpu!NoValue THEN last.b ELSE v)
  BY <1>1 DEF Finished
<1>6. Cpu!Landed => Cpu!dimext(Cpu!Dest, Cpu!Op.d2) = w /\ Cpu!Dest % m = w
  <2>1. CASE Cpu!To.kind = "reg"
    <3>1. Cpu!Dest = r[Cpu!To.value]
      BY <2>1 DEF Cpu!Dest
    <3> QED BY <1>1, <1>2, <1>4, <1>5, <2>1, <3>1 DEF Lands, Cpu!dimext
  <2>2. CASE Cpu!To.kind = "mem" /\ Cpu!To.value + Cpu!Width(d) <= Size
    <3>1. Cpu!Dest = Cpu!ReadFrom(cpu_mem, Cpu!To.value, d)
      BY <1>1, <2>2 DEF Cpu!Dest, Cpu!Read
    <3> QED BY <1>1, <1>2, <1>4, <1>5, <2>2, <3>1 DEF Lands, Cpu!dimext
  <2> QED BY <1>1, <2>1, <2>2 DEF Cpu!Landed
<1>7. Cpu!Op.op = "cmp" => Cpu!Compared(ua, ub, sa, sb) /\ r = Cpu!To.regs /\ cpu_mem = last.mem
  <2>1. Cpu!Op.op = "cmp" => v = Cpu!NoValue /\ ComparedFor(fl, ua, ub, sa, sb)
    BY <1>3 DEF Judged
  <2>2. ComparedFor(fl, ua, ub, sa, sb) => Cpu!Compared(ua, ub, sa, sb)
    BY Zenon DEF ComparedFor, Cpu!Compared
  <2> QED BY <2>1, <2>2 DEF Finished
<1>8. Cpu!Op.op # "cmp" => Cpu!Exact(m, ua, ub, sa, sb, w)
  <2>1. Cpu!Op.op # "cmp" => ExactFor(Cpu!Op, fl, m, ua, ub, sa, sb, w)
    BY <1>3, <1>4 DEF Judged
  <2>2. ExactFor(Cpu!Op, fl, m, ua, ub, sa, sb, w) => Cpu!Exact(m, ua, ub, sa, sb, w)
    BY Zenon DEF ExactFor, Cpu!Exact
  <2> QED BY <2>1, <2>2
<1>9. Cpu!Op.op \in Cpu!F12 \ {"mov", "movs", "movz", "movea", "cmp", "div", "divu"} /\ Cpu!Landed =>
          (fl.z <=> Cpu!dimext(Cpu!Dest, Cpu!Op.d2) = 0) /\ (fl.s <=> Cpu!sx(Cpu!Dest, m) < 0)
  <2> SUFFICES ASSUME Cpu!Op.op \in Cpu!F12 \ {"mov", "movs", "movz", "movea", "cmp", "div", "divu"}, Cpu!Landed
               PROVE  (fl.z <=> w = 0) /\ (fl.s <=> Cpu!sx(Cpu!Dest, m) < 0)
    BY <1>6
  <2>1. ZeroSign(fl, v, d) /\ v # Cpu!NoValue
    BY <1>1, <1>3 DEF Judged, Moves
  <2>2. w = v % m /\ (fl.z <=> w = 0) /\ (fl.s <=> w >= m \div 2)
    BY <1>2, <1>4, <2>1 DEF ZeroSign
  <2>3. v \in Int
    BY <2>1, WordIs DEF Finished
  <2>4. m \in Nat \ {0}
    BY <1>2 DEF IsWidth
  <2>5. w \in 0 .. m - 1
    BY <2>2, <2>3, <2>4, Divided
  <2>6. Cpu!sx(Cpu!Dest, m) = IF w >= m \div 2 THEN w - m ELSE w
    BY <1>6 DEF Cpu!sx
  <2> QED BY <2>2, <2>4, <2>5, <2>6
<1>10. Cpu!OnlyDest
  <2>1. DOMAIN cpu_mem = 0 .. Size - 1
    BY DEF Finished, Memories
  <2>2. \A x \in Registers : (Cpu!To.kind = "reg" /\ Cpu!To.value = x) \/ r[x] = Cpu!To.regs[x]
    BY <1>5 DEF Lands
  <2>3. Cpu!To.kind = "reg" =>
            Cpu!Dest \div Cpu!Modulus(Cpu!Op.d2) = Cpu!To.regs[Cpu!To.value] \div Cpu!Modulus(Cpu!Op.d2)
    <3>1. Cpu!To.kind = "reg" => Cpu!Dest = r[Cpu!To.value]
      BY DEF Cpu!Dest
    <3> QED BY <1>1, <1>5, <3>1 DEF Lands
  <2>4. \A x \in DOMAIN cpu_mem :
            (Cpu!To.kind = "mem" /\ x - Cpu!To.value \in 0 .. Cpu!Width(Cpu!Op.d2) - 1) \/ cpu_mem[x] = last.mem[x]
    BY <1>1, <1>5, <2>1 DEF Lands
  <2> QED BY <2>2, <2>3, <2>4 DEF Cpu!OnlyDest
<1>11. m = Cpu!Modulus(Cpu!Op.d2)
  BY <1>1, <1>2
<1> DEFINE n == Cpu!Modulus(Cpu!Op.d2)
           na == IF Cpu!Op.op = "movs" THEN last.a ELSE Cpu!dimext(last.a, Cpu!Op.d2)
           nb == Cpu!dimext(last.b, Cpu!Op.d2)
<1>12. /\ Cpu!Op.op = "cmp" => Cpu!Compared(na, nb, Cpu!sx(last.a, n), Cpu!sx(last.b, n))
                               /\ r = Cpu!To.regs /\ cpu_mem = last.mem
       /\ Cpu!Op.op # "cmp" /\ Cpu!Landed =>
             Cpu!Exact(n, na, nb, Cpu!sx(last.a, n), Cpu!sx(last.b, n), Cpu!dimext(Cpu!Dest, Cpu!Op.d2))
       /\ Cpu!Op.op \in Cpu!F12 \ {"mov", "movs", "movz", "movea", "cmp", "div", "divu"} /\ Cpu!Landed =>
             (fl.z <=> Cpu!dimext(Cpu!Dest, Cpu!Op.d2) = 0) /\ (fl.s <=> Cpu!sx(Cpu!Dest, n) < 0)
  BY <1>4, <1>6, <1>7, <1>8, <1>9, <1>11
<1> QED BY <1>10, <1>12, Zenon DEF Cpu!ResultsExact

LEMMA AtWork ==
    ASSUME NEW ops, program \in Programs, Cpu!Steps(ops)
    PROVE  cpu_pc \in Int /\ Cpu!Here.op \in ops /\ Cpu!Encodable(Cpu!Here) /\ program' = program
<1>1. cpu_pc \in DOMAIN program /\ DOMAIN program \subseteq Nat /\ Cpu!Encodable(program[cpu_pc])
  BY ToolsAssumption DEF Cpu!Steps, Cpu!V60Assumption
<1> QED BY <1>1 DEF Cpu!Steps, Cpu!Here

LEMMA PushesWord ==
    ASSUME NEW regs \in RegisterFiles, NEW v \in Cpu!Words, cpu_mem \in Memories, Cpu!Pushed(regs, v)
    PROVE  r' \in RegisterFiles /\ cpu_mem' \in Memories
<1>1. SP \in Registers
  BY ToolsAssumption DEF Cpu!V60Assumption
<1>2. regs[SP] - 4 \in Int
  BY <1>1, WordIs DEF RegisterFiles
<1>3. Cpu!M32(regs[SP] - 4) \in Cpu!Words
  BY <1>2, MaskIs
<1>4. r' = [regs EXCEPT ![SP] = Cpu!M32(regs[SP] - 4)]
  BY DEF Cpu!Pushed
<1>5. Cpu!M32(regs[SP] - 4) \in Nat /\ v \in Nat
  BY <1>3, WordIs
<1>6. cpu_mem' = Cpu!Written(cpu_mem, Cpu!M32(regs[SP] - 4), 2, v)
  BY DEF Cpu!Pushed
<1>7. cpu_mem' \in Memories
  BY <1>5, <1>6, WriteReads
<1> QED BY <1>3, <1>4, <1>7 DEF RegisterFiles

LEMMA PopsWord ==
    ASSUME NEW regs \in RegisterFiles, NEW n \in Int
    PROVE  [regs EXCEPT ![SP] = Cpu!M32(@ + n)] \in RegisterFiles
<1>1. SP \in Registers
  BY ToolsAssumption DEF Cpu!V60Assumption
<1>2. regs[SP] + n \in Int
  BY <1>1, WordIs DEF RegisterFiles
<1>3. Cpu!M32(regs[SP] + n) \in Cpu!Words
  BY <1>2, MaskIs
<1> QED BY <1>3 DEF RegisterFiles

LEMMA TargetIs ==
    ASSUME NEW o, Cpu!Fits(o, 2), Machine
    PROVE  Cpu!Target(o).regs \in RegisterFiles
<1>1. IsOperand(Cpu!decode_addr(o, r, 2), 2)
  BY DecodedPlace DEF Machine
<1> QED BY <1>1 DEF Cpu!Target, IsOperand

LEMMA PswIs == ASSUME NEW f \in Flags PROVE Cpu!psw(f) \in Cpu!Words
<1>1. f.z \in BOOLEAN /\ f.s \in BOOLEAN /\ f.ov \in BOOLEAN /\ f.cy \in BOOLEAN
  BY DEF Flags
<1>2. Cpu!psw(f) \in 0 .. 15
  BY <1>1 DEF Cpu!psw
<1> QED BY <1>2, WordIs

\* What each step makes of the machine.
Kept == r' \in RegisterFiles /\ cpu_mem' \in Memories /\ fl' \in Flags /\ program' = program

LEMMA ControlKept ==
    ASSUME program \in Programs, cpu_mem \in Memories, r \in RegisterFiles, fl \in Flags,
           Cpu!Halt \/ Cpu!Nop \/ Cpu!Bcc \/ Cpu!Jmp \/ Cpu!Jsr \/ Cpu!Bsr \/ Cpu!Ret
    PROVE  Kept /\ last'.op \notin Cpu!F12
<1>1. CASE Cpu!Halt \/ Cpu!Nop \/ Cpu!Bcc
  <2>1. UNCHANGED <<r, cpu_mem, fl, program>>
    BY <1>1 DEF Cpu!Halt, Cpu!Nop, Cpu!Bcc, Cpu!Steps
  <2>2. last'.op \in {"halt", "nop", "bcc"}
    BY <1>1 DEF Cpu!Halt, Cpu!Nop, Cpu!Bcc, Cpu!Steps, Cpu!Note, Cpu!NoteTo
  <2> QED BY <2>1, <2>2 DEF Kept, Cpu!F12
<1>2. CASE Cpu!Jmp
  <2>1. Cpu!Steps({"jmp"})
    BY <1>2 DEF Cpu!Jmp
  <2>2. cpu_pc \in Int /\ Cpu!Here.op = "jmp" /\ Cpu!Encodable(Cpu!Here) /\ program' = program
    BY <2>1, AtWork
  <2>3. Cpu!Fits(Cpu!Here.src, 2) /\ Machine
    BY <2>2 DEF Cpu!Encodable, Machine
  <2>4. r' \in RegisterFiles
    BY <1>2, <2>3, TargetIs DEF Cpu!Jmp
  <2> QED BY <1>2, <2>2, <2>4 DEF Kept, Cpu!Jmp, Cpu!Note, Cpu!NoteTo, Cpu!F12
<1>3. CASE Cpu!Jsr
  <2>1. Cpu!Steps({"jsr"})
    BY <1>3 DEF Cpu!Jsr
  <2>2. cpu_pc \in Int /\ Cpu!Here.op = "jsr" /\ Cpu!Encodable(Cpu!Here) /\ program' = program
    BY <2>1, AtWork
  <2>3. Cpu!Fits(Cpu!Here.src, 2) /\ Machine
    BY <2>2 DEF Cpu!Encodable, Machine
  <2>4. Cpu!Target(Cpu!Here.src).regs \in RegisterFiles
    BY <2>3, TargetIs
  <2>5. Cpu!return_address \in Cpu!Words
    <3>1. PICK n \in Nat : n = Cpu!Here.src.len
      BY <2>3 DEF Cpu!Fits
    <3>2. cpu_pc + 1 + n \in Int
      BY <2>2
    <3>3. cpu_pc + 1 + Cpu!Here.src.len \in Int
      BY <3>1, <3>2
    <3> QED BY <3>3, MaskIs DEF Cpu!return_address
  <2>6. Cpu!Pushed(Cpu!Target(Cpu!Here.src).regs, Cpu!return_address)
    BY <1>3 DEF Cpu!Jsr
  <2>7. r' \in RegisterFiles /\ cpu_mem' \in Memories
    BY <2>4, <2>5, <2>6, PushesWord
  <2> QED BY <1>3, <2>2, <2>7 DEF Kept, Cpu!Jsr, Cpu!Note, Cpu!NoteTo, Cpu!F12
<1>4. CASE Cpu!Bsr
  <2>1. Cpu!Steps({"bsr"})
    BY <1>4 DEF Cpu!Bsr
  <2>2. cpu_pc \in Int /\ Cpu!Here.op = "bsr" /\ program' = program
    BY <2>1, AtWork
  <2>3. Cpu!M32(cpu_pc + 3) \in Cpu!Words
    BY <2>2, MaskIs
  <2>4. Cpu!Pushed(r, Cpu!M32(cpu_pc + 3))
    BY <1>4 DEF Cpu!Bsr
  <2>5. r' \in RegisterFiles /\ cpu_mem' \in Memories
    BY <2>3, <2>4, PushesWord
  <2> QED BY <1>4, <2>2, <2>5 DEF Kept, Cpu!Bsr, Cpu!Note, Cpu!NoteTo, Cpu!F12
<1>5. CASE Cpu!Ret
  <2>1. Cpu!Steps({"ret"})
    BY <1>5 DEF Cpu!Ret
  <2>2. cpu_pc \in Int /\ Cpu!Here.op = "ret" /\ Cpu!Encodable(Cpu!Here) /\ program' = program
    BY <2>1, AtWork
  <2>3. Cpu!Fits(Cpu!Here.src, 2) /\ Machine
    BY <2>2 DEF Cpu!Encodable, Machine
  <2> DEFINE k == Cpu!decode_value(Cpu!Here.src, r, 2)
  <2>4. k.value \in 0 .. Cpu!Modulus(2) - 1 /\ k.regs \in RegisterFiles
    BY <2>3, DecodedValue
  <2>5. k.value \in Int
    BY <2>4
  <2>6. r' = [k.regs EXCEPT ![SP] = Cpu!M32(@ + 4 + k.value)]
    BY <1>5 DEF Cpu!Ret
  <2> HIDE DEF k
  <2>7. PICK n \in Int : n = 4 + k.value
    BY <2>5
  <2>8. k.regs[SP] \in Int
    <3>1. SP \in Registers
      BY ToolsAssumption DEF Cpu!V60Assumption
    <3> QED BY <2>4, <3>1, WordIs DEF RegisterFiles
  <2>9. (k.regs[SP] + 4) + k.value = k.regs[SP] + n
    BY <2>5, <2>7, <2>8
  <2>10. r' = [k.regs EXCEPT ![SP] = Cpu!M32(@ + n)]
    BY <2>6, <2>9
  <2>11. r' \in RegisterFiles
    BY <2>4, <2>10, PopsWord
  <2> QED BY <1>5, <2>2, <2>11 DEF Kept, Cpu!Ret, Cpu!Note, Cpu!NoteTo, Cpu!F12
<1> QED BY <1>1, <1>2, <1>3, <1>4, <1>5

LEMMA DataKept ==
    ASSUME program \in Programs, cpu_mem \in Memories, r \in RegisterFiles, fl \in Flags,
           Cpu!Push \/ Cpu!Pop \/ Cpu!Test \/ Cpu!GetPsw
    PROVE  Kept /\ last'.op \notin Cpu!F12
<1>1. CASE Cpu!Push
  <2>1. Cpu!Steps({"push"})
    BY <1>1 DEF Cpu!Push
  <2>2. cpu_pc \in Int /\ Cpu!Here.op = "push" /\ Cpu!Encodable(Cpu!Here) /\ program' = program
    BY <2>1, AtWork
  <2>3. Cpu!Fits(Cpu!Here.src, 2) /\ Machine
    BY <2>2 DEF Cpu!Encodable, Machine
  <2>4. PICK k : k = Cpu!decode_value(Cpu!Here.src, r, 2)
    OBVIOUS
  <2>5. k.value \in Cpu!Words /\ k.regs \in RegisterFiles
    BY <2>3, <2>4, DecodedValue, WordIs
  <2>6. Cpu!Pushed(k.regs, k.value)
    BY <1>1, <2>4 DEF Cpu!Push
  <2>7. r' \in RegisterFiles /\ cpu_mem' \in Memories
    BY <2>5, <2>6, PushesWord
  <2> QED BY <1>1, <2>2, <2>7 DEF Kept, Cpu!Push, Cpu!Note, Cpu!NoteTo, Cpu!F12
<1>2. CASE Cpu!Pop
  <2>1. Cpu!Steps({"pop"})
    BY <1>2 DEF Cpu!Pop
  <2>2. cpu_pc \in Int /\ Cpu!Here.op = "pop" /\ Cpu!Encodable(Cpu!Here) /\ program' = program
    BY <2>1, AtWork
  <2>3. Cpu!Fits(Cpu!Here.dst, 2) /\ Machine
    BY <2>2 DEF Cpu!Encodable, Machine
  <2>4. PICK k, v : k = Cpu!decode_addr(Cpu!Here.dst, r, 2) /\ v = Cpu!Read(k.regs[SP], 2)
    OBVIOUS
  <2>5. IsOperand(k, 2)
    BY <2>3, <2>4, DecodedPlace DEF Machine
  <2>6. v \in Cpu!Words
    <3>1. SP \in Registers
      BY ToolsAssumption DEF Cpu!V60Assumption
    <3>2. k.regs[SP] \in Nat
      BY <2>5, <3>1, WordIs DEF IsOperand, RegisterFiles
    <3>3. v \in 0 .. Cpu!Modulus(2) - 1
      BY <2>4, <3>2, ReadsNumber DEF Cpu!Read
    <3> QED BY <3>3, WordIs
  <2>7. r' = [Cpu!Stored(k, v, 2) EXCEPT ![SP] = Cpu!M32(@ + 4)]
    BY <1>2, <2>4 DEF Cpu!Pop
  <2>8. cpu_mem' = IF k.kind = "mem" THEN Cpu!Written(cpu_mem, k.value, 2, v) ELSE cpu_mem
    BY <1>2, <2>4 DEF Cpu!Pop
  <2>9. Cpu!Stored(k, v, 2) \in RegisterFiles /\ cpu_mem' \in Memories
    <3>1. CASE k.kind = "reg"
      BY <2>3, <2>5, <2>6, <2>8, <3>1, RegisterStored
    <3>2. CASE k.kind = "mem"
      <4>1. k.regs \in RegisterFiles
        BY <2>5 DEF IsOperand
      <4> QED BY <2>3, <2>5, <2>6, <2>8, <3>2, <4>1, MemoryStored
    <3>3. CASE k.kind = "imm"
      BY <2>5, <2>8, <3>3 DEF IsOperand, Cpu!Stored
    <3> QED BY <2>5, <3>1, <3>2, <3>3 DEF IsOperand
  <2>10. r' \in RegisterFiles
    BY <2>7, <2>9, PopsWord
  <2> QED BY <1>2, <2>2, <2>9, <2>10 DEF Kept, Cpu!Pop, Cpu!Note, Cpu!NoteTo, Cpu!F12
<1>3. CASE Cpu!Test
  <2>1. Cpu!Steps({"test"})
    BY <1>3 DEF Cpu!Test
  <2>2. cpu_pc \in Int /\ Cpu!Here.op = "test" /\ Cpu!Encodable(Cpu!Here) /\ program' = program
    BY <2>1, AtWork
  <2>3. Cpu!Here.d1 \in 0 .. 2 /\ Cpu!Fits(Cpu!Here.src, Cpu!Here.d1) /\ Machine
    BY <2>2 DEF Cpu!Encodable, Machine
  <2>4. PICK d, k : d = Cpu!Here.d1 /\ d \in 0 .. 2 /\ k = Cpu!decode_value(Cpu!Here.src, r, d)
    BY <2>3
  <2>5. k.regs \in RegisterFiles
    BY <2>3, <2>4, DecodedValue
  <2>6. PICK g \in Flags : g = Cpu!setzs(fl, k.value, d)
    BY FlagsSet
  <2>7. fl' = [g EXCEPT !.ov = FALSE, !.cy = FALSE]
    BY <1>3, <2>4, <2>6 DEF Cpu!Test
  <2>8. fl' \in Flags
    BY <2>7 DEF Flags
  <2>9. r' = k.regs /\ UNCHANGED cpu_mem
    BY <1>3, <2>4 DEF Cpu!Test
  <2> QED BY <1>3, <2>2, <2>5, <2>8, <2>9 DEF Kept, Cpu!Test, Cpu!Note, Cpu!NoteTo, Cpu!F12
<1>4. CASE Cpu!GetPsw
  <2>1. Cpu!Steps({"getpsw"})
    BY <1>4 DEF Cpu!GetPsw
  <2>2. cpu_pc \in Int /\ Cpu!Here.op = "getpsw" /\ Cpu!Encodable(Cpu!Here) /\ program' = program
    BY <2>1, AtWork
  <2>3. Cpu!Fits(Cpu!Here.dst, 2) /\ Machine
    BY <2>2 DEF Cpu!Encodable, Machine
  <2>4. PICK k, v : /\ k = Cpu!decode_addr(Cpu!Here.dst, r, 2) /\ v = Cpu!psw(fl)
                    /\ Cpu!store(k, v, 2)
    BY <1>4 DEF Cpu!GetPsw
  <2>5. IsOperand(k, 2) /\ v \in Cpu!Words
    BY <2>3, <2>4, DecodedPlace, PswIs DEF Machine
  <2>6. r' \in RegisterFiles /\ cpu_mem' \in Memories
    BY <2>3, <2>4, <2>5, StoreLands
  <2> QED BY <1>4, <2>2, <2>6 DEF Kept, Cpu!GetPsw, Cpu!Note, Cpu!NoteTo, Cpu!F12
<1> QED BY <1>1, <1>2, <1>3, <1>4

LEMMA OperationKept ==
    ASSUME program \in Programs, cpu_mem \in Memories, r \in RegisterFiles, fl \in Flags, Cpu!_exec_f12
    PROVE  /\ Kept
           /\ \E v : Finished(program'[last'.at], last'.to, last'.a, last'.b, v, r', last'.mem, cpu_mem', fl')
<1>1. Cpu!Steps(Cpu!F12)
  BY DEF Cpu!_exec_f12
<1>2. cpu_pc \in Int /\ Cpu!Here.op \in Cpu!F12 /\ Cpu!Encodable(Cpu!Here) /\ program' = program
  BY <1>1, AtWork
<1>3. PICK i : i = Cpu!Here /\ i.op \in Cpu!F12 /\ Cpu!Encodable(i)
  BY <1>2
<1>4. i.d1 \in 0 .. 2 /\ i.d2 \in 0 .. 2 /\ Cpu!Fits(i.src, i.d1) /\ Cpu!Fits(i.dst, i.d2)
  BY <1>3 DEF Cpu!Encodable
<1>5. Machine
  BY <1>2 DEF Machine
<1>6. PICK o1, o2, b, got :
          /\ o1 = Cpu!decode_value(i.src, r, i.d1) /\ o2 = Cpu!decode_addr(i.dst, o1.regs, i.d2)
          /\ b = Cpu!load(o2, i.d2) /\ got = Cpu!Result(i, o1.value, b)
          /\ IF got.value = Cpu!NoValue THEN r' = o2.regs /\ UNCHANGED cpu_mem
             ELSE Cpu!store(o2, got.value, i.d2)
          /\ fl' = got.fl
          /\ Cpu!NoteTo(o1.value, b, o2)
  BY <1>3 DEF Cpu!_exec_f12
<1>7. o1.value \in 0 .. Cpu!Modulus(i.d1) - 1 /\ o1.regs \in RegisterFiles
  BY <1>4, <1>5, <1>6, DecodedValue
<1>8. IsOperand(o2, i.d2)
  BY <1>4, <1>5, <1>6, <1>7, DecodedPlace
<1>9. b \in Cpu!Words
  BY <1>4, <1>5, <1>6, <1>8, LoadIs
<1>10. PICK a \in Cpu!Words : a = o1.value
  BY <1>4, <1>7, NarrowIs
<1>11. PICK f \in Flags, v \in Cpu!Words \cup {Cpu!NoValue} : got = [value |-> v, fl |-> f] /\ Right(i, a, b, v, f)
  <2>1. PICK f \in Flags : \E v : IsResult(i, a, b, v, f)
    BY <1>3, <1>9, ResultIs
  <2>2. PICK v : IsResult(i, a, b, v, f)
    BY <2>1
  <2> QED BY <1>6, <1>10, <2>2 DEF IsResult
<1>12. fl' = f
  BY <1>6, <1>11
<1>13. /\ r' \in RegisterFiles /\ cpu_mem' \in Memories
       /\ Lands(o2, i.d2, r', cpu_mem, cpu_mem', IF v = Cpu!NoValue THEN b ELSE v)
       /\ v = Cpu!NoValue => r' = o2.regs /\ cpu_mem' = cpu_mem
  <2>1. CASE v = Cpu!NoValue
    <3>1. r' = o2.regs /\ UNCHANGED cpu_mem
      BY <1>6, <1>11, <2>1
    <3>2. r' \in RegisterFiles /\ cpu_mem' \in Memories /\ Lands(o2, i.d2, r', cpu_mem, cpu_mem', b)
      BY <1>4, <1>5, <1>6, <1>8, <3>1, KeptLands
    <3> QED BY <2>1, <3>1, <3>2
  <2>2. CASE v # Cpu!NoValue
    <3>1. Cpu!store(o2, v, i.d2) /\ v \in Cpu!Words
      BY <1>6, <1>11, <2>2
    <3> QED BY <1>4, <1>5, <1>8, <2>2, <3>1, StoreLands
  <2> QED BY <2>1, <2>2
<1>14. /\ last'.at = cpu_pc /\ last'.to = o2 /\ last'.a = a /\ last'.b = b /\ last'.mem = cpu_mem
  BY <1>6, <1>10 DEF Cpu!NoteTo
<1>15. program'[last'.at] = i
  BY <1>2, <1>3, <1>14 DEF Cpu!Here
<1>16. Finished(i, o2, a, b, v, r', cpu_mem, cpu_mem', f)
  BY <1>4, <1>8, <1>9, <1>11, <1>13 DEF Finished
<1>17. Finished(program'[last'.at], last'.to, last'.a, last'.b, v, r', last'.mem, cpu_mem', fl')
  BY <1>12, <1>14, <1>15, <1>16
<1> QED BY <1>2, <1>12, <1>13, <1>17 DEF Kept

LEMMA ToolsKept == CpuInv /\ [ToolsNext]_toolVars => CpuInv'
<1> SUFFICES ASSUME CpuInv, [ToolsNext]_toolVars PROVE CpuInv'
  OBVIOUS
<1>1. CASE unit' = unit /\ UNCHANGED cpuVars
  BY <1>1 DEF CpuInv, cpuVars
<1>2. CASE Stepping
  <2>1. unit = "cpu" /\ unit' = unit /\ Cpu!Next
    BY <1>2 DEF Stepping, benchVars
  <2>2. program \in Programs /\ cpu_mem \in Memories /\ r \in RegisterFiles /\ fl \in Flags
    BY <2>1 DEF CpuInv
  <2>3. CASE Cpu!_exec_f12
    <3>1. /\ Kept
          /\ \E v : Finished(program'[last'.at], last'.to, last'.a, last'.b, v, r', last'.mem, cpu_mem', fl')
      BY <2>2, <2>3, OperationKept
    <3> QED BY <2>1, <2>2, <3>1 DEF CpuInv, Kept
  <2>4. CASE Cpu!Halt \/ Cpu!Nop \/ Cpu!Bcc \/ Cpu!Jmp \/ Cpu!Jsr \/ Cpu!Bsr \/ Cpu!Ret
    <3>1. Kept /\ last'.op \notin Cpu!F12
      BY <2>2, <2>4, ControlKept
    <3> QED BY <2>1, <2>2, <3>1 DEF CpuInv, Kept
  <2>5. CASE Cpu!Push \/ Cpu!Pop \/ Cpu!Test \/ Cpu!GetPsw
    <3>1. Kept /\ last'.op \notin Cpu!F12
      BY <2>2, <2>5, DataKept
    <3> QED BY <2>1, <2>2, <3>1 DEF CpuInv, Kept
  <2> QED BY <2>1, <2>3, <2>4, <2>5, Zenon DEF Cpu!Next, Cpu!step
<1>3. CASE AtTheBench \/ BuildingImages \/ UNCHANGED toolVars
  <2>1. UNCHANGED cpuVars
    BY <1>3 DEF AtTheBench, BuildingImages, toolVars
  <2>2. unit' = unit
    BY <1>3 DEF AtTheBench, BuildingImages, toolVars, benchVars, BenchNext, Converging, Releasing,
       Identifying, FetchingDonors, Mixing, Replaying
  <2> QED BY <1>1, <2>1, <2>2
<1> QED BY <1>2, <1>3 DEF ToolsNext

\* Whatever the width of a byte, the memory, the registers and the program: an
\* operation of v60_ref.py leaves the number, the carry and the overflow that
\* arithmetic gives, comparisons order their operands, and nothing changes but
\* the part of the destination written (_exec_f12, decode_am, store).
THEOREM ArithmeticExact == ToolsSpec => []ResultsExact
<1>1. ToolsInit => CpuInv
  <2> SUFFICES ASSUME ToolsInit PROVE CpuInv
    OBVIOUS
  <2>1. Cpu!Start /\ (unit = "cpu" => Cpu!Given)
    BY DEF ToolsInit
  <2>2. last = Cpu!NoLast /\ last.op \notin Cpu!F12
    BY <2>1 DEF Cpu!Start, Cpu!NoLast, Cpu!F12
  <2>3. r \in RegisterFiles
    BY <2>1, WordIs DEF Cpu!Start, RegisterFiles
  <2>4. fl \in Flags
    BY <2>1 DEF Cpu!Start, Flags
  <2>5. unit = "cpu" => program \in Programs /\ cpu_mem \in Memories
    BY <2>1, ByteIs DEF Cpu!Given, Memories
  <2> QED BY <2>2, <2>3, <2>4, <2>5 DEF CpuInv
<1>2. CpuInv => ResultsExact
  <2> SUFFICES ASSUME CpuInv PROVE Cpu!ResultsExact
    BY DEF ResultsExact
  <2>1. CASE last.op \in Cpu!F12
    <3>1. PICK v : Finished(Cpu!Op, Cpu!To, last.a, last.b, v, r, last.mem, cpu_mem, fl)
      BY <2>1 DEF CpuInv, Cpu!Op, Cpu!To
    <3> QED BY <3>1, FinishedExact
  <2>2. CASE last.op \notin Cpu!F12
    BY <2>2, Zenon DEF Cpu!ResultsExact
  <2> QED BY <2>1, <2>2
<1> QED BY <1>1, <1>2, ToolsKept, PTL DEF ToolsSpec

=============================================================================
