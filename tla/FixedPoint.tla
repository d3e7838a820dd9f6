----------------------------- MODULE FixedPoint -----------------------------
(***************************************************************************)
(* The interpreter's integer and condition register instructions, on       *)
(* registers of W bits.  The field RA, RD or RS that an instruction writes *)
(* is D here, and those it reads are A and B; an immediate has half as     *)
(* many bits as a register, a byte a quarter.                              *)
(***************************************************************************)
EXTENDS Integers, Sequences, FiniteSets

CONSTANTS W,       \* bits of a register: a power of two
          M,       \* 2^W
          GPR,     \* the numbers of the general registers
          CR       \* the numbers of the condition register's fields

ASSUME WordAssumption == M \in Nat \ {0}

\* Powers of two, up to the longest shift that an amount can ask for.
Power[k \in 0..(2 * W)] == IF k = 0 THEN 1 ELSE 2 * Power[k - 1]

ASSUME WidthAssumption == W \in Nat /\ M = Power[W]

ASSUME PowerAssumption == \E k \in 0..W : W = Power[k]

\* The fields have four bits each, and fill a word.
ASSUME FieldAssumption == CR = 0..(W \div 4 - 1)

Reg == 0..(M - 1)
Flag == {"lt", "gt", "eq", "so"}

VARIABLES gpr, ca, so, cr,  \* MachineState: xer's flags apart, and cr's fields as sets
          halt              \* "no", or the exception that an instruction threw

MachineTypeOK ==
  /\ gpr \in [GPR -> Reg]
  /\ ca \in {0, 1}
  /\ so \in BOOLEAN
  /\ cr \in [CR -> SUBSET Flag]
  /\ halt \in {"no", "Panic", "TrapException", "AccessViolation", "crash"}

-----------------------------------------------------------------------------
(* Words *)

Add(a, b) == (a + b) % M
Sub(a, b) == (a - b) % M
Not(a)    == M - 1 - a
Carry(a, b) == b > Not(a)
Negative(a) == 2 * a >= M
Signed(a)   == IF Negative(a) THEN a - M ELSE a
Flagged(p)  == IF p THEN 1 ELSE 0

\* Bit 0 is the least significant.
Bit(a)  == {k \in 0..(W - 1) : (a \div Power[k]) % 2 = 1}
Word(S) == CHOOSE a \in Reg : Bit(a) = S
And(a, b) == Word(Bit(a) \cap Bit(b))
Or(a, b)  == Word(Bit(a) \cup Bit(b))
Xor(a, b) == Word((Bit(a) \ Bit(b)) \cup (Bit(b) \ Bit(a)))
ShiftLeft(a, n)  == (a * Power[n]) % M
ShiftRight(a, n) == a \div Power[n]
Arithmetic(a, n) == (Signed(a) \div Power[n]) % M      \* >> of an int32_t

\* The shifts test one bit of the amount, 0x20, and use those below it; slwx does not mask the
\* rest away, but the build's shift does.
Overlong(amount) == (amount \div W) % 2 = 1

\* A shift by all the bits, when the offset is 0, gives the word itself in the build.
RotateLeft(a, n) == Or(ShiftLeft(a, n % W), ShiftRight(a, (W - (n % W)) % W))

\* Mutant: a field that wraps around is its complement.
MaskUnwrapped(start, stop) ==
  Xor(ShiftRight(M - 1, start), IF stop < W - 1 THEN ShiftRight(M - 1, stop + 1) ELSE 0)

\* Bits are counted from the most significant here, and may wrap around.
Mask(start, stop) ==
  LET begin == ShiftRight(M - 1, start)
      end   == IF stop < W - 1 THEN ShiftRight(M - 1, stop + 1) ELSE 0
  IN IF stop < start THEN Not(Xor(begin, end)) ELSE Xor(begin, end)

Extend(a, bits) == LET low == a % Power[bits] IN (IF 2 * low >= Power[bits] THEN low - Power[bits] ELSE low) % M
High(imm)       == (imm * Power[W \div 2]) % M
LeadingZeros(a) == Cardinality({k \in 0..(W - 1) : \A j \in k..(W - 1) : j \notin Bit(a)})

Magnitude(n) == IF n < 0 THEN -n ELSE n

\* Mutant: rounding down.
QuotientDown(a, b) == IF b > 0 THEN a \div b ELSE (-a) \div (-b)

\* C's division, which rounds towards zero.
Quotient(a, b) ==
  LET q == Magnitude(a) \div Magnitude(b) IN IF (a < 0) = (b < 0) THEN q ELSE -q

-----------------------------------------------------------------------------
(* Arithmetic that sets the carry. *)

\* Mutant: the carry that comes in is left out when the next one is made.
CarryOfTwo(a, b, c) == Carry(a, b)

\* The carry of a sum with another carry.
CarryOfThree(a, b, c) == Carry(a, b) \/ Carry(Add(a, b), c)

CarryOut(i) == LET a == gpr[i.A]  b == gpr[i.B] IN
  CASE i.op = "addcx"   -> Carry(a, b)
    [] i.op = "addex"   -> CarryOfThree(a, b, ca)
    [] i.op = "addic"   -> Carry(a, i.imm % M)
    [] i.op = "addmex"  -> Carry(a, Sub(ca, 1))
    [] i.op = "addzex"  -> Carry(a, ca)
    [] i.op = "subfcx"  -> a = 0 \/ Carry(b, Sub(0, a))
    [] i.op = "subfex"  -> CarryOfThree(Not(a), b, ca)
    [] i.op = "subfic"  -> a = 0 \/ Carry(Sub(0, a), i.imm % M)
    [] i.op = "subfmex" -> Carry(Not(a), Sub(ca, 1))
    [] i.op = "subfzex" -> Carry(Not(a), ca)
    [] i.op = "srawix"  -> i.imm # 0 /\ Negative(a) /\ ShiftLeft(a, W - i.imm) # 0
    [] i.op = "srawx"   -> Negative(a) /\ (b % (2 * W) # 0)

Carrying == {"addcx", "addex", "addic", "addmex", "addzex", "subfcx", "subfex", "subfic", "subfmex",
             "subfzex", "srawix", "srawx"}

CarryResult(i) == LET a == gpr[i.A]  b == gpr[i.B] IN
  CASE i.op = "addcx"   -> Add(a, b)
    [] i.op = "addex"   -> Add(Add(a, b), ca)
    [] i.op = "addic"   -> Add(a, i.imm)
    [] i.op = "addmex"  -> Sub(Add(a, ca), 1)
    [] i.op = "addzex"  -> Add(a, ca)
    [] i.op = "subfcx"  -> Sub(b, a)
    [] i.op = "subfex"  -> Add(Add(Not(a), b), ca)
    [] i.op = "subfic"  -> Sub(i.imm, a)
    [] i.op = "subfmex" -> Sub(Add(Not(a), ca), 1)
    [] i.op = "subfzex" -> Add(Not(a), ca)
    [] i.op = "srawix"  -> Arithmetic(a, i.imm)
    [] i.op = "srawx"   -> Arithmetic(a, IF Overlong(b) THEN W ELSE b % W)

(* Arithmetic and logic that leaves the carry alone. *)

PlainOps ==
  {"addi", "addis", "addx", "subfx", "negx", "mulli", "mullwx", "mulhwux", "mulhwx", "divwux", "divwx",
   "andx", "andcx", "orx", "orcx", "xorx", "nandx", "norx", "eqvx", "andi_rc", "andis_rc", "ori",
   "oris", "xori", "xoris", "extsbx", "extshx", "cntlzwx", "slwx", "srwx", "rlwinmx", "rlwnmx",
   "rlwimix"}

Result(i) == LET a == gpr[i.A]  b == gpr[i.B] IN
  CASE i.op = "addi"    -> Add(IF i.A = 0 THEN 0 ELSE a, i.imm)
    [] i.op = "addis"   -> Add(IF i.A = 0 THEN 0 ELSE a, High(i.imm))
    [] i.op = "addx"    -> Add(a, b)
    [] i.op = "subfx"   -> Sub(b, a)
    [] i.op = "negx"    -> Add(Not(a), 1)
    [] i.op = "mulli"   -> (Signed(a) * i.imm) % M
    [] i.op = "mullwx"  -> (Signed(a) * Signed(b)) % M
    [] i.op = "mulhwux" -> (a * b) \div M
    [] i.op = "mulhwx"  -> ((Signed(a) * Signed(b)) \div M) % M
    [] i.op = "divwux"  -> IF b = 0 THEN 0 ELSE a \div b
    [] i.op = "divwx"   -> IF b = 0 THEN (IF Negative(a) THEN M - 1 ELSE 0)
                           ELSE IF Signed(a) = -(M \div 2) /\ b = M - 1 THEN 0
                           ELSE Quotient(Signed(a), Signed(b)) % M
    [] i.op = "andx"    -> And(a, b)
    [] i.op = "andcx"   -> And(a, Not(b))
    [] i.op = "orx"     -> Or(a, b)
    [] i.op = "orcx"    -> Or(a, Not(b))
    [] i.op = "xorx"    -> Xor(a, b)
    [] i.op = "nandx"   -> Not(And(a, b))
    [] i.op = "norx"    -> Not(Or(a, b))
    [] i.op = "eqvx"    -> Not(Xor(a, b))
    [] i.op = "andi_rc" -> And(a, i.imm)
    [] i.op = "andis_rc" -> And(a, High(i.imm))
    [] i.op = "ori"     -> Or(a, i.imm)
    [] i.op = "oris"    -> Or(a, High(i.imm))
    [] i.op = "xori"    -> Xor(a, i.imm)
    [] i.op = "xoris"   -> Xor(a, High(i.imm))
    [] i.op = "extsbx"  -> Extend(a, W \div 4)
    [] i.op = "extshx"  -> Extend(a, W \div 2)
    [] i.op = "cntlzwx" -> LeadingZeros(a)
    [] i.op = "slwx"    -> IF Overlong(b) THEN 0 ELSE ShiftLeft(a, b % W)
    [] i.op = "srwx"    -> IF Overlong(b) THEN 0 ELSE ShiftRight(a, b % W)
    [] i.op = "rlwinmx" -> And(RotateLeft(a, i.imm), Mask(i.MB, i.ME))
    [] i.op = "rlwnmx"  -> And(RotateLeft(a, b % W), Mask(i.MB, i.ME))
    [] i.op = "rlwimix" -> Or(And(gpr[i.D], Not(Mask(i.MB, i.ME))),
                              And(RotateLeft(a, i.imm), Mask(i.MB, i.ME)))

-----------------------------------------------------------------------------
(* The condition register. *)

CrOps == {"crand", "crandc", "creqv", "crnand", "crnor", "cror", "crorc", "crxor"}

UpdateCRx(x, value) ==
  [cr EXCEPT ![x] = (IF value = 0 THEN {"eq"} ELSE IF Negative(value) THEN {"lt"} ELSE {"gt"})
                    \cup (IF so THEN {"so"} ELSE {})]

Order(a, b) == IF a < b THEN {"lt"} ELSE IF a > b THEN {"gt"} ELSE {"eq"}

Compare(i) == LET a == gpr[i.A]  b == gpr[i.B] IN
  CASE i.op = "cmp"   -> [cr EXCEPT ![i.D] = Order(Signed(a), Signed(b))]
    [] i.op = "cmpl"  -> [cr EXCEPT ![i.D] = Order(a, b)]
    [] i.op = "cmpli" -> [cr EXCEPT ![i.D] = Order(a, i.imm) \cup (IF so THEN {"so"} ELSE {})]
    [] i.op = "cmpi"  -> UpdateCRx(i.D, Sub(a, i.imm))

\* TO: the relations, signed and then unsigned, that trap.
Traps(i) ==
  LET a == gpr[i.A]
      b == IF i.op = "twi" THEN i.imm % M ELSE gpr[i.B]
  IN \/ Signed(a) < Signed(b) /\ "lt" \in i.TO
     \/ Signed(a) > Signed(b) /\ "gt" \in i.TO
     \/ a = b /\ "eq" \in i.TO
     \/ a < b /\ "llt" \in i.TO
     \/ a > b /\ "lgt" \in i.TO

\* A bit is a field and a flag.
GetCRBit(bit) == bit[2] \in cr[bit[1]]
SetCRBit(bit, value) ==
  [cr EXCEPT ![bit[1]] = IF value THEN @ \cup {bit[2]} ELSE @ \ {bit[2]}]

CrLogic(i) == LET a == GetCRBit(i.A)  b == GetCRBit(i.B) IN
  CASE i.op = "crand"  -> a /\ b
    [] i.op = "crandc" -> a /\ ~b
    [] i.op = "creqv"  -> a <=> b
    [] i.op = "crnand" -> ~(a /\ b)
    [] i.op = "crnor"  -> ~(a \/ b)
    [] i.op = "cror"   -> a \/ b
    [] i.op = "crorc"  -> a \/ ~b
    [] i.op = "crxor"  -> a # b

\* Field 0 is in the most significant bits, and lt is the first bit of a field.
Position(bit) == W - 1 - (4 * bit[1] + (CASE bit[2] = "lt" -> 0 [] bit[2] = "gt" -> 1
                                          [] bit[2] = "eq" -> 2 [] bit[2] = "so" -> 3))
GetCR == Word({Position(bit) : bit \in {b \in CR \X Flag : GetCRBit(b)}})
SetCR(fields, value) ==
  [f \in CR |-> IF f \in fields THEN {g \in Flag : Position(<<f, g>>) \in Bit(value)} ELSE cr[f]]

\* Mutant: the fields of the mask are numbered as the condition register's.
MaskedFieldsDirect(CRM) == {f \in CR : f \in CRM}

\* Bit k of the mask is for the k-th field from the least significant end.
MaskedFields(CRM) == {Cardinality(CR) - 1 - k : k \in CRM}

-----------------------------------------------------------------------------
(* The instructions, in families that end alike. *)

\* The forms that note an overflow are not implemented: they throw, once the result is there or,
\* for a quotient there is none of, before.
Divisions == {"divwux", "divwx"}
NoQuotient(i) ==
  \/ gpr[i.B] = 0
  \/ i.op = "divwx" /\ 2 * gpr[i.A] = M /\ gpr[i.B] = M - 1

Write(i, value) ==
  /\ gpr' = IF i.OE /\ i.op \in Divisions /\ NoQuotient(i) THEN gpr ELSE [gpr EXCEPT ![i.D] = value]
  /\ halt' = IF /\ i.OE
                /\ i.op = "negx" => 2 * value = M
                /\ i.op \in Divisions => NoQuotient(i)
             THEN "Panic" ELSE "no"
  /\ cr' = IF i.Rc /\ halt' = "no" THEN UpdateCRx(0, value) ELSE cr

ExecuteCarrying(i) ==
  /\ i.op \in Carrying
  /\ Write(i, CarryResult(i))
  /\ ca' = Flagged(CarryOut(i))

ExecutePlainResult(i) ==
  /\ i.op \in PlainOps
  /\ Write(i, Result(i))
  /\ UNCHANGED ca

ExecuteCompare(i) ==
  /\ i.op \in {"cmp", "cmpl", "cmpli", "cmpi"}
  /\ IF so /\ i.op \in {"cmp", "cmpl"}
     THEN halt' = "Panic" /\ UNCHANGED cr
     ELSE cr' = Compare(i) /\ UNCHANGED halt
  /\ UNCHANGED <<gpr, ca>>

ExecuteTrap(i) ==
  /\ i.op \in {"tw", "twi"}
  /\ halt' = IF Traps(i) THEN "TrapException" ELSE "no"
  /\ UNCHANGED <<gpr, ca, cr>>

ExecuteCR(i) ==
  /\ \/ /\ i.op \in CrOps
        /\ cr' = SetCRBit(i.D, CrLogic(i))
        /\ UNCHANGED gpr
     \/ /\ i.op = "mcrf"
        /\ cr' = [cr EXCEPT ![i.D] = cr[i.A]]
        /\ UNCHANGED gpr
     \/ /\ i.op = "mfcr"
        /\ gpr' = [gpr EXCEPT ![i.D] = GetCR]
        /\ UNCHANGED cr
     \/ /\ i.op = "mtcrf"
        /\ cr' = SetCR(MaskedFields(i.CRM), gpr[i.A])
        /\ UNCHANGED gpr
  /\ UNCHANGED <<ca, halt>>

ExecuteFixedPoint(i) ==
  /\ \/ ExecuteCarrying(i) \/ ExecutePlainResult(i) \/ ExecuteCompare(i)
     \/ ExecuteTrap(i) \/ ExecuteCR(i)
  /\ UNCHANGED so
=============================================================================
