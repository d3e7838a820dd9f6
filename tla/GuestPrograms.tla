--------------------------- MODULE GuestPrograms ---------------------------
(***************************************************************************)
(* Guest programs for FixedPoint and LoadStore: the instruction sequences  *)
(* compilers emit for what no single instruction does, and what must come  *)
(* out of them.  Those that compute have their operands in r1 to r4; those *)
(* that use memory have addresses in r1 and r2, and data from r3 on.       *)
(* A property speaks of a program's end.                                   *)
(***************************************************************************)
EXTENDS LoadStore

CONSTANTS Sample,  \* operands
          Data,    \* the same, for the programs that use memory
          Amount,  \* shift amounts of the double-word shift
          Field,   \* <<SH, MB, ME>> of the rotate-and-mask instructions
          Source, Destination,  \* addresses in allocated ranges
          Edge     \* addresses at the ends of allocated ranges

ASSUME GuestProgramsAssumption ==
  /\ N >= 8
  /\ {0, 1} \subseteq CR
  /\ Sample \subseteq Reg /\ Data \subseteq Reg /\ Amount \subseteq Reg
  /\ {Source, Destination} \cup Edge \subseteq Reg

\* A double word is shifted by less than its length, and a field's places are the word's.
ASSUME OperandAssumption ==
  /\ Amount \subseteq 0..(2 * W - 1)
  /\ Field \subseteq (0..(W - 1)) \X (0..(W - 1)) \X (0..(W - 1))

\* Two buffers, each as long as all registers, that do not overlap.
ASSUME BufferAssumption ==
  /\ Source + 4 * N <= M /\ Destination + 4 * N <= M
  /\ Source + 4 * N <= Destination \/ Destination + 4 * N <= Source

\* Instructions, in the assembler's order of operands.
Op(op, d, a, b) == [op |-> op, D |-> d, A |-> a, B |-> b, imm |-> 0, OE |-> FALSE, Rc |-> FALSE]
Imm(op, d, a, n) == [Op(op, d, a, a) EXCEPT !.imm = n]
Recording(i) == [i EXCEPT !.Rc = TRUE]
Checking(i) == [i EXCEPT !.OE = TRUE]
Rotate(op, d, a, f) == [op |-> op, D |-> d, A |-> a, imm |-> f[1], MB |-> f[2], ME |-> f[3],
                        B |-> a, OE |-> FALSE, Rc |-> FALSE]
Trap(op, a, b, TO) == [op |-> op, A |-> a, B |-> b, TO |-> TO]
RestoreFields(a, CRM) == [op |-> "mtcrf", A |-> a, CRM |-> CRM]
Mem(op, mode, d, a, n) == [op |-> op, mode |-> mode, D |-> d, A |-> a, B |-> 0, imm |-> n, n |-> n]

WideCode ==
  [add |-> << Op("addcx", 2, 2, 4), Op("addex", 1, 1, 3) >>,
   sub |-> << Op("subfcx", 2, 4, 2), Op("subfex", 1, 3, 1) >>,
   neg |-> << Imm("subfic", 2, 2, 0), Op("subfzex", 1, 1, 1) >>,
   inc |-> << Imm("addic", 2, 2, 1), Op("addzex", 1, 1, 1) >>,
   dec |-> << Imm("addic", 2, 2, -1), Op("addmex", 1, 1, 1) >>,
   not |-> << Imm("subfic", 2, 2, -1), Op("subfmex", 1, 1, 1) >>]

ShiftCode ==
  << Imm("subfic", 5, 4, W), Imm("addi", 6, 4, -W), Op("slwx", 1, 1, 4), Op("srwx", 5, 2, 5),
     Op("orx", 1, 1, 5), Op("slwx", 5, 2, 6), Op("orx", 1, 1, 5), Op("slwx", 2, 2, 4) >>

OneCode ==
  [normalize |-> << Op("cntlzwx", 5, 1, 1), Op("slwx", 2, 1, 5), Op("srwx", 3, 2, 5) >>,
   abs       |-> << Imm("srawix", 5, 1, W - 1), Op("xorx", 2, 1, 5), Op("subfx", 2, 5, 2) >>,
   product   |-> << Op("mullwx", 5, 1, 2), Op("mulhwux", 6, 1, 2), Op("mulhwx", 3, 1, 2) >>,
   udivide   |-> << Op("divwux", 5, 1, 2), Op("mullwx", 6, 5, 2), Op("subfx", 6, 6, 1) >>,
   sdivide   |-> << Op("divwx", 5, 1, 2), Op("mullwx", 6, 5, 2), Op("subfx", 6, 6, 1) >>]

LogicCode ==
  << Op("andx", 3, 1, 2), Op("orx", 4, 1, 2), Op("addx", 5, 3, 4), Op("xorx", 6, 1, 2),
     Op("addx", 6, 6, 3), Op("subfx", 6, 6, 4), Op("nandx", 3, 1, 2), Op("norx", 4, 1, 2),
     Recording(Op("eqvx", 2, 1, 2)), Op("andcx", 3, 3, 4), Op("orcx", 3, 3, 3) >>

CompareCode(TO) ==
  << Op("cmp", 0, 1, 2), Op("cmpl", 1, 1, 2), Op("cror", <<1, "so">>, <<0, "gt">>, <<0, "eq">>),
     Trap("tw", 1, 2, TO) >>

KeepCode(CRM) ==
  << Op("cmp", 0, 1, 2), Op("cmpl", 1, 1, 2), Op("mfcr", 5, 0, 0), Op("mcrf", 1, 0, 0),
     Imm("cmpli", 0, 1, 3), RestoreFields(5, CRM) >>

\* A word comes back by bytes, halves, reversed, by update forms, through a double.
BytesCode ==
  << Mem("stw", "", 3, 2, 0), Mem("lbz", "u", 4, 2, 1), Mem("lbz", "", 5, 2, 0),
     Mem("lhz", "", 6, 2, 1), Mem("lwbr", "x", 7, 2, 0) >>
HalvesCode ==
  << Mem("sthbr", "x", 3, 2, 0), Mem("lha", "", 4, 2, 0), Mem("lhbr", "x", 5, 2, 0),
     Mem("sth", "", 3, 2, 0), Mem("lha", "", 6, 2, 0), Mem("stwbr", "x", 3, 1, 0),
     Mem("lwz", "", 7, 1, 0) >>
FloatCode ==
  << Mem("lfd", "", 0, 1, 0), Mem("stfd", "", 0, 2, 0), Mem("lfs", "", 1, 1, 0),
     Mem("stfs", "", 1, 2, 8), Mem("stfiw", "x", 0, 2, 0), Mem("stb", "u", 3, 1, 7) >>
SaveCode ==
  << Mem("stmw", "", 4, 2, 0), Mem("lwar", "x", 5, 1, 0), Mem("stwcxd", "x", 4, 1, 0),
     Mem("lwz", "", 7, 1, 0), Mem("lmw", "", 4, 2, 0) >>
MoveCode(n) == << Mem("lswi", "", 3, 1, n), Mem("stswi", "", 3, 2, n) >>
MoveIndexedCode == << Mem("lswx", "x", 3, 1, 0), Mem("stswx", "x", 3, 2, 0) >>

MovingCode == [bytes |-> BytesCode, halves |-> HalvesCode, float |-> FloatCode, save |-> SaveCode]

\* One access each, of every size, in every mode.
OneAccess(op, md, d, n) == << Mem(op, md, d, 2, n) >>
AddressModes == {"", "u", "x", "ux"}
FloatAccess == {"lfs", "lfd", "stfs", "stfd"}
FloatModes == {"", "ux"}
IntegerAccess == DOMAIN AccessSize \ (FloatAccess \cup {"stfiw", "lswx", "stswx", "stmw"})
IntegerEdges == {OneAccess(op, md, 3, 1) : op \in IntegerAccess, md \in AddressModes}
FloatEdges == {OneAccess(op, md, 1, 1) : op \in FloatAccess, md \in FloatModes}
MultipleEdges == {OneAccess(op, "", r, 0) : op \in {"lmw", "stmw"}, r \in {4, 7}}
StringEdges == {OneAccess("stswx", "x", 3, 0)}
EdgeCode == IntegerEdges \cup FloatEdges \cup MultipleEdges \cup StringEdges

Prog(name, args, instructions) ==
  [name |-> name, gpr |-> [r \in GPR |-> IF r \in DOMAIN args THEN args[r] ELSE 0],
   so |-> FALSE, code |-> instructions, extra |-> 0, memory |-> <<>>, byteCount |-> 0]

Pattern == [a \in MemoryAddress |-> (a * a + a \div 3) % B]
MemProg(name, d, a, instructions) ==
  [Prog(name, [r \in GPR |-> CASE r = 0 -> 0 [] r = 1 -> Source [] r = 2 -> a
                                [] OTHER -> (d + r - 3) % M], instructions)
     EXCEPT !.memory = Pattern]

\* A program of each kind, and the programs of that kind.
WideProgram(n, a, b, c, d) == Prog(n, <<a, b, c, d>>, WideCode[n])
WidePrograms ==
  {WideProgram(n, a, b, c, d) : n \in {"add", "sub"}, a, b, c, d \in Sample}
  \cup {WideProgram(n, a, b, 0, 0) : n \in {"neg", "inc", "dec", "not"}, a, b \in Sample}

ShiftProgram(n, a, b) == Prog("shift", <<a, b, 0, n>>, ShiftCode)
HalveProgram(n, a) ==
  [Prog("halve", <<a>>, << Imm("srawix", 2, 1, n), Op("addzex", 2, 2, 2) >>) EXCEPT !.extra = n]
ShiftPrograms == {ShiftProgram(n, a, b) : n \in Amount, a, b \in Sample}
                 \cup {HalveProgram(n, a) : n \in 0..(W - 1), a \in Sample}

OneProgram(n, a, b) == Prog(n, <<a, b>>, OneCode[n])
OnePrograms == {OneProgram(n, a, b) : n \in DOMAIN OneCode, a, b \in Sample}

FieldProgram(f, a, b) ==
  [Prog("field", <<a, b>>, << Rotate("rlwimix", 1, 2, f), Rotate("rlwinmx", 3, 2, f) >>)
     EXCEPT !.extra = f]
LogicProgram(a, b) == Prog("logic", <<a, b>>, LogicCode)
ConstantProgram(n, k) ==
  [Prog("constant", <<>>, << Imm("addis", 1, 0, n), Imm("ori", 1, 1, k),
                             Recording(Imm("andi_rc", 2, 1, Power[W \div 2] - 1)),
                             Imm("xori", 3, 1, k), Imm("extshx", 4, 2, 0),
                             Checking(Op("negx", 5, 1, 1)) >>)
     EXCEPT !.extra = <<n, k>>]
FieldPrograms == {FieldProgram(f, a, b) : f \in Field, a, b \in Sample}
                 \cup {LogicProgram(a, b) : a, b \in Sample}
                 \cup {ConstantProgram(n, k) : n \in -2..1, k \in {0, 1, 2, 3}}

TrapConditions == {{}, {"lt", "eq"}, {"gt"}, {"llt"}, {"lgt"}}
CompareProgram(TO, summary, a, b) ==
  [Prog("compare", <<a, b>>, CompareCode(TO)) EXCEPT !.extra = TO, !.so = summary]
ImmediateProgram(n, a) ==
  [Prog("cmpi", <<a>>, << Imm("cmpi", 0, 1, n), Imm("cmpli", 1, 1, n) >>) EXCEPT !.extra = n]
\* mtcrf's mask begins with the bit for field 0.
MaskBit(f) == W \div 4 - 1 - f
KeepProgram(CRM, a, b) == [Prog("keep", <<a, b>>, KeepCode(CRM)) EXCEPT !.extra = CRM]
ComparePrograms ==
  {CompareProgram(TO, summary, a, b) : TO \in TrapConditions, summary \in BOOLEAN, a, b \in Sample}
  \cup {ImmediateProgram(n, a) : n \in {0, 1, 3, 7}, a \in Sample}
  \cup {KeepProgram(CRM, a, b) : CRM \in SUBSET {MaskBit(0), MaskBit(1)}, a, b \in Sample}

MovingProgram(n, d) == MemProg(n, d, Destination, MovingCode[n])
StringProgram(n, instructions) ==
  [MemProg("move", 0, Destination, instructions) EXCEPT !.byteCount = n]
EdgeProgram(d, a, instructions) ==
  [MemProg("edge", d, a, instructions) EXCEPT !.byteCount = 8]
MemoryPrograms ==
  {MovingProgram(n, d) : n \in DOMAIN MovingCode, d \in Data}
  \cup {StringProgram(n, MoveCode(n)) : n \in 1..16}
  \cup {StringProgram(n, MoveIndexedCode) : n \in 0..16}
  \cup {EdgeProgram(d, a, c) : d \in Data, a \in Edge \cup {0}, c \in EdgeCode}

Programs == WidePrograms \cup ShiftPrograms \cup OnePrograms \cup FieldPrograms
            \cup ComparePrograms \cup MemoryPrograms

Ends(names) == code = <<>> /\ halt = "no" /\ initial.name \in names

Old(r) == initial.gpr[r]
Wide(f, h, l) == f[h] * M + f[l]

\* Chains of carrying instructions compute on two words what arithmetic modulo the square of M
\* does, and a sum or a difference leaves the carry out of its high word for the next chain.
MultiwordArithmeticIsExact ==
  Ends(DOMAIN WideCode) =>
    LET x == Wide(initial.gpr, 1, 2)
        y == Wide(initial.gpr, 3, 4)
        value == CASE initial.name = "add" -> x + y
                   [] initial.name = "sub" -> x - y
                   [] initial.name = "neg" -> -x
                   [] initial.name = "inc" -> x + 1
                   [] initial.name = "dec" -> x - 1
                   [] initial.name = "not" -> -1 - x
    IN /\ Wide(gpr, 1, 2) = value % (M * M)
       /\ initial.name \in {"add", "inc"} => ca = value \div (M * M)
       /\ initial.name \in {"sub", "neg"} => ca = Flagged(value >= 0)

\* Shifts by amounts beyond the word, as compilers combine them for a double word; a shift that
\* feeds its carry to addze divides; counted zeros normalise a word.
ShiftsCompose ==
  /\ Ends({"shift"}) => Wide(gpr, 1, 2) = (Wide(initial.gpr, 1, 2) * Power[Old(4)]) % (M * M)
  /\ Ends({"halve"}) => Signed(gpr[2]) = Quotient(Signed(Old(1)), Power[initial.extra])
  /\ Ends({"normalize"}) => gpr[3] = Old(1) /\ (Old(1) # 0 => Negative(gpr[2]))
  /\ Ends({"abs"}) => gpr[2] = Magnitude(Signed(Old(1)))

\* High and low product make up the whole product, and a quotient leaves a remainder that is
\* smaller than the divisor and has the dividend's sign.
ProductsAndQuotientsAgree ==
  LET a == Signed(Old(1))  b == Signed(Old(2))  q == Signed(gpr[5])  r == Signed(gpr[6]) IN
  /\ Ends({"product"}) => /\ Wide(gpr, 6, 5) = Old(1) * Old(2)
                          /\ Signed(gpr[3]) * M + gpr[5] = a * b
  /\ Ends({"udivide"}) /\ b # 0 => /\ Old(1) = gpr[5] * Old(2) + gpr[6]
                                   /\ gpr[6] < Old(2)
  /\ Ends({"sdivide"}) /\ b # 0 /\ ~(Old(1) = M \div 2 /\ b = -1) =>
       /\ a = q * b + r
       /\ Magnitude(r) < Magnitude(b)
       /\ r # 0 => (r < 0 <=> a < 0)

\* Bits are counted from the most significant one.
BitAt(x, p) == (W - 1 - p) \in Bit(x)
Between(p, mb, me) == IF mb <= me THEN mb <= p /\ p <= me ELSE p >= mb \/ p <= me

\* Rotate-and-mask moves exactly the bits of its field, which may wrap around, and the other
\* logical instructions satisfy the laws that relate them to sums.
FieldsMoveIntact ==
  /\ Ends({"field"}) =>
       LET sh == initial.extra[1]  mb == initial.extra[2]  me == initial.extra[3] IN
       \A p \in 0..(W - 1) :
         LET moved == BitAt(Old(2), (p + sh) % W)  inside == Between(p, mb, me) IN
         /\ BitAt(gpr[1], p) = IF inside THEN moved ELSE BitAt(Old(1), p)
         /\ BitAt(gpr[3], p) = (inside /\ moved)
  /\ Ends({"logic"}) =>
       /\ gpr[5] = Add(Old(1), Old(2))
       /\ gpr[6] = 0
       /\ gpr[2] = M - 1 <=> Old(1) = Old(2)
       /\ gpr[2] = 0 <=> "eq" \in cr[0]
       /\ gpr[3] = M - 1
  /\ Ends({"constant"}) =>
       /\ gpr[1] = (initial.extra[1] * Power[W \div 2] + initial.extra[2]) % M
       /\ gpr[3] = Add(gpr[1], Not(initial.extra[2]) + 1)
       /\ gpr[2] = initial.extra[2]
       /\ Add(gpr[1], gpr[5]) = 0

\* No shift, rotation or mask loses, duplicates or invents a bit.
BitsMoveIntact == ShiftsCompose /\ FieldsMoveIntact

\* Does an order of two words hold, as tw names it?
Holds(rel, a, b) ==
  CASE rel = "lt"  -> Signed(a) < Signed(b)
    [] rel = "gt"  -> Signed(a) > Signed(b)
    [] rel = "eq"  -> a = b
    [] rel = "llt" -> a < b
    [] rel = "lgt" -> a > b

\* Comparisons, conditional traps and what is computed from condition bits agree on the order of
\* two words; saving and restoring the condition register, whole or by fields, loses nothing.
\* cmpi goes by the sign of the difference: it is right while that fits.
\* With the summary overflow set, cmp and cmpl throw, and no program gets to its trap.
ComparisonsAgree ==
  /\ initial.name = "compare" /\ code = <<>> =>
       halt = "TrapException" <=> \E rel \in initial.extra : Holds(rel, Old(1), Old(2))
  /\ Ends({"compare"}) =>
       /\ GetCRBit(<<1, "so">>) <=> Holds("gt", Old(1), Old(2)) \/ Old(1) = Old(2)
       /\ GetCRBit(<<1, "lt">>) <=> Holds("llt", Old(1), Old(2))
  /\ Ends({"keep"}) =>
       /\ cr[0] = IF MaskBit(0) \in initial.extra THEN Order(Signed(Old(1)), Signed(Old(2)))
                  ELSE Order(Old(1), 3)
       /\ cr[1] = IF MaskBit(1) \in initial.extra THEN Order(Old(1), Old(2))
                  ELSE Order(Signed(Old(1)), Signed(Old(2)))
  /\ Ends({"cmpi"}) =>
       /\ cr[1] = Order(Old(1), initial.extra)
       /\ LET difference == Signed(Old(1)) - initial.extra IN
            difference \in -(M \div 2)..(M \div 2 - 1) =>
              cr[0] = Order(Signed(Old(1)), initial.extra)

\* What was stored in one size or byte order is what a load of another size, byte order or
\* addressing mode makes of those very bytes; registers saved by stmw come back by lmw whatever
\* happened to them; a string moved through registers arrives whole, and nothing around it changes.
MemoryKeepsWhatIsStored ==
  /\ Ends({"bytes"}) =>
       LET w == Bytes(Old(3)) IN
       /\ gpr[2] = Destination + 1
       /\ gpr[4] = w[2] /\ gpr[5] = w[2]
       /\ gpr[6] = w[3] * B + w[4]
       /\ gpr[7] = ((memory[Destination + 4] * B + w[4]) * B + w[3]) * B + w[2]
  /\ Ends({"halves"}) =>
       LET half == Old(3) % (B * B)
           signed(h) == IF 2 * h >= B * B THEN (h - B * B) % M ELSE h
       IN /\ gpr[4] = signed((half % B) * B + half \div B)
          /\ gpr[5] = half
          /\ gpr[6] = signed(half)
          /\ Bytes(gpr[7]) = Reversed(Bytes(Old(3)))
  /\ Ends({"save"}) => \A r \in GPR : gpr[r] = Old(r)
  /\ Ends({"move"}) =>
       \A a \in MemoryAddress :
         memory[a] = IF a \in Destination..(Destination + initial.byteCount - 1)
                     THEN Pattern[Source + (a - Destination)] ELSE Pattern[a]
  /\ Ends({"float"}) =>
       \A k \in 0..11 :
         memory[Destination + k] = Pattern[Source + (IF k < 4 THEN k + 4 ELSE IF k < 8 THEN k ELSE k - 8)]

\* The bytes a store writes.  Of stmw and stswx only the first word or byte is checked.
StoreSize(i) ==
  CASE i.op = "stmw"  -> 4 * (N - i.D)
    [] i.op = "stswx" -> byteCount
    [] OTHER          -> AccessSize[i.op]

\* x is one of them, the first is allocated, and so is the last one that is checked.
Strayed(i, x) ==
  \E first \in Allocated, k \in 1..(StoreSize(i) - 1) :
    /\ x = Offset(first, k)
    /\ Offset(first, AccessSize[i.op] - 1) \in Allocated

\* What looking at the two ends of an access leaves possible, wherever allocations lie: a store
\* changes a byte outside of them only in a hole between two, narrower than the access; or, stmw
\* and stswx, behind an allocated word or byte, by no more than they write.  Only stswi, of which
\* nothing is checked, can change any byte.
StraysAreNear ==
  [][\A x \in DOMAIN memory \ Allocated : memory'[x] # memory[x] =>
       Head(code).op = "stswi" \/ Strayed(Head(code), x)]_machineVars
=============================================================================
