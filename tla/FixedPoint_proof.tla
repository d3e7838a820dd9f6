-------------------------- MODULE FixedPoint_proof -------------------------
(***************************************************************************)
(* Proofs about FixedPoint: what its instructions make of words of any     *)
(* width, and what the guest programs that compute make of them.           *)
(*                                                                         *)
(* A straight-line program is proved by what is left of it: an invariant   *)
(* has one disjunct for each instruction that may come next.  What moves   *)
(* bits is described by what becomes of each digit, and two words with the *)
(* same digits are the same.                                               *)
(***************************************************************************)
EXTENDS Processor, FiniteSetTheorems, SequenceTheorems, WellFoundedInduction, TLAPS

-----------------------------------------------------------------------------
(* Numbers *)

\* A quotient and a remainder are what they are known to be.
LEMMA DivMod ==
  ASSUME NEW m \in Nat, m > 0, NEW q \in Int, NEW r \in Int, 0 <= r, r < m
  PROVE (q * m + r) % m = r /\ (q * m + r) \div m = q
OBVIOUS

\* A set of numbers has a least one.
LEMMA Least ==
  ASSUME NEW T, T \subseteq Nat, T # {}
  PROVE  \E x \in T : \A y \in T : x <= y
<1> DEFINE R == OpToRel(<, Nat)
<1>1. \E x \in T : \A y \in T : ~(<<y, x>> \in R)
  <2> HIDE DEF R
  <2>1. IsWellFoundedOn(R, Nat)
    BY NatLessThanWellFounded DEF R
  <2> QED BY <2>1, WFMin, Zenon
<1>2. \A x, y \in Nat : y < x => <<y, x>> \in R
  BY DEF OpToRel
<1> HIDE DEF R
<1>3. PICK x \in T : \A y \in T : ~(<<y, x>> \in R)
  BY <1>1
<1>4. \A y \in T : ~(y < x)
  BY <1>2, <1>3
<1> QED BY <1>3, <1>4

\* Induction, on a set.
LEMMA Induction ==
  ASSUME NEW T, 0 \in T, \A n \in Nat : n \in T => n + 1 \in T
  PROVE  Nat \subseteq T
<1> SUFFICES ASSUME ~(Nat \subseteq T) PROVE FALSE
  OBVIOUS
<1>1. PICK x \in Nat \ T : \A y \in Nat \ T : x <= y
  BY Least
<1>2. x - 1 \in Nat /\ ~(x <= x - 1)
  BY <1>1
<1>3. x - 1 \in T
  BY <1>1, <1>2
<1> QED BY <1>1, <1>2, <1>3

\* Power is the function its equation describes.
PowersTo(f, n) == f = [k \in 0..n |-> IF k = 0 THEN 1 ELSE 2 * f[k - 1]]

LEMMA PowerExists ==
  ASSUME NEW n \in Nat
  PROVE  \E f : PowersTo(f, n)
<1> DEFINE T == {m \in Nat : \E f : PowersTo(f, m)}
<1>1. 0 \in T
  <2> DEFINE f == [k \in 0..0 |-> 1]
  <2>1. PowersTo(f, 0)
    BY DEF PowersTo
  <2> QED BY <2>1
<1>2. ASSUME NEW m \in Nat, m \in T PROVE m + 1 \in T
  <2>1. PICK f : PowersTo(f, m)
    BY <1>2
  <2> DEFINE g == [k \in 0..(m + 1) |-> IF k = m + 1 THEN 2 * f[m] ELSE f[k]]
  <2>2. ASSUME NEW k \in 0..(m + 1)
        PROVE  g[k] = IF k = 0 THEN 1 ELSE 2 * g[k - 1]
    <3>1. CASE k = m + 1
      BY <3>1
    <3>2. CASE k = 0
      BY <2>1, <3>2 DEF PowersTo
    <3>3. CASE k \in 1..m
      <4>1. f[k] = 2 * f[k - 1] /\ k - 1 \in 0..(m + 1) /\ k - 1 # m + 1
        BY <2>1, <3>3 DEF PowersTo
      <4> QED BY <3>3, <4>1
    <3> QED BY <3>1, <3>2, <3>3
  <2>3. PowersTo(g, m + 1)
    BY <2>2 DEF PowersTo
  <2> HIDE DEF g
  <2> QED BY <2>3
<1> HIDE DEF T
<1>3. Nat \subseteq T
  BY <1>1, <1>2, Induction
<1> QED BY <1>3 DEF T

LEMMA Powers ==
  /\ Power[0] = 1
  /\ \A k \in 0..(2 * W) : Power[k] \in Nat \ {0}
  /\ \A k \in 0..(2 * W) : k # 0 => Power[k] = 2 * Power[k - 1]
<1>1. W \in Nat /\ 2 * W \in Nat
  BY WidthAssumption
<1>2. Power = [k \in 0..(2 * W) |-> IF k = 0 THEN 1 ELSE 2 * Power[k - 1]]
  BY <1>1, PowerExists DEF Power, PowersTo
<1>3. \A k \in 0..(2 * W) : Power[k] = IF k = 0 THEN 1 ELSE 2 * Power[k - 1]
  BY <1>2
<1>4. Power[0] = 1
  BY <1>1, <1>3
<1> DEFINE T == {k \in Nat : k \in 0..(2 * W) => Power[k] \in Nat \ {0}}
<1>5. 0 \in T
  BY <1>4
<1>6. ASSUME NEW k \in Nat, k \in T PROVE k + 1 \in T
  <2> SUFFICES ASSUME k + 1 \in 0..(2 * W) PROVE Power[k + 1] \in Nat \ {0}
    OBVIOUS
  <2>1. k \in 0..(2 * W)
    BY <1>1
  <2>2. Power[k + 1] = 2 * Power[k]
    BY <1>3
  <2> QED BY <1>6, <2>1, <2>2
<1> HIDE DEF T
<1>7. Nat \subseteq T
  BY <1>5, <1>6, Induction
<1> QED BY <1>1, <1>3, <1>4, <1>7 DEF T

-----------------------------------------------------------------------------
(* Instructions and programs *)

LEMMA CarryStep ==
  ASSUME NEW i, i.op \in Carrying, i.OE = FALSE, i.Rc = FALSE, Execute(i)
  PROVE  /\ gpr' = [gpr EXCEPT ![i.D] = CarryResult(i)]
         /\ ca' = Flagged(CarryOut(i))
         /\ halt' = "no"
         /\ UNCHANGED <<cr, so, storeVars>>
<1>1. i.op \notin MemoryOps
  BY DEF Carrying, MemoryOps, AccessSize, Unchecked
<1>2. ExecuteFixedPoint(i) /\ UNCHANGED storeVars
  BY <1>1 DEF Execute
<1>3. ExecuteCarrying(i)
  BY <1>2 DEF ExecuteFixedPoint, ExecutePlainResult, ExecuteCompare, ExecuteTrap, ExecuteCR,
     CrOps, PlainOps, Carrying
<1> QED BY <1>2, <1>3 DEF ExecuteCarrying, Write, ExecuteFixedPoint

LEMMA PlainStep ==
  ASSUME NEW i, i.op \in PlainOps, i.OE = FALSE, i.Rc = FALSE, Execute(i)
  PROVE  /\ gpr' = [gpr EXCEPT ![i.D] = Result(i)]
         /\ halt' = "no"
         /\ UNCHANGED <<ca, cr, so, storeVars>>
<1>1. i.op \notin MemoryOps
  BY DEF PlainOps, MemoryOps, AccessSize, Unchecked
<1>2. ExecuteFixedPoint(i) /\ UNCHANGED storeVars
  BY <1>1 DEF Execute
<1>3. ExecutePlainResult(i)
  BY <1>2 DEF ExecuteFixedPoint, ExecuteCarrying, ExecuteCompare, ExecuteTrap, ExecuteCR,
     CrOps, PlainOps, Carrying
<1> QED BY <1>2, <1>3 DEF ExecutePlainResult, Write, ExecuteFixedPoint

\* What a program is called, by its kind.
LEMMA ProgramNames ==
  /\ Idle.name = "none"
  /\ \A n, a, b, c, d : WideProgram(n, a, b, c, d).name = n
  /\ \A n, a, b : ShiftProgram(n, a, b).name = "shift"
  /\ \A n, a : HalveProgram(n, a).name = "halve"
  /\ \A n, a, b : OneProgram(n, a, b).name = n
  /\ \A f, a, b : FieldProgram(f, a, b).name = "field"
  /\ \A a, b : LogicProgram(a, b).name = "logic"
  /\ \A n, k : ConstantProgram(n, k).name = "constant"
  /\ \A TO, summary, a, b : CompareProgram(TO, summary, a, b).name = "compare"
  /\ \A n, a : ImmediateProgram(n, a).name = "cmpi"
  /\ \A CRM, a, b : KeepProgram(CRM, a, b).name = "keep"
  /\ \A n, d : MovingProgram(n, d).name = n
  /\ \A n, c : StringProgram(n, c).name = "move"
  /\ \A d, a, c : EdgeProgram(d, a, c).name = "edge"
BY DEF Idle, WideProgram, ShiftProgram, HalveProgram, OneProgram, FieldProgram, LogicProgram,
   ConstantProgram, CompareProgram, ImmediateProgram, KeepProgram, MovingProgram, StringProgram,
   EdgeProgram, Prog, MemProg

\* The programs of each kind.
LEMMA ProgramForms ==
  ASSUME NEW p
  PROVE  /\ p \in WidePrograms =>
              \/ \E n \in {"add", "sub"}, a, b, c, d \in Sample : p = WideProgram(n, a, b, c, d)
              \/ \E n \in {"neg", "inc", "dec", "not"}, a, b \in Sample : p = WideProgram(n, a, b, 0, 0)
         /\ p \in ShiftPrograms =>
              \/ \E n \in Amount, a, b \in Sample : p = ShiftProgram(n, a, b)
              \/ \E n \in 0..(W - 1), a \in Sample : p = HalveProgram(n, a)
         /\ p \in OnePrograms =>
              \E n \in DOMAIN OneCode, a, b \in Sample : p = OneProgram(n, a, b)
         /\ p \in FieldPrograms =>
              \/ \E f \in Field, a, b \in Sample : p = FieldProgram(f, a, b)
              \/ \E a, b \in Sample : p = LogicProgram(a, b)
              \/ \E n \in -2..1, k \in {0, 1, 2, 3} : p = ConstantProgram(n, k)
         /\ p \in ComparePrograms =>
              \/ \E TO \in TrapConditions, summary \in BOOLEAN, a, b \in Sample :
                    p = CompareProgram(TO, summary, a, b)
              \/ \E n \in {0, 1, 3, 7}, a \in Sample : p = ImmediateProgram(n, a)
              \/ \E CRM \in SUBSET {MaskBit(0), MaskBit(1)}, a, b \in Sample : p = KeepProgram(CRM, a, b)
         /\ p \in MemoryPrograms =>
              \/ \E n \in DOMAIN MovingCode, d \in Data : p = MovingProgram(n, d)
              \/ \E n \in 1..16 : p = StringProgram(n, MoveCode(n))
              \/ \E n \in 0..16 : p = StringProgram(n, MoveIndexedCode)
              \/ \E d \in Data, a \in Edge \cup {0}, c \in EdgeCode : p = EdgeProgram(d, a, c)
<1>1. p \in WidePrograms =>
        \/ \E n \in {"add", "sub"}, a, b, c, d \in Sample : p = WideProgram(n, a, b, c, d)
        \/ \E n \in {"neg", "inc", "dec", "not"}, a, b \in Sample : p = WideProgram(n, a, b, 0, 0)
  BY DEF WidePrograms
<1>2. p \in ShiftPrograms =>
        \/ \E n \in Amount, a, b \in Sample : p = ShiftProgram(n, a, b)
        \/ \E n \in 0..(W - 1), a \in Sample : p = HalveProgram(n, a)
  BY DEF ShiftPrograms
<1>3. p \in OnePrograms => \E n \in DOMAIN OneCode, a, b \in Sample : p = OneProgram(n, a, b)
  BY DEF OnePrograms
<1>4. p \in FieldPrograms =>
        \/ \E f \in Field, a, b \in Sample : p = FieldProgram(f, a, b)
        \/ \E a, b \in Sample : p = LogicProgram(a, b)
        \/ \E n \in -2..1, k \in {0, 1, 2, 3} : p = ConstantProgram(n, k)
  BY DEF FieldPrograms
<1>5. p \in ComparePrograms =>
        \/ \E TO \in TrapConditions, summary \in BOOLEAN, a, b \in Sample :
              p = CompareProgram(TO, summary, a, b)
        \/ \E n \in {0, 1, 3, 7}, a \in Sample : p = ImmediateProgram(n, a)
        \/ \E CRM \in SUBSET {MaskBit(0), MaskBit(1)}, a, b \in Sample : p = KeepProgram(CRM, a, b)
  BY DEF ComparePrograms
<1>6. p \in MemoryPrograms =>
        \/ \E n \in DOMAIN MovingCode, d \in Data : p = MovingProgram(n, d)
        \/ \E n \in 1..16 : p = StringProgram(n, MoveCode(n))
        \/ \E n \in 0..16 : p = StringProgram(n, MoveIndexedCode)
        \/ \E d \in Data, a \in Edge \cup {0}, c \in EdgeCode : p = EdgeProgram(d, a, c)
  BY DEF MemoryPrograms
<1> QED BY <1>1, <1>2, <1>3, <1>4, <1>5, <1>6

\* The name tells the kind.
LEMMA KindOf ==
  ASSUME NEW p \in Program
  PROVE  /\ p.name \in DOMAIN WideCode => p \in WidePrograms
         /\ p.name \in {"shift", "halve"} => p \in ShiftPrograms
         /\ p.name \in DOMAIN OneCode => p \in OnePrograms
         /\ p.name \in {"field", "logic", "constant"} => p \in FieldPrograms
         /\ p.name \in {"compare", "cmpi", "keep"} => p \in ComparePrograms
         /\ p.name \in DOMAIN MovingCode \cup {"move", "edge"} => p \in MemoryPrograms
<1>1. p \in WidePrograms => p.name \in DOMAIN WideCode
  BY ProgramForms, ProgramNames DEF WideCode
<1>2. p \in ShiftPrograms => p.name \in {"shift", "halve"}
  BY ProgramForms, ProgramNames
<1>3. p \in OnePrograms => p.name \in DOMAIN OneCode
  BY ProgramForms, ProgramNames
<1>4. p \in FieldPrograms => p.name \in {"field", "logic", "constant"}
  BY ProgramForms, ProgramNames
<1>5. p \in ComparePrograms => p.name \in {"compare", "cmpi", "keep"}
  BY ProgramForms, ProgramNames
<1>6. p \in MemoryPrograms => p.name \in DOMAIN MovingCode \cup {"move", "edge"}
  BY ProgramForms, ProgramNames
<1>7. p = Idle => p.name = "none"
  BY ProgramNames
<1>8. p \in Programs \cup {Idle}
  BY ProcessorAssumption
<1> QED BY <1>1, <1>2, <1>3, <1>4, <1>5, <1>6, <1>7, <1>8 DEF Programs, WideCode, OneCode, MovingCode

-----------------------------------------------------------------------------
(* Arithmetic on words *)

LEMMA WordSize == M \in Nat /\ M >= 16 /\ 0 \in Reg /\ 1 \in Reg /\ M - 1 \in Reg
<1>1. B * B \in Nat /\ B * B >= 4
  BY LoadStoreAssumption
<1>2. B * B * B \in Nat /\ B * B * B >= 8
  BY <1>1, LoadStoreAssumption
<1>3. B * B * B * B \in Nat /\ B * B * B * B >= 16
  BY <1>2, LoadStoreAssumption
<1> QED BY <1>3, LoadStoreAssumption DEF Reg

\* A sum, or a difference, that leaves the word's range by less than one word.
LEMMA Wrap ==
  ASSUME NEW s \in Int
  PROVE  /\ s % M \in Reg
         /\ 0 <= s /\ s < M => s % M = s
         /\ M <= s /\ s < 2 * M => s % M = s - M
         /\ -M <= s /\ s < 0 => s % M = s + M
<1>1. s % M \in Reg
  BY WordSize DEF Reg
<1>2. ASSUME 0 <= s, s < M PROVE s % M = s
  BY <1>2, WordSize, DivMod
<1>3. ASSUME M <= s, s < 2 * M PROVE s % M = s - M
  <2>1. (1 * M + (s - M)) % M = s - M
    BY <1>3, WordSize, DivMod
  <2> QED BY <2>1, WordSize
<1>4. ASSUME -M <= s, s < 0 PROVE s % M = s + M
  <2>1. (-1 * M + (s + M)) % M = s + M
    BY <1>4, WordSize, DivMod
  <2> QED BY <2>1, WordSize
<1> QED BY <1>1, <1>2, <1>3, <1>4

LEMMA AddWithCarry ==
  ASSUME NEW a \in Reg, NEW b \in Reg
  PROVE  /\ Add(a, b) \in Reg
         /\ Add(a, b) + Flagged(Carry(a, b)) * M = a + b
<1>1. a + b \in Int /\ 0 <= a + b /\ a + b < 2 * M
  BY WordSize DEF Reg
<1>2. Carry(a, b) <=> a + b >= M
  BY WordSize DEF Reg, Carry, Not
<1> QED BY <1>1, <1>2, Wrap, WordSize DEF Add, Flagged, Reg

LEMMA AddThreeWithCarry ==
  ASSUME NEW a \in Reg, NEW b \in Reg, NEW c \in {0, 1}
  PROVE  /\ Add(Add(a, b), c) \in Reg
         /\ Add(Add(a, b), c) + Flagged(CarryOfThree(a, b, c)) * M = a + b + c
<1>1. c \in Reg
  BY WordSize
<1>2. Add(a, b) \in Reg /\ Add(a, b) + Flagged(Carry(a, b)) * M = a + b
  BY AddWithCarry
<1>3. /\ Add(Add(a, b), c) \in Reg
      /\ Add(Add(a, b), c) + Flagged(Carry(Add(a, b), c)) * M = Add(a, b) + c
  BY <1>1, <1>2, AddWithCarry
<1>4. ~(Carry(a, b) /\ Carry(Add(a, b), c))
  BY <1>2, WordSize DEF Carry, Not, Reg, Flagged
<1> QED BY <1>2, <1>3, <1>4, WordSize DEF CarryOfThree, Flagged, Reg

LEMMA SubtractWithCarry ==
  ASSUME NEW a \in Reg, NEW b \in Reg
  PROVE  /\ Not(a) \in Reg /\ Not(a) = M - 1 - a
         /\ Sub(b, a) \in Reg
         /\ Sub(b, a) + Flagged(b >= a) * M = b - a + M
         /\ (a = 0 \/ Carry(Sub(0, a), b)) <=> b >= a
         /\ (a = 0 \/ Carry(b, Sub(0, a))) <=> b >= a
<1>1. Not(a) \in Reg /\ Not(a) = M - 1 - a
  BY WordSize DEF Not, Reg
<1>2. b - a \in Int /\ -M <= b - a /\ b - a < M /\ 0 - a \in Int /\ -M <= 0 - a
  BY WordSize DEF Reg
<1>3. Sub(b, a) \in Reg /\ Sub(b, a) = IF b >= a THEN b - a ELSE b - a + M
  BY <1>2, Wrap DEF Sub, Reg
<1>4. a # 0 => Sub(0, a) = M - a
  BY <1>2, Wrap, WordSize DEF Sub, Reg
<1>5. /\ (a = 0 \/ Carry(Sub(0, a), b)) <=> b >= a
      /\ (a = 0 \/ Carry(b, Sub(0, a))) <=> b >= a
  BY <1>4, WordSize DEF Carry, Not, Reg
<1> QED BY <1>1, <1>3, <1>5, WordSize DEF Flagged, Reg

\* What addme and subfme add to a word: the carry that comes in, less one.
LEMMA LessOne ==
  ASSUME NEW a \in Reg, NEW c \in {0, 1}
  PROVE  /\ Sub(Add(a, c), 1) \in Reg
         /\ \E d \in {0, 1} : Sub(Add(a, c), 1) + d * M = a + M - 1 + c
<1>1. c \in Reg /\ Add(a, c) \in Reg
  BY AddWithCarry, WordSize
<1>2. Add(a, c) = IF a + c = M THEN 0 ELSE a + c
  <2> DEFINE t == a + c
  <2>1. t \in Int /\ 0 <= t /\ t <= M /\ M \in Nat /\ M > 0
    BY WordSize DEF Reg
  <2> HIDE DEF t
  <2>2. t # M => t % M = t
    BY <2>1, Wrap
  <2>3. t = M => t % M = t - M
    BY <2>1, Wrap
  <2> QED BY <2>1, <2>2, <2>3 DEF Add, t
<1>3. Add(a, c) - 1 \in Int /\ -M <= Add(a, c) - 1 /\ Add(a, c) - 1 < M
  BY <1>1, WordSize DEF Reg
<1>4. Sub(Add(a, c), 1) = IF Add(a, c) = 0 THEN M - 1 ELSE Add(a, c) - 1
  BY <1>1, <1>3, Wrap, WordSize DEF Sub, Reg
<1>5. Sub(Add(a, c), 1) \in Reg
  BY <1>1, <1>4, WordSize DEF Reg
<1>6. \/ Sub(Add(a, c), 1) + 0 * M = a + M - 1 + c
      \/ Sub(Add(a, c), 1) + 1 * M = a + M - 1 + c
  BY <1>1, <1>2, <1>4, WordSize DEF Reg
<1> QED BY <1>5, <1>6

-----------------------------------------------------------------------------
(* Chains of carrying instructions *)

\* What the low and the high instruction of a chain compute, the carry out of them included;
\* the high one adds the carry that comes in.
LowTotal(n, a, b) ==
  CASE n = "add" -> a + b
    [] n = "sub" -> a - b + M
    [] n = "neg" -> M - a
    [] n = "inc" -> a + 1
    [] n = "dec" -> a + M - 1
    [] n = "not" -> 2 * M - 1 - a

HighTotal(n, a, b) ==
  CASE n = "add" -> a + b
    [] n = "sub" -> a - b + M - 1
    [] n = "neg" -> M - 1 - a
    [] n = "inc" -> a
    [] n = "dec" -> a + M - 1
    [] n = "not" -> 2 * M - 2 - a

\* The fields of an instruction.
LEMMA OpFields ==
  /\ \A op, d, a, b : /\ Op(op, d, a, b).op = op /\ Op(op, d, a, b).D = d
                      /\ Op(op, d, a, b).A = a /\ Op(op, d, a, b).B = b
                      /\ Op(op, d, a, b).OE = FALSE /\ Op(op, d, a, b).Rc = FALSE
  /\ \A op, d, a, n : /\ Imm(op, d, a, n).op = op /\ Imm(op, d, a, n).D = d
                      /\ Imm(op, d, a, n).A = a /\ Imm(op, d, a, n).B = a
                      /\ Imm(op, d, a, n).imm = n
                      /\ Imm(op, d, a, n).OE = FALSE /\ Imm(op, d, a, n).Rc = FALSE
<1>1. \A op, d, a, b : /\ Op(op, d, a, b).op = op /\ Op(op, d, a, b).D = d
                       /\ Op(op, d, a, b).A = a /\ Op(op, d, a, b).B = b
                       /\ Op(op, d, a, b).OE = FALSE /\ Op(op, d, a, b).Rc = FALSE
  BY DEF Op
<1>2. \A op, d, a, n : /\ Imm(op, d, a, n).op = op /\ Imm(op, d, a, n).D = d
                       /\ Imm(op, d, a, n).A = a /\ Imm(op, d, a, n).B = a
                       /\ Imm(op, d, a, n).imm = n
                       /\ Imm(op, d, a, n).OE = FALSE /\ Imm(op, d, a, n).Rc = FALSE
  BY DEF Op, Imm
<1> QED BY <1>1, <1>2

\* The instructions of the chains.
LEMMA WideNames == DOMAIN WideCode = {"add", "sub", "neg", "inc", "dec", "not"}
BY DEF WideCode

LEMMA WideInstructions ==
  /\ WideCode["add"] = << Op("addcx", 2, 2, 4), Op("addex", 1, 1, 3) >>
  /\ WideCode["sub"] = << Op("subfcx", 2, 4, 2), Op("subfex", 1, 3, 1) >>
  /\ WideCode["neg"] = << Imm("subfic", 2, 2, 0), Op("subfzex", 1, 1, 1) >>
  /\ WideCode["inc"] = << Imm("addic", 2, 2, 1), Op("addzex", 1, 1, 1) >>
  /\ WideCode["dec"] = << Imm("addic", 2, 2, -1), Op("addmex", 1, 1, 1) >>
  /\ WideCode["not"] = << Imm("subfic", 2, 2, -1), Op("subfmex", 1, 1, 1) >>
BY DEF WideCode

LEMMA WideShape ==
  ASSUME NEW n \in DOMAIN WideCode
  PROVE  /\ WideCode[n] # <<>>
         /\ Head(WideCode[n]) = WideCode[n][1] /\ Tail(WideCode[n]) = << WideCode[n][2] >>
         /\ WideCode[n][1].op \in Carrying /\ WideCode[n][2].op \in Carrying
         /\ WideCode[n][1].OE = FALSE /\ WideCode[n][1].Rc = FALSE /\ WideCode[n][1].D = 2
         /\ WideCode[n][2].OE = FALSE /\ WideCode[n][2].Rc = FALSE /\ WideCode[n][2].D = 1
<1>1. \E i, j : /\ WideCode[n] = << i, j >>
                /\ i.op \in Carrying /\ i.OE = FALSE /\ i.Rc = FALSE /\ i.D = 2
                /\ j.op \in Carrying /\ j.OE = FALSE /\ j.Rc = FALSE /\ j.D = 1
  <2>1. {"addcx", "addex", "subfcx", "subfex", "subfic", "subfzex", "addic", "addzex", "addmex",
         "subfmex"} \subseteq Carrying
    BY DEF Carrying
  <2> QED BY <2>1, OpFields, WideInstructions, WideNames
<1> QED BY <1>1

\* Results and carries of the chains' instructions.
LEMMA CarryingResults ==
  ASSUME NEW i
  PROVE  /\ i.op = "addcx" => CarryResult(i) = Add(gpr[i.A], gpr[i.B])
         /\ i.op = "addex" => CarryResult(i) = Add(Add(gpr[i.A], gpr[i.B]), ca)
         /\ i.op = "addic" => CarryResult(i) = Add(gpr[i.A], i.imm)
         /\ i.op = "addmex" => CarryResult(i) = Sub(Add(gpr[i.A], ca), 1)
         /\ i.op = "addzex" => CarryResult(i) = Add(gpr[i.A], ca)
         /\ i.op = "subfcx" => CarryResult(i) = Sub(gpr[i.B], gpr[i.A])
         /\ i.op = "subfex" => CarryResult(i) = Add(Add(Not(gpr[i.A]), gpr[i.B]), ca)
         /\ i.op = "subfic" => CarryResult(i) = Sub(i.imm, gpr[i.A])
         /\ i.op = "subfmex" => CarryResult(i) = Sub(Add(Not(gpr[i.A]), ca), 1)
         /\ i.op = "subfzex" => CarryResult(i) = Add(Not(gpr[i.A]), ca)
BY DEF CarryResult

LEMMA CarriesOut ==
  ASSUME NEW i
  PROVE  /\ i.op = "addcx" => (CarryOut(i) <=> Carry(gpr[i.A], gpr[i.B]))
         /\ i.op = "addex" => (CarryOut(i) <=> CarryOfThree(gpr[i.A], gpr[i.B], ca))
         /\ i.op = "addic" => (CarryOut(i) <=> Carry(gpr[i.A], i.imm % M))
         /\ i.op = "addzex" => (CarryOut(i) <=> Carry(gpr[i.A], ca))
         /\ i.op = "subfcx" =>
              (CarryOut(i) <=> gpr[i.A] = 0 \/ Carry(gpr[i.B], Sub(0, gpr[i.A])))
         /\ i.op = "subfex" => (CarryOut(i) <=> CarryOfThree(Not(gpr[i.A]), gpr[i.B], ca))
         /\ i.op = "subfic" =>
              (CarryOut(i) <=> gpr[i.A] = 0 \/ Carry(Sub(0, gpr[i.A]), i.imm % M))
         /\ i.op = "subfzex" => (CarryOut(i) <=> Carry(Not(gpr[i.A]), ca))
BY DEF CarryOut

LEMMA LowStep ==
  ASSUME gpr \in [GPR -> Reg], ca \in {0, 1}, NEW n \in DOMAIN WideCode, Execute(WideCode[n][1])
  PROVE  /\ gpr' \in [GPR -> Reg] /\ ca' \in {0, 1}
         /\ \A r \in GPR \ {2} : gpr'[r] = gpr[r]
         /\ gpr'[2] + ca' * M = LowTotal(n, gpr[2], gpr[4])
<1> DEFINE i == WideCode[n][1]
<1>1. gpr' = [gpr EXCEPT ![2] = CarryResult(i)] /\ ca' = Flagged(CarryOut(i))
  BY CarryStep, WideShape
<1>2. ca' \in {0, 1}
  BY <1>1 DEF Flagged
<1>3. gpr[2] \in Reg /\ gpr[4] \in Reg /\ 2 \in GPR
  BY GuestProgramsAssumption, LoadStoreAssumption
<1>4. CarryResult(i) \in Reg /\ CarryResult(i) + ca' * M = LowTotal(n, gpr[2], gpr[4])
  <2>0. 0 % M = 0 /\ 1 % M = 1 /\ (-1) % M = M - 1
    BY Wrap, WordSize
  <2>1. CASE n = "add"
    <3>1. CarryResult(i) = Add(gpr[2], gpr[4]) /\ (CarryOut(i) <=> Carry(gpr[2], gpr[4]))
      BY <2>1, WideInstructions, OpFields, CarryingResults, CarriesOut
    <3> QED BY <1>1, <1>3, <2>1, <3>1, AddWithCarry DEF LowTotal, Flagged
  <2>2. CASE n = "sub"
    <3>1. /\ CarryResult(i) = Sub(gpr[2], gpr[4])
          /\ CarryOut(i) <=> gpr[4] = 0 \/ Carry(gpr[2], Sub(0, gpr[4]))
      BY <2>2, WideInstructions, OpFields, CarryingResults, CarriesOut
    <3> QED BY <1>1, <1>3, <2>2, <3>1, SubtractWithCarry DEF LowTotal, Flagged
  <2>3. CASE n = "neg"
    <3>1. /\ CarryResult(i) = Sub(0, gpr[2])
          /\ CarryOut(i) <=> gpr[2] = 0 \/ Carry(Sub(0, gpr[2]), 0 % M)
      BY <2>3, WideInstructions, OpFields, CarryingResults, CarriesOut
    <3>2. CarryOut(i) <=> gpr[2] = 0
      <4>1. CarryOut(i) <=> gpr[2] = 0 \/ Carry(Sub(0, gpr[2]), 0)
        BY <2>0, <3>1
      <4>2. CarryOut(i) <=> 0 >= gpr[2]
        BY <1>3, <4>1, SubtractWithCarry, WordSize
      <4> QED BY <1>3, <4>2, WordSize DEF Reg
    <3>3. CarryResult(i) = IF gpr[2] = 0 THEN 0 ELSE M - gpr[2]
      BY <1>3, <2>0, <3>1, Wrap, WordSize DEF Sub, Reg
    <3> QED BY <1>1, <1>3, <2>3, <3>2, <3>3, WordSize DEF LowTotal, Flagged, Reg
  <2>4. CASE n = "inc"
    <3>1. CarryResult(i) = Add(gpr[2], 1) /\ (CarryOut(i) <=> Carry(gpr[2], 1 % M))
      BY <2>4, WideInstructions, OpFields, CarryingResults, CarriesOut
    <3> QED BY <1>1, <1>3, <2>0, <2>4, <3>1, AddWithCarry, WordSize DEF LowTotal, Flagged
  <2>5. CASE n = "dec"
    <3>1. CarryResult(i) = Add(gpr[2], -1) /\ (CarryOut(i) <=> Carry(gpr[2], (-1) % M))
      BY <2>5, WideInstructions, OpFields, CarryingResults, CarriesOut
    <3>2. CarryResult(i) = IF gpr[2] = 0 THEN M - 1 ELSE gpr[2] - 1
      BY <1>3, <3>1, Wrap, WordSize DEF Add, Reg
    <3>3. CarryOut(i) <=> gpr[2] # 0
      BY <1>3, <2>0, <3>1, WordSize DEF Carry, Not, Reg
    <3> QED BY <1>1, <1>3, <2>5, <3>2, <3>3, WordSize DEF LowTotal, Flagged, Reg
  <2>6. CASE n = "not"
    <3>1. /\ CarryResult(i) = Sub(-1, gpr[2])
          /\ CarryOut(i) <=> gpr[2] = 0 \/ Carry(Sub(0, gpr[2]), (-1) % M)
      BY <2>6, WideInstructions, OpFields, CarryingResults, CarriesOut
    <3>2. CarryOut(i)
      BY <1>3, <2>0, <3>1, SubtractWithCarry, WordSize DEF Reg
    <3>3. CarryResult(i) = M - 1 - gpr[2]
      BY <1>3, <3>1, Wrap, WordSize DEF Sub, Reg
    <3> QED BY <1>1, <1>3, <2>6, <3>2, <3>3, WordSize DEF LowTotal, Flagged, Reg
  <2> QED BY <2>1, <2>2, <2>3, <2>4, <2>5, <2>6, WideNames
<1> QED BY <1>1, <1>2, <1>3, <1>4

LEMMA HighStep ==
  ASSUME gpr \in [GPR -> Reg], ca \in {0, 1}, NEW n \in DOMAIN WideCode, Execute(WideCode[n][2])
  PROVE  /\ gpr' \in [GPR -> Reg] /\ ca' \in {0, 1}
         /\ \A r \in GPR \ {1} : gpr'[r] = gpr[r]
         /\ \E c \in {0, 1} : /\ gpr'[1] + c * M = HighTotal(n, gpr[1], gpr[3]) + ca
                              /\ n \notin {"dec", "not"} => c = ca'
<1> DEFINE i == WideCode[n][2]
<1>1. gpr' = [gpr EXCEPT ![1] = CarryResult(i)] /\ ca' = Flagged(CarryOut(i))
  BY CarryStep, WideShape
<1>2. ca' \in {0, 1}
  BY <1>1 DEF Flagged
<1>3. gpr[1] \in Reg /\ gpr[3] \in Reg /\ 1 \in GPR /\ ca \in Reg
  BY GuestProgramsAssumption, LoadStoreAssumption, WordSize
<1>4. /\ CarryResult(i) \in Reg
      /\ \E c \in {0, 1} : /\ CarryResult(i) + c * M = HighTotal(n, gpr[1], gpr[3]) + ca
                           /\ n \notin {"dec", "not"} => c = ca'
  <2>1. CASE n = "add"
    <3>1. /\ CarryResult(i) = Add(Add(gpr[1], gpr[3]), ca)
          /\ CarryOut(i) <=> CarryOfThree(gpr[1], gpr[3], ca)
      BY <2>1, WideInstructions, OpFields, CarryingResults, CarriesOut
    <3> QED BY <1>1, <1>2, <1>3, <2>1, <3>1, AddThreeWithCarry DEF HighTotal, Flagged
  <2>2. CASE n = "sub"
    <3>1. /\ CarryResult(i) = Add(Add(Not(gpr[3]), gpr[1]), ca)
          /\ CarryOut(i) <=> CarryOfThree(Not(gpr[3]), gpr[1], ca)
      BY <2>2, WideInstructions, OpFields, CarryingResults, CarriesOut
    <3>2. Not(gpr[3]) \in Reg
      BY <1>3, SubtractWithCarry
    <3>3. /\ Add(Add(Not(gpr[3]), gpr[1]), ca) \in Reg
          /\ Add(Add(Not(gpr[3]), gpr[1]), ca) + Flagged(CarryOfThree(Not(gpr[3]), gpr[1], ca)) * M
               = Not(gpr[3]) + gpr[1] + ca
      BY <1>3, <3>2, AddThreeWithCarry
    <3>4. ca' = Flagged(CarryOfThree(Not(gpr[3]), gpr[1], ca))
      BY <1>1, <3>1 DEF Flagged
    <3>5. HighTotal(n, gpr[1], gpr[3]) + ca = Not(gpr[3]) + gpr[1] + ca
      BY <1>3, <2>2, WordSize DEF HighTotal, Not, Reg
    <3> QED BY <1>2, <2>2, <3>1, <3>3, <3>4, <3>5
  <2>3. CASE n = "neg"
    <3>1. CarryResult(i) = Add(Not(gpr[1]), ca) /\ (CarryOut(i) <=> Carry(Not(gpr[1]), ca))
      BY <2>3, WideInstructions, OpFields, CarryingResults, CarriesOut
    <3>2. Not(gpr[1]) \in Reg /\ Not(gpr[1]) = M - 1 - gpr[1]
      BY <1>3, SubtractWithCarry
    <3>3. CarryResult(i) \in Reg /\ CarryResult(i) + ca' * M = M - 1 - gpr[1] + ca
      <4> DEFINE x == Not(gpr[1])
      <4>1. /\ Add(x, ca) \in Reg
            /\ Add(x, ca) + Flagged(Carry(x, ca)) * M = x + ca
        BY <1>3, <3>2, AddWithCarry
      <4>2. ca' = Flagged(Carry(x, ca))
        BY <1>1, <3>1 DEF Flagged
      <4> HIDE DEF x
      <4> QED BY <3>1, <3>2, <4>1, <4>2 DEF x
    <3>4. HighTotal(n, gpr[1], gpr[3]) = M - 1 - gpr[1]
      BY <2>3 DEF HighTotal
    <3> QED BY <1>2, <2>3, <3>3, <3>4
  <2>4. CASE n = "inc"
    <3>1. CarryResult(i) = Add(gpr[1], ca) /\ (CarryOut(i) <=> Carry(gpr[1], ca))
      BY <2>4, WideInstructions, OpFields, CarryingResults, CarriesOut
    <3> QED BY <1>1, <1>2, <1>3, <2>4, <3>1, AddWithCarry DEF HighTotal, Flagged
  <2>5. CASE n = "dec"
    <3>1. CarryResult(i) = Sub(Add(gpr[1], ca), 1)
      BY <2>5, WideInstructions, OpFields, CarryingResults
    <3>2. Sub(Add(gpr[1], ca), 1) \in Reg /\
          \E c \in {0, 1} : Sub(Add(gpr[1], ca), 1) + c * M = gpr[1] + M - 1 + ca
      BY <1>3, LessOne
    <3> QED BY <2>5, <3>1, <3>2 DEF HighTotal
  <2>6. CASE n = "not"
    <3>1. CarryResult(i) = Sub(Add(Not(gpr[1]), ca), 1)
      BY <2>6, WideInstructions, OpFields, CarryingResults
    <3>2. Not(gpr[1]) \in Reg /\ Not(gpr[1]) = M - 1 - gpr[1]
      BY <1>3, SubtractWithCarry
    <3>3. Sub(Add(Not(gpr[1]), ca), 1) \in Reg /\
          \E c \in {0, 1} : Sub(Add(Not(gpr[1]), ca), 1) + c * M = Not(gpr[1]) + M - 1 + ca
      BY <3>2, LessOne
    <3> QED BY <1>3, <2>6, <3>1, <3>2, <3>3, WordSize DEF HighTotal, Reg
  <2> QED BY <2>1, <2>2, <2>3, <2>4, <2>5, <2>6, WideNames
<1> QED BY <1>1, <1>2, <1>3, <1>4

\* The value that a program computes from two words, or from two of two.
WideResult(n, x, y) ==
  CASE n = "add" -> x + y
    [] n = "sub" -> x - y
    [] n = "neg" -> -x
    [] n = "inc" -> x + 1
    [] n = "dec" -> x - 1
    [] n = "not" -> -1 - x

\* From words h and l, and k and j, a chain has made high and low, and a carry d out of them.
Chained(n, h, l, k, j, high, low, d) ==
  /\ n \in DOMAIN WideCode /\ h \in Reg /\ l \in Reg /\ k \in Reg /\ j \in Reg
  /\ high \in Reg /\ low \in Reg /\ d \in {0, 1}
  /\ \E c \in {0, 1} : /\ low + c * M = LowTotal(n, l, j)
                       /\ high + d * M = HighTotal(n, h, k) + c

\* High and low are the program's value modulo the square of M, and d is its carry.
Exact(n, h, l, k, j, high, low, d) ==
  LET value == WideResult(n, h * M + l, k * M + j)
  IN /\ high * M + low = value % (M * M)
     /\ n \in {"add", "inc"} => d = value \div (M * M)
     /\ n \in {"sub", "neg"} => d = Flagged(value >= 0)

\* A chain's total is the value the program is to compute, or exceeds it by the square of M.
LEMMA WideValue ==
  ASSUME NEW n, NEW h, NEW l, NEW k, NEW j, NEW high, NEW low, NEW d,
         Chained(n, h, l, k, j, high, low, d)
  PROVE  Exact(n, h, l, k, j, high, low, d)
<1>0. /\ n \in DOMAIN WideCode /\ h \in Reg /\ l \in Reg /\ k \in Reg /\ j \in Reg
      /\ high \in Reg /\ low \in Reg /\ d \in {0, 1}
  BY DEF Chained
<1> DEFINE x == h * M + l
           y == k * M + j
           w == high * M + low
           S == M * M
<1>1. h * M \in Int /\ k * M \in Int /\ high * M \in Int /\ S \in Nat /\ S > 0
  BY <1>0, WordSize DEF Reg
<1>2. x \in Int /\ y \in Int /\ w \in Int /\ 0 <= w /\ w < S
  <2>1. high * M >= 0 /\ high * M <= (M - 1) * M /\ (M - 1) * M = M * M - M
    BY <1>0, WordSize DEF Reg
  <2> QED BY <1>0, <1>1, <2>1, WordSize DEF Reg
<1>3. w + d * S = HighTotal(n, h, k) * M + LowTotal(n, l, j)
  <2>1. HighTotal(n, h, k) \in Int /\ LowTotal(n, l, j) \in Int
    BY <1>0, WordSize, WideNames DEF HighTotal, LowTotal, Reg
  <2>0. PICK c \in {0, 1} : /\ low + c * M = LowTotal(n, l, j)
                               /\ high + d * M = HighTotal(n, h, k) + c
    BY DEF Chained
  <2>2. high = HighTotal(n, h, k) + c - d * M /\ low = LowTotal(n, l, j) - c * M
    BY <1>0, <2>0, <2>1, WordSize DEF Reg
  <2> HIDE DEF HighTotal, LowTotal
  <2>3. CASE d = 0
    BY <1>0, <2>1, <2>2, <2>3, WordSize DEF Reg
  <2>4. CASE d = 1
    BY <1>0, <2>1, <2>2, <2>4, WordSize DEF Reg
  <2> QED BY <1>0, <2>3, <2>4
<1>4. ASSUME NEW v \in Int, NEW e \in Int, w + d * S = v + e * S
      PROVE  v % S = w /\ v \div S = d - e
  <2>1. v = (d - e) * S + w
    <3> HIDE DEF S, w
    <3> QED BY <1>0, <1>1, <1>2, <1>4
  <2>2. ((d - e) * S + w) % S = w /\ ((d - e) * S + w) \div S = d - e
    <3> HIDE DEF S, w
    <3>1. d - e \in Int
      BY <1>0, <1>4
    <3> QED BY <1>0, <1>1, <1>2, <3>1, DivMod
  <2> QED BY <1>0, <2>1, <2>2
<1>5. HighTotal(n, h, k) * M + LowTotal(n, l, j) =
        CASE n = "add" -> x + y
          [] n = "sub" -> x - y + S
          [] n = "neg" -> -x + S
          [] n = "inc" -> x + 1
          [] n = "dec" -> x - 1 + S
          [] n = "not" -> -1 - x + 2 * S
  <2>1. CASE n = "add"
    BY <1>0, <1>1, <2>1, WordSize DEF HighTotal, LowTotal, Reg
  <2>2. CASE n = "sub"
    BY <1>0, <1>1, <2>2, WordSize DEF HighTotal, LowTotal, Reg
  <2>3. CASE n = "neg"
    BY <1>0, <1>1, <2>3, WordSize DEF HighTotal, LowTotal, Reg
  <2>4. CASE n = "inc"
    BY <1>0, <1>1, <2>4, WordSize DEF HighTotal, LowTotal, Reg
  <2>5. CASE n = "dec"
    BY <1>0, <1>1, <2>5, WordSize DEF HighTotal, LowTotal, Reg
  <2>6. CASE n = "not"
    BY <1>0, <1>1, <2>6, WordSize DEF HighTotal, LowTotal, Reg
  <2> QED BY <1>0, <2>1, <2>2, <2>3, <2>4, <2>5, <2>6, WideNames
<1> HIDE DEF x, y, w, S
<1>6. CASE n = "add"
  <2>1. x + y \in Int /\ w + d * S = x + y + 0 * S
    BY <1>0, <1>1, <1>2, <1>3, <1>5, <1>6
  <2> QED BY <1>0, <1>4, <1>6, <2>1 DEF Exact, WideResult, x, y, w, S
<1>7. CASE n = "sub"
  <2>1. x - y \in Int /\ w + d * S = x - y + 1 * S
    BY <1>0, <1>1, <1>2, <1>3, <1>5, <1>7
  <2>2. (x - y) % S = w
    BY <1>0, <1>4, <2>1
  <2>3. d = Flagged(x - y >= 0)
    BY <1>0, <1>1, <1>2, <2>1 DEF Flagged
  <2> QED BY <1>0, <1>7, <2>2, <2>3 DEF Exact, WideResult, x, y, w, S
<1>8. CASE n = "neg"
  <2>1. -x \in Int /\ w + d * S = -x + 1 * S
    BY <1>0, <1>1, <1>2, <1>3, <1>5, <1>8
  <2>2. (-x) % S = w
    BY <1>0, <1>4, <2>1
  <2>3. d = Flagged(-x >= 0)
    BY <1>0, <1>1, <1>2, <2>1 DEF Flagged
  <2> QED BY <1>0, <1>8, <2>2, <2>3 DEF Exact, WideResult, x, y, w, S
<1>9. CASE n = "inc"
  <2>1. x + 1 \in Int /\ w + d * S = x + 1 + 0 * S
    BY <1>0, <1>1, <1>2, <1>3, <1>5, <1>9
  <2> QED BY <1>0, <1>4, <1>9, <2>1 DEF Exact, WideResult, x, y, w, S
<1>10. CASE n = "dec"
  <2>1. x - 1 \in Int /\ w + d * S = x - 1 + 1 * S
    BY <1>0, <1>1, <1>2, <1>3, <1>5, <1>10
  <2>2. (x - 1) % S = w
    BY <1>0, <1>4, <2>1
  <2> QED BY <1>0, <1>10, <2>2 DEF Exact, WideResult, x, y, w, S
<1>11. CASE n = "not"
  <2>1. -1 - x \in Int /\ w + d * S = -1 - x + 2 * S
    BY <1>0, <1>1, <1>2, <1>3, <1>5, <1>11
  <2>2. (-1 - x) % S = w
    BY <1>0, <1>4, <2>1
  <2> QED BY <1>0, <1>11, <2>2 DEF Exact, WideResult, x, y, w, S
<1> QED BY <1>0, <1>6, <1>7, <1>8, <1>9, <1>10, <1>11, WideNames

LEMMA WideForm ==
  ASSUME NEW p \in Program, p.name \in DOMAIN WideCode
  PROVE  p.gpr \in [GPR -> Reg] /\ p.code = WideCode[p.name]
<1>1. Sample \subseteq Reg /\ 0 \in Reg
  BY GuestProgramsAssumption, WordSize
<1>2. PICK n \in DOMAIN WideCode, a \in Reg, b \in Reg, c \in Reg, d \in Reg :
        p = WideProgram(n, a, b, c, d)
  <2>1. p \in WidePrograms
    BY KindOf
  <2> QED BY <1>1, <2>1, ProgramForms, WideNames
<1>3. p.name = n /\ p.code = WideCode[n]
  BY <1>2 DEF WideProgram, Prog
<1>4. p.gpr = [r \in GPR |-> IF r \in 1..4 THEN <<a, b, c, d>>[r] ELSE 0]
  BY <1>2 DEF WideProgram, Prog
<1>5. \A r \in 1..4 : <<a, b, c, d>>[r] \in Reg
  OBVIOUS
<1> QED BY <1>1, <1>3, <1>4, <1>5

\* A chain by the instructions that are left of it.
WideProgress ==
  LET n == initial.name IN
  /\ gpr \in [GPR -> Reg]
  /\ ca \in {0, 1}
  /\ \/ code = WideCode[n] /\ gpr = initial.gpr
     \/ /\ code = << WideCode[n][2] >>
        /\ gpr[1] = Old(1) /\ gpr[3] = Old(3)
        /\ gpr[2] + ca * M = LowTotal(n, Old(2), Old(4))
     \/ /\ code = <<>>
        /\ \E d \in {0, 1} :
             /\ Chained(n, Old(1), Old(2), Old(3), Old(4), gpr[1], gpr[2], d)
             /\ n \notin {"dec", "not"} => d = ca

WideInv == initial \in Program /\ (initial.name \in DOMAIN WideCode => WideProgress)

LEMMA WideStart == InitProgram => WideInv
<1> SUFFICES ASSUME InitProgram, initial.name \in DOMAIN WideCode PROVE WideProgress
  BY DEF InitProgram, WideInv
<1> QED BY WideForm DEF InitProgram, WideProgress

LEMMA WideNext ==
  ASSUME WideInv, [StepProgram]_machineVars
  PROVE  WideInv'
<1>1. CASE UNCHANGED machineVars
  BY <1>1 DEF WideInv, WideProgress, Old, machineVars
<1>2. CASE StepProgram
  <2>1. initial' = initial
    BY <1>2 DEF StepProgram
  <2> SUFFICES ASSUME initial.name \in DOMAIN WideCode PROVE WideProgress'
    BY <2>1 DEF WideInv
  <2> DEFINE n == initial.name
             L == LowTotal(n, Old(2), Old(4))
             H == HighTotal(n, Old(1), Old(3))
  <2>2. code # <<>> /\ Execute(Head(code)) /\ code' = Tail(code)
    BY <1>2 DEF StepProgram
  <2>3. WideProgress
    BY DEF WideInv
  <2>4. gpr \in [GPR -> Reg] /\ ca \in {0, 1} /\ {1, 2, 3, 4} \subseteq GPR
    BY <2>3, GuestProgramsAssumption, LoadStoreAssumption DEF WideProgress
  <2>5. L' = L /\ H' = H /\ n' = n
    BY <2>1 DEF Old, LowTotal, HighTotal
  <2>6. CASE code = WideCode[n] /\ gpr = initial.gpr
    <3>1. Head(code) = WideCode[n][1] /\ Tail(code) = << WideCode[n][2] >>
      BY <2>6, WideShape
    <3>2. /\ gpr' \in [GPR -> Reg] /\ ca' \in {0, 1}
          /\ gpr'[1] = Old(1) /\ gpr'[3] = Old(3)
          /\ gpr'[2] + ca' * M = L
      BY <2>2, <2>4, <2>6, <3>1, LowStep DEF Old
    <3> QED BY <2>1, <2>2, <2>5, <3>1, <3>2 DEF WideProgress, Old
  <2>7. CASE /\ code = << WideCode[n][2] >>
             /\ gpr[1] = Old(1) /\ gpr[3] = Old(3)
             /\ gpr[2] + ca * M = L
    <3>1. Head(code) = WideCode[n][2] /\ Tail(code) = <<>>
      BY <2>7
    <3>2. gpr' \in [GPR -> Reg] /\ ca' \in {0, 1} /\ gpr'[2] = gpr[2]
      BY <2>2, <2>4, <3>1, HighStep
    <3>3. PICK d \in {0, 1} : /\ gpr'[1] + d * M = H + ca
                              /\ n \notin {"dec", "not"} => d = ca'
      BY <2>2, <2>4, <2>7, <3>1, HighStep
    <3>4. Old(1) \in Reg /\ Old(2) \in Reg /\ Old(3) \in Reg /\ Old(4) \in Reg
      BY <2>4, WideForm DEF Old, WideInv
    <3>5. gpr'[1] \in Reg /\ gpr'[2] \in Reg /\ gpr'[2] + ca * M = L
      BY <2>4, <2>7, <3>2
    <3>6. Chained(n, Old(1), Old(2), Old(3), Old(4), gpr'[1], gpr'[2], d)
      BY <2>4, <3>3, <3>4, <3>5 DEF Chained
    <3> QED BY <2>1, <2>2, <3>1, <3>2, <3>3, <3>6 DEF WideProgress, Old
  <2> QED BY <2>2, <2>3, <2>6, <2>7 DEF WideProgress
<1> QED BY <1>1, <1>2

LEMMA WideEnd == WideInv => MultiwordArithmeticIsExact
<1> SUFFICES ASSUME WideInv, Ends(DOMAIN WideCode) PROVE MultiwordArithmeticIsExact
  BY DEF MultiwordArithmeticIsExact
<1> DEFINE n == initial.name
<1>1. WideProgress /\ code = <<>> /\ n \in DOMAIN WideCode
  BY DEF WideInv, Ends
<1>2. WideCode[n] # <<>>
  BY <1>1, WideShape
<1>3. PICK d \in {0, 1} :
        /\ Chained(n, Old(1), Old(2), Old(3), Old(4), gpr[1], gpr[2], d)
        /\ n \notin {"dec", "not"} => d = ca
  BY <1>1, <1>2 DEF WideProgress
<1>4. Old(1) \in Reg /\ Old(2) \in Reg /\ Old(3) \in Reg /\ Old(4) \in Reg
      /\ gpr[1] \in Reg /\ gpr[2] \in Reg
  BY <1>1, WideForm, GuestProgramsAssumption, LoadStoreAssumption DEF WideProgress, Old, WideInv
<1>5. Exact(n, Old(1), Old(2), Old(3), Old(4), gpr[1], gpr[2], d)
  BY <1>3, WideValue
<1>6. n \in {"add", "inc", "sub", "neg"} => d = ca
  BY <1>3
<1> QED BY <1>5, <1>6 DEF MultiwordArithmeticIsExact, Exact, Wide, Old, WideResult

-----------------------------------------------------------------------------
(* Products and quotients *)

Dividing == {"product", "udivide", "sdivide"}

\* M is even.
LEMMA HalfWord == M \div 2 \in Nat /\ M = 2 * (M \div 2) /\ M \div 2 >= 8
<1>1. W \in Nat /\ M = Power[W] /\ W # 0
  BY WidthAssumption, Powers, WordSize
<1>2. M = 2 * Power[W - 1] /\ Power[W - 1] \in Nat
  BY <1>1, Powers
<1> QED BY <1>2, WordSize

\* A word and the number that it stands for.
LEMMA SignedWord ==
  ASSUME NEW a \in Reg
  PROVE  /\ Signed(a) \in Int
         /\ -M <= 2 * Signed(a) /\ 2 * Signed(a) < M
         /\ \E e \in {0, 1} : Signed(a) = a - e * M
         /\ Signed(a) = 0 <=> a = 0
         /\ Signed(a) = -1 <=> a = M - 1
         /\ Signed(a) = -(M \div 2) <=> a = M \div 2
BY WordSize, HalfWord DEF Signed, Negative, Reg

LEMMA WordOf ==
  ASSUME NEW q \in Int, -M <= 2 * q, 2 * q < M
  PROVE  q % M \in Reg /\ Signed(q % M) = q
<1>1. q % M \in Reg /\ q % M = IF q >= 0 THEN q ELSE q + M
  BY WordSize, Wrap
<1> QED BY <1>1, WordSize DEF Signed, Negative

\* C's quotient and the remainder that it leaves.
LEMMA QuotientAndRemainder ==
  ASSUME NEW a \in Int, NEW b \in Int, b # 0
  PROVE  /\ Quotient(a, b) \in Int
         /\ Magnitude(Quotient(a, b)) <= Magnitude(a)
         /\ Magnitude(Quotient(a, b)) = Magnitude(a) /\ a # 0 => Magnitude(b) = 1
         /\ \E r \in Int : /\ a = Quotient(a, b) * b + r
                           /\ Magnitude(r) < Magnitude(b)
                           /\ r # 0 => (r < 0 <=> a < 0)
<1> DEFINE n == Magnitude(a)
           m == Magnitude(b)
           q == n \div m
           r == n % m
<1>1. n \in Nat /\ m \in Nat /\ m > 0
  BY DEF Magnitude
<1>2. q \in Nat /\ r \in Nat /\ r < m /\ n = q * m + r
  <2> HIDE DEF n, m
  <2> QED BY <1>1
<1>3. q <= n /\ (q = n /\ n # 0 => m = 1)
  <2> HIDE DEF n, m, q, r
  <2>1. q * m \in Nat /\ q * m <= n
    BY <1>1, <1>2
  <2>2. q * m >= q
    BY <1>1, <1>2
  <2>3. q # 0 /\ m >= 2 => q * m > q
    BY <1>1, <1>2
  <2> QED BY <1>1, <1>2, <2>1, <2>2, <2>3
<1>4. Quotient(a, b) = IF (a < 0) = (b < 0) THEN q ELSE -q
  BY DEF Quotient
<1>5. /\ Quotient(a, b) \in Int /\ Magnitude(Quotient(a, b)) = q
  <2> HIDE DEF q
  <2> QED BY <1>2, <1>4 DEF Magnitude
<1>6. \E s \in Int : /\ a = Quotient(a, b) * b + s
                     /\ Magnitude(s) < m
                     /\ s # 0 => (s < 0 <=> a < 0)
  <2> DEFINE s == IF a < 0 THEN -r ELSE r
  <2>1. s \in Int /\ Magnitude(s) < m /\ (s # 0 => (s < 0 <=> a < 0))
    <3> HIDE DEF r, m
    <3> QED BY <1>2 DEF Magnitude
  <2>2. a = IF a < 0 THEN -(q * m + r) ELSE q * m + r
    <3> HIDE DEF q, m, r
    <3> QED BY <1>2 DEF Magnitude
  <2>3. b = IF b < 0 THEN -m ELSE m
    BY DEF Magnitude
  <2>4. Quotient(a, b) * b = IF a < 0 THEN -(q * m) ELSE q * m
    <3> HIDE DEF q, m, r
    <3>1. q \in Int /\ m \in Int
      BY <1>1, <1>2
    <3>2. (-q) * m = -(q * m) /\ q * (-m) = -(q * m) /\ (-q) * (-m) = q * m
      BY <3>1
    <3> QED BY <1>4, <2>3, <3>2
  <2>5. a = Quotient(a, b) * b + s
    <3> DEFINE p == q * m
    <3>1. p \in Int /\ r \in Int
      BY <1>1, <1>2
    <3> HIDE DEF q, m, r, p
    <3>2. Quotient(a, b) * b = IF a < 0 THEN -p ELSE p
      BY <2>4 DEF p
    <3>3. a = IF a < 0 THEN -(p + r) ELSE p + r
      BY <2>2 DEF p
    <3> QED BY <3>1, <3>2, <3>3
  <2> HIDE DEF s, m
  <2> QED BY <2>1, <2>5
<1>7. a # 0 => n # 0
  BY DEF Magnitude
<1> HIDE DEF q, r
<1> QED BY <1>3, <1>5, <1>6, <1>7

\* What the three instructions of such a program leave in the registers they write.
First(n, a, b) ==
  CASE n = "product" -> (Signed(a) * Signed(b)) % M
    [] n = "udivide" -> IF b = 0 THEN 0 ELSE a \div b
    [] n = "sdivide" -> IF b = 0 THEN (IF Negative(a) THEN M - 1 ELSE 0)
                        ELSE IF Signed(a) = -(M \div 2) /\ b = M - 1 THEN 0
                        ELSE Quotient(Signed(a), Signed(b)) % M

Second(n, a, b) ==
  IF n = "product" THEN (a * b) \div M ELSE (Signed(First(n, a, b)) * Signed(b)) % M

Third(n, a, b) ==
  IF n = "product" THEN ((Signed(a) * Signed(b)) \div M) % M ELSE Sub(a, Second(n, a, b))

\* Signed or not, a product has the same low word.
SameLowWord(a, b) == (Signed(a) * Signed(b)) % M = (a * b) % M

LEMMA LowProduct ==
  ASSUME NEW a \in Reg, NEW b \in Reg
  PROVE  SameLowWord(a, b)
<1> DEFINE x == Signed(a)
           y == Signed(b)
           p == x * y
           u == a * b
<1>1. /\ x \in Int /\ -M <= 2 * x /\ 2 * x < M
      /\ y \in Int /\ -M <= 2 * y /\ 2 * y < M
  BY SignedWord
<1>2. PICK e \in {0, 1}, f \in {0, 1} : x = a - e * M /\ y = b - f * M
  BY SignedWord
<1>3. M \in Nat /\ M >= 16 /\ a \in Int /\ b \in Int /\ 0 <= a /\ a < M /\ 0 <= b /\ b < M
  BY WordSize DEF Reg
<1> HIDE DEF x, y
<1>4. p \in Int /\ u \in Int
  BY <1>1, <1>3
<1>5. \E k \in Int : p = u - k * M
  <2>1. CASE e = 0 /\ f = 0
    <3>1. p = u - 0 * M
      BY <1>2, <1>3, <2>1
    <3> QED BY <3>1
  <2>2. CASE e = 1 /\ f = 0
    <3>1. p = u - b * M
      BY <1>2, <1>3, <2>2
    <3> QED BY <1>3, <3>1
  <2>3. CASE e = 0 /\ f = 1
    <3>1. p = u - a * M
      BY <1>2, <1>3, <2>3
    <3> QED BY <1>3, <3>1
  <2>4. CASE e = 1 /\ f = 1
    <3>1. p = u - (a + b - M) * M
      BY <1>2, <1>3, <2>4
    <3>2. a + b - M \in Int
      BY <1>3
    <3> HIDE DEF p, u
    <3> WITNESS a + b - M \in Int
    <3> QED BY <3>1
  <2> HIDE DEF p, u
  <2> QED BY <1>2, <2>1, <2>2, <2>3, <2>4
<1> HIDE DEF p, u
<1>6. u % M = p % M
  <2>1. PICK k \in Int : p = u - k * M
    BY <1>5
  <2> DEFINE c == p % M
             q == p \div M
  <2>2. q \in Int /\ c \in Int /\ 0 <= c /\ c < M /\ p = q * M + c
    BY <1>3, <1>4
  <2> HIDE DEF c, q
  <2>3. PICK t \in Int : u = t * M + c
    <3>1. q + k \in Int /\ u = (q + k) * M + c
      BY <1>3, <1>4, <2>1, <2>2
    <3> QED BY <3>1
  <2>4. (t * M + c) % M = c
    BY <1>3, <2>2, DivMod
  <2> QED BY <2>3, <2>4 DEF c
<1> QED BY <1>6 DEF SameLowWord, p, u, x, y

\* The high words and the low word of a product are the whole of it.
WholeProduct(a, b) ==
  /\ Second("product", a, b) * M + First("product", a, b) = a * b
  /\ Signed(Third("product", a, b)) * M + First("product", a, b) = Signed(a) * Signed(b)

LEMMA ProductParts ==
  ASSUME NEW a \in Reg, NEW b \in Reg
  PROVE  /\ First("product", a, b) \in Reg
         /\ Second("product", a, b) \in Reg
         /\ Third("product", a, b) \in Reg
         /\ WholeProduct(a, b)
<1> DEFINE x == Signed(a)
           y == Signed(b)
           p == x * y
           u == a * b
           q == p \div M
<1>1. /\ x \in Int /\ -M <= 2 * x /\ 2 * x < M
      /\ y \in Int /\ -M <= 2 * y /\ 2 * y < M
  BY SignedWord
<1>2. SameLowWord(a, b)
  BY LowProduct
<1>3. M \in Nat /\ M >= 16 /\ a \in Int /\ b \in Int /\ 0 <= a /\ a < M /\ 0 <= b /\ b < M
  BY WordSize DEF Reg
<1>4. u % M = p % M
  BY <1>2 DEF SameLowWord
<1> HIDE DEF x, y
<1>5. p \in Int /\ u \in Int /\ q \in Int
  BY <1>1, <1>3
<1>6. 0 <= u /\ u < M * M
  BY <1>3
<1>7. -(M * M) <= 4 * p /\ 4 * p <= M * M
  <2> DEFINE s == 2 * x
             t == 2 * y
  <2>1. s \in Int /\ t \in Int /\ -M <= s /\ s <= M /\ -M <= t /\ t <= M /\ 4 * p = s * t
    BY <1>1, <1>3
  <2> HIDE DEF s, t
  <2>2. -(M * M) <= s * t /\ s * t <= M * M
    <3>1. (M - s) * (M + t) >= 0 /\ (M + s) * (M - t) >= 0
          /\ (M - s) * (M - t) >= 0 /\ (M + s) * (M + t) >= 0
      BY <1>3, <2>1
    <3> DEFINE st == s * t
               mm == M * M
               ms == M * s
               mt == M * t
    <3>2. /\ (M - s) * (M + t) = mm + mt - ms - st /\ (M + s) * (M - t) = mm - mt + ms - st
          /\ (M - s) * (M - t) = mm - mt - ms + st /\ (M + s) * (M + t) = mm + mt + ms + st
      BY <1>3, <2>1
    <3>3. st \in Int /\ mm \in Int /\ ms \in Int /\ mt \in Int
      BY <1>3, <2>1
    <3> HIDE DEF st, mm, ms, mt
    <3>4. -mm <= st /\ st <= mm
      BY <3>1, <3>2, <3>3
    <3> QED BY <3>4 DEF st, mm
  <2> QED BY <2>1, <2>2
<1> HIDE DEF p, u
<1>8. p % M \in Reg
  BY <1>5, Wrap
<1>9. u = (u \div M) * M + (u % M) /\ u \div M \in Reg
  <2> DEFINE h == u \div M
  <2>1. h \in Int /\ u = h * M + (u % M) /\ u % M \in Nat /\ u % M < M
    BY <1>3, <1>5
  <2> HIDE DEF h
  <2>2. h * M <= u
    BY <1>3, <1>5, <2>1
  <2>3. h < M
    <3>1. h >= M => h * M >= M * M
      BY <1>3, <2>1
    <3> QED BY <1>3, <1>5, <1>6, <2>1, <2>2, <3>1
  <2>4. h >= 0
    <3>1. h <= -1 => h * M <= (-1) * M
      BY <1>3, <2>1
    <3> QED BY <1>3, <1>5, <1>6, <2>1, <3>1
  <2>5. h \in Reg
    BY <1>3, <2>1, <2>3, <2>4 DEF Reg
  <2> QED BY <2>1, <2>5 DEF h
<1>10. -M <= 2 * q /\ 2 * q < M
  <2>1. q * M <= p /\ p < q * M + M
    BY <1>3, <1>5
  <2> DEFINE qm == q * M
             mm == M * M
  <2>2. qm \in Int /\ mm \in Int
    BY <1>3, <1>5
  <2>3. -mm <= 4 * qm + 4 * M /\ 4 * qm <= mm
    <3> HIDE DEF qm, mm, q
    <3> QED BY <1>3, <1>5, <1>7, <2>1, <2>2 DEF qm, mm
  <2> HIDE DEF q
  <2>4. 4 * q <= M
    <3>1. 4 * q >= M + 1 => 4 * q * M >= (M + 1) * M
      BY <1>3, <1>5
    <3> QED BY <1>3, <1>5, <2>3, <3>1
  <2>5. 4 * q + 4 >= -M
    <3>1. 4 * q + 4 <= -M - 1 => (4 * q + 4) * M <= (-M - 1) * M
      BY <1>3, <1>5
    <3> QED BY <1>3, <1>5, <2>3, <3>1
  <2> QED BY <1>3, <1>5, <2>4, <2>5
<1>11. q % M \in Reg /\ Signed(q % M) = q
  BY <1>5, <1>10, WordOf
<1>12. q * M + (p % M) = p
  BY <1>3, <1>5
<1> HIDE DEF q
<1>13. (u \div M) * M + (p % M) = u /\ Signed(q % M) * M + (p % M) = p
  BY <1>4, <1>9, <1>11, <1>12
<1>14. /\ First("product", a, b) = p % M
       /\ Second("product", a, b) = u \div M
       /\ Third("product", a, b) = q % M
  BY DEF First, Second, Third, p, u, q, x, y
<1>15. WholeProduct(a, b) <=> (u \div M) * M + (p % M) = u /\ Signed(q % M) * M + (p % M) = p
  BY <1>14 DEF WholeProduct, p, u, x, y
<1> QED BY <1>8, <1>9, <1>11, <1>13, <1>14, <1>15

\* An unsigned quotient, multiplied back as if it was signed, leaves the remainder.
WholeQuotient(a, b) ==
  b # 0 => /\ a = First("udivide", a, b) * b + Third("udivide", a, b)
           /\ Third("udivide", a, b) < b

LEMMA UnsignedDivision ==
  ASSUME NEW a \in Reg, NEW b \in Reg
  PROVE  /\ First("udivide", a, b) \in Reg
         /\ Second("udivide", a, b) \in Reg
         /\ Third("udivide", a, b) \in Reg
         /\ WholeQuotient(a, b)
<1> DEFINE q == IF b = 0 THEN 0 ELSE a \div b
           product == (Signed(q) * Signed(b)) % M
           r == Sub(a, product)
<1>1. M \in Nat /\ M >= 16 /\ a \in Nat /\ b \in Nat /\ a < M /\ b < M
  BY WordSize DEF Reg
<1>2. q \in Nat /\ q <= a /\ q \in Reg
  <2>1. CASE b = 0
    BY <1>1, <2>1, WordSize
  <2>2. CASE b # 0
    <3> DEFINE d == a \div b
    <3>1. d \in Nat /\ d * b <= a
      BY <1>1, <2>2
    <3> HIDE DEF d
    <3>2. d * b >= d
      BY <1>1, <2>2, <3>1
    <3>3. d \in Nat /\ d <= a /\ d \in Reg
      BY <1>1, <3>1, <3>2 DEF Reg
    <3> QED BY <2>2, <3>3 DEF d
  <2> QED BY <2>1, <2>2
<1>3. product \in Reg /\ r \in Reg
  <2>1. Signed(q) \in Int /\ Signed(b) \in Int
    BY <1>2, SignedWord
  <2>2. Signed(q) * Signed(b) \in Int
    BY <2>1
  <2>3. product \in Reg
    BY <2>2, Wrap
  <2>4. a - product \in Int
    BY <1>1, <2>3 DEF Reg
  <2> HIDE DEF product
  <2> QED BY <2>3, <2>4, Wrap DEF Sub
<1>4. ASSUME b # 0 PROVE a = q * b + r /\ r < b
  <2>1. q = a \div b
    BY <1>4
  <2>2. a = q * b + (a % b) /\ a % b \in Nat /\ a % b < b
    BY <1>1, <1>4, <2>1
  <2>3. (q * b) \in Nat /\ q * b <= a
    <3> HIDE DEF q
    <3> QED BY <1>1, <1>2, <2>2
  <2>4. product = (q * b) % M
    <3>1. SameLowWord(q, b)
      BY <1>2, LowProduct
    <3> QED BY <3>1 DEF SameLowWord
  <2>5. product = q * b
    <3> DEFINE p == q * b
    <3>1. p \in Nat /\ p < M /\ product = p % M
      BY <1>1, <2>3, <2>4
    <3> HIDE DEF p, product
    <3>2. product = p
      BY <1>1, <3>1
    <3> QED BY <3>2 DEF p
  <2>6. r = a % b
    <3> DEFINE p == q * b
               c == a % b
    <3>1. p \in Nat /\ a = p + c /\ c \in Nat /\ c < b /\ product = p
      BY <2>2, <2>3, <2>5
    <3>2. r = (a - product) % M
      BY DEF Sub
    <3> HIDE DEF p, c, product, r, q
    <3>3. a - product = c
      BY <1>1, <3>1
    <3>4. r = c
      BY <1>1, <3>1, <3>2, <3>3
    <3> QED BY <3>4 DEF c
  <2> HIDE DEF q, r, product
  <2> QED BY <2>2, <2>6
<1>5. /\ First("udivide", a, b) = q
      /\ Second("udivide", a, b) = product
      /\ Third("udivide", a, b) = r
  BY DEF First, Second, Third
<1> HIDE DEF q, product, r
<1> QED BY <1>2, <1>3, <1>4, <1>5 DEF WholeQuotient

\* A signed quotient that is a word leaves the remainder that it should.
WholeSignedQuotient(a, b) ==
  LET q == Signed(First("sdivide", a, b))
      r == Signed(Third("sdivide", a, b))
  IN b # 0 /\ ~(a = M \div 2 /\ Signed(b) = -1) =>
       /\ Signed(a) = q * Signed(b) + r
       /\ Magnitude(r) < Magnitude(Signed(b))
       /\ r # 0 => (r < 0 <=> Signed(a) < 0)

LEMMA SignedDivision ==
  ASSUME NEW a \in Reg, NEW b \in Reg
  PROVE  /\ First("sdivide", a, b) \in Reg
         /\ Second("sdivide", a, b) \in Reg
         /\ Third("sdivide", a, b) \in Reg
         /\ WholeSignedQuotient(a, b)
<1> DEFINE q == IF b = 0 THEN (IF Negative(a) THEN M - 1 ELSE 0)
                ELSE IF Signed(a) = -(M \div 2) /\ b = M - 1 THEN 0
                ELSE Quotient(Signed(a), Signed(b)) % M
           product == (Signed(q) * Signed(b)) % M
           r == Sub(a, product)
           x == Signed(a)
           y == Signed(b)
<1>1. M \in Nat /\ M >= 16 /\ a \in Nat /\ b \in Nat /\ a < M /\ b < M
  BY WordSize DEF Reg
<1>2. /\ x \in Int /\ -M <= 2 * x /\ 2 * x < M /\ (y = 0 <=> b = 0)
      /\ y \in Int /\ -M <= 2 * y /\ 2 * y < M /\ (y = -1 <=> b = M - 1)
      /\ x = -(M \div 2) <=> a = M \div 2
  BY SignedWord
<1>3. PICK e \in {0, 1} : x = a - e * M
  BY SignedWord
<1>4. q \in Reg
  <2>1. b # 0 => Quotient(x, y) \in Int
    BY <1>2, QuotientAndRemainder
  <2>2. b # 0 => Quotient(x, y) % M \in Reg
    BY <2>1, Wrap
  <2> QED BY <2>2, WordSize
<1>5. product \in Reg /\ r \in Reg
  <2>1. Signed(q) \in Int /\ Signed(b) \in Int
    BY <1>4, SignedWord
  <2>2. Signed(q) * Signed(b) \in Int
    BY <2>1
  <2>3. product \in Reg
    BY <2>2, Wrap
  <2>4. a - product \in Int
    BY <1>1, <2>3 DEF Reg
  <2> HIDE DEF product
  <2> QED BY <2>3, <2>4, Wrap DEF Sub
<1>6. ASSUME b # 0, ~(a = M \div 2 /\ y = -1)
      PROVE  /\ x = Signed(q) * y + Signed(r)
             /\ Magnitude(Signed(r)) < Magnitude(y)
             /\ Signed(r) # 0 => (Signed(r) < 0 <=> x < 0)
  <2> DEFINE t == Quotient(x, y)
  <2>1. PICK s \in Int : /\ x = t * y + s
                         /\ Magnitude(s) < Magnitude(y)
                         /\ s # 0 => (s < 0 <=> x < 0)
    BY <1>2, <1>6, QuotientAndRemainder
  <2>2. t \in Int /\ Magnitude(t) <= Magnitude(x)
        /\ (Magnitude(t) = Magnitude(x) /\ x # 0 => Magnitude(y) = 1)
    BY <1>2, <1>6, QuotientAndRemainder
  <2>3. q = t % M
    BY <1>2, <1>6
  <2> HIDE DEF q, t, x, y
  <2>4. -M <= 2 * t /\ 2 * t < M
    <3>1. Magnitude(t) = Magnitude(x) /\ x = -(M \div 2) /\ t > 0 => y # 1
      <4>1. ASSUME x = -(M \div 2), t > 0, y = 1 PROVE FALSE
        <5>1. x = t + s
          BY <1>2, <2>1, <2>2, <4>1
        <5>2. s = 0
          BY <2>1, <4>1 DEF Magnitude
        <5> QED BY <1>1, <2>2, <4>1, <5>1, <5>2, HalfWord
      <4> QED BY <4>1
    <3>2. ~(x = -(M \div 2) /\ y = -1)
      BY <1>2, <1>6
    <3> QED BY <1>1, <1>2, <2>2, <3>1, <3>2, HalfWord DEF Magnitude
  <2>5. Signed(q) = t
    BY <2>2, <2>3, <2>4, WordOf
  <2>6. r = s % M
    <3> DEFINE p == t * y
    <3>1. p \in Int /\ product = p % M
      BY <1>2, <2>2, <2>5 DEF y
    <3>2. x = p + s /\ r = (a - product) % M
      BY <2>1 DEF Sub
    <3> HIDE DEF p, product, r
    <3>3. PICK k \in Int : product = p - k * M
      <4> DEFINE k == p \div M
      <4>1. k \in Int /\ product = p - k * M
        BY <1>1, <3>1
      <4> QED BY <4>1
    <3>4. a - product = s + (e + k) * M
      BY <1>1, <1>3, <3>1, <3>2, <3>3
    <3> DEFINE c == s % M
               j == s \div M
    <3>5. c \in Int /\ 0 <= c /\ c < M /\ j \in Int /\ s = j * M + c
      BY <1>1
    <3> HIDE DEF c, j
    <3>6. PICK l \in Int : a - product = l * M + c
      <4> DEFINE z == j + e + k
      <4>1. z \in Int /\ a - product = z * M + c
        BY <1>1, <3>3, <3>4, <3>5
      <4> HIDE DEF z
      <4> QED BY <4>1
    <3>7. (l * M + c) % M = c
      BY <1>1, <3>5, DivMod
    <3> QED BY <3>2, <3>6, <3>7 DEF c
  <2>7. -M <= 2 * s /\ 2 * s < M
    BY <1>1, <1>2, <2>1 DEF Magnitude
  <2>8. Signed(r) = s
    BY <2>6, <2>7, WordOf
  <2> QED BY <2>1, <2>5, <2>8
<1>7. /\ First("sdivide", a, b) = q
      /\ Second("sdivide", a, b) = product
      /\ Third("sdivide", a, b) = r
  BY DEF First, Second, Third
<1> HIDE DEF q, product, r
<1> QED BY <1>4, <1>5, <1>6, <1>7 DEF WholeSignedQuotient

\* The programs' instructions, and what they compute.
LEMMA DividingCode ==
  /\ OneCode["product"] =
       << Op("mullwx", 5, 1, 2), Op("mulhwux", 6, 1, 2), Op("mulhwx", 3, 1, 2) >>
  /\ OneCode["udivide"] = << Op("divwux", 5, 1, 2), Op("mullwx", 6, 5, 2), Op("subfx", 6, 6, 1) >>
  /\ OneCode["sdivide"] = << Op("divwx", 5, 1, 2), Op("mullwx", 6, 5, 2), Op("subfx", 6, 6, 1) >>
  /\ Dividing \subseteq DOMAIN OneCode
BY DEF OneCode, Dividing

LEMMA DividingShape ==
  ASSUME NEW n \in Dividing
  PROVE  /\ OneCode[n] # <<>>
         /\ Head(OneCode[n]) = OneCode[n][1]
         /\ Tail(OneCode[n]) = << OneCode[n][2], OneCode[n][3] >>
         /\ \A k \in 1..3 : /\ OneCode[n][k].op \in PlainOps
                            /\ OneCode[n][k].OE = FALSE /\ OneCode[n][k].Rc = FALSE
         /\ OneCode[n][1].D = 5 /\ OneCode[n][2].D = 6
         /\ OneCode[n][3].D = IF n = "product" THEN 3 ELSE 6
<1>1. \E i, j, k : /\ OneCode[n] = << i, j, k >>
                   /\ i.op \in PlainOps /\ i.OE = FALSE /\ i.Rc = FALSE /\ i.D = 5
                   /\ j.op \in PlainOps /\ j.OE = FALSE /\ j.Rc = FALSE /\ j.D = 6
                   /\ k.op \in PlainOps /\ k.OE = FALSE /\ k.Rc = FALSE
                   /\ k.D = IF n = "product" THEN 3 ELSE 6
  <2>1. {"mullwx", "mulhwux", "mulhwx", "divwux", "divwx", "subfx"} \subseteq PlainOps
    BY DEF PlainOps
  <2> QED BY <2>1, OpFields, DividingCode DEF Dividing
<1> QED BY <1>1

LEMMA PlainResults ==
  ASSUME NEW i
  PROVE  /\ i.op = "mullwx" => Result(i) = (Signed(gpr[i.A]) * Signed(gpr[i.B])) % M
         /\ i.op = "mulhwux" => Result(i) = (gpr[i.A] * gpr[i.B]) \div M
         /\ i.op = "mulhwx" => Result(i) = ((Signed(gpr[i.A]) * Signed(gpr[i.B])) \div M) % M
         /\ i.op = "subfx" => Result(i) = Sub(gpr[i.B], gpr[i.A])
         /\ i.op = "divwux" => Result(i) = First("udivide", gpr[i.A], gpr[i.B])
         /\ i.op = "divwx" => Result(i) = First("sdivide", gpr[i.A], gpr[i.B])
BY DEF Result, First

LEMMA DividingResults ==
  ASSUME NEW n \in Dividing, NEW a, NEW b, gpr[1] = a, gpr[2] = b
  PROVE  /\ Result(OneCode[n][1]) = First(n, a, b)
         /\ gpr[5] = First(n, a, b) => Result(OneCode[n][2]) = Second(n, a, b)
         /\ gpr[5] = First(n, a, b) /\ gpr[6] = Second(n, a, b) =>
              Result(OneCode[n][3]) = Third(n, a, b)
<1>1. CASE n = "product"
  BY <1>1, DividingCode, OpFields, PlainResults DEF First, Second, Third
<1>2. CASE n = "udivide"
  <2>1. Result(OneCode[n][1]) = First(n, a, b)
    BY <1>2, DividingCode, OpFields, PlainResults
  <2>2. Result(OneCode[n][2]) = (Signed(gpr[5]) * Signed(b)) % M
    BY <1>2, DividingCode, OpFields, PlainResults
  <2>3. Result(OneCode[n][3]) = Sub(a, gpr[6])
    BY <1>2, DividingCode, OpFields, PlainResults
  <2> QED BY <1>2, <2>1, <2>2, <2>3 DEF Second, Third
<1>3. CASE n = "sdivide"
  <2>1. Result(OneCode[n][1]) = First(n, a, b)
    BY <1>3, DividingCode, OpFields, PlainResults
  <2>2. Result(OneCode[n][2]) = (Signed(gpr[5]) * Signed(b)) % M
    BY <1>3, DividingCode, OpFields, PlainResults
  <2>3. Result(OneCode[n][3]) = Sub(a, gpr[6])
    BY <1>3, DividingCode, OpFields, PlainResults
  <2> QED BY <1>3, <2>1, <2>2, <2>3 DEF Second, Third
<1> QED BY <1>1, <1>2, <1>3 DEF Dividing

LEMMA DividingValues ==
  ASSUME NEW n \in Dividing, NEW a \in Reg, NEW b \in Reg
  PROVE  First(n, a, b) \in Reg /\ Second(n, a, b) \in Reg /\ Third(n, a, b) \in Reg
BY ProductParts, UnsignedDivision, SignedDivision DEF Dividing

LEMMA DividingForm ==
  ASSUME NEW p \in Program, p.name \in Dividing
  PROVE  p.gpr \in [GPR -> Reg] /\ p.code = OneCode[p.name]
<1>1. Sample \subseteq Reg /\ 0 \in Reg
  BY GuestProgramsAssumption, WordSize
<1>2. PICK n \in DOMAIN OneCode, a \in Reg, b \in Reg : p = OneProgram(n, a, b)
  <2>1. p \in OnePrograms
    BY KindOf, DividingCode
  <2> QED BY <1>1, <2>1, ProgramForms
<1>3. p.name = n /\ p.code = OneCode[n]
  BY <1>2 DEF OneProgram, Prog
<1>4. p.gpr = [r \in GPR |-> IF r \in 1..2 THEN <<a, b>>[r] ELSE 0]
  BY <1>2 DEF OneProgram, Prog
<1>5. \A r \in 1..2 : <<a, b>>[r] \in Reg
  OBVIOUS
<1> QED BY <1>1, <1>3, <1>4, <1>5

\* Such a program by the instructions that are left of it.
DividingProgress ==
  LET n == initial.name
      first == First(n, Old(1), Old(2))
      second == Second(n, Old(1), Old(2))
      third == Third(n, Old(1), Old(2))
  IN /\ gpr \in [GPR -> Reg] /\ gpr[1] = Old(1) /\ gpr[2] = Old(2)
     /\ \/ code = OneCode[n]
        \/ code = << OneCode[n][2], OneCode[n][3] >> /\ gpr[5] = first
        \/ code = << OneCode[n][3] >> /\ gpr[5] = first /\ gpr[6] = second
        \/ /\ code = <<>> /\ gpr[5] = first
           /\ IF n = "product" THEN gpr[6] = second /\ gpr[3] = third ELSE gpr[6] = third

DividingInv == initial \in Program /\ (initial.name \in Dividing => DividingProgress)

LEMMA DividingStart == InitProgram => DividingInv
<1> SUFFICES ASSUME InitProgram, initial.name \in Dividing PROVE DividingProgress
  BY DEF InitProgram, DividingInv
<1> QED BY DividingForm DEF InitProgram, DividingProgress, Old

LEMMA DividingNext ==
  ASSUME DividingInv, [StepProgram]_machineVars
  PROVE  DividingInv'
<1>1. CASE UNCHANGED machineVars
  BY <1>1 DEF DividingInv, DividingProgress, Old, machineVars
<1>2. CASE StepProgram
  <2>1. initial' = initial /\ code # <<>> /\ Execute(Head(code)) /\ code' = Tail(code)
    BY <1>2 DEF StepProgram
  <2> SUFFICES ASSUME initial.name \in Dividing PROVE DividingProgress'
    BY <2>1 DEF DividingInv
  <2> DEFINE n == initial.name
             a == Old(1)
             b == Old(2)
  <2>2. DividingProgress
    BY DEF DividingInv
  <2>3. gpr \in [GPR -> Reg] /\ gpr[1] = a /\ gpr[2] = b /\ {1, 2, 3, 5, 6} \subseteq GPR
    BY <2>2, GuestProgramsAssumption, LoadStoreAssumption DEF DividingProgress
  <2>4. a \in Reg /\ b \in Reg
    BY <2>3
  <2>5. First(n, a, b) \in Reg /\ Second(n, a, b) \in Reg /\ Third(n, a, b) \in Reg
    BY <2>4, DividingValues
  <2>6. n' = n /\ a' = a /\ b' = b /\ n \in Dividing
    BY <2>1 DEF Old
  <2>7. ASSUME NEW k \in 1..3, Head(code) = OneCode[n][k], NEW d, d = OneCode[n][k].D
        PROVE  gpr' = [gpr EXCEPT ![d] = Result(OneCode[n][k])]
    BY <2>1, <2>7, DividingShape, PlainStep
  <2> HIDE DEF n, a, b
  <2>8. CASE code = OneCode[n]
    <3>1. Head(code) = OneCode[n][1] /\ Tail(code) = << OneCode[n][2], OneCode[n][3] >>
      BY <2>8, DividingShape DEF n
    <3>2. gpr' = [gpr EXCEPT ![5] = First(n, a, b)]
      <4>0. OneCode[n][1].D = 5
        BY <2>6, DividingShape
      <4>1. Result(OneCode[n][1]) = First(n, a, b)
        BY <2>3, <2>6, DividingResults
      <4> QED BY <2>7, <3>1, <4>0, <4>1
    <3> QED BY <2>1, <2>3, <2>5, <2>6, <3>1, <3>2 DEF DividingProgress, n, a, b
  <2>9. CASE code = << OneCode[n][2], OneCode[n][3] >> /\ gpr[5] = First(n, a, b)
    <3>1. Head(code) = OneCode[n][2] /\ Tail(code) = << OneCode[n][3] >>
      BY <2>9
    <3>2. gpr' = [gpr EXCEPT ![6] = Second(n, a, b)]
      <4>0. OneCode[n][2].D = 6
        BY <2>6, DividingShape
      <4>1. Result(OneCode[n][2]) = Second(n, a, b)
        BY <2>3, <2>6, <2>9, DividingResults
      <4> QED BY <2>7, <3>1, <4>0, <4>1
    <3> QED BY <2>1, <2>3, <2>5, <2>6, <2>9, <3>1, <3>2 DEF DividingProgress, n, a, b
  <2>10. CASE /\ code = << OneCode[n][3] >>
              /\ gpr[5] = First(n, a, b) /\ gpr[6] = Second(n, a, b)
    <3>1. Head(code) = OneCode[n][3] /\ Tail(code) = <<>>
      BY <2>10
    <3>2. gpr' = [gpr EXCEPT ![IF n = "product" THEN 3 ELSE 6] = Third(n, a, b)]
      <4>0. OneCode[n][3].D = IF n = "product" THEN 3 ELSE 6
        BY <2>6, DividingShape
      <4>1. Result(OneCode[n][3]) = Third(n, a, b)
        BY <2>3, <2>6, <2>10, DividingResults
      <4> QED BY <2>7, <3>1, <4>0, <4>1
    <3> QED BY <2>1, <2>3, <2>5, <2>6, <2>10, <3>1, <3>2 DEF DividingProgress, n, a, b
  <2> QED BY <2>1, <2>2, <2>8, <2>9, <2>10 DEF DividingProgress, n, a, b
<1> QED BY <1>1, <1>2

LEMMA DividingEnd == DividingInv => ProductsAndQuotientsAgree
<1> SUFFICES ASSUME DividingInv, Ends(Dividing) PROVE ProductsAndQuotientsAgree
  BY DEF ProductsAndQuotientsAgree, Ends, Dividing
<1> DEFINE n == initial.name
           a == Old(1)
           b == Old(2)
<1>1. DividingProgress /\ code = <<>> /\ n \in Dividing
  BY DEF DividingInv, Ends
<1>2. OneCode[n] # <<>>
  BY <1>1, DividingShape
<1>3. gpr[5] = First(n, a, b)
      /\ IF n = "product" THEN gpr[6] = Second(n, a, b) /\ gpr[3] = Third(n, a, b)
                          ELSE gpr[6] = Third(n, a, b)
  BY <1>1, <1>2 DEF DividingProgress
<1>4. a \in Reg /\ b \in Reg
  BY <1>1, GuestProgramsAssumption, LoadStoreAssumption DEF DividingProgress
<1>5. Signed(b) # 0 <=> b # 0
  BY <1>4, SignedWord
<1>6. CASE n = "product"
  BY <1>3, <1>4, <1>6, ProductParts DEF WholeProduct, ProductsAndQuotientsAgree, Ends, Wide, Old
<1>7. CASE n = "udivide"
  BY <1>3, <1>4, <1>5, <1>7, UnsignedDivision DEF WholeQuotient, ProductsAndQuotientsAgree, Ends
<1>8. CASE n = "sdivide"
  BY <1>3, <1>4, <1>5, <1>8, SignedDivision
     DEF WholeSignedQuotient, ProductsAndQuotientsAgree, Ends
<1> QED BY <1>1, <1>6, <1>7, <1>8 DEF Dividing

-----------------------------------------------------------------------------
(* The bits of a word *)

\* The last bit of a number does not matter to what is before it.
LEMMA Halving ==
  ASSUME NEW a \in Nat, NEW e \in {0, 1}, NEW p \in Nat \ {0}
  PROVE  (2 * a + e) \div (2 * p) = a \div p
<1> DEFINE q == a \div p
           r == a % p
<1>1. q \in Int /\ r \in Nat /\ r < p /\ a = q * p + r
  OBVIOUS
<1> HIDE DEF q, r
<1> DEFINE m == 2 * p
           s == 2 * r + e
<1>2. m \in Nat /\ m > 0 /\ s \in Int /\ 0 <= s /\ s < m
  BY <1>1
<1>3. 2 * a + e = q * m + s
  BY <1>1
<1> HIDE DEF m, s
<1>4. (q * m + s) \div m = q
  BY <1>1, <1>2, DivMod
<1> QED BY <1>3, <1>4 DEF m, q

\* Every set of bit numbers is a word's.
WordsTo(n) == \A X \in SUBSET (0..(n - 1)) : \E a \in 0..(Power[n] - 1) : Bit(a) = X

LEMMA BitsOfSome ==
  ASSUME NEW S \in SUBSET (0..(W - 1))
  PROVE  \E a \in Reg : Bit(a) = S
<1> DEFINE T == {n \in Nat : n <= W => WordsTo(n)}
<1>1. 0 \in T
  <2>1. Power[0] = 1
    BY Powers
  <2>2. \A k \in 0..(W - 1) : Power[k] \in Nat \ {0}
    BY Powers, WidthAssumption
  <2>3. \A k \in 0..(W - 1) : 0 \div Power[k] = 0
    BY <2>2
  <2>4. Bit(0) = {}
    BY <2>3 DEF Bit
  <2>5. \A X \in SUBSET (0..(0 - 1)) : X = {}
    OBVIOUS
  <2>6. 0 \in 0..(Power[0] - 1)
    BY <2>1
  <2> QED BY <2>4, <2>5, <2>6 DEF WordsTo
<1>2. ASSUME NEW n \in Nat, n \in T PROVE n + 1 \in T
  <2> SUFFICES ASSUME n + 1 <= W, NEW X \in SUBSET (0..n)
               PROVE  \E a \in 0..(Power[n + 1] - 1) : Bit(a) = X
    BY DEF WordsTo
  <2> DEFINE Y == {k \in 0..(n - 1) : k + 1 \in X}
             e == IF 0 \in X THEN 1 ELSE 0
  <2>0. W \in Nat /\ n \in 0..(2 * W) /\ n + 1 \in 0..(2 * W)
    BY WidthAssumption
  <2>1. PICK b \in 0..(Power[n] - 1) : Bit(b) = Y
    <3>1. WordsTo(n)
      <4>1. n <= W
        BY <2>0
      <4> QED BY <1>2, <4>1
    <3>2. Y \in SUBSET (0..(n - 1))
      OBVIOUS
    <3> HIDE DEF Y
    <3> QED BY <3>1, <3>2 DEF WordsTo
  <2>2. Power[n + 1] = 2 * Power[n] /\ Power[n] \in Nat
    BY <2>0, Powers
  <2> DEFINE a == 2 * b + e
  <2>3. b \in Nat /\ e \in {0, 1} /\ a \in 0..(Power[n + 1] - 1)
    BY <2>2
  <2>4. ASSUME NEW k \in 0..(W - 1)
        PROVE  (a \div Power[k]) % 2 = 1 <=> k \in X
    <3>1. CASE k = 0
      <4>1. a \div Power[k] = a
        BY <2>3, <3>1, Powers
      <4>2. a % 2 = 1 <=> 0 \in X
        BY <2>3
      <4> QED BY <3>1, <4>1, <4>2
    <3>2. CASE k # 0
      <4>1. k - 1 \in 0..(W - 1) /\ k \in 0..(2 * W) /\ k - 1 \in 0..(2 * W)
        BY <2>0, <3>2
      <4>2. Power[k] = 2 * Power[k - 1] /\ Power[k - 1] \in Nat \ {0}
        BY <3>2, <4>1, Powers
      <4>3. a \div Power[k] = b \div Power[k - 1]
        <5> DEFINE p == Power[k - 1]
        <5>1. p \in Nat \ {0} /\ Power[k] = 2 * p
          BY <4>2
        <5> HIDE DEF p, e
        <5>2. (2 * b + e) \div (2 * p) = b \div p
          BY <2>3, <5>1, Halving
        <5> QED BY <5>1, <5>2 DEF p
      <4>4. (b \div Power[k - 1]) % 2 = 1 <=> k - 1 \in Y
        BY <2>1, <4>1 DEF Bit
      <4>5. k - 1 \in Y <=> k \in X
        BY <2>0, <3>2
      <4> QED BY <4>3, <4>4, <4>5
    <3> QED BY <3>1, <3>2
  <2>5. Bit(a) = X
    <3>1. X \subseteq 0..(W - 1)
      BY <2>0
    <3> HIDE DEF a
    <3> QED BY <2>4, <3>1 DEF Bit
  <2> HIDE DEF a
  <2> QED BY <2>3, <2>5
<1> HIDE DEF T
<1>3. W \in T
  BY <1>1, <1>2, Induction, WidthAssumption
<1>4. W \in Nat /\ W <= W /\ M = Power[W]
  BY WidthAssumption
<1>5. \E a \in 0..(Power[W] - 1) : Bit(a) = S
  BY <1>3, <1>4 DEF T, WordsTo
<1> QED BY <1>4, <1>5 DEF Reg

LEMMA WordBits ==
  ASSUME NEW S \in SUBSET (0..(W - 1))
  PROVE  Word(S) \in Reg /\ Bit(Word(S)) = S
BY BitsOfSome DEF Word

-----------------------------------------------------------------------------
(* Comparisons and the condition register *)

LEMMA Fields == 0 \in CR /\ 1 \in CR /\ W \in Nat /\ W \div 4 >= 2 /\ Cardinality(CR) = W \div 4
<1>1. 0 \in CR /\ 1 \in CR /\ W \in Nat
  BY GuestProgramsAssumption, WidthAssumption
<1>2. W \div 4 \in Nat /\ W \div 4 >= 2
  BY <1>1, FieldAssumption
<1>3. Cardinality(CR) = W \div 4
  BY <1>2, FieldAssumption, FS_Interval
<1> QED BY <1>1, <1>2, <1>3

\* No two bits of the condition register have the same place.
LEMMA Positions ==
  ASSUME NEW f \in CR, NEW g \in Flag
  PROVE  /\ Position(<<f, g>>) \in 0..(W - 1)
         /\ \A e \in CR, h \in Flag : Position(<<f, g>>) = Position(<<e, h>>) => f = e /\ g = h
<1> DEFINE place(h) == CASE h = "lt" -> 0 [] h = "gt" -> 1 [] h = "eq" -> 2 [] h = "so" -> 3
<1>1. \A h \in Flag : place(h) \in 0..3
  BY DEF Flag
<1>2. \A h, k \in Flag : place(h) = place(k) => h = k
  BY DEF Flag
<1>3. \A e \in CR, h \in Flag : Position(<<e, h>>) = W - 1 - (4 * e + place(h))
  BY DEF Position
<1> HIDE DEF place
<1>4. \A e \in CR : e \in Nat /\ 4 * e + 3 <= W - 1
  BY Fields, FieldAssumption
<1>5. \A e \in CR, h \in Flag : 4 * f + place(g) = 4 * e + place(h) => f = e /\ place(g) = place(h)
  BY <1>1, <1>4
<1>6. ASSUME NEW e \in CR, NEW h \in Flag, Position(<<f, g>>) = Position(<<e, h>>)
      PROVE  f = e /\ g = h
  <2>1. 4 * f + place(g) = 4 * e + place(h)
    <3> DEFINE u == 4 * f + place(g)
               v == 4 * e + place(h)
    <3>1. Position(<<f, g>>) = W - 1 - u /\ Position(<<e, h>>) = W - 1 - v
      BY <1>3
    <3>2. u \in Int /\ v \in Int /\ W \in Int
      <4>1. f \in Nat /\ e \in Nat
        BY <1>4
      <4>2. place(g) \in Nat /\ place(h) \in Nat
        BY <1>1
      <4>3. W \in Int
        BY WidthAssumption
      <4> QED BY <4>1, <4>2, <4>3
    <3> HIDE DEF u, v
    <3>3. W - 1 - u = W - 1 - v
      BY <1>6, <3>1
    <3>4. u = v
      BY <3>2, <3>3
    <3> QED BY <3>4 DEF u, v
  <2> QED BY <1>2, <1>5, <2>1
<1> QED BY <1>1, <1>3, <1>4, <1>6, Fields

\* What mfcr saves, mtcrf restores, by fields.
LEMMA SavedFlags ==
  ASSUME NEW f \in CR, NEW g \in Flag
  PROVE  GetCR \in Reg /\ (Position(<<f, g>>) \in Bit(GetCR) <=> g \in cr[f])
<1> DEFINE S == {Position(bit) : bit \in {b \in CR \X Flag : GetCRBit(b)}}
<1>1. \A b \in CR \X Flag : \E e \in CR, h \in Flag : b = <<e, h>>
  OBVIOUS
<1>2. S \in SUBSET (0..(W - 1))
  <2>1. ASSUME NEW b \in CR \X Flag PROVE Position(b) \in 0..(W - 1)
    <3>1. PICK e \in CR, h \in Flag : b = <<e, h>>
      BY <1>1
    <3> QED BY <3>1, Positions
  <2> QED BY <2>1
<1>3. Position(<<f, g>>) \in S <=> g \in cr[f]
  <2>1. ASSUME Position(<<f, g>>) \in S PROVE g \in cr[f]
    <3>1. PICK b \in CR \X Flag : GetCRBit(b) /\ Position(b) = Position(<<f, g>>)
      BY <2>1
    <3>2. PICK e \in CR, h \in Flag : b = <<e, h>>
      BY <1>1
    <3>3. f = e /\ g = h
      BY <3>1, <3>2, Positions
    <3> QED BY <3>1, <3>2, <3>3 DEF GetCRBit
  <2>2. ASSUME g \in cr[f] PROVE Position(<<f, g>>) \in S
    <3>1. <<f, g>> \in CR \X Flag /\ GetCRBit(<<f, g>>)
      BY <2>2 DEF GetCRBit
    <3> QED BY <3>1
  <2> QED BY <2>1, <2>2
<1>4. GetCR = Word(S)
  BY DEF GetCR
<1> HIDE DEF S
<1> QED BY <1>2, <1>3, <1>4, WordBits

\* The instructions.
LEMMA CompareStep ==
  ASSUME NEW i, i.op \in {"cmp", "cmpl", "cmpli", "cmpi"}, Execute(i)
  PROVE  /\ IF so /\ i.op \in {"cmp", "cmpl"}
            THEN halt' = "Panic" /\ UNCHANGED cr
            ELSE cr' = Compare(i) /\ UNCHANGED halt
         /\ UNCHANGED <<gpr, ca, so, storeVars>>
<1>1. i.op \notin MemoryOps
  BY DEF MemoryOps, AccessSize, Unchecked
<1>2. ExecuteFixedPoint(i) /\ UNCHANGED storeVars
  BY <1>1 DEF Execute
<1>3. ExecuteCompare(i)
  BY <1>2 DEF ExecuteFixedPoint, ExecuteCarrying, ExecutePlainResult, ExecuteTrap, ExecuteCR,
     CrOps, PlainOps, Carrying
<1> QED BY <1>2, <1>3 DEF ExecuteCompare, ExecuteFixedPoint

LEMMA TrapStep ==
  ASSUME NEW i, i.op = "tw", Execute(i)
  PROVE  /\ halt' = IF Traps(i) THEN "TrapException" ELSE "no"
         /\ UNCHANGED <<gpr, ca, cr, so, storeVars>>
<1>1. i.op \notin MemoryOps
  BY DEF MemoryOps, AccessSize, Unchecked
<1>2. ExecuteFixedPoint(i) /\ UNCHANGED storeVars
  BY <1>1 DEF Execute
<1>3. ExecuteTrap(i)
  BY <1>2 DEF ExecuteFixedPoint, ExecuteCarrying, ExecutePlainResult, ExecuteCompare, ExecuteCR,
     CrOps, PlainOps, Carrying
<1> QED BY <1>2, <1>3 DEF ExecuteTrap, ExecuteFixedPoint

LEMMA FlagStep ==
  ASSUME NEW i, i.op \in {"cror", "mcrf", "mfcr", "mtcrf"}, Execute(i)
  PROVE  /\ cr' = CASE i.op = "cror"  -> SetCRBit(i.D, CrLogic(i))
                    [] i.op = "mcrf"  -> [cr EXCEPT ![i.D] = cr[i.A]]
                    [] i.op = "mfcr"  -> cr
                    [] i.op = "mtcrf" -> SetCR(MaskedFields(i.CRM), gpr[i.A])
         /\ gpr' = IF i.op = "mfcr" THEN [gpr EXCEPT ![i.D] = GetCR] ELSE gpr
         /\ UNCHANGED <<ca, so, halt, storeVars>>
<1>1. i.op \notin MemoryOps
  BY DEF MemoryOps, AccessSize, Unchecked
<1>2. ExecuteFixedPoint(i) /\ UNCHANGED storeVars
  BY <1>1 DEF Execute
<1>3. ExecuteCR(i)
  BY <1>2 DEF ExecuteFixedPoint, ExecuteCarrying, ExecutePlainResult, ExecuteCompare, ExecuteTrap,
     PlainOps, Carrying
<1> QED BY <1>2, <1>3 DEF ExecuteCR, ExecuteFixedPoint, CrOps

\* Instructions with a field of their own.
LEMMA OtherFields ==
  /\ \A a, b, TO : /\ Trap("tw", a, b, TO).op = "tw" /\ Trap("tw", a, b, TO).TO = TO
                   /\ Trap("tw", a, b, TO).A = a /\ Trap("tw", a, b, TO).B = b
  /\ \A a, CRM : /\ RestoreFields(a, CRM).op = "mtcrf"
                   /\ RestoreFields(a, CRM).A = a /\ RestoreFields(a, CRM).CRM = CRM
BY DEF Trap, RestoreFields

\* The comparisons' results.
LEMMA Compared ==
  ASSUME NEW i, cr \in [CR -> SUBSET Flag], i.D \in CR
  PROVE  /\ i.op = "cmp" => Compare(i) = [cr EXCEPT ![i.D] = Order(Signed(gpr[i.A]), Signed(gpr[i.B]))]
         /\ i.op = "cmpl" => Compare(i) = [cr EXCEPT ![i.D] = Order(gpr[i.A], gpr[i.B])]
         /\ i.op = "cmpli" /\ ~so => Compare(i) = [cr EXCEPT ![i.D] = Order(gpr[i.A], i.imm)]
         /\ i.op = "cmpi" => Compare(i) = UpdateCRx(i.D, Sub(gpr[i.A], i.imm))
BY DEF Compare

LEMMA Orders == ASSUME NEW a, NEW b PROVE Order(a, b) \in SUBSET Flag /\ "so" \notin Order(a, b)
BY DEF Order, Flag

\* The program that compares, combines and traps, by the instructions that are left of it.
CompareProgress ==
  LET signed == Order(Signed(Old(1)), Signed(Old(2)))
      unsigned == Order(Old(1), Old(2))
      c == CompareCode(initial.extra)
  IN \/ halt = "Panic" /\ code # <<>>
     \/ /\ halt = "no"
        /\ \/ code = c
           \/ code = << c[2], c[3], c[4] >> /\ ~so /\ cr[0] = signed
           \/ code = << c[3], c[4] >> /\ cr[0] = signed /\ cr[1] = unsigned
           \/ /\ code = << c[4] >>
              /\ cr[1] = unsigned \cup (IF {"gt", "eq"} \cap signed = {} THEN {} ELSE {"so"})
     \/ /\ code = <<>>
        /\ cr[1] = unsigned \cup (IF {"gt", "eq"} \cap signed = {} THEN {} ELSE {"so"})
        /\ halt = "TrapException" \/ halt = "no"
        /\ halt = "TrapException" <=> \E rel \in initial.extra : Holds(rel, Old(1), Old(2))

CompareInv ==
  initial.name = "compare" =>
    gpr = initial.gpr /\ cr \in [CR -> SUBSET Flag] /\ CompareProgress

\* Both immediate comparisons.
ImmediateProgress ==
  LET n == initial.extra
      c == << Imm("cmpi", 0, 1, n), Imm("cmpli", 1, 1, n) >>
      value == Sub(Old(1), n)
      difference == IF value = 0 THEN {"eq"} ELSE IF Negative(value) THEN {"lt"} ELSE {"gt"}
  IN \/ code = c
     \/ code = << c[2] >> /\ cr[0] = difference
     \/ code = <<>> /\ cr[0] = difference /\ cr[1] = Order(Old(1), n)

ImmediateInv ==
  initial.name = "cmpi" =>
    gpr = initial.gpr /\ ~so /\ cr \in [CR -> SUBSET Flag] /\ ImmediateProgress

\* A word has the condition register's first two fields.
Saved(w, s, t) ==
  \A g \in Flag : /\ Position(<<0, g>>) \in Bit(w) <=> g \in s
                  /\ Position(<<1, g>>) \in Bit(w) <=> g \in t

\* The program that saves the condition register, writes over it, and restores what its mask says.
KeepProgress ==
  LET signed == Order(Signed(Old(1)), Signed(Old(2)))
      unsigned == Order(Old(1), Old(2))
      c == KeepCode(initial.extra)
  IN \/ code = c
     \/ code = << c[2], c[3], c[4], c[5], c[6] >> /\ cr[0] = signed
     \/ code = << c[3], c[4], c[5], c[6] >> /\ cr[0] = signed /\ cr[1] = unsigned
     \/ /\ code = << c[4], c[5], c[6] >> /\ cr[0] = signed
        /\ Saved(gpr[5], signed, unsigned)
     \/ /\ code = << c[5], c[6] >> /\ cr[1] = signed
        /\ Saved(gpr[5], signed, unsigned)
     \/ /\ code = << c[6] >> /\ cr[0] = Order(Old(1), 3) /\ cr[1] = signed
        /\ Saved(gpr[5], signed, unsigned)
     \/ /\ code = <<>>
        /\ cr[0] = IF MaskBit(0) \in initial.extra THEN signed ELSE Order(Old(1), 3)
        /\ cr[1] = IF MaskBit(1) \in initial.extra THEN unsigned ELSE signed

KeepInv ==
  initial.name = "keep" =>
    /\ gpr \in [GPR -> Reg] /\ gpr[1] = Old(1) /\ gpr[2] = Old(2)
    /\ ~so /\ cr \in [CR -> SUBSET Flag] /\ KeepProgress

ComparisonInv == initial \in Program /\ CompareInv /\ ImmediateInv /\ KeepInv

LEMMA CompareForm ==
  ASSUME NEW p \in Program
  PROVE  /\ p.name \in {"compare", "cmpi", "keep"} => p.gpr \in [GPR -> Reg]
         /\ p.name = "compare" => /\ p.code = CompareCode(p.extra)
                                  /\ p.extra \subseteq {"lt", "gt", "eq", "llt", "lgt"}
         /\ p.name = "cmpi" => /\ p.code = << Imm("cmpi", 0, 1, p.extra), Imm("cmpli", 1, 1, p.extra) >>
                               /\ p.extra \in {0, 1, 3, 7} /\ p.so = FALSE
         /\ p.name = "keep" => /\ p.code = KeepCode(p.extra) /\ p.so = FALSE
                               /\ p.extra \subseteq {MaskBit(0), MaskBit(1)}
<1> DEFINE Filled(args) == [r \in GPR |-> IF r \in DOMAIN args THEN args[r] ELSE 0]
           Words(q) == q.gpr \in [GPR -> Reg]
           Compares(q) == /\ q.code = CompareCode(q.extra)
                          /\ q.extra \subseteq {"lt", "gt", "eq", "llt", "lgt"}
           Immediate(q) == /\ q.code = << Imm("cmpi", 0, 1, q.extra), Imm("cmpli", 1, 1, q.extra) >>
                           /\ q.extra \in {0, 1, 3, 7} /\ q.so = FALSE
           Keeps(q) == /\ q.code = KeepCode(q.extra) /\ q.so = FALSE
                       /\ q.extra \subseteq {MaskBit(0), MaskBit(1)}
<1>1. \A args : (\A r \in DOMAIN args : args[r] \in Reg) =>
        Filled(args) \in [GPR -> Reg]
  BY WordSize
<1>2. ASSUME NEW a \in Sample, NEW b \in Sample
      PROVE  Filled(<<a, b>>) \in [GPR -> Reg] /\ Filled(<<a>>) \in [GPR -> Reg]
  <2> HIDE DEF Filled
  <2>1. a \in Reg /\ b \in Reg
    BY GuestProgramsAssumption
  <2>2. \A r \in DOMAIN <<a, b>> : <<a, b>>[r] \in Reg
    BY <2>1
  <2>3. \A r \in DOMAIN <<a>> : <<a>>[r] \in Reg
    BY <2>1
  <2> QED BY <1>1, <2>2, <2>3
<1>3. ASSUME NEW TO \in TrapConditions, NEW summary, NEW a \in Sample, NEW b \in Sample
      PROVE  /\ Words(CompareProgram(TO, summary, a, b))
             /\ Compares(CompareProgram(TO, summary, a, b))
  <2>1. TO \subseteq {"lt", "gt", "eq", "llt", "lgt"}
    BY DEF TrapConditions
  <2>2. /\ CompareProgram(TO, summary, a, b).code = CompareCode(TO)
        /\ CompareProgram(TO, summary, a, b).extra = TO
        /\ CompareProgram(TO, summary, a, b).gpr =
             Filled(<<a, b>>)
    BY DEF CompareProgram, Prog
  <2> HIDE DEF Filled
  <2> QED BY <1>2, <2>1, <2>2
<1>4. ASSUME NEW n \in {0, 1, 3, 7}, NEW a \in Sample
      PROVE  Words(ImmediateProgram(n, a)) /\ Immediate(ImmediateProgram(n, a))
  <2>1. /\ ImmediateProgram(n, a).code = << Imm("cmpi", 0, 1, n), Imm("cmpli", 1, 1, n) >>
        /\ ImmediateProgram(n, a).extra = n
        /\ ImmediateProgram(n, a).so = FALSE
        /\ ImmediateProgram(n, a).gpr =
             Filled(<<a>>)
    BY DEF ImmediateProgram, Prog
  <2> HIDE DEF Filled
  <2> QED BY <1>2, <2>1
<1>5. ASSUME NEW CRM \in SUBSET {MaskBit(0), MaskBit(1)}, NEW a \in Sample, NEW b \in Sample
      PROVE  Words(KeepProgram(CRM, a, b)) /\ Keeps(KeepProgram(CRM, a, b))
  <2>1. /\ KeepProgram(CRM, a, b).code = KeepCode(CRM)
        /\ KeepProgram(CRM, a, b).extra = CRM
        /\ KeepProgram(CRM, a, b).so = FALSE
        /\ KeepProgram(CRM, a, b).gpr =
             Filled(<<a, b>>)
    BY DEF KeepProgram, Prog
  <2> HIDE DEF Filled
  <2> QED BY <1>2, <2>1
<1> SUFFICES ASSUME p.name \in {"compare", "cmpi", "keep"}
             PROVE  /\ Words(p)
                    /\ p.name = "compare" => Compares(p)
                    /\ p.name = "cmpi" => Immediate(p)
                    /\ p.name = "keep" => Keeps(p)
  OBVIOUS
<1>6. p \in ComparePrograms
  BY KindOf
<1> HIDE DEF Words, Compares, Immediate, Keeps
<1> QED BY <1>3, <1>4, <1>5, <1>6, ProgramForms, ProgramNames

LEMMA ComparisonStart == InitProgram => ComparisonInv
<1> SUFFICES ASSUME InitProgram PROVE ComparisonInv
  OBVIOUS
<1>1. /\ initial \in Program /\ gpr = initial.gpr /\ so = initial.so /\ code = initial.code
      /\ halt = "no" /\ cr \in [CR -> SUBSET Flag]
  BY DEF InitProgram
<1>2. CompareInv
  BY <1>1, CompareForm DEF CompareInv, CompareProgress
<1>3. ImmediateInv
  BY <1>1, CompareForm DEF ImmediateInv, ImmediateProgress
<1>4. KeepInv
  BY <1>1, CompareForm DEF KeepInv, KeepProgress, Old
<1> QED BY <1>1, <1>2, <1>3, <1>4 DEF ComparisonInv

\* A conditional trap is taken when one of its relations holds.
LEMMA TrapsWhen ==
  ASSUME NEW i, i.op = "tw", i.TO \subseteq {"lt", "gt", "eq", "llt", "lgt"}
  PROVE  Traps(i) <=> \E rel \in i.TO : Holds(rel, gpr[i.A], gpr[i.B])
<1> DEFINE a == gpr[i.A]
           b == gpr[i.B]
<1>1. Traps(i) <=> \/ Signed(a) < Signed(b) /\ "lt" \in i.TO
                   \/ Signed(a) > Signed(b) /\ "gt" \in i.TO
                   \/ a = b /\ "eq" \in i.TO
                   \/ a < b /\ "llt" \in i.TO
                   \/ a > b /\ "lgt" \in i.TO
  BY DEF Traps
<1> HIDE DEF a, b
<1>2. /\ Holds("lt", a, b) <=> Signed(a) < Signed(b)
      /\ Holds("gt", a, b) <=> Signed(a) > Signed(b)
      /\ Holds("eq", a, b) <=> a = b
      /\ Holds("llt", a, b) <=> a < b
      /\ Holds("lgt", a, b) <=> a > b
  BY DEF Holds
<1>3. Traps(i) <=> \E rel \in i.TO : Holds(rel, a, b)
  BY <1>1, <1>2
<1> QED BY <1>3 DEF a, b

LEMMA CompareNext ==
  ASSUME ComparisonInv, initial.name = "compare",
         initial' = initial, code # <<>>, halt = "no", Execute(Head(code)), code' = Tail(code)
  PROVE  CompareInv'
<1> DEFINE TO == initial.extra
           signed == Order(Signed(Old(1)), Signed(Old(2)))
           unsigned == Order(Old(1), Old(2))
           i1 == Op("cmp", 0, 1, 2)
           i2 == Op("cmpl", 1, 1, 2)
           i3 == Op("cror", <<1, "so">>, <<0, "gt">>, <<0, "eq">>)
           i4 == Trap("tw", 1, 2, TO)
           summary == IF {"gt", "eq"} \cap signed = {} THEN {} ELSE {"so"}
<1>1. /\ gpr = initial.gpr /\ cr \in [CR -> SUBSET Flag] /\ CompareProgress
      /\ gpr[1] = Old(1) /\ gpr[2] = Old(2)
  BY DEF ComparisonInv, CompareInv, Old
<1>2. TO \subseteq {"lt", "gt", "eq", "llt", "lgt"}
  BY CompareForm DEF ComparisonInv
<1>3. signed \in SUBSET Flag /\ unsigned \in SUBSET Flag /\ "so" \notin unsigned /\ "so" \notin signed
      /\ summary \in SUBSET Flag
  BY Orders DEF Flag
<1>4. CompareCode(TO) = << i1, i2, i3, i4 >>
  BY DEF CompareCode
<1>5. Old(1)' = Old(1) /\ Old(2)' = Old(2)
  BY DEF Old
<1>6. 0 \in CR /\ 1 \in CR
  BY Fields
<1>7. /\ i1.op = "cmp" /\ i1.D = 0 /\ i1.A = 1 /\ i1.B = 2
      /\ i2.op = "cmpl" /\ i2.D = 1 /\ i2.A = 1 /\ i2.B = 2
      /\ i3.op = "cror" /\ i3.D = <<1, "so">> /\ i3.A = <<0, "gt">> /\ i3.B = <<0, "eq">>
      /\ i4.op = "tw" /\ i4.TO = TO /\ i4.A = 1 /\ i4.B = 2
  BY OpFields, OtherFields
<1> DEFINE Progress(c, f, h) ==
             \/ h = "Panic" /\ c # <<>>
             \/ /\ h = "no"
                /\ \/ c = << i1, i2, i3, i4 >>
                   \/ c = << i2, i3, i4 >> /\ ~so /\ f[0] = signed
                   \/ c = << i3, i4 >> /\ f[0] = signed /\ f[1] = unsigned
                   \/ c = << i4 >> /\ f[1] = unsigned \cup summary
             \/ /\ c = <<>>
                /\ f[1] = unsigned \cup summary
                /\ h = "TrapException" \/ h = "no"
                /\ h = "TrapException" <=> \E rel \in TO : Holds(rel, Old(1), Old(2))
<1>8. Progress(code, cr, halt)
  BY <1>1, <1>4 DEF CompareProgress
<1>9. ASSUME so' = so, Progress(code', cr', halt') PROVE CompareProgress'
  BY <1>4, <1>5, <1>9 DEF CompareProgress
<1> SUFFICES so' = so /\ gpr' = gpr /\ cr' \in [CR -> SUBSET Flag] /\ Progress(code', cr', halt')
  BY <1>1, <1>9 DEF CompareInv
<1> HIDE DEF i1, i2, i3, i4, signed, unsigned, summary, TO
<1>10. CASE code = << i1, i2, i3, i4 >>
  <2>1. Head(code) = i1 /\ Tail(code) = << i2, i3, i4 >>
    BY <1>10
  <2>2. /\ IF so THEN halt' = "Panic" /\ UNCHANGED cr ELSE cr' = Compare(i1) /\ UNCHANGED halt
        /\ UNCHANGED <<gpr, so>>
    BY <1>7, <2>1, CompareStep
  <2>3. Compare(i1) = [cr EXCEPT ![0] = signed]
    BY <1>1, <1>6, <1>7, Compared DEF signed
  <2> QED BY <1>1, <1>3, <1>6, <2>1, <2>2, <2>3
<1>11. CASE code = << i2, i3, i4 >> /\ ~so /\ cr[0] = signed
  <2>1. Head(code) = i2 /\ Tail(code) = << i3, i4 >>
    BY <1>11
  <2>2. cr' = Compare(i2) /\ UNCHANGED <<halt, gpr, so>>
    BY <1>7, <1>11, <2>1, CompareStep
  <2>3. Compare(i2) = [cr EXCEPT ![1] = unsigned]
    BY <1>1, <1>6, <1>7, Compared DEF unsigned
  <2> QED BY <1>1, <1>3, <1>6, <1>11, <2>1, <2>2, <2>3
<1>12. CASE code = << i3, i4 >> /\ cr[0] = signed /\ cr[1] = unsigned
  <2>1. Head(code) = i3 /\ Tail(code) = << i4 >>
    BY <1>12
  <2>2. cr' = SetCRBit(i3.D, CrLogic(i3)) /\ UNCHANGED <<halt, gpr, so>>
    <3>1. i3.op = "cror"
      BY <1>7
    <3>2. Execute(i3)
      BY <2>1
    <3> QED BY <3>1, <3>2, FlagStep
  <2>3. CrLogic(i3) <=> "gt" \in signed \/ "eq" \in signed
    BY <1>7, <1>12 DEF CrLogic, GetCRBit
  <2>4. cr' = [cr EXCEPT ![1] = IF CrLogic(i3) THEN @ \cup {"so"} ELSE @ \ {"so"}]
    BY <1>7, <2>2 DEF SetCRBit
  <2>5. cr' \in [CR -> SUBSET Flag]
    BY <1>1, <1>6, <2>4 DEF Flag
  <2>6. cr'[1] = unsigned \cup summary
    <3>1. CASE CrLogic(i3)
      BY <1>1, <1>6, <1>12, <2>3, <2>4, <3>1 DEF summary
    <3>2. CASE ~CrLogic(i3)
      BY <1>1, <1>3, <1>6, <1>12, <2>3, <2>4, <3>2 DEF summary
    <3> QED BY <3>1, <3>2
  <2> QED BY <2>1, <2>2, <2>5, <2>6
<1>13. CASE code = << i4 >> /\ cr[1] = unsigned \cup summary
  <2>1. Head(code) = i4 /\ Tail(code) = <<>>
    BY <1>13
  <2>2. halt' = (IF Traps(i4) THEN "TrapException" ELSE "no") /\ UNCHANGED <<gpr, cr, so>>
    BY <1>7, <2>1, TrapStep
  <2>3. Traps(i4) <=> \E rel \in TO : Holds(rel, Old(1), Old(2))
    <3>1. Traps(i4) <=> \E rel \in i4.TO : Holds(rel, gpr[i4.A], gpr[i4.B])
      BY <1>2, <1>7, TrapsWhen
    <3>2. i4.TO = TO /\ gpr[i4.A] = Old(1) /\ gpr[i4.B] = Old(2)
      BY <1>1, <1>7
    <3> QED BY <3>1, <3>2
  <2> QED BY <1>1, <1>13, <2>1, <2>2, <2>3
<1> QED BY <1>8, <1>10, <1>11, <1>12, <1>13

LEMMA ImmediateNext ==
  ASSUME ComparisonInv, initial.name = "cmpi",
         initial' = initial, code # <<>>, halt = "no", Execute(Head(code)), code' = Tail(code)
  PROVE  ImmediateInv'
<1> DEFINE n == initial.extra
           i1 == Imm("cmpi", 0, 1, n)
           i2 == Imm("cmpli", 1, 1, n)
           value == Sub(Old(1), n)
           difference == IF value = 0 THEN {"eq"} ELSE IF Negative(value) THEN {"lt"} ELSE {"gt"}
           unsigned == Order(Old(1), n)
<1>1. /\ gpr = initial.gpr /\ ~so /\ cr \in [CR -> SUBSET Flag] /\ ImmediateProgress
      /\ gpr[1] = Old(1)
  BY DEF ComparisonInv, ImmediateInv, Old
<1>2. /\ i1.op = "cmpi" /\ i1.D = 0 /\ i1.A = 1 /\ i1.imm = n
      /\ i2.op = "cmpli" /\ i2.D = 1 /\ i2.A = 1 /\ i2.imm = n
  BY OpFields
<1>3. difference \in SUBSET Flag /\ unsigned \in SUBSET Flag
  BY Orders DEF Flag
<1>4. 0 \in CR /\ 1 \in CR
  BY Fields
<1> DEFINE Progress(c, f) == \/ c = << i1, i2 >>
                             \/ c = << i2 >> /\ f[0] = difference
                             \/ c = <<>> /\ f[0] = difference /\ f[1] = unsigned
<1>5. Progress(code, cr)
  BY <1>1 DEF ImmediateProgress
<1>6. ASSUME Progress(code', cr') PROVE ImmediateProgress'
  BY <1>6 DEF ImmediateProgress, Old
<1> SUFFICES so' = so /\ gpr' = gpr /\ cr' \in [CR -> SUBSET Flag] /\ Progress(code', cr')
  BY <1>1, <1>6 DEF ImmediateInv
<1> HIDE DEF i1, i2, difference, unsigned
<1>7. CASE code = << i1, i2 >>
  <2>1. Head(code) = i1 /\ Tail(code) = << i2 >>
    BY <1>7
  <2>2. cr' = Compare(i1) /\ UNCHANGED <<halt, gpr, so>>
    BY <1>2, <2>1, CompareStep
  <2>3. Compare(i1) = UpdateCRx(0, value)
    BY <1>1, <1>2, <1>4, Compared
  <2>4. UpdateCRx(0, value) = [cr EXCEPT ![0] = difference]
    BY <1>1 DEF UpdateCRx, difference
  <2> QED BY <1>1, <1>3, <1>4, <2>1, <2>2, <2>3, <2>4
<1>8. CASE code = << i2 >> /\ cr[0] = difference
  <2>1. Head(code) = i2 /\ Tail(code) = <<>>
    BY <1>8
  <2>2. cr' = Compare(i2) /\ UNCHANGED <<halt, gpr, so>>
    BY <1>2, <2>1, CompareStep
  <2>3. Compare(i2) = [cr EXCEPT ![1] = unsigned]
    BY <1>1, <1>2, <1>4, Compared DEF unsigned
  <2> QED BY <1>1, <1>3, <1>4, <1>8, <2>1, <2>2, <2>3
<1> QED BY <1>5, <1>7, <1>8

\* The mask's first bit is for field 0, and the next for field 1.
LEMMA MaskedTwo ==
  ASSUME NEW CRM \in SUBSET {MaskBit(0), MaskBit(1)}
  PROVE  /\ 0 \in MaskedFields(CRM) <=> MaskBit(0) \in CRM
         /\ 1 \in MaskedFields(CRM) <=> MaskBit(1) \in CRM
<1> DEFINE n == W \div 4
<1>1. n \in Int /\ MaskBit(0) = n - 1 - 0 /\ MaskBit(1) = n - 1 - 1
  BY Fields DEF MaskBit
<1>2. MaskedFields(CRM) = {n - 1 - k : k \in CRM}
  BY Fields DEF MaskedFields
<1> HIDE DEF n
<1>3. CRM \subseteq {n - 1, n - 2}
  BY <1>1
<1>4. 0 \in MaskedFields(CRM) <=> n - 1 \in CRM
  BY <1>1, <1>2, <1>3
<1>5. 1 \in MaskedFields(CRM) <=> n - 2 \in CRM
  BY <1>1, <1>2, <1>3
<1> QED BY <1>1, <1>4, <1>5

LEMMA KeepNext ==
  ASSUME ComparisonInv, initial.name = "keep",
         initial' = initial, code # <<>>, halt = "no", Execute(Head(code)), code' = Tail(code)
  PROVE  KeepInv'
<1> DEFINE CRM == initial.extra
           signed == Order(Signed(Old(1)), Signed(Old(2)))
           unsigned == Order(Old(1), Old(2))
           three == Order(Old(1), 3)
           i1 == Op("cmp", 0, 1, 2)
           i2 == Op("cmpl", 1, 1, 2)
           i3 == Op("mfcr", 5, 0, 0)
           i4 == Op("mcrf", 1, 0, 0)
           i5 == Imm("cmpli", 0, 1, 3)
           i6 == RestoreFields(5, CRM)
           first == IF MaskBit(0) \in CRM THEN signed ELSE three
           second == IF MaskBit(1) \in CRM THEN unsigned ELSE signed
<1>1. /\ gpr \in [GPR -> Reg] /\ ~so /\ cr \in [CR -> SUBSET Flag] /\ KeepProgress
      /\ gpr[1] = Old(1) /\ gpr[2] = Old(2)
  BY DEF ComparisonInv, KeepInv
<1>2. CRM \in SUBSET {MaskBit(0), MaskBit(1)}
  BY CompareForm DEF ComparisonInv
<1>3. signed \in SUBSET Flag /\ unsigned \in SUBSET Flag /\ three \in SUBSET Flag
  BY Orders
<1>4. KeepCode(CRM) = << i1, i2, i3, i4, i5, i6 >>
  BY DEF KeepCode
<1>5. /\ i1.op = "cmp" /\ i1.D = 0 /\ i1.A = 1 /\ i1.B = 2
      /\ i2.op = "cmpl" /\ i2.D = 1 /\ i2.A = 1 /\ i2.B = 2
      /\ i3.op = "mfcr" /\ i3.D = 5
      /\ i4.op = "mcrf" /\ i4.D = 1 /\ i4.A = 0
      /\ i5.op = "cmpli" /\ i5.D = 0 /\ i5.A = 1 /\ i5.imm = 3
      /\ i6.op = "mtcrf" /\ i6.A = 5 /\ i6.CRM = CRM
  BY OpFields, OtherFields
<1>6. 0 \in CR /\ 1 \in CR /\ {1, 2, 5} \subseteq GPR
  BY Fields, GuestProgramsAssumption, LoadStoreAssumption
<1> DEFINE Progress(c, f, w) ==
             \/ c = << i1, i2, i3, i4, i5, i6 >>
             \/ c = << i2, i3, i4, i5, i6 >> /\ f[0] = signed
             \/ c = << i3, i4, i5, i6 >> /\ f[0] = signed /\ f[1] = unsigned
             \/ c = << i4, i5, i6 >> /\ f[0] = signed /\ Saved(w, signed, unsigned)
             \/ c = << i5, i6 >> /\ f[1] = signed /\ Saved(w, signed, unsigned)
             \/ c = << i6 >> /\ f[0] = three /\ f[1] = signed /\ Saved(w, signed, unsigned)
             \/ c = <<>> /\ f[0] = first /\ f[1] = second
<1>7. Progress(code, cr, gpr[5])
  BY <1>1, <1>4 DEF KeepProgress
<1>8. Old(1)' = Old(1) /\ Old(2)' = Old(2)
  BY DEF Old
<1>9. ASSUME Progress(code', cr', gpr'[5]) PROVE KeepProgress'
  BY <1>4, <1>8, <1>9 DEF KeepProgress, Saved
<1> SUFFICES /\ so' = so /\ gpr' \in [GPR -> Reg] /\ gpr'[1] = gpr[1] /\ gpr'[2] = gpr[2]
             /\ cr' \in [CR -> SUBSET Flag] /\ Progress(code', cr', gpr'[5])
  BY <1>1, <1>8, <1>9 DEF KeepInv
<1> HIDE DEF i1, i2, i3, i4, i5, i6, signed, unsigned, three, CRM
<1>10. CASE code = << i1, i2, i3, i4, i5, i6 >>
  <2>1. Head(code) = i1 /\ Tail(code) = << i2, i3, i4, i5, i6 >>
    BY <1>10
  <2>2. cr' = Compare(i1) /\ UNCHANGED <<gpr, so>>
    BY <1>1, <1>5, <2>1, CompareStep
  <2>3. Compare(i1) = [cr EXCEPT ![0] = signed]
    BY <1>1, <1>5, <1>6, Compared DEF signed
  <2> QED BY <1>1, <1>3, <1>6, <2>1, <2>2, <2>3
<1>11. CASE code = << i2, i3, i4, i5, i6 >> /\ cr[0] = signed
  <2>1. Head(code) = i2 /\ Tail(code) = << i3, i4, i5, i6 >>
    BY <1>11
  <2>2. cr' = Compare(i2) /\ UNCHANGED <<gpr, so>>
    BY <1>1, <1>5, <2>1, CompareStep
  <2>3. Compare(i2) = [cr EXCEPT ![1] = unsigned]
    BY <1>1, <1>5, <1>6, Compared DEF unsigned
  <2> QED BY <1>1, <1>3, <1>6, <1>11, <2>1, <2>2, <2>3
<1>12. CASE code = << i3, i4, i5, i6 >> /\ cr[0] = signed /\ cr[1] = unsigned
  <2>1. Head(code) = i3 /\ Tail(code) = << i4, i5, i6 >>
    BY <1>12
  <2>2. cr' = cr /\ so' = so /\ gpr' = [gpr EXCEPT ![5] = GetCR]
    BY <1>5, <2>1, FlagStep
  <2>3. GetCR \in Reg
    BY <1>6, SavedFlags DEF Flag
  <2>4. Saved(GetCR, signed, unsigned)
    BY <1>6, <1>12, SavedFlags DEF Saved
  <2>5. gpr' \in [GPR -> Reg] /\ gpr'[1] = gpr[1] /\ gpr'[2] = gpr[2] /\ gpr'[5] = GetCR
    BY <1>1, <1>6, <2>2, <2>3
  <2> QED BY <1>1, <1>12, <2>1, <2>2, <2>4, <2>5
<1>13. CASE code = << i4, i5, i6 >> /\ cr[0] = signed /\ Saved(gpr[5], signed, unsigned)
  <2>1. Head(code) = i4 /\ Tail(code) = << i5, i6 >>
    BY <1>13
  <2>2. cr' = [cr EXCEPT ![1] = cr[0]] /\ UNCHANGED <<gpr, so>>
    BY <1>5, <2>1, FlagStep
  <2> QED BY <1>1, <1>3, <1>6, <1>13, <2>1, <2>2
<1>14. CASE code = << i5, i6 >> /\ cr[1] = signed /\ Saved(gpr[5], signed, unsigned)
  <2>1. Head(code) = i5 /\ Tail(code) = << i6 >>
    BY <1>14
  <2>2. cr' = Compare(i5) /\ UNCHANGED <<gpr, so>>
    BY <1>1, <1>5, <2>1, CompareStep
  <2>3. Compare(i5) = [cr EXCEPT ![0] = three]
    BY <1>1, <1>5, <1>6, Compared DEF three
  <2> QED BY <1>1, <1>3, <1>6, <1>14, <2>1, <2>2, <2>3
<1>15. CASE /\ code = << i6 >> /\ cr[0] = three /\ cr[1] = signed
            /\ Saved(gpr[5], signed, unsigned)
  <2>1. Head(code) = i6 /\ Tail(code) = <<>>
    BY <1>15
  <2>2. cr' = SetCR(MaskedFields(CRM), gpr[5]) /\ UNCHANGED <<gpr, so>>
    BY <1>5, <2>1, FlagStep
  <2>3. \A f \in CR : cr'[f] = IF f \in MaskedFields(CRM)
                               THEN {g \in Flag : Position(<<f, g>>) \in Bit(gpr[5])} ELSE cr[f]
    BY <2>2 DEF SetCR
  <2>4. cr' \in [CR -> SUBSET Flag]
    BY <1>1, <2>2 DEF SetCR
  <2>5. /\ {g \in Flag : Position(<<0, g>>) \in Bit(gpr[5])} = signed
        /\ {g \in Flag : Position(<<1, g>>) \in Bit(gpr[5])} = unsigned
    BY <1>3, <1>15 DEF Saved
  <2>6. /\ 0 \in MaskedFields(CRM) <=> MaskBit(0) \in CRM
        /\ 1 \in MaskedFields(CRM) <=> MaskBit(1) \in CRM
    BY <1>2, MaskedTwo
  <2>7. cr'[0] = first /\ cr'[1] = second
    BY <1>6, <1>15, <2>3, <2>5, <2>6
  <2> QED BY <1>1, <2>1, <2>2, <2>4, <2>7
<1> QED BY <1>7, <1>10, <1>11, <1>12, <1>13, <1>14, <1>15

LEMMA ComparisonNext ==
  ASSUME ComparisonInv, [StepProgram]_machineVars
  PROVE  ComparisonInv'
<1>1. CASE UNCHANGED machineVars
  BY <1>1 DEF ComparisonInv, CompareInv, CompareProgress, ImmediateInv, ImmediateProgress, KeepInv,
     KeepProgress, Old, Saved, machineVars
<1>2. CASE StepProgram
  <2>1. /\ initial' = initial /\ code # <<>> /\ halt = "no"
        /\ Execute(Head(code)) /\ code' = Tail(code)
    BY <1>2 DEF StepProgram
  <2>2. CompareInv'
    <3>1. CASE initial.name = "compare" BY <2>1, <3>1, CompareNext
    <3>2. CASE initial.name # "compare" BY <2>1, <3>2 DEF CompareInv
    <3> QED BY <3>1, <3>2
  <2>3. ImmediateInv'
    <3>1. CASE initial.name = "cmpi" BY <2>1, <3>1, ImmediateNext
    <3>2. CASE initial.name # "cmpi" BY <2>1, <3>2 DEF ImmediateInv
    <3> QED BY <3>1, <3>2
  <2>4. KeepInv'
    <3>1. CASE initial.name = "keep" BY <2>1, <3>1, KeepNext
    <3>2. CASE initial.name # "keep" BY <2>1, <3>2 DEF KeepInv
    <3> QED BY <3>1, <3>2
  <2>5. initial' \in Program
    BY <2>1 DEF ComparisonInv
  <2> QED BY <2>2, <2>3, <2>4, <2>5 DEF ComparisonInv
<1> QED BY <1>1, <1>2

LEMMA NextMultiple ==
  ASSUME NEW u \in Int
  PROVE  (u + M) % M = u % M
<1> DEFINE q == u \div M
           c == u % M
<1>1. q \in Int /\ c \in Int /\ 0 <= c /\ c < M /\ u = q * M + c
  BY WordSize
<1> HIDE DEF q, c
<1>2. q + 1 \in Int /\ u + M = (q + 1) * M + c
  BY <1>1, WordSize
<1>3. ((q + 1) * M + c) % M = c
  BY <1>1, <1>2, WordSize, DivMod
<1> QED BY <1>2, <1>3 DEF c

LEMMA ComparisonEnd == ComparisonInv => ComparisonsAgree
<1> SUFFICES ASSUME ComparisonInv PROVE ComparisonsAgree
  OBVIOUS
<1> DEFINE a == Old(1)
           b == Old(2)
           signed == Order(Signed(a), Signed(b))
           unsigned == Order(a, b)
<1>0. initial \in Program
  BY DEF ComparisonInv
<1>1. ASSUME initial.name = "compare", code = <<>>
      PROVE  /\ halt = "TrapException" <=> \E rel \in initial.extra : Holds(rel, a, b)
             /\ GetCRBit(<<1, "so">>) <=> Holds("gt", a, b) \/ a = b
             /\ GetCRBit(<<1, "lt">>) <=> Holds("llt", a, b)
  <2>0. initial.gpr \in [GPR -> Reg]
    BY <1>0, <1>1, CompareForm
  <2>1. a \in Reg /\ b \in Reg
    BY <2>0, GuestProgramsAssumption, LoadStoreAssumption DEF Old
  <2>2. CompareProgress
    BY <1>1 DEF ComparisonInv, CompareInv
  <2>3. CompareCode(initial.extra) # <<>>
    BY DEF CompareCode
  <2>4. /\ halt = "TrapException" <=> \E rel \in initial.extra : Holds(rel, a, b)
        /\ cr[1] = unsigned \cup (IF {"gt", "eq"} \cap signed = {} THEN {} ELSE {"so"})
    BY <1>1, <2>2, <2>3 DEF CompareProgress
  <2>5. Signed(a) \in Int /\ Signed(b) \in Int /\ (Signed(a) = Signed(b) <=> a = b)
    BY <2>1, WordSize DEF Signed, Negative, Reg
  <2>6. a \in Int /\ b \in Int
    BY <2>1 DEF Reg
  <2>7. ~({"gt", "eq"} \cap signed = {}) <=> Signed(a) >= Signed(b)
    <3> DEFINE x == Signed(a)
               y == Signed(b)
    <3>1. x \in Int /\ y \in Int
      BY <2>5
    <3> HIDE DEF x, y
    <3>2. ~({"gt", "eq"} \cap Order(x, y) = {}) <=> x >= y
      BY <3>1 DEF Order
    <3> QED BY <3>2 DEF x, y
  <2>8. "so" \notin unsigned /\ ("lt" \in unsigned <=> a < b)
    BY <2>6 DEF Order
  <2>9. Holds("gt", a, b) <=> Signed(a) > Signed(b)
    BY DEF Holds
  <2>10. Holds("llt", a, b) <=> a < b
    BY DEF Holds
  <2> HIDE DEF a, b, signed, unsigned
  <2> QED BY <2>4, <2>5, <2>7, <2>8, <2>9, <2>10 DEF GetCRBit
<1>2. ASSUME initial.name = "cmpi", code = <<>>
      PROVE  /\ cr[1] = Order(a, initial.extra)
             /\ LET difference == Signed(a) - initial.extra IN
                  difference \in -(M \div 2)..(M \div 2 - 1) =>
                    cr[0] = Order(Signed(a), initial.extra)
  <2> DEFINE n == initial.extra
             value == Sub(a, n)
             d == Signed(a) - n
  <2>0. initial.gpr \in [GPR -> Reg] /\ n \in {0, 1, 3, 7}
    BY <1>0, <1>2, CompareForm
  <2>1. a \in Reg /\ n \in Int
    BY <2>0, GuestProgramsAssumption, LoadStoreAssumption DEF Old
  <2>2. /\ cr[1] = Order(a, n)
        /\ cr[0] = IF value = 0 THEN {"eq"} ELSE IF Negative(value) THEN {"lt"} ELSE {"gt"}
    BY <1>2 DEF ComparisonInv, ImmediateInv, ImmediateProgress
  <2>3. ASSUME d \in -(M \div 2)..(M \div 2 - 1)
        PROVE  cr[0] = Order(Signed(a), n)
    <3>1. PICK e \in {0, 1} : Signed(a) = a - e * M
      BY <2>1, SignedWord
    <3>2. a \in Int /\ Signed(a) \in Int /\ d \in Int
      BY <2>1, SignedWord DEF Reg
    <3>3. -M <= 2 * d /\ 2 * d < M
      BY <2>3, <3>2, HalfWord, WordSize
    <3>4. d % M \in Reg /\ Signed(d % M) = d
      BY <3>2, <3>3, WordOf
    <3>5. value = d % M
      <4> HIDE DEF d
      <4>1. a - n = d + e * M
        BY <2>1, <3>1, <3>2, WordSize DEF d
      <4>2. (d + M) % M = d % M
        BY <3>2, NextMultiple
      <4>3. CASE e = 0
        BY <3>2, <4>1, <4>3, WordSize DEF Sub
      <4>4. CASE e = 1
        BY <3>2, <4>1, <4>2, <4>4, WordSize DEF Sub
      <4> QED BY <4>3, <4>4
    <3>6. value \in Reg /\ Signed(value) = d
      BY <3>4, <3>5
    <3> HIDE DEF value, d
    <3>7. /\ value = 0 <=> d = 0
          /\ Negative(value) <=> d < 0
      BY <3>6, WordSize DEF Signed, Negative, Reg
    <3>8. /\ d = 0 <=> Signed(a) = n
          /\ d < 0 <=> Signed(a) < n
      BY <2>1, <3>2 DEF d
    <3>9. Order(Signed(a), n) = IF Signed(a) < n THEN {"lt"} ELSE IF Signed(a) > n THEN {"gt"} ELSE {"eq"}
      BY DEF Order
    <3> QED BY <2>1, <2>2, <3>2, <3>7, <3>8, <3>9
  <2> QED BY <2>2, <2>3
<1>3. ASSUME initial.name = "keep", code = <<>>
      PROVE  /\ cr[0] = IF MaskBit(0) \in initial.extra THEN signed ELSE Order(a, 3)
             /\ cr[1] = IF MaskBit(1) \in initial.extra THEN unsigned ELSE signed
  <2>1. KeepProgress
    BY <1>3 DEF ComparisonInv, KeepInv
  <2>2. KeepCode(initial.extra) # <<>>
    BY DEF KeepCode
  <2> QED BY <1>3, <2>1, <2>2 DEF KeepProgress
<1> HIDE DEF a, b
<1> QED BY <1>1, <1>2, <1>3 DEF ComparisonsAgree, Ends, a, b

-----------------------------------------------------------------------------
(* Every result is a word *)

LEMMA Modulo == ASSUME NEW u \in Int PROVE u % M \in Reg
BY Wrap

LEMMA SmallPowers ==
  /\ W \in Nat /\ W >= 8
  /\ \A k \in 0..W : k \in 0..(2 * W) /\ Power[k] \in Nat \ {0}
  /\ W % W = 0
BY Fields, Powers

LEMMA Complement == ASSUME NEW a \in Reg PROVE Not(a) \in Reg /\ a \in Int
BY WordSize DEF Not, Reg

LEMMA LogicWords ==
  ASSUME NEW a, NEW b
  PROVE  And(a, b) \in Reg /\ Or(a, b) \in Reg /\ Xor(a, b) \in Reg
<1>1. Bit(a) \in SUBSET (0..(W - 1)) /\ Bit(b) \in SUBSET (0..(W - 1))
  BY DEF Bit
<1>2. Bit(a) \cap Bit(b) \in SUBSET (0..(W - 1))
  BY <1>1
<1>3. Bit(a) \cup Bit(b) \in SUBSET (0..(W - 1))
  BY <1>1
<1>4. (Bit(a) \ Bit(b)) \cup (Bit(b) \ Bit(a)) \in SUBSET (0..(W - 1))
  BY <1>1
<1> QED BY <1>2, <1>3, <1>4, WordBits DEF And, Or, Xor

\* What is divided does not grow.
LEMMA Smaller ==
  ASSUME NEW a \in Nat, NEW p \in Nat \ {0}
  PROVE  a \div p \in Nat /\ a \div p <= a
<1> DEFINE q == a \div p
           r == a % p
<1>1. q \in Int /\ r \in Nat /\ r < p /\ a = q * p + r
  OBVIOUS
<1> HIDE DEF q, r
<1>2. q \in Nat
  <2>1. q < 0 => q * p <= -p
    BY <1>1
  <2> QED BY <1>1, <2>1
<1>3. q <= q * p
  BY <1>2
<1> QED BY <1>1, <1>2, <1>3 DEF q

LEMMA ShiftWords ==
  ASSUME NEW a \in Reg, NEW k \in 0..W
  PROVE  /\ ShiftLeft(a, k) \in Reg
         /\ ShiftRight(a, k) \in Reg
         /\ Arithmetic(a, k) \in Reg
<1> DEFINE p == Power[k]
<1>1. p \in Nat \ {0} /\ a \in Nat /\ Signed(a) \in Int
  BY SmallPowers, SignedWord DEF Reg
<1> HIDE DEF p
<1>2. a * p \in Int /\ Signed(a) \div p \in Int
  BY <1>1
<1>3. (a * p) % M \in Reg /\ (Signed(a) \div p) % M \in Reg
  BY <1>2, Modulo
<1>4. a \div p \in Reg
  BY <1>1, Smaller, WordSize DEF Reg
<1> QED BY <1>3, <1>4 DEF p, ShiftLeft, ShiftRight, Arithmetic

LEMMA ExtendedWord ==
  ASSUME NEW a \in Reg, NEW k \in 0..W
  PROVE  Extend(a, k) \in Reg
<1> DEFINE p == Power[k]
           low == a % p
           value == IF 2 * low >= p THEN low - p ELSE low
<1>1. p \in Nat \ {0} /\ a \in Nat
  BY SmallPowers DEF Reg
<1> HIDE DEF p
<1>2. value \in Int
  BY <1>1
<1> HIDE DEF value
<1>3. value % M \in Reg
  BY <1>2, Modulo
<1> QED BY <1>3 DEF p, value, Extend

\* There are fewer bits in a word than there are words.
LEMMA LeadingZerosWord ==
  ASSUME NEW a
  PROVE  LeadingZeros(a) \in Reg
<1> DEFINE S == {k \in 0..(W - 1) : \A j \in k..(W - 1) : j \notin Bit(a)}
           T == {n \in Nat : n <= 2 * W => n < Power[n]}
<1>1. W \in Nat
  BY Fields
<1>2. IsFiniteSet(0..(W - 1)) /\ Cardinality(0..(W - 1)) = W
  BY <1>1, FS_Interval
<1>3. Cardinality(S) \in Nat /\ Cardinality(S) <= W
  <2>1. S \subseteq 0..(W - 1)
    OBVIOUS
  <2> HIDE DEF S
  <2> QED BY <1>2, <2>1, FS_Subset, FS_CardinalityType
<1>4. 0 \in T
  BY Powers
<1>5. ASSUME NEW n \in Nat, n \in T PROVE n + 1 \in T
  <2> SUFFICES ASSUME n + 1 <= 2 * W PROVE n + 1 < Power[n + 1]
    OBVIOUS
  <2>1. n \in 0..(2 * W) /\ n + 1 \in 0..(2 * W) /\ n <= 2 * W
    BY <1>1
  <2>2. Power[n + 1] = 2 * Power[n] /\ Power[n] \in Nat /\ n < Power[n]
    BY <1>5, <2>1, Powers
  <2> QED BY <2>2
<1> HIDE DEF T
<1>6. W \in T
  BY <1>1, <1>4, <1>5, Induction
<1>7. W < M
  BY <1>1, <1>6, WidthAssumption DEF T
<1>8. LeadingZeros(a) = Cardinality(S)
  BY DEF LeadingZeros
<1> HIDE DEF S
<1> QED BY <1>1, <1>3, <1>7, <1>8, WordSize DEF Reg

\* Instructions that compute, with registers and immediates as they should be.
ComputeOps == Carrying \cup PlainOps
Computes(i) ==
  /\ i.op \in ComputeOps
  /\ i.A \in GPR /\ i.B \in GPR
  /\ i.op \in {"addic", "subfic", "addi", "addis", "mulli"} => i.imm \in Int
  /\ i.op = "srawix" => i.imm \in 0..(W - 1)

LEMMA CarryingWords ==
  ASSUME gpr \in [GPR -> Reg], ca \in {0, 1}, NEW i, Computes(i), i.op \in Carrying
  PROVE  CarryResult(i) \in Reg
<1> DEFINE a == gpr[i.A]
           b == gpr[i.B]
<1>1. a \in Reg /\ b \in Reg /\ ca \in Int
  BY DEF Computes
<1>2. a \in Int /\ b \in Int /\ Not(a) \in Int /\ Not(a) \in Reg
  BY <1>1, Complement, WordSize DEF Reg
<1> HIDE DEF a, b
<1>3. \A u, v \in Int : Add(u, v) \in Reg /\ Sub(u, v) \in Reg
  BY Modulo DEF Add, Sub
<1>4. Reg \subseteq Int
  BY DEF Reg
<1>5. i.op \in {"addic", "subfic"} => i.imm \in Int
  BY DEF Computes
<1>6. \A k \in 0..W : Arithmetic(a, k) \in Reg
  BY <1>1, ShiftWords
<1>7. i.op = "srawix" => i.imm \in 0..W
  BY SmallPowers DEF Computes
<1>8. (IF Overlong(b) THEN W ELSE b % W) \in 0..W
  BY <1>2, SmallPowers
<1>9. Add(a, b) \in Int /\ Add(Not(a), b) \in Int /\ Add(a, ca) \in Int /\ Add(Not(a), ca) \in Int
  BY <1>1, <1>2, <1>3, <1>4
<1>10. /\ Add(a, b) \in Reg /\ Add(Add(a, b), ca) \in Reg /\ Sub(Add(a, ca), 1) \in Reg
       /\ Add(a, ca) \in Reg /\ Sub(b, a) \in Reg /\ Add(Add(Not(a), b), ca) \in Reg
       /\ Sub(Add(Not(a), ca), 1) \in Reg /\ Add(Not(a), ca) \in Reg
  BY <1>1, <1>2, <1>3, <1>9
<1>11. i.op \in {"addic", "subfic"} => Add(a, i.imm) \in Reg /\ Sub(i.imm, a) \in Reg
  BY <1>2, <1>3, <1>5
<1>12. i.op = "srawix" => Arithmetic(a, i.imm) \in Reg
  BY <1>6, <1>7
<1>13. Arithmetic(a, IF Overlong(b) THEN W ELSE b % W) \in Reg
  BY <1>6, <1>8
<1> QED BY <1>10, <1>11, <1>12, <1>13 DEF CarryResult, Carrying, a, b

LEMMA QuotientWord ==
  ASSUME NEW x \in Int, NEW y \in Int, y # 0
  PROVE  Quotient(x, y) \in Int
<1> DEFINE m == Magnitude(x)
           n == Magnitude(y)
           q == m \div n
<1>1. m \in Nat /\ n \in Nat /\ n > 0
  BY DEF Magnitude
<1> HIDE DEF m, n
<1>2. q \in Int
  BY <1>1
<1>3. Quotient(x, y) = IF (x < 0) = (y < 0) THEN q ELSE -q
  BY DEF Quotient, m, n
<1> HIDE DEF q
<1> QED BY <1>2, <1>3

LEMMA PlainWords ==
  ASSUME gpr \in [GPR -> Reg], NEW i, Computes(i), i.op \in PlainOps
  PROVE  Result(i) \in Reg
<1> DEFINE a == gpr[i.A]
           b == gpr[i.B]
<1>1. a \in Reg /\ b \in Reg
  BY DEF Computes
<1>2. a \in Int /\ b \in Int /\ Not(a) \in Int /\ Signed(a) \in Int /\ Signed(b) \in Int /\ 0 \in Int
      /\ 0 <= a /\ a < M /\ 0 <= b /\ b < M
  BY <1>1, Complement, SignedWord, WordSize DEF Reg
<1>3. i.op \in {"addi", "addis", "mulli"} => i.imm \in Int
  BY DEF Computes
<1> HIDE DEF a, b
<1>4. \A u, v \in Int : Add(u, v) \in Reg /\ Sub(u, v) \in Reg
  BY Modulo DEF Add, Sub
<1>5. CASE i.op \in {"addi", "addis", "addx", "subfx", "negx"}
  <2>1. (IF i.A = 0 THEN 0 ELSE a) \in Int
    BY <1>2
  <2>2. i.op \in {"addi", "addis"} => High(i.imm) \in Int
    <3>1. Power[W \div 2] \in Int
      <4>1. W \div 2 \in 0..W
        BY SmallPowers
      <4> QED BY <4>1, SmallPowers
    <3>2. i.op \in {"addi", "addis"} => i.imm * Power[W \div 2] \in Int
      BY <1>3, <3>1
    <3>3. i.op \in {"addi", "addis"} => High(i.imm) \in Reg
      BY <3>2, Modulo DEF High
    <3> QED BY <3>3 DEF Reg
  <2>3. 1 \in Int
    OBVIOUS
  <2>4. i.op = "addi" => Add(IF i.A = 0 THEN 0 ELSE a, i.imm) \in Reg
    BY <1>3, <1>4, <2>1
  <2>5. i.op = "addis" => Add(IF i.A = 0 THEN 0 ELSE a, High(i.imm)) \in Reg
    BY <1>4, <2>1, <2>2
  <2>6. Add(a, b) \in Reg /\ Sub(b, a) \in Reg /\ Add(Not(a), 1) \in Reg
    BY <1>2, <1>4, <2>3
  <2> QED BY <1>5, <2>4, <2>5, <2>6 DEF Result, a, b
<1>6. CASE i.op \in {"mulli", "mullwx", "mulhwx"}
  <2>1. i.op = "mulli" => (Signed(a) * i.imm) % M \in Reg
    <3>1. i.op = "mulli" => Signed(a) * i.imm \in Int
      BY <1>2, <1>3
    <3> QED BY <3>1, Modulo
  <2>2. Signed(a) * Signed(b) \in Int
    BY <1>2
  <2>3. (Signed(a) * Signed(b)) % M \in Reg
    BY <2>2, Modulo
  <2>4. (Signed(a) * Signed(b)) \div M \in Int
    <3> DEFINE p == Signed(a) * Signed(b)
    <3>1. p \in Int
      BY <2>2
    <3> HIDE DEF p
    <3>2. p \div M \in Int
      BY <3>1, WordSize
    <3> QED BY <3>2 DEF p
  <2>5. ((Signed(a) * Signed(b)) \div M) % M \in Reg
    BY <2>4, Modulo
  <2> QED BY <1>6, <2>1, <2>3, <2>5 DEF Result, a, b
<1>7. CASE i.op = "mulhwux"
  <2> DEFINE p == a * b
             q == p \div M
             r == p % M
  <2>1. p \in Nat /\ p < M * M
    <3> DEFINE u == a * M
               v == M * M
    <3>1. p \in Nat /\ p <= u
      BY <1>2, WordSize
    <3>2. u \in Int /\ v \in Int /\ u <= v - M
      BY <1>2, WordSize
    <3> HIDE DEF p, u, v
    <3>3. p < v
      BY <3>1, <3>2, WordSize
    <3> QED BY <3>1, <3>3 DEF v
  <2> HIDE DEF p
  <2>2. q \in Int /\ r \in Int /\ 0 <= r /\ r < M /\ p = q * M + r
    BY <2>1, WordSize
  <2> HIDE DEF q, r
  <2>3. ~(q >= M)
    <3>1. q >= M => q * M >= M * M
      BY <2>2, WordSize
    <3> QED BY <2>1, <2>2, <3>1, WordSize
  <2>4. ~(q < 0)
    <3>1. q < 0 => q * M <= -M
      BY <2>2, WordSize
    <3> QED BY <2>1, <2>2, <3>1, WordSize
  <2>5. q \in Reg
    BY <2>2, <2>3, <2>4, WordSize DEF Reg
  <2> QED BY <1>7, <2>5 DEF Result, a, b, p, q
<1>8. CASE i.op = "divwux"
  <2>1. b # 0 => a \div b \in Reg
    BY <1>2, Smaller, WordSize DEF Reg
  <2> QED BY <1>8, <2>1, WordSize DEF Result, a, b
<1>9. CASE i.op = "divwx"
  <2>1. b # 0 => Quotient(Signed(a), Signed(b)) \in Int
    BY <1>1, <1>2, SignedWord, QuotientWord
  <2>2. b # 0 => Quotient(Signed(a), Signed(b)) % M \in Reg
    BY <2>1, Modulo
  <2> QED BY <1>9, <2>2, WordSize DEF Result, a, b
<1>10. CASE i.op \in {"andx", "andcx", "orx", "orcx", "xorx", "andi_rc", "andis_rc", "ori", "oris",
                      "xori", "xoris", "rlwinmx", "rlwnmx", "rlwimix"}
  BY <1>10, LogicWords DEF Result
<1>11. CASE i.op \in {"nandx", "norx", "eqvx"}
  <2>1. Not(And(a, b)) \in Reg /\ Not(Or(a, b)) \in Reg /\ Not(Xor(a, b)) \in Reg
    BY LogicWords, Complement
  <2> QED BY <1>11, <2>1 DEF Result, a, b
<1>12. CASE i.op \in {"extsbx", "extshx", "cntlzwx"}
  <2>1. W \div 4 \in 0..W /\ W \div 2 \in 0..W
    BY SmallPowers
  <2> QED BY <1>1, <1>12, <2>1, ExtendedWord, LeadingZerosWord DEF Result, a, b
<1>13. CASE i.op \in {"slwx", "srwx"}
  <2>1. b % W \in 0..W
    BY <1>2, SmallPowers
  <2>2. ShiftLeft(a, b % W) \in Reg /\ ShiftRight(a, b % W) \in Reg
    BY <1>1, <2>1, ShiftWords
  <2> QED BY <1>13, <2>2, WordSize DEF Result, a, b
<1> QED BY <1>5, <1>6, <1>7, <1>8, <1>9, <1>10, <1>11, <1>12, <1>13 DEF PlainOps

-----------------------------------------------------------------------------
(* Digits of a word *)

\* A quotient and a remainder, taken apart.
LEMMA Parts ==
  ASSUME NEW a \in Int, NEW p \in Nat \ {0}
  PROVE  /\ a \div p \in Int /\ a % p \in Nat /\ a % p < p
         /\ a = (a \div p) * p + (a % p)
         /\ a \in Nat => a \div p \in Nat
         /\ 0 <= a /\ a < p => a \div p = 0 /\ a % p = a
<1>1. a \div p \in Int /\ a % p \in Nat /\ a % p < p /\ a = (a \div p) * p + (a % p)
  <2> DEFINE q == a \div p
             r == a % p
  <2>1. q \in Int /\ r \in Nat /\ r < p
    OBVIOUS
  <2>2. a = q * p + r
    OBVIOUS
  <2> QED BY <2>1, <2>2
<1>2. a \in Nat => a \div p \in Nat
  BY Smaller
<1>3. ASSUME 0 <= a, a < p PROVE a \div p = 0 /\ a % p = a
  <2>1. (0 * p + a) % p = a /\ (0 * p + a) \div p = 0
    BY <1>3, DivMod
  <2> QED BY <2>1
<1> QED BY <1>1, <1>2, <1>3

LEMMA TwoPowers ==
  /\ W \in Nat /\ 2 * W \in Nat /\ M = Power[W] /\ W >= 8
  /\ \A k \in 0..(2 * W) : k \in Nat /\ Power[k] \in Nat \ {0}
  /\ Power[0] = 1
  /\ \A k \in 0..(2 * W) : k + 1 \in 0..(2 * W) => Power[k + 1] = 2 * Power[k]
<1>1. W \in Nat /\ 2 * W \in Nat /\ M = Power[W] /\ W >= 8
  BY WidthAssumption, SmallPowers
<1>2. ASSUME NEW k \in 0..(2 * W), k + 1 \in 0..(2 * W) PROVE Power[k + 1] = 2 * Power[k]
  <2>1. k + 1 # 0 /\ (k + 1) - 1 = k
    BY <1>1
  <2> QED BY <1>2, <2>1, Powers
<1> QED BY <1>1, <1>2, Powers

\* Exponents add up.
LEMMA PowerSum ==
  ASSUME NEW a \in Nat, NEW b \in Nat, a + b <= 2 * W
  PROVE  Power[a + b] = Power[a] * Power[b]
<1> DEFINE T == {n \in Nat : a + n <= 2 * W => Power[a + n] = Power[a] * Power[n]}
<1>1. W \in Nat /\ a \in 0..(2 * W)
  BY TwoPowers
<1>2. 0 \in T
  <2>1. a + 0 = a /\ Power[0] = 1 /\ Power[a] \in Nat
    BY <1>1, TwoPowers
  <2> QED BY <2>1
<1>3. ASSUME NEW n \in Nat, n \in T PROVE n + 1 \in T
  <2> SUFFICES ASSUME a + (n + 1) <= 2 * W PROVE Power[a + (n + 1)] = Power[a] * Power[n + 1]
    OBVIOUS
  <2>1. /\ n \in 0..(2 * W) /\ n + 1 \in 0..(2 * W) /\ a + n \in 0..(2 * W)
        /\ (a + n) + 1 \in 0..(2 * W) /\ (a + n) + 1 = a + (n + 1) /\ a + n <= 2 * W
    BY <1>1
  <2>2. Power[(a + n) + 1] = 2 * Power[a + n] /\ Power[n + 1] = 2 * Power[n]
    BY <2>1, TwoPowers
  <2>3. Power[a + n] = Power[a] * Power[n]
    BY <1>3, <2>1
  <2>4. Power[a] \in Nat /\ Power[n] \in Nat
    BY <1>1, <2>1, TwoPowers
  <2> DEFINE x == Power[a]
             y == Power[n]
  <2> HIDE DEF x, y
  <2>5. 2 * (x * y) = x * (2 * y)
    BY <2>4 DEF x, y
  <2> QED BY <2>1, <2>2, <2>3, <2>5 DEF x, y
<1> HIDE DEF T
<1>4. b \in T
  BY <1>2, <1>3, Induction
<1> QED BY <1>4 DEF T

\* What divides twice divides by the product.
LEMMA DivDiv ==
  ASSUME NEW a \in Nat, NEW p \in Nat \ {0}, NEW q \in Nat \ {0}
  PROVE  (a \div p) \div q = a \div (p * q)
<1> DEFINE u == a \div p
           r == a % p
           v == u \div q
           s == u % q
           m == p * q
           t == s * p + r
<1>1. u \in Nat /\ r \in Nat /\ r < p /\ a = u * p + r
  BY Parts
<1> HIDE DEF u, r
<1>2. v \in Nat /\ s \in Nat /\ s < q /\ u = v * q + s
  BY <1>1, Parts
<1> HIDE DEF v, s
<1>3. s * p <= (q - 1) * p
  BY <1>2
<1>4. t \in Nat /\ t < m /\ m \in Nat /\ m > 0
  <2>1. s * p \in Nat /\ (q - 1) * p = p * q - p /\ p * q \in Nat
    BY <1>2
  <2>2. t \in Nat /\ t < m
    BY <1>1, <1>3, <2>1
  <2> QED BY <2>1, <2>2
<1>5. a = v * m + t
  <2>1. (v * q + s) * p = v * (p * q) + s * p
    BY <1>2
  <2> QED BY <1>1, <1>2, <2>1
<1> HIDE DEF m, t
<1>6. (v * m + t) \div m = v
  BY <1>2, <1>4, DivMod
<1> QED BY <1>5, <1>6 DEF m, v, u

\* The k-th bit, as a number.
Digit(a, k) == (a \div Power[k]) % 2

LEMMA Digits ==
  ASSUME NEW a \in Nat, NEW k \in 0..(2 * W)
  PROVE  Digit(a, k) \in {0, 1} /\ a \div Power[k] \in Nat
<1>1. Power[k] \in Nat \ {0}
  BY TwoPowers
<1>2. a \div Power[k] \in Nat
  BY <1>1, Parts
<1> QED BY <1>2 DEF Digit

LEMMA BitDigit == \A a, k : k \in Bit(a) <=> k \in 0..(W - 1) /\ Digit(a, k) = 1
BY DEF Bit, Digit

\* The next digit is what a longer remainder adds to a shorter one.
LEMMA LongerRemainder ==
  ASSUME NEW a \in Nat, NEW p \in Nat \ {0}
  PROVE  a % (2 * p) = (a % p) + p * ((a \div p) % 2)
<1> DEFINE u == a \div p
           r == a % p
           v == u \div 2
           e == u % 2
           m == 2 * p
           t == p * e + r
<1>1. u \in Nat /\ r \in Nat /\ r < p /\ a = u * p + r
  BY Parts
<1> HIDE DEF u, r
<1>2. v \in Nat /\ e \in {0, 1} /\ u = v * 2 + e
  BY <1>1
<1> HIDE DEF v, e
<1>3. t \in Nat /\ t < m /\ m \in Nat /\ m > 0
  BY <1>1, <1>2
<1>4. a = v * m + t
  <2>1. (v * 2 + e) * p = v * (2 * p) + p * e
    BY <1>2
  <2> QED BY <1>1, <1>2, <2>1
<1> HIDE DEF m, t
<1>5. (v * m + t) % m = t
  BY <1>2, <1>3, DivMod
<1> QED BY <1>4, <1>5 DEF m, t, r, e, u

LEMMA WordDigits ==
  ASSUME NEW a \in Reg, NEW k \in 0..(W - 1)
  PROVE  /\ a \in Nat /\ k \in 0..(2 * W) /\ k + 1 \in 0..(2 * W)
         /\ Digit(a, k) \in {0, 1}
         /\ a % Power[k + 1] = (a % Power[k]) + Power[k] * Digit(a, k)
         /\ k \in Bit(a) <=> Digit(a, k) = 1
<1>1. a \in Nat /\ k \in 0..(2 * W) /\ k + 1 \in 0..(2 * W)
  BY TwoPowers DEF Reg
<1>2. Digit(a, k) \in {0, 1}
  BY <1>1, Digits
<1>3. Power[k] \in Nat \ {0} /\ Power[k + 1] = 2 * Power[k]
  BY <1>1, TwoPowers
<1>4. a % (2 * Power[k]) = (a % Power[k]) + Power[k] * ((a \div Power[k]) % 2)
  BY <1>1, <1>3, LongerRemainder
<1> QED BY <1>1, <1>2, <1>3, <1>4, BitDigit DEF Digit

\* Two pairs of words with the same number of ones at every place have the same sum.
LEMMA DigitSum ==
  ASSUME NEW a \in Reg, NEW b \in Reg, NEW c \in Reg, NEW d \in Reg,
         \A k \in 0..(W - 1) : Digit(c, k) + Digit(d, k) = Digit(a, k) + Digit(b, k)
  PROVE  c + d = a + b
<1> DEFINE Ending(x, n) == x % Power[n]
           T == {n \in Nat : n <= W => Ending(c, n) + Ending(d, n) = Ending(a, n) + Ending(b, n)}
<1>1. W \in Nat /\ a \in Nat /\ b \in Nat /\ c \in Nat /\ d \in Nat
  BY TwoPowers DEF Reg
<1>2. 0 \in T
  <2>1. \A x \in Nat : x % 1 = 0
    OBVIOUS
  <2>2. Power[0] = 1
    BY TwoPowers
  <2> QED BY <1>1, <2>1, <2>2
<1>3. ASSUME NEW n \in Nat, n \in T PROVE n + 1 \in T
  <2> SUFFICES ASSUME n + 1 <= W
               PROVE  Ending(c, n + 1) + Ending(d, n + 1) = Ending(a, n + 1) + Ending(b, n + 1)
    OBVIOUS
  <2>1. n \in 0..(W - 1) /\ n <= W
    BY <1>1
  <2>2. Ending(c, n) + Ending(d, n) = Ending(a, n) + Ending(b, n)
    BY <1>3, <2>1
  <2> DEFINE p == Power[n]
             da == Digit(a, n)
             db == Digit(b, n)
             dc == Digit(c, n)
             dd == Digit(d, n)
  <2>3. dc + dd = da + db
    BY <2>1
  <2>4. /\ Ending(a, n + 1) = Ending(a, n) + p * da /\ da \in Int
        /\ Ending(b, n + 1) = Ending(b, n) + p * db /\ db \in Int
        /\ Ending(c, n + 1) = Ending(c, n) + p * dc /\ dc \in Int
        /\ Ending(d, n + 1) = Ending(d, n) + p * dd /\ dd \in Int
    BY <2>1, WordDigits
  <2>5. p \in Nat \ {0}
    BY <2>1, TwoPowers
  <2>6. Ending(a, n) \in Nat /\ Ending(b, n) \in Nat /\ Ending(c, n) \in Nat /\ Ending(d, n) \in Nat
    BY <1>1, <2>5
  <2> HIDE DEF Ending, p, da, db, dc, dd
  <2>7. p * dc + p * dd = p * da + p * db
    <3>1. p * (dc + dd) = p * (da + db)
      BY <2>3
    <3> QED BY <2>4, <2>5, <3>1
  <2>8. p * dc \in Int /\ p * dd \in Int /\ p * da \in Int /\ p * db \in Int
    BY <2>4, <2>5
  <2> QED BY <2>2, <2>4, <2>6, <2>7, <2>8
<1> HIDE DEF T
<1>4. W \in T
  BY <1>1, <1>2, <1>3, Induction
<1>5. Ending(a, W) = a /\ Ending(b, W) = b /\ Ending(c, W) = c /\ Ending(d, W) = d
  <2>1. \A x \in Reg : x % M = x
    BY Wrap, WordSize DEF Reg
  <2> QED BY <2>1, TwoPowers
<1> QED BY <1>1, <1>4, <1>5 DEF T

LEMMA ZeroDigits == \A k \in 0..(2 * W) : Digit(0, k) = 0
<1>1. ASSUME NEW k \in 0..(2 * W) PROVE Digit(0, k) = 0
  <2>1. Power[k] \in Nat \ {0}
    BY TwoPowers
  <2>2. 0 \div Power[k] = 0
    BY <2>1
  <2> QED BY <2>2 DEF Digit
<1> QED BY <1>1

\* A word is known by its bits.
LEMMA SameWord ==
  ASSUME NEW a \in Reg, NEW b \in Reg, \A k \in 0..(W - 1) : Digit(a, k) = Digit(b, k)
  PROVE  a = b
<1> DEFINE z == 0
<1>1. z \in Reg
  BY WordSize
<1>2. a + z = b + z
  <2>1. \A k \in 0..(W - 1) : Digit(a, k) + Digit(z, k) = Digit(b, k) + Digit(z, k)
    OBVIOUS
  <2> HIDE DEF z
  <2> QED BY <1>1, <2>1, DigitSum
<1> QED BY <1>2 DEF Reg

LEMMA LogicDigits ==
  ASSUME NEW a \in Reg, NEW b \in Reg, NEW k \in 0..(W - 1)
  PROVE  /\ Digit(And(a, b), k) = IF Digit(a, k) = 1 /\ Digit(b, k) = 1 THEN 1 ELSE 0
         /\ Digit(Or(a, b), k) = IF Digit(a, k) = 1 \/ Digit(b, k) = 1 THEN 1 ELSE 0
         /\ Digit(Xor(a, b), k) = IF Digit(a, k) = Digit(b, k) THEN 0 ELSE 1
<1>1. Bit(a) \in SUBSET (0..(W - 1)) /\ Bit(b) \in SUBSET (0..(W - 1))
  BY DEF Bit
<1> DEFINE I == Bit(a) \cap Bit(b)
           U == Bit(a) \cup Bit(b)
           X == (Bit(a) \ Bit(b)) \cup (Bit(b) \ Bit(a))
<1>2. I \in SUBSET (0..(W - 1)) /\ U \in SUBSET (0..(W - 1)) /\ X \in SUBSET (0..(W - 1))
  BY <1>1
<1>3. And(a, b) = Word(I) /\ Or(a, b) = Word(U) /\ Xor(a, b) = Word(X)
  BY DEF And, Or, Xor
<1>4. /\ k \in I <=> k \in Bit(a) /\ k \in Bit(b)
      /\ k \in U <=> k \in Bit(a) \/ k \in Bit(b)
      /\ k \in X <=> ~(k \in Bit(a) <=> k \in Bit(b))
  OBVIOUS
<1> HIDE DEF I, U, X
<1>5. /\ Bit(And(a, b)) = I /\ Bit(Or(a, b)) = U /\ Bit(Xor(a, b)) = X
      /\ And(a, b) \in Reg /\ Or(a, b) \in Reg /\ Xor(a, b) \in Reg
  BY <1>2, <1>3, WordBits
<1> DEFINE da == Digit(a, k)
           db == Digit(b, k)
           di == Digit(And(a, b), k)
           du == Digit(Or(a, b), k)
           dx == Digit(Xor(a, b), k)
<1>6. da \in {0, 1} /\ db \in {0, 1} /\ (k \in Bit(a) <=> da = 1) /\ (k \in Bit(b) <=> db = 1)
  BY WordDigits
<1>7. /\ di \in {0, 1} /\ du \in {0, 1} /\ dx \in {0, 1}
      /\ (k \in I <=> di = 1) /\ (k \in U <=> du = 1) /\ (k \in X <=> dx = 1)
  BY <1>5, WordDigits
<1> HIDE DEF da, db, di, du, dx
<1>8. /\ di = 1 <=> da = 1 /\ db = 1
      /\ du = 1 <=> da = 1 \/ db = 1
      /\ dx = 1 <=> ~(da = db)
  BY <1>4, <1>6, <1>7
<1>9. /\ di = IF da = 1 /\ db = 1 THEN 1 ELSE 0
      /\ du = IF da = 1 \/ db = 1 THEN 1 ELSE 0
      /\ dx = IF da = db THEN 0 ELSE 1
  BY <1>7, <1>8
<1> QED BY <1>9 DEF da, db, di, du, dx

\* The complement's bits.
LEMMA NotDigit ==
  ASSUME NEW a \in Reg, NEW k \in 0..(W - 1)
  PROVE  Digit(Not(a), k) = 1 - Digit(a, k)
<1> DEFINE p == Power[k]
           h == Power[W - 1 - k]
           u == a \div p
           r == a % p
           v == 2 * h - 1 - u
           s == p - 1 - r
<1>0. /\ k \in Nat /\ W \in Nat /\ W - 1 - k \in Nat /\ W - 1 - k \in 0..(2 * W)
      /\ (W - 1 - k) + 1 \in 0..(2 * W) /\ (W - 1 - k) + 1 = W - k /\ k \in 0..(2 * W)
      /\ W - k \in Nat /\ k + (W - k) = W /\ W <= 2 * W
  BY TwoPowers
<1>1. p \in Nat \ {0} /\ h \in Nat \ {0} /\ Power[W - k] = 2 * h
  BY <1>0, TwoPowers
<1>2. M = p * (2 * h)
  BY <1>0, <1>1, PowerSum, TwoPowers
<1> HIDE DEF p, h
<1>3. u \in Nat /\ r \in Nat /\ r < p /\ a = u * p + r
  BY <1>1, Parts DEF Reg
<1> HIDE DEF u, r
<1>4. s \in Int /\ 0 <= s /\ s < p /\ v \in Int
  BY <1>1, <1>3
<1>5. Not(a) = v * p + s
  <2>1. (2 * h - 1 - u) * p = p * (2 * h) - p - u * p
    BY <1>1, <1>3
  <2>2. p * (2 * h) \in Nat /\ u * p \in Nat
    BY <1>1, <1>3
  <2> QED BY <1>1, <1>2, <1>3, <2>1, <2>2 DEF Not
<1>6. v % 2 = 1 - (u % 2)
  BY <1>1, <1>3
<1> HIDE DEF v, s
<1>7. (v * p + s) \div p = v
  BY <1>1, <1>4, DivMod
<1> QED BY <1>5, <1>6, <1>7 DEF Digit, u, p

-----------------------------------------------------------------------------
(* The logical instructions as sums *)

\* The logical instructions as sums.
LEMMA LogicSums ==
  ASSUME NEW a \in Reg, NEW b \in Reg
  PROVE  /\ And(a, b) + Or(a, b) = a + b
         /\ Xor(a, b) + And(a, b) = Or(a, b)
         /\ And(a, b) \in Reg /\ Or(a, b) \in Reg /\ Xor(a, b) \in Reg
<1> DEFINE i == And(a, b)
           u == Or(a, b)
           x == Xor(a, b)
           z == 0
<1>1. i \in Reg /\ u \in Reg /\ x \in Reg /\ z \in Reg
  BY LogicWords, WordSize
<1>2. ASSUME NEW k \in 0..(W - 1)
      PROVE  /\ Digit(i, k) + Digit(u, k) = Digit(a, k) + Digit(b, k)
             /\ Digit(x, k) + Digit(i, k) = Digit(u, k) + Digit(z, k)
  <2>1. Digit(a, k) \in {0, 1} /\ Digit(b, k) \in {0, 1}
    BY WordDigits
  <2>2. Digit(z, k) = 0
    BY ZeroDigits, TwoPowers
  <2>3. /\ Digit(i, k) = IF Digit(a, k) = 1 /\ Digit(b, k) = 1 THEN 1 ELSE 0
        /\ Digit(u, k) = IF Digit(a, k) = 1 \/ Digit(b, k) = 1 THEN 1 ELSE 0
        /\ Digit(x, k) = IF Digit(a, k) = Digit(b, k) THEN 0 ELSE 1
    BY LogicDigits
  <2> HIDE DEF i, u, x, z
  <2> QED BY <2>1, <2>2, <2>3
<1> HIDE DEF i, u, x, z
<1>3. i + u = a + b
  BY <1>1, <1>2, DigitSum
<1>4. x + i = u + z
  BY <1>1, <1>2, DigitSum
<1>5. x + i = u
  BY <1>1, <1>4 DEF z, Reg
<1> QED BY <1>1, <1>3, <1>5 DEF i, u, x

\* No two ones at the same place.
Disjoint(a, b) == \A k \in 0..(W - 1) : Digit(a, k) = 0 \/ Digit(b, k) = 0

LEMMA DisjointSum ==
  ASSUME NEW a \in Reg, NEW b \in Reg, Disjoint(a, b)
  PROVE  Or(a, b) = a + b /\ Xor(Or(a, b), b) = a
<1> DEFINE u == Or(a, b)
           x == Xor(u, b)
           z == 0
<1>1. u \in Reg /\ x \in Reg /\ z \in Reg
  BY LogicWords, WordSize
<1>2. ASSUME NEW k \in 0..(W - 1)
      PROVE  /\ Digit(u, k) + Digit(z, k) = Digit(a, k) + Digit(b, k)
             /\ Digit(x, k) = Digit(a, k)
  <2>1. Digit(a, k) \in {0, 1} /\ Digit(b, k) \in {0, 1} /\ (Digit(a, k) = 0 \/ Digit(b, k) = 0)
    BY WordDigits DEF Disjoint
  <2>2. Digit(z, k) = 0
    BY ZeroDigits, TwoPowers
  <2>3. Digit(u, k) = IF Digit(a, k) = 1 \/ Digit(b, k) = 1 THEN 1 ELSE 0
    BY LogicDigits
  <2>4. Digit(x, k) = IF Digit(u, k) = Digit(b, k) THEN 0 ELSE 1
    <3> HIDE DEF u
    <3> QED BY <1>1, LogicDigits
  <2> HIDE DEF u, x, z
  <2> QED BY <2>1, <2>2, <2>3, <2>4
<1> HIDE DEF u, x, z
<1>3. u + z = a + b
  BY <1>1, <1>2, DigitSum
<1>4. x = a
  BY <1>1, <1>2, SameWord
<1>5. u = a + b
  BY <1>1, <1>3 DEF z, Reg
<1> QED BY <1>4, <1>5 DEF u, x

\* What the logical instructions make of particular words.
LEMMA LogicLaws ==
  ASSUME NEW a \in Reg, NEW b \in Reg
  PROVE  /\ Or(a, 0) = a /\ Or(0, a) = a /\ Or(a, a) = a
         /\ Xor(a, b) = 0 <=> a = b
         /\ Or(a, Not(a)) = M - 1
         /\ Xor(a, 0) = a /\ Xor(a, M - 1) = Not(a)
<1> DEFINE z == 0
           f == M - 1
           n == Not(a)
<1>1. z \in Reg /\ f \in Reg /\ n \in Reg
  BY WordSize, Complement
<1>2. \A k \in 0..(W - 1) : Digit(z, k) = 0
  BY ZeroDigits, TwoPowers
<1>3. \A k \in 0..(W - 1) : Digit(f, k) = 1
  <2>1. Not(z) = f
    BY WordSize DEF Not
  <2> HIDE DEF z, f
  <2>2. \A k \in 0..(W - 1) : Digit(f, k) = 1 - Digit(z, k)
    BY <1>1, <2>1, NotDigit
  <2> QED BY <1>2, <2>2
<1>4. \A k \in 0..(W - 1) : Digit(n, k) = 1 - Digit(a, k)
  BY NotDigit
<1>5. \A k \in 0..(W - 1) : Digit(a, k) \in {0, 1}
  BY WordDigits
<1> HIDE DEF z, f, n
<1>6. Or(a, z) = a
  <2>1. Or(a, z) \in Reg
    BY LogicWords
  <2>2. ASSUME NEW k \in 0..(W - 1) PROVE Digit(Or(a, z), k) = Digit(a, k)
    <3>1. Digit(Or(a, z), k) = IF Digit(a, k) = 1 \/ Digit(z, k) = 1 THEN 1 ELSE 0
      BY <1>1, LogicDigits
    <3> QED BY <1>2, <1>5, <3>1
  <2> QED BY <2>1, <2>2, SameWord
<1>7. Or(z, a) = a
  <2>1. Or(z, a) \in Reg
    BY LogicWords
  <2>2. ASSUME NEW k \in 0..(W - 1) PROVE Digit(Or(z, a), k) = Digit(a, k)
    <3>1. Digit(Or(z, a), k) = IF Digit(z, k) = 1 \/ Digit(a, k) = 1 THEN 1 ELSE 0
      BY <1>1, LogicDigits
    <3> QED BY <1>2, <1>5, <3>1
  <2> QED BY <2>1, <2>2, SameWord
<1>8. Or(a, a) = a
  <2>1. Or(a, a) \in Reg
    BY LogicWords
  <2>2. ASSUME NEW k \in 0..(W - 1) PROVE Digit(Or(a, a), k) = Digit(a, k)
    <3>1. Digit(Or(a, a), k) = IF Digit(a, k) = 1 \/ Digit(a, k) = 1 THEN 1 ELSE 0
      BY LogicDigits
    <3> QED BY <1>5, <3>1
  <2> QED BY <2>1, <2>2, SameWord
<1>9. Xor(a, b) = z <=> a = b
  <2>1. Xor(a, b) \in Reg
    BY LogicWords
  <2>2. \A k \in 0..(W - 1) : Digit(Xor(a, b), k) = IF Digit(a, k) = Digit(b, k) THEN 0 ELSE 1
    BY LogicDigits
  <2>3. ASSUME Xor(a, b) = z PROVE a = b
    <3>1. \A k \in 0..(W - 1) : Digit(a, k) = Digit(b, k)
      BY <1>2, <2>2, <2>3
    <3> QED BY <3>1, SameWord
  <2>4. ASSUME a = b PROVE Xor(a, b) = z
    <3>1. \A k \in 0..(W - 1) : Digit(Xor(a, b), k) = Digit(z, k)
      BY <1>2, <2>2, <2>4
    <3> QED BY <1>1, <2>1, <3>1, SameWord
  <2> QED BY <2>3, <2>4
<1>10. Or(a, n) = f
  <2>1. Or(a, n) \in Reg
    BY LogicWords
  <2>2. ASSUME NEW k \in 0..(W - 1) PROVE Digit(Or(a, n), k) = Digit(f, k)
    <3>1. Digit(Or(a, n), k) = IF Digit(a, k) = 1 \/ Digit(n, k) = 1 THEN 1 ELSE 0
      BY <1>1, LogicDigits
    <3> QED BY <1>3, <1>4, <1>5, <3>1
  <2> QED BY <1>1, <2>1, <2>2, SameWord
<1>11. Xor(a, z) = a
  <2>1. Xor(a, z) \in Reg
    BY LogicWords
  <2>2. ASSUME NEW k \in 0..(W - 1) PROVE Digit(Xor(a, z), k) = Digit(a, k)
    <3>1. Digit(Xor(a, z), k) = IF Digit(a, k) = Digit(z, k) THEN 0 ELSE 1
      BY <1>1, LogicDigits
    <3> QED BY <1>2, <1>5, <3>1
  <2> QED BY <2>1, <2>2, SameWord
<1>12. Xor(a, f) = n
  <2>1. Xor(a, f) \in Reg
    BY LogicWords
  <2>2. ASSUME NEW k \in 0..(W - 1) PROVE Digit(Xor(a, f), k) = Digit(n, k)
    <3>1. Digit(Xor(a, f), k) = IF Digit(a, k) = Digit(f, k) THEN 0 ELSE 1
      BY <1>1, LogicDigits
    <3> QED BY <1>3, <1>4, <1>5, <3>1
  <2> QED BY <1>1, <2>1, <2>2, SameWord
<1> QED BY <1>6, <1>7, <1>8, <1>9, <1>10, <1>11, <1>12 DEF z, f, n

\* A number that a power of two divides has no ones below; one that is smaller has none above.
LEMMA ZeroBelow ==
  ASSUME NEW x \in Nat, NEW n \in 0..W, NEW k \in 0..(n - 1)
  PROVE  Digit(x * Power[n], k) = 0
<1> DEFINE p == Power[k]
           h == Power[n - k - 1]
           y == x * h
           e == 2 * y
           z == 0
<1>1. /\ k \in 0..(2 * W) /\ n - k - 1 \in 0..(2 * W) /\ (n - k - 1) + 1 \in 0..(2 * W)
      /\ (n - k - 1) + 1 = n - k /\ n - k \in Nat /\ k \in Nat /\ k + (n - k) = n /\ n <= 2 * W
  BY TwoPowers
<1>2. p \in Nat \ {0} /\ h \in Nat \ {0} /\ Power[n - k] = 2 * h
  BY <1>1, TwoPowers
<1>3. Power[n] = p * (2 * h)
  BY <1>1, <1>2, PowerSum
<1> HIDE DEF p, h
<1>4. y \in Nat /\ e \in Nat /\ x * (p * (2 * h)) = e * p + z
  BY <1>2
<1>5. z \in Int /\ 0 <= z /\ z < p
  BY <1>2
<1>6. e % 2 = 0
  BY <1>4
<1> HIDE DEF e, z
<1>7. (e * p + z) \div p = e
  BY <1>2, <1>4, <1>5, DivMod
<1> QED BY <1>3, <1>4, <1>6, <1>7 DEF Digit, p

LEMMA ZeroAbove ==
  ASSUME NEW x \in Nat, NEW n \in 0..(2 * W), x < Power[n], NEW k \in n..(2 * W)
  PROVE  Digit(x, k) = 0
<1> DEFINE p == Power[k]
           q == Power[n]
           h == Power[k - n]
<1>1. n \in Nat /\ k - n \in Nat /\ n + (k - n) = k /\ k <= 2 * W /\ k - n \in 0..(2 * W) /\ k \in 0..(2 * W)
  BY TwoPowers
<1>2. p = q * h
  BY <1>1, PowerSum
<1>3. h \in Nat \ {0} /\ q \in Nat \ {0} /\ p \in Nat \ {0} /\ x < q
  BY <1>1, TwoPowers
<1> HIDE DEF p, q, h
<1>4. q <= p
  BY <1>2, <1>3
<1>5. x < p
  BY <1>3, <1>4
<1>6. x \div p = 0
  BY <1>3, <1>5, Parts
<1> QED BY <1>6 DEF Digit, p

LEMMA DisjointParts ==
  ASSUME NEW x \in Nat, NEW n \in 0..W, NEW y \in Nat, y < Power[n]
  PROVE  Disjoint(x * Power[n], y) /\ Disjoint(y, x * Power[n])
<1>1. W \in Nat /\ n \in 0..(2 * W)
  BY TwoPowers
<1>2. ASSUME NEW k \in 0..(W - 1) PROVE Digit(x * Power[n], k) = 0 \/ Digit(y, k) = 0
  <2>1. CASE k < n
    BY <1>1, <2>1, ZeroBelow
  <2>2. CASE n <= k
    BY <1>1, <2>2, ZeroAbove
  <2> QED BY <1>1, <2>1, <2>2
<1> QED BY <1>2 DEF Disjoint

-----------------------------------------------------------------------------
(* Shifts, rotations and masks by digits *)

\* The word's length, split at a place.
LEMMA SplitWord ==
  ASSUME NEW n \in 0..W
  PROVE  /\ n \in Nat /\ n \in 0..(2 * W) /\ W - n \in Nat /\ W - n \in 0..W /\ W - n \in 0..(2 * W)
         /\ Power[n] \in Nat \ {0} /\ Power[W - n] \in Nat \ {0}
         /\ M = Power[n] * Power[W - n]
<1>1. n \in Nat /\ n \in 0..(2 * W) /\ W - n \in Nat /\ W - n \in 0..W /\ W - n \in 0..(2 * W)
      /\ n + (W - n) = W /\ W <= 2 * W
  BY TwoPowers
<1>2. Power[W] = Power[n] * Power[W - n]
  BY <1>1, PowerSum
<1> QED BY <1>1, <1>2, TwoPowers

\* A shift to the left keeps the low bits and loses the high ones.
LEMMA ShiftedLeft ==
  ASSUME NEW a \in Nat, NEW n \in 0..W
  PROVE  /\ ShiftLeft(a, n) = (a % Power[W - n]) * Power[n]
         /\ a % Power[W - n] \in Nat
<1> DEFINE p == Power[n]
           q == Power[W - n]
           u == a \div q
           r == a % q
           m == p * q
           t == r * p
<1>1. p \in Nat \ {0} /\ q \in Nat \ {0} /\ M = m
  BY SplitWord
<1> HIDE DEF p, q
<1>2. u \in Nat /\ r \in Nat /\ r < q /\ a = u * q + r
  BY <1>1, Parts
<1> HIDE DEF u, r
<1>3. t \in Int /\ 0 <= t /\ t < m /\ m \in Nat /\ m > 0
  <2>1. r * p <= (q - 1) * p
    BY <1>1, <1>2
  <2>2. (q - 1) * p = p * q - p /\ r * p \in Nat /\ p * q \in Nat
    BY <1>1, <1>2
  <2> QED BY <1>1, <2>1, <2>2
<1>4. a * p = u * m + t
  <2>1. (u * q + r) * p = u * (p * q) + r * p
    BY <1>1, <1>2
  <2> QED BY <1>2, <2>1
<1> HIDE DEF m, t
<1>5. (u * m + t) % m = t
  BY <1>2, <1>3, DivMod
<1> QED BY <1>1, <1>2, <1>4, <1>5 DEF ShiftLeft, p, q, r, t

LEMMA RemainderDigit ==
  ASSUME NEW a \in Nat, NEW m \in 0..W, NEW j \in 0..(m - 1)
  PROVE  Digit(a % Power[m], j) = Digit(a, j)
<1> DEFINE p == Power[j]
           h == Power[m - j - 1]
           q == Power[m]
           u == a \div q
           r == a % q
           v == r \div p
           s == r % p
           w == u * (2 * h) + v
<1>1. /\ j \in 0..(2 * W) /\ m - j - 1 \in 0..(2 * W) /\ (m - j - 1) + 1 \in 0..(2 * W)
      /\ (m - j - 1) + 1 = m - j /\ m - j \in Nat /\ j \in Nat /\ j + (m - j) = m /\ m <= 2 * W
  BY TwoPowers
<1>2. p \in Nat \ {0} /\ h \in Nat \ {0} /\ Power[m - j] = 2 * h
  BY <1>1, TwoPowers
<1>3. q = p * (2 * h)
  BY <1>1, <1>2, PowerSum
<1>4. q \in Nat \ {0}
  BY <1>2, <1>3
<1> HIDE DEF p, h, q
<1>5. u \in Nat /\ r \in Nat /\ a = u * q + r
  BY <1>4, Parts
<1> HIDE DEF u, r
<1>6. v \in Nat /\ s \in Nat /\ s < p /\ r = v * p + s
  BY <1>2, <1>5, Parts
<1> HIDE DEF v, s
<1>7. w \in Nat /\ a = w * p + s
  <2> DEFINE y == u * (2 * h)
  <2>1. y \in Nat /\ y * p = u * (p * (2 * h))
    BY <1>2, <1>5
  <2>2. w = y + v
    OBVIOUS
  <2>3. a = y * p + r
    BY <1>3, <1>5, <2>1
  <2> HIDE DEF w, y
  <2>4. (y + v) * p = y * p + v * p /\ y * p \in Nat /\ v * p \in Nat
    BY <1>2, <1>6, <2>1
  <2> QED BY <1>6, <2>1, <2>2, <2>3, <2>4
<1>8. w % 2 = v % 2
  <2> DEFINE y == u * h
  <2>1. w = 2 * y + v /\ y \in Nat
    BY <1>2, <1>5, <1>6
  <2> HIDE DEF w, y
  <2> QED BY <1>6, <2>1
<1> HIDE DEF w
<1>9. (w * p + s) \div p = w
  BY <1>2, <1>6, <1>7, DivMod
<1> QED BY <1>7, <1>8, <1>9 DEF Digit, p, v, r, q

LEMMA ShiftedDigit ==
  ASSUME NEW x \in Nat, NEW n \in Nat, NEW k \in Nat, n + k <= 2 * W
  PROVE  /\ Digit(x * Power[n], n + k) = Digit(x, k)
         /\ Digit(x \div Power[n], k) = Digit(x, n + k)
<1> DEFINE p == Power[n]
           q == Power[k]
           y == x * p
           z == 0
<1>1. n \in 0..(2 * W) /\ k \in 0..(2 * W)
  BY TwoPowers
<1>2. p \in Nat \ {0} /\ q \in Nat \ {0}
  BY <1>1, TwoPowers
<1>3. Power[n + k] = p * q
  BY PowerSum
<1> HIDE DEF p, q
<1>4. (x \div p) \div q = x \div (p * q)
  BY <1>2, DivDiv
<1>5. y \in Nat /\ y = x * p + z /\ z \in Int /\ 0 <= z /\ z < p
  BY <1>2
<1>6. y \div p = x
  <2> HIDE DEF y, z
  <2>1. (x * p + z) \div p = x
    BY <1>2, <1>5, DivMod
  <2> QED BY <1>5, <2>1
<1> HIDE DEF y, z
<1>7. (y \div p) \div q = y \div (p * q)
  BY <1>2, <1>5, DivDiv
<1> QED BY <1>3, <1>4, <1>6, <1>7 DEF Digit, p, q, y

\* The bits of a shifted word.
LEMMA ShiftDigits ==
  ASSUME NEW a \in Reg, NEW n \in 0..W, NEW k \in 0..(W - 1)
  PROVE  /\ Digit(ShiftLeft(a, n), k) = IF n <= k THEN Digit(a, k - n) ELSE 0
         /\ Digit(ShiftRight(a, n), k) = IF k + n < W THEN Digit(a, k + n) ELSE 0
<1> DEFINE p == Power[n]
           q == Power[W - n]
           x == a % q
<1>0. W \in Nat /\ a \in Nat /\ a < M /\ M = Power[W] /\ W \in 0..(2 * W) /\ k \in Nat /\ n \in Nat
  BY TwoPowers DEF Reg
<1>1. p \in Nat \ {0} /\ x \in Nat /\ ShiftLeft(a, n) = x * p
  BY <1>0, ShiftedLeft, SplitWord
<1>2. Digit(x * p, k) = IF n <= k THEN Digit(a, k - n) ELSE 0
  <2>1. CASE n <= k
    <3>1. k - n \in Nat /\ n + (k - n) = k /\ n + (k - n) <= 2 * W
          /\ W - n \in 0..W /\ k - n \in 0..((W - n) - 1)
      BY <1>0, <2>1
    <3>2. Digit(x, k - n) = Digit(a, k - n)
      BY <1>0, <3>1, RemainderDigit
    <3>3. Digit(x * p, n + (k - n)) = Digit(x, k - n)
      <4> DEFINE j == k - n
      <4>1. j \in Nat /\ n + j <= 2 * W
        BY <3>1
      <4> HIDE DEF j, x
      <4>2. Digit(x * p, n + j) = Digit(x, j)
        BY <1>0, <1>1, <4>1, ShiftedDigit
      <4> QED BY <4>2 DEF j
    <3> QED BY <2>1, <3>1, <3>2, <3>3
  <2>2. CASE ~(n <= k)
    <3>1. k \in 0..(n - 1)
      BY <1>0, <2>2
    <3> HIDE DEF x
    <3>2. Digit(x * Power[n], k) = 0
      BY <1>1, <3>1, ZeroBelow
    <3> QED BY <2>2, <3>2
  <2> QED BY <2>1, <2>2
<1>3. Digit(a \div p, k) = IF k + n < W THEN Digit(a, k + n) ELSE 0
  <2>1. n + k <= 2 * W /\ n + k = k + n /\ n + k \in 0..(2 * W)
    BY <1>0
  <2>2. Digit(a \div p, k) = Digit(a, n + k)
    BY <1>0, <2>1, ShiftedDigit
  <2>3. CASE ~(k + n < W)
    <3>1. n + k \in W..(2 * W)
      BY <1>0, <2>1, <2>3
    <3>2. Digit(a, n + k) = 0
      BY <1>0, <3>1, ZeroAbove
    <3> QED BY <2>2, <2>3, <3>2
  <2> QED BY <2>1, <2>2, <2>3
<1> QED BY <1>1, <1>2, <1>3 DEF ShiftRight

\* Where the bits of a rotated word come from.
LEMMA RotatedDigit ==
  ASSUME NEW a \in Reg, NEW n \in 0..(W - 1), NEW k \in 0..(W - 1)
  PROVE  /\ Digit(RotateLeft(a, n), k) = Digit(a, IF n <= k THEN k - n ELSE (k - n) + W)
         /\ RotateLeft(a, n) \in Reg
<1>0. W \in Nat /\ W >= 8 /\ k \in Nat /\ n \in Nat
  BY TwoPowers
<1>1. n % W = n
  BY <1>0, Parts
<1> DEFINE m == (W - n) % W
           l == ShiftLeft(a, n)
           r == ShiftRight(a, m)
<1>2. RotateLeft(a, n) = Or(l, r)
  BY <1>1 DEF RotateLeft
<1>3. m \in 0..W /\ (n = 0 => m = 0) /\ (n # 0 => m = W - n)
  <2>1. CASE n = 0
    BY <1>0, <2>1
  <2>2. CASE n # 0
    <3>1. W - n \in Nat /\ W - n < W
      BY <1>0, <2>2
    <3>2. m = W - n
      BY <1>0, <3>1, Parts
    <3> QED BY <1>0, <2>2, <3>1, <3>2
  <2> QED BY <2>1, <2>2
<1> HIDE DEF m
<1>4. n \in 0..W
  BY <1>0
<1>5. l \in Reg /\ r \in Reg
  BY <1>3, <1>4, ShiftWords
<1>6. Digit(l, k) = IF n <= k THEN Digit(a, k - n) ELSE 0
  BY <1>4, ShiftDigits
<1>7. Digit(r, k) = IF k + m < W THEN Digit(a, k + m) ELSE 0
  BY <1>3, ShiftDigits
<1> HIDE DEF l, r
<1>8. Digit(Or(l, r), k) = IF Digit(l, k) = 1 \/ Digit(r, k) = 1 THEN 1 ELSE 0
  BY <1>5, LogicDigits
<1>9. \A j \in 0..(W - 1) : Digit(a, j) \in {0, 1}
  BY WordDigits
<1>10. CASE n = 0
  <2>1. n <= k /\ k - n = k /\ k + m = k /\ k < W
    BY <1>0, <1>3, <1>10
  <2> QED BY <1>2, <1>5, <1>6, <1>7, <1>8, <1>9, <2>1, LogicWords
<1>11. CASE n # 0 /\ n <= k
  <2>1. ~(k + m < W) /\ k - n \in 0..(W - 1)
    BY <1>0, <1>3, <1>11
  <2> QED BY <1>2, <1>5, <1>6, <1>7, <1>8, <1>9, <1>11, <2>1, LogicWords
<1>12. CASE n # 0 /\ ~(n <= k)
  <2>1. k + m < W /\ k + m = (k - n) + W /\ k + m \in 0..(W - 1)
    BY <1>0, <1>3, <1>12
  <2> QED BY <1>2, <1>5, <1>6, <1>7, <1>8, <1>9, <1>12, <2>1, LogicWords
<1> QED BY <1>10, <1>11, <1>12

LEMMA FullDigits == \A k \in 0..(W - 1) : Digit(M - 1, k) = 1
<1> DEFINE z == 0
           f == M - 1
<1>1. z \in Reg /\ Not(z) = f
  BY WordSize DEF Not
<1> HIDE DEF z, f
<1>2. \A k \in 0..(W - 1) : Digit(f, k) = 1 - Digit(z, k)
  BY <1>1, NotDigit
<1> QED BY <1>2, ZeroDigits, TwoPowers DEF f, z

\* A mask has the bits that its two places enclose.
LEMMA MaskDigit ==
  ASSUME NEW b \in 0..(W - 1), NEW e \in 0..(W - 1), NEW k \in 0..(W - 1)
  PROVE  /\ Digit(Mask(b, e), k) = IF Between(W - 1 - k, b, e) THEN 1 ELSE 0
         /\ Mask(b, e) \in Reg
<1> DEFINE f == M - 1
           s == ShiftRight(f, b)
           t == IF e < W - 1 THEN ShiftRight(f, e + 1) ELSE 0
           x == Xor(s, t)
<1>0. W \in Nat /\ k \in Nat /\ b \in Nat /\ e \in Nat /\ b \in 0..W /\ e + 1 \in 0..W
  BY TwoPowers
<1>1. f \in Reg /\ s \in Reg /\ t \in Reg
  BY <1>0, ShiftWords, WordSize
<1>2. Digit(s, k) = IF k + b < W THEN 1 ELSE 0
  <2>1. Digit(s, k) = IF k + b < W THEN Digit(f, k + b) ELSE 0
    BY <1>0, <1>1, ShiftDigits
  <2>2. k + b < W => k + b \in 0..(W - 1)
    BY <1>0
  <2> QED BY <2>1, <2>2, FullDigits
<1>3. Digit(t, k) = IF k + e + 1 < W THEN 1 ELSE 0
  <2>1. CASE e < W - 1
    <3>1. Digit(ShiftRight(f, e + 1), k) = IF k + (e + 1) < W THEN Digit(f, k + (e + 1)) ELSE 0
      BY <1>0, <1>1, ShiftDigits
    <3>2. k + (e + 1) < W => k + (e + 1) \in 0..(W - 1)
      BY <1>0
    <3>3. k + (e + 1) = k + e + 1
      BY <1>0
    <3> QED BY <2>1, <3>1, <3>2, <3>3, FullDigits
  <2>2. CASE ~(e < W - 1)
    <3>1. t = 0 /\ ~(k + e + 1 < W)
      BY <1>0, <2>2
    <3> QED BY <1>0, <3>1, ZeroDigits, TwoPowers
  <2> QED BY <2>1, <2>2
<1>4. Mask(b, e) = IF e < b THEN Not(x) ELSE x
  BY DEF Mask
<1> HIDE DEF s, t
<1>5. x \in Reg /\ Digit(x, k) = IF Digit(s, k) = Digit(t, k) THEN 0 ELSE 1
  BY <1>1, LogicDigits, LogicWords
<1> HIDE DEF x
<1>6. Not(x) \in Reg /\ Digit(Not(x), k) = 1 - Digit(x, k)
  BY <1>5, NotDigit, Complement
<1>7. Between(W - 1 - k, b, e) <=> IF b <= e THEN ~(k + e + 1 < W) /\ k + b < W
                                             ELSE ~(k + e + 1 < W) \/ k + b < W
  BY <1>0 DEF Between
<1>8. CASE e < b
  <2>1. Mask(b, e) = Not(x) /\ ~(b <= e) /\ (k + b < W => k + e + 1 < W)
    BY <1>0, <1>4, <1>8
  <2> QED BY <1>2, <1>3, <1>5, <1>6, <1>7, <2>1
<1>9. CASE ~(e < b)
  <2>1. Mask(b, e) = x /\ b <= e /\ (k + e + 1 < W => k + b < W)
    BY <1>0, <1>4, <1>9
  <2> QED BY <1>2, <1>3, <1>5, <1>7, <2>1
<1> QED BY <1>8, <1>9

-----------------------------------------------------------------------------
(* A double word is shifted *)

\* A word's length is a word, and twice that length divides the number of words.
LEMMA Growth == \A n \in 0..(2 * W) : n < Power[n]
<1> DEFINE T == {n \in Nat : n <= 2 * W => n < Power[n]}
<1>1. 0 \in T
  BY TwoPowers
<1>2. ASSUME NEW n \in Nat, n \in T PROVE n + 1 \in T
  <2> SUFFICES ASSUME n + 1 <= 2 * W PROVE n + 1 < Power[n + 1]
    OBVIOUS
  <2>1. n \in 0..(2 * W) /\ n + 1 \in 0..(2 * W) /\ n <= 2 * W
    BY TwoPowers
  <2>2. Power[n + 1] = 2 * Power[n] /\ Power[n] \in Nat /\ n < Power[n]
    BY <1>2, <2>1, TwoPowers
  <2> QED BY <2>2
<1> HIDE DEF T
<1>3. Nat \subseteq T
  BY <1>1, <1>2, Induction
<1> QED BY <1>3, TwoPowers DEF T

LEMMA WidthDivides == W \in Reg /\ \E q \in Nat \ {0} : M = (2 * q) * W
<1>1. W \in Nat /\ W \in 0..(2 * W) /\ M = Power[W]
  BY TwoPowers
<1>2. W < M
  BY <1>1, Growth
<1>3. PICK k \in 0..W : W = Power[k]
  BY PowerAssumption
<1>4. k # W
  BY <1>1, <1>2, <1>3
<1>5. /\ k \in 0..(2 * W) /\ k + 1 \in 0..(2 * W) /\ W - (k + 1) \in 0..(2 * W)
      /\ k + 1 \in 0..W
  BY <1>1, <1>3, <1>4
<1> DEFINE q == Power[W - (k + 1)]
<1>6. Power[k + 1] = 2 * W
  BY <1>3, <1>5, TwoPowers
<1>7. M = Power[k + 1] * q
  BY <1>5, SplitWord
<1>8. q \in Nat \ {0}
  BY <1>5, TwoPowers
<1> HIDE DEF q
<1>9. M = (2 * q) * W
  BY <1>1, <1>6, <1>7, <1>8
<1> QED BY <1>1, <1>2, <1>8, <1>9, WordSize DEF Reg

\* The amounts of the double-word shift, and those below its middle and its beginning.
LEMMA Overlongs ==
  ASSUME NEW n \in 0..W
  PROVE  /\ n < W => ~Overlong(n) /\ n % W = n
         /\ n < W => Overlong(W + n) /\ (W + n) % W = n
         /\ n # 0 => Overlong(M - n)
<1>0. W \in Nat /\ W > 0 /\ n \in Int /\ 0 <= n
  BY TwoPowers
<1>1. ASSUME n < W PROVE ~Overlong(n) /\ n % W = n
  <2>1. n \div W = 0 /\ n % W = n
    BY <1>0, <1>1, Parts
  <2> QED BY <2>1 DEF Overlong
<1>2. ASSUME n < W PROVE Overlong(W + n) /\ (W + n) % W = n
  <2>1. (1 * W + n) % W = n /\ (1 * W + n) \div W = 1
    BY <1>0, <1>2, DivMod
  <2>2. 1 * W + n = W + n
    BY <1>0
  <2> QED BY <2>1, <2>2 DEF Overlong
<1>3. ASSUME n # 0 PROVE Overlong(M - n)
  <2>1. PICK q \in Nat \ {0} : M = (2 * q) * W
    BY WidthDivides
  <2> DEFINE v == 2 * q - 1
             r == W - n
  <2>2. v \in Int /\ r \in Int /\ 0 <= r /\ r < W /\ v % 2 = 1
    BY <1>0, <1>3
  <2>3. M - n = v * W + r
    <3>1. (2 * q - 1) * W = (2 * q) * W - W /\ (2 * q) * W \in Nat
      BY <1>0
    <3> QED BY <1>0, <2>1, <3>1
  <2> HIDE DEF v, r
  <2>4. (v * W + r) \div W = v
    BY <1>0, <2>2, DivMod
  <2> QED BY <2>2, <2>3, <2>4 DEF Overlong
<1> QED BY <1>1, <1>2, <1>3

\* What slwx and srwx compute.
ShiftedUp(a, n)   == IF Overlong(n) THEN 0 ELSE ShiftLeft(a, n % W)
ShiftedDown(a, n) == IF Overlong(n) THEN 0 ELSE ShiftRight(a, n % W)

LEMMA ShiftedWords ==
  ASSUME NEW a \in Reg, NEW n \in Reg
  PROVE  ShiftedUp(a, n) \in Reg /\ ShiftedDown(a, n) \in Reg
<1>1. n % W \in 0..W
  BY TwoPowers DEF Reg
<1> QED BY <1>1, ShiftWords, WordSize DEF ShiftedUp, ShiftedDown

\* The high word of the shifted double word, by its three parts.
HighWord(a, b, n) ==
  Or(Or(ShiftedUp(a, n), ShiftedDown(b, Sub(W, n))), ShiftedUp(b, Add(n, -W)))

LEMMA ShortShift ==
  ASSUME NEW a \in Reg, NEW b \in Reg, NEW n \in 0..(W - 1)
  PROVE  /\ HighWord(a, b, n) = ShiftLeft(a, n) + (b \div Power[W - n])
         /\ ShiftedUp(b, n) = ShiftLeft(b, n)
<1>0. W \in Nat /\ W < M /\ M \in Nat /\ n \in 0..W /\ n < W /\ W - n \in 0..W /\ W - n # 0 /\ n \in Nat
  BY TwoPowers, WidthDivides, WordSize DEF Reg
<1>1. ShiftedUp(a, n) = ShiftLeft(a, n) /\ ShiftedUp(b, n) = ShiftLeft(b, n)
  BY <1>0, Overlongs DEF ShiftedUp
<1> DEFINE p == Power[n]
           q == Power[W - n]
           x == a % q
           y == b \div q
           l == ShiftLeft(a, n)
           d == W - n
<1>2. Sub(W, n) = d
  <2>1. d \in Int /\ 0 <= d /\ d < M
    BY <1>0
  <2> HIDE DEF d
  <2>2. d % M = d
    BY <2>1, Wrap
  <2> QED BY <2>2 DEF Sub, d
<1>3. Add(n, -W) = M - d
  <2> DEFINE e == n + (-W)
  <2>1. e \in Int /\ -M <= e /\ e < 0 /\ e + M = M - d
    BY <1>0
  <2> HIDE DEF e
  <2>2. e % M = e + M
    BY <2>1, Wrap
  <2> QED BY <2>1, <2>2 DEF Add, e
<1>4. ShiftedUp(b, M - d) = 0
  BY <1>0, Overlongs DEF ShiftedUp
<1>5. p \in Nat \ {0} /\ q \in Nat \ {0} /\ M = p * q /\ l = x * p /\ a \in Nat /\ b \in Nat /\ b < M
  BY <1>0, SplitWord, ShiftedLeft DEF Reg
<1>6. ShiftedDown(b, d) = y
  <2>1. CASE n = 0
    <3>1. d = W + 0 /\ 0 \in 0..W /\ 0 < W
      BY <1>0, <2>1
    <3>2. Overlong(d)
      BY <3>1, Overlongs
    <3>3. q = M
      BY <1>0, <2>1, TwoPowers
    <3>4. b \div M = 0
      BY <1>5, Parts, WordSize
    <3> HIDE DEF d, q
    <3> QED BY <3>2, <3>3, <3>4 DEF ShiftedDown
  <2>2. CASE n # 0
    <3>1. d \in 0..W /\ d < W
      BY <1>0, <2>2
    <3> HIDE DEF d
    <3>2. ~Overlong(d) /\ d % W = d
      BY <3>1, Overlongs
    <3>3. ShiftedDown(b, d) = ShiftRight(b, d)
      BY <3>2 DEF ShiftedDown
    <3> QED BY <3>3 DEF ShiftRight, d
  <2> QED BY <2>1, <2>2
<1>7. x \in Nat /\ y \in Nat /\ y < p
  <2> HIDE DEF p, q
  <2>1. x \in Nat /\ y \in Nat /\ b = y * q + (b % q) /\ b % q \in Nat
    BY <1>5, Parts
  <2> HIDE DEF x, y
  <2>2. ASSUME p <= y PROVE FALSE
    <3>1. p * q <= y * q
      BY <1>5, <2>1, <2>2
    <3>2. y * q \in Nat
      BY <1>5, <2>1
    <3> QED BY <1>5, <2>1, <3>1, <3>2
  <2> QED BY <1>5, <2>1, <2>2
<1>8. l \in Reg /\ y \in Reg /\ 0 \in Reg
  <2>1. l \in Reg
    BY <1>0, ShiftWords
  <2> HIDE DEF p, q
  <2>2. y \in Reg
    BY <1>5, Smaller DEF Reg
  <2> QED BY <2>1, <2>2, WordSize
<1>9. Disjoint(x * p, y)
  <2> HIDE DEF x, y, q
  <2> QED BY <1>0, <1>7, DisjointParts
<1> HIDE DEF p, q, x, y, l, d
<1>10. Or(l, y) = l + y
  BY <1>5, <1>8, <1>9, DisjointSum
<1>11. Or(l, y) \in Reg
  BY LogicWords
<1>12. Or(Or(l, y), 0) = Or(l, y)
  BY <1>11, LogicLaws
<1> QED BY <1>1, <1>2, <1>3, <1>4, <1>6, <1>10, <1>12 DEF HighWord, l, y, q

LEMMA LongShift ==
  ASSUME NEW a \in Reg, NEW b \in Reg, NEW m \in 0..(W - 1)
  PROVE  /\ HighWord(a, b, W + m) = ShiftLeft(b, m)
         /\ ShiftedUp(b, W + m) = 0
<1>0. W \in Nat /\ W < M /\ M \in Nat /\ m \in 0..W /\ m < W /\ m \in Nat
  BY TwoPowers, WidthDivides, WordSize DEF Reg
<1>1. ShiftedUp(a, W + m) = 0 /\ ShiftedUp(b, W + m) = 0
  BY <1>0, Overlongs DEF ShiftedUp
<1> DEFINE l == ShiftLeft(b, m)
           e == Sub(W, W + m)
<1>2. Add(W + m, -W) = m
  <2>1. (W + m) + (-W) = m /\ m \in Int /\ 0 <= m /\ m < M
    BY <1>0
  <2>2. m % M = m
    BY <2>1, Wrap
  <2> QED BY <2>1, <2>2 DEF Add
<1>3. ShiftedUp(b, m) = l
  BY <1>0, Overlongs DEF ShiftedUp
<1>4. l \in Reg /\ 0 \in Reg
  BY <1>0, ShiftWords, WordSize
<1> DEFINE n == 0 - m
<1>5. e = n % M
  <2>1. W - (W + m) = n
    BY <1>0
  <2> QED BY <2>1 DEF Sub
<1>6. n \in Int /\ -M <= n /\ n <= 0
  BY <1>0
<1>7. CASE m = 0
  <2>1. e = 0
    <3>1. n = 0 /\ 0 <= n /\ n < M
      BY <1>0, <1>7
    <3> HIDE DEF n
    <3> QED BY <1>5, <1>6, <3>1, Wrap
  <2>2. ShiftedDown(b, 0) = ShiftRight(b, 0)
    BY <1>0, <1>7, Overlongs DEF ShiftedDown
  <2>3. ShiftRight(b, 0) = b /\ ShiftLeft(b, 0) = b
    <3>1. b \in Int /\ 0 <= b /\ b < M /\ Power[0] = 1
      BY TwoPowers DEF Reg
    <3>2. b * 1 = b /\ b \div 1 = b
      BY <3>1
    <3>3. b % M = b
      BY <3>1, Wrap
    <3> QED BY <3>1, <3>2, <3>3 DEF ShiftRight, ShiftLeft
  <2>4. Or(Or(0, b), b) = b
    BY LogicLaws
  <2>5. l = b /\ ShiftedDown(b, e) = b
    BY <1>7, <2>1, <2>2, <2>3
  <2> HIDE DEF l, e
  <2> QED BY <1>1, <1>2, <1>3, <2>4, <2>5 DEF HighWord, e, l
<1>8. CASE m # 0
  <2>1. e = M - m
    <3>1. n < 0 /\ n + M = M - m
      BY <1>0, <1>8
    <3> HIDE DEF n
    <3> QED BY <1>5, <1>6, <3>1, Wrap
  <2>2. ShiftedDown(b, M - m) = 0
    BY <1>0, <1>8, Overlongs DEF ShiftedDown
  <2>3. ShiftedDown(b, e) = 0
    BY <2>1, <2>2
  <2> HIDE DEF l, e
  <2>4. Or(Or(0, 0), l) = l
    BY <1>4, LogicLaws
  <2> QED BY <1>1, <1>2, <1>3, <2>3, <2>4 DEF HighWord, e, l
<1> QED BY <1>7, <1>8

\* A double word shifted by any amount below its length.
LEMMA DoubleShift ==
  ASSUME NEW a \in Reg, NEW b \in Reg, NEW n \in 0..(2 * W - 1)
  PROVE  HighWord(a, b, n) * M + ShiftedUp(b, n) = ((a * M + b) * Power[n]) % (M * M)
<1> DEFINE S == M * M
           x == a * M + b
<1>0. M \in Nat /\ M > 0 /\ a \in Nat /\ b \in Nat /\ a < M /\ b < M /\ W \in Nat
  BY WordSize, TwoPowers DEF Reg
<1>1. S \in Nat /\ S > 0
  BY <1>0
<1>2. CASE n < W
  <2> DEFINE p == Power[n]
             q == Power[W - n]
             u == a \div q
             r == a % q
             v == b \div q
             s == b % q
             h == r * p + v
             l == s * p
             t == h * M + l
  <2>1. n \in 0..(W - 1) /\ n \in 0..W
    BY <1>0, <1>2
  <2>2. p \in Nat \ {0} /\ q \in Nat \ {0} /\ M = p * q
        /\ ShiftLeft(a, n) = r * p /\ ShiftLeft(b, n) = l
    BY <1>0, <2>1, SplitWord, ShiftedLeft
  <2>3. HighWord(a, b, n) = h /\ ShiftedUp(b, n) = l
    BY <2>1, <2>2, ShortShift
  <2> HIDE DEF p, q
  <2>4. /\ u \in Nat /\ r \in Nat /\ r < q /\ a = u * q + r
        /\ v \in Nat /\ s \in Nat /\ s < q /\ b = v * q + s
    BY <1>0, <2>2, Parts
  <2> HIDE DEF u, r, v, s
  <2>5. v < p
    <3>1. ASSUME p <= v PROVE FALSE
      <4>1. p * q <= v * q /\ v * q \in Nat
        BY <2>2, <2>4, <3>1
      <4> QED BY <1>0, <2>2, <2>4, <4>1
    <3> QED BY <2>2, <2>4, <3>1
  <2>6. h \in Nat /\ h < M /\ l \in Nat /\ l < M
    <3>1. r * p <= (q - 1) * p /\ s * p <= (q - 1) * p
      BY <2>2, <2>4
    <3>2. (q - 1) * p = p * q - p /\ r * p \in Nat /\ s * p \in Nat
      BY <2>2, <2>4
    <3> QED BY <2>2, <2>4, <2>5, <3>1, <3>2
  <2>7. x * p = u * S + t
    <3>1. (u * q + r) * p = u * M + r * p
      BY <2>2, <2>4
    <3>2. (v * q + s) * p = v * M + s * p
      BY <2>2, <2>4
    <3>3. x * p = (a * p) * M + b * p
      BY <1>0, <2>2
    <3> DEFINE rp == r * p
               sp == s * p
    <3>4. rp \in Nat /\ sp \in Nat /\ a * p = u * M + rp /\ b * p = v * M + sp
      BY <2>2, <2>4, <3>1, <3>2
    <3> HIDE DEF rp, sp, x
    <3>5. (u * M + rp) * M + (v * M + sp) = u * (M * M) + ((rp + v) * M + sp)
      BY <1>0, <2>4, <3>4
    <3> QED BY <3>3, <3>4, <3>5 DEF rp, sp
  <2> HIDE DEF h, l, x
  <2>8. t \in Int /\ 0 <= t /\ t < S
    <3>1. h * M <= (M - 1) * M
      BY <1>0, <2>6
    <3>2. (M - 1) * M = M * M - M /\ h * M \in Nat
      BY <1>0, <2>6
    <3> QED BY <1>0, <2>6, <3>1, <3>2
  <2> HIDE DEF t, S
  <2>9. (u * S + t) % S = t
    BY <1>1, <2>4, <2>8, DivMod
  <2> QED BY <2>3, <2>7, <2>9 DEF p, t, S, x
<1>3. CASE ~(n < W)
  <2> DEFINE m == n - W
             p == Power[m]
             l == ShiftLeft(b, m)
             u == (b * p) \div M
             c == a * p + u
             t == l * M
  <2>1. m \in 0..(W - 1) /\ n = W + m /\ m \in 0..W /\ m \in Nat /\ W + m <= 2 * W
    BY <1>0, <1>3
  <2>2. p \in Nat \ {0} /\ Power[n] = M * p
    <3>1. p \in Nat \ {0}
      BY <2>1, SplitWord
    <3> HIDE DEF m
    <3>2. Power[W + m] = Power[W] * Power[m]
      BY <1>0, <2>1, PowerSum
    <3> QED BY <2>1, <3>1, <3>2, TwoPowers
  <2> HIDE DEF m
  <2>3. HighWord(a, b, n) = l /\ ShiftedUp(b, n) = 0
    BY <2>1, LongShift
  <2>4. l = (b * p) % M
    BY DEF ShiftLeft
  <2> HIDE DEF p
  <2>5. b * p \in Nat
    BY <1>0, <2>2
  <2>6. u \in Nat /\ l \in Nat /\ l < M /\ b * p = u * M + l
    <3> DEFINE e == b * p
    <3>1. e \in Nat /\ u = e \div M /\ l = e % M
      BY <2>4, <2>5
    <3> HIDE DEF e, u, l
    <3>2. M \in Nat \ {0} /\ e \in Int
      BY <1>0, <3>1
    <3>3. u \in Int /\ l \in Nat /\ l < M /\ e = u * M + l /\ u \in Nat
      BY <3>1, <3>2, Parts
    <3> QED BY <3>3 DEF e
  <2> HIDE DEF u, l
  <2>7. x * (M * p) = c * S + t
    <3>1. x * (M * p) = (a * p) * (M * M) + (b * p) * M
      BY <1>0, <2>2
    <3>2. (u * M + l) * M = u * (M * M) + l * M
      BY <1>0, <2>6
    <3> DEFINE ap == a * p
    <3>3. ap \in Nat
      BY <1>0, <2>2
    <3> HIDE DEF ap
    <3>4. (ap + u) * (M * M) = ap * (M * M) + u * (M * M)
      BY <1>0, <2>6, <3>3
    <3>5. ap * (M * M) \in Nat /\ u * (M * M) \in Nat /\ l * M \in Nat
      BY <1>0, <2>6, <3>3
    <3> QED BY <2>6, <3>1, <3>2, <3>4, <3>5 DEF ap
  <2>8. c \in Int /\ t \in Int /\ 0 <= t /\ t < S
    <3>1. l * M <= (M - 1) * M
      BY <1>0, <2>6
    <3>2. (M - 1) * M = M * M - M /\ l * M \in Nat /\ a * p \in Nat
      BY <1>0, <2>2, <2>6
    <3> QED BY <1>0, <2>6, <3>1, <3>2
  <2>9. t + 0 = t
    BY <2>8
  <2> HIDE DEF c, t, S, x
  <2>10. (c * S + t) % S = t
    BY <1>1, <2>8, DivMod
  <2> QED BY <2>2, <2>3, <2>7, <2>9, <2>10 DEF t, S, x
<1> QED BY <1>2, <1>3

-----------------------------------------------------------------------------
(* Halves, magnitudes and leading zeros *)

LEMMA AddToRemainder ==
  ASSUME NEW f \in Int, NEW c \in Int
  PROVE  Add(f % M, c) = (f + c) % M
<1> DEFINE u == f \div M
           w == f % M
           y == w + c
           v == y \div M
           z == y % M
           k == u + v
<1>0. M \in Nat \ {0} /\ M > 0
  BY WordSize
<1>1. u \in Int /\ w \in Int /\ f = u * M + w
  BY <1>0, Parts
<1> HIDE DEF u, w
<1>2. y \in Int
  BY <1>1
<1>3. v \in Int /\ z \in Int /\ 0 <= z /\ z < M /\ y = v * M + z
  <2> HIDE DEF y
  <2> QED BY <1>0, <1>2, Parts
<1> HIDE DEF v, z
<1>4. k \in Int /\ f + c = k * M + z
  <2>1. (u + v) * M = u * M + v * M /\ u * M \in Int /\ v * M \in Int
    BY <1>0, <1>1, <1>3
  <2> QED BY <1>0, <1>1, <1>3, <2>1
<1> HIDE DEF k
<1>5. (k * M + z) % M = z
  BY <1>0, <1>3, <1>4, DivMod
<1> QED BY <1>4, <1>5 DEF Add, z, y, w

\* An arithmetic shift to the right and the carry it leaves, for a negative word.
LEMMA NegativeShift ==
  ASSUME NEW a \in Reg, NEW n \in 0..(W - 1), Negative(a),
         NEW v \in Nat, NEW w \in Nat, w < Power[n], M - a = v * Power[n] + w
  PROVE  /\ Signed(a) \div Power[n] = IF w = 0 THEN -v ELSE -v - 1
         /\ n # 0 /\ ShiftLeft(a, W - n) # 0 <=> w # 0
<1> DEFINE p == Power[n]
           q == Power[W - n]
           s == Signed(a)
           r == a % p
<1>0. n \in 0..W /\ W - n \in 0..W /\ W - (W - n) = n /\ a \in Nat /\ M \in Nat /\ n \in Nat
  BY TwoPowers DEF Reg
<1>1. p \in Nat \ {0} /\ q \in Nat \ {0} /\ M = p * q
  BY <1>0, SplitWord
<1>2. ShiftLeft(a, W - n) = r * q
  BY <1>0, ShiftedLeft
<1>3. s = a - M
  BY DEF Signed
<1>4. n = 0 => p = 1
  BY TwoPowers
<1> HIDE DEF p, q, s
<1>5. w < p /\ M - a = v * p + w
  BY DEF p
<1>6. CASE w = 0
  <2> DEFINE f == -v
             g == q - v
             z == 0
  <2>1. f \in Int /\ g \in Int /\ z \in Int /\ 0 <= z /\ z < p
    BY <1>1
  <2>2. s = f * p + z
    <3>1. (-v) * p = -(v * p) /\ v * p \in Nat
      BY <1>1
    <3> QED BY <1>0, <1>3, <1>5, <1>6, <3>1
  <2>3. a = g * p + z
    <3>1. (q - v) * p = p * q - v * p /\ v * p \in Nat /\ p * q \in Nat
      BY <1>1
    <3> QED BY <1>0, <1>1, <1>5, <1>6, <3>1
  <2> HIDE DEF f, g, z
  <2>4. (f * p + z) \div p = f /\ (g * p + z) % p = z
    BY <1>1, <2>1, DivMod
  <2>5. r = 0
    BY <2>3, <2>4 DEF z
  <2>6. r * q = 0
    BY <1>1, <2>5
  <2> QED BY <1>2, <1>6, <2>2, <2>4, <2>6 DEF f, s, p
<1>7. CASE w # 0
  <2> DEFINE f == -v - 1
             g == q - v - 1
             z == p - w
  <2>1. f \in Int /\ g \in Int /\ z \in Int /\ 0 <= z /\ z < p /\ z # 0
    BY <1>1, <1>5, <1>7
  <2>2. s = f * p + z
    <3>1. (-v - 1) * p = -(v * p) - p /\ v * p \in Nat
      BY <1>1
    <3> QED BY <1>0, <1>1, <1>3, <1>5, <1>7, <3>1
  <2>3. a = g * p + z
    <3>1. (q - v - 1) * p = p * q - v * p - p /\ v * p \in Nat /\ p * q \in Nat
      BY <1>1
    <3> QED BY <1>0, <1>1, <1>5, <1>7, <3>1
  <2> HIDE DEF f, g, z
  <2>4. (f * p + z) \div p = f /\ (g * p + z) % p = z
    BY <1>1, <2>1, DivMod
  <2>5. r = z
    BY <2>3, <2>4
  <2> HIDE DEF r
  <2>6. r * q # 0
    BY <1>1, <2>1, <2>5
  <2>7. n # 0
    BY <1>0, <1>4, <1>5, <1>7
  <2> QED BY <1>2, <1>7, <2>2, <2>4, <2>6, <2>7 DEF f, s, p
<1> QED BY <1>6, <1>7

\* A shift whose carry is added divides, rounding towards zero.
LEMMA Halved ==
  ASSUME NEW a \in Reg, NEW n \in 0..(W - 1),
         NEW c, c = Flagged(n # 0 /\ Negative(a) /\ ShiftLeft(a, W - n) # 0)
  PROVE  Signed(Add(Arithmetic(a, n), c)) = Quotient(Signed(a), Power[n])
<1> DEFINE p == Power[n]
           s == Signed(a)
           f == s \div p
           d == Quotient(s, p)
<1>0. n \in 0..W /\ a \in Nat /\ M \in Nat /\ a < M
  BY TwoPowers, WordSize DEF Reg
<1>1. p \in Nat \ {0}
  BY <1>0, SplitWord
<1>2. s \in Int /\ -M <= 2 * s /\ 2 * s < M
  BY SignedWord
<1>3. f \in Int
  <2> HIDE DEF p, s
  <2> QED BY <1>1, <1>2, Parts
<1>4. c \in Int /\ f + c = d /\ -M <= 2 * d /\ 2 * d < M
  <2>1. CASE Negative(a)
    <3> DEFINE t == M - a
               v == t \div p
               w == t % p
    <3>1. t \in Nat /\ s = -t /\ t > 0
      BY <1>0, <2>1, WordSize DEF Signed
    <3> HIDE DEF p, t, s
    <3>2. v \in Nat /\ w \in Nat /\ w < p /\ t = v * p + w
      BY <1>1, <3>1, Parts
    <3>3. v <= t
      BY <1>1, <3>1, Smaller
    <3>4. Magnitude(s) = t /\ Magnitude(p) = p
      BY <1>1, <3>1 DEF Magnitude
    <3>5. (s < 0) # (p < 0)
      BY <1>1, <3>1
    <3>6. d = -v
      BY <3>4, <3>5 DEF Quotient
    <3> HIDE DEF v, w
    <3>7. M - a = v * Power[n] + w /\ w < Power[n]
      BY <3>2 DEF t, p
    <3>8. f = IF w = 0 THEN -v ELSE -v - 1
      BY <2>1, <3>2, <3>7, NegativeShift DEF p, s
    <3>9. n # 0 /\ ShiftLeft(a, W - n) # 0 <=> w # 0
      BY <2>1, <3>2, <3>7, NegativeShift
    <3>10. c = IF w = 0 THEN 0 ELSE 1
      BY <2>1, <3>9 DEF Flagged
    <3> HIDE DEF f, d
    <3>11. c \in Int /\ f + c = -v
      BY <3>2, <3>8, <3>10
    <3>12. -M <= 2 * (-v) /\ 2 * (-v) < M
      BY <1>0, <1>2, <3>1, <3>2, <3>3, WordSize
    <3> QED BY <3>6, <3>11, <3>12
  <2>2. CASE ~Negative(a)
    <3>1. s = a /\ c = 0
      BY <2>2 DEF Signed, Flagged
    <3> HIDE DEF p, s
    <3>2. Magnitude(s) = a /\ Magnitude(p) = p /\ ~(s < 0) /\ ~(p < 0)
      BY <1>0, <1>1, <3>1 DEF Magnitude
    <3>3. d = f
      BY <3>1, <3>2 DEF Quotient
    <3>4. f \in Nat /\ f <= a
      BY <1>0, <1>1, <3>1, Smaller
    <3> HIDE DEF d, f
    <3> QED BY <1>0, <1>2, <3>1, <3>3, <3>4
  <2> QED BY <2>1, <2>2
<1>5. Arithmetic(a, n) = f % M
  BY DEF Arithmetic
<1> HIDE DEF f, d
<1>6. Add(f % M, c) = (f + c) % M
  BY <1>3, <1>4, AddToRemainder
<1>7. d \in Int
  BY <1>3, <1>4
<1>8. Signed(d % M) = d
  BY <1>4, <1>7, WordOf
<1> QED BY <1>4, <1>5, <1>6, <1>8 DEF d, p, s

\* The sign of a word, spread over a word.
LEMMA SignWord ==
  ASSUME NEW a \in Reg
  PROVE  Arithmetic(a, W - 1) = IF Negative(a) THEN M - 1 ELSE 0
<1> DEFINE p == Power[W - 1]
           s == Signed(a)
<1>0. W - 1 \in 0..(2 * W) /\ (W - 1) + 1 \in 0..(2 * W) /\ (W - 1) + 1 = W
  BY TwoPowers
<1>1. p \in Nat \ {0} /\ M = 2 * p
  BY <1>0, TwoPowers
<1> HIDE DEF p
<1>2. s \in Int /\ -M <= 2 * s /\ 2 * s < M
  BY SignedWord
<1>3. s = (IF Negative(a) THEN a - M ELSE a) /\ a \in Nat /\ a < M
  BY WordSize DEF Signed, Reg
<1>4. Arithmetic(a, W - 1) = (s \div p) % M
  BY DEF Arithmetic, p
<1> HIDE DEF s
<1>5. CASE Negative(a)
  <2> DEFINE r == s + p
             f == 0 - 1
  <2>1. r \in Int /\ 0 <= r /\ r < p /\ f \in Int
    BY <1>1, <1>2, <1>3, <1>5
  <2>2. s = f * p + r
    BY <1>1, <1>2
  <2> HIDE DEF r, f
  <2>3. (f * p + r) \div p = f
    BY <1>1, <2>1, DivMod
  <2>4. -M <= f /\ f < 0 /\ f + M = M - 1
    BY WordSize DEF f
  <2>5. f % M = M - 1
    BY <2>1, <2>4, Wrap
  <2> QED BY <1>4, <1>5, <2>2, <2>3, <2>5
<1>6. CASE ~Negative(a)
  <2>1. 0 <= s /\ s < p
    BY <1>1, <1>2, <1>3, <1>6
  <2>2. s \div p = 0
    BY <1>1, <1>2, <2>1, Parts
  <2>3. 0 % M = 0
    BY WordSize, Wrap
  <2> QED BY <1>4, <1>6, <2>2, <2>3
<1> QED BY <1>5, <1>6

LEMMA Absolute ==
  ASSUME NEW a \in Reg
  PROVE  Sub(Xor(a, Arithmetic(a, W - 1)), Arithmetic(a, W - 1)) = Magnitude(Signed(a))
<1>0. a \in Int /\ 0 <= a /\ a < M /\ M \in Nat /\ M >= 16
  BY WordSize DEF Reg
<1>1. CASE Negative(a)
  <2>1. Arithmetic(a, W - 1) = M - 1
    BY <1>1, SignWord
  <2>2. Xor(a, M - 1) = Not(a)
    BY LogicLaws
  <2> DEFINE d == Not(a) - (M - 1)
  <2>3. d \in Int /\ -M <= d /\ d < 0 /\ d + M = M - a
    BY <1>0, <1>1 DEF Not, Negative
  <2> HIDE DEF d
  <2>4. d % M = M - a
    BY <2>3, Wrap
  <2>5. Magnitude(Signed(a)) = M - a
    BY <1>0, <1>1 DEF Signed, Magnitude
  <2> QED BY <2>1, <2>2, <2>4, <2>5 DEF Sub, d
<1>2. CASE ~Negative(a)
  <2>1. Arithmetic(a, W - 1) = 0
    BY <1>2, SignWord
  <2>2. Xor(a, 0) = a
    BY LogicLaws
  <2>3. a - 0 = a /\ a % M = a
    BY <1>0, Wrap
  <2>4. Magnitude(Signed(a)) = a
    BY <1>0, <1>2 DEF Signed, Magnitude
  <2> QED BY <2>1, <2>2, <2>3, <2>4 DEF Sub
<1> QED BY <1>1, <1>2

\* The first one of a word that is not zero.
LEMMA FirstOne ==
  ASSUME NEW a \in Reg, a # 0
  PROVE  \E t \in 0..(W - 1) : /\ Power[t] <= a /\ a < Power[t + 1]
                               /\ LeadingZeros(a) = W - 1 - t
<1> DEFINE T == {n \in Nat : n <= W /\ a < Power[n]}
<1>0. W \in Nat /\ a \in Nat /\ a < M /\ M = Power[W]
  BY TwoPowers DEF Reg
<1>1. PICK m \in T : \A y \in T : m <= y
  <2>1. W \in T
    BY <1>0
  <2>2. T \subseteq Nat /\ T # {}
    BY <2>1
  <2> HIDE DEF T
  <2> QED BY <2>2, Least
<1>2. m # 0
  BY <1>0, <1>1, TwoPowers
<1> DEFINE t == m - 1
<1>3. /\ t \in Nat /\ t \in 0..(W - 1) /\ t + 1 = m /\ t <= W /\ t \in 0..(2 * W) /\ t + 1 \in 0..(2 * W)
      /\ m \in Nat /\ m <= W /\ a < Power[m]
  BY <1>0, <1>1, <1>2
<1>4. ~(m <= t)
  BY <1>3
<1>5. t \notin T
  BY <1>1, <1>4
<1> HIDE DEF t
<1>6. Power[t] \in Nat \ {0} /\ Power[t + 1] = 2 * Power[t]
  BY <1>3, TwoPowers
<1>7. Power[t] <= a /\ a < Power[t + 1]
  BY <1>0, <1>3, <1>5, <1>6
<1> HIDE DEF T
<1>8. t \in Bit(a)
  <2> DEFINE p == Power[t]
             r == a - p
  <2>1. r \in Int /\ 0 <= r /\ r < p /\ a = 1 * p + r /\ p \in Nat /\ p > 0
    BY <1>0, <1>6, <1>7
  <2> HIDE DEF p, r
  <2>2. (1 * p + r) \div p = 1
    BY <2>1, DivMod
  <2>3. Digit(a, t) = 1
    BY <2>1, <2>2 DEF Digit, p
  <2> QED BY <1>3, <2>3, BitDigit
<1>9. \A j \in (t + 1)..(W - 1) : j \notin Bit(a)
  <2>1. ASSUME NEW j \in (t + 1)..(W - 1) PROVE j \notin Bit(a)
    <3>1. j \in (t + 1)..(2 * W)
      BY <1>0, <1>3
    <3>2. Digit(a, j) = 0
      BY <1>0, <1>3, <1>7, <3>1, ZeroAbove
    <3> QED BY <3>2, BitDigit
  <2> QED BY <2>1
<1>10. {k \in 0..(W - 1) : \A j \in k..(W - 1) : j \notin Bit(a)} = (t + 1)..(W - 1)
  <2> DEFINE S == {k \in 0..(W - 1) : \A j \in k..(W - 1) : j \notin Bit(a)}
  <2>1. ASSUME NEW k \in S PROVE k \in (t + 1)..(W - 1)
    <3>1. CASE k <= t
      <4>1. t \in k..(W - 1)
        BY <1>3, <3>1
      <4> QED BY <1>8, <4>1
    <3>2. CASE ~(k <= t)
      BY <1>0, <1>3, <3>2
    <3> QED BY <3>1, <3>2
  <2>2. ASSUME NEW k \in (t + 1)..(W - 1) PROVE k \in S
    <3>1. k \in 0..(W - 1) /\ k..(W - 1) \subseteq (t + 1)..(W - 1)
      BY <1>0, <1>3
    <3> QED BY <1>9, <3>1
  <2> HIDE DEF S
  <2>3. S = (t + 1)..(W - 1)
    BY <2>1, <2>2
  <2> QED BY <2>3 DEF S
<1>11. Cardinality((t + 1)..(W - 1)) = W - 1 - t
  <2>1. t + 1 \in Int /\ W - 1 \in Int
    BY <1>0, <1>3
  <2>2. Cardinality((t + 1)..(W - 1)) = IF t + 1 > W - 1 THEN 0 ELSE (W - 1) - (t + 1) + 1
    BY <2>1, FS_Interval
  <2> QED BY <1>0, <1>3, <2>2
<1>12. LeadingZeros(a) = W - 1 - t
  BY <1>10, <1>11 DEF LeadingZeros
<1> QED BY <1>3, <1>7, <1>12

LEMMA NoOne == LeadingZeros(0) = W
<1>1. \A j \in 0..(W - 1) : j \notin Bit(0)
  BY ZeroDigits, BitDigit, TwoPowers
<1>2. W \in Nat /\ 0 \in Int /\ W - 1 \in Int /\ W >= 8
  BY TwoPowers
<1>3. \A k \in 0..(W - 1) : k..(W - 1) \subseteq 0..(W - 1)
  BY <1>2
<1>4. {k \in 0..(W - 1) : \A j \in k..(W - 1) : j \notin Bit(0)} = 0..(W - 1)
  BY <1>1, <1>3
<1>5. Cardinality(0..(W - 1)) = W
  BY <1>2, FS_Interval
<1> QED BY <1>4, <1>5 DEF LeadingZeros

\* Counted zeros normalise a word.
LEMMA Normalized ==
  ASSUME NEW a \in Reg, NEW z, z = LeadingZeros(a)
  PROVE  /\ ShiftedDown(ShiftedUp(a, z), z) = a
         /\ a # 0 => Negative(ShiftedUp(a, z))
<1>0. W \in Nat /\ W >= 8 /\ W + 0 = W /\ 0 \in 0..W /\ 0 < W /\ a \in Nat /\ M \in Nat /\ a < M
  BY TwoPowers, WordSize DEF Reg
<1>1. CASE a = 0
  <2>1. Overlong(W)
    BY <1>0, Overlongs
  <2>2. z = W
    BY <1>1, NoOne
  <2> QED BY <1>1, <2>1, <2>2 DEF ShiftedDown
<1>2. CASE a # 0
  <2>1. PICK t \in 0..(W - 1) : Power[t] <= a /\ a < Power[t + 1] /\ z = W - 1 - t
    BY <1>2, FirstOne
  <2>2. /\ z \in 0..W /\ z < W /\ t \in Nat /\ z \in Nat /\ t + 1 = W - z /\ t \in 0..(2 * W)
        /\ t + 1 \in 0..(2 * W)
    BY <1>0, <2>1
  <2>3. ShiftedUp(a, z) = ShiftLeft(a, z)
    BY <2>2, Overlongs DEF ShiftedUp
  <2> DEFINE p == Power[z]
             q == Power[t + 1]
             h == Power[t]
             u == a * p
             o == 0
  <2>4. p \in Nat \ {0} /\ M = p * q
    BY <2>2, SplitWord
  <2>5. h \in Nat \ {0} /\ q = 2 * h /\ q \in Nat \ {0}
    BY <2>2, TwoPowers
  <2>6. ShiftLeft(a, z) = (a % q) * p
    BY <1>0, <2>2, ShiftedLeft
  <2>7. a % q = a
    <3>1. a < q
      BY <2>1
    <3> HIDE DEF q
    <3> QED BY <1>0, <2>5, <3>1, Parts
  <2>8. ShiftLeft(a, z) = u
    BY <2>6, <2>7
  <2>9. ShiftedDown(u, z) = u \div p
    BY <2>2, Overlongs DEF ShiftedDown, ShiftRight
  <2> HIDE DEF p, q, h
  <2>10. u = a * p + o /\ o \in Int /\ 0 <= o /\ o < p
    BY <1>0, <2>4
  <2> HIDE DEF o
  <2>11. (a * p + o) \div p = a
    BY <1>0, <2>4, <2>10, DivMod
  <2>12. 2 * u >= M
    <3>1. h * p <= a * p
      BY <1>0, <2>1, <2>4, <2>5 DEF h
    <3>2. p * (2 * h) = 2 * (h * p) /\ h * p \in Nat /\ a * p \in Nat
      BY <1>0, <2>4, <2>5
    <3> QED BY <2>4, <2>5, <3>1, <3>2
  <2> HIDE DEF u
  <2> QED BY <2>3, <2>8, <2>9, <2>10, <2>11, <2>12 DEF Negative
<1> QED BY <1>1, <1>2

-----------------------------------------------------------------------------
(* Fields, constants and the laws of logic *)

\* What the rotate-and-mask instructions insert and extract.
Inserted(o, a, sh, mb, me) ==
  Or(And(o, Not(Mask(mb, me))), And(RotateLeft(a, sh), Mask(mb, me)))
Extracted(a, sh, mb, me) == And(RotateLeft(a, sh), Mask(mb, me))

LEMMA FieldMoved ==
  ASSUME NEW o \in Reg, NEW a \in Reg, NEW sh \in 0..(W - 1), NEW mb \in 0..(W - 1),
         NEW me \in 0..(W - 1), NEW p \in 0..(W - 1)
  PROVE  /\ BitAt(Inserted(o, a, sh, mb, me), p)
              = IF Between(p, mb, me) THEN BitAt(a, (p + sh) % W) ELSE BitAt(o, p)
         /\ BitAt(Extracted(a, sh, mb, me), p) = (Between(p, mb, me) /\ BitAt(a, (p + sh) % W))
<1> DEFINE k == W - 1 - p
           m == Mask(mb, me)
           n == Not(m)
           r == RotateLeft(a, sh)
           i == And(o, n)
           e == And(r, m)
           j == IF sh <= k THEN k - sh ELSE (k - sh) + W
           inside == Between(p, mb, me)
<1>0. W \in Nat /\ W >= 8 /\ k \in 0..(W - 1) /\ W - 1 - k = p /\ sh \in Int /\ p \in Int
  BY TwoPowers
<1>1. Digit(m, k) = (IF inside THEN 1 ELSE 0) /\ m \in Reg
  <2> HIDE DEF k
  <2> QED BY <1>0, MaskDigit
<1>2. Digit(r, k) = Digit(a, j) /\ r \in Reg
  <2> HIDE DEF k
  <2> QED BY <1>0, RotatedDigit
<1>3. j = W - 1 - ((p + sh) % W) /\ j \in 0..(W - 1)
  <2> DEFINE x == p + sh
  <2>1. CASE sh <= k
    <3>1. x \in Int /\ 0 <= x /\ x < W /\ W \in Nat \ {0} /\ j = W - 1 - x
      BY <1>0, <2>1
    <3> HIDE DEF x, j
    <3>2. x % W = x
      BY <3>1, Parts
    <3> QED BY <1>0, <3>1, <3>2 DEF x
  <2>2. CASE ~(sh <= k)
    <3> DEFINE y == x - W
    <3>1. y \in Int /\ 0 <= y /\ y < W /\ x = 1 * W + y /\ j = W - 1 - y
      BY <1>0, <2>2
    <3> HIDE DEF x, y, j
    <3>2. (1 * W + y) % W = y
      BY <1>0, <3>1, DivMod
    <3> QED BY <1>0, <3>1, <3>2 DEF x
  <2> QED BY <2>1, <2>2
<1> HIDE DEF k, m, r, j
<1>4. n \in Reg /\ Digit(n, k) = 1 - Digit(m, k)
  BY <1>0, <1>1, NotDigit, Complement
<1> HIDE DEF n
<1>5. /\ Digit(i, k) = IF Digit(o, k) = 1 /\ Digit(n, k) = 1 THEN 1 ELSE 0
      /\ Digit(e, k) = IF Digit(r, k) = 1 /\ Digit(m, k) = 1 THEN 1 ELSE 0
      /\ i \in Reg /\ e \in Reg
  <2>1. k \in 0..(W - 1) /\ o \in Reg /\ n \in Reg /\ r \in Reg /\ m \in Reg
    BY <1>0, <1>1, <1>2, <1>4
  <2>2. Digit(i, k) = IF Digit(o, k) = 1 /\ Digit(n, k) = 1 THEN 1 ELSE 0
    BY <2>1, LogicDigits
  <2>3. Digit(e, k) = IF Digit(r, k) = 1 /\ Digit(m, k) = 1 THEN 1 ELSE 0
    BY <2>1, LogicDigits
  <2> QED BY <2>2, <2>3, LogicWords
<1> HIDE DEF i, e
<1>6. Digit(Or(i, e), k) = IF Digit(i, k) = 1 \/ Digit(e, k) = 1 THEN 1 ELSE 0
  BY <1>0, <1>5, LogicDigits
<1>7. inside \in BOOLEAN
  BY DEF Between
<1> HIDE DEF inside
<1>8. /\ Digit(Or(i, e), k) = 1 <=> IF inside THEN Digit(a, j) = 1 ELSE Digit(o, k) = 1
      /\ Digit(e, k) = 1 <=> inside /\ Digit(a, j) = 1
  BY <1>1, <1>2, <1>4, <1>5, <1>6
<1>9. /\ BitAt(Or(i, e), p) <=> Digit(Or(i, e), k) = 1
      /\ BitAt(e, p) <=> Digit(e, k) = 1
      /\ BitAt(o, p) <=> Digit(o, k) = 1
  BY <1>0, BitDigit DEF BitAt, k
<1>10. BitAt(a, (p + sh) % W) <=> Digit(a, j) = 1
  BY <1>3, BitDigit DEF BitAt
<1>11. /\ Inserted(o, a, sh, mb, me) = Or(i, e) /\ Extracted(a, sh, mb, me) = e
  BY DEF Inserted, Extracted, i, e, m, n, r
<1>12. /\ BitAt(Or(i, e), p) <=> IF inside THEN BitAt(a, (p + sh) % W) ELSE BitAt(o, p)
       /\ BitAt(e, p) <=> inside /\ BitAt(a, (p + sh) % W)
  BY <1>8, <1>9, <1>10
<1>13. \A x, q : BitAt(x, q) \in BOOLEAN
  BY DEF BitAt
<1> QED BY <1>7, <1>11, <1>12, <1>13 DEF inside

\* The low half of a word.
LEMMA HalfPower ==
  /\ W \div 2 \in 0..W /\ W - W \div 2 = W \div 2
  /\ Power[W \div 2] \in Nat /\ Power[W \div 2] >= 16
  /\ M = Power[W \div 2] * Power[W \div 2]
<1> DEFINE h == W \div 2
<1>0. W \in Nat /\ W >= 8
  BY TwoPowers
<1>1. PICK k \in 0..W : W = Power[k]
  BY PowerAssumption
<1>2. k # 0
  BY <1>0, <1>1, TwoPowers
<1>3. k \in 0..(2 * W) /\ k - 1 \in 0..(2 * W) /\ (k - 1) + 1 \in 0..(2 * W) /\ (k - 1) + 1 = k
  BY <1>0, <1>1, <1>2
<1>4. W = 2 * Power[k - 1] /\ Power[k - 1] \in Nat
  BY <1>1, <1>3, TwoPowers
<1>5. h \in Nat /\ W = 2 * h
  BY <1>4
<1> HIDE DEF h
<1>6. h \in 0..W /\ W - h = h /\ h \in 0..(2 * W)
  BY <1>0, <1>5
<1>7. M = Power[h] * Power[h] /\ Power[h] \in Nat \ {0}
  BY <1>6, SplitWord
<1>8. Power[h] >= 16
  <2> DEFINE j == h - 4
  <2>1. j \in Nat /\ j + 4 = h /\ 4 \in Nat /\ j + 4 <= 2 * W /\ j \in 0..(2 * W)
    BY <1>0, <1>5
  <2> DEFINE f == 4
  <2>2. f \in Nat /\ j + f <= 2 * W
    BY <2>1
  <2> HIDE DEF f
  <2>3. Power[j + f] = Power[j] * Power[f]
    BY <2>1, <2>2, PowerSum
  <2>4. Power[f] = 16
    <3>1. 1 \in 0..(2 * W) /\ 2 \in 0..(2 * W) /\ 3 \in 0..(2 * W) /\ 4 \in 0..(2 * W) /\ 0 \in 0..(2 * W)
      BY <1>0
    <3>2. Power[0 + 1] = 2 /\ 0 + 1 = 1
      BY <3>1, TwoPowers
    <3>3. Power[1 + 1] = 4 /\ 1 + 1 = 2
      BY <3>1, <3>2, TwoPowers
    <3>4. Power[2 + 1] = 8 /\ 2 + 1 = 3
      BY <3>1, <3>3, TwoPowers
    <3>5. Power[3 + 1] = 16 /\ 3 + 1 = 4
      BY <3>1, <3>4, TwoPowers
    <3> QED BY <3>5 DEF f
  <2>5. Power[j] \in Nat \ {0}
    BY <2>1, TwoPowers
  <2> HIDE DEF j
  <2>6. Power[j] * 16 >= 16
    BY <2>5
  <2> QED BY <2>1, <2>3, <2>4, <2>6 DEF f
<1> QED BY <1>6, <1>7, <1>8 DEF h

\* A constant built from its halves, and what is made of it.
LEMMA Constants ==
  ASSUME NEW n \in Int, NEW k \in 0..3
  PROVE  /\ High(n) \in Reg /\ k \in Reg /\ Add(0, High(n)) = High(n)
         /\ Or(High(n), k) = (n * Power[W \div 2] + k) % M
         /\ And(Or(High(n), k), Power[W \div 2] - 1) = k
         /\ Xor(Or(High(n), k), k) = Add(Or(High(n), k), Not(k) + 1)
<1> DEFINE h == W \div 2
           p == Power[h]
           x == High(n)
           g == Or(x, k)
           u == n \div p
           r == n % p
           f == p - 1
<1>0. /\ h \in 0..W /\ p \in Nat /\ p >= 16 /\ p \in Nat \ {0} /\ M = p * p /\ M \in Nat /\ M >= 16
  BY HalfPower, WordSize
<1>1. x = (n * p) % M
  BY DEF High
<1> HIDE DEF h, p, x
<1>2. u \in Int /\ r \in Nat /\ r < p /\ n = u * p + r
  BY <1>0, Parts
<1> HIDE DEF u, r
<1> DEFINE rp == r * p
<1>3. rp \in Nat /\ rp + p <= M
  <2>1. r * p <= (p - 1) * p
    BY <1>0, <1>2
  <2>2. (p - 1) * p = p * p - p /\ r * p \in Nat
    BY <1>0, <1>2
  <2> QED BY <1>0, <2>1, <2>2
<1>4. n * p = u * M + rp
  <2>1. (u * p + r) * p = u * (p * p) + r * p
    BY <1>0, <1>2
  <2> QED BY <1>0, <1>2, <2>1
<1>5. x = rp /\ x \in Reg
  <2> HIDE DEF rp
  <2>1. rp \in Int /\ 0 <= rp /\ rp < M
    BY <1>0, <1>3
  <2>2. (u * M + rp) % M = rp
    BY <1>0, <1>2, <2>1, DivMod
  <2>3. x = rp
    BY <1>1, <1>4, <2>2
  <2> QED BY <1>0, <2>1, <2>3 DEF Reg
<1>6. k \in Nat /\ k \in Reg /\ k < p /\ k < M
  BY <1>0 DEF Reg
<1>7. Disjoint(x, k)
  <2>1. k < Power[h]
    BY <1>6 DEF p
  <2>2. Disjoint(r * Power[h], k)
    BY <1>0, <1>2, <1>6, <2>1, DisjointParts
  <2> QED BY <1>5, <2>2 DEF p
<1>8. g = x + k /\ Xor(g, k) = x /\ g \in Reg
  BY <1>5, <1>6, <1>7, DisjointSum, LogicWords
<1>9. Add(0, x) = x
  <2>1. x \in Int /\ 0 <= x /\ x < M /\ 0 + x = x
    BY <1>0, <1>5 DEF Reg
  <2> QED BY <2>1, Wrap DEF Add
<1>10. g = (n * p + k) % M
  <2> DEFINE t == rp + k
  <2>1. t \in Int /\ 0 <= t /\ t < M
    BY <1>0, <1>3, <1>6
  <2>2. n * p + k = u * M + t
    <3> HIDE DEF rp
    <3> DEFINE um == u * M
               np == n * p
    <3>1. um \in Int /\ np = um + rp
      BY <1>0, <1>2, <1>4
    <3> HIDE DEF um, np
    <3>2. np + k = um + (rp + k)
      BY <1>3, <1>6, <3>1
    <3> QED BY <3>2 DEF um, np
  <2> HIDE DEF t
  <2>3. (u * M + t) % M = t
    BY <1>0, <1>2, <2>1, DivMod
  <2> QED BY <1>5, <1>8, <2>2, <2>3 DEF t
<1>11. Xor(g, k) = Add(g, Not(k) + 1)
  <2> HIDE DEF g
  <2>1. g + (Not(k) + 1) = x + M /\ x \in Int /\ 0 <= x /\ x < M
    BY <1>0, <1>5, <1>6, <1>8 DEF Not, Reg
  <2> DEFINE y == x + M
  <2>2. y \in Int /\ M <= y /\ y < 2 * M /\ y - M = x
    BY <1>0, <2>1
  <2> HIDE DEF y
  <2>3. y % M = x
    BY <2>2, Wrap
  <2> QED BY <1>8, <2>1, <2>3 DEF Add, y
<1>12. And(g, f) = k
  <2>1. f \in Nat /\ f < p /\ f \in Reg
    <3> HIDE DEF rp
    <3>1. p <= M
      BY <1>0, <1>3
    <3> QED BY <1>0, <3>1 DEF Reg
  <2>2. (M - 1) % p = f
    <3>1. M - 1 = f * p + f
      <4>1. (p - 1) * p = p * p - p
        BY <1>0
      <4> QED BY <1>0, <4>1
    <3> HIDE DEF f
    <3>2. (f * p + f) % p = f
      BY <1>0, <2>1, DivMod
    <3> QED BY <3>1, <3>2
  <2> HIDE DEF f, g
  <2>3. ASSUME NEW j \in 0..(W - 1) PROVE Digit(And(g, f), j) = Digit(k, j)
    <3>1. Digit(And(g, f), j) = IF Digit(g, j) = 1 /\ Digit(f, j) = 1 THEN 1 ELSE 0
      BY <1>8, <2>1, LogicDigits
    <3>2. Digit(k, j) \in {0, 1} /\ Digit(x, j) \in {0, 1}
      BY <1>5, <1>6, WordDigits
    <3>3. Digit(g, j) = IF Digit(x, j) = 1 \/ Digit(k, j) = 1 THEN 1 ELSE 0
      BY <1>5, <1>6, LogicDigits DEF g
    <3>4. j \in Int /\ h \in Int
      BY <1>0
    <3>5. CASE j < h
      <4>1. j \in 0..(h - 1) /\ M - 1 \in Nat
        BY <1>0, <3>4, <3>5
      <4>2. Digit((M - 1) % Power[h], j) = Digit(M - 1, j)
        BY <1>0, <4>1, RemainderDigit
      <4>3. Digit(f, j) = 1
        BY <2>2, <4>2, FullDigits DEF p
      <4>4. Digit(x, j) = 0
        <5>1. Digit(r * Power[h], j) = 0
          BY <1>0, <1>2, <4>1, ZeroBelow
        <5> QED BY <1>5, <5>1 DEF p
      <4> QED BY <3>1, <3>2, <3>3, <4>3, <4>4
    <3>6. CASE ~(j < h)
      <4>1. j \in h..(2 * W) /\ h \in 0..(2 * W) /\ f < Power[h] /\ k < Power[h]
        BY <1>0, <1>6, <2>1, <3>4, <3>6, TwoPowers DEF p
      <4>2. Digit(f, j) = 0 /\ Digit(k, j) = 0
        BY <1>6, <2>1, <4>1, ZeroAbove
      <4> QED BY <3>1, <4>2
    <3> QED BY <3>5, <3>6
  <2>4. And(g, f) \in Reg
    BY LogicWords
  <2> QED BY <1>6, <2>3, <2>4, SameWord
<1> QED BY <1>5, <1>6, <1>8, <1>9, <1>10, <1>11, <1>12 DEF h, p, x

\* A word and its negation.
LEMMA Negated ==
  ASSUME NEW g \in Reg
  PROVE  Add(g, Add(Not(g), 1)) = 0
<1>0. g \in Int /\ 0 <= g /\ g < M /\ M \in Nat /\ M >= 16
  BY WordSize DEF Reg
<1> DEFINE d == Not(g) + 1
<1>1. d = M - g
  BY <1>0 DEF Not
<1>2. CASE g = 0
  <2>1. d \in Int /\ M <= d /\ d < 2 * M /\ d - M = 0
    BY <1>0, <1>1, <1>2
  <2> HIDE DEF d
  <2>2. d % M = 0
    BY <2>1, Wrap
  <2>3. 0 + 0 = 0 /\ 0 % M = 0
    BY <1>0, Wrap
  <2> QED BY <1>2, <2>2, <2>3 DEF Add, d
<1>3. CASE g # 0
  <2>1. d \in Int /\ 0 <= d /\ d < M /\ g + d = M
    BY <1>0, <1>1, <1>3
  <2> HIDE DEF d
  <2>2. d % M = d
    BY <2>1, Wrap
  <2>3. M % M = 0
    BY <1>0, Wrap
  <2> QED BY <2>1, <2>2, <2>3 DEF Add, d
<1> QED BY <1>2, <1>3

\* The laws that the logical instructions are tried on.
LEMMA LogicTried ==
  ASSUME NEW a \in Reg, NEW b \in Reg
  PROVE  /\ Add(And(a, b), Or(a, b)) = Add(a, b)
         /\ Sub(Or(a, b), Add(Xor(a, b), And(a, b))) = 0
         /\ Not(Xor(a, b)) = M - 1 <=> a = b
         /\ \A c \in Reg : Or(c, Not(c)) = M - 1
<1> DEFINE i == And(a, b)
           u == Or(a, b)
           x == Xor(a, b)
<1>1. i + u = a + b /\ x + i = u /\ u \in Reg /\ x \in Reg
  BY LogicSums
<1>2. x = 0 <=> a = b
  BY LogicLaws
<1>3. \A c \in Reg : Or(c, Not(c)) = M - 1
  BY LogicLaws
<1> HIDE DEF i, u, x
<1>4. u \in Int /\ 0 <= u /\ u < M /\ u - u = 0 /\ M \in Nat /\ M >= 16
  BY <1>1, WordSize DEF Reg
<1>5. u % M = u /\ 0 % M = 0
  BY <1>4, Wrap
<1>6. Sub(u, Add(x, i)) = 0
  BY <1>1, <1>4, <1>5 DEF Sub, Add
<1>7. Not(x) = M - 1 <=> x = 0
  BY <1>1, <1>4 DEF Not, Reg
<1> QED BY <1>1, <1>2, <1>3, <1>6, <1>7 DEF Add, i, u, x
=============================================================================
