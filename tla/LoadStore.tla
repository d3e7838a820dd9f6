----------------------------- MODULE LoadStore -----------------------------
(***************************************************************************)
(* The interpreter's load and store instructions, next to FixedPoint's, on *)
(* a guest memory of bytes, most significant first.  A register has four   *)
(* bytes, and addresses are register values.  A double is eight bytes, the *)
(* first four being all that a single can hold; that conversions change a  *)
(* signalling NaN is left out.                                             *)
(*                                                                         *)
(* Pointers are checked as the DEBUG build does: the first and the last    *)
(* byte must be allocated, except that the null pointer is let through and *)
(* then crashes the host.  Host and guest addresses are the same numbers,  *)
(* as with NativeAllocator.  The state machine runs a straight-line guest  *)
(* program, one dispatched instruction a step.                             *)
(***************************************************************************)
EXTENDS FixedPoint

CONSTANTS B,          \* the values of a byte: 0..B-1
          N,          \* there are N general registers
          Allocated,  \* the addresses in some allocation
          Program     \* programs, with the registers and the memory they start from

ASSUME LoadStoreAssumption ==
  /\ B \in Nat \ {0, 1}
  /\ M = B * B * B * B
  /\ N \in Nat \ {0}
  /\ GPR = 0..(N - 1)
  /\ Allocated \subseteq 1..(M - 1)

Byte    == 0..(B - 1)
MemoryAddress == Reg
FPR     == 0..1
Zero4   == <<0, 0, 0, 0>>

VARIABLES fpr, memory,
          byteCount,      \* xer's, which lswx and stswx transfer
          code, initial   \* what is left of the program, and all of it

storeVars == <<fpr, memory>>
machineVars == <<gpr, ca, so, cr, halt, storeVars, byteCount, code, initial>>

StoreTypeOK ==
  /\ MachineTypeOK
  /\ \A f \in FPR : Len(fpr[f]) = 8 /\ \A k \in 1..8 : fpr[f][k] \in Byte
  /\ DOMAIN memory \subseteq MemoryAddress /\ \A a \in DOMAIN memory : memory[a] \in Byte
  /\ byteCount \in Nat

-----------------------------------------------------------------------------
(* Bytes and words *)

Reversed(s) == [k \in DOMAIN s |-> s[Len(s) + 1 - k]]
Bytes(w)   == << w \div (B * B * B), (w \div (B * B)) % B, (w \div B) % B, w % B >>
FromBytes(s) == ((s[1] * B + s[2]) * B + s[3]) * B + s[4]

\* The last n bytes of a register; a shorter value is extended with zeros, or with its sign.
Low(w, n)    == SubSeq(Bytes(w), 5 - n, 4)
ZeroExtend(s) == FromBytes(SubSeq(Zero4, 1, 4 - Len(s)) \o s)
SignExtend(s) == FromBytes([k \in 1..(4 - Len(s)) |-> IF 2 * s[1] >= B THEN B - 1 ELSE 0] \o s)

Offset(a, k)  == (a + k) % M
Fetch(a, n)   == [k \in 1..n |-> memory[Offset(a, k - 1)]]
Put(mem, a, s) == [x \in DOMAIN mem |-> LET k == ((x - a) % M) + 1 IN
                                       IF k <= Len(s) THEN s[k] ELSE mem[x]]

-----------------------------------------------------------------------------
(* Addresses *)

\* mode: "" and "u" add an immediate, "x" and "ux" a register; only "" and "x" take RA 0 for none.
EffectiveAddress(i) ==
  Offset(IF i.A = 0 /\ i.mode \in {"", "x"} THEN 0 ELSE gpr[i.A],
         IF i.mode \in {"x", "ux"} THEN gpr[i.B] ELSE i.imm)

Updates(i) == i.mode \in {"u", "ux"}

\* lswi and stswi take the raw register for a host pointer, and nothing is checked.
Unchecked == {"lswi", "stswi"}

\* How many bytes the pointer is checked for.
AccessSize == [lbz |-> 1, lhz |-> 2, lha |-> 2, lhbr |-> 2, lwz |-> 4, lwar |-> 4, lwbr |-> 4,
         stb |-> 1, sth |-> 2, sthbr |-> 2, stw |-> 4, stwbr |-> 4, stwcxd |-> 4, stfiw |-> 4,
         lfs |-> 4, lfd |-> 8, stfs |-> 4, stfd |-> 8, stmw |-> 4, lswx |-> 1, stswx |-> 1]
MemoryOps == DOMAIN AccessSize \cup {"lmw"} \cup Unchecked
SizeOf(i) == IF i.op = "lmw" THEN 4 * (N - i.D) ELSE AccessSize[i.op]

\* Mutant: only the first byte is looked at.
CheckFirst(a, size) == a \in Allocated

Check(a, size) == a \in Allocated /\ Offset(a, size - 1) \in Allocated

\* The null pointer is not looked at, and crashes the host unless the string has no byte.
IsNull(i) ==
  /\ IF i.op \in Unchecked THEN i.A = 0 ELSE EffectiveAddress(i) = 0
  /\ i.op \in {"lswx", "stswx"} => byteCount > 0
Fails(i) ==
  /\ i.op \notin Unchecked /\ EffectiveAddress(i) # 0
  /\ ~Check(EffectiveAddress(i), SizeOf(i))

Fault(i) ==
  /\ IsNull(i) \/ Fails(i)
  /\ halt' = IF IsNull(i) THEN "crash" ELSE "AccessViolation"
  /\ UNCHANGED <<gpr, cr, storeVars>>

-----------------------------------------------------------------------------
(* The instructions *)

Loaded(op, s) ==
  CASE op \in {"lbz", "lhz", "lwz", "lwar"} -> ZeroExtend(s)
    [] op = "lha"             -> SignExtend(s)
    [] op \in {"lhbr", "lwbr"} -> ZeroExtend(Reversed(s))

\* The update forms write RD first, and then RA.
WithUpdate(registers, i) ==
  IF Updates(i) THEN [registers EXCEPT ![i.A] = EffectiveAddress(i)] ELSE registers

ExecuteLoad(i) ==
  /\ i.op \in {"lbz", "lhz", "lha", "lhbr", "lwz", "lwar", "lwbr"}
  /\ gpr' = WithUpdate([gpr EXCEPT ![i.D] = Loaded(i.op, Fetch(EffectiveAddress(i), AccessSize[i.op]))], i)
  /\ UNCHANGED <<fpr, cr, memory>>

ExecuteLoadFloat(i) ==
  /\ i.op \in {"lfs", "lfd"}
  /\ fpr' = [fpr EXCEPT ![i.D] = IF i.op = "lfd" THEN Fetch(EffectiveAddress(i), 8)
                                 ELSE Fetch(EffectiveAddress(i), 4) \o Zero4]
  /\ gpr' = WithUpdate(gpr, i)
  /\ UNCHANGED <<cr, memory>>

Stored(op, w) ==
  CASE op \in {"stb", "sth", "stw", "stwcxd"} -> Low(w, AccessSize[op])
    [] op \in {"sthbr", "stwbr"} -> Reversed(Low(w, AccessSize[op]))

\* stwcxd always stores, and leaves no flag but the summary overflow.
ExecuteStore(i) ==
  /\ i.op \in {"stb", "sth", "sthbr", "stw", "stwbr", "stwcxd"}
  /\ memory' = Put(memory, EffectiveAddress(i), Stored(i.op, gpr[i.D]))
  /\ gpr' = WithUpdate(gpr, i)
  /\ cr' = IF i.op = "stwcxd" THEN [cr EXCEPT ![0] = IF so THEN {"so"} ELSE {}] ELSE cr
  /\ UNCHANGED fpr

\* stfdx stores the register that RA names, not FS.
StoredFloat(i) ==
  CASE i.op = "stfd"  -> fpr[IF i.mode = "x" THEN i.A % 2 ELSE i.D]
    [] i.op = "stfs"  -> SubSeq(fpr[i.D], 1, 4)
    [] i.op = "stfiw" -> SubSeq(fpr[i.D], 5, 8)

ExecuteStoreFloat(i) ==
  /\ i.op \in {"stfs", "stfd", "stfiw"}
  /\ memory' = Put(memory, EffectiveAddress(i), StoredFloat(i))
  /\ gpr' = WithUpdate(gpr, i)
  /\ UNCHANGED <<fpr, cr>>

\* All registers from RD on, RA included.
LoadMultiple(i) ==
  /\ i.op = "lmw"
  /\ gpr' = [r \in GPR |-> IF r < i.D THEN gpr[r]
                           ELSE FromBytes(Fetch(Offset(EffectiveAddress(i), 4 * (r - i.D)), 4))]
  /\ UNCHANGED <<fpr, cr, memory>>

StoreMultiple(i) ==
  /\ i.op = "stmw"
  /\ memory' = Put(memory, EffectiveAddress(i),
                   [k \in 1..(4 * (N - i.D)) |-> Bytes(gpr[i.D + (k - 1) \div 4])[((k - 1) % 4) + 1]])
  /\ UNCHANGED <<gpr, fpr, cr>>

\* The k-th byte of a string of n goes to or comes from this register, at this place in it.
StringRegister(i, k) == (i.D + (k - 1) \div 4) % N
Place(k) == ((k - 1) % 4) + 1
StringBytes(i, n) == [k \in 1..n |-> Bytes(gpr[StringRegister(i, k)])[Place(k)]]

\* Registers the string touches are cleared first; lswx clears one more after each full register.
LoadString(i, a, n) ==
  LET touched == {StringRegister(i, k) : k \in 1..(IF i.op = "lswx" /\ n > 0 THEN n + 1 ELSE n)}
      part(r, j) == LET K == {k \in 1..n : StringRegister(i, k) = r /\ Place(k) = j}
                    IN IF K = {} THEN 0 ELSE memory[Offset(a, (CHOOSE k \in K : TRUE) - 1)]
  IN [r \in GPR |-> IF r \in touched THEN FromBytes([j \in 1..4 |-> part(r, j)]) ELSE gpr[r]]

StringImmediate(i) ==
  /\ \/ i.op = "lswi"  /\ gpr' = LoadString(i, gpr[i.A], i.n) /\ UNCHANGED memory
     \/ i.op = "stswi" /\ memory' = Put(memory, gpr[i.A], StringBytes(i, i.n)) /\ UNCHANGED gpr
  /\ UNCHANGED <<fpr, cr>>

\* stswx does not wrap around after the last register; strings that would are left out.
StringIndexed(i) ==
  /\ LET a == EffectiveAddress(i) IN
       \/ i.op = "lswx"  /\ gpr' = LoadString(i, a, byteCount) /\ UNCHANGED memory
       \/ i.op = "stswx" /\ memory' = Put(memory, a, StringBytes(i, byteCount)) /\ UNCHANGED gpr
  /\ UNCHANGED <<fpr, cr>>

ExecuteLoadStore(i) ==
  /\ ~IsNull(i) /\ ~Fails(i)
  /\ \/ ExecuteLoad(i) \/ ExecuteLoadFloat(i) \/ ExecuteStore(i) \/ ExecuteStoreFloat(i)
     \/ LoadMultiple(i) \/ StoreMultiple(i) \/ StringImmediate(i) \/ StringIndexed(i)
  /\ UNCHANGED halt

Execute(i) ==
  IF i.op \in MemoryOps
  THEN (ExecuteLoadStore(i) \/ Fault(i)) /\ UNCHANGED <<ca, so>>
  ELSE ExecuteFixedPoint(i) /\ UNCHANGED storeVars

StepProgram ==
  /\ halt = "no"
  /\ code # <<>>
  /\ Execute(Head(code))
  /\ code' = Tail(code)
  /\ UNCHANGED <<byteCount, initial>>

InitProgram ==
  /\ initial \in Program
  /\ gpr = initial.gpr
  /\ ca \in {0, 1}
  /\ so = initial.so
  /\ cr = [x \in CR |-> {}]
  /\ fpr = [f \in FPR |-> Zero4 \o Zero4]
  /\ memory = initial.memory
  /\ byteCount = initial.byteCount
  /\ code = initial.code
  /\ halt = "no"
=============================================================================
