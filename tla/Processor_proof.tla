-------------------------- MODULE Processor_proof --------------------------
(***************************************************************************)
(* Proofs about Processor.  An interrupt that the execution loop has let   *)
(* in is neither lost nor late, for any code, any instructions and any     *)
(* number of calls and interrupts.  What guest programs compute is right   *)
(* for every width of a word and all operands.                             *)
(*                                                                         *)
(* A straight-line program is proved by what is left of it: an invariant   *)
(* has one disjunct for each instruction that may come next.  That the     *)
(* machine's state keeps its ranges needs to know what code there is left  *)
(* to run: only instructions whose operands are registers, fields and      *)
(* addresses.                                                              *)
(***************************************************************************)
EXTENDS Processor, FixedPoint_proof

-----------------------------------------------------------------------------
(* The control *)

\* Which modes belong to which call, and when branchAddress is taken.
Modes ==
  /\ mode \in {"one", "finish"} => single
  /\ mode \in {"loop", "test", "load"} => ~single
  /\ mode \in {"load", "restore"} => branchAddress # Null

\* AcceptedInterruptIsKept, by mode: an interrupt that was let in never gets back to Execute.
Kept ==
  accepted /\ ~single =>
    /\ mode \in {"fetch", "native", "test", "load"} => branchAddress = Break
    /\ mode = "restore" => oldBranch = Break
    /\ mode # "loop"
    /\ mode = "idle" => outcome \in {"trap", "fault", "interrupted"}

\* InterruptIsPrompt, by mode: no instruction is begun once one is completed.
Prompt ==
  /\ since <= 1
  /\ mode \in {"one", "loop", "fetch", "native", "restore"} => since = 0
  /\ since > 0 /\ mode # "idle" => accepted

ControlInv == ControlTypeOK /\ Modes /\ Kept /\ Prompt

-----------------------------------------------------------------------------
\* The addresses and constants that all steps are about.
LEMMA Addresses ==
  /\ CodeSize \in Nat \ {0}
  /\ Code \subseteq Target /\ Target \subseteq Address
  /\ 0 \in Code /\ End \in Target /\ Break \in Address /\ Break \notin Target
  /\ Null \notin Address
  /\ \A a : After(a) \in Code
  /\ \A c \in Target : Decrement(c) \in Target
BY InterpreterAssumption DEF Code, End, Break, Null, Address, Target, After, Decrement

\* A branch leaves addresses in lr and ctr, and goes to one.
LEMMA BranchTargets ==
  ASSUME ControlTypeOK, NEW i \in Branch
  PROVE  CtrAfter(i) \in Target /\ LrAfter(i) \in Target /\ TargetOf(i) \in Target
<1>1. LrAfter(i) \in Target
  BY Addresses DEF LrAfter, ControlTypeOK
<1>2. CtrAfter(i) \in Target
  BY Addresses DEF CtrAfter, ControlTypeOK
<1>3. TargetOf(i) \in Target
  BY <1>1 DEF Branch, TargetOf, ControlTypeOK
<1> QED BY <1>1, <1>2, <1>3

LEMMA ControlStart == InitControl => ControlInv
<1> SUFFICES ASSUME InitControl PROVE ControlInv
  OBVIOUS
<1>1. ControlTypeOK
  <2>1. /\ branchAddress \in Address \cup {Null} /\ oldBranch \in Address \cup {Null}
        /\ currentAddress \in Address /\ address \in Address /\ lr \in Target /\ ctr \in Target
    BY Addresses DEF InitControl
  <2>2. single \in BOOLEAN /\ interrupting \in BOOLEAN /\ accepted \in BOOLEAN
    BY DEF InitControl
  <2> QED BY <2>1, <2>2 DEF InitControl, ControlTypeOK
<1>2. Modes /\ Kept
  BY DEF InitControl, Modes, Kept
<1>3. Prompt
  BY DEF InitControl, Prompt
<1> QED BY <1>1, <1>2, <1>3 DEF ControlInv

LEMMA ControlNext ==
  ASSUME ControlInv, [NextControl]_controlVars
  PROVE  ControlInv'
<1> USE DEF ControlInv, ControlTypeOK, Modes, Kept, Prompt
<1>1. ASSUME NEW s \in BOOLEAN, CallExecute(s) PROVE ControlInv'
  <2>1. accepted' = FALSE /\ since' = 0
    BY <1>1 DEF CallExecute
  <2>2. single' \in BOOLEAN /\ accepted' \in BOOLEAN
    BY <1>1 DEF CallExecute
  <2>3. mode' = (IF single' THEN "one" ELSE "loop")
    BY <1>1 DEF CallExecute
  <2> QED BY <1>1, <2>1, <2>2, <2>3 DEF CallExecute, machine
<1>2. CASE EnterLoop
  BY <1>2, Addresses DEF EnterLoop, Leave, Continue, machine, history
<1>3. CASE EnterOne
  BY <1>3, Addresses DEF EnterOne, Continue, machine, history
<1>4. CASE Restore
  BY <1>4 DEF Restore, Leave, machine, history
<1>5. CASE Dispatch
  <2>1. PICK i \in Instruction :
          ExecuteBranch(i) \/ ExecutePlain(i) \/ ExecuteFault(i) \/ CallNative(i)
    BY <1>5 DEF Dispatch
  <2>2. ASSUME ExecuteBranch(i) PROVE ControlInv'
    <3>1. PICK crBit \in BOOLEAN :
            /\ ctr' = CtrAfter(i)
            /\ IF Taken(i, crBit)
               THEN lr' = LrAfter(i) /\ SetBranchAddress(TargetOf(i))
               ELSE /\ Complete(After(currentAddress))
                    /\ UNCHANGED <<lr, branchAddress, oldBranch>>
      BY <2>2 DEF ExecuteBranch
    <3>2. mode = "fetch" /\ UNCHANGED interrupting
      BY <2>2 DEF ExecuteBranch
    <3>3. CtrAfter(i) \in Target /\ LrAfter(i) \in Target /\ TargetOf(i) \in Target
      BY <2>2, BranchTargets DEF ExecuteBranch
    <3>4. CASE /\ Taken(i, crBit) /\ Leave("fault", currentAddress)
               /\ UNCHANGED <<branchAddress, currentAddress, oldBranch, history>>
      BY <3>1, <3>2, <3>3, <3>4 DEF Leave, history
    <3>5. CASE /\ Taken(i, crBit) /\ branchAddress' = TargetOf(i) /\ branchAddress = Null
               /\ Complete(After(currentAddress)) /\ UNCHANGED oldBranch
      BY <3>1, <3>2, <3>3, <3>5, Addresses DEF Complete, Continue
    <3>6. CASE /\ Taken(i, crBit) /\ branchAddress' = TargetOf(i) /\ branchAddress # Null
               /\ oldBranch' = branchAddress /\ Continue("restore")
               /\ UNCHANGED <<currentAddress, history>>
      BY <3>1, <3>2, <3>3, <3>6, Addresses DEF Continue, history
    <3>7. CASE ~Taken(i, crBit)
      BY <3>1, <3>2, <3>3, <3>7, Addresses DEF Complete, Continue
    <3> QED BY <3>1, <3>4, <3>5, <3>6, <3>7 DEF SetBranchAddress
  <2>3. ASSUME ExecutePlain(i) PROVE ControlInv'
    BY <2>3, Addresses DEF ExecutePlain, Complete, Continue
  <2>4. ASSUME ExecuteFault(i) PROVE ControlInv'
    BY <2>4 DEF ExecuteFault, Leave, machine, history
  <2>5. ASSUME CallNative(i) PROVE ControlInv'
    BY <2>5 DEF CallNative, Continue, machine, history
  <2> QED BY <2>1, <2>2, <2>3, <2>4, <2>5
<1>6. CASE NativeReturns
  BY <1>6, Addresses DEF NativeReturns, Complete, Continue, Leave, machine, history
<1>7. CASE NativeThrows
  BY <1>7 DEF NativeThrows, Leave, machine, history
<1>8. CASE TestBranch
  BY <1>8, Addresses DEF TestBranch, Continue, machine, history
<1>9. CASE LoadBranch
  BY <1>9, Addresses DEF LoadBranch, Leave, machine, history
<1>10. CASE FinishOne
  BY <1>10, Addresses DEF FinishOne, Leave, machine, history
<1>11. CASE CallInterrupt
  BY <1>11 DEF CallInterrupt, machine, history
<1>12. CASE Interrupt
  <2>1. accepted' <=> mode \notin {"idle", "loop", "one"}
    BY <1>12 DEF Interrupt
  <2>2. accepted' \in BOOLEAN
    BY <1>12 DEF Interrupt
  <2>3. UNCHANGED <<mode, single, oldBranch, since>> /\ branchAddress = Null /\ branchAddress' = Break
    BY <1>12 DEF Interrupt
  <2>4. ControlTypeOK'
    BY <1>12, <2>2, Addresses DEF Interrupt, machine
  <2>5. Modes' /\ Kept' /\ Prompt'
    BY <2>1, <2>2, <2>3, Addresses
  <2> QED BY <2>4, <2>5
<1>13. CASE UNCHANGED controlVars
  BY <1>13 DEF controlVars, machine, history
<1> QED BY <1>1, <1>2, <1>3, <1>4, <1>5, <1>6, <1>7, <1>8, <1>9, <1>10, <1>11, <1>12, <1>13
        DEF NextControl, Run

LEMMA ControlHolds == ControlSpec => []ControlInv
BY ControlStart, ControlNext, PTL DEF ControlSpec

-----------------------------------------------------------------------------
\* The interpreter's control keeps its types: no branch goes to the null pointer, and a guest never
\* gets the interrupt address into lr or ctr.
THEOREM ControlTypeCorrect == ControlSpec => []ControlTypeOK
<1>1. ControlInv => ControlTypeOK BY DEF ControlInv
<1> QED BY <1>1, ControlHolds, PTL

\* An interrupt that ExecuteUntilBranch has let in is not lost before the call is over.
THEOREM InterruptsKept == ControlSpec => []AcceptedInterruptIsKept
<1>1. ControlInv => AcceptedInterruptIsKept
  BY DEF ControlInv, ControlTypeOK, Modes, Kept, AcceptedInterruptIsKept
<1> QED BY <1>1, ControlHolds, PTL

\* At most one instruction is completed after an interrupt has been let in.
THEOREM InterruptsPrompt == ControlSpec => []InterruptIsPrompt
<1>1. ControlInv => InterruptIsPrompt
  BY DEF ControlInv, Prompt, InterruptIsPrompt
<1> QED BY <1>1, ControlHolds, PTL

-----------------------------------------------------------------------------
(* Bytes *)

LEMMA ByteSize ==
  /\ B \in Nat /\ B >= 2 /\ M = B * B * B * B
  /\ 0 \in Byte /\ B - 1 \in Byte /\ Byte \subseteq Nat
BY LoadStoreAssumption DEF Byte

LEMMA Strings ==
  ASSUME NEW n \in Nat, NEW s \in [1..n -> Byte]
  PROVE  s \in Seq(Byte) /\ Len(s) = n
OBVIOUS

\* A string of numbers to the base k goes on with a byte.
LEMMA Horner ==
  ASSUME NEW k \in Nat, k > 0, NEW x \in 0..(k - 1), NEW y \in Byte
  PROVE  x * B + y \in 0..(k * B - 1)
<1>1. B \in Nat /\ B >= 2 /\ y \in Nat /\ y <= B - 1 /\ x \in Nat /\ x <= k - 1
  BY ByteSize DEF Byte
<1> DEFINE u == x * B
           v == k * B
<1>2. u \in Nat /\ v \in Int /\ u <= v - B
  BY <1>1
<1> HIDE DEF u, v
<1>3. u + y \in 0..(v - 1)
  BY <1>1, <1>2
<1> QED BY <1>3 DEF u, v

LEMMA FromBytesWord ==
  ASSUME NEW s, s[1] \in Byte, s[2] \in Byte, s[3] \in Byte, s[4] \in Byte
  PROVE  FromBytes(s) \in Reg
<1>1. B \in Nat /\ B >= 2 /\ B * B \in Nat /\ B * B > 0 /\ B * B * B \in Nat /\ B * B * B > 0
  BY ByteSize
<1>2. s[1] \in 0..(B - 1)
  BY DEF Byte
<1>3. s[1] * B + s[2] \in 0..(B * B - 1)
  <2> DEFINE x == s[1]
             y == s[2]
             k == B
  <2>1. k \in Nat /\ k > 0 /\ x \in 0..(k - 1) /\ y \in Byte
    BY <1>1, <1>2
  <2> HIDE DEF x, y, k
  <2>2. x * B + y \in 0..(k * B - 1)
    BY <2>1, Horner
  <2> QED BY <2>2 DEF x, y, k
<1>4. (s[1] * B + s[2]) * B + s[3] \in 0..(B * B * B - 1)
  BY <1>1, <1>3, Horner
<1>5. ((s[1] * B + s[2]) * B + s[3]) * B + s[4] \in 0..(B * B * B * B - 1)
  BY <1>1, <1>4, Horner
<1> QED BY <1>5, ByteSize DEF FromBytes, Reg

LEMMA Below ==
  ASSUME NEW k \in Nat, NEW m \in Nat \ {0}, NEW w \in Nat, w < k * m
  PROVE  w \div m \in 0..(k - 1)
<1> DEFINE q == w \div m
           r == w % m
<1>1. q \in Nat /\ r \in Nat /\ w = q * m + r
  BY Smaller
<1> HIDE DEF q, r
<1>2. ~(q >= k)
  <2>1. q >= k => q * m >= k * m
    BY <1>1
  <2> QED BY <1>1, <2>1
<1> QED BY <1>1, <1>2 DEF q

LEMMA BytesOfWord ==
  ASSUME NEW w \in Reg
  PROVE  Bytes(w) \in [1..4 -> Byte]
<1> DEFINE c == B * B * B
           b == B * B
<1>1. B \in Nat /\ B >= 2 /\ b \in Nat \ {0} /\ c \in Nat \ {0} /\ M = B * c
  BY ByteSize
<1>2. w \in Nat /\ w < B * c
  BY <1>1 DEF Reg
<1> HIDE DEF b, c
<1>3. w \div c \in 0..(B - 1)
  BY <1>1, <1>2, Below
<1>4. \A u \in Int : u % B \in Byte
  BY <1>1 DEF Byte
<1>5. w \div b \in Int /\ w \div B \in Int
  BY <1>1, <1>2
<1>6. (w \div b) % B \in Byte /\ (w \div B) % B \in Byte /\ w % B \in Byte
  BY <1>2, <1>4, <1>5
<1>7. Bytes(w) = << w \div c, (w \div b) % B, (w \div B) % B, w % B >>
  BY DEF Bytes, b, c
<1>8. w \div c \in Byte
  BY <1>3 DEF Byte
<1> QED BY <1>6, <1>7, <1>8

\* What is stored and what is loaded.
LEMMA LowBytes ==
  ASSUME NEW w \in Reg, NEW n \in 1..4
  PROVE  Low(w, n) \in [1..n -> Byte]
<1>1. \A k \in (5 - n)..4 : Bytes(w)[k] \in Byte
  BY BytesOfWord
<1>2. /\ SubSeq(Bytes(w), 5 - n, 4) \in Seq(Byte)
      /\ Len(SubSeq(Bytes(w), 5 - n, 4)) = n
  BY <1>1, SubSeqProperties
<1> QED BY <1>2, LenProperties DEF Low

LEMMA ReversedBytes ==
  ASSUME NEW n \in Nat, NEW s \in [1..n -> Byte]
  PROVE  Reversed(s) \in [1..n -> Byte]
<1>1. Len(s) = n
  BY Strings
<1> QED BY <1>1 DEF Reversed

LEMMA Extended ==
  ASSUME NEW n \in 1..4, NEW s \in [1..n -> Byte]
  PROVE  ZeroExtend(s) \in Reg /\ SignExtend(s) \in Reg
<1>1. s \in Seq(Byte) /\ Len(s) = n
  BY Strings
<1>2. ASSUME NEW z \in Seq(Byte), Len(z) = 4 - n PROVE FromBytes(z \o s) \in Reg
  <2>1. z \o s \in Seq(Byte) /\ Len(z \o s) = 4
    BY <1>1, <1>2, ConcatProperties
  <2> DEFINE t == z \o s
  <2>2. \A k \in 1..4 : t[k] \in Byte
    BY <2>1, ElementOfSeq
  <2> HIDE DEF t
  <2>3. t[1] \in Byte /\ t[2] \in Byte /\ t[3] \in Byte /\ t[4] \in Byte
    BY <2>2
  <2>4. FromBytes(t) \in Reg
    BY <2>3, FromBytesWord
  <2> QED BY <2>4 DEF t
<1>3. SubSeq(Zero4, 1, 4 - n) \in Seq(Byte) /\ Len(SubSeq(Zero4, 1, 4 - n)) = 4 - n
  <2>1. \A k \in 1..(4 - n) : Zero4[k] \in Byte
    BY ByteSize DEF Zero4
  <2> QED BY <2>1, SubSeqProperties
<1> DEFINE signs == [k \in 1..(4 - n) |-> IF 2 * s[1] >= B THEN B - 1 ELSE 0]
<1>4. signs \in Seq(Byte) /\ Len(signs) = 4 - n
  <2>1. signs \in [1..(4 - n) -> Byte]
    BY ByteSize
  <2> HIDE DEF signs
  <2> QED BY <2>1, Strings
<1> HIDE DEF signs
<1>5. FromBytes(SubSeq(Zero4, 1, 4 - n) \o s) \in Reg /\ FromBytes(signs \o s) \in Reg
  BY <1>2, <1>3, <1>4
<1> QED BY <1>1, <1>5 DEF ZeroExtend, SignExtend, signs

\* Memory that has every address.
Whole(mem) == mem \in [MemoryAddress -> Byte]

LEMMA Addressed == ASSUME NEW a \in Int, NEW k \in Int PROVE Offset(a, k) \in Reg
BY Modulo DEF Offset

LEMMA FetchedBytes ==
  ASSUME Whole(memory), NEW a \in Int, NEW n \in Nat
  PROVE  Fetch(a, n) \in [1..n -> Byte]
<1>1. \A k \in 1..n : Offset(a, k - 1) \in MemoryAddress
  BY Addressed DEF MemoryAddress
<1> QED BY <1>1 DEF Fetch, Whole

LEMMA PutBytes ==
  ASSUME NEW mem, Whole(mem), NEW a \in Int, NEW n \in Nat, NEW s \in [1..n -> Byte]
  PROVE  Whole(Put(mem, a, s))
<1>1. Len(s) = n
  BY Strings
<1>2. ASSUME NEW x \in DOMAIN mem PROVE Put(mem, a, s)[x] \in Byte
  <2> DEFINE k == ((x - a) % M) + 1
  <2>1. x \in Int
    BY DEF Whole, MemoryAddress, Reg
  <2>2. k \in Nat /\ k >= 1
    BY <2>1, WordSize
  <2> HIDE DEF k
  <2>3. k <= n => s[k] \in Byte
    BY <2>2
  <2>4. Put(mem, a, s)[x] = IF k <= n THEN s[k] ELSE mem[x]
    BY <1>1 DEF Put, k
  <2> QED BY <2>3, <2>4 DEF Whole
<1>3. Put(mem, a, s) = [x \in DOMAIN mem |-> Put(mem, a, s)[x]]
  BY DEF Put
<1> QED BY <1>2, <1>3 DEF Whole

-----------------------------------------------------------------------------
(* What instructions need, to keep the machine's state in range *)

Accesses(i) ==
  /\ i.A \in GPR /\ i.B \in GPR /\ i.imm \in Nat /\ i.n \in Nat
  /\ i.D \in IF i.op \in {"lfs", "lfd", "stfs", "stfd", "stfiw"} THEN FPR ELSE GPR

Legal(i, mem) ==
  /\ i.op \in ComputeOps => Computes(i)
  /\ i.op \in CrOps => i.D[2] \in Flag
  /\ i.op = "mcrf" => i.A \in CR
  /\ i.op \in MemoryOps => mem = MemoryAddress /\ Accesses(i)

LegalCode(c, mem) == \E S : c \in Seq(S) /\ \A i \in S : Legal(i, mem)

RegistersOK == gpr \in [GPR -> Reg] /\ cr \in [CR -> SUBSET Flag]
FloatsOK == fpr \in [FPR -> [1..8 -> Byte]]
MemoryOK == DOMAIN memory \subseteq MemoryAddress /\ memory \in [DOMAIN memory -> Byte]
StoreInv == MachineTypeOK /\ FloatsOK /\ MemoryOK /\ byteCount \in Nat /\ LegalCode(code, DOMAIN memory)

LEMMA FlagSets ==
  ASSUME cr \in [CR -> SUBSET Flag]
  PROVE  /\ \A x, value : UpdateCRx(x, value) \in [CR -> SUBSET Flag]
         /\ \A i : i.op \in {"cmp", "cmpl", "cmpli", "cmpi"} => Compare(i) \in [CR -> SUBSET Flag]
<1>1. \A x, s : s \subseteq Flag => [cr EXCEPT ![x] = s] \in [CR -> SUBSET Flag]
  OBVIOUS
<1>2. ASSUME NEW x, NEW value PROVE UpdateCRx(x, value) \in [CR -> SUBSET Flag]
  <2>1. (IF value = 0 THEN {"eq"} ELSE IF Negative(value) THEN {"lt"} ELSE {"gt"})
          \cup (IF so THEN {"so"} ELSE {}) \subseteq Flag
    BY DEF Flag
  <2> QED BY <1>1, <2>1 DEF UpdateCRx
<1>3. ASSUME NEW i, i.op \in {"cmp", "cmpl", "cmpli", "cmpi"}
      PROVE  Compare(i) \in [CR -> SUBSET Flag]
  <2>1. \A a, b : Order(a, b) \subseteq Flag /\ (IF so THEN {"so"} ELSE {}) \subseteq Flag
    BY Orders DEF Flag
  <2>2. Compare(i) \in {[cr EXCEPT ![i.D] = Order(Signed(gpr[i.A]), Signed(gpr[i.B]))],
                        [cr EXCEPT ![i.D] = Order(gpr[i.A], gpr[i.B])],
                        [cr EXCEPT ![i.D] = Order(gpr[i.A], i.imm) \cup (IF so THEN {"so"} ELSE {})],
                        UpdateCRx(i.D, Sub(gpr[i.A], i.imm))}
    BY <1>3 DEF Compare
  <2>3. Order(gpr[i.A], i.imm) \cup (IF so THEN {"so"} ELSE {}) \subseteq Flag
    BY <2>1
  <2> QED BY <1>1, <1>2, <2>1, <2>2, <2>3
<1> QED BY <1>2, <1>3

LEMMA WriteInRange ==
  ASSUME RegistersOK, NEW i, NEW value \in Reg, Write(i, value)
  PROVE  RegistersOK' /\ halt' \in {"no", "Panic"}
<1>1. gpr' \in [GPR -> Reg] /\ halt' \in {"no", "Panic"}
  BY DEF Write, RegistersOK
<1>2. cr' \in [CR -> SUBSET Flag]
  <2>1. cr' = UpdateCRx(0, value) \/ cr' = cr
    BY DEF Write
  <2> QED BY <2>1, FlagSets DEF RegistersOK
<1> QED BY <1>1, <1>2 DEF RegistersOK

LEMMA FixedPointInRange ==
  ASSUME MachineTypeOK, NEW i, NEW mem, Legal(i, mem), ExecuteFixedPoint(i)
  PROVE  MachineTypeOK'
<1>0. RegistersOK /\ gpr \in [GPR -> Reg] /\ cr \in [CR -> SUBSET Flag] /\ ca \in {0, 1}
  BY DEF MachineTypeOK, RegistersOK
<1>1. so' \in BOOLEAN
  BY DEF ExecuteFixedPoint, MachineTypeOK
<1> SUFFICES RegistersOK' /\ ca' \in {0, 1}
             /\ halt' \in {"no", "Panic", "TrapException", "AccessViolation", "crash"}
  BY <1>1 DEF MachineTypeOK, RegistersOK
<1>2. CASE ExecuteCarrying(i)
  <2>1. CarryResult(i) \in Reg
    BY <1>0, <1>2, CarryingWords DEF Legal, ComputeOps, ExecuteCarrying
  <2>2. RegistersOK' /\ halt' \in {"no", "Panic"}
    BY <1>0, <1>2, <2>1, WriteInRange DEF ExecuteCarrying
  <2>3. ca' \in {0, 1}
    BY <1>2 DEF ExecuteCarrying, Flagged
  <2> QED BY <2>2, <2>3
<1>3. CASE ExecutePlainResult(i)
  <2>1. Result(i) \in Reg
    BY <1>0, <1>3, PlainWords DEF Legal, ComputeOps, ExecutePlainResult
  <2>2. RegistersOK' /\ halt' \in {"no", "Panic"}
    BY <1>0, <1>3, <2>1, WriteInRange DEF ExecutePlainResult
  <2> QED BY <1>0, <1>3, <2>2 DEF ExecutePlainResult
<1>4. CASE ExecuteCompare(i)
  <2>1. cr' = cr \/ cr' = Compare(i)
    BY <1>4 DEF ExecuteCompare
  <2>2. cr' \in [CR -> SUBSET Flag]
    BY <1>0, <1>4, <2>1, FlagSets DEF ExecuteCompare
  <2> QED BY <1>0, <1>4, <2>2 DEF ExecuteCompare, MachineTypeOK, RegistersOK
<1>5. CASE ExecuteTrap(i)
  BY <1>0, <1>5 DEF ExecuteTrap, RegistersOK
<1>6. CASE ExecuteCR(i)
  <2>1. gpr' \in [GPR -> Reg]
    <3>1. GetCR \in Reg
      <4>1. 0 \in CR /\ "lt" \in Flag
        BY Fields DEF Flag
      <4> QED BY <4>1, SavedFlags
    <3> QED BY <1>0, <1>6, <3>1 DEF ExecuteCR
  <2>2. ASSUME i.op \in CrOps, cr' = SetCRBit(i.D, CrLogic(i)) PROVE cr' \in [CR -> SUBSET Flag]
    <3>1. i.D[2] \in Flag
      BY <2>2 DEF Legal
    <3>2. \/ cr' = [cr EXCEPT ![i.D[1]] = @ \cup {i.D[2]}]
          \/ cr' = [cr EXCEPT ![i.D[1]] = @ \ {i.D[2]}]
      BY <2>2 DEF SetCRBit
    <3> QED BY <1>0, <3>1, <3>2
  <2>3. ASSUME i.op = "mcrf", cr' = [cr EXCEPT ![i.D] = cr[i.A]] PROVE cr' \in [CR -> SUBSET Flag]
    <3>1. i.A \in CR
      BY <2>3 DEF Legal
    <3> QED BY <1>0, <2>3, <3>1
  <2>4. ASSUME cr' = SetCR(MaskedFields(i.CRM), gpr[i.A]) PROVE cr' \in [CR -> SUBSET Flag]
    BY <1>0, <2>4 DEF SetCR
  <2>5. cr' \in [CR -> SUBSET Flag]
    BY <1>0, <1>6, <2>2, <2>3, <2>4 DEF ExecuteCR
  <2> QED BY <1>0, <1>6, <2>1, <2>5 DEF ExecuteCR, MachineTypeOK, RegistersOK
<1> QED BY <1>2, <1>3, <1>4, <1>5, <1>6 DEF ExecuteFixedPoint

LEMMA Effective ==
  ASSUME RegistersOK, NEW i, Accesses(i)
  PROVE  EffectiveAddress(i) \in Reg
<1> DEFINE a == IF i.A = 0 /\ i.mode \in {"", "x"} THEN 0 ELSE gpr[i.A]
           k == IF i.mode \in {"x", "ux"} THEN gpr[i.B] ELSE i.imm
<1>0. gpr[i.A] \in Int /\ gpr[i.B] \in Int /\ i.imm \in Int
  BY DEF RegistersOK, Accesses, Reg
<1>1. a \in Int
  <2>1. a = 0 \/ a = gpr[i.A]
    OBVIOUS
  <2> HIDE DEF a
  <2> QED BY <1>0, <2>1
<1>2. k \in Int
  BY <1>0
<1>3. EffectiveAddress(i) = Offset(a, k)
  BY DEF EffectiveAddress
<1> HIDE DEF a, k
<1> QED BY <1>1, <1>2, <1>3, Addressed

LEMMA Updated ==
  ASSUME RegistersOK, NEW i, Accesses(i), NEW registers \in [GPR -> Reg]
  PROVE  WithUpdate(registers, i) \in [GPR -> Reg]
BY Effective DEF WithUpdate

\* Registers that a string goes through.
LEMMA StringRegisters ==
  ASSUME NEW i, Accesses(i), i.D \in GPR, NEW k \in Nat \ {0}
  PROVE  StringRegister(i, k) \in GPR /\ Place(k) \in 1..4
<1>1. N \in Nat \ {0} /\ GPR = 0..(N - 1)
  BY LoadStoreAssumption
<1>2. (k - 1) \div 4 \in Int /\ (k - 1) % 4 \in 0..3
  OBVIOUS
<1>3. (i.D + (k - 1) \div 4) \in Int
  BY <1>1, <1>2
<1> DEFINE u == i.D + (k - 1) \div 4
<1>4. u \in Int
  BY <1>3
<1> HIDE DEF u
<1>5. u % N \in 0..(N - 1)
  BY <1>1, <1>4
<1> QED BY <1>1, <1>2, <1>5 DEF StringRegister, Place, u

LEMMA StoredString ==
  ASSUME RegistersOK, NEW i, Accesses(i), i.D \in GPR, NEW n \in Nat
  PROVE  StringBytes(i, n) \in [1..n -> Byte]
<1>1. ASSUME NEW k \in 1..n PROVE Bytes(gpr[StringRegister(i, k)])[Place(k)] \in Byte
  <2>1. StringRegister(i, k) \in GPR /\ Place(k) \in 1..4
    BY StringRegisters
  <2>2. gpr[StringRegister(i, k)] \in Reg
    BY <2>1 DEF RegistersOK
  <2> QED BY <2>1, <2>2, BytesOfWord
<1> QED BY <1>1 DEF StringBytes

LEMMA LoadedString ==
  ASSUME RegistersOK, Whole(memory), NEW i, Accesses(i), NEW a \in Reg, NEW n \in Nat
  PROVE  LoadString(i, a, n) \in [GPR -> Reg]
<1> DEFINE touched == {StringRegister(i, k) : k \in 1..(IF i.op = "lswx" /\ n > 0 THEN n + 1 ELSE n)}
           K(r, j) == {k \in 1..n : StringRegister(i, k) = r /\ Place(k) = j}
           datum(r, j) == IF K(r, j) = {} THEN 0 ELSE memory[Offset(a, (CHOOSE k \in K(r, j) : TRUE) - 1)]
           word(r) == FromBytes([j \in 1..4 |-> datum(r, j)])
<1>1. LoadString(i, a, n) = [r \in GPR |-> IF r \in touched THEN word(r) ELSE gpr[r]]
  BY DEF LoadString
<1>2. ASSUME NEW r, NEW j PROVE datum(r, j) \in Byte
  <2>1. CASE K(r, j) = {}
    BY <2>1, ByteSize
  <2>2. CASE K(r, j) # {}
    <3> DEFINE k == CHOOSE k \in K(r, j) : TRUE
    <3>1. k \in K(r, j)
      BY <2>2
    <3>2. k \in Int
      BY <3>1
    <3>3. datum(r, j) = memory[Offset(a, k - 1)]
      BY <2>2
    <3> HIDE DEF k, K, datum
    <3>4. Offset(a, k - 1) \in MemoryAddress
      <4>1. a \in Int /\ k - 1 \in Int
        BY <3>2 DEF Reg
      <4> QED BY <4>1, Addressed DEF MemoryAddress
    <3> QED BY <3>3, <3>4 DEF Whole
  <2> QED BY <2>1, <2>2
<1> HIDE DEF datum, touched
<1>3. ASSUME NEW r PROVE word(r) \in Reg
  <2> DEFINE s == [j \in 1..4 |-> datum(r, j)]
  <2>1. s[1] \in Byte /\ s[2] \in Byte /\ s[3] \in Byte /\ s[4] \in Byte
    BY <1>2
  <2> HIDE DEF s
  <2>2. FromBytes(s) \in Reg
    BY <2>1, FromBytesWord
  <2> QED BY <2>2 DEF s
<1> HIDE DEF word
<1> QED BY <1>1, <1>3 DEF RegistersOK

\* What a store writes is as long as the access that was checked.
LEMMA StoredWord ==
  ASSUME RegistersOK, NEW i, Accesses(i), i.op \in {"stb", "sth", "sthbr", "stw", "stwbr", "stwcxd"}
  PROVE  AccessSize[i.op] \in 1..4 /\ Stored(i.op, gpr[i.D]) \in [1..AccessSize[i.op] -> Byte]
<1> DEFINE n == AccessSize[i.op]
           w == gpr[i.D]
<1>1. n \in 1..4
  BY DEF AccessSize
<1>2. w \in Reg
  BY DEF Accesses, RegistersOK
<1> HIDE DEF n, w
<1>3. Low(w, n) \in [1..n -> Byte]
  BY <1>1, <1>2, LowBytes
<1>4. Reversed(Low(w, n)) \in [1..n -> Byte]
  BY <1>1, <1>3, ReversedBytes
<1>5. Stored(i.op, w) \in [1..n -> Byte]
  BY <1>3, <1>4 DEF Stored, n
<1> QED BY <1>1, <1>5 DEF n, w

LEMMA StoredDouble ==
  ASSUME FloatsOK, NEW i, Accesses(i), i.op \in {"stfs", "stfd", "stfiw"}
  PROVE  AccessSize[i.op] \in {4, 8} /\ StoredFloat(i) \in [1..AccessSize[i.op] -> Byte]
<1>1. i.D \in FPR /\ i.A % 2 \in FPR
  BY LoadStoreAssumption DEF Accesses, FPR
<1>2. fpr[i.D] \in [1..8 -> Byte] /\ fpr[i.A % 2] \in [1..8 -> Byte]
  BY <1>1 DEF FloatsOK
<1>3. ASSUME NEW m \in {1, 5}
      PROVE  SubSeq(fpr[i.D], m, m + 3) \in [1..4 -> Byte]
  <2> DEFINE d == fpr[i.D]
  <2>1. \A k \in m..(m + 3) : d[k] \in Byte
    BY <1>2
  <2> HIDE DEF d
  <2>2. SubSeq(d, m, m + 3) \in Seq(Byte) /\ Len(SubSeq(d, m, m + 3)) = 4
    BY <2>1, SubSeqProperties
  <2> QED BY <2>2, LenProperties DEF d
<1>4. SubSeq(fpr[i.D], 1, 4) \in [1..4 -> Byte] /\ SubSeq(fpr[i.D], 5, 8) \in [1..4 -> Byte]
  <2>1. SubSeq(fpr[i.D], 1, 1 + 3) \in [1..4 -> Byte] /\ SubSeq(fpr[i.D], 5, 5 + 3) \in [1..4 -> Byte]
    BY <1>3
  <2> QED BY <2>1
<1>5. AccessSize["stfd"] = 8 /\ AccessSize["stfs"] = 4 /\ AccessSize["stfiw"] = 4
  BY DEF AccessSize
<1> QED BY <1>2, <1>4, <1>5 DEF StoredFloat

\* What stmw stores.
LEMMA StoredRow ==
  ASSUME RegistersOK, NEW d \in GPR
  PROVE  [k \in 1..(4 * (N - d)) |-> Bytes(gpr[d + (k - 1) \div 4])[((k - 1) % 4) + 1]]
           \in [1..(4 * (N - d)) -> Byte]
<1>1. GPR = 0..(N - 1) /\ N \in Nat /\ d \in 0..(N - 1)
  BY LoadStoreAssumption
<1>2. ASSUME NEW k \in 1..(4 * (N - d)) PROVE Bytes(gpr[d + (k - 1) \div 4])[((k - 1) % 4) + 1] \in Byte
  <2>1. d + (k - 1) \div 4 \in GPR /\ ((k - 1) % 4) + 1 \in 1..4
    BY <1>1
  <2>2. gpr[d + (k - 1) \div 4] \in Reg
    BY <2>1 DEF RegistersOK
  <2> QED BY <2>1, <2>2, BytesOfWord
<1> QED BY <1>2

LEMMA AccessesInRange ==
  ASSUME RegistersOK, FloatsOK, Whole(memory), byteCount \in Nat,
         NEW i, Accesses(i), ExecuteLoadStore(i)
  PROVE  RegistersOK' /\ FloatsOK' /\ Whole(memory')
<1> DEFINE a == EffectiveAddress(i)
<1>1. a \in Reg /\ a \in Int
  BY Effective DEF Reg
<1>2. gpr \in [GPR -> Reg] /\ cr \in [CR -> SUBSET Flag] /\ gpr[i.A] \in Reg /\ i.n \in Nat
  BY DEF RegistersOK, Accesses
<1>3. \A registers \in [GPR -> Reg] : WithUpdate(registers, i) \in [GPR -> Reg]
  BY Updated
<1>4. \A n \in Nat : Fetch(a, n) \in [1..n -> Byte]
  BY <1>1, FetchedBytes
<1> HIDE DEF a
<1>5. CASE ExecuteLoad(i)
  <2> DEFINE n == AccessSize[i.op]
             s == Fetch(a, n)
  <2>1. n \in 1..4
    BY <1>5 DEF ExecuteLoad, AccessSize
  <2>2. s \in [1..n -> Byte]
    BY <1>4, <2>1
  <2>3. gpr' = WithUpdate([gpr EXCEPT ![i.D] = Loaded(i.op, s)], i) /\ UNCHANGED <<fpr, cr, memory>>
    BY <1>5 DEF ExecuteLoad, a
  <2> HIDE DEF n, s
  <2>4. Reversed(s) \in [1..n -> Byte]
    BY <2>1, <2>2, ReversedBytes
  <2>5. ZeroExtend(s) \in Reg /\ SignExtend(s) \in Reg /\ ZeroExtend(Reversed(s)) \in Reg
    BY <2>1, <2>2, <2>4, Extended
  <2>6. Loaded(i.op, s) \in Reg
    BY <1>5, <2>5 DEF ExecuteLoad, Loaded
  <2>7. [gpr EXCEPT ![i.D] = Loaded(i.op, s)] \in [GPR -> Reg]
    BY <1>2, <2>6
  <2> QED BY <1>2, <1>3, <2>3, <2>7 DEF RegistersOK, FloatsOK
<1>6. CASE ExecuteLoadFloat(i)
  <2>1. Fetch(a, 8) \in [1..8 -> Byte] /\ Fetch(a, 4) \in [1..4 -> Byte]
    BY <1>4
  <2>2. Fetch(a, 4) \o Zero4 \in [1..8 -> Byte]
    <3> DEFINE s == Fetch(a, 4)
    <3>1. s \in Seq(Byte) /\ Len(s) = 4
      BY <2>1, Strings
    <3>2. Zero4 \in Seq(Byte) /\ Len(Zero4) = 4
      BY ByteSize DEF Zero4
    <3> HIDE DEF s
    <3>3. s \o Zero4 \in Seq(Byte) /\ Len(s \o Zero4) = 8
      <4> DEFINE t == Zero4
      <4> HIDE DEF t
      <4>1. t \in Seq(Byte) /\ Len(t) = 4
        BY <3>2 DEF t
      <4>2. s \o t \in Seq(Byte) /\ Len(s \o t) = Len(s) + Len(t)
        BY <3>1, <4>1, ConcatProperties
      <4>3. Len(s \o t) = 8
        BY <3>1, <4>1, <4>2
      <4> QED BY <4>2, <4>3 DEF t
    <3> QED BY <3>3, LenProperties DEF s
  <2>3. fpr' = [fpr EXCEPT ![i.D] = IF i.op = "lfd" THEN Fetch(a, 8) ELSE Fetch(a, 4) \o Zero4]
    BY <1>6 DEF ExecuteLoadFloat, a
  <2>4. FloatsOK'
    BY <2>1, <2>2, <2>3 DEF FloatsOK
  <2> QED BY <1>2, <1>3, <1>6, <2>4 DEF ExecuteLoadFloat, RegistersOK
<1>7. CASE ExecuteStore(i)
  <2> DEFINE n == AccessSize[i.op]
             s == Stored(i.op, gpr[i.D])
  <2>1. n \in Nat /\ s \in [1..n -> Byte]
    BY <1>7, StoredWord DEF ExecuteStore
  <2>2. /\ memory' = Put(memory, a, s)
        /\ gpr' = WithUpdate(gpr, i) /\ UNCHANGED fpr
        /\ cr' = cr \/ cr' = [cr EXCEPT ![0] = IF so THEN {"so"} ELSE {}]
    BY <1>7 DEF ExecuteStore, a
  <2> HIDE DEF n, s
  <2>3. Whole(memory')
    BY <1>1, <2>1, <2>2, PutBytes
  <2>4. cr' \in [CR -> SUBSET Flag]
    BY <1>2, <2>2 DEF Flag
  <2> QED BY <1>2, <1>3, <2>2, <2>3, <2>4 DEF RegistersOK, FloatsOK
<1>8. CASE ExecuteStoreFloat(i)
  <2> DEFINE n == AccessSize[i.op]
  <2>1. n \in Nat /\ StoredFloat(i) \in [1..n -> Byte]
    BY <1>8, StoredDouble DEF ExecuteStoreFloat
  <2> HIDE DEF n
  <2>2. Whole(Put(memory, a, StoredFloat(i)))
    BY <1>1, <2>1, PutBytes
  <2> QED BY <1>2, <1>3, <1>8, <2>2 DEF ExecuteStoreFloat, RegistersOK, FloatsOK, a
<1>9. CASE LoadMultiple(i)
  <2>1. ASSUME NEW r \in GPR
        PROVE  FromBytes(Fetch(Offset(EffectiveAddress(i), 4 * (r - i.D)), 4)) \in Reg
    <3> DEFINE o == Offset(a, 4 * (r - i.D))
               s == Fetch(o, 4)
    <3>1. r - i.D \in Int
      BY <1>9, LoadStoreAssumption DEF LoadMultiple, Accesses
    <3>2. o \in Int
      <4>1. 4 * (r - i.D) \in Int
        BY <3>1
      <4>2. o \in Reg
        BY <1>1, <4>1, Addressed
      <4> QED BY <4>2 DEF Reg
    <3> HIDE DEF o
    <3>3. s \in [1..4 -> Byte]
      BY <3>2, FetchedBytes
    <3>4. s[1] \in Byte /\ s[2] \in Byte /\ s[3] \in Byte /\ s[4] \in Byte
      BY <3>3
    <3> HIDE DEF s
    <3>5. FromBytes(s) \in Reg
      BY <3>4, FromBytesWord
    <3> QED BY <3>5 DEF s, o, a
  <2>2. gpr' \in [GPR -> Reg]
    BY <1>2, <1>9, <2>1 DEF LoadMultiple
  <2> QED BY <1>2, <1>9, <2>2 DEF LoadMultiple, RegistersOK, FloatsOK
<1>10. CASE StoreMultiple(i)
  <2> DEFINE n == 4 * (N - i.D)
             s == [k \in 1..n |-> Bytes(gpr[i.D + (k - 1) \div 4])[((k - 1) % 4) + 1]]
  <2>1. GPR = 0..(N - 1) /\ N \in Nat /\ i.D \in 0..(N - 1)
    BY <1>10, LoadStoreAssumption DEF StoreMultiple, Accesses
  <2>2. n \in Nat
    BY <2>1
  <2>3. s \in [1..n -> Byte]
    BY <1>10, StoredRow DEF StoreMultiple, Accesses
  <2>4. memory' = Put(memory, a, s) /\ UNCHANGED <<gpr, fpr, cr>>
    BY <1>10 DEF StoreMultiple, a
  <2> HIDE DEF n, s
  <2>5. Whole(memory')
    BY <1>1, <2>2, <2>3, <2>4, PutBytes
  <2> QED BY <1>2, <2>4, <2>5 DEF RegistersOK, FloatsOK
<1>11. CASE StringImmediate(i)
  <2>1. i.D \in GPR
    BY <1>11 DEF StringImmediate, Accesses
  <2>2. LoadString(i, gpr[i.A], i.n) \in [GPR -> Reg]
    BY <1>2, LoadedString
  <2>3. Whole(Put(memory, gpr[i.A], StringBytes(i, i.n)))
    <3>1. StringBytes(i, i.n) \in [1..i.n -> Byte] /\ gpr[i.A] \in Int
      BY <1>2, <2>1, StoredString DEF Reg
    <3> QED BY <1>2, <3>1, PutBytes
  <2> QED BY <1>2, <1>11, <2>2, <2>3 DEF StringImmediate, RegistersOK, FloatsOK
<1>12. CASE StringIndexed(i)
  <2>1. i.D \in GPR
    BY <1>12 DEF StringIndexed, Accesses
  <2>2. LoadString(i, a, byteCount) \in [GPR -> Reg]
    BY <1>1, LoadedString
  <2>3. Whole(Put(memory, a, StringBytes(i, byteCount)))
    BY <1>1, <2>1, StoredString, PutBytes
  <2> QED BY <1>2, <1>12, <2>2, <2>3 DEF StringIndexed, RegistersOK, FloatsOK, a
<1> QED BY <1>5, <1>6, <1>7, <1>8, <1>9, <1>10, <1>11, <1>12 DEF ExecuteLoadStore

LEMMA StoreNext ==
  ASSUME StoreInv, [StepProgram]_machineVars
  PROVE  StoreInv'
<1>1. CASE UNCHANGED machineVars
  BY <1>1 DEF StoreInv, MachineTypeOK, FloatsOK, MemoryOK, machineVars, storeVars
<1>2. CASE StepProgram
  <2> DEFINE i == Head(code)
  <2>1. Execute(i) /\ code' = Tail(code) /\ code # <<>> /\ UNCHANGED <<byteCount, initial>>
    BY <1>2 DEF StepProgram
  <2>2. PICK S : code \in Seq(S) /\ \A j \in S : Legal(j, DOMAIN memory)
    BY DEF StoreInv, LegalCode
  <2>3. i \in S /\ Tail(code) \in Seq(S)
    BY <2>1, <2>2, HeadTailProperties
  <2>4. Legal(i, DOMAIN memory)
    BY <2>2, <2>3
  <2>5. MachineTypeOK /\ FloatsOK /\ MemoryOK /\ byteCount \in Nat
    BY DEF StoreInv
  <2>6. MachineTypeOK' /\ FloatsOK' /\ MemoryOK' /\ DOMAIN memory' = DOMAIN memory
    <3> HIDE DEF i
    <3>1. CASE i.op \in MemoryOps
      <4>1. (ExecuteLoadStore(i) \/ Fault(i)) /\ UNCHANGED <<ca, so>> /\ Accesses(i)
              /\ DOMAIN memory = MemoryAddress
        BY <2>1, <2>4, <3>1 DEF Execute, Legal
      <4>2. Whole(memory) /\ RegistersOK
        BY <2>5, <4>1 DEF MemoryOK, Whole, MachineTypeOK, RegistersOK
      <4>3. CASE ExecuteLoadStore(i)
        <5>1. RegistersOK' /\ FloatsOK' /\ Whole(memory') /\ UNCHANGED halt
          BY <2>5, <4>1, <4>2, <4>3, AccessesInRange DEF ExecuteLoadStore
        <5> QED BY <2>5, <4>1, <4>2, <5>1 DEF MachineTypeOK, RegistersOK, MemoryOK, Whole
      <4>4. CASE Fault(i)
        BY <2>5, <4>1, <4>4 DEF Fault, MachineTypeOK, FloatsOK, MemoryOK, storeVars
      <4> QED BY <4>1, <4>3, <4>4
    <3>2. CASE i.op \notin MemoryOps
      <4>1. ExecuteFixedPoint(i) /\ UNCHANGED storeVars
        BY <2>1, <3>2 DEF Execute
      <4>2. MachineTypeOK'
        BY <2>4, <2>5, <4>1, FixedPointInRange
      <4> QED BY <2>5, <4>1, <4>2 DEF FloatsOK, MemoryOK, storeVars
    <3> QED BY <3>1, <3>2
  <2>7. LegalCode(code', DOMAIN memory')
    BY <2>1, <2>2, <2>3, <2>6 DEF LegalCode
  <2> QED BY <2>1, <2>5, <2>6, <2>7 DEF StoreInv
<1> QED BY <1>1, <1>2

-----------------------------------------------------------------------------
(* Guest programs are legal *)

\* Sequences of legal instructions.
LEMMA LegalCodes ==
  ASSUME NEW mem
  PROVE  /\ LegalCode(<<>>, mem)
         /\ \A i1 :
              Legal(i1, mem)
              => LegalCode(<< i1 >>, mem)
         /\ \A i1, i2 :
              Legal(i1, mem) /\ Legal(i2, mem)
              => LegalCode(<< i1, i2 >>, mem)
         /\ \A i1, i2, i3 :
              Legal(i1, mem) /\ Legal(i2, mem) /\ Legal(i3, mem)
              => LegalCode(<< i1, i2, i3 >>, mem)
         /\ \A i1, i2, i3, i4 :
              Legal(i1, mem) /\ Legal(i2, mem) /\ Legal(i3, mem) /\ Legal(i4, mem)
              => LegalCode(<< i1, i2, i3, i4 >>, mem)
         /\ \A i1, i2, i3, i4, i5 :
              Legal(i1, mem) /\ Legal(i2, mem) /\ Legal(i3, mem) /\ Legal(i4, mem)
              /\ Legal(i5, mem)
              => LegalCode(<< i1, i2, i3, i4, i5 >>, mem)
         /\ \A i1, i2, i3, i4, i5, i6 :
              Legal(i1, mem) /\ Legal(i2, mem) /\ Legal(i3, mem) /\ Legal(i4, mem)
              /\ Legal(i5, mem) /\ Legal(i6, mem)
              => LegalCode(<< i1, i2, i3, i4, i5, i6 >>, mem)
         /\ \A i1, i2, i3, i4, i5, i6, i7 :
              Legal(i1, mem) /\ Legal(i2, mem) /\ Legal(i3, mem) /\ Legal(i4, mem)
              /\ Legal(i5, mem) /\ Legal(i6, mem) /\ Legal(i7, mem)
              => LegalCode(<< i1, i2, i3, i4, i5, i6, i7 >>, mem)
         /\ \A i1, i2, i3, i4, i5, i6, i7, i8 :
              Legal(i1, mem) /\ Legal(i2, mem) /\ Legal(i3, mem) /\ Legal(i4, mem)
              /\ Legal(i5, mem) /\ Legal(i6, mem) /\ Legal(i7, mem) /\ Legal(i8, mem)
              => LegalCode(<< i1, i2, i3, i4, i5, i6, i7, i8 >>, mem)
         /\ \A i1, i2, i3, i4, i5, i6, i7, i8, i9, i10, i11 :
              Legal(i1, mem) /\ Legal(i2, mem) /\ Legal(i3, mem) /\ Legal(i4, mem)
              /\ Legal(i5, mem) /\ Legal(i6, mem) /\ Legal(i7, mem) /\ Legal(i8, mem)
              /\ Legal(i9, mem) /\ Legal(i10, mem) /\ Legal(i11, mem)
              => LegalCode(<< i1, i2, i3, i4, i5, i6, i7, i8, i9, i10, i11 >>, mem)
<1>0. LegalCode(<<>>, mem)
  <2> DEFINE S == {}
  <2>1. <<>> \in Seq(S) /\ \A i \in S : Legal(i, mem)
    OBVIOUS
  <2> HIDE DEF S
  <2> QED BY <2>1 DEF LegalCode
<1>1. ASSUME NEW i1,
             Legal(i1, mem)
      PROVE  LegalCode(<< i1 >>, mem)
  <2> DEFINE S == {i1}
  <2>1. << i1 >> \in Seq(S)
    OBVIOUS
  <2>2. \A i \in S : Legal(i, mem)
    BY <1>1
  <2> HIDE DEF S
  <2> QED BY <2>1, <2>2 DEF LegalCode
<1>2. ASSUME NEW i1, NEW i2,
             Legal(i1, mem), Legal(i2, mem)
      PROVE  LegalCode(<< i1, i2 >>, mem)
  <2> DEFINE S == {i1, i2}
  <2>1. << i1, i2 >> \in Seq(S)
    OBVIOUS
  <2>2. \A i \in S : Legal(i, mem)
    BY <1>2
  <2> HIDE DEF S
  <2> QED BY <2>1, <2>2 DEF LegalCode
<1>3. ASSUME NEW i1, NEW i2, NEW i3,
             Legal(i1, mem), Legal(i2, mem), Legal(i3, mem)
      PROVE  LegalCode(<< i1, i2, i3 >>, mem)
  <2> DEFINE S == {i1, i2, i3}
  <2>1. << i1, i2, i3 >> \in Seq(S)
    OBVIOUS
  <2>2. \A i \in S : Legal(i, mem)
    BY <1>3
  <2> HIDE DEF S
  <2> QED BY <2>1, <2>2 DEF LegalCode
<1>4. ASSUME NEW i1, NEW i2, NEW i3, NEW i4,
             Legal(i1, mem), Legal(i2, mem), Legal(i3, mem), Legal(i4, mem)
      PROVE  LegalCode(<< i1, i2, i3, i4 >>, mem)
  <2> DEFINE S == {i1, i2, i3, i4}
  <2>1. << i1, i2, i3, i4 >> \in Seq(S)
    OBVIOUS
  <2>2. \A i \in S : Legal(i, mem)
    BY <1>4
  <2> HIDE DEF S
  <2> QED BY <2>1, <2>2 DEF LegalCode
<1>5. ASSUME NEW i1, NEW i2, NEW i3, NEW i4, NEW i5,
             Legal(i1, mem), Legal(i2, mem), Legal(i3, mem), Legal(i4, mem),
             Legal(i5, mem)
      PROVE  LegalCode(<< i1, i2, i3, i4, i5 >>, mem)
  <2> DEFINE S == {i1, i2, i3, i4, i5}
  <2>1. << i1, i2, i3, i4, i5 >> \in Seq(S)
    OBVIOUS
  <2>2. \A i \in S : Legal(i, mem)
    BY <1>5
  <2> HIDE DEF S
  <2> QED BY <2>1, <2>2 DEF LegalCode
<1>6. ASSUME NEW i1, NEW i2, NEW i3, NEW i4, NEW i5, NEW i6,
             Legal(i1, mem), Legal(i2, mem), Legal(i3, mem), Legal(i4, mem),
             Legal(i5, mem), Legal(i6, mem)
      PROVE  LegalCode(<< i1, i2, i3, i4, i5, i6 >>, mem)
  <2> DEFINE S == {i1, i2, i3, i4, i5, i6}
  <2>1. << i1, i2, i3, i4, i5, i6 >> \in Seq(S)
    OBVIOUS
  <2>2. \A i \in S : Legal(i, mem)
    BY <1>6
  <2> HIDE DEF S
  <2> QED BY <2>1, <2>2 DEF LegalCode
<1>7. ASSUME NEW i1, NEW i2, NEW i3, NEW i4, NEW i5, NEW i6,
             NEW i7,
             Legal(i1, mem), Legal(i2, mem), Legal(i3, mem), Legal(i4, mem),
             Legal(i5, mem), Legal(i6, mem), Legal(i7, mem)
      PROVE  LegalCode(<< i1, i2, i3, i4, i5, i6, i7 >>, mem)
  <2> DEFINE S == {i1, i2, i3, i4, i5, i6, i7}
  <2>1. << i1, i2, i3, i4, i5, i6, i7 >> \in Seq(S)
    OBVIOUS
  <2>2. \A i \in S : Legal(i, mem)
    BY <1>7
  <2> HIDE DEF S
  <2> QED BY <2>1, <2>2 DEF LegalCode
<1>8. ASSUME NEW i1, NEW i2, NEW i3, NEW i4, NEW i5, NEW i6,
             NEW i7, NEW i8,
             Legal(i1, mem), Legal(i2, mem), Legal(i3, mem), Legal(i4, mem),
             Legal(i5, mem), Legal(i6, mem), Legal(i7, mem), Legal(i8, mem)
      PROVE  LegalCode(<< i1, i2, i3, i4, i5, i6, i7, i8 >>, mem)
  <2> DEFINE S == {i1, i2, i3, i4, i5, i6, i7, i8}
  <2>1. << i1, i2, i3, i4, i5, i6, i7, i8 >> \in Seq(S)
    OBVIOUS
  <2>2. \A i \in S : Legal(i, mem)
    BY <1>8
  <2> HIDE DEF S
  <2> QED BY <2>1, <2>2 DEF LegalCode
<1>9. ASSUME NEW i1, NEW i2, NEW i3, NEW i4, NEW i5, NEW i6,
             NEW i7, NEW i8, NEW i9, NEW i10, NEW i11,
             Legal(i1, mem), Legal(i2, mem), Legal(i3, mem), Legal(i4, mem),
             Legal(i5, mem), Legal(i6, mem), Legal(i7, mem), Legal(i8, mem),
             Legal(i9, mem), Legal(i10, mem), Legal(i11, mem)
      PROVE  LegalCode(<< i1, i2, i3, i4, i5, i6, i7, i8, i9, i10, i11 >>, mem)
  <2> DEFINE S == {i1, i2, i3, i4, i5, i6, i7, i8, i9, i10, i11}
  <2>1. << i1, i2, i3, i4, i5, i6, i7, i8, i9, i10, i11 >> \in Seq(S)
    OBVIOUS
  <2>2. \A i \in S : Legal(i, mem)
    BY <1>9
  <2> HIDE DEF S
  <2> QED BY <2>1, <2>2 DEF LegalCode
<1> QED BY <1>0, <1>1, <1>2, <1>3, <1>4, <1>5, <1>6, <1>7, <1>8, <1>9

LEMMA OpsApart ==
  /\ ComputeOps \cap CrOps = {} /\ ComputeOps \cap MemoryOps = {} /\ CrOps \cap MemoryOps = {}
  /\ "mcrf" \notin ComputeOps \cup CrOps \cup MemoryOps
  /\ {"cmp", "cmpl", "cmpli", "cmpi", "tw", "mfcr", "mtcrf"} \cap (ComputeOps \cup CrOps \cup MemoryOps) = {}
  /\ {"addic", "subfic", "addi", "addis", "mulli", "srawix"} \subseteq ComputeOps
  /\ "cror" \in CrOps
BY DEF ComputeOps, Carrying, PlainOps, CrOps, MemoryOps, AccessSize, Unchecked

\* Instructions by what their operands must be.
Three(op) == op \in ComputeOps \ {"addic", "subfic", "addi", "addis", "mulli", "srawix"}
Immediate(op) == op \in ComputeOps \ {"srawix"}
Free(op) == op \in {"cmp", "cmpl", "cmpli", "cmpi", "tw", "mfcr", "mtcrf"}

LEMMA Operands ==
  /\ Three("addcx") /\ Three("addex") /\ Three("subfcx") /\ Three("subfex") /\ Three("subfzex")
  /\ Three("addzex") /\ Three("addmex") /\ Three("subfmex") /\ Three("slwx") /\ Three("srwx")
  /\ Three("orx") /\ Three("cntlzwx") /\ Three("xorx") /\ Three("subfx") /\ Three("mullwx")
  /\ Three("mulhwux") /\ Three("mulhwx") /\ Three("divwux") /\ Three("divwx") /\ Three("andx")
  /\ Three("addx") /\ Three("nandx") /\ Three("norx") /\ Three("eqvx") /\ Three("andcx")
  /\ Three("orcx") /\ Three("negx") /\ Three("rlwimix") /\ Three("rlwinmx")
  /\ Immediate("subfic") /\ Immediate("addic") /\ Immediate("addi") /\ Immediate("addis")
  /\ Immediate("ori") /\ Immediate("andi_rc") /\ Immediate("xori") /\ Immediate("extshx")
  /\ Free("cmp") /\ Free("cmpl") /\ Free("mfcr") /\ Free("cmpi") /\ Free("cmpli")
BY DEF Three, Immediate, Free, ComputeOps, Carrying, PlainOps

LEMMA LegalThree ==
  \A mem, op, d, a, b :
    Three(op) /\ a \in GPR /\ b \in GPR
    => /\ Legal(Op(op, d, a, b), mem)
       /\ Legal(Recording(Op(op, d, a, b)), mem) /\ Legal(Checking(Op(op, d, a, b)), mem)
<1>1. ASSUME NEW mem, NEW op, NEW a \in GPR, NEW b \in GPR, NEW i, Three(op),
             i.op = op, i.A = a, i.B = b
      PROVE  Legal(i, mem)
  BY <1>1, OpsApart DEF Three, Legal, Computes
<1>2. ASSUME NEW mem, NEW op, NEW d, NEW a \in GPR, NEW b \in GPR, Three(op)
      PROVE  /\ Legal(Op(op, d, a, b), mem)
             /\ Legal(Recording(Op(op, d, a, b)), mem) /\ Legal(Checking(Op(op, d, a, b)), mem)
  <2> DEFINE i == Op(op, d, a, b)
             j == Recording(i)
             k == Checking(i)
  <2>1. i.op = op /\ i.A = a /\ i.B = b
    BY OpFields
  <2>2. j.op = op /\ j.A = a /\ j.B = b /\ k.op = op /\ k.A = a /\ k.B = b
    BY DEF Op, Recording, Checking
  <2> HIDE DEF i, j, k
  <2>3. Legal(i, mem) /\ Legal(j, mem) /\ Legal(k, mem)
    BY <1>1, <1>2, <2>1, <2>2
  <2> QED BY <2>3 DEF i, j, k
<1> QED BY <1>2

LEMMA LegalImmediate ==
  \A mem, op, d, a, n :
    Immediate(op) /\ a \in GPR /\ n \in Int
    => Legal(Imm(op, d, a, n), mem) /\ Legal(Recording(Imm(op, d, a, n)), mem)
<1>1. ASSUME NEW mem, NEW op, NEW a \in GPR, NEW n \in Int, NEW i, Immediate(op),
             i.op = op, i.A = a, i.B = a, i.imm = n
      PROVE  Legal(i, mem)
  BY <1>1, OpsApart DEF Immediate, Legal, Computes
<1>2. ASSUME NEW mem, NEW op, NEW d, NEW a \in GPR, NEW n \in Int, Immediate(op)
      PROVE  Legal(Imm(op, d, a, n), mem) /\ Legal(Recording(Imm(op, d, a, n)), mem)
  <2> DEFINE i == Imm(op, d, a, n)
             j == Recording(i)
  <2>1. i.op = op /\ i.A = a /\ i.B = a /\ i.imm = n
    BY OpFields
  <2>2. j.op = op /\ j.A = a /\ j.B = a /\ j.imm = n
    BY DEF Imm, Op, Recording
  <2> HIDE DEF i, j
  <2>3. Legal(i, mem) /\ Legal(j, mem)
    BY <1>1, <1>2, <2>1, <2>2
  <2> QED BY <2>3 DEF i, j
<1> QED BY <1>2

LEMMA LegalShift ==
  \A mem, d, a, n : a \in GPR /\ n \in 0..(W - 1) => Legal(Imm("srawix", d, a, n), mem)
<1> SUFFICES ASSUME NEW mem, NEW d, NEW a \in GPR, NEW n \in 0..(W - 1)
             PROVE  Legal(Imm("srawix", d, a, n), mem)
  OBVIOUS
<1> DEFINE i == Imm("srawix", d, a, n)
<1>1. i.op = "srawix" /\ i.A = a /\ i.B = a /\ i.imm = n
  BY OpFields
<1> HIDE DEF i
<1>2. Legal(i, mem)
  BY <1>1, OpsApart DEF Legal, Computes
<1> QED BY <1>2 DEF i

LEMMA LegalRotate ==
  \A mem, op, d, a, f : op \in {"rlwimix", "rlwinmx"} /\ a \in GPR => Legal(Rotate(op, d, a, f), mem)
<1> SUFFICES ASSUME NEW mem, NEW op \in {"rlwimix", "rlwinmx"}, NEW d, NEW a \in GPR, NEW f
             PROVE  Legal(Rotate(op, d, a, f), mem)
  OBVIOUS
<1> DEFINE i == Rotate(op, d, a, f)
<1>1. i.op = op /\ i.A = a /\ i.B = a
  BY DEF Rotate
<1>2. Three(op)
  BY Operands
<1> HIDE DEF i
<1>3. Legal(i, mem)
  BY <1>1, <1>2, OpsApart DEF Three, Legal, Computes
<1> QED BY <1>3 DEF i

LEMMA LegalFree ==
  /\ \A mem, op, d, a, b : Free(op) => Legal(Op(op, d, a, b), mem) /\ Legal(Imm(op, d, a, b), mem)
  /\ \A mem, a, b, TO : Legal(Trap("tw", a, b, TO), mem)
  /\ \A mem, a, CRM : Legal(RestoreFields(a, CRM), mem)
  /\ \A mem, d, a, b : d[2] \in Flag => Legal(Op("cror", d, a, b), mem)
  /\ \A mem, d, a, b : a \in CR => Legal(Op("mcrf", d, a, b), mem)
<1>1. ASSUME NEW mem, NEW i, Free(i.op) PROVE Legal(i, mem)
  BY <1>1, OpsApart DEF Free, Legal
<1>2. \A mem, op, d, a, b : Free(op) => Legal(Op(op, d, a, b), mem) /\ Legal(Imm(op, d, a, b), mem)
  BY <1>1, OpFields
<1>3. Free("tw") /\ Free("mtcrf")
  BY DEF Free
<1>4. \A mem, a, b, TO : Legal(Trap("tw", a, b, TO), mem)
  BY <1>1, <1>3, OtherFields
<1>5. \A mem, a, CRM : Legal(RestoreFields(a, CRM), mem)
  BY <1>1, <1>3, OtherFields
<1>6. ASSUME NEW mem, NEW i, i.op = "cror", i.D[2] \in Flag PROVE Legal(i, mem)
  BY <1>6, OpsApart DEF Legal
<1>7. ASSUME NEW mem, NEW i, i.op = "mcrf", i.A \in CR PROVE Legal(i, mem)
  BY <1>7, OpsApart DEF Legal
<1>8. \A mem, d, a, b : d[2] \in Flag => Legal(Op("cror", d, a, b), mem)
  BY <1>6, OpFields
<1>9. \A mem, d, a, b : a \in CR => Legal(Op("mcrf", d, a, b), mem)
  BY <1>7, OpFields
<1> QED BY <1>2, <1>4, <1>5, <1>8, <1>9

LEMMA Numbers ==
  /\ 0 \in GPR /\ 1 \in GPR /\ 2 \in GPR /\ 3 \in GPR /\ 4 \in GPR /\ 5 \in GPR /\ 6 \in GPR
  /\ 7 \in GPR
  /\ W \in Int /\ -W \in Int /\ W - 1 \in 0..(W - 1)
  /\ 0 \in CR /\ 1 \in CR
BY GuestProgramsAssumption, LoadStoreAssumption, SmallPowers

\* The code of the programs that compute is legal, whatever memory is.
LEMMA LegalWide ==
  ASSUME NEW mem, NEW n \in DOMAIN WideCode
  PROVE  LegalCode(WideCode[n], mem)
<1>1. LegalCode(WideCode["add"], mem)
  <2>1. Legal(Op("addcx", 2, 2, 4), mem) /\ Legal(Op("addex", 1, 1, 3), mem)
    BY Operands, LegalThree, Numbers
  <2> QED BY <2>1, LegalCodes DEF WideCode
<1>2. LegalCode(WideCode["sub"], mem)
  <2>1. Legal(Op("subfcx", 2, 4, 2), mem) /\ Legal(Op("subfex", 1, 3, 1), mem)
    BY Operands, LegalThree, Numbers
  <2> QED BY <2>1, LegalCodes DEF WideCode
<1>3. LegalCode(WideCode["neg"], mem)
  <2>1. Legal(Imm("subfic", 2, 2, 0), mem) /\ Legal(Op("subfzex", 1, 1, 1), mem)
    BY Operands, LegalThree, LegalImmediate, Numbers
  <2> QED BY <2>1, LegalCodes DEF WideCode
<1>4. LegalCode(WideCode["inc"], mem)
  <2>1. Legal(Imm("addic", 2, 2, 1), mem) /\ Legal(Op("addzex", 1, 1, 1), mem)
    BY Operands, LegalThree, LegalImmediate, Numbers
  <2> QED BY <2>1, LegalCodes DEF WideCode
<1>5. LegalCode(WideCode["dec"], mem)
  <2>1. Legal(Imm("addic", 2, 2, -1), mem) /\ Legal(Op("addmex", 1, 1, 1), mem)
    BY Operands, LegalThree, LegalImmediate, Numbers
  <2> QED BY <2>1, LegalCodes DEF WideCode
<1>6. LegalCode(WideCode["not"], mem)
  <2>1. Legal(Imm("subfic", 2, 2, -1), mem) /\ Legal(Op("subfmex", 1, 1, 1), mem)
    BY Operands, LegalThree, LegalImmediate, Numbers
  <2> QED BY <2>1, LegalCodes DEF WideCode
<1> QED BY <1>1, <1>2, <1>3, <1>4, <1>5, <1>6, WideNames

LEMMA LegalDouble ==
  ASSUME NEW mem
  PROVE  /\ LegalCode(ShiftCode, mem)
         /\ \A n \in 0..(W - 1) : LegalCode(<< Imm("srawix", 2, 1, n), Op("addzex", 2, 2, 2) >>, mem)
<1>1. LegalCode(ShiftCode, mem)
  <2>1. /\ Legal(Op("slwx", 1, 1, 4), mem) /\ Legal(Op("srwx", 5, 2, 5), mem) /\ Legal(Op("orx", 1, 1, 5), mem)
        /\ Legal(Op("slwx", 5, 2, 6), mem) /\ Legal(Op("slwx", 2, 2, 4), mem)
    BY Operands, LegalThree, Numbers
  <2>2. Legal(Imm("subfic", 5, 4, W), mem) /\ Legal(Imm("addi", 6, 4, -W), mem)
    BY Operands, LegalImmediate, Numbers
  <2> QED BY <2>1, <2>2, LegalCodes DEF ShiftCode
<1>2. ASSUME NEW n \in 0..(W - 1)
      PROVE  LegalCode(<< Imm("srawix", 2, 1, n), Op("addzex", 2, 2, 2) >>, mem)
  <2>1. Legal(Imm("srawix", 2, 1, n), mem)
    BY LegalShift, Numbers
  <2>2. Legal(Op("addzex", 2, 2, 2), mem)
    BY Operands, LegalThree, Numbers
  <2> QED BY <2>1, <2>2, LegalCodes
<1> QED BY <1>1, <1>2

LEMMA LegalOne ==
  ASSUME NEW mem, NEW n \in DOMAIN OneCode
  PROVE  LegalCode(OneCode[n], mem)
<1>1. LegalCode(OneCode["normalize"], mem)
  <2>1. Legal(Op("cntlzwx", 5, 1, 1), mem) /\ Legal(Op("slwx", 2, 1, 5), mem) /\ Legal(Op("srwx", 3, 2, 5), mem)
    BY Operands, LegalThree, Numbers
  <2> QED BY <2>1, LegalCodes DEF OneCode
<1>2. LegalCode(OneCode["abs"], mem)
  <2>1. Legal(Op("xorx", 2, 1, 5), mem) /\ Legal(Op("subfx", 2, 5, 2), mem)
    BY Operands, LegalThree, Numbers
  <2>2. Legal(Imm("srawix", 5, 1, W - 1), mem)
    BY LegalShift, Numbers
  <2> QED BY <2>1, <2>2, LegalCodes DEF OneCode
<1>3. LegalCode(OneCode["product"], mem)
  <2>1. Legal(Op("mullwx", 5, 1, 2), mem) /\ Legal(Op("mulhwux", 6, 1, 2), mem) /\ Legal(Op("mulhwx", 3, 1, 2), mem)
    BY Operands, LegalThree, Numbers
  <2> QED BY <2>1, LegalCodes DEF OneCode
<1>4. LegalCode(OneCode["udivide"], mem)
  <2>1. Legal(Op("divwux", 5, 1, 2), mem) /\ Legal(Op("mullwx", 6, 5, 2), mem) /\ Legal(Op("subfx", 6, 6, 1), mem)
    BY Operands, LegalThree, Numbers
  <2> QED BY <2>1, LegalCodes DEF OneCode
<1>5. LegalCode(OneCode["sdivide"], mem)
  <2>1. Legal(Op("divwx", 5, 1, 2), mem) /\ Legal(Op("mullwx", 6, 5, 2), mem) /\ Legal(Op("subfx", 6, 6, 1), mem)
    BY Operands, LegalThree, Numbers
  <2> QED BY <2>1, LegalCodes DEF OneCode
<1>6. DOMAIN OneCode = {"normalize", "abs", "product", "udivide", "sdivide"}
  BY DEF OneCode
<1> QED BY <1>1, <1>2, <1>3, <1>4, <1>5, <1>6

LEMMA LegalLogic ==
  ASSUME NEW mem
  PROVE  /\ \A f : LegalCode(<< Rotate("rlwimix", 1, 2, f), Rotate("rlwinmx", 3, 2, f) >>, mem)
         /\ LegalCode(LogicCode, mem)
         /\ \A n, k \in Int : LegalCode(ConstantProgram(n, k).code, mem)
<1>1. ASSUME NEW f PROVE LegalCode(<< Rotate("rlwimix", 1, 2, f), Rotate("rlwinmx", 3, 2, f) >>, mem)
  <2>1. Legal(Rotate("rlwimix", 1, 2, f), mem) /\ Legal(Rotate("rlwinmx", 3, 2, f), mem)
    BY LegalRotate, Numbers
  <2> QED BY <2>1, LegalCodes
<1>2. LegalCode(LogicCode, mem)
  <2>1. /\ Legal(Op("andx", 3, 1, 2), mem) /\ Legal(Op("orx", 4, 1, 2), mem) /\ Legal(Op("addx", 5, 3, 4), mem)
        /\ Legal(Op("xorx", 6, 1, 2), mem) /\ Legal(Op("addx", 6, 6, 3), mem) /\ Legal(Op("subfx", 6, 6, 4), mem)
    BY Operands, LegalThree, Numbers
  <2>2. /\ Legal(Op("nandx", 3, 1, 2), mem) /\ Legal(Op("norx", 4, 1, 2), mem)
        /\ Legal(Recording(Op("eqvx", 2, 1, 2)), mem)
        /\ Legal(Op("andcx", 3, 3, 4), mem) /\ Legal(Op("orcx", 3, 3, 3), mem)
    BY Operands, LegalThree, Numbers
  <2> QED BY <2>1, <2>2, LegalCodes DEF LogicCode
<1>3. ASSUME NEW n \in Int, NEW k \in Int PROVE LegalCode(ConstantProgram(n, k).code, mem)
  <2> DEFINE mask == Power[W \div 2] - 1
  <2>1. ConstantProgram(n, k).code =
          << Imm("addis", 1, 0, n), Imm("ori", 1, 1, k), Recording(Imm("andi_rc", 2, 1, mask)),
             Imm("xori", 3, 1, k), Imm("extshx", 4, 2, 0), Checking(Op("negx", 5, 1, 1)) >>
    BY DEF ConstantProgram, Prog
  <2>2. mask \in Int
    <3>1. W \div 2 \in 0..W
      BY SmallPowers
    <3> QED BY <3>1, SmallPowers
  <2> HIDE DEF mask
  <2>3. Legal(Checking(Op("negx", 5, 1, 1)), mem)
    BY Operands, LegalThree, Numbers
  <2>4. /\ Legal(Imm("addis", 1, 0, n), mem) /\ Legal(Imm("ori", 1, 1, k), mem)
        /\ Legal(Recording(Imm("andi_rc", 2, 1, mask)), mem)
        /\ Legal(Imm("xori", 3, 1, k), mem) /\ Legal(Imm("extshx", 4, 2, 0), mem)
    BY <2>2, Operands, LegalImmediate, Numbers
  <2> QED BY <2>1, <2>3, <2>4, LegalCodes
<1> QED BY <1>1, <1>2, <1>3

LEMMA LegalCompare ==
  ASSUME NEW mem
  PROVE  /\ \A TO : LegalCode(CompareCode(TO), mem)
         /\ \A n : LegalCode(<< Imm("cmpi", 0, 1, n), Imm("cmpli", 1, 1, n) >>, mem)
         /\ \A CRM : LegalCode(KeepCode(CRM), mem)
<1>1. ASSUME NEW TO PROVE LegalCode(CompareCode(TO), mem)
  <2>1. Legal(Op("cmp", 0, 1, 2), mem) /\ Legal(Op("cmpl", 1, 1, 2), mem) /\ Legal(Trap("tw", 1, 2, TO), mem)
    BY Operands, LegalFree
  <2>2. Legal(Op("cror", <<1, "so">>, <<0, "gt">>, <<0, "eq">>), mem)
    <3> DEFINE d == <<1, "so">>
    <3>1. d[2] \in Flag
      BY DEF Flag
    <3> HIDE DEF d
    <3>2. \A a, b : Legal(Op("cror", d, a, b), mem)
      BY <3>1, LegalFree
    <3> QED BY <3>2 DEF d
  <2> QED BY <2>1, <2>2, LegalCodes DEF CompareCode
<1>2. ASSUME NEW n PROVE LegalCode(<< Imm("cmpi", 0, 1, n), Imm("cmpli", 1, 1, n) >>, mem)
  <2>1. Legal(Imm("cmpi", 0, 1, n), mem) /\ Legal(Imm("cmpli", 1, 1, n), mem)
    BY Operands, LegalFree
  <2> QED BY <2>1, LegalCodes
<1>3. ASSUME NEW CRM PROVE LegalCode(KeepCode(CRM), mem)
  <2>1. /\ Legal(Op("cmp", 0, 1, 2), mem) /\ Legal(Op("cmpl", 1, 1, 2), mem) /\ Legal(Op("mfcr", 5, 0, 0), mem)
        /\ Legal(Imm("cmpli", 0, 1, 3), mem) /\ Legal(RestoreFields(5, CRM), mem)
    BY Operands, LegalFree
  <2>2. Legal(Op("mcrf", 1, 0, 0), mem)
    BY LegalFree, Numbers
  <2> QED BY <2>1, <2>2, LegalCodes DEF KeepCode
<1> QED BY <1>1, <1>2, <1>3

\* Loads and stores of integers, and of the double registers.
Integers == {"lbz", "lhz", "lha", "lhbr", "lwz", "lwar", "lwbr", "stb", "sth", "sthbr", "stw", "stwbr",
             "stwcxd", "stmw", "lmw", "lswi", "stswi", "lswx", "stswx"}
Doubles == {"lfs", "lfd", "stfs", "stfd", "stfiw"}

LEMMA MemFields ==
  \A op, md, d, a, n : /\ Mem(op, md, d, a, n).op = op /\ Mem(op, md, d, a, n).D = d
                         /\ Mem(op, md, d, a, n).A = a /\ Mem(op, md, d, a, n).B = 0
                         /\ Mem(op, md, d, a, n).imm = n /\ Mem(op, md, d, a, n).n = n
BY DEF Mem

OfRegisters(op) == op \in Integers
OfDoubles(op) == op \in Doubles

LEMMA LegalMem ==
  /\ \A op, md, d, a, n : OfRegisters(op) /\ d \in GPR /\ a \in GPR /\ n \in Nat
                            => Legal(Mem(op, md, d, a, n), MemoryAddress)
  /\ \A op, md, d, a, n : OfDoubles(op) /\ d \in FPR /\ a \in GPR /\ n \in Nat
                            => Legal(Mem(op, md, d, a, n), MemoryAddress)
<1>1. ASSUME NEW i, i.op \in MemoryOps, i.A \in GPR, i.B \in GPR, i.imm \in Nat, i.n \in Nat,
             i.D \in IF i.op \in {"lfs", "lfd", "stfs", "stfd", "stfiw"} THEN FPR ELSE GPR
      PROVE  Legal(i, MemoryAddress)
  BY <1>1, OpsApart DEF Legal, Accesses
<1>2. ASSUME NEW op, NEW md, NEW d \in GPR, NEW a \in GPR, NEW n \in Nat, OfRegisters(op)
      PROVE  Legal(Mem(op, md, d, a, n), MemoryAddress)
  <2>1. op \in MemoryOps /\ op \notin {"lfs", "lfd", "stfs", "stfd", "stfiw"}
    BY <1>2 DEF OfRegisters, Integers, MemoryOps, AccessSize, Unchecked
  <2> DEFINE i == Mem(op, md, d, a, n)
  <2>2. i.op = op /\ i.D = d /\ i.A = a /\ i.B = 0 /\ i.imm = n /\ i.n = n
    BY MemFields
  <2> HIDE DEF i
  <2>3. Legal(i, MemoryAddress)
    BY <1>1, <2>1, <2>2, Numbers
  <2> QED BY <2>3 DEF i
<1>3. ASSUME NEW op, NEW md, NEW d \in FPR, NEW a \in GPR, NEW n \in Nat, OfDoubles(op)
      PROVE  Legal(Mem(op, md, d, a, n), MemoryAddress)
  <2>1. op \in MemoryOps /\ op \in {"lfs", "lfd", "stfs", "stfd", "stfiw"}
    BY <1>3 DEF OfDoubles, Doubles, MemoryOps, AccessSize, Unchecked
  <2> DEFINE i == Mem(op, md, d, a, n)
  <2>2. i.op = op /\ i.D = d /\ i.A = a /\ i.B = 0 /\ i.imm = n /\ i.n = n
    BY MemFields
  <2> HIDE DEF i
  <2>3. Legal(i, MemoryAddress)
    BY <1>1, <2>1, <2>2, Numbers
  <2> QED BY <2>3 DEF i
<1> QED BY <1>2, <1>3

LEMMA MemoryOperands ==
  /\ OfRegisters("lbz") /\ OfRegisters("lhz") /\ OfRegisters("lha") /\ OfRegisters("lhbr") /\ OfRegisters("lwz") /\ OfRegisters("lwar")
  /\ OfRegisters("lwbr") /\ OfRegisters("stb") /\ OfRegisters("sth") /\ OfRegisters("sthbr") /\ OfRegisters("stw")
  /\ OfRegisters("stwbr") /\ OfRegisters("stwcxd") /\ OfRegisters("stmw") /\ OfRegisters("lmw") /\ OfRegisters("lswi")
  /\ OfRegisters("stswi") /\ OfRegisters("lswx") /\ OfRegisters("stswx")
  /\ OfDoubles("lfs") /\ OfDoubles("lfd") /\ OfDoubles("stfs") /\ OfDoubles("stfd") /\ OfDoubles("stfiw")
  /\ 0 \in FPR /\ 1 \in FPR
BY DEF OfRegisters, Integers, OfDoubles, Doubles, FPR

\* The code of the programs that use memory is legal where there is memory.
LEMMA LegalMoving ==
  ASSUME NEW n \in DOMAIN MovingCode
  PROVE  LegalCode(MovingCode[n], MemoryAddress)
<1>1. LegalCode(BytesCode, MemoryAddress)
  <2>1. /\ Legal(Mem("stw", "", 3, 2, 0), MemoryAddress) /\ Legal(Mem("lbz", "u", 4, 2, 1), MemoryAddress)
        /\ Legal(Mem("lbz", "", 5, 2, 0), MemoryAddress) /\ Legal(Mem("lhz", "", 6, 2, 1), MemoryAddress)
        /\ Legal(Mem("lwbr", "x", 7, 2, 0), MemoryAddress)
    BY MemoryOperands, LegalMem, Numbers
  <2> QED BY <2>1, LegalCodes DEF BytesCode
<1>2. LegalCode(HalvesCode, MemoryAddress)
  <2>1. /\ Legal(Mem("sthbr", "x", 3, 2, 0), MemoryAddress) /\ Legal(Mem("lha", "", 4, 2, 0), MemoryAddress)
        /\ Legal(Mem("lhbr", "x", 5, 2, 0), MemoryAddress) /\ Legal(Mem("sth", "", 3, 2, 0), MemoryAddress)
        /\ Legal(Mem("lha", "", 6, 2, 0), MemoryAddress) /\ Legal(Mem("stwbr", "x", 3, 1, 0), MemoryAddress)
        /\ Legal(Mem("lwz", "", 7, 1, 0), MemoryAddress)
    BY MemoryOperands, LegalMem, Numbers
  <2> QED BY <2>1, LegalCodes DEF HalvesCode
<1>3. LegalCode(FloatCode, MemoryAddress)
  <2>1. /\ Legal(Mem("lfd", "", 0, 1, 0), MemoryAddress) /\ Legal(Mem("stfd", "", 0, 2, 0), MemoryAddress)
        /\ Legal(Mem("lfs", "", 1, 1, 0), MemoryAddress) /\ Legal(Mem("stfs", "", 1, 2, 8), MemoryAddress)
        /\ Legal(Mem("stfiw", "x", 0, 2, 0), MemoryAddress) /\ Legal(Mem("stb", "u", 3, 1, 7), MemoryAddress)
    BY MemoryOperands, LegalMem, Numbers
  <2> QED BY <2>1, LegalCodes DEF FloatCode
<1>4. LegalCode(SaveCode, MemoryAddress)
  <2>1. /\ Legal(Mem("stmw", "", 4, 2, 0), MemoryAddress) /\ Legal(Mem("lwar", "x", 5, 1, 0), MemoryAddress)
        /\ Legal(Mem("stwcxd", "x", 4, 1, 0), MemoryAddress) /\ Legal(Mem("lwz", "", 7, 1, 0), MemoryAddress)
        /\ Legal(Mem("lmw", "", 4, 2, 0), MemoryAddress)
    BY MemoryOperands, LegalMem, Numbers
  <2> QED BY <2>1, LegalCodes DEF SaveCode
<1> QED BY <1>1, <1>2, <1>3, <1>4 DEF MovingCode

LEMMA LegalStrings ==
  /\ \A n \in Nat : LegalCode(MoveCode(n), MemoryAddress)
  /\ LegalCode(MoveIndexedCode, MemoryAddress)
<1>1. ASSUME NEW n \in Nat PROVE LegalCode(MoveCode(n), MemoryAddress)
  <2>1. Legal(Mem("lswi", "", 3, 1, n), MemoryAddress) /\ Legal(Mem("stswi", "", 3, 2, n), MemoryAddress)
    BY MemoryOperands, LegalMem, Numbers
  <2> QED BY <2>1, LegalCodes DEF MoveCode
<1>2. LegalCode(MoveIndexedCode, MemoryAddress)
  <2>1. Legal(Mem("lswx", "x", 3, 1, 0), MemoryAddress) /\ Legal(Mem("stswx", "x", 3, 2, 0), MemoryAddress)
    BY MemoryOperands, LegalMem, Numbers
  <2> QED BY <2>1, LegalCodes DEF MoveIndexedCode
<1> QED BY <1>1, <1>2

LEMMA LegalEdge ==
  ASSUME NEW c, c \in EdgeCode
  PROVE  LegalCode(c, MemoryAddress)
<1>1. ASSUME NEW op, NEW md, OfRegisters(op) PROVE LegalCode(OneAccess(op, md, 3, 1), MemoryAddress)
  <2>1. Legal(Mem(op, md, 3, 2, 1), MemoryAddress)
    BY <1>1, LegalMem, Numbers
  <2> QED BY <2>1, LegalCodes DEF OneAccess
<1>2. ASSUME NEW op, NEW md, OfDoubles(op) PROVE LegalCode(OneAccess(op, md, 1, 1), MemoryAddress)
  <2>1. Legal(Mem(op, md, 1, 2, 1), MemoryAddress)
    BY <1>2, LegalMem, Numbers, MemoryOperands
  <2> QED BY <2>1, LegalCodes DEF OneAccess
<1>3. ASSUME NEW op, NEW md, NEW r \in GPR, OfRegisters(op)
      PROVE  LegalCode(OneAccess(op, md, r, 0), MemoryAddress)
  <2>1. Legal(Mem(op, md, r, 2, 0), MemoryAddress)
    BY <1>3, LegalMem, Numbers
  <2> QED BY <2>1, LegalCodes DEF OneAccess
<1>4. /\ \A op \in IntegerAccess : OfRegisters(op)
      /\ \A op \in FloatAccess : OfDoubles(op)
  BY DEF OfRegisters, OfDoubles, Doubles, Integers, AccessSize, IntegerAccess, FloatAccess
<1>5. \/ \E op, md : op \in IntegerAccess /\ c = OneAccess(op, md, 3, 1)
      \/ \E op, md : op \in FloatAccess /\ c = OneAccess(op, md, 1, 1)
      \/ \E op, md, r : op \in {"lmw", "stmw", "stswx"} /\ r \in {3, 4, 7} /\ c = OneAccess(op, md, r, 0)
  <2>1. c \in IntegerEdges => \E op, md : op \in IntegerAccess /\ c = OneAccess(op, md, 3, 1)
    BY DEF IntegerEdges
  <2>2. c \in FloatEdges => \E op, md : op \in FloatAccess /\ c = OneAccess(op, md, 1, 1)
    BY DEF FloatEdges
  <2>3. c \in MultipleEdges =>
          \E op, md, r : op \in {"lmw", "stmw"} /\ r \in {4, 7} /\ c = OneAccess(op, md, r, 0)
    <3> DEFINE md == ""
    <3>1. MultipleEdges = {OneAccess(op, md, r, 0) : op \in {"lmw", "stmw"}, r \in {4, 7}}
      BY DEF MultipleEdges
    <3> HIDE DEF md
    <3> QED BY <3>1
  <2>4. c \in StringEdges => c = OneAccess("stswx", "x", 3, 0)
    BY DEF StringEdges
  <2>5. c \in MultipleEdges =>
          \E op, md, r : op \in {"lmw", "stmw", "stswx"} /\ r \in {3, 4, 7} /\ c = OneAccess(op, md, r, 0)
    BY <2>3
  <2>6. c \in StringEdges =>
          \E op, md, r : op \in {"lmw", "stmw", "stswx"} /\ r \in {3, 4, 7} /\ c = OneAccess(op, md, r, 0)
    BY <2>4
  <2> QED BY <2>1, <2>2, <2>5, <2>6 DEF EdgeCode
<1>6. /\ \A r \in {3, 4, 7} : r \in GPR
      /\ OfRegisters("lmw") /\ OfRegisters("stmw") /\ OfRegisters("stswx")
  BY Numbers, MemoryOperands
<1> QED BY <1>1, <1>2, <1>3, <1>4, <1>5, <1>6

-----------------------------------------------------------------------------
(* Guest programs start in range *)

Started(p) ==
  /\ p.gpr \in [GPR -> Reg] /\ p.so \in BOOLEAN /\ p.byteCount \in Nat
  /\ DOMAIN p.memory \subseteq MemoryAddress /\ p.memory \in [DOMAIN p.memory -> Byte]
  /\ LegalCode(p.code, DOMAIN p.memory)

Filled(args) == [r \in GPR |-> IF r \in DOMAIN args THEN args[r] ELSE 0]

LEMMA FilledWords ==
  /\ Filled(<<>>) \in [GPR -> Reg]
  /\ \A a \in Reg : Filled(<<a>>) \in [GPR -> Reg]
  /\ \A a, b \in Reg : Filled(<<a, b>>) \in [GPR -> Reg]
  /\ \A a, b, c, d \in Reg : Filled(<<a, b, c, d>>) \in [GPR -> Reg]
<1>1. \A args : (\A r \in DOMAIN args : args[r] \in Reg) => Filled(args) \in [GPR -> Reg]
  BY WordSize DEF Filled
<1>2. Filled(<<>>) \in [GPR -> Reg]
  BY WordSize DEF Filled
<1>3. ASSUME NEW a \in Reg PROVE Filled(<<a>>) \in [GPR -> Reg]
  <2>1. \A r \in DOMAIN <<a>> : <<a>>[r] \in Reg
    OBVIOUS
  <2> QED BY <1>1, <2>1
<1>4. ASSUME NEW a \in Reg, NEW b \in Reg PROVE Filled(<<a, b>>) \in [GPR -> Reg]
  <2>1. \A r \in DOMAIN <<a, b>> : <<a, b>>[r] \in Reg
    OBVIOUS
  <2> QED BY <1>1, <2>1
<1>5. ASSUME NEW a \in Reg, NEW b \in Reg, NEW c \in Reg, NEW d \in Reg
      PROVE  Filled(<<a, b, c, d>>) \in [GPR -> Reg]
  <2>1. \A r \in DOMAIN <<a, b, c, d>> : <<a, b, c, d>>[r] \in Reg
    OBVIOUS
  <2> QED BY <1>1, <2>1
<1> QED BY <1>2, <1>3, <1>4, <1>5

LEMMA StartedWithout ==
  ASSUME NEW p, p.gpr \in [GPR -> Reg], p.so \in BOOLEAN, p.byteCount = 0, p.memory = <<>>,
         \A mem : LegalCode(p.code, mem)
  PROVE  Started(p)
<1>1. DOMAIN p.memory = {} /\ p.memory \in [DOMAIN p.memory -> Byte]
  OBVIOUS
<1> QED BY <1>1 DEF Started

LEMMA WideStarts == \A p \in WidePrograms : Started(p)
<1>1. ASSUME NEW n \in DOMAIN WideCode, NEW a \in Reg, NEW b \in Reg, NEW c \in Reg, NEW d \in Reg
      PROVE  Started(WideProgram(n, a, b, c, d))
  <2> DEFINE p == WideProgram(n, a, b, c, d)
  <2>1. /\ p.gpr = Filled(<<a, b, c, d>>) /\ p.so = FALSE /\ p.byteCount = 0 /\ p.memory = <<>>
        /\ p.code = WideCode[n]
    BY DEF WideProgram, Prog, Filled
  <2> HIDE DEF p
  <2>2. p.gpr \in [GPR -> Reg]
    BY <2>1, FilledWords
  <2>3. \A mem : LegalCode(p.code, mem)
    BY <2>1, LegalWide
  <2>4. Started(p)
    BY <2>1, <2>2, <2>3, StartedWithout
  <2> QED BY <2>4 DEF p
<1>2. ASSUME NEW p, p \in WidePrograms PROVE Started(p)
  <2>1. 0 \in Reg /\ Sample \subseteq Reg
    BY WordSize, GuestProgramsAssumption
  <2> QED BY <1>1, <1>2, <2>1, ProgramForms, WideNames
<1> QED BY <1>2

LEMMA ShiftStarts == \A p \in ShiftPrograms : Started(p)
<1>1. ASSUME NEW n \in Reg, NEW a \in Reg, NEW b \in Reg PROVE Started(ShiftProgram(n, a, b))
  <2> DEFINE p == ShiftProgram(n, a, b)
  <2>1. /\ p.gpr = Filled(<<a, b, 0, n>>) /\ p.so = FALSE /\ p.byteCount = 0 /\ p.memory = <<>>
        /\ p.code = ShiftCode
    BY DEF ShiftProgram, Prog, Filled
  <2> HIDE DEF p
  <2>2. p.gpr \in [GPR -> Reg]
    BY <2>1, FilledWords, WordSize
  <2>3. \A mem : LegalCode(p.code, mem)
    BY <2>1, LegalDouble
  <2>4. Started(p)
    BY <2>1, <2>2, <2>3, StartedWithout
  <2> QED BY <2>4 DEF p
<1>2. ASSUME NEW n \in 0..(W - 1), NEW a \in Reg PROVE Started(HalveProgram(n, a))
  <2> DEFINE p == HalveProgram(n, a)
  <2>1. /\ p.gpr = Filled(<<a>>) /\ p.so = FALSE /\ p.byteCount = 0 /\ p.memory = <<>>
        /\ p.code = << Imm("srawix", 2, 1, n), Op("addzex", 2, 2, 2) >>
    BY DEF HalveProgram, Prog, Filled
  <2>2. \A mem : LegalCode(p.code, mem)
    <3>1. \A mem : LegalCode(<< Imm("srawix", 2, 1, n), Op("addzex", 2, 2, 2) >>, mem)
      BY LegalDouble
    <3> HIDE DEF p
    <3> QED BY <2>1, <3>1
  <2> HIDE DEF p
  <2>3. p.gpr \in [GPR -> Reg]
    BY <2>1, FilledWords
  <2>4. Started(p)
    BY <2>1, <2>2, <2>3, StartedWithout
  <2> QED BY <2>4 DEF p
<1>3. ASSUME NEW p, p \in ShiftPrograms PROVE Started(p)
  <2>1. Amount \subseteq Reg /\ Sample \subseteq Reg
    BY GuestProgramsAssumption
  <2> QED BY <1>1, <1>2, <1>3, <2>1, ProgramForms
<1> QED BY <1>3

LEMMA OneStarts == \A p \in OnePrograms : Started(p)
<1>1. ASSUME NEW n \in DOMAIN OneCode, NEW a \in Reg, NEW b \in Reg PROVE Started(OneProgram(n, a, b))
  <2> DEFINE p == OneProgram(n, a, b)
  <2>1. /\ p.gpr = Filled(<<a, b>>) /\ p.so = FALSE /\ p.byteCount = 0 /\ p.memory = <<>>
        /\ p.code = OneCode[n]
    BY DEF OneProgram, Prog, Filled
  <2> HIDE DEF p
  <2>2. Started(p)
    BY <2>1, FilledWords, LegalOne, StartedWithout
  <2> QED BY <2>2 DEF p
<1>2. ASSUME NEW p, p \in OnePrograms PROVE Started(p)
  <2>1. Sample \subseteq Reg
    BY GuestProgramsAssumption
  <2> QED BY <1>1, <1>2, <2>1, ProgramForms
<1> QED BY <1>2

LEMMA FieldStarts == \A p \in FieldPrograms : Started(p)
<1>1. ASSUME NEW f, NEW a \in Reg, NEW b \in Reg PROVE Started(FieldProgram(f, a, b))
  <2> DEFINE p == FieldProgram(f, a, b)
  <2>1. /\ p.gpr = Filled(<<a, b>>) /\ p.so = FALSE /\ p.byteCount = 0 /\ p.memory = <<>>
        /\ p.code = << Rotate("rlwimix", 1, 2, f), Rotate("rlwinmx", 3, 2, f) >>
    BY DEF FieldProgram, Prog, Filled
  <2> HIDE DEF p
  <2>2. Started(p)
    BY <2>1, FilledWords, LegalLogic, StartedWithout
  <2> QED BY <2>2 DEF p
<1>2. ASSUME NEW a \in Reg, NEW b \in Reg PROVE Started(LogicProgram(a, b))
  <2> DEFINE p == LogicProgram(a, b)
  <2>1. /\ p.gpr = Filled(<<a, b>>) /\ p.so = FALSE /\ p.byteCount = 0 /\ p.memory = <<>>
        /\ p.code = LogicCode
    BY DEF LogicProgram, Prog, Filled
  <2> HIDE DEF p
  <2>2. Started(p)
    BY <2>1, FilledWords, LegalLogic, StartedWithout
  <2> QED BY <2>2 DEF p
<1>3. ASSUME NEW n \in Int, NEW k \in Int PROVE Started(ConstantProgram(n, k))
  <2> DEFINE p == ConstantProgram(n, k)
  <2>1. p.gpr = Filled(<<>>) /\ p.so = FALSE /\ p.byteCount = 0 /\ p.memory = <<>>
    BY DEF ConstantProgram, Prog, Filled
  <2>2. \A mem : LegalCode(p.code, mem)
    BY LegalLogic
  <2> HIDE DEF p
  <2>3. Started(p)
    BY <2>1, <2>2, FilledWords, StartedWithout
  <2> QED BY <2>3 DEF p
<1>4. ASSUME NEW p, p \in FieldPrograms PROVE Started(p)
  <2>1. Sample \subseteq Reg
    BY GuestProgramsAssumption
  <2>2. -2..1 \subseteq Int /\ {0, 1, 2, 3} \subseteq Int
    OBVIOUS
  <2> QED BY <1>1, <1>2, <1>3, <1>4, <2>1, <2>2, ProgramForms
<1> QED BY <1>4

LEMMA CompareStarts == \A p \in ComparePrograms : Started(p)
<1>1. ASSUME NEW TO, NEW summary, summary \in BOOLEAN, NEW a \in Reg, NEW b \in Reg
      PROVE  Started(CompareProgram(TO, summary, a, b))
  <2> DEFINE p == CompareProgram(TO, summary, a, b)
  <2>1. /\ p.gpr = Filled(<<a, b>>) /\ p.so = summary /\ p.byteCount = 0 /\ p.memory = <<>>
        /\ p.code = CompareCode(TO)
    BY DEF CompareProgram, Prog, Filled
  <2> HIDE DEF p
  <2>2. Started(p)
    BY <1>1, <2>1, FilledWords, LegalCompare, StartedWithout
  <2> QED BY <2>2 DEF p
<1>2. ASSUME NEW n, NEW a \in Reg PROVE Started(ImmediateProgram(n, a))
  <2> DEFINE p == ImmediateProgram(n, a)
  <2>1. /\ p.gpr = Filled(<<a>>) /\ p.so = FALSE /\ p.byteCount = 0 /\ p.memory = <<>>
        /\ p.code = << Imm("cmpi", 0, 1, n), Imm("cmpli", 1, 1, n) >>
    BY DEF ImmediateProgram, Prog, Filled
  <2> HIDE DEF p
  <2>2. Started(p)
    BY <2>1, FilledWords, LegalCompare, StartedWithout
  <2> QED BY <2>2 DEF p
<1>3. ASSUME NEW CRM, NEW a \in Reg, NEW b \in Reg PROVE Started(KeepProgram(CRM, a, b))
  <2> DEFINE p == KeepProgram(CRM, a, b)
  <2>1. /\ p.gpr = Filled(<<a, b>>) /\ p.so = FALSE /\ p.byteCount = 0 /\ p.memory = <<>>
        /\ p.code = KeepCode(CRM)
    BY DEF KeepProgram, Prog, Filled
  <2> HIDE DEF p
  <2>2. Started(p)
    BY <2>1, FilledWords, LegalCompare, StartedWithout
  <2> QED BY <2>2 DEF p
<1>4. ASSUME NEW p, p \in ComparePrograms PROVE Started(p)
  <2>1. Sample \subseteq Reg
    BY GuestProgramsAssumption
  <2> QED BY <1>1, <1>2, <1>3, <1>4, <2>1, ProgramForms
<1> QED BY <1>4

LEMMA PatternBytes == DOMAIN Pattern = MemoryAddress /\ Pattern \in [MemoryAddress -> Byte]
<1>1. ASSUME NEW a \in MemoryAddress PROVE (a * a + a \div 3) % B \in Byte
  <2>1. a \in Nat
    BY WordSize DEF MemoryAddress, Reg
  <2>2. a * a \in Int /\ a \div 3 \in Int
    BY <2>1
  <2> DEFINE u == a * a + a \div 3
  <2>3. u \in Int
    BY <2>2
  <2> HIDE DEF u
  <2>4. u % B \in Byte
    BY <2>3, LoadStoreAssumption DEF Byte
  <2> QED BY <2>4 DEF u
<1> QED BY <1>1 DEF Pattern

LEMMA StartedWith ==
  ASSUME NEW name, NEW d \in Reg, NEW a \in Reg, NEW c, LegalCode(c, MemoryAddress)
  PROVE  /\ Started(MemProg(name, d, a, c))
         /\ \A n \in Nat : Started([MemProg(name, d, a, c) EXCEPT !.byteCount = n])
<1> DEFINE args == [r \in GPR |-> CASE r = 0 -> 0 [] r = 1 -> Source [] r = 2 -> a
                                    [] OTHER -> (d + r - 3) % M]
           Like(p, n) == /\ p.gpr = Filled(args) /\ p.so = FALSE /\ p.byteCount = n /\ p.memory = Pattern
                         /\ p.code = c
<1>1. ASSUME NEW r \in GPR PROVE args[r] \in Reg
  <2>1. r \in Int /\ d \in Int
    BY LoadStoreAssumption DEF Reg
  <2> DEFINE u == d + r - 3
  <2>2. u \in Int
    BY <2>1
  <2> HIDE DEF u
  <2>3. u % M \in Reg
    BY <2>2, Wrap
  <2>4. 0 \in Reg /\ Source \in Reg /\ a \in Reg
    BY WordSize, GuestProgramsAssumption
  <2>5. args[r] \in {0, Source, a, u % M}
    BY DEF u
  <2> QED BY <2>3, <2>4, <2>5
<1>2. Filled(args) \in [GPR -> Reg]
  BY <1>1 DEF Filled
<1>3. ASSUME NEW p, NEW n \in Nat, Like(p, n) PROVE Started(p)
  <2> HIDE DEF args
  <2>1. p.memory = Pattern /\ p.code = c /\ p.gpr = Filled(args) /\ p.so = FALSE /\ p.byteCount = n
    BY <1>3
  <2>2. DOMAIN p.memory = MemoryAddress /\ p.memory \in [MemoryAddress -> Byte]
    BY <2>1, PatternBytes
  <2> QED BY <1>2, <2>1, <2>2 DEF Started
<1>4. Like(MemProg(name, d, a, c), 0)
  BY DEF MemProg, Prog, Filled
<1>5. ASSUME NEW n \in Nat PROVE Like([MemProg(name, d, a, c) EXCEPT !.byteCount = n], n)
  BY DEF MemProg, Prog, Filled
<1> QED BY <1>3, <1>4, <1>5

LEMMA MemoryStarts == \A p \in MemoryPrograms : Started(p)
<1>0. 0 \in Reg /\ Data \subseteq Reg /\ Destination \in Reg /\ Edge \subseteq Reg
  BY WordSize, GuestProgramsAssumption
<1>1. ASSUME NEW n \in DOMAIN MovingCode, NEW d \in Data PROVE Started(MovingProgram(n, d))
  BY <1>0, LegalMoving, StartedWith DEF MovingProgram
<1>2. ASSUME NEW n \in Nat, NEW c, LegalCode(c, MemoryAddress) PROVE Started(StringProgram(n, c))
  BY <1>0, <1>2, StartedWith DEF StringProgram
<1>3. ASSUME NEW d \in Data, NEW a \in Edge \cup {0}, NEW c, LegalCode(c, MemoryAddress)
      PROVE  Started(EdgeProgram(d, a, c))
  BY <1>0, <1>3, StartedWith DEF EdgeProgram
<1>4. ASSUME NEW p, p \in MemoryPrograms PROVE Started(p)
  <2>1. \A n \in 1..16 : LegalCode(MoveCode(n), MemoryAddress) /\ n \in Nat
    BY LegalStrings
  <2>2. \A n \in 0..16 : LegalCode(MoveIndexedCode, MemoryAddress) /\ n \in Nat
    BY LegalStrings
  <2>3. \A c \in EdgeCode : LegalCode(c, MemoryAddress)
    BY LegalEdge
  <2> QED BY <1>1, <1>2, <1>3, <1>4, <2>1, <2>2, <2>3, ProgramForms
<1> QED BY <1>4

LEMMA ProgramsStart == \A p \in Program : Started(p)
<1>1. Started(Idle)
  <2> DEFINE p == Idle
  <2>1. /\ p.gpr = Filled(<<>>) /\ p.so = FALSE /\ p.byteCount = 0 /\ p.memory = <<>> /\ p.code = <<>>
    BY DEF Idle, Prog, Filled
  <2>2. \A mem : LegalCode(<<>>, mem)
    BY LegalCodes
  <2> HIDE DEF p
  <2>3. Started(p)
    BY <2>1, <2>2, FilledWords, StartedWithout
  <2> QED BY <2>3 DEF p
<1> QED BY <1>1, WideStarts, ShiftStarts, OneStarts, FieldStarts, CompareStarts, MemoryStarts,
       ProcessorAssumption DEF Programs

LEMMA StoreStart == InitProgram => StoreInv
<1> SUFFICES ASSUME InitProgram PROVE StoreInv
  OBVIOUS
<1>1. Started(initial)
  BY ProgramsStart DEF InitProgram
<1>2. FloatsOK
  <2> DEFINE z == Zero4 \o Zero4
  <2>1. z \in [1..8 -> Byte]
    <3>1. Zero4 \in Seq(Byte) /\ Len(Zero4) = 4
      BY ByteSize DEF Zero4
    <3>2. z \in Seq(Byte) /\ Len(z) = Len(Zero4) + Len(Zero4)
      BY <3>1, ConcatProperties
    <3> HIDE DEF z
    <3>3. DOMAIN z = 1..Len(z) /\ Len(z) = 8 /\ \A k \in 1..Len(z) : z[k] \in Byte
      <4>1. z \in Seq(Byte) /\ Len(z) = 8
        BY <3>1, <3>2
      <4> QED BY <4>1, ElementOfSeq, LenProperties
    <3>4. z = [k \in DOMAIN z |-> z[k]]
      BY <3>2
    <3> QED BY <3>1, <3>2, <3>3, <3>4
  <2> HIDE DEF z
  <2>2. fpr = [f \in FPR |-> z]
    BY DEF InitProgram, z
  <2> QED BY <2>1, <2>2 DEF FloatsOK
<1>3. MachineTypeOK
  BY <1>1 DEF InitProgram, Started, MachineTypeOK
<1>4. MemoryOK /\ byteCount \in Nat /\ LegalCode(code, DOMAIN memory)
  BY <1>1 DEF InitProgram, Started, MemoryOK
<1> QED BY <1>2, <1>3, <1>4 DEF StoreInv

LEMMA StoreTyped == StoreInv => StoreTypeOK
<1> SUFFICES ASSUME StoreInv PROVE StoreTypeOK
  OBVIOUS
<1>1. ASSUME NEW f \in FPR PROVE Len(fpr[f]) = 8 /\ \A k \in 1..8 : fpr[f][k] \in Byte
  <2> DEFINE s == fpr[f]
  <2>1. s \in [1..8 -> Byte]
    BY DEF StoreInv, FloatsOK
  <2> HIDE DEF s
  <2>2. Len(s) = 8 /\ \A k \in 1..8 : s[k] \in Byte
    BY <2>1
  <2> QED BY <2>2 DEF s
<1> QED BY <1>1 DEF StoreInv, MemoryOK, StoreTypeOK

-----------------------------------------------------------------------------
(* Bytes of words *)

\* What is known of B, without the powers that the provers cannot see through.
LEMMA ByteSquare ==
  \E c \in Nat, d \in Nat : /\ c = B * B /\ d = B * B * B /\ d = B * c /\ M = B * d
                            /\ B <= c /\ c <= d /\ d <= M
BY ByteSize

LEMMA EvenByte == \E q \in Nat : B = 2 * q
<1> SUFFICES ASSUME \A q \in Nat : B # 2 * q PROVE FALSE
  OBVIOUS
<1>1. PICK q \in Nat : B = 2 * q + 1
  <2>1. B \in Nat
    BY ByteSize
  <2>2. B = 2 * (B \div 2) \/ B = 2 * (B \div 2) + 1
    BY <2>1
  <2>3. B \div 2 \in Nat
    BY <2>1
  <2> QED BY <2>2, <2>3
<1>2. \A u, v \in Nat : (2 * u + 1) * (2 * v + 1) = 2 * (2 * u * v + u + v) + 1
  OBVIOUS
<1>3. PICK u \in Nat : B * B = 2 * u + 1
  <2>1. 2 * q * q + q + q \in Nat
    OBVIOUS
  <2> QED BY <1>1, <1>2, <2>1
<1>4. PICK v \in Nat : (B * B) * B = 2 * v + 1
  <2>1. 2 * u * q + u + q \in Nat
    OBVIOUS
  <2> QED BY <1>1, <1>2, <1>3, <2>1
<1>5. PICK w \in Nat : ((B * B) * B) * B = 2 * w + 1
  <2>1. 2 * v * q + v + q \in Nat
    OBVIOUS
  <2> QED BY <1>1, <1>2, <1>4, <2>1
<1>6. M = 2 * w + 1
  BY <1>5, ByteSize
<1> QED BY <1>6, HalfWord

\* Division by the base takes the last byte off.
LEMMA LastByte ==
  ASSUME NEW x \in Int, NEW y \in Byte
  PROVE  (x * B + y) \div B = x /\ (x * B + y) % B = y
<1>1. B \in Nat /\ B > 0 /\ y \in Int /\ 0 <= y /\ y < B
  BY ByteSize DEF Byte
<1> QED BY <1>1, DivMod

\* A word's bytes, one division at a time.
LEMMA OneByOne ==
  ASSUME NEW w \in Nat
  PROVE  /\ w \div (B * B) = (w \div B) \div B
         /\ w \div (B * B * B) = ((w \div B) \div B) \div B
<1>1. B \in Nat /\ B > 0
  BY ByteSize
<1>2. ASSUME NEW u \in Nat, NEW m \in Nat, m > 0 PROVE u \div (m * B) = (u \div m) \div B
  <2> DEFINE q == u \div m
             r == u % m
             x == q \div B
             y == q % B
  <2>1. q \in Int /\ r \in Int /\ 0 <= r /\ r < m /\ u = q * m + r
    BY <1>2
  <2> HIDE DEF q, r
  <2>2. x \in Int /\ y \in Int /\ 0 <= y /\ y < B /\ q = x * B + y
    BY <1>1, <2>1
  <2> HIDE DEF x, y
  <2> DEFINE n == m * B
             s == y * m + r
  <2>3. u = x * n + s
    <3>1. u = (x * B + y) * m + r
      BY <2>1, <2>2
    <3>2. (x * B + y) * m = x * (m * B) + y * m
      BY <1>1, <1>2, <2>2
    <3> QED BY <3>1, <3>2, <1>1, <1>2, <2>1, <2>2
  <2>4. n \in Nat /\ n > 0
    BY <1>1, <1>2
  <2>5. s \in Int /\ 0 <= s /\ s < n
    <3>1. y <= B - 1 /\ y * m >= 0
      BY <1>1, <1>2, <2>2
    <3>2. y * m <= (B - 1) * m
      BY <1>1, <1>2, <2>2, <3>1
    <3>3. (B - 1) * m = n - m
      BY <1>1, <1>2
    <3> QED BY <1>1, <1>2, <2>1, <2>2, <3>1, <3>2, <3>3
  <2> HIDE DEF n, s
  <2>6. (x * n + s) \div n = x
    BY <2>2, <2>4, <2>5, DivMod
  <2> QED BY <2>3, <2>6 DEF n, x, q
<1>3. w \div (B * B) = (w \div B) \div B
  BY <1>1, <1>2
<1>4. w \div ((B * B) * B) = (w \div (B * B)) \div B
  <2>1. B * B \in Nat /\ B * B > 0
    BY <1>1
  <2> QED BY <1>2, <2>1
<1> QED BY <1>3, <1>4

LEMMA FromBytesOfWord ==
  ASSUME NEW w \in Reg
  PROVE  FromBytes(Bytes(w)) = w
<1>1. B \in Nat /\ B > 0 /\ w \in Nat
  BY ByteSize, WordSize DEF Reg
<1> DEFINE x == w \div B
           y == x \div B
           z == y \div B
<1>2. x \in Int /\ w = x * B + (w % B)
  BY <1>1
<1> HIDE DEF x
<1>3. y \in Int /\ x = y * B + (x % B)
  BY <1>1, <1>2
<1> HIDE DEF y
<1>4. z \in Int /\ y = z * B + (y % B)
  BY <1>1, <1>3
<1> HIDE DEF z
<1>5. Bytes(w) = << z, y % B, x % B, w % B >>
  BY <1>1, OneByOne DEF Bytes, x, y, z
<1>6. FromBytes(Bytes(w)) = ((z * B + (y % B)) * B + (x % B)) * B + (w % B)
  BY <1>5 DEF FromBytes
<1> QED BY <1>2, <1>3, <1>4, <1>6

LEMMA BytesOfString ==
  ASSUME NEW s1 \in Byte, NEW s2 \in Byte, NEW s3 \in Byte, NEW s4 \in Byte
  PROVE  Bytes(((s1 * B + s2) * B + s3) * B + s4) = << s1, s2, s3, s4 >>
<1>0. B \in Nat /\ s1 \in Nat /\ s2 \in Nat /\ s3 \in Nat /\ s4 \in Nat
  BY ByteSize DEF Byte
<1> DEFINE y == s1 * B + s2
           x == y * B + s3
           w == x * B + s4
<1>1. y \in Nat
  BY <1>0
<1>2. y \div B = s1 /\ y % B = s2
  BY <1>0, LastByte
<1> HIDE DEF y
<1>3. x \in Nat
  BY <1>0, <1>1
<1>4. x \div B = y /\ x % B = s3
  BY <1>1, LastByte
<1> HIDE DEF x
<1>5. w \in Nat
  BY <1>0, <1>3
<1>6. w \div B = x /\ w % B = s4
  BY <1>3, LastByte
<1> HIDE DEF w
<1>7. Bytes(w) = << s1, s2, s3, s4 >>
  BY <1>2, <1>4, <1>5, <1>6, OneByOne DEF Bytes
<1> QED BY <1>7 DEF w, x, y

LEMMA BytesOfFromBytes ==
  ASSUME NEW s \in [1..4 -> Byte]
  PROVE  Bytes(FromBytes(s)) = s
<1>1. s[1] \in Byte /\ s[2] \in Byte /\ s[3] \in Byte /\ s[4] \in Byte
  OBVIOUS
<1>2. Bytes(FromBytes(s)) = << s[1], s[2], s[3], s[4] >>
  BY <1>1, BytesOfString DEF FromBytes
<1>3. s = << s[1], s[2], s[3], s[4] >>
  OBVIOUS
<1> QED BY <1>2, <1>3

-----------------------------------------------------------------------------
(* Accesses that do not wrap around *)

LEMMA Near ==
  ASSUME NEW a \in Nat, NEW k \in Nat, a + k < M
  PROVE  Offset(a, k) = a + k /\ a + k \in MemoryAddress
BY Wrap, WordSize DEF Offset, MemoryAddress, Reg

LEMMA FetchAt ==
  ASSUME NEW a \in Nat, NEW n \in Nat, a + n <= M
  PROVE  Fetch(a, n) = [k \in 1..n |-> memory[a + k - 1]]
<1>1. ASSUME NEW k \in 1..n PROVE Offset(a, k - 1) = a + k - 1
  <2>1. k - 1 \in Nat /\ a + (k - 1) < M
    BY WordSize
  <2>2. Offset(a, k - 1) = a + (k - 1)
    BY <2>1, Near
  <2> QED BY <2>2
<1> QED BY <1>1 DEF Fetch

LEMMA PutAt ==
  ASSUME NEW mem, Whole(mem), NEW a \in Nat, NEW n \in Nat, a + n <= M, NEW s \in [1..n -> Byte]
  PROVE  /\ Whole(Put(mem, a, s))
         /\ \A x \in MemoryAddress :
              Put(mem, a, s)[x] = IF a <= x /\ x < a + n THEN s[x - a + 1] ELSE mem[x]
<1>1. Whole(Put(mem, a, s))
  BY PutBytes
<1>2. ASSUME NEW x \in MemoryAddress
      PROVE  Put(mem, a, s)[x] = IF a <= x /\ x < a + n THEN s[x - a + 1] ELSE mem[x]
  <2> DEFINE d == x - a
             j == d % M
  <2>1. Len(s) = n /\ DOMAIN mem = MemoryAddress
    BY Strings DEF Whole
  <2>2. Put(mem, a, s)[x] = IF j + 1 <= n THEN s[j + 1] ELSE mem[x]
    BY <2>1 DEF Put
  <2>3. x \in Nat /\ x < M /\ M \in Nat /\ a <= M
    BY WordSize DEF MemoryAddress, Reg
  <2>4. d \in Int /\ (a <= x => 0 <= d /\ d < M) /\ (x < a => -M <= d /\ d < 0)
    BY <2>3
  <2> HIDE DEF d
  <2>5. (a <= x => j = d) /\ (x < a => j = d + M)
    BY <2>4, Wrap
  <2> HIDE DEF j
  <2>6. CASE a <= x
    BY <2>2, <2>3, <2>5, <2>6 DEF d
  <2>7. CASE x < a
    <3>1. ~(j + 1 <= n)
      BY <2>3, <2>5, <2>7 DEF d
    <3> QED BY <2>2, <2>3, <2>7, <3>1
  <2> QED BY <2>3, <2>6, <2>7
<1> QED BY <1>1, <1>2

-----------------------------------------------------------------------------
(* What a load makes of the bytes, and a store of the register *)

\* A half word, as lha extends it.
SignedHalf(h) == IF 2 * h >= B * B THEN (h - B * B) % M ELSE h

LEMMA Joined ==
  ASSUME NEW m \in Nat, NEW n \in Nat, NEW s \in [1..m -> Byte], NEW t \in [1..n -> Byte]
  PROVE  /\ s \o t \in [1..(m + n) -> Byte]
         /\ \A k \in 1..(m + n) : (s \o t)[k] = IF k <= m THEN s[k] ELSE t[k - m]
<1>1. s \in Seq(Byte) /\ Len(s) = m /\ t \in Seq(Byte) /\ Len(t) = n
  BY Strings
<1>2. /\ s \o t \in Seq(Byte) /\ Len(s \o t) = Len(s) + Len(t)
      /\ \A k \in 1..(Len(s) + Len(t)) : (s \o t)[k] = IF k <= Len(s) THEN s[k] ELSE t[k - Len(s)]
  BY <1>1, ConcatProperties
<1> DEFINE u == s \o t
<1> HIDE DEF u
<1>3. u \in [1..(m + n) -> Byte]
  <2>1. u \in Seq(Byte) /\ Len(u) = m + n
    BY <1>1, <1>2 DEF u
  <2> QED BY <2>1, LenProperties
<1> QED BY <1>1, <1>2, <1>3 DEF u

LEMMA Cut ==
  ASSUME NEW s, NEW m \in Nat, NEW n \in Nat, m <= n + 1, \A k \in m..n : s[k] \in Byte
  PROVE  /\ SubSeq(s, m, n) \in [1..(n + 1 - m) -> Byte]
         /\ \A k \in 1..(n + 1 - m) : SubSeq(s, m, n)[k] = s[m + k - 1]
<1>1. /\ SubSeq(s, m, n) \in Seq(Byte)
      /\ Len(SubSeq(s, m, n)) = IF m <= n THEN n - m + 1 ELSE 0
      /\ \A k \in 1..(n - m + 1) : SubSeq(s, m, n)[k] = s[m + k - 1]
  BY SubSeqProperties
<1> DEFINE u == SubSeq(s, m, n)
<1> HIDE DEF u
<1>2. u \in Seq(Byte) /\ Len(u) = n + 1 - m
  BY <1>1 DEF u
<1>3. u \in [1..(n + 1 - m) -> Byte]
  BY <1>2, LenProperties
<1> QED BY <1>1, <1>3 DEF u

LEMMA ZeroExtended ==
  ASSUME NEW n \in {1, 2, 4}, NEW s \in [1..n -> Byte]
  PROVE  /\ n = 1 => ZeroExtend(s) = s[1]
         /\ n = 2 => ZeroExtend(s) = s[1] * B + s[2]
         /\ n = 4 => ZeroExtend(s) = FromBytes(s)
<1> DEFINE m == 4 - n
           z == SubSeq(Zero4, 1, m)
           t == z \o s
<1>1. m \in Nat /\ m + n = 4 /\ m <= 3 /\ n \in Nat
  OBVIOUS
<1>2. z \in [1..m -> Byte] /\ \A k \in 1..m : z[k] = 0
  <2>1. \A k \in 1..m : Zero4[k] = 0 /\ 0 \in Byte
    BY <1>1, ByteSize DEF Zero4
  <2>2. SubSeq(Zero4, 1, m) \in [1..(m + 1 - 1) -> Byte]
        /\ \A k \in 1..(m + 1 - 1) : SubSeq(Zero4, 1, m)[k] = Zero4[1 + k - 1]
    <3> HIDE DEF m
    <3> QED BY <1>1, <2>1, Cut
  <2> HIDE DEF m
  <2>3. m + 1 - 1 = m /\ \A k \in 1..m : 1 + k - 1 = k
    BY <1>1
  <2> QED BY <2>1, <2>2, <2>3
<1> HIDE DEF z
<1>3. t \in [1..(m + n) -> Byte] /\ \A k \in 1..(m + n) : t[k] = IF k <= m THEN z[k] ELSE s[k - m]
  <2> HIDE DEF m
  <2> QED BY <1>1, <1>2, Joined
<1>4. ZeroExtend(s) = FromBytes(t)
  <2>1. Len(s) = n
    BY <1>1, Strings
  <2> QED BY <2>1 DEF ZeroExtend, z
<1> HIDE DEF t
<1>5. \A k \in 1..4 : t[k] = IF k <= m THEN 0 ELSE s[k - m]
  BY <1>1, <1>2, <1>3
<1>6. t[1] = (IF 1 <= m THEN 0 ELSE s[1 - m]) /\ t[2] = (IF 2 <= m THEN 0 ELSE s[2 - m])
      /\ t[3] = (IF 3 <= m THEN 0 ELSE s[3 - m]) /\ t[4] = (IF 4 <= m THEN 0 ELSE s[4 - m])
  BY <1>5
<1>7. FromBytes(t) = ((t[1] * B + t[2]) * B + t[3]) * B + t[4]
  BY DEF FromBytes
<1>0. B \in Nat /\ \A k \in 1..n : s[k] \in Int
  BY ByteSize DEF Byte
<1>8. CASE n = 1
  <2>1. t[1] = 0 /\ t[2] = 0 /\ t[3] = 0 /\ t[4] = s[1] /\ s[1] \in Int
    BY <1>0, <1>6, <1>8
  <2> QED BY <1>0, <1>4, <1>7, <1>8, <2>1
<1>9. CASE n = 2
  <2>1. t[1] = 0 /\ t[2] = 0 /\ t[3] = s[1] /\ t[4] = s[2] /\ s[1] \in Int /\ s[2] \in Int
    BY <1>0, <1>6, <1>9
  <2> QED BY <1>0, <1>4, <1>7, <1>9, <2>1
<1>10. CASE n = 4
  <2>1. t[1] = s[1] /\ t[2] = s[2] /\ t[3] = s[3] /\ t[4] = s[4]
    BY <1>6, <1>10
  <2> QED BY <1>4, <1>7, <1>10, <2>1 DEF FromBytes
<1> QED BY <1>8, <1>9, <1>10

LEMMA Turned ==
  ASSUME NEW n \in Nat, NEW s \in [1..n -> Byte]
  PROVE  Reversed(s) \in [1..n -> Byte] /\ \A k \in 1..n : Reversed(s)[k] = s[n + 1 - k]
<1>1. Len(s) = n
  BY Strings
<1> QED BY <1>1, ReversedBytes DEF Reversed

LEMMA SignExtended ==
  ASSUME NEW s \in [1..2 -> Byte]
  PROVE  SignExtend(s) = SignedHalf(s[1] * B + s[2])
<1> DEFINE x == s[1]
           y == s[2]
<1>0. x \in Byte /\ y \in Byte
  OBVIOUS
<1> HIDE DEF x, y
<1>1. B \in Nat /\ x \in Nat /\ y \in Nat /\ x <= B - 1 /\ y <= B - 1
  BY <1>0, ByteSize DEF Byte
<1> DEFINE e == IF 2 * x >= B THEN B - 1 ELSE 0
           h == x * B + y
           c == B * B
<1>2. SignExtend(s) = ((e * B + e) * B + x) * B + y
  <2> DEFINE signs == [k \in 1..2 |-> e]
             t == signs \o s
  <2>1. Len(s) = 2 /\ e \in Byte /\ 2 \in Nat
    BY ByteSize, Strings
  <2>2. SignExtend(s) = FromBytes(t)
    <3>1. 4 - Len(s) = 2
      BY <2>1
    <3> QED BY <3>1 DEF SignExtend, x
  <2> HIDE DEF e
  <2>3. signs \in [1..2 -> Byte] /\ signs[1] = e /\ signs[2] = e
    BY <2>1
  <2> HIDE DEF signs
  <2>4. \A k \in 1..(2 + 2) : t[k] = IF k <= 2 THEN signs[k] ELSE s[k - 2]
    BY <2>1, <2>3, Joined
  <2> HIDE DEF t
  <2>5. t[1] = e /\ t[2] = e /\ t[3] = x /\ t[4] = y
    BY <2>3, <2>4 DEF x, y
  <2> QED BY <2>2, <2>5 DEF FromBytes
<1>3. h \in Nat /\ c \in Nat /\ h < c /\ c <= M /\ M \in Nat /\ M = c * c
  <2>1. h \in 0..(B * B - 1)
    BY <1>0, <1>1, Horner DEF Byte
  <2>2. M = (B * B) * (B * B) /\ B * B \in Nat /\ M \in Nat
    BY ByteSize
  <2>3. B * B <= M
    BY ByteSquare
  <2> QED BY <2>1, <2>2, <2>3
<1>4. CASE 2 * x >= B
  <2>1. ((e * B + e) * B + x) * B + y = M - c + h
    <3>1. e = B - 1
      BY <1>4
    <3>2. e * B + e = c - 1
      BY <1>1, <3>1
    <3>3. (c - 1) * B + x = c * B - B + x
      BY <1>1, <1>3
    <3>4. (c * B - B + x) * B = (c * B) * B - c + x * B
      BY <1>1, <1>3
    <3>5. (c * B) * B = M
      BY <1>1, ByteSize
    <3> QED BY <1>1, <1>3, <3>2, <3>3, <3>4, <3>5
  <2>2. 2 * h >= c
    <3>1. (2 * x) * B >= B * B
      BY <1>1, <1>4
    <3> QED BY <1>1, <3>1
  <2> HIDE DEF h, c, e
  <2>3. (h - c) % M = h - c + M
    <3> DEFINE d == h - c
    <3>1. d \in Int /\ -M <= d /\ d < 0
      BY <1>3
    <3> HIDE DEF d
    <3>2. d % M = d + M
      BY <3>1, Wrap
    <3> QED BY <3>2 DEF d
  <2> QED BY <1>2, <1>3, <2>1, <2>2, <2>3 DEF SignedHalf, h, c, x, y
<1>5. CASE 2 * x < B
  <2>1. ((e * B + e) * B + x) * B + y = h
    <3>1. e = 0
      BY <1>1, <1>5
    <3> QED BY <1>1, <3>1
  <2>2. 2 * h < c
    <3>1. PICK q \in Nat : B = 2 * q
      BY EvenByte
    <3>2. x <= q - 1
      BY <1>1, <1>5, <3>1
    <3>3. x * B <= (q - 1) * B
      BY <1>1, <3>1, <3>2
    <3>4. (q - 1) * B = q * B - B /\ 2 * (q * B) = B * B
      BY <1>1, <3>1
    <3> QED BY <1>1, <3>3, <3>4
  <2> HIDE DEF h, c, e
  <2> QED BY <1>2, <1>3, <2>1, <2>2 DEF SignedHalf, h, c, x, y
<1> QED BY <1>1, <1>4, <1>5

\* A register's bytes.
LEMMA Lowest ==
  ASSUME NEW w \in Reg, NEW n \in {1, 2, 4}
  PROVE  Low(w, n) \in [1..n -> Byte] /\ \A k \in 1..n : Low(w, n)[k] = Bytes(w)[4 - n + k]
<1> DEFINE s == Bytes(w)
           m == 5 - n
<1>1. s \in [1..4 -> Byte] /\ m \in Nat /\ m <= 4 + 1 /\ 4 \in Nat /\ n = 4 + 1 - m /\ n \in Nat
  BY BytesOfWord
<1> HIDE DEF s
<1>2. \A k \in m..4 : s[k] \in Byte
  BY <1>1
<1> HIDE DEF m
<1>3. /\ SubSeq(s, m, 4) \in [1..(4 + 1 - m) -> Byte]
      /\ \A k \in 1..(4 + 1 - m) : SubSeq(s, m, 4)[k] = s[m + k - 1]
  BY <1>1, <1>2, Cut
<1>4. \A k \in 1..n : m + k - 1 = 4 - n + k
  BY <1>1
<1>5. Low(w, n) = SubSeq(s, m, 4)
  BY DEF Low, s, m
<1> QED BY <1>1, <1>3, <1>4, <1>5 DEF s

-----------------------------------------------------------------------------
(* One access *)

Loads == {"lbz", "lhz", "lha", "lhbr", "lwz", "lwar", "lwbr"}
Stores == {"stb", "sth", "sthbr", "stw", "stwbr", "stwcxd"}

LEMMA AccessStep ==
  ASSUME NEW i, i.op \in MemoryOps, Execute(i), halt' = "no"
  PROVE  /\ ExecuteLoadStore(i) /\ UNCHANGED <<ca, so>>
         /\ i.op \in Loads => ExecuteLoad(i)
         /\ i.op \in {"lfs", "lfd"} => ExecuteLoadFloat(i)
         /\ i.op \in Stores => ExecuteStore(i)
         /\ i.op \in {"stfs", "stfd", "stfiw"} => ExecuteStoreFloat(i)
         /\ i.op = "lmw" => LoadMultiple(i)
         /\ i.op = "stmw" => StoreMultiple(i)
         /\ i.op \in {"lswi", "stswi"} => StringImmediate(i)
         /\ i.op \in {"lswx", "stswx"} => StringIndexed(i)
<1>1. (ExecuteLoadStore(i) \/ Fault(i)) /\ UNCHANGED <<ca, so>>
  BY DEF Execute
<1>2. ~Fault(i)
  BY DEF Fault
<1>3. ExecuteLoad(i) => i.op \in Loads
  BY DEF ExecuteLoad, Loads
<1>4. ExecuteLoadFloat(i) => i.op \in {"lfs", "lfd"}
  BY DEF ExecuteLoadFloat
<1>5. ExecuteStore(i) => i.op \in Stores
  BY DEF ExecuteStore, Stores
<1>6. ExecuteStoreFloat(i) => i.op \in {"stfs", "stfd", "stfiw"}
  BY DEF ExecuteStoreFloat
<1>7. (LoadMultiple(i) => i.op = "lmw") /\ (StoreMultiple(i) => i.op = "stmw")
  BY DEF LoadMultiple, StoreMultiple
<1>8. StringImmediate(i) => i.op \in {"lswi", "stswi"}
  BY DEF StringImmediate
<1>9. StringIndexed(i) => i.op \in {"lswx", "stswx"}
  BY DEF StringIndexed
<1>10. \/ ExecuteLoad(i) \/ ExecuteLoadFloat(i) \/ ExecuteStore(i) \/ ExecuteStoreFloat(i)
       \/ LoadMultiple(i) \/ StoreMultiple(i) \/ StringImmediate(i) \/ StringIndexed(i)
  BY <1>1, <1>2 DEF ExecuteLoadStore
<1> QED BY <1>1, <1>2, <1>3, <1>4, <1>5, <1>6, <1>7, <1>8, <1>9, <1>10 DEF Loads, Stores

\* A program about to access memory has it.
LEMMA Accessing ==
  ASSUME StoreInv, code # <<>>, Head(code).op \in MemoryOps
  PROVE  Whole(memory) /\ RegistersOK /\ FloatsOK /\ Accesses(Head(code)) /\ gpr \in [GPR -> Reg]
<1>1. PICK S : code \in Seq(S) /\ \A j \in S : Legal(j, DOMAIN memory)
  BY DEF StoreInv, LegalCode
<1>2. Head(code) \in S
  BY <1>1, HeadTailProperties
<1>3. DOMAIN memory = MemoryAddress /\ Accesses(Head(code))
  BY <1>1, <1>2 DEF Legal
<1> QED BY <1>3 DEF StoreInv, MemoryOK, Whole, MachineTypeOK, RegistersOK

\* Where the instructions of the programs find their data.
Direct(i) == i.mode \in {"", "u"}
Indexed(i) == i.mode = "x" /\ i.B = 0

LEMMA MemModes ==
  ASSUME NEW op, NEW d, NEW a, NEW n
  PROVE  /\ Direct(Mem(op, "", d, a, n)) /\ ~Updates(Mem(op, "", d, a, n))
         /\ Direct(Mem(op, "u", d, a, n)) /\ Updates(Mem(op, "u", d, a, n))
         /\ Indexed(Mem(op, "x", d, a, n)) /\ ~Updates(Mem(op, "x", d, a, n))
BY DEF Mem, Direct, Indexed, Updates

LEMMA AtImmediate ==
  ASSUME NEW i, Direct(i), i.A # 0, gpr[i.A] \in Nat, i.imm \in Nat, gpr[i.A] + i.imm < M
  PROVE  EffectiveAddress(i) = gpr[i.A] + i.imm
<1>1. EffectiveAddress(i) = Offset(gpr[i.A], i.imm)
  BY DEF EffectiveAddress, Direct
<1> DEFINE a == gpr[i.A]
           n == i.imm
<1>2. a \in Nat /\ n \in Nat /\ a + n < M
  OBVIOUS
<1> HIDE DEF a, n
<1>3. Offset(a, n) = a + n
  BY <1>2, Near
<1> QED BY <1>1, <1>3 DEF a, n

LEMMA AtRegister ==
  ASSUME NEW i, Indexed(i), i.A # 0, gpr[0] = 0, gpr[i.A] \in Nat, gpr[i.A] < M
  PROVE  EffectiveAddress(i) = gpr[i.A]
<1>1. EffectiveAddress(i) = Offset(gpr[i.A], 0)
  BY DEF EffectiveAddress, Indexed
<1> DEFINE a == gpr[i.A]
<1>2. a \in Nat /\ a + 0 < M /\ 0 \in Nat
  OBVIOUS
<1> HIDE DEF a
<1>3. Offset(a, 0) = a + 0
  BY <1>2, Near
<1> QED BY <1>1, <1>2, <1>3 DEF a

\* What is loaded.
LEMMA LoadedValues ==
  ASSUME Whole(memory), NEW a \in Nat
  PROVE  /\ a + 1 <= M => Loaded("lbz", Fetch(a, 1)) = memory[a]
         /\ a + 2 <= M =>
              /\ Loaded("lhz", Fetch(a, 2)) = memory[a] * B + memory[a + 1]
              /\ Loaded("lha", Fetch(a, 2)) = SignedHalf(memory[a] * B + memory[a + 1])
              /\ Loaded("lhbr", Fetch(a, 2)) = memory[a + 1] * B + memory[a]
         /\ a + 4 <= M =>
              /\ Loaded("lwz", Fetch(a, 4)) = FromBytes(Fetch(a, 4))
              /\ Loaded("lwbr", Fetch(a, 4)) =
                   ((memory[a + 3] * B + memory[a + 2]) * B + memory[a + 1]) * B + memory[a]
<1>1. ASSUME NEW n \in {1, 2, 4}, a + n <= M
      PROVE  Fetch(a, n) \in [1..n -> Byte] /\ \A k \in 1..n : Fetch(a, n)[k] = memory[a + k - 1]
  BY <1>1, FetchAt, FetchedBytes
<1>2. ASSUME a + 1 <= M PROVE Loaded("lbz", Fetch(a, 1)) = memory[a]
  <2> DEFINE s == Fetch(a, 1)
  <2>1. s \in [1..1 -> Byte] /\ s[1] = memory[a]
    BY <1>1, <1>2
  <2> HIDE DEF s
  <2>2. ZeroExtend(s) = s[1]
    BY <2>1, ZeroExtended
  <2> QED BY <2>1, <2>2 DEF Loaded, s
<1>3. ASSUME a + 2 <= M
      PROVE  /\ Loaded("lhz", Fetch(a, 2)) = memory[a] * B + memory[a + 1]
             /\ Loaded("lha", Fetch(a, 2)) = SignedHalf(memory[a] * B + memory[a + 1])
             /\ Loaded("lhbr", Fetch(a, 2)) = memory[a + 1] * B + memory[a]
  <2> DEFINE s == Fetch(a, 2)
             t == Reversed(s)
  <2>1. s \in [1..2 -> Byte] /\ s[1] = memory[a] /\ s[2] = memory[a + 1]
    BY <1>1, <1>3
  <2>2. Loaded("lhz", s) = ZeroExtend(s) /\ Loaded("lha", s) = SignExtend(s)
        /\ Loaded("lhbr", s) = ZeroExtend(t)
    BY DEF Loaded
  <2> HIDE DEF s
  <2>3. t \in [1..2 -> Byte] /\ t[1] = s[2] /\ t[2] = s[1]
    <3>1. t \in [1..2 -> Byte] /\ \A k \in 1..2 : t[k] = s[2 + 1 - k]
      BY <2>1, Turned
    <3> HIDE DEF t
    <3> QED BY <3>1
  <2> HIDE DEF t
  <2>4. ZeroExtend(s) = s[1] * B + s[2] /\ ZeroExtend(t) = t[1] * B + t[2]
    BY <2>1, <2>3, ZeroExtended
  <2>5. SignExtend(s) = SignedHalf(s[1] * B + s[2])
    BY <2>1, SignExtended
  <2> QED BY <2>1, <2>2, <2>3, <2>4, <2>5 DEF s
<1>4. ASSUME a + 4 <= M
      PROVE  /\ Loaded("lwz", Fetch(a, 4)) = FromBytes(Fetch(a, 4))
             /\ Loaded("lwbr", Fetch(a, 4)) =
                  ((memory[a + 3] * B + memory[a + 2]) * B + memory[a + 1]) * B + memory[a]
  <2> DEFINE s == Fetch(a, 4)
             t == Reversed(s)
  <2>1. /\ s \in [1..4 -> Byte] /\ s[1] = memory[a] /\ s[2] = memory[a + 1]
        /\ s[3] = memory[a + 2] /\ s[4] = memory[a + 3]
    BY <1>1, <1>4
  <2>2. Loaded("lwz", s) = ZeroExtend(s) /\ Loaded("lwbr", s) = ZeroExtend(t)
    BY DEF Loaded
  <2> HIDE DEF s
  <2>3. t \in [1..4 -> Byte] /\ t[1] = s[4] /\ t[2] = s[3] /\ t[3] = s[2] /\ t[4] = s[1]
    <3>1. t \in [1..4 -> Byte] /\ \A k \in 1..4 : t[k] = s[4 + 1 - k]
      BY <2>1, Turned
    <3> HIDE DEF t
    <3> QED BY <3>1
  <2> HIDE DEF t
  <2>4. ZeroExtend(s) = FromBytes(s) /\ ZeroExtend(t) = FromBytes(t)
    BY <2>1, <2>3, ZeroExtended
  <2>5. FromBytes(t) = ((t[1] * B + t[2]) * B + t[3]) * B + t[4]
    BY DEF FromBytes
  <2> QED BY <2>1, <2>2, <2>3, <2>4, <2>5 DEF s
<1> QED BY <1>2, <1>3, <1>4

\* Bytes that lie in memory from an address on.
Has(mem, a, s, n) == \A k \in 1..n : mem[a + k - 1] = s[k]

LEMMA Put1 ==
  ASSUME NEW mem, Whole(mem), NEW a \in Nat, NEW n \in Nat, a + n <= M, NEW s \in [1..n -> Byte]
  PROVE  /\ Has(Put(mem, a, s), a, s, n)
         /\ \A x \in MemoryAddress : x < a \/ a + n <= x => Put(mem, a, s)[x] = mem[x]
<1>1. \A x \in MemoryAddress :
        Put(mem, a, s)[x] = IF a <= x /\ x < a + n THEN s[x - a + 1] ELSE mem[x]
  BY PutAt
<1>2. ASSUME NEW k \in 1..n PROVE Put(mem, a, s)[a + k - 1] = s[k]
  <2> DEFINE x == a + k - 1
  <2>1. x \in MemoryAddress /\ a <= x /\ x < a + n /\ x - a + 1 = k
    BY WordSize DEF MemoryAddress, Reg
  <2> HIDE DEF x
  <2> QED BY <1>1, <2>1 DEF x
<1>3. ASSUME NEW x \in MemoryAddress, x < a \/ a + n <= x PROVE Put(mem, a, s)[x] = mem[x]
  <2>1. ~(a <= x /\ x < a + n) /\ x \in Nat
    BY <1>3, WordSize DEF MemoryAddress, Reg
  <2> QED BY <1>1, <2>1
<1> QED BY <1>2, <1>3 DEF Has

\* What is stored.
LEMMA StoredBytes ==
  ASSUME NEW w \in Reg, NEW b \in [1..4 -> Byte], b = Bytes(w)
  PROVE  /\ Stored("stb", w) \in [1..1 -> Byte]
         /\ Stored("sth", w) \in [1..2 -> Byte] /\ Stored("sth", w)[1] = b[3] /\ Stored("sth", w)[2] = b[4]
         /\ Stored("sthbr", w) \in [1..2 -> Byte] /\ Stored("sthbr", w)[1] = b[4]
         /\ Stored("sthbr", w)[2] = b[3]
         /\ Stored("stw", w) = b /\ Stored("stwcxd", w) = b
         /\ Stored("stwbr", w) = Reversed(b)
<1>1. ASSUME NEW n \in {1, 2, 4}
      PROVE  Low(w, n) \in [1..n -> Byte] /\ \A k \in 1..n : Low(w, n)[k] = b[4 - n + k]
  BY Lowest
<1>2. Stored("stb", w) = Low(w, 1) /\ Stored("sth", w) = Low(w, 2) /\ Stored("stw", w) = Low(w, 4)
      /\ Stored("stwcxd", w) = Low(w, 4)
      /\ Stored("sthbr", w) = Reversed(Low(w, 2)) /\ Stored("stwbr", w) = Reversed(Low(w, 4))
  BY DEF Stored, AccessSize
<1> DEFINE h == Low(w, 2)
           v == Low(w, 4)
<1>3. h \in [1..2 -> Byte] /\ h[1] = b[3] /\ h[2] = b[4]
  BY <1>1
<1>4. v \in [1..4 -> Byte] /\ \A k \in 1..4 : v[k] = b[k]
  BY <1>1
<1> HIDE DEF h, v
<1>5. Reversed(h) \in [1..2 -> Byte] /\ Reversed(h)[1] = h[2] /\ Reversed(h)[2] = h[1]
  <2> DEFINE t == Reversed(h)
  <2>1. t \in [1..2 -> Byte] /\ \A k \in 1..2 : t[k] = h[2 + 1 - k]
    BY <1>3, Turned
  <2> HIDE DEF t
  <2>2. t \in [1..2 -> Byte] /\ t[1] = h[2] /\ t[2] = h[1]
    BY <2>1
  <2> QED BY <2>2 DEF t
<1>6. v = b
  BY <1>4
<1>7. Low(w, 1) \in [1..1 -> Byte]
  BY <1>1
<1> QED BY <1>2, <1>3, <1>5, <1>6, <1>7 DEF h, v

-----------------------------------------------------------------------------
(* The programs that use memory *)

\* Source and Destination, and how far they are from the ends of memory.
LEMMA Buffers ==
  /\ N \in Nat /\ N >= 8 /\ GPR = 0..(N - 1) /\ M \in Nat
  /\ Source \in Nat /\ Destination \in Nat /\ Source + 32 <= M /\ Destination + 32 <= M
  /\ Source + 4 * N <= M /\ Destination + 4 * N <= M
  /\ Source + 4 * N <= Destination \/ Destination + 4 * N <= Source
  /\ MemoryAddress = 0..(M - 1)
  /\ {0, 1, 2, 3, 4, 5, 6, 7} \subseteq GPR
<1>1. N \in Nat /\ N >= 8 /\ GPR = 0..(N - 1) /\ M \in Nat /\ MemoryAddress = 0..(M - 1)
  BY WordSize, GuestProgramsAssumption, LoadStoreAssumption DEF MemoryAddress, Reg
<1>2. Source \in Nat /\ Destination \in Nat
  BY WordSize, GuestProgramsAssumption DEF Reg
<1>3. {0, 1, 2, 3, 4, 5, 6, 7} \subseteq GPR
  BY Numbers
<1> QED BY <1>1, <1>2, <1>3, BufferAssumption

LEMMA MemProgFields ==
  ASSUME NEW name, NEW d \in Reg, NEW c
  PROVE  LET p == MemProg(name, d, Destination, c) IN
         /\ p.code = c /\ p.memory = Pattern /\ p.byteCount = 0
         /\ p.gpr[0] = 0 /\ p.gpr[1] = Source /\ p.gpr[2] = Destination
<1> DEFINE args == [r \in GPR |-> CASE r = 0 -> 0 [] r = 1 -> Source [] r = 2 -> Destination
                                    [] OTHER -> (d + r - 3) % M]
           p == MemProg(name, d, Destination, c)
<1>1. p.code = c /\ p.memory = Pattern /\ p.byteCount = 0 /\ p.gpr = Filled(args)
  BY DEF MemProg, Prog, Filled
<1>2. args[0] = 0 /\ args[1] = Source /\ args[2] = Destination /\ DOMAIN args = GPR
  BY Buffers
<1> HIDE DEF args, p
<1>3. Filled(args)[0] = 0 /\ Filled(args)[1] = Source /\ Filled(args)[2] = Destination
  BY <1>2, Buffers DEF Filled
<1> QED BY <1>1, <1>3 DEF p

Buffered(p) ==
  /\ p.gpr \in [GPR -> Reg] /\ p.gpr[0] = 0 /\ p.gpr[1] = Source /\ p.gpr[2] = Destination
  /\ p.memory = Pattern

LEMMA MovingForm ==
  ASSUME NEW p \in Program
  PROVE  /\ p.name \in DOMAIN MovingCode => Buffered(p) /\ p.code = MovingCode[p.name]
         /\ p.name = "move" =>
              /\ Buffered(p) /\ p.byteCount \in 0..16
              /\ p.code = MoveCode(p.byteCount) \/ p.code = MoveIndexedCode
<1>1. p.gpr \in [GPR -> Reg]
  BY ProgramsStart DEF Started
<1>2. p.name \in DOMAIN MovingCode \cup {"move", "edge"} => p \in MemoryPrograms
  BY KindOf
<1>3. \A n, d : d \in Data =>
         LET q == MovingProgram(n, d) IN
         /\ q.code = MovingCode[n] /\ q.memory = Pattern
         /\ q.gpr[0] = 0 /\ q.gpr[1] = Source /\ q.gpr[2] = Destination
  BY MemProgFields, GuestProgramsAssumption DEF MovingProgram
<1>4. \A n, c :
         LET q == StringProgram(n, c) IN
         /\ q.code = c /\ q.memory = Pattern /\ q.byteCount = n
         /\ q.gpr[0] = 0 /\ q.gpr[1] = Source /\ q.gpr[2] = Destination
  <2> TAKE n, c
  <2> DEFINE r == MemProg("move", 0, Destination, c)
             q == StringProgram(n, c)
  <2>1. /\ r.code = c /\ r.memory = Pattern
        /\ r.gpr[0] = 0 /\ r.gpr[1] = Source /\ r.gpr[2] = Destination
    BY MemProgFields, WordSize
  <2>2. q.code = r.code /\ q.memory = r.memory /\ q.gpr = r.gpr /\ q.byteCount = n
    BY DEF StringProgram, MemProg, Prog
  <2> HIDE DEF q, r
  <2>3. /\ q.code = c /\ q.memory = Pattern /\ q.byteCount = n
        /\ q.gpr[0] = 0 /\ q.gpr[1] = Source /\ q.gpr[2] = Destination
    BY <2>1, <2>2
  <2> QED BY <2>3 DEF q
<1>5. \A d, a, c : EdgeProgram(d, a, c).name = "edge"
  BY ProgramNames
<1>6. /\ \A n, d : MovingProgram(n, d).name = n
      /\ \A n, c : StringProgram(n, c).name = "move"
  BY ProgramNames
<1>7. "move" \notin DOMAIN MovingCode /\ "edge" \notin DOMAIN MovingCode
  BY DEF MovingCode
<1>8. ASSUME p.name \in DOMAIN MovingCode PROVE Buffered(p) /\ p.code = MovingCode[p.name]
  <2>1. \E n \in DOMAIN MovingCode, d \in Data : p = MovingProgram(n, d)
    BY <1>2, <1>5, <1>6, <1>7, <1>8, ProgramForms
  <2>2. PICK n, d : d \in Data /\ p = MovingProgram(n, d)
    BY <2>1
  <2>3. p.name = n
    BY <1>6, <2>2
  <2>4. /\ p.code = MovingCode[n] /\ p.memory = Pattern
        /\ p.gpr[0] = 0 /\ p.gpr[1] = Source /\ p.gpr[2] = Destination
    BY <1>3, <2>2
  <2> QED BY <1>1, <2>3, <2>4 DEF Buffered
<1>9. ASSUME p.name = "move"
      PROVE  /\ Buffered(p) /\ p.byteCount \in 0..16
             /\ p.code = MoveCode(p.byteCount) \/ p.code = MoveIndexedCode
  <2>1. \/ \E n \in 1..16 : p = StringProgram(n, MoveCode(n))
        \/ \E n \in 0..16 : p = StringProgram(n, MoveIndexedCode)
    BY <1>2, <1>5, <1>6, <1>7, <1>9, ProgramForms
  <2>2. PICK n \in 0..16 : p = StringProgram(n, MoveCode(n)) \/ p = StringProgram(n, MoveIndexedCode)
    <3>1. \A n \in 1..16 : n \in 0..16
      OBVIOUS
    <3> QED BY <2>1, <3>1
  <2>3. /\ (p.code = MoveCode(n) \/ p.code = MoveIndexedCode) /\ p.memory = Pattern /\ p.byteCount = n
        /\ p.gpr[0] = 0 /\ p.gpr[1] = Source /\ p.gpr[2] = Destination
    BY <1>4, <2>2
  <2> QED BY <1>1, <2>2, <2>3 DEF Buffered
<1> QED BY <1>8, <1>9

-----------------------------------------------------------------------------
(* Steps of those programs *)

LEMMA LoadStep ==
  ASSUME gpr \in [GPR -> Reg], NEW i, i.op \in Loads, i.D \in GPR, i.A \in GPR, i.D # i.A, ExecuteLoad(i)
  PROVE  /\ memory' = memory /\ fpr' = fpr
         /\ gpr'[i.D] = Loaded(i.op, Fetch(EffectiveAddress(i), AccessSize[i.op]))
         /\ Updates(i) => gpr'[i.A] = EffectiveAddress(i)
         /\ ~Updates(i) => gpr'[i.A] = gpr[i.A]
         /\ \A r \in GPR : r # i.D /\ r # i.A => gpr'[r] = gpr[r]
<1> DEFINE v == Loaded(i.op, Fetch(EffectiveAddress(i), AccessSize[i.op]))
           a == EffectiveAddress(i)
<1>1. gpr' = WithUpdate([gpr EXCEPT ![i.D] = v], i) /\ memory' = memory /\ fpr' = fpr
  BY DEF ExecuteLoad
<1> HIDE DEF v
<1>2. CASE Updates(i)
  <2>1. gpr' = [[gpr EXCEPT ![i.D] = v] EXCEPT ![i.A] = a]
    BY <1>1, <1>2 DEF WithUpdate
  <2> HIDE DEF a
  <2>2. gpr'[i.D] = v /\ gpr'[i.A] = a /\ \A r \in GPR : r # i.D /\ r # i.A => gpr'[r] = gpr[r]
    BY <2>1
  <2> QED BY <1>1, <1>2, <2>2 DEF v, a
<1>3. CASE ~Updates(i)
  <2>1. gpr' = [gpr EXCEPT ![i.D] = v]
    BY <1>1, <1>3 DEF WithUpdate
  <2>2. gpr'[i.D] = v /\ \A r \in GPR : r # i.D => gpr'[r] = gpr[r]
    BY <2>1
  <2> QED BY <1>1, <1>3, <2>2 DEF v
<1> QED BY <1>2, <1>3

LEMMA StoreStep ==
  ASSUME NEW i, i.op \in Stores, ExecuteStore(i)
  PROVE  /\ memory' = Put(memory, EffectiveAddress(i), Stored(i.op, gpr[i.D])) /\ fpr' = fpr
         /\ ~Updates(i) => gpr' = gpr
BY DEF ExecuteStore, WithUpdate

-----------------------------------------------------------------------------
(* A word comes back by bytes *)

BytesProgress ==
  LET c == BytesCode  w == Bytes(Old(3))  stored == Has(memory, Destination, w, 4) IN
  \/ code = c /\ gpr[2] = Destination
  \/ code = << c[2], c[3], c[4], c[5] >> /\ stored /\ gpr[2] = Destination
  \/ /\ stored /\ gpr[2] = Destination + 1 /\ gpr[4] = w[2]
     /\ \/ code = << c[3], c[4], c[5] >>
        \/ /\ gpr[5] = w[2]
           /\ \/ code = << c[4], c[5] >>
              \/ /\ gpr[6] = w[3] * B + w[4]
                 /\ \/ code = << c[5] >>
                    \/ /\ code = <<>>
                       /\ gpr[7] = ((memory[Destination + 4] * B + w[4]) * B + w[3]) * B + w[2]

BytesInv ==
  initial.name = "bytes" /\ halt = "no" => gpr[0] = 0 /\ gpr[3] = Old(3) /\ BytesProgress

LEMMA BytesNext ==
  ASSUME StoreInv, BytesInv, initial \in Program, initial.name = "bytes", initial' = initial,
         code # <<>>, halt = "no", Execute(Head(code)), code' = Tail(code), halt' = "no"
  PROVE  BytesInv'
<1> DEFINE i1 == Mem("stw", "", 3, 2, 0)
           i2 == Mem("lbz", "u", 4, 2, 1)
           i3 == Mem("lbz", "", 5, 2, 0)
           i4 == Mem("lhz", "", 6, 2, 1)
           i5 == Mem("lwbr", "x", 7, 2, 0)
           w == Bytes(Old(3))
           D == Destination
           last(m) == ((m[D + 4] * B + w[4]) * B + w[3]) * B + w[2]
           stored(m) == m[D] = w[1] /\ m[D + 1] = w[2] /\ m[D + 2] = w[3] /\ m[D + 3] = w[4]
           Progress(c, g, m) ==
             \/ c = << i1, i2, i3, i4, i5 >> /\ g[2] = D
             \/ c = << i2, i3, i4, i5 >> /\ stored(m) /\ g[2] = D
             \/ /\ stored(m) /\ g[2] = D + 1 /\ g[4] = w[2]
                /\ \/ c = << i3, i4, i5 >>
                   \/ /\ g[5] = w[2]
                      /\ \/ c = << i4, i5 >>
                         \/ /\ g[6] = w[3] * B + w[4]
                            /\ \/ c = << i5 >>
                               \/ c = <<>> /\ g[7] = last(m)
<1>1. /\ i1.op = "stw" /\ Direct(i1) /\ ~Updates(i1) /\ i1.D = 3 /\ i1.A = 2 /\ i1.imm = 0
      /\ i2.op = "lbz" /\ Direct(i2) /\ Updates(i2) /\ i2.D = 4 /\ i2.A = 2 /\ i2.imm = 1
      /\ i3.op = "lbz" /\ Direct(i3) /\ ~Updates(i3) /\ i3.D = 5 /\ i3.A = 2 /\ i3.imm = 0
      /\ i4.op = "lhz" /\ Direct(i4) /\ ~Updates(i4) /\ i4.D = 6 /\ i4.A = 2 /\ i4.imm = 1
      /\ i5.op = "lwbr" /\ Indexed(i5) /\ ~Updates(i5) /\ i5.D = 7 /\ i5.A = 2
  <2>1. Direct(i1) /\ ~Updates(i1) /\ Direct(i2) /\ Updates(i2) /\ Direct(i3) /\ ~Updates(i3)
    BY MemModes
  <2>2. Direct(i4) /\ ~Updates(i4) /\ Indexed(i5) /\ ~Updates(i5)
    BY MemModes
  <2>3. /\ i1.op = "stw" /\ i1.D = 3 /\ i1.A = 2 /\ i1.imm = 0
        /\ i2.op = "lbz" /\ i2.D = 4 /\ i2.A = 2 /\ i2.imm = 1
        /\ i3.op = "lbz" /\ i3.D = 5 /\ i3.A = 2 /\ i3.imm = 0
    BY DEF Mem
  <2>4. /\ i4.op = "lhz" /\ i4.D = 6 /\ i4.A = 2 /\ i4.imm = 1
        /\ i5.op = "lwbr" /\ i5.D = 7 /\ i5.A = 2
    BY DEF Mem
  <2> QED BY <2>1, <2>2, <2>3, <2>4
<1>2. BytesCode = << i1, i2, i3, i4, i5 >>
  BY DEF BytesCode
<1>3. \A m : Has(m, D, w, 4) <=> stored(m)
  <2>1. D + 1 - 1 = D /\ D + 2 - 1 = D + 1 /\ D + 3 - 1 = D + 2 /\ D + 4 - 1 = D + 3
    BY Buffers
  <2> HIDE DEF D, w
  <2>2. \A k : k \in 1..4 <=> (k = 1 \/ k = 2 \/ k = 3 \/ k = 4)
    OBVIOUS
  <2> QED BY <2>1, <2>2 DEF Has
<1> HIDE DEF stored, last, i1, i2, i3, i4, i5
<1>4. gpr[0] = 0 /\ gpr[3] = Old(3) /\ Progress(code, gpr, memory)
  BY <1>2, <1>3 DEF BytesInv, BytesProgress, last
<1>5. Old(3)' = Old(3)
  BY DEF Old
<1>6. ASSUME gpr'[0] = 0, gpr'[3] = Old(3), Progress(code', gpr', memory') PROVE BytesInv'
  <2>1. Bytes(Old(3))' = w
    BY <1>5 DEF Bytes
  <2> QED BY <1>2, <1>3, <1>5, <1>6, <2>1 DEF BytesInv, BytesProgress, last, Has
<1>7. /\ Loads \subseteq MemoryOps /\ Stores \subseteq MemoryOps
      /\ i1.op \in Stores /\ i2.op \in Loads /\ i3.op \in Loads /\ i4.op \in Loads /\ i5.op \in Loads
  BY <1>1 DEF Loads, Stores, MemoryOps, AccessSize, Unchecked
<1>8. Head(code) \in {i1, i2, i3, i4, i5}
  BY <1>4
<1>9. Whole(memory) /\ gpr \in [GPR -> Reg] /\ i1.op \in MemoryOps
  BY <1>7, <1>8, Accessing
<1>10. ASSUME NEW i \in {i2, i3, i4, i5}, Head(code) = i
       PROVE  /\ memory' = memory
              /\ gpr'[i.D] = Loaded(i.op, Fetch(EffectiveAddress(i), AccessSize[i.op]))
              /\ gpr'[i.A] = (IF i = i2 THEN EffectiveAddress(i) ELSE gpr[i.A])
              /\ \A r \in GPR : r # i.D /\ r # i.A => gpr'[r] = gpr[r]
  <2>1. i.op \in Loads /\ i.op \in MemoryOps /\ i.D \in GPR /\ i.A \in GPR /\ i.D # i.A
    <3>1. i.A = 2 /\ i.D \in {4, 5, 6, 7} /\ i.op \in Loads
      BY <1>1, <1>7, <1>10
    <3>2. {2, 4, 5, 6, 7} \subseteq GPR
      BY Buffers
    <3> QED BY <1>7, <3>1, <3>2
  <2>2. ExecuteLoad(i)
    BY <1>10, <2>1, AccessStep
  <2>3. Updates(i) <=> i = i2
    BY <1>1, <1>10
  <2> QED BY <1>9, <2>1, <2>2, <2>3, LoadStep
<1>11. Old(3) \in Reg /\ w \in [1..4 -> Byte] /\ gpr[3] \in Reg
  BY <1>4, <1>9, Buffers, BytesOfWord
<1>12. D \in Nat /\ D + 5 < M /\ D + 1 \in Nat /\ M \in Nat
  BY Buffers
<1>13. /\ \A x \in {D, D + 1} : Loaded("lbz", Fetch(x, 1)) = memory[x]
       /\ Loaded("lhz", Fetch(D + 1 + 1, 2)) = memory[D + 2] * B + memory[D + 3]
       /\ Loaded("lwbr", Fetch(D + 1, 4)) =
            ((memory[D + 4] * B + memory[D + 3]) * B + memory[D + 2]) * B + memory[D + 1]
  <2> HIDE DEF D
  <2>1. /\ D + 1 + 1 = D + 2 /\ D + 2 + 1 = D + 3 /\ D + 1 + 3 = D + 4 /\ D + 1 + 2 = D + 3
        /\ D + 2 \in Nat /\ D + 2 + 2 <= M /\ D + 1 + 4 <= M /\ D + 1 + 1 <= M /\ D + 1 <= M
    BY <1>12
  <2>2. Loaded("lbz", Fetch(D, 1)) = memory[D]
    BY <1>9, <1>12, <2>1, LoadedValues
  <2>3. Loaded("lbz", Fetch(D + 1, 1)) = memory[D + 1]
    BY <1>9, <1>12, <2>1, LoadedValues
  <2>4. Loaded("lhz", Fetch(D + 2, 2)) = memory[D + 2] * B + memory[D + 2 + 1]
    BY <1>9, <1>12, <2>1, LoadedValues
  <2>5. Loaded("lwbr", Fetch(D + 1, 4)) =
          ((memory[D + 1 + 3] * B + memory[D + 1 + 2]) * B + memory[D + 1 + 1]) * B + memory[D + 1]
    BY <1>9, <1>12, <2>1, LoadedValues
  <2> QED BY <2>1, <2>2, <2>3, <2>4, <2>5
<1>14. AccessSize["lbz"] = 1 /\ AccessSize["lhz"] = 2 /\ AccessSize["lwbr"] = 4
  BY DEF AccessSize
<1> HIDE DEF w
<1>15. CASE code = << i1, i2, i3, i4, i5 >> /\ gpr[2] = D
  <2>1. Head(code) = i1 /\ Tail(code) = << i2, i3, i4, i5 >>
    BY <1>15
  <2>2. ExecuteStore(i1)
    BY <1>7, <2>1, AccessStep
  <2>3. EffectiveAddress(i1) = D
    <3>1. gpr[i1.A] = D /\ i1.imm = 0 /\ i1.A # 0 /\ Direct(i1)
      BY <1>1, <1>15
    <3>2. gpr[i1.A] \in Nat /\ i1.imm \in Nat /\ gpr[i1.A] + i1.imm < M
      BY <1>12, <3>1
    <3>3. EffectiveAddress(i1) = gpr[i1.A] + i1.imm
      BY <3>1, <3>2, AtImmediate
    <3> QED BY <1>12, <3>1, <3>3
  <2>4. gpr' = gpr /\ memory' = Put(memory, D, Stored("stw", gpr[3]))
    BY <1>1, <1>7, <2>2, <2>3, StoreStep
  <2>5. Stored("stw", gpr[3]) = w
    BY <1>4, <1>11, StoredBytes DEF w
  <2>6. Has(memory', D, w, 4)
    <3> HIDE DEF D
    <3>1. 4 \in Nat /\ D + 4 <= M
      BY <1>12
    <3> QED BY <1>9, <1>11, <1>12, <2>4, <2>5, <3>1, Put1
  <2> QED BY <1>3, <1>4, <1>6, <1>15, <2>1, <2>4, <2>6
<1>16. CASE code = << i2, i3, i4, i5 >> /\ stored(memory) /\ gpr[2] = D
  <2>1. Head(code) = i2 /\ Tail(code) = << i3, i4, i5 >>
    BY <1>16
  <2>2. EffectiveAddress(i2) = D + 1
    <3>1. gpr[i2.A] = D /\ i2.imm = 1 /\ i2.A # 0 /\ Direct(i2)
      BY <1>1, <1>16
    <3>2. gpr[i2.A] \in Nat /\ i2.imm \in Nat /\ gpr[i2.A] + i2.imm < M
      BY <1>12, <3>1
    <3>3. EffectiveAddress(i2) = gpr[i2.A] + i2.imm
      BY <3>1, <3>2, AtImmediate
    <3> QED BY <1>12, <3>1, <3>3
  <2>3. memory' = memory /\ gpr'[2] = D + 1 /\ gpr'[4] = memory[D + 1]
        /\ gpr'[0] = gpr[0] /\ gpr'[3] = gpr[3]
    <3>1. i2 \in {i2, i3, i4, i5} /\ Head(code) = i2 /\ {0, 3} \subseteq GPR
      BY <2>1, Buffers
    <3>2. /\ memory' = memory
          /\ gpr'[4] = Loaded("lbz", Fetch(D + 1, 1))
          /\ gpr'[2] = D + 1
          /\ \A r \in GPR : r # 4 /\ r # 2 => gpr'[r] = gpr[r]
      BY <1>1, <1>10, <1>14, <2>2, <3>1
    <3>3. Loaded("lbz", Fetch(D + 1, 1)) = memory[D + 1]
      BY <1>13
    <3> QED BY <3>1, <3>2, <3>3
  <2>4. gpr'[4] = w[2] /\ stored(memory')
    BY <1>16, <2>3 DEF stored
  <2> QED BY <1>4, <1>6, <2>1, <2>3, <2>4
<1>17. CASE code = << i3, i4, i5 >> /\ stored(memory) /\ gpr[2] = D + 1 /\ gpr[4] = w[2]
  <2>1. Head(code) = i3 /\ Tail(code) = << i4, i5 >>
    BY <1>17
  <2>2. EffectiveAddress(i3) = D + 1
    <3>1. gpr[i3.A] = D + 1 /\ i3.imm = 0 /\ i3.A # 0 /\ Direct(i3)
      BY <1>1, <1>17
    <3>2. gpr[i3.A] \in Nat /\ i3.imm \in Nat /\ gpr[i3.A] + i3.imm < M
      BY <1>12, <3>1
    <3>3. EffectiveAddress(i3) = gpr[i3.A] + i3.imm
      BY <3>1, <3>2, AtImmediate
    <3> QED BY <1>12, <3>1, <3>3
  <2>3. i3 # i2
    BY <1>1
  <2>4. memory' = memory /\ gpr'[2] = D + 1 /\ gpr'[5] = memory[D + 1]
        /\ gpr'[0] = gpr[0] /\ gpr'[3] = gpr[3] /\ gpr'[4] = gpr[4]
    <3>1. i3.op = "lbz" /\ i3.D = 5 /\ i3.A = 2
      BY <1>1
    <3>2. /\ memory' = memory /\ gpr'[5] = Loaded("lbz", Fetch(D + 1, 1)) /\ gpr'[2] = gpr[2]
          /\ \A x \in GPR : x # 5 /\ x # 2 => gpr'[x] = gpr[x]
      BY <1>10, <1>14, <2>1, <2>2, <2>3, <3>1
    <3>3. gpr'[0] = gpr[0] /\ gpr'[3] = gpr[3] /\ gpr'[4] = gpr[4]
      BY <3>2, Buffers
    <3> QED BY <1>13, <1>17, <3>2, <3>3
  <2>5. gpr'[5] = w[2] /\ stored(memory')
    BY <1>17, <2>4 DEF stored
  <2> QED BY <1>4, <1>6, <1>17, <2>1, <2>4, <2>5
<1>18. CASE /\ code = << i4, i5 >> /\ stored(memory) /\ gpr[2] = D + 1 /\ gpr[4] = w[2] /\ gpr[5] = w[2]
  <2>1. Head(code) = i4 /\ Tail(code) = << i5 >>
    BY <1>18
  <2>2. EffectiveAddress(i4) = D + 1 + 1
    <3>1. gpr[i4.A] = D + 1 /\ i4.imm = 1 /\ i4.A # 0 /\ Direct(i4)
      BY <1>1, <1>18
    <3>2. gpr[i4.A] \in Nat /\ i4.imm \in Nat /\ gpr[i4.A] + i4.imm < M
      BY <1>12, <3>1
    <3>3. EffectiveAddress(i4) = gpr[i4.A] + i4.imm
      BY <3>1, <3>2, AtImmediate
    <3> QED BY <1>12, <3>1, <3>3
  <2>3. i4 # i2
    BY <1>1
  <2>4. memory' = memory /\ gpr'[2] = D + 1 /\ gpr'[6] = memory[D + 2] * B + memory[D + 3]
        /\ gpr'[0] = gpr[0] /\ gpr'[3] = gpr[3] /\ gpr'[4] = gpr[4] /\ gpr'[5] = gpr[5]
    <3>1. i4.op = "lhz" /\ i4.D = 6 /\ i4.A = 2
      BY <1>1
    <3>2. /\ memory' = memory /\ gpr'[6] = Loaded("lhz", Fetch(D + 1 + 1, 2)) /\ gpr'[2] = gpr[2]
          /\ \A x \in GPR : x # 6 /\ x # 2 => gpr'[x] = gpr[x]
      BY <1>10, <1>14, <2>1, <2>2, <2>3, <3>1
    <3>3. gpr'[0] = gpr[0] /\ gpr'[3] = gpr[3] /\ gpr'[4] = gpr[4] /\ gpr'[5] = gpr[5]
      BY <3>2, Buffers
    <3> QED BY <1>13, <1>18, <3>2, <3>3
  <2>5. gpr'[6] = w[3] * B + w[4] /\ stored(memory')
    BY <1>18, <2>4 DEF stored
  <2> QED BY <1>4, <1>6, <1>18, <2>1, <2>4, <2>5
<1>19. CASE /\ code = << i5 >> /\ stored(memory) /\ gpr[2] = D + 1 /\ gpr[4] = w[2] /\ gpr[5] = w[2]
            /\ gpr[6] = w[3] * B + w[4]
  <2>1. Head(code) = i5 /\ Tail(code) = <<>>
    BY <1>19
  <2>2. EffectiveAddress(i5) = D + 1
    <3>1. gpr[i5.A] = D + 1 /\ i5.A # 0 /\ Indexed(i5) /\ ~Updates(i5) /\ gpr[0] = 0
      BY <1>1, <1>4, <1>19
    <3>2. gpr[i5.A] \in Nat /\ gpr[i5.A] < M
      BY <1>12, <3>1
    <3>3. EffectiveAddress(i5) = gpr[i5.A]
      BY <3>1, <3>2, AtRegister
    <3> QED BY <3>1, <3>3
  <2>3. i5 # i2
    BY <1>1
  <2>4. memory' = memory /\ gpr'[2] = D + 1
        /\ gpr'[7] = ((memory[D + 4] * B + memory[D + 3]) * B + memory[D + 2]) * B + memory[D + 1]
        /\ gpr'[0] = gpr[0] /\ gpr'[3] = gpr[3] /\ gpr'[4] = gpr[4] /\ gpr'[5] = gpr[5]
        /\ gpr'[6] = gpr[6]
    <3>1. i5.op = "lwbr" /\ i5.D = 7 /\ i5.A = 2
      BY <1>1
    <3>2. /\ memory' = memory /\ gpr'[7] = Loaded("lwbr", Fetch(D + 1, 4)) /\ gpr'[2] = gpr[2]
          /\ \A x \in GPR : x # 7 /\ x # 2 => gpr'[x] = gpr[x]
      BY <1>10, <1>14, <2>1, <2>2, <2>3, <3>1
    <3>3. gpr'[0] = gpr[0] /\ gpr'[3] = gpr[3] /\ gpr'[4] = gpr[4] /\ gpr'[5] = gpr[5] /\ gpr'[6] = gpr[6]
      BY <3>2, Buffers
    <3> QED BY <1>13, <1>19, <3>2, <3>3
  <2>5. gpr'[7] = last(memory') /\ stored(memory')
    BY <1>19, <2>4 DEF stored, last
  <2> QED BY <1>4, <1>6, <1>19, <2>1, <2>4, <2>5
<1> QED BY <1>4, <1>15, <1>16, <1>17, <1>18, <1>19

-----------------------------------------------------------------------------
(* A word comes back by halves *)

HalvesProgress ==
  LET c == HalvesCode
      w == Bytes(Old(3))
      reversed == memory[Destination] = w[4] /\ memory[Destination + 1] = w[3]
      straight == memory[Destination] = w[3] /\ memory[Destination + 1] = w[4]
  IN \/ code = c
     \/ code = << c[2], c[3], c[4], c[5], c[6], c[7] >> /\ reversed
     \/ /\ gpr[4] = SignedHalf(w[4] * B + w[3])
        /\ \/ code = << c[3], c[4], c[5], c[6], c[7] >> /\ reversed
           \/ /\ gpr[5] = w[3] * B + w[4]
              /\ \/ code = << c[4], c[5], c[6], c[7] >>
                 \/ code = << c[5], c[6], c[7] >> /\ straight
                 \/ /\ gpr[6] = SignedHalf(w[3] * B + w[4])
                    /\ \/ code = << c[6], c[7] >>
                       \/ code = << c[7] >> /\ Has(memory, Source, Reversed(w), 4)
                       \/ code = <<>> /\ Bytes(gpr[7]) = Reversed(w)

HalvesInv ==
  initial.name = "halves" /\ halt = "no" =>
    gpr[0] = 0 /\ gpr[1] = Source /\ gpr[2] = Destination /\ gpr[3] = Old(3) /\ HalvesProgress

LEMMA Fetched ==
  ASSUME NEW a \in Nat, NEW n \in Nat, a + n <= M, NEW s \in [1..n -> Byte], Has(memory, a, s, n)
  PROVE  Fetch(a, n) = s
<1>1. Fetch(a, n) = [k \in 1..n |-> memory[a + k - 1]]
  BY FetchAt
<1>2. \A k \in 1..n : memory[a + k - 1] = s[k]
  BY DEF Has
<1>3. Fetch(a, n) = [k \in 1..n |-> s[k]]
  BY <1>1, <1>2
<1> QED BY <1>3

LEMMA HalvesNext ==
  ASSUME StoreInv, HalvesInv, initial \in Program, initial.name = "halves", initial' = initial,
         code # <<>>, halt = "no", Execute(Head(code)), code' = Tail(code), halt' = "no"
  PROVE  HalvesInv'
<1> DEFINE i1 == Mem("sthbr", "x", 3, 2, 0)
           i2 == Mem("lha", "", 4, 2, 0)
           i3 == Mem("lhbr", "x", 5, 2, 0)
           i4 == Mem("sth", "", 3, 2, 0)
           i5 == Mem("lha", "", 6, 2, 0)
           i6 == Mem("stwbr", "x", 3, 1, 0)
           i7 == Mem("lwz", "", 7, 1, 0)
           w == Bytes(Old(3))
           v == Reversed(w)
           D == Destination
           S == Source
           four == SignedHalf(w[4] * B + w[3])
           five == w[3] * B + w[4]
           six == SignedHalf(w[3] * B + w[4])
           reversed(m) == m[D] = w[4] /\ m[D + 1] = w[3]
           straight(m) == m[D] = w[3] /\ m[D + 1] = w[4]
           Progress(c, g, m) ==
             \/ c = << i1, i2, i3, i4, i5, i6, i7 >>
             \/ c = << i2, i3, i4, i5, i6, i7 >> /\ reversed(m)
             \/ /\ g[4] = four
                /\ \/ c = << i3, i4, i5, i6, i7 >> /\ reversed(m)
                   \/ /\ g[5] = five
                      /\ \/ c = << i4, i5, i6, i7 >>
                         \/ c = << i5, i6, i7 >> /\ straight(m)
                         \/ /\ g[6] = six
                            /\ \/ c = << i6, i7 >>
                               \/ c = << i7 >> /\ Has(m, S, v, 4)
                               \/ c = <<>> /\ Bytes(g[7]) = v
           Frame(g) == g[0] = 0 /\ g[1] = S /\ g[2] = D /\ g[3] = Old(3)
<1>1. /\ i1.op = "sthbr" /\ i1.D = 3 /\ i1.A = 2
      /\ i2.op = "lha" /\ i2.D = 4 /\ i2.A = 2 /\ i2.imm = 0
      /\ i3.op = "lhbr" /\ i3.D = 5 /\ i3.A = 2
      /\ i4.op = "sth" /\ i4.D = 3 /\ i4.A = 2 /\ i4.imm = 0
      /\ i5.op = "lha" /\ i5.D = 6 /\ i5.A = 2 /\ i5.imm = 0
      /\ i6.op = "stwbr" /\ i6.D = 3 /\ i6.A = 1
      /\ i7.op = "lwz" /\ i7.D = 7 /\ i7.A = 1 /\ i7.imm = 0
  BY DEF Mem
<1>2. /\ Indexed(i1) /\ ~Updates(i1) /\ Direct(i2) /\ ~Updates(i2) /\ Indexed(i3) /\ ~Updates(i3)
      /\ Direct(i4) /\ ~Updates(i4) /\ Direct(i5) /\ ~Updates(i5) /\ Indexed(i6) /\ ~Updates(i6)
      /\ Direct(i7) /\ ~Updates(i7)
  BY MemModes
<1>3. HalvesCode = << i1, i2, i3, i4, i5, i6, i7 >>
  BY DEF HalvesCode
<1> HIDE DEF i1, i2, i3, i4, i5, i6, i7
<1>4. Frame(gpr) /\ Progress(code, gpr, memory)
  BY <1>3 DEF HalvesInv, HalvesProgress
<1>5. Old(3)' = Old(3)
  BY DEF Old
<1>6. ASSUME Frame(gpr'), Progress(code', gpr', memory') PROVE HalvesInv'
  <2>1. Bytes(Old(3))' = w
    BY <1>5 DEF Bytes
  <2>2. Reversed(Bytes(Old(3)))' = v
    BY <2>1 DEF Reversed
  <2>3. Bytes(gpr[7])' = Bytes(gpr'[7])
    BY DEF Bytes
  <2>4. Has(memory, Source, Reversed(Bytes(Old(3))), 4)' = Has(memory', S, v, 4)
    BY <2>2 DEF Has
  <2> HIDE DEF v, w
  <2> QED BY <1>3, <1>5, <1>6, <2>1, <2>2, <2>3, <2>4 DEF HalvesInv, HalvesProgress, SignedHalf
<1>7. /\ i2.op \in Loads /\ i3.op \in Loads /\ i5.op \in Loads /\ i7.op \in Loads
      /\ i1.op \in Stores /\ i4.op \in Stores /\ i6.op \in Stores
      /\ Loads \subseteq MemoryOps /\ Stores \subseteq MemoryOps
  BY <1>1 DEF Loads, Stores, MemoryOps, AccessSize, Unchecked
<1>8. Head(code) \in {i1, i2, i3, i4, i5, i6, i7}
  BY <1>4
<1>9. Whole(memory) /\ gpr \in [GPR -> Reg]
  BY <1>7, <1>8, Accessing
<1>10. ASSUME NEW i \in {i2, i3, i5, i7}, Head(code) = i
       PROVE  /\ memory' = memory
              /\ gpr'[i.D] = Loaded(i.op, Fetch(EffectiveAddress(i), AccessSize[i.op]))
              /\ \A r \in GPR : r # i.D => gpr'[r] = gpr[r]
  <2>1. i.op \in Loads /\ i.op \in MemoryOps /\ i.D \in GPR /\ i.A \in GPR /\ i.D # i.A /\ ~Updates(i)
    <3>1. i.A \in {1, 2} /\ i.D \in {4, 5, 6, 7} /\ i.op \in Loads /\ ~Updates(i)
      BY <1>1, <1>2, <1>7, <1>10
    <3>2. {1, 2, 4, 5, 6, 7} \subseteq GPR
      BY Buffers
    <3> QED BY <1>7, <3>1, <3>2
  <2>2. ExecuteLoad(i)
    BY <1>10, <2>1, AccessStep
  <2> QED BY <1>9, <2>1, <2>2, LoadStep
<1>11. ASSUME NEW i \in {i1, i4, i6}, Head(code) = i
       PROVE  gpr' = gpr /\ memory' = Put(memory, EffectiveAddress(i), Stored(i.op, gpr[3]))
  <2>1. i.op \in Stores /\ i.op \in MemoryOps /\ i.D = 3 /\ ~Updates(i)
    BY <1>1, <1>2, <1>7, <1>11
  <2>2. ExecuteStore(i)
    BY <1>11, <2>1, AccessStep
  <2> QED BY <2>1, <2>2, StoreStep
<1>12. D \in Nat /\ D + 5 < M /\ S \in Nat /\ S + 5 < M /\ M \in Nat
  BY Buffers
<1>13. w \in [1..4 -> Byte] /\ gpr[3] \in Reg /\ w = Bytes(gpr[3]) /\ v \in [1..4 -> Byte]
  <2>1. gpr[3] \in Reg /\ w = Bytes(gpr[3])
    BY <1>4, <1>9, Buffers
  <2>2. w \in [1..4 -> Byte]
    BY <2>1, BytesOfWord
  <2> HIDE DEF w
  <2> QED BY <2>1, <2>2, Turned
<1> HIDE DEF w, v, D, S
<1>14. /\ \A i \in {i1, i3} : EffectiveAddress(i) = D
       /\ EffectiveAddress(i6) = S
  <2>1. ASSUME NEW i \in {i1, i3, i6} PROVE EffectiveAddress(i) = gpr[i.A]
    <3>1. Indexed(i) /\ i.A # 0 /\ gpr[0] = 0 /\ gpr[i.A] \in Nat /\ gpr[i.A] < M
      BY <1>1, <1>2, <1>4, <1>12
    <3> QED BY <3>1, AtRegister
  <2> QED BY <1>1, <1>4, <2>1
<1>15. (\A i \in {i2, i4, i5} : EffectiveAddress(i) = D) /\ EffectiveAddress(i7) = S
  <2>1. ASSUME NEW i \in {i2, i4, i5, i7} PROVE EffectiveAddress(i) = gpr[i.A]
    <3>1. Direct(i) /\ i.A # 0 /\ i.imm = 0 /\ gpr[i.A] \in Nat /\ gpr[i.A] < M
      BY <1>1, <1>2, <1>4, <1>12
    <3>2. gpr[i.A] + i.imm = gpr[i.A] /\ i.imm \in Nat
      BY <3>1
    <3>3. EffectiveAddress(i) = gpr[i.A] + i.imm
      BY <3>1, <3>2, AtImmediate
    <3> QED BY <3>2, <3>3
  <2> QED BY <1>1, <1>4, <2>1
<1>16. /\ Loaded("lha", Fetch(D, 2)) = SignedHalf(memory[D] * B + memory[D + 1])
       /\ Loaded("lhbr", Fetch(D, 2)) = memory[D + 1] * B + memory[D]
       /\ Loaded("lwz", Fetch(S, 4)) = FromBytes(Fetch(S, 4))
  <2>1. D + 2 <= M /\ S + 4 <= M
    BY <1>12
  <2> QED BY <1>9, <1>12, <2>1, LoadedValues
<1>17. AccessSize["lha"] = 2 /\ AccessSize["lhbr"] = 2 /\ AccessSize["lwz"] = 4
  BY DEF AccessSize
<1>18. /\ Stored("sth", gpr[3]) \in [1..2 -> Byte]
       /\ Stored("sth", gpr[3])[1] = w[3] /\ Stored("sth", gpr[3])[2] = w[4]
       /\ Stored("sthbr", gpr[3]) \in [1..2 -> Byte]
       /\ Stored("sthbr", gpr[3])[1] = w[4] /\ Stored("sthbr", gpr[3])[2] = w[3]
       /\ Stored("stwbr", gpr[3]) = v
  BY <1>13, StoredBytes DEF v
<1>19. ASSUME NEW s \in [1..2 -> Byte], memory' = Put(memory, D, s)
       PROVE  memory'[D] = s[1] /\ memory'[D + 1] = s[2]
  <2>1. 2 \in Nat /\ D + 2 <= M /\ D + 1 - 1 = D /\ D + 2 - 1 = D + 1
    BY <1>12
  <2>2. Has(memory', D, s, 2)
    BY <1>9, <1>12, <1>19, <2>1, Put1
  <2> QED BY <2>1, <2>2 DEF Has
<1>20. /\ \A r \in {0, 1, 2, 3} : r \in GPR /\ r # 4 /\ r # 5 /\ r # 6 /\ r # 7
       /\ 4 \in GPR /\ 5 \in GPR /\ 6 \in GPR
  BY Buffers
<1>21. CASE code = << i1, i2, i3, i4, i5, i6, i7 >>
  <2>1. Head(code) = i1 /\ Tail(code) = << i2, i3, i4, i5, i6, i7 >>
    BY <1>21
  <2>2. gpr' = gpr /\ memory' = Put(memory, D, Stored("sthbr", gpr[3]))
    BY <1>1, <1>11, <1>14, <2>1
  <2>3. reversed(memory')
    BY <1>18, <1>19, <2>2
  <2> QED BY <1>4, <1>6, <2>1, <2>2, <2>3
<1>22. CASE code = << i2, i3, i4, i5, i6, i7 >> /\ reversed(memory)
  <2>1. Head(code) = i2 /\ Tail(code) = << i3, i4, i5, i6, i7 >>
    BY <1>22
  <2>2. memory' = memory /\ gpr'[4] = SignedHalf(memory[D] * B + memory[D + 1]) /\ Frame(gpr')
    BY <1>1, <1>4, <1>10, <1>15, <1>16, <1>17, <1>20, <2>1, SMTT(30)
  <2>3. gpr'[4] = four
    BY <1>22, <2>2
  <2> QED BY <1>6, <1>22, <2>1, <2>2, <2>3
<1>23. CASE code = << i3, i4, i5, i6, i7 >> /\ reversed(memory) /\ gpr[4] = four
  <2>1. Head(code) = i3 /\ Tail(code) = << i4, i5, i6, i7 >>
    BY <1>23
  <2>2. /\ memory' = memory /\ gpr'[5] = memory[D + 1] * B + memory[D] /\ Frame(gpr')
        /\ gpr'[4] = gpr[4]
    BY <1>1, <1>4, <1>10, <1>14, <1>16, <1>17, <1>20, <2>1
  <2>3. gpr'[5] = five
    BY <1>23, <2>2
  <2> QED BY <1>6, <1>23, <2>1, <2>2, <2>3
<1>24. CASE code = << i4, i5, i6, i7 >> /\ gpr[4] = four /\ gpr[5] = five
  <2>1. Head(code) = i4 /\ Tail(code) = << i5, i6, i7 >>
    BY <1>24
  <2>2. gpr' = gpr /\ memory' = Put(memory, D, Stored("sth", gpr[3]))
    BY <1>1, <1>11, <1>15, <2>1
  <2>3. straight(memory')
    BY <1>18, <1>19, <2>2
  <2> QED BY <1>4, <1>6, <1>24, <2>1, <2>2, <2>3
<1>25. CASE code = << i5, i6, i7 >> /\ straight(memory) /\ gpr[4] = four /\ gpr[5] = five
  <2>1. Head(code) = i5 /\ Tail(code) = << i6, i7 >>
    BY <1>25
  <2>2. /\ memory' = memory /\ gpr'[6] = SignedHalf(memory[D] * B + memory[D + 1]) /\ Frame(gpr')
        /\ gpr'[4] = gpr[4] /\ gpr'[5] = gpr[5]
    BY <1>1, <1>4, <1>10, <1>15, <1>16, <1>17, <1>20, <2>1
  <2>3. gpr'[6] = six
    BY <1>25, <2>2
  <2> QED BY <1>6, <1>25, <2>1, <2>2, <2>3
<1>26. CASE code = << i6, i7 >> /\ gpr[4] = four /\ gpr[5] = five /\ gpr[6] = six
  <2>1. Head(code) = i6 /\ Tail(code) = << i7 >>
    BY <1>26
  <2>2. gpr' = gpr /\ memory' = Put(memory, S, v)
    BY <1>1, <1>11, <1>14, <1>18, <2>1
  <2>3. Has(memory', S, v, 4)
    <3>1. 4 \in Nat /\ S + 4 <= M
      BY <1>12
    <3> QED BY <1>9, <1>12, <1>13, <2>2, <3>1, Put1
  <2> QED BY <1>4, <1>6, <1>26, <2>1, <2>2, <2>3
<1>27. CASE /\ code = << i7 >> /\ Has(memory, S, v, 4)
            /\ gpr[4] = four /\ gpr[5] = five /\ gpr[6] = six
  <2>1. Head(code) = i7 /\ Tail(code) = <<>>
    BY <1>27
  <2>2. /\ gpr'[7] = FromBytes(Fetch(S, 4)) /\ Frame(gpr')
        /\ gpr'[4] = gpr[4] /\ gpr'[5] = gpr[5] /\ gpr'[6] = gpr[6]
    BY <1>1, <1>4, <1>10, <1>15, <1>16, <1>17, <1>20, <2>1
  <2>3. Fetch(S, 4) = v
    <3>1. 4 \in Nat /\ S + 4 <= M
      BY <1>12
    <3> QED BY <1>12, <1>13, <1>27, <3>1, Fetched
  <2>4. Bytes(gpr'[7]) = v
    BY <1>13, <2>2, <2>3, BytesOfFromBytes
  <2> QED BY <1>6, <1>27, <2>1, <2>2, <2>4
<1> QED BY <1>4, <1>21, <1>22, <1>23, <1>24, <1>25, <1>26, <1>27

-----------------------------------------------------------------------------
(* A word comes back through doubles *)

\* n bytes of the pattern, from p on, are at an address.
Copied(mem, a, p, n) == \A k \in 0..(n - 1) : mem[a + k] = Pattern[p + k]

FloatProgress ==
  LET c == FloatCode
      double == \A k \in 1..8 : fpr[0][k] = Pattern[Source + k - 1]
      first == \A k \in 1..4 : fpr[1][k] = Pattern[Source + k - 1]
  IN \/ code = c /\ memory = Pattern
     \/ code = << c[2], c[3], c[4], c[5], c[6] >> /\ memory = Pattern /\ double
     \/ /\ code = << c[3], c[4], c[5], c[6] >> /\ Copied(memory, Source, Source, 4)
        /\ Copied(memory, Destination, Source, 8) /\ double
     \/ code = << c[4], c[5], c[6] >> /\ Copied(memory, Destination, Source, 8) /\ double /\ first
     \/ /\ Copied(memory, Destination + 8, Source, 4)
        /\ \/ code = << c[5], c[6] >> /\ Copied(memory, Destination, Source, 8) /\ double
           \/ /\ Copied(memory, Destination, Source + 4, 4)
              /\ Copied(memory, Destination + 4, Source + 4, 4)
              /\ code = << c[6] >> \/ code = <<>>

FloatInv ==
  initial.name = "float" /\ halt = "no" =>
    /\ code # <<>> => gpr[0] = 0 /\ gpr[1] = Source /\ gpr[2] = Destination
    /\ FloatProgress

LEMMA LoadFloatStep ==
  ASSUME NEW i, i.op \in {"lfs", "lfd"}, i.D \in FPR, ExecuteLoadFloat(i), ~Updates(i), FloatsOK
  PROVE  /\ memory' = memory /\ gpr' = gpr
         /\ i.op = "lfd" => fpr'[i.D] = Fetch(EffectiveAddress(i), 8)
         /\ i.op = "lfs" => fpr'[i.D] = Fetch(EffectiveAddress(i), 4) \o Zero4
         /\ \A f \in FPR : f # i.D => fpr'[f] = fpr[f]
BY DEF ExecuteLoadFloat, WithUpdate, FloatsOK

LEMMA StoreFloatStep ==
  ASSUME NEW i, i.op \in {"stfs", "stfd", "stfiw"}, ExecuteStoreFloat(i), ~Updates(i),
         Direct(i) \/ i.op # "stfd"
  PROVE  /\ gpr' = gpr /\ fpr' = fpr
         /\ i.op = "stfd" => memory' = Put(memory, EffectiveAddress(i), fpr[i.D])
         /\ i.op = "stfs" => memory' = Put(memory, EffectiveAddress(i), SubSeq(fpr[i.D], 1, 4))
         /\ i.op = "stfiw" => memory' = Put(memory, EffectiveAddress(i), SubSeq(fpr[i.D], 5, 8))
<1>1. /\ memory' = Put(memory, EffectiveAddress(i), StoredFloat(i)) /\ gpr' = gpr /\ fpr' = fpr
  BY DEF ExecuteStoreFloat, WithUpdate
<1>2. i.op = "stfd" => StoredFloat(i) = fpr[i.D]
  <2>1. Direct(i) => i.mode # "x"
    BY DEF Direct
  <2> QED BY <2>1 DEF StoredFloat
<1>3. i.op = "stfs" => StoredFloat(i) = SubSeq(fpr[i.D], 1, 4)
  BY DEF StoredFloat
<1>4. i.op = "stfiw" => StoredFloat(i) = SubSeq(fpr[i.D], 5, 8)
  BY DEF StoredFloat
<1> QED BY <1>1, <1>2, <1>3, <1>4

\* Bytes of the pattern that are written to an address are there, and what is elsewhere stays.
LEMMA CopiedThere ==
  ASSUME NEW mem, Whole(mem), NEW a \in Nat, NEW p \in Nat, NEW n \in Nat, a + n <= M,
         NEW s \in [1..n -> Byte], \A k \in 1..n : s[k] = Pattern[p + k - 1]
  PROVE  Copied(Put(mem, a, s), a, p, n)
<1>1. \A k \in 1..n : Put(mem, a, s)[a + k - 1] = s[k]
  BY Put1 DEF Has
<1>2. ASSUME NEW k \in 0..(n - 1) PROVE Put(mem, a, s)[a + k] = Pattern[p + k]
  <2>1. k + 1 \in 1..n /\ a + (k + 1) - 1 = a + k /\ p + (k + 1) - 1 = p + k
    OBVIOUS
  <2>2. Put(mem, a, s)[a + (k + 1) - 1] = s[k + 1] /\ s[k + 1] = Pattern[p + (k + 1) - 1]
    BY <1>1, <2>1
  <2> QED BY <2>1, <2>2
<1> QED BY <1>2 DEF Copied

LEMMA CopiedElsewhere ==
  ASSUME NEW mem, Whole(mem), NEW a \in Nat, NEW n \in Nat, a + n <= M, NEW s \in [1..n -> Byte],
         NEW x \in Nat, NEW p \in Nat, NEW m \in Nat, x + m <= M, x + m <= a \/ a + n <= x,
         Copied(mem, x, p, m)
  PROVE  Copied(Put(mem, a, s), x, p, m)
<1>1. \A y \in MemoryAddress : y < a \/ a + n <= y => Put(mem, a, s)[y] = mem[y]
  BY Put1
<1>2. ASSUME NEW k \in 0..(m - 1) PROVE Put(mem, a, s)[x + k] = Pattern[p + k]
  <2>1. x + k \in MemoryAddress /\ (x + k < a \/ a + n <= x + k)
    BY Buffers
  <2>2. mem[x + k] = Pattern[p + k]
    BY DEF Copied
  <2> QED BY <1>1, <2>1, <2>2
<1> QED BY <1>2 DEF Copied

LEMMA FloatNext ==
  ASSUME StoreInv, FloatInv, initial \in Program, initial.name = "float", initial' = initial,
         code # <<>>, halt = "no", Execute(Head(code)), code' = Tail(code), halt' = "no"
  PROVE  FloatInv'
<1> DEFINE i1 == Mem("lfd", "", 0, 1, 0)
           i2 == Mem("stfd", "", 0, 2, 0)
           i3 == Mem("lfs", "", 1, 1, 0)
           i4 == Mem("stfs", "", 1, 2, 8)
           i5 == Mem("stfiw", "x", 0, 2, 0)
           i6 == Mem("stb", "u", 3, 1, 7)
           D == Destination
           S == Source
           double(f) == \A k \in 1..8 : f[0][k] = Pattern[S + k - 1]
           first(f) == \A k \in 1..4 : f[1][k] = Pattern[S + k - 1]
           Progress(c, m, f) ==
             \/ c = << i1, i2, i3, i4, i5, i6 >> /\ m = Pattern
             \/ c = << i2, i3, i4, i5, i6 >> /\ m = Pattern /\ double(f)
             \/ c = << i3, i4, i5, i6 >> /\ Copied(m, S, S, 4) /\ Copied(m, D, S, 8) /\ double(f)
             \/ c = << i4, i5, i6 >> /\ Copied(m, D, S, 8) /\ double(f) /\ first(f)
             \/ /\ Copied(m, D + 8, S, 4)
                /\ \/ c = << i5, i6 >> /\ Copied(m, D, S, 8) /\ double(f)
                   \/ /\ Copied(m, D, S + 4, 4) /\ Copied(m, D + 4, S + 4, 4)
                      /\ c = << i6 >> \/ c = <<>>
           Frame(g) == g[0] = 0 /\ g[1] = S /\ g[2] = D
<1>1. /\ i1.op = "lfd" /\ i1.D = 0 /\ i1.A = 1 /\ i1.imm = 0
      /\ i2.op = "stfd" /\ i2.D = 0 /\ i2.A = 2 /\ i2.imm = 0
      /\ i3.op = "lfs" /\ i3.D = 1 /\ i3.A = 1 /\ i3.imm = 0
      /\ i4.op = "stfs" /\ i4.D = 1 /\ i4.A = 2 /\ i4.imm = 8
      /\ i5.op = "stfiw" /\ i5.D = 0 /\ i5.A = 2
      /\ i6.op = "stb" /\ i6.D = 3 /\ i6.A = 1 /\ i6.imm = 7
  BY DEF Mem
<1>2. /\ Direct(i1) /\ ~Updates(i1) /\ Direct(i2) /\ ~Updates(i2) /\ Direct(i3) /\ ~Updates(i3)
      /\ Direct(i4) /\ ~Updates(i4) /\ Indexed(i5) /\ ~Updates(i5) /\ Direct(i6)
  BY MemModes
<1>3. FloatCode = << i1, i2, i3, i4, i5, i6 >>
  BY DEF FloatCode
<1> HIDE DEF i1, i2, i3, i4, i5, i6
<1>4. Frame(gpr) /\ Progress(code, memory, fpr)
  BY <1>3 DEF FloatInv, FloatProgress
<1>5. ASSUME Frame(gpr') \/ code' = <<>>, Progress(code', memory', fpr') PROVE FloatInv'
  BY <1>3, <1>5 DEF FloatInv, FloatProgress, Copied
<1>6. /\ i1.op \in {"lfs", "lfd"} /\ i3.op \in {"lfs", "lfd"} /\ i6.op \in Stores
      /\ i2.op \in {"stfs", "stfd", "stfiw"} /\ i4.op \in {"stfs", "stfd", "stfiw"}
      /\ i5.op \in {"stfs", "stfd", "stfiw"}
      /\ {"lfs", "lfd", "stfs", "stfd", "stfiw"} \subseteq MemoryOps /\ Stores \subseteq MemoryOps
  BY <1>1 DEF Stores, MemoryOps, AccessSize, Unchecked
<1>7. Head(code) \in {i1, i2, i3, i4, i5, i6}
  BY <1>4
<1>8. Whole(memory) /\ gpr \in [GPR -> Reg] /\ FloatsOK
  BY <1>6, <1>7, Accessing
<1>9. fpr[0] \in [1..8 -> Byte] /\ fpr[1] \in [1..8 -> Byte] /\ 0 \in FPR /\ 1 \in FPR
  BY <1>8 DEF FloatsOK, FPR
<1>10. D \in Nat /\ D + 32 <= M /\ S \in Nat /\ S + 32 <= M /\ M \in Nat
       /\ (S + 32 <= D \/ D + 32 <= S)
  BY Buffers
<1> HIDE DEF D, S
<1>11. ASSUME NEW i \in {i1, i3}, Head(code) = i
       PROVE  /\ memory' = memory /\ gpr' = gpr
              /\ i.op = "lfd" => fpr'[i.D] = Fetch(EffectiveAddress(i), 8)
              /\ i.op = "lfs" => fpr'[i.D] = Fetch(EffectiveAddress(i), 4) \o Zero4
              /\ \A f \in FPR : f # i.D => fpr'[f] = fpr[f]
  <2>1. i.op \in {"lfs", "lfd"} /\ i.op \in MemoryOps /\ i.D \in FPR /\ ~Updates(i)
    BY <1>1, <1>2, <1>6, <1>9, <1>11
  <2>2. ExecuteLoadFloat(i)
    BY <1>11, <2>1, AccessStep
  <2> QED BY <1>8, <2>1, <2>2, LoadFloatStep
<1>12. ASSUME NEW i \in {i2, i4, i5}, Head(code) = i
       PROVE  /\ gpr' = gpr /\ fpr' = fpr
              /\ i.op = "stfd" => memory' = Put(memory, EffectiveAddress(i), fpr[i.D])
              /\ i.op = "stfs" => memory' = Put(memory, EffectiveAddress(i), SubSeq(fpr[i.D], 1, 4))
              /\ i.op = "stfiw" => memory' = Put(memory, EffectiveAddress(i), SubSeq(fpr[i.D], 5, 8))
  <2>1. i.op \in {"stfs", "stfd", "stfiw"} /\ i.op \in MemoryOps /\ ~Updates(i)
        /\ (Direct(i) \/ i.op # "stfd")
    BY <1>1, <1>2, <1>6, <1>12
  <2>2. ExecuteStoreFloat(i)
    BY <1>12, <2>1, AccessStep
  <2> QED BY <2>1, <2>2, StoreFloatStep
<1>13. /\ EffectiveAddress(i1) = S /\ EffectiveAddress(i2) = D /\ EffectiveAddress(i3) = S
       /\ EffectiveAddress(i4) = D + 8 /\ EffectiveAddress(i6) = S + 7
  <2>1. ASSUME NEW i \in {i1, i2, i3, i4, i6} PROVE EffectiveAddress(i) = gpr[i.A] + i.imm
    <3>1. Direct(i) /\ i.A # 0 /\ i.imm \in {0, 7, 8} /\ gpr[i.A] \in {S, D}
      BY <1>1, <1>2, <1>4
    <3>2. gpr[i.A] \in Nat /\ i.imm \in Nat /\ gpr[i.A] + i.imm < M
      BY <1>10, <3>1
    <3> QED BY <3>1, <3>2, AtImmediate
  <2>2. gpr[1] = S /\ gpr[2] = D
    BY <1>4
  <2>3. /\ EffectiveAddress(i1) = gpr[i1.A] + i1.imm /\ EffectiveAddress(i2) = gpr[i2.A] + i2.imm
        /\ EffectiveAddress(i3) = gpr[i3.A] + i3.imm /\ EffectiveAddress(i4) = gpr[i4.A] + i4.imm
        /\ EffectiveAddress(i6) = gpr[i6.A] + i6.imm
    BY <2>1
  <2>4. S + 0 = S /\ D + 0 = D
    BY <1>10
  <2> QED BY <1>1, <2>2, <2>3, <2>4
<1>14. EffectiveAddress(i5) = D
  <2>1. Indexed(i5) /\ i5.A # 0 /\ gpr[0] = 0 /\ gpr[i5.A] = D
    BY <1>1, <1>2, <1>4
  <2>2. gpr[i5.A] \in Nat /\ gpr[i5.A] < M
    BY <1>10, <2>1
  <2>3. EffectiveAddress(i5) = gpr[i5.A]
    BY <2>1, <2>2, AtRegister
  <2> QED BY <2>1, <2>3
<1>15. CASE code = << i1, i2, i3, i4, i5, i6 >> /\ memory = Pattern
  <2>1. Head(code) = i1 /\ Tail(code) = << i2, i3, i4, i5, i6 >>
    BY <1>15
  <2>2. memory' = memory /\ gpr' = gpr /\ fpr'[0] = Fetch(S, 8)
    BY <1>1, <1>11, <1>13, <2>1
  <2>3. Fetch(S, 8) = [k \in 1..8 |-> memory[S + k - 1]]
    <3>1. 8 \in Nat /\ S + 8 <= M
      BY <1>10
    <3> QED BY <1>10, <3>1, FetchAt
  <2>4. double(fpr')
    BY <1>15, <2>2, <2>3
  <2> QED BY <1>4, <1>5, <1>15, <2>1, <2>2, <2>4
<1>16. CASE code = << i2, i3, i4, i5, i6 >> /\ memory = Pattern /\ double(fpr)
  <2>1. Head(code) = i2 /\ Tail(code) = << i3, i4, i5, i6 >>
    BY <1>16
  <2>2. gpr' = gpr /\ fpr' = fpr /\ memory' = Put(memory, D, fpr[0])
    BY <1>1, <1>12, <1>13, <2>1
  <2>3. 8 \in Nat /\ D + 8 <= M /\ 4 \in Nat /\ S + 4 <= M /\ (S + 4 <= D \/ D + 8 <= S)
    BY <1>10
  <2>4. Copied(memory', D, S, 8)
    BY <1>8, <1>9, <1>10, <1>16, <2>2, <2>3, CopiedThere
  <2>5. Copied(memory, S, S, 4)
    BY <1>16 DEF Copied
  <2>6. Copied(memory', S, S, 4)
    BY <1>8, <1>9, <1>10, <2>2, <2>3, <2>5, CopiedElsewhere
  <2> QED BY <1>4, <1>5, <1>16, <2>1, <2>2, <2>4, <2>6
<1>17. CASE /\ code = << i3, i4, i5, i6 >> /\ Copied(memory, S, S, 4) /\ Copied(memory, D, S, 8)
            /\ double(fpr)
  <2>1. Head(code) = i3 /\ Tail(code) = << i4, i5, i6 >>
    BY <1>17
  <2> DEFINE s == Fetch(S, 4)
             z == Zero4
  <2>2. memory' = memory /\ gpr' = gpr /\ fpr'[1] = s \o z /\ fpr'[0] = fpr[0]
    <3>1. /\ memory' = memory /\ gpr' = gpr
          /\ i3.op = "lfs" => fpr'[i3.D] = Fetch(EffectiveAddress(i3), 4) \o Zero4
          /\ \A f \in FPR : f # i3.D => fpr'[f] = fpr[f]
      BY <1>11, <2>1
    <3>2. i3.op = "lfs" /\ i3.D = 1 /\ EffectiveAddress(i3) = S
      BY <1>1, <1>13
    <3>3. fpr'[1] = Fetch(S, 4) \o Zero4
      BY <3>1, <3>2
    <3>4. 0 \in FPR /\ 0 # i3.D
      BY <1>9, <3>2
    <3>5. fpr'[0] = fpr[0]
      BY <3>1, <3>4
    <3> QED BY <3>1, <3>3, <3>5
  <2>3. s = [k \in 1..4 |-> memory[S + k - 1]] /\ s \in [1..4 -> Byte]
    <3>1. 4 \in Nat /\ S + 4 <= M /\ S \in Int
      BY <1>10
    <3> QED BY <1>8, <1>10, <3>1, FetchAt, FetchedBytes
  <2>4. z \in [1..4 -> Byte] /\ 4 \in Nat
    BY ByteSize DEF Zero4
  <2> HIDE DEF s, z
  <2>5. \A k \in 1..(4 + 4) : (s \o z)[k] = IF k <= 4 THEN s[k] ELSE z[k - 4]
    BY <2>3, <2>4, Joined
  <2>6. first(fpr')
    <3> SUFFICES ASSUME NEW k \in 1..4 PROVE fpr'[1][k] = Pattern[S + k - 1]
      OBVIOUS
    <3>1. k \in 1..(4 + 4) /\ k <= 4 /\ k - 1 \in 0..(4 - 1) /\ S + (k - 1) = S + k - 1
      BY <1>10
    <3>2. fpr'[1][k] = s[k]
      <4>1. (s \o z)[k] = s[k]
        BY <2>5, <3>1
      <4>2. fpr'[1][k] = (s \o z)[k]
        <5> DEFINE u == s \o z
        <5>1. fpr'[1] = u
          BY <2>2
        <5> HIDE DEF u
        <5>2. fpr'[1][k] = u[k]
          BY <5>1
        <5> QED BY <5>2 DEF u
      <4> QED BY <4>1, <4>2
    <3>3. s[k] = memory[S + k - 1]
      BY <2>3
    <3>4. memory[S + (k - 1)] = Pattern[S + (k - 1)]
      BY <1>17, <3>1 DEF Copied
    <3> QED BY <3>1, <3>2, <3>3, <3>4
  <2>7. double(fpr')
    BY <1>17, <2>2
  <2> QED BY <1>4, <1>5, <1>17, <2>1, <2>2, <2>6, <2>7
<1>18. CASE code = << i4, i5, i6 >> /\ Copied(memory, D, S, 8) /\ double(fpr) /\ first(fpr)
  <2>1. Head(code) = i4 /\ Tail(code) = << i5, i6 >>
    BY <1>18
  <2> DEFINE s == SubSeq(fpr[1], 1, 4)
             a == D + 8
  <2>2. gpr' = gpr /\ fpr' = fpr /\ memory' = Put(memory, a, s)
    BY <1>1, <1>12, <1>13, <2>1
  <2>3. s \in [1..4 -> Byte] /\ \A k \in 1..4 : s[k] = fpr[1][k]
    <3> DEFINE u == fpr[1]
               m == 1
               n == 4
    <3>1. m \in Nat /\ n \in Nat /\ m <= n + 1 /\ \A k \in m..n : u[k] \in Byte
      BY <1>9
    <3>2. n + 1 - m = 4 /\ \A k \in 1..4 : m + k - 1 = k
      OBVIOUS
    <3> HIDE DEF u, m, n
    <3>3. SubSeq(u, m, n) \in [1..(n + 1 - m) -> Byte]
      BY <3>1, Cut
    <3>4. \A k \in 1..(n + 1 - m) : SubSeq(u, m, n)[k] = u[m + k - 1]
      BY <3>1, Cut
    <3>5. s = SubSeq(u, m, n)
      BY DEF u, m, n
    <3>6. s \in [1..4 -> Byte] /\ \A k \in 1..4 : s[k] = u[k]
      BY <3>2, <3>3, <3>4, <3>5
    <3> QED BY <3>6 DEF u
  <2> HIDE DEF s
  <2>4. a \in Nat /\ a + 4 <= M /\ 4 \in Nat /\ 8 \in Nat /\ D + 8 <= M /\ D + 8 <= a
    BY <1>10
  <2> HIDE DEF a
  <2>5. \A k \in 1..4 : s[k] = Pattern[S + k - 1]
    BY <1>18, <2>3
  <2>6. Copied(memory', a, S, 4)
    BY <1>8, <1>10, <2>2, <2>3, <2>4, <2>5, CopiedThere
  <2>7. Copied(memory', D, S, 8)
    BY <1>8, <1>10, <1>18, <2>2, <2>3, <2>4, CopiedElsewhere
  <2> QED BY <1>4, <1>5, <1>18, <2>1, <2>2, <2>6, <2>7 DEF a
<1>19. CASE /\ Copied(memory, D + 8, S, 4)
            /\ code = << i5, i6 >> /\ Copied(memory, D, S, 8) /\ double(fpr)
  <2>1. Head(code) = i5 /\ Tail(code) = << i6 >>
    BY <1>19
  <2> DEFINE s == SubSeq(fpr[0], 5, 8)
             a == D + 8
             b == D + 4
             p == S + 4
  <2>2. gpr' = gpr /\ fpr' = fpr /\ memory' = Put(memory, D, s)
    BY <1>1, <1>12, <1>14, <2>1
  <2>3. s \in [1..4 -> Byte] /\ \A k \in 1..4 : s[k] = fpr[0][4 + k]
    <3> DEFINE u == fpr[0]
               m == 5
               n == 8
    <3>1. m \in Nat /\ n \in Nat /\ m <= n + 1 /\ \A k \in m..n : u[k] \in Byte
      BY <1>9
    <3>2. n + 1 - m = 4 /\ \A k \in 1..4 : m + k - 1 = 4 + k
      OBVIOUS
    <3> HIDE DEF u, m, n
    <3>3. SubSeq(u, m, n) \in [1..(n + 1 - m) -> Byte]
      BY <3>1, Cut
    <3>4. \A k \in 1..(n + 1 - m) : SubSeq(u, m, n)[k] = u[m + k - 1]
      BY <3>1, Cut
    <3>5. s = SubSeq(u, m, n)
      BY DEF u, m, n
    <3>6. s \in [1..4 -> Byte] /\ \A k \in 1..4 : s[k] = u[4 + k]
      BY <3>2, <3>3, <3>4, <3>5
    <3> QED BY <3>6 DEF u
  <2> HIDE DEF s
  <2>4. /\ a \in Nat /\ a + 4 <= M /\ 4 \in Nat /\ 8 \in Nat /\ D + 4 <= a /\ p \in Nat
        /\ b \in Nat /\ b + 4 <= M /\ D + 4 <= b /\ D + 4 <= M
    BY <1>10
  <2>5. \A k \in 1..4 : s[k] = Pattern[p + k - 1]
    <3> SUFFICES ASSUME NEW k \in 1..4 PROVE s[k] = Pattern[p + k - 1]
      OBVIOUS
    <3>1. 4 + k \in 1..8 /\ S + (4 + k) - 1 = p + k - 1
      BY <1>10
    <3> QED BY <1>19, <2>3, <3>1
  <2>6. Copied(memory, b, p, 4)
    <3> SUFFICES ASSUME NEW k \in 0..(4 - 1) PROVE memory[b + k] = Pattern[p + k]
      BY DEF Copied
    <3>1. k + 4 \in 0..(8 - 1) /\ D + (k + 4) = b + k /\ S + (k + 4) = p + k
      BY <1>10
    <3>2. memory[D + (k + 4)] = Pattern[S + (k + 4)]
      BY <1>19, <3>1 DEF Copied
    <3> QED BY <3>1, <3>2
  <2> HIDE DEF a, b, p
  <2>7. Copied(memory', D, p, 4)
    BY <1>8, <1>10, <2>2, <2>3, <2>4, <2>5, CopiedThere
  <2>8. Copied(memory', b, p, 4)
    BY <1>8, <1>10, <2>2, <2>3, <2>4, <2>6, CopiedElsewhere
  <2>9. Copied(memory, a, S, 4)
    BY <1>19 DEF a
  <2>10. Copied(memory', a, S, 4)
    BY <1>8, <1>10, <2>2, <2>3, <2>4, <2>9, CopiedElsewhere
  <2> QED BY <1>4, <1>5, <1>19, <2>1, <2>2, <2>7, <2>8, <2>10 DEF a, b, p
<1>20. CASE /\ Copied(memory, D + 8, S, 4) /\ Copied(memory, D, S + 4, 4)
            /\ Copied(memory, D + 4, S + 4, 4) /\ code = << i6 >>
  <2>1. Head(code) = i6 /\ Tail(code) = <<>>
    BY <1>20
  <2> DEFINE a == S + 7
             s == Stored("stb", gpr[3])
             d4 == D + 4
             d8 == D + 8
             p == S + 4
  <2>2. memory' = Put(memory, a, s)
    <3>1. ExecuteStore(i6)
      BY <1>6, <2>1, AccessStep
    <3> QED BY <1>1, <1>6, <1>13, <3>1, StoreStep
  <2>3. s \in [1..1 -> Byte]
    <3>1. gpr[3] \in Reg
      BY <1>8, Buffers
    <3>2. Bytes(gpr[3]) \in [1..4 -> Byte]
      BY <3>1, BytesOfWord
    <3> QED BY <3>1, <3>2, StoredBytes
  <2>4. /\ a \in Nat /\ a + 1 <= M /\ 1 \in Nat /\ 4 \in Nat /\ p \in Nat
        /\ d4 \in Nat /\ d4 + 4 <= M /\ (d4 + 4 <= a \/ a + 1 <= d4)
        /\ d8 \in Nat /\ d8 + 4 <= M /\ (d8 + 4 <= a \/ a + 1 <= d8)
        /\ D + 4 <= M /\ (D + 4 <= a \/ a + 1 <= D)
    BY <1>10
  <2>5. Copied(memory, d8, S, 4) /\ Copied(memory, D, p, 4) /\ Copied(memory, d4, p, 4)
    BY <1>20
  <2> HIDE DEF a, s, d4, d8, p
  <2>6. Copied(memory', d8, S, 4)
    BY <1>8, <1>10, <2>2, <2>3, <2>4, <2>5, CopiedElsewhere
  <2>7. Copied(memory', D, p, 4)
    BY <1>8, <1>10, <2>2, <2>3, <2>4, <2>5, CopiedElsewhere
  <2>8. Copied(memory', d4, p, 4)
    BY <1>8, <1>10, <2>2, <2>3, <2>4, <2>5, CopiedElsewhere
  <2> QED BY <1>5, <2>1, <2>6, <2>7, <2>8 DEF d4, d8, p
<1> QED BY <1>4, <1>15, <1>16, <1>17, <1>18, <1>19, <1>20

-----------------------------------------------------------------------------
(* Registers are saved and restored *)

\* A register's bytes are in the place stmw has for it.
Saves(mem, r) == \A j \in 1..4 : mem[Destination + 4 * (r - 4) + j - 1] = Bytes(Old(r))[j]

SaveProgress ==
  LET c == SaveCode IN
  \/ code = c /\ gpr = initial.gpr
  \/ /\ \A r \in GPR : r \notin {5, 7} => gpr[r] = Old(r)
     /\ \A r \in GPR : r >= 4 => Saves(memory, r)
     /\ \/ code = << c[2], c[3], c[4], c[5] >>
        \/ code = << c[3], c[4], c[5] >>
        \/ code = << c[4], c[5] >>
        \/ code = << c[5] >>
  \/ code = <<>> /\ gpr = initial.gpr

SaveInv == initial.name = "save" /\ halt = "no" => SaveProgress

\* The k-th byte of a row of words belongs to this word, at this place in it.
LEMMA PlaceInRow ==
  ASSUME NEW q \in Nat, NEW j \in 1..4
  PROVE  (4 * q + j - 1) \div 4 = q /\ ((4 * q + j - 1) % 4) + 1 = j
OBVIOUS

LEMMA RowOf ==
  ASSUME NEW n \in Nat, NEW k \in 1..(4 * n)
  PROVE  (k - 1) \div 4 \in 0..(n - 1) /\ ((k - 1) % 4) + 1 \in 1..4
OBVIOUS

\* What stmw stores: all registers from the fourth on.
Row == [k \in 1..(4 * (N - 4)) |-> Bytes(gpr[4 + (k - 1) \div 4])[((k - 1) % 4) + 1]]

LEMMA RowBytes ==
  ASSUME gpr \in [GPR -> Reg]
  PROVE  /\ Row \in [1..(4 * (N - 4)) -> Byte]
         /\ \A r \in GPR : r >= 4 => \A j \in 1..4 :
              /\ 4 * (r - 4) + j \in 1..(4 * (N - 4))
              /\ Row[4 * (r - 4) + j] = Bytes(gpr[r])[j]
<1>1. N \in Nat /\ N >= 8 /\ GPR = 0..(N - 1)
  BY Buffers
<1>2. ASSUME NEW r \in GPR PROVE Bytes(gpr[r]) \in [1..4 -> Byte]
  BY BytesOfWord
<1>3. ASSUME NEW k \in 1..(4 * (N - 4))
      PROVE  Bytes(gpr[4 + (k - 1) \div 4])[((k - 1) % 4) + 1] \in Byte
  <2> DEFINE n == N - 4
             r == 4 + (k - 1) \div 4
             j == ((k - 1) % 4) + 1
  <2>1. n \in Nat /\ k \in 1..(4 * n)
    BY <1>1
  <2>2. (k - 1) \div 4 \in 0..(n - 1) /\ j \in 1..4
    <3> HIDE DEF n
    <3> QED BY <2>1, RowOf
  <2>3. r \in GPR
    BY <1>1, <2>2
  <2> HIDE DEF r, j, n
  <2>4. Bytes(gpr[r])[j] \in Byte
    BY <1>2, <2>2, <2>3
  <2> QED BY <2>4 DEF r, j
<1>4. ASSUME NEW r \in GPR, r >= 4, NEW j \in 1..4
      PROVE  /\ 4 * (r - 4) + j \in 1..(4 * (N - 4))
             /\ Row[4 * (r - 4) + j] = Bytes(gpr[r])[j]
  <2> DEFINE q == r - 4
             k == 4 * q + j
             e(x) == Bytes(gpr[4 + (x - 1) \div 4])[((x - 1) % 4) + 1]
  <2>1. q \in Nat /\ r = 4 + q /\ q + 1 <= N - 4
    BY <1>1, <1>4
  <2>2. k \in 1..(4 * (N - 4))
    BY <1>1, <2>1
  <2>3. (k - 1) \div 4 = q /\ ((k - 1) % 4) + 1 = j
    <3> HIDE DEF q
    <3> QED BY <2>1, PlaceInRow
  <2> HIDE DEF k, q
  <2>4. Row[k] = e(k)
    BY <2>2 DEF Row
  <2>5. e(k) = Bytes(gpr[4 + q])[j]
    BY <2>3
  <2> QED BY <2>1, <2>2, <2>4, <2>5 DEF k, q
<1> QED BY <1>3, <1>4 DEF Row

LEMMA SaveNext ==
  ASSUME StoreInv, SaveInv, initial \in Program, initial.name = "save", initial' = initial,
         code # <<>>, halt = "no", Execute(Head(code)), code' = Tail(code), halt' = "no"
  PROVE  SaveInv'
<1> DEFINE i1 == Mem("stmw", "", 4, 2, 0)
           i2 == Mem("lwar", "x", 5, 1, 0)
           i3 == Mem("stwcxd", "x", 4, 1, 0)
           i4 == Mem("lwz", "", 7, 1, 0)
           i5 == Mem("lmw", "", 4, 2, 0)
           D == Destination
           S == Source
           old == initial.gpr
           same(g) == \A r \in GPR : r \notin {5, 7} => g[r] = old[r]
           saved(m) == \A r \in GPR : r >= 4 => Saves(m, r)
           Progress(c, g, m) ==
             \/ c = << i1, i2, i3, i4, i5 >> /\ g = old
             \/ /\ same(g) /\ saved(m)
                /\ \/ c = << i2, i3, i4, i5 >> \/ c = << i3, i4, i5 >>
                   \/ c = << i4, i5 >> \/ c = << i5 >>
             \/ c = <<>> /\ g = old
<1>1. /\ i1.op = "stmw" /\ i1.D = 4 /\ i1.A = 2 /\ i1.imm = 0
      /\ i2.op = "lwar" /\ i2.D = 5 /\ i2.A = 1
      /\ i3.op = "stwcxd" /\ i3.D = 4 /\ i3.A = 1
      /\ i4.op = "lwz" /\ i4.D = 7 /\ i4.A = 1 /\ i4.imm = 0
      /\ i5.op = "lmw" /\ i5.D = 4 /\ i5.A = 2 /\ i5.imm = 0
  BY DEF Mem
<1>2. /\ Direct(i1) /\ Indexed(i2) /\ ~Updates(i2) /\ Indexed(i3) /\ ~Updates(i3)
      /\ Direct(i4) /\ ~Updates(i4) /\ Direct(i5)
  BY MemModes
<1>3. SaveCode = << i1, i2, i3, i4, i5 >>
  BY DEF SaveCode
<1> HIDE DEF i1, i2, i3, i4, i5
<1>4. Progress(code, gpr, memory)
  BY <1>3 DEF SaveInv, SaveProgress, Old
<1>5. ASSUME Progress(code', gpr', memory') PROVE SaveInv'
  <2>1. \A m, r : Saves(m, r)' <=> Saves(m', r)
    BY DEF Saves, Bytes, Old
  <2> QED BY <1>3, <1>5, <2>1 DEF SaveInv, SaveProgress, Old, Saves, Bytes
<1>6. i1.op \in MemoryOps /\ i2.op \in Loads /\ i3.op \in Stores /\ i4.op \in Loads
      /\ i5.op \in MemoryOps /\ Loads \subseteq MemoryOps /\ Stores \subseteq MemoryOps
  BY <1>1 DEF Loads, Stores, MemoryOps, AccessSize, Unchecked
<1>7. Head(code) \in {i1, i2, i3, i4, i5}
  BY <1>4
<1>8. Whole(memory) /\ gpr \in [GPR -> Reg]
  BY <1>6, <1>7, Accessing
<1>9. old \in [GPR -> Reg] /\ old[0] = 0 /\ old[1] = S /\ old[2] = D
  <2>1. "save" \in DOMAIN MovingCode
    BY DEF MovingCode
  <2>2. initial.name \in DOMAIN MovingCode
    BY <2>1
  <2>3. Buffered(initial)
    BY <2>2, MovingForm
  <2> QED BY <2>3 DEF Buffered
<1>10. /\ D \in Nat /\ S \in Nat /\ N \in Nat /\ N >= 8 /\ M \in Nat /\ GPR = 0..(N - 1)
       /\ D + 4 * N <= M /\ S + 4 * N <= M /\ (S + 4 * N <= D \/ D + 4 * N <= S)
       /\ {0, 1, 2, 3, 4, 5, 6, 7} \subseteq GPR
  BY Buffers
<1> HIDE DEF D, S, old
<1>11. gpr[0] = 0 /\ gpr[1] = S /\ gpr[2] = D
  <2>1. 0 \in GPR /\ 1 \in GPR /\ 2 \in GPR
    BY <1>10
  <2>2. same(gpr)
    BY <1>4, <1>7
  <2> QED BY <1>9, <2>1, <2>2
<1>12. EffectiveAddress(i1) = D /\ EffectiveAddress(i5) = D /\ EffectiveAddress(i4) = S
  <2>1. ASSUME NEW i \in {i1, i4, i5} PROVE EffectiveAddress(i) = gpr[i.A]
    <3>1. Direct(i) /\ i.A # 0 /\ i.imm = 0 /\ gpr[i.A] \in {S, D}
      BY <1>1, <1>2, <1>11
    <3>2. gpr[i.A] \in Nat /\ i.imm \in Nat /\ gpr[i.A] + i.imm < M /\ gpr[i.A] + i.imm = gpr[i.A]
      BY <1>10, <3>1
    <3>3. EffectiveAddress(i) = gpr[i.A] + i.imm
      BY <3>1, <3>2, AtImmediate
    <3> QED BY <3>2, <3>3
  <2> QED BY <1>1, <1>11, <2>1
<1>13. EffectiveAddress(i2) = S /\ EffectiveAddress(i3) = S
  <2>1. ASSUME NEW i \in {i2, i3} PROVE EffectiveAddress(i) = gpr[i.A]
    <3>1. Indexed(i) /\ i.A # 0 /\ gpr[0] = 0 /\ gpr[i.A] = S
      BY <1>1, <1>2, <1>11
    <3>2. gpr[i.A] \in Nat /\ gpr[i.A] < M
      BY <1>10, <3>1
    <3> QED BY <3>1, <3>2, AtRegister
  <2> QED BY <1>1, <1>11, <2>1
<1>14. CASE code = << i1, i2, i3, i4, i5 >> /\ gpr = old
  <2>1. Head(code) = i1 /\ Tail(code) = << i2, i3, i4, i5 >>
    BY <1>14
  <2> DEFINE n == 4 * (N - 4)
             s == Row
  <2>2. memory' = Put(memory, D, s) /\ gpr' = gpr
    <3>1. StoreMultiple(i1)
      BY <1>1, <1>6, <2>1, AccessStep
    <3> QED BY <1>1, <1>12, <3>1 DEF StoreMultiple, Row
  <2>3. /\ s \in [1..n -> Byte]
        /\ \A r \in GPR : r >= 4 => \A j \in 1..4 :
             4 * (r - 4) + j \in 1..n /\ s[4 * (r - 4) + j] = Bytes(gpr[r])[j]
    BY <1>8, RowBytes
  <2>4. n \in Nat /\ D + n <= M
    BY <1>10
  <2> HIDE DEF n, s
  <2>5. \A k \in 1..n : memory'[D + k - 1] = s[k]
    <3>1. Has(Put(memory, D, s), D, s, n)
      <4>1. s \in [1..n -> Byte]
        BY <2>3
      <4> QED BY <1>8, <1>10, <2>4, <4>1, Put1
    <3> QED BY <2>2, <3>1 DEF Has
  <2>6. ASSUME NEW r \in GPR, r >= 4, NEW j \in 1..4
        PROVE  memory'[D + 4 * (r - 4) + j - 1] = Bytes(old[r])[j]
    <3> DEFINE k == 4 * (r - 4) + j
    <3>1. D + k - 1 = D + 4 * (r - 4) + j - 1
      BY <1>10
    <3>2. k \in 1..n /\ s[k] = Bytes(gpr[r])[j]
      BY <2>3, <2>6
    <3> HIDE DEF k
    <3>3. memory'[D + k - 1] = Bytes(gpr[r])[j]
      BY <2>5, <3>2
    <3> QED BY <1>14, <3>1, <3>3
  <2>7. saved(memory')
    BY <2>6 DEF Saves, D, old, Old
  <2>8. same(gpr')
    BY <1>14, <2>2
  <2> QED BY <1>5, <2>1, <2>7, <2>8
<1>15. ASSUME NEW i \in {i2, i4}, Head(code) = i
       PROVE  memory' = memory /\ (same(gpr) => same(gpr'))
  <2>1. i.op \in Loads /\ i.op \in MemoryOps /\ i.D \in {5, 7} /\ i.A = 1 /\ ~Updates(i)
    BY <1>1, <1>2, <1>6, <1>15
  <2>2. i.D \in GPR /\ i.A \in GPR /\ i.D # i.A
    BY <1>10, <2>1
  <2>3. ExecuteLoad(i)
    BY <1>15, <2>1, AccessStep
  <2>4. /\ memory' = memory /\ (~Updates(i) => gpr'[i.A] = gpr[i.A])
        /\ \A r \in GPR : r # i.D /\ r # i.A => gpr'[r] = gpr[r]
    BY <1>8, <2>1, <2>2, <2>3, LoadStep
  <2>5. \A r \in GPR : r \notin {5, 7} => gpr'[r] = gpr[r]
    BY <2>1, <2>4
  <2> QED BY <2>4, <2>5
<1>16. CASE code = << i2, i3, i4, i5 >> /\ same(gpr) /\ saved(memory)
  <2>1. Head(code) = i2 /\ Tail(code) = << i3, i4, i5 >>
    BY <1>16
  <2> QED BY <1>5, <1>15, <1>16, <2>1
<1>17. CASE code = << i3, i4, i5 >> /\ same(gpr) /\ saved(memory)
  <2>1. Head(code) = i3 /\ Tail(code) = << i4, i5 >>
    BY <1>17
  <2> DEFINE s == Stored("stwcxd", gpr[4])
  <2>2. memory' = Put(memory, S, s) /\ gpr' = gpr
    <3>1. ExecuteStore(i3)
      BY <1>6, <2>1, AccessStep
    <3>2. memory' = Put(memory, EffectiveAddress(i3), Stored(i3.op, gpr[i3.D])) /\ gpr' = gpr
      BY <1>2, <1>6, <3>1, StoreStep
    <3> QED BY <1>1, <1>13, <3>2
  <2>3. s \in [1..4 -> Byte]
    <3>1. gpr[4] \in Reg
      BY <1>8, <1>10
    <3>2. Bytes(gpr[4]) \in [1..4 -> Byte]
      BY <3>1, BytesOfWord
    <3> QED BY <3>1, <3>2, StoredBytes
  <2>4. 4 \in Nat /\ S + 4 <= M
    BY <1>10
  <2> HIDE DEF s
  <2>5. \A x \in MemoryAddress : x < S \/ S + 4 <= x => memory'[x] = memory[x]
    BY <1>8, <1>10, <2>2, <2>3, <2>4, Put1
  <2>6. ASSUME NEW r \in GPR, r >= 4, NEW j \in 1..4
        PROVE  memory'[D + 4 * (r - 4) + j - 1] = Bytes(old[r])[j]
    <3> DEFINE x == D + 4 * (r - 4) + j - 1
    <3>1. x \in MemoryAddress /\ (x < S \/ S + 4 <= x)
      <4>1. x \in Nat /\ x >= D /\ x < D + 4 * N
        BY <1>10, <2>6
      <4> HIDE DEF x
      <4>2. x < M /\ (x < S \/ S + 4 <= x)
        BY <1>10, <4>1
      <4> QED BY <4>1, <4>2, Buffers
    <3>2. memory[x] = Bytes(old[r])[j]
      BY <1>17, <2>6 DEF Saves, D, old, Old
    <3> QED BY <2>5, <3>1, <3>2
  <2>7. saved(memory')
    BY <2>6 DEF Saves, D, old, Old
  <2> QED BY <1>5, <1>17, <2>1, <2>2, <2>7
<1>18. CASE code = << i4, i5 >> /\ same(gpr) /\ saved(memory)
  <2>1. Head(code) = i4 /\ Tail(code) = << i5 >>
    BY <1>18
  <2> QED BY <1>5, <1>15, <1>18, <2>1
<1>19. CASE code = << i5 >> /\ same(gpr) /\ saved(memory)
  <2>1. Head(code) = i5 /\ Tail(code) = <<>>
    BY <1>19
  <2>2. gpr' = [r \in GPR |-> IF r < 4 THEN gpr[r] ELSE FromBytes(Fetch(Offset(D, 4 * (r - 4)), 4))]
    <3>1. LoadMultiple(i5)
      BY <1>1, <1>6, <2>1, AccessStep
    <3> QED BY <1>1, <1>12, <3>1 DEF LoadMultiple
  <2>3. ASSUME NEW r \in GPR PROVE gpr'[r] = old[r]
    <3>1. CASE r < 4
      BY <1>19, <2>2, <3>1
    <3>2. CASE r >= 4
      <4> DEFINE k == 4 * (r - 4)
                 a == D + k
                 f == Fetch(a, 4)
                 w == Bytes(old[r])
      <4>1. k \in Nat /\ a \in Nat /\ a + 4 <= M /\ D + k < M /\ 4 \in Nat
        BY <1>10, <3>2
      <4>2. \A j \in 1..4 : D + 4 * (r - 4) + j - 1 = a + j - 1
        BY <1>10
      <4> HIDE DEF k
      <4>3. Offset(D, k) = a
        BY <1>10, <4>1, Near
      <4>4. f = [j \in 1..4 |-> memory[a + j - 1]]
        <5> HIDE DEF a
        <5> QED BY <4>1, FetchAt
      <4>5. \A j \in 1..4 : memory[a + j - 1] = w[j]
        <5>1. \A j \in 1..4 : memory[D + 4 * (r - 4) + j - 1] = w[j]
          BY <1>19, <3>2 DEF Saves, D, old, Old
        <5> HIDE DEF a, w
        <5> QED BY <4>2, <5>1
      <4>6. old[r] \in Reg
        BY <1>9
      <4>7. w \in [1..4 -> Byte] /\ FromBytes(w) = old[r]
        BY <4>6, BytesOfWord, FromBytesOfWord
      <4> HIDE DEF a, w
      <4>8. f = w
        BY <4>4, <4>5, <4>7
      <4>9. ~(r < 4)
        BY <1>10, <3>2
      <4>10. gpr'[r] = FromBytes(Fetch(Offset(D, k), 4))
        BY <2>2, <4>9 DEF k
      <4> QED BY <4>3, <4>7, <4>8, <4>10
    <3> QED BY <1>10, <3>1, <3>2
  <2>4. gpr' = old
    BY <1>9, <2>2, <2>3
  <2> QED BY <1>5, <2>1, <2>4
<1> QED BY <1>4, <1>14, <1>16, <1>17, <1>18, <1>19

-----------------------------------------------------------------------------
(* A string moves through registers *)

\* The string's bytes are in the registers lswi and lswx have for them.
Carried(g, n) == \A k \in 1..n : Bytes(g[3 + (k - 1) \div 4])[Place(k)] = Pattern[Source + k - 1]

Moved(mem, n) ==
  \A a \in MemoryAddress : mem[a] = IF a \in Destination..(Destination + n - 1)
                                    THEN Pattern[Source + (a - Destination)] ELSE Pattern[a]

MoveProgress ==
  \/ code = initial.code /\ memory = Pattern /\ gpr[1] = Source
  \/ code = << initial.code[2] >> /\ memory = Pattern /\ Carried(gpr, initial.byteCount)
  \/ code = <<>> /\ Moved(memory, initial.byteCount)

MoveInv ==
  initial.name = "move" /\ halt = "no" =>
    gpr[0] = 0 /\ gpr[2] = Destination /\ byteCount = initial.byteCount /\ MoveProgress

\* A string of at most 16 bytes from r3 on does not reach the last register.
LEMMA StringPlaces ==
  ASSUME NEW i, i.D = 3, NEW k \in 1..17
  PROVE  /\ StringRegister(i, k) = 3 + (k - 1) \div 4
         /\ 3 + (k - 1) \div 4 \in GPR /\ 3 + (k - 1) \div 4 >= 3 /\ Place(k) \in 1..4
<1> DEFINE r == 3 + (k - 1) \div 4
<1>1. r \in 3..7 /\ Place(k) \in 1..4
  BY DEF Place
<1>2. StringRegister(i, k) = r % N
  BY DEF StringRegister
<1> HIDE DEF r
<1>3. N \in Nat /\ N >= 8 /\ GPR = 0..(N - 1)
  BY Buffers
<1>4. r % N = r /\ r \in GPR /\ r >= 3
  BY <1>1, <1>3
<1> QED BY <1>1, <1>2, <1>4 DEF r

LEMMA SamePlace ==
  ASSUME NEW k \in 1..17, NEW l \in 1..17,
         3 + (k - 1) \div 4 = 3 + (l - 1) \div 4, Place(k) = Place(l)
  PROVE  k = l
BY DEF Place

LEMMA StringArrives ==
  ASSUME Whole(memory), NEW i, i.D = 3, NEW a \in Nat, NEW n \in 0..16, a + n <= M
  PROVE  /\ \A k \in 1..n :
              Bytes(LoadString(i, a, n)[3 + (k - 1) \div 4])[Place(k)] = memory[a + k - 1]
         /\ \A r \in GPR : r < 3 => LoadString(i, a, n)[r] = gpr[r]
<1> DEFINE most == IF i.op = "lswx" /\ n > 0 THEN n + 1 ELSE n
           touched == {StringRegister(i, l) : l \in 1..most}
           places(r, j) == {l \in 1..n : StringRegister(i, l) = r /\ Place(l) = j}
           byteAt(r, j) == IF places(r, j) = {} THEN 0
                         ELSE memory[Offset(a, (CHOOSE x \in places(r, j) : TRUE) - 1)]
           string(r) == [j \in 1..4 |-> byteAt(r, j)]
<1>1. LoadString(i, a, n) = [r \in GPR |-> IF r \in touched THEN FromBytes(string(r)) ELSE gpr[r]]
  BY DEF LoadString
<1>2. \A k \in 1..17 : /\ StringRegister(i, k) = 3 + (k - 1) \div 4
                       /\ 3 + (k - 1) \div 4 \in GPR /\ 3 + (k - 1) \div 4 >= 3 /\ Place(k) \in 1..4
  BY StringPlaces
<1>3. most \in n..(n + 1) /\ n \in Nat
  OBVIOUS
<1> HIDE DEF most
<1>4. 1..n \subseteq 1..17 /\ 1..most \subseteq 1..17 /\ 1..n \subseteq 1..most
  BY <1>3
<1>5. ASSUME NEW r \in GPR, r < 3 PROVE LoadString(i, a, n)[r] = gpr[r]
  <2>1. ASSUME r \in touched PROVE FALSE
    <3>1. PICK k \in 1..most : r = StringRegister(i, k)
      BY <2>1
    <3>2. r = 3 + (k - 1) \div 4 /\ 3 + (k - 1) \div 4 >= 3
      BY <1>2, <1>4, <3>1
    <3>3. r \in Nat
      BY Buffers
    <3> QED BY <1>5, <3>2, <3>3
  <2> HIDE DEF touched, string
  <2> QED BY <1>1, <2>1
<1>6. \A r, j : byteAt(r, j) \in Byte
  <2> TAKE r, j
  <2>1. CASE places(r, j) = {}
    BY <2>1, ByteSize DEF Byte
  <2>2. CASE places(r, j) # {}
    <3> DEFINE k == CHOOSE x \in places(r, j) : TRUE
    <3>1. k \in places(r, j)
      BY <2>2
    <3>2. k \in 1..n
      BY <3>1
    <3>3. byteAt(r, j) = memory[Offset(a, k - 1)]
      BY <2>2
    <3> HIDE DEF k
    <3>4. k - 1 \in Nat /\ a + (k - 1) < M
      BY <3>2, Buffers
    <3>5. Offset(a, k - 1) \in MemoryAddress
      BY <3>4, Near
    <3>6. memory[Offset(a, k - 1)] \in Byte
      BY <3>5 DEF Whole
    <3> QED BY <3>3, <3>6
  <2> QED BY <2>1, <2>2
<1>7. ASSUME NEW k \in 1..n
      PROVE  Bytes(LoadString(i, a, n)[3 + (k - 1) \div 4])[Place(k)] = memory[a + k - 1]
  <2> DEFINE r == 3 + (k - 1) \div 4
             j == Place(k)
             s == string(r)
  <2>1. k \in 1..17 /\ k \in 1..most
    BY <1>4
  <2>2. StringRegister(i, k) = r /\ r \in GPR /\ j \in 1..4
    BY <1>2, <2>1
  <2>3. r \in touched
    BY <2>1, <2>2
  <2>4. places(r, j) = {k}
    <3>1. k \in places(r, j)
      BY <2>2
    <3>2. ASSUME NEW l \in places(r, j) PROVE l = k
      <4>1. l \in 1..n /\ StringRegister(i, l) = r /\ Place(l) = j
        OBVIOUS
      <4>2. l \in 1..17
        BY <1>4, <4>1
      <4>3. 3 + (l - 1) \div 4 = r
        BY <1>2, <4>1, <4>2
      <4> QED BY <2>1, <4>1, <4>2, <4>3, SamePlace
    <3> QED BY <3>1, <3>2
  <2>5. byteAt(r, j) = memory[Offset(a, k - 1)]
    BY <2>4
  <2>6. Offset(a, k - 1) = a + k - 1
    <3>1. k - 1 \in Nat /\ a + (k - 1) < M
      BY Buffers
    <3>2. Offset(a, k - 1) = a + (k - 1)
      BY <3>1, Near
    <3> QED BY <3>2
  <2>7. s \in [1..4 -> Byte]
    <3> HIDE DEF byteAt, r
    <3> QED BY <1>6
  <2>8. s[j] = memory[a + k - 1]
    BY <2>2, <2>5, <2>6
  <2>9. LoadString(i, a, n)[r] = FromBytes(s)
    <3> HIDE DEF r, touched, string
    <3> QED BY <1>1, <2>2, <2>3 DEF s
  <2> HIDE DEF s
  <2>10. Bytes(FromBytes(s)) = s
    BY <2>7, BytesOfFromBytes
  <2> QED BY <2>8, <2>9, <2>10
<1>8. \A k \in 1..n :
        Bytes(LoadString(i, a, n)[3 + (k - 1) \div 4])[Place(k)] = memory[a + k - 1]
  BY <1>7
<1>9. \A r \in GPR : r < 3 => LoadString(i, a, n)[r] = gpr[r]
  BY <1>5
<1> QED BY <1>8, <1>9

LEMMA MovedString ==
  ASSUME gpr \in [GPR -> Reg], NEW i, i.D = 3, NEW n \in 0..16, Carried(gpr, n)
  PROVE  Moved(Put(Pattern, Destination, StringBytes(i, n)), n)
<1> DEFINE s == StringBytes(i, n)
           D == Destination
           S == Source
<1>1. D \in Nat /\ S \in Nat /\ S + 32 <= M /\ D + 32 <= M /\ M \in Nat /\ MemoryAddress = 0..(M - 1)
  BY Buffers
<1>2. Whole(Pattern)
  BY PatternBytes DEF Whole
<1>3. ASSUME NEW k \in 1..n PROVE Bytes(gpr[StringRegister(i, k)])[Place(k)] = Pattern[S + k - 1]
  <2>1. k \in 1..17
    OBVIOUS
  <2>2. StringRegister(i, k) = 3 + (k - 1) \div 4
    BY <2>1, StringPlaces
  <2> QED BY <2>2 DEF Carried
<1>4. ASSUME NEW k \in 1..n PROVE Pattern[S + k - 1] \in Byte
  <2> HIDE DEF S
  <2>1. S + k - 1 \in MemoryAddress
    BY <1>1
  <2> QED BY <1>2, <2>1 DEF Whole
<1> HIDE DEF D, S
<1>5. s \in [1..n -> Byte] /\ \A k \in 1..n : s[k] = Pattern[S + k - 1]
  BY <1>3, <1>4 DEF StringBytes
<1>6. n \in Nat /\ D + n <= M
  BY <1>1
<1> HIDE DEF s
<1>7. \A x \in MemoryAddress :
        Put(Pattern, D, s)[x] = IF D <= x /\ x < D + n THEN s[x - D + 1] ELSE Pattern[x]
  BY <1>1, <1>2, <1>5, <1>6, PutAt
<1>8. ASSUME NEW x \in MemoryAddress
      PROVE  Put(Pattern, D, s)[x] = IF x \in D..(D + n - 1) THEN Pattern[S + (x - D)] ELSE Pattern[x]
  <2>1. x \in Nat
    BY <1>1
  <2>2. CASE x \in D..(D + n - 1)
    <3>1. D <= x /\ x < D + n /\ x - D + 1 \in 1..n /\ S + (x - D + 1) - 1 = S + (x - D)
      BY <1>1, <1>6, <2>1, <2>2
    <3>2. s[x - D + 1] = Pattern[S + (x - D + 1) - 1]
      BY <1>5, <3>1
    <3> QED BY <1>7, <2>2, <3>1, <3>2
  <2>3. CASE x \notin D..(D + n - 1)
    <3>1. ~(D <= x /\ x < D + n)
      BY <1>1, <1>6, <2>1, <2>3
    <3> QED BY <1>7, <2>3, <3>1
  <2> QED BY <2>2, <2>3
<1> QED BY <1>8 DEF Moved, D, S, s

LEMMA MoveNext ==
  ASSUME StoreInv, MoveInv, initial \in Program, initial.name = "move", initial' = initial,
         byteCount' = byteCount,
         code # <<>>, halt = "no", Execute(Head(code)), code' = Tail(code), halt' = "no"
  PROVE  MoveInv'
<1> DEFINE n == initial.byteCount
           i1 == Mem("lswi", "", 3, 1, n)
           i2 == Mem("stswi", "", 3, 2, n)
           j1 == Mem("lswx", "x", 3, 1, 0)
           j2 == Mem("stswx", "x", 3, 2, 0)
           c == initial.code
           D == Destination
           S == Source
<1>1. /\ i1.op = "lswi" /\ i1.D = 3 /\ i1.A = 1 /\ i1.n = n
      /\ i2.op = "stswi" /\ i2.D = 3 /\ i2.A = 2 /\ i2.n = n
      /\ j1.op = "lswx" /\ j1.D = 3 /\ j1.A = 1
      /\ j2.op = "stswx" /\ j2.D = 3 /\ j2.A = 2
  BY DEF Mem
<1>2. Indexed(j1) /\ Indexed(j2)
  BY MemModes
<1>3. MoveCode(n) = << i1, i2 >> /\ MoveIndexedCode = << j1, j2 >>
  BY DEF MoveCode, MoveIndexedCode
<1>4. n \in 0..16 /\ (c = << i1, i2 >> \/ c = << j1, j2 >>)
  <2>1. n \in 0..16 /\ (c = MoveCode(n) \/ c = MoveIndexedCode)
    BY MovingForm
  <2> QED BY <1>3, <2>1
<1> HIDE DEF i1, i2, j1, j2
<1>5. /\ gpr[0] = 0 /\ gpr[2] = D /\ byteCount = n
      /\ \/ code = c /\ memory = Pattern /\ gpr[1] = S
         \/ code = << c[2] >> /\ memory = Pattern /\ Carried(gpr, n)
         \/ code = <<>> /\ Moved(memory, n)
  BY DEF MoveInv, MoveProgress
<1>6. ASSUME code' = << c[2] >>, memory' = Pattern, Carried(gpr', n), gpr'[0] = 0, gpr'[2] = D
      PROVE  MoveInv'
  <2>1. Carried(gpr, n)' <=> Carried(gpr', n)
    BY DEF Carried, Bytes
  <2> QED BY <1>5, <1>6, <2>1 DEF MoveInv, MoveProgress, Carried, Bytes
<1>7. ASSUME code' = <<>>, Moved(memory', n), gpr' = gpr PROVE MoveInv'
  BY <1>5, <1>7 DEF MoveInv, MoveProgress, Moved
<1>8. {i1.op, i2.op, j1.op, j2.op} \subseteq MemoryOps
  BY <1>1 DEF MemoryOps, AccessSize, Unchecked
<1>9. Head(code) \in {i1, i2, j1, j2}
  BY <1>4, <1>5
<1>10. Whole(memory) /\ gpr \in [GPR -> Reg]
  BY <1>8, <1>9, Accessing
<1>11. /\ D \in Nat /\ D + 32 <= M /\ S \in Nat /\ S + 32 <= M /\ M \in Nat
       /\ 0 \in GPR /\ 2 \in GPR
  BY Buffers
<1> HIDE DEF D, S, n, c
<1>12. ASSUME NEW i \in {i1, j1}, gpr' = LoadString(i, S, n), memory = Pattern
       PROVE  Carried(gpr', n) /\ gpr'[0] = 0 /\ gpr'[2] = D
  <2>1. S + n <= M /\ i.D = 3
    BY <1>1, <1>4, <1>11
  <2>2. /\ \A k \in 1..n : Bytes(LoadString(i, S, n)[3 + (k - 1) \div 4])[Place(k)] = memory[S + k - 1]
        /\ \A r \in GPR : r < 3 => LoadString(i, S, n)[r] = gpr[r]
    <3>1. n \in 0..16
      BY <1>4
    <3> QED BY <1>10, <1>11, <2>1, <3>1, StringArrives, ZenonT(30)
  <2>3. Carried(gpr', n)
    BY <1>12, <2>2 DEF Carried, S
  <2>4. gpr'[0] = gpr[0] /\ gpr'[2] = gpr[2]
    BY <1>11, <1>12, <2>2
  <2> QED BY <1>5, <2>3, <2>4
<1>13. ASSUME NEW i \in {i2, j2}, memory = Pattern, Carried(gpr, n),
              memory' = Put(memory, D, StringBytes(i, n))
       PROVE  Moved(memory', n)
  <2>1. i.D = 3 /\ n \in 0..16
    BY <1>1, <1>4
  <2>2. Moved(Put(Pattern, Destination, StringBytes(i, n)), n)
    BY <1>10, <1>13, <2>1, MovedString
  <2> QED BY <1>13, <2>2 DEF D
<1>14. /\ gpr[1] = S => EffectiveAddress(j1) = S
       /\ EffectiveAddress(j2) = D
  <2>1. ASSUME NEW i \in {j1, j2}, gpr[i.A] \in {S, D} PROVE EffectiveAddress(i) = gpr[i.A]
    <3>1. Indexed(i) /\ i.A # 0 /\ gpr[0] = 0
      BY <1>1, <1>2, <1>5
    <3>2. gpr[i.A] \in Nat /\ gpr[i.A] < M
      BY <1>11, <2>1
    <3> QED BY <3>1, <3>2, AtRegister
  <2> QED BY <1>1, <1>5, <2>1
<1>15. CASE code = c /\ memory = Pattern /\ gpr[1] = S
  <2>1. CASE c = << i1, i2 >>
    <3>1. Head(code) = i1 /\ Tail(code) = << c[2] >>
      BY <1>15, <2>1
    <3>2. StringImmediate(i1)
      BY <1>1, <1>8, <3>1, AccessStep
    <3>3. gpr' = LoadString(i1, S, n) /\ memory' = memory
      BY <1>1, <1>15, <3>2 DEF StringImmediate
    <3> QED BY <1>6, <1>12, <1>15, <3>1, <3>3
  <2>2. CASE c = << j1, j2 >>
    <3>1. Head(code) = j1 /\ Tail(code) = << c[2] >>
      BY <1>15, <2>2
    <3>2. StringIndexed(j1)
      BY <1>1, <1>8, <3>1, AccessStep
    <3>3. gpr' = LoadString(j1, S, n) /\ memory' = memory
      BY <1>1, <1>5, <1>14, <1>15, <3>2 DEF StringIndexed
    <3> QED BY <1>6, <1>12, <1>15, <3>1, <3>3
  <2> QED BY <1>4, <2>1, <2>2
<1>16. CASE code = << c[2] >> /\ memory = Pattern /\ Carried(gpr, n)
  <2>1. CASE c = << i1, i2 >>
    <3>1. Head(code) = i2 /\ Tail(code) = <<>>
      BY <1>16, <2>1
    <3>2. StringImmediate(i2)
      BY <1>1, <1>8, <3>1, AccessStep
    <3>3. memory' = Put(memory, D, StringBytes(i2, n)) /\ gpr' = gpr
      BY <1>1, <1>5, <3>2 DEF StringImmediate
    <3> QED BY <1>7, <1>13, <1>16, <3>1, <3>3
  <2>2. CASE c = << j1, j2 >>
    <3>1. Head(code) = j2 /\ Tail(code) = <<>>
      BY <1>16, <2>2
    <3>2. StringIndexed(j2)
      BY <1>1, <1>8, <3>1, AccessStep
    <3>3. memory' = Put(memory, D, StringBytes(j2, n)) /\ gpr' = gpr
      BY <1>1, <1>5, <1>14, <3>2 DEF StringIndexed
    <3> QED BY <1>7, <1>13, <1>16, <3>1, <3>3
  <2> QED BY <1>4, <2>1, <2>2
<1> QED BY <1>5, <1>15, <1>16

-----------------------------------------------------------------------------
(* What was stored is what is loaded *)

MovingInv == BytesInv /\ HalvesInv /\ FloatInv /\ SaveInv /\ MoveInv
MemoryInv == StoreInv /\ initial \in Program /\ MovingInv

LEMMA MovingStart ==
  ASSUME InitProgram
  PROVE  MovingInv
<1>1. /\ initial \in Program /\ code = initial.code /\ gpr = initial.gpr /\ memory = initial.memory
      /\ byteCount = initial.byteCount
  BY DEF InitProgram
<1>2. /\ "bytes" \in DOMAIN MovingCode /\ MovingCode["bytes"] = BytesCode
      /\ "halves" \in DOMAIN MovingCode /\ MovingCode["halves"] = HalvesCode
      /\ "float" \in DOMAIN MovingCode /\ MovingCode["float"] = FloatCode
      /\ "save" \in DOMAIN MovingCode /\ MovingCode["save"] = SaveCode
  BY DEF MovingCode
<1>3. initial.name \in DOMAIN MovingCode =>
        /\ gpr[0] = 0 /\ gpr[1] = Source /\ gpr[2] = Destination /\ memory = Pattern
        /\ code = MovingCode[initial.name]
  BY <1>1, MovingForm DEF Buffered
<1>4. initial.name = "move" =>
        gpr[0] = 0 /\ gpr[1] = Source /\ gpr[2] = Destination /\ memory = Pattern
  BY <1>1, MovingForm DEF Buffered
<1>5. BytesInv
  BY <1>1, <1>2, <1>3 DEF BytesInv, BytesProgress, Old
<1>6. HalvesInv
  BY <1>1, <1>2, <1>3 DEF HalvesInv, HalvesProgress, Old
<1>7. FloatInv
  BY <1>1, <1>2, <1>3 DEF FloatInv, FloatProgress
<1>8. SaveInv
  BY <1>1, <1>2, <1>3 DEF SaveInv, SaveProgress
<1>9. MoveInv
  BY <1>1, <1>4 DEF MoveInv, MoveProgress
<1> QED BY <1>5, <1>6, <1>7, <1>8, <1>9 DEF MovingInv

LEMMA MovingNext ==
  ASSUME StoreInv, initial \in Program, MovingInv, [StepProgram]_machineVars
  PROVE  MovingInv'
<1>1. CASE UNCHANGED machineVars
  <2>1. /\ gpr' = gpr /\ fpr' = fpr /\ memory' = memory /\ byteCount' = byteCount
        /\ code' = code /\ initial' = initial /\ halt' = halt
    BY <1>1 DEF machineVars, storeVars
  <2>2. BytesInv'
    BY <2>1 DEF MovingInv, BytesInv, BytesProgress, Has, Bytes, Old
  <2>3. HalvesInv'
    BY <2>1 DEF MovingInv, HalvesInv, HalvesProgress, Has, Bytes, Old
  <2>4. FloatInv'
    BY <2>1 DEF MovingInv, FloatInv, FloatProgress, Copied
  <2>5. SaveInv'
    BY <2>1 DEF MovingInv, SaveInv, SaveProgress, Saves, Bytes, Old
  <2>6. MoveInv'
    BY <2>1 DEF MovingInv, MoveInv, MoveProgress, Carried, Moved, Bytes
  <2> QED BY <2>2, <2>3, <2>4, <2>5, <2>6 DEF MovingInv
<1>2. CASE StepProgram
  <2>1. /\ halt = "no" /\ code # <<>> /\ Execute(Head(code)) /\ code' = Tail(code)
        /\ byteCount' = byteCount /\ initial' = initial
    BY <1>2 DEF StepProgram
  <2>2. CASE halt' # "no"
    BY <2>2 DEF MovingInv, BytesInv, HalvesInv, FloatInv, SaveInv, MoveInv
  <2>3. CASE halt' = "no"
    <3>1. BytesInv'
      <4>1. CASE initial.name = "bytes"
        BY <2>1, <2>3, <4>1, BytesNext DEF MovingInv
      <4>2. CASE initial.name # "bytes"
        BY <2>1, <4>2 DEF BytesInv
      <4> QED BY <4>1, <4>2
    <3>2. HalvesInv'
      <4>1. CASE initial.name = "halves"
        BY <2>1, <2>3, <4>1, HalvesNext DEF MovingInv
      <4>2. CASE initial.name # "halves"
        BY <2>1, <4>2 DEF HalvesInv
      <4> QED BY <4>1, <4>2
    <3>3. FloatInv'
      <4>1. CASE initial.name = "float"
        BY <2>1, <2>3, <4>1, FloatNext DEF MovingInv
      <4>2. CASE initial.name # "float"
        BY <2>1, <4>2 DEF FloatInv
      <4> QED BY <4>1, <4>2
    <3>4. SaveInv'
      <4>1. CASE initial.name = "save"
        BY <2>1, <2>3, <4>1, SaveNext DEF MovingInv
      <4>2. CASE initial.name # "save"
        BY <2>1, <4>2 DEF SaveInv
      <4> QED BY <4>1, <4>2
    <3>5. MoveInv'
      <4>1. CASE initial.name = "move"
        BY <2>1, <2>3, <4>1, MoveNext DEF MovingInv
      <4>2. CASE initial.name # "move"
        BY <2>1, <4>2 DEF MoveInv
      <4> QED BY <4>1, <4>2
    <3> QED BY <3>1, <3>2, <3>3, <3>4, <3>5 DEF MovingInv
  <2> QED BY <2>2, <2>3
<1> QED BY <1>1, <1>2

LEMMA MemoryStart == InitProgram => MemoryInv
BY StoreStart, MovingStart DEF MemoryInv, InitProgram

LEMMA MemoryNext ==
  ASSUME MemoryInv, [StepProgram]_machineVars
  PROVE  MemoryInv'
<1>1. StoreInv' /\ MovingInv'
  BY StoreNext, MovingNext DEF MemoryInv
<1>2. initial' = initial
  BY DEF StepProgram, machineVars
<1> QED BY <1>1, <1>2 DEF MemoryInv

\* The lower half of a word, and the bytes of that.
LEMMA LowerHalf ==
  ASSUME NEW w \in Reg, NEW b \in [1..4 -> Byte], b = Bytes(w)
  PROVE  LET half == w % (B * B) IN half = b[3] * B + b[4] /\ half % B = b[4] /\ half \div B = b[3]
<1> DEFINE x == b[1]
           y == b[2]
           u == b[3]
           v == b[4]
           c == B * B
           h == u * B + v
           q == x * B + y
<1>1. B \in Nat /\ B > 0 /\ x \in Byte /\ y \in Byte /\ u \in Byte /\ v \in Byte
  BY ByteSize
<1>2. w = ((x * B + y) * B + u) * B + v
  <2>1. w = FromBytes(b)
    BY FromBytesOfWord
  <2> QED BY <2>1 DEF FromBytes
<1> HIDE DEF x, y, u, v
<1>3. x \in Nat /\ y \in Nat /\ u \in Nat /\ v \in Nat
  BY <1>1 DEF Byte
<1>4. c \in Nat /\ c > 0 /\ h \in 0..(c - 1) /\ q \in Nat
  <2>1. h \in 0..(B * B - 1)
    BY <1>1, Horner DEF Byte
  <2> QED BY <1>1, <1>3, <2>1
<1>5. w = q * c + h
  <2>1. ((q * B) + u) * B + v = (q * B) * B + (u * B + v)
    BY <1>1, <1>3, <1>4
  <2>2. (q * B) * B = q * (B * B)
    BY <1>1, <1>4
  <2> QED BY <1>2, <2>1, <2>2
<1>6. h % B = v /\ h \div B = u
  BY <1>1, <1>3, LastByte, SMTT(30)
<1> HIDE DEF c, h, q
<1>7. w % c = h
  BY <1>4, <1>5, DivMod
<1> QED BY <1>6, <1>7 DEF c, h, u, v

LEMMA MemoryEnd == MemoryInv => MemoryKeepsWhatIsStored
<1> SUFFICES ASSUME MemoryInv PROVE MemoryKeepsWhatIsStored
  OBVIOUS
<1> USE DEF Ends
<1>1. ASSUME Ends({"bytes"})
      PROVE  LET w == Bytes(Old(3)) IN
             /\ gpr[2] = Destination + 1
             /\ gpr[4] = w[2] /\ gpr[5] = w[2]
             /\ gpr[6] = w[3] * B + w[4]
             /\ gpr[7] = ((memory[Destination + 4] * B + w[4]) * B + w[3]) * B + w[2]
  <2>1. BytesProgress /\ BytesCode # <<>>
    BY <1>1 DEF MemoryInv, MovingInv, BytesInv, BytesCode
  <2> QED BY <1>1, <2>1 DEF BytesProgress
<1>2. ASSUME Ends({"halves"})
      PROVE  LET half == Old(3) % (B * B)
                 signed(h) == IF 2 * h >= B * B THEN (h - B * B) % M ELSE h
             IN /\ gpr[4] = signed((half % B) * B + half \div B)
                /\ gpr[5] = half
                /\ gpr[6] = signed(half)
                /\ Bytes(gpr[7]) = Reversed(Bytes(Old(3)))
  <2> DEFINE x == Old(3)
             w == Bytes(x)
             half == x % (B * B)
  <2>1. HalvesProgress /\ HalvesCode # <<>>
    BY <1>2 DEF MemoryInv, MovingInv, HalvesInv, HalvesCode
  <2>2. /\ gpr[4] = SignedHalf(w[4] * B + w[3]) /\ gpr[5] = w[3] * B + w[4]
        /\ gpr[6] = SignedHalf(w[3] * B + w[4]) /\ Bytes(gpr[7]) = Reversed(w)
    BY <1>2, <2>1 DEF HalvesProgress
  <2>3. x \in Reg
    <3>1. initial.gpr \in [GPR -> Reg]
      BY ProgramsStart DEF MemoryInv, Started
    <3> QED BY <3>1, Buffers DEF Old
  <2> HIDE DEF x
  <2>4. w \in [1..4 -> Byte]
    BY <2>3, BytesOfWord
  <2>5. half = w[3] * B + w[4] /\ half % B = w[4] /\ half \div B = w[3]
    <3> HIDE DEF w
    <3> QED BY <2>3, <2>4, LowerHalf DEF w
  <2> HIDE DEF w, half
  <2>6. gpr[4] = SignedHalf((half % B) * B + half \div B) /\ gpr[5] = half
        /\ gpr[6] = SignedHalf(half)
    BY <2>2, <2>5
  <2> QED BY <2>2, <2>6 DEF SignedHalf, half, w, x
<1>3. ASSUME Ends({"save"}) PROVE \A r \in GPR : gpr[r] = Old(r)
  <2>1. SaveProgress /\ SaveCode # <<>>
    BY <1>3 DEF MemoryInv, MovingInv, SaveInv, SaveCode
  <2>2. gpr = initial.gpr
    BY <1>3, <2>1 DEF SaveProgress
  <2> QED BY <2>2 DEF Old
<1>4. ASSUME Ends({"move"})
      PROVE  \A a \in MemoryAddress :
               memory[a] = IF a \in Destination..(Destination + initial.byteCount - 1)
                           THEN Pattern[Source + (a - Destination)] ELSE Pattern[a]
  <2>1. MoveProgress
    BY <1>4 DEF MemoryInv, MovingInv, MoveInv
  <2>2. initial.code # <<>>
    <3>1. initial.code = MoveCode(initial.byteCount) \/ initial.code = MoveIndexedCode
      BY <1>4, MovingForm DEF MemoryInv
    <3> DEFINE n == initial.byteCount
               i1 == Mem("lswi", "", 3, 1, n)
               i2 == Mem("stswi", "", 3, 2, n)
               j1 == Mem("lswx", "x", 3, 1, 0)
               j2 == Mem("stswx", "x", 3, 2, 0)
    <3>2. MoveCode(n) = << i1, i2 >> /\ MoveIndexedCode = << j1, j2 >>
      BY DEF MoveCode, MoveIndexedCode
    <3> HIDE DEF i1, i2, j1, j2
    <3> QED BY <3>1, <3>2
  <2>3. Moved(memory, initial.byteCount)
    BY <1>4, <2>1, <2>2 DEF MoveProgress
  <2> QED BY <2>3 DEF Moved
<1>5. ASSUME Ends({"float"})
      PROVE  \A k \in 0..11 : memory[Destination + k] =
               Pattern[Source + (IF k < 4 THEN k + 4 ELSE IF k < 8 THEN k ELSE k - 8)]
  <2> DEFINE D == Destination
             S == Source
  <2>1. FloatProgress /\ FloatCode # <<>>
    BY <1>5 DEF MemoryInv, MovingInv, FloatInv, FloatCode
  <2>2. Copied(memory, D + 8, S, 4) /\ Copied(memory, D, S + 4, 4) /\ Copied(memory, D + 4, S + 4, 4)
    BY <1>5, <2>1 DEF FloatProgress
  <2>3. D \in Nat /\ S \in Nat
    BY Buffers
  <2> HIDE DEF D, S
  <2>4. ASSUME NEW k \in 0..11
        PROVE  memory[D + k] = Pattern[S + (IF k < 4 THEN k + 4 ELSE IF k < 8 THEN k ELSE k - 8)]
    <3>1. CASE k < 4
      <4>1. k \in 0..(4 - 1) /\ S + (k + 4) = (S + 4) + k
        BY <2>3, <3>1
      <4>2. memory[D + k] = Pattern[(S + 4) + k]
        BY <2>2, <4>1 DEF Copied
      <4> QED BY <3>1, <4>1, <4>2
    <3>2. CASE 4 <= k /\ k < 8
      <4>1. k - 4 \in 0..(4 - 1) /\ (D + 4) + (k - 4) = D + k /\ (S + 4) + (k - 4) = S + k /\ ~(k < 4)
        BY <2>3, <3>2
      <4>2. memory[(D + 4) + (k - 4)] = Pattern[(S + 4) + (k - 4)]
        BY <2>2, <4>1 DEF Copied
      <4> QED BY <3>2, <4>1, <4>2
    <3>3. CASE 8 <= k
      <4>1. k - 8 \in 0..(4 - 1) /\ (D + 8) + (k - 8) = D + k /\ ~(k < 4) /\ ~(k < 8)
        BY <2>3, <3>3
      <4>2. memory[(D + 8) + (k - 8)] = Pattern[S + (k - 8)]
        BY <2>2, <4>1 DEF Copied
      <4> QED BY <3>3, <4>1, <4>2
    <3> QED BY <3>1, <3>2, <3>3
  <2> QED BY <2>4 DEF D, S
<1> QED BY <1>1, <1>2, <1>3, <1>4, <1>5 DEF MemoryKeepsWhatIsStored

-----------------------------------------------------------------------------
(* What a store reaches *)

\* A store changes the bytes it writes and no other.
LEMMA PutReaches ==
  ASSUME NEW mem, Whole(mem), NEW a \in MemoryAddress, NEW n \in Nat, NEW s \in [1..n -> Byte],
         NEW x \in DOMAIN mem, Put(mem, a, s)[x] # mem[x]
  PROVE  \E k \in 0..(n - 1) : x = Offset(a, k)
<1> DEFINE d == x - a
           j == d % M
<1>1. Len(s) = n /\ DOMAIN mem = MemoryAddress
  BY Strings DEF Whole
<1>2. Put(mem, a, s)[x] = IF j + 1 <= n THEN s[j + 1] ELSE mem[x]
  BY <1>1 DEF Put
<1>3. x \in Nat /\ x < M /\ M \in Nat /\ a \in Nat /\ a < M
  BY <1>1, WordSize DEF MemoryAddress, Reg
<1>4. d \in Int /\ (a <= x => 0 <= d /\ d < M) /\ (x < a => -M <= d /\ d < 0)
  BY <1>3
<1> HIDE DEF d
<1>5. (a <= x => j = d) /\ (x < a => j = d + M)
  BY <1>4, Wrap
<1> HIDE DEF j
<1>6. j \in Nat /\ (a + j = x \/ a + j = x + M)
  BY <1>3, <1>4, <1>5 DEF d
<1>7. Offset(a, j) = x
  <2> DEFINE t == a + j
  <2>1. t \in Int /\ (t = x \/ t = x + M)
    BY <1>3, <1>6
  <2> HIDE DEF t
  <2>2. CASE t = x
    <3>1. 0 <= t /\ t < M
      BY <1>3, <2>2
    <3>2. t % M = t
      BY <2>1, <3>1, Wrap
    <3> QED BY <2>2, <3>2 DEF Offset, t
  <2>3. CASE t = x + M
    <3>1. M <= t /\ t < 2 * M /\ t - M = x
      BY <1>3, <2>3
    <3>2. t % M = t - M
      BY <2>1, <3>1, Wrap
    <3> QED BY <3>1, <3>2 DEF Offset, t
  <2> QED BY <2>1, <2>2, <2>3
<1>8. j + 1 <= n
  BY <1>2
<1>9. j \in 0..(n - 1)
  BY <1>6, <1>8
<1> QED BY <1>7, <1>9

\* A store that has passed the check begins with an allocated byte, so that the ones it strays to
\* come after it.
LEMMA StoreReaches ==
  ASSUME Whole(memory), NEW i, EffectiveAddress(i) \in MemoryAddress, ~Fails(i),
         EffectiveAddress(i) = 0 => StoreSize(i) = 0,
         i.op \in DOMAIN AccessSize, StoreSize(i) \in Nat,
         NEW s \in [1..StoreSize(i) -> Byte], memory' = Put(memory, EffectiveAddress(i), s),
         NEW x \in DOMAIN memory \ Allocated, memory'[x] # memory[x]
  PROVE  Strayed(i, x)
<1> DEFINE a == EffectiveAddress(i)
           n == StoreSize(i)
<1>1. a # 0 => Check(a, AccessSize[i.op])
  <2>1. i.op \notin Unchecked /\ i.op # "lmw"
    BY DEF AccessSize, Unchecked
  <2> QED BY <2>1 DEF Fails, SizeOf
<1>2. a # 0 => a \in Allocated /\ Offset(a, AccessSize[i.op] - 1) \in Allocated
  BY <1>1 DEF Check
<1> HIDE DEF a, n
<1>3. a \in MemoryAddress /\ n \in Nat /\ s \in [1..n -> Byte] /\ Put(memory, a, s)[x] # memory[x]
      /\ (a = 0 => n = 0)
  BY DEF a, n
<1>4. PICK k \in 0..(n - 1) : x = Offset(a, k)
  BY <1>3, PutReaches
<1>5. a # 0
  <2>1. CASE n = 0
    <3>1. k \in 0..(-1)
      BY <2>1
    <3> QED BY <3>1
  <2> QED BY <1>3, <2>1
<1>6. k # 0
  <2>1. a \in Int /\ 0 <= a /\ a < M /\ a + 0 = a
    BY <1>3, WordSize DEF MemoryAddress, Reg
  <2>2. a % M = a /\ a + 0 = a
    BY <2>1, Wrap, Zenon
  <2>3. Offset(a, 0) = a
    BY <2>2, Zenon DEF Offset
  <2> QED BY <1>2, <1>4, <1>5, <2>3
<1>7. k \in 1..(n - 1)
  BY <1>3, <1>6
<1> QED BY <1>2, <1>4, <1>5, <1>7 DEF Strayed, n

LEMMA StepReaches ==
  ASSUME StoreInv, StepProgram, NEW x \in DOMAIN memory \ Allocated, memory'[x] # memory[x],
         Head(code).op # "stswi"
  PROVE  Strayed(Head(code), x)
<1> DEFINE i == Head(code)
<1>1. code # <<>> /\ Execute(i) /\ i.op # "stswi"
  BY DEF StepProgram
<1>2. SUFFICES Strayed(i, x)
  OBVIOUS
<1>3. i.op \in MemoryOps
  BY <1>1 DEF Execute, storeVars
<1>4. Whole(memory) /\ RegistersOK /\ FloatsOK /\ Accesses(i) /\ byteCount \in Nat
  BY <1>1, <1>3, Accessing DEF StoreInv
<1> HIDE DEF i
<1>5. ExecuteLoadStore(i)
  BY <1>1, <1>3 DEF Execute, Fault, storeVars
<1>6. ~Fails(i) /\ EffectiveAddress(i) \in MemoryAddress
  BY <1>4, <1>5, Effective DEF ExecuteLoadStore, MemoryAddress
<1>0. i.op \notin Unchecked /\ EffectiveAddress(i) = 0 => i.op \in {"lswx", "stswx"} /\ byteCount = 0
  BY <1>4, <1>5 DEF ExecuteLoadStore, IsNull
<1>7. CASE ExecuteStore(i)
  <2>1. i.op \in {"stb", "sth", "sthbr", "stw", "stwbr", "stwcxd"}
        /\ memory' = Put(memory, EffectiveAddress(i), Stored(i.op, gpr[i.D]))
    BY <1>7 DEF ExecuteStore
  <2>2. i.op \in DOMAIN AccessSize /\ StoreSize(i) = AccessSize[i.op]
    BY <2>1 DEF AccessSize, StoreSize
  <2>4. EffectiveAddress(i) # 0
    BY <1>0, <2>1 DEF Unchecked
  <2>3. StoreSize(i) \in Nat /\ Stored(i.op, gpr[i.D]) \in [1..StoreSize(i) -> Byte]
    BY <1>4, <2>1, <2>2, StoredWord
  <2> QED BY <1>4, <1>6, <2>1, <2>2, <2>3, <2>4, StoreReaches
<1>8. CASE ExecuteStoreFloat(i)
  <2>1. i.op \in {"stfs", "stfd", "stfiw"} /\ memory' = Put(memory, EffectiveAddress(i), StoredFloat(i))
    BY <1>8 DEF ExecuteStoreFloat
  <2>2. i.op \in DOMAIN AccessSize /\ StoreSize(i) = AccessSize[i.op]
    BY <2>1 DEF AccessSize, StoreSize
  <2>4. EffectiveAddress(i) # 0
    BY <1>0, <2>1 DEF Unchecked
  <2>3. StoreSize(i) \in Nat /\ StoredFloat(i) \in [1..StoreSize(i) -> Byte]
    BY <1>4, <2>1, <2>2, StoredDouble
  <2> QED BY <1>4, <1>6, <2>1, <2>2, <2>3, <2>4, StoreReaches
<1>9. CASE StoreMultiple(i)
  <2> DEFINE n == 4 * (N - i.D)
             s == [k \in 1..n |-> Bytes(gpr[i.D + (k - 1) \div 4])[((k - 1) % 4) + 1]]
  <2>1. i.op = "stmw" /\ memory' = Put(memory, EffectiveAddress(i), s)
    BY <1>9 DEF StoreMultiple
  <2>2. i.op \in DOMAIN AccessSize /\ StoreSize(i) = n
    BY <2>1 DEF AccessSize, StoreSize
  <2>3. i.D \in GPR
    BY <1>4, <2>1 DEF Accesses
  <2>4. n \in Nat
    BY <2>3, LoadStoreAssumption
  <2>5. s \in [1..n -> Byte]
    BY <1>4, <2>3, StoredRow
  <2>6. EffectiveAddress(i) # 0
    BY <1>0, <2>1 DEF Unchecked
  <2> HIDE DEF n, s
  <2> QED BY <1>4, <1>6, <2>1, <2>2, <2>4, <2>5, <2>6, StoreReaches
<1>10. CASE StringIndexed(i)
  <2>1. i.op = "stswx" /\ memory' = Put(memory, EffectiveAddress(i), StringBytes(i, byteCount))
    BY <1>10 DEF StringIndexed
  <2>2. i.op \in DOMAIN AccessSize /\ StoreSize(i) = byteCount
    BY <2>1 DEF AccessSize, StoreSize
  <2>3. i.D \in GPR
    BY <1>4, <2>1 DEF Accesses
  <2>4. StringBytes(i, byteCount) \in [1..StoreSize(i) -> Byte]
    BY <1>4, <2>2, <2>3, StoredString
  <2>5. EffectiveAddress(i) = 0 => StoreSize(i) = 0
    BY <1>0, <2>1, <2>2 DEF Unchecked
  <2> QED BY <1>4, <1>6, <2>1, <2>2, <2>4, <2>5, StoreReaches
<1>11. memory' = memory \/ ExecuteStore(i) \/ ExecuteStoreFloat(i) \/ StoreMultiple(i) \/ StringIndexed(i)
  BY <1>1, <1>5 DEF ExecuteLoadStore, ExecuteLoad, ExecuteLoadFloat, LoadMultiple, StringImmediate
<1> QED BY <1>7, <1>8, <1>9, <1>10, <1>11

-----------------------------------------------------------------------------
(* What is left of a program, and its steps *)

\* What is left of a program after its first k instructions.
Left(c, k) == SubSeq(c, k + 1, Len(c))

LEMMA LeftSteps ==
  ASSUME NEW S, NEW c \in Seq(S), NEW k \in 0..Len(c)
  PROVE  /\ k = 0 => Left(c, k) = c
         /\ Left(c, k) = <<>> <=> k = Len(c)
         /\ k < Len(c) => Head(Left(c, k)) = c[k + 1] /\ Tail(Left(c, k)) = Left(c, k + 1)
<1>0. Len(c) \in Nat /\ k \in Nat /\ k <= Len(c) /\ \A j \in 1..Len(c) : c[j] \in S
  BY LenProperties, ElementOfSeq
<1>1. ASSUME k = 0 PROVE Left(c, k) = c
  BY <1>0, <1>1, SubSeqFull DEF Left
<1>2. ASSUME k = Len(c) PROVE Left(c, k) = <<>>
  <2>1. k + 1 \in Int /\ Len(c) \in Int /\ Len(c) < k + 1
    BY <1>0, <1>2
  <2> QED BY <2>1, SubSeqEmpty DEF Left
<1>3. ASSUME k < Len(c)
      PROVE  /\ Left(c, k) # <<>>
             /\ Head(Left(c, k)) = c[k + 1] /\ Tail(Left(c, k)) = Left(c, k + 1)
  <2> DEFINE m == k + 1
             n == Len(c)
  <2>1. m \in 1..n /\ n \in m..n /\ m \in Int /\ n \in Int /\ (\A j \in m..n : c[j] \in S)
        /\ m + 1 = k + 2 /\ m <= n
    BY <1>0, <1>3
  <2> HIDE DEF m, n
  <2>2. Len(SubSeq(c, m, n)) = n - m + 1
    BY <2>1, SubSeqProperties
  <2>3. Head(SubSeq(c, m, n)) = c[m] /\ Tail(SubSeq(c, m, n)) = SubSeq(c, m + 1, n)
    BY <2>1, HeadTailOfSubSeq DEF n
  <2>4. SubSeq(c, m, n) # <<>>
    <3>1. Len(<<>>) = 0
      BY EmptySeq
    <3>2. Len(SubSeq(c, m, n)) # 0
      BY <2>1, <2>2
    <3> QED BY <3>1, <3>2
  <2> QED BY <2>3, <2>4 DEF Left, m, n
<1> QED BY <1>0, <1>1, <1>2, <1>3

\* A step from there.
LEMMA LeftStep ==
  ASSUME NEW S, NEW c \in Seq(S), NEW k \in 0..Len(c), code = Left(c, k), StepProgram
  PROVE  /\ k < Len(c) /\ Execute(c[k + 1]) /\ code' = Left(c, k + 1)
         /\ initial' = initial
<1>1. code # <<>> /\ Execute(Head(code)) /\ code' = Tail(code) /\ initial' = initial
  BY DEF StepProgram
<1>2. Len(c) \in Nat /\ k <= Len(c)
  BY LenProperties
<1> QED BY <1>1, <1>2, LeftSteps

\* What an instruction that computes does to the registers, whatever it notes besides.
LEMMA ResultStep ==
  ASSUME NEW i, i.op \in PlainOps, i.OE = FALSE \/ i.op \notin Divisions, Execute(i)
  PROVE  /\ gpr' = [gpr EXCEPT ![i.D] = Result(i)]
         /\ i.OE = FALSE /\ i.Rc = TRUE => cr' = UpdateCRx(0, Result(i))
         /\ i.OE = FALSE /\ i.Rc = FALSE => cr' = cr
<1>1. i.op \notin MemoryOps
  BY DEF PlainOps, MemoryOps, AccessSize, Unchecked
<1>2. ExecuteFixedPoint(i)
  BY <1>1 DEF Execute
<1>3. ExecutePlainResult(i)
  BY <1>2 DEF ExecuteFixedPoint, ExecuteCarrying, ExecuteCompare, ExecuteTrap, ExecuteCR,
     CrOps, PlainOps, Carrying
<1> QED BY <1>3 DEF ExecutePlainResult, Write

LEMMA CarryingStep ==
  ASSUME NEW i, i.op \in Carrying, Execute(i)
  PROVE  /\ gpr' = [gpr EXCEPT ![i.D] = CarryResult(i)]
         /\ ca' = Flagged(CarryOut(i))
<1>1. i.op \notin MemoryOps
  BY DEF Carrying, MemoryOps, AccessSize, Unchecked
<1>2. ExecuteFixedPoint(i)
  BY <1>1 DEF Execute
<1>3. ExecuteCarrying(i)
  BY <1>2 DEF ExecuteFixedPoint, ExecutePlainResult, ExecuteCompare, ExecuteTrap, ExecuteCR,
     CrOps, PlainOps, Carrying
<1>4. i.op \notin Divisions
  BY DEF Carrying, Divisions
<1> QED BY <1>3, <1>4 DEF ExecuteCarrying, Write

LEMMA Results ==
  ASSUME NEW i
  PROVE  /\ i.op = "addi" /\ i.A # 0 => Result(i) = Add(gpr[i.A], i.imm)
         /\ i.op = "addis" /\ i.A = 0 => Result(i) = Add(0, High(i.imm))
         /\ i.op = "addx" => Result(i) = Add(gpr[i.A], gpr[i.B])
         /\ i.op = "subfx" => Result(i) = Sub(gpr[i.B], gpr[i.A])
         /\ i.op = "negx" => Result(i) = Add(Not(gpr[i.A]), 1)
         /\ i.op = "andx" => Result(i) = And(gpr[i.A], gpr[i.B])
         /\ i.op = "andcx" => Result(i) = And(gpr[i.A], Not(gpr[i.B]))
         /\ i.op = "orx" => Result(i) = Or(gpr[i.A], gpr[i.B])
         /\ i.op = "orcx" => Result(i) = Or(gpr[i.A], Not(gpr[i.B]))
         /\ i.op = "xorx" => Result(i) = Xor(gpr[i.A], gpr[i.B])
         /\ i.op = "nandx" => Result(i) = Not(And(gpr[i.A], gpr[i.B]))
         /\ i.op = "norx" => Result(i) = Not(Or(gpr[i.A], gpr[i.B]))
         /\ i.op = "eqvx" => Result(i) = Not(Xor(gpr[i.A], gpr[i.B]))
         /\ i.op = "andi_rc" => Result(i) = And(gpr[i.A], i.imm)
         /\ i.op = "ori" => Result(i) = Or(gpr[i.A], i.imm)
         /\ i.op = "xori" => Result(i) = Xor(gpr[i.A], i.imm)
         /\ i.op = "cntlzwx" => Result(i) = LeadingZeros(gpr[i.A])
         /\ i.op = "slwx" => Result(i) = ShiftedUp(gpr[i.A], gpr[i.B])
         /\ i.op = "srwx" => Result(i) = ShiftedDown(gpr[i.A], gpr[i.B])
         /\ i.op = "rlwinmx" => Result(i) = Extracted(gpr[i.A], i.imm, i.MB, i.ME)
         /\ i.op = "rlwimix" => Result(i) = Inserted(gpr[i.D], gpr[i.A], i.imm, i.MB, i.ME)
<1>1. /\ i.op = "addi" /\ i.A # 0 => Result(i) = Add(gpr[i.A], i.imm)
      /\ i.op = "addis" /\ i.A = 0 => Result(i) = Add(0, High(i.imm))
      /\ i.op = "addx" => Result(i) = Add(gpr[i.A], gpr[i.B])
      /\ i.op = "subfx" => Result(i) = Sub(gpr[i.B], gpr[i.A])
      /\ i.op = "negx" => Result(i) = Add(Not(gpr[i.A]), 1)
      /\ i.op = "andx" => Result(i) = And(gpr[i.A], gpr[i.B])
      /\ i.op = "andcx" => Result(i) = And(gpr[i.A], Not(gpr[i.B]))
      /\ i.op = "orx" => Result(i) = Or(gpr[i.A], gpr[i.B])
      /\ i.op = "orcx" => Result(i) = Or(gpr[i.A], Not(gpr[i.B]))
  BY DEF Result
<1>2. /\ i.op = "xorx" => Result(i) = Xor(gpr[i.A], gpr[i.B])
      /\ i.op = "nandx" => Result(i) = Not(And(gpr[i.A], gpr[i.B]))
      /\ i.op = "norx" => Result(i) = Not(Or(gpr[i.A], gpr[i.B]))
      /\ i.op = "eqvx" => Result(i) = Not(Xor(gpr[i.A], gpr[i.B]))
      /\ i.op = "andi_rc" => Result(i) = And(gpr[i.A], i.imm)
      /\ i.op = "ori" => Result(i) = Or(gpr[i.A], i.imm)
      /\ i.op = "xori" => Result(i) = Xor(gpr[i.A], i.imm)
      /\ i.op = "cntlzwx" => Result(i) = LeadingZeros(gpr[i.A])
  BY DEF Result
<1>3. /\ i.op = "slwx" => Result(i) = ShiftedUp(gpr[i.A], gpr[i.B])
      /\ i.op = "srwx" => Result(i) = ShiftedDown(gpr[i.A], gpr[i.B])
      /\ i.op = "rlwinmx" => Result(i) = Extracted(gpr[i.A], i.imm, i.MB, i.ME)
      /\ i.op = "rlwimix" => Result(i) = Inserted(gpr[i.D], gpr[i.A], i.imm, i.MB, i.ME)
  BY DEF Result, ShiftedUp, ShiftedDown, Extracted, Inserted
<1> QED BY <1>1, <1>2, <1>3

\* The same of instructions by their operands.
LEMMA OpStep ==
  ASSUME NEW op, NEW d, NEW a, NEW b, op \in PlainOps, Execute(Op(op, d, a, b))
  PROVE  gpr' = [gpr EXCEPT ![d] = Result(Op(op, d, a, b))] /\ cr' = cr
<1> DEFINE i == Op(op, d, a, b)
<1>1. i.op = op /\ i.D = d /\ i.OE = FALSE /\ i.Rc = FALSE
  BY OpFields
<1> HIDE DEF i
<1> QED BY <1>1, ResultStep DEF i

LEMMA OpResults ==
  ASSUME NEW d, NEW a, NEW b
  PROVE  /\ Result(Op("addx", d, a, b)) = Add(gpr[a], gpr[b])
         /\ Result(Op("subfx", d, a, b)) = Sub(gpr[b], gpr[a])
         /\ Result(Op("andx", d, a, b)) = And(gpr[a], gpr[b])
         /\ Result(Op("andcx", d, a, b)) = And(gpr[a], Not(gpr[b]))
         /\ Result(Op("orx", d, a, b)) = Or(gpr[a], gpr[b])
         /\ Result(Op("orcx", d, a, b)) = Or(gpr[a], Not(gpr[b]))
         /\ Result(Op("xorx", d, a, b)) = Xor(gpr[a], gpr[b])
         /\ Result(Op("nandx", d, a, b)) = Not(And(gpr[a], gpr[b]))
         /\ Result(Op("norx", d, a, b)) = Not(Or(gpr[a], gpr[b]))
         /\ Result(Op("cntlzwx", d, a, b)) = LeadingZeros(gpr[a])
         /\ Result(Op("slwx", d, a, b)) = ShiftedUp(gpr[a], gpr[b])
         /\ Result(Op("srwx", d, a, b)) = ShiftedDown(gpr[a], gpr[b])
<1>1. \A op : /\ Op(op, d, a, b).op = op /\ Op(op, d, a, b).A = a /\ Op(op, d, a, b).B = b
  BY OpFields
<1> QED BY <1>1, Results

LEMMA ImmStep ==
  ASSUME NEW op, NEW d, NEW a, NEW n, op \in PlainOps, Execute(Imm(op, d, a, n))
  PROVE  gpr' = [gpr EXCEPT ![d] = Result(Imm(op, d, a, n))] /\ cr' = cr
<1> DEFINE i == Imm(op, d, a, n)
<1>1. i.op = op /\ i.D = d /\ i.OE = FALSE /\ i.Rc = FALSE
  BY OpFields
<1> HIDE DEF i
<1> QED BY <1>1, ResultStep DEF i

LEMMA ImmResults ==
  ASSUME NEW d, NEW a, NEW n
  PROVE  /\ a # 0 => Result(Imm("addi", d, a, n)) = Add(gpr[a], n)
         /\ Result(Imm("addis", d, 0, n)) = Add(0, High(n))
         /\ Result(Imm("ori", d, a, n)) = Or(gpr[a], n)
         /\ Result(Imm("xori", d, a, n)) = Xor(gpr[a], n)
<1>1. \A op : /\ Imm(op, d, a, n).op = op /\ Imm(op, d, a, n).A = a /\ Imm(op, d, a, n).imm = n
              /\ Imm(op, d, 0, n).op = op /\ Imm(op, d, 0, n).A = 0 /\ Imm(op, d, 0, n).imm = n
  BY OpFields
<1> QED BY <1>1, Results

\* The same of the instructions that leave a carry.
LEMMA ImmCarryStep ==
  ASSUME NEW d, NEW a, NEW n
  PROVE  /\ Execute(Imm("subfic", d, a, n)) => gpr' = [gpr EXCEPT ![d] = Sub(n, gpr[a])]
         /\ Execute(Imm("srawix", d, a, n)) =>
              /\ gpr' = [gpr EXCEPT ![d] = Arithmetic(gpr[a], n)]
              /\ ca' = Flagged(n # 0 /\ Negative(gpr[a]) /\ ShiftLeft(gpr[a], W - n) # 0)
<1> DEFINE i == Imm("subfic", d, a, n)
           j == Imm("srawix", d, a, n)
<1>1. /\ i.op = "subfic" /\ i.D = d /\ i.A = a /\ i.imm = n
      /\ j.op = "srawix" /\ j.D = d /\ j.A = a /\ j.imm = n
      /\ "subfic" \in Carrying /\ "srawix" \in Carrying
  BY OpFields DEF Carrying
<1> HIDE DEF i, j
<1>2. Execute(i) => gpr' = [gpr EXCEPT ![d] = CarryResult(i)]
  BY <1>1, CarryingStep
<1>3. CarryResult(i) = Sub(n, gpr[a])
  BY <1>1, CarryingResults
<1>4. Execute(j) => gpr' = [gpr EXCEPT ![d] = CarryResult(j)] /\ ca' = Flagged(CarryOut(j))
  BY <1>1, CarryingStep
<1>5. CarryResult(j) = Arithmetic(gpr[a], n)
  BY <1>1 DEF CarryResult
<1>6. CarryOut(j) <=> n # 0 /\ Negative(gpr[a]) /\ ShiftLeft(gpr[a], W - n) # 0
  BY <1>1 DEF CarryOut
<1>7. Flagged(CarryOut(j)) = Flagged(n # 0 /\ Negative(gpr[a]) /\ ShiftLeft(gpr[a], W - n) # 0)
  BY <1>6 DEF Flagged
<1> QED BY <1>2, <1>3, <1>4, <1>5, <1>7 DEF i, j

LEMMA AddZeroStep ==
  ASSUME NEW d, NEW a, NEW b, Execute(Op("addzex", d, a, b))
  PROVE  gpr' = [gpr EXCEPT ![d] = Add(gpr[a], ca)]
<1> DEFINE i == Op("addzex", d, a, b)
<1>1. i.op = "addzex" /\ i.D = d /\ i.A = a /\ "addzex" \in Carrying
  BY OpFields DEF Carrying
<1> HIDE DEF i
<1>2. gpr' = [gpr EXCEPT ![d] = CarryResult(i)]
  BY <1>1, CarryingStep DEF i
<1>3. CarryResult(i) = Add(gpr[a], ca)
  BY <1>1, CarryingResults
<1> QED BY <1>2, <1>3

-----------------------------------------------------------------------------
(* The double-word shift *)

\* The registers of a double-word shift after k instructions.
ShiftFacts(g, k, a, b, n) ==
  LET up == ShiftedUp(a, n)
      down == ShiftedDown(b, Sub(W, n))
  IN /\ g[4] = n
     /\ k = 0 => g[1] = a /\ g[2] = b
     /\ k = 1 => g[1] = a /\ g[2] = b /\ g[5] = Sub(W, n)
     /\ k = 2 => g[1] = a /\ g[2] = b /\ g[5] = Sub(W, n) /\ g[6] = Add(n, -W)
     /\ k = 3 => g[1] = up /\ g[2] = b /\ g[5] = Sub(W, n) /\ g[6] = Add(n, -W)
     /\ k = 4 => g[1] = up /\ g[2] = b /\ g[5] = down /\ g[6] = Add(n, -W)
     /\ k = 5 => g[1] = Or(up, down) /\ g[2] = b /\ g[6] = Add(n, -W)
     /\ k = 6 => g[1] = Or(up, down) /\ g[2] = b /\ g[5] = ShiftedUp(b, Add(n, -W))
     /\ k = 7 => g[1] = HighWord(a, b, n) /\ g[2] = b
     /\ k = 8 => g[1] = HighWord(a, b, n) /\ g[2] = ShiftedUp(b, n)

LEMMA ShiftFactsNext ==
  ASSUME NEW k \in 0..7, NEW a, NEW b, NEW n, gpr \in [GPR -> Reg], ShiftFacts(gpr, k, a, b, n),
         Execute(ShiftCode[k + 1])
  PROVE  ShiftFacts(gpr', k + 1, a, b, n)
<1> DEFINE G == gpr
           H == gpr'
           u == -W
<1>1. DOMAIN G = GPR /\ {1, 2, 3, 4, 5, 6} \subseteq GPR
  BY Numbers
<1>2. /\ ShiftCode[1] = Imm("subfic", 5, 4, W) /\ ShiftCode[2] = Imm("addi", 6, 4, u)
      /\ ShiftCode[3] = Op("slwx", 1, 1, 4) /\ ShiftCode[4] = Op("srwx", 5, 2, 5)
      /\ ShiftCode[5] = Op("orx", 1, 1, 5) /\ ShiftCode[6] = Op("slwx", 5, 2, 6)
      /\ ShiftCode[7] = Op("orx", 1, 1, 5) /\ ShiftCode[8] = Op("slwx", 2, 2, 4)
  BY DEF ShiftCode
<1>3. {"addi", "slwx", "srwx", "orx"} \subseteq PlainOps
  BY DEF PlainOps
<1>4. /\ k = 0 => H = [G EXCEPT ![5] = Sub(W, G[4])]
      /\ k = 1 => H = [G EXCEPT ![6] = Add(G[4], u)]
      /\ k = 2 => H = [G EXCEPT ![1] = ShiftedUp(G[1], G[4])]
      /\ k = 3 => H = [G EXCEPT ![5] = ShiftedDown(G[2], G[5])]
  <2> HIDE DEF u
  <2>1. CASE k = 0
    BY <1>2, <2>1, ImmCarryStep
  <2>2. CASE k = 1
    <3>1. Execute(Imm("addi", 6, 4, u))
      BY <1>2, <2>2
    <3> QED BY <1>3, <2>2, <3>1, ImmStep, ImmResults
  <2>3. CASE k = 2
    <3>1. Execute(Op("slwx", 1, 1, 4))
      BY <1>2, <2>3
    <3> QED BY <1>3, <2>3, <3>1, OpStep, OpResults
  <2>4. CASE k = 3
    <3>1. Execute(Op("srwx", 5, 2, 5))
      BY <1>2, <2>4
    <3> QED BY <1>3, <2>4, <3>1, OpStep, OpResults
  <2> QED BY <2>1, <2>2, <2>3, <2>4
<1>5. /\ k = 4 => H = [G EXCEPT ![1] = Or(G[1], G[5])]
      /\ k = 5 => H = [G EXCEPT ![5] = ShiftedUp(G[2], G[6])]
      /\ k = 6 => H = [G EXCEPT ![1] = Or(G[1], G[5])]
      /\ k = 7 => H = [G EXCEPT ![2] = ShiftedUp(G[2], G[4])]
  <2>1. CASE k \in {4, 6}
    <3>1. Execute(Op("orx", 1, 1, 5))
      BY <1>2, <2>1
    <3> QED BY <1>3, <2>1, <3>1, OpStep, OpResults
  <2>2. CASE k = 5
    <3>1. Execute(Op("slwx", 5, 2, 6))
      BY <1>2, <2>2
    <3> QED BY <1>3, <2>2, <3>1, OpStep, OpResults
  <2>3. CASE k = 7
    <3>1. Execute(Op("slwx", 2, 2, 4))
      BY <1>2, <2>3
    <3> QED BY <1>3, <2>3, <3>1, OpStep, OpResults
  <2> QED BY <2>1, <2>2, <2>3
<1>6. ShiftFacts(G, k, a, b, n)
  OBVIOUS
<1> DEFINE up == ShiftedUp(a, n)
           over == Sub(W, n)
           down == ShiftedDown(b, over)
           less == Add(n, u)
           far == ShiftedUp(b, less)
           last == ShiftedUp(b, n)
           Facts(g, j) == /\ g[4] = n
                          /\ j = 0 => g[1] = a /\ g[2] = b
                          /\ j = 1 => g[1] = a /\ g[2] = b /\ g[5] = over
                          /\ j = 2 => g[1] = a /\ g[2] = b /\ g[5] = over /\ g[6] = less
                          /\ j = 3 => g[1] = up /\ g[2] = b /\ g[5] = over /\ g[6] = less
                          /\ j = 4 => g[1] = up /\ g[2] = b /\ g[5] = down /\ g[6] = less
                          /\ j = 5 => g[1] = Or(up, down) /\ g[2] = b /\ g[6] = less
                          /\ j = 6 => g[1] = Or(up, down) /\ g[2] = b /\ g[5] = far
                          /\ j = 7 => g[1] = Or(Or(up, down), far) /\ g[2] = b
                          /\ j = 8 => g[1] = Or(Or(up, down), far) /\ g[2] = last
<1>7. \A g, j : ShiftFacts(g, j, a, b, n) <=> Facts(g, j)
  BY DEF ShiftFacts, HighWord
<1>8. Facts(G, k)
  BY <1>6, <1>7
<1>9. /\ ShiftedUp(a, n) = up /\ Sub(W, n) = over /\ ShiftedDown(b, over) = down
      /\ Add(n, u) = less /\ ShiftedUp(b, less) = far /\ ShiftedUp(b, n) = last
  OBVIOUS
<1> HIDE DEF G, H, u, up, over, down, less, far, last
<1>10. ASSUME k = 0 PROVE Facts(H, 1)
  BY <1>1, <1>4, <1>8, <1>9, <1>10
<1>11. ASSUME k = 1 PROVE Facts(H, 2)
  BY <1>1, <1>4, <1>8, <1>9, <1>11
<1>12. ASSUME k = 2 PROVE Facts(H, 3)
  BY <1>1, <1>4, <1>8, <1>9, <1>12
<1>13. ASSUME k = 3 PROVE Facts(H, 4)
  BY <1>1, <1>4, <1>8, <1>9, <1>13
<1>14. ASSUME k = 4 PROVE Facts(H, 5)
  BY <1>1, <1>5, <1>8, <1>9, <1>14
<1>15. ASSUME k = 5 PROVE Facts(H, 6)
  BY <1>1, <1>5, <1>8, <1>9, <1>15
<1>16. ASSUME k = 6 PROVE Facts(H, 7)
  BY <1>1, <1>5, <1>8, <1>9, <1>16
<1>17. ASSUME k = 7 PROVE Facts(H, 8)
  BY <1>1, <1>5, <1>8, <1>9, <1>17
<1> HIDE DEF Facts
<1>18. Facts(H, k + 1)
  <2>1. k = 0 \/ k = 1 \/ k = 2 \/ k = 3 \/ k = 4 \/ k = 5 \/ k = 6 \/ k = 7
    OBVIOUS
  <2>2. 0 + 1 = 1 /\ 1 + 1 = 2 /\ 2 + 1 = 3 /\ 3 + 1 = 4 /\ 4 + 1 = 5 /\ 5 + 1 = 6 /\ 6 + 1 = 7 /\ 7 + 1 = 8
    OBVIOUS
  <2> QED BY <1>10, <1>11, <1>12, <1>13, <1>14, <1>15, <1>16, <1>17, <2>1, <2>2
<1>19. ShiftFacts(H, k + 1, a, b, n)
  BY <1>7, <1>18
<1> QED BY <1>19 DEF H

\* Such programs, by the operands in their registers.
LEMMA ShiftForm ==
  ASSUME NEW p \in Program, p.name \in {"shift", "halve"}
  PROVE  /\ p.gpr[1] \in Reg
         /\ p.name = "shift" =>
              p.gpr[2] \in Reg /\ p.gpr[4] \in 0..(2 * W - 1) /\ p.code = ShiftCode
         /\ p.name = "halve" =>
              /\ p.extra \in 0..(W - 1)
              /\ p.code = << Imm("srawix", 2, 1, p.extra), Op("addzex", 2, 2, 2) >>
<1>1. Sample \subseteq Reg /\ Amount \subseteq 0..(2 * W - 1) /\ {1, 2, 4} \subseteq GPR
  BY GuestProgramsAssumption, OperandAssumption, Numbers
<1>2. p \in ShiftPrograms
  BY KindOf
<1>3. ASSUME NEW n, NEW a, NEW b, p = ShiftProgram(n, a, b)
      PROVE  /\ p.name = "shift" /\ p.gpr[1] = a /\ p.gpr[2] = b /\ p.gpr[4] = n
             /\ p.code = ShiftCode
  BY <1>1, <1>3 DEF ShiftProgram, Prog
<1>4. ASSUME NEW n, NEW a, p = HalveProgram(n, a)
      PROVE  /\ p.name = "halve" /\ p.gpr[1] = a /\ p.extra = n
             /\ p.code = << Imm("srawix", 2, 1, n), Op("addzex", 2, 2, 2) >>
  <2> DEFINE c == << Imm("srawix", 2, 1, n), Op("addzex", 2, 2, 2) >>
  <2>1. HalveProgram(n, a) = [Prog("halve", <<a>>, c) EXCEPT !.extra = n]
    BY DEF HalveProgram
  <2> HIDE DEF c
  <2>2. p.name = "halve" /\ p.gpr[1] = a /\ p.extra = n /\ p.code = c
    BY <1>1, <1>4, <2>1 DEF Prog
  <2> QED BY <2>2 DEF c
<1>5. \/ \E n \in Amount, a, b \in Sample : p = ShiftProgram(n, a, b)
      \/ \E n \in 0..(W - 1), a \in Sample : p = HalveProgram(n, a)
  BY <1>2, ProgramForms
<1>6. CASE \E n \in Amount, a, b \in Sample : p = ShiftProgram(n, a, b)
  BY <1>1, <1>3, <1>6
<1>7. CASE \E n \in 0..(W - 1), a \in Sample : p = HalveProgram(n, a)
  BY <1>1, <1>4, <1>7
<1> QED BY <1>5, <1>6, <1>7

ShiftInv ==
  initial.name = "shift" =>
    \E k \in 0..8 : code = Left(ShiftCode, k) /\ ShiftFacts(gpr, k, Old(1), Old(2), Old(4))

LEMMA ShiftSequence == Len(ShiftCode) = 8 /\ \E S : ShiftCode \in Seq(S)
<1>1. Len(ShiftCode) = 8
  BY DEF ShiftCode
<1> QED BY <1>1, LegalDouble DEF LegalCode

LEMMA ShiftStart == InitProgram => ShiftInv
<1> SUFFICES ASSUME InitProgram, initial.name = "shift"
             PROVE  code = Left(ShiftCode, 0) /\ ShiftFacts(gpr, 0, Old(1), Old(2), Old(4))
  BY DEF ShiftInv
<1>1. initial \in Program /\ code = initial.code /\ gpr = initial.gpr
  BY DEF InitProgram
<1>2. code = ShiftCode
  BY <1>1, ShiftForm
<1>3. 0 \in 0..Len(ShiftCode)
  BY ShiftSequence
<1>4. Left(ShiftCode, 0) = ShiftCode
  BY <1>3, ShiftSequence, LeftSteps
<1>5. ShiftFacts(gpr, 0, gpr[1], gpr[2], gpr[4])
  BY DEF ShiftFacts
<1> QED BY <1>1, <1>2, <1>4, <1>5 DEF Old

LEMMA ShiftNext ==
  ASSUME StoreInv, ShiftInv, StepProgram
  PROVE  ShiftInv'
<1> SUFFICES ASSUME initial.name = "shift" PROVE ShiftInv'
  BY DEF ShiftInv, StepProgram
<1> DEFINE a == Old(1)
           b == Old(2)
           n == Old(4)
<1>1. gpr \in [GPR -> Reg] /\ initial' = initial
  BY DEF StoreInv, MachineTypeOK, StepProgram
<1>2. PICK k \in 0..8 : code = Left(ShiftCode, k) /\ ShiftFacts(gpr, k, a, b, n)
  BY DEF ShiftInv
<1>3. PICK S : ShiftCode \in Seq(S)
  BY ShiftSequence
<1>4. k \in 0..Len(ShiftCode) /\ Len(ShiftCode) = 8
  BY ShiftSequence
<1>5. k < 8 /\ Execute(ShiftCode[k + 1]) /\ code' = Left(ShiftCode, k + 1)
  BY <1>2, <1>3, <1>4, LeftStep
<1>6. k \in 0..7 /\ k + 1 \in 0..8
  BY <1>5
<1> HIDE DEF a, b, n
<1>7. ShiftFacts(gpr', k + 1, a, b, n)
  BY <1>1, <1>2, <1>5, <1>6, ShiftFactsNext
<1>8. a' = a /\ b' = b /\ n' = n
  BY <1>1 DEF a, b, n, Old
<1>9. \E j \in 0..8 : code' = Left(ShiftCode, j) /\ ShiftFacts(gpr', j, a', b', n')
  BY <1>5, <1>6, <1>7, <1>8
<1> QED BY <1>9 DEF ShiftInv, a, b, n

LEMMA ShiftEnd ==
  ASSUME ShiftInv, initial \in Program, Ends({"shift"})
  PROVE  Wide(gpr, 1, 2) = (Wide(initial.gpr, 1, 2) * Power[Old(4)]) % (M * M)
<1> DEFINE a == Old(1)
           b == Old(2)
           n == Old(4)
<1>1. initial.name = "shift" /\ code = <<>>
  BY DEF Ends
<1>2. PICK k \in 0..8 : code = Left(ShiftCode, k) /\ ShiftFacts(gpr, k, a, b, n)
  BY <1>1 DEF ShiftInv
<1>3. k = 8
  BY <1>1, <1>2, ShiftSequence, LeftSteps
<1>4. gpr[1] = HighWord(a, b, n) /\ gpr[2] = ShiftedUp(b, n)
  BY <1>2, <1>3 DEF ShiftFacts
<1>5. a \in Reg /\ b \in Reg /\ n \in 0..(2 * W - 1)
  BY <1>1, ShiftForm DEF Old
<1> HIDE DEF a, b, n
<1>6. HighWord(a, b, n) * M + ShiftedUp(b, n) = ((a * M + b) * Power[n]) % (M * M)
  BY <1>5, DoubleShift
<1> QED BY <1>4, <1>6 DEF Wide, a, b, n, Old

-----------------------------------------------------------------------------
(* A shift to the right, leading zeros, a magnitude *)

LEMMA OneForm ==
  ASSUME NEW p \in Program, p.name \in {"normalize", "abs"}
  PROVE  p.gpr[1] \in Reg /\ p.code = OneCode[p.name]
<1>1. Sample \subseteq Reg /\ 1 \in GPR /\ {"normalize", "abs"} \subseteq DOMAIN OneCode
  BY GuestProgramsAssumption, Numbers DEF OneCode
<1>2. p \in OnePrograms
  BY <1>1, KindOf
<1>3. PICK n \in DOMAIN OneCode, a \in Sample, b \in Sample : p = OneProgram(n, a, b)
  BY <1>2, ProgramForms
<1>4. p.name = n /\ p.code = OneCode[n] /\ p.gpr[1] = a
  BY <1>1, <1>3 DEF OneProgram, Prog
<1> QED BY <1>1, <1>4

\* A shift to the right by an immediate, and the carry for its rounding.
HalveInv ==
  initial.name = "halve" =>
    LET n == initial.extra
        a == Old(1)
        carry == Flagged(n # 0 /\ Negative(a) /\ ShiftLeft(a, W - n) # 0)
    IN /\ gpr[1] = a
       /\ \/ code = << Imm("srawix", 2, 1, n), Op("addzex", 2, 2, 2) >>
          \/ code = << Op("addzex", 2, 2, 2) >> /\ gpr[2] = Arithmetic(a, n) /\ ca = carry
          \/ code = <<>> /\ gpr[2] = Add(Arithmetic(a, n), carry)

LEMMA HalveStart == InitProgram => HalveInv
BY ShiftForm DEF InitProgram, HalveInv, Old

LEMMA HalveNext ==
  ASSUME StoreInv, HalveInv, StepProgram
  PROVE  HalveInv'
<1> SUFFICES ASSUME initial.name = "halve" PROVE HalveInv'
  BY DEF HalveInv, StepProgram
<1> DEFINE n == initial.extra
           a == Old(1)
           carry == Flagged(n # 0 /\ Negative(a) /\ ShiftLeft(a, W - n) # 0)
           shift == Imm("srawix", 2, 1, n)
           plus == Op("addzex", 2, 2, 2)
           down == Arithmetic(a, n)
<1>1. /\ gpr \in [GPR -> Reg] /\ initial' = initial /\ code # <<>> /\ Execute(Head(code))
      /\ code' = Tail(code) /\ {1, 2} \subseteq GPR
  BY Numbers DEF StoreInv, MachineTypeOK, StepProgram
<1>2. /\ gpr[1] = a
      /\ \/ code = << shift, plus >>
         \/ code = << plus >> /\ gpr[2] = down /\ ca = carry
  BY <1>1 DEF HalveInv
<1>3. Execute(shift) => gpr' = [gpr EXCEPT ![2] = down] /\ ca' = carry
  BY <1>2, ImmCarryStep
<1>4. Execute(plus) => gpr' = [gpr EXCEPT ![2] = Add(gpr[2], ca)]
  BY AddZeroStep
<1>5. n' = n /\ a' = a
  BY <1>1 DEF Old
<1>6. carry' = carry /\ down' = down /\ shift' = shift /\ plus' = plus
  BY <1>5
<1> SUFFICES gpr'[1] = a /\ ((code' = << plus >> /\ gpr'[2] = down /\ ca' = carry)
                             \/ (code' = <<>> /\ gpr'[2] = Add(down, carry)))
  BY <1>1, <1>5, <1>6 DEF HalveInv
<1> HIDE DEF n, a, carry, shift, plus, down
<1>7. CASE code = << shift, plus >>
  BY <1>1, <1>2, <1>3, <1>7
<1>8. CASE code = << plus >> /\ gpr[2] = down /\ ca = carry
  BY <1>1, <1>2, <1>4, <1>8
<1> QED BY <1>2, <1>7, <1>8

LEMMA HalveEnd ==
  ASSUME HalveInv, initial \in Program, Ends({"halve"})
  PROVE  Signed(gpr[2]) = Quotient(Signed(Old(1)), Power[initial.extra])
<1> DEFINE n == initial.extra
           a == Old(1)
           carry == Flagged(n # 0 /\ Negative(a) /\ ShiftLeft(a, W - n) # 0)
<1>1. initial.name = "halve" /\ code = <<>>
  BY DEF Ends
<1>2. n \in 0..(W - 1) /\ a \in Reg
  BY <1>1, ShiftForm DEF Old
<1>3. gpr[2] = Add(Arithmetic(a, n), carry)
  BY <1>1 DEF HalveInv
<1>4. carry = Flagged(n # 0 /\ Negative(a) /\ ShiftLeft(a, W - n) # 0)
  OBVIOUS
<1> HIDE DEF n, a, carry
<1>5. Signed(Add(Arithmetic(a, n), carry)) = Quotient(Signed(a), Power[n])
  BY <1>2, <1>4, Halved
<1> QED BY <1>3, <1>5 DEF n, a

\* A word shifted by its leading zeros, and back.
NormalizeInv ==
  initial.name = "normalize" =>
    LET a == Old(1)
        z == LeadingZeros(a)
        up == ShiftedUp(a, z)
    IN /\ gpr[1] = a
       /\ \/ code = OneCode["normalize"]
          \/ code = << Op("slwx", 2, 1, 5), Op("srwx", 3, 2, 5) >> /\ gpr[5] = z
          \/ code = << Op("srwx", 3, 2, 5) >> /\ gpr[5] = z /\ gpr[2] = up
          \/ code = <<>> /\ gpr[2] = up /\ gpr[3] = ShiftedDown(up, z)

LEMMA NormalizeStart == InitProgram => NormalizeInv
BY OneForm DEF InitProgram, NormalizeInv, Old

LEMMA NormalizeNext ==
  ASSUME StoreInv, NormalizeInv, StepProgram
  PROVE  NormalizeInv'
<1> SUFFICES ASSUME initial.name = "normalize" PROVE NormalizeInv'
  BY DEF NormalizeInv, StepProgram
<1> DEFINE a == Old(1)
           z == LeadingZeros(a)
           up == ShiftedUp(a, z)
           down == ShiftedDown(up, z)
           first == Op("cntlzwx", 5, 1, 1)
           second == Op("slwx", 2, 1, 5)
           third == Op("srwx", 3, 2, 5)
<1>1. /\ gpr \in [GPR -> Reg] /\ initial' = initial /\ code # <<>> /\ Execute(Head(code))
      /\ code' = Tail(code) /\ {1, 2, 3, 5} \subseteq GPR
  BY Numbers DEF StoreInv, MachineTypeOK, StepProgram
<1>2. OneCode["normalize"] = << first, second, third >>
  BY DEF OneCode
<1>3. /\ gpr[1] = a
      /\ \/ code = << first, second, third >>
         \/ code = << second, third >> /\ gpr[5] = z
         \/ code = << third >> /\ gpr[5] = z /\ gpr[2] = up
  BY <1>1, <1>2 DEF NormalizeInv
<1>4. {"cntlzwx", "slwx", "srwx"} \subseteq PlainOps
  BY DEF PlainOps
<1>5. Execute(first) => gpr' = [gpr EXCEPT ![5] = z]
  BY <1>3, <1>4, OpStep, OpResults
<1>6. Execute(second) => gpr' = [gpr EXCEPT ![2] = ShiftedUp(gpr[1], gpr[5])]
  BY <1>4, OpStep, OpResults
<1>7. Execute(third) => gpr' = [gpr EXCEPT ![3] = ShiftedDown(gpr[2], gpr[5])]
  BY <1>4, OpStep, OpResults
<1>8. a' = a
  BY <1>1 DEF Old
<1>9. z' = z /\ up' = up /\ down' = down
  BY <1>8
<1>10. ShiftedUp(a, z) = up /\ ShiftedDown(up, z) = down
  OBVIOUS
<1> SUFFICES gpr'[1] = a /\ \/ code' = << second, third >> /\ gpr'[5] = z
                            \/ code' = << third >> /\ gpr'[5] = z /\ gpr'[2] = up
                            \/ code' = <<>> /\ gpr'[2] = up /\ gpr'[3] = down
  BY <1>1, <1>8, <1>9 DEF NormalizeInv
<1> HIDE DEF a, z, up, down, first, second, third
<1>11. CASE code = << first, second, third >>
  BY <1>1, <1>3, <1>5, <1>11
<1>12. CASE code = << second, third >> /\ gpr[5] = z
  BY <1>1, <1>3, <1>6, <1>10, <1>12
<1>13. CASE code = << third >> /\ gpr[5] = z /\ gpr[2] = up
  BY <1>1, <1>3, <1>7, <1>10, <1>13
<1> QED BY <1>3, <1>11, <1>12, <1>13

LEMMA NormalizeEnd ==
  ASSUME NormalizeInv, initial \in Program, Ends({"normalize"})
  PROVE  gpr[3] = Old(1) /\ (Old(1) # 0 => Negative(gpr[2]))
<1> DEFINE a == Old(1)
           z == LeadingZeros(a)
<1>1. initial.name = "normalize" /\ code = <<>>
  BY DEF Ends
<1>2. a \in Reg
  BY <1>1, OneForm DEF Old
<1>3. OneCode["normalize"] # <<>>
  BY DEF OneCode
<1>4. gpr[2] = ShiftedUp(a, z) /\ gpr[3] = ShiftedDown(ShiftedUp(a, z), z)
  BY <1>1, <1>3 DEF NormalizeInv
<1>5. z = LeadingZeros(a)
  OBVIOUS
<1> HIDE DEF a, z
<1>6. ShiftedDown(ShiftedUp(a, z), z) = a /\ (a # 0 => Negative(ShiftedUp(a, z)))
  BY <1>2, <1>5, Normalized
<1> QED BY <1>4, <1>6 DEF a

\* The magnitude of a word without a branch.
AbsInv ==
  initial.name = "abs" =>
    LET a == Old(1)
        s == Arithmetic(a, W - 1)
    IN /\ gpr[1] = a
       /\ \/ code = OneCode["abs"]
          \/ code = << Op("xorx", 2, 1, 5), Op("subfx", 2, 5, 2) >> /\ gpr[5] = s
          \/ code = << Op("subfx", 2, 5, 2) >> /\ gpr[5] = s /\ gpr[2] = Xor(a, s)
          \/ code = <<>> /\ gpr[2] = Sub(Xor(a, s), s)

LEMMA AbsStart == InitProgram => AbsInv
BY OneForm DEF InitProgram, AbsInv, Old

LEMMA AbsNext ==
  ASSUME StoreInv, AbsInv, StepProgram
  PROVE  AbsInv'
<1> SUFFICES ASSUME initial.name = "abs" PROVE AbsInv'
  BY DEF AbsInv, StepProgram
<1> DEFINE a == Old(1)
           s == Arithmetic(a, W - 1)
           x == Xor(a, s)
           d == Sub(x, s)
           first == Imm("srawix", 5, 1, W - 1)
           second == Op("xorx", 2, 1, 5)
           third == Op("subfx", 2, 5, 2)
<1>1. /\ gpr \in [GPR -> Reg] /\ initial' = initial /\ code # <<>> /\ Execute(Head(code))
      /\ code' = Tail(code) /\ {1, 2, 5} \subseteq GPR
  BY Numbers DEF StoreInv, MachineTypeOK, StepProgram
<1>2. OneCode["abs"] = << first, second, third >>
  BY DEF OneCode
<1>3. /\ gpr[1] = a
      /\ \/ code = << first, second, third >>
         \/ code = << second, third >> /\ gpr[5] = s
         \/ code = << third >> /\ gpr[5] = s /\ gpr[2] = x
  BY <1>1, <1>2 DEF AbsInv
<1>4. {"xorx", "subfx"} \subseteq PlainOps
  BY DEF PlainOps
<1>5. Execute(first) => gpr' = [gpr EXCEPT ![5] = s]
  BY <1>3, ImmCarryStep
<1>6. Execute(second) => gpr' = [gpr EXCEPT ![2] = Xor(gpr[1], gpr[5])]
  BY <1>4, OpStep, OpResults
<1>7. Execute(third) => gpr' = [gpr EXCEPT ![2] = Sub(gpr[2], gpr[5])]
  BY <1>4, OpStep, OpResults
<1>8. a' = a
  BY <1>1 DEF Old
<1>9. s' = s /\ x' = x /\ d' = d
  BY <1>8
<1>10. Xor(a, s) = x /\ Sub(x, s) = d
  OBVIOUS
<1> SUFFICES gpr'[1] = a /\ \/ code' = << second, third >> /\ gpr'[5] = s
                            \/ code' = << third >> /\ gpr'[5] = s /\ gpr'[2] = x
                            \/ code' = <<>> /\ gpr'[2] = d
  BY <1>1, <1>8, <1>9 DEF AbsInv
<1> HIDE DEF a, s, x, d, first, second, third
<1>11. CASE code = << first, second, third >>
  BY <1>1, <1>3, <1>5, <1>11
<1>12. CASE code = << second, third >> /\ gpr[5] = s
  BY <1>1, <1>3, <1>6, <1>10, <1>12
<1>13. CASE code = << third >> /\ gpr[5] = s /\ gpr[2] = x
  BY <1>1, <1>3, <1>7, <1>10, <1>13
<1> QED BY <1>3, <1>11, <1>12, <1>13

LEMMA AbsEnd ==
  ASSUME AbsInv, initial \in Program, Ends({"abs"})
  PROVE  gpr[2] = Magnitude(Signed(Old(1)))
<1> DEFINE a == Old(1)
           s == Arithmetic(a, W - 1)
<1>1. initial.name = "abs" /\ code = <<>>
  BY DEF Ends
<1>2. a \in Reg
  BY <1>1, OneForm DEF Old
<1>3. OneCode["abs"] # <<>>
  BY DEF OneCode
<1>4. gpr[2] = Sub(Xor(a, s), s)
  BY <1>1, <1>3 DEF AbsInv
<1> HIDE DEF a
<1> QED BY <1>2, <1>4, Absolute DEF a

-----------------------------------------------------------------------------
(* A field is moved *)

\* Such programs, by the operands in their registers and what they are about.
LEMMA FieldForm ==
  ASSUME NEW p \in Program, p.name \in {"field", "logic", "constant"}
  PROVE  /\ p.name = "field" =>
              /\ p.gpr[1] \in Reg /\ p.gpr[2] \in Reg
              /\ p.extra[1] \in 0..(W - 1) /\ p.extra[2] \in 0..(W - 1) /\ p.extra[3] \in 0..(W - 1)
              /\ p.code = << Rotate("rlwimix", 1, 2, p.extra), Rotate("rlwinmx", 3, 2, p.extra) >>
         /\ p.name = "logic" => p.gpr[1] \in Reg /\ p.gpr[2] \in Reg /\ p.code = LogicCode
         /\ p.name = "constant" =>
              /\ p.extra[1] \in Int /\ p.extra[2] \in 0..3
              /\ p.code = ConstantProgram(p.extra[1], p.extra[2]).code
<1>1. Sample \subseteq Reg /\ {1, 2} \subseteq GPR
      /\ \A f \in Field : f[1] \in 0..(W - 1) /\ f[2] \in 0..(W - 1) /\ f[3] \in 0..(W - 1)
  <2>1. \A f \in (0..(W - 1)) \X (0..(W - 1)) \X (0..(W - 1)) :
          f[1] \in 0..(W - 1) /\ f[2] \in 0..(W - 1) /\ f[3] \in 0..(W - 1)
    OBVIOUS
  <2> QED BY <2>1, GuestProgramsAssumption, OperandAssumption, Numbers
<1>2. p \in FieldPrograms
  BY KindOf
<1>3. ASSUME NEW f, NEW a, NEW b, p = FieldProgram(f, a, b)
      PROVE  /\ p.name = "field" /\ p.gpr[1] = a /\ p.gpr[2] = b /\ p.extra = f
             /\ p.code = << Rotate("rlwimix", 1, 2, f), Rotate("rlwinmx", 3, 2, f) >>
  <2> DEFINE c == << Rotate("rlwimix", 1, 2, f), Rotate("rlwinmx", 3, 2, f) >>
  <2>1. FieldProgram(f, a, b) = [Prog("field", <<a, b>>, c) EXCEPT !.extra = f]
    BY DEF FieldProgram
  <2> HIDE DEF c
  <2>2. p.name = "field" /\ p.gpr[1] = a /\ p.gpr[2] = b /\ p.extra = f /\ p.code = c
    BY <1>1, <1>3, <2>1 DEF Prog
  <2> QED BY <2>2 DEF c
<1>4. ASSUME NEW a, NEW b, p = LogicProgram(a, b)
      PROVE  p.name = "logic" /\ p.gpr[1] = a /\ p.gpr[2] = b /\ p.code = LogicCode
  BY <1>1, <1>4 DEF LogicProgram, Prog
<1>5. ASSUME NEW n, NEW k, p = ConstantProgram(n, k)
      PROVE  p.name = "constant" /\ p.extra = <<n, k>> /\ p.code = ConstantProgram(n, k).code
  <2>1. ConstantProgram(n, k).name = "constant" /\ ConstantProgram(n, k).extra = <<n, k>>
    BY DEF ConstantProgram, Prog
  <2> QED BY <1>5, <2>1
<1>6. \/ \E f \in Field, a, b \in Sample : p = FieldProgram(f, a, b)
      \/ \E a, b \in Sample : p = LogicProgram(a, b)
      \/ \E n \in -2..1, k \in {0, 1, 2, 3} : p = ConstantProgram(n, k)
  BY <1>2, ProgramForms
<1>7. CASE \E f \in Field, a, b \in Sample : p = FieldProgram(f, a, b)
  BY <1>1, <1>3, <1>7
<1>8. CASE \E a, b \in Sample : p = LogicProgram(a, b)
  BY <1>1, <1>4, <1>8
<1>9. CASE \E n \in -2..1, k \in {0, 1, 2, 3} : p = ConstantProgram(n, k)
  <2>1. PICK n \in -2..1, k \in {0, 1, 2, 3} : p = ConstantProgram(n, k)
    BY <1>9
  <2>2. p.name = "constant" /\ p.extra = <<n, k>> /\ p.code = ConstantProgram(n, k).code
    BY <1>5, <2>1
  <2>3. p.extra[1] = n /\ p.extra[2] = k /\ n \in Int /\ k \in 0..3
    BY <2>2
  <2> QED BY <2>2, <2>3
<1> QED BY <1>6, <1>7, <1>8, <1>9

LEMMA RotateStep ==
  ASSUME NEW d, NEW a, NEW f
  PROVE  /\ Execute(Rotate("rlwimix", d, a, f)) =>
              gpr' = [gpr EXCEPT ![d] = Inserted(gpr[d], gpr[a], f[1], f[2], f[3])]
         /\ Execute(Rotate("rlwinmx", d, a, f)) =>
              gpr' = [gpr EXCEPT ![d] = Extracted(gpr[a], f[1], f[2], f[3])]
<1> DEFINE i == Rotate("rlwimix", d, a, f)
           j == Rotate("rlwinmx", d, a, f)
<1>1. /\ i.op = "rlwimix" /\ i.D = d /\ i.A = a /\ i.imm = f[1] /\ i.MB = f[2] /\ i.ME = f[3]
      /\ j.op = "rlwinmx" /\ j.D = d /\ j.A = a /\ j.imm = f[1] /\ j.MB = f[2] /\ j.ME = f[3]
  BY DEF Rotate
<1>2. "rlwimix" \in PlainOps /\ "rlwinmx" \in PlainOps
  BY DEF PlainOps
<1> HIDE DEF i, j
<1>3. Execute(i) => gpr' = [gpr EXCEPT ![d] = Result(i)]
  BY <1>1, <1>2, ResultStep DEF Divisions
<1>4. Execute(j) => gpr' = [gpr EXCEPT ![d] = Result(j)]
  BY <1>1, <1>2, ResultStep DEF Divisions
<1>5. Result(i) = Inserted(gpr[d], gpr[a], f[1], f[2], f[3])
  BY <1>1, Results
<1>6. Result(j) = Extracted(gpr[a], f[1], f[2], f[3])
  BY <1>1, Results
<1> QED BY <1>3, <1>4, <1>5, <1>6 DEF i, j

\* A field inserted, and the same field taken out.
FieldInv ==
  initial.name = "field" =>
    LET f == initial.extra
        a == Old(2)
        mixed == Inserted(Old(1), a, f[1], f[2], f[3])
    IN /\ gpr[2] = a
       /\ \/ /\ code = << Rotate("rlwimix", 1, 2, f), Rotate("rlwinmx", 3, 2, f) >>
             /\ gpr[1] = Old(1)
          \/ code = << Rotate("rlwinmx", 3, 2, f) >> /\ gpr[1] = mixed
          \/ code = <<>> /\ gpr[1] = mixed /\ gpr[3] = Extracted(a, f[1], f[2], f[3])

LEMMA FieldStart == InitProgram => FieldInv
BY FieldForm DEF InitProgram, FieldInv, Old

LEMMA FieldNext ==
  ASSUME StoreInv, FieldInv, StepProgram
  PROVE  FieldInv'
<1> SUFFICES ASSUME initial.name = "field" PROVE FieldInv'
  BY DEF FieldInv, StepProgram
<1> DEFINE f == initial.extra
           o == Old(1)
           a == Old(2)
           mixed == Inserted(o, a, f[1], f[2], f[3])
           taken == Extracted(a, f[1], f[2], f[3])
           mix == Rotate("rlwimix", 1, 2, f)
           take == Rotate("rlwinmx", 3, 2, f)
<1>1. /\ gpr \in [GPR -> Reg] /\ initial' = initial /\ code # <<>> /\ Execute(Head(code))
      /\ code' = Tail(code) /\ {1, 2, 3} \subseteq GPR
  BY Numbers DEF StoreInv, MachineTypeOK, StepProgram
<1>2. /\ gpr[2] = a
      /\ \/ code = << mix, take >> /\ gpr[1] = o
         \/ code = << take >> /\ gpr[1] = mixed
  BY <1>1 DEF FieldInv
<1>3. Execute(mix) => gpr' = [gpr EXCEPT ![1] = Inserted(gpr[1], gpr[2], f[1], f[2], f[3])]
  BY RotateStep
<1>4. Execute(take) => gpr' = [gpr EXCEPT ![3] = Extracted(gpr[2], f[1], f[2], f[3])]
  BY RotateStep
<1>5. f' = f /\ o' = o /\ a' = a
  BY <1>1 DEF Old
<1>6. mixed' = mixed /\ taken' = taken /\ mix' = mix /\ take' = take
  BY <1>5
<1>7. Inserted(o, a, f[1], f[2], f[3]) = mixed /\ Extracted(a, f[1], f[2], f[3]) = taken
  OBVIOUS
<1> SUFFICES gpr'[2] = a /\ ((code' = << take >> /\ gpr'[1] = mixed)
                             \/ (code' = <<>> /\ gpr'[1] = mixed /\ gpr'[3] = taken))
  BY <1>1, <1>5, <1>6 DEF FieldInv
<1> HIDE DEF f, o, a, mixed, taken, mix, take
<1>8. CASE code = << mix, take >> /\ gpr[1] = o
  BY <1>1, <1>2, <1>3, <1>7, <1>8
<1>9. CASE code = << take >> /\ gpr[1] = mixed
  BY <1>1, <1>2, <1>4, <1>7, <1>9
<1> QED BY <1>2, <1>8, <1>9

LEMMA FieldEnd ==
  ASSUME FieldInv, initial \in Program, Ends({"field"}),
         NEW sh, sh = initial.extra[1], NEW mb, mb = initial.extra[2], NEW me, me = initial.extra[3],
         NEW p \in 0..(W - 1)
  PROVE  /\ BitAt(gpr[1], p) = IF Between(p, mb, me) THEN BitAt(Old(2), (p + sh) % W)
                               ELSE BitAt(Old(1), p)
         /\ BitAt(gpr[3], p) = (Between(p, mb, me) /\ BitAt(Old(2), (p + sh) % W))
<1> DEFINE o == Old(1)
           a == Old(2)
<1>1. initial.name = "field" /\ code = <<>>
  BY DEF Ends
<1>2. /\ o \in Reg /\ a \in Reg /\ sh \in 0..(W - 1) /\ mb \in 0..(W - 1) /\ me \in 0..(W - 1)
  BY <1>1, FieldForm DEF Old
<1>3. gpr[1] = Inserted(o, a, sh, mb, me) /\ gpr[3] = Extracted(a, sh, mb, me)
  BY <1>1 DEF FieldInv
<1> HIDE DEF o, a
<1>4. /\ BitAt(Inserted(o, a, sh, mb, me), p)
           = IF Between(p, mb, me) THEN BitAt(a, (p + sh) % W) ELSE BitAt(o, p)
      /\ BitAt(Extracted(a, sh, mb, me), p) = (Between(p, mb, me) /\ BitAt(a, (p + sh) % W))
  BY <1>2, FieldMoved, SMTT(30)
<1> DEFINE mixed == Inserted(o, a, sh, mb, me)
           taken == Extracted(a, sh, mb, me)
           inside == Between(p, mb, me)
           moved == BitAt(a, (p + sh) % W)
           kept == BitAt(o, p)
<1>5. gpr[1] = mixed /\ gpr[3] = taken
  BY <1>3
<1>6. /\ BitAt(mixed, p) = IF inside THEN moved ELSE kept
      /\ BitAt(taken, p) = (inside /\ moved)
  BY <1>4
<1> HIDE DEF mixed, taken, inside, moved, kept
<1>7. /\ BitAt(gpr[1], p) = IF inside THEN moved ELSE kept
      /\ BitAt(gpr[3], p) = (inside /\ moved)
  BY <1>5, <1>6
<1> QED BY <1>7 DEF inside, moved, kept, o, a

-----------------------------------------------------------------------------
(* The logical instructions *)

\* The registers and the condition register of the logical instructions after k of them.
LogicFacts(g, c, k, a, b) ==
  LET i == And(a, b)
      u == Or(a, b)
      x == Xor(a, b)
  IN /\ g[1] = a
     /\ k < 9 => g[2] = b
     /\ k \in 1..6 => g[3] = i
     /\ k \in 2..7 => g[4] = u
     /\ k >= 3 => g[5] = Add(i, u)
     /\ k = 4 => g[6] = x
     /\ k = 5 => g[6] = Add(x, i)
     /\ k >= 6 => g[6] = Sub(u, Add(x, i))
     /\ k >= 9 => g[2] = Not(x) /\ (g[2] = 0 <=> "eq" \in c[0])
     /\ k = 11 => g[3] = M - 1

\* What the instructions do, each from what it finds.
LEMMA LogicSteps ==
  ASSUME NEW k \in 0..10, Execute(LogicCode[k + 1])
  PROVE  /\ k = 0 => gpr' = [gpr EXCEPT ![3] = And(gpr[1], gpr[2])]
         /\ k = 1 => gpr' = [gpr EXCEPT ![4] = Or(gpr[1], gpr[2])]
         /\ k = 2 => gpr' = [gpr EXCEPT ![5] = Add(gpr[3], gpr[4])]
         /\ k = 3 => gpr' = [gpr EXCEPT ![6] = Xor(gpr[1], gpr[2])]
         /\ k = 4 => gpr' = [gpr EXCEPT ![6] = Add(gpr[6], gpr[3])]
         /\ k = 5 => gpr' = [gpr EXCEPT ![6] = Sub(gpr[4], gpr[6])]
         /\ k = 6 => gpr' = [gpr EXCEPT ![3] = Not(And(gpr[1], gpr[2]))]
         /\ k = 7 => gpr' = [gpr EXCEPT ![4] = Not(Or(gpr[1], gpr[2]))]
         /\ k = 8 => /\ gpr' = [gpr EXCEPT ![2] = Not(Xor(gpr[1], gpr[2]))]
                     /\ cr' = UpdateCRx(0, Not(Xor(gpr[1], gpr[2])))
         /\ k = 9 => gpr' = [gpr EXCEPT ![3] = And(gpr[3], Not(gpr[4]))] /\ cr' = cr
         /\ k = 10 => gpr' = [gpr EXCEPT ![3] = Or(gpr[3], Not(gpr[3]))] /\ cr' = cr
<1>1. /\ LogicCode[1] = Op("andx", 3, 1, 2) /\ LogicCode[2] = Op("orx", 4, 1, 2)
      /\ LogicCode[3] = Op("addx", 5, 3, 4) /\ LogicCode[4] = Op("xorx", 6, 1, 2)
      /\ LogicCode[5] = Op("addx", 6, 6, 3) /\ LogicCode[6] = Op("subfx", 6, 6, 4)
      /\ LogicCode[7] = Op("nandx", 3, 1, 2) /\ LogicCode[8] = Op("norx", 4, 1, 2)
      /\ LogicCode[9] = Recording(Op("eqvx", 2, 1, 2)) /\ LogicCode[10] = Op("andcx", 3, 3, 4)
      /\ LogicCode[11] = Op("orcx", 3, 3, 3)
  BY DEF LogicCode
<1>2. {"andx", "orx", "addx", "xorx", "subfx", "nandx", "norx", "eqvx", "andcx", "orcx"} \subseteq PlainOps
  BY DEF PlainOps
<1>3. \A op \in {"andx", "orx", "addx", "xorx", "subfx", "nandx", "norx", "andcx", "orcx"} :
        \A d, a, b :
          Execute(Op(op, d, a, b)) => gpr' = [gpr EXCEPT ![d] = Result(Op(op, d, a, b))] /\ cr' = cr
  BY <1>2, OpStep
<1>4. CASE k = 0
  BY <1>1, <1>3, <1>4, OpResults
<1>5. CASE k = 1
  BY <1>1, <1>3, <1>5, OpResults
<1>6. CASE k = 2
  BY <1>1, <1>3, <1>6, OpResults
<1>7. CASE k = 3
  BY <1>1, <1>3, <1>7, OpResults
<1>8. CASE k = 4
  BY <1>1, <1>3, <1>8, OpResults
<1>9. CASE k = 5
  BY <1>1, <1>3, <1>9, OpResults
<1>10. CASE k = 6
  BY <1>1, <1>3, <1>10, OpResults
<1>11. CASE k = 7
  BY <1>1, <1>3, <1>11, OpResults
<1>12. CASE k = 8
  <2> DEFINE i == Recording(Op("eqvx", 2, 1, 2))
  <2>1. i.op = "eqvx" /\ i.D = 2 /\ i.A = 1 /\ i.B = 2 /\ i.OE = FALSE /\ i.Rc = TRUE
    BY DEF Recording, Op
  <2>2. Execute(i)
    BY <1>1, <1>12
  <2> HIDE DEF i
  <2>3. gpr' = [gpr EXCEPT ![2] = Result(i)] /\ cr' = UpdateCRx(0, Result(i))
    BY <1>2, <2>1, <2>2, ResultStep DEF Divisions
  <2>4. Result(i) = Not(Xor(gpr[1], gpr[2]))
    BY <2>1, Results
  <2> QED BY <1>12, <2>3, <2>4
<1>13. CASE k = 9
  BY <1>1, <1>3, <1>13, OpResults
<1>14. CASE k = 10
  BY <1>1, <1>3, <1>14, OpResults
<1> QED BY <1>4, <1>5, <1>6, <1>7, <1>8, <1>9, <1>10, <1>11, <1>12, <1>13, <1>14

LEMMA RecordsZero ==
  ASSUME cr \in [CR -> SUBSET Flag], NEW v
  PROVE  "eq" \in UpdateCRx(0, v)[0] <=> v = 0
<1>1. UpdateCRx(0, v)[0] = (IF v = 0 THEN {"eq"} ELSE IF Negative(v) THEN {"lt"} ELSE {"gt"})
                           \cup (IF so THEN {"so"} ELSE {})
  BY Numbers DEF UpdateCRx
<1> QED BY <1>1

LEMMA LogicFactsNext ==
  ASSUME NEW k \in 0..10, NEW a \in Reg, NEW b \in Reg,
         gpr \in [GPR -> Reg], cr \in [CR -> SUBSET Flag],
         LogicFacts(gpr, cr, k, a, b), Execute(LogicCode[k + 1])
  PROVE  LogicFacts(gpr', cr', k + 1, a, b)
<1> DEFINE G == gpr
           H == gpr'
           c == cr
           d == cr'
           i == And(a, b)
           u == Or(a, b)
           x == Xor(a, b)
           sum == Add(i, u)
           both == Add(x, i)
           none == Sub(u, both)
           same == Not(x)
           top == M - 1
           old3 == And(G[3], Not(G[4]))
           Facts(g, e, j) == /\ g[1] = a
                             /\ j < 9 => g[2] = b
                             /\ j \in 1..6 => g[3] = i
                             /\ j \in 2..7 => g[4] = u
                             /\ j >= 3 => g[5] = sum
                             /\ j = 4 => g[6] = x
                             /\ j = 5 => g[6] = both
                             /\ j >= 6 => g[6] = none
                             /\ j >= 9 => g[2] = same /\ (g[2] = 0 <=> "eq" \in e[0])
                             /\ j = 11 => g[3] = top
<1>1. DOMAIN G = GPR /\ {1, 2, 3, 4, 5, 6} \subseteq GPR
  BY Numbers
<1>2. \A g, e, j : LogicFacts(g, e, j, a, b) <=> Facts(g, e, j)
  BY DEF LogicFacts
<1>3. Facts(G, c, k)
  BY <1>2
<1>4. /\ And(a, b) = i /\ Or(a, b) = u /\ Xor(a, b) = x /\ Add(i, u) = sum /\ Add(x, i) = both
      /\ Sub(u, both) = none /\ Not(x) = same
  OBVIOUS
<1>5. Or(G[3], Not(G[3])) = top
  <2>1. G[3] \in Reg
    BY <1>1
  <2> QED BY <2>1, LogicTried
<1>6. "eq" \in UpdateCRx(0, same)[0] <=> same = 0
  BY RecordsZero
<1>7. /\ k = 0 => H = [G EXCEPT ![3] = And(G[1], G[2])]
      /\ k = 1 => H = [G EXCEPT ![4] = Or(G[1], G[2])]
      /\ k = 2 => H = [G EXCEPT ![5] = Add(G[3], G[4])]
      /\ k = 3 => H = [G EXCEPT ![6] = Xor(G[1], G[2])]
      /\ k = 4 => H = [G EXCEPT ![6] = Add(G[6], G[3])]
      /\ k = 5 => H = [G EXCEPT ![6] = Sub(G[4], G[6])]
  BY LogicSteps
<1>8. /\ k = 6 => H = [G EXCEPT ![3] = Not(And(G[1], G[2]))]
      /\ k = 7 => H = [G EXCEPT ![4] = Not(Or(G[1], G[2]))]
      /\ k = 8 => H = [G EXCEPT ![2] = Not(Xor(G[1], G[2]))] /\ d = UpdateCRx(0, Not(Xor(G[1], G[2])))
      /\ k = 9 => H = [G EXCEPT ![3] = old3] /\ d = c
      /\ k = 10 => H = [G EXCEPT ![3] = Or(G[3], Not(G[3]))] /\ d = c
  BY LogicSteps
<1> HIDE DEF G, H, c, d, i, u, x, sum, both, none, same, top, old3
<1>10. ASSUME k = 0 PROVE Facts(H, d, 1)
  BY <1>1, <1>3, <1>4, <1>7, <1>10
<1>11. ASSUME k = 1 PROVE Facts(H, d, 2)
  BY <1>1, <1>3, <1>4, <1>7, <1>11
<1>12. ASSUME k = 2 PROVE Facts(H, d, 3)
  BY <1>1, <1>3, <1>4, <1>7, <1>12
<1>13. ASSUME k = 3 PROVE Facts(H, d, 4)
  BY <1>1, <1>3, <1>4, <1>7, <1>13
<1>14. ASSUME k = 4 PROVE Facts(H, d, 5)
  BY <1>1, <1>3, <1>4, <1>7, <1>14
<1>15. ASSUME k = 5 PROVE Facts(H, d, 6)
  BY <1>1, <1>3, <1>4, <1>7, <1>15
<1>16. ASSUME k = 6 PROVE Facts(H, d, 7)
  BY <1>1, <1>3, <1>8, <1>16
<1>17. ASSUME k = 7 PROVE Facts(H, d, 8)
  BY <1>1, <1>3, <1>8, <1>17
<1>18. ASSUME k = 8 PROVE Facts(H, d, 9)
  <2>1. G[1] = a /\ G[2] = b
    BY <1>3, <1>18
  <2>2. H = [G EXCEPT ![2] = same] /\ d = UpdateCRx(0, same)
    BY <1>4, <1>8, <1>18, <2>1
  <2> QED BY <1>1, <1>3, <1>6, <1>18, <2>2
<1>19. ASSUME k = 9 PROVE Facts(H, d, 10)
  BY <1>1, <1>3, <1>8, <1>19
<1>20. ASSUME k = 10 PROVE Facts(H, d, 11)
  BY <1>1, <1>3, <1>5, <1>8, <1>20
<1> HIDE DEF Facts
<1>21. Facts(H, d, k + 1)
  <2>1. k = 0 \/ k = 1 \/ k = 2 \/ k = 3 \/ k = 4 \/ k = 5 \/ k = 6 \/ k = 7 \/ k = 8 \/ k = 9 \/ k = 10
    OBVIOUS
  <2>2. /\ 0 + 1 = 1 /\ 1 + 1 = 2 /\ 2 + 1 = 3 /\ 3 + 1 = 4 /\ 4 + 1 = 5 /\ 5 + 1 = 6
        /\ 6 + 1 = 7 /\ 7 + 1 = 8 /\ 8 + 1 = 9 /\ 9 + 1 = 10 /\ 10 + 1 = 11
    OBVIOUS
  <2> QED BY <1>10, <1>11, <1>12, <1>13, <1>14, <1>15, <1>16, <1>17, <1>18, <1>19, <1>20, <2>1, <2>2
<1>22. LogicFacts(H, d, k + 1, a, b)
  BY <1>2, <1>21
<1> QED BY <1>22 DEF H, d

LogicInv ==
  initial.name = "logic" =>
    \E k \in 0..11 : code = Left(LogicCode, k) /\ LogicFacts(gpr, cr, k, Old(1), Old(2))

LEMMA LogicSequence == Len(LogicCode) = 11 /\ \E S : LogicCode \in Seq(S)
<1>1. Len(LogicCode) = 11
  BY DEF LogicCode
<1> QED BY <1>1, LegalLogic DEF LegalCode

LEMMA LogicStart == InitProgram => LogicInv
<1> SUFFICES ASSUME InitProgram, initial.name = "logic"
             PROVE  code = Left(LogicCode, 0) /\ LogicFacts(gpr, cr, 0, Old(1), Old(2))
  BY DEF LogicInv
<1>1. initial \in Program /\ code = initial.code /\ gpr = initial.gpr
  BY DEF InitProgram
<1>2. code = LogicCode
  BY <1>1, FieldForm
<1>3. 0 \in 0..Len(LogicCode)
  BY LogicSequence
<1>4. Left(LogicCode, 0) = LogicCode
  BY <1>3, LogicSequence, LeftSteps
<1>5. LogicFacts(gpr, cr, 0, gpr[1], gpr[2])
  BY DEF LogicFacts
<1> QED BY <1>1, <1>2, <1>4, <1>5 DEF Old

LEMMA LogicNext ==
  ASSUME StoreInv, initial \in Program, LogicInv, StepProgram
  PROVE  LogicInv'
<1> SUFFICES ASSUME initial.name = "logic" PROVE LogicInv'
  BY DEF LogicInv, StepProgram
<1> DEFINE a == Old(1)
           b == Old(2)
<1>1. gpr \in [GPR -> Reg] /\ cr \in [CR -> SUBSET Flag] /\ initial' = initial
  BY DEF StoreInv, MachineTypeOK, StepProgram
<1>2. PICK k \in 0..11 : code = Left(LogicCode, k) /\ LogicFacts(gpr, cr, k, a, b)
  BY DEF LogicInv
<1>3. PICK S : LogicCode \in Seq(S)
  BY LogicSequence
<1>4. k \in 0..Len(LogicCode) /\ Len(LogicCode) = 11
  BY LogicSequence
<1>5. k < 11 /\ Execute(LogicCode[k + 1]) /\ code' = Left(LogicCode, k + 1)
  BY <1>2, <1>3, <1>4, LeftStep
<1>6. k \in 0..10 /\ k + 1 \in 0..11
  BY <1>5
<1>7. a \in Reg /\ b \in Reg
  BY FieldForm DEF Old
<1> HIDE DEF a, b
<1>8. LogicFacts(gpr', cr', k + 1, a, b)
  BY <1>1, <1>2, <1>5, <1>6, <1>7, LogicFactsNext
<1>9. a' = a /\ b' = b
  BY <1>1 DEF a, b, Old
<1>10. \E j \in 0..11 : code' = Left(LogicCode, j) /\ LogicFacts(gpr', cr', j, a', b')
  BY <1>5, <1>6, <1>8, <1>9
<1> QED BY <1>10 DEF LogicInv, a, b

LEMMA LogicEnd ==
  ASSUME LogicInv, initial \in Program, Ends({"logic"})
  PROVE  /\ gpr[5] = Add(Old(1), Old(2))
         /\ gpr[6] = 0
         /\ gpr[2] = M - 1 <=> Old(1) = Old(2)
         /\ gpr[2] = 0 <=> "eq" \in cr[0]
         /\ gpr[3] = M - 1
<1> DEFINE a == Old(1)
           b == Old(2)
<1>1. initial.name = "logic" /\ code = <<>>
  BY DEF Ends
<1>2. PICK k \in 0..11 : code = Left(LogicCode, k) /\ LogicFacts(gpr, cr, k, a, b)
  BY <1>1 DEF LogicInv
<1>3. k = 11
  BY <1>1, <1>2, LogicSequence, LeftSteps
<1>4. a \in Reg /\ b \in Reg
  BY <1>1, FieldForm DEF Old
<1> HIDE DEF a, b
<1>5. /\ gpr[5] = Add(And(a, b), Or(a, b)) /\ gpr[6] = Sub(Or(a, b), Add(Xor(a, b), And(a, b)))
      /\ gpr[2] = Not(Xor(a, b)) /\ (gpr[2] = 0 <=> "eq" \in cr[0]) /\ gpr[3] = M - 1
  BY <1>2, <1>3 DEF LogicFacts
<1>6. /\ Add(And(a, b), Or(a, b)) = Add(a, b) /\ Sub(Or(a, b), Add(Xor(a, b), And(a, b))) = 0
      /\ Not(Xor(a, b)) = M - 1 <=> a = b
  BY <1>4, LogicTried
<1> QED BY <1>5, <1>6 DEF a, b

-----------------------------------------------------------------------------
(* A constant is made *)

\* The registers of a constant's construction after k instructions.
ConstantFacts(g, k, n, c) ==
  LET x == Or(High(n), c) IN
  /\ k = 1 => g[1] = High(n)
  /\ k >= 2 => g[1] = x
  /\ k >= 3 => g[2] = And(x, Power[W \div 2] - 1)
  /\ k >= 4 => g[3] = Xor(x, c)
  /\ k = 6 => g[5] = Add(Not(x), 1)

\* Its instructions.
ConstantCode(n, c) ==
  << Imm("addis", 1, 0, n), Imm("ori", 1, 1, c), Recording(Imm("andi_rc", 2, 1, Power[W \div 2] - 1)),
     Imm("xori", 3, 1, c), Imm("extshx", 4, 2, 0), Checking(Op("negx", 5, 1, 1)) >>

LEMMA ConstantSequence ==
  ASSUME NEW n \in Int, NEW c \in Int
  PROVE  /\ ConstantProgram(n, c).code = ConstantCode(n, c)
         /\ Len(ConstantCode(n, c)) = 6
         /\ \E S : ConstantCode(n, c) \in Seq(S)
<1>1. ConstantProgram(n, c).code = ConstantCode(n, c)
  <2> DEFINE q == ConstantCode(n, c)
  <2>1. ConstantProgram(n, c) = [Prog("constant", <<>>, q) EXCEPT !.extra = <<n, c>>]
    BY DEF ConstantProgram, ConstantCode
  <2> HIDE DEF q
  <2>2. ConstantProgram(n, c).code = q
    BY <2>1 DEF Prog
  <2> QED BY <2>2 DEF q
<1>2. Len(ConstantCode(n, c)) = 6
  BY DEF ConstantCode
<1>3. LegalCode(ConstantProgram(n, c).code, {})
  BY LegalLogic
<1> QED BY <1>1, <1>2, <1>3 DEF LegalCode

\* What they do, each from what it finds.
LEMMA ConstantSteps ==
  ASSUME NEW k \in 0..5, NEW n, NEW c, NEW i, i = ConstantCode(n, c)[k + 1], Execute(i)
  PROVE  /\ k = 0 => gpr' = [gpr EXCEPT ![1] = Add(0, High(n))]
         /\ k = 1 => gpr' = [gpr EXCEPT ![1] = Or(gpr[1], c)]
         /\ k = 2 => gpr' = [gpr EXCEPT ![2] = And(gpr[1], Power[W \div 2] - 1)]
         /\ k = 3 => gpr' = [gpr EXCEPT ![3] = Xor(gpr[1], c)]
         /\ k = 4 => gpr' = [gpr EXCEPT ![4] = Result(i)]
         /\ k = 5 => gpr' = [gpr EXCEPT ![5] = Add(Not(gpr[1]), 1)]
<1> DEFINE mask == Power[W \div 2] - 1
           j == Recording(Imm("andi_rc", 2, 1, mask))
           l == Checking(Op("negx", 5, 1, 1))
<1>1. /\ k = 0 => i = Imm("addis", 1, 0, n)
      /\ k = 1 => i = Imm("ori", 1, 1, c)
      /\ k = 2 => i = j
      /\ k = 3 => i = Imm("xori", 3, 1, c)
      /\ k = 4 => i = Imm("extshx", 4, 2, 0)
      /\ k = 5 => i = l
  <2> HIDE DEF j, l
  <2>1. ConstantCode(n, c) = << Imm("addis", 1, 0, n), Imm("ori", 1, 1, c), j,
                                Imm("xori", 3, 1, c), Imm("extshx", 4, 2, 0), l >>
    BY DEF ConstantCode, j, l, mask
  <2> QED BY <2>1
<1>2. {"addis", "ori", "andi_rc", "xori", "extshx", "negx"} \subseteq PlainOps
  BY DEF PlainOps
<1>3. /\ j.op = "andi_rc" /\ j.D = 2 /\ j.A = 1 /\ j.imm = mask
      /\ l.op = "negx" /\ l.D = 5 /\ l.A = 1
  BY DEF Recording, Checking, Imm, Op
<1> HIDE DEF mask, j, l
<1>4. CASE k = 0
  <2>1. Execute(Imm("addis", 1, 0, n))
    BY <1>1, <1>4
  <2>2. gpr' = [gpr EXCEPT ![1] = Result(Imm("addis", 1, 0, n))]
    BY <1>2, <2>1, ImmStep
  <2>3. Result(Imm("addis", 1, 0, n)) = Add(0, High(n))
    BY ImmResults
  <2>4. gpr' = [gpr EXCEPT ![1] = Add(0, High(n))]
    BY <2>2, <2>3, Zenon
  <2> QED BY <1>4, <2>4
<1>5. CASE k = 1
  <2>1. Execute(Imm("ori", 1, 1, c))
    BY <1>1, <1>5
  <2> QED BY <1>2, <1>5, <2>1, ImmStep, ImmResults
<1>6. CASE k = 2
  <2>1. gpr' = [gpr EXCEPT ![2] = Result(j)]
    BY <1>1, <1>2, <1>3, <1>6, ResultStep DEF Divisions
  <2>2. Result(j) = And(gpr[1], mask)
    BY <1>3, Results
  <2> QED BY <1>6, <2>1, <2>2 DEF mask
<1>7. CASE k = 3
  <2>1. Execute(Imm("xori", 3, 1, c))
    BY <1>1, <1>7
  <2> QED BY <1>2, <1>7, <2>1, ImmStep, ImmResults
<1>8. CASE k = 4
  <2>1. Execute(Imm("extshx", 4, 2, 0)) /\ i = Imm("extshx", 4, 2, 0)
    BY <1>1, <1>8
  <2> QED BY <1>2, <1>8, <2>1, ImmStep
<1>9. CASE k = 5
  <2>1. gpr' = [gpr EXCEPT ![5] = Result(l)]
    BY <1>1, <1>2, <1>3, <1>9, ResultStep DEF Divisions
  <2>2. Result(l) = Add(Not(gpr[1]), 1)
    BY <1>3, Results
  <2> QED BY <1>9, <2>1, <2>2
<1> QED BY <1>4, <1>5, <1>6, <1>7, <1>8, <1>9

LEMMA ConstantFactsNext ==
  ASSUME NEW k \in 0..5, NEW n \in Int, NEW c \in 0..3, gpr \in [GPR -> Reg],
         ConstantFacts(gpr, k, n, c), Execute(ConstantCode(n, c)[k + 1])
  PROVE  ConstantFacts(gpr', k + 1, n, c)
<1> DEFINE G == gpr
           H == gpr'
           high == High(n)
           x == Or(high, c)
           mask == Power[W \div 2] - 1
           masked == And(x, mask)
           flipped == Xor(x, c)
           minus == Add(Not(x), 1)
           low == Result(ConstantCode(n, c)[k + 1])
           Facts(g, j) == /\ j = 1 => g[1] = high
                          /\ j >= 2 => g[1] = x
                          /\ j >= 3 => g[2] = masked
                          /\ j >= 4 => g[3] = flipped
                          /\ j = 6 => g[5] = minus
<1>1. DOMAIN G = GPR /\ {1, 2, 3, 4, 5} \subseteq GPR
  BY Numbers
<1>2. \A g, j : ConstantFacts(g, j, n, c) <=> Facts(g, j)
  BY DEF ConstantFacts
<1>3. Facts(G, k)
  BY <1>2
<1>4. /\ Or(high, c) = x /\ And(x, mask) = masked /\ Xor(x, c) = flipped /\ Add(Not(x), 1) = minus
  OBVIOUS
<1>5. Add(0, high) = high
  BY Constants
<1>6. /\ k = 0 => H = [G EXCEPT ![1] = Add(0, high)]
      /\ k = 1 => H = [G EXCEPT ![1] = Or(G[1], c)]
      /\ k = 2 => H = [G EXCEPT ![2] = And(G[1], mask)]
      /\ k = 3 => H = [G EXCEPT ![3] = Xor(G[1], c)]
      /\ k = 4 => H = [G EXCEPT ![4] = low]
      /\ k = 5 => H = [G EXCEPT ![5] = Add(Not(G[1]), 1)]
  BY ConstantSteps
<1> HIDE DEF G, H, high, x, mask, masked, flipped, minus, low
<1>7. ASSUME k = 0 PROVE Facts(H, 1)
  BY <1>1, <1>3, <1>5, <1>6, <1>7
<1>8. ASSUME k = 1 PROVE Facts(H, 2)
  BY <1>1, <1>3, <1>4, <1>6, <1>8
<1>9. ASSUME k = 2 PROVE Facts(H, 3)
  BY <1>1, <1>3, <1>4, <1>6, <1>9
<1>10. ASSUME k = 3 PROVE Facts(H, 4)
  BY <1>1, <1>3, <1>4, <1>6, <1>10
<1>11. ASSUME k = 4 PROVE Facts(H, 5)
  BY <1>1, <1>3, <1>4, <1>6, <1>11
<1>12. ASSUME k = 5 PROVE Facts(H, 6)
  BY <1>1, <1>3, <1>4, <1>6, <1>12
<1> HIDE DEF Facts
<1>13. Facts(H, k + 1)
  <2>1. k = 0 \/ k = 1 \/ k = 2 \/ k = 3 \/ k = 4 \/ k = 5
    OBVIOUS
  <2>2. 0 + 1 = 1 /\ 1 + 1 = 2 /\ 2 + 1 = 3 /\ 3 + 1 = 4 /\ 4 + 1 = 5 /\ 5 + 1 = 6
    OBVIOUS
  <2> QED BY <1>7, <1>8, <1>9, <1>10, <1>11, <1>12, <2>1, <2>2
<1>14. ConstantFacts(H, k + 1, n, c)
  BY <1>2, <1>13
<1> QED BY <1>14 DEF H

ConstantInv ==
  initial.name = "constant" =>
    \E k \in 0..6 : /\ code = Left(ConstantCode(initial.extra[1], initial.extra[2]), k)
                    /\ ConstantFacts(gpr, k, initial.extra[1], initial.extra[2])

LEMMA ConstantForm ==
  ASSUME initial \in Program, initial.name = "constant"
  PROVE  /\ initial.extra[1] \in Int /\ initial.extra[2] \in 0..3
         /\ initial.code = ConstantCode(initial.extra[1], initial.extra[2])
         /\ Len(ConstantCode(initial.extra[1], initial.extra[2])) = 6
         /\ \E S : ConstantCode(initial.extra[1], initial.extra[2]) \in Seq(S)
<1> DEFINE n == initial.extra[1]
           c == initial.extra[2]
<1>1. n \in Int /\ c \in 0..3 /\ initial.code = ConstantProgram(n, c).code
  BY FieldForm
<1>2. c \in Int
  BY <1>1
<1> HIDE DEF n, c
<1>3. /\ ConstantProgram(n, c).code = ConstantCode(n, c) /\ Len(ConstantCode(n, c)) = 6
      /\ \E S : ConstantCode(n, c) \in Seq(S)
  BY <1>1, <1>2, ConstantSequence
<1> QED BY <1>1, <1>3 DEF n, c

LEMMA ConstantStart == InitProgram => ConstantInv
<1> SUFFICES ASSUME InitProgram, initial.name = "constant" PROVE ConstantInv
  BY DEF ConstantInv
<1> DEFINE n == initial.extra[1]
           c == initial.extra[2]
           q == ConstantCode(n, c)
<1>1. initial \in Program /\ code = initial.code
  BY DEF InitProgram
<1>2. code = q /\ Len(q) = 6 /\ \E S : q \in Seq(S)
  BY <1>1, ConstantForm
<1>3. ConstantFacts(gpr, 0, n, c)
  BY DEF ConstantFacts
<1> HIDE DEF q
<1>4. 0 \in 0..Len(q)
  BY <1>2
<1>5. Left(q, 0) = q
  BY <1>2, <1>4, LeftSteps
<1> QED BY <1>2, <1>3, <1>5 DEF ConstantInv, q

LEMMA ConstantNext ==
  ASSUME StoreInv, initial \in Program, ConstantInv, StepProgram
  PROVE  ConstantInv'
<1> SUFFICES ASSUME initial.name = "constant" PROVE ConstantInv'
  BY DEF ConstantInv, StepProgram
<1>1. gpr \in [GPR -> Reg] /\ initial' = initial
  BY DEF StoreInv, MachineTypeOK, StepProgram
<1>2. PICK n, c : n = initial.extra[1] /\ c = initial.extra[2]
  OBVIOUS
<1>3. /\ n \in Int /\ c \in 0..3 /\ Len(ConstantCode(n, c)) = 6 /\ \E S : ConstantCode(n, c) \in Seq(S)
  BY <1>2, ConstantForm
<1>4. PICK k \in 0..6 : code = Left(ConstantCode(n, c), k) /\ ConstantFacts(gpr, k, n, c)
  BY <1>2 DEF ConstantInv
<1>5. k < 6 /\ Execute(ConstantCode(n, c)[k + 1]) /\ code' = Left(ConstantCode(n, c), k + 1)
  BY <1>3, <1>4, LeftStep
<1>6. k \in 0..5 /\ k + 1 \in 0..6
  BY <1>5
<1>7. ConstantFacts(gpr', k + 1, n, c)
  BY <1>1, <1>3, <1>4, <1>5, <1>6, ConstantFactsNext
<1>8. initial'.extra[1] = n /\ initial'.extra[2] = c
  BY <1>1, <1>2
<1>9. \E j \in 0..6 : /\ code' = Left(ConstantCode(initial'.extra[1], initial'.extra[2]), j)
                      /\ ConstantFacts(gpr', j, initial'.extra[1], initial'.extra[2])
  BY <1>5, <1>6, <1>7, <1>8
<1> QED BY <1>9 DEF ConstantInv

LEMMA ConstantEnd ==
  ASSUME ConstantInv, initial \in Program, Ends({"constant"})
  PROVE  /\ gpr[1] = (initial.extra[1] * Power[W \div 2] + initial.extra[2]) % M
         /\ gpr[3] = Add(gpr[1], Not(initial.extra[2]) + 1)
         /\ gpr[2] = initial.extra[2]
         /\ Add(gpr[1], gpr[5]) = 0
<1> DEFINE n == initial.extra[1]
           c == initial.extra[2]
           x == Or(High(n), c)
<1>1. initial.name = "constant" /\ code = <<>>
  BY DEF Ends
<1>2. /\ n \in Int /\ c \in 0..3 /\ Len(ConstantCode(n, c)) = 6 /\ \E S : ConstantCode(n, c) \in Seq(S)
  BY <1>1, ConstantForm
<1>3. PICK k \in 0..6 : code = Left(ConstantCode(n, c), k) /\ ConstantFacts(gpr, k, n, c)
  BY <1>1 DEF ConstantInv
<1> HIDE DEF n, c
<1>4. k = 6
  BY <1>1, <1>2, <1>3, LeftSteps
<1>5. /\ gpr[1] = x /\ gpr[2] = And(x, Power[W \div 2] - 1) /\ gpr[3] = Xor(x, c)
      /\ gpr[5] = Add(Not(x), 1)
  BY <1>3, <1>4 DEF ConstantFacts
<1>6. /\ High(n) \in Reg /\ c \in Reg
      /\ x = (n * Power[W \div 2] + c) % M
      /\ And(x, Power[W \div 2] - 1) = c
      /\ Xor(x, c) = Add(x, Not(c) + 1)
  BY <1>2, Constants
<1>7. x \in Reg
  BY <1>6, LogicSums
<1> HIDE DEF x
<1>8. Add(x, Add(Not(x), 1)) = 0
  BY <1>7, Negated
<1> QED BY <1>5, <1>6, <1>8 DEF n, c

-----------------------------------------------------------------------------
(* No bit is lost *)

\* All of them.
BitsInv ==
  /\ StoreInv /\ initial \in Program
  /\ ShiftInv /\ HalveInv /\ NormalizeInv /\ AbsInv /\ FieldInv /\ LogicInv /\ ConstantInv

LEMMA BitsStart == InitProgram => BitsInv
BY StoreStart, ShiftStart, HalveStart, NormalizeStart, AbsStart, FieldStart, LogicStart, ConstantStart
   DEF BitsInv, InitProgram

LEMMA BitsNext ==
  ASSUME BitsInv, [StepProgram]_machineVars
  PROVE  BitsInv'
<1>1. StoreInv'
  BY StoreNext DEF BitsInv
<1>2. CASE UNCHANGED machineVars
  <2>1. gpr' = gpr /\ ca' = ca /\ cr' = cr /\ code' = code /\ initial' = initial
    BY <1>2 DEF machineVars
  <2>2. ShiftInv' /\ HalveInv' /\ NormalizeInv' /\ AbsInv'
    BY <2>1 DEF BitsInv, ShiftInv, HalveInv, NormalizeInv, AbsInv, Old
  <2>3. FieldInv' /\ LogicInv' /\ ConstantInv'
    BY <2>1 DEF BitsInv, FieldInv, LogicInv, ConstantInv, Old
  <2> QED BY <1>1, <2>1, <2>2, <2>3 DEF BitsInv
<1>3. CASE StepProgram
  <2>1. initial' = initial
    BY <1>3 DEF StepProgram
  <2>2. ShiftInv' /\ HalveInv' /\ NormalizeInv' /\ AbsInv'
    BY <1>3, ShiftNext, HalveNext, NormalizeNext, AbsNext DEF BitsInv
  <2>3. FieldInv' /\ LogicInv' /\ ConstantInv'
    BY <1>3, FieldNext, LogicNext, ConstantNext DEF BitsInv
  <2> QED BY <1>1, <2>1, <2>2, <2>3 DEF BitsInv
<1> QED BY <1>2, <1>3

LEMMA BitsEnd == BitsInv => BitsMoveIntact
<1> SUFFICES ASSUME BitsInv PROVE ShiftsCompose /\ FieldsMoveIntact
  BY DEF BitsMoveIntact
<1>1. ShiftsCompose
  BY ShiftEnd, HalveEnd, NormalizeEnd, AbsEnd DEF BitsInv, ShiftsCompose
<1>2. Ends({"field"}) =>
        \A p \in 0..(W - 1) :
          /\ BitAt(gpr[1], p) = IF Between(p, initial.extra[2], initial.extra[3])
                                THEN BitAt(Old(2), (p + initial.extra[1]) % W) ELSE BitAt(Old(1), p)
          /\ BitAt(gpr[3], p) = (/\ Between(p, initial.extra[2], initial.extra[3])
                                 /\ BitAt(Old(2), (p + initial.extra[1]) % W))
  BY FieldEnd DEF BitsInv
<1>3. Ends({"logic"}) =>
        /\ gpr[5] = Add(Old(1), Old(2))
        /\ gpr[6] = 0
        /\ gpr[2] = M - 1 <=> Old(1) = Old(2)
        /\ gpr[2] = 0 <=> "eq" \in cr[0]
        /\ gpr[3] = M - 1
  BY LogicEnd DEF BitsInv
<1>4. Ends({"constant"}) =>
        /\ gpr[1] = (initial.extra[1] * Power[W \div 2] + initial.extra[2]) % M
        /\ gpr[3] = Add(gpr[1], Not(initial.extra[2]) + 1)
        /\ gpr[2] = initial.extra[2]
        /\ Add(gpr[1], gpr[5]) = 0
  BY ConstantEnd DEF BitsInv
<1>5. FieldsMoveIntact
  BY <1>2, <1>3, <1>4, Zenon DEF FieldsMoveIntact
<1> QED BY <1>1, <1>5

-----------------------------------------------------------------------------
(* Processor's steps *)

Steps == [Next]_<<controlVars, machineVars, part>>

LEMMA ProgramStart == Init => InitProgram
BY DEF Init

LEMMA ProgramNext == Steps => [StepProgram]_machineVars
BY DEF Steps, Next

\* Chains of carrying instructions compute on two words what arithmetic modulo the square of M does.
THEOREM WideArithmeticExact == Spec => []MultiwordArithmeticIsExact
<1>1. Init => WideInv
  BY ProgramStart, WideStart
<1>2. WideInv /\ [Next]_<<controlVars, machineVars, part>> => WideInv'
  BY ProgramNext, WideNext DEF Steps
<1> QED BY <1>1, <1>2, WideEnd, PTL DEF Spec

\* High and low product make up the whole product, and a quotient leaves the remainder it should.
THEOREM ProductsAndQuotientsExact == Spec => []ProductsAndQuotientsAgree
<1>1. Init => DividingInv
  BY ProgramStart, DividingStart
<1>2. DividingInv /\ [Next]_<<controlVars, machineVars, part>> => DividingInv'
  BY ProgramNext, DividingNext DEF Steps
<1> QED BY <1>1, <1>2, DividingEnd, PTL DEF Spec

\* Comparisons, conditional traps and what is computed from condition bits agree on the order of
\* two words, and saving and restoring the condition register loses nothing.
THEOREM ComparisonsExact == Spec => []ComparisonsAgree
<1>1. Init => ComparisonInv
  BY ProgramStart, ComparisonStart
<1>2. ComparisonInv /\ [Next]_<<controlVars, machineVars, part>> => ComparisonInv'
  BY ProgramNext, ComparisonNext DEF Steps
<1> QED BY <1>1, <1>2, ComparisonEnd, PTL DEF Spec

\* What was stored in one size or byte order is what loads make of those bytes; registers and
\* strings come back whole, and nothing around a string changes.
THEOREM MemoryKept == Spec => []MemoryKeepsWhatIsStored
<1>1. Init => MemoryInv
  BY ProgramStart, MemoryStart
<1>2. MemoryInv /\ [Next]_<<controlVars, machineVars, part>> => MemoryInv'
  BY ProgramNext, MemoryNext DEF Steps
<1> QED BY <1>1, <1>2, MemoryEnd, PTL DEF Spec

\* No shift, rotation or mask of the interpreter's, alone or as compilers combine them, loses,
\* duplicates or invents a bit; logical instructions and sums agree.
THEOREM BitsKept == Spec => []BitsMoveIntact
<1>1. Init => BitsInv
  BY ProgramStart, BitsStart
<1>2. BitsInv /\ [Next]_<<controlVars, machineVars, part>> => BitsInv'
  BY ProgramNext, BitsNext DEF Steps
<1> QED BY <1>1, <1>2, BitsEnd, PTL DEF Spec

\* Wherever allocations lie, a store whose ends are looked at strays no further than the hole they
\* leave between them, and one of which only the beginning is, no further than it is long.
THEOREM StraysKeptNear == Spec => StraysAreNear
<1>1. Init => StoreInv
  BY ProgramStart, StoreStart
<1>2. StoreInv /\ [Next]_<<controlVars, machineVars, part>> => StoreInv'
  BY ProgramNext, StoreNext DEF Steps
<1>3. StoreInv /\ [Next]_<<controlVars, machineVars, part>> =>
        [\A x \in DOMAIN memory \ Allocated : memory'[x] # memory[x] =>
           Head(code).op = "stswi" \/ Strayed(Head(code), x)]_machineVars
  BY ProgramNext, StepReaches DEF Steps
<1> QED BY <1>1, <1>2, <1>3, PTL DEF Spec, StraysAreNear

\* Registers, condition fields, floating-point registers and memory keep their ranges whatever
\* program runs, and the control keeps its.
THEOREM TypeCorrect == Spec => []TypeOK
<1>1. Init => StoreInv
  BY ProgramStart, StoreStart
<1>2. StoreInv /\ [Next]_<<controlVars, machineVars, part>> => StoreInv'
  BY ProgramNext, StoreNext DEF Steps
<1>3. Init => ControlInv
  BY ControlStart DEF Init
<1>4. ControlInv /\ [Next]_<<controlVars, machineVars, part>> => ControlInv'
  <2>1. [Next]_<<controlVars, machineVars, part>> => [NextControl]_controlVars
    BY DEF Next
  <2> QED BY <2>1, ControlNext
<1>5. StoreInv /\ ControlInv => TypeOK
  BY StoreTyped DEF TypeOK, ControlInv
<1> QED BY <1>1, <1>2, <1>3, <1>4, <1>5, PTL DEF Spec
=============================================================================
