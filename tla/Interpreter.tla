---------------------------- MODULE Interpreter ----------------------------
(***************************************************************************)
(* The control of the PowerPC interpreter: Execute, ExecuteUntilBranch and *)
(* ExecuteOne on one host thread, and Interrupt on another.  They share    *)
(* one atomic variable, branchAddress: null while instructions follow one  *)
(* another, the target once one of them branches, and the interrupt        *)
(* address once Interrupt has got it in.                                   *)
(*                                                                         *)
(* An address counts words.  An instruction is known by what it does to    *)
(* the control: a branch has its fields, "plain" stands for all others     *)
(* (they may write lr and ctr), "fault" for one that throws.  Guest memory *)
(* may hold any instruction anywhere.                                      *)
(***************************************************************************)
EXTENDS Integers

CONSTANTS CodeSize,        \* guest code is at the addresses 0..CodeSize-1
          Instruction  \* the instructions it is made of

Code  == 0..(CodeSize - 1)
End   == CodeSize          \* GetEndAddress
Break == CodeSize + 1      \* interruptAddress
Null  == CodeSize + 2      \* the null pointer
Address == Code \cup {End, Break}
Target  == Code \cup {End} \* guests are not told the interrupt address

\* The bits of BO: which of the two checks are made, and what they ask for.
BO == SUBSET {"BRANCH_IF_CTR_0", "DONT_DECREMENT", "BRANCH_IF_TRUE", "DONT_CHECK_CONDITION"}

Plain  == [op : {"plain", "fault", "native"}]
Branch == [op : {"bx"}, LK : BOOLEAN, target : Target]
          \cup [op : {"bcx"}, LK : BOOLEAN, target : Target, BO : BO]
          \cup [op : {"bclrx", "bcctrx"}, LK : BOOLEAN, BO : BO]

ASSUME InterpreterAssumption ==
  /\ CodeSize \in Nat \ {0}
  /\ Instruction \subseteq Plain \cup Branch

VARIABLES
  branchAddress, \* the atomic
  currentAddress,
  address,       \* Execute's local; between calls, where the caller goes on
  lr, ctr,       \* MachineState
  mode,          \* where the interpreting thread is
  single,        \* TRUE in ExecuteOne, FALSE in Execute
  oldBranch,     \* SetBranchAddress's local
  outcome,       \* how the last call ended
  interrupting,  \* TRUE while Interrupt runs
  accepted,      \* history: an Interrupt was let in during the present or last call
  since          \* history: the instructions completed since then, counted up to 2

machine == <<lr, ctr>>
history == <<accepted, since>>
controlVars == <<branchAddress, currentAddress, address, machine, mode, single, oldBranch, outcome,
          interrupting, history>>

ControlTypeOK ==
  /\ branchAddress \in Address \cup {Null}
  /\ currentAddress \in Address
  /\ address \in Address
  /\ lr \in Target
  /\ ctr \in Target
  /\ mode \in {"idle", "loop", "one", "fetch", "restore", "native", "test", "load", "finish"}
  /\ single \in BOOLEAN
  /\ oldBranch \in Address \cup {Null}
  /\ outcome \in {"none", "end", "stepped", "fault", "trap", "interrupted"}
  /\ interrupting \in BOOLEAN
  /\ accepted \in BOOLEAN
  /\ since \in 0..2

\* The constructor leaves branchAddress as the memory was.
InitControl ==
  /\ branchAddress \in Address \cup {Null}
  /\ currentAddress = 0
  /\ address \in Code
  /\ lr = End
  /\ ctr = 0
  /\ mode = "idle"
  /\ single = FALSE
  /\ oldBranch = Null
  /\ outcome = "none"
  /\ interrupting = FALSE
  /\ accepted = FALSE
  /\ since = 0

-----------------------------------------------------------------------------
(* The branch instructions: what they do to ctr and lr, and where they go. *)

\* Memory after the last address of the code is more of the same.
After(a) == IF a \in Code /\ a + 1 \in Code THEN a + 1 ELSE 0

\* Mutant: no wrap-around.
DecrementUnbounded(c) == c - 1

\* ctr is a 32-bit register: 0 wraps around.
Decrement(c) == IF c = 0 THEN End ELSE c - 1

CtrAfter(i) ==
  IF i.op \in {"bcx", "bclrx"} /\ "DONT_DECREMENT" \notin i.BO THEN Decrement(ctr) ELSE ctr

\* crBit: the condition register's bit BI, which the model leaves open.
Taken(i, crBit) ==
  \/ i.op = "bx"
  \/ /\ "DONT_CHECK_CONDITION" \in i.BO \/ (crBit <=> "BRANCH_IF_TRUE" \in i.BO)
     /\ \/ i.op = "bcctrx"
        \/ "DONT_DECREMENT" \in i.BO
        \/ (CtrAfter(i) # 0) # ("BRANCH_IF_CTR_0" \in i.BO)

LrAfter(i) == IF i.LK THEN After(currentAddress) ELSE lr

\* bclrx stores the return address before it reads its target.
TargetOf(i) ==
  CASE i.op \in {"bx", "bcx"} -> i.target
    [] i.op = "bclrx"  -> LrAfter(i)
    [] i.op = "bcctrx" -> ctr

-----------------------------------------------------------------------------
(* Calls and how they end. *)

CallExecute(s) ==
  /\ mode = "idle"
  /\ outcome \notin {"end", "interrupted"}      \* after these there is no pc to go on from
  /\ single' = s
  /\ mode' = IF s THEN "one" ELSE "loop"
  /\ outcome' = "none"
  /\ accepted' = FALSE
  /\ since' = 0
  /\ UNCHANGED <<branchAddress, currentAddress, address, machine, oldBranch, interrupting>>

Leave(result, pc) ==
  /\ mode' = "idle"
  /\ outcome' = result
  /\ address' = pc
  /\ UNCHANGED single

Continue(m) ==
  /\ mode' = m
  /\ UNCHANGED <<address, single, outcome>>

\* The instruction at currentAddress is done.
Complete(next) ==
  /\ currentAddress' = next
  /\ since' = IF accepted /\ since < 2 THEN since + 1 ELSE since
  /\ UNCHANGED accepted
  /\ Continue(IF single THEN "finish" ELSE "test")

\* Execute's loop condition, and the beginning of ExecuteUntilBranch.
EnterLoop ==
  /\ mode = "loop"
  /\ IF address = End
     THEN Leave("end", address) /\ UNCHANGED <<branchAddress, currentAddress>>
     ELSE /\ currentAddress' = address
          /\ branchAddress' = Null
          /\ Continue("fetch")
  /\ UNCHANGED <<machine, oldBranch, interrupting, history>>

EnterOne ==
  /\ mode = "one"
  /\ currentAddress' = address
  /\ branchAddress' = Null
  /\ Continue("fetch")
  /\ UNCHANGED <<machine, oldBranch, interrupting, history>>

\* Mutant: the branch address is stored, not exchanged.
StoreBranchAddress(target) ==
  /\ branchAddress' = target
  /\ Complete(After(currentAddress))
  /\ UNCHANGED oldBranch

\* SetBranchAddress up to the exchange; if that finds an interrupt, it is put back.  Before, a debug
\* build throws when nothing is allocated at the target.
SetBranchAddress(target) ==
  \/ /\ Leave("fault", currentAddress)
     /\ UNCHANGED <<branchAddress, currentAddress, oldBranch, history>>
  \/ /\ branchAddress' = target
     /\ IF branchAddress = Null
        THEN Complete(After(currentAddress)) /\ UNCHANGED oldBranch
        ELSE /\ oldBranch' = branchAddress
             /\ Continue("restore")
             /\ UNCHANGED <<currentAddress, history>>

Restore ==
  /\ mode = "restore"
  /\ branchAddress' = oldBranch
  /\ Leave("trap", currentAddress)
  /\ UNCHANGED <<currentAddress, machine, oldBranch, interrupting, history>>

ExecuteBranch(i) ==
  /\ mode = "fetch"
  /\ i \in Branch
  /\ \E crBit \in BOOLEAN :
       /\ ctr' = CtrAfter(i)
       /\ IF Taken(i, crBit)
          THEN lr' = LrAfter(i) /\ SetBranchAddress(TargetOf(i))
          ELSE /\ Complete(After(currentAddress))
               /\ UNCHANGED <<lr, branchAddress, oldBranch>>
  /\ UNCHANGED interrupting

ExecutePlain(i) ==
  /\ mode = "fetch"
  /\ i.op = "plain"
  /\ \/ lr' \in Target /\ UNCHANGED ctr
     \/ ctr' \in Target /\ UNCHANGED lr
  /\ Complete(After(currentAddress))
  /\ UNCHANGED <<branchAddress, oldBranch, interrupting>>

ExecuteFault(i) ==
  /\ mode = "fetch"
  /\ i.op = "fault"
  /\ Leave("fault", currentAddress)
  /\ UNCHANGED <<branchAddress, currentAddress, machine, oldBranch, interrupting, history>>

CallNative(i) ==
  /\ mode = "fetch"
  /\ i.op = "native"
  /\ Continue("native")
  /\ UNCHANGED <<branchAddress, currentAddress, machine, oldBranch, interrupting, history>>

\* ExecuteNative has returned lr.  ExecuteOne stores it; the loop exchanges and looks.
NativeReturns ==
  /\ mode = "native"
  /\ branchAddress' = lr
  /\ IF ~single /\ branchAddress = Break
     THEN currentAddress' = lr /\ Leave("trap", lr) /\ UNCHANGED history
     ELSE Complete(currentAddress)
  /\ UNCHANGED <<machine, oldBranch, interrupting>>

NativeThrows ==
  /\ mode = "native"
  /\ Leave("fault", currentAddress)
  /\ UNCHANGED <<branchAddress, currentAddress, machine, oldBranch, interrupting, history>>

\* Mutant: the loop ends for a target only.
TestTarget ==
  /\ mode = "test"
  /\ Continue(IF branchAddress \in {Null, Break} THEN "fetch" ELSE "load")
  /\ UNCHANGED <<branchAddress, currentAddress, machine, oldBranch, interrupting, history>>

\* The end of the do loop.
TestBranch ==
  /\ mode = "test"
  /\ Continue(IF branchAddress = Null THEN "fetch" ELSE "load")
  /\ UNCHANGED <<branchAddress, currentAddress, machine, oldBranch, interrupting, history>>

\* Mutant: the interrupt address is taken for a target.
LoadAnyBranch ==
  /\ mode = "load"
  /\ address' = branchAddress /\ mode' = "loop" /\ UNCHANGED <<single, outcome>>
  /\ UNCHANGED <<branchAddress, currentAddress, machine, oldBranch, interrupting, history>>

\* Execute takes up the branch.
LoadBranch ==
  /\ mode = "load"
  /\ IF branchAddress = Break
     THEN Leave("interrupted", branchAddress)
     ELSE address' = branchAddress /\ mode' = "loop" /\ UNCHANGED <<single, outcome>>
  /\ UNCHANGED <<branchAddress, currentAddress, machine, oldBranch, interrupting, history>>

FinishOne ==
  /\ mode = "finish"
  /\ Leave("stepped", IF branchAddress = Null THEN currentAddress ELSE branchAddress)
  /\ UNCHANGED <<branchAddress, currentAddress, machine, oldBranch, interrupting, history>>

-----------------------------------------------------------------------------
(* The other thread. *)

CallInterrupt ==
  /\ ~interrupting
  /\ interrupting' = TRUE
  /\ UNCHANGED <<branchAddress, currentAddress, address, machine, mode, single, oldBranch, outcome,
                 history>>

\* The compare-and-exchange that succeeds; until then Interrupt only tries again.
Interrupt ==
  /\ interrupting
  /\ branchAddress = Null
  /\ branchAddress' = Break
  /\ interrupting' = FALSE
  /\ accepted' = (mode # "idle" /\ mode # "loop" /\ mode # "one")
  /\ UNCHANGED <<currentAddress, address, machine, mode, single, oldBranch, outcome, since>>

-----------------------------------------------------------------------------
Dispatch == \E i \in Instruction :
  ExecuteBranch(i) \/ ExecutePlain(i) \/ ExecuteFault(i) \/ CallNative(i)

\* One step of a call that has begun.
Run ==
  \/ EnterLoop \/ EnterOne \/ Dispatch \/ Restore
  \/ NativeReturns \/ NativeThrows \/ TestBranch \/ LoadBranch \/ FinishOne

NextControl == (\E s \in BOOLEAN : CallExecute(s)) \/ Run \/ CallInterrupt \/ Interrupt

\* A call goes on as long as it can: its host thread is scheduled, and native calls return.
ControlSpec == InitControl /\ [][NextControl]_controlVars /\ WF_controlVars(Run)

-----------------------------------------------------------------------------
\* An interrupt that ExecuteUntilBranch has let in, from its reset of branchAddress on, is not
\* lost: until the call is over it stays in branchAddress, or with the SetBranchAddress that is
\* about to put it back; and the call does not end as if the program had.
AcceptedInterruptIsKept ==
  accepted /\ ~single =>
    /\ mode # "idle" => branchAddress = Break \/ (mode = "restore" /\ oldBranch = Break)
    /\ mode = "idle" => outcome \in {"trap", "fault", "interrupted"}

\* After an interrupt is let in, at most the instruction that was under way is completed.
InterruptIsPrompt == since <= 1

\* A call that an interrupt has got into comes to an end, whatever the guest does.
InterruptStops == accepted ~> mode = "idle"
=============================================================================
