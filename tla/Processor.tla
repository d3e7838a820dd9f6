----------------------------- MODULE Processor -----------------------------
(***************************************************************************)
(* The interpreter's two halves for TLC: its control, as Interpreter has   *)
(* it, and the instructions, run by guest programs.  They share no state,  *)
(* and a behaviour is one or the other's; the idle half does not move.     *)
(***************************************************************************)
EXTENDS Interpreter, GuestPrograms

VARIABLE part

TypeOK == ControlTypeOK /\ StoreTypeOK

Idle == Prog("none", <<>>, <<>>)

ASSUME ProcessorAssumption == Program \subseteq Programs \cup {Idle}

Init ==
  \/ part = "control" /\ InitControl /\ InitProgram /\ initial = Idle /\ ca = 0
  \/ part = "programs" /\ InitControl /\ branchAddress = Null /\ address = 0 /\ InitProgram
                       /\ initial # Idle

Next ==
  \/ part = "control" /\ NextControl /\ UNCHANGED <<machineVars, part>>
  \/ part = "programs" /\ StepProgram /\ UNCHANGED <<controlVars, part>>

Spec == Init /\ [][Next]_<<controlVars, machineVars, part>>
             /\ WF_controlVars(part = "control" /\ Run /\ UNCHANGED <<machineVars, part>>)
-----------------------------------------------------------------------------
(* Values for TLC *)

\* Branches of every form: calls, a loop that counts down, a return, a computed call.
MCInstruction ==
  Plain
  \cup [op : {"bx"}, LK : BOOLEAN, target : {0, End}]
  \cup [op : {"bcx"}, LK : {FALSE}, target : {1},
        BO : {{}, {"BRANCH_IF_CTR_0"}, {"BRANCH_IF_TRUE"}}]
  \cup [op : {"bclrx"}, LK : BOOLEAN, BO : {{"DONT_DECREMENT", "DONT_CHECK_CONDITION"}}]
  \cup [op : {"bcctrx"}, LK : {TRUE}, BO : {{"DONT_DECREMENT"}}]

MCProgram   == Programs \cup {Idle}
MCField     == {0, 3, 7} \X {0, 2, 7} \X {0, 4, 7}
\* Between allocations are holes that accesses of four and of eight bytes reach over, and wider ones.
MCAllocated == (64..83) \cup (86..91) \cup (98..110) \cup (128..171)
=============================================================================
