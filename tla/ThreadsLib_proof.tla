-------------------------- MODULE ThreadsLib_proof --------------------------
(***************************************************************************)
(* Critical sections and suspend counts, for any number of threads, any    *)
(* depth and any sequence of calls.                                        *)
(*                                                                         *)
(* The argument: a thread changes its marker only while it has the lock,   *)
(* and nobody else can while somebody is in a section.  So a section's     *)
(* Exit goes over the same threads as its Enter did, and Held, a function  *)
(* of the present state, is what both have put on each thread so far.      *)
(***************************************************************************)
EXTENDS ThreadsLib, TLAPS

\* A thread has its marker from its first guest instruction to its last.
MarkInv ==
  \A t \in Thread :
    /\ at[t] \in Executing \cup {"unmark"} => usedThreads[t] = 1
    /\ at[t] \in {"unborn", "born", "mark", "finish"} => usedThreads[t] = 0

\* Who has the lock, and what for.
LockInv ==
  /\ owner = NoThread => inCriticalSection = 0 /\ phase = "none"
  /\ \A t \in Thread : at[t] \in {"mark", "unmark", "sweep"} => owner = t
  /\ inCriticalSection > 0 => at[owner] \notin {"unborn", "born", "mark"}
  /\ \A t \in Thread : at[t] = "sweep" => phase # "none"
  /\ phase # "none" => inCriticalSection > 0 /\ at[owner] \in {"sweep", "dead"}
  /\ inCriticalSection = 0 /\ owner # NoThread => at[owner] \in {"mark", "unmark", "dead"}

\* Enter and Exit go over threads that execute, and not over their own.
SweepInv ==
  \A u \in sweep : phase # "none" /\ u # owner /\ usedThreads[u] > 0

IInv ==
  /\ TypeOK
  /\ MarkInv
  /\ LockInv
  /\ SweepInv
  /\ SuspensionsMatch
  /\ AbortsAreExplained

LEMMA Initially == Init => IInv
<1> SUFFICES ASSUME Init PROVE IInv
  OBVIOUS
<1> USE ManagerAssumption DEF Init, InitManager
<1>1. TypeOKManager
  BY DEF TypeOKManager, At, Executing
<1>2. TypeOK
  BY <1>1 DEF TypeOK, NotRegistered, Idle, ThreadInfo, Change, Ready, Stopped, Running
<1>3. MarkInv /\ LockInv /\ SweepInv
  BY DEF MarkInv, LockInv, SweepInv, Executing
<1>4. SuspensionsMatch /\ AbortsAreExplained
  BY DEF SuspensionsMatch, AbortsAreExplained, Held
<1> QED
  BY <1>2, <1>3, <1>4 DEF IInv

-----------------------------------------------------------------------------
(* The manager's steps.                                                     *)

\* The life of a thread changes its marker, and the lock for the time it takes.
LEMMA MarkersKeep ==
  ASSUME IInv, NEW t \in Thread, MarkThreadAsExecuting(t) \/ UnmarkThreadAsExecuting(t),
         UNCHANGED <<threadMap, change, calls, stopped, stray>>
  PROVE  IInv'
<1> USE ManagerAssumption DEF IInv, Goto, Runs, CanLock
<1>1. TypeOK'
  BY DEF TypeOK, TypeOKManager, MarkThreadAsExecuting, UnmarkThreadAsExecuting, At, Executing,
         MarkInv
<1>2. MarkInv'
  BY DEF TypeOK, TypeOKManager, MarkThreadAsExecuting, UnmarkThreadAsExecuting, At, Executing,
         MarkInv
<1>3. LockInv'
  BY DEF TypeOK, TypeOKManager, MarkThreadAsExecuting, UnmarkThreadAsExecuting, At, Executing,
         LockInv
<1>4. phase = "none" /\ phase' = "none"
  BY DEF TypeOK, TypeOKManager, MarkThreadAsExecuting, UnmarkThreadAsExecuting, LockInv
<1>5. SweepInv'
  BY <1>4 DEF TypeOK, TypeOKManager, MarkThreadAsExecuting, UnmarkThreadAsExecuting, SweepInv
<1>6. \A u \in Thread : Held(u)' = Held(u)
  BY <1>4 DEF TypeOK, TypeOKManager, MarkThreadAsExecuting, UnmarkThreadAsExecuting, MarkInv,
              LockInv, Held, Executing
<1>7. suspended' = suspended /\ crash' = crash /\ ~crash
  BY DEF MarkThreadAsExecuting, UnmarkThreadAsExecuting
<1> QED
  BY <1>1, <1>2, <1>3, <1>5, <1>6, <1>7 DEF SuspensionsMatch, AbortsAreExplained

\* The ends of Enter and Exit: no thread's count, and no marker, changes.
LEMMA SectionsKeep ==
  ASSUME IInv, NEW t \in Thread,
         EnterCriticalSection(t) \/ ExitCriticalSection(t) \/ Entered(t) \/ Exited(t),
         UNCHANGED <<threadMap, change, calls, stopped, stray>>
  PROVE  IInv'
<1> USE ManagerAssumption DEF IInv, Goto, Runs, CanLock
<1>1. TypeOK'
  BY DEF TypeOK, TypeOKManager, EnterCriticalSection, ExitCriticalSection, Entered, Exited,
         Others, At, Executing, LockInv
<1>2. MarkInv'
  BY DEF TypeOK, TypeOKManager, EnterCriticalSection, ExitCriticalSection, Entered, Exited,
         At, Executing, MarkInv
<1>3. LockInv'
  BY DEF TypeOK, TypeOKManager, EnterCriticalSection, ExitCriticalSection, Entered, Exited,
         At, Executing, LockInv
<1>4. SweepInv'
  BY DEF TypeOK, TypeOKManager, EnterCriticalSection, ExitCriticalSection, Entered, Exited,
         Others, SweepInv
<1>5. \A u \in Thread : Held(u)' = Held(u)
  <2>1. CASE EnterCriticalSection(t)
    BY <2>1 DEF TypeOK, TypeOKManager, EnterCriticalSection, Others, LockInv, Held
  <2>2. CASE ExitCriticalSection(t)
    BY <2>2 DEF TypeOK, TypeOKManager, ExitCriticalSection, Others, LockInv, Held
  <2>3. CASE Entered(t)
    BY <2>3 DEF TypeOK, TypeOKManager, Entered, LockInv, Held
  <2>4. CASE Exited(t)
    BY <2>4 DEF TypeOK, TypeOKManager, Exited, LockInv, Held
  <2> QED
    BY <2>1, <2>2, <2>3, <2>4
<1>6. suspended' = suspended /\ crash' = crash /\ ~crash
  BY DEF EnterCriticalSection, ExitCriticalSection, Entered, Exited
<1> QED
  BY <1>1, <1>2, <1>3, <1>4, <1>5, <1>6 DEF SuspensionsMatch, AbortsAreExplained

\* One thread of the sweep is suspended, or cannot be.
LEMMA SuspendKeeps ==
  ASSUME IInv, NEW t \in Thread, NEW u \in Thread, SuspendNext(t, u),
         UNCHANGED <<threadMap, change, calls, stopped, stray>>
  PROVE  IInv'
<1> USE ManagerAssumption DEF IInv, InSweep, Runs, SuspendNext
<1>1. TypeOK' /\ MarkInv' /\ LockInv' /\ SweepInv'
  <2>1. crash' \in BOOLEAN
    BY DEF TypeOK, TypeOKManager
  <2>2. TypeOK'
    BY <2>1 DEF TypeOK, TypeOKManager
  <2>3. MarkInv' /\ LockInv'
    BY DEF MarkInv, LockInv
  <2>4. SweepInv'
    BY DEF SweepInv
  <2> QED
    BY <2>2, <2>3, <2>4
<1>2. owner = t /\ u # t /\ usedThreads[u] > 0 /\ ~crash
  BY DEF LockInv, SweepInv
<1>3. CASE at[u] = "dead"
  <2>1. \A v \in Thread : Held(v)' = Held(v)
    BY <1>3 DEF Held
  <2> QED
    BY <1>1, <1>2, <1>3, <2>1 DEF SuspensionsMatch, AbortsAreExplained, TypeOK, TypeOKManager
<1>4. CASE at[u] # "dead"
  <2>1. \A v \in Thread \ {u} : Held(v)' = Held(v) /\ suspended'[v] = suspended[v]
    BY <1>4 DEF Held, TypeOK, TypeOKManager
  <2>2. Held(u)' = Held(u) + 1 /\ suspended'[u] = suspended[u] + 1
    BY <1>2, <1>4 DEF Held, TypeOK, TypeOKManager
  <2>3. Held(u) \in Int
    BY DEF Held, TypeOK, TypeOKManager
  <2> QED
    BY <1>1, <1>2, <1>4, <2>1, <2>2, <2>3
    DEF SuspensionsMatch, AbortsAreExplained, TypeOK, TypeOKManager
<1> QED
  BY <1>3, <1>4

\* One thread of the sweep is resumed; it can be, unless it is gone or was resumed amiss.
LEMMA ResumeKeeps ==
  ASSUME IInv, NEW t \in Thread, NEW u \in Thread, ResumeNext(t, u),
         UNCHANGED <<threadMap, change, calls, stopped, stray>>
  PROVE  IInv'
<1> USE ManagerAssumption DEF IInv, InSweep, Runs, ResumeNext
<1>1. TypeOK' /\ MarkInv' /\ LockInv' /\ SweepInv'
  <2>1. crash' \in BOOLEAN
    BY DEF TypeOK, TypeOKManager
  <2>2. TypeOK'
    BY <2>1 DEF TypeOK, TypeOKManager
  <2>3. MarkInv' /\ LockInv'
    BY DEF MarkInv, LockInv
  <2>4. SweepInv'
    BY DEF SweepInv
  <2> QED
    BY <2>2, <2>3, <2>4
<1>2. owner = t /\ u # t /\ usedThreads[u] > 0 /\ ~crash /\ inCriticalSection > 0
  BY DEF LockInv, SweepInv
<1>3. Held(u) = inCriticalSection
  BY <1>2 DEF Held, TypeOK, TypeOKManager
<1>4. CASE at[u] = "dead" \/ suspended[u] = 0
  <2>1. \A v \in Thread : Held(v)' = Held(v)
    BY <1>4 DEF Held
  <2>2. at[u] # "dead" => stray[u]
    BY <1>2, <1>3, <1>4 DEF SuspensionsMatch, TypeOK, TypeOKManager
  <2> QED
    BY <1>1, <1>2, <1>4, <2>1, <2>2
    DEF SuspensionsMatch, AbortsAreExplained, TypeOK, TypeOKManager
<1>5. CASE ~(at[u] = "dead" \/ suspended[u] = 0)
  <2>1. \A v \in Thread \ {u} : Held(v)' = Held(v) /\ suspended'[v] = suspended[v]
    BY <1>5 DEF Held, TypeOK, TypeOKManager
  <2>2. Held(u)' = Held(u) - 1 /\ suspended'[u] = suspended[u] - 1
    BY <1>2, <1>5 DEF Held, TypeOK, TypeOKManager
  <2> QED
    BY <1>1, <1>2, <1>3, <1>5, <2>1, <2>2
    DEF SuspensionsMatch, AbortsAreExplained, TypeOK, TypeOKManager
<1> QED
  BY <1>4, <1>5

-----------------------------------------------------------------------------
(* ThreadsLib's steps.                                                      *)

\* A call that returns leaves the caller without one.
LEMMA ReturnTypes ==
  ASSUME TypeOK, NEW t \in Thread, Return(t)
  PROVE  change' \in [Thread -> Change]
<1> Idle(t) \in Change
  BY DEF Idle, Change
<1> QED
  BY DEF TypeOK, Return

\* The calls that find, create, register, write, or dispose, and a thread's end: they
\* touch no suspend count, no lock and no marker, and move threads only between
\* places that are alike to the manager.
LEMMA LibraryKeeps ==
  ASSUME IInv, NEW t \in Thread,
         \/ Finish(t)
         \/ GetCurrentThread(t)
         \/ \E u \in Thread : NewThread(t, u)
         \/ RegisterNewThread(t)
         \/ \E u \in Thread, new \in {Ready, Stopped} : SetThreadState(t, u, new)
         \/ \E u \in Thread, new \in {Ready, Stopped} : SetThreadStateEndCritical(t, u, new)
         \/ \E u \in Thread : SetThreadReady(t, u)
         \/ WriteState(t)
         \/ \E u \in Thread : DisposeThread(t, u)
  PROVE  IInv'
<1> USE ManagerAssumption DEF IInv, lockVars
<1>1. /\ UNCHANGED <<suspended, usedThreads, lockVars, crash, stopped, stray>>
      /\ ~crash
  BY DEF Finish, GetCurrentThread, NewThread, RegisterNewThread, SetThreadState,
         SetThreadStateEndCritical, SetState, SetThreadReady, WriteState, DisposeThread,
         Goto, Runs
<1>2. at' \in [Thread -> At]
  <2>1. \A place \in At : \A u \in Thread : [at EXCEPT ![u] = place] \in [Thread -> At]
    BY DEF TypeOK, TypeOKManager
  <2>2. AfterWrite(t) \in At
    BY DEF AfterWrite, TypeOK, Change, At, Executing
  <2>3. {"guest", "leave", "register", "write", "born", "dead"} \subseteq At
    BY DEF At, Executing
  <2>4. CASE \E u \in Thread : NewThread(t, u)
    BY <2>3, <2>4 DEF NewThread, TypeOK, TypeOKManager
  <2>5. CASE \E u \in Thread : DisposeThread(t, u)
    BY <2>1, <2>3, <2>5 DEF DisposeThread, TypeOK, TypeOKManager
  <2> QED
    BY <2>1, <2>2, <2>3, <2>4, <2>5
    DEF Finish, GetCurrentThread, RegisterNewThread, SetThreadState,
        SetThreadStateEndCritical, SetState, SetThreadReady, WriteState, Goto
<1>3. \A u \in Thread :
        \/ at'[u] = at[u]
        \/ at'[u] = "dead"
        \/ at[u] = "unborn" /\ at'[u] = "born"
        \/ /\ at[u] \in {"guest", "register", "write"}
           /\ at'[u] \in {"guest", "leave", "register", "write", "call"}
  BY DEF Finish, GetCurrentThread, NewThread, RegisterNewThread, SetThreadState,
         SetThreadStateEndCritical, SetState, SetThreadReady, WriteState, DisposeThread,
         Goto, Runs, TypeOK, TypeOKManager, At, Executing, AfterWrite, Change
<1>4. /\ threadMap' \in [Thread -> ThreadInfo]
      /\ change' \in [Thread -> Change]
      /\ calls' \in Nat
  <2>1. \A u \in Thread : OwnEntry(u) \in ThreadInfo
    BY DEF OwnEntry, TypeOK, ThreadInfo, Running
  <2>2. \A u \in Thread, old \in {Ready, Stopped, Running}, new \in {Ready, Stopped} :
          MachCall(t, u, old, new) \in {"none", "suspend", "resume"}
    BY DEF MachCall
  <2>3. CASE Finish(t) \/ GetCurrentThread(t) \/ RegisterNewThread(t) \/ WriteState(t)
    <3>1. /\ change[t].thread \in Thread
          /\ change[t].state \in {Ready, Stopped}
      BY DEF TypeOK, Change
    <3>2. \A u \in Thread, state \in {Ready, Stopped} :
            /\ [by |-> "creator", state |-> state] \in ThreadInfo
            /\ [threadMap[u] EXCEPT !.state = state] \in ThreadInfo
      BY DEF TypeOK, ThreadInfo
    <3>3. (UNCHANGED change \/ Return(t)) /\ UNCHANGED calls
      BY <2>3 DEF Finish, GetCurrentThread, RegisterNewThread, WriteState, ReturnOrCall
    <3>4. \/ threadMap' = threadMap
          \/ \E u \in Thread : \E info \in ThreadInfo :
               threadMap' = [threadMap EXCEPT ![u] = info]
      <4>1. CASE Finish(t)
        BY <3>2, <4>1 DEF Finish
      <4>2. CASE GetCurrentThread(t)
        BY <2>1, <4>2 DEF GetCurrentThread
      <4>3. CASE RegisterNewThread(t)
        BY <3>1, <3>2, <4>3 DEF RegisterNewThread
      <4>4. CASE WriteState(t)
        BY <3>1, <3>2, <4>4 DEF WriteState
      <4> QED
        BY <2>3, <4>1, <4>2, <4>3, <4>4
    <3> QED
      BY <3>3, <3>4, ReturnTypes DEF TypeOK
  <2>4. CASE \E u \in Thread : NewThread(t, u) \/ SetThreadReady(t, u) \/ DisposeThread(t, u)
    BY <2>4 DEF NewThread, SetThreadReady, DisposeThread, NotRegistered, Calls, TypeOK,
                ThreadInfo, Change, Ready, Stopped, Running
  <2>5. ASSUME NEW u \in Thread, NEW new \in {Ready, Stopped}, NEW then \in {"guest", "leave"},
               SetState(t, u, new, then)
        PROVE  <1>4!1 /\ <1>4!2 /\ <1>4!3
    <3> DEFINE entry == IF t = u THEN OwnEntry(t) ELSE threadMap[u]
    <3>1. entry \in ThreadInfo
      BY <2>1 DEF TypeOK
    <3>2. [thread |-> u, state |-> new, call |-> MachCall(t, u, entry.state, new),
           then |-> then] \in Change
      BY <2>2, <3>1 DEF Change, ThreadInfo
    <3>3. threadMap' = [threadMap EXCEPT ![u] = entry]
      BY <2>5 DEF SetState
    <3>4. \/ change' = change
          \/ change' = [change EXCEPT ![t] =
               [thread |-> u, state |-> new, call |-> MachCall(t, u, entry.state, new),
                then |-> then]]
      BY <2>5 DEF SetState
    <3>5. calls' \in Nat
      BY <2>5 DEF SetState, Calls, TypeOK
    <3> HIDE DEF entry
    <3> QED
      BY <3>1, <3>2, <3>3, <3>4, <3>5 DEF TypeOK
  <2> QED
    BY <2>3, <2>4, <2>5 DEF SetThreadState, SetThreadStateEndCritical
<1>5. TypeOK'
  BY <1>1, <1>2, <1>4 DEF TypeOK, TypeOKManager
<1>6. MarkInv'
  BY <1>1, <1>3 DEF MarkInv, Executing
<1>7. LockInv'
  BY <1>1, <1>3 DEF LockInv, TypeOK, TypeOKManager
<1>8. \A u \in Thread : Held(u)' = Held(u)
  BY <1>1 DEF Held
<1>9. SweepInv' /\ SuspensionsMatch' /\ AbortsAreExplained'
  BY <1>1, <1>8 DEF SweepInv, SuspensionsMatch, AbortsAreExplained
<1> QED
  BY <1>5, <1>6, <1>7, <1>9

\* ThreadsLib's own suspensions and resumptions, and the one it makes amiss.
LEMMA MachCallsKeep ==
  ASSUME IInv, NEW t \in Thread, SuspendThread(t) \/ ResumeThread(t)
  PROVE  IInv'
<1> USE ManagerAssumption DEF IInv, lockVars, Goto, Runs
<1>1. /\ UNCHANGED <<usedThreads, lockVars, crash, threadMap, calls>>
      /\ Return(t) /\ ~crash
      /\ at[t] = "call" /\ at' = [at EXCEPT ![t] = change[t].then]
      /\ change[t].then \in {"guest", "leave"} /\ change[t].thread \in Thread
  BY DEF SuspendThread, ResumeThread, TypeOK, Change
<1> DEFINE u == change[t].thread
<1>2. \/ UNCHANGED <<suspended, stopped, stray>>
      \/ /\ suspended' = [suspended EXCEPT ![u] = @ + 1]
         /\ stopped' = [stopped EXCEPT ![u] = @ + 1]
         /\ stray' = stray
      \/ /\ suspended[u] # 0 /\ stopped[u] = 0
         /\ suspended' = [suspended EXCEPT ![u] = @ - 1]
         /\ stopped' = stopped
         /\ stray' = [stray EXCEPT ![u] = TRUE]
      \/ /\ suspended[u] # 0 /\ stopped[u] # 0
         /\ suspended' = [suspended EXCEPT ![u] = @ - 1]
         /\ stopped' = [stopped EXCEPT ![u] = @ - 1]
         /\ stray' = stray
  BY DEF SuspendThread, ResumeThread
<1> HIDE DEF u
<1>3. u \in Thread
  BY <1>1 DEF u
<1>4. TypeOK'
  <2>1. at' \in [Thread -> At]
    BY <1>1 DEF TypeOK, TypeOKManager, At, Executing
  <2>2. suspended' \in [Thread -> Nat] /\ stopped' \in [Thread -> Nat]
    BY <1>2, <1>3 DEF TypeOK, TypeOKManager
  <2>3. stray' \in [Thread -> BOOLEAN]
    BY <1>2, <1>3 DEF TypeOK
  <2> QED
    BY <1>1, <2>1, <2>2, <2>3, ReturnTypes DEF TypeOK, TypeOKManager
<1>5. MarkInv' /\ LockInv' /\ SweepInv' /\ AbortsAreExplained'
  BY <1>1 DEF TypeOK, TypeOKManager, MarkInv, LockInv, SweepInv, AbortsAreExplained, Executing
<1>6. \A v \in Thread : Held(v)' = Held(v) /\ Held(v) \in Int
  BY <1>1 DEF Held, TypeOK, TypeOKManager
<1>7. SuspensionsMatch'
  BY <1>2, <1>3, <1>6 DEF SuspensionsMatch, TypeOK, TypeOKManager
<1> QED
  BY <1>4, <1>5, <1>7

-----------------------------------------------------------------------------
\* The inductive invariant.
THEOREM InductiveInvariant == Spec => []IInv
<1>1. Init => IInv
  BY Initially
<1>2. IInv /\ [Next]_vars => IInv'
  <2> SUFFICES ASSUME IInv, [Next]_vars PROVE IInv'
    OBVIOUS
  <2>1. ASSUME NEW t \in Thread, ManagerStep(t)
        PROVE  IInv'
    BY <2>1, MarkersKeep, SectionsKeep, SuspendKeeps, ResumeKeeps DEF ManagerStep
  <2>2. ASSUME NEW t \in Thread, Finish(t) \/ GuestCall(t)
        PROVE  IInv'
    BY <2>2, LibraryKeeps, MachCallsKeep DEF GuestCall
  <2>3. CASE UNCHANGED vars
    BY <2>3 DEF vars, managerVars, IInv, TypeOK, TypeOKManager, MarkInv, LockInv, SweepInv,
                SuspensionsMatch, AbortsAreExplained, Held
  <2> QED
    BY <2>1, <2>2, <2>3 DEF Next
<1> QED
  BY <1>1, <1>2, PTL DEF Spec

\* All variables keep their types; in particular no suspend count becomes negative.
THEOREM TypeCorrect == Spec => []TypeOK
<1>1. IInv => TypeOK
  BY DEF IInv
<1> QED
  BY <1>1, InductiveInvariant, PTL

\* Every suspension is ThreadsLib's or a critical section's (ThreadManager.cpp 89-129).
THEOREM SuspensionsCorrect == Spec => []SuspensionsMatch
<1>1. IInv => SuspensionsMatch
  BY DEF IInv
<1> QED
  BY <1>1, InductiveInvariant, PTL

\* Nobody else executes guest code inside a critical section (ThreadManager.cpp 89-107).
THEOREM SectionsExclusive == Spec => []SectionIsExclusive
<1>1. IInv => SectionIsExclusive
  <2> SUFFICES ASSUME IInv, NEW t \in Thread, NEW u \in Thread,
                      Inside(t), t # u, at[u] \in Executing
               PROVE  stray[u] \/ suspended[u] > 0
    BY DEF SectionIsExclusive
  <2>1. Held(u) = inCriticalSection /\ inCriticalSection > 0
    BY ManagerAssumption DEF IInv, MarkInv, Held, Inside, TypeOK, TypeOKManager
  <2> QED
    BY <2>1 DEF IInv, SuspensionsMatch, TypeOK, TypeOKManager
<1> QED
  BY <1>1, InductiveInvariant, PTL

\* A section aborts the process only over a thread that was disposed of while it
\* executed, or resumed amiss (ThreadManager.cpp 100-104, 118-122).
THEOREM AbortsExplained == Spec => []AbortsAreExplained
<1>1. IInv => AbortsAreExplained
  BY DEF IInv
<1> QED
  BY <1>1, InductiveInvariant, PTL
=============================================================================
