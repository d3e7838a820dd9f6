--------------------------- MODULE ThreadManager ---------------------------
(***************************************************************************)
(* NativeThreadManager, the thread manager of a program that runs without  *)
(* a debugger: which host threads execute guest code, and the critical     *)
(* sections in which one of them suspends all the others.                  *)
(*                                                                         *)
(* A host thread that is suspended takes no step, wherever it is.  Mach    *)
(* counts suspensions: a thread runs when its count is 0, and resuming one *)
(* that is not suspended, or either for one that is gone, is an error,     *)
(* which the manager answers with abort().                                 *)
(***************************************************************************)
EXTENDS Integers, FiniteSets

CONSTANTS Thread,    \* the host threads that execute guest code, at any time
          Main,      \* the one that runs the program's main symbol
          NoThread,  \* no thread
          MaxDepth   \* bound: how deep a guest nests critical sections

ASSUME ManagerAssumption == /\ Main \in Thread
                            /\ NoThread \notin Thread
                            /\ MaxDepth \in Nat \ {0}

VARIABLES
  at,                \* per thread: where it is
  suspended,         \* per thread: Mach's suspend count
  usedThreads,       \* per thread: the markers it has
  owner,             \* the thread that has usedThreadsLock, or NoThread
  inCriticalSection, \* how deep the owner's critical sections are nested
  phase,             \* whether the owner's Enter or Exit goes over usedThreads
  sweep,             \* the threads it has still to suspend or resume
  crash              \* whether abort() was called

managerVars == <<at, suspended, usedThreads, owner, inCriticalSection, phase, sweep, crash>>
lockVars    == <<owner, inCriticalSection, phase, sweep>>

\* Where a thread is while its marker says that it executes, ...
Executing == {"guest", "sweep", "leave", "write", "register", "call"}
\* ... and where else it can be.
At == Executing \cup {"unborn", "born", "mark", "unmark", "finish", "dead"}

TypeOKManager ==
  /\ at \in [Thread -> At]
  /\ suspended \in [Thread -> Nat]
  /\ usedThreads \in [Thread -> Nat]
  /\ owner \in Thread \cup {NoThread}
  /\ inCriticalSection \in Nat
  /\ phase \in {"none", "suspend", "resume"}
  /\ sweep \in SUBSET Thread
  /\ crash \in BOOLEAN

\* The main thread has its marker, and runs the program.
InitManager ==
  /\ at = [t \in Thread |-> IF t = Main THEN "guest" ELSE "unborn"]
  /\ suspended = [t \in Thread |-> 0]
  /\ usedThreads = [t \in Thread |-> IF t = Main THEN 1 ELSE 0]
  /\ owner = NoThread
  /\ inCriticalSection = 0
  /\ phase = "none"
  /\ sweep = {}
  /\ crash = FALSE

Runs(t) == ~crash /\ suspended[t] = 0

Goto(t, from, to) ==
  /\ Runs(t)
  /\ at[t] = from
  /\ at' = [at EXCEPT ![t] = to]

CanLock(t) == owner \in {NoThread, t}

-----------------------------------------------------------------------------
(* The life of a host thread: an ExecutionMarker around the guest's code.   *)

\* Mutant: the lock is not taken.
MarkThreadUnlocked(t) ==
  /\ Goto(t, "born", "guest")
  /\ usedThreads' = [usedThreads EXCEPT ![t] = @ + 1]
  /\ UNCHANGED <<suspended, lockVars, crash>>

MarkThreadAsExecuting(t) ==
  \/ /\ Goto(t, "born", "mark")
     /\ CanLock(t)
     /\ owner' = t
     /\ UNCHANGED <<suspended, usedThreads, inCriticalSection, phase, sweep, crash>>
  \/ /\ Goto(t, "mark", "guest")
     /\ usedThreads' = [usedThreads EXCEPT ![t] = @ + 1]
     /\ owner' = NoThread
     /\ UNCHANGED <<suspended, inCriticalSection, phase, sweep, crash>>

\* Mutant: the lock is not taken.
UnmarkThreadUnlocked(t) ==
  /\ t # Main
  /\ Goto(t, "guest", "finish")
  /\ usedThreads' = [usedThreads EXCEPT ![t] = @ - 1]
  /\ UNCHANGED <<suspended, lockVars, crash>>

\* The guest's code returned or threw, perhaps within a critical section: the recursive
\* lock then stays locked.  When the main thread returns the process ends instead.
UnmarkThreadAsExecuting(t) ==
  \/ /\ t # Main
     /\ Goto(t, "guest", "unmark")
     /\ CanLock(t)
     /\ owner' = t
     /\ UNCHANGED <<suspended, usedThreads, inCriticalSection, phase, sweep, crash>>
  \/ /\ Goto(t, "unmark", "finish")
     /\ usedThreads' = [usedThreads EXCEPT ![t] = @ - 1]
     /\ owner' = IF inCriticalSection > 0 THEN t ELSE NoThread
     /\ UNCHANGED <<suspended, inCriticalSection, phase, sweep, crash>>

-----------------------------------------------------------------------------
(* Critical sections.                                                       *)

Others(t) == {u \in Thread \ {t} : usedThreads[u] # 0}

EnterCriticalSection(t) ==
  /\ Goto(t, "guest", "sweep")
  /\ CanLock(t)
  /\ inCriticalSection < MaxDepth
  /\ owner' = t
  /\ inCriticalSection' = inCriticalSection + 1
  /\ phase' = "suspend"
  /\ sweep' = Others(t)
  /\ UNCHANGED <<suspended, usedThreads, crash>>

\* Mutant: no section need have been entered, and the assertion is compiled out.
ExitCriticalSectionUnchecked(t) ==
  /\ Goto(t, "guest", "sweep") \/ Goto(t, "leave", "sweep")
  /\ phase' = "resume"
  /\ sweep' = Others(t)
  /\ UNCHANGED <<suspended, usedThreads, owner, inCriticalSection, crash>>

\* A guest leaves only a section that it has entered.
ExitCriticalSection(t) ==
  /\ owner = t
  /\ inCriticalSection > 0
  /\ Goto(t, "guest", "sweep") \/ Goto(t, "leave", "sweep")
  /\ phase' = "resume"
  /\ sweep' = Others(t)
  /\ UNCHANGED <<suspended, usedThreads, owner, inCriticalSection, crash>>

InSweep(t, direction) ==
  /\ Runs(t)
  /\ at[t] = "sweep"
  /\ phase = direction

SuspendNext(t, u) ==
  /\ InSweep(t, "suspend")
  /\ u \in sweep
  /\ IF at[u] = "dead"
     THEN /\ crash' = TRUE
          /\ UNCHANGED <<suspended, sweep>>
     ELSE /\ suspended' = [suspended EXCEPT ![u] = @ + 1]
          /\ sweep' = sweep \ {u}
          /\ UNCHANGED crash
  /\ UNCHANGED <<at, usedThreads, owner, inCriticalSection, phase>>

ResumeNext(t, u) ==
  /\ InSweep(t, "resume")
  /\ u \in sweep
  /\ IF at[u] = "dead" \/ suspended[u] = 0
     THEN /\ crash' = TRUE
          /\ UNCHANGED <<suspended, sweep>>
     ELSE /\ suspended' = [suspended EXCEPT ![u] = @ - 1]
          /\ sweep' = sweep \ {u}
          /\ UNCHANGED crash
  /\ UNCHANGED <<at, usedThreads, owner, inCriticalSection, phase>>

Entered(t) ==
  /\ phase = "suspend"
  /\ sweep = {}
  /\ Goto(t, "sweep", "guest")
  /\ phase' = "none"
  /\ UNCHANGED <<suspended, usedThreads, owner, inCriticalSection, sweep, crash>>

\* Mutant: the lock is released as if sections did not nest.
ExitedAtOnce(t) ==
  /\ phase = "resume"
  /\ sweep = {}
  /\ Goto(t, "sweep", "guest")
  /\ phase' = "none"
  /\ inCriticalSection' = inCriticalSection - 1
  /\ owner' = NoThread
  /\ UNCHANGED <<suspended, usedThreads, sweep, crash>>

Exited(t) ==
  /\ phase = "resume"
  /\ sweep = {}
  /\ Goto(t, "sweep", "guest")
  /\ phase' = "none"
  /\ inCriticalSection' = inCriticalSection - 1
  /\ owner' = IF inCriticalSection = 1 THEN NoThread ELSE t
  /\ UNCHANGED <<suspended, usedThreads, sweep, crash>>
=============================================================================
