----------------------------- MODULE ThreadsLib -----------------------------
(***************************************************************************)
(* ThreadsLib, the guest's Thread Manager, over ThreadManager: guests      *)
(* create, stop, resume and dispose of threads, and enter and leave        *)
(* critical sections.  Stopping a thread and a critical section both use   *)
(* Mach's one suspend count per thread.                                    *)
(*                                                                         *)
(* threadMap is shared without a lock.  A call reads it, writes it and     *)
(* then suspends or resumes the thread it found, in steps of their own.    *)
(* A thread is named by itself, not by its ID; that a thread may register  *)
(* itself, with an ID that its creator replaces, is kept.                  *)
(***************************************************************************)
EXTENDS ThreadManager

CONSTANT MaxCalls    \* bound: calls that stop, resume or dispose of a thread

ASSUME CallsAssumption == MaxCalls \in Nat

Ready   == 0
Stopped == 1
Running == 2

NotRegistered == [by |-> "nobody", state |-> Ready]
ThreadInfo == [by: {"nobody", "itself", "creator"}, state: {Ready, Stopped, Running}]

\* What a call has found out and has still to do, and where the thread is afterwards.
Change == [thread: Thread, state: {Ready, Stopped}, call: {"none", "suspend", "resume"},
           then: {"guest", "leave"}]

VARIABLES
  threadMap,  \* per thread: Globals::threadMap's entry
  change,     \* per thread: the locals of its call
  calls,      \* calls made, against MaxCalls
  stopped,    \* history: per thread, ThreadsLib's suspensions less its resumptions
  stray       \* history: per thread, whether ThreadsLib ever resumed it from a
              \* suspension that was not ThreadsLib's

vars == <<managerVars, threadMap, change, calls, stopped, stray>>

TypeOK ==
  /\ TypeOKManager
  /\ threadMap \in [Thread -> ThreadInfo]
  /\ change \in [Thread -> Change]
  /\ calls \in Nat
  /\ stopped \in [Thread -> Nat]
  /\ stray \in [Thread -> BOOLEAN]

Idle(t) == [thread |-> t, state |-> Ready, call |-> "none", then |-> "guest"]

Init ==
  /\ InitManager
  /\ threadMap = [t \in Thread |-> NotRegistered]
  /\ change = [t \in Thread |-> Idle(t)]
  /\ calls = 0
  /\ stopped = [t \in Thread |-> 0]
  /\ stray = [t \in Thread |-> FALSE]

Registered(t) == threadMap[t].by # "nobody"

\* GetOrCreateCurrentThreadID: what t's entry is after it.
OwnEntry(t) ==
  IF Registered(t) THEN threadMap[t] ELSE [by |-> "itself", state |-> Running]

-----------------------------------------------------------------------------
(* The manager's operations, which leave ThreadsLib's state alone.          *)

ManagerStep(t) ==
  /\ \/ MarkThreadAsExecuting(t)
     \/ UnmarkThreadAsExecuting(t)
     \/ EnterCriticalSection(t)
     \/ ExitCriticalSection(t)
     \/ \E u \in Thread : SuspendNext(t, u)
     \/ \E u \in Thread : ResumeNext(t, u)
     \/ Entered(t)
     \/ Exited(t)
  /\ UNCHANGED <<threadMap, change, calls, stopped, stray>>

\* ThreadTrampoline's end: it looks for the ID its creator gave it.
Finish(t) ==
  /\ Goto(t, "finish", "dead")
  /\ threadMap' = IF threadMap[t].by = "creator"
                  THEN [threadMap EXCEPT ![t].state = Stopped] ELSE threadMap
  /\ UNCHANGED <<suspended, usedThreads, lockVars, crash, change, calls, stopped, stray>>

-----------------------------------------------------------------------------
(* The guest's calls, on thread t.                                          *)

\* NewThread: pthread_create, ...
NewThread(t, u) ==
  /\ Runs(t)
  /\ at[t] = "guest"
  /\ at[u] = "unborn"
  /\ at' = [at EXCEPT ![t] = "register", ![u] = "born"]
  /\ \/ change' = [change EXCEPT ![t] = [thread |-> u, state |-> Ready, call |-> "none",
                                         then |-> "guest"]]
     \/ change' = [change EXCEPT ![t] = [thread |-> u, state |-> Stopped,
                                         call |-> "suspend", then |-> "guest"]]
  /\ UNCHANGED <<suspended, usedThreads, lockVars, crash, threadMap, calls, stopped, stray>>

AfterWrite(t) == IF change[t].call = "none" THEN change[t].then ELSE "call"

\* The locals of t's call are gone when it returns.
Return(t) == change' = [change EXCEPT ![t] = Idle(t)]

ReturnOrCall(t) == IF change[t].call = "none" THEN Return(t) ELSE UNCHANGED change

\* ... and the entry, whatever the thread has done meanwhile; a thread that is to start
\* suspended is suspended next.
RegisterNewThread(t) ==
  /\ Goto(t, "register", AfterWrite(t))
  /\ threadMap' = [threadMap EXCEPT ![change[t].thread] =
                     [by |-> "creator", state |-> change[t].state]]
  /\ ReturnOrCall(t)
  /\ UNCHANGED <<suspended, usedThreads, lockVars, crash, calls, stopped, stray>>

\* GetCurrentThread, GetThreadCurrentTaskRef, and GetThreadState of the current thread.
GetCurrentThread(t) ==
  /\ Goto(t, "guest", "guest")
  /\ threadMap' = [threadMap EXCEPT ![t] = OwnEntry(t)]
  /\ UNCHANGED <<suspended, usedThreads, lockVars, crash, change, calls, stopped, stray>>

Calls ==
  /\ calls < MaxCalls
  /\ calls' = calls + 1

\* What SetThreadState does to u, whose state was old: a thread may suspend itself from
\* any state, another one only from Ready.
MachCall(t, u, old, new) ==
  IF t = u
  THEN IF new = Stopped THEN "suspend" ELSE "none"
  ELSE IF old = Ready /\ new = Stopped THEN "suspend"
       ELSE IF old = Stopped /\ new = Ready THEN "resume" ELSE "none"

SetState(t, u, new, then) ==
  /\ Calls
  /\ t = u \/ Registered(u)
  /\ LET entry == IF t = u THEN OwnEntry(t) ELSE threadMap[u]
     IN /\ threadMap' = [threadMap EXCEPT ![u] = entry]
        /\ IF entry.state = new
           THEN /\ Goto(t, "guest", then)
                /\ UNCHANGED change
           ELSE /\ Goto(t, "guest", "write")
                /\ change' = [change EXCEPT ![t] =
                                [thread |-> u, state |-> new,
                                 call |-> MachCall(t, u, entry.state, new), then |-> then]]
  /\ UNCHANGED <<suspended, usedThreads, lockVars, crash, stopped, stray>>

SetThreadState(t, u, new) == SetState(t, u, new, "guest")

\* The same, and then ExitCriticalSection.
SetThreadStateEndCritical(t, u, new) ==
  /\ owner = t
  /\ SetState(t, u, new, "leave")

\* SetThreadReady and SetThreadReadyGivenTaskRef.
SetThreadReady(t, u) ==
  /\ Calls
  /\ Registered(u)
  /\ threadMap[u].state = Stopped
  /\ Goto(t, "guest", "write")
  /\ change' = [change EXCEPT ![t] = [thread |-> u, state |-> Ready, call |-> "resume",
                                      then |-> "guest"]]
  /\ UNCHANGED <<suspended, usedThreads, lockVars, crash, threadMap, stopped, stray>>

\* targetInfo->state = ..., in the entry found; it may have been erased.
WriteState(t) ==
  /\ Goto(t, "write", AfterWrite(t))
  /\ threadMap' = IF Registered(change[t].thread)
                  THEN [threadMap EXCEPT ![change[t].thread].state = change[t].state]
                  ELSE threadMap
  /\ ReturnOrCall(t)
  /\ UNCHANGED <<suspended, usedThreads, lockVars, crash, calls, stopped, stray>>

\* thread_suspend; here an error is ignored.
SuspendThread(t) ==
  LET u == change[t].thread IN
  /\ change[t].call = "suspend"
  /\ Goto(t, "call", change[t].then)
  /\ IF at[u] = "dead"
     THEN UNCHANGED <<suspended, stopped>>
     ELSE /\ suspended' = [suspended EXCEPT ![u] = @ + 1]
          /\ stopped' = [stopped EXCEPT ![u] = @ + 1]
  /\ Return(t)
  /\ UNCHANGED <<usedThreads, lockVars, crash, threadMap, calls, stray>>

\* thread_resume; here an error is ignored.
ResumeThread(t) ==
  LET u == change[t].thread IN
  /\ change[t].call = "resume"
  /\ Goto(t, "call", change[t].then)
  /\ IF at[u] = "dead" \/ suspended[u] = 0
     THEN UNCHANGED <<suspended, stopped, stray>>
     ELSE /\ suspended' = [suspended EXCEPT ![u] = @ - 1]
          /\ IF stopped[u] = 0
             THEN /\ stray' = [stray EXCEPT ![u] = TRUE]
                  /\ UNCHANGED stopped
             ELSE /\ stopped' = [stopped EXCEPT ![u] = @ - 1]
                  /\ UNCHANGED stray
  /\ Return(t)
  /\ UNCHANGED <<usedThreads, lockVars, crash, threadMap, calls>>

\* thread_terminate, wherever u is, and the entry's end.
DisposeThread(t, u) ==
  /\ Runs(t)
  /\ at[t] = "guest"
  /\ Calls
  /\ Registered(u)
  /\ at' = IF u = t THEN at ELSE [at EXCEPT ![u] = "dead"]
  /\ threadMap' = [threadMap EXCEPT ![u] = NotRegistered]
  /\ UNCHANGED <<suspended, usedThreads, lockVars, crash, change, stopped, stray>>

GuestCall(t) ==
  \/ GetCurrentThread(t)
  \/ \E u \in Thread : NewThread(t, u)
  \/ RegisterNewThread(t)
  \/ \E u \in Thread, new \in {Ready, Stopped} : SetThreadState(t, u, new)
  \/ \E u \in Thread, new \in {Ready, Stopped} : SetThreadStateEndCritical(t, u, new)
  \/ \E u \in Thread : SetThreadReady(t, u)
  \/ WriteState(t)
  \/ SuspendThread(t)
  \/ ResumeThread(t)
  \/ \E u \in Thread : DisposeThread(t, u)

Next == \E t \in Thread : ManagerStep(t) \/ Finish(t) \/ GuestCall(t)

Spec == Init /\ [][Next]_vars

-----------------------------------------------------------------------------
\* The suspensions of u that critical sections account for: one per section that its
\* owner is in, but for those that Enter has not come to, or Exit has undone already.
Held(u) ==
  IF owner \in {NoThread, u} \/ usedThreads[u] = 0 THEN 0
  ELSE inCriticalSection
         - (IF (phase = "suspend" /\ u \in sweep) \/ (phase = "resume" /\ u \notin sweep)
            THEN 1 ELSE 0)

\* A thread's suspend count is what ThreadsLib and critical sections, nested and
\* half entered or left, have put on it: when the last section is over no thread is left
\* suspended by it.  This holds for every thread that ThreadsLib has not resumed amiss.
SuspensionsMatch ==
  \A u \in Thread : stray[u] \/ suspended[u] = Held(u) + stopped[u]

\* The thread that is inside a critical section, past Enter and not yet in Exit.
Inside(t) == owner = t /\ inCriticalSection > 0 /\ phase = "none"

\* Inside a critical section no other thread executes guest code, those included that
\* were created, had not marked themselves, or were stopped and resumed meanwhile: but
\* for a thread that ThreadsLib has resumed amiss.
SectionIsExclusive ==
  \A t, u \in Thread :
    Inside(t) /\ t # u /\ at[u] \in Executing => stray[u] \/ suspended[u] > 0

\* Enter and Exit abort the process when Mach refuses to suspend or resume a thread: that
\* can only be one that was disposed of while it executed, or resumed amiss.
AbortsAreExplained ==
  crash => \E u \in Thread : stray[u] \/ (at[u] = "dead" /\ usedThreads[u] > 0)

\* All other active guest threads are frozen, guaranteeing strict atomicity.
SectionIsStrict ==
  \A t, u \in Thread : Inside(t) /\ t # u /\ at[u] \in Executing => suspended[u] > 0
=============================================================================
