---------------------------- MODULE DebugThreads ----------------------------
(***************************************************************************)
(* The thread half of the remote debug stub: ThreadContext, the DebugLoop  *)
(* that every guest thread runs, and the ConsumeThreadEvents loop of       *)
(* DebugThreadManager, which reaps completed threads and reports changes.  *)
(*                                                                         *)
(* A step is one access to state that another host thread reads or writes: *)
(* an operation on a WaitQueue (atomic under waitMutex, see WaitQueue), a  *)
(* critical section of threadsLock or mShouldResume, or an assignment to   *)
(* one of the unprotected fields executionState and stopReason.  What the  *)
(* guest computes is abstracted to how a run ends.                         *)
(***************************************************************************)
EXTENDS Integers, Sequences, FiniteSets

CONSTANTS Thread,    \* the guest threads of one debuggee (ThreadContext ids)
          Main,      \* the thread of the main symbol, created but not started
          NoThread   \* "no thread": a filler, not the id of any

ASSUME ThreadAssumption == /\ IsFiniteSet(Thread)
                           /\ Main \in Thread
                           /\ NoThread \notin Thread

RunCommand  == {"Kill", "None", "SingleStep", "StepOver", "Continue"}
ThreadState == {"NotReady", "Stopped", "Executing", "Completed"}
Steps       == {"SingleStep", "StepOver"}

\* Which of the causes a thread stopped for is left out; that it has one is not.
StopReason  == {"unset", "cause"}

\* What ends the host process: a failed assert, an exception nobody catches, or
\* the use of a DebugThreadManager that has been destroyed.
CrashCause == {"none", "assertion", "logicError", "systemError", "useAfterFree"}

SinkName == {"startup", "stub", "kill"}

\* The kinds of command that reach the stub's queue: $ThreadStatusChanged from the
\* event loop, $StreamClosed from the reader at its end, the rest from the debugger.
Kind    == {"status", "closed", "vCont", "c", "k", "?", "qThreadStopInfo", "p"}
Message == [kind: Kind, thread: Thread \cup {NoThread}, act: RunCommand]

\* A ThreadUpdate: the context it refers to and a copy of its state.
ThreadUpdate == [thread: Thread, state: ThreadState]

VARIABLES
  context,          \* per thread: "none", "live" or "freed" (the ThreadContext object)
  joinable,         \* per thread: context->thread holds the std::thread
  executionState, stopReason, nextAction,   \* the fields of ThreadContext
  loop,             \* per thread: where DebugLoop is
  action,           \* per thread: DebugLoop's local, the command being run
  threads,          \* DebugThreadManager::threads, the ids it owns
  changingContexts, \* the queue of ThreadUpdates
  sink,             \* which queue DebugThreadManager::sink points to
  queue,            \* the contents of each sink queue
  lastExitCode,     \* whose r3 lastExitCode holds
  eventAt,          \* where ConsumeThreadEvents is
  update,           \* its local: the update taken last
  run,              \* its local: keep looping
  managerLive,      \* the DebugContext, and the manager in it, exists
  crash             \* what ended the host process, if anything has

threadVars == <<context, joinable, executionState, stopReason, nextAction, loop, action>>
eventVars  == <<eventAt, update, run, lastExitCode>>
sinkVars   == <<sink, queue>>

LoopAt  == {"unborn", "begin", "announce", "autostart", "wait", "run", "report",
            "check", "exited"}
EventAt == {"take", "join", "erase", "post", "done"}

TypeOKThreads ==
  /\ context \in [Thread -> {"none", "live", "freed"}]
  /\ joinable \in [Thread -> BOOLEAN]
  /\ executionState \in [Thread -> ThreadState]
  /\ stopReason \in [Thread -> StopReason]
  /\ nextAction \in [Thread -> RunCommand]
  /\ loop \in [Thread -> LoopAt]
  /\ action \in [Thread -> RunCommand]
  /\ threads \in SUBSET Thread
  /\ changingContexts \in Seq(ThreadUpdate)
  /\ sink \in SinkName
  /\ queue \in [SinkName -> Seq(Message)]
  /\ lastExitCode \in Thread \cup {NoThread}
  /\ eventAt \in EventAt
  /\ update \in ThreadUpdate
  /\ run \in BOOLEAN
  /\ managerLive \in BOOLEAN
  /\ crash \in CrashCause

\* action and update are locals of the loops: nothing reads them before they are set.
InitThreads ==
  /\ context = [t \in Thread |-> "none"]
  /\ joinable = [t \in Thread |-> FALSE]
  /\ executionState = [t \in Thread |-> "NotReady"]
  /\ stopReason = [t \in Thread |-> "unset"]
  /\ nextAction = [t \in Thread |-> "None"]
  /\ loop = [t \in Thread |-> "unborn"]
  /\ action = [t \in Thread |-> "None"]
  /\ threads = {}
  /\ changingContexts = <<>>
  /\ sink = "startup"
  /\ queue = [s \in SinkName |-> <<>>]
  /\ lastExitCode = NoThread
  /\ eventAt = "take"
  /\ update = [thread |-> Main, state |-> "NotReady"]
  /\ run = TRUE
  /\ managerLive = TRUE
  /\ crash = "none"

-----------------------------------------------------------------------------
(* WaitQueue<T>, as its users see it.                                       *)

PutOne(q, element) == Append(q, element)
TakeOne(q) == Tail(q)

Message3(kind, t, act) == [kind |-> kind, thread |-> t, act |-> act]
Status(t) == Message3("status", t, "None")

-----------------------------------------------------------------------------
(* ThreadContext and DebugLoop, on the guest thread t.                      *)

Goto(t, from, to) ==
  /\ crash = "none"
  /\ loop[t] = from
  /\ loop' = [loop EXCEPT ![t] = to]

\* Perform refuses a thread whose state is not Stopped; it then throws.
CanPerform(t) == executionState[t] = "Stopped"

\* The update's state is read when it is constructed, by the thread that owns it.
PutUpdate(t) ==
  changingContexts' =
    PutOne(changingContexts, [thread |-> t, state |-> executionState[t]])

Begin(t) ==
  /\ Goto(t, "begin", "announce")
  /\ stopReason' = [stopReason EXCEPT ![t] = "cause"]
  /\ executionState' = [executionState EXCEPT ![t] = "Stopped"]
  /\ UNCHANGED <<context, joinable, nextAction, action, threads, changingContexts,
                 sinkVars, eventVars, managerLive, crash>>

\* Every thread but Main is an initializer, started with startNow = true.
Announce(t) ==
  /\ Goto(t, "announce", IF t = Main THEN "wait" ELSE "autostart")
  /\ PutUpdate(t)
  /\ UNCHANGED <<context, joinable, executionState, stopReason, nextAction, action,
                 threads, sinkVars, eventVars, managerLive, crash>>

Autostart(t) ==
  /\ Goto(t, "autostart", "wait")
  /\ CanPerform(t)
  /\ nextAction' = [nextAction EXCEPT ![t] = "Continue"]
  /\ UNCHANGED <<context, joinable, executionState, stopReason, action, threads,
                 changingContexts, sinkVars, eventVars, managerLive, crash>>

GetNextAction(t) ==
  /\ Goto(t, "wait", "run")
  /\ nextAction[t] # "None"
  /\ action' = [action EXCEPT ![t] = nextAction[t]]
  /\ nextAction' = [nextAction EXCEPT ![t] = "None"]
  /\ UNCHANGED <<context, joinable, executionState, stopReason, threads,
                 changingContexts, sinkVars, eventVars, managerLive, crash>>

Settle(t, state) ==
  /\ Goto(t, "run", "report")
  /\ executionState' = [executionState EXCEPT ![t] = state]
  /\ UNCHANGED <<context, joinable, stopReason, nextAction, action, threads,
                 changingContexts, sinkVars, eventVars, managerLive, crash>>

\* pc reached the end address: at once for Kill, when the guest returns otherwise.
Complete(t) == Settle(t, "Completed")

\* One step that neither left the program nor faulted.  stopReason keeps its value.
StepDone(t) ==
  /\ action[t] \in Steps
  /\ Settle(t, "Stopped")

\* An InterpreterException: a trap (a breakpoint), a bad access or a bad instruction.
Fault(t) ==
  /\ action[t] # "Kill"
  /\ Settle(t, "Stopped")

Report(t) ==
  /\ Goto(t, "report", "check")
  /\ PutUpdate(t)
  /\ UNCHANGED <<context, joinable, executionState, stopReason, nextAction, action,
                 threads, sinkVars, eventVars, managerLive, crash>>

\* Mutant: the loop does not look at the state.
CheckLoopForever(t) ==
  /\ Goto(t, "check", "wait")
  /\ UNCHANGED <<context, joinable, executionState, stopReason, nextAction, action,
                 threads, changingContexts, sinkVars, eventVars, managerLive, crash>>

\* The loop condition, which reads the context once more after the last PutOne.
CheckLoop(t) ==
  /\ Goto(t, "check", IF executionState[t] = "Completed" THEN "exited" ELSE "wait")
  /\ UNCHANGED <<context, joinable, executionState, stopReason, nextAction, action,
                 threads, changingContexts, sinkVars, eventVars, managerLive, crash>>

DebugLoop(t) ==
  \/ Begin(t)
  \/ Announce(t)
  \/ Autostart(t)
  \/ GetNextAction(t)
  \/ Complete(t)
  \/ StepDone(t)
  \/ Fault(t)
  \/ Report(t)
  \/ CheckLoop(t)

-----------------------------------------------------------------------------
(* ConsumeThreadEvents, on its dedicated host thread.                       *)

\* Mutant: the thread's state is looked at, not the copy of it in the update.
TakeUpdateCurrent ==
  /\ crash = "none"
  /\ eventAt = "take"
  /\ changingContexts # <<>>
  /\ update' = Head(changingContexts)
  /\ changingContexts' = TakeOne(changingContexts)
  /\ eventAt' = IF executionState[update'.thread] = "Completed" THEN "join" ELSE "post"
  /\ UNCHANGED <<threadVars, threads, sinkVars, run, lastExitCode, managerLive, crash>>

TakeUpdate ==
  /\ crash = "none"
  /\ eventAt = "take"
  /\ changingContexts # <<>>
  /\ update' = Head(changingContexts)
  /\ changingContexts' = TakeOne(changingContexts)
  /\ eventAt' = IF update'.state = "Completed" THEN "join" ELSE "post"
  /\ UNCHANGED <<threadVars, threads, sinkVars, run, lastExitCode, managerLive, crash>>

\* Mutant: std::thread::detach, which does not wait.
DetachThread ==
  /\ crash = "none"
  /\ eventAt = "join"
  /\ IF joinable[update.thread]
     THEN /\ joinable' = [joinable EXCEPT ![update.thread] = FALSE]
          /\ eventAt' = "erase"
          /\ UNCHANGED crash
     ELSE /\ crash' = "systemError"
          /\ UNCHANGED <<joinable, eventAt>>
  /\ UNCHANGED <<context, executionState, stopReason, nextAction, loop, action, threads,
                 changingContexts, sinkVars, update, run, lastExitCode, managerLive>>

\* std::thread::join; it throws if StartThread has not stored the thread yet.
JoinThread ==
  /\ crash = "none"
  /\ eventAt = "join"
  /\ IF joinable[update.thread]
     THEN /\ loop[update.thread] = "exited"
          /\ joinable' = [joinable EXCEPT ![update.thread] = FALSE]
          /\ eventAt' = "erase"
          /\ UNCHANGED crash
     ELSE /\ crash' = "systemError"
          /\ UNCHANGED <<joinable, eventAt>>
  /\ UNCHANGED <<context, executionState, stopReason, nextAction, loop, action, threads,
                 changingContexts, sinkVars, update, run, lastExitCode, managerLive>>

\* Mutant: the last thread does not end the loop.
EraseThreadForever ==
  /\ crash = "none"
  /\ eventAt = "erase"
  /\ lastExitCode' = update.thread
  /\ threads' = threads \ {update.thread}
  /\ context' = IF update.thread \in threads
                THEN [context EXCEPT ![update.thread] = "freed"]
                ELSE context
  /\ eventAt' = "post"
  /\ UNCHANGED <<joinable, executionState, stopReason, nextAction, loop, action,
                 changingContexts, sinkVars, update, run, managerLive, crash>>

\* Under threadsLock.  Erasing an id destroys its ThreadContext; erasing one that is
\* not in the map does nothing.
EraseThread ==
  /\ crash = "none"
  /\ eventAt = "erase"
  /\ lastExitCode' = update.thread
  /\ threads' = threads \ {update.thread}
  /\ context' = IF update.thread \in threads
                THEN [context EXCEPT ![update.thread] = "freed"]
                ELSE context
  /\ run' = (run /\ threads' # {})
  /\ eventAt' = "post"
  /\ UNCHANGED <<joinable, executionState, stopReason, nextAction, loop, action,
                 changingContexts, sinkVars, update, managerLive, crash>>

\* Mutant: nothing is posted for a thread that has just been erased.
PostStatusIfThere ==
  /\ crash = "none"
  /\ eventAt = "post"
  /\ IF managerLive
     THEN /\ queue' = IF update.state = "Completed" THEN queue
                      ELSE [queue EXCEPT ![sink] = PutOne(@, Status(update.thread))]
          /\ eventAt' = IF run THEN "take" ELSE "done"
          /\ UNCHANGED crash
     ELSE /\ crash' = "useAfterFree"
          /\ UNCHANGED <<queue, eventAt>>
  /\ UNCHANGED <<threadVars, threads, changingContexts, sink, update, run, lastExitCode,
                 managerLive>>

\* sink->PutOne: through the manager, which must still exist.
PostStatus ==
  /\ crash = "none"
  /\ eventAt = "post"
  /\ IF managerLive
     THEN /\ queue' = [queue EXCEPT ![sink] = PutOne(@, Status(update.thread))]
          /\ eventAt' = IF run THEN "take" ELSE "done"
          /\ UNCHANGED crash
     ELSE /\ crash' = "useAfterFree"
          /\ UNCHANGED <<queue, eventAt>>
  /\ UNCHANGED <<threadVars, threads, changingContexts, sink, update, run, lastExitCode,
                 managerLive>>

ConsumeThreadEvents ==
  \/ TakeUpdate
  \/ JoinThread
  \/ EraseThread
  \/ PostStatus

-----------------------------------------------------------------------------
(* The manager's operations that the stub's main thread calls.              *)

\* new ThreadContext, and the construction of the std::thread that runs DebugLoop.
SpawnThread(t) ==
  /\ context[t] = "none"
  /\ context' = [context EXCEPT ![t] = "live"]
  /\ loop' = [loop EXCEPT ![t] = "begin"]
  /\ UNCHANGED <<joinable, executionState, stopReason, nextAction, action>>

\* ... its assignment to context->thread ...
StoreThread(t) ==
  /\ joinable' = [joinable EXCEPT ![t] = TRUE]
  /\ UNCHANGED <<context, executionState, stopReason, nextAction, loop, action>>

\* ... and, under threadsLock, its registration.
RegisterThread(t) == threads' = threads \cup {t}

\* Perform(command) on each thread of S, within one critical section of threadsLock.
PerformOn(S, command) ==
  nextAction' = [t \in Thread |-> IF t \in S THEN command ELSE nextAction[t]]

\* Mutant: completed as soon as there is an exit code.
HasExitCode == lastExitCode # NoThread

HasCompleted == threads = {}
=============================================================================
