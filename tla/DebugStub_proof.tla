-------------------------- MODULE DebugStub_proof --------------------------
(***************************************************************************)
(* The safety of the debug stub for any set of guest threads, any number   *)
(* of commands and any guest program.                                      *)
(*                                                                         *)
(* The argument: a ThreadContext is destroyed only when its completion is  *)
(* handled, which is the last update its thread ever announces, and after  *)
(* its DebugLoop was joined; and a thread leaves the map only that way, so *)
(* an empty map means, once Start is over, that every thread has exited.   *)
(***************************************************************************)
EXTENDS DebugStub, FiniteSetTheorems, SequenceTheorems, TLAPS

\* Where DebugLoop is says what its context is like.
LoopInv ==
  \A t \in Thread :
    /\ context[t] = "none" <=> loop[t] = "unborn"
    /\ context[t] = "freed" => loop[t] = "exited"
    /\ executionState[t] = "Completed" => loop[t] \in {"report", "check", "exited"}
    /\ loop[t] = "exited" => executionState[t] = "Completed"

\* The completion of t has been announced.
Announced(t) ==
  /\ context[t] = "live"
  /\ executionState[t] = "Completed"
  /\ loop[t] \in {"check", "exited"}

\* The updates that are queued, in which a completion is its thread's last.
QueueInv ==
  \A i \in 1..Len(changingContexts) :
    /\ context[changingContexts[i].thread] = "live"
    /\ changingContexts[i].state = "Completed" =>
         /\ Announced(changingContexts[i].thread)
         /\ \A j \in 1..Len(changingContexts) :
              j > i => changingContexts[j].thread # changingContexts[i].thread

\* The completion the event loop is handling.
Handling == eventAt \in {"join", "erase"}

EventInv ==
  Handling =>
    /\ Announced(update.thread)
    /\ eventAt = "erase" => loop[update.thread] = "exited"
    /\ \A i \in 1..Len(changingContexts) : changingContexts[i].thread # update.thread

\* Created by StartThread, and not registered yet.
Unregistered(t) == t = starting /\ stubAt \in {"store", "register"}

\* A thread that was created is in the map until its completion is handled.
MapInv ==
  \A t \in Thread :
    /\ t \in threads => context[t] = "live"
    /\ Unregistered(t) => t \notin threads /\ context[t] = "live"
    /\ context[t] = "live" => t \in threads \/ Unregistered(t)
    /\ Started \/ stubAt = "await" => context[t] # "none"

MainRegistered == context[Main] # "none" /\ ~Unregistered(Main)

\* Until Start is over the main thread is created first, and stays stopped.
StartInv ==
  /\ ~Started => /\ nextAction[Main] = "None"
                 /\ loop[Main] \in {"unborn", "begin", "announce", "wait"}
  /\ ~MainRegistered => \A t \in Thread \ {Main} : context[t] = "none"
  /\ stubAt = "await" => remaining > 0

\* The event loop goes on as long as the map, once it has the main thread, is not empty.
RunInv ==
  /\ eventAt \in {"take", "join", "erase"} => run
  /\ eventAt = "done" => ~run
  /\ ~run => Started /\ threads = {}
  /\ run /\ MainRegistered => threads # {}

\* What the stub has concluded from an empty map.
EndInv ==
  ~managerLive \/ answer.kind = "W" => Started /\ threads = {}

IInv ==
  /\ TypeOK
  /\ LoopInv
  /\ QueueInv
  /\ EventInv
  /\ MapInv
  /\ StartInv
  /\ RunInv
  /\ EndInv

-----------------------------------------------------------------------------
(* Types.                                                                   *)

\* A queue of messages or of updates stays one when something is put or taken.
LEMMA QueueTypes ==
  ASSUME NEW S, NEW q \in Seq(S)
  PROVE  /\ \A e \in S : PutOne(q, e) \in Seq(S)
         /\ q # <<>> => TakeOne(q) \in Seq(S) /\ Head(q) \in S
BY AppendProperties, HeadTailProperties DEF PutOne, TakeOne

\* The steps of the guest threads.
LEMMA GuestTypes ==
  ASSUME TypeOK, GuestStep
  PROVE  TypeOK'
<1> USE DEF TypeOK
<1>1. PICK t \in Thread : DebugLoop(t)
  BY DEF GuestStep
<1>2. TypeOKStub'
  BY DEF GuestStep, stubVars, readerVars, TypeOKStub
<1> USE DEF TypeOKThreads, sinkVars, eventVars, Goto, LoopAt, RunCommand, ThreadState
<1>3. CASE Announce(t) \/ Report(t)
  <2>1. [thread |-> t, state |-> executionState[t]] \in ThreadUpdate
    BY DEF ThreadUpdate
  <2>2. changingContexts' = PutOne(changingContexts,
                                   [thread |-> t, state |-> executionState[t]])
    BY <1>3 DEF Announce, Report, PutUpdate
  <2>3. changingContexts' \in Seq(ThreadUpdate)
    BY <2>1, <2>2, QueueTypes
  <2> QED
    BY <1>2, <1>3, <2>3 DEF Announce, Report, PutUpdate
<1>4. CASE Begin(t)
  BY <1>2, <1>4 DEF Begin, StopReason
<1>5. CASE Autostart(t) \/ GetNextAction(t)
  BY <1>2, <1>5 DEF Autostart, GetNextAction
<1>6. CASE CheckLoop(t)
  BY <1>2, <1>6 DEF CheckLoop
<1>7. CASE Complete(t) \/ StepDone(t) \/ Fault(t)
  BY <1>2, <1>7 DEF Complete, StepDone, Fault, Settle
<1> QED
  BY <1>1, <1>3, <1>4, <1>5, <1>6, <1>7 DEF DebugLoop

\* The steps of the event loop.
LEMMA EventTypes ==
  ASSUME TypeOK, EventStep
  PROVE  TypeOK'
<1> USE DEF TypeOK
<1>1. TypeOKStub'
  BY DEF EventStep, stubVars, readerVars, TypeOKStub
<1>2. update.thread \in Thread
  BY DEF TypeOKThreads, ThreadUpdate
<1> USE DEF TypeOKThreads, sinkVars, threadVars, EventAt, CrashCause
<1>3. CASE TakeUpdate
  <2>1. update' \in ThreadUpdate /\ changingContexts' \in Seq(ThreadUpdate)
    BY <1>3, QueueTypes DEF TakeUpdate
  <2> QED
    BY <1>1, <1>3, <2>1 DEF TakeUpdate
<1>4. CASE JoinThread
  BY <1>1, <1>2, <1>4 DEF JoinThread
<1>5. CASE EraseThread
  BY <1>1, <1>2, <1>5 DEF EraseThread
<1>6. CASE PostStatus
  <2>1. Status(update.thread) \in Message
    BY <1>2 DEF Status, Message3, Message, Kind, RunCommand
  <2>2. PutOne(queue[sink], Status(update.thread)) \in Seq(Message)
    BY <2>1, QueueTypes
  <2>3. queue' \in [SinkName -> Seq(Message)]
    BY <1>6, <2>2 DEF PostStatus
  <2> QED
    BY <1>1, <1>6, <2>3 DEF PostStatus
<1> QED
  BY <1>3, <1>4, <1>5, <1>6 DEF EventStep, ConsumeThreadEvents

\* The steps of DebugContext::Start.
LEMMA StartTypes ==
  ASSUME TypeOK, StartInv, StartStep
  PROVE  TypeOK'
<1> USE DEF TypeOK, TypeOKThreads, TypeOKStub, StubGoto, StubAt, StartAt, readerVars,
            sinkVars, eventVars, threadVars
<1>1. ASSUME NEW t \in Thread, StartThread(t)
      PROVE  TypeOK'
  BY <1>1 DEF StartThread, SpawnThread, LoopAt
<1>2. CASE StartThreadStore
  BY <1>2 DEF StartThreadStore, StoreThread
<1>3. CASE StartThreadRegister
  <2>1. Cardinality(Thread \ {Main}) \in Nat
    BY ThreadAssumption, FS_RemoveElement, FS_CardinalityType DEF ThreadAssumption
  <2>2. AwaitedStatuses \in Nat
    BY <2>1 DEF AwaitedStatuses
  <2> QED
    BY <1>3, <2>2 DEF StartThreadRegister, RegisterThread
<1>4. CASE AwaitStatus
  <2>1. TakeOne(queue["startup"]) \in Seq(Message)
    BY <1>4, QueueTypes DEF AwaitStatus, SinkName
  <2>2. remaining' \in Nat
    BY <1>4 DEF AwaitStatus, StartInv
  <2> QED
    BY <1>4, <2>1, <2>2 DEF AwaitStatus, SinkName
<1> QED
  BY <1>1, <1>2, <1>3, <1>4 DEF StartStep

\* What a command takes from the stub's queue.
LEMMA TakeTypes ==
  ASSUME TypeOK, NEW kinds, Take(kinds)
  PROVE  /\ queue' \in [SinkName -> Seq(Message)]
         /\ Command.thread \in Thread \cup {NoThread}
         /\ Command.act \in RunCommand
<1>1. /\ TakeOne(queue["stub"]) \in Seq(Message)
      /\ Head(queue["stub"]) \in Message
  BY QueueTypes DEF TypeOK, TypeOKThreads, Take, SinkName
<1> QED
  BY <1>1 DEF TypeOK, TypeOKThreads, Take, Command, Message

\* The commands that only answer.
LEMMA QueryTypes ==
  ASSUME TypeOK, TargetKilled \/ StatusChanged \/ GetStopReason \/ ReadPC
  PROVE  TypeOK'
<1>1. PICK kinds \in SUBSET Kind : Query(kinds)
  BY DEF TargetKilled, StatusChanged, GetStopReason, ReadPC, Kind
<1>2. queue' \in [SinkName -> Seq(Message)]
  BY <1>1, TakeTypes DEF Query
<1>3. TypeOKThreads'
  <2>1. crash' \in CrashCause
    BY DEF TypeOK, TypeOKThreads, TargetKilled, StatusChanged, GetStopReason, ReadPC,
           CrashCause
  <2> QED
    BY <1>1, <1>2, <2>1 DEF Query, TypeOK, TypeOKThreads, threadVars, eventVars
<1>4. answer' \in Answer
  <2>1. Command.thread \in Thread \cup {NoThread}
    BY <1>1, TakeTypes DEF Query
  <2>2. answer \in Answer /\ lastExitCode \in Thread \cup {NoThread}
    BY DEF TypeOK, TypeOKThreads, TypeOKStub
  <2> QED
    BY <2>1, <2>2, ThreadAssumption
       DEF TargetKilled, StatusChanged, GetStopReason, ReadPC, Reply, Answer, AnswerKind,
           ThreadAssumption
<1> QED
  BY <1>1, <1>3, <1>4 DEF Query, TypeOK, TypeOKStub, readerVars, StubGoto, StubAt

\* The commands that control threads, up to the destruction of the DebugContext.
LEMMA ControlTypes ==
  ASSUME TypeOK,
         \/ ThreadResume \/ Continue \/ Kill \/ PrivateStreamClosed
         \/ KillThreads \/ KillAwait \/ KillFinish
         \/ StreamClosedLate \/ LeaveLoop \/ JoinHelpers
  PROVE  TypeOK'
<1> USE DEF TypeOK, TypeOKThreads, TypeOKStub, StubGoto, StubAt, StartAt, KillAt, readerVars,
            sinkVars, eventVars, threadVars, loopVars
<1>1. ASSUME NEW kind, NEW S, NEW cmd \in RunCommand, Resume(kind, S, cmd)
      PROVE  TypeOK'
  <2>1. queue' \in [SinkName -> Seq(Message)]
    BY <1>1, TakeTypes DEF Resume
  <2>2. nextAction' \in [Thread -> RunCommand]
    BY <1>1 DEF Resume, PerformOn
  <2>3. answer' \in Answer /\ crash' \in CrashCause
    BY <1>1 DEF Resume, Reply, Answer, AnswerKind, CrashCause
  <2> QED
    BY <1>1, <2>1, <2>2, <2>3 DEF Resume
<1>2. ASSUME NEW kind, BeginKill(kind)
      PROVE  TypeOK'
  <2>1. queue' \in [SinkName -> Seq(Message)]
    BY <1>2, TakeTypes DEF BeginKill
  <2> QED
    BY <1>2, <2>1 DEF BeginKill, SinkName
<1>3. CASE KillThreads
  <2>1. Cardinality(threads) \in Nat
    BY ThreadAssumption, FS_Subset, FS_CardinalityType DEF ThreadAssumption
  <2>2. nextAction' \in [Thread -> RunCommand]
    BY <1>3 DEF KillThreads, PerformOn, RunCommand
  <2> QED
    BY <1>3, <2>1, <2>2 DEF KillThreads
<1>4. CASE KillAwait
  <2>1. TakeOne(queue["kill"]) \in Seq(Message)
    BY <1>4, QueueTypes DEF KillAwait, SinkName
  <2> QED
    BY <1>4, <2>1 DEF KillAwait, SinkName
<1>5. CASE KillFinish
  <2>1. answer' \in Answer
    BY <1>5 DEF KillFinish, Reply, Answer, AnswerKind
  <2>2. managerLive' \in BOOLEAN /\ streamLive' \in BOOLEAN
    BY <1>5 DEF KillFinish
  <2>3. stubAt' \in StubAt /\ crash' \in CrashCause
    BY <1>5 DEF KillFinish, CrashCause
  <2> QED
    BY <1>5, <2>1, <2>2, <2>3 DEF KillFinish
<1>6. CASE StreamClosedLate
  <2>1. queue' \in [SinkName -> Seq(Message)]
    BY <1>6, TakeTypes DEF StreamClosedLate
  <2> QED
    BY <1>6, <2>1 DEF StreamClosedLate
<1>7. CASE LeaveLoop \/ JoinHelpers
  BY <1>7 DEF LeaveLoop, JoinHelpers
<1>8. CASE ThreadResume
  <2>1. Command.act \in RunCommand
    BY <1>8, TakeTypes DEF ThreadResume, Resume
  <2> QED
    BY <1>1, <1>8, <2>1 DEF ThreadResume
<1>9. CASE Continue
  BY <1>1, <1>9 DEF Continue, RunCommand
<1>10. CASE Kill \/ PrivateStreamClosed
  BY <1>2, <1>10 DEF Kill, PrivateStreamClosed
<1> QED
  BY <1>3, <1>4, <1>5, <1>6, <1>7, <1>8, <1>9, <1>10

\* The reader.
LEMMA ReaderTypes ==
  ASSUME TypeOK, ReadCommand \/ ReadFails
  PROVE  TypeOK'
<1>1. PICK m \in Message : Deliver(m)
  <2>1. DebuggerCommand \subseteq Message
    BY CommandAssumption DEF DebuggerCommand, CommandAssumption, Message3, Message, Kind,
                             RunCommand
  <2>2. Message3("closed", NoThread, "None") \in Message
    BY DEF Message3, Message, Kind, RunCommand
  <2> QED
    BY <2>1, <2>2 DEF ReadCommand, ReadFails
<1>2. PutOne(queue["stub"], m) \in Seq(Message)
  BY QueueTypes DEF TypeOK, TypeOKThreads, SinkName
<1>3. queue' \in [SinkName -> Seq(Message)]
  BY <1>1, <1>2 DEF Deliver, TypeOK, TypeOKThreads
<1>4. sent' \in Nat
  BY DEF ReadCommand, ReadFails, TypeOK, TypeOKStub
<1> QED
  BY <1>3, <1>4 DEF ReadCommand, ReadFails, TypeOK, TypeOKThreads, TypeOKStub, threadVars, eventVars

\* Every step keeps the types.
LEMMA TypeStep ==
  ASSUME TypeOK, StartInv, [Next]_vars
  PROVE  TypeOK'
<1>1. CASE UNCHANGED vars
  BY <1>1 DEF vars, threadVars, eventVars, sinkVars, readerVars, TypeOK, TypeOKThreads,
              TypeOKStub
<1> QED
  BY <1>1, GuestTypes, EventTypes, StartTypes, QueryTypes, ControlTypes, ReaderTypes
     DEF Next, CommandStep

-----------------------------------------------------------------------------
(* Safety.                                                                  *)

CoreInv == LoopInv /\ QueueInv /\ EventInv /\ MapInv /\ StartInv /\ RunInv /\ EndInv

\* What the invariants other than LoopInv and QueueInv are about, besides the threads' fields.
coreVars == <<context, threads, eventAt, update, run, managerLive, answer, stubAt, starting,
              remaining>>

\* What is queued are updates.
LEMMA UpdateTypes ==
  ASSUME TypeOK
  PROVE  /\ Len(changingContexts) \in Nat
         /\ \A i \in 1..Len(changingContexts) : changingContexts[i].thread \in Thread
         /\ update.thread \in Thread
<1>1. ASSUME NEW i \in 1..Len(changingContexts)
      PROVE  changingContexts[i] \in ThreadUpdate
  BY ElementOfSeq DEF TypeOK, TypeOKThreads
<1> QED
  BY <1>1, LenProperties DEF TypeOK, TypeOKThreads, ThreadUpdate

\* The steps of a guest thread.
LEMMA GuestSafe ==
  ASSUME TypeOK, CoreInv, GuestStep
  PROVE  CoreInv'
<1> USE DEF CoreInv
<1>1. PICK t \in Thread : DebugLoop(t)
  BY DEF GuestStep
<1>2. UNCHANGED coreVars
  BY <1>1 DEF GuestStep, stubVars, coreVars, eventVars, DebugLoop, Begin, Announce, Autostart,
              GetNextAction, Complete, StepDone, Fault, Settle, Report, CheckLoop
<1>3. loop \in [Thread -> LoopAt] /\ executionState \in [Thread -> ThreadState]
      /\ nextAction \in [Thread -> RunCommand]
  BY DEF TypeOK, TypeOKThreads
<1>4. /\ loop[t] \notin {"unborn", "exited"}
      /\ context[t] = "live"
  <2>1. loop[t] \notin {"unborn", "exited"}
    BY <1>1, <1>3 DEF DebugLoop, Begin, Announce, Autostart, GetNextAction, Complete, StepDone,
                      Fault, Settle, Report, CheckLoop, Goto, LoopAt
  <2>2. context[t] \in {"none", "live", "freed"}
    BY DEF TypeOK, TypeOKThreads
  <2> QED
    BY <2>1, <2>2 DEF LoopInv
<1>5. \A u \in Thread \ {t} : loop'[u] = loop[u] /\ executionState'[u] = executionState[u]
                             /\ nextAction'[u] = nextAction[u]
  BY <1>1, <1>3 DEF DebugLoop, Begin, Announce, Autostart, GetNextAction, Complete, StepDone,
                    Fault, Settle, Report, CheckLoop, Goto
<1>6. /\ loop'[t] # "unborn"
      /\ executionState'[t] = "Completed" => loop'[t] \in {"report", "check", "exited"}
      /\ loop'[t] = "exited" => executionState'[t] = "Completed"
  <2> USE <1>3, <1>4 DEF Goto, LoopInv
  <2>1. CASE Begin(t) \/ Announce(t) \/ Autostart(t) \/ GetNextAction(t)
    BY <2>1 DEF Begin, Announce, Autostart, GetNextAction
  <2>2. CASE Complete(t) \/ StepDone(t) \/ Fault(t)
    BY <2>2 DEF Complete, StepDone, Fault, Settle
  <2>3. CASE Report(t) \/ CheckLoop(t)
    BY <2>3 DEF Report, CheckLoop
  <2> QED
    BY <1>1, <2>1, <2>2, <2>3 DEF DebugLoop
<1>7. LoopInv'
  BY <1>2, <1>4, <1>5, <1>6 DEF LoopInv, coreVars
<1>8. \A u \in Thread : Announced(u) => Announced(u)'
  <2>1. Announced(t) => CheckLoop(t)
    BY <1>1, <1>3, <1>4 DEF Announced, DebugLoop, Begin, Announce, Autostart, GetNextAction,
                            Complete, StepDone, Fault, Settle, Report, Goto
  <2>2. Announced(t) => Announced(t)'
    BY <1>2, <1>3, <2>1 DEF Announced, coreVars, CheckLoop, Goto
  <2> QED
    BY <1>2, <1>5, <2>2 DEF Announced, coreVars
<1>9. QueueInv' /\ EventInv'
  <2>1. CASE UNCHANGED changingContexts
    <3>1. QueueInv'
      BY <1>2, <1>8, <2>1, UpdateTypes DEF QueueInv, coreVars
    <3>2. EventInv'
      BY <1>2, <1>4, <1>5, <1>8, <2>1, UpdateTypes DEF EventInv, Handling, coreVars
    <3> QED
      BY <3>1, <3>2
  <2>2. CASE Announce(t) \/ Report(t)
    <3> DEFINE e == [thread |-> t, state |-> executionState[t]]
    <3>1. changingContexts \in Seq(ThreadUpdate) /\ e \in ThreadUpdate
      BY <1>3 DEF TypeOK, TypeOKThreads, ThreadUpdate
    <3>2. changingContexts' = Append(changingContexts, e)
      BY <2>2 DEF Announce, Report, PutUpdate, PutOne
    <3>3. PICK n \in Nat :
            /\ n = Len(changingContexts)
            /\ Len(changingContexts') = n + 1
            /\ \A i \in 1..n : changingContexts'[i] = changingContexts[i]
            /\ changingContexts'[n + 1] = e
      BY <3>1, <3>2, AppendProperties, LenProperties
    <3>4. \A i \in 1..n : changingContexts[i].thread \in Thread
      BY <3>3, UpdateTypes
    <3>5. ~Announced(t)
      BY <2>2 DEF Announce, Report, Goto, Announced
    <3>6. e.state = "Completed" => Announced(t)'
      BY <1>2, <1>3, <1>4, <2>2 DEF Announce, Report, Goto, Announced, LoopInv, coreVars
    <3>7. \A i \in 1..(n + 1) : i \in 1..n \/ i = n + 1
      OBVIOUS
    <3>8. QueueInv'
      <4>1. ASSUME NEW i \in 1..n
            PROVE  /\ context'[changingContexts'[i].thread] = "live"
                   /\ changingContexts'[i].state = "Completed" =>
                        /\ Announced(changingContexts[i].thread)'
                        /\ \A j \in 1..(n + 1) : j > i =>
                             changingContexts'[j].thread # changingContexts'[i].thread
        <5>1. /\ context[changingContexts[i].thread] = "live"
              /\ changingContexts[i].state = "Completed" =>
                   /\ Announced(changingContexts[i].thread)
                   /\ \A j \in 1..n : j > i =>
                        changingContexts[j].thread # changingContexts[i].thread
          BY <3>3, <4>1 DEF QueueInv
        <5>2. changingContexts[i].state = "Completed" => Announced(changingContexts[i].thread)'
          BY <1>8, <3>3, <3>4, <5>1
        <5>3. changingContexts[i].state = "Completed" => changingContexts[i].thread # t
          BY <3>5, <5>1
        <5> QED
          BY <1>2, <3>3, <3>7, <5>1, <5>2, <5>3 DEF coreVars, Announced
      <4>2. /\ context'[changingContexts'[n + 1].thread] = "live"
            /\ changingContexts'[n + 1].state = "Completed" =>
                 Announced(changingContexts[n + 1].thread)'
        BY <1>2, <1>4, <3>3, <3>6 DEF coreVars, Announced
      <4>3. \A i \in 1..(n + 1), j \in 1..(n + 1) : j > i => i \in 1..n
        OBVIOUS
      <4> QED
        BY <3>3, <3>7, <4>1, <4>2, <4>3 DEF QueueInv
    <3>9. EventInv'
      <4>1. Handling => update.thread # t
        BY <3>5 DEF EventInv
      <4> QED
        BY <1>2, <1>5, <1>8, <3>3, <3>7, <4>1, UpdateTypes DEF EventInv, Handling, coreVars
    <3> QED
      BY <3>8, <3>9
  <2> QED
    BY <1>1, <2>1, <2>2 DEF DebugLoop, Begin, Autostart, GetNextAction, Complete, StepDone,
                            Fault, Settle, CheckLoop
<1>10. MapInv' /\ RunInv' /\ EndInv'
  BY <1>2 DEF coreVars, MapInv, RunInv, EndInv, Unregistered, MainRegistered, Started
<1>11. StartInv'
  <2>1. CASE t = Main /\ ~Started
    <3>1. Begin(t) \/ Announce(t)
      BY <1>1, <1>3, <2>1 DEF StartInv, DebugLoop, Autostart, GetNextAction, Complete,
                              StepDone, Fault, Settle, Report, CheckLoop, Goto
    <3> QED
      BY <1>2, <1>3, <2>1, <3>1 DEF StartInv, coreVars, Started, Unregistered, MainRegistered,
                                    Begin, Announce, Goto
  <2>2. CASE t # Main \/ Started
    BY <1>2, <1>5, <2>2, ThreadAssumption
       DEF StartInv, coreVars, Started, Unregistered, MainRegistered, ThreadAssumption
  <2> QED
    BY <2>1, <2>2
<1> QED
  BY <1>7, <1>9, <1>10, <1>11

\* The steps of the event loop.
LEMMA EventSafe ==
  ASSUME TypeOK, CoreInv, EventStep
  PROVE  CoreInv'
<1> USE DEF CoreInv
<1>1. UNCHANGED <<managerLive, answer, stubAt, starting, remaining, loop, executionState,
                  nextAction>>
  BY DEF EventStep, stubVars, ConsumeThreadEvents, TakeUpdate, JoinThread, EraseThread,
         PostStatus, threadVars
<1>2. CASE UNCHANGED <<context, threads, changingContexts, run>>
           /\ (JoinThread \/ PostStatus)
  <2>1. LoopInv' /\ QueueInv' /\ MapInv' /\ StartInv' /\ EndInv'
    BY <1>1, <1>2 DEF LoopInv, QueueInv, MapInv, StartInv, EndInv, Announced, Unregistered,
                      MainRegistered, Started
  <2>2. EventInv'
    BY <1>1, <1>2 DEF EventInv, Handling, Announced, JoinThread, PostStatus
  <2>3. RunInv'
    BY <1>1, <1>2 DEF RunInv, JoinThread, PostStatus, MainRegistered, Unregistered, Started
  <2> QED
    BY <2>1, <2>2, <2>3
<1>3. CASE TakeUpdate
  <2>1. UNCHANGED <<context, threads, run>>
    BY <1>3 DEF TakeUpdate, threadVars
  <2>2. PICK n \in Nat \ {0} :
          /\ n = Len(changingContexts)
          /\ Len(changingContexts') = n - 1
          /\ \A i \in 1..(n - 1) : changingContexts'[i] = changingContexts[i + 1]
          /\ update' = changingContexts[1]
    <3>1. changingContexts \in Seq(ThreadUpdate) /\ changingContexts # <<>>
      BY <1>3 DEF TypeOK, TypeOKThreads, TakeUpdate
    <3>2. Head(changingContexts) = changingContexts[1]
      BY <3>1
    <3> QED
      BY <1>3, <3>1, <3>2, HeadTailProperties, EmptySeq DEF TakeUpdate, TakeOne
  <2>3. \A i \in 1..(n - 1) : i + 1 \in 1..n /\ i + 1 > 1
    OBVIOUS
  <2>4. \A i \in 1..n : changingContexts[i].thread \in Thread
    BY <2>2, UpdateTypes
  <2>5. LoopInv' /\ MapInv' /\ StartInv' /\ EndInv'
    BY <1>1, <2>1 DEF LoopInv, MapInv, StartInv, EndInv, Unregistered, MainRegistered, Started
  <2>6. QueueInv'
    <3>1. ASSUME NEW i \in 1..(n - 1)
          PROVE  /\ context'[changingContexts'[i].thread] = "live"
                 /\ changingContexts'[i].state = "Completed" =>
                      /\ Announced(changingContexts[i].thread)'
                      /\ \A j \in 1..(n - 1) : j > i =>
                           changingContexts'[j].thread # changingContexts'[i].thread
      <4>1. /\ context[changingContexts[i + 1].thread] = "live"
            /\ changingContexts[i + 1].state = "Completed" =>
                 /\ Announced(changingContexts[i + 1].thread)
                 /\ \A j \in 1..n : j > i + 1 =>
                      changingContexts[j].thread # changingContexts[i + 1].thread
        BY <2>2, <2>3, <3>1 DEF QueueInv
      <4>2. \A j \in 1..(n - 1) : j > i => j + 1 \in 1..n /\ j + 1 > i + 1
        OBVIOUS
      <4> QED
        BY <1>1, <2>1, <2>2, <2>3, <4>1, <4>2 DEF Announced
    <3> QED
      BY <2>2, <3>1 DEF QueueInv
  <2>7. EventInv'
    <3>1. CASE update'.state = "Completed"
      <4>1. /\ Announced(changingContexts[1].thread)
            /\ \A j \in 1..n : j > 1 =>
                 changingContexts[j].thread # changingContexts[1].thread
        BY <2>2, <3>1 DEF QueueInv
      <4>2. Announced(update.thread)'
        BY <1>1, <2>1, <2>2, <4>1 DEF Announced
      <4>3. \A i \in 1..(n - 1) : changingContexts'[i].thread # update'.thread
        BY <2>2, <2>3, <4>1
      <4> QED
        BY <1>3, <2>2, <3>1, <4>2, <4>3 DEF EventInv, TakeUpdate
    <3>2. CASE update'.state # "Completed"
      BY <1>3, <3>2 DEF EventInv, Handling, TakeUpdate
    <3> QED
      BY <3>1, <3>2
  <2>8. RunInv'
    BY <1>1, <1>3, <2>1 DEF RunInv, TakeUpdate, MainRegistered, Unregistered, Started
  <2> QED
    BY <2>5, <2>6, <2>7, <2>8
<1>4. CASE EraseThread
  <2> DEFINE u == update.thread
  <2>1. /\ u \in Thread
        /\ context \in [Thread -> {"none", "live", "freed"}]
        /\ threads \in SUBSET Thread
    BY UpdateTypes DEF TypeOK, TypeOKThreads
  <2>2. /\ context[u] = "live"
        /\ loop[u] = "exited"
        /\ \A i \in 1..Len(changingContexts) : changingContexts[i].thread # u
        /\ run
    BY <1>4 DEF EraseThread, EventInv, Handling, Announced, RunInv
  <2>3. /\ threads' = threads \ {u}
        /\ context' = IF u \in threads THEN [context EXCEPT ![u] = "freed"] ELSE context
        /\ run' = (run /\ threads' # {})
        /\ eventAt' = "post"
        /\ UNCHANGED <<changingContexts, update>>
    BY <1>4 DEF EraseThread
  <2> HIDE DEF u
  <2>4. LoopInv'
    BY <1>1, <2>1, <2>2, <2>3 DEF LoopInv
  <2>5. QueueInv'
    BY <1>1, <2>1, <2>2, <2>3, UpdateTypes DEF QueueInv, Announced
  <2>6. EventInv'
    BY <2>3 DEF EventInv, Handling
  <2>7. MapInv'
    BY <1>1, <2>1, <2>2, <2>3 DEF MapInv, Unregistered, Started
  <2>8. \A t \in Thread : context'[t] = "none" <=> context[t] = "none"
    BY <2>1, <2>2, <2>3
  <2>9. StartInv'
    BY <1>1, <2>8, ThreadAssumption
       DEF StartInv, MainRegistered, Unregistered, Started, ThreadAssumption
  <2>10. EndInv'
    BY <1>1, <2>3 DEF EndInv, Started
  <2>11. ~Started => threads' # {}
    <3> SUFFICES ASSUME ~Started
                 PROVE  Main \in threads'
      BY DEF Started
    <3>1. u # Main /\ loop[Main] # "exited"
      BY <2>2 DEF StartInv
    <3>2. MainRegistered
      BY <2>1, <2>2, <3>1 DEF StartInv
    <3>3. context[Main] = "live"
      BY <2>1, <3>1, <3>2, ThreadAssumption DEF MainRegistered, LoopInv, ThreadAssumption
    <3>4. Main \in threads
      BY <3>2, <3>3, ThreadAssumption DEF MapInv, MainRegistered, ThreadAssumption
    <3> QED
      BY <2>3, <3>1, <3>4
  <2>12. RunInv'
    BY <1>1, <2>2, <2>3, <2>11 DEF RunInv, Started
  <2> QED
    BY <2>4, <2>5, <2>6, <2>7, <2>9, <2>10, <2>12
<1> QED
  BY <1>1, <1>2, <1>3, <1>4
     DEF EventStep, ConsumeThreadEvents, JoinThread, PostStatus, threadVars

\* The steps of DebugContext::Start.
LEMMA StartSafe ==
  ASSUME TypeOK, CoreInv, StartStep
  PROVE  CoreInv'
<1> USE DEF CoreInv
<1>1. /\ UNCHANGED <<executionState, nextAction, changingContexts, eventVars, managerLive,
                      answer>>
      /\ ~Started
  BY DEF StartStep, StartThread, StartThreadStore, StartThreadRegister, AwaitStatus,
         SpawnThread, StoreThread, threadVars, readerVars, StubGoto, Started, StartAt
<1>2. /\ context \in [Thread -> {"none", "live", "freed"}]
      /\ loop \in [Thread -> LoopAt]
      /\ threads \in SUBSET Thread
      /\ starting \in Thread
      /\ Main \in Thread
  BY ThreadAssumption DEF TypeOK, TypeOKThreads, TypeOKStub, ThreadAssumption
<1> USE DEF eventVars
<1>3. ASSUME NEW t \in Thread, StartThread(t)
      PROVE  CoreInv'
  <2>1. /\ stubAt = "start" /\ stubAt' = "store" /\ starting' = t
        /\ context[t] = "none"
        /\ t = Main \/ context[Main] # "none"
        /\ context' = [context EXCEPT ![t] = "live"]
        /\ loop' = [loop EXCEPT ![t] = "begin"]
        /\ UNCHANGED threads
    BY <1>3 DEF StartThread, SpawnThread, StubGoto
  <2>2. LoopInv'
    BY <1>1, <1>2, <2>1 DEF LoopInv
  <2>3. QueueInv' /\ EventInv'
    BY <1>1, <1>2, <2>1, UpdateTypes DEF QueueInv, EventInv, Handling, Announced
  <2>4. MapInv'
    BY <1>2, <2>1 DEF MapInv, Unregistered, Started, StartAt
  <2>5. StartInv'
    BY <1>1, <1>2, <2>1 DEF StartInv, MainRegistered, Unregistered, Started, StartAt
  <2>6. RunInv' /\ EndInv'
    BY <1>1, <1>2, <2>1 DEF RunInv, EndInv, MainRegistered, Unregistered, Started
  <2> QED
    BY <2>2, <2>3, <2>4, <2>5, <2>6
<1>4. CASE StartThreadStore
  <2>1. /\ stubAt = "store" /\ stubAt' = "register"
        /\ UNCHANGED <<context, loop, threads, starting, remaining>>
    BY <1>4 DEF StartThreadStore, StoreThread, StubGoto
  <2>2. LoopInv' /\ QueueInv' /\ EventInv' /\ MapInv'
    BY <1>1, <2>1 DEF LoopInv, QueueInv, EventInv, MapInv, Handling, Announced, Unregistered,
                      Started, StartAt
  <2>3. StartInv' /\ RunInv' /\ EndInv'
    BY <1>1, <2>1 DEF StartInv, RunInv, EndInv, MainRegistered, Unregistered, Started, StartAt
  <2> QED
    BY <2>2, <2>3
<1>5. CASE StartThreadRegister
  <2>1. /\ stubAt = "register"
        /\ stubAt' = IF \E t \in Thread : context[t] = "none" THEN "start" ELSE "await"
        /\ threads' = threads \cup {starting}
        /\ remaining' = AwaitedStatuses
        /\ UNCHANGED <<context, loop, starting>>
    BY <1>5 DEF StartThreadRegister, RegisterThread, StubGoto, threadVars
  <2>2. LoopInv' /\ QueueInv' /\ EventInv'
    BY <1>1, <2>1 DEF LoopInv, QueueInv, EventInv, Handling, Announced
  <2>3. MapInv'
    BY <1>2, <2>1 DEF MapInv, Unregistered, Started, StartAt
  <2>4. AwaitedStatuses > 0
    <3>1. Cardinality(Thread \ {Main}) \in Nat
      BY ThreadAssumption, FS_RemoveElement, FS_CardinalityType DEF ThreadAssumption
    <3> QED
      BY <3>1 DEF AwaitedStatuses
  <2>5. StartInv'
    BY <1>1, <1>2, <2>1, <2>4 DEF StartInv, MapInv, MainRegistered, Unregistered, Started,
                                  StartAt
  <2>6. RunInv' /\ EndInv'
    BY <1>1, <1>2, <2>1 DEF RunInv, EndInv, MainRegistered, Unregistered, Started
  <2> QED
    BY <2>2, <2>3, <2>5, <2>6
<1>6. CASE AwaitStatus
  <2>1. /\ stubAt = "await"
        /\ stubAt' = IF remaining = 1 THEN "loop" ELSE "await"
        /\ remaining' = remaining - 1
        /\ UNCHANGED <<context, loop, threads, starting>>
    BY <1>6 DEF AwaitStatus, StubGoto, threadVars
  <2>2. LoopInv' /\ QueueInv' /\ EventInv'
    BY <1>1, <2>1 DEF LoopInv, QueueInv, EventInv, Handling, Announced
  <2>3. MapInv'
    BY <2>1 DEF MapInv, Unregistered, Started, StartAt
  <2>4. remaining \in Nat
    BY DEF TypeOK, TypeOKStub
  <2>5. StartInv'
    BY <1>1, <2>1, <2>4 DEF StartInv, MainRegistered, Unregistered, Started, StartAt
  <2>6. RunInv' /\ EndInv'
    BY <1>1, <2>1 DEF RunInv, EndInv, MainRegistered, Unregistered, Started
  <2> QED
    BY <2>2, <2>3, <2>5, <2>6
<1> QED
  BY <1>3, <1>4, <1>5, <1>6 DEF StartStep

\* The commands, and the end of Execute.  They leave the threads' own state alone; what
\* they conclude from an empty map is true.
LEMMA CommandSafe ==
  ASSUME TypeOK, CoreInv, CommandStep
  PROVE  CoreInv'
<1> USE DEF CoreInv, StubGoto
<1>1. /\ UNCHANGED <<context, loop, executionState, threads, changingContexts, eventVars,
                      starting>>
      /\ stubAt \notin StartAt
      /\ stubAt' \notin StartAt
  <2>1. CASE TargetKilled \/ StatusChanged \/ GetStopReason \/ ReadPC
    BY <2>1 DEF TargetKilled, StatusChanged, GetStopReason, ReadPC, Query, StartAt, threadVars
  <2>2. CASE ThreadResume \/ Continue \/ Kill \/ PrivateStreamClosed
    BY <2>2 DEF ThreadResume, Continue, Kill, PrivateStreamClosed, Resume, BeginKill, StartAt,
                threadVars, loopVars
  <2>3. CASE KillThreads \/ KillAwait \/ KillFinish
    BY <2>3 DEF KillThreads, KillAwait, KillFinish, StartAt, threadVars, loopVars
  <2>4. CASE StreamClosedLate \/ LeaveLoop \/ JoinHelpers
    BY <2>4 DEF StreamClosedLate, LeaveLoop, JoinHelpers, StartAt, threadVars
  <2> QED
    BY <2>1, <2>2, <2>3, <2>4 DEF CommandStep
<1>2. \/ UNCHANGED managerLive /\ (answer' = answer \/ answer'.kind # "W")
      \/ HasCompleted
  <2>1. CASE TargetKilled \/ StatusChanged \/ GetStopReason \/ ReadPC
    BY <2>1 DEF TargetKilled, StatusChanged, GetStopReason, ReadPC, Query, Reply
  <2>2. CASE ThreadResume \/ Continue \/ Kill \/ PrivateStreamClosed
    BY <2>2 DEF ThreadResume, Continue, Kill, PrivateStreamClosed, Resume, BeginKill, Reply
  <2>3. CASE KillThreads \/ KillAwait \/ KillFinish
    BY <2>3 DEF KillThreads, KillAwait, KillFinish
  <2>4. CASE StreamClosedLate \/ LeaveLoop \/ JoinHelpers
    BY <2>4 DEF StreamClosedLate, LeaveLoop, JoinHelpers
  <2> QED
    BY <2>1, <2>2, <2>3, <2>4 DEF CommandStep
<1>3. LoopInv' /\ QueueInv' /\ EventInv'
  BY <1>1 DEF LoopInv, QueueInv, EventInv, Handling, Announced, eventVars
<1>4. MapInv' /\ StartInv' /\ RunInv'
  BY <1>1 DEF MapInv, StartInv, RunInv, MainRegistered, Unregistered, Started, StartAt,
              eventVars
<1>5. EndInv'
  BY <1>1, <1>2 DEF EndInv, Started, HasCompleted
<1> QED
  BY <1>3, <1>4, <1>5

\* Every step keeps the invariant.
LEMMA SafeStep ==
  ASSUME IInv, [Next]_vars
  PROVE  IInv'
<1> USE DEF IInv
<1>1. CoreInv
  BY DEF CoreInv
<1>2. CoreInv'
  <2>1. CASE ReadCommand \/ ReadFails \/ UNCHANGED vars
    <3>1. UNCHANGED <<coreVars, loop, executionState, nextAction, changingContexts>>
      BY <2>1 DEF ReadCommand, ReadFails, vars, coreVars, threadVars, eventVars
    <3> QED
      BY <1>1, <3>1 DEF CoreInv, LoopInv, QueueInv, EventInv, MapInv, StartInv, RunInv, EndInv,
                        Handling, Announced, MainRegistered, Unregistered, Started, coreVars
  <2> QED
    BY <1>1, <2>1, GuestSafe, EventSafe, StartSafe, CommandSafe DEF Next
<1> QED
  BY <1>2, TypeStep DEF CoreInv

LEMMA Invariant == Spec => []IInv
<1>1. Init => IInv
  <2> SUFFICES ASSUME Init
               PROVE  IInv
    OBVIOUS
  <2> USE DEF Init, InitThreads
  <2>1. /\ changingContexts \in Seq(ThreadUpdate)
        /\ Len(changingContexts) = 0
        /\ queue \in [SinkName -> Seq(Message)]
    BY EmptySeq
  <2>2. TypeOK
    BY <2>1, ThreadAssumption
       DEF TypeOK, TypeOKThreads, TypeOKStub, ThreadState, StopReason, RunCommand, LoopAt,
           EventAt, SinkName, CrashCause, ThreadUpdate, StubAt, StartAt, Answer, AnswerKind,
           ThreadAssumption
  <2>3. LoopInv /\ QueueInv /\ EventInv /\ MapInv
    BY <2>1 DEF LoopInv, QueueInv, EventInv, MapInv, Handling, Unregistered, Started, StartAt
  <2>4. StartInv /\ RunInv /\ EndInv
    BY ThreadAssumption
       DEF StartInv, RunInv, EndInv, MainRegistered, Started, StartAt, ThreadAssumption
  <2> QED
    BY <2>2, <2>3, <2>4 DEF IInv
<1>2. IInv /\ [Next]_vars => IInv'
  BY SafeStep
<1> QED
  BY <1>1, <1>2, PTL DEF Spec

\* Once Start is over, an empty map means that every thread's loop has exited.
LEMMA EmptyMap ==
  ASSUME IInv, Started, threads = {}
  PROVE  /\ Exited = Thread
         /\ changingContexts = <<>>
         /\ eventAt \in {"post", "done"}
<1> USE DEF IInv
<1>1. \A t \in Thread : context[t] = "freed"
  <2>1. \A t \in Thread : context[t] \in {"none", "live", "freed"}
    BY DEF TypeOK, TypeOKThreads
  <2> QED
    BY <2>1 DEF MapInv, Unregistered, Started, StartAt
<1>2. Exited = Thread
  BY <1>1 DEF LoopInv, Exited
<1>3. changingContexts = <<>>
  <2>1. 1 \notin 1..Len(changingContexts)
    BY <1>1, UpdateTypes DEF QueueInv
  <2> QED
    BY <2>1, EmptySeq, UpdateTypes DEF TypeOK, TypeOKThreads
<1>4. eventAt \in {"post", "done"}
  <2>1. ~Handling
    BY <1>1, UpdateTypes DEF EventInv, Announced
  <2>2. MainRegistered
    BY <1>1, ThreadAssumption
       DEF MainRegistered, Unregistered, Started, StartAt, ThreadAssumption
  <2> QED
    BY <2>1, <2>2 DEF RunInv, Handling, TypeOK, TypeOKThreads, EventAt
<1> QED
  BY <1>2, <1>3, <1>4

\* All the stub's variables always have their types.
THEOREM TypeCorrect == Spec => []TypeOK
BY Invariant, PTL DEF IInv

\* A queued update never refers to a destroyed ThreadContext.
THEOREM UpdatesSafe == Spec => []UpdatesReferToLiveContexts
<1>1. IInv => UpdatesReferToLiveContexts
  BY DEF IInv, QueueInv, EventInv, Handling, Announced, UpdatesReferToLiveContexts
<1> QED
  BY <1>1, Invariant, PTL

\* The event loop never destroys the context of a DebugLoop that is still running.
THEOREM LoopsSafe == Spec => []LoopsRunOnLiveContexts
<1>1. IInv => LoopsRunOnLiveContexts
  BY DEF IInv, TypeOK, TypeOKThreads, LoopInv, LoopsRunOnLiveContexts
<1> QED
  BY <1>1, Invariant, PTL

\* ConsumeThreadEvents never ends while a guest thread could announce an update.
THEOREM EventLoopSafe == Spec => []EventLoopOutlivesThreads
<1>1. IInv => EventLoopOutlivesThreads
  BY EmptyMap DEF IInv, RunInv, EventLoopOutlivesThreads
<1> QED
  BY <1>1, Invariant, PTL

\* The debugger is told of the exit only when every guest thread has exited.
THEOREM ExitSafe == Spec => []ExitReportedAfterAllExited
<1>1. IInv => ExitReportedAfterAllExited
  BY EmptyMap DEF IInv, EndInv, ExitReportedAfterAllExited
<1> QED
  BY <1>1, Invariant, PTL

\* When Kill destroys the DebugContext, no thread and no update is left that needs it.
THEOREM TeardownSafe == Spec => []TeardownIsQuiet
<1>1. IInv => TeardownIsQuiet
  BY EmptyMap DEF IInv, EndInv, TeardownIsQuiet
<1> QED
  BY <1>1, Invariant, PTL

-----------------------------------------------------------------------------
(***************************************************************************)
(* Start's count of status messages, and the Kill that nobody overwrites.  *)
(*                                                                         *)
(* The argument: until Start has returned a thread announces itself at     *)
(* most twice, the main thread once, because nobody but an initializer     *)
(* resumes anything.  Every announcement is somewhere: queued, in the      *)
(* event loop's hands, in Start's queue, or taken.  When Start has taken   *)
(* as many as there can be, none is left and no thread owes one.           *)
(***************************************************************************)

\* The threads that have announced themselves, and the initializers that have reported the
\* end of their run as well.  They are who they are said to be until Start is over.
Once == {t \in Thread : loop[t] \notin {"unborn", "begin", "announce"}}

Twice == {t \in Thread \ {Main} :
            \/ loop[t] \in {"check", "exited"}
            \/ loop[t] = "wait" /\ nextAction[t] = "None"}

InHand == IF eventAt \in {"join", "erase", "post"} THEN 1 ELSE 0
Queued == Len(changingContexts)
Posted == Len(queue["startup"])
Taken == IF stubAt = "await" THEN AwaitedStatuses - remaining ELSE 0

\* Every announcement is in one place.
CountInv ==
  ~Started => /\ sink = "startup"
              /\ Cardinality(Once) + Cardinality(Twice) = Queued + InHand + Posted + Taken

\* Until Start is over the only command is the one an initializer has for itself.
OwnCommand ==
  ~Started => \A t \in Thread : /\ nextAction[t] # "Kill"
                                /\ loop[t] # "wait" => nextAction[t] = "None"

\* A thread has a reason to be stopped once it has begun.
ReasonInv == \A t \in Thread : loop[t] \notin {"unborn", "begin"} => stopReason[t] = "cause"

\* Afterwards the queue of Start is empty and all threads are past their own start.
DoneInv ==
  Started => /\ queue["startup"] = <<>>
             /\ sink # "startup"
             /\ \A t \in Thread : loop[t] \notin {"unborn", "begin", "announce", "autostart"}

\* A Kill comes from the stub, which does not look at commands for threads from then on.
KillInv ==
  /\ \A t \in Thread : nextAction[t] = "Kill" => stubAt = "killAwait" \/ ~managerLive
  /\ \A i \in 1..Len(queue["stub"]) : queue["stub"][i].act # "Kill"

StartedInv == CountInv /\ OwnCommand /\ ReasonInv /\ DoneInv /\ KillInv

SInv == IInv /\ StartedInv

-----------------------------------------------------------------------------
(* Counting.                                                                *)

\* There are at most as many announcements as Start awaits, and then from all threads.
LEMMA Awaited ==
  /\ Cardinality(Once) \in Nat /\ Cardinality(Twice) \in Nat /\ AwaitedStatuses \in Nat
  /\ Cardinality(Once) + Cardinality(Twice) <= AwaitedStatuses
  /\ Cardinality(Once) + Cardinality(Twice) = AwaitedStatuses =>
       Once = Thread /\ Twice = Thread \ {Main}
<1>1. /\ IsFiniteSet(Thread) /\ IsFiniteSet(Thread \ {Main})
      /\ Cardinality(Thread) = Cardinality(Thread \ {Main}) + 1
      /\ Cardinality(Thread) \in Nat /\ Cardinality(Thread \ {Main}) \in Nat
  <2>1. IsFiniteSet(Thread) /\ Main \in Thread
    BY ThreadAssumption DEF ThreadAssumption
  <2>2. /\ IsFiniteSet(Thread \ {Main})
        /\ Cardinality(Thread \ {Main}) = Cardinality(Thread) - 1
    BY <2>1, FS_RemoveElement
  <2>3. Cardinality(Thread) \in Nat /\ Cardinality(Thread \ {Main}) \in Nat
    BY <2>1, <2>2, FS_CardinalityType
  <2> QED
    BY <2>1, <2>2, <2>3
<1>2. Once \in SUBSET Thread /\ Twice \in SUBSET (Thread \ {Main})
  BY DEF Once, Twice
<1>3. /\ IsFiniteSet(Once) /\ Cardinality(Once) <= Cardinality(Thread)
      /\ Cardinality(Thread) = Cardinality(Once) => Thread = Once
  BY <1>1, <1>2, FS_Subset
<1>4. /\ IsFiniteSet(Twice) /\ Cardinality(Twice) <= Cardinality(Thread \ {Main})
      /\ Cardinality(Thread \ {Main}) = Cardinality(Twice) => Thread \ {Main} = Twice
  BY <1>1, <1>2, FS_Subset
<1>5. Cardinality(Once) \in Nat /\ Cardinality(Twice) \in Nat
  BY <1>3, <1>4, FS_CardinalityType
<1> QED
  BY <1>1, <1>3, <1>4, <1>5 DEF AwaitedStatuses

\* A thread that joins either set is one more.
LEMMA OneMore ==
  ASSUME NEW t \in Thread
  PROVE  /\ t \notin Once => Cardinality(Once \cup {t}) = Cardinality(Once) + 1
         /\ t \notin Twice => Cardinality(Twice \cup {t}) = Cardinality(Twice) + 1
<1>1. IsFiniteSet(Once) /\ IsFiniteSet(Twice)
  BY ThreadAssumption, FS_Subset DEF ThreadAssumption, Once, Twice
<1> QED
  BY <1>1, FS_AddElement

\* What putting and taking does to the length of a queue.
LEMMA QueueLengths ==
  ASSUME NEW S, NEW q \in Seq(S)
  PROVE  /\ Len(q) \in Nat
         /\ Len(q) = 0 <=> q = <<>>
         /\ \A e \in S : Len(PutOne(q, e)) = Len(q) + 1
         /\ q # <<>> => Len(TakeOne(q)) = Len(q) - 1
BY AppendProperties, HeadTailProperties, LenProperties, EmptySeq DEF PutOne, TakeOne

\* An update is put behind the others.
LEMMA OneQueued ==
  ASSUME NEW t \in Thread, PutUpdate(t), changingContexts \in Seq(ThreadUpdate),
         executionState \in [Thread -> ThreadState]
  PROVE  Len(changingContexts') = Len(changingContexts) + 1
<1>1. [thread |-> t, state |-> executionState[t]] \in ThreadUpdate
  BY DEF ThreadUpdate
<1> QED
  BY <1>1, AppendProperties DEF PutUpdate, PutOne

\* Putting and taking leave no Kill where there is none.
LEMMA QueueActs ==
  ASSUME NEW q \in Seq(Message), \A i \in 1..Len(q) : q[i].act # "Kill"
  PROVE  /\ \A e \in Message : e.act # "Kill" =>
              \A i \in 1..Len(PutOne(q, e)) : PutOne(q, e)[i].act # "Kill"
         /\ q # <<>> => /\ Head(q).act # "Kill"
                        /\ \A i \in 1..Len(TakeOne(q)) : TakeOne(q)[i].act # "Kill"
<1>1. Len(q) \in Nat
  BY LenProperties
<1>2. ASSUME NEW e \in Message, e.act # "Kill", NEW i \in 1..Len(PutOne(q, e))
      PROVE  PutOne(q, e)[i].act # "Kill"
  <2>1. /\ Len(PutOne(q, e)) = Len(q) + 1
        /\ \A j \in 1..Len(q) : PutOne(q, e)[j] = q[j]
        /\ PutOne(q, e)[Len(q) + 1] = e
    BY AppendProperties DEF PutOne
  <2>2. i \in 1..Len(q) \/ i = Len(q) + 1
    BY <1>1, <1>2, <2>1
  <2> QED
    BY <1>2, <2>1, <2>2
<1>3. ASSUME q # <<>>
      PROVE  /\ Head(q).act # "Kill"
             /\ \A i \in 1..Len(TakeOne(q)) : TakeOne(q)[i].act # "Kill"
  <2>1. /\ Len(TakeOne(q)) = Len(q) - 1 /\ Len(q) # 0
        /\ \A i \in 1..Len(TakeOne(q)) : TakeOne(q)[i] = q[i + 1]
    BY <1>3, HeadTailProperties, EmptySeq DEF TakeOne
  <2>2. Head(q) = q[1] /\ 1 \in 1..Len(q)
    BY <1>1, <2>1
  <2>3. \A i \in 1..Len(TakeOne(q)) : i + 1 \in 1..Len(q)
    BY <1>1, <2>1
  <2> QED
    BY <2>1, <2>2, <2>3
<1> QED
  BY <1>2, <1>3

-----------------------------------------------------------------------------
(* The steps.                                                               *)

\* A guest thread: each announcement is counted when it is queued.
LEMMA GuestCounts ==
  ASSUME IInv, StartedInv, GuestStep
  PROVE  StartedInv'
<1> USE DEF StartedInv
<1>1. PICK t \in Thread : DebugLoop(t)
  BY DEF GuestStep
<1>2. UNCHANGED <<stubAt, starting, remaining, managerLive, sink, queue, eventAt>>
  BY <1>1 DEF GuestStep, stubVars, eventVars, sinkVars, DebugLoop, Begin, Announce, Autostart,
              GetNextAction, Complete, StepDone, Fault, Settle, Report, CheckLoop
<1>3. /\ loop \in [Thread -> LoopAt] /\ nextAction \in [Thread -> RunCommand]
      /\ stopReason \in [Thread -> StopReason]
      /\ changingContexts \in Seq(ThreadUpdate)
      /\ executionState \in [Thread -> ThreadState]
      /\ Len(queue["startup"]) \in Nat
  BY LenProperties DEF IInv, TypeOK, TypeOKThreads, SinkName
<1>4. \A u \in Thread \ {t} : /\ loop'[u] = loop[u] /\ nextAction'[u] = nextAction[u]
                              /\ stopReason'[u] = stopReason[u]
  BY <1>1, <1>3 DEF DebugLoop, Begin, Announce, Autostart, GetNextAction, Complete, StepDone,
                    Fault, Settle, Report, CheckLoop, Goto
<1>5. OwnCommand'
  BY <1>1, <1>2, <1>3, <1>4
     DEF OwnCommand, Started, DebugLoop, Begin, Announce, Autostart, GetNextAction, Complete,
         StepDone, Fault, Settle, Report, CheckLoop, Goto
<1>6. ReasonInv'
  BY <1>1, <1>3, <1>4
     DEF ReasonInv, DebugLoop, Begin, Announce, Autostart, GetNextAction, Complete,
         StepDone, Fault, Settle, Report, CheckLoop, Goto
<1>7. DoneInv'
  BY <1>1, <1>2, <1>3, <1>4
     DEF DoneInv, Started, DebugLoop, Begin, Announce, Autostart, GetNextAction, Complete,
         StepDone, Fault, Settle, Report, CheckLoop, Goto
<1>8. KillInv'
  <2>1. nextAction'[t] = "Kill" => nextAction[t] = "Kill"
    BY <1>1, <1>3 DEF DebugLoop, Begin, Announce, Autostart, GetNextAction, Complete,
                      StepDone, Fault, Settle, Report, CheckLoop, Goto
  <2> QED
    BY <1>2, <1>4, <2>1 DEF KillInv
<1>9. CountInv'
  <2> SUFFICES ASSUME ~Started
               PROVE  /\ sink' = "startup"
                      /\ Cardinality(Once') + Cardinality(Twice') =
                           Queued' + InHand' + Posted' + Taken'
    BY <1>2 DEF CountInv, Started
  <2>1. /\ sink = "startup"
        /\ Cardinality(Once) + Cardinality(Twice) = Queued + InHand + Posted + Taken
        /\ Taken' = Taken /\ InHand' = InHand /\ Posted' = Posted
    BY <1>2 DEF CountInv, Taken, InHand, Posted
  <2>2. /\ Cardinality(Once) \in Nat /\ Cardinality(Twice) \in Nat /\ InHand \in Nat
        /\ Queued \in Nat /\ Posted \in Nat /\ Taken \in Int
    BY <1>3, Awaited, LenProperties DEF InHand, Taken, Queued, Posted, IInv, TypeOK, TypeOKStub
  <2>3. t = Main => Begin(t) \/ Announce(t)
    BY <1>1, <1>3 DEF IInv, StartInv, DebugLoop, Autostart, GetNextAction, Complete,
                      StepDone, Fault, Settle, Report, CheckLoop, Goto
  <2>4. CASE Announce(t)
    <3>1. Once' = Once \cup {t} /\ t \notin Once
      BY <1>3, <1>4, <2>4 DEF Once, Announce, Goto
    <3>2. Twice' = Twice
      BY <1>3, <1>4, <2>4 DEF Twice, Announce, Goto
    <3>3. Queued' = Queued + 1
      BY <1>3, <2>4, OneQueued DEF Announce, Queued
    <3>4. Cardinality(Once') = Cardinality(Once) + 1
      BY <3>1, <3>2, OneMore
    <3> QED
      BY <1>2, <2>1, <2>2, <3>1, <3>2, <3>3, <3>4
  <2>5. CASE Report(t)
    <3>1. Once' = Once
      BY <1>3, <1>4, <2>5 DEF Once, Report, Goto
    <3>2. Twice' = Twice \cup {t} /\ t \notin Twice
      BY <1>3, <1>4, <2>3, <2>5 DEF Twice, Report, Announce, Begin, Goto
    <3>3. Queued' = Queued + 1
      BY <1>3, <2>5, OneQueued DEF Report, Queued
    <3>4. Cardinality(Twice') = Cardinality(Twice) + 1
      BY <3>1, <3>2, OneMore
    <3> QED
      BY <1>2, <2>1, <2>2, <3>1, <3>2, <3>3, <3>4
  <2>6. CASE ~Announce(t) /\ ~Report(t)
    <3>1. UNCHANGED changingContexts
      BY <1>1, <2>6 DEF DebugLoop, Begin, Autostart, GetNextAction, Complete, StepDone, Fault,
                        Settle, CheckLoop
    <3>2. Once' = Once
      BY <1>1, <1>3, <1>4, <2>6 DEF Once, DebugLoop, Begin, Autostart, GetNextAction, Complete,
                                    StepDone, Fault, Settle, CheckLoop, Goto
    <3>3. t \in Twice' <=> t \in Twice
      BY <1>1, <1>3, <2>6 DEF Twice, OwnCommand, DebugLoop, Begin, Autostart, GetNextAction,
                              Complete, StepDone, Fault, Settle, CheckLoop, Goto
    <3>4. Twice' = Twice
      BY <1>4, <3>3 DEF Twice
    <3> QED
      BY <1>2, <2>1, <3>1, <3>2, <3>4 DEF Queued
  <2> QED
    BY <2>4, <2>5, <2>6
<1> QED
  BY <1>5, <1>6, <1>7, <1>8, <1>9

\* The event loop moves what was announced from one place to the next.
LEMMA EventCounts ==
  ASSUME IInv, StartedInv, EventStep
  PROVE  StartedInv'
<1> USE DEF StartedInv
<1>1. UNCHANGED <<stubAt, starting, remaining, managerLive, sink, loop, nextAction, stopReason>>
  BY DEF EventStep, stubVars, ConsumeThreadEvents, TakeUpdate, JoinThread, EraseThread,
         PostStatus, threadVars, sinkVars
<1>2. /\ changingContexts \in Seq(ThreadUpdate) /\ queue \in [SinkName -> Seq(Message)]
      /\ sink \in SinkName
      /\ Status(update.thread) \in Message
      /\ Status(update.thread).act = "None"
  BY UpdateTypes DEF IInv, TypeOK, TypeOKThreads, Status, Message3, Message, Kind, RunCommand
<1>3. UNCHANGED queue \/ (PostStatus /\ queue' = [queue EXCEPT ![sink] = PutOne(@, Status(update.thread))])
  BY DEF EventStep, ConsumeThreadEvents, TakeUpdate, JoinThread, EraseThread, PostStatus,
         sinkVars
<1>4. OwnCommand' /\ ReasonInv'
  BY <1>1 DEF OwnCommand, ReasonInv, Started
<1>5. DoneInv'
  BY <1>1, <1>2, <1>3 DEF DoneInv, Started, SinkName
<1>6. KillInv'
  <2>1. queue["stub"] \in Seq(Message)
    BY <1>2 DEF SinkName
  <2>2. queue'["stub"] = queue["stub"] \/ queue'["stub"] = PutOne(queue["stub"], Status(update.thread))
    BY <1>2, <1>3 DEF SinkName
  <2>3. \A i \in 1..Len(queue'["stub"]) : queue'["stub"][i].act # "Kill"
    BY <1>2, <2>1, <2>2, QueueActs DEF KillInv
  <2> QED
    BY <1>1, <2>3 DEF KillInv
<1>7. CountInv'
  <2> SUFFICES ASSUME ~Started
               PROVE  /\ sink' = "startup"
                      /\ Queued' + InHand' + Posted' = Queued + InHand + Posted
                      /\ Taken' = Taken /\ Once' = Once /\ Twice' = Twice
    BY <1>1 DEF CountInv, Started
  <2>1. sink' = "startup" /\ sink = "startup" /\ Taken' = Taken /\ Once' = Once /\ Twice' = Twice
    BY <1>1 DEF CountInv, Taken, Once, Twice
  <2>2. Queued \in Nat /\ Posted \in Nat
    BY <1>2, LenProperties DEF SinkName, Queued, Posted
  <2>3. Queued' + InHand' + Posted' = Queued + InHand + Posted
    <3>1. CASE TakeUpdate
      <4>1. Queued' = Queued - 1
        BY <1>2, <3>1, QueueLengths DEF TakeUpdate, Queued
      <4>2. InHand = 0 /\ InHand' = 1 /\ Posted' = Posted
        BY <3>1 DEF TakeUpdate, InHand, Posted, sinkVars
      <4> QED
        BY <2>2, <4>1, <4>2
    <3>2. CASE JoinThread \/ EraseThread
      <4>1. InHand' = InHand /\ Queued' = Queued /\ Posted' = Posted
        BY <3>2 DEF JoinThread, EraseThread, InHand, Queued, Posted, sinkVars
      <4> QED
        BY <4>1
    <3>3. CASE PostStatus
      <4>1. managerLive
        BY DEF IInv, EndInv
      <4>2. Posted' = Posted + 1
        BY <1>2, <2>1, <3>3, <4>1, QueueLengths DEF PostStatus, SinkName, Posted
      <4>3. InHand = 1 /\ InHand' = 0 /\ Queued' = Queued
        BY <3>3, <4>1 DEF PostStatus, InHand, Queued
      <4> QED
        BY <2>2, <4>2, <4>3
    <3> QED
      BY <3>1, <3>2, <3>3 DEF EventStep, ConsumeThreadEvents
  <2> QED
    BY <2>1, <2>3
<1> QED
  BY <1>4, <1>5, <1>6, <1>7

\* Start creates threads, which have announced nothing yet, and takes what they announce;
\* the last message it takes is the last there is.
LEMMA StartCounts ==
  ASSUME IInv, StartedInv, StartStep
  PROVE  StartedInv'
<1> USE DEF StartedInv
<1>1. /\ UNCHANGED <<nextAction, stopReason, changingContexts, eventAt, managerLive>>
      /\ ~Started
  BY DEF StartStep, StartThread, StartThreadStore, StartThreadRegister, AwaitStatus,
         SpawnThread, StoreThread, threadVars, eventVars, StubGoto, Started, StartAt
<1>2. /\ loop \in [Thread -> LoopAt] /\ queue \in [SinkName -> Seq(Message)]
      /\ changingContexts \in Seq(ThreadUpdate)
      /\ remaining \in Nat
      /\ AwaitedStatuses \in Nat
      /\ eventAt \in EventAt
  BY Awaited DEF IInv, TypeOK, TypeOKThreads, TypeOKStub
<1>3. managerLive
  BY <1>1 DEF IInv, EndInv
<1>4. ASSUME NEW t \in Thread, StartThread(t)
      PROVE  StartedInv'
  <2>1. /\ loop[t] = "unborn" /\ loop' = [loop EXCEPT ![t] = "begin"]
        /\ stubAt = "start" /\ stubAt' = "store"
        /\ UNCHANGED <<sink, queue>>
    BY <1>4 DEF StartThread, SpawnThread, StubGoto, sinkVars, IInv, LoopInv
  <2>2. Once' = Once /\ Twice' = Twice
    BY <1>1, <1>2, <2>1 DEF Once, Twice
  <2>3. Queued' = Queued /\ InHand' = InHand /\ Posted' = Posted /\ Taken' = Taken
    BY <1>1, <2>1 DEF Queued, InHand, Posted, Taken
  <2>4. CountInv'
    BY <1>1, <2>1, <2>2, <2>3 DEF CountInv
  <2>5. OwnCommand' /\ ReasonInv'
    BY <1>1, <1>2, <2>1 DEF OwnCommand, ReasonInv
  <2>6. DoneInv' /\ KillInv'
    BY <1>1, <2>1 DEF DoneInv, KillInv, OwnCommand, Started, StartAt
  <2> QED
    BY <2>4, <2>5, <2>6
<1>5. CASE StartThreadStore \/ StartThreadRegister
  <2>1. /\ stubAt \in {"store", "register"} /\ stubAt' \in StartAt
        /\ stubAt' = "await" => remaining' = AwaitedStatuses
        /\ UNCHANGED <<sink, queue, loop>>
    BY <1>5 DEF StartThreadStore, StartThreadRegister, StoreThread, StubGoto, sinkVars,
                threadVars, StartAt
  <2>2. Taken' = 0 /\ Taken = 0
    BY <1>2, <2>1 DEF Taken, AwaitedStatuses
  <2>3. /\ Once' = Once /\ Twice' = Twice
        /\ Queued' = Queued /\ InHand' = InHand /\ Posted' = Posted
    BY <1>1, <2>1 DEF Once, Twice, Queued, InHand, Posted
  <2>4. CountInv'
    BY <1>1, <2>1, <2>2, <2>3 DEF CountInv
  <2>5. OwnCommand' /\ ReasonInv'
    BY <1>1, <2>1 DEF OwnCommand, ReasonInv
  <2>6. DoneInv' /\ KillInv'
    BY <1>1, <2>1 DEF DoneInv, KillInv, OwnCommand, Started
  <2> QED
    BY <2>4, <2>5, <2>6
<1>6. CASE AwaitStatus
  <2>1. /\ stubAt = "await"
        /\ stubAt' = IF remaining = 1 THEN "loop" ELSE "await"
        /\ remaining' = remaining - 1
        /\ sink' = IF remaining = 1 THEN "stub" ELSE sink
        /\ queue["startup"] # <<>>
        /\ queue' = [queue EXCEPT !["startup"] = TakeOne(@)]
        /\ UNCHANGED loop
    BY <1>6 DEF AwaitStatus, StubGoto, threadVars
  <2>2. /\ queue["startup"] \in Seq(Message)
        /\ queue'["startup"] = TakeOne(queue["startup"])
        /\ queue'["stub"] = queue["stub"]
    BY <1>2, <2>1 DEF SinkName
  <2>3. /\ Posted \in Nat \ {0} /\ Posted' = Posted - 1
        /\ Posted' = 0 => queue'["startup"] = <<>>
    <3>1. queue'["startup"] \in Seq(Message)
      BY <2>1, <2>2, QueueTypes
    <3>2. Posted \in Nat /\ Posted # 0
      BY <2>1, <2>2, QueueLengths DEF Posted
    <3>3. Posted' = Posted - 1
      BY <2>1, <2>2, QueueLengths DEF Posted
    <3>4. Posted' = 0 => queue'["startup"] = <<>>
      BY <3>1, QueueLengths DEF Posted
    <3> QED
      BY <3>2, <3>3, <3>4
  <2>4. Queued \in Nat /\ InHand \in {0, 1}
    BY <1>2, LenProperties DEF Queued, InHand
  <2>5. /\ sink = "startup"
        /\ Cardinality(Once) + Cardinality(Twice) =
             Queued + InHand + Posted + (AwaitedStatuses - remaining)
    BY <1>1, <2>1 DEF CountInv, Taken
  <2>6. Once' = Once /\ Twice' = Twice /\ InHand' = InHand /\ Queued' = Queued
    BY <1>1, <2>1 DEF Once, Twice, InHand, Queued
  <2>7. OwnCommand' /\ ReasonInv'
    BY <1>1, <2>1 DEF OwnCommand, ReasonInv
  <2>8. KillInv'
    BY <1>1, <2>2 DEF KillInv, OwnCommand
  <2>9. CASE remaining = 1
    <3>1. /\ Posted = 1
          /\ Cardinality(Once) + Cardinality(Twice) = AwaitedStatuses
      <4> DEFINE made == Cardinality(Once) + Cardinality(Twice)
      <4>1. made \in Nat /\ made <= AwaitedStatuses
        BY Awaited
      <4>2. made = Queued + InHand + Posted + (AwaitedStatuses - 1)
        BY <2>5, <2>9
      <4> HIDE DEF made
      <4>3. Posted \in Nat /\ Posted >= 1 /\ InHand \in Nat
        BY <2>3, <2>4
      <4>4. Queued + InHand + Posted <= 1
        BY <1>2, <2>4, <4>1, <4>2, <4>3
      <4>5. Posted = 1 /\ Queued = 0 /\ InHand = 0
        BY <2>4, <4>3, <4>4
      <4>6. made = AwaitedStatuses
        BY <1>2, <4>2, <4>5
      <4> QED
        BY <4>5, <4>6 DEF made
    <3>2. Once = Thread
      BY <3>1, Awaited
    <3>3. Twice = Thread \ {Main}
      BY <3>1, Awaited
    <3>4. queue'["startup"] = <<>>
      BY <2>3, <3>1
    <3>5. \A t \in Thread : loop[t] \notin {"unborn", "begin", "announce", "autostart"}
      <4>1. \A t \in Thread : loop[t] \notin {"unborn", "begin", "announce"}
        BY <3>2 DEF Once
      <4>2. \A t \in Thread \ {Main} : loop[t] # "autostart"
        BY <3>3 DEF Twice
      <4>3. loop[Main] # "autostart"
        BY <1>1 DEF IInv, StartInv
      <4> QED
        BY <4>1, <4>2, <4>3
    <3>6. DoneInv'
      BY <2>1, <2>9, <3>4, <3>5 DEF DoneInv
    <3>7. CountInv'
      BY <2>1, <2>9 DEF CountInv, Started, StartAt
    <3> QED
      BY <2>7, <2>8, <3>6, <3>7
  <2>10. CASE remaining # 1
    <3>1. CountInv'
      <4>1. /\ Taken' = AwaitedStatuses - (remaining - 1)
            /\ sink' = "startup"
        BY <2>1, <2>5, <2>10 DEF Taken, AwaitedStatuses
      <4>2. Cardinality(Once) \in Nat /\ Cardinality(Twice) \in Nat
        BY Awaited
      <4>3. Cardinality(Once) + Cardinality(Twice) = Queued + InHand + Posted' + Taken'
        <5> DEFINE made == Cardinality(Once) + Cardinality(Twice)
        <5>1. /\ made \in Nat
              /\ made = Queued + InHand + Posted + (AwaitedStatuses - remaining)
          BY <2>5, <4>2
        <5> HIDE DEF made
        <5>2. Posted' = Posted - 1 /\ Posted \in Nat /\ InHand \in Nat
          BY <2>3, <2>4
        <5>3. made = Queued + InHand + Posted' + Taken'
          BY <1>2, <2>4, <4>1, <5>1, <5>2
        <5> QED
          BY <5>3 DEF made
      <4>4. Cardinality(Once') + Cardinality(Twice') = Queued' + InHand' + Posted' + Taken'
        BY <2>6, <4>3
      <4> QED
        BY <4>1, <4>4 DEF CountInv
    <3>2. DoneInv'
      BY <2>1, <2>10 DEF DoneInv, Started, StartAt
    <3> QED
      BY <2>7, <2>8, <3>1, <3>2
  <2> QED
    BY <2>9, <2>10
<1> QED
  BY <1>4, <1>5, <1>6 DEF StartStep

\* The commands: a Kill is given to the threads by Kill only, and nothing after it.
LEMMA CommandCounts ==
  ASSUME IInv, StartedInv, CommandStep
  PROVE  /\ StartedInv'
         /\ \A t \in Thread : nextAction[t] = "Kill" => nextAction'[t] = "Kill"
<1> USE DEF StartedInv
<1> USE DEF StubGoto
<1>1. /\ UNCHANGED <<loop, stopReason>>
      /\ Started /\ Started'
      /\ sink' = sink \/ sink' = "kill"
      /\ queue'["startup"] = queue["startup"]
      /\ \/ queue'["stub"] = queue["stub"]
         \/ queue["stub"] # <<>> /\ queue'["stub"] = TakeOne(queue["stub"])
  <2>1. queue \in [SinkName -> Seq(Message)]
    BY DEF IInv, TypeOK, TypeOKThreads
  <2> USE <2>1 DEF SinkName, sinkVars, threadVars, loopVars, Started, StartAt
  <2>2. CASE TargetKilled \/ StatusChanged \/ GetStopReason \/ ReadPC
    BY <2>2 DEF TargetKilled, StatusChanged, GetStopReason, ReadPC, Query, Take
  <2>3. CASE ThreadResume \/ Continue
    BY <2>3 DEF ThreadResume, Continue, Resume, Take
  <2>4. CASE Kill \/ PrivateStreamClosed
    BY <2>4 DEF Kill, PrivateStreamClosed, BeginKill, Take
  <2>5. CASE KillThreads \/ KillAwait \/ KillFinish
    BY <2>5 DEF KillThreads, KillAwait, KillFinish
  <2>6. CASE StreamClosedLate \/ LeaveLoop \/ JoinHelpers
    BY <2>6 DEF StreamClosedLate, LeaveLoop, JoinHelpers, Take
  <2> QED
    BY <2>2, <2>3, <2>4, <2>5, <2>6 DEF CommandStep
<1>2. queue["stub"] \in Seq(Message) /\ nextAction \in [Thread -> RunCommand]
  BY DEF IInv, TypeOK, TypeOKThreads, SinkName
<1>3. CountInv' /\ OwnCommand' /\ ReasonInv' /\ DoneInv'
  BY <1>1 DEF CountInv, OwnCommand, ReasonInv, DoneInv
<1>4. \A i \in 1..Len(queue'["stub"]) : queue'["stub"][i].act # "Kill"
  BY <1>1, <1>2, QueueActs DEF KillInv
<1>5. /\ \A t \in Thread : nextAction'[t] = "Kill" => stubAt' = "killAwait" \/ ~managerLive'
      /\ \A t \in Thread : nextAction[t] = "Kill" => nextAction'[t] = "Kill"
  <2>1. CASE TargetKilled \/ StatusChanged \/ GetStopReason \/ ReadPC
    BY <2>1 DEF TargetKilled, StatusChanged, GetStopReason, ReadPC, Query, KillInv, threadVars
  <2>2. ASSUME NEW kind, NEW S, NEW cmd, cmd # "Kill", Resume(kind, S, cmd)
        PROVE  /\ \A t \in Thread : nextAction[t] # "Kill"
               /\ \A t \in Thread : nextAction'[t] # "Kill"
    BY <1>2, <2>2 DEF Resume, PerformOn, KillInv
  <2>3. CASE ThreadResume
    <3>1. Command.act # "Kill"
      BY <1>2, <2>3, QueueActs DEF ThreadResume, Resume, Take, Command, KillInv
    <3> QED
      BY <2>2, <2>3, <3>1 DEF ThreadResume
  <2>4. CASE Continue
    BY <2>2, <2>4 DEF Continue
  <2>5. CASE Kill \/ PrivateStreamClosed
    BY <2>5 DEF Kill, PrivateStreamClosed, BeginKill, KillInv, threadVars
  <2>6. CASE KillThreads
    BY <1>2, <2>6 DEF KillThreads, PerformOn
  <2>7. CASE KillAwait \/ KillFinish
    BY <2>7 DEF KillAwait, KillFinish, KillInv, threadVars
  <2>8. CASE StreamClosedLate \/ LeaveLoop \/ JoinHelpers
    BY <2>8 DEF StreamClosedLate, LeaveLoop, JoinHelpers, KillInv, threadVars
  <2> QED
    BY <2>1, <2>3, <2>4, <2>5, <2>6, <2>7, <2>8 DEF CommandStep
<1> QED
  BY <1>3, <1>4, <1>5 DEF KillInv

\* The reader puts commands in the stub's queue, and the debugger has no vCont for Kill.
LEMMA ReaderCounts ==
  ASSUME IInv, StartedInv, ReadCommand \/ ReadFails
  PROVE  StartedInv'
<1> USE DEF StartedInv
<1>1. PICK m \in Message : m.act # "Kill" /\ Deliver(m)
  <2>1. \A m \in DebuggerCommand : m \in Message /\ m.act # "Kill"
    BY CommandAssumption DEF DebuggerCommand, CommandAssumption, Message3, Message, Kind,
                             RunCommand
  <2>2. /\ Message3("closed", NoThread, "None") \in Message
        /\ Message3("closed", NoThread, "None").act # "Kill"
    BY DEF Message3, Message, Kind, RunCommand
  <2> QED
    BY <2>1, <2>2 DEF ReadCommand, ReadFails
<1>2. queue \in [SinkName -> Seq(Message)]
  BY DEF IInv, TypeOK, TypeOKThreads
<1>3. /\ UNCHANGED <<stubAt, remaining, managerLive, sink, loop, nextAction, stopReason, eventAt,
                      changingContexts>>
      /\ queue'["startup"] = queue["startup"]
      /\ queue'["stub"] = PutOne(queue["stub"], m)
  BY <1>1, <1>2 DEF ReadCommand, ReadFails, Deliver, SinkName, threadVars, eventVars
<1>4. CountInv' /\ OwnCommand' /\ ReasonInv' /\ DoneInv'
  BY <1>3 DEF CountInv, OwnCommand, ReasonInv, DoneInv, Started, Once, Twice, Queued,
              InHand, Posted, Taken
<1>5. \A i \in 1..Len(queue'["stub"]) : queue'["stub"][i].act # "Kill"
  <2>1. queue["stub"] \in Seq(Message)
    BY <1>2 DEF SinkName
  <2> QED
    BY <1>1, <1>3, <2>1, QueueActs DEF KillInv
<1> QED
  BY <1>3, <1>4, <1>5 DEF KillInv

\* Every step keeps the count and the Kills.
LEMMA CountStep ==
  ASSUME SInv, [Next]_vars
  PROVE  SInv'
<1> USE DEF SInv
<1>1. IInv'
  BY SafeStep
<1>2. StartedInv'
  <2>1. CASE UNCHANGED vars
    BY <2>1 DEF vars, threadVars, eventVars, sinkVars, StartedInv, CountInv, OwnCommand,
                ReasonInv, DoneInv, KillInv, Started, Once, Twice, Queued, InHand, Posted, Taken
  <2> QED
    BY <2>1, GuestCounts, EventCounts, StartCounts, CommandCounts, ReaderCounts DEF Next
<1> QED
  BY <1>1, <1>2

LEMMA CountInvariant == Spec => []SInv
<1>1. Init => StartedInv
  <2> SUFFICES ASSUME Init
               PROVE  StartedInv
    OBVIOUS
  <2> USE DEF Init, InitThreads
  <2>1. Once = {} /\ Twice = {}
    BY DEF Once, Twice
  <2>2. Cardinality({}) = 0 /\ Len(changingContexts) = 0 /\ Len(queue["startup"]) = 0
    BY FS_EmptySet DEF SinkName
  <2>3. Len(queue["stub"]) = 0
    BY DEF SinkName
  <2>4. CountInv
    BY <2>1, <2>2 DEF CountInv, Queued, InHand, Posted, Taken
  <2>5. OwnCommand /\ ReasonInv /\ DoneInv /\ KillInv
    BY <2>3 DEF OwnCommand, ReasonInv, DoneInv, KillInv, Started, StartAt
  <2> QED
    BY <2>4, <2>5 DEF StartedInv
<1>2. SInv /\ [Next]_vars => SInv'
  BY CountStep
<1>3. Spec => Init /\ [][Next]_vars
  BY DEF Spec
<1>4. Init /\ IInv => SInv
  BY <1>1 DEF SInv
<1> QED
  BY <1>2, <1>3, <1>4, Invariant, PTL

\* When DebugContext::Start returns it has taken exactly the messages the threads announce
\* themselves with: its queue is empty, and every thread is stopped with a reason or done.
THEOREM StartupCounted == Spec => []StartupIsComplete
<1>1. SInv => StartupIsComplete
  BY DEF SInv, StartedInv, DoneInv, ReasonInv, StartupIsComplete
<1> QED
  BY <1>1, CountInvariant, PTL

\* Once Kill has given a thread its command, no other replaces it before the thread has it.
THEOREM KillStays == Spec => KillIsNotOverwritten
<1> DEFINE Stays == \A t \in Thread : nextAction[t] = "Kill" => nextAction'[t] \in {"Kill", "None"}
<1>1. SInv /\ [Next]_vars => [Stays]_vars
  <2> SUFFICES ASSUME SInv, Next
               PROVE  Stays
    OBVIOUS
  <2>1. ASSUME NEW t \in Thread, DebugLoop(t)
        PROVE  Stays
    <3>1. nextAction \in [Thread -> RunCommand]
      BY DEF SInv, IInv, TypeOK, TypeOKThreads
    <3>2. Autostart(t) => ~Started
      BY DEF SInv, StartedInv, DoneInv, Autostart, Goto
    <3> QED
      BY <2>1, <3>1, <3>2
         DEF SInv, StartedInv, OwnCommand, DebugLoop, Begin, Announce, Autostart, GetNextAction,
             Complete, StepDone, Fault, Settle, Report, CheckLoop
  <2>2. CASE EventStep
    BY <2>2 DEF EventStep, ConsumeThreadEvents, TakeUpdate, JoinThread, EraseThread, PostStatus,
                threadVars
  <2>3. CASE StartStep
    BY <2>3 DEF StartStep, StartThread, StartThreadStore, StartThreadRegister, AwaitStatus,
                SpawnThread, StoreThread, threadVars
  <2>4. CASE CommandStep
    BY <2>4, CommandCounts DEF SInv
  <2>5. CASE ReadCommand \/ ReadFails
    BY <2>5 DEF ReadCommand, ReadFails, threadVars
  <2> QED
    BY <2>1, <2>2, <2>3, <2>4, <2>5 DEF Next, GuestStep
<1>2. Spec => [][Next]_vars
  BY DEF Spec
<1>3. [][Stays]_vars => KillIsNotOverwritten
  BY DEF KillIsNotOverwritten
<1> QED
  BY <1>1, <1>2, <1>3, CountInvariant, PTL
=============================================================================
