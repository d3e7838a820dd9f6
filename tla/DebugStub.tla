----------------------------- MODULE DebugStub -----------------------------
(***************************************************************************)
(* The remote debug stub: its main thread (DebugContext::Start, the        *)
(* command loop of DebugStub::Execute, and the commands that control       *)
(* threads) and its reader thread, composed with the guest threads and the *)
(* event loop of DebugThreads.                                             *)
(*                                                                         *)
(* Host threads: the main thread, the reader, the event loop, and one per  *)
(* guest thread.  They share the manager's map of threads, each thread's   *)
(* nextAction and state, and three queues: the one the manager posts to    *)
(* while Start runs, the stub's own, and the one Kill puts in its place.   *)
(***************************************************************************)
EXTENDS DebugThreads

CONSTANTS MaxCommands,  \* bound: commands the debugger sends in a session
          Resumes       \* the actions it asks for with vCont

ASSUME CommandAssumption == /\ MaxCommands \in Nat
                            /\ Resumes \subseteq {"SingleStep", "StepOver", "Continue"}

VARIABLES
  stubAt,      \* where the main thread is
  starting,    \* Start: the thread that StartThread is creating
  remaining,   \* Start, Kill: the status messages still to be taken
  closing,     \* Kill was called by PrivateStreamClosed
  streamLive,  \* the ControlStream object exists
  answer,      \* the last answer given to the debugger
  sent,        \* reader: commands read so far
  readerDone   \* the reader has ended

vars == <<threadVars, eventVars, sinkVars, threads, changingContexts, managerLive, crash,
          stubAt, starting, remaining, closing, streamLive, answer, sent, readerDone>>

StartAt == {"start", "store", "register", "await"}
KillAt  == {"killMark", "killAwait"}
StubAt  == StartAt \cup KillAt \cup {"loop", "join", "finished"}

\* S: a thread's stop; W: the process exited; bareW: "W" alone, for a thread that is
\* not there; E: an error code; pc: the value of a register; none: no reply.
AnswerKind == {"none", "S", "W", "bareW", "E", "pc"}
Answer == [kind: AnswerKind, thread: Thread \cup {NoThread}]

TypeOKStub ==
  /\ stubAt \in StubAt
  /\ starting \in Thread
  /\ remaining \in Nat
  /\ closing \in BOOLEAN
  /\ streamLive \in BOOLEAN
  /\ answer \in Answer
  /\ sent \in Nat
  /\ readerDone \in BOOLEAN

TypeOK == TypeOKThreads /\ TypeOKStub

Init ==
  /\ InitThreads
  /\ stubAt = "start"
  /\ starting = Main
  /\ remaining = 0
  /\ closing = FALSE
  /\ streamLive = TRUE
  /\ answer = [kind |-> "none", thread |-> NoThread]
  /\ sent = 0
  /\ readerDone = FALSE

readerVars == <<sent, readerDone>>
loopVars   == <<context, joinable, executionState, stopReason, loop, action>>

StubGoto(from, to) ==
  /\ crash = "none"
  /\ stubAt = from
  /\ stubAt' = to

Started == stubAt \notin StartAt

-----------------------------------------------------------------------------
(* DebugContext::Start.  The main thread is created first and left stopped, *)
(* the initializers follow, in any order, and run at once.                  *)

\* Mutant: the initializers are started before the main thread is created.
StartThreadAnyOrder(t) ==
  /\ StubGoto("start", "store")
  /\ SpawnThread(t)
  /\ starting' = t
  /\ UNCHANGED <<threads, changingContexts, sinkVars, eventVars, managerLive, crash,
                 remaining, closing, streamLive, answer, readerVars>>

StartThread(t) ==
  /\ StubGoto("start", "store")
  /\ t = Main \/ context[Main] # "none"
  /\ SpawnThread(t)
  /\ starting' = t
  /\ UNCHANGED <<threads, changingContexts, sinkVars, eventVars, managerLive, crash,
                 remaining, closing, streamLive, answer, readerVars>>

StartThreadStore ==
  /\ StubGoto("store", "register")
  /\ StoreThread(starting)
  /\ UNCHANGED <<threads, changingContexts, sinkVars, eventVars, managerLive, crash,
                 starting, remaining, closing, streamLive, answer, readerVars>>

\* Mutants: one message per thread, and one too many.
OneStatusEach == Cardinality(Thread)
OneStatusMore == 2 * Cardinality(Thread)

\* Two status messages are awaited per initializer, and one for the main thread.
AwaitedStatuses == 2 * Cardinality(Thread \ {Main}) + 1

StartThreadRegister ==
  /\ StubGoto("register",
              IF \E t \in Thread : context[t] = "none" THEN "start" ELSE "await")
  /\ RegisterThread(starting)
  /\ remaining' = AwaitedStatuses
  /\ UNCHANGED <<threadVars, changingContexts, sinkVars, eventVars, managerLive, crash,
                 starting, closing, streamLive, answer, readerVars>>

\* The last message taken ends the wait: the manager then posts to the stub's queue.
AwaitStatus ==
  /\ queue["startup"] # <<>>
  /\ StubGoto("await", IF remaining = 1 THEN "loop" ELSE "await")
  /\ queue' = [queue EXCEPT !["startup"] = TakeOne(@)]
  /\ remaining' = remaining - 1
  /\ sink' = IF remaining = 1 THEN "stub" ELSE sink
  /\ UNCHANGED <<threadVars, threads, changingContexts, eventVars, managerLive, crash,
                 starting, closing, streamLive, answer, readerVars>>

-----------------------------------------------------------------------------
(* The commands.  Each is dispatched from the head of the stub's queue.     *)

Take(kinds) ==
  /\ queue["stub"] # <<>>
  /\ Head(queue["stub"]).kind \in kinds
  /\ managerLive \/ streamLive
  /\ queue' = [queue EXCEPT !["stub"] = TakeOne(@)]

Command == Head(queue["stub"])
Reply(kind, t) == answer' = [kind |-> kind, thread |-> t]

\* A command that leaves the main thread in its loop and the threads alone.
Query(kinds) ==
  /\ StubGoto("loop", "loop")
  /\ Take(kinds)
  /\ UNCHANGED <<threadVars, threads, changingContexts, eventVars, sink, managerLive,
                 starting, remaining, closing, streamLive, readerVars>>

\* if (!context) return TargetKilled;
TargetKilled ==
  /\ Query(Kind \ {"closed"})
  /\ ~managerLive
  /\ Reply("E", NoThread)
  /\ UNCHANGED crash

\* $ThreadStatusChanged: the thread if it is there, the exit if none is, else nothing.
StatusChanged ==
  /\ Query({"status"})
  /\ managerLive
  /\ \/ /\ Command.thread \in threads
        /\ Reply("S", Command.thread)
     \/ /\ Command.thread \notin threads
        /\ HasCompleted
        /\ Reply("W", lastExitCode)
     \/ /\ Command.thread \notin threads
        /\ ~HasCompleted
        /\ Reply("none", NoThread)
  /\ UNCHANGED crash

\* "?" lists every thread; qThreadStopInfo asks for one.
GetStopReason ==
  /\ Query({"?", "qThreadStopInfo"})
  /\ managerLive
  /\ IF Command.kind = "?" \/ Command.thread \in threads
     THEN Reply("S", Command.thread)
     ELSE Reply("bareW", NoThread)
  /\ UNCHANGED crash

\* p4b: the pc of the global target thread, which Start sets to the main thread.
ReadPC ==
  /\ Query({"p"})
  /\ managerLive
  /\ IF Main \notin threads
     THEN Reply("E", NoThread) /\ UNCHANGED crash
     ELSE IF executionState[Main] = "Stopped"
          THEN Reply("pc", Main) /\ UNCHANGED crash
          ELSE crash' = "assertion" /\ UNCHANGED answer

\* Perform(command) on the threads of S that are registered, under threadsLock.  The
\* exception of the first one that is not stopped leaves Execute and ends the process.
Resume(kind, S, command) ==
  /\ StubGoto("loop", "loop")
  /\ Take({kind})
  /\ managerLive
  /\ \/ /\ \A t \in S : CanPerform(t)
        /\ PerformOn(S, command)
        /\ Reply("none", NoThread)
        /\ UNCHANGED crash
     \/ /\ \E t \in S : ~CanPerform(t)
        /\ crash' = "logicError"
        /\ UNCHANGED <<nextAction, answer>>
  /\ UNCHANGED <<loopVars, threads, changingContexts, eventVars, sink, managerLive,
                 starting, remaining, closing, streamLive, readerVars>>

\* vCont, one action for one thread.
ThreadResume == Resume("vCont", {Command.thread} \cap threads, Command.act)

Continue == Resume("c", threads, "Continue")

\* Kill gives the manager a queue of its own, so that only status messages come back.
BeginKill(kind) ==
  /\ StubGoto("loop", "killMark")
  /\ Take({kind})
  /\ managerLive
  /\ sink' = "kill"
  /\ closing' = (kind = "closed")
  /\ UNCHANGED <<threadVars, threads, changingContexts, eventVars, managerLive, crash,
                 starting, remaining, streamLive, answer, readerVars>>

Kill == BeginKill("k")
PrivateStreamClosed == BeginKill("closed")

\* ForEachThread, under threadsLock: Kill each thread and count it.  A thread is only
\* interrupted in the Executing state, which nothing assigns.
KillThreads ==
  /\ StubGoto("killMark", "killAwait")
  /\ PerformOn(threads, "Kill")
  /\ remaining' = Cardinality(threads)
  /\ UNCHANGED <<loopVars, threads, changingContexts, eventVars, sinkVars, managerLive,
                 crash, starting, closing, streamLive, answer, readerVars>>

\* Mutant: the count is not looked at.
KillAwaitUncounted ==
  /\ queue["kill"] # <<>>
  /\ StubGoto("killAwait", "killAwait")
  /\ queue' = [queue EXCEPT !["kill"] = TakeOne(@)]
  /\ remaining' = remaining - 1
  /\ UNCHANGED <<threadVars, threads, changingContexts, eventVars, sink, managerLive,
                 crash, starting, closing, streamLive, answer, readerVars>>

KillAwait ==
  /\ remaining > 0
  /\ queue["kill"] # <<>>
  /\ StubGoto("killAwait", "killAwait")
  /\ queue' = [queue EXCEPT !["kill"] = TakeOne(@)]
  /\ remaining' = remaining - 1
  /\ UNCHANGED <<threadVars, threads, changingContexts, eventVars, sink, managerLive,
                 crash, starting, closing, streamLive, answer, readerVars>>

\* Mutant: the assertion is compiled out.
KillFinishUnchecked ==
  /\ remaining = 0
  /\ StubGoto("killAwait", "loop")
  /\ managerLive' = FALSE
  /\ IF closing THEN UNCHANGED answer ELSE Reply("W", lastExitCode)
  /\ streamLive' = (streamLive /\ ~closing)
  /\ UNCHANGED <<threadVars, threads, changingContexts, eventVars, sinkVars, crash, starting,
                 remaining, closing, readerVars>>

\* assert(HasCompleted()), the exit answer, and the destruction of the DebugContext.
\* PrivateStreamClosed then destroys the stream as well.
KillFinish ==
  /\ remaining = 0
  /\ IF HasCompleted
     THEN /\ StubGoto("killAwait", "loop")
          /\ managerLive' = FALSE
          /\ IF closing THEN UNCHANGED answer ELSE Reply("W", lastExitCode)
          /\ streamLive' = (streamLive /\ ~closing)
          /\ UNCHANGED crash
     ELSE /\ StubGoto("killAwait", "killAwait")
          /\ crash' = "assertion"
          /\ UNCHANGED <<managerLive, answer, streamLive>>
  /\ UNCHANGED <<threadVars, threads, changingContexts, eventVars, sinkVars, starting,
                 remaining, closing, readerVars>>

\* PrivateStreamClosed when there is no context left.
StreamClosedLate ==
  /\ StubGoto("loop", "loop")
  /\ Take({"closed"})
  /\ ~managerLive
  /\ streamLive' = FALSE
  /\ UNCHANGED <<threadVars, threads, changingContexts, eventVars, sink, managerLive,
                 crash, starting, remaining, closing, answer, readerVars>>

LeaveLoop ==
  /\ StubGoto("loop", "join")
  /\ ~managerLive /\ ~streamLive
  /\ UNCHANGED <<threadVars, threads, changingContexts, eventVars, sinkVars, managerLive,
                 crash, starting, remaining, closing, streamLive, answer, readerVars>>

JoinHelpers ==
  /\ StubGoto("join", "finished")
  /\ eventAt = "done"
  /\ readerDone
  /\ UNCHANGED <<threadVars, threads, changingContexts, eventVars, sinkVars, managerLive,
                 crash, starting, remaining, closing, streamLive, answer, readerVars>>

StartStep ==
  \/ \E t \in Thread : StartThread(t)
  \/ StartThreadStore
  \/ StartThreadRegister
  \/ AwaitStatus

CommandStep ==
  \/ TargetKilled
  \/ StatusChanged
  \/ GetStopReason
  \/ ReadPC
  \/ ThreadResume
  \/ Continue
  \/ Kill
  \/ PrivateStreamClosed
  \/ KillThreads
  \/ KillAwait
  \/ KillFinish
  \/ StreamClosedLate
  \/ LeaveLoop
  \/ JoinHelpers

-----------------------------------------------------------------------------
(* The reader thread: SinkMain puts each command that ConsumeReadEvents     *)
(* reads in the stub's queue, and $StreamClosed when the stream fails.      *)

DebuggerCommand ==
  {Message3("vCont", t, a) : t \in Thread, a \in Resumes}
    \cup {Message3("qThreadStopInfo", t, "None") : t \in Thread}
    \cup {Message3(kind, NoThread, "None") : kind \in {"c", "k", "?", "p"}}

Deliver(m) == queue' = [queue EXCEPT !["stub"] = PutOne(@, m)]

ReadCommand ==
  /\ crash = "none"
  /\ ~readerDone
  /\ sent < MaxCommands
  /\ \E m \in DebuggerCommand : Deliver(m)
  /\ sent' = sent + 1
  /\ UNCHANGED <<threadVars, threads, changingContexts, eventVars, sink, managerLive, crash,
                 stubAt, starting, remaining, closing, streamLive, answer, readerDone>>

ReadFails ==
  /\ crash = "none"
  /\ ~readerDone
  /\ Deliver(Message3("closed", NoThread, "None"))
  /\ readerDone' = TRUE
  /\ UNCHANGED <<threadVars, threads, changingContexts, eventVars, sink, managerLive, crash,
                 stubAt, starting, remaining, closing, streamLive, answer, sent>>

-----------------------------------------------------------------------------
stubVars == <<stubAt, starting, remaining, closing, streamLive, answer, readerVars>>

GuestStep == (\E t \in Thread : DebugLoop(t)) /\ UNCHANGED stubVars
EventStep == ConsumeThreadEvents /\ UNCHANGED stubVars

Next ==
  \/ GuestStep
  \/ EventStep
  \/ StartStep
  \/ CommandStep
  \/ ReadCommand
  \/ ReadFails

\* The host's scheduler runs every host thread.  What is not assumed: that guest code
\* ever returns or traps (only a Kill is carried out without running the guest), that
\* the debugger sends anything, or that the connection fails.
HostStep(t) ==
  /\ \/ Begin(t)
     \/ Announce(t)
     \/ Autostart(t)
     \/ GetNextAction(t)
     \/ action[t] = "Kill" /\ Complete(t)
     \/ Report(t)
     \/ CheckLoop(t)
  /\ UNCHANGED stubVars

Fairness ==
  /\ \A t \in Thread : WF_vars(HostStep(t))
  /\ WF_vars(EventStep)
  /\ WF_vars(StartStep)
  /\ WF_vars(CommandStep)

Spec == Init /\ [][Next]_vars /\ Fairness

-----------------------------------------------------------------------------
(* Safety.                                                                  *)

Exited == {t \in Thread : loop[t] = "exited"}

\* changingContexts carries references to ThreadContexts, and the event loop destroys a
\* context when it handles the thread's completion.  No update that is still queued, or
\* in the event loop's hands, refers to a destroyed context: a thread's completion is
\* the last thing it ever announces.
UpdatesReferToLiveContexts ==
  /\ \A i \in 1..Len(changingContexts) : context[changingContexts[i].thread] = "live"
  /\ eventAt \in {"join", "erase"} => context[update.thread] = "live"

\* DebugLoop reads its context again after it has announced the completion.  The
\* context is not destroyed under it: the event loop joins the thread first.
LoopsRunOnLiveContexts ==
  \A t \in Thread : loop[t] \notin {"unborn", "exited"} => context[t] = "live"

\* Start counts two status messages per initializer and one for the main thread, then
\* gives the manager another queue.  That count is the exact number: nothing is left
\* behind on the queue Start abandons, and by then every thread has
\* announced itself, has a stop reason to report, and will not Perform on itself again.
StartupIsComplete ==
  Started => /\ queue["startup"] = <<>>
             /\ sink # "startup"
             /\ \A t \in Thread :
                  /\ loop[t] \notin {"unborn", "begin", "announce", "autostart"}
                  /\ stopReason[t] = "cause"

\* The event loop ends when it has emptied the map of threads.  It never does so while
\* a thread could still announce something: the main thread, registered first and not
\* started, keeps the map from becoming empty between two initializers.
EventLoopOutlivesThreads == eventAt = "done" => Exited = Thread

\* The debugger is told that the process exited (a W answer) only when every guest
\* thread has left its DebugLoop.
ExitReportedAfterAllExited == answer.kind = "W" => Exited = Thread

\* When Kill has destroyed the DebugContext nothing is left that would use it but the
\* event loop's last message: no guest thread, no queued update, no join to come.
TeardownIsQuiet ==
  ~managerLive => /\ Exited = Thread
                  /\ changingContexts = <<>>
                  /\ eventAt \in {"post", "done"}

\* A Kill that a thread has not seen yet is not replaced by another command, neither
\* from the debugger nor by an initializer's own first Continue.
KillIsNotOverwritten ==
  [][\A t \in Thread : nextAction[t] = "Kill" => nextAction'[t] \in {"Kill", "None"}]_vars

-----------------------------------------------------------------------------
(* Liveness.                                                                *)

\* Guest code that runs always returns or traps in the end.
GuestsStop == \A t \in Thread : []<>(loop[t] # "run")

\* Registered, and its completion was handled before it was registered.
Zombie(t) ==
  /\ t \in threads
  /\ loop[t] = "exited"
  /\ \A i \in 1..Len(changingContexts) : changingContexts[i].thread # t
  /\ ~(eventAt \in {"join", "erase"} /\ update.thread = t)

Crashed == crash # "none"

\* If guest code stops, Start's count is reached and it hands over to the command loop.
StartReturns == GuestsStop => <>(Started \/ Crashed)

\* The updates of t that are announced and not posted: queued, or in the event loop's hands.
Undelivered(t) ==
  Cardinality({i \in DOMAIN changingContexts : changingContexts[i].thread = t})
    + IF eventAt \in {"join", "erase", "post"} /\ update.thread = t THEN 1 ELSE 0

\* Whatever a thread announces reaches one of the stub's queues.  The event loop never stays in
\* the join of a thread that reported its completion, nor before or after it, with an update
\* in its hands; and an update leaves them only as the status message that is put, one for each.
UpdatesAreDelivered ==
  /\ \A t \in Thread : [](Undelivered(t) > 0 => <>(Undelivered(t) = 0 \/ Crashed))
  /\ [][\A t \in Thread : Undelivered(t)' < Undelivered(t) =>
          /\ Undelivered(t)' = Undelivered(t) - 1
          /\ queue' = [queue EXCEPT ![sink] = PutOne(@, Status(t))]]_vars

\* If guest code stops and no thread is registered only after its completion has been
\* handled, then Kill gets as many status messages as it waits for, the event loop
\* empties the map and ends, and once the debugger is gone Execute returns.
SessionEnds ==
  (GuestsStop /\ [](\A t \in Thread : ~Zombie(t)))
    => [](readerDone => <>(stubAt = "finished" \/ Crashed))

-----------------------------------------------------------------------------
(* What the code's assertions and comments say, and its runs refute.        *)

\* DebugStub::Kill asserts that the manager has no thread left when it has taken one
\* status message per thread it killed.
KillAssertionHolds ==
  stubAt = "killAwait" /\ remaining = 0 => HasCompleted

\* PC cannot be queried on a running thread.
PCNotReadWhileRunning == [][ReadPC /\ answer'.kind = "pc" => loop[Main] # "run"]_vars
=============================================================================
