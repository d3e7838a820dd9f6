# Classix, verified: its threads, its interpreter and what guests rely on

Classix runs classic Mac OS PowerPC programs (PEF containers) on a modern host. It
loads the program and its libraries, relocates them, and interprets their PowerPC code;
the toolbox is a set of native libraries that the interpreter calls through trap
instructions. `src/Classix` is the command line program. Without arguments for a
debugger it runs the program to its end; with one it serves the GDB remote protocol, and
then every guest thread has a host thread of its own that a debugger starts, stops,
steps and kills from other host threads. Without one the guest itself starts, stops and
kills its threads, through ThreadsLib and the native thread manager.

This directory holds TLA+ modules translated from that source, TLC configurations that
check them on small instances, and TLAPS proofs for any instance. Concurrency is where
Classix is hard to test, so the project begins with the two places where host threads
meet over shared, partly unprotected, state: the debug stub with its four kinds of them,
and the guest's own threads with their critical sections. Next comes the interpreter: its
control, which another thread may interrupt, and its integer, load and store
instructions, run as the programs compilers make of them. Last come three services of the
libraries: the user interface with its second process, the network endpoints, and the
loader of containers.

    WaitQueue --implements--> AtomicQueue
        ^                         ^
        | EXTENDS                 : taken for granted by
    WaitQueue_proof               :
                              DebugThreads <--EXTENDS-- DebugStub <-- DebugStub_proof

                              Breakpoints <-- MCBreakpoints
                                   ^
                                   +--------- Breakpoints_proof

                              ThreadManager <--EXTENDS-- ThreadsLib <-- MCThreadsLib
                                                             ^
                                                             +------- ThreadsLib_proof

    FixedPoint <-- LoadStore <-- GuestPrograms <--+
                                                  +-- Processor <-- FixedPoint_proof
                                  Interpreter <---+                        ^
                                                                           +--- Processor_proof

                UIChannel_proof --> UIChannel <---+
                                OpenTransport <---+-- Services <-- Services_proof
                                       Loader <---+

## 1. The system: inventory

| Component | State it keeps | Operations | Talks to | What is hard | What makes it correct | Status |
|---|---|---|---|---|---|---|
| **WaitQueue** `Classix/Debug Stub/WaitQueue.h` | deque, mutex, condition variable | `PutOne`, `TakeOne`, timed `TakeOne`, `Clear` | every host thread of the stub | wakeups, timeouts racing `notify_one` | elements leave once, in order; no lost wakeup | modelled, proved |
| **Guest threads and thread manager** `ThreadContext`, `DebugThreadManager` | per thread: `executionState`, `stopReason`, `nextAction`, the interpreter; the map of threads; the queue of updates; `sink`; `lastExitCode` | `StartThread`, `DebugLoop`, `Perform`, `Kill`, `ConsumeThreadEvents` | the stub through `sink`; breakpoints; the interpreter | an update refers to a context that another thread destroys; late registration; a command overwritten | no use of a destroyed context; every change reported; the event loop ends after, and only after, the last thread | modelled, proved |
| **Remote debug stub** `DebugStub.cpp` | the command queue, the stream, the `DebugContext`, the target threads | `Start`, `Execute`, one handler per command, `Kill` | the above; the connection | counts of messages in `Start` and `Kill`; a connection that fails at any time | a session starts, answers, ends | partly |
| **Breakpoints** `Breakpoint.cpp` | location to saved word and count; trap words in guest memory | `SetBreakpoint`, `RemoveBreakpoint`, `GetRealInstruction`, `BreakpointContext` | the debugger's commands, `DebugLoop`, guest memory | several users of one location, traps taken out during a read | counts match users; traps match the map; no word of the program is lost | partly, proved |
| **Control stream** `ControlStream.cpp` | two buffers over a socket, ack mode | `ReadCommand`, `WriteAnswer`, acks | reader thread and main thread | the two threads share one read buffer when acks are on | an answer's ack is not taken for a command | only as a source of commands |
| **Interpreter, control** `PPCVM/Interpreter/Interpreter.cpp` | machine state, `branchAddress`, `endAddress` | `Execute`, `ExecuteOne`, `ExecuteUntilBranch`, `Interrupt`, the branch instructions | native libraries by trap; `ThreadContext` | `Interrupt` from another thread races a branch on `branchAddress` | an interrupt that was let in is neither lost nor late | modelled, proved |
| **Interpreter, instructions** | registers, condition register, flags | one method per instruction | memory | carries, rotations, signs, masks that wrap, accesses at the ends of allocations | sequences of them compute what they are written for; bytes in memory survive every form of access | integer, condition, load and store: modelled; floating point arithmetic: not |
| **Disassembler** | none | | | | | not modelled: formatting |
| **Native thread manager** `OSEnvironment/ThreadManager.cpp` | markers of executing threads, the critical section's lock and depth | `Mark`/`UnmarkThreadAsExecuting`, `Enter`/`ExitCriticalSection` | ThreadsLib; Mach's `thread_suspend`, `thread_resume` | suspends threads wherever they are, one by one; nested sections | nobody else runs inside a section; everybody runs again after it | modelled, proved |
| **ThreadsLib** `ThreadsLib/ThreadsLib.cpp` | map of guest threads and their states | `NewThread`, `SetThreadState`, `SetThreadReady`, `DisposeThread`, `SetThreadStateEndCritical`, queries | native thread manager, Mach | the map has no lock; registration after the start; stopping shares Mach's suspend count with the sections | suspensions and resumptions balance | modelled, proved |
| **OpenTransportLib** | endpoints, `endpointMutex` | `OTOpenEndpoint`, `OTUnbind`, `OTAccept`, `OTRcv`, ... | the host's sockets | a lock held over a blocking call; descriptors that the host uses again | each endpoint has its own socket, in its own mode | modelled, proved |
| **UI channel and head** `InterfaceLib/UIChannel`, `InterfaceLibHead` | two pipes; the head's event queue, its timer, the menu gate, drag handlers | requests and answers; `peekNextEvent` | the toolbox calls of the guest; the user | a timer and an event that may both answer; events that come between two requests of one call | one answer per request, the right one; the event returned is the one removed | partly, proved |
| **Resource, Gestalt managers** | tables | | | little | | not modelled: look-ups in tables that are filled once |
| **Memory** `NativeAllocator.cpp`, `AccessViolationException.cpp` | ranges by address | `Allocate`, `Deallocate`, look up, pointer checks | everybody | an access is judged by its two ends | a store strays from what is allocated no further than the check lets it; a faulted one changed nothing | the checks: modelled with the loads and stores |
| **Code fragment manager** `CFM/` | resolved containers | `LoadContainer`, relocation machine | containers, libraries | loading recurses in the middle of loading, and may fail there; relocation programs with loops | what is loaded has all its libraries, and each word is what the container stands for | partly |
| **PEF, Mach-O containers** | parsed sections | unpacking | the loader | pattern data | | pattern data: modelled; the rest is file formats |
| **Program control, toolbox libraries, Classix Debugger** | | | | | | not modelled: glue, unimplemented functions, a Cocoa user interface |

The hazards of this code, each with its line and the properties that cover it, are in
`PROJECT.json` under `hazards`; the ones that have a note and no property are the list
of later work.

## 2. The modules and the code

### AtomicQueue, WaitQueue

`WaitQueue` has one step per critical section of `waitMutex`: `PutOne`, and for the two
`TakeOne`s the tests of the predicate that `wait`/`wait_for` make (`TestFirst` at the
call, `TestAgain` after a wake, `TestLast` after a timeout). Each test either pops an
element or blocks; a blocked taker is woken by `notify_one`, by nothing at all
(`SpuriousWake`), or by its time limit (`Timeout`). The condition variable and the mutex
themselves are external. `Clear` is in the model although nothing calls it.

`AtomicQueue` is the promise: each operation happens at one instant, a timed call fails
only on an empty queue, and as long as there are an element and a taker somebody gets
one. `IsAtomicQueue` says that `WaitQueue` implements it under the mapping
`asking <- the takers that are within a call`. It is what allows `DebugThreads` and
`DebugStub` to take a queue operation as one step. (`ThreadContext`'s `nextAction`
with `mShouldResume` is the same pattern with room for one element, and is one step there
for the same reason.)

### DebugThreads, DebugStub

`DebugThreads` holds the guest threads' half. `loop[t]` is where `DebugLoop` is:

| Action | Code |
|---|---|
| `Begin`, `Announce`, `Autostart` | `DebugThreadManager.cpp` 80 to 98: `Stopped`, the first update, an initializer's own `Perform(Continue)` |
| `GetNextAction` | `ThreadContext::GetNextAction`, the wait on `mShouldResume` |
| `Complete`, `StepDone`, `Fault` | how a run ends; what the guest computes is not there |
| `Report`, `CheckLoop` | the last update of a round, and the loop condition that reads the context once more after it |
| `TakeUpdate`, `JoinThread`, `EraseThread`, `PostStatus` | the four steps of `ConsumeThreadEvents` |
| `SpawnThread`, `StoreThread`, `RegisterThread` | the three steps of `StartThread`, in the order the code has them |

`DebugStub` adds the main thread (`stubAt`) and the reader. `StartThread`,
`StartThreadStore`, `StartThreadRegister` and `AwaitStatus` are `DebugContext::Start`;
`StatusChanged`, `GetStopReason`, `ReadPC`, `ThreadResume`, `Continue`, `Kill` and
`PrivateStreamClosed` are command handlers, `TargetKilled` what all of them do once the context
is gone; `KillThreads`, `KillAwait`, `KillFinish` are the rest of `Kill`; `LeaveLoop`,
`JoinHelpers` the end of `Execute`; `ReadCommand`, `ReadFails` the reader.

Where the code can end the process, the model says how (`crash`): a failed assertion,
the exception that `Perform` throws, `join` on a `std::thread` that is not there, or a
use of the destroyed manager. A crash stops every action.

Abstractions worth knowing:

* `StatusChanged` is one step although the code takes `threadsLock` more than once: after
  `Start` the map only shrinks, and the pointer for a thread that is not there
  holds no lock.
* A `vCont` with several actions is one command per thread, in any order.
* A stop reason is "unset" or "cause"; which cause is not told apart.
* Execution states: `Executing` is in the type but no action assigns it, because no code
  does. That is the subject of one of the findings.

### Breakpoints

Guest memory is `Size` words. `breakpoints` is `BreakpointSet`'s map; `parked` is the
map while a `BreakpointContext` has it, and `inhibit`/`pending` say where the
`ReadMemory` that holds it is: words are restored, and traps written back, one by one.
`mapMutex` is `MapFree` and is a guard of exactly the operations that take it:
`SetBreakpoint` and `RemoveBreakpoint` have it, `FindInstruction` (`GetRealInstruction`)
does not, as in the code.

Per guest thread, `mode` follows the body of `DebugLoop` that `DebugThreads` has as the
one place `run`: find the real instruction, execute one, perhaps run on; or look at the
word, and for a call set a `Breakpoint` behind it (`CreateBreakpoint`, `SetStop`) that is
removed by its destructor (`ClearStop`) however the command ends. An instruction may go
on anywhere, end the program, or fault.

`WriteMemory` writes over traps as the code does; `clobbered` records where it has, and
the properties that cannot hold there exclude those locations. A removal counts only when
it was preceded by a set of the debugger's own (`requested`). In the code `z` parses its
arguments with semicolons where `Z` uses commas (`DebugStub.cpp` 575 and 542):
`DebuggerRemoves` stands for a `z` that parses.

### ThreadManager, ThreadsLib

`ThreadManager` is `NativeThreadManager` without a specification of its own: what its
threads do is decided by `ThreadsLib`, which extends it. `at[t]` is where a host thread
is, `suspended[t]` Mach's suspend count, and a thread takes a step only when that is 0
(`Runs`): it may be suspended between any two steps, with `usedThreadsLock` in its hands
too. `usedThreadsLock` is recursive (`CanLock`), and `Mark`/`UnmarkThreadAsExecuting` are
two steps each, so that a thread can be caught in between. `EnterCriticalSection` takes
the lock and then suspends one marked thread after the other (`SuspendNext`, `Entered`);
`ExitCriticalSection` resumes likewise (`ResumeNext`, `Exited`). The order is any, as an
`unordered_map`'s is. An error of Mach's is `abort()` there (`crash`) and ignored in
ThreadsLib, as in the code.

`ThreadsLib` adds `threadMap` and the calls. A call is up to three steps, between which others
may run: find the thread and its state (`SetThreadState`, `SetThreadReady`, `NewThread`),
write the state (`WriteState`, `RegisterNewThread`), call Mach (`SuspendThread`,
`ResumeThread`). `Finish` is the end of `ThreadTrampoline`. `stopped` and `stray` are
history variables: what ThreadsLib has put on each suspend count, and whether it ever
took away what it had not put there.

Abstractions worth knowing:

* A thread is named by itself and not by its ID. What IDs do is kept: `by` says whether an
  entry has the ID the creator gave, the only one that `Finish` looks for.
* Mach's port names are not reused, and a thread is terminated at once, wherever it is. If it has
  `usedThreadsLock`, nobody ever gets that again.
* A guest leaves only sections that it entered, as the assertion in `ExitCriticalSection` asks.
* When the main thread returns the process ends: its marker is never taken off.
* The source does not compile as it stands (a stray slash at line 512, a
  missing member at 540); its evident reading is modelled.

### Interpreter

Two host threads and one atomic, `branchAddress`. `mode` is where the interpreting thread
is between two accesses to it: Execute's loop (`loop`), the reset (`EnterLoop`, `EnterOne`),
an instruction (`fetch`), the exchange in `SetBranchAddress` (or the exception of its
look-up of a target that is no address, once `lr` and `ctr` have changed) and the store that puts an
interrupt back (`restore`), a native call (`native`), the loop's test (`test`), and Execute
taking the target up (`load`). `CallInterrupt` and `Interrupt` are the other thread; of its
spinning only the compare-and-exchange that succeeds is a step. Branches are there with
their fields, and `lr` and `ctr` with what branches do to them; every other instruction is
"plain", may write `lr` and `ctr`, and guest memory may hold any instruction anywhere.
`accepted` and `since` are history: an interrupt was let in after the reset, and how
many instructions were completed since.

What the code does and the model keeps: the constructor leaves `branchAddress` as
memory was; the reset overwrites an interrupt that came before it; a `bcx` that raised a
trap over an interrupt has decremented `ctr` and does it again when it is executed again;
`bclrx` with LK writes `lr` before it reads its target from it; ExecuteOne, which a
comment calls not interruptible (line 314), lets interrupts in like Execute; and an
Interrupt of an interpreter whose last call ended by a branch spins until the next call.

### FixedPoint, LoadStore, GuestPrograms

`FixedPoint` has the integer and condition register instructions on `W`-bit registers,
`LoadStore` the loads, stores and strings on a memory of bytes whose size goes with them.
An instruction is a record with its fields; `Execute` is the dispatcher and one method.
`GuestPrograms` runs straight-line programs, one instruction a step, from given registers and
memory; its properties speak of the end of each program and are what the programs are
written for: sums over two words, double-word shifts, division with remainder, masks, the
order of two words as each of the comparing instructions has it, and memory copied in
one size, order or mode and read in another. No property restates one instruction. The
programs come in families (`WidePrograms`, `OnePrograms`, `MemoryPrograms` and so on): a program is a
kind, which fixes its code, with any operands. Powers of two are a recursive function, `Power`, because the
prover knows nothing of `^`.

The code differs from PowerPC's manual in places, and the model follows the code:

* `addmex` and `subfmex` lose or invent a carry where theirs is 1 already; `srawx`'s
  carry is a test of its own; the properties say which chains these spoil.
* `cmpi` goes by the sign of a difference, which is right only while that fits; `cmpli`, `cmp` and
  `cmpl` compare the operands themselves.
* `cmp` and `cmpl` throw with the summary overflow set, as all instructions with OE do: `divwux` and
  `divwx` before they have written a result, and only if there is no quotient, the others after it.
* Shifts by more than the word are the host's (`slwx` does not mask its amount; the
  outcome modelled is the one x86 hosts produce). A quotient by 0 is 0 or, of a negative number,
  -1, and that of the least number by -1 is 0.
* `stfdx` takes its data from the wrong register number; `stmw` checks its first word
  only; `lswx` clears one register too many and `stswx` does not wrap around after the last;
  `lswi` and `stswi` access memory without the check.
* Pointers are checked in DEBUG builds only (which is what is modelled), by their first
  and last byte, and the null pointer passes the check. So an access may lie across a hole
  between two allocations.
* A single is the first half of a double here. What conversion does to a signalling NaN is left out.

### Processor

For TLC, both halves of the interpreter side by side: a behaviour is one of the control
or one guest program, so that neither multiplies the other's states. They share no state
in the model; what joins them in the code, the dispatcher's call in the middle of
`ExecuteUntilBranch`, is the steps "plain" and "fault".

### UIChannel

The guest's toolbox call is a list of actions (`plan`), an action a request and its answer.
`WriteRequest` and `ReadAnswer` are `PerformAction`; the pipes are sequences without
message boundaries, and a read of something else than was written is `outOfStep`. The head
is one thread: `ProcessIPCMessage` takes a request and runs its handler; `HandleEvent`,
`EndDrag` and `PickMenuItem` are the user; `StopWaitingOnEvent` is the timer. `Owed` counts
the answers the head has yet to give: to a waiting `PeekNextEvent`, to `MenuSelect` (whose
answer opens the gate) and to `DragWindow`.

* The event queue is a set, ordered by the numbers of the events, as it is filled in that
  order and events are taken by kind.
* Of the notifications AppKit sends twice when the key window changes, the second is an event like any
  other. `DragWindow` waits for the next mouseUp.
* `enqueueUpdateEvent` queues its event and does not suggest it, as in the code.
* `MenuKey` breaks the protocol in the code (see hazards): `spoiled` from then on, and the
  properties end there.
* One guest thread at a time calls the toolbox: with two, their messages mix.

### OpenTransport

Any number of guest threads. `Socket` and `Insert` are the two halves of
`OTOpenEndpoint`/`OTAsyncOpenEndpoint`, outside and inside the mutex. A call that the host may keep is
two steps with the mutex held between them (`CallHost`, then `HostReturns` or `OTAccept`);
all others are one. Descriptors are reused freely. An accepted socket has the mode of the
one that listens, as in BSD. `OTUnbind` closes before it opens, and when it gets no socket
(`unbindFailed`) its endpoint keeps the number of a descriptor that is not its own.
`OTAccept` puts the accepted socket under any number the guest gives it, that of an endpoint, of a closed
one, or of one that `OTOpenEndpoint` comes to later; the socket that was there in either case
stays open for good (`replaced`). The notifier is
stored and never called, so there is no callback to model.

### Loader

`loading` is the recursion of `FragmentManager`, the innermost container first: pattern
operations, then the imports, each of which may begin another container, then the
relocations, one instruction a step. A missing library unwinds
(`Unwind`) and leaves what was loaded on the way; an exception of the relocator unwinds everything and
ends the process. `resolvers` gets a name only when its container is complete, as in the code.

A file's program is all its relocations: each header (`Relocator`) with its
instructions, half word by half word. `Decoded` is what the code makes of an instruction: `RelocSmallByIndex`
and the large forms all end in `RelocByIndex` (`ByIndex`), for which sub-opcode 0 is an import.
`RelocLargeSetOrBySection`, which in the format has 0 for a section, gets there with its sub-opcode as it is and with
the sub-opcode's last bit as part of the index; positions and import indices are cut off at `PositionSize` and `IndexSize`.
`Fails` has the exceptions: an instruction nobody knows, an index without a section or an import, a library without the
symbol, a native function (class code) for a word that is not 0. `RelocLargeRepeat` executes itself again and never
ends but with the stack (`thrown = "stack"`).

`LoadedIsLinked` compares the sections with
`Linked`, which computes each word from the container at once: it writes the repetitions out, looks up the last
header, position, section or import before each instruction, sums what falls on a word, and has no machine state.
`Meant` is what the format means by an instruction. Where `Decoded` differs the code links something else; what then
should come of it nothing in the repository says, and the property says nothing of the sections of such a container.

Abstracted: sections are words (a program that relocates bytes across words is not there), and a container's
sections are one sequence, of which a header names a part. `InstantiableSection`
copies as many bytes as the section has in memory, even if the container has fewer.

### Services

The three above side by side for TLC, as Processor does it: they share no state, and a
behaviour is one of them.

## 3. What is checked

| Run | Instance | Distinct states | Shows |
|---|---|---|---|
| `waitqueue` | three takers, one timed; two elements; 3 puts | 8,880 | `NoLostWakeup`; implements `AtomicQueue`, liveness included |
| `debug_stub` | main thread and one initializer; two commands or a lost connection | 509,736 | the seven safety invariants and one action property below |
| `debug_stub_live` | the same, one command | 32,662 | `StartReturns`, `UpdatesAreDelivered`, `SessionEnds` |
| `breakpoints` | two locations, two guest threads, one `Z` per location, one `M`; threads symmetric | 3,548,342 | `CountsMatchUsers`, `TrapsMatchBreakpoints`, `ProgramIsRecoverable`, `DebuggerReadsProgram` |
| `threads` | the main thread and two that it or they create; nesting to 2; two calls that stop, resume or dispose of a thread; the two symmetric | 517,056 | `SuspensionsMatch`, `SectionIsExclusive`, `AbortsAreExplained` |
| `processor` | two words of code, 13 instructions; 8-bit registers, 8 of them; 256 bytes of memory in four ranges with holes of 2, 6 and 17 bytes | 62,061 | two properties of interrupts, `InterruptStops`, and six of guest programs |
| `services` | three events, two masks, 14 toolbox calls; two threads, three descriptors, two endpoints; three containers, all well-formed relocation programs of three instructions, and of two with the rare ones | 960,108 | `SidesTakeTurns`, `ReturnedEventIsRemoved`, `CallsReturn`; `SocketsBelongToEndpoints`, `OnlySynchronousCallsWait`; `LoadedIsLinked` |
| `unseen_event` | two events, `WaitNextEvent` | | refuted: finding |
| `threads_strict` | the same as `threads` | | refuted: finding |
| `kill_assertion`, `pc_running` | as `debug_stub` | | refuted: findings |
| `step_over` | two locations, one thread | | refuted: finding |

**Bounds.** Three takers are the fewest for a thief (one that never waited), a waiter and
a timed waiter at once; three puts outnumber any two of them. Two guest threads are the
kinds there are: the main thread, which waits to be told, and an initializer, which
starts by itself. Two commands are enough for one to be in flight while the other is
handled: a resume and a kill, two resumes, a query during a kill. (Three guest threads
and one command, 5.5 million states, give the same answers, but take too long to run
each time.) Two locations are one to be at and one behind it, and the
successor is circular, so that each is both. Two threads that step over the same call
plus the debugger are three users of one location; `MaxCount = 1` bounds only what the
debugger asks for. One `M` is enough to clobber a trap. Three guest threads are one in a section,
one that it suspended and one that is being created, and two calls are a stop and the
resume that goes with it, by one thread or two; `MaxDepth = 2` is the least that
nests. The proofs have no such bounds.

In `processor`, 8-bit registers keep every boundary there is: zero, the sign, the
largest value, a shift by the width and beyond; the operands in `Sample` are those and their
neighbours, in all pairs, and the mask fields are all combinations with either
end at 0, in the middle and last, wrap-around included. An immediate is half a register and a byte a
quarter, as in 32 bits. In `services`, one event answers a waiting request, one comes between
the two requests of a call and one more is left behind; three descriptors are two
endpoints' and an accepted one; two threads are one in the host and one that waits; a guest names numbers up to
the highest that is ever given. The relocation programs (`Form`) have every instruction and each pair of them with
whatever they may share: repetitions of repetitions, runs over what was relocated before. `Rare` adds, to pairs, what the code cuts off,
decodes otherwise, does not know, asks for in vain or never finishes, and second headers; `PositionSize`, `IndexSize` and `SectionField`
are small enough for that to happen. Of the holes in `processor`'s memory one is narrower than a word, one than a
double, and one wider than both; stores and loads of every size begin at every address of `Edge` around them.

**Deadlock** is checked, except in the runs of `DebugStub`, which really stops: when the
session is over, when the process has crashed, and when a hazard listed there leaves it
stuck, and in those of `ThreadsLib`: guests may stop each other for good, or
themselves within a section, and an `abort()` ends the process. Guest programs end, a guest may
cease to call, and an exception in the loader ends the process: `processor` and `services` have no
deadlock check either.

**Symmetry** permutes the guest threads of `Breakpoints`, which are interchangeable
there, and in `threads` those other than `Main`. These runs have no liveness property.

**Fairness.** Weak fairness of each host thread's own steps: the host's scheduler runs
every thread that can run, and a thread in a wait whose condition holds gets its mutex in
the end. Not assumed: that a time limit expires or a call is made, that the debugger
sends anything or goes away, that guest code ever returns. Where liveness needs the last
one, the property says so (`GuestsStop`): a `Continue` into an endless loop does keep the
stub from ending. `SessionEnds` also assumes that no thread is registered only after its
completion was handled (`Zombie`): `DebugThreadManager.cpp` 266 to 271 allow it, and `Kill`
then waits for ever. Both premises hold in some of the checked behaviours, and a
mutant shows for each property that they are not what makes it true. `processor` assumes weak
fairness of the interpreting thread within a call, so that native calls return; not that a call or an
interrupt is made. `services` assumes it of the guest's thread, of the head's IPC handler and of its
timer, which a run loop serves; not of the user: `CallsReturn` leaves out the two calls that
only the user ends.

### The properties

* `UpdatesReferToLiveContexts`, `LoopsRunOnLiveContexts`: no `ThreadContext` is used after
  the event loop has destroyed it, neither by an update nor by its own `DebugLoop`.
* `StartupIsComplete`: the count of status messages that `Start` waits for is exact.
* `EventLoopOutlivesThreads`: an empty map of threads means that all are done, which is
  so because the main thread is registered first and started last.
* `ExitReportedAfterAllExited`, `TeardownIsQuiet`: no exit is answered and no context
  destroyed while a guest thread is in its loop.
* `KillIsNotOverwritten`: the one place for a command is never overwritten when it holds a
  Kill.
* `CountsMatchUsers`, `TrapsMatchBreakpoints`, `ProgramIsRecoverable`,
  `DebuggerReadsProgram`: what a breakpoint hides comes back, at every step of every
  interleaving of the debugger and the threads.
* `SuspensionsMatch`: each suspend count is what sections and ThreadsLib account for, so
  no thread is left suspended by a section that is over, and none runs that should not.
* `SectionIsExclusive`: inside a section nobody else executes guest code, the threads
  that were just being created or stopped included.
* `AbortsAreExplained`: the only ways for the process to abort in a section.

  The three exclude what ThreadsLib itself breaks, a thread that it resumed though it had not
  suspended it (`stray`). That exclusion is the subject of the fourth finding.

* `AcceptedInterruptIsKept`, `InterruptIsPrompt`, `InterruptStops`: from Execute's reset on, an
  interrupt that got in stays in until the call ends by it, by a trap or by a fault; no
  second instruction is completed after it; and the call does end.
* `MultiwordArithmeticIsExact`, `ProductsAndQuotientsAgree`, `BitsMoveIntact`,
  `ComparisonsAgree`: what the instruction sequences compute is what their arithmetic
  meaning is, for the operands where carries, signs and widths meet.
* `MemoryKeepsWhatIsStored`: no access form loses or spreads a byte.
* `StraysAreNear`: which bytes outside all allocations a store can change, given that only the ends of an access are
  looked at. Such stores exist, and are in the run. They reach no further than a hole narrower than the access or, `stmw` and `stswx`, than
  the bytes behind an allocated one; and one that faults has changed nothing there.
* `SidesTakeTurns`: at each moment a request is in its pipe, owed, or answered, and never two of these.
* `ReturnedEventIsRemoved`: the event that GetNextEvent returns is the one it takes out.
* `CallsReturn`: no toolbox call waits for ever, whatever events come when.
* `SocketsBelongToEndpoints`: no two endpoints share a descriptor, and none is open without an owner.
* `OnlySynchronousCallsWait`: a thread that waits in the host with the mutex is in a
  synchronous call.
* `UpdatesAreDelivered`: for each thread, an update it announces does not stay in the queue or in the event loop's
  hands, and leaves them in one way only: as the status message put into the queue that the sink then is.
* `LoadedIsLinked`: nothing is relocated twice, not at all, or with the wrong import or section, if the code takes each
  instruction for what the format means by it.

### Findings

1. **`Kill`'s assertion fails** (`DebugStub.cpp` 453). `Kill` counts one message per
   thread. A stop that was in flight when it replaced the sink is counted as a
   completion; the assertion then finds a thread still registered.
2. **The assertion on the pc does not protect it** (`DebugStub.cpp` 521). It tests for
   `Stopped`, which a running thread is: nothing assigns `Executing`.
3. **A step over does not execute the instruction at the pc** (`DebugThreadManager.cpp`
   124, 140): on a breakpoint it fetches the trap, and at a call it is given the word
   behind the call.
4. **A thread can run in another's critical section** (`ThreadsLib.cpp` 446, 463, 469).
   `SetThreadState` marks a Running thread Stopped without suspending it; when it is then made
   Ready, the resume undoes the suspension of a critical section that was entered in between.
   `ThreadsLib/Readme.md` 14 promises that all others are frozen.
5. **An event may be removed that was never returned** (`Events.cpp` 232). WaitNextEvent sends
   `DequeueNextEvent` also when `PeekNextEvent` has returned the null event, and an event that came in
   between is removed unseen. `Events.cpp` 36 says that an event is discarded if it is matched.

## 4. What is proved

All theorems are for any constants that satisfy the named assumptions: a finite set of
guest threads that contains `Main` (`ThreadAssumption`), any number of commands
(`CommandAssumption`), any number of takers and elements (`QueueAssumption`), any
memory, words, threads and bounds (`BreakpointAssumption`), any guest threads, nesting and
number of calls (`ManagerAssumption`, `CallsAssumption`), any code and instructions
(`InterpreterAssumption`), registers of any width `W` with bytes to any base, four to a register
(`WidthAssumption`, `FieldAssumption`, `LoadStoreAssumption`), any operands, addresses and allocations, and at
least eight registers and two condition fields (`GuestProgramsAssumption`; `BufferAssumption` says that the
programs' two buffers have room for all registers and do not overlap, `ProcessorAssumption` that the
programs are of GuestPrograms' families, `PowerAssumption` that `W` is a power of two, as shift amounts and
masks need, `OperandAssumption` that a double word is shifted by less than its length and that a field lies in
the word), any masks, toolbox calls and number of events
(`ChannelAssumption`), any threads, descriptors and endpoints (`TransportAssumption`), any well-formed
container files, section and symbol addresses and sizes of operands (`LoaderAssumption`, `WorldAssumption`). TLC evaluates them in the
runs. `WellFormed` is what linkers make and the code reads without a check: pattern operations write
words, a large instruction has two halves, a repetition is of whole instructions before it under the same header, and what is
relocated lies in the section that the header names. Sections and imports that there are not, symbols that a library has
not, instructions that are unknown, masked or decoded otherwise are all allowed.

**WaitQueue_proof**: `TypeCorrect`, `NoWakeupIsLost`, and `OperationsAreAtomic`, the
safety half of the refinement: the initial state maps to the initial state, each step
to a step or a stutter. The invariant counts: while a taker is blocked there are as many
woken takers as elements. A pop takes one of each or was not woken; a put adds one
of each; a timeout adds a taker that will test, and a taker that blocks has just found the
queue empty.

**DebugStub_proof**: `TypeCorrect`, `UpdatesSafe`, `LoopsSafe`, `EventLoopSafe`,
`ExitSafe`, `TeardownSafe`. None of these invariants is inductive. What carries them is
one fact about each thread: its completion is the last thing it announces. `IInv` states
that through the places where a completion can be: in the thread's own state before it is
announced, in the queue of updates, in the event loop's hands, or handled; and it relates
each to the thread's position in its loop, to membership in the map and to the life of
its context. The main thread
is in the map, or has exited, as soon as any other is created; so an empty map means that
all have exited.

On top of it come `StartupCounted` and `KillStays`. Until Start is over nobody but
an initializer resumes a thread (`OwnCommand`), so a thread announces itself twice at most, the main thread
once. `CountInv` says that the announcements made (two cardinalities: who made one, who made two) are
those queued, in the event loop's hands, posted and taken. Start awaits the most there can be, so
with the last one nothing is left and nobody owes one. `KillInv`: only Kill gives a thread its
Kill, and the stub gives no other command before Kill has destroyed the manager.

**Breakpoints_proof**: `TypeCorrect`, `CountsCorrect`, `TrapsCorrect`, `ProgramSafe`,
`ReadsCorrect`. `IInv` is `TypeOK` with three groups: `SetInv`, what lock, map
and memory are to each other (`LockInv`, `WordInv`, `MemoryInv`, `ProgramIsRecoverable`);
`LoopInv`, what a thread's position says about its command and its stop; and
`CountsMatchUsers`. The argument: whoever changes the map has `mapMutex`, and while
`ReadMemory` has it the map is empty and nobody can save a word; so a word is saved only
at a location without a trap, and no trap is ever saved. The count changes are reduced to
the effect of two operations (`SetEffect`, `RemoveEffect`), and one cardinality step
for the thread that gains or loses its stop.

**ThreadsLib_proof**: `TypeCorrect`, `SuspensionsCorrect`, `SectionsExclusive`,
`AbortsExplained`. `IInv` adds to these who has a marker (`MarkInv`), who has the lock and
for what (`LockInv`), and whom a sweep still goes over (`SweepInv`). The argument: a
marker changes only under the lock, and nobody else gets the lock while somebody is in a
section; so Exit goes over the same threads as its Enter did, and `Held`, which is a
function of the present state, is what both have put on each thread so far. Exclusion
follows at once: inside a section `Held` is positive for every other marked thread.

**FixedPoint_proof** and **Processor_proof** have both halves of the interpreter: the first what instructions
make of words, and the programs that compute; the second the rest, and the theorems. For the control: `ControlTypeCorrect`,
`InterruptsKept`, `InterruptsPrompt`. The invariant
says, mode by mode, where an accepted interrupt is (`Kept`: in `branchAddress`, or in the
local that `SetBranchAddress` is about to put back) and that a completed instruction goes
to the test or out (`Prompt`); `Modes` says which modes are of which call and when
`branchAddress` is taken. The argument: between reset and test nothing but the exchange and the
native return write `branchAddress`, and both look at what they took out.

For the guest programs: `WideArithmeticExact`, `ProductsAndQuotientsExact`, `ComparisonsExact`,
`MemoryKept`, `StraysKeptNear`, `BitsKept` and `TypeCorrect`. Each invariant says of a program, by what is left of its code, what the
registers hold after the instructions before (`WideProgress`, `DividingProgress`,
`CompareProgress`, `KeepProgress`), and the last of these is the property. The rest is arithmetic: a sum with carry
is the digit and the carry of the sum of three numbers (`AddThreeWithCarry`), a product of signed words
differs from that of the words by a multiple of `M` (`LowProduct`), and what is
divided is quotient and remainder (`SignedDivision`). That any set of bits is a word (`WordBits`, which gives
`Word` its value) and that powers of two are what they are (`Powers`) are proved by induction over the set of
numbers at which they fail, whose least element cannot exist. `MemoryKept` has such an invariant for each
of its access patterns (`BytesProgress`, `HalvesProgress`, `FloatProgress`, `SaveProgress`, `MoveProgress`),
which also says what each store has left in memory (`Has`, `Copied`, `Saves`, `Carried`). What carries them: a word
is its bytes and four bytes are a word (`FromBytesOfWord`, `BytesOfFromBytes`), no access to the buffers wraps
around (`FetchAt`, `PutAt`), and what a store does not reach stays (`CopiedElsewhere`). For `TypeCorrect`, `LegalCode` says that the
instructions that are left name registers that there are, with
operands in range, and `LegalCodes` that all families' programs do.

`StraysKeptNear` has no invariant but `TypeCorrect`'s, and no hypothesis: allocations may lie anywhere, as they may
with `NativeAllocator`. A store changes the bytes that its offsets name, and only these, also where addresses wrap around
(`PutReaches`); the check has seen the first of them and, but for `stmw`, `stswx` and `stswi`, the last. What it changes outside
is therefore in a hole between two allocated bytes of the same access. That is the strongest bound the check gives,
and it is why the theorem does not say that accesses stay inside: they do not.

`BitsKept` is for the programs that move bits, where amounts, places and signs are operands.
Two words with the same digits are the same (`SameWord`, from the sum a word is of its digits, `DigitSum`), so
the logical instructions, the shifts, the rotation and the masks are each described by what they make of one digit,
and every law is one about digits: `DoubleShift` says which of the three terms that compilers combine has a
digit, and that the others have none, on either side of an amount of `W`; `Normalized` that the leading bit is
moved to the front and back; `FieldMoved` that rotation and mask, wrapping or not, put a field where it belongs and
nothing else; `Constants` and `LogicTried` are the laws of logic. `Halved` and `Absolute` are arithmetic: the carry that
a right shift leaves is what rounds towards zero. `BitsInv` says, by what is left of a program (`Left`),
what the registers hold; it needs `StoreInv` (from `TypeCorrect`) for their ranges, and `initial \in Program` for
those of the operands.

**UIChannel_proof**: `ChannelTypeCorrect`, `TurnsTaken` and `RemovesWhatItReturns`. `PipesOK` types the pipes and says what a plan may
contain; `Turn` is a choice of four: nothing is under way (`Quiet`), the request
is in its pipe (`Asked`), the head owes exactly one answer of the right shape (`Owing`),
or the answer, or the rest of it, is in its pipe and fits what is still to be read (`Answered`). Each step goes from one
to another, which is what makes each handler's answer the only one. For the third,
`EventInv` adds that no two events in the queue have the same number (`Numbered`),
that nothing of a call outlives it (`Resting`), and, by what the call has yet to do
(`TakesInv`), that the event it has found is the first that matches. An event that comes later
has a larger number, so `DequeueNextEvent` finds the same one.

**Services_proof** begins with OpenTransport: `TransportTypeCorrect`, `SocketsStayApart`, `AsynchronousNeverWaits`. The
invariant adds two parts: `MutexOK`, the thread in the host is the one that has the mutex;
`ModesOK`, every socket has its endpoint's mode, also while
the endpoint is not in the map yet, which is why no asynchronous call waits. Whatever number a socket is put under,
it is nobody else's, and the one that was there joins `replaced` (`Puts`, `PutsApart`).

Then come `TypeCorrect`, from the invariants of UIChannel, OpenTransport and Loader, and `ContainersLinked`. What a container stands for is stated without a machine: its program written
out, with sums over all of it. `LoaderInv` relates the two. `Progress` says of a container under way that
what is left of its program stands for what comes after the first `j` instructions written out (`Remains`),
that the machine's registers are what these `j` leave, and that the section is the unpacked one with the sums over
these `j` (`Relocated`); before that, section and pattern together are what the pattern writes. A
repetition changes neither side, any other instruction makes `j` one more (`RepeatKeeps`,
`ApplyKeeps`), and a header starts a new machine. The invariant is about the program as the code decodes it; the property follows where that is
what is meant. `Nested`, `Awaited` and `Unloaded` relate the containers that wait for each other: the one within is the
next import of the one around it, which has had those before. They are what
`UnderWay` needs, which has `Progress` only for the innermost container of each name: when containers import each
other the outer one's section is replaced, and the theorem holds because no such container is ever done
(`NotTwice`): its imports would all have to be loaded, and one of them is still being loaded. `Complete` says of what is
loaded that all its instructions have been applied. `FlattenSeq`, `SumFunction` and `Expansion` are recursive
functions; what they are is proved, as above, by induction over a set of numbers.

**Only model-checked**: all liveness (`StartReturns`, `UpdatesAreDelivered`, `SessionEnds`,
`InterruptStops`, `CallsReturn`) and the liveness half of `IsAtomicQueue`,
because liveness under fairness is beyond the prover.

## 5. What is not modelled

* Data races as such: the model takes an unprotected field, or the unprotected look up
  in `GetRealInstruction`, to give the value before or after a concurrent change. That an
  `unordered_map` may crash the process under a concurrent insertion is not in it.
* A queue destroyed under a `PutOne` that is about to return (hazard at
  `DebugThreadManager.cpp` 241).
* `H`, which sets a field that nothing reads; `_M` and `_m`, the allocator; the queries
  that only format what they read; packets, checksums and acks.
* In `Breakpoints`: native calls, guest stores into code, and the destruction of the
  whole set, which writes into memory that is freed next.
* Around `ThreadManager`: host locks other than `usedThreadsLock` (malloc's, the
  allocator's) that a suspended thread may hold; a reused port name; `threadMap` broken by
  concurrent changes; `MachOThreadHelp.cpp`, whose threads have markers but no entries.
* Floating point arithmetic, `mcrxr`, `mfspr`, `mtspr`, and reservations: `lwarx` and `stwcxd` are a
  plain load and store in the code, and never report success.
* Two guest threads in the toolbox at once; the death of either process; what windows and
  menus look like; how values are serialized.
* Symbols that are exported again; the resolvers of native and bundled libraries, of which `Loader` has that
  their symbols are native. Containers that import each other, which the code loads for ever, are in the proofs
  and not in TLC's worlds.
* The stream's acks and the buffer that two threads share while they are on.
* The allocator: `malloc` and a map of ranges without a lock; one thread at a time it
  is a map look-up.
* The toolbox libraries (`InterfaceLib.cpp`, `CarbonLib`, `StdCLib`, `MathLib`), which are most
  of the repository's lines: nearly all their functions throw `NotImplementedException`, and
  the rest convert arguments and call the host's function of the same name; `Prototypes.h`, `LowMem.cpp`
  and the symbol tables are declarations. `CarbonLib` and `CarbonLibHead` are copies of the
  InterfaceLib files that UIChannel models. `StdCLib.cpp` does not compile (`uint33_t`
  at 5102, `_iob[i].fptr` at 192 to 194) and keeps no state of its own but the host's.
* Resource and Gestalt managers, the disassembler, `VirtualMachine`, Mach-O parsing, the
  debugger's Cocoa interface: for the reasons in the table of section 1.

## 6. What is left

1. `ControlStream`: packets, acks and the shared buffer, composed with `DebugStub`'s reader.
2. Floating point instructions, as far as small formats say something of large ones.
3. `NativeAllocator`, once something in the code guards it.
