---------------------------- MODULE Breakpoints ----------------------------
(***************************************************************************)
(* BreakpointSet: breakpoints kept as trap words in guest memory, counted  *)
(* per location; and its three users, which run on different host threads: *)
(*   - the debugger's Z, z, m and M commands, on the stub's main thread;   *)
(*   - DebugLoop on each guest thread, which must execute the instruction  *)
(*     that a trap hides, and sets a breakpoint of its own to step over a  *)
(*     call;                                                               *)
(*   - the guest code itself, which fetches its instructions from memory.  *)
(*                                                                         *)
(* Memory is a handful of instruction words.  What an instruction does is  *)
(* left out: it may go on anywhere, end the program, or fault.  A local    *)
(* that DebugLoop sets again before it reads it is cleared meanwhile.      *)
(***************************************************************************)
EXTENDS Integers, FiniteSets, Functions

CONSTANTS Size,     \* locations are 1..Size
          Word,     \* the instruction words of guest programs
          Call,     \* those that are calls (OPCD 18 with LK set)
          Trap,     \* BreakpointTrap, 0x7FC00008
          Thread,   \* guest threads
          MaxCount, \* bound: how often the debugger sets the same breakpoint
          MaxWrites \* bound: the M commands the debugger sends

Location == 1..Size

ASSUME BreakpointAssumption ==
  /\ Size \in Nat \ {0}
  /\ Call \subseteq Word
  /\ Trap \notin Word
  /\ IsFiniteSet(Thread)
  /\ MaxCount \in Nat
  /\ MaxWrites \in Nat

Nowhere == 0          \* no location
End == Size + 1       \* the interpreter's end address

\* The next instruction's location; the first one stands for what follows the last one.
After(l) == IF l = Size THEN 1 ELSE l + 1

VARIABLES
  memory,       \* the word at each location
  breakpoints,  \* BreakpointSet::breakpoints: location -> saved word and count
  parked,       \* BreakpointContext::breakpoints: the map, while it is swapped out
  inhibit,      \* where ReadMemory is with its BreakpointContext, which holds mapMutex
  pending,      \* locations the BreakpointContext has still to rewrite
  requested,    \* per location, the debugger's Z commands not yet matched by a z
  program,      \* per location, the word the loader or the debugger last wrote there
  writes,       \* the M commands there have been
  clobbered,    \* locations that an M command wrote while a trap was there
  mode,         \* per thread: where DebugLoop is
  command,      \* per thread: the RunCommand it carries out
  pc,           \* per thread: ThreadContext::pc, or the address the interpreter is at
  location,     \* per thread: DebugLoop's local, where ExecuteOne starts
  word,         \* per thread: initialInstruction, or the word just fetched
  stopAt,       \* per thread: the location of the Breakpoint stopAtNext, or Nowhere
  stopWord      \* per thread: stopAtNext.GetInstruction()

setVars    == <<memory, breakpoints>>
readVars   == <<parked, inhibit, pending>>
hostVars   == <<requested, program, writes, clobbered>>
threadVars == <<mode, command, pc, location, word, stopAt, stopWord>>
vars == <<setVars, readVars, hostVars, threadVars>>

AnyWord == Word \cup {Trap}
Entry   == [word: AnyWord, count: Nat \ {0}]
IsTable(b) == DOMAIN b \subseteq Location /\ b \in [DOMAIN b -> Entry]
Mode    == {"stopped", "find", "load", "peek", "fetch", "create", "set", "exec", "running",
            "clear", "ended"}
NoBreakpoints == [l \in {} |-> 0]

TypeOK ==
  /\ memory \in [Location -> AnyWord]
  /\ IsTable(breakpoints)
  /\ IsTable(parked)
  /\ inhibit \in {"idle", "restore", "read", "rearm"}
  /\ pending \in SUBSET Location
  /\ requested \in [Location -> Nat]
  /\ program \in [Location -> Word]
  /\ writes \in Nat
  /\ clobbered \in SUBSET Location
  /\ mode \in [Thread -> Mode]
  /\ command \in [Thread -> {"None", "SingleStep", "StepOver", "Continue"}]
  /\ pc \in [Thread -> Location \cup {End}]
  /\ location \in [Thread -> Location \cup {End}]
  /\ word \in [Thread -> AnyWord]
  /\ stopAt \in [Thread -> Location \cup {Nowhere}]
  /\ stopWord \in [Thread -> AnyWord]

Init ==
  /\ program \in [Location -> Word]
  /\ memory = program
  /\ breakpoints = NoBreakpoints
  /\ parked = NoBreakpoints
  /\ inhibit = "idle"
  /\ pending = {}
  /\ requested = [l \in Location |-> 0]
  /\ writes = 0
  /\ clobbered = {}
  /\ mode = [t \in Thread |-> "stopped"]
  /\ command = [t \in Thread |-> "None"]
  /\ pc \in [Thread -> Location]
  /\ location = pc
  /\ word = [t \in Thread |-> Trap]
  /\ stopAt = [t \in Thread |-> Nowhere]
  /\ stopWord = [t \in Thread |-> Trap]

-----------------------------------------------------------------------------
(* BreakpointSet.  mapMutex is held for one step, or by a BreakpointContext. *)

MapFree == inhibit = "idle"
Set == DOMAIN breakpoints

\* Mutant: a location that is set already is not counted again.
SetBreakpointOnce(l) ==
  /\ MapFree
  /\ IF l \in Set
     THEN UNCHANGED setVars
     ELSE /\ breakpoints' = [x \in Set \cup {l} |->
                               IF x = l THEN [word |-> memory[l], count |-> 1]
                                        ELSE breakpoints[x]]
          /\ memory' = [memory EXCEPT ![l] = Trap]

\* Mutant: the word is saved each time.
SetBreakpointResaving(l) ==
  /\ MapFree
  /\ breakpoints' = [x \in Set \cup {l} |->
                       IF x # l THEN breakpoints[x]
                       ELSE [word  |-> memory[l],
                             count |-> 1 + (IF l \in Set THEN breakpoints[l].count ELSE 0)]]
  /\ memory' = [memory EXCEPT ![l] = Trap]

\* Mutant: mapMutex is not taken.
SetBreakpointUnlocked(l) ==
  IF l \in Set
  THEN /\ breakpoints' = [breakpoints EXCEPT ![l].count = @ + 1]
       /\ UNCHANGED memory
  ELSE /\ breakpoints' = [x \in Set \cup {l} |->
                            IF x = l THEN [word |-> memory[l], count |-> 1]
                                     ELSE breakpoints[x]]
       /\ memory' = [memory EXCEPT ![l] = Trap]

SetBreakpoint(l) ==
  /\ MapFree
  /\ IF l \in Set
     THEN /\ breakpoints' = [breakpoints EXCEPT ![l].count = @ + 1]
          /\ UNCHANGED memory
     ELSE /\ breakpoints' = [x \in Set \cup {l} |->
                               IF x = l THEN [word |-> memory[l], count |-> 1]
                                        ELSE breakpoints[x]]
          /\ memory' = [memory EXCEPT ![l] = Trap]

\* Mutant: the last use is forgotten one removal too late.
RemoveBreakpointLate(l) ==
  /\ MapFree
  /\ \/ /\ l \notin Set
        /\ UNCHANGED setVars
     \/ /\ l \in Set
        /\ breakpoints[l].count > 0
        /\ breakpoints' = [breakpoints EXCEPT ![l].count = @ - 1]
        /\ UNCHANGED memory
     \/ /\ l \in Set
        /\ breakpoints[l].count = 0
        /\ memory' = [memory EXCEPT ![l] = breakpoints[l].word]
        /\ breakpoints' = Restrict(breakpoints, Set \ {l})

RemoveBreakpoint(l) ==
  /\ MapFree
  /\ \/ /\ l \notin Set
        /\ UNCHANGED setVars
     \/ /\ l \in Set
        /\ breakpoints[l].count > 1
        /\ breakpoints' = [breakpoints EXCEPT ![l].count = @ - 1]
        /\ UNCHANGED memory
     \/ /\ l \in Set
        /\ breakpoints[l].count = 1
        /\ memory' = [memory EXCEPT ![l] = breakpoints[l].word]
        /\ breakpoints' = Restrict(breakpoints, Set \ {l})

-----------------------------------------------------------------------------
(* The debugger's commands.                                                 *)

DebuggerSets(l) ==
  /\ requested[l] < MaxCount
  /\ SetBreakpoint(l)
  /\ requested' = [requested EXCEPT ![l] = @ + 1]
  /\ UNCHANGED <<readVars, program, writes, clobbered, threadVars>>

\* A debugger removes only what it has set.
DebuggerRemoves(l) ==
  /\ requested[l] > 0
  /\ RemoveBreakpoint(l)
  /\ requested' = [requested EXCEPT ![l] = @ - 1]
  /\ UNCHANGED <<readVars, program, writes, clobbered, threadVars>>

\* WriteMemory writes what the debugger sent, whether or not a trap is there.  It runs on
\* the thread that runs ReadMemory, hence never within it.
WriteMemory(l, w) ==
  /\ MapFree
  /\ writes < MaxWrites
  /\ writes' = writes + 1
  /\ memory' = [memory EXCEPT ![l] = w]
  /\ program' = [program EXCEPT ![l] = w]
  /\ clobbered' = IF l \in Set THEN clobbered \cup {l} ELSE clobbered \ {l}
  /\ UNCHANGED <<breakpoints, readVars, requested, threadVars>>

\* ReadMemory: InhibitBreakpoints takes the lock and swaps the map out, ...
Inhibit ==
  /\ MapFree
  /\ inhibit' = "restore"
  /\ pending' = Set
  /\ parked' = breakpoints
  /\ breakpoints' = NoBreakpoints
  /\ UNCHANGED <<memory, hostVars, threadVars>>

\* ... then restores the saved words one by one; ...
RestoreWord(l) ==
  /\ inhibit = "restore"
  /\ l \in pending
  /\ memory' = [memory EXCEPT ![l] = parked[l].word]
  /\ pending' = pending \ {l}
  /\ UNCHANGED <<breakpoints, parked, inhibit, hostVars, threadVars>>

ReadMemory ==
  /\ inhibit = "restore"
  /\ pending = {}
  /\ inhibit' = "read"
  /\ UNCHANGED <<setVars, parked, pending, hostVars, threadVars>>

\* Mutant: the destructor goes over source, which the swap has left empty.
DisinhibitSource ==
  /\ inhibit = "read"
  /\ inhibit' = "rearm"
  /\ pending' = DOMAIN breakpoints
  /\ UNCHANGED <<setVars, parked, hostVars, threadVars>>

\* ... ~BreakpointContext writes the traps back, one by one, ...
Disinhibit ==
  /\ inhibit = "read"
  /\ inhibit' = "rearm"
  /\ pending' = DOMAIN parked
  /\ UNCHANGED <<setVars, parked, hostVars, threadVars>>

RearmTrap(l) ==
  /\ inhibit = "rearm"
  /\ l \in pending
  /\ memory' = [memory EXCEPT ![l] = Trap]
  /\ pending' = pending \ {l}
  /\ UNCHANGED <<breakpoints, parked, inhibit, hostVars, threadVars>>

\* ... swaps the map back and releases the lock.
Release ==
  /\ inhibit = "rearm"
  /\ pending = {}
  /\ inhibit' = "idle"
  /\ breakpoints' = parked
  /\ parked' = NoBreakpoints
  /\ UNCHANGED <<memory, pending, hostVars, threadVars>>

-----------------------------------------------------------------------------
(* DebugLoop and the interpreter, on guest thread t.                        *)

Goto(t, from, to) ==
  /\ mode[t] = from
  /\ mode' = [mode EXCEPT ![t] = to]

OverCall(t) == stopAt[t] # Nowhere

\* The command is over, with pc at l: unwinding destroys stopAtNext, if there is one.
Leave(t, l) ==
  /\ mode' = [mode EXCEPT ![t] = IF OverCall(t) THEN "clear"
                                  ELSE IF l = End THEN "ended" ELSE "stopped"]
  /\ command' = [command EXCEPT ![t] = "None"]
  /\ location' = [location EXCEPT ![t] = l]

\* The thread takes a command; location is computed from pc.
Resume(t) ==
  /\ \E cmd \in {"SingleStep", "StepOver", "Continue"} :
       /\ command' = [command EXCEPT ![t] = cmd]
       /\ Goto(t, "stopped", IF cmd = "StepOver" THEN "peek" ELSE "find")
  /\ location' = [location EXCEPT ![t] = pc[t]]
  /\ UNCHANGED <<setVars, readVars, hostVars, pc, word, stopAt, stopWord>>

\* The Kill command moves pc to the end address, and runs nothing.
KillThread(t) ==
  /\ mode[t] = "stopped"
  /\ pc' = [pc EXCEPT ![t] = End]
  /\ Leave(t, End)
  /\ UNCHANGED <<setVars, readVars, hostVars, word, stopAt, stopWord>>

\* GetRealInstruction reads the map without mapMutex, ...
FindInstruction(t) ==
  /\ Goto(t, "find", IF location[t] \in Set THEN "exec" ELSE "load")
  /\ word' = IF location[t] \in Set
             THEN [word EXCEPT ![t] = breakpoints[location[t]].word] ELSE word
  /\ UNCHANGED <<setVars, readVars, hostVars, command, pc, location, stopAt, stopWord>>

\* ... and memory if it found nothing there.
LoadInstruction(t) ==
  /\ Goto(t, "load", "exec")
  /\ word' = [word EXCEPT ![t] = memory[location[t]]]
  /\ UNCHANGED <<setVars, readVars, hostVars, command, pc, location, stopAt, stopWord>>

\* StepOver looks at the word in memory to tell a call from anything else.
PeekInstruction(t) ==
  /\ mode[t] = "peek"
  /\ mode' = [mode EXCEPT ![t] = IF memory[location[t]] \in Call THEN "create" ELSE "fetch"]
  /\ UNCHANGED <<setVars, readVars, hostVars, command, pc, location, word, stopAt, stopWord>>

\* ExecuteOne(location), which reads the instruction from memory.
FetchInstruction(t) ==
  /\ Goto(t, "fetch", "exec")
  /\ word' = [word EXCEPT ![t] = memory[location[t]]]
  /\ UNCHANGED <<setVars, readVars, hostVars, command, pc, location, stopAt, stopWord>>

\* CreateBreakpoint(&location[1]): Breakpoint's constructor reads the word there ...
CreateBreakpoint(t) ==
  /\ Goto(t, "create", "set")
  /\ stopWord' = [stopWord EXCEPT ![t] = memory[After(location[t])]]
  /\ UNCHANGED <<setVars, readVars, hostVars, command, pc, location, word, stopAt>>

\* ... and then sets the breakpoint.
SetStop(t) ==
  /\ Goto(t, "set", "find")
  /\ SetBreakpoint(After(location[t]))
  /\ stopAt' = [stopAt EXCEPT ![t] = After(location[t])]
  /\ UNCHANGED <<readVars, hostVars, command, pc, location, word, stopWord>>

\* The word that ExecuteOne is given.
FirstWord(t) == IF OverCall(t) THEN stopWord[t] ELSE word[t]

\* An InterpreterException: pc is where it was raised.  It ends the command; or it is a
\* trap at the stop of a step over, in a deeper frame, and the loop starts over.
Stop(t, l, trapped) ==
  /\ pc' = [pc EXCEPT ![t] = l]
  /\ \/ Leave(t, l)
     \/ /\ trapped /\ l = stopAt[t]
        /\ mode' = [mode EXCEPT ![t] = "find"]
        /\ UNCHANGED <<command, location>>

\* ExecuteOne: the first instruction faults, goes on somewhere, or ends the program.
ExecuteOne(t) ==
  /\ mode[t] = "exec"
  /\ \/ Stop(t, location[t], FirstWord(t) = Trap)
     \/ /\ FirstWord(t) # Trap
        /\ \E next \in Location \cup {End} :
             /\ pc' = [pc EXCEPT ![t] = next]
             /\ IF command[t] = "Continue" \/ OverCall(t)
                THEN /\ mode' = [mode EXCEPT ![t] = "running"]
                     /\ location' = [location EXCEPT ![t] = next]
                     /\ UNCHANGED command
                ELSE Leave(t, next)
  /\ word' = [word EXCEPT ![t] = Trap]
  /\ UNCHANGED <<setVars, readVars, hostVars, stopAt, stopWord>>

\* Execute: fetch from memory; a word that is not a trap goes on somewhere.
Run(t) ==
  /\ mode[t] = "running"
  /\ pc[t] \in Location
  /\ memory[pc[t]] # Trap
  /\ \E next \in Location \cup {End} : pc' = [pc EXCEPT ![t] = next]
  /\ UNCHANGED <<setVars, readVars, hostVars, mode, command, location, word, stopAt,
                 stopWord>>

\* A trap or another fault.  location still is where Execute began.
RunStops(t) ==
  /\ mode[t] = "running"
  /\ pc[t] \in Location
  /\ Stop(t, pc[t], memory[pc[t]] = Trap)
  /\ UNCHANGED <<setVars, readVars, hostVars, word, stopAt, stopWord>>

RunEnds(t) ==
  /\ mode[t] = "running"
  /\ pc[t] = End
  /\ Leave(t, End)
  /\ UNCHANGED <<setVars, readVars, hostVars, pc, word, stopAt, stopWord>>

\* ~Breakpoint.
ClearStop(t) ==
  /\ Goto(t, "clear", IF pc[t] = End THEN "ended" ELSE "stopped")
  /\ RemoveBreakpoint(stopAt[t])
  /\ stopAt' = [stopAt EXCEPT ![t] = Nowhere]
  /\ stopWord' = [stopWord EXCEPT ![t] = Trap]
  /\ UNCHANGED <<readVars, hostVars, command, pc, location, word>>

-----------------------------------------------------------------------------
DebuggerStep ==
  \/ \E l \in Location : DebuggerSets(l)
  \/ \E l \in Location : DebuggerRemoves(l)
  \/ \E l \in Location, w \in Word : WriteMemory(l, w)
  \/ Inhibit
  \/ \E l \in Location : RestoreWord(l)
  \/ ReadMemory
  \/ Disinhibit
  \/ \E l \in Location : RearmTrap(l)
  \/ Release

ThreadStep(t) ==
  \/ Resume(t)
  \/ KillThread(t)
  \/ FindInstruction(t)
  \/ LoadInstruction(t)
  \/ PeekInstruction(t)
  \/ FetchInstruction(t)
  \/ CreateBreakpoint(t)
  \/ SetStop(t)
  \/ ExecuteOne(t)
  \/ Run(t)
  \/ RunStops(t)
  \/ RunEnds(t)
  \/ ClearStop(t)

Next == DebuggerStep \/ \E t \in Thread : ThreadStep(t)

Spec == Init /\ [][Next]_vars

-----------------------------------------------------------------------------
(* Safety.                                                                  *)

\* The breakpoints there are, whether the map is in place or swapped out.
Known == Set \cup DOMAIN parked
EntryAt(l) == IF l \in Set THEN breakpoints[l] ELSE parked[l]
CountAt(l) == IF l \in Known THEN EntryAt(l).count ELSE 0
SteppingTo(l) == {t \in Thread : stopAt[t] = l}

\* A breakpoint is counted once for each request of the debugger that is still open and
\* once for each thread that is stepping over the call before it: a step over neither
\* removes the user's breakpoint nor leaves its own behind, however the two interleave.
CountsMatchUsers ==
  \A l \in Location : CountAt(l) = requested[l] + Cardinality(SteppingTo(l))

\* A trap is in memory only where there is a breakpoint, and no trap is missing where
\* there is one, except while ReadMemory has the breakpoints inhibited, or where a
\* WriteMemory has overwritten it.
TrapsMatchBreakpoints ==
  /\ \A l \in Location : memory[l] = Trap => l \in Known
  /\ MapFree => \A l \in Set \ clobbered : memory[l] = Trap

\* The word the program has at a location is never lost: it is the saved word where there
\* is a breakpoint and the one in memory elsewhere, unless WriteMemory hit a trap.
ProgramIsRecoverable ==
  \A l \in Location \ clobbered :
    program[l] = IF l \in Known THEN EntryAt(l).word ELSE memory[l]

\* What ReadMemory shows the debugger is the program, never a trap, although guest
\* threads set and clear breakpoints of their own meanwhile.
DebuggerReadsProgram ==
  inhibit = "read" =>
    /\ \A l \in Location : memory[l] # Trap
    /\ \A l \in Location \ clobbered : memory[l] = program[l]

-----------------------------------------------------------------------------
(* What the code's comments say, and its runs refute.                       *)

\* Step over is the same as single step, unless it steps over a call, and then executes
\* until it reaches the next instruction.  Either way what ExecuteOne is given first is
\* the program's instruction at location: not a trap that hides it, nor the word at
\* the stop.  (A location that WriteMemory changed meanwhile may give its earlier word.)
StepOverExecutesInstruction ==
  \A t \in Thread :
    mode[t] = "exec" /\ command[t] = "StepOver" /\ writes = 0
      => FirstWord(t) = program[location[t]]
=============================================================================
