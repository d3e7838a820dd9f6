------------------------- MODULE Breakpoints_proof -------------------------
(***************************************************************************)
(* The safety of BreakpointSet and of its users, for any memory, any set   *)
(* of guest threads and any debugger.                                      *)
(*                                                                         *)
(* The argument: whoever changes the map holds mapMutex, and while         *)
(* ReadMemory holds it the map it left behind is empty.  So the word that  *)
(* a new breakpoint saves is never a trap, and each location is, at each   *)
(* stage of ReadMemory, either as the program has it or trapped.           *)
(***************************************************************************)
EXTENDS Breakpoints, FiniteSetTheorems, TLAPS

Parked == DOMAIN parked

\* The map is in one place only.
LockInv ==
  /\ MapFree => Parked = {} /\ pending = {}
  /\ ~MapFree => Set = {}
  /\ pending \subseteq Parked
  /\ inhibit = "read" => pending = {}

\* No trap is ever saved as if it were an instruction.
WordInv ==
  /\ \A l \in Set : breakpoints[l].word \in Word
  /\ \A l \in Parked : parked[l].word \in Word

\* Where memory holds traps and where it holds the saved words.
MemoryInv ==
  \A l \in Location :
    /\ MapFree => /\ memory[l] = Trap => l \in Set
                  /\ l \in Set \ clobbered => memory[l] = Trap
    /\ inhibit = "restore" => /\ memory[l] = Trap => l \in pending
                              /\ l \in Parked \ pending => memory[l] = parked[l].word
    /\ inhibit = "read" => /\ memory[l] # Trap
                           /\ l \in Parked => memory[l] = parked[l].word
    /\ inhibit = "rearm" => /\ memory[l] = Trap => l \in Parked
                            /\ l \in Parked \ pending => memory[l] = Trap

\* Where DebugLoop is says what its pc, its location and its Breakpoint are.
LoopInv ==
  \A t \in Thread :
    /\ mode[t] = "stopped" => pc[t] \in Location
    /\ mode[t] \in {"find", "load", "peek", "fetch", "create", "set", "exec"} =>
         location[t] \in Location
    /\ mode[t] = "running" /\ location[t] = End => pc[t] = End
    /\ mode[t] \in {"stopped", "peek", "fetch", "create", "set", "ended"} => stopAt[t] = Nowhere
    /\ mode[t] = "clear" => stopAt[t] \in Location

SetInv == LockInv /\ WordInv /\ MemoryInv /\ ProgramIsRecoverable

IInv == TypeOK /\ SetInv /\ LoopInv /\ CountsMatchUsers

-----------------------------------------------------------------------------
(* The two operations of the set.                                           *)

\* Setting a breakpoint counts one use more at its location, and at no other.
LEMMA SetEffect ==
  ASSUME TypeOK, SetInv, NEW l \in Location, SetBreakpoint(l),
         UNCHANGED <<readVars, program, clobbered>>
  PROVE  /\ memory' \in [Location -> AnyWord]
         /\ IsTable(breakpoints')
         /\ SetInv'
         /\ \A x \in Location : CountAt(x)' = IF x = l THEN CountAt(x) + 1 ELSE CountAt(x)
<1> USE DEF SetInv, readVars
<1>1. /\ memory \in [Location -> AnyWord]
      /\ program \in [Location -> Word]
      /\ Set \subseteq Location
      /\ breakpoints \in [Set -> Entry]
      /\ \A x \in Set : breakpoints[x].count \in Nat \ {0}
  BY DEF TypeOK, IsTable, Set, Entry
<1>2. MapFree /\ inhibit = "idle" /\ Parked = {} /\ pending = {}
  BY DEF SetBreakpoint, MapFree, LockInv
<1>3. Set' = Set \cup {l}
  BY <1>1 DEF SetBreakpoint, Set
<1>4. \A x \in Set \ {l} : breakpoints'[x] = breakpoints[x]
  BY <1>1 DEF SetBreakpoint, Set
<1>5. memory' = [memory EXCEPT ![l] = IF l \in Set THEN memory[l] ELSE Trap]
  BY <1>1 DEF SetBreakpoint
<1>6. breakpoints'[l] = IF l \in Set
                        THEN [word |-> breakpoints[l].word, count |-> breakpoints[l].count + 1]
                        ELSE [word |-> memory[l], count |-> 1]
  BY <1>1 DEF SetBreakpoint, Set, Entry
<1>7. l \notin Set => memory[l] \in Word
  BY <1>1, <1>2 DEF MemoryInv, AnyWord
<1>8. memory' \in [Location -> AnyWord]
  BY <1>1, <1>5 DEF AnyWord
<1>9. IsTable(breakpoints')
  <2>1. breakpoints' = [x \in Set' |-> breakpoints'[x]]
    BY <1>1, <1>3 DEF SetBreakpoint, Set
  <2>2. \A x \in Set' : breakpoints'[x] \in Entry
    BY <1>1, <1>3, <1>4, <1>6, <1>7 DEF Entry, AnyWord
  <2> QED
    BY <1>1, <1>3, <2>1, <2>2 DEF IsTable, Set
<1>10. LockInv'
  BY <1>2 DEF LockInv, MapFree, Parked
<1>11. WordInv'
  BY <1>2, <1>3, <1>4, <1>6, <1>7 DEF WordInv, Parked
<1>12. MemoryInv'
  BY <1>1, <1>2, <1>3, <1>5 DEF MemoryInv, MapFree
<1>13. ProgramIsRecoverable'
  BY <1>1, <1>2, <1>3, <1>4, <1>5, <1>6 DEF ProgramIsRecoverable, Known, EntryAt, Parked
<1>14. \A x \in Location : CountAt(x)' = IF x = l THEN CountAt(x) + 1 ELSE CountAt(x)
  BY <1>1, <1>2, <1>3, <1>4, <1>6 DEF CountAt, Known, EntryAt, Parked
<1> QED
  BY <1>8, <1>9, <1>10, <1>11, <1>12, <1>13, <1>14

\* Removing one that is counted counts one use less.
LEMMA RemoveEffect ==
  ASSUME TypeOK, SetInv, NEW l \in Location, RemoveBreakpoint(l), CountAt(l) > 0,
         UNCHANGED <<readVars, program, clobbered>>
  PROVE  /\ memory' \in [Location -> AnyWord]
         /\ IsTable(breakpoints')
         /\ SetInv'
         /\ \A x \in Location : CountAt(x)' = IF x = l THEN CountAt(x) - 1 ELSE CountAt(x)
<1> USE DEF SetInv, readVars
<1>1. /\ memory \in [Location -> AnyWord]
      /\ program \in [Location -> Word]
      /\ Set \subseteq Location
      /\ breakpoints \in [Set -> Entry]
      /\ \A x \in Set : breakpoints[x].count \in Nat \ {0}
  BY DEF TypeOK, IsTable, Set, Entry
<1>2. MapFree /\ inhibit = "idle" /\ Parked = {} /\ pending = {}
  BY DEF RemoveBreakpoint, MapFree, LockInv
<1>3. l \in Set
  BY <1>2 DEF CountAt, Known, Parked
<1>4. CASE breakpoints[l].count > 1
  <2>1. /\ breakpoints' = [breakpoints EXCEPT ![l].count = @ - 1]
        /\ memory' = memory
        /\ Set' = Set
    BY <1>1, <1>3, <1>4 DEF RemoveBreakpoint, Set
  <2>2. IsTable(breakpoints')
    BY <1>1, <1>3, <1>4, <2>1 DEF IsTable, Set, Entry
  <2>3. /\ \A x \in Set : breakpoints'[x].word = breakpoints[x].word
        /\ \A x \in Set \ {l} : breakpoints'[x] = breakpoints[x]
        /\ breakpoints'[l].count = breakpoints[l].count - 1
    BY <1>1, <1>3, <2>1 DEF Entry
  <2>4. LockInv' /\ WordInv' /\ MemoryInv' /\ ProgramIsRecoverable'
    BY <1>2, <2>1, <2>3 DEF LockInv, WordInv, MemoryInv, ProgramIsRecoverable, Known, EntryAt,
                            MapFree, Parked
  <2>5. \A x \in Location : CountAt(x)' = IF x = l THEN CountAt(x) - 1 ELSE CountAt(x)
    BY <1>1, <1>2, <1>3, <2>1, <2>3 DEF CountAt, Known, EntryAt, Parked
  <2> QED
    BY <1>1, <2>1, <2>2, <2>4, <2>5
<1>5. CASE breakpoints[l].count = 1
  <2>1. /\ breakpoints' = [x \in Set \ {l} |-> breakpoints[x]]
        /\ memory' = [memory EXCEPT ![l] = breakpoints[l].word]
    BY <1>1, <1>3, <1>5 DEF RemoveBreakpoint, Restrict
  <2>2. Set' = Set \ {l} /\ \A x \in Set' : breakpoints'[x] = breakpoints[x]
    BY <2>1 DEF Set
  <2>3. IsTable(breakpoints')
    BY <1>1, <2>1, <2>2 DEF IsTable, Set
  <2>4. breakpoints[l].word \in Word
    BY <1>3 DEF WordInv
  <2>5. memory' \in [Location -> AnyWord]
    BY <1>1, <2>1, <2>4 DEF AnyWord
  <2>6. MemoryInv'
    BY <1>1, <1>2, <2>1, <2>2, <2>4, BreakpointAssumption
       DEF MemoryInv, MapFree, BreakpointAssumption
  <2>7. LockInv' /\ WordInv'
    BY <1>2, <2>2 DEF LockInv, WordInv, MapFree, Parked
  <2>8. ProgramIsRecoverable'
    BY <1>1, <1>2, <1>3, <2>1, <2>2 DEF ProgramIsRecoverable, Known, EntryAt, Parked
  <2>9. \A x \in Location : CountAt(x)' = IF x = l THEN CountAt(x) - 1 ELSE CountAt(x)
    BY <1>1, <1>2, <1>3, <1>5, <2>2 DEF CountAt, Known, EntryAt, Parked
  <2> QED
    BY <2>3, <2>5, <2>6, <2>7, <2>8, <2>9
<1> QED
  BY <1>1, <1>3, <1>4, <1>5

-----------------------------------------------------------------------------
(* The initial states, and the steps.                                       *)

LEMMA Initially == Init => IInv
<1> SUFFICES ASSUME Init PROVE IInv
  OBVIOUS
<1> USE BreakpointAssumption DEF Init, BreakpointAssumption, NoBreakpoints
<1>1. Set = {} /\ Parked = {}
  BY DEF Set, Parked
<1>2. TypeOK
  BY DEF TypeOK, IsTable, Mode, AnyWord, Location, End, Nowhere
<1>3. SetInv
  BY <1>1 DEF SetInv, LockInv, WordInv, MemoryInv, ProgramIsRecoverable, MapFree, Known, Parked,
              AnyWord
<1>4. LoopInv
  BY DEF LoopInv
<1>5. CountsMatchUsers
  <2> SUFFICES ASSUME NEW l \in Location
               PROVE  CountAt(l) = requested[l] + Cardinality(SteppingTo(l))
    BY DEF CountsMatchUsers
  <2>1. SteppingTo(l) = {}
    BY DEF SteppingTo, Location, Nowhere
  <2> QED
    BY <1>1, <2>1, FS_EmptySet DEF CountAt, Known, Parked
<1> QED
  BY <1>2, <1>3, <1>4, <1>5 DEF IInv

\* How many threads step over a call to each location is a number.
LEMMA SteppingIsCounted ==
  \A l : IsFiniteSet(SteppingTo(l)) /\ Cardinality(SteppingTo(l)) \in Nat
BY BreakpointAssumption, FS_Subset, FS_CardinalityType DEF SteppingTo, BreakpointAssumption

\* A step that touches neither the map nor its users keeps what holds of them.
LEMMA SetUntouched ==
  ASSUME SetInv, CountsMatchUsers, UNCHANGED <<setVars, readVars, hostVars, stopAt>>
  PROVE  SetInv' /\ CountsMatchUsers'
BY DEF SetInv, LockInv, WordInv, MemoryInv, ProgramIsRecoverable, CountsMatchUsers, CountAt,
       EntryAt, Known, Set, Parked, MapFree, SteppingTo, setVars, readVars, hostVars

LEMMA DebuggerSetsKeeps ==
  ASSUME IInv, NEW l \in Location, DebuggerSets(l) PROVE IInv'
<1> USE DEF IInv
<1>1. /\ memory' \in [Location -> AnyWord]
      /\ IsTable(breakpoints')
      /\ SetInv'
      /\ \A x \in Location : CountAt(x)' = IF x = l THEN CountAt(x) + 1 ELSE CountAt(x)
  BY SetEffect DEF DebuggerSets
<1>2. TypeOK'
  <2>1. requested' \in [Location -> Nat]
    BY DEF TypeOK, DebuggerSets
  <2>2. UNCHANGED <<readVars, program, writes, clobbered, threadVars>>
    BY DEF DebuggerSets
  <2> QED
    BY <1>1, <2>1, <2>2 DEF TypeOK, readVars, threadVars
<1>3. LoopInv'
  BY DEF LoopInv, DebuggerSets, threadVars
<1>4. CountsMatchUsers'
  <2> SUFFICES ASSUME NEW x \in Location
               PROVE  CountAt(x)' = requested'[x] + Cardinality(SteppingTo(x)')
    BY DEF CountsMatchUsers
  <2>1. SteppingTo(x)' = SteppingTo(x)
    BY DEF SteppingTo, DebuggerSets, threadVars
  <2>2. requested'[x] = IF x = l THEN requested[x] + 1 ELSE requested[x]
    BY DEF DebuggerSets, TypeOK
  <2>3. requested[x] \in Nat /\ Cardinality(SteppingTo(x)) \in Nat
    BY SteppingIsCounted DEF TypeOK
  <2> QED
    BY <1>1, <2>1, <2>2, <2>3 DEF CountsMatchUsers
<1> QED
  BY <1>1, <1>2, <1>3, <1>4

LEMMA DebuggerRemovesKeeps ==
  ASSUME IInv, NEW l \in Location, DebuggerRemoves(l) PROVE IInv'
<1> USE DEF IInv
<1>1. \A x \in Location : requested[x] \in Nat /\ Cardinality(SteppingTo(x)) \in Nat
  BY SteppingIsCounted DEF TypeOK
<1>2. CountAt(l) > 0
  BY <1>1 DEF CountsMatchUsers, DebuggerRemoves
<1>3. /\ memory' \in [Location -> AnyWord]
      /\ IsTable(breakpoints')
      /\ SetInv'
      /\ \A x \in Location : CountAt(x)' = IF x = l THEN CountAt(x) - 1 ELSE CountAt(x)
  BY <1>2, RemoveEffect DEF DebuggerRemoves
<1>4. TypeOK'
  <2>1. requested' \in [Location -> Nat]
    BY DEF TypeOK, DebuggerRemoves
  <2>2. UNCHANGED <<readVars, program, writes, clobbered, threadVars>>
    BY DEF DebuggerRemoves
  <2> QED
    BY <1>3, <2>1, <2>2 DEF TypeOK, readVars, threadVars
<1>5. LoopInv'
  BY DEF LoopInv, DebuggerRemoves, threadVars
<1>6. CountsMatchUsers'
  <2> SUFFICES ASSUME NEW x \in Location
               PROVE  CountAt(x)' = requested'[x] + Cardinality(SteppingTo(x)')
    BY DEF CountsMatchUsers
  <2>1. SteppingTo(x)' = SteppingTo(x)
    BY DEF SteppingTo, DebuggerRemoves, threadVars
  <2>2. requested'[x] = IF x = l THEN requested[x] - 1 ELSE requested[x]
    BY DEF DebuggerRemoves, TypeOK
  <2> QED
    BY <1>1, <1>3, <2>1, <2>2 DEF CountsMatchUsers
<1> QED
  BY <1>3, <1>4, <1>5, <1>6

\* An M command.  Its location counts as clobbered if a trap was there.
LEMMA WriteMemoryKeeps ==
  ASSUME IInv, NEW l \in Location, NEW w \in Word, WriteMemory(l, w) PROVE IInv'
<1> USE BreakpointAssumption DEF IInv, BreakpointAssumption
<1>1. UNCHANGED <<breakpoints, readVars, requested, threadVars>>
  BY DEF WriteMemory
<1>2. /\ memory' = [memory EXCEPT ![l] = w]
      /\ program' = [program EXCEPT ![l] = w]
      /\ clobbered' = IF l \in Set THEN clobbered \cup {l} ELSE clobbered \ {l}
      /\ writes' = writes + 1
      /\ inhibit = "idle"
  BY DEF WriteMemory, MapFree
<1>3. /\ memory \in [Location -> AnyWord]
      /\ program \in [Location -> Word]
      /\ clobbered \subseteq Location
  BY DEF TypeOK
<1>4. TypeOK'
  <2>1. /\ memory' \in [Location -> AnyWord]
        /\ program' \in [Location -> Word]
        /\ clobbered' \in SUBSET Location
        /\ writes' \in Nat
    BY <1>2, <1>3 DEF AnyWord, TypeOK
  <2> QED
    BY <1>1, <2>1 DEF TypeOK, readVars, threadVars
<1>5. Set' = Set /\ Parked' = Parked
  BY <1>1 DEF Set, Parked, readVars
<1>6. LockInv' /\ WordInv'
  BY <1>1, <1>5 DEF SetInv, LockInv, WordInv, MapFree, readVars
<1>7. MemoryInv'
  BY <1>1, <1>2, <1>3, <1>5 DEF SetInv, MemoryInv, MapFree, readVars
<1>8. ProgramIsRecoverable'
  BY <1>1, <1>2, <1>3, <1>5 DEF SetInv, LockInv, ProgramIsRecoverable, MapFree, Known, EntryAt,
                                Parked, readVars
<1>9. LoopInv' /\ CountsMatchUsers'
  BY <1>1, <1>5 DEF LoopInv, CountsMatchUsers, CountAt, Known, EntryAt, SteppingTo, Parked, Set,
                    readVars, threadVars
<1> QED
  BY <1>4, <1>6, <1>7, <1>8, <1>9 DEF SetInv

\* A step of ReadMemory moves the map or rewrites a word of memory.
LEMMA ReaderKeeps ==
  ASSUME IInv,
         \/ Inhibit \/ ReadMemory \/ Disinhibit \/ Release
         \/ \E l \in Location : RestoreWord(l) \/ RearmTrap(l)
  PROVE  IInv'
<1> USE BreakpointAssumption DEF IInv, BreakpointAssumption, NoBreakpoints
<1>1. /\ memory \in [Location -> AnyWord]
      /\ Set \subseteq Location
      /\ Parked \subseteq Location
  BY DEF TypeOK, IsTable, Set, Parked
<1>2. UNCHANGED <<hostVars, threadVars>>
  BY DEF Inhibit, ReadMemory, Disinhibit, Release, RestoreWord, RearmTrap
<1>3. LoopInv'
  BY <1>2 DEF LoopInv, threadVars
<1>4. SUFFICES /\ memory' \in [Location -> AnyWord]
               /\ IsTable(breakpoints') /\ IsTable(parked')
               /\ inhibit' \in {"idle", "restore", "read", "rearm"}
               /\ pending' \in SUBSET Location
               /\ SetInv'
               /\ \A x \in Location : CountAt(x)' = CountAt(x)
  <2>1. \A x \in Location : CountAt(x)' = CountAt(x)
    BY <1>4
  <2>2. CountsMatchUsers'
    BY <1>2, <2>1 DEF CountsMatchUsers, SteppingTo, hostVars, threadVars
  <2>3. TypeOK'
    BY <1>2, <1>4 DEF TypeOK, hostVars, threadVars
  <2> QED
    BY <1>3, <1>4, <2>2, <2>3
<1>5. CASE Inhibit
  <2>1. /\ inhibit = "idle" /\ inhibit' = "restore"
        /\ pending' = Set /\ parked' = breakpoints
        /\ Set' = {} /\ Parked' = Set /\ Parked = {}
        /\ memory' = memory
    BY <1>5 DEF Inhibit, MapFree, Set, Parked, SetInv, LockInv
  <2>2. IsTable(breakpoints') /\ IsTable(parked')
    BY <1>5 DEF Inhibit, TypeOK, IsTable
  <2>3. LockInv' /\ WordInv'
    BY <2>1 DEF SetInv, LockInv, WordInv, MapFree
  <2>4. MemoryInv'
    BY <2>1 DEF SetInv, MemoryInv, MapFree
  <2>5. ProgramIsRecoverable'
    BY <1>2, <2>1 DEF SetInv, ProgramIsRecoverable, Known, EntryAt, Parked, hostVars
  <2>6. \A x \in Location : CountAt(x)' = CountAt(x)
    BY <2>1 DEF CountAt, Known, EntryAt, Parked
  <2> QED
    BY <1>1, <2>1, <2>2, <2>3, <2>4, <2>5, <2>6 DEF SetInv
<1>6. CASE Release
  <2>1. /\ inhibit = "rearm" /\ inhibit' = "idle"
        /\ pending = {} /\ pending' = {}
        /\ breakpoints' = parked
        /\ Set' = Parked /\ Parked' = {} /\ Set = {}
        /\ memory' = memory
    BY <1>6 DEF Release, MapFree, Set, Parked, SetInv, LockInv
  <2>2. IsTable(breakpoints') /\ IsTable(parked')
    BY <1>6 DEF Release, TypeOK, IsTable
  <2>3. LockInv' /\ WordInv'
    BY <2>1 DEF SetInv, LockInv, WordInv, MapFree
  <2>4. MemoryInv'
    BY <2>1 DEF SetInv, MemoryInv, MapFree
  <2>5. ProgramIsRecoverable'
    BY <1>2, <2>1 DEF SetInv, ProgramIsRecoverable, Known, EntryAt, Parked, hostVars
  <2>6. \A x \in Location : CountAt(x)' = CountAt(x)
    BY <2>1 DEF CountAt, Known, EntryAt, Parked
  <2> QED
    BY <1>1, <2>1, <2>2, <2>3, <2>4, <2>5, <2>6 DEF SetInv
<1>7. ASSUME ~Inhibit, ~Release PROVE
      /\ UNCHANGED <<breakpoints, parked>> /\ Set' = Set /\ Parked' = Parked /\ Set = {}
      /\ IsTable(breakpoints') /\ IsTable(parked')
      /\ \A x \in Location : CountAt(x)' = CountAt(x)
  <2>1. UNCHANGED <<breakpoints, parked>> /\ ~MapFree
    BY <1>7 DEF ReadMemory, Disinhibit, RestoreWord, RearmTrap, setVars, MapFree
  <2>2. Set' = Set /\ Parked' = Parked /\ Set = {}
    BY <2>1 DEF Set, Parked, SetInv, LockInv
  <2>3. IsTable(breakpoints') /\ IsTable(parked')
    BY <2>1 DEF TypeOK, IsTable
  <2> QED
    BY <2>1, <2>2, <2>3 DEF CountAt, Known, EntryAt, Parked
<1>8. CASE ReadMemory
  <2>1. /\ inhibit = "restore" /\ inhibit' = "read" /\ pending = {}
        /\ UNCHANGED <<memory, pending>>
    BY <1>8 DEF ReadMemory, setVars
  <2>2. ~Inhibit /\ ~Release
    BY <2>1 DEF Inhibit, Release, MapFree
  <2>3. LockInv' /\ WordInv' /\ MemoryInv'
    BY <1>7, <2>1, <2>2 DEF SetInv, LockInv, WordInv, MemoryInv, MapFree
  <2>4. ProgramIsRecoverable'
    BY <1>2, <1>7, <2>1, <2>2 DEF SetInv, ProgramIsRecoverable, Known, EntryAt, Parked, hostVars
  <2> QED
    BY <1>1, <1>7, <2>1, <2>2, <2>3, <2>4 DEF SetInv
<1>9. CASE Disinhibit
  <2>1. /\ inhibit = "read" /\ inhibit' = "rearm" /\ pending' = Parked
        /\ UNCHANGED memory
    BY <1>9 DEF Disinhibit, setVars, Parked
  <2>2. ~Inhibit /\ ~Release
    BY <2>1 DEF Inhibit, Release, MapFree
  <2>3. LockInv' /\ WordInv' /\ MemoryInv'
    BY <1>7, <2>1, <2>2 DEF SetInv, LockInv, WordInv, MemoryInv, MapFree
  <2>4. ProgramIsRecoverable'
    BY <1>2, <1>7, <2>1, <2>2 DEF SetInv, ProgramIsRecoverable, Known, EntryAt, Parked, hostVars
  <2> QED
    BY <1>1, <1>7, <2>1, <2>2, <2>3, <2>4 DEF SetInv
<1>10. ASSUME NEW l \in Location, RestoreWord(l) PROVE
       memory' \in [Location -> AnyWord] /\ SetInv' /\ ~Inhibit /\ ~Release
  <2>1. /\ inhibit = "restore" /\ inhibit' = "restore"
        /\ l \in pending /\ pending' = pending \ {l}
        /\ memory' = [memory EXCEPT ![l] = parked[l].word]
    BY <1>10 DEF RestoreWord
  <2>2. ~Inhibit /\ ~Release
    BY <2>1 DEF Inhibit, Release, MapFree
  <2>3. l \in Parked /\ parked[l].word \in Word
    BY <2>1 DEF SetInv, LockInv, WordInv
  <2>4. LockInv' /\ WordInv'
    BY <1>7, <2>1, <2>2 DEF SetInv, LockInv, WordInv, MapFree
  <2>5. MemoryInv'
    BY <1>1, <1>7, <2>1, <2>2, <2>3 DEF SetInv, MemoryInv, MapFree
  <2>6. ProgramIsRecoverable'
    BY <1>1, <1>2, <1>7, <2>1, <2>2, <2>3 DEF SetInv, ProgramIsRecoverable, Known, EntryAt,
                                             Parked, hostVars
  <2> QED
    BY <1>1, <2>1, <2>2, <2>3, <2>4, <2>5, <2>6 DEF SetInv, AnyWord
<1>11. ASSUME NEW l \in Location, RearmTrap(l) PROVE
       memory' \in [Location -> AnyWord] /\ SetInv' /\ ~Inhibit /\ ~Release
  <2>1. /\ inhibit = "rearm" /\ inhibit' = "rearm"
        /\ l \in pending /\ pending' = pending \ {l}
        /\ memory' = [memory EXCEPT ![l] = Trap]
    BY <1>11 DEF RearmTrap
  <2>2. ~Inhibit /\ ~Release
    BY <2>1 DEF Inhibit, Release, MapFree
  <2>3. l \in Parked
    BY <2>1 DEF SetInv, LockInv
  <2>4. LockInv' /\ WordInv'
    BY <1>7, <2>1, <2>2 DEF SetInv, LockInv, WordInv, MapFree
  <2>5. MemoryInv'
    BY <1>1, <1>7, <2>1, <2>2, <2>3 DEF SetInv, MemoryInv, MapFree
  <2>6. ProgramIsRecoverable'
    BY <1>1, <1>2, <1>7, <2>1, <2>2, <2>3 DEF SetInv, ProgramIsRecoverable, Known, EntryAt,
                                             Parked, hostVars
  <2> QED
    BY <1>1, <2>1, <2>2, <2>4, <2>5, <2>6 DEF SetInv, AnyWord
<1>12. CASE \E l \in Location : RestoreWord(l) \/ RearmTrap(l)
  <2>1. /\ memory' \in [Location -> AnyWord] /\ SetInv'
        /\ ~Inhibit /\ ~Release
    BY <1>10, <1>11, <1>12
  <2>2. inhibit' = inhibit /\ pending' \subseteq pending
    BY <1>12 DEF RestoreWord, RearmTrap
  <2> QED
    BY <1>7, <2>1, <2>2 DEF TypeOK
<1> QED
  BY <1>5, <1>6, <1>8, <1>9, <1>12

\* The steps of DebugLoop and of the guest that leave the set alone.
LEMMA LoopKeeps ==
  ASSUME IInv, NEW t \in Thread,
         \/ Resume(t) \/ FindInstruction(t) \/ LoadInstruction(t) \/ PeekInstruction(t)
         \/ FetchInstruction(t) \/ CreateBreakpoint(t) \/ ExecuteOne(t) \/ Run(t)
         \/ RunStops(t) \/ RunEnds(t) \/ KillThread(t)
  PROVE  IInv'
<1> USE BreakpointAssumption
    DEF IInv, BreakpointAssumption, Location, End, Nowhere, After, OverCall
<1>1. UNCHANGED <<setVars, readVars, hostVars, stopAt>>
  BY DEF Resume, FindInstruction, LoadInstruction, PeekInstruction, FetchInstruction,
         CreateBreakpoint, ExecuteOne, Run, RunStops, RunEnds, KillThread
<1>2. SetInv' /\ CountsMatchUsers'
  BY <1>1, SetUntouched
<1>3. SUFFICES /\ mode' \in [Thread -> Mode]
               /\ command' \in [Thread -> {"None", "SingleStep", "StepOver", "Continue"}]
               /\ pc' \in [Thread -> Location \cup {End}]
               /\ location' \in [Thread -> Location \cup {End}]
               /\ word' \in [Thread -> AnyWord]
               /\ stopWord' \in [Thread -> AnyWord]
               /\ LoopInv'
  <2>1. TypeOK'
    BY <1>1, <1>3 DEF TypeOK, IsTable, setVars, readVars, hostVars
  <2> QED
    BY <1>2, <1>3, <2>1
<1>4. /\ mode \in [Thread -> Mode]
      /\ command \in [Thread -> {"None", "SingleStep", "StepOver", "Continue"}]
      /\ pc \in [Thread -> Location \cup {End}]
      /\ location \in [Thread -> Location \cup {End}]
      /\ word \in [Thread -> AnyWord]
      /\ stopAt \in [Thread -> Location \cup {Nowhere}]
      /\ stopWord \in [Thread -> AnyWord]
      /\ memory \in [Location -> AnyWord]
      /\ \A l \in Set : breakpoints[l].word \in AnyWord
  BY DEF TypeOK, IsTable, Set, Entry
<1>5. CASE Resume(t)
  BY <1>4, <1>5 DEF Resume, Goto, LoopInv, Mode
<1>6. CASE FindInstruction(t)
  BY <1>4, <1>6 DEF FindInstruction, Goto, LoopInv, Mode
<1>7. CASE LoadInstruction(t)
  BY <1>4, <1>7 DEF LoadInstruction, Goto, LoopInv, Mode
<1>8. CASE PeekInstruction(t)
  BY <1>4, <1>8 DEF PeekInstruction, LoopInv, Mode
<1>9. CASE FetchInstruction(t)
  BY <1>4, <1>9 DEF FetchInstruction, Goto, LoopInv, Mode
<1>10. CASE CreateBreakpoint(t)
  BY <1>4, <1>10 DEF CreateBreakpoint, Goto, LoopInv, Mode
<1>11. CASE ExecuteOne(t)
  <2>1. /\ mode[t] = "exec" /\ location[t] \in Location
        /\ word' = [word EXCEPT ![t] = Trap]
        /\ UNCHANGED stopWord
    BY <1>11 DEF ExecuteOne, LoopInv
  <2>2. word' \in [Thread -> AnyWord] /\ stopWord' \in [Thread -> AnyWord]
    BY <1>4, <2>1 DEF AnyWord
  <2>3. CASE /\ pc' = [pc EXCEPT ![t] = location[t]]
             /\ Leave(t, location[t])
    BY <1>1, <1>4, <2>1, <2>2, <2>3 DEF Leave, LoopInv, Mode
  <2>4. CASE /\ pc' = [pc EXCEPT ![t] = location[t]]
             /\ mode' = [mode EXCEPT ![t] = "find"]
             /\ UNCHANGED <<command, location>>
    BY <1>1, <1>4, <2>1, <2>2, <2>4 DEF LoopInv, Mode
  <2>5. ASSUME NEW next \in Location \cup {End}, pc' = [pc EXCEPT ![t] = next],
               mode' = [mode EXCEPT ![t] = "running"],
               location' = [location EXCEPT ![t] = next], UNCHANGED command
        PROVE  /\ mode' \in [Thread -> Mode]
               /\ command' \in [Thread -> {"None", "SingleStep", "StepOver", "Continue"}]
               /\ pc' \in [Thread -> Location \cup {End}]
               /\ location' \in [Thread -> Location \cup {End}]
               /\ LoopInv'
    BY <1>1, <1>4, <2>1, <2>5 DEF LoopInv, Mode
  <2>6. ASSUME NEW next \in Location \cup {End}, pc' = [pc EXCEPT ![t] = next], Leave(t, next)
        PROVE  /\ mode' \in [Thread -> Mode]
               /\ command' \in [Thread -> {"None", "SingleStep", "StepOver", "Continue"}]
               /\ pc' \in [Thread -> Location \cup {End}]
               /\ location' \in [Thread -> Location \cup {End}]
               /\ LoopInv'
    BY <1>1, <1>4, <2>1, <2>6 DEF Leave, LoopInv, Mode
  <2> QED
    BY <1>11, <2>2, <2>3, <2>4, <2>5, <2>6 DEF ExecuteOne, Stop
<1>12. CASE Run(t)
  BY <1>4, <1>12 DEF Run, LoopInv, Mode
<1>13. CASE RunStops(t)
  <2>1. mode[t] = "running" /\ pc[t] \in Location /\ UNCHANGED <<word, stopWord>>
    BY <1>13 DEF RunStops
  <2>2. pc' = pc
    BY <1>4, <1>13 DEF RunStops, Stop
  <2>3. location[t] \in Location
    BY <1>4, <2>1 DEF LoopInv
  <2>4. CASE Leave(t, pc[t])
    BY <1>1, <1>4, <2>1, <2>2, <2>4 DEF Leave, LoopInv, Mode
  <2>5. CASE /\ mode' = [mode EXCEPT ![t] = "find"]
             /\ UNCHANGED <<command, location>>
    BY <1>1, <1>4, <2>1, <2>2, <2>3, <2>5 DEF LoopInv, Mode
  <2> QED
    BY <1>13, <2>4, <2>5 DEF RunStops, Stop
<1>14. CASE RunEnds(t)
  BY <1>4, <1>14 DEF RunEnds, Leave, LoopInv, Mode
<1>15. CASE KillThread(t)
  BY <1>4, <1>15 DEF KillThread, Leave, LoopInv, Mode
<1> QED
  BY <1>5, <1>6, <1>7, <1>8, <1>9, <1>10, <1>11, <1>12, <1>13, <1>14, <1>15

\* Setting stopAtNext: one thread more steps to that location.
LEMMA SetStopKeeps ==
  ASSUME IInv, NEW t \in Thread, SetStop(t) PROVE IInv'
<1> USE BreakpointAssumption DEF IInv, BreakpointAssumption
<1> DEFINE n == After(location[t])
<1>1. /\ UNCHANGED <<readVars, hostVars, command, pc, location, word, stopWord>>
      /\ SetBreakpoint(n)
      /\ stopAt' = [stopAt EXCEPT ![t] = n]
      /\ mode' = [mode EXCEPT ![t] = "find"]
      /\ mode[t] = "set"
  BY DEF SetStop, Goto
<1>2. location[t] \in Location /\ n \in Location /\ stopAt[t] = Nowhere
  BY <1>1 DEF LoopInv, After, Location
<1>3. stopAt \in [Thread -> Location \cup {Nowhere}] /\ mode \in [Thread -> Mode]
  BY DEF TypeOK
<1> HIDE DEF n
<1>4. /\ memory' \in [Location -> AnyWord]
      /\ IsTable(breakpoints')
      /\ SetInv'
      /\ \A x \in Location : CountAt(x)' = IF x = n THEN CountAt(x) + 1 ELSE CountAt(x)
  <2>1. UNCHANGED <<readVars, program, clobbered>>
    BY <1>1 DEF hostVars
  <2> QED
    BY <1>1, <1>2, <2>1, SetEffect
<1>5. TypeOK'
  <2>1. stopAt' \in [Thread -> Location \cup {Nowhere}] /\ mode' \in [Thread -> Mode]
    BY <1>1, <1>2, <1>3 DEF Mode
  <2> QED
    BY <1>1, <1>4, <2>1 DEF TypeOK, readVars, hostVars
<1>6. LoopInv'
  BY <1>1, <1>2, <1>3 DEF LoopInv
<1>7. CountsMatchUsers'
  <2> SUFFICES ASSUME NEW x \in Location
               PROVE  CountAt(x)' = requested[x] + Cardinality(SteppingTo(x)')
    BY <1>1 DEF CountsMatchUsers, hostVars
  <2>1. IsFiniteSet(SteppingTo(x)) /\ Cardinality(SteppingTo(x)) \in Nat /\ requested[x] \in Nat
    BY SteppingIsCounted DEF TypeOK
  <2>2. CASE x = n
    <3>1. SteppingTo(x)' = SteppingTo(x) \cup {t}
      BY <1>1, <1>3, <2>2 DEF SteppingTo
    <3>2. t \notin SteppingTo(x)
      BY <1>2 DEF SteppingTo, Location, Nowhere
    <3>3. Cardinality(SteppingTo(x)') = Cardinality(SteppingTo(x)) + 1
      BY <2>1, <3>1, <3>2, FS_AddElement
    <3> QED
      BY <1>4, <2>1, <2>2, <3>3 DEF CountsMatchUsers
  <2>3. CASE x # n
    <3>1. SteppingTo(x)' = SteppingTo(x)
      BY <1>1, <1>2, <1>3, <2>3 DEF SteppingTo, Location, Nowhere
    <3> QED
      BY <1>4, <2>3, <3>1 DEF CountsMatchUsers
  <2> QED
    BY <2>2, <2>3
<1> QED
  BY <1>4, <1>5, <1>6, <1>7

\* ~Breakpoint: one thread less.  What it set is still counted.
LEMMA ClearStopKeeps ==
  ASSUME IInv, NEW t \in Thread, ClearStop(t) PROVE IInv'
<1> USE BreakpointAssumption DEF IInv, BreakpointAssumption
<1> DEFINE n == stopAt[t]
<1>1. /\ UNCHANGED <<readVars, hostVars, command, pc, location, word>>
      /\ RemoveBreakpoint(n)
      /\ stopAt' = [stopAt EXCEPT ![t] = Nowhere]
      /\ stopWord' = [stopWord EXCEPT ![t] = Trap]
      /\ mode' = [mode EXCEPT ![t] = IF pc[t] = End THEN "ended" ELSE "stopped"]
      /\ mode[t] = "clear"
  BY DEF ClearStop, Goto
<1>2. n \in Location
  BY <1>1 DEF LoopInv
<1>3. /\ stopAt \in [Thread -> Location \cup {Nowhere}]
      /\ mode \in [Thread -> Mode]
      /\ pc \in [Thread -> Location \cup {End}]
      /\ stopWord \in [Thread -> AnyWord]
  BY DEF TypeOK
<1>4. \A x \in Location : /\ IsFiniteSet(SteppingTo(x)) /\ Cardinality(SteppingTo(x)) \in Nat
                          /\ requested[x] \in Nat
  BY SteppingIsCounted DEF TypeOK
<1>5. t \in SteppingTo(n)
  BY DEF SteppingTo
<1>6. CountAt(n) > 0
  <2>1. Cardinality(SteppingTo(n)) # 0
    BY <1>2, <1>4, <1>5, FS_EmptySet
  <2> QED
    BY <1>2, <1>4, <2>1 DEF CountsMatchUsers
<1> HIDE DEF n
<1>7. /\ memory' \in [Location -> AnyWord]
      /\ IsTable(breakpoints')
      /\ SetInv'
      /\ \A x \in Location : CountAt(x)' = IF x = n THEN CountAt(x) - 1 ELSE CountAt(x)
  <2>1. UNCHANGED <<readVars, program, clobbered>>
    BY <1>1 DEF hostVars
  <2> QED
    BY <1>1, <1>2, <1>6, <2>1, RemoveEffect
<1>8. TypeOK'
  <2>1. /\ stopAt' \in [Thread -> Location \cup {Nowhere}]
        /\ mode' \in [Thread -> Mode]
        /\ stopWord' \in [Thread -> AnyWord]
    BY <1>1, <1>3 DEF Mode, AnyWord
  <2> QED
    BY <1>1, <1>7, <2>1 DEF TypeOK, readVars, hostVars
<1>9. LoopInv'
  BY <1>1, <1>3 DEF LoopInv
<1>10. CountsMatchUsers'
  <2> SUFFICES ASSUME NEW x \in Location
               PROVE  CountAt(x)' = requested[x] + Cardinality(SteppingTo(x)')
    BY <1>1 DEF CountsMatchUsers, hostVars
  <2>1. CASE x = n
    <3>1. SteppingTo(x)' = SteppingTo(x) \ {t}
      BY <1>1, <1>2, <1>3, <2>1 DEF SteppingTo, Location, Nowhere
    <3>2. Cardinality(SteppingTo(x)') = Cardinality(SteppingTo(x)) - 1
      BY <1>4, <1>5, <2>1, <3>1, FS_RemoveElement
    <3> QED
      BY <1>4, <1>7, <2>1, <3>2 DEF CountsMatchUsers
  <2>2. CASE x # n
    <3>1. SteppingTo(x)' = SteppingTo(x)
      BY <1>1, <1>3, <2>2 DEF SteppingTo, Location, Nowhere, n
    <3> QED
      BY <1>7, <2>2, <3>1 DEF CountsMatchUsers
  <2> QED
    BY <2>1, <2>2
<1> QED
  BY <1>7, <1>8, <1>9, <1>10

LEMMA StepKeeps == IInv /\ [Next]_vars => IInv'
<1> SUFFICES ASSUME IInv, [Next]_vars PROVE IInv'
  OBVIOUS
<1>1. CASE UNCHANGED vars
  <2>1. SetInv' /\ CountsMatchUsers'
    BY <1>1, SetUntouched DEF IInv, vars, threadVars
  <2> QED
    BY <1>1, <2>1 DEF IInv, TypeOK, IsTable, LoopInv, vars, setVars, readVars, hostVars,
                      threadVars
<1>2. CASE DebuggerStep
  BY <1>2, DebuggerSetsKeeps, DebuggerRemovesKeeps, WriteMemoryKeeps, ReaderKeeps
     DEF DebuggerStep
<1>3. ASSUME NEW t \in Thread, ThreadStep(t) PROVE IInv'
  BY <1>3, LoopKeeps, SetStopKeeps, ClearStopKeeps DEF ThreadStep
<1> QED
  BY <1>1, <1>2, <1>3 DEF Next

LEMMA InductiveInvariant == Spec => []IInv
BY Initially, StepKeeps, PTL DEF Spec

-----------------------------------------------------------------------------
(* The theorems.                                                            *)

\* Every variable keeps its type; in particular the interpreter never runs from an
\* address that is no location, and no count ever falls to 0.
THEOREM TypeCorrect == Spec => []TypeOK
<1>1. IInv => TypeOK
  BY DEF IInv
<1> QED
  BY <1>1, InductiveInvariant, PTL

\* The uses of each breakpoint are counted right, for any number of guest threads that
\* step over calls while the debugger sets, removes and inhibits breakpoints.
THEOREM CountsCorrect == Spec => []CountsMatchUsers
<1>1. IInv => CountsMatchUsers
  BY DEF IInv
<1> QED
  BY <1>1, InductiveInvariant, PTL

\* Traps are in memory where there are breakpoints, and nowhere else.
THEOREM TrapsCorrect == Spec => []TrapsMatchBreakpoints
<1>1. IInv => TrapsMatchBreakpoints
  BY DEF IInv, SetInv, LockInv, MemoryInv, TrapsMatchBreakpoints, TypeOK, IsTable, MapFree, Set,
         Known, Parked
<1> QED
  BY <1>1, InductiveInvariant, PTL

\* No word of the program is lost to a breakpoint.
THEOREM ProgramSafe == Spec => []ProgramIsRecoverable
<1>1. IInv => ProgramIsRecoverable
  BY DEF IInv, SetInv
<1> QED
  BY <1>1, InductiveInvariant, PTL

\* The debugger reads the program as it is, never a trap.
THEOREM ReadsCorrect == Spec => []DebuggerReadsProgram
<1>1. IInv => DebuggerReadsProgram
  BY DEF IInv, SetInv, LockInv, MemoryInv, ProgramIsRecoverable, DebuggerReadsProgram, MapFree,
         Known, EntryAt, Parked
<1> QED
  BY <1>1, InductiveInvariant, PTL
=============================================================================
