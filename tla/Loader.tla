------------------------------- MODULE Loader -------------------------------
(***************************************************************************)
(* Loading of PEF containers: FragmentManager, which keeps what is loaded, *)
(* and for each container being loaded, the innermost first, the unpacking *)
(* of its sections, the loading of the libraries it imports and the        *)
(* relocation of the sections.  One thread does it, and a step is one      *)
(* operation of a pattern, import or relocation instruction.               *)
(*                                                                         *)
(* The sections of a container are a sequence of words, and positions in   *)
(* it count words: what relocates bytes that straddle words is left out.   *)
(* A program is the headers of the container's relocations, each with the  *)
(* half words of its instructions behind it: the second half of a large    *)
(* instruction is an entry of its own, which says nothing.                 *)
(***************************************************************************)
EXTENDS Naturals, Sequences, SequencesExt

CONSTANTS Library,         \* names
          World,           \* the container files there may be: functions from some names to files
          SectionAddress(_, _), SymbolAddress(_, _), \* of a library's sections and exports
          WordSize,        \* 2^32
          PositionSize,    \* of what is kept of a position: 2^24 bytes
          IndexSize,       \* of what is kept of the index of an import: 2^24
          SectionField     \* of the bits below the large sub-opcode: 2^22

SectionIndex == 0..(2 * SectionField - 1)

ASSUME LoaderAssumption ==
  /\ {WordSize, PositionSize, IndexSize, SectionField} \subseteq Nat \ {0}
  /\ \A name \in Library, index \in SectionIndex : SectionAddress(name, index) \in Nat

VARIABLES
  files,      \* the container files there are
  resolvers,  \* the names that are loaded
  sections,   \* names to words: the sections of each container instantiated so far
  loading,    \* containers being loaded, the innermost first
  thrown      \* the exception under way, or "none"

loaderVars == <<files, resolvers, sections, loading, thrown>>

File == DOMAIN files
Top  == Head(loading)

\* A file is [pattern, imports, symbols, sections, program, exports, native]: sections are the
\* numbers of those it instantiates, native the exports that are not PowerPC.  What is left of the
\* file, and the PEFRelocator at work on it:
Loading(name) ==
  [name |-> name, pattern |-> files[name].pattern, imports |-> files[name].imports,
   program |-> [k \in 1..Len(files[name].program) |-> k], data |-> 0, relocAddress |-> 0,
   importIndex |-> 0, sectionC |-> SectionAddress(name, 0), sectionD |-> SectionAddress(name, 1)]

InitLoader ==
  /\ files \in World
  /\ resolvers = {}
  /\ sections = [name \in {} |-> <<>>]
  /\ loading = <<>>
  /\ thrown = "none"

-----------------------------------------------------------------------------
(* Containers *)

\* ResolveLibrary begins with the file, and its container.
Begin(name) ==
  /\ loading' = <<Loading(name)>> \o loading
  /\ sections' = [n \in DOMAIN sections \cup {name} |-> IF n = name THEN <<>> ELSE sections[n]]

\* The program, and libraries that the guest loads.
Load(name) ==
  /\ loading = <<>> /\ thrown = "none"
  /\ name \in File \ resolvers
  /\ Begin(name)
  /\ UNCHANGED <<files, resolvers, thrown>>

Continue(frame) == loading' = <<frame>> \o Tail(loading)
Operated(frame) == [frame EXCEPT !.pattern = Tail(@)]
Imported(frame) == [frame EXCEPT !.imports = Tail(@)]

Zeros(n) == [k \in 1..n |-> 0]
Times(n, words) == [k \in 1..n * Len(words) |-> words[((k - 1) % Len(words)) + 1]]

\* What an operation writes.  The blocks that are interleaved follow the one that is repeated.
Unpacked(o) ==
  CASE o.op = "zero"   -> Zeros(o.size)
    [] o.op = "copy"   -> o.block
    [] o.op = "repeat" -> Times(o.count + 1, o.block)
    [] o.op = "interleave" -> FlattenSeq([k \in 1..Len(o.customs) |-> o.block \o o.customs[k]]) \o o.block

ExecutePattern ==
  /\ loading # <<>> /\ thrown = "none"
  /\ Top.pattern # <<>>
  /\ sections' = [sections EXCEPT ![Top.name] = @ \o Unpacked(Head(Top.pattern))]
  /\ Continue(Operated(Top))
  /\ UNCHANGED <<files, resolvers, thrown>>

\* Mutant: the name is known as soon as its file is found.
LoadContainerEarly ==
  /\ loading # <<>> /\ thrown = "none"
  /\ Top.pattern = <<>> /\ Top.imports # <<>>
  /\ LET name == Head(Top.imports)
     IN IF name \in resolvers
        THEN Continue(Imported(Top)) /\ UNCHANGED <<sections, thrown, resolvers>>
        ELSE IF name \in File
             THEN Begin(name) /\ resolvers' = resolvers \cup {name} /\ UNCHANGED thrown
             ELSE thrown' = "library" /\ UNCHANGED <<loading, sections, resolvers>>
  /\ UNCHANGED files

LoadContainer ==
  /\ loading # <<>> /\ thrown = "none"
  /\ Top.pattern = <<>> /\ Top.imports # <<>>
  /\ LET name == Head(Top.imports)
     IN IF name \in resolvers
        THEN Continue(Imported(Top)) /\ UNCHANGED <<sections, thrown>>
        ELSE IF name \in File
             THEN Begin(name) /\ UNCHANGED thrown
             ELSE thrown' = "library" /\ UNCHANGED <<loading, sections>>
  /\ UNCHANGED <<files, resolvers>>

\* A library that is missing makes ResolveLibrary give up on the container that imports it; it is
\* then missing as well.  Nobody catches a relocator's exceptions.
Unwind ==
  /\ thrown \in {"library", "logic_error"} /\ loading # <<>>
  /\ loading' = Tail(loading)
  /\ thrown' = IF thrown = "library" /\ Tail(loading) = <<>> THEN "none" ELSE thrown
  /\ sections' = [n \in DOMAIN sections \ {Top.name} |-> sections[n]]
  /\ UNCHANGED <<files, resolvers>>

Loaded ==
  /\ loading # <<>> /\ thrown = "none"
  /\ Top.pattern = <<>> /\ Top.imports = <<>> /\ Top.program = <<>>
  /\ resolvers' = resolvers \cup {Top.name}
  /\ loading' = Tail(loading)
  /\ UNCHANGED <<files, sections, thrown>>

-----------------------------------------------------------------------------
(* Relocation *)

\* RelocByIndex: sub-opcode 0 imports, and those above 3 do nothing once they have the section.
ByIndex(sub, index) ==
  [op |-> CASE sub = 0 -> "Import" [] sub = 1 -> "SetSectC" [] sub = 2 -> "SetSectD"
            [] sub = 3 -> "Section" [] OTHER -> "Nothing",
   index |-> index]

\* What the code takes an instruction for.  The index of RelocLargeSetOrBySection has a bit more
\* than the field, which is the last one of the sub-opcode.
Decoded(i) ==
  CASE i.op = "SmallByIndex"        -> ByIndex(i.sub, i.index)
    [] i.op = "LargeSetOrBySection" -> ByIndex(i.sub, (i.sub % 2) * SectionField + i.index)
    [] i.op = "LargeByImport"       -> ByIndex(0, i.index % IndexSize)
    [] i.op = "SetPosition"         -> [i EXCEPT !.to = @ % PositionSize]
    [] OTHER                        -> i

Program(file) == [k \in DOMAIN file.program |-> Decoded(file.program[k])]

\* What the instructions that relocate do to the words from relocAddress on: a run of these.
Run == [BySectC |-> <<"C">>, BySectD |-> <<"D">>, TVector12 |-> <<"C", "D", "skip">>,
        TVector8 |-> <<"C", "D">>, VTable8 |-> <<"D", "skip">>, ImportRun |-> <<"import">>,
        IncrementPosition |-> <<"skip">>]

Words(i) ==
  CASE i.op \in DOMAIN Run      -> Times(i.count, Run[i.op])
    [] i.op = "BySectDWithSkip" -> Times(i.skip, <<"skip">>) \o Times(i.count, <<"D">>)
    [] i.op = "Import"          -> <<"import">>
    [] i.op = "Section"         -> <<"section">>
    [] OTHER                    -> <<>>

Imports(i) == Cardinality({k \in DOMAIN Words(i) : Words(i)[k] = "import"})

\* importIndex at the start of an instruction.
FirstImport(frame, i) == IF i.op = "Import" THEN i.index ELSE frame.importIndex

\* What is added to the k-th word of an instruction.
Addend(symbols, frame, i, k) ==
  LET n == FirstImport(frame, i) + k
  IN CASE Words(i)[k] = "C"       -> frame.sectionC
       [] Words(i)[k] = "D"       -> frame.sectionD
       [] Words(i)[k] = "section" -> SectionAddress(frame.name, i.index)
       [] Words(i)[k] = "import" /\ n \in DOMAIN symbols -> SymbolAddress(symbols[n].library, symbols[n].name)
       [] OTHER -> 0

\* A header makes a new relocator.
Apply(frame, i) ==
  IF i.op = "Relocator"
  THEN [frame EXCEPT !.program = Tail(@), !.data = i.data, !.relocAddress = 0, !.importIndex = 0,
                     !.sectionC = SectionAddress(frame.name, 0), !.sectionD = SectionAddress(frame.name, 1)]
  ELSE [frame EXCEPT !.program = Tail(@),
                     !.relocAddress = IF i.op = "SetPosition" THEN i.to ELSE @ + Len(Words(i)),
                     !.importIndex  = FirstImport(frame, i) + Imports(i),
                     !.sectionC = IF i.op = "SetSectC" THEN SectionAddress(frame.name, i.index) ELSE @,
                     !.sectionD = IF i.op = "SetSectD" THEN SectionAddress(frame.name, i.index) ELSE @]

Add(section, frame, i) ==
  [a \in DOMAIN section |->
     LET k == a - (frame.data + frame.relocAddress)
     IN IF k \in DOMAIN Words(i)
        THEN (section[a] + Addend(files[frame.name].symbols, frame, i, k)) % WordSize ELSE section[a]]

\* The sections that an instruction asks GetSection for.
SectionsOf(i) ==
  CASE i.op = "Relocator" -> {0, 1, i.index}
    [] i.op \in {"SetSectC", "SetSectD", "Section", "Nothing"} -> {i.index}
    [] OTHER -> {}

\* There is no such instruction, section or import, the library has no such symbol, or the symbol is
\* a native function and the word is not 0.
Fails(section, frame, i) ==
  \/ i.op = "unknown"
  \/ ~ (SectionsOf(i) \subseteq files[frame.name].sections)
  \/ \E k \in DOMAIN Words(i) :
       /\ Words(i)[k] = "import"
       /\ LET n == FirstImport(frame, i) + k
              symbol  == files[frame.name].symbols[n]
              library == files[symbol.library]
          IN \/ n \notin DOMAIN files[frame.name].symbols
             \/ symbol.name \notin library.exports
             \/ /\ symbol.name \in library.native /\ symbol.class = "code"
                /\ section[frame.data + frame.relocAddress + k] # 0

\* RelocSmallRepeat: the block before it, i.times more.
Repeat(frame, i) ==
  [frame EXCEPT !.program =
     Times(i.times, [k \in 1..i.blocks |-> Head(frame.program) - i.blocks + k - 1]) \o Tail(@)]

\* The block of RelocLargeRepeat has its own first half in it: executing it executes it again, and
\* only the stack ends this.
Execute ==
  /\ loading # <<>> /\ thrown = "none"
  /\ Top.pattern = <<>> /\ Top.imports = <<>> /\ Top.program # <<>>
  /\ LET i == Program(files[Top.name])[Head(Top.program)]
         section == sections[Top.name]
     IN IF i.op = "SmallRepeat"
        THEN Continue(Repeat(Top, i)) /\ UNCHANGED <<sections, thrown>>
        ELSE IF i.op = "LargeRepeat"
        THEN thrown' = "stack" /\ UNCHANGED <<loading, sections>>
        ELSE IF Fails(section, Top, i)
        THEN thrown' = "logic_error" /\ UNCHANGED <<loading, sections>>
        ELSE /\ Continue(Apply(Top, i))
             /\ sections' = [sections EXCEPT ![Top.name] = Add(section, Top, i)]
             /\ UNCHANGED thrown
  /\ UNCHANGED <<files, resolvers>>

NextLoader ==
  \/ \E name \in Library : Load(name)
  \/ ExecutePattern \/ LoadContainer \/ Unwind \/ Loaded \/ Execute

LoaderTypeOK ==
  /\ resolvers \subseteq File
  /\ DOMAIN sections \subseteq File
  /\ \A name \in DOMAIN sections : sections[name] \in Seq(0..(WordSize - 1))
  /\ \A k \in DOMAIN loading : loading[k].name \in File
  /\ thrown \in {"none", "library", "logic_error", "stack"}

-----------------------------------------------------------------------------
\* What a program stands for, without the state of the machine that runs it: the instructions in
\* their order with the repetitions written out, where each starts, and what its imports are.
Expansion(program) ==
  LET flat[k \in 1..Len(program)] ==
        IF program[k].op # "SmallRepeat" THEN <<program[k]>>
        ELSE FlattenSeq(Times(program[k].times,
                              [b \in 1..program[k].blocks |-> flat[k - program[k].blocks + b - 1]]))
  IN flat
Flat(program) == FlattenSeq([k \in 1..Len(program) |-> Expansion(program)[k]])

\* The last instruction before the j-th that is one of these, or 0.
LastOf(ops, flat, j) == Max({0} \cup {m \in 1..(j - 1) : flat[m].op \in ops})

\* A relocator starts at 0, its first import is 0, and sections C and D are 0 and 1.
Header(flat, j) == LastOf({"Relocator"}, flat, j)
Data(flat, j) == IF Header(flat, j) = 0 THEN 0 ELSE flat[Header(flat, j)].data

Start(flat, j) ==
  LET m == LastOf({"SetPosition", "Relocator"}, flat, j)
  IN (IF m = 0 \/ flat[m].op = "Relocator" THEN 0 ELSE flat[m].to)
       + SumFunction([l \in 1..(j - m - 1) |-> Len(Words(flat[m + l]))])

ImportAt(flat, j) ==
  LET m == LastOf({"Import", "Relocator"}, flat, j)
  IN (IF m = 0 \/ flat[m].op = "Relocator" THEN 0 ELSE flat[m].index + 1)
       + SumFunction([l \in 1..(j - m - 1) |-> Imports(flat[m + l])])

SectionAt(name, op, default, flat, j) ==
  LET m == LastOf({op, "Relocator"}, flat, j)
  IN SectionAddress(name, IF m = 0 \/ flat[m].op = "Relocator" THEN default ELSE flat[m].index)

Unpacking(pattern) == FlattenSeq([k \in 1..Len(pattern) |-> Unpacked(pattern[k])])

\* What linkers make, and the code reads unchecked: operations write words, large instructions have
\* two halves, repetitions are of whole instructions before them, and what is relocated is in the
\* section that the header names.  Whether the code knows an instruction and decodes it as the
\* format has it, and whether there are the sections and imports it asks for, is left open.
IsSequence(s) == s \in Seq(ToSet(s))
Large == {"SetPosition", "LargeByImport", "LargeSetOrBySection", "LargeRepeat", "unknown"}

WellFormed(file) ==
  LET program == Program(file)
      flat    == Flat(program)
      size    == Len(Unpacking(file.pattern))
  IN /\ file.imports \in Seq(Library)
     /\ IsSequence(file.pattern) /\ IsSequence(file.program) /\ IsSequence(file.symbols)
     /\ \A k \in DOMAIN file.pattern : Unpacked(file.pattern[k]) \in Seq(0..(WordSize - 1))
     /\ \A symbol \in ToSet(file.symbols) :
          /\ symbol.library \in ToSet(file.imports)
          /\ SymbolAddress(symbol.library, symbol.name) \in Nat
     /\ \A k \in DOMAIN program :
          /\ k = 1 => program[k].op = "Relocator"
          /\ program[k].op = "Relocator" =>
               /\ program[k].data \in Nat /\ program[k].size \in Nat
               /\ program[k].data + program[k].size <= size
          /\ file.program[k].op \in Large => k + 1 \in DOMAIN program /\ program[k + 1].op = "low half"
          /\ program[k].op = "low half" => k > 1 /\ file.program[k - 1].op \in Large
          /\ program[k].op = "SmallRepeat" =>
               /\ program[k].blocks \in 1..(k - 1) /\ program[k].times \in Nat
               /\ program[k - program[k].blocks].op # "low half"
               /\ \A l \in 1..program[k].blocks : program[k - l].op # "Relocator"
          /\ program[k].op = "SetPosition" => program[k].to \in Nat
          /\ program[k].op = "Import" => program[k].index \in Nat
          /\ program[k].op \in {"Section", "SetSectC", "SetSectD"} => program[k].index \in SectionIndex
          /\ program[k].op \in DOMAIN Run => program[k].count \in Nat
          /\ program[k].op = "BySectDWithSkip" => program[k].skip \in Nat /\ program[k].count \in Nat
     /\ \A j \in DOMAIN flat : \A k \in DOMAIN Words(flat[j]) :
          Words(flat[j])[k] # "skip" => Start(flat, j) + k <= flat[Header(flat, j)].size

ASSUME WorldAssumption ==
  \A f \in World : DOMAIN f \subseteq Library /\ \A name \in DOMAIN f : WellFormed(f[name])

\* What the format has for the instructions that the code masks or that share RelocByIndex:
\* positions and indices are whole, and the large sub-opcodes add a section, or set C or D.
Meant(i) ==
  CASE i.op = "LargeSetOrBySection" ->
         ByIndex(CASE i.sub = 0 -> 3 [] i.sub \in {1, 2} -> i.sub [] OTHER -> 4, i.index)
    [] i.op = "LargeByImport" -> ByIndex(0, i.index)
    [] i.op = "SetPosition"   -> i
    [] OTHER                  -> Decoded(i)
Meaning(file) == [k \in DOMAIN file.program |-> Meant(file.program[k])]

Linked(name) ==
  LET file    == files[name]
      flat    == Flat(Meaning(file))
      unpacked == Unpacking(file.pattern)
      frame(j) == [name |-> name, importIndex |-> ImportAt(flat, j),
                   sectionC |-> SectionAt(name, "SetSectC", 0, flat, j),
                   sectionD |-> SectionAt(name, "SetSectD", 1, flat, j)]
      fixes(a) == SumFunction([j \in DOMAIN flat |->
                            LET k == a - (Data(flat, j) + Start(flat, j))
                            IN IF k \in DOMAIN Words(flat[j]) THEN Addend(file.symbols, frame(j), flat[j], k) ELSE 0])
  IN [a \in DOMAIN unpacked |-> (unpacked[a] + fixes(a)) % WordSize]

\* A container that is loaded has all its libraries loaded, and its sections are what the container
\* stands for: nothing is relocated twice or not at all when loading a library comes in between,
\* when one fails and is tried again, when a repetition repeats another, or when another header
\* begins.  Nothing is said of the sections of a container one of whose instructions the code takes
\* for another one: a position or index that it cuts off, RelocLargeSetOrBySection where it adds an
\* import for a section, or sets C to another section.
LoadedIsLinked ==
  \A name \in resolvers :
    /\ ToSet(files[name].imports) \subseteq resolvers
    /\ Program(files[name]) = Meaning(files[name]) => sections[name] = Linked(name)
=============================================================================
