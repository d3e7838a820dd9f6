------------------------------ MODULE Services ------------------------------
(***************************************************************************)
(* What guests rely on, for TLC: the user interface, as UIChannel has it,  *)
(* the network, as OpenTransport has it, and the loading of containers, as *)
(* Loader has it.  They share no state, and a behaviour is that of one of  *)
(* them; the others do not move.                                           *)
(***************************************************************************)
EXTENDS UIChannel, OpenTransport, Loader

VARIABLE part

TypeOK == ChannelTypeOK /\ TransportTypeOK /\ LoaderTypeOK

NoWorld == [name \in {} |-> <<>>]

Init ==
  /\ part \in {"channel", "transport", "loader"}
  /\ InitChannel /\ InitTransport /\ InitLoader
  /\ part = "loader" <=> files # NoWorld

Next ==
  \/ part = "channel" /\ NextChannel /\ UNCHANGED <<transportVars, loaderVars, part>>
  \/ part = "transport" /\ NextTransport /\ UNCHANGED <<channelVars, loaderVars, part>>
  \/ part = "loader" /\ NextLoader /\ UNCHANGED <<channelVars, transportVars, part>>

Channel(A) == part = "channel" /\ ~outOfStep /\ A /\ UNCHANGED <<transportVars, loaderVars, part>>

Spec ==
  /\ Init /\ [][Next]_<<channelVars, transportVars, loaderVars, part>>
  /\ WF_channelVars(Channel(Guest))
  /\ WF_channelVars(Channel(ProcessIPCMessage))
  /\ WF_channelVars(Channel(StopWaitingOnEvent))
-----------------------------------------------------------------------------
(* Values for TLC *)

MCMask == {Kind, {"keyDown"}}

\* Refresh stands for all that is only acknowledged.
MCToolboxCall ==
  {"Button", "EventAvail", "GetNextEvent", "WaitNextEvent", "FlushEvents", "DrawMenuBar", "NewCWindow",
   "FindWindow", "FrontWindow", "DragWindow", "MenuSelect", "MenuKey", "RequestUpdate",
   "RefreshWindows"}

\* A program that imports two libraries, one of which imports the other; one of them may be missing.
MCLibrary == {"app", "lib", "std"}
Base(name) == [app |-> 100, lib |-> 200, std |-> 300][name]
MCSectionAddress(name, index) == Base(name) + 10 * index
MCSymbolAddress(name, symbol) == Base(name) + [f |-> 20, v |-> 30][symbol]

Symbol(library, name, class) == [library |-> library, name |-> name, class |-> class]
LowHalf == [op |-> "low half"]

Relocator(index, data, size) == [op |-> "Relocator", index |-> index, data |-> data, size |-> size]
SmallByIndex(sub, index) == <<[op |-> "SmallByIndex", sub |-> sub, index |-> index]>>

Form ==
  {<<[op |-> op, count |-> 1]>> : op \in DOMAIN Run \ {"BySectC"}}
  \cup {<<[op |-> "BySectDWithSkip", skip |-> 1, count |-> 2]>>,
        <<[op |-> "LargeByImport", index |-> 0], LowHalf>>, <<[op |-> "SetPosition", to |-> 2], LowHalf>>,
        SmallByIndex(0, 1), SmallByIndex(1, 1), SmallByIndex(2, 0), SmallByIndex(3, 0)}
  \cup {<<[op |-> "SmallRepeat", blocks |-> b, times |-> t]>> : b \in {1, 2}, t \in {1, 2}}

\* What the code masks or takes for something else, does not know, or asks in vain; and a header.
Rare ==
  {<<[op |-> "LargeByImport", index |-> 5], LowHalf>>, <<[op |-> "SetPosition", to |-> 17], LowHalf>>,
   <<[op |-> "LargeRepeat"], LowHalf>>, <<[op |-> "unknown"], LowHalf>>, SmallByIndex(0, 3), SmallByIndex(2, 2),
   <<Relocator(0, 7, 3)>>, <<Relocator(2, 7, 3)>>}
  \cup {<<[op |-> "LargeSetOrBySection", sub |-> sub, index |-> 1], LowHalf>> : sub \in 0..4}

MCProgram ==
  {<<Relocator(1, 0, 7)>> \o FlattenSeq(forms) : forms \in [1..3 -> Form] \cup [1..2 -> Form \cup Rare]}

App(program) ==
  [pattern |-> <<[op |-> "zero", size |-> 3], [op |-> "repeat", block |-> <<7>>, count |-> 1],
                 [op |-> "interleave", block |-> <<0>>, customs |-> <<<<5>>, <<6>>>>]>>,
   imports |-> <<"std", "lib">>, program |-> program, exports |-> {}, native |-> {},
   sections |-> {0, 1},
   symbols |-> <<Symbol("std", "f", "code"), Symbol("lib", "v", "data"), Symbol("std", "v", "data")>>]

Lib(exports) ==
  [pattern |-> <<[op |-> "copy", block |-> <<1, 2>>]>>, imports |-> <<"std">>,
   program |-> <<Relocator(1, 0, 2), [op |-> "TVector8", count |-> 1]>>, exports |-> exports,
   native |-> {}, sections |-> {0, 1}, symbols |-> <<>>]

Std == [pattern |-> <<>>, imports |-> <<>>, program |-> <<>>, exports |-> {"f", "v"},
        native |-> {"f", "v"}, sections |-> {}, symbols |-> <<>>]

MCWorld ==
  {NoWorld, [app |-> App(<<>>), lib |-> Lib({})], [app |-> App(<<>>), std |-> Std]}
  \cup {[app |-> App(p), lib |-> Lib(e), std |-> Std] :
          p \in {q \in MCProgram : WellFormed(App(q))}, e \in {{"v"}, {}}}
=============================================================================
