----------------------------- MODULE UIChannel -----------------------------
(***************************************************************************)
(* InterfaceLib's user interface: the toolbox calls of the guest on one    *)
(* side, the head process with its windows and its event queue on the      *)
(* other, a pipe each way between them.                                    *)
(*                                                                         *)
(* A toolbox call is a list of actions, and an action is a request and its *)
(* answer: values, and "DONE".  The pipes keep no message boundaries, so a *)
(* side that reads something else than was written is out of step, and the *)
(* model ends there.  One guest thread at a time calls the toolbox: a      *)
(* request is then several writes that nobody gets between, and is one     *)
(* step here.  All of the head runs on its main thread, a handler a step.  *)
(***************************************************************************)
EXTENDS Naturals, Sequences

CONSTANTS Mask,      \* the event masks that guests use: sets of kinds
          MaxEvents, \* bound: how many events there are
          ToolboxCall    \* the toolbox calls that the guest makes, by name

Input == {"mouseDown", "mouseUp", "keyDown"}     \* keyUp and autoKey are as keyDown
Kind  == Input \cup {"activateEvent", "updateEvent"}

VARIABLES
  toolbox,       \* the toolbox call the guest is in, or "none"
  plan,          \* the actions it has yet to perform
  reads,         \* what PerformAction has yet to read of the answer to the last one
  peeked,        \* nextEvent: what the call will return
  requests, answers, \* the pipes
  eventQueue,    \* a set: events queue up in the order of their numbers
  currentlyWaitingOn,
  waitLimit,     \* TRUE while the timer runs
  menuGate,      \* menuGate.ignoresMouseEvents
  dragHandlers,  \* the drag handlers on top of the application's
  arrived,       \* how many events there were so far: they are numbered
  removed,       \* history: the event that the call's DequeueNextEvent removed
  spoiled,       \* history: MenuKey was called
  outOfStep      \* a side has read what is not what it expects

client == <<toolbox, plan, reads, peeked>>
head   == <<eventQueue, currentlyWaitingOn, waitLimit, menuGate, dragHandlers, arrived>>
channelVars == <<client, requests, answers, head, removed, spoiled, outOfStep>>

-----------------------------------------------------------------------------
(* Requests and answers *)

Plain(op)    == [op |-> op, mask |-> {}, stop |-> {}, wait |-> FALSE]
Peek(m, w)   == [op |-> "PeekNextEvent", mask |-> m, stop |-> {}, wait |-> w]
Dequeue(m)   == [op |-> "DequeueNextEvent", mask |-> m, stop |-> {}, wait |-> FALSE]
Discard(m, s) == [op |-> "DiscardEventsUntil", mask |-> m, stop |-> s, wait |-> FALSE]

\* Requests whose handlers only do something to windows, menus and the like.
Acknowledged == {"RefreshWindows", "SetCursorVisibility", "Beep", "CreateDialog", "CloseWindow",
                 "CreateControl", "SetDirtyRect", "ClearMenus", "InsertMenu", "InsertMenuItem",
                 "CheckItem"}
OneValue  == {"IsMouseDown", "FindFrontWindow"}
TwoValues == {"FindWindowByCoordinates", "MenuSelect", "MenuKey"}

Event == [id : Nat \ {0}, kind : Kind]
Null  == [id |-> 0, kind |-> "nullEvent"]

\* What an answer is made of: an event, other values, and the four bytes at the end.
Anything == [id |-> 0, kind |-> "value"]
Done     == [id |-> 0, kind |-> "DONE"]
IsEvent(x) == x \in Event \cup {Null}

\* What PerformAction reads: one for each element of its return type, and done.
Shape(r) ==
  CASE r.op = "PeekNextEvent" -> <<"event", "done">>
    [] r.op \in OneValue      -> <<"value", "done">>
    [] r.op \in TwoValues     -> <<"value", "value", "done">>
    [] OTHER                  -> <<"done">>

Fits(x, what) ==
  CASE what = "event" -> IsEvent(x)
    [] what = "value" -> x = Anything
    [] what = "done"  -> x = Done

-----------------------------------------------------------------------------
(* The guest's side *)

\* Calls of one action are known by its name.  WaitNextEvent may be given no time to wait;
\* GetNextEvent waits as long as it can say.
Actions(name, m, s, w) ==
  CASE name = "Button"        -> << Plain("RefreshWindows"), Plain("IsMouseDown") >>
    [] name = "EventAvail"    -> << Plain("RefreshWindows"), Peek(m, FALSE) >>
    [] name = "GetNextEvent"  -> << Plain("RefreshWindows"), Peek(m, TRUE), Dequeue(m) >>
    [] name = "WaitNextEvent" -> << Plain("RefreshWindows"), Peek(m, w), Dequeue(m) >>
    [] name = "FlushEvents"   -> << Discard(m, s) >>
    [] name = "DrawMenuBar"   -> << Plain("ClearMenus"), Plain("InsertMenu"),
                                    Plain("InsertMenuItem") >>
    [] name = "NewCWindow"    -> << Plain("CreateWindow") >>
    [] name = "FindWindow"    -> << Plain("FindWindowByCoordinates") >>
    [] name = "FrontWindow"   -> << Plain("FindFrontWindow") >>
    [] name \in Acknowledged \cup {"DragWindow", "MenuSelect", "MenuKey", "RequestUpdate"} ->
                                 << Plain(name) >>

ASSUME ChannelAssumption ==
  /\ \A m \in Mask : m \subseteq Kind
  /\ MaxEvents \in Nat
  /\ ToolboxCall \subseteq
       Acknowledged \cup {"Button", "EventAvail", "GetNextEvent", "WaitNextEvent", "FlushEvents",
                          "DrawMenuBar", "NewCWindow", "FindWindow", "FrontWindow", "DragWindow",
                          "MenuSelect", "MenuKey", "RequestUpdate"}

Takes   == {"GetNextEvent", "WaitNextEvent"}
Creates == {"CreateWindow", "RequestUpdate"}

\* Bound: events that requests under way may still cause.
Reserved == 2 * Len(SelectSeq(plan \o requests, LAMBDA r : r.op \in Creates))

\* Bound: there is no call after MenuKey.
Call(name) ==
  /\ toolbox = "none" /\ ~spoiled
  /\ name \in {"NewCWindow", "RequestUpdate"} => arrived + Reserved + 2 <= MaxEvents
  /\ toolbox' = name
  /\ \E m, s \in Mask, w \in BOOLEAN : plan' = Actions(name, m, s, w)
  /\ peeked' = Null
  /\ removed' = Null
  /\ UNCHANGED <<reads, requests, answers, head, spoiled, outOfStep>>

WriteRequest ==
  /\ reads = <<>> /\ plan # <<>>
  /\ requests' = Append(requests, Head(plan))
  /\ plan' = Tail(plan)
  /\ reads' = Shape(Head(plan))
  /\ spoiled' = (spoiled \/ Head(plan).op = "MenuKey")
  /\ UNCHANGED <<toolbox, peeked, answers, head, removed, outOfStep>>

\* One read of PerformAction, which throws unless done is "DONE".
ReadAnswer ==
  /\ reads # <<>> /\ answers # <<>>
  /\ IF Fits(Head(answers), Head(reads))
     THEN /\ reads' = Tail(reads)
          /\ peeked' = IF Head(reads) = "event" THEN Head(answers) ELSE peeked
          /\ answers' = Tail(answers)
          /\ UNCHANGED outOfStep
     ELSE outOfStep' = TRUE /\ UNCHANGED <<reads, peeked, answers>>
  /\ UNCHANGED <<toolbox, plan, requests, head, removed, spoiled>>

Return ==
  /\ toolbox # "none" /\ reads = <<>> /\ plan = <<>>
  /\ toolbox' = "none"
  /\ UNCHANGED <<plan, reads, peeked, requests, answers, head, removed, spoiled, outOfStep>>
-----------------------------------------------------------------------------
(* The head *)

InitChannel ==
  /\ toolbox = "none" /\ plan = <<>> /\ reads = <<>> /\ peeked = Null
  /\ requests = <<>> /\ answers = <<>>
  /\ eventQueue = {}
  /\ currentlyWaitingOn = {}
  /\ waitLimit = FALSE
  /\ menuGate = FALSE
  /\ dragHandlers = 0
  /\ arrived = 0
  /\ removed = Null
  /\ spoiled = FALSE
  /\ outOfStep = FALSE

NewEvent(kind, k) == [id |-> arrived + k, kind |-> kind]

\* processIPCMessage: the selector that handles requests of this kind takes the next one.
TakeRequest(r) == requests # <<>> /\ r = Head(requests) /\ requests' = Tail(requests)
            /\ UNCHANGED <<client, spoiled, outOfStep>>

Answer(values) == answers' = answers \o values \o <<Done>>

\* Mutant: the event queue goes on waiting.
SuggestAgain(e) ==
  IF e.kind \in currentlyWaitingOn
  THEN Answer(<<e>>) /\ UNCHANGED <<currentlyWaitingOn, waitLimit>>
  ELSE UNCHANGED <<answers, currentlyWaitingOn, waitLimit>>

\* suggestEventRecord: an event that the guest waits for answers it.
SuggestEventRecord(e) ==
  IF e.kind \in currentlyWaitingOn
  THEN /\ Answer(<<e>>)
       /\ currentlyWaitingOn' = {}
       /\ waitLimit' = FALSE
  ELSE UNCHANGED <<answers, currentlyWaitingOn, waitLimit>>

Wanted(m) == {e \in eventQueue : e.kind \in m}
First(S)  == {e \in S : \A f \in S : e.id <= f.id}

\* The first event that matches; without one, an empty event now or, by the timer, later.
PeekNextEvent(r) ==
  /\ r.op = "PeekNextEvent" /\ TakeRequest(r)
  /\ \/ /\ \E e \in First(Wanted(r.mask)) : Answer(<<e>>)
        /\ currentlyWaitingOn' = {} /\ waitLimit' = FALSE
     \/ /\ Wanted(r.mask) = {} /\ r.wait
        /\ currentlyWaitingOn' = r.mask /\ waitLimit' = TRUE /\ UNCHANGED answers
     \/ /\ Wanted(r.mask) = {} /\ ~r.wait
        /\ Answer(<<Null>>) /\ currentlyWaitingOn' = {} /\ UNCHANGED waitLimit
  /\ UNCHANGED <<eventQueue, menuGate, dragHandlers, arrived, removed>>

\* Mutant: the first event is removed, whatever its kind.
DequeueFirst(r) ==
  /\ r.op = "DequeueNextEvent" /\ TakeRequest(r)
  /\ \/ eventQueue = {} /\ UNCHANGED <<eventQueue, removed>>
     \/ \E e \in First(eventQueue) : removed' = e /\ eventQueue' = eventQueue \ {e}
  /\ Answer(<<>>)
  /\ UNCHANGED <<currentlyWaitingOn, waitLimit, menuGate, dragHandlers, arrived>>

DequeueNextEvent(r) ==
  /\ r.op = "DequeueNextEvent" /\ TakeRequest(r)
  /\ \/ Wanted(r.mask) = {} /\ UNCHANGED <<eventQueue, removed>>
     \/ \E e \in First(Wanted(r.mask)) : removed' = e /\ eventQueue' = eventQueue \ {e}
  /\ Answer(<<>>)
  /\ UNCHANGED <<currentlyWaitingOn, waitLimit, menuGate, dragHandlers, arrived>>

\* All that match are removed, up to the first that is to stop it.
DiscardEventsUntil(r) ==
  /\ r.op = "DiscardEventsUntil" /\ TakeRequest(r)
  /\ eventQueue' = {e \in eventQueue :
                      e.kind \in r.mask => \E s \in Wanted(r.stop) : s.id <= e.id}
  /\ Answer(<<>>)
  /\ UNCHANGED <<currentlyWaitingOn, waitLimit, menuGate, dragHandlers, arrived, removed>>

Acknowledge(r) ==
  /\ r.op \in Acknowledged \cup OneValue \cup {"FindWindowByCoordinates"} /\ TakeRequest(r)
  /\ Answer(CASE r.op \in OneValue -> <<Anything>>
              [] r.op \in TwoValues -> <<Anything, Anything>>
              [] OTHER -> <<>>)
  /\ UNCHANGED <<head, removed>>

\* A window that is shown becomes the key window first; that another window resigns is told by
\* another notification, which HandleEvent stands for.  enqueueUpdateEvent suggests nothing.
MoreEvents(kinds) ==
  /\ arrived' = arrived + Len(kinds)
  /\ eventQueue' = eventQueue \cup {NewEvent(kinds[k], k) : k \in DOMAIN kinds}

UpdateWindow(r) ==
  /\ TakeRequest(r)
  /\ \/ r.op = "RequestUpdate" /\ MoreEvents(<<"updateEvent">>)
     \/ r.op = "CreateWindow"  /\ MoreEvents(<<"updateEvent">>)
     \/ r.op = "CreateWindow"  /\ MoreEvents(<<"activateEvent", "updateEvent">>)
  /\ Answer(<<>>)
  /\ UNCHANGED <<currentlyWaitingOn, waitLimit, menuGate, dragHandlers, removed>>

\* The user will have to answer these.
DragWindow(r) ==
  /\ r.op = "DragWindow" /\ TakeRequest(r)
  /\ dragHandlers' = dragHandlers + 1
  /\ UNCHANGED <<answers, eventQueue, currentlyWaitingOn, waitLimit, menuGate, arrived, removed>>

MenuSelect(r) ==
  /\ r.op = "MenuSelect" /\ TakeRequest(r)
  /\ menuGate' = TRUE
  /\ UNCHANGED <<answers, eventQueue, currentlyWaitingOn, waitLimit, dragHandlers, arrived, removed>>

\* If a menu item has that key, pickMenuItem answers for it before the handler does.
MenuKey(r) ==
  /\ r.op = "MenuKey" /\ TakeRequest(r)
  /\ \/ Answer(<<>>) /\ menuGate' = TRUE
     \/ Answer(<<Anything, Anything, Done>>) /\ menuGate' = FALSE
  /\ UNCHANGED <<eventQueue, currentlyWaitingOn, waitLimit, dragHandlers, arrived, removed>>

Handle(r) ==
  \/ PeekNextEvent(r) \/ DequeueNextEvent(r) \/ DiscardEventsUntil(r) \/ Acknowledge(r)
  \/ UpdateWindow(r) \/ DragWindow(r) \/ MenuSelect(r) \/ MenuKey(r)

ProcessIPCMessage == requests # <<>> /\ Handle(Head(requests))

-----------------------------------------------------------------------------
(* What happens to the head *)

\* An event for the application's own handler: it is queued, and suggested.
HandleEvent(kind) ==
  /\ dragHandlers = 0
  /\ arrived + Reserved < MaxEvents
  /\ MoreEvents(<<kind>>)
  /\ SuggestEventRecord(NewEvent(kind, 1))
  /\ UNCHANGED <<client, requests, menuGate, dragHandlers, removed, spoiled, outOfStep>>

\* While a window is dragged nothing else gets an event; its end answers.
EndDrag ==
  /\ dragHandlers > 0
  /\ dragHandlers' = dragHandlers - 1
  /\ Answer(<<>>)
  /\ UNCHANGED <<client, requests, eventQueue, currentlyWaitingOn, waitLimit, menuGate, arrived,
                 removed, spoiled, outOfStep>>

\* A menu item is picked, or the interaction ends without one.
PickMenuItem ==
  /\ menuGate
  /\ menuGate' = FALSE
  /\ Answer(<<Anything, Anything>>)
  /\ UNCHANGED <<client, requests, eventQueue, currentlyWaitingOn, waitLimit, dragHandlers, arrived,
                 removed, spoiled, outOfStep>>

\* Mutant: the timer only ends the waiting.
StopWaitingSilently ==
  /\ waitLimit
  /\ waitLimit' = FALSE
  /\ currentlyWaitingOn' = {}
  /\ UNCHANGED <<client, requests, answers, eventQueue, menuGate, dragHandlers, arrived, removed,
                 spoiled, outOfStep>>

StopWaitingOnEvent ==
  /\ waitLimit
  /\ waitLimit' = FALSE
  /\ currentlyWaitingOn' = {}
  /\ Answer(<<Null>>)
  /\ UNCHANGED <<client, requests, eventQueue, menuGate, dragHandlers, arrived, removed, spoiled,
                 outOfStep>>

-----------------------------------------------------------------------------
Guest == WriteRequest \/ ReadAnswer \/ Return
User  == (\E kind \in Kind \ {"updateEvent"} : HandleEvent(kind)) \/ EndDrag \/ PickMenuItem

NextChannel ==
  /\ ~outOfStep
  /\ (\E name \in ToolboxCall : Call(name)) \/ Guest \/ ProcessIPCMessage \/ User \/ StopWaitingOnEvent

\* Processes run and timers fire; the user need not do anything.
ChannelSpec ==
  /\ InitChannel /\ [][NextChannel]_channelVars
  /\ WF_channelVars(~outOfStep /\ Guest)
  /\ WF_channelVars(~outOfStep /\ ProcessIPCMessage)
  /\ WF_channelVars(~outOfStep /\ StopWaitingOnEvent)

ChannelTypeOK ==
  /\ toolbox \in ToolboxCall \cup {"none"}
  /\ peeked \in Event \cup {Null} /\ removed \in Event \cup {Null}
  /\ eventQueue \subseteq Event
  /\ currentlyWaitingOn \in SUBSET Kind
  /\ waitLimit \in BOOLEAN /\ menuGate \in BOOLEAN
  /\ dragHandlers \in Nat
  /\ arrived \in Nat
  /\ spoiled \in BOOLEAN /\ outOfStep \in BOOLEAN

-----------------------------------------------------------------------------
\* The two sides take turns: while an action is performed, exactly one of these holds: its request
\* is in the pipe, the head owes the answer, or the answer is in the pipe; otherwise nothing is.
\* However events, timer and user interleave, no request is answered twice or answers the next.
\* MenuKey breaks this: it answers twice when a menu item has the key, and not enough when none has.
Count(b) == IF b THEN 1 ELSE 0
Owed     == Count(waitLimit) + Count(menuGate) + Count(dragHandlers > 0)

SidesTakeTurns ==
  ~spoiled =>
    /\ ~outOfStep
    /\ Count(reads # <<>>) = Len(requests) + Owed + Count(answers # <<>>)
    /\ currentlyWaitingOn # {} => waitLimit

\* GetNextEvent and WaitNextEvent remove from the queue the event that they return, if they return
\* one: no event is returned twice, and none instead of another.
ReturnedEventIsRemoved ==
  ~spoiled /\ toolbox \in Takes /\ plan = <<>> /\ reads = <<>> /\ peeked # Null => removed = peeked

\* Every toolbox call returns, but for those that the user has to end.
CallsReturn ==
  toolbox \notin {"none", "DragWindow", "MenuSelect"} ~> toolbox = "none" \/ spoiled

\* GetNextEvent discards an event if it has matched one.
NothingIsDiscardedUnseen == removed # Null => removed = peeked
=============================================================================
