-------------------------- MODULE UIChannel_proof --------------------------
(***************************************************************************)
(* Proofs about UIChannel: guest and head take turns, and the guest gets   *)
(* the events that it removes, for any masks, any toolbox calls and any    *)
(* number of events.                                                       *)
(*                                                                         *)
(* The argument: a request in the pipe, an answer that the head owes and   *)
(* one in the pipe exclude each other, and each of them comes with what    *)
(* the guest is about to read: the shape of the answer to that request.    *)
(***************************************************************************)
EXTENDS UIChannel, SequenceTheorems, TLAPS

Request == [op : Acknowledged \cup OneValue \cup TwoValues \cup
                 {"PeekNextEvent", "DequeueNextEvent", "DiscardEventsUntil", "CreateWindow",
                  "RequestUpdate", "DragWindow"},
            mask : SUBSET Kind, stop : SUBSET Kind, wait : BOOLEAN]
Piece   == {"event", "value", "done"}
Value   == Event \cup {Null, Anything, Done}

PipesOK ==
  /\ plan \in Seq(Request) /\ requests \in Seq(Request)
  /\ reads \in Seq(Piece) /\ answers \in Seq(Value)

NothingOwed == ~waitLimit /\ ~menuGate /\ dragHandlers = 0

Quiet == reads = <<>> /\ requests = <<>> /\ answers = <<>> /\ NothingOwed

Asked ==
  /\ \E r \in Request : requests = <<r>> /\ reads = Shape(r) /\ r.op # "MenuKey"
  /\ answers = <<>> /\ NothingOwed

Owing ==
  /\ requests = <<>> /\ answers = <<>>
  /\ \/ waitLimit /\ ~menuGate /\ dragHandlers = 0 /\ reads = <<"event", "done">>
     \/ ~waitLimit /\ menuGate /\ dragHandlers = 0 /\ reads = <<"value", "value", "done">>
     \/ ~waitLimit /\ ~menuGate /\ dragHandlers = 1 /\ reads = <<"done">>

Answered ==
  /\ requests = <<>> /\ NothingOwed
  /\ answers # <<>> /\ Len(answers) = Len(reads)
  /\ \A k \in 1..Len(answers) : Fits(answers[k], reads[k])

Turn ==
  /\ ~outOfStep
  /\ currentlyWaitingOn # {} => waitLimit
  /\ Quiet \/ Asked \/ Owing \/ Answered

ChannelInv == ChannelTypeOK /\ PipesOK /\ (~spoiled => Turn)

-----------------------------------------------------------------------------
(* Sequences *)

LEMMA Shapes ==
  ASSUME NEW r
  PROVE  \/ Shape(r) = <<"event", "done">> \/ Shape(r) = <<"value", "done">>
         \/ Shape(r) = <<"value", "value", "done">> \/ Shape(r) = <<"done">>
BY DEF Shape

LEMMA Pieces ==
  ASSUME NEW r
  PROVE  Shape(r) \in Seq(Piece) /\ Shape(r) # <<>>
<1>1. /\ <<"event", "done">> \in Seq(Piece) /\ <<"value", "done">> \in Seq(Piece)
      /\ <<"value", "value", "done">> \in Seq(Piece) /\ <<"done">> \in Seq(Piece)
  BY DEF Piece
<1>2. /\ <<"event", "done">> # <<>> /\ <<"value", "done">> # <<>>
      /\ <<"value", "value", "done">> # <<>> /\ <<"done">> # <<>>
  OBVIOUS
<1> QED BY <1>1, <1>2, Shapes

\* The actions of a toolbox call are requests.
LEMMA ActionsAreRequests ==
  ASSUME NEW name \in ToolboxCall, NEW m \in Mask, NEW s \in Mask, NEW w \in BOOLEAN
  PROVE  Actions(name, m, s, w) \in Seq(Request)
<1>1. m \in SUBSET Kind /\ s \in SUBSET Kind
  BY ChannelAssumption
<1>2. \A op : op \in Acknowledged \cup OneValue \cup TwoValues \cup
                     {"CreateWindow", "RequestUpdate", "DragWindow"} => Plain(op) \in Request
  BY DEF Plain, Request
<1>3. Peek(m, TRUE) \in Request /\ Peek(m, FALSE) \in Request /\ Peek(m, w) \in Request
  BY <1>1 DEF Peek, Request
<1>4. Dequeue(m) \in Request /\ Discard(m, s) \in Request
  BY <1>1 DEF Dequeue, Discard, Request
<1>5. \A a, b, c \in Request : <<a>> \in Seq(Request) /\ <<a, b>> \in Seq(Request)
                              /\ <<a, b, c>> \in Seq(Request)
  OBVIOUS
<1>6. CASE name \in {"Button", "EventAvail", "GetNextEvent", "WaitNextEvent", "FlushEvents"}
  BY <1>2, <1>3, <1>4, <1>5, <1>6 DEF Actions, Acknowledged, OneValue
<1>7. CASE name \in {"DrawMenuBar", "NewCWindow", "FindWindow", "FrontWindow"}
  BY <1>2, <1>5, <1>7 DEF Actions, Acknowledged, OneValue, TwoValues
<1>8. CASE name \in Acknowledged \cup {"DragWindow", "MenuSelect", "MenuKey", "RequestUpdate"}
  <2>1. Plain(name) \in Request
    BY <1>2, <1>8 DEF TwoValues
  <2>2. Actions(name, m, s, w) = << Plain(name) >>
    BY <1>8 DEF Actions, Acknowledged
  <2> QED BY <2>1, <2>2
<1> QED
  BY <1>6, <1>7, <1>8, ChannelAssumption

LEMMA HeadAndTail ==
  ASSUME NEW S, NEW s \in Seq(S), s # <<>>
  PROVE  Head(s) \in S /\ Tail(s) \in Seq(S)
BY HeadTailProperties

\* What Answer puts into the pipe.
LEMMA AnswerIsPut ==
  ASSUME NEW values \in Seq(Value), answers \in Seq(Value), Answer(values)
  PROVE  answers' \in Seq(Value)
<1>1. <<Done>> \in Seq(Value)
  BY DEF Value
<1> QED BY <1>1, ConcatProperties DEF Answer

LEMMA AnswerIsAll ==
  ASSUME NEW values \in Seq(Value), answers = <<>>, Answer(values)
  PROVE  /\ Len(answers') = Len(values) + 1
         /\ \A k \in 1..Len(values) : answers'[k] = values[k]
         /\ answers'[Len(values) + 1] = Done
<1>1. <<Done>> \in Seq(Value) /\ <<>> \in Seq(Value)
  BY DEF Value
<1>2. <<>> \o values = values
  BY ConcatEmptySeq
<1>3. answers' = values \o <<Done>>
  BY <1>2 DEF Answer
<1>4. Len(<<Done>>) = 1 /\ <<Done>>[1] = Done
  OBVIOUS
<1> QED BY <1>1, <1>3, <1>4, ConcatProperties

-----------------------------------------------------------------------------
(* Types *)

\* A request that the head takes is one.
LEMMA RequestTaken ==
  ASSUME PipesOK, NEW r, TakeRequest(r)
  PROVE  /\ r \in Request /\ requests' \in Seq(Request)
         /\ UNCHANGED <<toolbox, plan, reads, peeked, spoiled, outOfStep>>
BY HeadAndTail DEF PipesOK, TakeRequest, client

LEMMA EventsAreEvents ==
  ASSUME ChannelTypeOK, NEW k \in Nat \ {0}, NEW kind \in Kind
  PROVE  NewEvent(kind, k) \in Event
<1>1. arrived + k \in Nat \ {0}
  BY DEF ChannelTypeOK
<1> QED BY <1>1 DEF NewEvent, Event

LEMMA MoreTypes ==
  ASSUME ChannelTypeOK, NEW kinds \in Seq(Kind), MoreEvents(kinds)
  PROVE  arrived' \in Nat /\ eventQueue' \subseteq Event
<1>1. Len(kinds) \in Nat /\ DOMAIN kinds = 1..Len(kinds) /\ \A k \in DOMAIN kinds : kinds[k] \in Kind
  OBVIOUS
<1>2. arrived' \in Nat
  BY <1>1 DEF MoreEvents, ChannelTypeOK
<1>3. \A k \in DOMAIN kinds : NewEvent(kinds[k], k) \in Event
  BY <1>1, EventsAreEvents
<1>4. eventQueue' = eventQueue \cup {NewEvent(kinds[k], k) : k \in DOMAIN kinds}
  BY DEF MoreEvents
<1> QED BY <1>2, <1>3, <1>4 DEF ChannelTypeOK

\* A request's handler keeps the types, whatever it answers.
LEMMA HandlerTypes ==
  ASSUME ChannelTypeOK, PipesOK, NEW r, Handle(r)
  PROVE  ChannelTypeOK' /\ PipesOK'
<1> USE DEF ChannelTypeOK
<1>0. TakeRequest(r)
  BY DEF Handle, PeekNextEvent, DequeueNextEvent, DiscardEventsUntil, Acknowledge, UpdateWindow,
         DragWindow, MenuSelect, MenuKey
<1>1. /\ r \in Request /\ requests' \in Seq(Request) /\ answers \in Seq(Value)
      /\ UNCHANGED <<toolbox, plan, reads, peeked, spoiled, outOfStep>>
  BY <1>0, RequestTaken DEF PipesOK
<1>2. /\ <<>> \in Seq(Value) /\ <<Null>> \in Seq(Value) /\ <<Anything>> \in Seq(Value)
      /\ <<Anything, Anything>> \in Seq(Value) /\ <<Anything, Anything, Done>> \in Seq(Value)
      /\ \A e \in Event : <<e>> \in Seq(Value)
  BY DEF Value
<1>3. SUFFICES /\ answers' \in Seq(Value) /\ removed' \in Event \cup {Null}
               /\ eventQueue' \subseteq Event /\ currentlyWaitingOn' \in SUBSET Kind
               /\ waitLimit' \in BOOLEAN /\ menuGate' \in BOOLEAN
               /\ dragHandlers' \in Nat /\ arrived' \in Nat
  BY <1>1 DEF PipesOK
<1>4. CASE PeekNextEvent(r)
  <2>1. answers' \in Seq(Value)
    BY <1>1, <1>2, <1>4, AnswerIsPut DEF PeekNextEvent, First, Wanted
  <2> QED BY <1>1, <1>4, <2>1 DEF PeekNextEvent, Request
<1>5. CASE DequeueNextEvent(r)
  <2>1. answers' \in Seq(Value)
    BY <1>1, <1>2, <1>5, AnswerIsPut DEF DequeueNextEvent
  <2> QED BY <1>5, <2>1 DEF DequeueNextEvent, First, Wanted
<1>6. CASE DiscardEventsUntil(r)
  <2>1. answers' \in Seq(Value)
    BY <1>1, <1>2, <1>6, AnswerIsPut DEF DiscardEventsUntil
  <2> QED BY <1>6, <2>1 DEF DiscardEventsUntil
<1>7. CASE Acknowledge(r)
  <2>1. answers' \in Seq(Value)
    BY <1>1, <1>2, <1>7, AnswerIsPut DEF Acknowledge
  <2> QED BY <1>7, <2>1 DEF Acknowledge, head
<1>8. CASE UpdateWindow(r)
  <2>1. answers' \in Seq(Value)
    BY <1>1, <1>2, <1>8, AnswerIsPut DEF UpdateWindow
  <2>2. <<"updateEvent">> \in Seq(Kind) /\ <<"activateEvent", "updateEvent">> \in Seq(Kind)
    BY DEF Kind
  <2>3. arrived' \in Nat /\ eventQueue' \subseteq Event
    BY <1>8, <2>2, MoreTypes DEF UpdateWindow
  <2> QED BY <1>8, <2>1, <2>3 DEF UpdateWindow
<1>9. CASE DragWindow(r)
  BY <1>1, <1>9 DEF DragWindow
<1>10. CASE MenuSelect(r)
  BY <1>1, <1>10 DEF MenuSelect
<1>11. CASE MenuKey(r)
  <2>1. answers' \in Seq(Value)
    BY <1>1, <1>2, <1>11, AnswerIsPut DEF MenuKey
  <2> QED BY <1>11, <2>1 DEF MenuKey
<1> QED BY <1>4, <1>5, <1>6, <1>7, <1>8, <1>9, <1>10, <1>11 DEF Handle

LEMMA GuestTypes ==
  ASSUME ChannelTypeOK, PipesOK, (\E name \in ToolboxCall : Call(name)) \/ Guest
  PROVE  ChannelTypeOK' /\ PipesOK'
<1> USE DEF ChannelTypeOK, PipesOK
<1>1. ASSUME NEW name \in ToolboxCall, Call(name) PROVE ChannelTypeOK' /\ PipesOK'
  <2>1. plan' \in Seq(Request)
    BY <1>1, ActionsAreRequests DEF Call
  <2> QED BY <1>1, <2>1 DEF Call, head
<1>2. CASE WriteRequest
  <2>1. Head(plan) \in Request /\ plan' \in Seq(Request)
    BY <1>2, HeadAndTail DEF WriteRequest
  <2>2. requests' \in Seq(Request) /\ reads' \in Seq(Piece)
    BY <1>2, <2>1, Pieces, AppendProperties DEF WriteRequest
  <2>3. spoiled' \in BOOLEAN
    BY <1>2 DEF WriteRequest
  <2> QED BY <1>2, <2>1, <2>2, <2>3 DEF WriteRequest, head
<1>3. CASE ReadAnswer
  <2>1. reads' \in Seq(Piece) /\ answers' \in Seq(Value)
    BY <1>3, HeadAndTail DEF ReadAnswer
  <2>2. peeked' \in Event \cup {Null}
    BY <1>3 DEF ReadAnswer, Fits, IsEvent
  <2>3. outOfStep' \in BOOLEAN
    BY <1>3 DEF ReadAnswer
  <2> QED BY <1>3, <2>1, <2>2, <2>3 DEF ReadAnswer, head
<1>4. CASE Return
  BY <1>4 DEF Return, head
<1> QED BY <1>1, <1>2, <1>3, <1>4 DEF Guest

LEMMA HeadTypes ==
  ASSUME ChannelTypeOK, PipesOK, User \/ StopWaitingOnEvent
  PROVE  ChannelTypeOK' /\ PipesOK'
<1> USE DEF ChannelTypeOK, PipesOK
<1>0. /\ <<>> \in Seq(Value) /\ <<Null>> \in Seq(Value) /\ <<Anything, Anything>> \in Seq(Value)
      /\ \A e \in Event : <<e>> \in Seq(Value)
  BY DEF Value
<1>1. ASSUME NEW kind \in Kind, HandleEvent(kind) PROVE ChannelTypeOK' /\ PipesOK'
  <2>1. arrived' \in Nat /\ eventQueue' \subseteq Event
    <3>1. <<kind>> \in Seq(Kind)
      OBVIOUS
    <3> QED BY <1>1, <3>1, MoreTypes DEF HandleEvent
  <2>2. NewEvent(kind, 1) \in Event
    BY EventsAreEvents
  <2>3. answers' \in Seq(Value)
    BY <1>0, <1>1, <2>2, AnswerIsPut DEF HandleEvent, SuggestEventRecord
  <2>4. currentlyWaitingOn' \in SUBSET Kind /\ waitLimit' \in BOOLEAN
    BY <1>1 DEF HandleEvent, SuggestEventRecord
  <2> QED BY <1>1, <2>1, <2>3, <2>4 DEF HandleEvent, client
<1>2. CASE EndDrag
  <2>1. answers' \in Seq(Value)
    BY <1>0, <1>2, AnswerIsPut DEF EndDrag
  <2>2. dragHandlers' \in Nat
    BY <1>2 DEF EndDrag
  <2> QED BY <1>2, <2>1, <2>2 DEF EndDrag, client
<1>3. CASE PickMenuItem
  <2>1. answers' \in Seq(Value)
    BY <1>0, <1>3, AnswerIsPut DEF PickMenuItem
  <2> QED BY <1>3, <2>1 DEF PickMenuItem, client
<1>4. CASE StopWaitingOnEvent
  <2>1. answers' \in Seq(Value)
    BY <1>0, <1>4, AnswerIsPut DEF StopWaitingOnEvent
  <2> QED BY <1>4, <2>1 DEF StopWaitingOnEvent, client
<1> QED BY <1>1, <1>2, <1>3, <1>4 DEF User

LEMMA InitTypes == InitChannel => ChannelTypeOK /\ PipesOK
<1> SUFFICES ASSUME InitChannel PROVE ChannelTypeOK /\ PipesOK
  OBVIOUS
<1>1. PipesOK
  BY DEF InitChannel, PipesOK
<1>2. waitLimit \in BOOLEAN /\ menuGate \in BOOLEAN /\ spoiled \in BOOLEAN /\ outOfStep \in BOOLEAN
  BY DEF InitChannel
<1> QED BY <1>1, <1>2 DEF InitChannel, ChannelTypeOK

LEMMA NextTypes ==
  ASSUME ChannelTypeOK, PipesOK, [NextChannel]_channelVars
  PROVE  ChannelTypeOK' /\ PipesOK'
<1>1. CASE UNCHANGED channelVars
  BY <1>1 DEF channelVars, client, head, ChannelTypeOK, PipesOK
<1> QED BY <1>1, GuestTypes, HeadTypes, HandlerTypes DEF NextChannel, ProcessIPCMessage

\* All variables keep their types: what the guest takes for an event is one, whatever the pipes hold.
THEOREM ChannelTypeCorrect == ChannelSpec => []ChannelTypeOK
<1>1. ChannelTypeOK /\ PipesOK /\ [NextChannel]_channelVars => ChannelTypeOK' /\ PipesOK'
  BY NextTypes
<1> QED BY <1>1, InitTypes, PTL DEF ChannelSpec

-----------------------------------------------------------------------------
(* Turns *)

\* An answer that fits what the guest reads, when all else is quiet, is the guest's turn.
LEMMA AnswerFits ==
  ASSUME NEW values \in Seq(Value), answers = <<>>, Answer(values),
         requests' = <<>>, NothingOwed',
         Len(reads') = Len(values) + 1,
         \A k \in 1..Len(values) : Fits(values[k], reads'[k]),
         reads'[Len(values) + 1] = "done"
  PROVE  Answered'
<1>1. /\ Len(answers') = Len(values) + 1 /\ answers'[Len(values) + 1] = Done
      /\ \A k \in 1..Len(values) : answers'[k] = values[k]
  BY AnswerIsAll
<1>2. Len(values) \in Nat
  OBVIOUS
<1>3. answers' # <<>>
  BY <1>1, <1>2
<1>4. ASSUME NEW k \in 1..Len(answers') PROVE Fits(answers'[k], reads'[k])
  <2>1. CASE k = Len(values) + 1
    BY <1>1, <2>1 DEF Fits
  <2>2. CASE k # Len(values) + 1
    <3>1. k \in 1..Len(values)
      BY <1>1, <1>2, <2>2
    <3> QED BY <1>1, <3>1
  <2> QED BY <2>1, <2>2
<1> QED BY <1>1, <1>3, <1>4 DEF Answered

\* The answers that there are.
LEMMA DoneFits ==
  ASSUME answers = <<>>, Answer(<<>>), requests' = <<>>, NothingOwed', reads' = <<"done">>
  PROVE  Answered'
<1>1. <<>> \in Seq(Value)
  BY DEF Value
<1>2. \A k \in 1..Len(<<>>) : Fits(<<>>[k], reads'[k])
  OBVIOUS
<1>3. Len(reads') = Len(<<>>) + 1 /\ reads'[Len(<<>>) + 1] = "done"
  OBVIOUS
<1> QED BY <1>1, <1>2, <1>3, AnswerFits

LEMMA EventFits ==
  ASSUME NEW e \in Event \cup {Null},
         answers = <<>>, Answer(<<e>>), requests' = <<>>, NothingOwed', reads' = <<"event", "done">>
  PROVE  Answered'
<1>1. <<e>> \in Seq(Value)
  BY DEF Value
<1>2. \A k \in 1..Len(<<e>>) : Fits(<<e>>[k], reads'[k])
  <2>1. Fits(e, "event")
    BY DEF Fits, IsEvent
  <2> QED BY <2>1
<1>3. Len(reads') = Len(<<e>>) + 1 /\ reads'[Len(<<e>>) + 1] = "done"
  OBVIOUS
<1> QED BY <1>1, <1>2, <1>3, AnswerFits

LEMMA ValueFits ==
  ASSUME answers = <<>>, Answer(<<Anything>>), requests' = <<>>, NothingOwed',
         reads' = <<"value", "done">>
  PROVE  Answered'
<1>1. <<Anything>> \in Seq(Value)
  BY DEF Value
<1>2. \A k \in 1..Len(<<Anything>>) : Fits(<<Anything>>[k], reads'[k])
  <2>1. Fits(Anything, "value")
    BY DEF Fits
  <2> QED BY <2>1
<1>3. Len(reads') = Len(<<Anything>>) + 1 /\ reads'[Len(<<Anything>>) + 1] = "done"
  OBVIOUS
<1> QED BY <1>1, <1>2, <1>3, AnswerFits

LEMMA ValuesFit ==
  ASSUME answers = <<>>, Answer(<<Anything, Anything>>), requests' = <<>>, NothingOwed',
         reads' = <<"value", "value", "done">>
  PROVE  Answered'
<1>1. <<Anything, Anything>> \in Seq(Value)
  BY DEF Value
<1>2. \A k \in 1..Len(<<Anything, Anything>>) : Fits(<<Anything, Anything>>[k], reads'[k])
  <2>1. Fits(Anything, "value")
    BY DEF Fits
  <2>2. Len(<<Anything, Anything>>) = 2
    OBVIOUS
  <2> QED BY <2>1, <2>2
<1>3. Len(reads') = Len(<<Anything, Anything>>) + 1 /\ reads'[Len(<<Anything, Anything>>) + 1] = "done"
  OBVIOUS
<1> QED BY <1>1, <1>2, <1>3, AnswerFits

\* The head takes a request only when it is its turn, and then the pipe is empty.
LEMMA TakenInTurn ==
  ASSUME PipesOK, Turn, NEW r, r = Head(requests), TakeRequest(r)
  PROVE  /\ requests' = <<>> /\ answers = <<>> /\ NothingOwed /\ currentlyWaitingOn = {}
         /\ reads' = Shape(r) /\ r.op # "MenuKey" /\ r \in Request
         /\ outOfStep' = FALSE
<1>1. Asked
  BY DEF Turn, Quiet, Owing, Answered, TakeRequest
<1>2. PICK q \in Request : requests = <<q>> /\ reads = Shape(q) /\ q.op # "MenuKey"
  BY <1>1 DEF Asked
<1>3. q = r /\ Tail(requests) = <<>>
  BY <1>2
<1> QED BY <1>1, <1>2, <1>3 DEF Asked, Turn, NothingOwed, TakeRequest, client

LEMMA HandlerTurns ==
  ASSUME ChannelTypeOK, PipesOK, Turn, requests # <<>>, NEW r, r = Head(requests), Handle(r)
  PROVE  Turn'
<1>0. TakeRequest(r)
  BY DEF Handle, PeekNextEvent, DequeueNextEvent, DiscardEventsUntil, Acknowledge, UpdateWindow,
         DragWindow, MenuSelect, MenuKey
<1>1. /\ requests' = <<>> /\ answers = <<>> /\ NothingOwed /\ currentlyWaitingOn = {}
      /\ reads' = Shape(r) /\ r.op # "MenuKey" /\ outOfStep' = FALSE
  BY <1>0, TakenInTurn
<1>2. SUFFICES /\ currentlyWaitingOn' # {} => waitLimit'
               /\ Owing' \/ Answered'
  BY <1>1 DEF Turn
<1>3. CASE PeekNextEvent(r)
  <2>1. reads' = <<"event", "done">>
    BY <1>1, <1>3 DEF PeekNextEvent, Shape, OneValue, TwoValues
  <2>2. ~menuGate' /\ dragHandlers' = 0
    BY <1>1, <1>3 DEF PeekNextEvent, NothingOwed
  <2>3. ASSUME NEW e \in First(Wanted(r.mask)), Answer(<<e>>), currentlyWaitingOn' = {}, ~waitLimit'
        PROVE  Answered'
    <3>1. e \in Event \cup {Null}
      BY DEF First, Wanted, ChannelTypeOK
    <3>2. NothingOwed'
      BY <2>2, <2>3 DEF NothingOwed
    <3> QED BY <1>1, <2>1, <2>3, <3>1, <3>2, EventFits
  <2>4. ASSUME currentlyWaitingOn' = r.mask, waitLimit' = TRUE, UNCHANGED answers PROVE Owing'
    BY <1>1, <2>1, <2>2, <2>4 DEF Owing
  <2>5. ASSUME Answer(<<Null>>), currentlyWaitingOn' = {}, UNCHANGED waitLimit PROVE Answered'
    <3>1. NothingOwed'
      BY <1>1, <2>2, <2>5 DEF NothingOwed
    <3> QED BY <1>1, <2>1, <2>5, <3>1, EventFits
  <2>6. CASE /\ \E e \in First(Wanted(r.mask)) : Answer(<<e>>)
             /\ currentlyWaitingOn' = {} /\ waitLimit' = FALSE
    BY <2>3, <2>6
  <2>7. CASE currentlyWaitingOn' = r.mask /\ waitLimit' = TRUE /\ UNCHANGED answers
    BY <2>4, <2>7
  <2>8. CASE Answer(<<Null>>) /\ currentlyWaitingOn' = {} /\ UNCHANGED waitLimit
    BY <2>5, <2>8
  <2> QED BY <1>3, <2>6, <2>7, <2>8 DEF PeekNextEvent
<1>4. CASE DequeueNextEvent(r) \/ DiscardEventsUntil(r) \/ UpdateWindow(r)
  <2>1. reads' = <<"done">>
    BY <1>1, <1>4 DEF DequeueNextEvent, DiscardEventsUntil, UpdateWindow, Shape, OneValue, TwoValues
  <2>2. Answer(<<>>) /\ UNCHANGED <<currentlyWaitingOn, waitLimit, menuGate, dragHandlers>>
    BY <1>4 DEF DequeueNextEvent, DiscardEventsUntil, UpdateWindow
  <2>3. NothingOwed'
    BY <1>1, <2>2 DEF NothingOwed
  <2> QED BY <1>1, <2>1, <2>2, <2>3, DoneFits
<1>5. CASE Acknowledge(r)
  <2>1. UNCHANGED <<currentlyWaitingOn, waitLimit, menuGate, dragHandlers>>
    BY <1>5 DEF Acknowledge, head
  <2>2. NothingOwed'
    BY <1>1, <2>1 DEF NothingOwed
  <2>3. CASE r.op \in OneValue
    <3>1. reads' = <<"value", "done">> /\ Answer(<<Anything>>)
      BY <1>1, <1>5, <2>3 DEF Acknowledge, Shape, OneValue, TwoValues
    <3> QED BY <1>1, <2>1, <2>2, <3>1, ValueFits
  <2>4. CASE r.op = "FindWindowByCoordinates"
    <3>1. reads' = <<"value", "value", "done">> /\ Answer(<<Anything, Anything>>)
      BY <1>1, <1>5, <2>4 DEF Acknowledge, Shape, OneValue, TwoValues
    <3> QED BY <1>1, <2>1, <2>2, <3>1, ValuesFit
  <2>5. CASE r.op \in Acknowledged
    <3>1. reads' = <<"done">> /\ Answer(<<>>)
      BY <1>1, <1>5, <2>5 DEF Acknowledge, Shape, OneValue, TwoValues, Acknowledged
    <3> QED BY <1>1, <2>1, <2>2, <3>1, DoneFits
  <2> QED BY <1>5, <2>3, <2>4, <2>5 DEF Acknowledge
<1>6. CASE DragWindow(r)
  <2>1. reads' = <<"done">>
    BY <1>1, <1>6 DEF DragWindow, Shape, OneValue, TwoValues
  <2> QED BY <1>1, <1>6, <2>1 DEF DragWindow, NothingOwed, Owing
<1>7. CASE MenuSelect(r)
  <2>1. reads' = <<"value", "value", "done">>
    BY <1>1, <1>7 DEF MenuSelect, Shape, OneValue, TwoValues
  <2> QED BY <1>1, <1>7, <2>1 DEF MenuSelect, NothingOwed, Owing
<1>8. CASE MenuKey(r)
  BY <1>1, <1>8 DEF MenuKey
<1> QED BY <1>3, <1>4, <1>5, <1>6, <1>7, <1>8 DEF Handle

LEMMA GuestTurns ==
  ASSUME ChannelTypeOK, PipesOK, Turn, (\E name \in ToolboxCall : Call(name)) \/ Guest
  PROVE  ~spoiled' => Turn'
<1>1. CASE (\E name \in ToolboxCall : Call(name)) \/ Return
  BY <1>1 DEF Call, Return, head, Turn, Quiet, Asked, Owing, Answered, NothingOwed
<1>2. CASE WriteRequest
  <2>1. Quiet
    BY <1>2, Pieces DEF WriteRequest, Turn, Asked, Owing, Answered
  <2>2. Head(plan) \in Request
    BY <1>2, HeadAndTail DEF WriteRequest, PipesOK
  <2>3. requests' = <<Head(plan)>> /\ reads' = Shape(Head(plan))
    BY <1>2, <2>1 DEF WriteRequest, Quiet
  <2>4. ~spoiled' => Head(plan).op # "MenuKey"
    BY <1>2 DEF WriteRequest
  <2>5. UNCHANGED <<answers, waitLimit, menuGate, dragHandlers, currentlyWaitingOn, outOfStep>>
    BY <1>2 DEF WriteRequest, head
  <2> QED BY <2>1, <2>2, <2>3, <2>4, <2>5 DEF Turn, Quiet, Asked, NothingOwed
<1>3. CASE ReadAnswer
  <2>1. Answered
    BY <1>3 DEF ReadAnswer, Turn, Quiet, Asked, Owing
  <2>2. Fits(Head(answers), Head(reads))
    BY <1>3, <2>1 DEF ReadAnswer, Answered, PipesOK
  <2>3. /\ reads' = Tail(reads) /\ answers' = Tail(answers)
        /\ UNCHANGED <<requests, waitLimit, menuGate, dragHandlers, currentlyWaitingOn, outOfStep>>
    BY <1>3, <2>2 DEF ReadAnswer, head
  <2>4. /\ Len(answers') = Len(answers) - 1 /\ Len(reads') = Len(reads) - 1
        /\ \A k \in 1..Len(answers') : answers'[k] = answers[k + 1] /\ reads'[k] = reads[k + 1]
        /\ answers' \in Seq(Value) /\ reads' \in Seq(Piece)
    BY <1>3, <2>1, <2>3, HeadTailProperties DEF ReadAnswer, Answered, PipesOK
  <2>5. \A k \in 1..Len(answers') : Fits(answers'[k], reads'[k])
    <3>1. SUFFICES ASSUME NEW k \in 1..Len(answers') PROVE Fits(answers[k + 1], reads[k + 1])
      BY <2>4
    <3>2. k + 1 \in 1..Len(answers)
      BY <2>4 DEF PipesOK
    <3> QED BY <2>1, <3>2 DEF Answered
  <2>6. CASE answers' = <<>>
    <3>1. reads' = <<>>
      BY <2>1, <2>4, <2>6 DEF Answered
    <3> QED BY <2>1, <2>3, <2>6, <3>1 DEF Turn, Quiet, Answered, NothingOwed
  <2>7. CASE answers' # <<>>
    BY <2>1, <2>3, <2>4, <2>5, <2>7 DEF Turn, Answered, NothingOwed
  <2> QED BY <2>6, <2>7
<1> QED BY <1>1, <1>2, <1>3 DEF Guest

LEMMA HeadTurns ==
  ASSUME ChannelTypeOK, PipesOK, Turn, User \/ StopWaitingOnEvent
  PROVE  Turn'
<1>1. ASSUME NEW kind \in Kind, HandleEvent(kind) PROVE Turn'
  <2>1. NewEvent(kind, 1) \in Event /\ NewEvent(kind, 1).kind = kind
    BY EventsAreEvents DEF NewEvent
  <2>2. UNCHANGED <<requests, reads, menuGate, dragHandlers, outOfStep>>
    BY <1>1 DEF HandleEvent, client
  <2>3. CASE kind \in currentlyWaitingOn
    <3>1. /\ Answer(<<NewEvent(kind, 1)>>) /\ currentlyWaitingOn' = {} /\ waitLimit' = FALSE
      BY <1>1, <2>1, <2>3 DEF HandleEvent, SuggestEventRecord
    <3>2. waitLimit
      BY <2>3 DEF Turn
    <3>3. /\ requests = <<>> /\ answers = <<>> /\ ~menuGate /\ dragHandlers = 0
          /\ reads = <<"event", "done">>
      BY <3>2 DEF Turn, Quiet, Asked, Owing, Answered, NothingOwed
    <3>4. NothingOwed' /\ requests' = <<>> /\ reads' = <<"event", "done">>
      BY <2>2, <3>1, <3>3 DEF NothingOwed
    <3>5. Answered'
      BY <2>1, <3>1, <3>3, <3>4, EventFits
    <3> QED BY <2>2, <3>1, <3>5 DEF Turn
  <2>4. CASE kind \notin currentlyWaitingOn
    <3>1. UNCHANGED <<answers, currentlyWaitingOn, waitLimit>>
      BY <1>1, <2>1, <2>4 DEF HandleEvent, SuggestEventRecord
    <3> QED BY <2>2, <3>1 DEF Turn, Quiet, Asked, Owing, Answered, NothingOwed
  <2> QED BY <2>3, <2>4
<1>2. CASE EndDrag
  <2>1. /\ requests = <<>> /\ answers = <<>> /\ ~waitLimit /\ ~menuGate /\ dragHandlers = 1
        /\ reads = <<"done">> /\ currentlyWaitingOn = {}
    BY <1>2 DEF EndDrag, Turn, Quiet, Asked, Owing, Answered, NothingOwed
  <2>2. NothingOwed' /\ requests' = <<>> /\ reads' = <<"done">> /\ Answer(<<>>)
    BY <1>2, <2>1 DEF EndDrag, NothingOwed, client
  <2>3. Answered'
    BY <2>1, <2>2, DoneFits
  <2> QED BY <1>2, <2>1, <2>3 DEF EndDrag, Turn
<1>3. CASE PickMenuItem
  <2>1. /\ requests = <<>> /\ answers = <<>> /\ ~waitLimit /\ dragHandlers = 0
        /\ reads = <<"value", "value", "done">> /\ currentlyWaitingOn = {}
    BY <1>3 DEF PickMenuItem, Turn, Quiet, Asked, Owing, Answered, NothingOwed
  <2>2. /\ NothingOwed' /\ requests' = <<>> /\ reads' = <<"value", "value", "done">>
        /\ Answer(<<Anything, Anything>>)
    BY <1>3, <2>1 DEF PickMenuItem, NothingOwed, client
  <2>3. Answered'
    BY <2>1, <2>2, ValuesFit
  <2> QED BY <1>3, <2>1, <2>3 DEF PickMenuItem, Turn
<1>4. CASE StopWaitingOnEvent
  <2>1. /\ requests = <<>> /\ answers = <<>> /\ ~menuGate /\ dragHandlers = 0
        /\ reads = <<"event", "done">>
    BY <1>4 DEF StopWaitingOnEvent, Turn, Quiet, Asked, Owing, Answered, NothingOwed
  <2>2. NothingOwed' /\ requests' = <<>> /\ reads' = <<"event", "done">> /\ Answer(<<Null>>)
    BY <1>4, <2>1 DEF StopWaitingOnEvent, NothingOwed, client
  <2>3. Answered'
    BY <2>1, <2>2, EventFits
  <2> QED BY <1>4, <2>1, <2>3 DEF StopWaitingOnEvent, Turn
<1> QED BY <1>1, <1>2, <1>3, <1>4 DEF User

LEMMA InitInv == InitChannel => ChannelInv
BY InitTypes DEF InitChannel, ChannelInv, Turn, Quiet, NothingOwed

LEMMA NextInv ==
  ASSUME ChannelInv, [NextChannel]_channelVars
  PROVE  ChannelInv'
<1>1. ChannelTypeOK' /\ PipesOK'
  BY NextTypes DEF ChannelInv
<1>2. ASSUME ~spoiled' PROVE Turn'
  <2>1. CASE UNCHANGED channelVars
    BY <1>2, <2>1 DEF ChannelInv, channelVars, client, head, Turn, Quiet, Asked, Owing, Answered,
                      NothingOwed
  <2>2. CASE (\E name \in ToolboxCall : Call(name)) \/ Guest
    <3>1. ~spoiled
      BY <1>2, <2>2 DEF Call, Guest, WriteRequest, ReadAnswer, Return
    <3> QED BY <1>2, <2>2, <3>1, GuestTurns DEF ChannelInv
  <2>3. CASE ProcessIPCMessage
    <3>1. ~spoiled
      BY <1>2, <2>3 DEF ProcessIPCMessage, Handle, PeekNextEvent, DequeueNextEvent, TakeRequest,
            DiscardEventsUntil, Acknowledge, UpdateWindow, DragWindow, MenuSelect, MenuKey
    <3> QED BY <2>3, <3>1, HandlerTurns DEF ChannelInv, ProcessIPCMessage
  <2>4. CASE User \/ StopWaitingOnEvent
    <3>1. ~spoiled
      BY <1>2, <2>4 DEF User, HandleEvent, EndDrag, PickMenuItem, StopWaitingOnEvent
    <3> QED BY <2>4, <3>1, HeadTurns DEF ChannelInv
  <2> QED BY <2>1, <2>2, <2>3, <2>4 DEF NextChannel
<1> QED BY <1>1, <1>2 DEF ChannelInv

LEMMA InvHolds == ChannelSpec => []ChannelInv
BY InitInv, NextInv, PTL DEF ChannelSpec

-----------------------------------------------------------------------------
\* How much the head owes, counted.
LEMMA OwedCounted ==
  /\ NothingOwed => Owed = 0
  /\ waitLimit /\ ~menuGate /\ dragHandlers = 0 => Owed = 1
  /\ ~waitLimit /\ menuGate /\ dragHandlers = 0 => Owed = 1
  /\ ~waitLimit /\ ~menuGate /\ dragHandlers = 1 => Owed = 1
BY DEF Owed, Count, NothingOwed

\* Guest and head take turns until MenuKey is called: no request is answered twice, by the timer and
\* an event or by the user, and no answer is taken for that of the next request.
THEOREM TurnsTaken == ChannelSpec => []SidesTakeTurns
<1>1. ASSUME ChannelInv, ~spoiled
      PROVE  Count(reads # <<>>) = Len(requests) + Owed + Count(answers # <<>>)
  <2>1. CASE Quiet
    <3>1. Len(requests) = 0
      BY <2>1 DEF Quiet
    <3>2. Owed = 0 /\ Count(reads # <<>>) = 0 /\ Count(answers # <<>>) = 0
      BY <2>1, OwedCounted DEF Quiet, Count
    <3> QED BY <3>1, <3>2
  <2>2. CASE Asked
    <3>1. PICK r \in Request : requests = <<r>> /\ reads = Shape(r)
      BY <2>2 DEF Asked
    <3>2. Len(requests) = 1 /\ reads # <<>>
      BY <3>1, Pieces
    <3> QED BY <2>2, <3>2, OwedCounted DEF Asked, Count
  <2>3. CASE Owing
    <3>1. Len(requests) = 0 /\ answers = <<>> /\ reads # <<>>
      BY <2>3 DEF Owing
    <3>2. Owed = 1
      BY <2>3, OwedCounted DEF Owing
    <3> QED BY <3>1, <3>2 DEF Count
  <2>4. CASE Answered
    <3>1. reads # <<>>
      BY <1>1, <2>4 DEF Answered, ChannelInv, PipesOK
    <3> QED BY <2>4, <3>1, OwedCounted DEF Answered, Count
  <2> QED BY <1>1, <2>1, <2>2, <2>3, <2>4 DEF ChannelInv, Turn
<1>2. ChannelInv => SidesTakeTurns
  BY <1>1 DEF SidesTakeTurns, ChannelInv, Turn
<1> QED BY <1>2, InvHolds, PTL

-----------------------------------------------------------------------------
(* The event that is returned *)

Refresh == Plain("RefreshWindows")

\* No event, or the one that a DequeueNextEvent would remove.
Matches(e, m) == e = Null \/ e \in First(Wanted(m))

\* While PeekNextEvent is performed, with the mask m.
PeekStage(m) ==
  \/ (\E w \in BOOLEAN : requests = <<Peek(m, w)>>) /\ peeked = Null
  \/ requests = <<>> /\ waitLimit /\ currentlyWaitingOn = m /\ Wanted(m) = {} /\ peeked = Null
  \/ /\ requests = <<>> /\ ~waitLimit /\ reads = <<"event", "done">> /\ answers # <<>>
     /\ Matches(Head(answers), m) /\ peeked = Null
  \/ requests = <<>> /\ ~waitLimit /\ reads \in {<<"done">>, <<>>} /\ Matches(peeked, m)

\* While DequeueNextEvent is performed, and after it.
DequeueStage(m) ==
  \/ requests = <<Dequeue(m)>> /\ Matches(peeked, m)
  \/ requests = <<>> /\ ~waitLimit /\ reads \in {<<"done">>, <<>>} /\ (peeked # Null => removed = peeked)

\* GetNextEvent and WaitNextEvent, by what they have yet to do.
Stage(m) ==
  \/ /\ \E w \in BOOLEAN : plan = <<Refresh, Peek(m, w), Dequeue(m)>>
     /\ reads = <<>> /\ requests = <<>> /\ ~waitLimit /\ peeked = Null
  \/ /\ \E w \in BOOLEAN : plan = <<Peek(m, w), Dequeue(m)>>
     /\ requests \in {<<>>, <<Refresh>>} /\ reads \in {<<"done">>, <<>>} /\ ~waitLimit /\ peeked = Null
  \/ plan = <<Dequeue(m)>> /\ PeekStage(m)
  \/ plan = <<>> /\ DequeueStage(m)

\* Events have numbers of their own, and the next one's is larger.
Numbered ==
  /\ \A e \in eventQueue : e.id <= arrived
  /\ \A e, f \in eventQueue : e.id = f.id => e = f

\* Between toolbox calls there is nothing to do or to read.
Resting == toolbox = "none" => plan = <<>> /\ reads = <<>>

TakesInv == ~spoiled /\ toolbox \in Takes => \E m \in Mask : Stage(m)

EventInv == ChannelInv /\ Numbered /\ Resting /\ TakesInv

LEMMA Ops ==
  ASSUME NEW m, NEW w
  PROVE  /\ Refresh.op = "RefreshWindows" /\ Shape(Refresh) = <<"done">>
         /\ Peek(m, w).op = "PeekNextEvent" /\ Peek(m, w).mask = m
         /\ Shape(Peek(m, w)) = <<"event", "done">>
         /\ Dequeue(m).op = "DequeueNextEvent" /\ Dequeue(m).mask = m /\ Shape(Dequeue(m)) = <<"done">>
BY DEF Refresh, Plain, Peek, Dequeue, Shape, OneValue, TwoValues

LEMMA FirstAnswered ==
  ASSUME NEW v \in Value, answers = <<>>, Answer(<<v>>)
  PROVE  answers' # <<>> /\ Head(answers') = v
<1>1. <<v>> \in Seq(Value) /\ answers \in Seq(Value) /\ Len(<<v>>) = 1 /\ <<v>>[1] = v
  OBVIOUS
<1>2. answers' \in Seq(Value)
  BY <1>1, AnswerIsPut
<1>3. Len(answers') = 2 /\ answers'[1] = v
  <2>1. Len(answers') = Len(<<v>>) + 1 /\ \A k \in 1..Len(<<v>>) : answers'[k] = <<v>>[k]
    BY <1>1, AnswerIsAll
  <2> QED BY <1>1, <2>1
<1> QED BY <1>2, <1>3

\* Who reads nothing has nothing under way.
LEMMA QuietWhenNothingRead ==
  ASSUME PipesOK, Turn, reads = <<>>
  PROVE  Quiet
<1>1. ~Asked
  BY Pieces DEF Asked
<1>2. ~Owing
  BY DEF Owing
<1>3. ~Answered
  BY DEF Answered, PipesOK
<1> QED BY <1>1, <1>2, <1>3 DEF Turn

-----------------------------------------------------------------------------
(* The event queue *)

LEMMA MoreNumbered ==
  ASSUME ChannelTypeOK, Numbered, NEW kinds \in Seq(Kind), MoreEvents(kinds)
  PROVE  Numbered'
<1>1. arrived \in Nat /\ Len(kinds) \in Nat /\ DOMAIN kinds = 1..Len(kinds)
  BY DEF ChannelTypeOK
<1>2. arrived' = arrived + Len(kinds)
  BY DEF MoreEvents
<1>3. \A e \in eventQueue : e.id \in Nat /\ e.id <= arrived
  BY DEF ChannelTypeOK, Event, Numbered
<1>4. \A e \in eventQueue' : e \in eventQueue \/ \E k \in DOMAIN kinds : e = NewEvent(kinds[k], k)
  BY DEF MoreEvents
<1>5. \A k \in DOMAIN kinds : NewEvent(kinds[k], k).id = arrived + k
  BY DEF NewEvent
<1>6. ASSUME NEW e \in eventQueue' PROVE e.id <= arrived'
  <2>1. CASE e \in eventQueue
    BY <1>1, <1>2, <1>3, <2>1
  <2>2. ASSUME NEW k \in DOMAIN kinds, e = NewEvent(kinds[k], k) PROVE e.id <= arrived'
    BY <1>1, <1>2, <1>5, <2>2
  <2> QED BY <1>4, <2>1, <2>2
<1>7. ASSUME NEW e \in eventQueue', NEW f \in eventQueue', e.id = f.id PROVE e = f
  <2>1. CASE e \in eventQueue /\ f \in eventQueue
    BY <1>7, <2>1 DEF Numbered
  <2>2. ASSUME NEW k \in DOMAIN kinds, e = NewEvent(kinds[k], k) PROVE e = f
    <3>1. e.id = arrived + k /\ f \notin eventQueue
      BY <1>1, <1>3, <1>5, <1>7, <2>2
    <3>2. PICK l \in DOMAIN kinds : f = NewEvent(kinds[l], l)
      BY <1>4, <3>1
    <3>3. arrived + k = arrived + l
      BY <1>5, <1>7, <3>1, <3>2
    <3>4. k = l
      BY <1>1, <3>3
    <3> QED BY <2>2, <3>2, <3>4
  <2>3. ASSUME NEW k \in DOMAIN kinds, f = NewEvent(kinds[k], k) PROVE e = f
    <3>1. f.id = arrived + k /\ e \notin eventQueue
      BY <1>1, <1>3, <1>5, <1>7, <2>3
    <3>2. PICK l \in DOMAIN kinds : e = NewEvent(kinds[l], l)
      BY <1>4, <3>1
    <3>3. arrived + k = arrived + l
      BY <1>5, <1>7, <3>1, <3>2
    <3>4. k = l
      BY <1>1, <3>3
    <3> QED BY <2>3, <3>2, <3>4
  <2> QED BY <1>4, <2>1, <2>2, <2>3
<1> QED BY <1>6, <1>7 DEF Numbered

\* No queue has two first events.
LEMMA OneFirst ==
  ASSUME ChannelTypeOK, Numbered, NEW m, NEW e \in First(Wanted(m)), NEW f \in First(Wanted(m))
  PROVE  e = f
<1>1. e \in eventQueue /\ f \in eventQueue /\ e.id <= f.id /\ f.id <= e.id
  BY DEF First, Wanted
<1>2. e.id \in Nat /\ f.id \in Nat
  BY <1>1 DEF ChannelTypeOK, Event
<1> QED BY <1>1, <1>2 DEF Numbered

\* What an event that arrives does to the first one with a mask.
LEMMA Arrivals ==
  ASSUME ChannelTypeOK, Numbered, NEW kind \in Kind, MoreEvents(<<kind>>), NEW m
  PROVE  /\ \A e : Matches(e, m) => Matches(e, m)'
         /\ Wanted(m) = {} /\ kind \in m => \A e : e = NewEvent(kind, 1) => Matches(e, m)'
         /\ Wanted(m) = {} /\ kind \notin m => Wanted(m)' = {}
<1>1. eventQueue' = eventQueue \cup {NewEvent(kind, 1)}
  <2>1. DOMAIN <<kind>> = {1} /\ <<kind>>[1] = kind
    OBVIOUS
  <2> QED BY <2>1 DEF MoreEvents
<1>2. NewEvent(kind, 1).id = arrived + 1 /\ NewEvent(kind, 1).kind = kind
  BY DEF NewEvent
<1>3. arrived \in Nat /\ \A e \in eventQueue : e.id \in Nat /\ e.id <= arrived
  BY DEF ChannelTypeOK, Event, Numbered
<1>4. Wanted(m)' = Wanted(m) \cup {e \in {NewEvent(kind, 1)} : e.kind \in m}
  BY <1>1 DEF Wanted
<1>5. ASSUME NEW e, Matches(e, m) PROVE Matches(e, m)'
  <2>1. CASE e = Null
    BY <2>1 DEF Matches
  <2>2. CASE e \in First(Wanted(m))
    <3>1. e \in Wanted(m) /\ e \in eventQueue /\ \A f \in Wanted(m) : e.id <= f.id
      BY <2>2 DEF First, Wanted
    <3>2. e.id <= arrived + 1
      BY <1>3, <3>1
    <3>3. \A f \in Wanted(m)' : e.id <= f.id
      BY <1>2, <1>4, <3>1, <3>2
    <3> QED BY <1>4, <3>1, <3>3 DEF Matches, First
  <2> QED BY <1>5, <2>1, <2>2 DEF Matches
<1>6. ASSUME Wanted(m) = {}, kind \in m, NEW e, e = NewEvent(kind, 1) PROVE Matches(e, m)'
  <2>1. Wanted(m)' = {e}
    BY <1>2, <1>4, <1>6
  <2> QED BY <1>2, <1>3, <1>6, <2>1 DEF Matches, First
<1> QED BY <1>2, <1>4, <1>5, <1>6

LEMMA NumberedKept ==
  ASSUME ChannelTypeOK, PipesOK, Numbered, [NextChannel]_channelVars
  PROVE  Numbered'
<1>1. ASSUME eventQueue' \subseteq eventQueue, UNCHANGED arrived PROVE Numbered'
  BY <1>1 DEF Numbered
<1>2. <<"updateEvent">> \in Seq(Kind) /\ <<"activateEvent", "updateEvent">> \in Seq(Kind)
      /\ \A kind \in Kind : <<kind>> \in Seq(Kind)
  BY DEF Kind
<1>3. CASE UNCHANGED channelVars
  BY <1>1, <1>3 DEF channelVars, head
<1>4. CASE (\E name \in ToolboxCall : Call(name)) \/ Guest
  BY <1>1, <1>4 DEF Call, Guest, WriteRequest, ReadAnswer, Return, head
<1>5. ASSUME NEW r, Handle(r) PROVE Numbered'
  <2>1. CASE UpdateWindow(r)
    BY <1>2, <2>1, MoreNumbered DEF UpdateWindow
  <2>2. CASE PeekNextEvent(r) \/ DequeueNextEvent(r) \/ DiscardEventsUntil(r)
    BY <1>1, <2>2 DEF PeekNextEvent, DequeueNextEvent, DiscardEventsUntil
  <2>3. CASE Acknowledge(r) \/ DragWindow(r) \/ MenuSelect(r) \/ MenuKey(r)
    BY <1>1, <2>3 DEF Acknowledge, DragWindow, MenuSelect, MenuKey, head
  <2> QED BY <1>5, <2>1, <2>2, <2>3 DEF Handle
<1>6. ASSUME NEW kind \in Kind, HandleEvent(kind) PROVE Numbered'
  BY <1>2, <1>6, MoreNumbered DEF HandleEvent
<1>7. CASE EndDrag \/ PickMenuItem \/ StopWaitingOnEvent
  BY <1>1, <1>7 DEF EndDrag, PickMenuItem, StopWaitingOnEvent
<1> QED BY <1>3, <1>4, <1>5, <1>6, <1>7 DEF NextChannel, ProcessIPCMessage, User

LEMMA RestingKept ==
  ASSUME Resting, [NextChannel]_channelVars
  PROVE  Resting'
<1>1. CASE UNCHANGED client
  BY <1>1 DEF Resting, client
<1>2. CASE (\E name \in ToolboxCall : Call(name)) \/ Guest
  <2>1. "none" \notin ToolboxCall
    BY ChannelAssumption DEF Acknowledged
  <2> QED BY <1>2, <2>1 DEF Resting, Call, Guest, WriteRequest, ReadAnswer, Return
<1>3. CASE ProcessIPCMessage
  <2>1. UNCHANGED client
    BY <1>3 DEF ProcessIPCMessage, Handle, PeekNextEvent, DequeueNextEvent, DiscardEventsUntil,
       Acknowledge, UpdateWindow, DragWindow, MenuSelect, MenuKey, TakeRequest
  <2> QED BY <1>1, <2>1
<1>4. CASE User \/ StopWaitingOnEvent \/ UNCHANGED channelVars
  <2>1. UNCHANGED client
    BY <1>4 DEF User, HandleEvent, EndDrag, PickMenuItem, StopWaitingOnEvent, channelVars
  <2> QED BY <1>1, <2>1
<1> QED BY <1>2, <1>3, <1>4 DEF NextChannel

-----------------------------------------------------------------------------
(* The stages of GetNextEvent and WaitNextEvent *)

LEMMA CallStages ==
  ASSUME PipesOK, Turn, Resting, NEW name \in Takes, Call(name)
  PROVE  \E m \in Mask : Stage(m)'
<1>1. PICK m \in Mask, s \in Mask, w \in BOOLEAN : plan' = Actions(name, m, s, w)
  BY DEF Call
<1>2. \E v \in BOOLEAN : plan' = <<Refresh, Peek(m, v), Dequeue(m)>>
  <2>1. CASE name = "GetNextEvent"
    <3>1. plan' = <<Refresh, Peek(m, TRUE), Dequeue(m)>>
      BY <1>1, <2>1 DEF Actions, Refresh, Acknowledged
    <3> QED BY <3>1
  <2>2. CASE name = "WaitNextEvent"
    <3>1. plan' = <<Refresh, Peek(m, w), Dequeue(m)>>
      BY <1>1, <2>2 DEF Actions, Refresh, Acknowledged
    <3> QED BY <3>1
  <2> QED BY <2>1, <2>2 DEF Takes
<1>3. Quiet
  BY QuietWhenNothingRead DEF Call, Resting
<1> QED BY <1>2, <1>3 DEF Call, Stage, Quiet, NothingOwed, head

LEMMA WriteStages ==
  ASSUME PipesOK, Turn, NEW m, Stage(m), WriteRequest
  PROVE  Stage(m)'
<1>1. Quiet /\ requests = <<>> /\ ~waitLimit
  BY QuietWhenNothingRead DEF WriteRequest, Quiet, NothingOwed
<1>2. /\ requests' = <<Head(plan)>> /\ plan' = Tail(plan) /\ reads' = Shape(Head(plan))
      /\ UNCHANGED <<peeked, answers, eventQueue, waitLimit, currentlyWaitingOn, removed>>
  BY <1>1 DEF WriteRequest, head
<1>3. ASSUME NEW w \in BOOLEAN, plan = <<Refresh, Peek(m, w), Dequeue(m)>>, peeked = Null PROVE Stage(m)'
  <2>1. requests' = <<Refresh>> /\ plan' = <<Peek(m, w), Dequeue(m)>> /\ reads' = <<"done">>
    BY <1>2, <1>3, Ops
  <2> QED BY <1>1, <1>2, <1>3, <2>1 DEF Stage
<1>4. ASSUME NEW w \in BOOLEAN, plan = <<Peek(m, w), Dequeue(m)>>, peeked = Null PROVE Stage(m)'
  <2>1. requests' = <<Peek(m, w)>> /\ plan' = <<Dequeue(m)>>
    BY <1>2, <1>4
  <2>2. PeekStage(m)'
    BY <1>2, <1>4, <2>1 DEF PeekStage
  <2> QED BY <2>1, <2>2 DEF Stage
<1>5. CASE plan = <<Dequeue(m)>> /\ PeekStage(m)
  <2>1. Matches(peeked, m)
    BY <1>1, <1>5 DEF PeekStage, WriteRequest
  <2>2. requests' = <<Dequeue(m)>> /\ plan' = <<>>
    BY <1>2, <1>5
  <2>3. DequeueStage(m)'
    BY <1>2, <2>1, <2>2 DEF DequeueStage, Matches, First, Wanted
  <2> QED BY <2>2, <2>3 DEF Stage
<1> QED BY <1>3, <1>4, <1>5 DEF Stage, WriteRequest

LEMMA ReadStages ==
  ASSUME PipesOK, Turn, NEW m, Stage(m), ReadAnswer
  PROVE  Stage(m)'
<1>1. Answered
  BY DEF ReadAnswer, Turn, Quiet, Asked, Owing
<1>2. requests = <<>> /\ ~waitLimit /\ reads # <<>>
  BY <1>1 DEF Answered, NothingOwed, ReadAnswer
<1>3. Fits(Head(answers), Head(reads))
  BY <1>1 DEF ReadAnswer, Answered, PipesOK
<1>4. /\ reads' = Tail(reads)
      /\ peeked' = IF Head(reads) = "event" THEN Head(answers) ELSE peeked
      /\ UNCHANGED <<plan, requests, eventQueue, waitLimit, currentlyWaitingOn, removed>>
  BY <1>3 DEF ReadAnswer, head
<1>5. reads = <<"done">> => reads' = <<>> /\ peeked' = peeked
  BY <1>4
<1>6. \A e : Matches(e, m)' <=> Matches(e, m)
  BY <1>4 DEF Matches, First, Wanted
<1>7. ASSUME NEW w \in BOOLEAN, plan = <<Peek(m, w), Dequeue(m)>>, reads \in {<<"done">>, <<>>}, peeked = Null
      PROVE  Stage(m)'
  BY <1>2, <1>4, <1>5, <1>7 DEF Stage
<1>8. CASE plan = <<Dequeue(m)>> /\ PeekStage(m)
  <2>1. CASE reads = <<"event", "done">> /\ Matches(Head(answers), m)
    <3>1. reads' = <<"done">> /\ peeked' = Head(answers)
      BY <1>4, <2>1
    <3>2. PeekStage(m)'
      BY <1>2, <1>4, <1>6, <2>1, <3>1 DEF PeekStage
    <3> QED BY <1>4, <1>8, <3>2 DEF Stage
  <2>2. CASE reads = <<"done">> /\ Matches(peeked, m)
    <3>1. PeekStage(m)'
      BY <1>2, <1>4, <1>5, <1>6, <2>2 DEF PeekStage
    <3> QED BY <1>4, <1>8, <3>1 DEF Stage
  <2> QED BY <1>2, <1>8, <2>1, <2>2 DEF PeekStage
<1>9. CASE plan = <<>> /\ DequeueStage(m)
  <2>1. reads = <<"done">> /\ (peeked # Null => removed = peeked)
    BY <1>2, <1>9 DEF DequeueStage
  <2>2. DequeueStage(m)'
    BY <1>2, <1>4, <1>5, <2>1 DEF DequeueStage
  <2> QED BY <1>4, <1>9, <2>2 DEF Stage
<1> QED BY <1>2, <1>7, <1>8, <1>9 DEF Stage

LEMMA HandlerStages ==
  ASSUME ChannelTypeOK, PipesOK, Numbered, Turn, NEW m, Stage(m), requests # <<>>, NEW r, r = Head(requests),
         Handle(r)
  PROVE  Stage(m)'
<1>0. TakeRequest(r)
  BY DEF Handle, PeekNextEvent, DequeueNextEvent, DiscardEventsUntil, Acknowledge, UpdateWindow,
         DragWindow, MenuSelect, MenuKey
<1>1. /\ requests' = <<>> /\ answers = <<>> /\ ~waitLimit /\ reads' = Shape(r)
      /\ UNCHANGED <<plan, reads, peeked>>
  BY <1>0, TakenInTurn DEF NothingOwed, TakeRequest, client
<1>2. ASSUME NEW w \in BOOLEAN, plan = <<Peek(m, w), Dequeue(m)>>, requests = <<Refresh>>, peeked = Null
      PROVE  Stage(m)'
  <2>1. r = Refresh
    BY <1>2
  <2>2. Acknowledge(r)
    BY <2>1, Ops DEF Handle, PeekNextEvent, DequeueNextEvent, DiscardEventsUntil, UpdateWindow,
       DragWindow, MenuSelect, MenuKey
  <2>3. UNCHANGED waitLimit /\ reads' = <<"done">>
    BY <1>1, <2>1, <2>2, Ops DEF Acknowledge, head
  <2> QED BY <1>1, <1>2, <2>3 DEF Stage
<1>3. ASSUME plan = <<Dequeue(m)>>, NEW w \in BOOLEAN, requests = <<Peek(m, w)>>, peeked = Null
      PROVE  Stage(m)'
  <2>1. r = Peek(m, w)
    BY <1>3
  <2>2. PeekNextEvent(r) /\ r.mask = m /\ reads' = <<"event", "done">>
    BY <1>1, <2>1, Ops DEF Handle, Acknowledge, DequeueNextEvent, DiscardEventsUntil, UpdateWindow,
       DragWindow, MenuSelect, MenuKey, Acknowledged, OneValue
  <2>3. UNCHANGED eventQueue
    BY <2>2 DEF PeekNextEvent
  <2>4. \A e : Matches(e, m)' <=> Matches(e, m)
    BY <2>3 DEF Matches, First, Wanted
  <2>5. ASSUME NEW e \in Value, Answer(<<e>>), Matches(e, m), ~waitLimit' PROVE PeekStage(m)'
    BY <1>1, <1>3, <2>2, <2>4, <2>5, FirstAnswered DEF PeekStage
  <2>6. ASSUME \E e \in First(Wanted(m)) : Answer(<<e>>), waitLimit' = FALSE PROVE PeekStage(m)'
    <3>1. PICK e \in First(Wanted(m)) : Answer(<<e>>)
      BY <2>6
    <3>2. e \in Value /\ Matches(e, m)
      BY <3>1 DEF Matches, First, Wanted, ChannelTypeOK, Value
    <3> QED BY <2>5, <2>6, <3>1, <3>2
  <2>7. ASSUME Wanted(m) = {}, currentlyWaitingOn' = m, waitLimit' = TRUE PROVE PeekStage(m)'
    <3>1. Wanted(m)' = {}
      BY <2>3, <2>7 DEF Wanted
    <3> QED BY <1>1, <1>3, <2>7, <3>1 DEF PeekStage
  <2>8. ASSUME Answer(<<Null>>), UNCHANGED waitLimit PROVE PeekStage(m)'
    <3>1. Null \in Value /\ Matches(Null, m)
      BY DEF Matches, Value
    <3> QED BY <1>1, <2>5, <2>8, <3>1
  <2>9. PeekStage(m)'
    BY <2>2, <2>6, <2>7, <2>8 DEF PeekNextEvent
  <2> QED BY <1>1, <1>3, <2>9 DEF Stage
<1>4. ASSUME plan = <<>>, requests = <<Dequeue(m)>>, Matches(peeked, m) PROVE Stage(m)'
  <2>1. r = Dequeue(m)
    BY <1>4
  <2>2. DequeueNextEvent(r) /\ r.mask = m /\ reads' = <<"done">>
    BY <1>1, <2>1, Ops DEF Handle, Acknowledge, PeekNextEvent, DiscardEventsUntil, UpdateWindow,
       DragWindow, MenuSelect, MenuKey, Acknowledged, OneValue
  <2>3. peeked # Null => removed' = peeked
    <3>1. SUFFICES ASSUME peeked \in First(Wanted(m)) PROVE removed' = peeked
      BY <1>4 DEF Matches
    <3>2. Wanted(m) # {}
      BY <3>1 DEF First
    <3>3. removed' \in First(Wanted(m))
      BY <2>2, <3>2 DEF DequeueNextEvent
    <3> QED BY <3>1, <3>3, OneFirst
  <2>4. ~waitLimit'
    BY <1>1, <2>2 DEF DequeueNextEvent
  <2>5. DequeueStage(m)'
    BY <1>1, <2>2, <2>3, <2>4 DEF DequeueStage
  <2> QED BY <1>1, <1>4, <2>5 DEF Stage
<1> QED BY <1>2, <1>3, <1>4 DEF Stage, PeekStage, DequeueStage

LEMMA ArrivalStages ==
  ASSUME ChannelTypeOK, PipesOK, Numbered, Turn, NEW m, Stage(m), NEW kind \in Kind, HandleEvent(kind)
  PROVE  Stage(m)'
<1>1. /\ MoreEvents(<<kind>>) /\ SuggestEventRecord(NewEvent(kind, 1))
      /\ UNCHANGED <<plan, reads, peeked, requests, removed>>
  BY DEF HandleEvent, client
<1>2. NewEvent(kind, 1) \in Event /\ NewEvent(kind, 1).kind = kind
  BY EventsAreEvents DEF NewEvent
<1>3. ~waitLimit => UNCHANGED <<answers, currentlyWaitingOn, waitLimit>>
  BY <1>1 DEF SuggestEventRecord, Turn
<1>4. \A e : Matches(e, m) => Matches(e, m)'
  BY <1>1, Arrivals
<1>5. CASE ~waitLimit
  <2>1. PeekStage(m) => PeekStage(m)'
    BY <1>1, <1>3, <1>4, <1>5 DEF PeekStage
  <2>2. DequeueStage(m) => DequeueStage(m)'
    BY <1>1, <1>3, <1>4, <1>5 DEF DequeueStage
  <2> QED BY <1>1, <1>3, <1>5, <2>1, <2>2 DEF Stage
<1>6. CASE waitLimit
  <2>1. requests = <<>> /\ answers = <<>> /\ reads = <<"event", "done">>
    BY <1>6 DEF Turn, Quiet, Asked, Owing, Answered, NothingOwed
  <2>2. plan = <<Dequeue(m)>> /\ currentlyWaitingOn = m /\ Wanted(m) = {} /\ peeked = Null
    BY <1>6, <2>1 DEF Stage, PeekStage, DequeueStage
  <2>3. CASE kind \in m
    <3>1. Answer(<<NewEvent(kind, 1)>>) /\ waitLimit' = FALSE
      BY <1>1, <1>2, <2>2, <2>3 DEF SuggestEventRecord
    <3>2. NewEvent(kind, 1) \in Value
      BY <1>2 DEF Value
    <3>3. answers' # <<>> /\ Head(answers') = NewEvent(kind, 1)
      BY <2>1, <3>1, <3>2, FirstAnswered
    <3>4. Matches(Head(answers), m)'
      BY <1>1, <2>2, <2>3, <3>3, Arrivals
    <3>5. PeekStage(m)'
      BY <1>1, <2>1, <2>2, <3>1, <3>3, <3>4 DEF PeekStage
    <3> QED BY <1>1, <2>2, <3>5 DEF Stage
  <2>4. CASE kind \notin m
    <3>1. UNCHANGED <<answers, currentlyWaitingOn, waitLimit>>
      BY <1>1, <1>2, <2>2, <2>4 DEF SuggestEventRecord
    <3>2. Wanted(m)' = {}
      BY <1>1, <2>2, <2>4, Arrivals
    <3>3. PeekStage(m)'
      BY <1>1, <1>6, <2>1, <2>2, <3>1, <3>2 DEF PeekStage
    <3> QED BY <1>1, <2>2, <3>3 DEF Stage
  <2> QED BY <2>3, <2>4
<1> QED BY <1>5, <1>6

LEMMA OtherStages ==
  ASSUME PipesOK, Turn, NEW m, Stage(m), EndDrag \/ PickMenuItem \/ StopWaitingOnEvent
  PROVE  Stage(m)'
<1>1. UNCHANGED <<plan, reads, peeked, requests, removed, eventQueue>>
  BY DEF EndDrag, PickMenuItem, StopWaitingOnEvent, client
<1>2. \A e : Matches(e, m)' <=> Matches(e, m)
  BY <1>1 DEF Matches, First, Wanted
<1>3. CASE EndDrag \/ PickMenuItem
  <2>1. ~waitLimit /\ ~waitLimit' /\ reads # <<"event", "done">>
    BY <1>3 DEF EndDrag, PickMenuItem, Turn, Quiet, Asked, Owing, Answered, NothingOwed
  <2>2. PeekStage(m) => PeekStage(m)'
    BY <1>1, <1>2, <2>1 DEF PeekStage
  <2>3. DequeueStage(m) => DequeueStage(m)'
    BY <1>1, <1>2, <2>1 DEF DequeueStage
  <2> QED BY <1>1, <2>1, <2>2, <2>3 DEF Stage
<1>4. CASE StopWaitingOnEvent
  <2>1. requests = <<>> /\ answers = <<>> /\ reads = <<"event", "done">> /\ waitLimit
    BY <1>4 DEF StopWaitingOnEvent, Turn, Quiet, Asked, Owing, Answered, NothingOwed
  <2>2. plan = <<Dequeue(m)>> /\ peeked = Null
    BY <2>1 DEF Stage, PeekStage, DequeueStage
  <2>3. Answer(<<Null>>) /\ waitLimit' = FALSE /\ Null \in Value
    BY <1>4 DEF StopWaitingOnEvent, Value
  <2>4. answers' # <<>> /\ Head(answers') = Null
    BY <2>1, <2>3, FirstAnswered
  <2>5. PeekStage(m)'
    BY <1>1, <2>1, <2>2, <2>3, <2>4 DEF PeekStage, Matches
  <2> QED BY <1>1, <2>2, <2>5 DEF Stage
<1> QED BY <1>3, <1>4

LEMMA TakesKept ==
  ASSUME EventInv, ChannelInv', [NextChannel]_channelVars
  PROVE  TakesInv'
<1> SUFFICES ASSUME ~spoiled', toolbox' \in Takes PROVE \E m \in Mask : Stage(m)'
  BY DEF TakesInv
<1>1. ChannelTypeOK /\ PipesOK /\ Numbered /\ Resting
  BY DEF EventInv, ChannelInv
<1>2. ~spoiled => Turn
  BY DEF EventInv, ChannelInv
<1>3. ~spoiled /\ toolbox \in Takes => \E m \in Mask : Stage(m)
  BY DEF EventInv, TakesInv
<1>4. CASE UNCHANGED channelVars
  <2>1. \A m : Stage(m)' <=> Stage(m)
    BY <1>4 DEF channelVars, client, head, Stage, PeekStage, DequeueStage, Matches, First, Wanted
  <2>2. UNCHANGED <<spoiled, toolbox>>
    BY <1>4 DEF channelVars, client
  <2> QED BY <1>3, <2>1, <2>2
<1>5. ASSUME NEW name \in ToolboxCall, Call(name) PROVE \E m \in Mask : Stage(m)'
  <2>1. name \in Takes /\ ~spoiled
    BY <1>5 DEF Call
  <2> QED BY <1>1, <1>2, <1>5, <2>1, CallStages
<1>6. CASE Guest
  <2>1. ~Return
    BY DEF Return, Takes
  <2>2. ~spoiled
    BY <1>6, <2>1 DEF Guest, WriteRequest, ReadAnswer
  <2>3. toolbox \in Takes
    BY <1>6, <2>1 DEF Guest, WriteRequest, ReadAnswer
  <2> QED BY <1>1, <1>2, <1>3, <1>6, <2>1, <2>2, <2>3, WriteStages, ReadStages DEF Guest
<1>7. CASE ProcessIPCMessage
  <2>1. UNCHANGED <<toolbox, spoiled>>
    BY <1>7 DEF ProcessIPCMessage, Handle, PeekNextEvent, DequeueNextEvent, DiscardEventsUntil,
       Acknowledge, UpdateWindow, DragWindow, MenuSelect, MenuKey, TakeRequest, client
  <2> QED BY <1>1, <1>2, <1>3, <1>7, <2>1, HandlerStages DEF ProcessIPCMessage
<1>8. CASE User \/ StopWaitingOnEvent
  <2>1. UNCHANGED <<toolbox, spoiled>>
    BY <1>8 DEF User, HandleEvent, EndDrag, PickMenuItem, StopWaitingOnEvent, client
  <2> QED BY <1>1, <1>2, <1>3, <1>8, <2>1, ArrivalStages, OtherStages DEF User
<1> QED BY <1>4, <1>5, <1>6, <1>7, <1>8 DEF NextChannel

\* GetNextEvent and WaitNextEvent remove the event that they return and no other, for any masks and
\* however many events arrive while they run.
THEOREM RemovesWhatItReturns == ChannelSpec => []ReturnedEventIsRemoved
<1>1. InitChannel => EventInv
  BY InitInv DEF InitChannel, EventInv, Numbered, Resting, TakesInv, Takes
<1>2. ASSUME EventInv, [NextChannel]_channelVars PROVE EventInv'
  <2>1. ChannelInv'
    BY <1>2, NextInv DEF EventInv
  <2>2. Numbered' /\ Resting'
    BY <1>2, NumberedKept, RestingKept DEF EventInv, ChannelInv
  <2> QED BY <1>2, <2>1, <2>2, TakesKept DEF EventInv
<1>3. EventInv => ReturnedEventIsRemoved
  <2> SUFFICES ASSUME EventInv, ~spoiled, toolbox \in Takes, plan = <<>>, reads = <<>>, peeked # Null
               PROVE  removed = peeked
    BY DEF ReturnedEventIsRemoved
  <2>1. PICK m \in Mask : Stage(m)
    BY DEF EventInv, TakesInv
  <2>2. DequeueStage(m)
    BY <2>1 DEF Stage
  <2>3. requests = <<>>
    BY QuietWhenNothingRead DEF EventInv, ChannelInv, Quiet
  <2> QED BY <2>2, <2>3 DEF DequeueStage
<1> QED BY <1>1, <1>2, <1>3, PTL DEF ChannelSpec
=============================================================================
