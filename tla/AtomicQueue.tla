---------------------------- MODULE AtomicQueue ----------------------------
(***************************************************************************)
(* What WaitQueue promises its users, and what the models of the debug     *)
(* stub take it to be: a queue whose operations take effect at one instant *)
(* between call and return.  A call of TakeOne gets the head if there is   *)
(* one; a timed call may also fail, but only while the queue is empty; and *)
(* as long as there are an element and a taker, somebody gets one.         *)
(***************************************************************************)
EXTENDS Sequences

CONSTANTS Taker,    \* the host threads that call TakeOne
          Timed,    \* those whose call has a time limit
          Element,  \* what is queued
          Nothing   \* no element

VARIABLES queued,   \* the elements, oldest first
          asking,   \* the takers within a call of TakeOne
          result    \* per taker: what its last call returned

vars == <<queued, asking, result>>

Init ==
  /\ queued = <<>>
  /\ asking = {}
  /\ result = [t \in Taker |-> Nothing]

Put(e) ==
  /\ queued' = Append(queued, e)
  /\ UNCHANGED <<asking, result>>

Ask(t) ==
  /\ t \notin asking
  /\ asking' = asking \cup {t}
  /\ UNCHANGED <<queued, result>>

Return(t, e) ==
  /\ t \in asking
  /\ asking' = asking \ {t}
  /\ result' = [result EXCEPT ![t] = e]

Take(t) ==
  /\ queued # <<>>
  /\ Return(t, Head(queued))
  /\ queued' = Tail(queued)

Fail(t) ==
  /\ t \in Timed
  /\ queued = <<>>
  /\ Return(t, Nothing)
  /\ UNCHANGED queued

Clear ==
  /\ queued' = <<>>
  /\ UNCHANGED <<asking, result>>

Next ==
  \/ \E e \in Element : Put(e)
  \/ \E t \in Taker : Ask(t) \/ Take(t) \/ Fail(t)
  \/ Clear

Spec == Init /\ [][Next]_vars /\ WF_vars(\E t \in Taker : Take(t))
=============================================================================
