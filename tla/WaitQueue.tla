----------------------------- MODULE WaitQueue -----------------------------
(***************************************************************************)
(* WaitQueue<T>: a std::queue, a mutex and a condition variable, with any  *)
(* number of takers.  A step is a critical section of waitMutex, up to its *)
(* end or to the wait that releases it, or what the condition variable     *)
(* does to a waiter: a wake without a notification, or a timeout, after    *)
(* which the waiter has yet to get the mutex and test the queue again.     *)
(***************************************************************************)
EXTENDS Integers, Sequences, FiniteSets

CONSTANTS Taker,    \* the host threads that call TakeOne
          Timed,    \* those that call the overload with a time limit
          Element,  \* what is queued
          Nothing,  \* what a taker has before its first call, and if a timed one fails
          MaxPuts   \* bound: calls of PutOne

ASSUME QueueAssumption == /\ IsFiniteSet(Taker)
                          /\ Timed \subseteq Taker
                          /\ Nothing \notin Element
                          /\ MaxPuts \in Nat

VARIABLES
  queued,  \* the elements
  at,      \* per taker: where it is in TakeOne
  result,  \* per taker: what its last call returned
  puts     \* the calls of PutOne there have been

vars == <<queued, at, result, puts>>

\* calling: before waitMutex is locked; waiting: blocked in waitCv; awake: notified, or
\* woken for no reason; expired: timed out.
TakerAt == {"idle", "calling", "waiting", "awake", "expired"}

TypeOK ==
  /\ queued \in Seq(Element)
  /\ at \in [Taker -> TakerAt]
  /\ result \in [Taker -> Element \cup {Nothing}]
  /\ puts \in Nat

Init ==
  /\ queued = <<>>
  /\ at = [t \in Taker |-> "idle"]
  /\ result = [t \in Taker |-> Nothing]
  /\ puts = 0

TakersAt(place) == {t \in Taker : at[t] = place}
Waiting == TakersAt("waiting")
Awake == TakersAt("awake")

Move(t, from, to) ==
  /\ at[t] = from
  /\ at' = [at EXCEPT ![t] = to]

-----------------------------------------------------------------------------
\* Mutant: notify only the first element after an empty queue.
NotifyOneIfEmpty ==
  \/ /\ Waiting = {} \/ queued # <<>>
     /\ UNCHANGED at
  \/ /\ queued = <<>>
     /\ \E t \in Waiting : Move(t, "waiting", "awake")

\* notify_one wakes one of the waiters there are.
NotifyOne ==
  \/ /\ Waiting = {}
     /\ UNCHANGED at
  \/ \E t \in Waiting : Move(t, "waiting", "awake")

PutOne(e) ==
  /\ puts < MaxPuts
  /\ puts' = puts + 1
  /\ queued' = Append(queued, e)
  /\ NotifyOne
  /\ UNCHANGED result

Call(t) ==
  /\ Move(t, "idle", "calling")
  /\ UNCHANGED <<queued, result, puts>>

\* The predicate holds: take the front element and return it.
Pop(t, from) ==
  /\ Move(t, from, "idle")
  /\ queued # <<>>
  /\ result' = [result EXCEPT ![t] = Head(queued)]
  /\ queued' = Tail(queued)
  /\ UNCHANGED puts

\* Mutant: wait without the loop around it, and use whatever memory the front refers to.
WaitOnce(t, from) ==
  /\ Move(t, from, IF from = "awake" THEN "idle" ELSE "waiting")
  /\ queued = <<>>
  /\ result' = [result EXCEPT ![t] = IF from = "awake" THEN "garbage" ELSE @]
  /\ UNCHANGED <<queued, puts>>

\* It does not: release the mutex and wait, atomically.
Wait(t, from) ==
  /\ Move(t, from, "waiting")
  /\ queued = <<>>
  /\ UNCHANGED <<queued, result, puts>>

TestFirst(t) == Pop(t, "calling") \/ Wait(t, "calling")
TestAgain(t) == Pop(t, "awake") \/ Wait(t, "awake")

\* Mutant: wait_for without a predicate, which reports the timeout alone.
GiveUpUntested(t) ==
  /\ Move(t, "expired", "idle")
  /\ result' = [result EXCEPT ![t] = Nothing]
  /\ UNCHANGED <<queued, puts>>

\* wait_for returns the value of the predicate once more after a timeout.
GiveUp(t) ==
  /\ Move(t, "expired", "idle")
  /\ queued = <<>>
  /\ result' = [result EXCEPT ![t] = Nothing]
  /\ UNCHANGED <<queued, puts>>

TestLast(t) == Pop(t, "expired") \/ GiveUp(t)

Timeout(t) ==
  /\ t \in Timed
  /\ Move(t, "waiting", "expired")
  /\ UNCHANGED <<queued, result, puts>>

SpuriousWake(t) ==
  /\ Move(t, "waiting", "awake")
  /\ UNCHANGED <<queued, result, puts>>

Clear ==
  /\ queued' = <<>>
  /\ UNCHANGED <<at, result, puts>>

TakeOne(t) ==
  \/ Call(t)
  \/ TestFirst(t)
  \/ TestAgain(t)
  \/ TestLast(t)
  \/ Timeout(t)
  \/ SpuriousWake(t)

Next ==
  \/ \E e \in Element : PutOne(e)
  \/ \E t \in Taker : TakeOne(t)
  \/ Clear

\* A taker that can run gets the mutex in the end.  Nothing makes a taker call, an
\* element arrive, a timeout expire or a waiter wake by itself.
Fairness == \A t \in Taker : WF_vars(TestFirst(t) \/ TestAgain(t) \/ TestLast(t))

Spec == Init /\ [][Next]_vars /\ Fairness

-----------------------------------------------------------------------------
\* No wakeup is lost: while a taker is blocked, each queued element has another taker
\* that was woken and has not tested the queue yet, although notify_one is called once
\* per element, timeouts race it, and takers that never waited take elements first.
NoLostWakeup == Waiting # {} => Len(queued) <= Cardinality(Awake)

\* WaitQueue implements AtomicQueue: each operation takes effect at one instant, a timed
\* TakeOne fails only on an empty queue, and no element is left while somebody asks.
Atomic == INSTANCE AtomicQueue WITH asking <- Taker \ TakersAt("idle")
IsAtomicQueue == Atomic!Spec
=============================================================================
