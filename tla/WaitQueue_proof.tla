-------------------------- MODULE WaitQueue_proof --------------------------
(***************************************************************************)
(* No wakeup is lost, for any number of takers, with and without a limit.  *)
(* NoLostWakeup is inductive with the types: a taker begins to wait on an  *)
(* empty queue, each element that arrives while one waits wakes one, and a *)
(* woken taker takes an element or finds that there is none.               *)
(***************************************************************************)
EXTENDS WaitQueue, FiniteSetTheorems, SequenceTheorems, TLAPS

\* The sizes that NoLostWakeup compares are numbers.
LEMMA Sizes ==
  ASSUME TypeOK
  PROVE  /\ Len(queued) \in Nat
         /\ IsFiniteSet(Awake)
         /\ Cardinality(Awake) \in Nat
<1>1. Len(queued) \in Nat
  BY LenProperties DEF TypeOK
<1>2. IsFiniteSet(Awake)
  <2>1. Awake \in SUBSET Taker
    BY DEF Awake, TakersAt
  <2> QED
    BY <2>1, QueueAssumption, FS_Subset DEF QueueAssumption
<1> QED
  BY <1>1, <1>2, FS_CardinalityType

\* A taker that wakes up adds one to Awake, one that moves on takes one away.
LEMMA Moves ==
  ASSUME TypeOK, NEW t \in Taker, NEW from \in TakerAt, NEW to \in TakerAt,
         Move(t, from, to), from # to
  PROVE  /\ to = "awake" => Cardinality(Awake') = Cardinality(Awake) + 1
         /\ from = "awake" => Cardinality(Awake') = Cardinality(Awake) - 1
         /\ "awake" \notin {from, to} => Awake' = Awake
         /\ to # "waiting" => Waiting' \subseteq Waiting
<1> USE DEF Move, TypeOK, Awake, Waiting, TakersAt
<1>1. CASE to = "awake"
  <2>1. Awake' = Awake \cup {t} /\ t \notin Awake
    BY <1>1
  <2> HIDE DEF Move, TypeOK, Awake, Waiting, TakersAt
  <2>2. Cardinality(Awake') = Cardinality(Awake) + 1
    BY <2>1, Sizes, FS_AddElement
  <2> QED
    BY <1>1, <2>2 DEF Move, TypeOK, Waiting, TakersAt
<1>2. CASE from = "awake"
  <2>1. Awake' = Awake \ {t} /\ t \in Awake
    BY <1>2
  <2> HIDE DEF Move, TypeOK, Awake, Waiting, TakersAt
  <2>2. Cardinality(Awake') = Cardinality(Awake) - 1
    BY <2>1, Sizes, FS_RemoveElement
  <2> QED
    BY <1>2, <2>2 DEF Move, TypeOK, Waiting, TakersAt
<1>3. CASE "awake" \notin {from, to}
  BY <1>3
<1> QED
  BY <1>1, <1>2, <1>3

\* Every step keeps the types.
LEMMA TypeStep ==
  ASSUME TypeOK, [Next]_vars
  PROVE  TypeOK'
<1> USE DEF TypeOK, TakerAt, Move
<1>1. CASE \E e \in Element : PutOne(e)
  <2> PICK e \in Element : PutOne(e)
    BY <1>1
  <2>1. queued' \in Seq(Element)
    BY AppendProperties DEF PutOne
  <2>2. at' \in [Taker -> TakerAt]
    BY DEF PutOne, NotifyOne, Waiting, TakersAt
  <2> QED
    BY <2>1, <2>2 DEF PutOne
<1>2. CASE \E t \in Taker : TakeOne(t)
  <2> PICK t \in Taker : TakeOne(t)
    BY <1>2
  <2>1. ASSUME NEW from \in {"calling", "awake", "expired"}, Pop(t, from)
        PROVE  TypeOK'
    BY <2>1, HeadTailProperties DEF Pop
  <2>2. ASSUME NEW from \in {"calling", "awake"}, Wait(t, from)
        PROVE  TypeOK'
    BY <2>2 DEF Wait
  <2>3. CASE Call(t) \/ GiveUp(t) \/ Timeout(t) \/ SpuriousWake(t)
    BY <2>3 DEF Call, GiveUp, Timeout, SpuriousWake
  <2> QED
    BY <2>1, <2>2, <2>3 DEF TakeOne, TestFirst, TestAgain, TestLast
<1>3. CASE Clear
  BY <1>3, EmptySeq DEF Clear
<1>4. CASE UNCHANGED vars
  BY <1>4 DEF vars
<1> QED
  BY <1>1, <1>2, <1>3, <1>4 DEF Next

\* Every step keeps NoLostWakeup.
LEMMA WakeupStep ==
  ASSUME TypeOK, NoLostWakeup, [Next]_vars
  PROVE  NoLostWakeup'
<1> SUFFICES ASSUME Waiting' # {}
             PROVE  Len(queued') <= Cardinality(Awake')
  BY DEF NoLostWakeup
<1> USE Sizes DEF TakerAt
<1>1. CASE \E e \in Element : PutOne(e)
  <2> PICK e \in Element : PutOne(e)
    BY <1>1
  <2>1. Len(queued') = Len(queued) + 1
    BY AppendProperties DEF PutOne, TypeOK
  <2>2. PICK t \in Waiting : Move(t, "waiting", "awake")
    BY DEF PutOne, NotifyOne, Waiting, TakersAt
  <2>3. t \in Taker
    BY <2>2 DEF Waiting, TakersAt
  <2>4. Cardinality(Awake') = Cardinality(Awake) + 1
    BY <2>2, <2>3, Moves
  <2> QED
    BY <2>1, <2>2, <2>4 DEF NoLostWakeup
<1>2. CASE \E t \in Taker : TakeOne(t)
  <2> PICK t \in Taker : TakeOne(t)
    BY <1>2
  <2>1. ASSUME NEW from \in {"calling", "awake", "expired"}, Pop(t, from)
        PROVE  Len(queued') <= Cardinality(Awake')
    <3>1. Len(queued') = Len(queued) - 1
      BY <2>1, HeadTailProperties DEF Pop, TypeOK
    <3>2. /\ Waiting' \subseteq Waiting
          /\ Cardinality(Awake') \in {Cardinality(Awake), Cardinality(Awake) - 1}
      BY <2>1, Moves DEF Pop
    <3> QED
      BY <3>1, <3>2 DEF NoLostWakeup
  <2>2. ASSUME NEW from \in {"calling", "awake"}, Wait(t, from)
        PROVE  Len(queued') <= Cardinality(Awake')
    <3>1. Len(queued') = 0
      BY <2>2, EmptySeq DEF Wait
    <3>2. Awake' \in SUBSET Taker
      BY DEF Awake, TakersAt
    <3>3. Cardinality(Awake') \in Nat
      BY <3>2, QueueAssumption, FS_Subset, FS_CardinalityType DEF QueueAssumption
    <3> QED
      BY <3>1, <3>3
  <2>3. CASE Call(t) \/ GiveUp(t) \/ Timeout(t)
    <3>1. Waiting' \subseteq Waiting /\ Awake' = Awake /\ queued' = queued
      BY <2>3, Moves DEF Call, GiveUp, Timeout
    <3> QED
      BY <3>1 DEF NoLostWakeup
  <2>4. CASE SpuriousWake(t)
    <3>1. /\ Waiting' \subseteq Waiting
          /\ Cardinality(Awake') = Cardinality(Awake) + 1
          /\ queued' = queued
      BY <2>4, Moves DEF SpuriousWake
    <3> QED
      BY <3>1 DEF NoLostWakeup
  <2> QED
    BY <2>1, <2>2, <2>3, <2>4 DEF TakeOne, TestFirst, TestAgain, TestLast
<1>3. CASE Clear
  <2>1. Len(queued') = 0 /\ Awake' = Awake
    BY <1>3, EmptySeq DEF Clear, Awake, TakersAt
  <2> QED
    BY <2>1
<1>4. CASE UNCHANGED vars
  BY <1>4 DEF vars, NoLostWakeup, Waiting, Awake, TakersAt
<1> QED
  BY <1>1, <1>2, <1>3, <1>4 DEF Next

\* Only a timed call times out.
OnlyTimedExpire == \A t \in Taker : at[t] = "expired" => t \in Timed

LEMMA TimedStep ==
  ASSUME TypeOK, OnlyTimedExpire, [Next]_vars
  PROVE  OnlyTimedExpire'
<1> USE DEF OnlyTimedExpire, TypeOK, TakerAt, Move
<1>1. CASE \E e \in Element : PutOne(e)
  BY <1>1 DEF PutOne, NotifyOne, Waiting, TakersAt
<1>2. CASE \E t \in Taker : TakeOne(t)
  BY <1>2 DEF TakeOne, TestFirst, TestAgain, TestLast, Call, Pop, Wait, GiveUp, Timeout,
              SpuriousWake
<1>3. CASE Clear \/ UNCHANGED vars
  BY <1>3 DEF Clear, vars
<1> QED
  BY <1>1, <1>2, <1>3 DEF Next

\* The queue and its takers always have their types.
THEOREM TypeCorrect == Spec => []TypeOK
<1>1. Init => TypeOK
  BY EmptySeq DEF Init, TypeOK, TakerAt
<1>2. TypeOK /\ [Next]_vars => TypeOK'
  BY TypeStep
<1> QED
  BY <1>1, <1>2, PTL DEF Spec

\* While a taker of a WaitQueue is blocked, every element has a woken taker coming for it.
THEOREM NoWakeupIsLost == Spec => []NoLostWakeup
<1>1. Init => NoLostWakeup
  BY DEF Init, NoLostWakeup, Waiting, TakersAt
<1>2. TypeOK /\ NoLostWakeup /\ [Next]_vars => NoLostWakeup'
  BY WakeupStep
<1> QED
  BY <1>1, <1>2, TypeCorrect, PTL DEF Spec

\* Every operation of a WaitQueue is an operation of AtomicQueue or leaves it unchanged.
THEOREM OperationsAreAtomic == Spec => Atomic!Init /\ [][Atomic!Next]_Atomic!vars
<1> USE DEF Atomic!vars, Atomic!Return, Move, TakersAt
<1>1. Init => Atomic!Init
  BY DEF Init, Atomic!Init
<1>2. TypeOK /\ OnlyTimedExpire /\ [Next]_vars => [Atomic!Next]_Atomic!vars
  <2> SUFFICES ASSUME TypeOK, OnlyTimedExpire, [Next]_vars
               PROVE  [Atomic!Next]_Atomic!vars
    OBVIOUS
  <2> USE DEF TypeOK, TakerAt
  <2>1. ASSUME NEW e \in Element, PutOne(e)
        PROVE  Atomic!Put(e)
    BY <2>1 DEF PutOne, NotifyOne, Waiting, Atomic!Put
  <2>2. ASSUME NEW t \in Taker, Call(t)
        PROVE  Atomic!Ask(t)
    BY <2>2 DEF Call, Atomic!Ask
  <2>3. ASSUME NEW t \in Taker, NEW from \in {"calling", "awake", "expired"}, Pop(t, from)
        PROVE  Atomic!Take(t)
    BY <2>3 DEF Pop, Atomic!Take
  <2>4. ASSUME NEW t \in Taker, NEW from \in {"calling", "awake"}, Wait(t, from)
        PROVE  UNCHANGED Atomic!vars
    BY <2>4 DEF Wait
  <2>5. ASSUME NEW t \in Taker, GiveUp(t)
        PROVE  Atomic!Fail(t)
    BY <2>5 DEF GiveUp, OnlyTimedExpire, Atomic!Fail
  <2>6. ASSUME NEW t \in Taker, Timeout(t) \/ SpuriousWake(t)
        PROVE  UNCHANGED Atomic!vars
    BY <2>6 DEF Timeout, SpuriousWake
  <2>7. CASE Clear
    BY <2>7 DEF Clear, Atomic!Clear, Atomic!Next
  <2>8. CASE UNCHANGED vars
    BY <2>8 DEF vars
  <2> QED
    BY <2>1, <2>2, <2>3, <2>4, <2>5, <2>6, <2>7, <2>8
       DEF Next, TakeOne, TestFirst, TestAgain, TestLast, Atomic!Next
<1>3. Init => OnlyTimedExpire
  BY DEF Init, OnlyTimedExpire
<1>4. TypeOK /\ OnlyTimedExpire /\ [Next]_vars => OnlyTimedExpire'
  BY TimedStep
<1> QED
  BY <1>1, <1>2, <1>3, <1>4, TypeCorrect, PTL DEF Spec
=============================================================================
