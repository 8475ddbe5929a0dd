----------------------- MODULE SourceAdmissionProofs -----------------------
(***************************************************************************)
(* Theorems about the upstream admission gate, for every set of calls,     *)
(* keys, priorities and limits.                                            *)
(***************************************************************************)
EXTENDS SourceAdmission, FiniteSetTheorems, TLAPS

\* Dropping one holder and adding promoted waiters moves the counter with them.
LEMMA CountAfterDrop ==
    ASSUME NEW H, IsFiniteSet(H), NEW h \in H,
           NEW P, IsFiniteSet(P), P \cap H = {}
    PROVE  /\ IsFiniteSet((H \ {h}) \cup P)
           /\ Cardinality((H \ {h}) \cup P) = Cardinality(H) - 1 + Cardinality(P)
           /\ Cardinality(H) \in Nat /\ Cardinality(H) > 0
           /\ Cardinality(P) \in Nat
<1>1. /\ IsFiniteSet(H \ {h})
      /\ Cardinality(H \ {h}) = Cardinality(H) - 1
  BY FS_RemoveElement
<1>2. /\ Cardinality(H) \in Nat
      /\ Cardinality(H \ {h}) \in Nat
      /\ Cardinality(P) \in Nat
  BY <1>1, FS_CardinalityType
<1>3. (H \ {h}) \cap P = {}
  OBVIOUS
<1>4. IsFiniteSet((H \ {h}) \cup P)
  BY <1>1, FS_Union
<1>5. Cardinality((H \ {h}) \cup P) =
        Cardinality(H \ {h}) + Cardinality(P) - Cardinality((H \ {h}) \cap P)
  BY <1>1, FS_Union
<1>6. Cardinality((H \ {h}) \cap P) = 0
  BY <1>3, FS_EmptySet
<1> QED
  BY <1>1, <1>2, <1>4, <1>5, <1>6

LEMMA InitIInv == Init => IInv
<1> SUFFICES ASSUME Init PROVE IInv
  OBVIOUS
<1>1. TypeOK
  BY DEF Init, TypeOK, Phases
<1>2. InflightIsHolders
  BY FS_EmptySet DEF Init, InflightIsHolders
<1>3. QueueShape
  BY FS_EmptySet DEF Init, QueueShape
<1>4. QueueHasHolder /\ SlotsKept
  BY DEF Init, QueueHasHolder, SlotsKept, SlotLostToBypassOnly, StrippedKey
<1> QED
  BY <1>1, <1>2, <1>3, <1>4 DEF IInv
------------------------------------------------------------------------------
\* The steps of a call that leave the gate alone.
LEMMA PrivateStep ==
    ASSUME IInv, NEW c \in Calls,
           Bypass(c) \/ Arrive(c) \/ StartWait(c) \/ Wake(c) \/ WaitTimesOut(c)
    PROVE  IInv'
<1> USE DEF Goto
<1>1. TypeOK'
  BY DEF IInv, TypeOK, Phases, Bypass, Arrive, StartWait, Wake, WaitTimesOut, gate
<1>2. InflightIsHolders'
  BY DEF IInv, InflightIsHolders, Bypass, Arrive, StartWait, Wake, WaitTimesOut, gate
<1>3. QueueHasHolder'
  BY DEF IInv, QueueHasHolder, Bypass, Arrive, StartWait, Wake, WaitTimesOut, gate
<1>4. QueueShape'
  BY DEF IInv, TypeOK, QueueShape, InQueue, NotAsked, Bypass, Arrive, StartWait,
         Wake, WaitTimesOut, gate
<1>5. SlotsKept'
  BY DEF IInv, TypeOK, SlotsKept, SlotLostToBypassOnly, StrippedKey, QueueShape, InQueue, NotAsked,
         Bypass, Arrive, StartWait, Wake, WaitTimesOut, gate
<1> QED
  BY <1>1, <1>2, <1>3, <1>4, <1>5 DEF IInv

LEMMA TakeSlotStep ==
    ASSUME IInv, NEW c \in Calls, NEW l \in Limits \ {0}, limit' = l, TakeSlot(c, l),
           UNCHANGED <<stamp, clock, signalled>>
    PROVE  IInv'
<1> USE AdmissionAssumption
<1>0. c \notin holders /\ l \in Nat /\ l > 0
  BY DEF IInv, QueueShape, NotAsked, TakeSlot, Goto
<1>1. TypeOK'
  BY <1>0 DEF IInv, TypeOK, Phases, TakeSlot, Goto
<1>2. InflightIsHolders'
  BY <1>0, FS_AddElement DEF IInv, InflightIsHolders, TakeSlot
<1>3. QueueHasHolder'
  BY DEF QueueHasHolder, TakeSlot
<1>4. QueueShape'
  BY <1>0 DEF IInv, TypeOK, QueueShape, InQueue, NotAsked, TakeSlot, Goto
<1>5. SlotsKept'
  BY <1>0 DEF IInv, TypeOK, SlotsKept, SlotLostToBypassOnly, StrippedKey, TakeSlot, Goto
<1> QED
  BY <1>1, <1>2, <1>3, <1>4, <1>5 DEF IInv

LEMMA JoinQueueStep ==
    ASSUME IInv, NEW c \in Calls, NEW l \in Limits \ {0}, limit' = l, JoinQueue(c, l),
           UNCHANGED <<stamp, clock, signalled>>
    PROVE  IInv'
<1> USE AdmissionAssumption
<1>0. /\ c \notin holders \cup signalled
      /\ l \in Nat /\ l > 0
  BY DEF IInv, QueueShape, NotAsked, JoinQueue, Goto
<1>1. TypeOK'
  BY <1>0 DEF IInv, TypeOK, Phases, JoinQueue, Goto
<1>2. InflightIsHolders'
  BY DEF IInv, InflightIsHolders, JoinQueue
<1>3. QueueHasHolder'
  <2>1. CASE waiters # {}
    BY <2>1 DEF IInv, QueueHasHolder, JoinQueue
  <2>2. CASE inflight >= l
    <3>1. Cardinality(holders) > 0
      BY <2>2, <1>0 DEF IInv, TypeOK, InflightIsHolders
    <3> QED
      BY <3>1, FS_EmptySet DEF QueueHasHolder, JoinQueue
  <2> QED
    BY <2>1, <2>2 DEF JoinQueue
<1>4. QueueShape'
  <2>1. IsFiniteSet(waiters')
    BY FS_AddElement DEF IInv, QueueShape, JoinQueue
  <2> QED
    BY <1>0, <2>1 DEF IInv, TypeOK, QueueShape, InQueue, NotAsked, JoinQueue, Goto
<1>5. SlotsKept'
  BY <1>0 DEF IInv, TypeOK, SlotsKept, SlotLostToBypassOnly, StrippedKey, JoinQueue, Goto
<1> QED
  BY <1>1, <1>2, <1>3, <1>4, <1>5 DEF IInv

LEMMA GiveUpStep ==
    ASSUME IInv, NEW c \in Calls, GiveUp(c)
    PROVE  IInv'
<1>1. TypeOK'
  BY DEF IInv, TypeOK, Phases, GiveUp, Goto
<1>2. InflightIsHolders' /\ QueueHasHolder'
  BY DEF IInv, InflightIsHolders, QueueHasHolder, GiveUp
<1>3. QueueShape'
  <2>1. IsFiniteSet(waiters')
    BY FS_RemoveElement DEF IInv, QueueShape, GiveUp
  <2> QED
    BY <2>1 DEF IInv, TypeOK, QueueShape, InQueue, NotAsked, GiveUp, Goto
<1>4. SlotsKept'
  BY DEF IInv, TypeOK, SlotsKept, SlotLostToBypassOnly, StrippedKey, GiveUp, Goto
<1> QED
  BY <1>1, <1>2, <1>3, <1>4 DEF IInv
------------------------------------------------------------------------------
\* What a release does when the key holds a slot, h being the record it drops.
LEMMA DropAndPromoteStep ==
    ASSUME IInv, NEW c \in Calls, pc[c] \in {"streaming", "ungated"},
           NEW end \in {"done", "passed"}, pc' = [pc EXCEPT ![c] = end],
           end = "passed" <=> pc[c] = "ungated", UNCHANGED <<stamp, clock>>,
           NEW h \in HoldersOf(c), c \in holders => h = c, DropAndPromote(h)
    PROVE  IInv'
<1> USE AdmissionAssumption
<1> h \in holders
  BY DEF HoldersOf
<1> PICK P \in SUBSET waiters :
      /\ IsPromotion(P, waiters, limit - (inflight - 1))
      /\ holders' = (holders \ {h}) \cup P
      /\ inflight' = inflight - 1 + Cardinality(P)
      /\ waiters' = waiters \ P
      /\ signalled' = signalled \cup P
      /\ UNCHANGED limit
  BY DEF DropAndPromote
<1>1. IsFiniteSet(P) /\ P \cap holders = {} /\ c \notin waiters
  BY DEF IsPromotion, IInv, QueueShape, InQueue
<1>2. /\ IsFiniteSet(holders')
      /\ Cardinality(holders') = inflight'
      /\ inflight' \in Nat /\ inflight > 0
      /\ Cardinality(P) \in Nat
  <2>1. IsFiniteSet(holders) /\ inflight = Cardinality(holders)
    BY DEF IInv, InflightIsHolders
  <2>2. /\ IsFiniteSet((holders \ {h}) \cup P)
        /\ Cardinality((holders \ {h}) \cup P)
              = Cardinality(holders) - 1 + Cardinality(P)
        /\ Cardinality(holders) \in Nat /\ Cardinality(holders) > 0
        /\ Cardinality(P) \in Nat
    BY <1>1, <2>1, CountAfterDrop
  <2> QED
    BY <2>1, <2>2
<1>3. TypeOK'
  BY <1>2 DEF IInv, TypeOK, Phases
<1>4. InflightIsHolders'
  BY <1>2 DEF InflightIsHolders
<1>5. QueueHasHolder'
  <2> SUFFICES ASSUME waiters' # {}, holders' = {} PROVE FALSE
    BY DEF QueueHasHolder
  <2>1. inflight' = 0 /\ Cardinality(P) = 0
    BY <1>2, FS_EmptySet
  <2>2. P # waiters /\ limit \in Nat /\ limit > 0
    BY DEF IInv, TypeOK, QueueShape
  <2>3. Cardinality(P) >= limit - (inflight - 1)
    BY <2>2 DEF IsPromotion
  <2> QED
    BY <1>2, <2>1, <2>2, <2>3 DEF IInv, TypeOK
<1>6. QueueShape'
  <2>1. IsFiniteSet(waiters')
    BY FS_Subset DEF IInv, QueueShape
  <2>2. \A d \in waiters' : pc'[d] \in InQueue /\ d \notin signalled'
    BY <1>1 DEF IInv, TypeOK, QueueShape
  <2>3. \A d \in holders' : pc'[d] \in InQueue => d \in signalled'
    BY <1>1 DEF IInv, TypeOK, QueueShape, InQueue
  <2>4. \A d \in holders' \cup signalled' : pc'[d] \notin NotAsked
    BY <1>1 DEF IInv, TypeOK, QueueShape, InQueue, NotAsked
  <2>5. limit' > 0
    BY DEF IInv, QueueShape
  <2>6. \A d \in holders' : pc'[d] # "done"
    <3>1. c \notin holders'
      BY <1>1
    <3>2. \A d \in holders' : d \in Calls /\ pc[d] # "done"
      BY <1>1 DEF IInv, TypeOK, QueueShape, InQueue
    <3> QED
      BY <3>1, <3>2 DEF IInv, TypeOK
  <2> QED
    BY <2>1, <2>2, <2>3, <2>4, <2>5, <2>6 DEF QueueShape
<1>7. SlotsKept'
  <2>1. KeyOf[h] = KeyOf[c] /\ h \in Calls
    BY DEF HoldersOf, IInv, TypeOK
  <2>2. h = c \/ StrippedKey(KeyOf[c])'
    <3>1. CASE pc[c] = "ungated"
      BY <3>1 DEF StrippedKey, IInv, TypeOK
    <3>2. CASE pc[c] = "streaming"
      BY <3>2 DEF IInv, TypeOK, SlotsKept, SlotLostToBypassOnly, StrippedKey
    <3> QED
      BY <3>1, <3>2
  <2>3. \A k : StrippedKey(k) => StrippedKey(k)'
    BY DEF StrippedKey, IInv, TypeOK
  <2>4. \A d \in holders : d \in holders' \/ d = h
    OBVIOUS
  <2>5. ASSUME NEW d \in Calls, d \in holders \/ StrippedKey(KeyOf[d]), pc'[d] # "done"
        PROVE  d \in holders' \/ StrippedKey(KeyOf[d])'
    <3>1. CASE d = c
      BY <2>5, <3>1 DEF StrippedKey, IInv, TypeOK
    <3>2. CASE d # c
      BY <2>1, <2>2, <2>3, <2>4, <2>5, <3>2
    <3> QED
      BY <3>1, <3>2
  <2>6. SlotLostToBypassOnly'
    BY <2>5 DEF IInv, TypeOK, SlotsKept, SlotLostToBypassOnly
  <2>7. ASSUME NEW d \in signalled', pc'[d] # "done"
        PROVE  d \in holders' \/ StrippedKey(KeyOf[d])'
    <3>1. CASE d \in P
      BY <3>1
    <3>2. CASE d \in signalled
      BY <2>5, <2>7, <3>2 DEF IInv, TypeOK, SlotsKept
    <3> QED
      BY <3>1, <3>2
  <2> QED
    BY <2>6, <2>7 DEF SlotsKept
<1> QED
  BY <1>3, <1>4, <1>5, <1>6, <1>7 DEF IInv

LEMMA FinishStep ==
    ASSUME IInv, NEW c \in Calls, Finish(c)
    PROVE  IInv'
<1>1. /\ pc[c] \in {"streaming", "ungated"}
      /\ \/ pc[c] = "streaming" /\ pc' = [pc EXCEPT ![c] = "done"]
         \/ pc[c] = "ungated" /\ pc' = [pc EXCEPT ![c] = "passed"]
      /\ UNCHANGED <<stamp, clock>>
  BY DEF Finish, Goto
<1>2. CASE HoldersOf(c) = {} /\ UNCHANGED gate
  <2>1. c \notin holders
    BY <1>2 DEF HoldersOf
  <2>2. TypeOK'
    BY <1>1, <1>2 DEF IInv, TypeOK, Phases, gate
  <2>3. InflightIsHolders' /\ QueueHasHolder'
    BY <1>2 DEF IInv, InflightIsHolders, QueueHasHolder, gate
  <2>4. QueueShape'
    BY <1>1, <1>2, <2>1 DEF IInv, TypeOK, QueueShape, InQueue, NotAsked, gate
  <2>5. SlotsKept'
    BY <1>1, <1>2 DEF IInv, TypeOK, SlotsKept, SlotLostToBypassOnly, StrippedKey, gate
  <2> QED
    BY <2>2, <2>3, <2>4, <2>5 DEF IInv
<1>3. ASSUME NEW h \in HoldersOf(c), c \in holders => h = c, DropAndPromote(h)
      PROVE  IInv'
  <2> QED
    BY <1>1, <1>3, DropAndPromoteStep
<1> QED
  BY <1>2, <1>3 DEF Finish, ReleaseKey
------------------------------------------------------------------------------
LEMMA NextIInv == IInv /\ [Next]_vars => IInv'
<1> SUFFICES ASSUME IInv, [Next]_vars PROVE IInv'
  OBVIOUS
<1>1. ASSUME NEW c \in Calls, Enter(c)
      PROVE  IInv'
  BY <1>1, TakeSlotStep, JoinQueueStep DEF Enter
<1>2. CASE UNCHANGED vars
  BY <1>2 DEF IInv, TypeOK, InflightIsHolders, QueueShape, QueueHasHolder, SlotsKept,
              SlotLostToBypassOnly, StrippedKey, vars
<1>3. ASSUME NEW c \in Calls, Step(c)
      PROVE  IInv'
  BY <1>1, <1>3, PrivateStep, GiveUpStep, FinishStep DEF Step
<1> QED
  BY <1>2, <1>3 DEF Next

THEOREM Invariant == Spec => []IInv
<1> QED
  BY InitIInv, NextIInv, PTL DEF Spec

\* Every variable of the gate keeps its type, in particular the counter never
\* goes below zero (SourceAdmissionGate.release decrements it).
THEOREM TypeCorrect == Spec => []TypeOK
<1>1. IInv => TypeOK
  BY DEF IInv
<1> QED
  BY <1>1, Invariant, PTL

\* _GateState.inflight is the number of holder records at all times, although
\* release() takes calls from streams that hold nothing.
THEOREM CounterMatchesHolders == Spec => []InflightIsHolders
<1>1. IInv => InflightIsHolders
  BY DEF IInv
<1> QED
  BY <1>1, Invariant, PTL

\* While no slot has leaked, nobody is left in the queue without a holder that is
\* still going to release and so to look at it, for any number of calls and any
\* sequence of limits.
THEOREM WaitersHaveAHolder == Spec => []NoLostWakeup
<1>1. IInv => NoLostWakeup
  <2> SUFFICES ASSUME IInv, waiters # {}, Leaked = {}
               PROVE  \E h \in holders : WillRelease(h)
    BY DEF NoLostWakeup
  <2> PICK h \in holders : TRUE
    BY DEF IInv, QueueHasHolder
  <2>1. pc[h] \in Phases /\ pc[h] \notin NotAsked \cup {"done", "expired", "refused"}
    BY DEF IInv, TypeOK, QueueShape, Leaked
  <2> QED
    BY <2>1 DEF Phases, NotAsked, WillRelease
<1> QED
  BY <1>1, Invariant, PTL

\* A stream that went through the gate loses its slot only to a call of its own
\* key that was let through without one.
THEOREM StreamsAreBacked == Spec => []SlotLostToBypassOnly
<1>1. IInv => SlotLostToBypassOnly
  BY DEF IInv, SlotsKept
<1> QED
  BY <1>1, Invariant, PTL
------------------------------------------------------------------------------
\* The steps that change neither the holders nor the limit are stutters of the
\* semaphore.
LEMMA StutterStep ==
    ASSUME NEW c \in Calls,
           Bypass(c) \/ Arrive(c) \/ StartWait(c) \/ Wake(c) \/ WaitTimesOut(c)
             \/ GiveUp(c)
    PROVE  UNCHANGED <<holders, limit>>
BY DEF Bypass, Arrive, StartWait, Wake, WaitTimesOut, GiveUp, gate

\* The instance counts with the same operator.
LEMMA PoolCardinality == \A S : Pool!Cardinality(S) = Cardinality(S)
BY DEF Pool!Cardinality, Cardinality

LEMMA EnterRefines ==
    ASSUME IInv, IInv', NEW c \in Calls, Enter(c)
    PROVE  Pool!Next
<1> PICK l \in Limits \ {0} : limit' = l /\ (TakeSlot(c, l) \/ JoinQueue(c, l))
  BY DEF Enter
<1>1. CASE TakeSlot(c, l)
  <2>1. c \notin holders /\ holders' = holders \cup {c}
    BY <1>1 DEF IInv, QueueShape, NotAsked, TakeSlot, Goto
  <2>2. Cardinality(holders') <= limit'
    <3>1. inflight' = inflight + 1 /\ inflight < l /\ inflight \in Nat /\ l \in Nat
      BY <1>1, AdmissionAssumption DEF TakeSlot, IInv, TypeOK
    <3>2. Cardinality(holders') = inflight'
      BY DEF IInv, InflightIsHolders
    <3> QED
      BY <3>1, <3>2
  <2>3. Pool!Take(c)
    BY <2>1, <2>2, PoolCardinality DEF Pool!Take
  <2> QED
    BY <2>3 DEF Pool!Next
<1>2. CASE JoinQueue(c, l)
  BY <1>2 DEF JoinQueue, Pool!Resize, Pool!Next
<1> QED
  BY <1>1, <1>2

LEMMA FinishRefines ==
    ASSUME IInv, IInv', NEW c \in Calls, Finish(c)
    PROVE  Pool!Next \/ UNCHANGED <<holders, limit>>
<1>1. CASE UNCHANGED gate
  BY <1>1 DEF gate
<1>2. ASSUME NEW h \in HoldersOf(c), DropAndPromote(h)
      PROVE  Pool!Next
  <2> PICK P \in SUBSET waiters :
        /\ IsPromotion(P, waiters, limit - (inflight - 1))
        /\ holders' = (holders \ {h}) \cup P
        /\ inflight' = inflight - 1 + Cardinality(P)
        /\ UNCHANGED limit
    BY <1>2 DEF DropAndPromote
  <2>1. h \in holders /\ P \in SUBSET (Calls \ holders)
    BY DEF HoldersOf, IInv, TypeOK, QueueShape
  <2>2. ASSUME P # {} PROVE Cardinality(holders') <= limit
    <3>1. Cardinality(P) <= limit - (inflight - 1)
      BY <2>2 DEF IsPromotion
    <3>2. Cardinality(holders') = inflight' /\ inflight' \in Nat
      BY DEF IInv, InflightIsHolders, TypeOK
    <3>3. Cardinality(P) \in Nat
      BY FS_CardinalityType DEF IsPromotion
    <3>4. limit \in Nat /\ inflight \in Nat
      BY AdmissionAssumption DEF IInv, TypeOK
    <3> QED
      BY <3>1, <3>2, <3>3, <3>4
  <2>3. Pool!Return(h)
    BY <2>1, <2>2, PoolCardinality DEF Pool!Return
  <2> QED
    BY <2>1, <2>3 DEF Pool!Next, IInv, TypeOK
<1> QED
  BY <1>1, <1>2 DEF Finish, ReleaseKey

\* The gate is a semaphore: with its holders as the owners of slots, every step
\* it takes is a step of SlotPool or leaves owners and capacity alone.
THEOREM GateImplementsPool == Spec => PoolSpec
<1>1. Init => Pool!Init
  BY DEF Init, Pool!Init
<1>2. IInv /\ IInv' /\ [Next]_vars => [Pool!Next]_<<holders, limit>>
  <2> SUFFICES ASSUME IInv, IInv', [Next]_vars
               PROVE  Pool!Next \/ UNCHANGED <<holders, limit>>
    OBVIOUS
  <2>1. ASSUME NEW c \in Calls, Step(c)
        PROVE  Pool!Next \/ UNCHANGED <<holders, limit>>
    BY <2>1, StutterStep, EnterRefines, FinishRefines DEF Step
  <2>2. CASE UNCHANGED vars
    BY <2>2 DEF vars
  <2> QED
    BY <2>1, <2>2 DEF Next
<1> QED
  BY <1>1, <1>2, Invariant, PTL DEF Spec, PoolSpec, Pool!Spec, Pool!poolVars

\* Slots are granted in queue order: by priority, then by arrival.
THEOREM GrantsFollowTheQueue == Spec => NoOvertaking
<1> DEFINE Fair == \A c \in holders' \ holders, w \in waiters \cap waiters' : Before(c, w)
<1>1. IInv /\ [Next]_vars => [Fair]_vars
  <2> SUFFICES ASSUME IInv, Next PROVE Fair
    OBVIOUS
  <2> PICK c \in Calls : Step(c)
    BY DEF Next
  <2>1. CASE UNCHANGED holders
    BY <2>1
  <2>2. CASE Enter(c)
    BY <2>2 DEF Enter, TakeSlot, JoinQueue
  <2>3. ASSUME NEW h, DropAndPromote(h)
        PROVE  Fair
    BY <2>3 DEF DropAndPromote, IsPromotion, IsFront
  <2>4. CASE Finish(c)
    BY <2>3, <2>4 DEF Finish, ReleaseKey, gate
  <2> QED
    BY <2>1, <2>2, <2>4, StutterStep DEF Step
<1> QED
  BY <1>1, Invariant, PTL DEF Spec, NoOvertaking
=============================================================================
