--------------------------- MODULE GatewayProofs ---------------------------
(***************************************************************************)
(* Theorems about the ownership of concurrency leases, for every set of    *)
(* requests, paths and keys.                                               *)
(***************************************************************************)
EXTENDS Gateway, FiniteSetTheorems, TLAPS

LEMMA InitIInv == Init => IInv
<1> SUFFICES ASSUME Init PROVE IInv
  OBVIOUS
<1>1. TypeOK /\ NoDoubleRelease
  BY DEF Init, TypeOK, NoDoubleRelease, GenPhases, ThrPhases, HopPhases
<1>2. ASSUME NEW r \in Requests PROVE PhasesFit(r) /\ LeaseFits(r) /\ ReplaysFit(r)
  BY DEF Init, PhasesFit, LeaseFits, ReplaysFit, Answerable, InHandler, Path
<1> QED
  BY <1>1, <1>2 DEF IInv

\* A step of one request disturbs no other: it is enough to look at that one.
LEMMA LocalStep ==
    ASSUME IInv, NEW r \in Requests, TypeOK', NoDoubleRelease',
           PhasesFit(r)', LeaseFits(r)', ReplaysFit(r)',
           \A q \in Requests \ {r} :
              /\ gen'[q] = gen[q] /\ thr'[q] = thr[q] /\ event'[q] = event[q]
              /\ replays'[q] = replays[q]
              /\ q \in leased' <=> q \in leased
              /\ q \in lost' <=> q \in lost
              /\ q \in authorized' <=> q \in authorized
    PROVE  IInv'
<1>1. ASSUME NEW q \in Requests \ {r}
      PROVE  PhasesFit(q)' /\ LeaseFits(q)' /\ ReplaysFit(q)'
  BY <1>1 DEF IInv, PhasesFit, LeaseFits, ReplaysFit, Answerable, Replayed, InHandler, Path
<1> QED
  BY <1>1 DEF IInv
------------------------------------------------------------------------------
\* What the operations on the books do, in the form the steps below need.
LEMMA Releases ==
    ASSUME IInv, NEW r \in Requests, r \in leased \/ Replayed(r)', ReleaseLimiter(r),
           \A q \in Requests : Replayed(q) => Replayed(q)'
    PROVE  leased' = leased \ {r} /\ doubled' \subseteq Requests /\ NoDoubleRelease'
BY DEF ReleaseLimiter, IInv, NoDoubleRelease, TypeOK

LEMMA SlotReleases ==
    ASSUME NEW r, ReleaseSlot(r)
    PROVE  slots' \subseteq slots
BY DEF ReleaseSlot

\* The handler's coroutine, on the plain and the ticket path.
LEMMA HandlerSteps ==
    ASSUME IInv, NEW r \in Requests,
           \/ HandlerStep(r) \/ HandlerRaises(r) \/ Forward(r) \/ ForwardNeverComes(r)
    PROVE  IInv'
<1> USE GatewayAssumption DEF GatewayAssumption, GenGoto, IInv, TypeOK, NoDoubleRelease,
        PhasesFit, LeaseFits, ReplaysFit, Answerable, Replayed, InHandler, Path, GenPhases
<1>1. CASE Authorize(r)
  <2>0. UNCHANGED <<replays, doubled>>
    BY <1>1 DEF Authorize, Refused, Admitted, RaisedInAuthorize, book
  <2>1. TypeOK' /\ NoDoubleRelease'
    <3>1. gen' \in [Requests -> GenPhases] /\ thr' \in [Requests -> ThrPhases]
      BY <1>1 DEF Authorize, Refused, Admitted, RaisedInAuthorize, book
    <3>2. /\ leased' \subseteq Requests /\ authorized' \subseteq Requests
          /\ authorized \subseteq authorized' /\ slots' = slots /\ lost' \subseteq Requests
          /\ crossed' = crossed /\ event' \in [Requests -> {"none", "deferred", "final"}]
      BY <1>1 DEF Authorize, Refused, Admitted, RaisedInAuthorize, book
    <3>3. NoDoubleRelease'
      BY <2>0
    <3> QED
      BY <2>0, <3>1, <3>2, <3>3
  <2>2. PhasesFit(r)' /\ LeaseFits(r)' /\ ReplaysFit(r)'
    BY <1>1 DEF Authorize, Refused, Admitted, RaisedInAuthorize, book
  <2> QED
    BY <1>1, <2>1, <2>2, LocalStep
       DEF Authorize, Refused, Admitted, RaisedInAuthorize, book
<1>2. CASE PreflightBlock(r)
  <2>0. /\ gen[r] = "preflight" /\ gen' \in [Requests -> GenPhases]
        /\ gen' = [gen EXCEPT ![r] = gen'[r]] /\ gen'[r] \in {"admission", "over"}
        /\ leased' = IF gen'[r] = "over" THEN leased \ {r} ELSE leased
        /\ UNCHANGED <<thr, slots, authorized, event, lost, crossed, replays>>
    BY <1>2 DEF PreflightBlock, TurnedAway, ReleaseLimiter, book
  <2>1. TypeOK' /\ NoDoubleRelease'
    <3>1. r \in leased
      BY <2>0
    <3>2. doubled' = doubled
      BY <1>2, <3>1 DEF PreflightBlock, TurnedAway, ReleaseLimiter, book
    <3>3. NoDoubleRelease'
      BY <2>0, <3>2
    <3>4. leased' \subseteq Requests
      BY <2>0
    <3> QED
      BY <2>0, <3>2, <3>3, <3>4
  <2>2. PhasesFit(r)' /\ LeaseFits(r)' /\ ReplaysFit(r)'
    <3>1. PhasesFit(r)' /\ ReplaysFit(r)'
      BY <2>0
    <3>2. LeaseFits(r)'
      BY <2>0
    <3> QED
      BY <3>1, <3>2
  <2> QED
    BY <2>0, <2>1, <2>2, LocalStep
<1>3. CASE AdmissionBlock(r)
  <2>1. TypeOK' /\ NoDoubleRelease'
    <3>1. r \in leased /\ UNCHANGED <<replays, doubled>>
      BY <1>3 DEF AdmissionBlock, LetIn, RefusedByGate, ReleaseLimiter
    <3>2. NoDoubleRelease'
      BY <3>1
    <3>3. /\ gen' \in [Requests -> GenPhases] /\ slots' \subseteq slots \cup {r}
          /\ leased' \subseteq leased /\ crossed' \subseteq Requests
          /\ UNCHANGED <<thr, authorized, event, lost>>
      BY <1>3 DEF AdmissionBlock, LetIn, RefusedByGate, ReleaseLimiter
    <3>4. r \in authorized
      BY <1>3 DEF AdmissionBlock
    <3> QED
      BY <3>1, <3>2, <3>3, <3>4
  <2>2. PhasesFit(r)' /\ LeaseFits(r)' /\ ReplaysFit(r)'
    BY <1>3 DEF AdmissionBlock, LetIn, RefusedByGate, ReleaseLimiter
  <2> QED
    BY <1>3, <2>1, <2>2, LocalStep DEF AdmissionBlock, LetIn, RefusedByGate, ReleaseLimiter
<1>4. CASE MintTicket(r)
  <2>1. TypeOK' /\ NoDoubleRelease'
    BY <1>4 DEF MintTicket, book
  <2>2. PhasesFit(r)' /\ LeaseFits(r)' /\ ReplaysFit(r)'
    BY <1>4 DEF MintTicket, book
  <2> QED
    BY <1>4, <2>1, <2>2, LocalStep DEF MintTicket, book
<1>5. CASE Forward(r)
  <2>1. /\ gen[r] = "ticketed" /\ gen' = [gen EXCEPT ![r] = "forwarded"]
        /\ replays' = [replays EXCEPT ![r] = [h \in Hops |-> "due"]]
        /\ UNCHANGED <<thr, leased, slots, authorized, event, doubled, lost, crossed>>
    BY <1>5 DEF Forward, book
  <2>2. r \in leased /\ r \in authorized /\ r \in Path("ticket") /\ ~Replayed(r)
    BY <2>1
  <2>3. /\ replays'[r] = [h \in Hops |-> "due"]
        /\ \A q \in Requests \ {r} : replays'[q] = replays[q]
        /\ replays' \in [Requests -> [Hops -> HopPhases]]
    BY <2>1 DEF HopPhases
  <2>4. TypeOK'
    BY <2>1, <2>3
  <2>5. \A q \in Requests : Replayed(q)' <=> Replayed(q)
    <3>1. ~Replayed(r)'
      BY <2>3
    <3> QED
      BY <2>2, <2>3, <3>1
  <2>6. NoDoubleRelease'
    BY <2>1, <2>5
  <2>7. PhasesFit(r)' /\ ReplaysFit(r)'
    BY <2>1, <2>2
  <2>8. r \in leased' /\ r \in authorized' /\ event'[r] = "deferred"
    BY <2>1, <2>2
  <2>9. LeaseFits(r)'
    BY <2>1, <2>2, <2>8
  <2> QED
    BY <2>1, <2>3, <2>4, <2>6, <2>7, <2>9, LocalStep
<1>6. CASE HandlerRaises(r) \/ ForwardNeverComes(r)
  <2>1. TypeOK' /\ NoDoubleRelease'
    BY <1>6 DEF HandlerRaises, ForwardNeverComes
  <2>2. PhasesFit(r)' /\ LeaseFits(r)' /\ ReplaysFit(r)'
    BY <1>6 DEF HandlerRaises, ForwardNeverComes
  <2> QED
    BY <1>6, <2>1, <2>2, LocalStep DEF HandlerRaises, ForwardNeverComes
<1> QED
  BY <1>1, <1>2, <1>3, <1>4, <1>5, <1>6 DEF HandlerStep

\* The prepare thread of the early path.
LEMMA ThreadSteps ==
    ASSUME IInv, NEW r \in Requests, ThreadStep(r) \/ ThrRaises(r)
    PROVE  IInv'
<1> USE GatewayAssumption DEF GatewayAssumption, ThrGoto, IInv, TypeOK, NoDoubleRelease,
        PhasesFit, LeaseFits, ReplaysFit, Answerable, Replayed, InHandler, Path, ThrPhases,
        ThrBusy
<1>1. CASE ThrAuthorize(r)
  <2>0. UNCHANGED <<replays, doubled>>
    BY <1>1 DEF ThrAuthorize, Refused, Admitted, RaisedInAuthorize, book
  <2>1. TypeOK' /\ NoDoubleRelease'
    <3>1. gen' \in [Requests -> GenPhases] /\ thr' \in [Requests -> ThrPhases]
      BY <1>1 DEF ThrAuthorize, Refused, Admitted, RaisedInAuthorize, book
    <3>2. /\ leased' \subseteq Requests /\ authorized' \subseteq Requests
          /\ authorized \subseteq authorized' /\ slots' = slots /\ lost' \subseteq Requests
          /\ crossed' = crossed /\ event' \in [Requests -> {"none", "deferred", "final"}]
      BY <1>1 DEF ThrAuthorize, Refused, Admitted, RaisedInAuthorize, book
    <3>3. NoDoubleRelease'
      BY <2>0
    <3> QED
      BY <2>0, <3>1, <3>2, <3>3
  <2>2. PhasesFit(r)' /\ LeaseFits(r)' /\ ReplaysFit(r)'
    BY <1>1 DEF ThrAuthorize, Refused, Admitted, RaisedInAuthorize, book
  <2> QED
    BY <1>1, <2>1, <2>2, LocalStep
       DEF ThrAuthorize, Refused, Admitted, RaisedInAuthorize, book
<1>2. CASE ThrPreflight(r)
  <2>1. TypeOK' /\ NoDoubleRelease'
    BY <1>2 DEF ThrPreflight, TurnedAway, ReleaseLimiter, book
  <2>2. PhasesFit(r)' /\ LeaseFits(r)' /\ ReplaysFit(r)'
    BY <1>2 DEF ThrPreflight, TurnedAway, ReleaseLimiter, book
  <2> QED
    BY <1>2, <2>1, <2>2, LocalStep DEF ThrPreflight, TurnedAway, ReleaseLimiter, book
<1>3. CASE ThrAdmission(r)
  <2>1. TypeOK' /\ NoDoubleRelease'
    BY <1>3 DEF ThrAdmission, LetIn, RefusedByGate, ReleaseLimiter
  <2>2. PhasesFit(r)' /\ LeaseFits(r)' /\ ReplaysFit(r)'
    BY <1>3 DEF ThrAdmission, LetIn, RefusedByGate, ReleaseLimiter
  <2> QED
    BY <1>3, <2>1, <2>2, LocalStep DEF ThrAdmission, LetIn, RefusedByGate, ReleaseLimiter
<1>4. CASE ThrReturns(r)
  <2>1. TypeOK' /\ NoDoubleRelease'
    BY <1>4 DEF ThrReturns, book
  <2>2. PhasesFit(r)' /\ LeaseFits(r)' /\ ReplaysFit(r)'
    BY <1>4 DEF ThrReturns, book
  <2> QED
    BY <1>4, <2>1, <2>2, LocalStep DEF ThrReturns, book
<1>5. CASE ThrRaises(r)
  <2>1. PICK p \in {"preflight", "admission", "routing"} : ThrGoto(r, p, "errReturned")
    BY <1>5 DEF ThrRaises
  <2>2. r \in leased /\ ~Replayed(r)
    BY <2>1
  <2>3. /\ leased' = leased \ {r} /\ doubled' \subseteq Requests /\ NoDoubleRelease'
        /\ slots' \subseteq slots
        /\ UNCHANGED <<gen, authorized, event, lost, crossed>>
    BY <1>5, <2>1, <2>2, Releases, SlotReleases DEF ThrRaises, ReleaseLease
  <2>4. TypeOK'
    BY <2>1, <2>3
  <2>5. PhasesFit(r)' /\ LeaseFits(r)' /\ ReplaysFit(r)'
    BY <2>1, <2>3
  <2> QED
    BY <2>1, <2>3, <2>4, <2>5, LocalStep
<1> QED
  BY <1>1, <1>2, <1>3, <1>4, <1>5 DEF ThreadStep

\* The response generator of the early path, up to the adoption of a connection.
LEMMA GeneratorSteps ==
    ASSUME IInv, NEW r \in Requests,
           \/ GeneratorStep(r) \/ GoneBeforePrepare(r)
           \/ ReapFinished(r) \/ CancelUnfinished(r)
    PROVE  IInv'
<1> USE GatewayAssumption DEF GatewayAssumption, GenGoto, ThrGoto, IInv, TypeOK,
        NoDoubleRelease, PhasesFit, LeaseFits, ReplaysFit, Answerable, Replayed, InHandler,
        Path, GenPhases, ThrPhases, ThrBusy
<1>1. CASE GeneratorStep(r) \/ GoneBeforePrepare(r)
  <2>0. UNCHANGED <<replays, doubled>>
    BY <1>1 DEF GeneratorStep, StartPrepare, PrepareTaskDone, Adopt, PrepareFailed,
                GoneBeforePrepare, book
  <2>1. TypeOK' /\ NoDoubleRelease'
    <3>1. gen' \in [Requests -> GenPhases] /\ thr' \in [Requests -> ThrPhases]
      <4>1. CASE StartPrepare(r) \/ GoneBeforePrepare(r)
        <5>1. PICK t \in GenPhases : gen' = [gen EXCEPT ![r] = t]
          BY <4>1 DEF StartPrepare, GoneBeforePrepare
        <5>2. thr' = thr \/ thr' = [thr EXCEPT ![r] = "authorize"]
          BY <4>1 DEF StartPrepare, GoneBeforePrepare
        <5> QED
          BY <5>1, <5>2
      <4>2. CASE PrepareTaskDone(r)
        <5>1. gen' = gen
          BY <4>2 DEF PrepareTaskDone
        <5>2. PICK t \in {"okDone", "errDone"} : thr' = [thr EXCEPT ![r] = t]
          BY <4>2 DEF PrepareTaskDone
        <5> QED
          BY <5>1, <5>2
      <4>3. CASE Adopt(r) \/ PrepareFailed(r)
        BY <4>3 DEF Adopt, PrepareFailed, book
      <4> QED
        BY <1>1, <4>1, <4>2, <4>3 DEF GeneratorStep
    <3>2. UNCHANGED book
      BY <1>1 DEF GeneratorStep, StartPrepare, PrepareTaskDone, Adopt, PrepareFailed,
                  GoneBeforePrepare, book
    <3>3. NoDoubleRelease'
      BY <2>0
    <3> QED
      BY <2>0, <3>1, <3>2, <3>3 DEF book
  <2>2. PhasesFit(r)' /\ LeaseFits(r)' /\ ReplaysFit(r)'
    BY <1>1 DEF GeneratorStep, StartPrepare, PrepareTaskDone, Adopt, PrepareFailed,
                GoneBeforePrepare, book
  <2> QED
    BY <1>1, <2>1, <2>2, LocalStep
       DEF GeneratorStep, StartPrepare, PrepareTaskDone, Adopt, PrepareFailed,
           GoneBeforePrepare, book
<1>2. CASE ReapFinished(r) /\ thr[r] = "okDone"
  <2>1. GenGoto(r, "pinging", "over") /\ r \in leased /\ ~Replayed(r)
    BY <1>2 DEF ReapFinished
  <2>2. /\ leased' = leased \ {r} /\ doubled' \subseteq Requests /\ NoDoubleRelease'
        /\ slots' \subseteq slots
        /\ UNCHANGED <<thr, authorized, event, lost, crossed>>
    BY <1>2, <2>1, Releases, SlotReleases DEF ReapFinished, ReleaseLease
  <2>3. TypeOK'
    BY <2>1, <2>2
  <2>4. PhasesFit(r)' /\ LeaseFits(r)' /\ ReplaysFit(r)'
    BY <1>2, <2>1, <2>2
  <2> QED
    BY <2>1, <2>2, <2>3, <2>4, LocalStep
<1>3. CASE ReapFinished(r) /\ thr[r] = "errDone"
  <2>1. GenGoto(r, "pinging", "over") /\ UNCHANGED <<thr, book>>
    BY <1>3 DEF ReapFinished, book
  <2>2. TypeOK' /\ NoDoubleRelease'
    BY <2>1 DEF book
  <2>3. PhasesFit(r)' /\ LeaseFits(r)' /\ ReplaysFit(r)'
    BY <1>3, <2>1 DEF book
  <2> QED
    BY <2>1, <2>2, <2>3, LocalStep DEF book
<1>4. CASE CancelUnfinished(r)
  <2>1. TypeOK' /\ NoDoubleRelease'
    BY <1>4 DEF CancelUnfinished
  <2>2. PhasesFit(r)' /\ LeaseFits(r)' /\ ReplaysFit(r)'
    BY <1>4 DEF CancelUnfinished
  <2> QED
    BY <1>4, <2>1, <2>2, LocalStep DEF CancelUnfinished
<1> QED
  BY <1>1, <1>2, <1>3, <1>4 DEF ReapFinished

\* The upstream exchange, on all paths.
LEMMA UpstreamSteps ==
    ASSUME IInv, NEW r \in Requests, UpstreamStep(r) \/ Disconnect(r)
    PROVE  IInv'
<1> USE GatewayAssumption DEF GatewayAssumption, GenGoto, BeforeUpstream, IInv, TypeOK,
        NoDoubleRelease, PhasesFit, LeaseFits, ReplaysFit, Answerable, Replayed, InHandler,
        Path, GenPhases
<1>1. CASE Connect(r)
  <2>1. TypeOK' /\ NoDoubleRelease'
    BY <1>1 DEF Connect, book
  <2>2. PhasesFit(r)' /\ LeaseFits(r)' /\ ReplaysFit(r)'
    BY <1>1 DEF Connect, book
  <2> QED
    BY <1>1, <2>1, <2>2, LocalStep DEF Connect, book
<1>2. CASE ConnectFails(r) \/ StreamEnds(r) \/ Disconnect(r)
  <2>1. /\ gen' = [gen EXCEPT ![r] = "over"] /\ ReleaseLease(r)
        /\ UNCHANGED <<thr, authorized, lost, crossed, replays>>
        /\ Finalize(r) \/ KeepEvent
    BY <1>2 DEF ConnectFails, StreamEnds, Disconnect
  <2>2. Answerable(r) /\ (InHandler(r) \/ thr[r] = "okDone")
    BY <1>2 DEF ConnectFails, StreamEnds, Disconnect
  <2>3. r \in leased \/ Replayed(r)'
    BY <2>1, <2>2
  <2>4. /\ leased' = leased \ {r} /\ doubled' \subseteq Requests /\ NoDoubleRelease'
        /\ slots' \subseteq slots
    BY <2>1, <2>3, Releases, SlotReleases DEF ReleaseLease
  <2>5. TypeOK'
    BY <2>1, <2>4 DEF Finalize, KeepEvent
  <2>6. PhasesFit(r)' /\ LeaseFits(r)'
    BY <2>1, <2>2, <2>4 DEF ThrBusy
  <2>7. ReplaysFit(r)'
    BY <2>1
  <2> QED
    BY <2>1, <2>4, <2>5, <2>6, <2>7, LocalStep DEF Finalize, KeepEvent
<1> QED
  BY <1>1, <1>2 DEF UpstreamStep

\* A ticket presented again: the lease may be released again, nothing is taken.
LEMMA ReplaySteps ==
    ASSUME IInv, NEW r \in Requests, HopAgain(r)
    PROVE  IInv'
<1> USE GatewayAssumption DEF GatewayAssumption, ReplayGoto, IInv, TypeOK, HopPhases
<1>1. PICK h \in Hops : \/ Reforward(r, h) \/ ReplayConnects(r, h)
                        \/ ReplayEnds(r, h) \/ ReplayRaises(r, h)
  BY DEF HopAgain
<1>2. PICK p \in {"forwarded", "streaming", "over"} :
        replays[r][h] \in HopPhases \ {"none"} /\ replays' = [replays EXCEPT ![r][h] = p]
  BY <1>1 DEF Reforward, ReplayConnects, ReplayEnds, ReplayRaises
<1>3. Replayed(r)' /\ \A q \in Requests : Replayed(q) => Replayed(q)'
  BY <1>2 DEF Replayed
<1>4. replays' \in [Requests -> [Hops -> HopPhases]]
      /\ \A q \in Requests \ {r} : replays'[q] = replays[q]
  BY <1>2
<1>5. r \in Path("ticket") /\ r \in authorized /\ gen[r] \in {"forwarded", "streaming", "over"}
  BY <1>2 DEF ReplaysFit
<1>6. CASE UNCHANGED <<gen, thr, book>>
  <2>1. TypeOK' /\ NoDoubleRelease'
    BY <1>3, <1>4, <1>6 DEF book, NoDoubleRelease
  <2>2. PhasesFit(r)' /\ LeaseFits(r)' /\ ReplaysFit(r)'
    BY <1>3, <1>5, <1>6 DEF book, PhasesFit, LeaseFits, ReplaysFit, Answerable, InHandler, Path
  <2> QED
    BY <1>4, <1>6, <2>1, <2>2, LocalStep DEF book
<1>7. CASE ReplayEnds(r, h)
  <2>1. /\ ReleaseLease(r) /\ UNCHANGED <<gen, thr, authorized, lost, crossed>>
        /\ Finalize(r) \/ KeepEvent
    BY <1>7 DEF ReplayEnds
  <2>2. /\ leased' = leased \ {r} /\ doubled' \subseteq Requests /\ NoDoubleRelease'
        /\ slots' \subseteq slots
    BY <1>3, <2>1, Releases, SlotReleases DEF ReleaseLease
  <2>3. TypeOK'
    BY <1>4, <2>1, <2>2 DEF Finalize, KeepEvent
  <2>4. PhasesFit(r)' /\ LeaseFits(r)' /\ ReplaysFit(r)'
    BY <1>3, <1>5, <2>1, <2>2
       DEF PhasesFit, LeaseFits, ReplaysFit, Answerable, InHandler, Path
  <2> QED
    BY <1>4, <2>1, <2>2, <2>3, <2>4, LocalStep DEF Finalize, KeepEvent
<1> QED
  BY <1>1, <1>6, <1>7 DEF Reforward, ReplayConnects, ReplayRaises
------------------------------------------------------------------------------
LEMMA NextIInv == IInv /\ [Next]_vars => IInv'
<1> SUFFICES ASSUME IInv, [Next]_vars PROVE IInv'
  OBVIOUS
<1>1. CASE UNCHANGED vars
  BY <1>1 DEF vars, book, IInv, TypeOK, NoDoubleRelease, PhasesFit, LeaseFits, ReplaysFit,
              Answerable, Replayed, InHandler, Path
<1>2. ASSUME NEW r \in Requests,
             \/ HandlerStep(r) \/ ThreadStep(r) \/ GeneratorStep(r) \/ UpstreamStep(r)
             \/ Hop(r) \/ Mishap(r)
      PROVE  IInv'
  BY <1>2, HandlerSteps, ThreadSteps, GeneratorSteps, UpstreamSteps, ReplaySteps
     DEF Hop, Mishap
<1> QED
  BY <1>1, <1>2 DEF Next

\* The inductive invariant: where handler, thread and generator of a request may
\* be together, and that a lease that is out has somebody who answers for it.
THEOREM Invariant == Spec => []IInv
<1> QED
  BY InitIInv, NextIInv, PTL DEF Spec

\* Every variable keeps its type.
THEOREM TypeCorrect == Spec => []TypeOK
<1>1. IInv => TypeOK
  BY DEF IInv
<1> QED
  BY Invariant, <1>1, PTL

\* A lease is released once, whichever of the gates, the prepare thread, the reaper
\* and the stream meets the end of the request; a second release comes only from a
\* ticket that was presented twice.
THEOREM ReleasedAtMostOnce == Spec => []NoDoubleRelease
<1>1. IInv => NoDoubleRelease
  BY DEF IInv
<1> QED
  BY Invariant, <1>1, PTL

\* A running upstream request was admitted, also on a ticket presented again; unless
\* its ticket was, the limiter counts it and its event is open.
THEOREM StreamsAreAccounted == Spec => []StreamHoldsLease
<1>1. IInv => StreamHoldsLease
  <2> SUFFICES ASSUME IInv, NEW r \in Requests, Streams(r)
               PROVE  /\ r \in authorized
                      /\ Replayed(r) \/ (r \in leased /\ event[r] = "deferred")
    BY DEF StreamHoldsLease
  <2>1. CASE gen[r] = "streaming"
    <3>1. Answerable(r)
      BY <2>1, GatewayAssumption
         DEF GatewayAssumption, IInv, PhasesFit, Answerable, InHandler, Path
    <3> QED
      BY <3>1 DEF IInv, LeaseFits
  <2>2. CASE \E h \in Hops : replays[r][h] = "streaming"
    BY <2>2 DEF IInv, ReplaysFit, Replayed
  <2> QED
    BY <2>1, <2>2 DEF Streams
<1> QED
  BY Invariant, <1>1, PTL

\* A request that is over has given its lease back, unless nobody was left to.
THEOREM LeasesComeBack == Spec => []LeaseGivenBack
<1>1. IInv => LeaseGivenBack
  <2> SUFFICES ASSUME IInv, NEW r \in Requests, Over(r), r \in leased
               PROVE  r \in lost
    BY DEF LeaseGivenBack
  <2>1. CASE Answerable(r)
    BY <2>1, GatewayAssumption
       DEF GatewayAssumption, IInv, PhasesFit, Answerable, Over, InHandler, Path, ThrBusy
  <2>2. CASE ~Answerable(r)
    BY <2>2 DEF IInv, LeaseFits
  <2> QED
    BY <2>1, <2>2
<1> QED
  BY Invariant, <1>1, PTL
------------------------------------------------------------------------------
(* The holder records of the upstream gate.  A release drops any record of   *)
(* its key, so that only their number can be followed: per key it is at most *)
(* the number of requests that were let in and may still release.            *)

Holding == {r \in Requests : MayHold(r)}

\* A request that was refused, or lost by its handler, is not let in after that.
StaysOut(r) ==
    /\ InHandler(r) /\ (r \in crossed \/ r \in lost) => gen[r] = "over"
    /\ ~InHandler(r) /\ r \in crossed => thr[r] \in {"errReturned", "errDone"}
    /\ gen[r] = "start" => r \notin lost

SlotsInv ==
    /\ IsFiniteSet(slots) /\ IsFiniteSet(Holding)
    /\ \A r \in Requests : StaysOut(r)
    /\ \A k \in {KeyOf[r] : r \in Requests} :
         Cardinality(OfKey(slots, k)) <= Cardinality(OfKey(Holding, k))

\* What a step of r leaves as it is.
OthersStay(r) ==
    \A q \in Requests \ {r} :
        (MayHold(q)' <=> MayHold(q)) /\ (StaysOut(q) => StaysOut(q)')

LEMMA KeyCounts ==
    ASSUME NEW S, IsFiniteSet(S), NEW k
    PROVE  IsFiniteSet(OfKey(S, k)) /\ Cardinality(OfKey(S, k)) \in Nat
<1>1. OfKey(S, k) \in SUBSET S
  BY DEF OfKey
<1> QED
  BY <1>1, FS_Subset, FS_CardinalityType

\* Who may hold a record, one request more or less.
LEMMA HoldingStep ==
    ASSUME SlotsInv, NEW r \in Requests, OthersStay(r)
    PROVE  /\ Holding' = IF MayHold(r)' THEN Holding \cup {r} ELSE Holding \ {r}
           /\ IsFiniteSet(Holding')
<1>1. Holding' = IF MayHold(r)' THEN Holding \cup {r} ELSE Holding \ {r}
  BY DEF Holding, OthersStay
<1>2. IsFiniteSet(Holding \cup {r}) /\ IsFiniteSet(Holding \ {r})
  BY FS_AddElement, FS_RemoveElement DEF SlotsInv
<1> QED
  BY <1>1, <1>2

\* The step takes no record.
LEMMA NoSlotTaken ==
    ASSUME SlotsInv, NEW r \in Requests, OthersStay(r), StaysOut(r)',
           UNCHANGED slots, MayHold(r) => MayHold(r)'
    PROVE  SlotsInv'
<1>1. Holding \subseteq Holding' /\ IsFiniteSet(Holding')
  BY HoldingStep DEF Holding
<1>2. ASSUME NEW k \in {KeyOf[q] : q \in Requests}
      PROVE  Cardinality(OfKey(slots, k)') <= Cardinality(OfKey(Holding, k)')
  <2>1. OfKey(Holding, k) \in SUBSET OfKey(Holding', k)
    BY <1>1 DEF OfKey
  <2>2. Cardinality(OfKey(Holding, k)) <= Cardinality(OfKey(Holding', k))
    BY <1>1, <2>1, KeyCounts, FS_Subset
  <2>3. Cardinality(OfKey(slots, k)) <= Cardinality(OfKey(Holding, k))
    BY <1>2 DEF SlotsInv
  <2>4. OfKey(slots, k)' = OfKey(slots, k) /\ OfKey(Holding, k)' = OfKey(Holding', k)
    BY DEF OfKey
  <2> QED
    BY <1>1, <2>2, <2>3, <2>4, KeyCounts DEF SlotsInv
<1>3. \A q \in Requests : StaysOut(q)'
  BY DEF SlotsInv, OthersStay
<1> QED
  BY <1>1, <1>2, <1>3 DEF SlotsInv

\* A record is made for a request that comes to hold it.
LEMMA SlotTaken ==
    ASSUME SlotsInv, NEW r \in Requests, OthersStay(r), StaysOut(r)',
           slots' = slots \cup {r}, ~MayHold(r), MayHold(r)'
    PROVE  SlotsInv'
<1>1. Holding' = Holding \cup {r} /\ r \notin Holding /\ IsFiniteSet(Holding')
  BY HoldingStep DEF Holding
<1>2. IsFiniteSet(slots')
  BY FS_AddElement DEF SlotsInv
<1>3. ASSUME NEW k \in {KeyOf[q] : q \in Requests}
      PROVE  Cardinality(OfKey(slots, k)') <= Cardinality(OfKey(Holding, k)')
  <2>1. /\ IsFiniteSet(OfKey(slots, k)) /\ Cardinality(OfKey(slots, k)) \in Nat
        /\ IsFiniteSet(OfKey(Holding, k)) /\ Cardinality(OfKey(Holding, k)) \in Nat
    BY KeyCounts DEF SlotsInv
  <2>2. Cardinality(OfKey(slots, k)) <= Cardinality(OfKey(Holding, k))
    BY <1>3 DEF SlotsInv
  <2>3. CASE KeyOf[r] # k
    <3>1. OfKey(slots, k)' = OfKey(slots, k) /\ OfKey(Holding, k)' = OfKey(Holding, k)
      BY <1>1, <2>3 DEF OfKey
    <3> QED
      BY <2>2, <3>1
  <2>4. CASE KeyOf[r] = k
    <3>1. /\ OfKey(slots, k)' = OfKey(slots, k) \cup {r}
          /\ OfKey(Holding, k)' = OfKey(Holding, k) \cup {r}
          /\ r \notin OfKey(Holding, k)
      BY <1>1, <2>4 DEF OfKey
    <3>2. /\ Cardinality(OfKey(slots, k) \cup {r}) <= Cardinality(OfKey(slots, k)) + 1
          /\ Cardinality(OfKey(Holding, k) \cup {r}) = Cardinality(OfKey(Holding, k)) + 1
          /\ Cardinality(OfKey(slots, k) \cup {r}) \in Nat
      BY <2>1, <3>1, FS_AddElement, FS_CardinalityType
    <3>3. Cardinality(OfKey(slots, k) \cup {r}) <= Cardinality(OfKey(Holding, k) \cup {r})
      BY <2>1, <2>2, <3>2
    <3> QED
      BY <3>1, <3>3
  <2> QED
    BY <2>3, <2>4
<1>4. \A q \in Requests : StaysOut(q)'
  BY DEF SlotsInv, OthersStay
<1> QED
  BY <1>1, <1>2, <1>3, <1>4 DEF SlotsInv

\* A release drops a record of the key if there is one.
LEMMA SlotReleased ==
    ASSUME SlotsInv, NEW r \in Requests, OthersStay(r), StaysOut(r)', ReleaseSlot(r)
    PROVE  SlotsInv'
<1>1. Holding \ {r} \subseteq Holding' /\ IsFiniteSet(Holding')
  BY HoldingStep
<1>2. \/ OfKey(slots, KeyOf[r]) = {} /\ slots' = slots
      \/ \E h \in OfKey(slots, KeyOf[r]) : slots' = slots \ {h}
  BY DEF ReleaseSlot, OfKey
<1>3. IsFiniteSet(slots')
  BY <1>2, FS_RemoveElement DEF SlotsInv
<1>4. ASSUME NEW k \in {KeyOf[q] : q \in Requests}
      PROVE  Cardinality(OfKey(slots, k)') <= Cardinality(OfKey(Holding, k)')
  <2> DEFINE S == OfKey(slots, k)
             H == OfKey(Holding, k)
  <2>1. /\ IsFiniteSet(S) /\ Cardinality(S) \in Nat /\ IsFiniteSet(H) /\ Cardinality(H) \in Nat
        /\ IsFiniteSet(OfKey(Holding', k)) /\ Cardinality(OfKey(Holding', k)) \in Nat
    BY <1>1, KeyCounts DEF SlotsInv
  <2>2. Cardinality(S) <= Cardinality(H)
    BY <1>4 DEF SlotsInv
  <2>3. OfKey(slots, k)' = OfKey(slots', k) /\ OfKey(Holding, k)' = OfKey(Holding', k)
    BY DEF OfKey
  <2>4. CASE KeyOf[r] # k
    <3>1. OfKey(slots', k) = S
      BY <1>2, <2>4 DEF OfKey
    <3>2. H \in SUBSET OfKey(Holding', k)
      BY <1>1, <2>4 DEF OfKey
    <3>3. Cardinality(H) <= Cardinality(OfKey(Holding', k))
      BY <2>1, <3>2, FS_Subset
    <3> QED
      BY <2>1, <2>2, <2>3, <3>1, <3>3
  <2>5. CASE KeyOf[r] = k /\ S = {}
    <3>1. OfKey(slots', k) = {}
      BY <1>2, <2>5 DEF OfKey
    <3> QED
      BY <2>1, <2>3, <3>1, FS_EmptySet
  <2>6. CASE KeyOf[r] = k /\ S # {}
    <3>1. PICK h \in S : slots' = slots \ {h}
      BY <1>2, <2>6
    <3>2. OfKey(slots', k) = S \ {h}
      BY <3>1 DEF OfKey
    <3>3. Cardinality(S \ {h}) = Cardinality(S) - 1
      BY <2>1, <3>1, FS_RemoveElement
    <3>4. H \ {r} \in SUBSET OfKey(Holding', k)
      BY <1>1 DEF OfKey
    <3>5. /\ Cardinality(H \ {r}) <= Cardinality(OfKey(Holding', k))
          /\ Cardinality(H \ {r}) >= Cardinality(H) - 1
          /\ Cardinality(H \ {r}) \in Nat
      BY <2>1, <3>4, FS_Subset, FS_RemoveElement, FS_CardinalityType
    <3> QED
      BY <2>1, <2>2, <2>3, <3>2, <3>3, <3>5
  <2> QED
    BY <2>4, <2>5, <2>6
<1>5. \A q \in Requests : StaysOut(q)'
  BY DEF SlotsInv, OthersStay
<1> QED
  BY <1>1, <1>3, <1>4, <1>5 DEF SlotsInv

LEMMA HandlerSlots ==
    ASSUME IInv, SlotsInv, NEW r \in Requests,
           \/ HandlerStep(r) \/ HandlerRaises(r) \/ Forward(r) \/ ForwardNeverComes(r)
    PROVE  SlotsInv'
<1> USE GatewayAssumption DEF GatewayAssumption, GenGoto, IInv, TypeOK, PhasesFit,
        InHandler, Path, MayHold, PastGate, StaysOut, OthersStay
<1>1. CASE \/ Authorize(r) \/ PreflightBlock(r) \/ MintTicket(r) \/ Forward(r)
           \/ HandlerRaises(r) \/ ForwardNeverComes(r)
  <2> USE <1>1 DEF Authorize, Refused, Admitted, RaisedInAuthorize, PreflightBlock,
          TurnedAway, ReleaseLimiter, MintTicket, Forward, HandlerRaises,
          ForwardNeverComes, book
  <2>1. OthersStay(r) /\ UNCHANGED slots
    OBVIOUS
  <2>2. r \notin crossed /\ r \notin lost
    BY DEF SlotsInv
  <2>3. StaysOut(r)' /\ (MayHold(r) => MayHold(r)')
    BY <2>2
  <2> QED
    BY <2>1, <2>3, NoSlotTaken
<1>2. CASE AdmissionBlock(r)
  <2> USE <1>2 DEF AdmissionBlock, LetIn, RefusedByGate, ReleaseLimiter
  <2>1. OthersStay(r)
    OBVIOUS
  <2>2. r \notin crossed /\ r \notin lost /\ thr[r] = "none" /\ gen[r] = "admission"
    BY DEF SlotsInv
  <2>3. StaysOut(r)'
    BY <2>2
  <2>4. CASE UNCHANGED slots
    <3>1. MayHold(r) => MayHold(r)'
      BY <2>2
    <3> QED
      BY <2>1, <2>3, <2>4, <3>1, NoSlotTaken
  <2>5. CASE slots' = slots \cup {r} /\ slots' # slots
    <3>1. r \in crossed' \/ gen'[r] = "ready"
      BY <2>5
    <3>2. MayHold(r)'
      BY <3>1
    <3> QED
      BY <2>1, <2>2, <2>3, <2>5, <3>2, SlotTaken
  <2> QED
    BY <2>4, <2>5
<1> QED
  BY <1>1, <1>2 DEF HandlerStep

LEMMA ThreadSlots ==
    ASSUME IInv, SlotsInv, NEW r \in Requests, ThreadStep(r) \/ ThrRaises(r)
    PROVE  SlotsInv'
<1> USE GatewayAssumption DEF GatewayAssumption, ThrGoto, IInv, TypeOK, PhasesFit,
        InHandler, Path, MayHold, PastGate, StaysOut, OthersStay, ThrBusy
<1>0. r \in Path("early")
  BY DEF ThreadStep, ThrAuthorize, ThrPreflight, ThrAdmission, ThrReturns, ThrRaises
<1>1. CASE ThrAuthorize(r) \/ ThrPreflight(r) \/ ThrReturns(r)
  <2> USE <1>0, <1>1 DEF ThrAuthorize, Refused, Admitted, RaisedInAuthorize, ThrPreflight,
          TurnedAway, ReleaseLimiter, ThrReturns, book
  <2>1. OthersStay(r) /\ UNCHANGED slots
    OBVIOUS
  <2>2. r \notin crossed
    BY DEF SlotsInv
  <2>3. StaysOut(r)' /\ (MayHold(r) => MayHold(r)')
    BY <2>2
  <2> QED
    BY <2>1, <2>3, NoSlotTaken
<1>2. CASE ThrAdmission(r)
  <2> USE <1>0, <1>2 DEF ThrAdmission, LetIn, RefusedByGate, ReleaseLimiter
  <2>1. OthersStay(r)
    OBVIOUS
  <2>2. r \notin crossed /\ thr[r] = "admission"
    BY DEF SlotsInv
  <2>3. StaysOut(r)' /\ ~MayHold(r)
    BY <2>2
  <2>4. CASE UNCHANGED slots
    BY <2>1, <2>3, <2>4, NoSlotTaken
  <2>5. CASE slots' = slots \cup {r} /\ slots' # slots
    <3>1. r \in crossed' \/ thr'[r] = "routing"
      BY <2>5
    <3>2. MayHold(r)'
      BY <3>1
    <3> QED
      BY <2>1, <2>3, <2>5, <3>2, SlotTaken
  <2> QED
    BY <2>4, <2>5
<1>3. CASE ThrRaises(r)
  <2> USE <1>0, <1>3 DEF ThrRaises, ReleaseLease, ReleaseLimiter
  <2>1. OthersStay(r)
    OBVIOUS
  <2>2. r \notin crossed
    BY DEF SlotsInv
  <2>3. StaysOut(r)'
    BY <2>2
  <2>4. CASE ReleaseSlot(r)
    BY <2>1, <2>3, <2>4, SlotReleased
  <2>5. CASE thr[r] = "preflight" /\ UNCHANGED slots
    BY <2>1, <2>2, <2>3, <2>5, NoSlotTaken
  <2> QED
    BY <2>4, <2>5
<1> QED
  BY <1>1, <1>2, <1>3 DEF ThreadStep

LEMMA GeneratorSlots ==
    ASSUME IInv, SlotsInv, NEW r \in Requests,
           \/ GeneratorStep(r) \/ GoneBeforePrepare(r)
           \/ ReapFinished(r) \/ CancelUnfinished(r)
    PROVE  SlotsInv'
<1> USE GatewayAssumption DEF GatewayAssumption, GenGoto, ThrGoto, IInv, TypeOK,
        PhasesFit, InHandler, Path, MayHold, PastGate, StaysOut, OthersStay, ThrBusy
<1>0. r \in Path("early")
  BY DEF GeneratorStep, StartPrepare, PrepareTaskDone, Adopt, PrepareFailed,
         GoneBeforePrepare, ReapFinished, CancelUnfinished
<1>1. CASE GeneratorStep(r) \/ GoneBeforePrepare(r) \/ CancelUnfinished(r)
  <2> USE <1>0, <1>1 DEF GeneratorStep, StartPrepare, PrepareTaskDone, Adopt,
          PrepareFailed, GoneBeforePrepare, CancelUnfinished, book
  <2>1. OthersStay(r) /\ UNCHANGED slots
    OBVIOUS
  <2>2. StaysOut(r)' /\ (MayHold(r) => MayHold(r)')
    BY DEF SlotsInv
  <2> QED
    BY <2>1, <2>2, NoSlotTaken
<1>2. CASE ReapFinished(r)
  <2> USE <1>0, <1>2 DEF ReapFinished, ReleaseLease, ReleaseLimiter
  <2>1. OthersStay(r)
    OBVIOUS
  <2>2. StaysOut(r)'
    BY DEF SlotsInv
  <2>3. CASE ReleaseSlot(r)
    BY <2>1, <2>2, <2>3, SlotReleased
  <2>4. CASE thr[r] = "errDone" /\ UNCHANGED slots
    BY <2>1, <2>2, <2>4, NoSlotTaken
  <2> QED
    BY <2>3, <2>4
<1> QED
  BY <1>1, <1>2

LEMMA UpstreamSlots ==
    ASSUME IInv, SlotsInv, NEW r \in Requests, UpstreamStep(r) \/ Disconnect(r)
    PROVE  SlotsInv'
<1> USE GatewayAssumption DEF GatewayAssumption, GenGoto, BeforeUpstream, IInv, TypeOK,
        PhasesFit, InHandler, Path, MayHold, PastGate, StaysOut, OthersStay
<1>1. CASE Connect(r)
  <2> USE <1>1 DEF Connect, book
  <2>1. OthersStay(r) /\ UNCHANGED slots
    OBVIOUS
  <2>2. StaysOut(r)' /\ (MayHold(r) => MayHold(r)')
    BY DEF SlotsInv
  <2> QED
    BY <2>1, <2>2, NoSlotTaken
<1>2. CASE ConnectFails(r) \/ StreamEnds(r) \/ Disconnect(r)
  <2> USE <1>2 DEF ConnectFails, StreamEnds, Disconnect, ReleaseLease
  <2>1. OthersStay(r) /\ ReleaseSlot(r)
    OBVIOUS
  <2>2. StaysOut(r)'
    BY DEF SlotsInv
  <2> QED
    BY <2>1, <2>2, SlotReleased
<1> QED
  BY <1>1, <1>2 DEF UpstreamStep

LEMMA ReplaySlots ==
    ASSUME IInv, SlotsInv, NEW r \in Requests, HopAgain(r)
    PROVE  SlotsInv'
<1>1. PICK h \in Hops : \/ Reforward(r, h) \/ ReplayConnects(r, h)
                        \/ ReplayEnds(r, h) \/ ReplayRaises(r, h)
  BY DEF HopAgain
<1>2. /\ OthersStay(r) /\ StaysOut(r)' /\ (MayHold(r) => MayHold(r)')
      /\ UNCHANGED slots \/ ReleaseSlot(r)
  BY <1>1 DEF Reforward, ReplayConnects, ReplayEnds, ReplayRaises, ReleaseLease, book,
              SlotsInv, OthersStay, StaysOut, MayHold, PastGate, InHandler, Path
<1> QED
  BY <1>2, NoSlotTaken, SlotReleased

LEMMA SlotsStep == IInv /\ SlotsInv /\ [Next]_vars => SlotsInv'
<1> SUFFICES ASSUME IInv, SlotsInv, [Next]_vars PROVE SlotsInv'
  OBVIOUS
<1>1. CASE UNCHANGED vars
  <2>1. /\ \A r \in Requests : (MayHold(r)' <=> MayHold(r)) /\ (StaysOut(r)' <=> StaysOut(r))
        /\ slots' = slots
    BY <1>1 DEF vars, book, MayHold, PastGate, StaysOut, InHandler, Path
  <2>2. Holding' = Holding
    BY <2>1 DEF Holding
  <2> QED
    BY <2>1, <2>2 DEF SlotsInv, OfKey
<1>2. ASSUME NEW r \in Requests,
             \/ HandlerStep(r) \/ ThreadStep(r) \/ GeneratorStep(r) \/ UpstreamStep(r)
             \/ Hop(r) \/ Mishap(r)
      PROVE  SlotsInv'
  BY <1>2, HandlerSlots, ThreadSlots, GeneratorSlots, UpstreamSlots, ReplaySlots
     DEF Hop, Mishap
<1> QED
  BY <1>1, <1>2 DEF Next

LEMMA SlotsInit == Init => SlotsInv
<1> SUFFICES ASSUME Init PROVE SlotsInv
  OBVIOUS
<1>1. slots = {} /\ Holding = {}
  BY DEF Init, Holding, MayHold, PastGate
<1>2. \A r \in Requests : StaysOut(r)
  BY DEF Init, StaysOut
<1>3. \A k : OfKey({}, k) = {}
  BY DEF OfKey
<1> QED
  BY <1>1, <1>2, <1>3, FS_EmptySet DEF SlotsInv

\* Per key, the upstream gate keeps at most one holder record for each request that
\* was let in and may still release, whichever record every release has dropped.
THEOREM SlotsAreBounded == Spec => []SlotsOfLiveRequests
<1>1. SlotsInv => SlotsOfLiveRequests
  <2>1. ASSUME NEW k PROVE OfKey(Holding, k) = {r \in OfKey(Requests, k) : MayHold(r)}
    BY DEF Holding, OfKey
  <2> QED
    BY <2>1 DEF SlotsInv, SlotsOfLiveRequests
<1>2. Init => IInv /\ SlotsInv
  BY InitIInv, SlotsInit
<1>3. IInv /\ SlotsInv /\ [Next]_vars => (IInv /\ SlotsInv)'
  BY NextIInv, SlotsStep
<1> QED
  BY <1>1, <1>2, <1>3, PTL DEF Spec
=============================================================================
