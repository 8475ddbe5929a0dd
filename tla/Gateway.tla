------------------------------ MODULE Gateway ------------------------------
(***************************************************************************)
(* The life of a metered request through the gateway (app/main.py): who    *)
(* owns its concurrency lease and its upstream slot, and who gives them    *)
(* back.  Three paths exist:                                               *)
(*   plain   onprem_entry: authorize, gates and upstream in one coroutine  *)
(*   early   onprem_entry for an Anthropic stream: the response starts at  *)
(*           once, authorize and gates run in a worker thread while the    *)
(*           response generator sends pings                                *)
(*   ticket  auth_check, then a second hop (onprem_forward) that carries   *)
(*           the lease in a signed ticket; nothing marks a ticket as used,  *)
(*           so that the same hop may be made again while it is valid      *)
(* The event loop interleaves the coroutines at their awaits and yields;   *)
(* the worker threads run in parallel.                                     *)
(***************************************************************************)
EXTENDS Naturals, FiniteSets

CONSTANTS
    Requests,
    PathOf,     \* "plain", "early" or "ticket"
    KeyOf,      \* the API key of a request
    Hops        \* bound: how often a ticket may be presented again

ASSUME GatewayAssumption ==
    PathOf \in [Requests -> {"plain", "early", "ticket"}]

VARIABLES
    gen,         \* where the request's coroutine or response generator is
    thr,         \* where its prepare thread is (early path)
    leased,      \* requests whose lease is out: limiter and priority gate
    slots,       \* requests a holder record of the upstream gate was made for
    authorized,  \* requests authorize() answered with 204
    event,       \* the usage event: none, deferred or final
    replays,     \* where each further presentation of the ticket is
    doubled,     \* requests whose lease was released when it was not out
    lost,        \* requests whose lease nobody is left to release
    crossed      \* requests the upstream gate promoted and refused at once

book == <<leased, slots, authorized, event, doubled, lost, crossed>>
vars == <<gen, thr, book, replays>>

Path(p) == {r \in Requests : PathOf[r] = p}

GenPhases == {"start", "preflight", "admission", "ready", "pinging", "ticketed",
              "forwarded", "streaming", "over"}
ThrPhases == {"none", "authorize", "preflight", "admission", "routing",
              "okReturned", "errReturned", "okDone", "errDone"}
ThrBusy == {"authorize", "preflight", "admission", "routing",
            "okReturned", "errReturned"}

\* "due": the ticket has been presented once, it may be presented again.
HopPhases == {"none", "due", "forwarded", "streaming", "over"}

Init ==
    /\ gen = [r \in Requests |-> "start"]
    /\ thr = [r \in Requests |-> "none"]
    /\ leased = {} /\ slots = {} /\ authorized = {}
    /\ event = [r \in Requests |-> "none"]
    /\ replays = [r \in Requests |-> [h \in Hops |-> "none"]]
    /\ doubled = {} /\ lost = {} /\ crossed = {}

\* The coroutine, the generator or the thread of a request moves; the further
\* presentations of its ticket stay where they are.
GenGoto(r, from, to) ==
    gen[r] = from /\ gen' = [gen EXCEPT ![r] = to] /\ UNCHANGED replays
ThrGoto(r, from, to) ==
    thr[r] = from /\ thr' = [thr EXCEPT ![r] = to] /\ UNCHANGED replays
ReplayGoto(r, h, from, to) ==
    replays[r][h] = from /\ replays' = [replays EXCEPT ![r][h] = to]
------------------------------------------------------------------------------
\* release_concurrency_lease of a lease that names no upstream.
ReleaseLimiter(r) ==
    /\ leased' = leased \ {r}
    /\ doubled' = IF r \in leased THEN doubled ELSE doubled \cup {r}

\* SourceAdmissionGate.release: a record of the same key goes, its own if it
\* has one, and nothing happens if the key has none.
ReleaseSlot(r) ==
    LET same == {h \in slots : KeyOf[h] = KeyOf[r]}
    IN  \/ same = {} /\ UNCHANGED slots
        \/ \E h \in same : (r \in slots => h = r) /\ slots' = slots \ {h}

\* release_concurrency_lease of a lease with an upstream attached.
ReleaseLease(r) == ReleaseLimiter(r) /\ ReleaseSlot(r)

KeepEvent == UNCHANGED event
Finalize(r) == event' = [event EXCEPT ![r] = "final"]

\* authorize(): denied or failed before anything is taken; admitted with a
\* lease and a deferred usage event; or failed (a database error) after the
\* limiter was charged and before the caller knows of the lease.
Refused == UNCHANGED book

Admitted(r) ==
    /\ leased' = leased \cup {r}
    /\ authorized' = authorized \cup {r}
    /\ event' = [event EXCEPT ![r] = "deferred"]
    /\ UNCHANGED <<slots, doubled, lost, crossed>>

RaisedInAuthorize(r) ==
    /\ leased' = leased \cup {r}
    /\ lost' = lost \cup {r}
    /\ UNCHANGED <<slots, authorized, event, doubled, crossed>>

\* A request is turned away before the upstream gate is asked: only the
\* limiter's part of the lease is given back, no slot has been taken yet.
TurnedAway(r) ==
    /\ ReleaseLimiter(r)
    /\ UNCHANGED <<slots, authorized, event, lost, crossed>>

\* The upstream gate lets the request in, with a slot or without one (gate
\* disabled, or no limit known).
LetIn(r) ==
    /\ slots' = slots \/ slots' = slots \cup {r}
    /\ UNCHANGED <<leased, authorized, event, doubled, lost, crossed>>
\* The upstream gate refuses the request; if its timeout crosses with a
\* promotion, the holder record made for it stays (SourceAdmission.tla).
RefusedByGate(r) ==
    /\ ReleaseLimiter(r)
    /\ \/ UNCHANGED <<slots, crossed>>
       \/ slots' = slots \cup {r} /\ crossed' = crossed \cup {r}
    /\ UNCHANGED <<authorized, event, lost>>
------------------------------------------------------------------------------
\* plain and ticket: the handler's coroutine.
InHandler(r) == r \in Path("plain") \cup Path("ticket")

Authorize(r) ==
    /\ InHandler(r)
    /\ \/ GenGoto(r, "start", "over") /\ Refused
       \/ GenGoto(r, "start", "preflight") /\ Admitted(r)
       \/ GenGoto(r, "start", "over") /\ RaisedInAuthorize(r)
    /\ UNCHANGED thr

\* No backend, or the preflight probe fails.
PreflightBlock(r) ==
    /\ InHandler(r)
    /\ \/ GenGoto(r, "preflight", "admission") /\ UNCHANGED book
       \/ GenGoto(r, "preflight", "over") /\ TurnedAway(r)
    /\ UNCHANGED thr

AdmissionBlock(r) ==
    /\ InHandler(r)
    /\ \/ GenGoto(r, "admission", "ready") /\ LetIn(r)
       \/ GenGoto(r, "admission", "over") /\ RefusedByGate(r)
    /\ UNCHANGED thr

\* An exception between authorize() and the stream: no handler around it.
HandlerRaises(r) ==
    /\ InHandler(r)
    /\ \E p \in {"preflight", "admission", "ready", "forwarded"} : GenGoto(r, p, "over")
    /\ lost' = lost \cup {r}
    /\ UNCHANGED <<thr, leased, slots, authorized, event, doubled, crossed>>

\* mint_forward_ticket: auth_check answers 204 and forgets the lease.
MintTicket(r) ==
    /\ r \in Path("ticket")
    /\ GenGoto(r, "ready", "ticketed")
    /\ UNCHANGED <<thr, book>>

\* onprem_forward with a valid ticket; the lease names an upstream, so no gate
\* is asked again.
Forward(r) ==
    /\ gen[r] = "ticketed"
    /\ gen' = [gen EXCEPT ![r] = "forwarded"]
    /\ replays' = [replays EXCEPT ![r] = [h \in Hops |-> "due"]]
    /\ UNCHANGED <<thr, book>>

\* The client is gone between the hops, or the ticket has expired.
ForwardNeverComes(r) ==
    /\ GenGoto(r, "ticketed", "over")
    /\ lost' = lost \cup {r}
    /\ UNCHANGED <<thr, leased, slots, authorized, event, doubled, crossed>>
------------------------------------------------------------------------------
\* early: _stream_early starts, sends its first bytes and creates the prepare
\* task, unless the client is gone before that.
StartPrepare(r) ==
    /\ r \in Path("early")
    /\ GenGoto(r, "start", "pinging")
    /\ ThrGoto(r, "none", "authorize")
    /\ UNCHANGED book

GoneBeforePrepare(r) ==
    /\ r \in Path("early")
    /\ GenGoto(r, "start", "over")
    /\ UNCHANGED <<thr, book>>

\* _prepare_auth_and_route_sync, in its thread.
ThrAuthorize(r) ==
    /\ \/ ThrGoto(r, "authorize", "errReturned") /\ Refused
       \/ ThrGoto(r, "authorize", "preflight") /\ Admitted(r)
       \/ ThrGoto(r, "authorize", "errReturned") /\ RaisedInAuthorize(r)
    /\ UNCHANGED gen

ThrPreflight(r) ==
    /\ \/ ThrGoto(r, "preflight", "admission") /\ UNCHANGED book
       \/ ThrGoto(r, "preflight", "errReturned") /\ TurnedAway(r)
    /\ UNCHANGED gen

ThrAdmission(r) ==
    /\ \/ ThrGoto(r, "admission", "routing") /\ LetIn(r)
       \/ ThrGoto(r, "admission", "errReturned") /\ RefusedByGate(r)
    /\ UNCHANGED gen

\* Mutant: lease_hold never learns of the upstream.
ThrRaisesUnattached(r) ==
    /\ \E p \in {"preflight", "admission", "routing"} : ThrGoto(r, p, "errReturned")
    /\ ReleaseLimiter(r)
    /\ UNCHANGED <<gen, slots, authorized, event, lost, crossed>>

\* An exception in the thread: the finally clause releases lease_hold, which
\* names the upstream from the moment it is known.
ThrRaises(r) ==
    /\ \E p \in {"preflight", "admission", "routing"} : ThrGoto(r, p, "errReturned")
    /\ ReleaseLease(r) \/ (thr[r] = "preflight" /\ ReleaseLimiter(r) /\ UNCHANGED slots)
    /\ UNCHANGED <<gen, authorized, event, lost, crossed>>

\* Mutant: the finally clause releases a lease that was handed over.
ThrReturnsReleased(r) ==
    /\ ThrGoto(r, "routing", "okReturned")
    /\ ReleaseLease(r)
    /\ UNCHANGED <<gen, authorized, event, lost, crossed>>

\* The thread returns the connection with the lease in it.
ThrReturns(r) ==
    /\ ThrGoto(r, "routing", "okReturned")
    /\ UNCHANGED <<gen, book>>

\* The event loop completes the prepare task, unless it was cancelled.
PrepareTaskDone(r) ==
    /\ gen[r] = "pinging"
    /\ ThrGoto(r, "okReturned", "okDone") \/ ThrGoto(r, "errReturned", "errDone")
    /\ UNCHANGED <<gen, book>>

\* The generator takes the result: the connection, or an error event.
Adopt(r) ==
    /\ thr[r] = "okDone" /\ GenGoto(r, "pinging", "ready")
    /\ UNCHANGED <<thr, book>>

\* Mutant: the generator releases what the thread has released before.
PrepareFailedReleases(r) ==
    /\ thr[r] = "errDone" /\ GenGoto(r, "pinging", "over")
    /\ ReleaseLease(r)
    /\ UNCHANGED <<thr, authorized, event, lost, crossed>>

PrepareFailed(r) ==
    /\ thr[r] = "errDone" /\ GenGoto(r, "pinging", "over")
    /\ UNCHANGED <<thr, book>>

\* Mutant: the result of a finished prepare task is dropped.
ReapFinishedDropped(r) ==
    /\ GenGoto(r, "pinging", "over")
    /\ thr[r] \in {"okDone", "errDone"}
    /\ UNCHANGED <<thr, book>>

\* The client disconnects while the prepare task is pending.  A finished task is
\* reaped: the lease in its result is released.  An unfinished one is cancelled,
\* but its thread runs on and what it returns is dropped.
ReapFinished(r) ==
    /\ GenGoto(r, "pinging", "over")
    /\ \/ thr[r] = "okDone" /\ ReleaseLease(r)
       \/ thr[r] = "errDone" /\ UNCHANGED <<leased, slots, doubled>>
    /\ UNCHANGED <<thr, authorized, event, lost, crossed>>

CancelUnfinished(r) ==
    /\ thr[r] \in ThrBusy
    /\ GenGoto(r, "pinging", "over")
    /\ lost' = lost \cup {r}
    /\ UNCHANGED <<thr, leased, slots, authorized, event, doubled, crossed>>
------------------------------------------------------------------------------
\* All paths: the upstream connection and the stream.
BeforeUpstream(r) == IF r \in Path("ticket") THEN "forwarded" ELSE "ready"

Connect(r) ==
    /\ GenGoto(r, BeforeUpstream(r), "streaming")
    /\ UNCHANGED <<thr, book>>

\* Mutant: the error path forgets the lease.
ConnectFailsKeepsLease(r) ==
    /\ GenGoto(r, BeforeUpstream(r), "over")
    /\ Finalize(r)
    /\ UNCHANGED <<thr, leased, slots, authorized, doubled, lost, crossed>>

\* Upstream unreachable; on the early path the generator's finally clause runs.
ConnectFails(r) ==
    /\ GenGoto(r, BeforeUpstream(r), "over")
    /\ ReleaseLease(r)
    /\ Finalize(r)
    /\ UNCHANGED <<thr, authorized, lost, crossed>>

\* The finally clause of the stream: lease first, then a power sample, then the
\* usage event.
StreamEnds(r) ==
    /\ GenGoto(r, "streaming", "over")
    /\ ReleaseLease(r)
    /\ Finalize(r)
    /\ UNCHANGED <<thr, authorized, lost, crossed>>

\* The client disconnects: the same clause, but the cancelled task may be
\* interrupted again where it awaits the power sample.
Disconnect(r) ==
    /\ \/ GenGoto(r, "streaming", "over")
       \/ r \in Path("early") /\ GenGoto(r, "ready", "over")
    /\ ReleaseLease(r)
    /\ Finalize(r) \/ KeepEvent
    /\ UNCHANGED <<thr, authorized, lost, crossed>>
------------------------------------------------------------------------------
\* onprem_forward with a ticket that was presented before: its signature and its
\* time are all that is looked at, and the lease is the same one.
Reforward(r, h) ==
    /\ ReplayGoto(r, h, "due", "forwarded")
    /\ UNCHANGED <<gen, thr, book>>

ReplayConnects(r, h) ==
    /\ ReplayGoto(r, h, "forwarded", "streaming")
    /\ UNCHANGED <<gen, thr, book>>

\* Upstream unreachable, end of the stream or disconnect: as for the first hop.
ReplayEnds(r, h) ==
    /\ \/ ReplayGoto(r, h, "forwarded", "over") /\ Finalize(r)
       \/ ReplayGoto(r, h, "streaming", "over") /\ (Finalize(r) \/ KeepEvent)
    /\ ReleaseLease(r)
    /\ UNCHANGED <<gen, thr, authorized, lost, crossed>>

\* An exception before the stream: this hop gives nothing back.
ReplayRaises(r, h) ==
    /\ ReplayGoto(r, h, "forwarded", "over")
    /\ UNCHANGED <<gen, thr, book>>

HopAgain(r) ==
    \E h \in Hops :
        Reforward(r, h) \/ ReplayConnects(r, h) \/ ReplayEnds(r, h) \/ ReplayRaises(r, h)
------------------------------------------------------------------------------
HandlerStep(r) ==
    \/ Authorize(r) \/ PreflightBlock(r) \/ AdmissionBlock(r) \/ MintTicket(r)

ThreadStep(r) ==
    \/ ThrAuthorize(r) \/ ThrPreflight(r) \/ ThrAdmission(r) \/ ThrReturns(r)

GeneratorStep(r) ==
    \/ StartPrepare(r) \/ PrepareTaskDone(r) \/ Adopt(r) \/ PrepareFailed(r)

UpstreamStep(r) == Connect(r) \/ ConnectFails(r) \/ StreamEnds(r)

\* What the environment may do to a request at any time.
Mishap(r) ==
    \/ HandlerRaises(r) \/ ThrRaises(r) \/ ForwardNeverComes(r)
    \/ GoneBeforePrepare(r) \/ ReapFinished(r) \/ CancelUnfinished(r) \/ Disconnect(r)

Hop(r) == Forward(r) \/ HopAgain(r)

Next ==
    \E r \in Requests :
        \/ HandlerStep(r) \/ ThreadStep(r) \/ GeneratorStep(r) \/ UpstreamStep(r)
        \/ Hop(r) \/ Mishap(r)

Spec == Init /\ [][Next]_vars

\* Coroutines and threads run on; a ticket is presented or expires; an upstream
\* answers, fails or hits the client's read timeout.  Nobody has to repeat a hop,
\* and nothing is assumed of one that is repeated.
FairSpec ==
    /\ Spec
    /\ \A r \in Requests :
          /\ WF_vars(HandlerStep(r)) /\ WF_vars(ThreadStep(r))
          /\ WF_vars(GeneratorStep(r)) /\ WF_vars(UpstreamStep(r))
          /\ WF_vars(Forward(r) \/ ForwardNeverComes(r))
------------------------------------------------------------------------------
TypeOK ==
    /\ gen \in [Requests -> GenPhases]
    /\ thr \in [Requests -> ThrPhases]
    /\ leased \subseteq Requests /\ authorized \subseteq Requests
    /\ slots \subseteq authorized
    /\ event \in [Requests -> {"none", "deferred", "final"}]
    /\ replays \in [Requests -> [Hops -> HopPhases]]
    /\ doubled \subseteq Requests /\ lost \subseteq Requests /\ crossed \subseteq Requests

\* The ticket of r was presented more than once.
Replayed(r) == \E h \in Hops : replays[r][h] \in {"forwarded", "streaming", "over"}

\* An upstream request runs for r.
Streams(r) == gen[r] = "streaming" \/ \E h \in Hops : replays[r][h] = "streaming"

\* A lease is released at most once, although the gates, the thread's finally
\* clause, the reaper and the stream's finally clause may all release it; only a
\* second presentation of the ticket it is in may release it again.
NoDoubleRelease == \A r \in doubled : Replayed(r)

\* Every upstream request was admitted by authorize() ("Auth is NEVER skipped",
\* main.py).  And unless its ticket was presented twice, its lease is out while it
\* runs, so that key, user and model count it until the stream has ended, and its
\* event is not settled.
StreamHoldsLease ==
    \A r \in Requests :
        Streams(r) =>
            /\ r \in authorized
            /\ Replayed(r) \/ (r \in leased /\ event[r] = "deferred")

Over(r) == gen[r] = "over" /\ thr[r] \notin ThrBusy \ {"okReturned", "errReturned"}

\* A request that is over has given its lease back, except where nobody was
\* left to do so: authorize() or the handler raised, the second hop never came,
\* or the prepare thread was abandoned.
LeaseGivenBack == \A r \in Requests : Over(r) /\ r \in leased => r \in lost

\* The strengthening that makes the properties above inductive.  Where the
\* coroutine and the thread of a request may be at the same time:
PhasesFit(r) ==
    /\ InHandler(r) => thr[r] = "none" /\ gen[r] # "pinging"
    /\ gen[r] \in {"ticketed", "forwarded"} => r \in Path("ticket")
    /\ r \in Path("early") =>
          /\ gen[r] \in {"start", "pinging", "ready", "streaming", "over"}
          /\ gen[r] = "start" => thr[r] = "none"
          /\ gen[r] = "pinging" => thr[r] # "none"
          /\ gen[r] \in {"ready", "streaming"} => thr[r] = "okDone"
          /\ gen[r] = "over" /\ thr[r] \in ThrBusy => r \in lost

\* Somebody still answers for the lease of r: the handler, the prepare thread,
\* or the generator that may adopt or has adopted what the thread returned.
Answerable(r) ==
    \/ InHandler(r) /\ gen[r] \notin {"start", "over"}
    \/ thr[r] \in {"preflight", "admission", "routing", "okReturned"}
    \/ thr[r] = "okDone" /\ gen[r] # "over"

LeaseFits(r) ==
    /\ Answerable(r) => r \in authorized
    /\ Answerable(r) => Replayed(r) \/ (r \in leased /\ event[r] = "deferred")
    /\ r \in leased => Answerable(r) \/ r \in lost
    /\ gen[r] = "start" \/ thr[r] = "authorize" => r \notin leased

\* Only a ticket of an admitted request is presented again, after its first hop.
ReplaysFit(r) ==
    (\E h \in Hops : replays[r][h] # "none") =>
        /\ r \in Path("ticket") /\ r \in authorized
        /\ gen[r] \in {"forwarded", "streaming", "over"}

IInv ==
    /\ TypeOK
    /\ NoDoubleRelease
    /\ \A r \in Requests : PhasesFit(r) /\ LeaseFits(r) /\ ReplaysFit(r)

\* A request that was let in by the upstream gate and has not released since, or
\* never will: its lease was lost after that, or its refusal crossed a promotion.
PastGate(r) ==
    \/ gen[r] \in {"ready", "ticketed", "forwarded", "streaming"}
    \/ thr[r] \in {"routing", "okReturned"}
    \/ thr[r] = "okDone" /\ gen[r] # "over"

MayHold(r) ==
    \/ PastGate(r) \/ r \in crossed
    \/ r \in lost /\ thr[r] \notin {"authorize", "preflight", "admission"}

OfKey(S, k) == {r \in S : KeyOf[r] = k}

\* Per key, the upstream gate keeps no more holder records than requests that were
\* let in and may still release one: a record outlives the requests of its key only
\* if a lease was lost or a refusal crossed with a promotion.  (Which record a
\* release drops is another matter: any of the same key.)
SlotsOfLiveRequests ==
    \A k \in {KeyOf[r] : r \in Requests} :
        Cardinality(OfKey(slots, k)) <= Cardinality({r \in OfKey(Requests, k) : MayHold(r)})

\* The reaper's promise for the early path: "Cancel orphaned prepare/gate;
\* release lease if never adopted" (main.py, _reap_side_task).
ReapedLeaseReleased ==
    \A r \in Path("early") :
        Over(r) /\ r \in authorized => r \notin leased

\* Every lease that is taken comes back, or belongs to a request of that kind.
LeaseComesBack ==
    \A r \in Requests : (r \in leased) ~> (r \notin leased \/ r \in lost)

=============================================================================
