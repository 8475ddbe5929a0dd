--------------------------- MODULE SourceAdmission ---------------------------
(***************************************************************************)
(* Admission of requests to one upstream address                           *)
(* (app/auth/source_admission.py).  Every call runs in a worker thread.    *)
(* It takes a slot at once, or joins a priority queue and sleeps on an     *)
(* event until a release promotes it or its deadline passes.  When its     *)
(* stream ends, the caller gives back one slot of its API key.             *)
(*                                                                         *)
(* A _Holder record holds a key and a time that nothing reads, so the      *)
(* records of one key are interchangeable: a record is named here by the   *)
(* call it was made for, and a call that still has its own record drops    *)
(* that one.  Each call is made once; Calls may be infinite.               *)
(***************************************************************************)
EXTENDS Integers, FiniteSets

CONSTANTS
    Calls,    \* requests for a slot of this address
    KeyOf,    \* the API key of each call
    Prio,     \* the priority of that key
    Limits    \* what resolve_admission_limit may answer; 0 stands for None

ASSUME AdmissionAssumption ==
    /\ Prio \in [Calls -> Int]
    /\ Limits \subseteq Nat

VARIABLES
    pc,         \* where each call is
    stamp,      \* time.time() when a call entered acquire()
    clock,      \* strictly increasing time
    limit,      \* _GateState.limit; 0 before the gate exists
    inflight,   \* _GateState.inflight
    holders,    \* _GateState.holders
    waiters,    \* _GateState.waiters, kept in the order Before
    signalled   \* the calls whose event is set

gate == <<limit, inflight, holders, waiters, signalled>>
vars == <<pc, stamp, clock, limit, inflight, holders, waiters, signalled>>

Phases == {"new", "arrived", "queued", "waiting", "expired",
           "streaming", "ungated", "refused", "passed", "done"}

Goto(c, from, to) ==
    /\ pc[c] = from
    /\ pc' = [pc EXCEPT ![c] = to]

\* _Waiter.sort_key: higher priority first, then earlier arrival.
Before(a, b) ==
    \/ Prio[a] > Prio[b]
    \/ Prio[a] = Prio[b] /\ stamp[a] < stamp[b]

IsFront(P, W) ==
    /\ P \subseteq W
    /\ \A p \in P, w \in W \ P : Before(p, w)

\* The calls _promote_waiters may wake: as many as fit, from the front.
IsPromotion(P, W, free) ==
    /\ IsFront(P, W)
    /\ IsFiniteSet(P)
    /\ P # W => Cardinality(P) >= free
    /\ P # {} => Cardinality(P) <= free

Init ==
    /\ pc = [c \in Calls |-> "new"]
    /\ stamp = [c \in Calls |-> 0]
    /\ clock = 0
    /\ limit = 0
    /\ inflight = 0
    /\ holders = {}
    /\ waiters = {}
    /\ signalled = {}
------------------------------------------------------------------------------
\* No limit can be resolved (no max_concurrency, and no slot count reported):
\* the call is let through without a slot.
Bypass(c) ==
    /\ 0 \in Limits
    /\ Goto(c, "new", "ungated")
    /\ UNCHANGED <<stamp, clock, gate>>

\* acquire() before the lock: the sort key is fixed here.
Arrive(c) ==
    /\ Goto(c, "new", "arrived")
    /\ stamp' = [stamp EXCEPT ![c] = clock]
    /\ clock' = clock + 1
    /\ UNCHANGED gate

\* Mutant: an arrival may take a freed slot past the queue.
TakeSlotBarging(c, l) ==
    /\ inflight < l
    /\ inflight' = inflight + 1
    /\ holders' = holders \cup {c}
    /\ Goto(c, "arrived", "streaming")
    /\ UNCHANGED waiters

\* Mutant: off by one at the limit.
TakeSlotOneMore(c, l) ==
    /\ inflight <= l /\ waiters = {}
    /\ inflight' = inflight + 1
    /\ holders' = holders \cup {c}
    /\ Goto(c, "arrived", "streaming")
    /\ UNCHANGED waiters

\* The first locked section of acquire(): adopt the limit this call resolved,
\* then take a slot if one is free and nobody waits, else join the queue.
TakeSlot(c, l) ==
    /\ inflight < l /\ waiters = {}
    /\ inflight' = inflight + 1
    /\ holders' = holders \cup {c}
    /\ Goto(c, "arrived", "streaming")
    /\ UNCHANGED waiters

JoinQueue(c, l) ==
    /\ inflight >= l \/ waiters # {}
    /\ waiters' = waiters \cup {c}
    /\ Goto(c, "arrived", "queued")
    /\ UNCHANGED <<inflight, holders>>

Enter(c) ==
    \E l \in Limits \ {0} :
        /\ limit' = l
        /\ TakeSlot(c, l) \/ JoinQueue(c, l)
        /\ UNCHANGED <<stamp, clock, signalled>>

\* Between the locked section and event.wait the deadline may already be past,
\* in which case the event is never looked at.
StartWait(c) ==
    /\ Goto(c, "queued", "waiting") \/ Goto(c, "queued", "expired")
    /\ UNCHANGED <<stamp, clock, gate>>

\* event.wait returns True and so does acquire().
Wake(c) ==
    /\ c \in signalled
    /\ Goto(c, "waiting", "streaming")
    /\ UNCHANGED <<stamp, clock, gate>>

\* Mutant: the event is waited for without a timeout.
WaitForever(c) ==
    /\ FALSE
    /\ UNCHANGED vars

\* event.wait returns False; the lock is not held here.
WaitTimesOut(c) ==
    /\ c \notin signalled
    /\ Goto(c, "waiting", "expired")
    /\ UNCHANGED <<stamp, clock, gate>>

\* The second locked section of acquire(): leave the queue and return False.
GiveUp(c) ==
    /\ Goto(c, "expired", "refused")
    /\ waiters' = waiters \ {c}
    /\ UNCHANGED <<stamp, clock, limit, inflight, holders, signalled>>

\* release(source_key, key_id) of the key of call c.  With no holder of that
\* key it changes nothing; otherwise one is dropped and waiters are promoted.
HoldersOf(c) == {h \in holders : KeyOf[h] = KeyOf[c]}

\* Mutant: the slot is freed and nobody is woken.
DropOnly(h) ==
    /\ holders' = holders \ {h}
    /\ inflight' = inflight - 1
    /\ UNCHANGED <<limit, waiters, signalled>>

\* Mutant: every waiter is woken.
DropAndPromoteAll(h) ==
    /\ holders' = (holders \ {h}) \cup waiters
    /\ inflight' = inflight - 1 + Cardinality(waiters)
    /\ waiters' = {}
    /\ signalled' = signalled \cup waiters
    /\ UNCHANGED limit

DropAndPromote(h) ==
    \E P \in SUBSET waiters :
        /\ IsPromotion(P, waiters, limit - (inflight - 1))
        /\ holders' = (holders \ {h}) \cup P
        /\ inflight' = inflight - 1 + Cardinality(P)
        /\ waiters' = waiters \ P
        /\ signalled' = signalled \cup P
        /\ UNCHANGED limit

\* Mutant: the counter goes down even when the key holds nothing.
ReleaseUncounted(c) ==
    \/ /\ HoldersOf(c) = {}
       /\ inflight' = inflight - 1
       /\ UNCHANGED <<limit, holders, waiters, signalled>>
    \/ \E h \in HoldersOf(c) :
          /\ c \in holders => h = c
          /\ DropAndPromote(h)

\* Mutant: the oldest holder is dropped, whoever it belongs to.
ReleaseAnyKey(c) ==
    \/ holders = {} /\ UNCHANGED gate
    \/ \E h \in holders : DropAndPromote(h)

ReleaseKey(c) ==
    \/ HoldersOf(c) = {} /\ UNCHANGED gate
    \/ \E h \in HoldersOf(c) :
          /\ c \in holders => h = c
          /\ DropAndPromote(h)

\* The stream ends.  Its lease names the upstream whether or not the call went
\* through the gate, so an ungated call releases a slot as well.
Finish(c) ==
    /\ Goto(c, "streaming", "done") \/ Goto(c, "ungated", "passed")
    /\ ReleaseKey(c)
    /\ UNCHANGED <<stamp, clock>>
------------------------------------------------------------------------------
Step(c) ==
    \/ Bypass(c) \/ Arrive(c) \/ Enter(c) \/ StartWait(c) \/ Wake(c)
    \/ WaitTimesOut(c) \/ GiveUp(c) \/ Finish(c)

Next == \E c \in Calls : Step(c)

Spec == Init /\ [][Next]_vars

\* Threads run on and streams end (the client, the upstream or the max-hold
\* watchdog ends them).  New requests and the expiry of a wait are not forced.
Progress(c) ==
    Enter(c) \/ StartWait(c) \/ Wake(c) \/ GiveUp(c) \/ Finish(c)

FairSpec == Spec /\ \A c \in Calls : WF_vars(Progress(c))
------------------------------------------------------------------------------
TypeOK ==
    /\ pc \in [Calls -> Phases]
    /\ stamp \in [Calls -> Nat]
    /\ clock \in Nat
    /\ limit \in Limits \cup {0}
    /\ inflight \in Nat
    /\ holders \in SUBSET Calls
    /\ waiters \in SUBSET Calls
    /\ signalled \in SUBSET Calls

\* The counter that admits arrivals and the list of holders that releases are
\* matched against are kept apart in the code (source_admission.py, _GateState)
\* and never drift, whatever is released by whom.
InflightIsHolders ==
    IsFiniteSet(holders) /\ inflight = Cardinality(holders)

\* A slot granted to a call that no longer waits for it: the record stays among
\* the holders and no call will ever release it.
Leaked == {c \in holders : pc[c] \in {"expired", "refused"}}

\* A call whose record is released when its stream ends: it streams, or it has
\* been woken and has not stopped waiting.
WillRelease(c) == pc[c] \in {"queued", "waiting", "streaming"}

\* No lost wake-up (_promote_waiters runs in release() only): while no slot has
\* leaked, a call in the queue always has a holder in front of it that is still
\* going to release and so to look at the queue, through limit changes, timeouts
\* and releases by calls that hold nothing.  Behind leaked slots alone a call
\* waits for its own timeout.
NoLostWakeup ==
    waiters # {} /\ Leaked = {} => \E h \in holders : WillRelease(h)

\* A stream that went through the gate keeps its slot until it ends, so no more
\* streams run than slots are counted ("do not steal another holder's slot",
\* source_admission.py release).
EveryStreamBacked == \A c \in Calls : pc[c] = "streaming" => c \in holders

\* It loses the slot only to a call of its own key that was let through without
\* one and has ended (release matches holders by key): no other release, timeout
\* or promotion takes it.
StrippedKey(k) == \E d \in Calls : KeyOf[d] = k /\ pc[d] = "passed"

SlotLostToBypassOnly ==
    \A c \in Calls : pc[c] = "streaming" => c \in holders \/ StrippedKey(KeyOf[c])

\* A call that acquire() refused is not among the holders
\* (test_source_admission.py: after a refused acquire only key 1 holds).
RefusedHoldsNoSlot == \A c \in Calls : pc[c] = "refused" => c \notin holders

\* A slot never goes to a call while one that sorts before it keeps waiting:
\* neither an arrival nor a promotion overtakes the queue.
NoOvertaking ==
    [][\A c \in holders' \ holders, w \in waiters \cap waiters' : Before(c, w)]_vars

\* The strengthening that makes the properties above inductive: where the calls
\* in the queue, the woken calls and the holders are, that a call which has ended
\* left no record, that a gate in use has a limit, and that nobody queues before
\* an empty gate.
InQueue == {"queued", "waiting", "expired"}
NotAsked == {"new", "arrived", "ungated", "passed"}

QueueShape ==
    /\ IsFiniteSet(waiters)
    /\ \A c \in waiters : pc[c] \in InQueue /\ c \notin signalled
    /\ \A c \in holders : pc[c] \in InQueue => c \in signalled
    /\ \A c \in holders \cup signalled : pc[c] \notin NotAsked
    /\ \A c \in holders : pc[c] # "done"
    /\ holders \cup waiters # {} => limit > 0

QueueHasHolder == waiters # {} => holders # {}

SlotsKept ==
    /\ SlotLostToBypassOnly
    /\ \A c \in signalled : pc[c] # "done" => c \in holders \/ StrippedKey(KeyOf[c])

IInv == TypeOK /\ InflightIsHolders /\ QueueShape /\ QueueHasHolder /\ SlotsKept

\* The gate implements a semaphore with an adjustable capacity.
Pool == INSTANCE SlotPool WITH
            Users <- Calls, Caps <- Limits \ {0}, owners <- holders, cap <- limit

PoolSpec == Pool!Spec

\* If no grant crosses with a timeout, the queue drains through releases alone:
\* a waiter is served although no deadline ever fires.
QueueDrains ==
    [](Leaked = {}) => \A c \in Calls : (c \in waiters) ~> (c \notin waiters)

\* If timeouts do fire, every call that queued gets an answer, even behind slots
\* that are never freed.
TimeoutsFire == \A c \in Calls : WF_vars(WaitTimesOut(c))

EveryCallAnswered ==
    TimeoutsFire =>
        \A c \in Calls : (pc[c] = "queued") ~> (pc[c] \in {"refused", "done"})
=============================================================================
