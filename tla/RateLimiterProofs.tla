------------------------- MODULE RateLimiterProofs -------------------------
(***************************************************************************)
(* Theorems about the tables of the limiter, above all its concurrency     *)
(* counters, for every set of calls and buckets and every limits the calls *)
(* may carry.                                                              *)
(***************************************************************************)
EXTENDS RateLimiter, FiniteSetTheorems, WellFoundedInduction, TLAPS

\* What the concurrency counters depend on: their types, and that a call is
\* counted only in buckets its release looks at.
CountersOK ==
    /\ pc \in [Calls -> {"new", "timed", "held", "denied", "done"}]
    /\ inflight \in [Buckets -> Nat]
    /\ counted \in [Calls -> SUBSET Buckets]
    /\ \A c \in Calls : counted[c] \subseteq BucketsIn(RateBuckets[c])

CInv == CountersOK /\ NoPhantomInflight /\ CountedUntilRelease

LEMMA BucketsOfACall ==
    ASSUME NEW c \in Calls
    PROVE  BucketsIn(RateBuckets[c]) \subseteq Buckets
<1>1. RateBuckets[c] \in Seq(Buckets)
  BY LimiterAssumption DEF LimiterAssumption
<1> QED
  BY <1>1 DEF BucketsIn

LEMMA InitCInv == Init => CInv
<1> SUFFICES ASSUME Init PROVE CInv
  OBVIOUS
<1>1. \A b \in Buckets : HeldIn(b) = {}
  BY DEF Init, HeldIn
<1>2. CountersOK
  BY DEF Init, CountersOK
<1>4. \A b \in Buckets : IsFiniteSet(HeldIn(b)) /\ Cardinality(HeldIn(b)) = 0
  BY <1>1, FS_EmptySet
<1>5. \A b \in Buckets : inflight[b] = 0
  BY DEF Init
<1>3. NoPhantomInflight /\ CountedUntilRelease
  BY <1>4, <1>5 DEF NoPhantomInflight, CountedUntilRelease
<1> QED
  BY <1>2, <1>3 DEF CInv
------------------------------------------------------------------------------
\* Steps that neither admit nor release a call leave the counters alone.
LEMMA QuietStep ==
    ASSUME CInv, UNCHANGED <<inflight, counted>>,
           pc' \in [Calls -> {"new", "timed", "held", "denied", "done"}],
           \A c \in Calls : /\ pc[c] = "held" <=> pc'[c] = "held"
                            /\ pc[c] = "done" <=> pc'[c] = "done"
    PROVE  CInv'
<1>1. \A b \in Buckets : HeldIn(b)' = HeldIn(b)
  BY DEF HeldIn
<1>2. CountersOK' /\ \A b \in Buckets : AlwaysLimited(b)' <=> AlwaysLimited(b)
  BY DEF CInv, CountersOK, AlwaysLimited
<1>3. NoPhantomInflight' /\ CountedUntilRelease'
  BY <1>1, <1>2 DEF CInv, NoPhantomInflight, CountedUntilRelease
<1> QED
  BY <1>2, <1>3 DEF CInv

LEMMA DenyStep ==
    ASSUME CInv, NEW c \in Calls, pc[c] = "timed", Deny(c)
    PROVE  CInv'
<1>1. UNCHANGED <<inflight, counted>>
  BY DEF Deny
<1>2. pc' \in [Calls -> {"new", "timed", "held", "denied", "done"}]
  BY DEF CInv, CountersOK, Deny
<1>3. \A d \in Calls : /\ pc[d] = "held" <=> pc'[d] = "held"
                       /\ pc[d] = "done" <=> pc'[d] = "done"
  BY DEF CInv, CountersOK, Deny
<1> QED
  BY <1>1, <1>2, <1>3, QuietStep

\* An admitted call is counted in exactly the buckets that went up by one.
LEMMA AdmitStep ==
    ASSUME CInv, NEW c \in Calls, pc[c] = "timed",
           NEW conc \in [BucketsIn(RateBuckets[c]) -> ConcLimits],
           NEW rpm, NEW quota, Admit(c, conc, rpm, quota)
    PROVE  CInv'
<1> DEFINE up == Limited(BucketsIn(RateBuckets[c]), conc)
<1>1. up \subseteq BucketsIn(RateBuckets[c]) /\ up \subseteq Buckets
  BY BucketsOfACall DEF Limited
<1>2. /\ counted' = [counted EXCEPT ![c] = up]
      /\ inflight' = [b \in Buckets |-> IF b \in up THEN inflight[b] + 1 ELSE inflight[b]]
      /\ pc' = [pc EXCEPT ![c] = "held"]
  BY DEF Admit
<1> HIDE DEF up
<1>3. CountersOK'
  BY <1>1, <1>2 DEF CInv, CountersOK
<1>4. ASSUME NEW b \in Buckets
      PROVE  /\ b \in up => HeldIn(b)' = HeldIn(b) \cup {c}
             /\ b \notin up => HeldIn(b)' = HeldIn(b)
             /\ c \notin HeldIn(b)
  BY <1>2 DEF CInv, CountersOK, HeldIn
<1>5. ASSUME NEW b \in Buckets
      PROVE  /\ IsFiniteSet(HeldIn(b)')
             /\ Cardinality(HeldIn(b)') =
                    IF b \in up THEN Cardinality(HeldIn(b)) + 1 ELSE Cardinality(HeldIn(b))
             /\ Cardinality(HeldIn(b)) \in Nat
  BY <1>4, FS_AddElement, FS_CardinalityType DEF CInv, NoPhantomInflight
<1>6. NoPhantomInflight'
  BY <1>2, <1>5 DEF CInv, CountersOK, NoPhantomInflight
<1>7. ASSUME NEW b \in Buckets, AlwaysLimited(b)' PROVE AlwaysLimited(b)
  BY <1>2, <1>7 DEF CInv, CountersOK, AlwaysLimited
<1>8. CountedUntilRelease'
  BY <1>2, <1>5, <1>7 DEF CInv, CountersOK, CountedUntilRelease
<1> QED
  BY <1>3, <1>6, <1>8 DEF CInv

\* A release lowers every bucket of the call that is above zero, and so at
\* least those it was counted in.
LEMMA ReleaseStep ==
    ASSUME CInv, NEW c \in Calls, Release(c)
    PROVE  CInv'
<1> DEFINE all == BucketsIn(RateBuckets[c])
<1>1. /\ pc[c] = "held" /\ pc' = [pc EXCEPT ![c] = "done"]
      /\ counted' = counted
      /\ inflight' = [b \in Buckets |-> IF b \in all /\ inflight[b] > 0
                                          THEN inflight[b] - 1 ELSE inflight[b]]
  BY DEF Release, ghosts
<1>2. counted[c] \subseteq all
  BY DEF CInv, CountersOK
<1> HIDE DEF all
<1>3. CountersOK'
  BY <1>1 DEF CInv, CountersOK
<1>4. ASSUME NEW b \in Buckets
      PROVE  /\ HeldIn(b)' = HeldIn(b) \ {c}
             /\ b \in counted[c] <=> c \in HeldIn(b)
  BY <1>1 DEF CInv, CountersOK, HeldIn
<1>5. ASSUME NEW b \in Buckets
      PROVE  /\ IsFiniteSet(HeldIn(b)')
             /\ Cardinality(HeldIn(b)') =
                    IF b \in counted[c] THEN Cardinality(HeldIn(b)) - 1
                                        ELSE Cardinality(HeldIn(b))
             /\ Cardinality(HeldIn(b)) \in Nat /\ Cardinality(HeldIn(b)') \in Nat
  <2>1. IsFiniteSet(HeldIn(b))
    BY DEF CInv, NoPhantomInflight
  <2>2. /\ IsFiniteSet(HeldIn(b) \ {c})
        /\ Cardinality(HeldIn(b) \ {c}) =
               IF c \in HeldIn(b) THEN Cardinality(HeldIn(b)) - 1
                                  ELSE Cardinality(HeldIn(b))
    BY <2>1, FS_RemoveElement
  <2> QED
    BY <1>4, <2>1, <2>2, FS_CardinalityType
<1>6. NoPhantomInflight'
  BY <1>1, <1>2, <1>5 DEF CInv, CountersOK, NoPhantomInflight
<1>7. ASSUME NEW b \in Buckets, AlwaysLimited(b)'
      PROVE  inflight'[b] >= Cardinality(HeldIn(b)')
  <2>1. AlwaysLimited(b) /\ (b \in all => b \in counted[c])
    BY <1>1, <1>7 DEF CInv, CountersOK, AlwaysLimited, all
  <2>2. inflight[b] >= Cardinality(HeldIn(b)) /\ inflight[b] \in Nat
    BY <2>1 DEF CInv, CountersOK, CountedUntilRelease
  <2> QED
    BY <1>1, <1>2, <1>5, <2>1, <2>2
<1>8. CountedUntilRelease'
  BY <1>7 DEF CountedUntilRelease
<1> QED
  BY <1>3, <1>6, <1>8 DEF CInv
------------------------------------------------------------------------------
LEMMA NextCInv == CInv /\ [Next]_vars => CInv'
<1> SUFFICES ASSUME CInv, [Next]_vars PROVE CInv'
  OBVIOUS
<1>1. CASE Tick \/ Midnight \/ UNCHANGED vars
  <2>1. UNCHANGED <<inflight, counted, pc>>
    BY <1>1 DEF Tick, Midnight, vars, tables, ghosts
  <2> QED
    BY <2>1, QuietStep DEF CInv, CountersOK
<1>2. ASSUME NEW c \in Calls, ReadClock(c)
      PROVE  CInv'
  <2>1. UNCHANGED <<inflight, counted>>
    BY <1>2 DEF ReadClock, tables, ghosts
  <2>2. /\ pc' \in [Calls -> {"new", "timed", "held", "denied", "done"}]
        /\ \A d \in Calls : /\ pc[d] = "held" <=> pc'[d] = "held"
                            /\ pc[d] = "done" <=> pc'[d] = "done"
    BY <1>2 DEF CInv, CountersOK, ReadClock
  <2> QED
    BY <2>1, <2>2, QuietStep
<1>3. ASSUME NEW c \in Calls, CheckAndAcquire(c)
      PROVE  CInv'
  <2>1. pc[c] = "timed"
    BY <1>3 DEF CheckAndAcquire
  <2>2. PICK conc \in [BucketsIn(RateBuckets[c]) -> ConcLimits],
             rpm \in [BucketsIn(RateBuckets[c]) -> RpmLimits],
             quota \in [BucketsIn(QuotaBuckets[c]) -> Quotas] :
             \/ DenyByQuota(c, quota)
             \/ DenyByRateOrConcurrency(c, conc, rpm, quota)
             \/ Admit(c, conc, rpm, quota)
    BY <1>3 DEF CheckAndAcquire
  <2>3. CASE Admit(c, conc, rpm, quota)
    BY <2>1, <2>3, AdmitStep
  <2>4. CASE DenyByQuota(c, quota) \/ DenyByRateOrConcurrency(c, conc, rpm, quota)
    BY <2>1, <2>4, DenyStep DEF DenyByQuota, DenyByRateOrConcurrency
  <2> QED
    BY <2>2, <2>3, <2>4
<1>4. ASSUME NEW c \in Calls, Release(c)
      PROVE  CInv'
  BY <1>4, ReleaseStep
<1>5. ASSUME NEW c \in Calls, ReadAlertDate(c) \/ AlertRead(c)
      PROVE  CInv'
  <2>1. UNCHANGED <<inflight, counted, pc>>
    BY <1>5 DEF ReadAlertDate, AlertRead, tables, ghosts
  <2> QED
    BY <2>1, QuietStep DEF CInv, CountersOK
<1> QED
  BY <1>1, <1>2, <1>3, <1>4, <1>5 DEF Next

\* The concurrency counters keep their types and their inductive invariant, for
\* every interleaving of calls, limits and releases.
THEOREM CountersInvariant == Spec => []CInv
<1> QED
  BY InitCInv, NextCInv, PTL DEF Spec

\* No bucket ever counts a request that is not in flight: no slot of a key, a
\* user or a model is lost, whatever limits the calls carried.
THEOREM NoSlotLost == Spec => []NoPhantomInflight
<1>1. CInv => NoPhantomInflight
  BY DEF CInv
<1> QED
  BY CountersInvariant, <1>1, PTL

\* In a bucket that had a limit whenever a request was admitted to it, a request
\* stays counted until its own release ("Concurrency held until explicit
\* release", tests/test_concurrency_stream.py).
THEOREM SlotsHeldUntilRelease == Spec => []CountedUntilRelease
<1>1. CInv => CountedUntilRelease
  BY DEF CInv
<1> QED
  BY CountersInvariant, <1>1, PTL
------------------------------------------------------------------------------
(* The types of all tables. *)

LEMMA LeastNatural ==
    ASSUME NEW S \in SUBSET Nat, S # {}
    PROVE  \E n \in S : \A m \in S : n <= m
<1> DEFINE Less == OpToRel(<, Nat)
<1>1. Less = {p \in Nat \X Nat : p[1] < p[2]}
  BY DEF OpToRel
<1>2. IsWellFoundedOn(Less, Nat)
  BY NatLessThanWellFounded
<1> HIDE DEF Less
<1>3. PICK n \in S : \A m \in S : <<m, n>> \notin Less
  BY <1>2, WFMin
<1>4. ASSUME NEW m \in S PROVE n <= m
  <2>1. <<m, n>> \in Nat \X Nat /\ ~(m < n)
    BY <1>1, <1>3
  <2> QED
    BY <2>1
<1> QED
  BY <1>4

\* A check that stops beyond the last bucket has found none of them full.
LEMMA NoneFailing ==
    ASSUME NEW s \in Seq(Buckets), NEW full, FirstFailing(s, full) > Len(s)
    PROVE  \A b \in BucketsIn(s) : b \notin full
<1> DEFINE First(i) == /\ i <= Len(s) => s[i] \in full
                       /\ \A j \in 1 .. i - 1 : s[j] \notin full
           S == {i \in 1 .. Len(s) + 1 : i <= Len(s) => s[i] \in full}
<1>1. Len(s) \in Nat /\ Len(s) + 1 \in S /\ S \in SUBSET Nat
  OBVIOUS
<1>2. \E n \in S : \A m \in S : n <= m
  <2> HIDE DEF S
  <2> QED
    BY <1>1, LeastNatural
<1>3. PICK n \in S : \A m \in S : n <= m
  BY <1>2
<1>4. \A j \in 1 .. n - 1 : s[j] \notin full
  BY <1>1, <1>3
<1>5. \E i \in 1 .. Len(s) + 1 : First(i)
  BY <1>3, <1>4
<1> DEFINE stop == CHOOSE i \in 1 .. Len(s) + 1 : First(i)
<1>6. stop \in 1 .. Len(s) + 1 /\ First(stop)
  BY <1>5
<1>7. FirstFailing(s, full) = stop
  BY Zenon DEF FirstFailing
<1> HIDE DEF stop
<1>8. stop = Len(s) + 1
  BY <1>1, <1>6, <1>7
<1>9. \A j \in 1 .. Len(s) : s[j] \notin full
  BY <1>1, <1>6, <1>8
<1> QED
  BY <1>9 DEF BucketsIn

\* Some entry, or the end, is the first that does not lie before the window.
LEMMA PruneShape ==
    ASSUME NEW q \in Seq(Nat), NEW now \in Nat
    PROVE  \E keep \in 1 .. Len(q) + 1 :
              /\ Prune(q, now) = SubSeq(q, keep, Len(q))
              /\ \A j \in 1 .. keep - 1 : q[j] < now - Window
<1> DEFINE Kept(i) == i <= Len(q) => q[i] >= now - Window
           First(i) == Kept(i) /\ \A j \in 1 .. i - 1 : q[j] < now - Window
           S == {i \in 1 .. Len(q) + 1 : Kept(i)}
<1>1. Len(q) + 1 \in S
  OBVIOUS
<1>2. S \in SUBSET Nat /\ S # {}
  BY <1>1
<1>3. \E n \in S : \A m \in S : n <= m
  <2> HIDE DEF S
  <2> QED
    BY <1>2, LeastNatural
<1>4. PICK n \in S : \A m \in S : n <= m
  BY <1>3
<1>5. \A j \in 1 .. n - 1 : q[j] < now - Window
  <2> SUFFICES ASSUME NEW j \in 1 .. n - 1 PROVE q[j] < now - Window
    OBVIOUS
  <2>1. j \in 1 .. Len(q) /\ j \notin S
    BY <1>4
  <2> QED
    BY <2>1, LimiterAssumption DEF LimiterAssumption
<1>6. \E i \in 1 .. Len(q) + 1 : First(i)
  BY <1>4, <1>5
<1> DEFINE keep == CHOOSE i \in 1 .. Len(q) + 1 : First(i)
<1>7. keep \in 1 .. Len(q) + 1 /\ First(keep)
  BY <1>6
<1>8. Prune(q, now) = SubSeq(q, keep, Len(q))
  BY Zenon DEF Prune
<1> HIDE DEF keep
<1> QED
  BY <1>7, <1>8

LEMMA PruneType ==
    ASSUME NEW q \in Seq(Nat), NEW now \in Nat
    PROVE  Prune(q, now) \in Seq(Nat)
<1>1. PICK keep \in 1 .. Len(q) + 1 : Prune(q, now) = SubSeq(q, keep, Len(q))
  BY PruneShape
<1>2. SubSeq(q, keep, Len(q)) \in Seq(Nat)
  OBVIOUS
<1> QED
  BY <1>1, <1>2

LEMMA WindowsReadType ==
    ASSUME NEW bs, NEW now \in Nat, windows \in [Buckets -> Seq(Nat)]
    PROVE  WindowsRead(bs, now) \in [Buckets -> Seq(Nat)]
  BY PruneType DEF WindowsRead

LEMMA CountersType ==
    ASSUME NEW bs, NEW today \in Nat, daily \in [Buckets -> [day : Nat, count : Nat]]
    PROVE  /\ DailyRead(bs, today) \in [Buckets -> [day : Nat, count : Nat]]
           /\ DailyCounted(bs, today) \in [Buckets -> [day : Nat, count : Nat]]
<1>1. \A b \in Buckets : CountOn(b, today) \in Nat
  BY DEF CountOn
<1> QED
  BY <1>1 DEF DailyRead, DailyCounted

LEMMA CheckKeepsTypes ==
    ASSUME TypeOK, NEW c \in Calls, CheckAndAcquire(c)
    PROVE  TypeOK'
<1>1. PICK conc \in [BucketsIn(RateBuckets[c]) -> ConcLimits],
          rpm \in [BucketsIn(RateBuckets[c]) -> RpmLimits],
          quota \in [BucketsIn(QuotaBuckets[c]) -> Quotas] :
          \/ DenyByQuota(c, quota)
          \/ DenyByRateOrConcurrency(c, conc, rpm, quota)
          \/ Admit(c, conc, rpm, quota)
  BY DEF CheckAndAcquire
<1>2. seen[c].now \in Nat /\ seen[c].today \in Nat
  BY DEF TypeOK
<1>3. late' \in SUBSET Calls /\ behind' \in SUBSET Calls
  BY DEF CheckAndAcquire, NoteDate, TypeOK
<1>4. CASE DenyByQuota(c, quota)
  BY <1>2, <1>3, <1>4, CountersType DEF DenyByQuota, Deny, TypeOK, clocks, alerts
<1>5. CASE DenyByRateOrConcurrency(c, conc, rpm, quota)
  BY <1>2, <1>3, <1>5, CountersType, WindowsReadType DEF DenyByRateOrConcurrency, Deny, TypeOK, clocks, alerts
<1>6. CASE Admit(c, conc, rpm, quota)
  <2> DEFINE used == WindowsRead(ReadRates(c, rpm), seen[c].now)
             rate == BucketsIn(RateBuckets[c])
  <2>1. used \in [Buckets -> Seq(Nat)]
    BY <1>2, WindowsReadType DEF TypeOK
  <2> HIDE DEF used
  <2>2. windows' = [b \in Buckets |-> IF b \in Limited(rate, rpm) THEN Append(used[b], seen[c].now) ELSE used[b]]
    BY <1>6 DEF Admit, used
  <2>3. windows' \in [Buckets -> Seq(Nat)]
    BY <2>1, <2>2, <1>2
  <2>4. rate \subseteq Buckets
    BY BucketsOfACall
  <2>5. Limited(rate, conc) \subseteq Buckets /\ Limited(rate, rpm) \subseteq Buckets
    BY <2>4 DEF Limited
  <2>6. daily' \in [Buckets -> [day : Nat, count : Nat]]
    BY <1>2, <1>6, CountersType DEF Admit, TypeOK
  <2>7. inflight' \in [Buckets -> Nat]
    BY <1>6 DEF Admit, TypeOK
  <2>8. counted' \in [Calls -> SUBSET Buckets] /\ rated' \in [Calls -> SUBSET Buckets]
    BY <1>6, <2>5 DEF Admit, TypeOK
  <2>9. /\ UNCHANGED <<clocks, seen, alerts>>
        /\ pc' \in [Calls -> {"new", "timed", "held", "denied", "done"}]
    BY <1>6 DEF Admit, TypeOK
  <2> QED
    BY <1>3, <2>3, <2>6, <2>7, <2>8, <2>9 DEF TypeOK, clocks, alerts
<1> QED
  BY <1>1, <1>4, <1>5, <1>6

LEMMA AlertKeepsTypes ==
    ASSUME TypeOK, NEW c \in Calls, ReadAlertDate(c) \/ AlertRead(c)
    PROVE  TypeOK'
<1>1. CASE ReadAlertDate(c)
  BY <1>1 DEF ReadAlertDate, TypeOK, clocks, tables, ghosts
<1>2. CASE AlertRead(c)
  <2>1. PICK bs : daily' = DailyRead(bs, asked[c])
    BY <1>2 DEF AlertRead
  <2>2. daily' \in [Buckets -> [day : Nat, count : Nat]]
    BY <2>1, CountersType DEF TypeOK
  <2>3. behind' \in SUBSET Calls
    BY <1>2 DEF AlertRead, NoteDate, TypeOK
  <2> QED
    BY <1>2, <2>2, <2>3 DEF AlertRead, TypeOK, clocks
<1> QED
  BY <1>1, <1>2

LEMMA StepKeepsTypes == TypeOK /\ [Next]_vars => TypeOK'
<1> SUFFICES ASSUME TypeOK, [Next]_vars PROVE TypeOK'
  OBVIOUS
<1>1. CASE Tick
  BY <1>1 DEF Tick, TypeOK, alerts, tables, ghosts
<1>2. CASE Midnight
  BY <1>2 DEF Midnight, TypeOK, alerts, tables, ghosts
<1>3. ASSUME NEW c \in Calls, ReadClock(c) PROVE TypeOK'
  BY <1>3 DEF ReadClock, TypeOK, clocks, alerts, tables, ghosts
<1>4. ASSUME NEW c \in Calls, CheckAndAcquire(c) PROVE TypeOK'
  BY <1>4, CheckKeepsTypes
<1>5. ASSUME NEW c \in Calls, Release(c) PROVE TypeOK'
  BY <1>5 DEF Release, TypeOK, clocks, alerts, ghosts
<1>6. CASE UNCHANGED vars
  BY <1>6 DEF vars, TypeOK, clocks, alerts, tables, ghosts
<1> QED
  BY <1>1, <1>2, <1>3, <1>4, <1>5, <1>6, AlertKeepsTypes DEF Next

\* Windows, counters and dates keep their types, whatever clocks and limits the
\* calls come with (rate_limit.py).
THEOREM LimiterTypeCorrect == Spec => []TypeOK
<1>1. Init => TypeOK
  BY DEF Init, TypeOK
<1> QED
  BY <1>1, StepKeepsTypes, PTL DEF Spec
------------------------------------------------------------------------------
(* The sliding windows.  A window may have entries that a call with an older *)
(* clock left out of order, but a call that no other has overtaken finds in  *)
(* it an entry for every request recorded since its window began: all that   *)
(* was pruned lay before the window of an older clock.                       *)

EntriesFrom(q, lo) == {i \in 1 .. Len(q) : q[i] >= lo}

LEMMA EntriesCounted ==
    ASSUME NEW q \in Seq(Nat), NEW lo \in Int
    PROVE  /\ IsFiniteSet(EntriesFrom(q, lo)) /\ Cardinality(EntriesFrom(q, lo)) \in Nat
           /\ Cardinality(EntriesFrom(q, lo)) <= Len(q)
<1> DEFINE n == Len(q)
<1>1. n \in Nat /\ EntriesFrom(q, lo) \in SUBSET (1 .. n)
  BY DEF EntriesFrom
<1> HIDE DEF n
<1>2. IsFiniteSet(1 .. n) /\ Cardinality(1 .. n) = n
  BY <1>1, FS_Interval
<1>3. IsFiniteSet(EntriesFrom(q, lo)) /\ Cardinality(EntriesFrom(q, lo)) <= n
  BY <1>1, <1>2, FS_Subset
<1> QED
  BY <1>3, FS_CardinalityType DEF n

\* Pruning keeps the entries of every later window.
LEMMA PruneKeeps ==
    ASSUME NEW q \in Seq(Nat), NEW now \in Nat, NEW lo \in Int, lo >= now - Window
    PROVE  Cardinality(EntriesFrom(q, lo)) <= Cardinality(EntriesFrom(Prune(q, now), lo))
<1>1. PICK keep \in 1 .. Len(q) + 1 :
         /\ Prune(q, now) = SubSeq(q, keep, Len(q))
         /\ \A j \in 1 .. keep - 1 : q[j] < now - Window
  BY PruneShape
<1> DEFINE p == SubSeq(q, keep, Len(q))
           f == [i \in EntriesFrom(q, lo) |-> i - keep + 1]
<1>2. /\ p \in Seq(Nat) /\ Len(p) = Len(q) - keep + 1
      /\ \A j \in 1 .. Len(p) : p[j] = q[keep + j - 1]
  OBVIOUS
<1>3. ASSUME NEW i \in EntriesFrom(q, lo)
      PROVE  i \in keep .. Len(q) /\ i - keep + 1 \in EntriesFrom(p, lo)
  <2>1. i \in 1 .. Len(q) /\ q[i] >= lo /\ q[i] \in Nat
    BY DEF EntriesFrom
  <2>2. i \notin 1 .. keep - 1
    BY <1>1, <2>1, LimiterAssumption DEF LimiterAssumption
  <2>3. i \in keep .. Len(q) /\ i - keep + 1 \in 1 .. Len(p)
    BY <1>2, <2>1, <2>2
  <2>4. p[i - keep + 1] = q[keep + (i - keep + 1) - 1] /\ keep + (i - keep + 1) - 1 = i
    BY <1>2, <2>3
  <2> QED
    BY <2>1, <2>3, <2>4 DEF EntriesFrom
<1>4. f \in Injection(EntriesFrom(q, lo), EntriesFrom(p, lo))
  <2>1. f \in [EntriesFrom(q, lo) -> EntriesFrom(p, lo)]
    BY <1>3
  <2>2. \A i, j \in EntriesFrom(q, lo) : f[i] = f[j] => i = j
    BY DEF EntriesFrom
  <2> QED
    BY <2>1, <2>2 DEF Injection, IsInjective
<1> HIDE DEF f, p
<1>5. IsFiniteSet(EntriesFrom(p, lo))
  BY <1>2, EntriesCounted
<1>6. Cardinality(EntriesFrom(q, lo)) <= Cardinality(EntriesFrom(p, lo))
  BY <1>4, <1>5, FS_Injection
<1> QED
  BY <1>1, <1>6 DEF p

LEMMA AppendCounts ==
    ASSUME NEW q \in Seq(Nat), NEW now \in Nat, NEW lo \in Int
    PROVE  Cardinality(EntriesFrom(Append(q, now), lo))
             = Cardinality(EntriesFrom(q, lo)) + IF now >= lo THEN 1 ELSE 0
<1>1. /\ Len(q) \in Nat /\ Len(Append(q, now)) = Len(q) + 1
      /\ \A i \in 1 .. Len(q) : Append(q, now)[i] = q[i]
      /\ Append(q, now)[Len(q) + 1] = now
  OBVIOUS
<1>2. EntriesFrom(Append(q, now), lo)
        = EntriesFrom(q, lo) \cup IF now >= lo THEN {Len(q) + 1} ELSE {}
  BY <1>1 DEF EntriesFrom
<1>3. IsFiniteSet(EntriesFrom(q, lo)) /\ Len(q) + 1 \notin EntriesFrom(q, lo)
  BY <1>1, EntriesCounted DEF EntriesFrom
<1>4. Cardinality(EntriesFrom(q, lo) \cup {Len(q) + 1}) = Cardinality(EntriesFrom(q, lo)) + 1
  BY <1>3, FS_AddElement
<1>5. CASE now >= lo
  BY <1>2, <1>4, <1>5
<1>6. CASE ~(now >= lo)
  <2>1. EntriesFrom(Append(q, now), lo) = EntriesFrom(q, lo)
    BY <1>2, <1>6
  <2>2. Cardinality(EntriesFrom(q, lo)) \in Nat
    BY EntriesCounted
  <2> QED
    BY <1>6, <2>1, <2>2
<1> QED
  BY <1>5, <1>6

RatedIn(b) == {c \in Calls : b \in rated[c]}
RatedSince(b, lo) == {c \in RatedIn(b) : seen[c].now >= lo}

\* No call that has been through had a clock beyond t.
NewestBy(t) == \A c \in Calls : Through(c) => seen[c].now <= t

WindowInv ==
    /\ \A c \in Calls : rated[c] # {} => Through(c)
    /\ \A b \in Buckets : IsFiniteSet(RatedIn(b))
    /\ \A b \in Buckets, t \in Nat : NewestBy(t) =>
          Cardinality(RatedSince(b, t - Window)) <= Cardinality(EntriesFrom(windows[b], t - Window))
    /\ RateHeld

LEMMA RatedFinite ==
    ASSUME NEW b \in Buckets, IsFiniteSet(RatedIn(b)), NEW S \in SUBSET RatedIn(b)
    PROVE  IsFiniteSet(S) /\ Cardinality(S) \in Nat
BY FS_Subset, FS_CardinalityType

LEMMA InitWindowInv == Init => WindowInv
<1> SUFFICES ASSUME Init PROVE WindowInv
  OBVIOUS
<1>1. \A b \in Buckets : RatedIn(b) = {} /\ \A lo : RatedSince(b, lo) = {}
  BY DEF Init, RatedIn, RatedSince
<1>2. \A b \in Buckets : \A lo : EntriesFrom(windows[b], lo) = {}
  <2>1. 1 .. 0 = {}
    OBVIOUS
  <2>2. \A b \in Buckets : Len(windows[b]) = 0
    BY DEF Init
  <2> QED
    BY <2>1, <2>2 DEF EntriesFrom
<1>3. Cardinality({}) <= Cardinality({})
  BY FS_EmptySet
<1>4. /\ \A c \in Calls : rated[c] = {}
      /\ RateHeld
  BY DEF Init, RateHeld
<1> QED
  BY <1>1, <1>2, <1>3, <1>4, FS_EmptySet DEF WindowInv

\* A step in which nobody gets the lock for the first time.
LEMMA WindowsRest ==
    ASSUME WindowInv, UNCHANGED <<windows, rated, late>>,
           \A c \in Calls : Through(c)' <=> Through(c),
           \A c \in Calls : Through(c) => seen'[c] = seen[c]
    PROVE  WindowInv'
<1>1. \A c \in Calls : rated[c] # {} => seen'[c] = seen[c]
  BY DEF WindowInv
<1>2. \A b \in Buckets : RatedIn(b)' = RatedIn(b)
  BY DEF RatedIn
<1>3. \A b \in Buckets : \A lo : RatedSince(b, lo)' = RatedSince(b, lo)
  BY <1>1, <1>2 DEF RatedIn, RatedSince
<1>4. \A t \in Nat : NewestBy(t)' => NewestBy(t)
  BY DEF NewestBy
<1>5. \A b \in Buckets : \A lo : EntriesFrom(windows[b], lo)' = EntriesFrom(windows[b], lo)
  BY DEF EntriesFrom
<1>6. ASSUME NEW b \in Buckets, NEW c \in Calls \ late, b \in rated[c]
      PROVE  RatedWith(b, c)' = RatedWith(b, c)
  BY <1>1, <1>6 DEF RatedWith
<1>7. RateHeld'
  BY <1>6 DEF WindowInv, RateHeld
<1>8. ASSUME NEW b \in Buckets, NEW t \in Nat, NewestBy(t)'
      PROVE  Cardinality(RatedSince(b, t - Window)') <= Cardinality(EntriesFrom(windows[b], t - Window)')
  BY <1>3, <1>4, <1>5, <1>8 DEF WindowInv
<1>9. \A c \in Calls : rated'[c] # {} => Through(c)'
  BY DEF WindowInv
<1> QED
  BY <1>2, <1>7, <1>8, <1>9 DEF WindowInv

\* The entries of a later window after the reads of a call.
LEMMA ReadKeeps ==
    ASSUME TypeOK, NEW bs, NEW b \in Buckets, NEW now \in Nat, NEW lo \in Int, lo >= now - Window
    PROVE  Cardinality(EntriesFrom(windows[b], lo))
             <= Cardinality(EntriesFrom(WindowsRead(bs, now)[b], lo))
<1>1. windows[b] \in Seq(Nat)
  BY DEF TypeOK
<1>2. Cardinality(EntriesFrom(windows[b], lo)) \in Nat
  BY <1>1, EntriesCounted
<1>3. WindowsRead(bs, now)[b] = IF b \in bs THEN Prune(windows[b], now) ELSE windows[b]
  BY DEF WindowsRead
<1> QED
  BY <1>1, <1>2, <1>3, PruneKeeps

\* A denied call prunes no window further than its own clock allows.
LEMMA DenyWindows ==
    ASSUME TypeOK, WindowInv, NEW c \in Calls, pc[c] = "timed", Deny(c),
           late' = IF Overtaken(c) THEN late \cup {c} ELSE late,
           NEW bs, windows' = windows \/ windows' = WindowsRead(bs, seen[c].now)
    PROVE  WindowInv'
<1>1. /\ pc' = [pc EXCEPT ![c] = "denied"] /\ seen' = seen /\ rated' = rated
      /\ rated[c] = {}
  BY DEF Deny, WindowInv, Through
<1>2. \A b \in Buckets : RatedIn(b)' = RatedIn(b) /\ c \notin RatedIn(b)
  BY <1>1 DEF RatedIn
<1>3. \A b \in Buckets : \A lo : RatedSince(b, lo)' = RatedSince(b, lo)
  BY <1>1, <1>2 DEF RatedSince
<1>4. \A d \in Calls : Through(d)' <=> Through(d) \/ d = c
  BY <1>1 DEF Through, TypeOK
<1>5. \A d \in Calls : rated'[d] # {} => Through(d)'
  BY <1>1, <1>4 DEF WindowInv
<1>6. seen[c].now \in Nat /\ Window \in Nat
  BY LimiterAssumption DEF TypeOK, LimiterAssumption
<1>7. ASSUME NEW b \in Buckets, NEW t \in Nat, NewestBy(t)'
      PROVE  Cardinality(RatedSince(b, t - Window)') <= Cardinality(EntriesFrom(windows[b], t - Window)')
  <2>1. NewestBy(t) /\ seen[c].now <= t
    BY <1>1, <1>4, <1>7 DEF NewestBy
  <2>2. t - Window \in Int /\ t - Window >= seen[c].now - Window
    BY <1>6, <2>1
  <2>3. Cardinality(EntriesFrom(windows[b], t - Window)) <= Cardinality(EntriesFrom(windows'[b], t - Window))
    <3>1. CASE windows' = windows
      <4>1. windows[b] \in Seq(Nat)
        BY DEF TypeOK
      <4> QED
        BY <2>2, <3>1, <4>1, EntriesCounted
    <3>2. CASE windows' = WindowsRead(bs, seen[c].now)
      BY <1>6, <2>2, <3>2, ReadKeeps
    <3> QED
      BY <3>1, <3>2
  <2>4. Cardinality(RatedSince(b, t - Window)) <= Cardinality(EntriesFrom(windows[b], t - Window))
    BY <2>1 DEF WindowInv
  <2>5. EntriesFrom(windows[b], t - Window)' = EntriesFrom(windows'[b], t - Window)
    BY DEF EntriesFrom
  <2>6. /\ Cardinality(RatedSince(b, t - Window)) \in Nat
        /\ Cardinality(EntriesFrom(windows[b], t - Window)) \in Nat
        /\ Cardinality(EntriesFrom(windows'[b], t - Window)) \in Nat
    <3>1. RatedSince(b, t - Window) \in SUBSET RatedIn(b) /\ IsFiniteSet(RatedIn(b))
      BY DEF RatedSince, WindowInv
    <3>2. windows[b] \in Seq(Nat) /\ windows'[b] \in Seq(Nat)
      BY <1>6, WindowsReadType DEF TypeOK
    <3> QED
      BY <2>2, <3>1, <3>2, RatedFinite, EntriesCounted
  <2>7. RatedSince(b, t - Window)' = RatedSince(b, t - Window)
    BY <1>3
  <2>8. Cardinality(RatedSince(b, t - Window)) <= Cardinality(EntriesFrom(windows'[b], t - Window))
    BY <2>3, <2>4, <2>6
  <2> QED
    BY <2>5, <2>7, <2>8
<1>8. RateHeld'
  <2>1. \A b \in Buckets, d \in Calls : b \in rated[d] => RatedWith(b, d)' = RatedWith(b, d)
    BY <1>1 DEF RatedWith
  <2> QED
    BY <1>1, <2>1 DEF WindowInv, RateHeld
<1> QED
  BY <1>2, <1>5, <1>7, <1>8 DEF WindowInv

\* A call that nobody has overtaken is recorded only if its window, which has an
\* entry for every request recorded since it began, has room.
LEMMA AdmittedInTurn ==
    ASSUME TypeOK, WindowInv, NEW c \in Calls, ~Overtaken(c), pc[c] = "timed",
           NEW b \in BucketsIn(RateBuckets[c]), NEW conc, NEW quota,
           NEW rpm \in [BucketsIn(RateBuckets[c]) -> RpmLimits], rpm[b] > 0,
           Admit(c, conc, rpm, quota)
    PROVE  /\ Cardinality(RatedSince(b, seen[c].now - Window)) + 1 <= rpm[b]
           /\ rpm[b] \in RpmLimits /\ rpm[b] \in Nat
<1> DEFINE now == seen[c].now
           q == windows[b]
           p == Prune(q, now)
<1>1. b \in Buckets /\ now \in Nat /\ q \in Seq(Nat) /\ Window \in Nat
  BY BucketsOfACall, LimiterAssumption DEF TypeOK, LimiterAssumption
<1>2. p \in Seq(Nat)
  BY <1>1, PruneType
<1>3. rpm[b] \in RpmLimits /\ rpm[b] \in Nat
  BY LimiterAssumption DEF LimiterAssumption
<1>4. Len(p) < rpm[b]
  <2> DEFINE full == {x \in DOMAIN rpm : rpm[x] > 0 /\ Len(Prune(windows[x], now)) >= rpm[x]}
  <2>1. FirstFailing(RateBuckets[c], full) > Len(RateBuckets[c])
    BY DEF Admit, RateStop
  <2>2. RateBuckets[c] \in Seq(Buckets)
    BY LimiterAssumption DEF LimiterAssumption
  <2> HIDE DEF full
  <2>3. b \notin full
    BY <2>1, <2>2, NoneFailing
  <2>4. ~(Len(p) >= rpm[b])
    BY <2>3 DEF full
  <2> HIDE DEF p
  <2>5. Len(p) \in Nat
    BY <1>2
  <2> QED
    BY <1>3, <2>4, <2>5
<1>5. NewestBy(now)
  <2> SUFFICES ASSUME NEW d \in Calls, Through(d) PROVE seen[d].now <= now
    BY DEF NewestBy
  <2>1. ~(seen[d].now > seen[c].now)
    BY DEF Overtaken, Through
  <2> QED
    BY <2>1 DEF TypeOK
<1>6. Cardinality(RatedSince(b, now - Window)) <= Cardinality(EntriesFrom(q, now - Window))
  BY <1>1, <1>5 DEF WindowInv
<1>7. now - Window \in Int
  BY <1>1
<1>8. Cardinality(EntriesFrom(q, now - Window)) <= Cardinality(EntriesFrom(p, now - Window))
  BY <1>1, <1>7, PruneKeeps
<1>9. /\ Cardinality(EntriesFrom(p, now - Window)) <= Len(p)
      /\ Cardinality(EntriesFrom(p, now - Window)) \in Nat
      /\ Cardinality(EntriesFrom(q, now - Window)) \in Nat
  BY <1>1, <1>2, <1>7, EntriesCounted
<1>10. Cardinality(RatedSince(b, now - Window)) \in Nat
  <2>1. RatedSince(b, now - Window) \in SUBSET RatedIn(b) /\ IsFiniteSet(RatedIn(b))
    BY <1>1 DEF RatedSince, WindowInv
  <2> QED
    BY <1>1, <2>1, RatedFinite
<1>11. Len(p) \in Nat
  <2> HIDE DEF p
  <2> QED
    BY <1>2
<1> HIDE DEF p, q, now
<1> QED
  BY <1>3, <1>4, <1>6, <1>8, <1>9, <1>10, <1>11 DEF now

\* The entry of an admitted call joins those of the requests recorded before.
LEMMA AdmitEntries ==
    ASSUME TypeOK, WindowInv, NEW c \in Calls, pc[c] = "timed",
           NEW conc, NEW quota, NEW rpm, Admit(c, conc, rpm, quota),
           NEW b \in Buckets, NEW t \in Nat, NewestBy(t)'
    PROVE  Cardinality(RatedSince(b, t - Window)') <= Cardinality(EntriesFrom(windows[b], t - Window)')
<1> DEFINE now == seen[c].now
           lo == t - Window
           up == Limited(BucketsIn(RateBuckets[c]), rpm)
           used == WindowsRead(ReadRates(c, rpm), now)
<1>1. /\ windows' = [x \in Buckets |-> IF x \in up THEN Append(used[x], now) ELSE used[x]]
      /\ rated' = [rated EXCEPT ![c] = up] /\ seen' = seen
      /\ pc' = [pc EXCEPT ![c] = "held"]
  BY DEF Admit
<1>2. now \in Nat /\ Window \in Nat /\ used \in [Buckets -> Seq(Nat)] /\ rated[c] = {}
  BY WindowsReadType, LimiterAssumption DEF TypeOK, LimiterAssumption, WindowInv, Through
<1>3. NewestBy(t) /\ now <= t
  BY <1>1 DEF NewestBy, Through, TypeOK
<1>4. lo \in Int /\ lo >= now - Window
  BY <1>2, <1>3
<1>5. Cardinality(EntriesFrom(windows[b], lo)) <= Cardinality(EntriesFrom(used[b], lo))
  BY <1>2, <1>4, ReadKeeps
<1>6. Cardinality(RatedSince(b, lo)) <= Cardinality(EntriesFrom(windows[b], lo))
  BY <1>3 DEF WindowInv
<1> HIDE DEF used, up
<1>7. /\ IsFiniteSet(RatedSince(b, lo)) /\ Cardinality(RatedSince(b, lo)) \in Nat
      /\ Cardinality(EntriesFrom(windows[b], lo)) \in Nat
      /\ Cardinality(EntriesFrom(used[b], lo)) \in Nat
  <2>1. RatedSince(b, lo) \in SUBSET RatedIn(b) /\ IsFiniteSet(RatedIn(b))
    BY DEF RatedSince, WindowInv
  <2>2. windows[b] \in Seq(Nat) /\ used[b] \in Seq(Nat)
    BY <1>2 DEF TypeOK
  <2> QED
    BY <1>4, <2>1, <2>2, RatedFinite, EntriesCounted
<1>8. EntriesFrom(windows[b], lo)' = EntriesFrom(windows'[b], lo)
  BY DEF EntriesFrom
<1>9. CASE b \notin up
  <2>1. RatedSince(b, lo)' = RatedSince(b, lo)
    BY <1>1, <1>2, <1>9 DEF RatedSince, RatedIn, TypeOK
  <2>2. windows'[b] = used[b]
    BY <1>1, <1>9
  <2> QED
    BY <1>5, <1>6, <1>7, <1>8, <2>1, <2>2
<1>10. CASE b \in up
  <2>1. RatedSince(b, lo)' = RatedSince(b, lo) \cup IF now >= lo THEN {c} ELSE {}
    BY <1>1, <1>2, <1>10 DEF RatedSince, RatedIn, TypeOK
  <2>2. c \notin RatedSince(b, lo)
    BY <1>2 DEF RatedSince, RatedIn
  <2>3. Cardinality(RatedSince(b, lo)') = Cardinality(RatedSince(b, lo)) + IF now >= lo THEN 1 ELSE 0
    <3>1. Cardinality(RatedSince(b, lo) \cup {c}) = Cardinality(RatedSince(b, lo)) + 1
      BY <1>7, <2>2, FS_AddElement
    <3>2. CASE now >= lo
      BY <2>1, <3>1, <3>2
    <3>3. CASE ~(now >= lo)
      <4>1. RatedSince(b, lo)' = RatedSince(b, lo)
        BY <2>1, <3>3
      <4> QED
        BY <1>7, <3>3, <4>1
    <3> QED
      BY <3>2, <3>3
  <2>4. Cardinality(EntriesFrom(windows'[b], lo))
          = Cardinality(EntriesFrom(used[b], lo)) + IF now >= lo THEN 1 ELSE 0
    BY <1>1, <1>2, <1>4, <1>10, AppendCounts
  <2> QED
    BY <1>5, <1>6, <1>7, <1>8, <2>3, <2>4
<1> QED
  BY <1>9, <1>10

LEMMA AdmitWindows ==
    ASSUME TypeOK, WindowInv, NEW c \in Calls, pc[c] = "timed",
           late' = IF Overtaken(c) THEN late \cup {c} ELSE late,
           NEW conc, NEW quota, NEW rpm \in [BucketsIn(RateBuckets[c]) -> RpmLimits],
           Admit(c, conc, rpm, quota)
    PROVE  WindowInv'
<1> DEFINE up == Limited(BucketsIn(RateBuckets[c]), rpm)
<1>1. /\ rated' = [rated EXCEPT ![c] = up] /\ seen' = seen
      /\ pc' = [pc EXCEPT ![c] = "held"] /\ rated[c] = {}
  BY DEF Admit, WindowInv, Through
<1>2. up \subseteq BucketsIn(RateBuckets[c]) /\ \A b \in up : rpm[b] > 0
  BY DEF Limited
<1> HIDE DEF up
<1>3. \A d \in Calls : rated'[d] # {} => Through(d)'
  BY <1>1 DEF WindowInv, Through, TypeOK
<1>4. ASSUME NEW b \in Buckets PROVE IsFiniteSet(RatedIn(b)')
  <2>1. RatedIn(b)' = RatedIn(b) \/ RatedIn(b)' = RatedIn(b) \cup {c}
    BY <1>1 DEF RatedIn, TypeOK
  <2> QED
    BY <2>1, FS_AddElement DEF WindowInv
<1>5. RateHeld'
  <2> SUFFICES ASSUME NEW b \in Buckets, NEW e \in Calls \ late', b \in rated'[e]
               PROVE  \E m \in RpmLimits : Cardinality(RatedWith(b, e)') <= m
    BY DEF RateHeld
  <2>1. CASE c \in late'
    <3>1. e # c /\ e \in Calls \ late /\ b \in rated[e]
      BY <1>1, <2>1 DEF TypeOK
    <3>2. RatedWith(b, e)' \subseteq RatedWith(b, e)
      BY <1>1, <2>1, <3>1 DEF RatedWith, TypeOK
    <3>3. PICK m \in RpmLimits : Cardinality(RatedWith(b, e)) <= m
      BY <3>1 DEF WindowInv, RateHeld
    <3>4. RatedWith(b, e) \in SUBSET RatedIn(b) /\ IsFiniteSet(RatedIn(b))
      BY DEF RatedWith, RatedIn, WindowInv
    <3>5. IsFiniteSet(RatedWith(b, e)) /\ RatedWith(b, e)' \in SUBSET RatedWith(b, e)
      BY <3>2, <3>4, RatedFinite
    <3>6. /\ Cardinality(RatedWith(b, e)') <= Cardinality(RatedWith(b, e))
          /\ Cardinality(RatedWith(b, e)') \in Nat /\ Cardinality(RatedWith(b, e)) \in Nat
      BY <3>5, FS_Subset, FS_CardinalityType
    <3> QED
      BY <3>3, <3>6, LimiterAssumption DEF LimiterAssumption
  <2>2. CASE c \notin late' /\ c \notin RatedWith(b, e)'
    <3>1. ~Overtaken(c) /\ late' = late
      BY <2>2
    <3>2. e # c
      <4>1. SUFFICES ASSUME e = c PROVE FALSE
        OBVIOUS
      <4>2. seen[c].now \in seen[c].now - Window .. seen[c].now
        BY LimiterAssumption DEF TypeOK, LimiterAssumption
      <4> QED
        BY <1>1, <2>2, <4>1, <4>2 DEF RatedWith
    <3>3. e \in Calls \ late /\ b \in rated[e]
      BY <1>1, <3>1, <3>2 DEF TypeOK
    <3>4. RatedWith(b, e)' = RatedWith(b, e)
      BY <1>1, <2>2, <3>1, <3>3 DEF RatedWith, TypeOK
    <3> QED
      BY <3>3, <3>4 DEF WindowInv, RateHeld
  <2>3. CASE c \notin late' /\ c \in RatedWith(b, e)'
    <3> DEFINE lo == seen[c].now - Window
    <3>1. ~Overtaken(c) /\ late' = late
      BY <2>3
    <3>2. b \in up /\ seen[c].now <= seen[e].now
      BY <1>1, <2>3 DEF RatedWith, TypeOK
    <3>3. seen[e].now = seen[c].now
      <4>1. CASE e = c
        BY <4>1
      <4>2. CASE e # c
        <5>1. Through(e)
          BY <1>1, <4>2 DEF WindowInv, TypeOK
        <5>2. ~(seen[e].now > seen[c].now)
          BY <3>1, <5>1 DEF Overtaken, Through
        <5> QED
          BY <3>2, <5>2 DEF TypeOK
      <4> QED
        BY <4>1, <4>2
    <3>4. Cardinality(RatedSince(b, lo)) + 1 <= rpm[b] /\ rpm[b] \in RpmLimits /\ rpm[b] \in Nat
      BY <1>2, <3>1, <3>2, AdmittedInTurn
    <3>5. RatedWith(b, e)' \in SUBSET (RatedSince(b, lo) \cup {c})
      BY <1>1, <3>3, LimiterAssumption DEF RatedWith, RatedSince, RatedIn, TypeOK, LimiterAssumption
    <3>6. RatedSince(b, lo) \in SUBSET RatedIn(b) /\ IsFiniteSet(RatedIn(b))
      BY DEF RatedSince, WindowInv
    <3>7. IsFiniteSet(RatedSince(b, lo)) /\ Cardinality(RatedSince(b, lo)) \in Nat
      BY <3>6, RatedFinite
    <3> HIDE DEF lo
    <3>8. /\ IsFiniteSet(RatedSince(b, lo) \cup {c})
          /\ Cardinality(RatedSince(b, lo) \cup {c}) <= Cardinality(RatedSince(b, lo)) + 1
          /\ Cardinality(RatedSince(b, lo) \cup {c}) \in Nat
      <4>1. /\ IsFiniteSet(RatedSince(b, lo) \cup {c})
            /\ Cardinality(RatedSince(b, lo) \cup {c})
                 = IF c \in RatedSince(b, lo) THEN Cardinality(RatedSince(b, lo))
                                              ELSE Cardinality(RatedSince(b, lo)) + 1
        BY <3>7, FS_AddElement
      <4> QED
        BY <3>7, <4>1
    <3>9. /\ Cardinality(RatedWith(b, e)') <= Cardinality(RatedSince(b, lo) \cup {c})
          /\ Cardinality(RatedWith(b, e)') \in Nat
      BY <3>5, <3>8, FS_Subset, FS_CardinalityType
    <3>10. Cardinality(RatedWith(b, e)') <= rpm[b]
      BY <3>4, <3>7, <3>8, <3>9
    <3> QED
      BY <3>4, <3>10
  <2> QED
    BY <2>1, <2>2, <2>3
<1> QED
  BY <1>3, <1>4, <1>5, AdmitEntries DEF WindowInv

LEMMA NextWindowInv == TypeOK /\ WindowInv /\ [Next]_vars => WindowInv'
<1> SUFFICES ASSUME TypeOK, WindowInv, [Next]_vars PROVE WindowInv'
  OBVIOUS
<1>1. CASE Tick \/ Midnight \/ UNCHANGED vars
  <2>1. UNCHANGED <<windows, rated, late, pc, seen>>
    BY <1>1 DEF Tick, Midnight, vars, tables, ghosts
  <2> QED
    BY <2>1, WindowsRest DEF Through
<1>2. ASSUME NEW c \in Calls, ReadClock(c) PROVE WindowInv'
  <2>1. UNCHANGED <<windows, rated, late>>
    BY <1>2 DEF ReadClock, tables, ghosts
  <2>2. \A d \in Calls : Through(d)' <=> Through(d)
    BY <1>2 DEF ReadClock, Through, TypeOK
  <2>3. \A d \in Calls : Through(d) => seen'[d] = seen[d]
    BY <1>2 DEF ReadClock, Through, TypeOK
  <2> QED
    BY <2>1, <2>2, <2>3, WindowsRest
<1>3. ASSUME NEW c \in Calls, Release(c) PROVE WindowInv'
  <2>1. UNCHANGED <<windows, rated, late, seen>>
    BY <1>3 DEF Release, ghosts
  <2>2. \A d \in Calls : Through(d)' <=> Through(d)
    BY <1>3 DEF Release, Through, TypeOK
  <2> QED
    BY <2>1, <2>2, WindowsRest
<1>4. ASSUME NEW c \in Calls, CheckAndAcquire(c) PROVE WindowInv'
  <2>1. pc[c] = "timed" /\ late' = IF Overtaken(c) THEN late \cup {c} ELSE late
    BY <1>4 DEF CheckAndAcquire
  <2>2. PICK conc \in [BucketsIn(RateBuckets[c]) -> ConcLimits],
             rpm \in [BucketsIn(RateBuckets[c]) -> RpmLimits],
             quota \in [BucketsIn(QuotaBuckets[c]) -> Quotas] :
             \/ DenyByQuota(c, quota)
             \/ DenyByRateOrConcurrency(c, conc, rpm, quota)
             \/ Admit(c, conc, rpm, quota)
    BY <1>4 DEF CheckAndAcquire
  <2>3. CASE Admit(c, conc, rpm, quota)
    BY <2>1, <2>3, AdmitWindows
  <2>4. CASE DenyByQuota(c, quota)
    BY <2>1, <2>4, DenyWindows DEF DenyByQuota
  <2>5. CASE DenyByRateOrConcurrency(c, conc, rpm, quota)
    BY <2>1, <2>5, DenyWindows DEF DenyByRateOrConcurrency
  <2> QED
    BY <2>2, <2>3, <2>4, <2>5
<1>5. ASSUME NEW c \in Calls, ReadAlertDate(c) \/ AlertRead(c) PROVE WindowInv'
  <2>1. UNCHANGED <<windows, rated, late, pc, seen>>
    BY <1>5 DEF ReadAlertDate, AlertRead, tables, ghosts
  <2> QED
    BY <2>1, WindowsRest DEF Through
<1> QED
  BY <1>1, <1>2, <1>3, <1>4, <1>5 DEF Next

\* Whatever limits the calls carry and wherever they wait between the clock and
\* the lock, no window of a bucket holds more of the requests admitted in the
\* order of their clocks than the largest limit in use (_rpm_check and
\* check_and_acquire, app/auth/rate_limit.py).
THEOREM WindowLimitsHold == Spec => []RateHeld
<1>1. Spec => []WindowInv
  BY InitWindowInv, NextWindowInv, LimiterTypeCorrect, PTL DEF Spec
<1>2. WindowInv => RateHeld
  BY DEF WindowInv
<1> QED
  BY <1>1, <1>2, PTL
------------------------------------------------------------------------------
(* The daily counters.  Where no date has come after a newer one, a bucket   *)
(* counts the requests admitted on the newest day it was asked about, and    *)
(* nothing was admitted to it on a later one.                                *)

QuotaIn(c) == BucketsIn(QuotaBuckets[c])
Admitted == {c \in Calls : pc[c] \in {"held", "done"}}
InOrder(b) == \A c \in behind : b \notin QuotaIn(c)

\* No date beyond t has been used, to admit or deny a call or in its alert check.
DatedBy(t) ==
    \A c \in Calls : /\ Through(c) => seen[c].today <= t
                     /\ alert[c] = "over" => asked[c] <= t

CountsTheDay(b) ==
    /\ \A c \in Admitted : b \in QuotaIn(c) => seen[c].today <= daily[b].day
    /\ daily[b].count = Cardinality(AdmittedOn(b, daily[b].day))
    /\ \A d \in Nat : \E q \in Quotas : Cardinality(AdmittedOn(b, d)) <= q

DayInv ==
    /\ IsFiniteSet(Admitted)
    /\ \A b \in Buckets, t \in Nat : DatedBy(t) => daily[b].day <= t
    /\ \A b \in Buckets : InOrder(b) => CountsTheDay(b)

LEMMA QuotaBucketsOfACall ==
    ASSUME NEW c \in Calls
    PROVE  /\ QuotaBuckets[c] \in Seq(Buckets) /\ QuotaIn(c) \subseteq Buckets
           /\ \A quota : ReadQuotas(c, quota) \subseteq QuotaIn(c)
           /\ AlertBuckets[c] \subseteq QuotaIn(c)
<1>1. QuotaBuckets[c] \in Seq(Buckets) /\ AlertBuckets[c] \subseteq QuotaIn(c)
  BY LimiterAssumption DEF LimiterAssumption, QuotaIn
<1> QED
  BY <1>1 DEF QuotaIn, BucketsIn, ReadQuotas, Passed, Limited

LEMMA AdmittedCounted ==
    ASSUME DayInv, NEW b, NEW d
    PROVE  IsFiniteSet(AdmittedOn(b, d)) /\ Cardinality(AdmittedOn(b, d)) \in Nat
<1>1. AdmittedOn(b, d) \in SUBSET Admitted
  BY DEF AdmittedOn, Admitted
<1> QED
  BY <1>1, FS_Subset, FS_CardinalityType DEF DayInv

LEMMA CountersMoved ==
    ASSUME NEW bs, NEW today, NEW b \in Buckets
    PROVE  /\ b \in bs => /\ DailyRead(bs, today)[b].day = today
                          /\ DailyRead(bs, today)[b].count = CountOn(b, today)
                          /\ DailyCounted(bs, today)[b].day = today
                          /\ DailyCounted(bs, today)[b].count = CountOn(b, today) + 1
           /\ b \notin bs => /\ DailyRead(bs, today)[b] = daily[b]
                             /\ DailyCounted(bs, today)[b] = daily[b]
<1>1. CASE b \in bs
  <2>1. /\ DailyRead(bs, today)[b] = [day |-> today, count |-> CountOn(b, today)]
        /\ DailyCounted(bs, today)[b] = [day |-> today, count |-> CountOn(b, today) + 1]
    BY <1>1 DEF DailyRead, DailyCounted
  <2> QED
    BY <1>1, <2>1
<1>2. CASE b \notin bs
  BY <1>2 DEF DailyRead, DailyCounted
<1> QED
  BY <1>1, <1>2

LEMMA InitDayInv == ASSUME Quotas # {} PROVE Init => DayInv
<1> SUFFICES ASSUME Init PROVE DayInv
  OBVIOUS
<1>1. Admitted = {} /\ \A b, d : AdmittedOn(b, d) = {}
  BY DEF Init, Admitted, AdmittedOn
<1>2. IsFiniteSet({}) /\ Cardinality({}) = 0
  BY FS_EmptySet
<1>3. \A b \in Buckets : daily[b].day = 0 /\ daily[b].count = 0
  BY DEF Init
<1>4. \E q \in Quotas : 0 <= q
  <2>1. PICK q : q \in Quotas
    OBVIOUS
  <2>2. q \in Nat
    BY <2>1, LimiterAssumption DEF LimiterAssumption
  <2> QED
    BY <2>1, <2>2
<1> QED
  BY <1>1, <1>2, <1>3, <1>4 DEF DayInv, CountsTheDay

\* A step in which nobody gets the lock with a date.
LEMMA DaysRest ==
    ASSUME DayInv, UNCHANGED <<daily, behind>>,
           \A c \in Calls : Through(c)' <=> Through(c),
           \A c \in Calls : c \in Admitted' <=> c \in Admitted,
           \A c \in Calls : Through(c) => seen'[c] = seen[c],
           \A c \in Calls : alert[c] = "over" => alert'[c] = "over" /\ asked'[c] = asked[c]
    PROVE  DayInv'
<1>1. Admitted' = Admitted /\ \A c \in Admitted : Through(c)
  BY DEF Admitted, Through
<1>2. \A b, d : AdmittedOn(b, d)' = AdmittedOn(b, d)
  BY <1>1 DEF AdmittedOn, Admitted
<1>3. \A t \in Nat : DatedBy(t)' => DatedBy(t)
  BY DEF DatedBy
<1>4. \A b \in Buckets : InOrder(b)' => InOrder(b)
  BY DEF InOrder, QuotaIn
<1>5. ASSUME NEW b \in Buckets, CountsTheDay(b) PROVE CountsTheDay(b)'
  BY <1>1, <1>2, <1>5 DEF CountsTheDay, QuotaIn, Admitted
<1> QED
  BY <1>1, <1>3, <1>4, <1>5 DEF DayInv

\* What a date finds in a bucket where every date has come in order, it included.
LEMMA DayFound ==
    ASSUME TypeOK, DayInv, NEW c \in Calls, NEW today \in Nat, NoteDate(c, today),
           NEW b \in QuotaIn(c), InOrder(b)'
    PROVE  /\ InOrder(b) /\ CountsTheDay(b)
           /\ daily[b].day <= today
           /\ CountOn(b, today) = Cardinality(AdmittedOn(b, today))
<1>1. b \in Buckets
  BY QuotaBucketsOfACall
<1>2. InOrder(b) /\ ~Outdated(today)
  BY DEF InOrder, QuotaIn, NoteDate
<1>3. CountsTheDay(b)
  BY <1>1, <1>2 DEF DayInv
<1>4. daily[b].day \in Nat
  BY <1>1 DEF TypeOK
<1>5. DatedBy(today)
  <2> SUFFICES ASSUME NEW d \in Calls
               PROVE  /\ Through(d) => seen[d].today <= today
                      /\ alert[d] = "over" => asked[d] <= today
    BY DEF DatedBy
  <2>1. /\ Through(d) => ~(seen[d].today > today)
        /\ alert[d] = "over" => ~(asked[d] > today)
    BY <1>2 DEF Outdated
  <2>2. seen[d].today \in Nat /\ asked[d] \in Nat
    BY DEF TypeOK
  <2> QED
    BY <2>1, <2>2
<1>6. daily[b].day <= today
  BY <1>1, <1>4, <1>5 DEF DayInv
<1>7. CASE daily[b].day = today
  BY <1>2, <1>3, <1>6, <1>7 DEF CountOn, CountsTheDay
<1>8. CASE daily[b].day # today
  <2>1. AdmittedOn(b, today) = {}
    <3> SUFFICES ASSUME NEW d \in AdmittedOn(b, today) PROVE FALSE
      OBVIOUS
    <3>1. d \in Admitted /\ b \in QuotaIn(d) /\ seen[d].today = today
      BY DEF AdmittedOn, Admitted, QuotaIn
    <3> QED
      BY <1>3, <1>4, <1>6, <1>8, <3>1 DEF CountsTheDay
  <2>2. CountOn(b, today) = 0
    BY <1>8 DEF CountOn
  <2> QED
    BY <1>2, <1>3, <1>6, <2>1, <2>2, FS_EmptySet
<1> QED
  BY <1>7, <1>8

\* Counters move to a date that is used and never beyond it.
LEMMA DaysMove ==
    ASSUME DayInv, NEW today \in Nat, NEW bs,
           \A b \in Buckets : daily'[b].day = IF b \in bs THEN today ELSE daily[b].day,
           NEW b \in Buckets, NEW t \in Nat, DatedBy(t), today <= t
    PROVE  daily'[b].day <= t
BY DEF DayInv

\* A step that admits nobody and reads the counters bs of a call with a date: a
\* denial, or an alert check.
LEMMA ReadDays ==
    ASSUME TypeOK, DayInv, NEW c \in Calls, NEW today \in Nat, NoteDate(c, today),
           NEW bs \in SUBSET QuotaIn(c), daily' = DailyRead(bs, today),
           seen' = seen, \A d \in Calls : d \in Admitted' <=> d \in Admitted,
           \A t \in Nat : DatedBy(t)' => DatedBy(t) /\ today <= t
    PROVE  DayInv'
<1>1. Admitted' = Admitted
  BY DEF Admitted
<1>2. \A b, d : AdmittedOn(b, d)' = AdmittedOn(b, d)
  BY <1>1 DEF AdmittedOn, Admitted
<1>3. \A b \in Buckets :
         /\ b \in bs => /\ daily'[b].day = today
                        /\ daily'[b].count = CountOn(b, today)
         /\ b \notin bs => daily'[b] = daily[b]
  BY CountersMoved
<1>4. ASSUME NEW b \in Buckets, NEW t \in Nat, DatedBy(t)' PROVE daily'[b].day <= t
  <2>1. \A x \in Buckets : daily'[x].day = IF x \in bs THEN today ELSE daily[x].day
    BY <1>3
  <2>2. DatedBy(t) /\ today <= t
    BY <1>4
  <2> QED
    BY <2>1, <2>2, DaysMove
<1>5. ASSUME NEW b \in Buckets, InOrder(b)' PROVE CountsTheDay(b)'
  <2>1. CASE b \in bs
    <3>1. /\ CountsTheDay(b) /\ daily[b].day <= today
          /\ CountOn(b, today) = Cardinality(AdmittedOn(b, today))
      BY <1>5, <2>1, DayFound
    <3>2. daily'[b].day = today /\ daily'[b].count = CountOn(b, today)
      BY <1>3, <2>1
    <3>3. ASSUME NEW d \in Admitted', b \in QuotaIn(d) PROVE seen'[d].today <= daily'[b].day
      <4>1. seen[d].today <= daily[b].day
        BY <1>1, <3>1, <3>3 DEF CountsTheDay
      <4>2. seen[d].today \in Nat /\ daily[b].day \in Nat
        BY <1>1, <3>3 DEF TypeOK, Admitted
      <4> QED
        BY <3>1, <3>2, <4>1, <4>2
    <3>4. \A d \in Nat : \E q \in Quotas : Cardinality(AdmittedOn(b, d)') <= q
      BY <1>2, <3>1 DEF CountsTheDay
    <3>5. AdmittedOn(b, daily[b].day)' = AdmittedOn(b, today)'
      BY <3>2 DEF AdmittedOn
    <3>6. daily'[b].count = Cardinality(AdmittedOn(b, today)')
      BY <1>2, <3>1, <3>2
    <3> QED
      BY <3>3, <3>4, <3>5, <3>6 DEF CountsTheDay, QuotaIn
  <2>2. CASE b \notin bs
    <3>1. daily'[b] = daily[b] /\ CountsTheDay(b)
      BY <1>3, <1>5, <2>2 DEF DayInv, InOrder, QuotaIn, NoteDate
    <3> QED
      BY <1>1, <1>2, <3>1 DEF CountsTheDay, QuotaIn
  <2> QED
    BY <2>1, <2>2
<1> QED
  BY <1>1, <1>4, <1>5 DEF DayInv

\* A call that has just been admitted or denied has used its date.
LEMMA UsesDate ==
    ASSUME TypeOK, NEW c \in Calls, pc[c] = "timed", seen' = seen, UNCHANGED alerts,
           NEW p \in {"held", "denied"}, pc' = [pc EXCEPT ![c] = p]
    PROVE  \A t \in Nat : DatedBy(t)' => DatedBy(t) /\ seen[c].today <= t
BY DEF DatedBy, Through, TypeOK, alerts

LEMMA DenyDays ==
    ASSUME TypeOK, DayInv, NEW c \in Calls, pc[c] = "timed", Deny(c),
           NoteDate(c, seen[c].today),
           NEW bs \in SUBSET QuotaIn(c), daily' = DailyRead(bs, seen[c].today)
    PROVE  DayInv'
<1>1. pc' = [pc EXCEPT ![c] = "denied"] /\ seen' = seen /\ UNCHANGED alerts
  BY DEF Deny
<1>2. \A d \in Calls : d \in Admitted' <=> d \in Admitted
  BY <1>1 DEF Admitted, TypeOK
<1>3. seen[c].today \in Nat /\ \A t \in Nat : DatedBy(t)' => DatedBy(t) /\ seen[c].today <= t
  BY <1>1, UsesDate DEF TypeOK
<1> QED
  BY <1>1, <1>2, <1>3, ReadDays

LEMMA AlertDays ==
    ASSUME TypeOK, DayInv, NEW c \in Calls, AlertRead(c)
    PROVE  DayInv'
<1>1. PICK quota \in [AlertBuckets[c] -> Quotas] :
         daily' = DailyRead(Limited(AlertBuckets[c], quota), asked[c])
  BY DEF AlertRead
<1>2. Limited(AlertBuckets[c], quota) \in SUBSET QuotaIn(c)
  BY QuotaBucketsOfACall DEF Limited
<1>3. /\ alert[c] = "dated" /\ alert' = [alert EXCEPT ![c] = "over"]
      /\ NoteDate(c, asked[c]) /\ UNCHANGED <<pc, seen, asked>>
  BY DEF AlertRead
<1>4. \A d \in Calls : d \in Admitted' <=> d \in Admitted
  BY <1>3 DEF Admitted
<1>5. asked[c] \in Nat /\ \A t \in Nat : DatedBy(t)' => DatedBy(t) /\ asked[c] <= t
  BY <1>3 DEF DatedBy, Through, TypeOK
<1> QED
  BY <1>1, <1>2, <1>3, <1>4, <1>5, ReadDays

LEMMA AdmitDays ==
    ASSUME 0 \notin Quotas, TypeOK, DayInv, NEW c \in Calls, pc[c] = "timed",
           NoteDate(c, seen[c].today),
           NEW conc, NEW rpm, NEW quota \in [QuotaIn(c) -> Quotas],
           Admit(c, conc, rpm, quota)
    PROVE  DayInv'
<1> DEFINE today == seen[c].today
<1>1. /\ pc' = [pc EXCEPT ![c] = "held"] /\ seen' = seen /\ UNCHANGED alerts
      /\ daily' = DailyCounted(QuotaIn(c), today)
      /\ QuotaStop(c, quota) > Len(QuotaBuckets[c])
  BY DEF Admit, QuotaIn
<1>2. Admitted' = Admitted \cup {c}
  BY <1>1 DEF Admitted, TypeOK
<1>3. IsFiniteSet(Admitted')
  BY <1>2, FS_AddElement DEF DayInv
<1>4. \A b \in Buckets :
         /\ b \in QuotaIn(c) => /\ daily'[b].day = today
                                /\ daily'[b].count = CountOn(b, today) + 1
         /\ b \notin QuotaIn(c) => daily'[b] = daily[b]
  BY <1>1, CountersMoved
<1>5. ASSUME NEW b \in Buckets, NEW t \in Nat, DatedBy(t)' PROVE daily'[b].day <= t
  <2>1. \A x \in Buckets : daily'[x].day = IF x \in QuotaIn(c) THEN seen[c].today ELSE daily[x].day
    BY <1>4
  <2>2. DatedBy(t) /\ today <= t /\ today \in Nat
    BY <1>1, <1>5, UsesDate DEF TypeOK
  <2> QED
    BY <2>1, <2>2, DaysMove
<1>6. ASSUME NEW b \in Buckets, NEW d
      PROVE  AdmittedOn(b, d)' = IF b \in QuotaIn(c) /\ d = today
                                   THEN AdmittedOn(b, d) \cup {c} ELSE AdmittedOn(b, d)
  BY <1>1 DEF AdmittedOn, QuotaIn, TypeOK
<1>7. ASSUME NEW b \in QuotaIn(c)
      PROVE  quota[b] \in Quotas /\ quota[b] \in Nat /\ CountOn(b, today) < quota[b]
  <2> DEFINE full == {x \in DOMAIN quota : quota[x] > 0 /\ CountOn(x, today) >= quota[x]}
  <2>1. FirstFailing(QuotaBuckets[c], full) > Len(QuotaBuckets[c])
    BY <1>1 DEF QuotaStop
  <2>2. QuotaBuckets[c] \in Seq(Buckets) /\ b \in Buckets
    BY <1>7, QuotaBucketsOfACall
  <2> HIDE DEF full
  <2>3. b \notin full
    BY <1>7, <2>1, <2>2, NoneFailing DEF QuotaIn
  <2>4. quota[b] \in Quotas /\ quota[b] \in Nat /\ quota[b] # 0
    BY <1>7, LimiterAssumption DEF LimiterAssumption
  <2>5. ~(CountOn(b, today) >= quota[b])
    BY <1>7, <2>3, <2>4 DEF full
  <2>6. CountOn(b, today) \in Nat
    BY <2>2 DEF CountOn, TypeOK
  <2> HIDE DEF today
  <2> QED
    BY <2>4, <2>5, <2>6
<1>8. ASSUME NEW b \in Buckets, InOrder(b)' PROVE CountsTheDay(b)'
  <2>1. CASE b \in QuotaIn(c)
    <3>1. /\ CountsTheDay(b) /\ daily[b].day <= today
          /\ CountOn(b, today) = Cardinality(AdmittedOn(b, today))
      BY <1>8, <2>1, DayFound DEF TypeOK
    <3>2. daily'[b].day = today /\ daily'[b].count = CountOn(b, today) + 1
      BY <1>4, <2>1
    <3>3. c \notin AdmittedOn(b, today)
      BY DEF AdmittedOn
    <3>4. Cardinality(AdmittedOn(b, today) \cup {c}) = Cardinality(AdmittedOn(b, today)) + 1
      BY <3>3, AdmittedCounted, FS_AddElement
    <3> PICK n : n = today
      OBVIOUS
    <3>5. AdmittedOn(b, daily[b].day)' = AdmittedOn(b, n)'
      BY <3>2 DEF AdmittedOn
    <3>6. daily'[b].count = Cardinality(AdmittedOn(b, n)')
      <4>1. AdmittedOn(b, n)' = AdmittedOn(b, today) \cup {c}
        BY <1>6, <2>1
      <4> QED
        BY <3>1, <3>2, <3>4, <4>1
    <3>7. ASSUME NEW d \in Admitted', b \in QuotaIn(d) PROVE seen'[d].today <= daily'[b].day
      <4>1. CASE d = c
        BY <1>1, <3>2, <4>1 DEF TypeOK
      <4>2. CASE d # c
        <5>1. d \in Admitted
          BY <1>2, <3>7, <4>2
        <5>2. seen[d].today <= daily[b].day
          BY <3>1, <3>7, <5>1 DEF CountsTheDay
        <5>3. seen[d].today \in Nat /\ today \in Nat /\ daily[b].day \in Nat
          BY <5>1 DEF TypeOK, Admitted
        <5> QED
          BY <1>1, <3>1, <3>2, <5>2, <5>3
      <4> QED
        BY <4>1, <4>2
    <3>8. ASSUME NEW d \in Nat PROVE \E q \in Quotas : Cardinality(AdmittedOn(b, d)') <= q
      <4>1. CASE d = today
        <5>1. Cardinality(AdmittedOn(b, d)') = CountOn(b, today) + 1
          BY <1>6, <2>1, <3>1, <3>4, <4>1
        <5>2. quota[b] \in Quotas /\ quota[b] \in Nat /\ CountOn(b, today) < quota[b]
          BY <1>7, <2>1
        <5>3. CountOn(b, today) \in Nat
          BY <3>1, AdmittedCounted
        <5> HIDE DEF today
        <5>4. Cardinality(AdmittedOn(b, d)') <= quota[b]
          BY <5>1, <5>2, <5>3
        <5> QED
          BY <5>2, <5>4
      <4>2. CASE d # today
        BY <1>6, <3>1, <4>2 DEF CountsTheDay
      <4> QED
        BY <4>1, <4>2
    <3> QED
      BY <3>5, <3>6, <3>7, <3>8 DEF CountsTheDay, QuotaIn
  <2>2. CASE b \notin QuotaIn(c)
    <3>1. daily'[b] = daily[b] /\ CountsTheDay(b)
      BY <1>4, <1>8, <2>2 DEF DayInv, InOrder, QuotaIn, NoteDate
    <3>2. \A d : AdmittedOn(b, d)' = AdmittedOn(b, d)
      BY <1>6, <2>2
    <3>3. \A d \in Admitted' : b \in QuotaIn(d) => d \in Admitted
      BY <1>2, <2>2
    <3> QED
      BY <1>1, <3>1, <3>2, <3>3 DEF CountsTheDay, QuotaIn
  <2> QED
    BY <2>1, <2>2
<1> QED
  BY <1>3, <1>5, <1>8 DEF DayInv

LEMMA NextDayInv ==
    ASSUME 0 \notin Quotas
    PROVE  TypeOK /\ DayInv /\ [Next]_vars => DayInv'
<1> SUFFICES ASSUME TypeOK, DayInv, [Next]_vars PROVE DayInv'
  OBVIOUS
<1>1. CASE Tick \/ Midnight \/ UNCHANGED vars
  <2>1. UNCHANGED <<daily, behind, pc, seen, alerts>>
    BY <1>1 DEF Tick, Midnight, vars, tables, ghosts
  <2> QED
    BY <2>1, DaysRest DEF Through, Admitted, alerts
<1>2. ASSUME NEW c \in Calls, ReadClock(c) PROVE DayInv'
  <2>1. UNCHANGED <<daily, behind, alerts>>
    BY <1>2 DEF ReadClock, tables, ghosts
  <2>2. \A d \in Calls : (Through(d)' <=> Through(d)) /\ (d \in Admitted' <=> d \in Admitted)
    BY <1>2 DEF ReadClock, Through, Admitted, TypeOK
  <2>3. \A d \in Calls : Through(d) => seen'[d] = seen[d]
    BY <1>2 DEF ReadClock, Through, TypeOK
  <2> QED
    BY <2>1, <2>2, <2>3, DaysRest DEF alerts
<1>3. ASSUME NEW c \in Calls, Release(c) PROVE DayInv'
  <2>1. UNCHANGED <<daily, behind, seen, alerts>>
    BY <1>3 DEF Release, ghosts
  <2>2. \A d \in Calls : (Through(d)' <=> Through(d)) /\ (d \in Admitted' <=> d \in Admitted)
    BY <1>3 DEF Release, Through, Admitted, TypeOK
  <2> QED
    BY <2>1, <2>2, DaysRest DEF alerts
<1>4. ASSUME NEW c \in Calls, CheckAndAcquire(c) PROVE DayInv'
  <2>1. pc[c] = "timed" /\ NoteDate(c, seen[c].today)
    BY <1>4 DEF CheckAndAcquire
  <2>2. PICK conc \in [BucketsIn(RateBuckets[c]) -> ConcLimits],
             rpm \in [BucketsIn(RateBuckets[c]) -> RpmLimits],
             quota \in [QuotaIn(c) -> Quotas] :
             \/ DenyByQuota(c, quota)
             \/ DenyByRateOrConcurrency(c, conc, rpm, quota)
             \/ Admit(c, conc, rpm, quota)
    BY <1>4 DEF CheckAndAcquire, QuotaIn
  <2>3. CASE Admit(c, conc, rpm, quota)
    BY <2>1, <2>3, AdmitDays
  <2>4. CASE DenyByQuota(c, quota) \/ DenyByRateOrConcurrency(c, conc, rpm, quota)
    <3>1. Deny(c) /\ daily' = DailyRead(ReadQuotas(c, quota), seen[c].today)
      BY <2>4 DEF DenyByQuota, DenyByRateOrConcurrency
    <3>2. ReadQuotas(c, quota) \in SUBSET QuotaIn(c)
      BY QuotaBucketsOfACall
    <3> QED
      BY <2>1, <3>1, <3>2, DenyDays
  <2> QED
    BY <2>2, <2>3, <2>4
<1>5. ASSUME NEW c \in Calls, ReadAlertDate(c) PROVE DayInv'
  <2>1. UNCHANGED <<daily, behind, pc, seen>>
    BY <1>5 DEF ReadAlertDate, tables, ghosts
  <2>2. \A d \in Calls : alert[d] = "over" => alert'[d] = "over" /\ asked'[d] = asked[d]
    BY <1>5 DEF ReadAlertDate, TypeOK
  <2> QED
    BY <2>1, <2>2, DaysRest DEF Through, Admitted
<1> QED
  BY <1>1, <1>2, <1>3, <1>4, <1>5, AlertDays DEF Next

\* Where every bucket has a daily quota (0 would mean none), a bucket admits no
\* more requests on a day than the largest quota in use, unless a call of that
\* bucket, to be admitted or in its alert check, read the date before midnight and
\* got the lock after one that read it later (_daily_get, check_and_acquire and
\* quota_usage_pct, app/auth/rate_limit.py).
THEOREM DailyQuotasHold ==
    ASSUME Quotas # {}, 0 \notin Quotas
    PROVE  Spec => []DailyQuotaHeld
<1>1. Init => DayInv
  BY InitDayInv
<1>2. TypeOK /\ DayInv /\ [Next]_vars => DayInv'
  BY NextDayInv
<1>3. DayInv /\ TypeOK => DailyQuotaHeld
  <2> SUFFICES ASSUME DayInv, TypeOK PROVE DailyQuotaHeld
    OBVIOUS
  <2>1. 0 .. day \subseteq Nat
    BY DEF TypeOK
  <2> QED
    BY <2>1 DEF DayInv, InOrder, CountsTheDay, DailyQuotaHeld, QuotaIn
<1> QED
  BY <1>1, <1>2, <1>3, LimiterTypeCorrect, PTL DEF Spec
=============================================================================
