---------------------------- MODULE RateLimiter ----------------------------
(***************************************************************************)
(* The in-memory limiter of app/auth/rate_limit.py: daily counters,        *)
(* sliding request windows and concurrency counters per bucket (key, user, *)
(* team, model of a key).  A call reads the clock and the date, waits for  *)
(* the lock, is admitted or denied in one locked section, and later gives  *)
(* its concurrency back.  An admitted call also asks how much of its daily *)
(* quotas is used (the alert check of authorize), with a date read before  *)
(* the lock once more: a read moves a counter to the day it asks about.    *)
(*                                                                         *)
(* The limits of a bucket are arguments of each call: an administrator may *)
(* edit them between two calls, and the limits of a model bucket depend on *)
(* the service while the bucket does not.  0 stands for "no limit".        *)
(***************************************************************************)
EXTENDS Integers, FiniteSets, Sequences

CONSTANTS
    Calls,         \* authorised requests, each made once
    Buckets,
    RateBuckets,   \* key, user and model bucket of each call, in this order
    QuotaBuckets,  \* key, user, team and model bucket of each call
    AlertBuckets,  \* those the alert check asks about: all but the model's
    ConcLimits,    \* concurrency limits a call may carry
    RpmLimits,     \* window limits a call may carry
    Quotas,        \* daily quotas a call may carry
    Window,        \* the length of the sliding window (60 s in the code)
    MaxTime,       \* bound on the clock
    MaxDay         \* bound on the date

BucketsIn(s) == {s[i] : i \in DOMAIN s}

ASSUME LimiterAssumption ==
    /\ RateBuckets \in [Calls -> Seq(Buckets)]
    /\ QuotaBuckets \in [Calls -> Seq(Buckets)]
    /\ AlertBuckets \in [Calls -> SUBSET Buckets]
    /\ \A c \in Calls : AlertBuckets[c] \subseteq BucketsIn(QuotaBuckets[c])
    /\ ConcLimits \subseteq Nat /\ RpmLimits \subseteq Nat /\ Quotas \subseteq Nat
    /\ Window \in Nat

VARIABLES
    time, day,   \* what time.time() and _utc_today() return
    pc,          \* where each call is
    seen,        \* the clock and date a call read before taking the lock
    alert,       \* how far the alert check of each call is
    asked,       \* the date it read before taking the lock
    windows,     \* RateLimiter._windows
    inflight,    \* RateLimiter._inflight
    daily,       \* RateLimiter._daily
    counted,     \* the buckets in which a call was counted as in flight
    rated,       \* the buckets in whose window a call was recorded
    late,        \* the calls admitted or denied after one with a newer clock
    behind       \* the calls that came with a date older than one used before

clocks == <<time, day>>
tables == <<windows, inflight, daily>>
alerts == <<alert, asked>>
ghosts == <<counted, rated, late, behind>>
vars == <<clocks, pc, seen, alerts, tables, ghosts>>

Init ==
    /\ time = 0 /\ day = 0
    /\ pc = [c \in Calls |-> "new"]
    /\ seen = [c \in Calls |-> [now |-> 0, today |-> 0]]
    /\ alert = [c \in Calls |-> "none"]
    /\ asked = [c \in Calls |-> 0]
    /\ windows = [b \in Buckets |-> <<>>]
    /\ inflight = [b \in Buckets |-> 0]
    /\ daily = [b \in Buckets |-> [day |-> 0, count |-> 0]]
    /\ counted = [c \in Calls |-> {}]
    /\ rated = [c \in Calls |-> {}]
    /\ late = {}
    /\ behind = {}

Tick ==
    /\ time < MaxTime
    /\ time' = time + 1
    /\ UNCHANGED <<day, pc, seen, alerts, tables, ghosts>>

Midnight ==
    /\ day < MaxDay
    /\ day' = day + 1
    /\ UNCHANGED <<time, pc, seen, alerts, tables, ghosts>>

\* check_and_acquire() before the lock.
ReadClock(c) ==
    /\ pc[c] = "new"
    /\ pc' = [pc EXCEPT ![c] = "timed"]
    /\ seen' = [seen EXCEPT ![c] = [now |-> time, today |-> day]]
    /\ UNCHANGED <<clocks, alerts, tables, ghosts>>
------------------------------------------------------------------------------
\* The first position of s with a bucket that is full, Len(s) + 1 if none is.
FirstFailing(s, full) ==
    CHOOSE i \in 1 .. Len(s) + 1 :
        /\ i <= Len(s) => s[i] \in full
        /\ \A j \in 1 .. i - 1 : s[j] \notin full

\* _daily_get: a counter of another day reads as zero ...
CountOn(b, today) == IF daily[b].day = today THEN daily[b].count ELSE 0

\* ... and reading it moves the counter to the day asked for.
DailyRead(bs, today) ==
    [b \in Buckets |-> IF b \in bs THEN [day |-> today, count |-> CountOn(b, today)]
                                   ELSE daily[b]]

\* Mutant: the counter keeps its old day.
DailyCountedStale(bs, today) ==
    [b \in Buckets |-> IF b \in bs THEN [daily[b] EXCEPT !.count = CountOn(b, today) + 1]
                                   ELSE daily[b]]

DailyCounted(bs, today) ==
    [b \in Buckets |-> IF b \in bs THEN [day |-> today, count |-> CountOn(b, today) + 1]
                                   ELSE daily[b]]

\* _rpm_check drops the leading entries that left the window.
PruneAll(q, now) == <<>>   \* Mutant: fixed instead of sliding windows.

Prune(q, now) ==
    LET keep == CHOOSE i \in 1 .. Len(q) + 1 :
                    /\ i <= Len(q) => q[i] >= now - Window
                    /\ \A j \in 1 .. i - 1 : q[j] < now - Window
    IN SubSeq(q, keep, Len(q))

WindowsRead(bs, now) ==
    [b \in Buckets |-> IF b \in bs THEN Prune(windows[b], now) ELSE windows[b]]

\* A call with limits conc, rpm and quota (functions of its buckets).  The
\* checks run in this order and the first failure ends the call.
QuotaStop(c, quota) ==
    FirstFailing(QuotaBuckets[c],
        {b \in DOMAIN quota : quota[b] > 0 /\ CountOn(b, seen[c].today) >= quota[b]})

RateStop(c, rpm) ==
    FirstFailing(RateBuckets[c],
        {b \in DOMAIN rpm : rpm[b] > 0 /\ Len(Prune(windows[b], seen[c].now)) >= rpm[b]})

ConcStop(c, conc) ==
    FirstFailing(RateBuckets[c], {b \in DOMAIN conc : conc[b] > 0 /\ inflight[b] >= conc[b]})

Passed(s, stop) == {s[i] : i \in {j \in DOMAIN s : j <= stop}}
Limited(bs, lim) == {b \in bs : lim[b] > 0}

ReadQuotas(c, quota) == Limited(Passed(QuotaBuckets[c], QuotaStop(c, quota)), quota)
ReadRates(c, rpm) == Limited(Passed(RateBuckets[c], RateStop(c, rpm)), rpm)

\* Mutant: the call is counted before all checks have passed.
DenyCounted(c) ==
    /\ pc' = [pc EXCEPT ![c] = "denied"]
    /\ inflight' = [b \in Buckets |-> IF b \in BucketsIn(RateBuckets[c])
                                         THEN inflight[b] + 1 ELSE inflight[b]]
    /\ UNCHANGED <<clocks, seen, alerts, counted, rated>>

\* Mutant: a denied call gives back what it never took.
DenyReleased(c) ==
    /\ pc' = [pc EXCEPT ![c] = "denied"]
    /\ inflight' = [b \in Buckets |->
                       IF b \in BucketsIn(RateBuckets[c]) /\ inflight[b] > 0
                         THEN inflight[b] - 1 ELSE inflight[b]]
    /\ UNCHANGED <<clocks, seen, alerts, counted, rated>>

Deny(c) ==
    /\ pc' = [pc EXCEPT ![c] = "denied"]
    /\ UNCHANGED <<clocks, seen, alerts, inflight, counted, rated>>

DenyByQuota(c, quota) ==
    /\ QuotaStop(c, quota) <= Len(QuotaBuckets[c])
    /\ daily' = DailyRead(ReadQuotas(c, quota), seen[c].today)
    /\ UNCHANGED windows
    /\ Deny(c)

DenyByRateOrConcurrency(c, conc, rpm, quota) ==
    /\ QuotaStop(c, quota) > Len(QuotaBuckets[c])
    /\ \/ RateStop(c, rpm) <= Len(RateBuckets[c])
       \/ ConcStop(c, conc) <= Len(RateBuckets[c])
    /\ daily' = DailyRead(ReadQuotas(c, quota), seen[c].today)
    /\ windows' = WindowsRead(ReadRates(c, rpm), seen[c].now)
    /\ Deny(c)

Admit(c, conc, rpm, quota) ==
    LET now   == seen[c].now
        today == seen[c].today
        rate  == BucketsIn(RateBuckets[c])
        used  == WindowsRead(ReadRates(c, rpm), now)
    IN  /\ QuotaStop(c, quota) > Len(QuotaBuckets[c])
        /\ RateStop(c, rpm) > Len(RateBuckets[c])
        /\ ConcStop(c, conc) > Len(RateBuckets[c])
        /\ windows' = [b \in Buckets |-> IF b \in Limited(rate, rpm)
                                           THEN Append(used[b], now) ELSE used[b]]
        /\ inflight' = [b \in Buckets |-> IF b \in Limited(rate, conc)
                                            THEN inflight[b] + 1 ELSE inflight[b]]
        /\ daily' = DailyCounted(BucketsIn(QuotaBuckets[c]), today)
        /\ counted' = [counted EXCEPT ![c] = Limited(rate, conc)]
        /\ rated' = [rated EXCEPT ![c] = Limited(rate, rpm)]
        /\ pc' = [pc EXCEPT ![c] = "held"]
        /\ UNCHANGED <<clocks, seen, alerts>>

Through(c) == pc[c] \in {"held", "denied", "done"}

\* Another call read its clock later and has been through already.
Overtaken(c) == \E d \in Calls : Through(d) /\ seen[d].now > seen[c].now

\* The tables were read with a date beyond this one before.
Outdated(today) ==
    \E d \in Calls : \/ Through(d) /\ seen[d].today > today
                     \/ alert[d] = "over" /\ asked[d] > today

NoteDate(c, today) == behind' = IF Outdated(today) THEN behind \cup {c} ELSE behind

CheckAndAcquire(c) ==
    /\ pc[c] = "timed"
    /\ late' = IF Overtaken(c) THEN late \cup {c} ELSE late
    /\ NoteDate(c, seen[c].today)
    /\ \E conc \in [BucketsIn(RateBuckets[c]) -> ConcLimits],
          rpm \in [BucketsIn(RateBuckets[c]) -> RpmLimits],
          quota \in [BucketsIn(QuotaBuckets[c]) -> Quotas] :
          \/ DenyByQuota(c, quota)
          \/ DenyByRateOrConcurrency(c, conc, rpm, quota)
          \/ Admit(c, conc, rpm, quota)

\* authorize() goes on: a call that is answered at once gives its concurrency
\* back before the alert check, a stream after it, and a call that the pool or
\* the temperature refuses never gets there.
ReadAlertDate(c) ==
    /\ pc[c] \in {"held", "done"}
    /\ alert[c] = "none"
    /\ AlertBuckets[c] # {}
    /\ alert' = [alert EXCEPT ![c] = "dated"]
    /\ asked' = [asked EXCEPT ![c] = day]
    /\ UNCHANGED <<clocks, pc, seen, tables, ghosts>>

\* quota_usage_pct() under the lock: the counters of the buckets with a quota are
\* read, and so moved to the day asked for.
AlertRead(c) ==
    /\ alert[c] = "dated"
    /\ alert' = [alert EXCEPT ![c] = "over"]
    /\ NoteDate(c, asked[c])
    /\ \E quota \in [AlertBuckets[c] -> Quotas] :
          daily' = DailyRead(Limited(AlertBuckets[c], quota), asked[c])
    /\ UNCHANGED <<clocks, pc, seen, asked, windows, inflight, counted, rated, late>>

\* release(): every bucket of the call goes down if it can, counted or not.
Release(c) ==
    /\ pc[c] = "held" /\ alert[c] # "dated"
    /\ pc' = [pc EXCEPT ![c] = "done"]
    /\ inflight' = [b \in Buckets |->
                       IF b \in BucketsIn(RateBuckets[c]) /\ inflight[b] > 0
                         THEN inflight[b] - 1 ELSE inflight[b]]
    /\ UNCHANGED <<clocks, seen, alerts, windows, daily, ghosts>>

Next ==
    \/ Tick \/ Midnight
    \/ \E c \in Calls :
          ReadClock(c) \/ CheckAndAcquire(c) \/ ReadAlertDate(c) \/ AlertRead(c) \/ Release(c)

Spec == Init /\ [][Next]_vars
------------------------------------------------------------------------------
TypeOK ==
    /\ time \in Nat /\ day \in Nat
    /\ pc \in [Calls -> {"new", "timed", "held", "denied", "done"}]
    /\ seen \in [Calls -> [now : Nat, today : Nat]]
    /\ alert \in [Calls -> {"none", "dated", "over"}]
    /\ asked \in [Calls -> Nat]
    /\ windows \in [Buckets -> Seq(Nat)]
    /\ inflight \in [Buckets -> Nat]
    /\ daily \in [Buckets -> [day : Nat, count : Nat]]
    /\ counted \in [Calls -> SUBSET Buckets]
    /\ rated \in [Calls -> SUBSET Buckets]
    /\ late \in SUBSET Calls /\ behind \in SUBSET Calls

HeldIn(b) == {c \in Calls : pc[c] = "held" /\ b \in counted[c]}

\* A bucket never counts more requests than are in flight: whatever is denied
\* half way, and whatever limits come and go, no slot of a bucket is lost.
NoPhantomInflight ==
    \A b \in Buckets : IsFiniteSet(HeldIn(b)) /\ inflight[b] <= Cardinality(HeldIn(b))

\* "Concurrency held until explicit release" (test_concurrency_stream.py): a request
\* that was counted stays counted until its own release, in each bucket that had a
\* limit whenever a request was admitted to it.  Only a request that a bucket never
\* counted can take the count of another.
AlwaysLimited(b) ==
    \A c \in Calls :
        pc[c] \in {"held", "done"} /\ b \in BucketsIn(RateBuckets[c]) => b \in counted[c]

CountedUntilRelease ==
    \A b \in Buckets : AlwaysLimited(b) => inflight[b] >= Cardinality(HeldIn(b))

\* Requests recorded in the window that ends when c read the clock, in order.
RatedWith(b, c) ==
    {d \in Calls \ late : /\ b \in rated[d]
                   /\ seen[d].now \in seen[c].now - Window .. seen[c].now}

\* Of the requests admitted in the order of their clocks, no window of a bucket
\* holds more than the largest limit in use.  (A call overtaken between reading
\* the clock and taking the lock finds entries of its own window pruned.)
RateHeld ==
    \A b \in Buckets, c \in Calls \ late :
        b \in rated[c] => \E r \in RpmLimits : Cardinality(RatedWith(b, c)) <= r

AdmittedOn(b, d) ==
    {c \in Calls : /\ pc[c] \in {"held", "done"}
                   /\ b \in BucketsIn(QuotaBuckets[c])
                   /\ seen[c].today = d}

\* A bucket admits no more requests on a day than its quota, unless a call of that
\* bucket, to be admitted or in its alert check, read the date before midnight and
\* got the lock after one that read it later (_daily_get): it moves the counter
\* back to the old day, and the new day starts again at zero.
DailyQuotaHeld ==
    \A b \in Buckets, d \in 0 .. day :
        (\A c \in behind : b \notin BucketsIn(QuotaBuckets[c])) =>
            \E q \in Quotas : Cardinality(AdmittedOn(b, d)) <= q
=============================================================================
