--------------------------- MODULE MCRateLimiter ---------------------------
(* Three requests with limits on windows and concurrency, two of them of one  *)
(* key, and four with daily quotas only, two of each of two keys.  The keys   *)
(* belong to one user.                                                        *)
EXTENDS RateLimiter, TLC

CONSTANTS r1, r2, r3, d1, d2, d3, d4, ka, kb, u

MCLimited == {r1, r2, r3}
MCDaily == {d1, d2, d3, d4}
MCCalls == MCLimited \cup MCDaily
MCBuckets == {ka, kb, u}

KeyBucket(c) == IF c \in {r1, r2, d1, d2} THEN ka ELSE kb
MCQuotaBuckets == [c \in MCCalls |-> <<KeyBucket(c), u>>]

\* A bucket without a limit is like one that is not looked at.
MCRateBuckets == [c \in MCCalls |-> IF c \in MCLimited THEN <<KeyBucket(c), u>> ELSE <<>>]
MCAlertBuckets == [c \in MCCalls |-> IF c \in MCDaily THEN {KeyBucket(c), u} ELSE {}]

\* Bound: only one of the two groups runs, the second one at one time of day.
OneGroup ==
    \/ \A c \in MCDaily : pc[c] = "new"
    \/ time = 0 /\ \A c \in MCLimited : pc[c] = "new"

\* Two calls of one key are interchangeable.
SameKey == {p @@ q @@ s : p \in Permutations({r1, r2}), q \in Permutations({d1, d2}),
                          s \in Permutations({d3, d4})}
=============================================================================
