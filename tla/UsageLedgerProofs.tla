------------------------- MODULE UsageLedgerProofs -------------------------
(***************************************************************************)
(* Theorems about the usage ledger, for any number of calls and forms, any *)
(* estimates, any budget and any number of days.                           *)
(***************************************************************************)
EXTENDS UsageLedger, SequenceTheorems, FiniteSetTheorems, TLAPS

LEMMA EventTyped ==
    ASSUME TypeOK, NEW c \in Calls
    PROVE  NewEvent(c) \in EventType
BY LedgerAssumption DEF TypeOK, NewEvent, EventType, ViewType, Allowed, Days

\* The rollup keeps its type when an event is counted.
LEMMA BumpTyped ==
    ASSUME TypeOK, NEW e \in EventType, bump_usage_daily(e)
    PROVE  rows' \in Seq(RowType)
<1>1. \A row \in RowType : Bumped(row, e) \in RowType
  BY DEF Bumped, RowType, EventType
<1>2. CASE RowsOf(now) = {}
  <2>1. [day |-> now, ok |-> 0, deny |-> 0, tokens |-> 0] \in RowType
    BY DEF TypeOK, RowType
  <2> QED
    BY <1>1, <1>2, <2>1 DEF bump_usage_daily, TypeOK
<1>3. CASE RowsOf(now) # {}
  <2>1. rows \in Seq(RowType)
    BY DEF TypeOK
  <2>2. rows' = [i \in 1..Len(rows) |-> IF i \in RowsOf(now) THEN Bumped(rows[i], e)
                                                           ELSE rows[i]]
    BY <1>3, <2>1 DEF bump_usage_daily
  <2>3. \A i \in 1..Len(rows) : rows[i] \in RowType
    BY <2>1
  <2>4. rows' \in [1..Len(rows) -> RowType]
    BY <1>1, <2>2, <2>3
  <2> QED
    BY <2>1, <2>4, SeqDef, LenProperties
<1> QED
  BY <1>2, <1>3

LEMMA AuditTyped ==
    ASSUME TypeOK, NEW h \in Sessions, NEW prev \in Hashes, AppendAudit(h, prev)
    PROVE  chain' \in Seq([by : Sessions, prev : Hashes, hash : Hashes])
<1>1. hash_audit_chain(prev, h) \in Hashes
  BY DEF hash_audit_chain, Hashes
<1> QED
  BY <1>1 DEF AppendAudit, write_audit, TypeOK

LEMMA LastHashTyped ==
    ASSUME TypeOK
    PROVE  LastHash(chain) \in Hashes
<1>1. CASE chain = << >>
  BY <1>1 DEF LastHash, GENESIS, Hashes
<1>2. CASE chain # << >>
  <2>1. Len(chain) \in 1..Len(chain)
    BY <1>2, EmptySeq, LenProperties DEF TypeOK
  <2>2. chain[Len(chain)] \in [by : Sessions, prev : Hashes, hash : Hashes]
    BY <2>1, ElementOfSeq DEF TypeOK
  <2> QED
    BY <1>2, <2>2 DEF LastHash
<1> QED
  BY <1>1, <1>2

\* A session that ends forgets what it has read.
LEMMA ForgetTyped ==
    ASSUME TypeOK, NEW s \in Sessions, Forget(s)
    PROVE  /\ seen' \in [Calls \cup Limits -> ViewType]
           /\ top' \in [Savers \cup Limits -> Hashes]
<1>1. Unseen \in ViewType /\ GENESIS \in Hashes
  BY DEF Unseen, ViewType, Results, GENESIS, Hashes
<1> QED
  BY <1>1 DEF Forget, TypeOK

LEMMA PoolTyped ==
    ASSUME TypeOK, NEW c \in Calls, ChargePool(c)
    PROVE  pool' \in [used : Nat, start : Nat] /\ spent' \in Nat
<1> DEFINE view == seen[c]
<1>1. /\ pool \in [used : Nat, start : Nat] /\ spent \in Nat
      /\ view.used \in Nat /\ view.stamp \in Nat
  BY DEF TypeOK, ViewType
<1>2. Cost(c) \in Nat
  BY LedgerAssumption DEF Cost
<1>3. UsedInWindow(view) \in Nat
  BY <1>1 DEF UsedInWindow
<1>4. Flushed(pool.used, view.used, UsedInWindow(view) + Cost(c)) \in Nat
  BY <1>1, <1>2, <1>3 DEF Flushed
<1>5. CASE view.result = "denied"
  BY <1>1, <1>5 DEF ChargePool
<1>6. CASE view.result # "denied"
  <2>1. pool' \in [used : Nat, start : Nat]
    BY <1>1, <1>4, <1>6 DEF ChargePool
  <2>2. spent' \in Nat
    BY <1>1, <1>2, <1>6 DEF ChargePool
  <2> QED
    BY <2>1, <2>2
<1> QED
  BY <1>5, <1>6
------------------------------------------------------------------------------
LEMMA TypeInit == Init => TypeOK
BY LedgerAssumption
DEF Init, TypeOK, Days, Phases, Unseen, Unread, ViewType, Results, GENESIS, Hashes

\* The steps of authorize().
LEMMA AuthorizeTyped ==
    ASSUME TypeOK, NEW c \in Calls, Decide(c) \/ Insert(c) \/ Record(c)
    PROVE  TypeOK'
<1> c \in Sessions
  BY DEF Sessions
<1>1. CASE Decide(c)
  BY <1>1 DEF Decide, Goto, TakeLoop, TypeOK, ViewType, Phases, Days, tables
<1>2. CASE Insert(c)
  BY <1>2 DEF Insert, Goto, TypeOK, Phases, tables
<1>3. CASE Record(c)
  <2>1. events' \in Seq(EventType) /\ rows' \in Seq(RowType)
    BY <1>3, EventTyped, BumpTyped DEF Record, TypeOK
  <2>2. pool' \in [used : Nat, start : Nat] /\ spent' \in Nat
    BY <1>3, PoolTyped DEF Record
  <2>3. /\ seen' \in [Calls \cup Limits -> ViewType]
        /\ top' \in [Savers \cup Limits -> Hashes]
    BY <1>3, ForgetTyped DEF Record
  <2>4. id' \in [Calls -> Nat]
    BY <1>3 DEF Record, NewId, TypeOK
  <2>5. pc' \in [Sessions -> Phases]
    BY <1>3 DEF Record, Goto, TypeOK, Phases
  <2>6. lock' \in Sessions \cup {Free} /\ loop' \in Sessions \cup {Free}
    BY <1>3 DEF Record, LeaveLoop, TypeOK
  <2>7. UNCHANGED <<now, patch, chain>>
    BY <1>3 DEF Record
  <2> QED
    BY <2>1, <2>2, <2>3, <2>4, <2>5, <2>6, <2>7 DEF TypeOK
<1> QED
  BY <1>1, <1>2, <1>3

LEMMA PatchTyped ==
    ASSUME TypeOK, NEW c \in Calls, Patch(c)
    PROVE  events' \in Seq(EventType) /\ rows' \in Seq(RowType)
<1>1. CASE RowsGone(c)
  BY <1>1 DEF Patch, TypeOK
<1>2. CASE ~RowsGone(c)
  <2>1. PICK tokens \in {patch.event, Actual[c]} :
          /\ events' = [events EXCEPT
                 ![id[c]].tokens = Flushed(@, patch.event, tokens),
                 ![id[c]].patchedBy = @ \cup {c}]
          /\ rows' = IF patch.row = None THEN rows
                     ELSE [rows EXCEPT ![patch.row].tokens =
                            Flushed(@, patch.tokens,
                                    Corrected(patch.tokens, patch.event, tokens))]
    BY <1>2 DEF Patch
  <2>2. tokens \in Nat /\ Corrected(patch.tokens, patch.event, tokens) \in Nat
    BY LedgerAssumption DEF TypeOK, Corrected
  <2>3. events' \in Seq(EventType)
    <3> DEFINE i == id[c]
               new == [events[i] EXCEPT
                         !.tokens = Flushed(@, patch.event, tokens),
                         !.patchedBy = @ \cup {c}]
    <3>1. CASE i \in 1..Len(events)
      <4>1. events[i] \in EventType
        BY <3>1 DEF TypeOK
      <4>2. new \in EventType
        BY <2>2, <4>1 DEF Flushed, EventType
      <4>3. events' = [events EXCEPT ![i] = new]
        BY <2>1, <3>1
      <4> QED
        BY <3>1, <4>2, <4>3, ExceptSeq DEF TypeOK
    <3>2. CASE i \notin 1..Len(events)
      <4>1. events' = events
        BY <2>1, <3>2 DEF TypeOK
      <4> QED
        BY <4>1 DEF TypeOK
    <3> QED
      BY <3>1, <3>2
  <2>4. rows' \in Seq(RowType)
    <3> DEFINE r == patch.row
               new == [rows[r] EXCEPT !.tokens =
                         Flushed(@, patch.tokens, Corrected(patch.tokens, patch.event, tokens))]
    <3>1. CASE r = None
      BY <2>1, <3>1 DEF TypeOK
    <3>2. CASE r # None
      <4>1. r \in 1..Len(rows)
        BY <1>2, <3>2 DEF RowsGone, TypeOK
      <4>2. rows[r] \in RowType
        BY <4>1 DEF TypeOK
      <4>3. new \in RowType
        BY <2>2, <4>2 DEF Flushed, RowType
      <4>4. rows' = [rows EXCEPT ![r] = new]
        BY <2>1, <3>2
      <4> QED
        BY <4>1, <4>3, <4>4, ExceptSeq DEF TypeOK
    <3> QED
      BY <3>1, <3>2
  <2> QED
    BY <2>3, <2>4
<1> QED
  BY <1>1, <1>2

\* The steps of finalize_usage_metering.
LEMMA FinalizeTyped ==
    ASSUME TypeOK, NEW c \in Calls, ReadEvent(c) \/ EventGone(c) \/ Patch(c)
    PROVE  TypeOK'
<1> c \in Sessions
  BY DEF Sessions
<1>1. CASE ReadEvent(c)
  <2> DEFINE e == events[id[c]]
  <2>1. RowOf(e.day) \in DOMAIN rows \cup {None}
    BY DEF RowOf, RowsOf
  <2>2. DOMAIN rows \subseteq Nat /\ \A i \in DOMAIN rows : rows[i].tokens \in Nat
    <3>1. rows \in Seq(RowType) /\ DOMAIN rows = 1..Len(rows)
      BY DEF TypeOK
    <3>2. \A i \in DOMAIN rows : rows[i] \in RowType
      BY <3>1, ElementOfSeq
    <3> QED
      BY <3>1, <3>2 DEF RowType
  <2>3. e \in EventType
    BY <1>1, ElementOfSeq DEF ReadEvent, TypeOK
  <2>4. patch' \in [event : Nat, row : Nat \cup {None}, tokens : Nat]
    BY <1>1, <2>1, <2>2, <2>3 DEF ReadEvent, EventType
  <2> QED
    BY <1>1, <2>4 DEF ReadEvent, Goto, TakeLoop, TypeOK, Phases, tables
<1>2. CASE EventGone(c)
  BY <1>2 DEF EventGone, Goto, TypeOK, Phases, tables
<1>3. CASE Patch(c)
  <2>1. events' \in Seq(EventType) /\ rows' \in Seq(RowType)
    BY <1>3, PatchTyped
  <2>2. patch' \in [event : Nat, row : Nat \cup {None}, tokens : Nat]
    BY <1>3 DEF Patch, Unread
  <2>3. pc' \in [Sessions -> Phases]
    BY <1>3 DEF Patch, Goto, TypeOK, Phases
  <2>4. loop' \in Sessions \cup {Free}
    BY <1>3 DEF Patch, LeaveLoop, TypeOK
  <2> QED
    BY <1>3, <2>1, <2>2, <2>3, <2>4 DEF Patch, TypeOK
<1> QED
  BY <1>1, <1>2, <1>3

\* The steps of the forms, and the clock.
LEMMA FormsTyped ==
    ASSUME TypeOK, NEW h \in Sessions,
           \/ h \in Savers /\ (StartSave(h) \/ CommitSetting(h))
           \/ h \in Limits /\ (LoadUser(h) \/ FormArrives(h) \/ CommitLimits(h))
           \/ h \in Wipers /\ Wipe(h)
    PROVE  TypeOK'
<1> USE DEF Goto
<1>1. CASE h \in Savers /\ StartSave(h)
  BY <1>1, LastHashTyped DEF StartSave, ReadHash, TypeOK, Phases, tables
<1>2. CASE h \in Savers /\ CommitSetting(h)
  <2>1. chain' \in Seq([by : Sessions, prev : Hashes, hash : Hashes])
    BY <1>2, AuditTyped DEF CommitSetting, TypeOK
  <2> QED
    BY <1>2, <2>1, ForgetTyped DEF CommitSetting, TypeOK, Phases
<1>3. CASE h \in Limits /\ LoadUser(h)
  BY <1>3 DEF LoadUser, TypeOK, Phases, ViewType, tables
<1>4. CASE h \in Limits /\ FormArrives(h)
  BY <1>4, LastHashTyped DEF FormArrives, TakeLoop, ReadHash, TypeOK, Phases, tables
<1>5. CASE h \in Limits /\ CommitLimits(h)
  <2>1. chain' \in Seq([by : Sessions, prev : Hashes, hash : Hashes])
    BY <1>5, AuditTyped DEF CommitLimits, TypeOK
  <2>2. pool' \in [used : Nat, start : Nat] /\ spent' \in Nat
    BY <1>5 DEF CommitLimits, Flushed, TypeOK, Days
  <2> QED
    BY <1>5, <2>1, <2>2, ForgetTyped DEF CommitLimits, LeaveLoop, TypeOK, Phases
<1>6. CASE h \in Wipers /\ Wipe(h)
  <2>1. chain' \in Seq([by : Sessions, prev : Hashes, hash : Hashes])
    BY <1>6, AuditTyped, LastHashTyped DEF Wipe
  <2> QED
    BY <1>6, <2>1 DEF Wipe, TypeOK, Phases
<1> QED
  BY <1>1, <1>2, <1>3, <1>4, <1>5, <1>6

LEMMA LockedTyped ==
    ASSUME TypeOK, NEW s \in Sessions, Locked(s)
    PROVE  TypeOK'
<1>1. patch' \in [event : Nat, row : Nat \cup {None}, tokens : Nat]
  BY DEF Locked, Unread, TypeOK
<1> QED
  BY <1>1, ForgetTyped DEF Locked, LeaveLoop, TypeOK, Phases, tables

LEMMA TypeStep == TypeOK /\ [Next]_vars => TypeOK'
<1> SUFFICES ASSUME TypeOK, [Next]_vars PROVE TypeOK'
  OBVIOUS
<1>1. CASE Tick
  BY <1>1, LedgerAssumption DEF Tick, TypeOK, Days, tables
<1>2. CASE \E c \in Calls : \/ Decide(c) \/ Insert(c) \/ Record(c)
                            \/ ReadEvent(c) \/ EventGone(c) \/ Patch(c)
  BY <1>2, AuthorizeTyped, FinalizeTyped
<1>3. CASE \E h \in Savers : StartSave(h) \/ CommitSetting(h)
  BY <1>3, FormsTyped DEF Sessions
<1>4. CASE \E h \in Limits : LoadUser(h) \/ FormArrives(h) \/ CommitLimits(h)
  BY <1>4, FormsTyped DEF Sessions
<1>5. CASE \E h \in Wipers : Wipe(h)
  BY <1>5, FormsTyped DEF Sessions
<1>6. CASE \E s \in Sessions : Locked(s)
  BY <1>6, LockedTyped
<1>7. CASE UNCHANGED vars
  BY <1>7 DEF vars, tables, TypeOK
<1> QED
  BY <1>1, <1>2, <1>3, <1>4, <1>5, <1>6, <1>7 DEF Next

\* Type correctness of the ledger, its sessions and its locks.
THEOREM LedgerTypeCorrect == Spec => []TypeOK
<1> QED
  BY TypeInit, TypeStep, PTL DEF Spec
------------------------------------------------------------------------------
(* The audit chain.  A form of the event loop that has read the last hash  *)
(* owns the loop until it commits, so that only threads can add rows on    *)
(* top of what it read.                                                    *)

LoopOwned == \A h \in Limits : pc[h] = "saving" => loop = h

\* The row a form puts on `prev` now joins the chain, or follows a thread's.
Joins(prev) ==
    /\ prev = LastHash(chain) \/ (chain # << >> /\ chain[Len(chain)].by \in Threads)
    /\ chain = << >> => prev = GENESIS

ChainInv ==
    /\ LoopOwned
    /\ \A h \in Savers : chain = << >> => top[h] = GENESIS
    /\ \A h \in Limits : pc[h] = "saving" => Joins(top[h])
    /\ BreaksNeedThreads

\* What write_audit adds, in terms of the rows.
LEMMA AuditRow ==
    ASSUME TypeOK, NEW h \in Sessions, NEW prev \in Hashes, AppendAudit(h, prev)
    PROVE  /\ Len(chain') = Len(chain) + 1 /\ Len(chain) \in Nat /\ chain' # << >>
           /\ DOMAIN chain = 1..Len(chain) /\ DOMAIN chain' = 1..(Len(chain) + 1)
           /\ \A i \in 1..Len(chain) : chain'[i] = chain[i]
           /\ chain'[Len(chain) + 1].by = h /\ chain'[Len(chain) + 1].prev = prev
           /\ LastHash(chain) = HashBefore(chain', Len(chain) + 1)
           /\ chain = << >> <=> Len(chain) = 0
<1> DEFINE row == [by |-> h, prev |-> prev, hash |-> hash_audit_chain(prev, h)]
           n == Len(chain)
<1>1. chain \in Seq([by : Sessions, prev : Hashes, hash : Hashes])
  BY DEF TypeOK
<1>2. chain' = Append(chain, row)
  BY DEF AppendAudit, write_audit
<1>3. /\ n \in Nat /\ DOMAIN chain = 1..n
      /\ chain = << >> <=> n = 0
  BY <1>1, LenProperties, EmptySeq
<1>4. /\ Len(chain') = n + 1 /\ DOMAIN chain' = 1..(n + 1)
      /\ \A i \in 1..n : chain'[i] = chain[i]
      /\ chain'[n + 1] = row /\ chain' # << >>
  BY <1>1, <1>2
<1>5. LastHash(chain) = HashBefore(chain', n + 1)
  BY <1>3, <1>4 DEF LastHash, HashBefore
<1> QED
  BY <1>3, <1>4, <1>5

\* A row keeps the breaks where threads are.
LEMMA AuditKeepsBreaks ==
    ASSUME TypeOK, BreaksNeedThreads, NEW h \in Sessions, NEW prev \in Hashes,
           AppendAudit(h, prev), chain = << >> => prev = GENESIS,
           \/ prev = LastHash(chain)
           \/ h \notin Wipers /\ (h \in Threads \/ chain[Len(chain)].by \in Threads)
    PROVE  BreaksNeedThreads'
<1> DEFINE n == Len(chain)
<1> SUFFICES ASSUME NEW i \in Breaks(chain')
             PROVE  /\ chain'[i].by \notin Wipers /\ i > 1
                    /\ chain'[i].by \in Threads \/ chain'[i - 1].by \in Threads
  BY DEF BreaksNeedThreads, Threads
<1>1. /\ n \in Nat /\ DOMAIN chain = 1..n /\ DOMAIN chain' = 1..(n + 1)
      /\ \A j \in 1..n : chain'[j] = chain[j]
      /\ chain'[n + 1].by = h /\ chain'[n + 1].prev = prev
      /\ LastHash(chain) = HashBefore(chain', n + 1)
      /\ chain = << >> <=> n = 0
  BY AuditRow
<1>2. i \in 1..(n + 1) /\ chain'[i].prev # HashBefore(chain', i)
  BY <1>1 DEF Breaks
<1>3. CASE i \in 1..n
  <2>1. i = 1 \/ i - 1 \in 1..n
    BY <1>1, <1>3
  <2>2. HashBefore(chain', i) = HashBefore(chain, i)
    BY <1>1, <2>1 DEF HashBefore
  <2>3. i \in Breaks(chain)
    BY <1>1, <1>2, <1>3, <2>2 DEF Breaks
  <2> QED
    BY <1>1, <1>3, <2>1, <2>3 DEF BreaksNeedThreads
<1>4. CASE i = n + 1
  <2>1. prev # LastHash(chain)
    BY <1>1, <1>2, <1>4
  <2>2. n # 0
    BY <1>1, <2>1 DEF LastHash
  <2>3. n \in 1..n /\ (n + 1) - 1 = n
    BY <1>1, <2>2
  <2> QED
    BY <1>1, <1>4, <2>1, <2>2, <2>3
<1> QED
  BY <1>1, <1>2, <1>3, <1>4

LEMMA ChainInit == Init => ChainInv
<1> SUFFICES ASSUME Init PROVE ChainInv
  OBVIOUS
<1>1. \A h \in Limits : pc[h] # "saving"
  BY DEF Init, Sessions
<1>2. \A h \in Savers : top[h] = GENESIS
  BY DEF Init
<1>3. Breaks(chain) = {}
  BY DEF Init, Breaks
<1> QED
  BY <1>1, <1>2, <1>3 DEF ChainInv, LoopOwned, BreaksNeedThreads

\* The steps that neither write nor read the chain.
LEMMA ChainUntouched ==
    ASSUME ChainInv, UNCHANGED chain,
           \A h \in Limits : pc'[h] = "saving" =>
               pc[h] = "saving" /\ top'[h] = top[h] /\ (loop = h => loop' = h),
           \A h \in Savers : top'[h] \in {top[h], GENESIS}
    PROVE  ChainInv'
<1>1. LoopOwned'
  BY DEF ChainInv, LoopOwned
<1>2. \A h \in Limits : pc'[h] = "saving" => Joins(top[h])'
  BY DEF ChainInv, Joins, LastHash
<1>3. BreaksNeedThreads'
  BY DEF ChainInv, BreaksNeedThreads, Breaks, HashBefore
<1> QED
  BY <1>1, <1>2, <1>3 DEF ChainInv

\* What a call does to the loop leaves a saving form in possession of it.
LEMMA CallChainStep ==
    ASSUME TypeOK, ChainInv, NEW c \in Calls,
           \/ Decide(c) \/ Insert(c) \/ Record(c)
           \/ ReadEvent(c) \/ EventGone(c) \/ Patch(c)
    PROVE  ChainInv'
<1>1. /\ UNCHANGED <<chain, top>>
      /\ \A s \in Sessions : s # c => pc'[s] = pc[s]
      /\ loop' = loop \/ loop = Free \/ loop = c
  <2>1. CASE Decide(c)
    BY <2>1 DEF Decide, Goto, TakeLoop, tables, TypeOK
  <2>2. CASE Insert(c)
    BY <2>2 DEF Insert, Goto, tables, TypeOK
  <2>3. CASE Record(c)
    <3>1. top' = top
      BY <2>3, LedgerAssumption DEF Record, Forget, TypeOK
    <3> QED
      BY <2>3, <3>1 DEF Record, Goto, LeaveLoop, TypeOK
  <2>4. CASE ReadEvent(c)
    BY <2>4 DEF ReadEvent, Goto, TakeLoop, tables, TypeOK
  <2>5. CASE EventGone(c)
    BY <2>5 DEF EventGone, Goto, tables, TypeOK
  <2>6. CASE Patch(c)
    BY <2>6 DEF Patch, Goto, LeaveLoop, TypeOK
  <2> QED
    BY <2>1, <2>2, <2>3, <2>4, <2>5, <2>6
<1>2. \A h \in Limits : h # c /\ h # Free /\ h \in Sessions
  BY LedgerAssumption DEF Sessions
<1>3. \A h \in Limits : pc'[h] = "saving" => pc[h] = "saving" /\ (loop = h => loop' = h)
  BY <1>1, <1>2 DEF ChainInv, LoopOwned
<1> QED
  BY <1>1, <1>3, ChainUntouched

LEMMA LockedChainStep ==
    ASSUME TypeOK, ChainInv, NEW s \in Sessions, Locked(s)
    PROVE  ChainInv'
<1>1. /\ UNCHANGED chain
      /\ \A x \in Sessions : pc'[x] = IF x = s THEN "done" ELSE pc[x]
      /\ \A x \in Savers \cup Limits : top'[x] = IF x = s THEN GENESIS ELSE top[x]
      /\ loop' = loop \/ loop = s
  BY DEF Locked, Forget, LeaveLoop, TypeOK, tables
<1>2. \A h \in Limits : h \in Sessions
  BY DEF Sessions
<1> QED
  BY <1>1, <1>2, ChainUntouched

\* Reading the last hash.
LEMMA ReadHashStep ==
    ASSUME TypeOK, ChainInv, NEW h,
           \/ h \in Savers /\ StartSave(h)
           \/ h \in Limits /\ FormArrives(h)
    PROVE  ChainInv'
<1>1. /\ UNCHANGED chain
      /\ \A x \in Savers \cup Limits : top'[x] = IF x = h THEN LastHash(chain) ELSE top[x]
      /\ \A x \in Sessions : x # h => pc'[x] = pc[x]
      /\ h \in Limits => loop = Free /\ loop' = h
      /\ h \in Savers => loop' = loop
  BY LedgerAssumption DEF StartSave, FormArrives, TakeLoop, Goto, ReadHash, TypeOK, tables
<1>2. \A g \in Limits : g \in Sessions /\ g # Free /\ (h \in Savers => g # h)
  BY LedgerAssumption DEF Sessions
<1>3. LoopOwned'
  BY <1>1, <1>2 DEF ChainInv, LoopOwned
<1>4. Joins(LastHash(chain)) /\ (chain = << >> => LastHash(chain) = GENESIS)
  BY DEF Joins, LastHash
<1>5. \A g \in Limits : pc'[g] = "saving" => Joins(top'[g])
  BY <1>1, <1>2, <1>4 DEF ChainInv
<1>6. \A g \in Limits : Joins(top'[g]) => Joins(top[g])'
  BY <1>1 DEF Joins, LastHash
<1>7. BreaksNeedThreads'
  BY <1>1 DEF ChainInv, BreaksNeedThreads, Breaks, HashBefore
<1> QED
  BY <1>1, <1>3, <1>4, <1>5, <1>6, <1>7 DEF ChainInv

\* Writing a row: a form that is saving meanwhile stays on top of a thread's.
LEMMA AuditStep ==
    ASSUME TypeOK, ChainInv, NEW h \in Savers \cup Limits \cup Wipers,
           \/ h \in Savers /\ CommitSetting(h)
           \/ h \in Limits /\ CommitLimits(h)
           \/ h \in Wipers /\ Wipe(h)
    PROVE  ChainInv'
<1> DEFINE prev == IF h \in Wipers THEN LastHash(chain) ELSE top[h]
<1>0. h \in Sessions /\ prev \in Hashes
  BY LastHashTyped DEF Sessions, TypeOK
<1>1. /\ AppendAudit(h, prev)
      /\ \A x \in Sessions : pc'[x] = IF x = h THEN "done" ELSE pc[x]
      /\ \A x \in Savers \cup Limits : x # h => top'[x] = top[x]
      /\ loop' = loop \/ loop = h
  <2>1. CASE h \in Savers /\ CommitSetting(h)
    BY <2>1, LedgerAssumption DEF CommitSetting, Goto, Forget, TypeOK
  <2>2. CASE h \in Limits /\ CommitLimits(h)
    BY <2>2, LedgerAssumption DEF CommitLimits, Goto, LeaveLoop, Forget, TypeOK
  <2>3. CASE h \in Wipers /\ Wipe(h)
    BY <2>3 DEF Wipe, Goto, TypeOK
  <2> QED
    BY <2>1, <2>2, <2>3
<1>2. /\ chain' # << >> /\ chain'[Len(chain')].by = h
  BY <1>0, <1>1, AuditRow
<1>3. \A g \in Limits : pc'[g] = "saving" =>
        pc[g] = "saving" /\ g # h /\ top'[g] = top[g] /\ loop = g /\ loop' = g
  BY <1>1 DEF ChainInv, LoopOwned, Sessions
<1>4. \A g \in Limits : pc'[g] = "saving" => h \in Threads
  <2>1. h \in Limits => pc[h] = "saving"
    BY <1>1, LedgerAssumption DEF CommitLimits, CommitSetting, Wipe, Goto
  <2> QED
    BY <1>3, <2>1 DEF ChainInv, LoopOwned, Threads
<1>5. LoopOwned'
  BY <1>3 DEF LoopOwned
<1>6. \A g \in Limits : pc'[g] = "saving" => Joins(top[g])'
  BY <1>2, <1>3, <1>4 DEF Joins
<1>7. BreaksNeedThreads'
  <2>1. chain = << >> => prev = GENESIS
    <3>1. CASE h \in Limits
      BY <3>1, LedgerAssumption DEF ChainInv, Joins, CommitLimits, CommitSetting, Wipe, Goto
    <3>2. CASE h \in Savers \cup Wipers
      BY <3>2 DEF ChainInv, LastHash
    <3> QED
      BY <3>1, <3>2
  <2>2. \/ prev = LastHash(chain)
        \/ h \notin Wipers /\ (h \in Threads \/ chain[Len(chain)].by \in Threads)
    BY LedgerAssumption
    DEF ChainInv, Joins, Threads, CommitLimits, CommitSetting, Wipe, Goto
  <2> QED
    BY <1>0, <1>1, <2>1, <2>2, AuditKeepsBreaks DEF ChainInv
<1> QED
  BY <1>2, <1>5, <1>6, <1>7 DEF ChainInv

LEMMA ChainStep == TypeOK /\ ChainInv /\ [Next]_vars => ChainInv'
<1> SUFFICES ASSUME TypeOK, ChainInv, [Next]_vars PROVE ChainInv'
  OBVIOUS
<1>1. CASE Tick
  BY <1>1, ChainUntouched DEF Tick, tables
<1>2. CASE \E c \in Calls : \/ Decide(c) \/ Insert(c) \/ Record(c)
                            \/ ReadEvent(c) \/ EventGone(c) \/ Patch(c)
  BY <1>2, CallChainStep
<1>3. CASE \E h \in Savers : StartSave(h) \/ CommitSetting(h)
  BY <1>3, ReadHashStep, AuditStep
<1>4. CASE \E h \in Limits : LoadUser(h)
  <2>1. PICK h \in Limits : LoadUser(h)
    BY <1>4
  <2>2. UNCHANGED <<chain, top, loop>> /\ pc' = [pc EXCEPT ![h] = "awaitingForm"]
    BY <2>1 DEF LoadUser, Goto, tables
  <2>3. \A g \in Limits : pc'[g] = "saving" => pc[g] = "saving"
    BY <2>2 DEF TypeOK, Sessions
  <2> QED
    BY <2>2, <2>3, ChainUntouched
<1>5. CASE \E h \in Limits : FormArrives(h) \/ CommitLimits(h)
  BY <1>5, ReadHashStep, AuditStep
<1>6. CASE \E h \in Wipers : Wipe(h)
  BY <1>6, AuditStep
<1>7. CASE \E s \in Sessions : Locked(s)
  BY <1>7, LockedChainStep
<1>8. CASE UNCHANGED vars
  BY <1>8, ChainUntouched DEF vars, tables
<1> QED
  BY <1>1, <1>2, <1>3, <1>4, <1>5, <1>6, <1>7, <1>8 DEF Next

\* The audit chain breaks only where a writer beside the event loop took part,
\* and never at a handler that deletes before it writes its audit row.
THEOREM ChainBreaksNeedThreads == Spec => []BreaksNeedThreads
<1>1. Init => TypeOK /\ ChainInv
  BY TypeInit, ChainInit
<1>2. TypeOK /\ ChainInv /\ [Next]_vars => (TypeOK /\ ChainInv)'
  BY TypeStep, ChainStep
<1>3. ChainInv => BreaksNeedThreads
  BY DEF ChainInv
<1> QED
  BY <1>1, <1>2, <1>3, PTL DEF Spec
------------------------------------------------------------------------------
(* Event ids.  As long as nothing was deleted, the id a call was given is  *)
(* that of its own event.                                                  *)

IdsOwned == \A c \in Calls : id[c] # 0 => id[c] \in DOMAIN events /\ events[id[c]].by = c

EventsInv == Wiped \/ (PatchedByItsCall /\ IdsOwned)

LEMMA EventsInit == Init => EventsInv
BY DEF Init, EventsInv, PatchedByItsCall, IdsOwned

\* Rows of the audit log are never deleted, so a wipe is not forgotten.
LEMMA WipedStays ==
    ASSUME TypeOK, NEW h \in Sessions, NEW prev \in Hashes, AppendAudit(h, prev)
    PROVE  /\ Wiped => Wiped'
           /\ h \in Wipers => Wiped'
BY AuditRow DEF Wiped

LEMMA RecordEvents ==
    ASSUME TypeOK, PatchedByItsCall, IdsOwned, NEW c \in Calls, Record(c)
    PROVE  PatchedByItsCall' /\ IdsOwned'
<1> DEFINE n == Len(events)
<1>1. /\ n \in Nat /\ DOMAIN events = 1..n /\ DOMAIN events' = 1..(n + 1)
      /\ \A i \in 1..n : events'[i] = events[i]
      /\ events'[n + 1] = NewEvent(c)
  BY EventTyped DEF Record, TypeOK
<1>2. NewEvent(c).by = c /\ NewEvent(c).patchedBy = {}
  BY DEF NewEvent
<1>3. \A d \in Calls : id'[d] = IF d = c THEN n + 1 ELSE id[d]
  BY DEF Record, NewId, TypeOK
<1>4. PatchedByItsCall'
  BY <1>1, <1>2 DEF PatchedByItsCall
<1>5. IdsOwned'
  BY <1>1, <1>2, <1>3 DEF IdsOwned
<1> QED
  BY <1>4, <1>5

LEMMA PatchEvents ==
    ASSUME TypeOK, PatchedByItsCall, IdsOwned, NEW c \in Calls, Patch(c)
    PROVE  PatchedByItsCall' /\ IdsOwned'
<1>0. id' = id
  BY DEF Patch
<1>1. CASE RowsGone(c)
  BY <1>0, <1>1 DEF Patch, PatchedByItsCall, IdsOwned
<1>2. CASE ~RowsGone(c)
  <2> DEFINE k == id[c]
  <2>1. k \in DOMAIN events /\ k # 0 /\ DOMAIN events \subseteq Nat
    BY <1>2 DEF RowsGone, TypeOK
  <2>2. events[k].by = c
    BY <2>1 DEF IdsOwned
  <2>3. PICK tokens \in {patch.event, Actual[c]} :
          events' = [events EXCEPT ![k].tokens = Flushed(@, patch.event, tokens),
                                   ![k].patchedBy = @ \cup {c}]
    BY <1>2 DEF Patch
  <2>4. events[k] \in EventType
    BY <2>1, ElementOfSeq DEF TypeOK
  <2>5. /\ DOMAIN events' = DOMAIN events
        /\ \A i \in DOMAIN events : i # k => events'[i] = events[i]
        /\ events'[k].by = c /\ events'[k].patchedBy = events[k].patchedBy \cup {c}
    BY <2>1, <2>2, <2>3, <2>4 DEF EventType
  <2>6. PatchedByItsCall'
    BY <2>1, <2>2, <2>5 DEF PatchedByItsCall
  <2>7. IdsOwned'
    BY <1>0, <2>1, <2>2, <2>5 DEF IdsOwned
  <2> QED
    BY <2>6, <2>7
<1> QED
  BY <1>1, <1>2

\* The steps that leave the events and the ids alone.
LEMMA EventsUntouched ==
    ASSUME EventsInv, UNCHANGED <<events, id>>, Wiped => Wiped'
    PROVE  EventsInv'
BY DEF EventsInv, PatchedByItsCall, IdsOwned

LEMMA EventsStep == TypeOK /\ EventsInv /\ [Next]_vars => EventsInv'
<1> SUFFICES ASSUME TypeOK, EventsInv, [Next]_vars PROVE EventsInv'
  OBVIOUS
<1>0. UNCHANGED chain => (Wiped => Wiped')
  BY DEF Wiped
<1>1. CASE Tick \/ UNCHANGED vars
  BY <1>0, <1>1, EventsUntouched DEF Tick, vars, tables
<1>2. CASE \E c \in Calls : Decide(c) \/ Insert(c) \/ ReadEvent(c) \/ EventGone(c)
  BY <1>0, <1>2, EventsUntouched DEF Decide, Insert, ReadEvent, EventGone, tables
<1>3. CASE \E c \in Calls : Record(c) \/ Patch(c)
  <2>1. UNCHANGED chain
    BY <1>3 DEF Record, Patch
  <2> QED
    BY <1>0, <1>3, <2>1, RecordEvents, PatchEvents DEF EventsInv
<1>4. CASE \E h \in Sessions : \/ h \in Savers /\ StartSave(h)
                               \/ h \in Limits /\ (LoadUser(h) \/ FormArrives(h))
                               \/ Locked(h)
  BY <1>0, <1>4, EventsUntouched
  DEF StartSave, LoadUser, FormArrives, ReadHash, Locked, tables
<1>5. CASE \E h \in Sessions : h \in Savers /\ CommitSetting(h)
  <2>1. PICK h \in Savers : CommitSetting(h) /\ h \in Sessions
    BY <1>5
  <2>2. AppendAudit(h, top[h]) /\ top[h] \in Hashes /\ UNCHANGED <<events, id>>
    BY <2>1 DEF CommitSetting, TypeOK
  <2> QED
    BY <2>1, <2>2, WipedStays, EventsUntouched
<1>6. CASE \E h \in Sessions : h \in Limits /\ CommitLimits(h)
  <2>1. PICK h \in Limits : CommitLimits(h) /\ h \in Sessions
    BY <1>6
  <2>2. AppendAudit(h, top[h]) /\ top[h] \in Hashes /\ UNCHANGED <<events, id>>
    BY <2>1 DEF CommitLimits, TypeOK
  <2> QED
    BY <2>1, <2>2, WipedStays, EventsUntouched
<1>7. CASE \E h \in Wipers : Wipe(h)
  <2>1. PICK h \in Wipers : Wipe(h) /\ h \in Sessions
    BY <1>7 DEF Sessions
  <2>2. AppendAudit(h, LastHash(chain)) /\ LastHash(chain) \in Hashes
    BY <2>1, LastHashTyped DEF Wipe
  <2> QED
    BY <2>1, <2>2, WipedStays DEF EventsInv
<1> QED
  BY <1>1, <1>2, <1>3, <1>4, <1>5, <1>6, <1>7 DEF Next, Sessions

\* Unless usage was deleted, a call's measurements end up in its own event.
THEOREM PatchesAreOwn == Spec => []PatchedAfterWipeOnly
<1>1. Init => TypeOK /\ EventsInv
  BY TypeInit, EventsInit
<1>2. TypeOK /\ EventsInv /\ [Next]_vars => (TypeOK /\ EventsInv)'
  BY TypeStep, EventsStep
<1>3. EventsInv => PatchedAfterWipeOnly
  BY DEF EventsInv, PatchedAfterWipeOnly
<1> QED
  BY <1>1, <1>2, <1>3, PTL DEF Spec
------------------------------------------------------------------------------
(* The token pool.  Until an early call is recorded, what a call of the    *)
(* event loop has read of the pool is still so when it charges it.         *)

Fresh(c) ==
    /\ loop = c
    /\ seen[c].used = pool.used /\ seen[c].start = pool.start
    /\ seen[c].result \in {"overheated", "ok"} => Affordable(c, seen[c])

PoolInv ==
    /\ spent <= pool.used /\ pool.used <= PoolLimit
    /\ \A c \in Calls \ Early : pc[c] \in {"inserting", "recording"} => Fresh(c)
    /\ LoopOwned

BudgetInv == LoopOwned /\ (ThreadRecorded \/ PoolInv)

LEMMA BudgetInit == Init => BudgetInv
BY LedgerAssumption DEF Init, BudgetInv, PoolInv, LoopOwned, Sessions

\* A recorded early call stays recorded.
LEMMA RecordedStays ==
    ASSUME TypeOK, [Next]_vars, ThreadRecorded
    PROVE  ThreadRecorded'
<1>1. \A c \in Calls : id[c] # 0 => id'[c] # 0
  <2>1. CASE \E c \in Calls : Record(c)
    <3>1. NewId # 0
      BY DEF NewId, TypeOK
    <3> QED
      BY <2>1, <3>1 DEF Record, TypeOK
  <2>2. CASE id' = id
    BY <2>2
  <2> QED
    BY <2>1, <2>2
    DEF Next, vars, tables, Tick, Decide, Insert, ReadEvent, EventGone, Patch, StartSave,
        CommitSetting, LoadUser, FormArrives, ReadHash, CommitLimits, Wipe, Locked
<1> QED
  BY <1>1, LedgerAssumption DEF ThreadRecorded

\* The charge of a call that has read the pool as it is.
LEMMA FreshCharge ==
    ASSUME TypeOK, NEW c \in Calls, Fresh(c), ChargePool(c),
           spent <= pool.used, pool.used <= PoolLimit
    PROVE  spent' <= pool'.used /\ pool'.used <= PoolLimit
<1> DEFINE view == seen[c]
<1>1. /\ pool.used \in Nat /\ pool.start \in Nat /\ spent \in Nat /\ PoolLimit \in Nat
      /\ view.used = pool.used /\ view.start = pool.start /\ view.stamp \in Nat
      /\ Estimate[c] \in Nat
  BY LedgerAssumption DEF TypeOK, ViewType, Fresh
<1>2. CASE view.result = "denied"
  BY <1>2 DEF ChargePool
<1>3. CASE view.result # "denied"
  <2>1. /\ Cost(c) \in Nat
        /\ UsedInWindow(view) \in Nat /\ UsedInWindow(view) <= pool.used
        /\ UsedInWindow(view) + Cost(c) <= PoolLimit
    BY <1>1 DEF Cost, UsedInWindow, Fresh, Affordable
  <2>2. pool'.used = UsedInWindow(view) + Cost(c)
    BY <1>1, <1>3 DEF ChargePool, Flushed
  <2>3. spent' <= pool'.used
    <3>1. CASE WindowOver(view)
      <4>1. pool'.start # pool.start
        BY <1>1, <1>3, <3>1 DEF ChargePool, WindowOver
      <4> QED
        BY <1>3, <2>1, <2>2, <4>1 DEF ChargePool
    <3>2. CASE ~WindowOver(view)
      BY <1>1, <1>3, <2>1, <2>2, <3>2 DEF ChargePool, UsedInWindow
    <3> QED
      BY <3>1, <3>2
  <2> QED
    BY <2>1, <2>2, <2>3
<1> QED
  BY <1>2, <1>3

\* What a step leaves of the other sessions' freshness.
LEMMA PoolUntouched ==
    ASSUME PoolInv, UNCHANGED <<pool, spent>>, LoopOwned',
           \A c \in Calls \ Early : pc'[c] \in {"inserting", "recording"} =>
               \/ Fresh(c)'
               \/ /\ pc[c] \in {"inserting", "recording"}
                  /\ seen'[c] = seen[c] /\ loop' = loop
    PROVE  PoolInv'
BY DEF PoolInv, Fresh, Affordable, UsedInWindow, WindowOver

LEMMA AuthorizeBudget ==
    ASSUME TypeOK, PoolInv, LoopOwned', NEW c \in Calls, Decide(c) \/ Insert(c) \/ Record(c)
    PROVE  ThreadRecorded' \/ PoolInv'
<1>0. c \in Sessions /\ c # Free
  BY LedgerAssumption DEF Sessions
<1>1. CASE Decide(c)
  <2>1. \A d \in Calls : d # c => pc'[d] = pc[d] /\ seen'[d] = seen[d]
    BY <1>0, <1>1 DEF Decide, Goto, TypeOK
  <2>2. c \in Early => loop' = loop
    BY <1>1 DEF Decide
  <2>3. c \notin Early => loop = Free /\ Fresh(c)'
    BY <1>1 DEF Decide, TakeLoop, Fresh, PossibleResults, Affordable, UsedInWindow,
                WindowOver, TypeOK, tables
  <2>4. \A d \in Calls \ Early : pc[d] \in {"inserting", "recording"} => loop # Free
    BY LedgerAssumption DEF PoolInv, Fresh, Sessions
  <2>5. UNCHANGED <<pool, spent>>
    BY <1>1 DEF Decide, tables
  <2> QED
    BY <2>1, <2>2, <2>3, <2>4, <2>5, PoolUntouched
<1>2. CASE Insert(c)
  <2>1. \A d \in Calls : pc'[d] \in {"inserting", "recording"} =>
          pc[d] \in {"inserting", "recording"}
    BY <1>0, <1>2 DEF Insert, Goto, TypeOK, Sessions
  <2>2. UNCHANGED <<pool, spent, seen, loop>>
    BY <1>2 DEF Insert, tables
  <2> QED
    BY <2>1, <2>2, PoolUntouched
<1>3. CASE Record(c)
  <2>1. CASE c \in Early
    <3>1. id'[c] # 0
      BY <1>3 DEF Record, NewId, TypeOK
    <3> QED
      BY <2>1, <3>1 DEF ThreadRecorded
  <2>2. CASE c \notin Early
    <3>1. pc[c] = "recording" /\ Fresh(c)
      BY <1>3, <2>2 DEF Record, Goto, PoolInv
    <3>2. spent' <= pool'.used /\ pool'.used <= PoolLimit
      BY <1>3, <3>1, FreshCharge DEF Record, PoolInv
    <3>3. \A d \in Calls \ Early : pc'[d] \notin {"inserting", "recording"}
      BY <1>0, <1>3, <2>2, <3>1 DEF Record, Goto, TypeOK, PoolInv, Fresh, Sessions
    <3> QED
      BY <3>2, <3>3 DEF PoolInv
  <2> QED
    BY <2>1, <2>2
<1> QED
  BY <1>1, <1>2, <1>3

\* No call of the loop is being authorized while another session has the loop.
LEMMA FinalizeBudget ==
    ASSUME TypeOK, PoolInv, LoopOwned', NEW c \in Calls,
           ReadEvent(c) \/ EventGone(c) \/ Patch(c)
    PROVE  PoolInv'
<1>1. /\ UNCHANGED <<pool, spent, seen>>
      /\ pc[c] \notin {"inserting", "recording"}
      /\ \A d \in Calls : pc'[d] \in {"inserting", "recording"} =>
            d # c /\ pc'[d] = pc[d]
      /\ loop' = loop \/ loop = Free \/ loop = c
  BY DEF ReadEvent, EventGone, Patch, Goto, TakeLoop, LeaveLoop, TypeOK, Sessions, tables
<1>2. \A d \in Calls : d # Free
  BY LedgerAssumption DEF Sessions
<1>3. \A d \in Calls \ Early : pc'[d] \in {"inserting", "recording"} => loop' = loop
  BY <1>1, <1>2 DEF PoolInv, Fresh
<1> QED
  BY <1>1, <1>3, PoolUntouched

\* A form of the loop commits only when no call of the loop is in between.
LEMMA FormsBudget ==
    ASSUME TypeOK, PoolInv, LoopOwned', NEW h \in Sessions,
           \/ h \in Savers /\ (StartSave(h) \/ CommitSetting(h))
           \/ h \in Limits /\ (LoadUser(h) \/ FormArrives(h) \/ CommitLimits(h))
           \/ h \in Wipers /\ Wipe(h)
    PROVE  PoolInv'
<1>0. h # Free /\ h \notin Calls /\ \A d \in Calls : d # Free
  BY LedgerAssumption DEF Sessions
<1>1. \A d \in Calls : pc'[d] = pc[d] /\ seen'[d] = seen[d]
  BY <1>0 DEF StartSave, CommitSetting, LoadUser, FormArrives, CommitLimits, Wipe,
              Goto, Forget, ReadHash, TypeOK, Sessions
<1>2. CASE h \in Limits /\ CommitLimits(h)
  <2>1. loop = h
    BY <1>2 DEF CommitLimits, Goto, PoolInv, LoopOwned
  <2>2. \A d \in Calls \ Early : pc'[d] \notin {"inserting", "recording"}
    BY <1>0, <1>1, <2>1 DEF PoolInv, Fresh
  <2>3. spent' <= pool'.used /\ pool'.used <= PoolLimit
    BY <1>2, LedgerAssumption DEF CommitLimits, Flushed, PoolInv, TypeOK
  <2> QED
    BY <2>2, <2>3 DEF PoolInv
<1>3. CASE h \in Limits /\ FormArrives(h)
  <2>1. loop = Free /\ UNCHANGED <<pool, spent>>
    BY <1>3 DEF FormArrives, TakeLoop, ReadHash, tables
  <2>2. \A d \in Calls \ Early : pc'[d] \notin {"inserting", "recording"}
    BY <1>0, <1>1, <2>1 DEF PoolInv, Fresh
  <2> QED
    BY <2>1, <2>2, PoolUntouched
<1>4. CASE \/ h \in Savers /\ (StartSave(h) \/ CommitSetting(h))
           \/ h \in Limits /\ LoadUser(h)
           \/ h \in Wipers /\ Wipe(h)
  <2>1. UNCHANGED <<pool, spent, loop>>
    BY <1>4 DEF StartSave, CommitSetting, LoadUser, Wipe, ReadHash, tables
  <2> QED
    BY <1>1, <2>1, PoolUntouched
<1> QED
  BY <1>2, <1>3, <1>4

LEMMA LockedBudget ==
    ASSUME TypeOK, PoolInv, LoopOwned', NEW s \in Sessions, Locked(s)
    PROVE  PoolInv'
<1>1. /\ UNCHANGED <<pool, spent>>
      /\ \A x \in Sessions : pc'[x] = IF x = s THEN "done" ELSE pc[x]
      /\ \A x \in Calls : x # s => seen'[x] = seen[x]
      /\ loop' = loop \/ loop = s
  BY DEF Locked, Forget, LeaveLoop, TypeOK, tables
<1>2. \A d \in Calls : d \in Sessions
  BY DEF Sessions
<1>3. \A d \in Calls \ Early : pc'[d] \in {"inserting", "recording"} =>
        d # s /\ pc[d] = pc'[d] /\ loop = d
  BY <1>1, <1>2 DEF PoolInv, Fresh
<1> QED
  BY <1>1, <1>3, PoolUntouched

LEMMA BudgetStep == TypeOK /\ ChainInv /\ BudgetInv /\ [Next]_vars => BudgetInv'
<1> SUFFICES ASSUME TypeOK, ChainInv, BudgetInv, [Next]_vars PROVE BudgetInv'
  OBVIOUS
<1>1. LoopOwned'
  BY ChainStep DEF ChainInv
<1>2. CASE ThreadRecorded
  BY <1>1, <1>2, RecordedStays DEF BudgetInv
<1>3. CASE PoolInv
  <2>1. CASE Tick \/ UNCHANGED vars
    BY <1>1, <1>3, <2>1, PoolUntouched DEF Tick, vars, tables, BudgetInv
  <2>2. CASE \E c \in Calls : \/ Decide(c) \/ Insert(c) \/ Record(c)
                              \/ ReadEvent(c) \/ EventGone(c) \/ Patch(c)
    BY <1>1, <1>3, <2>2, AuthorizeBudget, FinalizeBudget DEF BudgetInv
  <2>3. CASE \E h \in Savers : StartSave(h) \/ CommitSetting(h)
    BY <1>1, <1>3, <2>3, FormsBudget DEF BudgetInv, Sessions
  <2>4. CASE \E h \in Limits : LoadUser(h) \/ FormArrives(h) \/ CommitLimits(h)
    BY <1>1, <1>3, <2>4, FormsBudget DEF BudgetInv, Sessions
  <2>5. CASE \E h \in Wipers : Wipe(h)
    BY <1>1, <1>3, <2>5, FormsBudget DEF BudgetInv, Sessions
  <2>6. CASE \E s \in Sessions : Locked(s)
    BY <1>1, <1>3, <2>6, LockedBudget DEF BudgetInv
  <2> QED
    BY <2>1, <2>2, <2>3, <2>4, <2>5, <2>6 DEF Next
<1> QED
  BY <1>2, <1>3 DEF BudgetInv

\* The budget of a window is exceeded only after an early call was charged.
THEOREM BudgetNeedsThreads == Spec => []BudgetHeld
<1>1. Init => TypeOK /\ ChainInv /\ BudgetInv
  BY TypeInit, ChainInit, BudgetInit
<1>2. TypeOK /\ ChainInv /\ BudgetInv /\ [Next]_vars => (TypeOK /\ ChainInv /\ BudgetInv)'
  BY TypeStep, ChainStep, BudgetStep
<1>3. TypeOK /\ BudgetInv => BudgetHeld
  BY LedgerAssumption DEF TypeOK, BudgetInv, PoolInv, BudgetHeld
<1> QED
  BY <1>1, <1>2, <1>3, PTL DEF Spec
------------------------------------------------------------------------------
(* The counts of the rollup.                                               *)

\* One more event in a set of events.
LEMMA OneMore ==
    ASSUME NEW n \in Nat, NEW S \in SUBSET (1..n), NEW more \in BOOLEAN
    PROVE  /\ Cardinality(S \cup IF more THEN {n + 1} ELSE {})
                = Cardinality(S) + IF more THEN 1 ELSE 0
           /\ Cardinality(S) \in Nat
<1>1. IsFiniteSet(S)
  <2>1. IsFiniteSet(1..n)
    BY FS_Interval
  <2> QED
    BY <2>1, FS_Subset
<1>2. n + 1 \notin S
  OBVIOUS
<1>3. Cardinality(S) \in Nat /\ Cardinality(S \cup {n + 1}) = Cardinality(S) + 1
  BY <1>1, <1>2, FS_AddElement, FS_CardinalityType
<1> QED
  BY <1>3

\* The counts of a day, for a sequence of events and one of rows.
DayMatches(d) ==
    /\ Cardinality(RowsOf(d)) = IF CountedOn(d) = {} THEN 0 ELSE 1
    /\ \A r \in RowsOf(d) :
         /\ rows[r].ok = Cardinality({i \in CountedOn(d) : events[i].ok})
         /\ rows[r].deny = Cardinality({i \in CountedOn(d) : ~events[i].ok})

LEMMA RecordCounts ==
    ASSUME TypeOK, CountsMatchEvents, NEW c \in Calls, Record(c), NEW d \in Days
    PROVE  DayMatches(d)'
<1> DEFINE n == Len(events)
           m == Len(rows)
           e == NewEvent(c)
<1>1. /\ n \in Nat /\ DOMAIN events = 1..n /\ DOMAIN events' = 1..(n + 1)
      /\ \A i \in 1..n : events'[i] = events[i]
      /\ events'[n + 1] = e
  BY EventTyped DEF Record, TypeOK
<1>2. e.counted = now /\ e.ok \in BOOLEAN
  BY DEF NewEvent, Allowed
<1>3. m \in Nat /\ DOMAIN rows = 1..m /\ \A i \in 1..m : rows[i] \in RowType
  BY ElementOfSeq DEF TypeOK
<1>4. bump_usage_daily(e) /\ DayMatches(d)
  BY DEF Record, CountsMatchEvents, DayMatches
<1>5. CASE d # now
  <2>1. CountedOn(d)' = CountedOn(d) /\ CountedOn(d) \subseteq 1..n
    BY <1>1, <1>2, <1>5 DEF CountedOn
  <2>2. RowsOf(d)' = RowsOf(d) /\ \A r \in RowsOf(d) : rows'[r] = rows[r]
    BY <1>3, <1>4, <1>5 DEF RowsOf, bump_usage_daily, Bumped
  <2>3. /\ {i \in CountedOn(d) : events'[i].ok} = {i \in CountedOn(d) : events[i].ok}
        /\ {i \in CountedOn(d) : ~events'[i].ok} = {i \in CountedOn(d) : ~events[i].ok}
    BY <1>1, <2>1
  <2> QED
    BY <1>4, <2>1, <2>2, <2>3 DEF DayMatches
<1>6. CASE d = now
  <2> DEFINE okOn == {i \in CountedOn(d) : events[i].ok}
             denyOn == {i \in CountedOn(d) : ~events[i].ok}
  <2>1. CountedOn(d)' = CountedOn(d) \cup {n + 1} /\ CountedOn(d) \subseteq 1..n
    BY <1>1, <1>2, <1>6 DEF CountedOn
  <2>2. /\ {i \in CountedOn(d)' : events'[i].ok} = okOn \cup IF e.ok THEN {n + 1} ELSE {}
        /\ {i \in CountedOn(d)' : ~events'[i].ok}
             = denyOn \cup IF ~e.ok THEN {n + 1} ELSE {}
    BY <1>1, <1>2, <2>1
  <2>3. /\ Cardinality({i \in CountedOn(d)' : events'[i].ok})
             = Cardinality(okOn) + IF e.ok THEN 1 ELSE 0
        /\ Cardinality({i \in CountedOn(d)' : ~events'[i].ok})
             = Cardinality(denyOn) + IF e.ok THEN 0 ELSE 1
    <3>1. okOn \in SUBSET (1..n) /\ denyOn \in SUBSET (1..n) /\ (~e.ok) \in BOOLEAN
      BY <2>1
    <3>2. /\ Cardinality(okOn \cup IF e.ok THEN {n + 1} ELSE {})
               = Cardinality(okOn) + IF e.ok THEN 1 ELSE 0
          /\ Cardinality(denyOn \cup IF ~e.ok THEN {n + 1} ELSE {})
               = Cardinality(denyOn) + IF ~e.ok THEN 1 ELSE 0
      BY <1>1, <1>2, <3>1, OneMore
    <3> QED
      BY <1>2, <2>2, <3>2
  <2>4. CASE RowsOf(d) = {}
    <3>1. Cardinality(RowsOf(d)) = 0
      BY <2>4, FS_EmptySet
    <3>2. CountedOn(d) = {}
      BY <1>4, <3>1 DEF DayMatches
    <3>3. Cardinality(okOn) = 0 /\ Cardinality(denyOn) = 0
      BY <3>2, FS_EmptySet
    <3>4. rows' = Append(rows, Bumped([day |-> now, ok |-> 0, deny |-> 0, tokens |-> 0], e))
      BY <1>4, <1>6, <2>4 DEF bump_usage_daily
    <3>5. /\ DOMAIN rows' = 1..(m + 1) /\ \A i \in 1..m : rows'[i] = rows[i]
          /\ rows'[m + 1] = Bumped([day |-> now, ok |-> 0, deny |-> 0, tokens |-> 0], e)
      BY <1>3, <3>4
    <3>6. RowsOf(d)' = {m + 1}
      BY <1>3, <1>6, <2>4, <3>5 DEF RowsOf, Bumped
    <3>7. rows'[m + 1].ok = (IF e.ok THEN 1 ELSE 0) /\ rows'[m + 1].deny = (IF e.ok THEN 0 ELSE 1)
      BY <3>5 DEF Bumped
    <3>8. CountedOn(d)' # {}
      BY <2>1
    <3>9. Cardinality(RowsOf(d)') = 1
      BY <3>6, FS_Singleton
    <3>10. \A r \in RowsOf(d)' :
             /\ rows'[r].ok = Cardinality({i \in CountedOn(d)' : events'[i].ok})
             /\ rows'[r].deny = Cardinality({i \in CountedOn(d)' : ~events'[i].ok})
      BY <1>2, <2>3, <3>3, <3>6, <3>7
    <3> QED
      BY <3>8, <3>9, <3>10 DEF DayMatches
  <2>5. CASE RowsOf(d) # {}
    <3>1. rows' = [i \in DOMAIN rows |-> IF i \in RowsOf(d) THEN Bumped(rows[i], e)
                                                            ELSE rows[i]]
      BY <1>4, <1>6, <2>5 DEF bump_usage_daily
    <3>2. RowsOf(d)' = RowsOf(d) /\ RowsOf(d) \subseteq DOMAIN rows
      BY <3>1 DEF RowsOf, Bumped
    <3>3. IsFiniteSet(RowsOf(d))
      <4>1. IsFiniteSet(1..m)
        BY <1>3, FS_Interval
      <4> QED
        BY <1>3, <3>2, <4>1, FS_Subset
    <3>4. Cardinality(RowsOf(d)) = 1
      BY <1>4, <2>5, <3>3, FS_EmptySet DEF DayMatches
    <3>5. \A r \in RowsOf(d) :
            /\ rows'[r].ok = rows[r].ok + IF e.ok THEN 1 ELSE 0
            /\ rows'[r].deny = rows[r].deny + IF e.ok THEN 0 ELSE 1
      BY <3>1, <3>2 DEF Bumped
    <3> QED
      BY <1>4, <2>1, <2>3, <3>2, <3>4, <3>5 DEF DayMatches
  <2> QED
    BY <2>4, <2>5
<1> QED
  BY <1>5, <1>6

LEMMA PatchCounts ==
    ASSUME TypeOK, CountsMatchEvents, NEW c \in Calls, Patch(c), NEW d \in Days
    PROVE  DayMatches(d)'
<1>1. /\ DOMAIN events' = DOMAIN events /\ DOMAIN rows' = DOMAIN rows
      /\ \A i \in DOMAIN events : events'[i].counted = events[i].counted
                                 /\ events'[i].ok = events[i].ok
      /\ \A r \in DOMAIN rows : rows'[r].day = rows[r].day /\ rows'[r].ok = rows[r].ok
                               /\ rows'[r].deny = rows[r].deny
  <2>1. /\ \A i \in DOMAIN events : events[i] \in EventType
        /\ \A r \in DOMAIN rows : rows[r] \in RowType
    BY ElementOfSeq DEF TypeOK
  <2> QED
    BY <2>1 DEF Patch, EventType, RowType
<1>2. /\ RowsOf(d)' = RowsOf(d) /\ RowsOf(d) \subseteq DOMAIN rows
      /\ CountedOn(d)' = CountedOn(d) /\ CountedOn(d) \subseteq DOMAIN events
  BY <1>1 DEF RowsOf, CountedOn
<1>3. /\ {i \in CountedOn(d)' : events'[i].ok} = {i \in CountedOn(d) : events[i].ok}
      /\ {i \in CountedOn(d)' : ~events'[i].ok} = {i \in CountedOn(d) : ~events[i].ok}
  BY <1>1, <1>2
<1>4. DayMatches(d)
  BY DEF CountsMatchEvents, DayMatches
<1>5. \A r \in RowsOf(d)' :
        /\ rows'[r].ok = Cardinality({i \in CountedOn(d)' : events'[i].ok})
        /\ rows'[r].deny = Cardinality({i \in CountedOn(d)' : ~events'[i].ok})
  <2>1. \A r \in RowsOf(d) :
          /\ rows[r].ok = Cardinality({i \in CountedOn(d) : events[i].ok})
          /\ rows[r].deny = Cardinality({i \in CountedOn(d) : ~events[i].ok})
    BY <1>4 DEF DayMatches
  <2>2. \A r \in RowsOf(d)' : /\ r \in RowsOf(d)
                             /\ rows'[r].ok = rows[r].ok /\ rows'[r].deny = rows[r].deny
    BY <1>1, <1>2
  <2> QED
    BY <1>3, <2>1, <2>2
<1> QED
  BY <1>2, <1>4, <1>5 DEF DayMatches

LEMMA EmptyCounts ==
    ASSUME events = << >>, rows = << >>
    PROVE  CountsMatchEvents
<1>1. \A d \in Days : RowsOf(d) = {} /\ CountedOn(d) = {}
  BY DEF RowsOf, CountedOn
<1> QED
  BY <1>1, FS_EmptySet DEF CountsMatchEvents

LEMMA CountsStep == TypeOK /\ CountsMatchEvents /\ [Next]_vars => CountsMatchEvents'
<1> SUFFICES ASSUME TypeOK, CountsMatchEvents, [Next]_vars PROVE CountsMatchEvents'
  OBVIOUS
<1>1. CASE \E c \in Calls : Record(c) \/ Patch(c)
  BY <1>1, RecordCounts, PatchCounts DEF CountsMatchEvents, DayMatches
<1>2. CASE \E h \in Wipers : Wipe(h)
  <2>1. (events = << >> /\ rows = << >>)'
    BY <1>2 DEF Wipe
  <2>2. \A d \in Days : RowsOf(d)' = {} /\ CountedOn(d)' = {}
    BY <2>1 DEF RowsOf, CountedOn
  <2> QED
    BY <2>2, FS_EmptySet DEF CountsMatchEvents
<1>3. CASE UNCHANGED <<events, rows>>
  BY <1>3 DEF CountsMatchEvents, RowsOf, CountedOn
<1> QED
  BY <1>1, <1>2, <1>3
  DEF Next, vars, tables, Tick, Decide, Insert, ReadEvent, EventGone, StartSave,
      CommitSetting, LoadUser, FormArrives, ReadHash, CommitLimits, Locked

\* No count of the rollup is ever lost, whatever the sessions interleave.
THEOREM CountsAreExact == Spec => []CountsMatchEvents
<1>1. Init => TypeOK /\ CountsMatchEvents
  BY TypeInit, EmptyCounts DEF Init
<1>2. TypeOK /\ CountsMatchEvents /\ [Next]_vars => (TypeOK /\ CountsMatchEvents)'
  BY TypeStep, CountsStep
<1> QED
  BY <1>1, <1>2, PTL DEF Spec
------------------------------------------------------------------------------
(* The tokens of the rollup.  Sums are numbers of units: a unit of an event  *)
(* is the event with one of its tokens.                                      *)

Units(f, ids) == UNION {{i} \X (1 .. f[i]) : i \in ids}

LEMMA UnitsFinite ==
    ASSUME NEW ids, IsFiniteSet(ids), NEW f, \A i \in ids : f[i] \in Nat
    PROVE  IsFiniteSet(Units(f, ids)) /\ Cardinality(Units(f, ids)) \in Nat
<1> DEFINE g == [i \in ids |-> {i} \X (1 .. f[i])]
           T == {{i} \X (1 .. f[i]) : i \in ids}
<1>1. g \in Surjection(ids, T)
  <2>1. g \in [ids -> T] /\ \A t \in T : \E i \in ids : g[i] = t
    OBVIOUS
  <2> QED
    BY <2>1 DEF Surjection
<1>2. IsFiniteSet(T)
  BY <1>1, FS_Surjection
<1>3. ASSUME NEW i \in ids PROVE IsFiniteSet({i} \X (1 .. f[i]))
  <2>1. f[i] \in Nat
    OBVIOUS
  <2>2. IsFiniteSet({i})
    BY FS_Singleton
  <2>3. IsFiniteSet(1 .. f[i])
    BY <2>1, FS_Interval
  <2> QED
    BY <2>2, <2>3, FS_Product
<1>4. IsFiniteSet(UNION T)
  <2>1. \A t \in T : IsFiniteSet(t)
    BY <1>3
  <2> HIDE DEF T
  <2> QED
    BY <1>2, <2>1, FS_UNION
<1> QED
  BY <1>4, FS_CardinalityType DEF Units

LEMMA UnitsSplit ==
    ASSUME NEW ids, IsFiniteSet(ids), NEW f, \A i \in ids : f[i] \in Nat, NEW k \in ids
    PROVE  /\ Cardinality(Units(f, ids)) = Cardinality(Units(f, ids \ {k})) + f[k]
           /\ Cardinality(Units(f, ids \ {k})) \in Nat
<1> DEFINE own == {k} \X (1 .. f[k])
           rest == Units(f, ids \ {k})
<1>1. Units(f, ids) = rest \cup own /\ rest \cap own = {}
  BY DEF Units
<1>2. IsFiniteSet(own) /\ Cardinality(own) = f[k]
  <2>1. IsFiniteSet({k}) /\ Cardinality({k}) = 1
    BY FS_Singleton
  <2>2. IsFiniteSet(1 .. f[k]) /\ Cardinality(1 .. f[k]) = f[k]
    BY FS_Interval
  <2>3. IsFiniteSet(own) /\ Cardinality(own) = 1 * f[k]
    BY <2>1, <2>2, FS_Product
  <2> QED
    BY <2>3
<1>3. IsFiniteSet(rest) /\ Cardinality(rest) \in Nat
  <2>1. IsFiniteSet(ids \ {k})
    BY FS_Difference
  <2> QED
    BY <2>1, UnitsFinite
<1> HIDE DEF own, rest
<1>4. Cardinality(rest \cup own) = Cardinality(rest) + f[k] - Cardinality({})
  BY <1>1, <1>2, <1>3, FS_Union
<1>5. Cardinality(rest \cup own) = Cardinality(rest) + f[k]
  BY <1>3, <1>4, FS_EmptySet
<1> QED
  BY <1>1, <1>3, <1>5 DEF rest

LEMMA UnitsSame ==
    ASSUME NEW ids, NEW f, NEW g, \A i \in ids : f[i] = g[i]
    PROVE  Units(f, ids) = Units(g, ids)
BY DEF Units

Charged == [i \in DOMAIN events |-> events[i].tokens]
Booked(d) == TokensOf(CountedOn(d))

LEMMA BookedUnits ==
    ASSUME TypeOK, NEW d
    PROVE  /\ CountedOn(d) \subseteq DOMAIN events /\ IsFiniteSet(CountedOn(d))
           /\ \A i \in CountedOn(d) : Charged[i] \in Nat
           /\ Booked(d) = Cardinality(Units(Charged, CountedOn(d)))
           /\ Booked(d) \in Nat
<1>1. CountedOn(d) \in SUBSET DOMAIN events
  BY DEF CountedOn
<1>2. IsFiniteSet(CountedOn(d))
  <2>1. DOMAIN events = 1 .. Len(events) /\ Len(events) \in Nat
    BY DEF TypeOK
  <2>2. IsFiniteSet(1 .. Len(events))
    BY <2>1, FS_Interval
  <2> QED
    BY <1>1, <2>1, <2>2, FS_Subset
<1>3. \A i \in DOMAIN events : Charged[i] = events[i].tokens /\ events[i].tokens \in Nat
  <2>1. \A i \in DOMAIN events : events[i] \in EventType
    BY ElementOfSeq DEF TypeOK
  <2> QED
    BY <2>1 DEF EventType, Charged
<1>4. Units(Charged, CountedOn(d)) = UNION {{i} \X (1 .. events[i].tokens) : i \in CountedOn(d)}
  BY <1>1, <1>3 DEF Units
<1>5. Booked(d) = Cardinality(Units(Charged, CountedOn(d)))
  BY <1>4 DEF Booked, TokensOf
<1> QED
  BY <1>1, <1>2, <1>3, <1>5, UnitsFinite

\* A recorded event adds its tokens to those of its day.
LEMMA RecordBooks ==
    ASSUME TypeOK, NEW c \in Calls, Record(c), NEW d
    PROVE  Booked(d)' = Booked(d) + IF d = now THEN NewEvent(c).tokens ELSE 0
<1> DEFINE n == Len(events)
           e == NewEvent(c)
<1>0. TypeOK'
  BY AuthorizeTyped
<1>1. /\ n \in Nat /\ DOMAIN events = 1..n /\ DOMAIN events' = 1..(n + 1)
      /\ \A i \in 1..n : events'[i] = events[i]
      /\ events'[n + 1] = e
  BY EventTyped DEF Record, TypeOK
<1>2. e.counted = now /\ e.tokens \in Nat
  BY EventTyped DEF NewEvent, EventType
<1>3. /\ IsFiniteSet(CountedOn(d)') /\ \A i \in CountedOn(d)' : Charged'[i] \in Nat
      /\ Booked(d)' = Cardinality(Units(Charged', CountedOn(d)'))
  <2>1. /\ IsFiniteSet(CountedOn(d))' /\ (\A i \in CountedOn(d) : Charged[i] \in Nat)'
        /\ (Booked(d) = Cardinality(Units(Charged, CountedOn(d))))'
    BY <1>0, BookedUnits, PTL
  <2> QED
    BY <2>1 DEF Units
<1>4. Booked(d) = Cardinality(Units(Charged, CountedOn(d))) /\ Booked(d) \in Nat
      /\ CountedOn(d) \subseteq 1..n
  BY <1>1, BookedUnits
<1>5. \A i \in CountedOn(d) : Charged'[i] = Charged[i]
  BY <1>1, <1>4 DEF Charged
<1>6. Units(Charged', CountedOn(d)) = Units(Charged, CountedOn(d))
  BY <1>5, UnitsSame
<1>7. CASE d = now
  <2>1. CountedOn(d)' = CountedOn(d) \cup {n + 1} /\ n + 1 \notin CountedOn(d)
    BY <1>1, <1>2, <1>4, <1>7 DEF CountedOn
  <2>2. Charged'[n + 1] = e.tokens /\ CountedOn(d)' \ {n + 1} = CountedOn(d) /\ n + 1 \in CountedOn(d)'
    BY <1>1, <2>1 DEF Charged
  <2>3. Cardinality(Units(Charged', CountedOn(d)')) = Cardinality(Units(Charged', CountedOn(d)' \ {n + 1})) + Charged'[n + 1]
    BY <1>3, <2>2, UnitsSplit
  <2> QED
    BY <1>3, <1>4, <1>6, <1>7, <2>2, <2>3
<1>8. CASE d # now
  <2>1. CountedOn(d)' = CountedOn(d)
    BY <1>1, <1>2, <1>8 DEF CountedOn
  <2> QED
    BY <1>3, <1>4, <1>6, <1>8, <2>1
<1> QED
  BY <1>7, <1>8

\* What bump_usage_daily does to the tokens of each row.
LEMMA RecordRows ==
    ASSUME TypeOK, CountsMatchEvents, NEW c \in Calls, Record(c)
    PROVE  /\ \A r \in DOMAIN rows :
                /\ r \in DOMAIN rows' /\ rows'[r].day = rows[r].day
                /\ rows'[r].tokens = rows[r].tokens
                                       + IF rows[r].day = now THEN NewEvent(c).tokens ELSE 0
           /\ \A r \in DOMAIN rows' \ DOMAIN rows :
                /\ rows'[r].day = now /\ rows'[r].tokens = NewEvent(c).tokens
                /\ Booked(now) = 0
<1> DEFINE e == NewEvent(c)
           m == Len(rows)
<1>1. e.tokens \in Nat
  BY EventTyped DEF EventType
<1>2. m \in Nat /\ DOMAIN rows = 1..m /\ \A i \in 1..m : rows[i] \in RowType
  BY ElementOfSeq DEF TypeOK
<1>3. bump_usage_daily(e)
  BY DEF Record
<1>4. \A r \in 1..m : rows[r].tokens \in Nat /\ Bumped(rows[r], e).day = rows[r].day
                      /\ Bumped(rows[r], e).tokens = rows[r].tokens + e.tokens
  BY <1>2 DEF RowType, Bumped
<1> HIDE DEF e
<1>5. CASE RowsOf(now) = {}
  <2>1. /\ DOMAIN rows' = 1..(m + 1) /\ \A i \in 1..m : rows'[i] = rows[i]
        /\ rows'[m + 1] = Bumped([day |-> now, ok |-> 0, deny |-> 0, tokens |-> 0], e)
    BY <1>2, <1>3, <1>5 DEF bump_usage_daily
  <2>2. \A r \in DOMAIN rows : rows[r].day # now
    BY <1>5 DEF RowsOf
  <2>3. Booked(now) = 0
    <3>1. now \in Days /\ Cardinality(RowsOf(now)) = 0
      BY <1>5, FS_EmptySet DEF TypeOK
    <3>2. CountedOn(now) = {}
      BY <3>1 DEF CountsMatchEvents
    <3>3. Units(Charged, CountedOn(now)) = {}
      BY <3>2 DEF Units
    <3> QED
      BY <3>3, BookedUnits, FS_EmptySet
  <2>4. rows'[m + 1].day = now /\ rows'[m + 1].tokens = e.tokens
    BY <1>1, <2>1 DEF Bumped
  <2>5. \A r \in DOMAIN rows : rows'[r].tokens = rows[r].tokens + IF rows[r].day = now THEN e.tokens ELSE 0
    BY <1>2, <1>4, <2>1, <2>2
  <2>6. \A r \in DOMAIN rows' \ DOMAIN rows : r = m + 1
    BY <1>2, <2>1
  <2> QED
    BY <1>2, <2>1, <2>3, <2>4, <2>5, <2>6 DEF e
<1>6. CASE RowsOf(now) # {}
  <2>1. rows' = [i \in DOMAIN rows |-> IF i \in RowsOf(now) THEN Bumped(rows[i], e) ELSE rows[i]]
    BY <1>3, <1>6 DEF bump_usage_daily
  <2>2. \A r \in DOMAIN rows : r \in RowsOf(now) <=> rows[r].day = now
    BY DEF RowsOf
  <2>3. ASSUME NEW r \in DOMAIN rows
        PROVE  /\ rows'[r].day = rows[r].day
               /\ rows'[r].tokens = rows[r].tokens + IF rows[r].day = now THEN e.tokens ELSE 0
    <3>1. CASE rows[r].day = now
      BY <1>2, <1>4, <2>1, <2>2, <3>1
    <3>2. CASE rows[r].day # now
      <4>1. rows'[r] = rows[r]
        BY <2>1, <2>2, <3>2
      <4> QED
        BY <1>2, <1>4, <3>2, <4>1
    <3> QED
      BY <3>1, <3>2
  <2>4. DOMAIN rows' = DOMAIN rows
    BY <2>1
  <2> QED
    BY <2>3, <2>4 DEF e
<1> QED
  BY <1>5, <1>6

\* Of an event of the day, the tokens of the others stay when its own change.
LEMMA PatchBooks ==
    ASSUME TypeOK, TypeOK', NEW k \in DOMAIN events, DOMAIN events' = DOMAIN events,
           \A i \in DOMAIN events : /\ events'[i].counted = events[i].counted
                                    /\ i # k => events'[i] = events[i],
           NEW d
    PROVE  /\ d # events[k].counted => Booked(d)' = Booked(d)
           /\ d = events[k].counted =>
                 /\ Booked(d)' = Booked(d) - events[k].tokens + events'[k].tokens
                 /\ events[k].tokens <= Booked(d)
<1>1. CountedOn(d)' = CountedOn(d) /\ CountedOn(d) \subseteq DOMAIN events
  BY DEF CountedOn
<1>2. /\ IsFiniteSet(CountedOn(d))
      /\ \A i \in CountedOn(d) : Charged[i] \in Nat /\ Charged'[i] \in Nat
      /\ Booked(d) = Cardinality(Units(Charged, CountedOn(d)))
      /\ Booked(d)' = Cardinality(Units(Charged', CountedOn(d)))
  <2>1. /\ (\A i \in CountedOn(d) : Charged[i] \in Nat)'
        /\ (Booked(d) = Cardinality(Units(Charged, CountedOn(d))))'
    BY BookedUnits, PTL
  <2> QED
    BY <1>1, <2>1, BookedUnits DEF Units
<1>3. \A i \in DOMAIN events : Charged[i] = events[i].tokens /\ Charged'[i] = events'[i].tokens
  BY DEF Charged
<1>4. CASE d # events[k].counted
  <2>1. k \notin CountedOn(d)
    BY <1>4 DEF CountedOn
  <2>2. \A i \in CountedOn(d) : Charged'[i] = Charged[i]
    BY <1>1, <1>3, <2>1
  <2> QED
    BY <1>2, <1>4, <2>2, UnitsSame
<1>5. CASE d = events[k].counted
  <2>1. k \in CountedOn(d)
    BY <1>5 DEF CountedOn
  <2> DEFINE rest == CountedOn(d) \ {k}
  <2>2. /\ Cardinality(Units(Charged, CountedOn(d))) = Cardinality(Units(Charged, rest)) + Charged[k]
        /\ Cardinality(Units(Charged', CountedOn(d))) = Cardinality(Units(Charged', rest)) + Charged'[k]
        /\ Cardinality(Units(Charged, rest)) \in Nat
    BY <1>2, <2>1, UnitsSplit
  <2>3. Units(Charged', rest) = Units(Charged, rest)
    <3>1. \A i \in rest : Charged'[i] = Charged[i]
      BY <1>1, <1>3
    <3> QED
      BY <3>1, UnitsSame
  <2>4. Charged[k] \in Nat /\ Charged'[k] \in Nat
    BY <1>2, <2>1
  <2> QED
    BY <1>2, <1>3, <1>5, <2>2, <2>3, <2>4
<1> QED
  BY <1>4, <1>5
------------------------------------------------------------------------------
(* finalize_usage_metering.  While a call corrects its event, the loop is    *)
(* its own: only early calls can be recorded meanwhile, and they add to the  *)
(* row what they add to the events.                                          *)

LoopHeld ==
    /\ \A s \in Sessions : pc[s] = "patching" => loop = s
    /\ \A c \in Calls \ Early : pc[c] \in {"inserting", "recording"} => loop = c

\* What the call has read of its event is so, and its row has only grown since.
PatchRead(c) ==
    LET k == id[c]
        r == patch.row
    IN  /\ k \in DOMAIN events /\ patch.event = events[k].tokens
        /\ r \in DOMAIN rows /\ rows[r].day = events[k].counted
        /\ patch.tokens <= rows[r].tokens
        /\ rows[r].tokens <= patch.tokens + (Booked(rows[r].day) - patch.event)
        /\ ThreadRecorded \/ rows[r].tokens = patch.tokens

Accounted(r) ==
    /\ rows[r].tokens <= Booked(rows[r].day)
    /\ ThreadRecorded \/ rows[r].tokens = Booked(rows[r].day)

Disturbed == Wiped \/ AcrossMidnight

AllAccounted ==
    /\ \A r \in DOMAIN rows : Accounted(r)
    /\ \A c \in Calls : pc[c] = "patching" => PatchRead(c)

TokensInv == LoopHeld /\ (Disturbed \/ AllAccounted)

LEMMA TokensInit == Init => TokensInv
BY DEF Init, TokensInv, LoopHeld, AllAccounted, Sessions

\* A session takes the loop when it is free and leaves only its own.
LEMMA LoopStep == TypeOK /\ LoopHeld /\ [Next]_vars => LoopHeld'
<1> SUFFICES ASSUME TypeOK, LoopHeld, [Next]_vars PROVE LoopHeld'
  OBVIOUS
<1>0. /\ \A c \in Calls : c \in Sessions
      /\ \A s \in Sessions : s # Free
  BY LedgerAssumption DEF Sessions
<1>1. CASE \E c \in Calls : \/ Decide(c) \/ Insert(c) \/ Record(c)
                            \/ ReadEvent(c) \/ EventGone(c) \/ Patch(c)
  <2>1. PICK c \in Calls : \/ Decide(c) \/ Insert(c) \/ Record(c)
                           \/ ReadEvent(c) \/ EventGone(c) \/ Patch(c)
    BY <1>1
  <2>2. \A d \in Sessions : d # c => pc'[d] = pc[d]
    BY <1>0, <2>1 DEF Decide, Insert, Record, ReadEvent, EventGone, Patch, Goto, TypeOK
  <2>3. loop' = loop \/ loop = Free \/ loop = c
    BY <2>1 DEF Decide, Insert, Record, ReadEvent, EventGone, Patch, TakeLoop, LeaveLoop
  <2>4. /\ pc'[c] = "patching" => loop' = c
        /\ c \notin Early /\ pc'[c] \in {"inserting", "recording"} => loop' = c
    BY <1>0, <2>1
    DEF Decide, Insert, Record, ReadEvent, EventGone, Patch, Goto, TakeLoop, TypeOK, LoopHeld
  <2> QED
    BY <1>0, <2>2, <2>3, <2>4 DEF LoopHeld
<1>2. CASE \E h \in Savers \cup Limits \cup Wipers :
             \/ StartSave(h) \/ CommitSetting(h) \/ LoadUser(h) \/ FormArrives(h)
             \/ CommitLimits(h) \/ Wipe(h)
  <2>1. PICK h \in Savers \cup Limits \cup Wipers :
             \/ StartSave(h) \/ CommitSetting(h) \/ LoadUser(h) \/ FormArrives(h)
             \/ CommitLimits(h) \/ Wipe(h)
    BY <1>2
  <2>2. /\ h \in Sessions /\ h \notin Calls /\ pc'[h] # "patching"
        /\ \A d \in Sessions : d # h => pc'[d] = pc[d]
    BY <2>1, LedgerAssumption
    DEF Sessions, StartSave, CommitSetting, LoadUser, FormArrives, CommitLimits, Wipe, Goto, TypeOK
  <2>3. loop' = loop \/ loop = Free \/ loop = h
    BY <2>1 DEF StartSave, CommitSetting, LoadUser, FormArrives, CommitLimits, Wipe,
                TakeLoop, LeaveLoop
  <2> QED
    BY <1>0, <2>2, <2>3 DEF LoopHeld
<1>3. CASE \E s \in Sessions : Locked(s)
  <2>1. PICK s \in Sessions : Locked(s)
    BY <1>3
  <2>2. \A x \in Sessions : pc'[x] = IF x = s THEN "done" ELSE pc[x]
    BY <2>1 DEF Locked, TypeOK
  <2>3. loop' = loop \/ loop = s
    BY <2>1 DEF Locked, LeaveLoop
  <2> QED
    BY <1>0, <2>2, <2>3 DEF LoopHeld
<1>4. CASE Tick \/ UNCHANGED vars
  BY <1>4 DEF Tick, vars, LoopHeld
<1> QED
  BY <1>1, <1>2, <1>3, <1>4 DEF Next

\* Steps that leave the tables alone and end or keep what a finalize has read.
LEMMA TokensUntouched ==
    ASSUME AllAccounted, UNCHANGED <<events, rows, id>>,
           \A c \in Calls : pc'[c] = "patching" => pc[c] = "patching" /\ patch' = patch
    PROVE  AllAccounted'
<1>1. \A d : Booked(d)' = Booked(d)
  BY DEF Booked, CountedOn, TokensOf
<1>2. ThreadRecorded' <=> ThreadRecorded
  BY DEF ThreadRecorded
<1>3. \A r \in DOMAIN rows : Accounted(r)'
  BY <1>1, <1>2 DEF AllAccounted, Accounted
<1>4. ASSUME NEW c \in Calls, pc'[c] = "patching" PROVE PatchRead(c)'
  BY <1>1, <1>2, <1>4 DEF AllAccounted, PatchRead
<1> QED
  BY <1>3, <1>4 DEF AllAccounted

LEMMA RecordTokens ==
    ASSUME TypeOK, CountsMatchEvents, IdsOwned, LoopHeld, AllAccounted, NEW c \in Calls, Record(c)
    PROVE  AllAccounted'
<1> DEFINE e == NewEvent(c)
<1>0. TypeOK' /\ c \in Sessions /\ pc[c] = "recording"
  BY AuthorizeTyped DEF Record, Goto, Sessions
<1>1. e.tokens \in Nat
  BY EventTyped DEF EventType
<1>2. \A r \in DOMAIN rows : /\ r \in DOMAIN rows' /\ rows'[r].day = rows[r].day
                            /\ rows'[r].tokens = rows[r].tokens + IF rows[r].day = now THEN e.tokens ELSE 0
  BY RecordRows
<1>3. \A r \in DOMAIN rows' \ DOMAIN rows :
         rows'[r].day = now /\ rows'[r].tokens = e.tokens /\ Booked(now) = 0
  BY RecordRows
<1>4. \A d : Booked(d) \in Nat /\ Booked(d)' = Booked(d) + IF d = now THEN e.tokens ELSE 0
  BY BookedUnits, RecordBooks
<1>5. \A r \in DOMAIN rows : rows[r].tokens \in Nat
  <2>1. \A r \in DOMAIN rows : rows[r] \in RowType
    BY ElementOfSeq DEF TypeOK
  <2> QED
    BY <2>1 DEF RowType
<1>6. \A d \in Calls : d # c => id'[d] = id[d] /\ pc'[d] = pc[d]
  BY <1>0 DEF Record, Goto, TypeOK, Sessions
<1>7. id'[c] # 0 /\ id[c] \in Nat
  BY DEF Record, NewId, TypeOK
<1>8. ThreadRecorded => ThreadRecorded'
  <2>1. \A d \in Calls : id[d] # 0 => id'[d] # 0
    BY <1>6, <1>7
  <2> QED
    BY <2>1, LedgerAssumption DEF ThreadRecorded
<1> HIDE DEF e
<1>9. ASSUME NEW r \in DOMAIN rows' PROVE Accounted(r)'
  <2> DEFINE d == rows'[r].day
  <2>1. CASE r \in DOMAIN rows
    <3>1. /\ rows[r].tokens <= Booked(rows[r].day)
          /\ ThreadRecorded \/ rows[r].tokens = Booked(rows[r].day)
      BY <2>1 DEF AllAccounted, Accounted
    <3>2. /\ rows'[r].tokens <= Booked(rows[r].day) + IF rows[r].day = now THEN e.tokens ELSE 0
          /\ ThreadRecorded \/ rows'[r].tokens
                                 = Booked(rows[r].day) + IF rows[r].day = now THEN e.tokens ELSE 0
      BY <1>1, <1>2, <1>4, <1>5, <2>1, <3>1
    <3>3. Booked(rows[r].day)' = Booked(rows[r].day) + IF rows[r].day = now THEN e.tokens ELSE 0
      <4>1. PICK x : x = rows[r].day
        OBVIOUS
      <4>2. Booked(rows[r].day)' = Booked(x)'
        BY <1>2, <2>1, <4>1 DEF Booked, CountedOn
      <4> QED
        BY <1>4, <4>1, <4>2
    <3> QED
      BY <1>8, <3>2, <3>3 DEF Accounted
  <2>2. CASE r \notin DOMAIN rows
    <3>1. rows'[r].day = now /\ rows'[r].tokens = e.tokens /\ Booked(now) = 0
      BY <1>3, <2>2
    <3>2. Booked(rows[r].day)' = Booked(now) + e.tokens
      <4>1. PICK x : x = now
        OBVIOUS
      <4>2. Booked(rows[r].day)' = Booked(x)'
        BY <3>1, <4>1 DEF Booked, CountedOn
      <4> QED
        BY <1>4, <4>1, <4>2
    <3> QED
      BY <1>1, <3>1, <3>2 DEF Accounted
  <2> QED
    BY <2>1, <2>2
<1>10. ASSUME NEW x \in Calls, pc'[x] = "patching" PROVE PatchRead(x)'
  <2> DEFINE k == id[x]
             r == patch.row
  <2>1. x # c
    BY <1>0, <1>10 DEF Record, Goto, TypeOK
  <2>2. pc[x] = "patching" /\ PatchRead(x) /\ id'[x] = id[x] /\ patch' = patch
    BY <1>6, <1>10, <2>1 DEF AllAccounted, Record
  <2>3. ThreadRecorded'
    <3>1. c \in Early
      BY <1>0, <2>1, <2>2 DEF LoopHeld, Sessions
    <3> QED
      BY <1>7, <3>1 DEF ThreadRecorded
  <2>4. k \in DOMAIN events /\ events'[k] = events[k] /\ k \in DOMAIN events'
    BY <2>2, EventTyped DEF PatchRead, Record, TypeOK
  <2>5. /\ r \in DOMAIN rows /\ rows[r].day = events[k].counted /\ patch.event = events[k].tokens
        /\ patch.tokens <= rows[r].tokens
        /\ rows[r].tokens <= patch.tokens + (Booked(rows[r].day) - patch.event)
    BY <2>2 DEF PatchRead
  <2>6. patch.tokens \in Nat /\ patch.event \in Nat
    BY DEF TypeOK
  <2>7. PICK d : d = rows[r].day
    OBVIOUS
  <2>8. r \in DOMAIN rows' /\ rows'[r].day = d
        /\ rows'[r].tokens = rows[r].tokens + IF d = now THEN e.tokens ELSE 0
    BY <1>2, <2>5, <2>7
  <2>9. patch.tokens <= rows'[r].tokens
        /\ rows'[r].tokens <= patch.tokens + ((Booked(d) + IF d = now THEN e.tokens ELSE 0) - patch.event)
    BY <1>1, <1>4, <1>5, <2>5, <2>6, <2>7, <2>8
  <2>10. rows'[r].tokens <= patch.tokens + (Booked(d)' - patch.event)
    BY <1>4, <2>9
  <2>11. Booked(rows[patch.row].day)' = Booked(d)'
    BY <2>2, <2>8 DEF Booked, CountedOn
  <2> QED
    BY <2>2, <2>3, <2>4, <2>5, <2>7, <2>8, <2>9, <2>10, <2>11 DEF PatchRead
<1> QED
  BY <1>9, <1>10 DEF AllAccounted

LEMMA OwnBooked ==
    ASSUME TypeOK, NEW k \in DOMAIN events
    PROVE  events[k].tokens \in Nat /\ events[k].tokens <= Booked(events[k].counted)
<1> DEFINE ids == CountedOn(events[k].counted)
<1>1. k \in ids /\ Charged[k] = events[k].tokens
  BY DEF CountedOn, Charged
<1>2. /\ IsFiniteSet(ids) /\ \A i \in ids : Charged[i] \in Nat
      /\ Booked(events[k].counted) = Cardinality(Units(Charged, ids))
  BY BookedUnits
<1>3. /\ Cardinality(Units(Charged, ids)) = Cardinality(Units(Charged, ids \ {k})) + Charged[k]
      /\ Cardinality(Units(Charged, ids \ {k})) \in Nat
  <2> HIDE DEF ids
  <2> QED
    BY <1>1, <1>2, UnitsSplit
<1> QED
  BY <1>1, <1>2, <1>3

LEMMA ReadTokens ==
    ASSUME TypeOK, CountsMatchEvents, LoopHeld, ~AcrossMidnight, AllAccounted,
           NEW c \in Calls, ReadEvent(c)
    PROVE  AllAccounted'
<1> DEFINE k == id[c]
           day == events[k].day
           row == RowOf(day)
<1>1. /\ k \in DOMAIN events /\ UNCHANGED <<events, rows, id>> /\ loop = Free
      /\ patch' = [event |-> events[k].tokens, row |-> row,
                   tokens |-> IF row = None THEN 0 ELSE rows[row].tokens]
  BY DEF ReadEvent, TakeLoop, tables
<1>2. day = events[k].counted /\ day \in Days
  <2>1. events[k] \in EventType
    BY <1>1, ElementOfSeq DEF TypeOK
  <2> QED
    BY <1>1, <2>1 DEF AcrossMidnight, EventType
<1>3. row \in DOMAIN rows /\ rows[row].day = day
  <2>1. k \in CountedOn(day)
    BY <1>1, <1>2 DEF CountedOn
  <2>2. Cardinality(RowsOf(day)) = 1
    BY <1>2, <2>1 DEF CountsMatchEvents
  <2>3. RowsOf(day) # {}
    BY <2>2, FS_EmptySet
  <2>4. row \in RowsOf(day)
    BY <2>3 DEF RowOf
  <2> QED
    BY <2>4 DEF RowsOf
<1>4. row # None /\ rows[row].tokens \in Nat
  <2>1. DOMAIN rows \subseteq Nat /\ rows[row] \in RowType
    BY <1>3, ElementOfSeq DEF TypeOK
  <2> QED
    BY <1>3, <2>1, LedgerAssumption DEF RowType
<1>5. \A d : Booked(d)' = Booked(d)
  BY <1>1 DEF Booked, CountedOn, TokensOf
<1>6. ThreadRecorded' <=> ThreadRecorded
  BY <1>1 DEF ThreadRecorded
<1>7. \A r \in DOMAIN rows : Accounted(r)'
  BY <1>1, <1>5, <1>6 DEF AllAccounted, Accounted
<1>8. ASSUME NEW x \in Calls, pc'[x] = "patching" PROVE PatchRead(x)'
  <2>1. x = c
    <3> SUFFICES ASSUME x # c PROVE FALSE
      OBVIOUS
    <3>1. pc[x] = "patching" /\ x # Free
      BY <1>8, LedgerAssumption DEF ReadEvent, Goto, TypeOK, Sessions
    <3> QED
      BY <1>1, <3>1 DEF LoopHeld, Sessions
  <2>2. events[k].tokens \in Nat /\ events[k].tokens <= Booked(day) /\ Booked(day) \in Nat
    BY <1>1, <1>2, OwnBooked, BookedUnits
  <2>3. patch'.event = events[k].tokens /\ patch'.row = row /\ patch'.tokens = rows[row].tokens
    BY <1>1, <1>4
  <2>4. rows[row].tokens <= rows[row].tokens + (Booked(day) - events[k].tokens)
    BY <1>4, <2>2
  <2>5. Booked(rows[patch.row].day)' = Booked(day)
    <3>1. Booked(rows[patch.row].day)' = Booked(events[id[c]].day)'
      BY <1>1, <1>3, <2>3
    <3>2. Booked(events[id[c]].day)' = Booked(events[id[c]].day)
      BY <1>1 DEF Booked, CountedOn, TokensOf
    <3> QED
      BY <3>1, <3>2
  <2> QED
    BY <1>1, <1>2, <1>3, <1>4, <2>1, <2>3, <2>4, <2>5 DEF PatchRead
<1> QED
  BY <1>1, <1>7, <1>8 DEF AllAccounted

LEMMA PatchTokens ==
    ASSUME TypeOK, CountsMatchEvents, LoopHeld, AllAccounted, NEW c \in Calls, Patch(c)
    PROVE  AllAccounted'
<1> DEFINE k == id[c]
           r == patch.row
           day == events[k].counted
<1>1. pc[c] = "patching" /\ PatchRead(c) /\ id' = id
  BY DEF Patch, Goto, AllAccounted
<1>2. /\ k \in DOMAIN events /\ patch.event = events[k].tokens
      /\ r \in DOMAIN rows /\ rows[r].day = day
      /\ patch.tokens <= rows[r].tokens
      /\ rows[r].tokens <= patch.tokens + (Booked(day) - patch.event)
      /\ ThreadRecorded \/ rows[r].tokens = patch.tokens
  BY <1>1 DEF PatchRead
<1>3. ~RowsGone(c) /\ r # None
  <2>1. DOMAIN rows \subseteq Nat
    BY DEF TypeOK
  <2> QED
    BY <1>2, <2>1, LedgerAssumption DEF RowsGone
<1>4. PICK tokens \in {patch.event, Actual[c]} :
         /\ events' = [events EXCEPT ![k].tokens = Flushed(@, patch.event, tokens),
                                     ![k].patchedBy = @ \cup {c}]
         /\ rows' = [rows EXCEPT ![r].tokens =
                       Flushed(@, patch.tokens, Corrected(patch.tokens, patch.event, tokens))]
  BY <1>3 DEF Patch
<1>5. tokens \in Nat /\ patch.tokens \in Nat /\ patch.event \in Nat
  BY LedgerAssumption DEF TypeOK
<1>6. events[k] \in EventType /\ rows[r] \in RowType
  BY <1>2, ElementOfSeq DEF TypeOK
<1>7. /\ DOMAIN events' = DOMAIN events
      /\ \A i \in DOMAIN events : /\ events'[i].counted = events[i].counted
                                  /\ i # k => events'[i] = events[i]
      /\ events'[k].tokens = tokens
  BY <1>2, <1>4, <1>6 DEF EventType, Flushed
<1>8. /\ DOMAIN rows' = DOMAIN rows
      /\ \A i \in DOMAIN rows : rows'[i].day = rows[i].day /\ (i # r => rows'[i] = rows[i])
      /\ rows'[r].tokens = Flushed(rows[r].tokens, patch.tokens,
                                   Corrected(patch.tokens, patch.event, tokens))
  BY <1>2, <1>4, <1>6 DEF RowType
<1>9. TypeOK'
  BY FinalizeTyped
<1>10. /\ \A d : d # day => Booked(d)' = Booked(d)
       /\ \A d : d = day => Booked(d)' = Booked(day) - patch.event + tokens
       /\ patch.event <= Booked(day) /\ Booked(day) \in Nat
  BY <1>2, <1>7, <1>9, PatchBooks, BookedUnits
<1>11. ThreadRecorded' <=> ThreadRecorded
  BY <1>1 DEF ThreadRecorded
<1>12. ASSUME NEW i \in DOMAIN rows PROVE Accounted(i)'
  <2>1. PICK d : d = rows[i].day
    OBVIOUS
  <2>2. Booked(rows[i].day)' = Booked(d)'
    BY <1>8, <2>1 DEF Booked, CountedOn
  <2>3. Accounted(i) /\ Accounted(r)
    BY <1>2 DEF AllAccounted
  <2>4. CASE i = r
    <3>1. Booked(d)' = Booked(day) - patch.event + tokens
      BY <1>2, <1>10, <2>1, <2>4
    <3>2. /\ rows[r].tokens \in Nat /\ rows[r].tokens <= Booked(day)
          /\ ThreadRecorded \/ rows[r].tokens = Booked(day)
      BY <1>2, <1>6, <2>3 DEF Accounted, RowType
    <3>3. /\ rows'[r].tokens <= Booked(day) - patch.event + tokens
          /\ patch.tokens = rows[r].tokens /\ rows[r].tokens = Booked(day)
               => rows'[r].tokens = Booked(day) - patch.event + tokens
      <4>1. /\ rows[r].tokens \in Nat /\ Booked(day) \in Nat
            /\ patch.tokens <= rows[r].tokens /\ rows[r].tokens <= Booked(day)
            /\ patch.event <= Booked(day)
            /\ rows[r].tokens <= patch.tokens + (Booked(day) - patch.event)
        BY <1>2, <1>10, <3>2
      \* The correction of a row that has grown from total to stored since it was read.
      <4>2. PICK stored \in Nat, booked \in Nat, total \in Nat, old \in Nat :
              stored = rows[r].tokens /\ booked = Booked(day)
              /\ total = patch.tokens /\ old = patch.event
        BY <1>5, <4>1
      <4>3. /\ total <= stored /\ stored <= booked /\ old <= booked
            /\ stored <= total + (booked - old) /\ tokens \in Nat
        BY <1>5, <4>1, <4>2
      <4>4. /\ Flushed(stored, total, Corrected(total, old, tokens)) <= booked - old + tokens
            /\ total = stored /\ stored = booked =>
                 Flushed(stored, total, Corrected(total, old, tokens)) = booked - old + tokens
        BY <4>3 DEF Flushed, Corrected
      <4> HIDE DEF day, r
      <4> QED
        BY <1>8, <4>2, <4>4
    <3> QED
      BY <1>2, <1>11, <2>2, <2>4, <3>1, <3>2, <3>3 DEF Accounted
  <2>5. CASE i # r
    <3>1. d # day
      <4> SUFFICES ASSUME d = day PROVE FALSE
        OBVIOUS
      <4>1. i \in RowsOf(day) /\ r \in RowsOf(day)
        BY <1>2, <2>1 DEF RowsOf
      <4>2. k \in CountedOn(day) /\ day \in Days
        BY <1>2, <1>6 DEF CountedOn, EventType
      <4>3. Cardinality(RowsOf(day)) = 1
        BY <4>2 DEF CountsMatchEvents
      <4>4. IsFiniteSet(RowsOf(day))
        <5>1. RowsOf(day) \in SUBSET (1 .. Len(rows)) /\ Len(rows) \in Nat
          BY DEF RowsOf, TypeOK
        <5>2. IsFiniteSet(1 .. Len(rows))
          BY <5>1, FS_Interval
        <5> QED
          BY <5>1, <5>2, FS_Subset
      <4>5. \E x : RowsOf(day) = {x}
        BY <4>3, <4>4, FS_Singleton
      <4> QED
        BY <2>5, <4>1, <4>5
    <3>2. Booked(d)' = Booked(d) /\ rows'[i] = rows[i]
      BY <1>8, <1>10, <2>5, <3>1
    <3> QED
      BY <1>11, <2>1, <2>2, <2>3, <3>2 DEF Accounted
  <2> QED
    BY <2>4, <2>5
<1>13. ASSUME NEW x \in Calls PROVE pc'[x] # "patching"
  <2>1. x \in Sessions /\ c \in Sessions
    BY DEF Sessions
  <2>2. CASE x = c
    BY <2>1, <2>2 DEF Patch, Goto, TypeOK
  <2>3. CASE x # c
    <3>1. pc'[x] = pc[x]
      BY <2>1, <2>3 DEF Patch, Goto, TypeOK
    <3> QED
      BY <1>1, <2>3, <3>1 DEF LoopHeld, Sessions
  <2> QED
    BY <2>2, <2>3
<1> QED
  BY <1>8, <1>12, <1>13 DEF AllAccounted

\* Nothing undoes a wipe or a call booked across midnight, but a wipe.
LEMMA DisturbedStays == TypeOK /\ [Next]_vars /\ Disturbed => Disturbed'
<1> SUFFICES ASSUME TypeOK, [Next]_vars, Disturbed PROVE Disturbed'
  OBVIOUS
<1>0. UNCHANGED chain => (Wiped => Wiped')
  BY DEF Wiped
<1>1. ASSUME NEW h \in Sessions, NEW prev \in Hashes, AppendAudit(h, prev)
      PROVE  (Wiped => Wiped') /\ (h \in Wipers => Wiped')
  BY <1>1, WipedStays
<1>2. CASE \E c \in Calls : Record(c)
  <2>1. UNCHANGED chain
    BY <1>2 DEF Record
  <2>2. AcrossMidnight => AcrossMidnight'
    <3>1. PICK c \in Calls : events' = Append(events, NewEvent(c))
      BY <1>2 DEF Record
    <3>2. \A i \in DOMAIN events : i \in DOMAIN events' /\ events'[i] = events[i]
      BY <3>1, EventTyped DEF TypeOK
    <3> QED
      BY <3>2 DEF AcrossMidnight
  <2> QED
    BY <1>0, <2>1, <2>2 DEF Disturbed
<1>3. CASE \E c \in Calls : Patch(c)
  <2>1. UNCHANGED chain
    BY <1>3 DEF Patch
  <2>2. /\ DOMAIN events' = DOMAIN events
        /\ \A i \in DOMAIN events : events'[i].day = events[i].day
                                   /\ events'[i].counted = events[i].counted
    <3>1. \A i \in DOMAIN events : events[i] \in EventType
      BY ElementOfSeq DEF TypeOK
    <3> QED
      BY <1>3, <3>1 DEF Patch, EventType
  <2>3. AcrossMidnight => AcrossMidnight'
    BY <2>2 DEF AcrossMidnight
  <2> QED
    BY <1>0, <2>1, <2>3 DEF Disturbed
<1>4. CASE \E h \in Wipers : Wipe(h)
  <2>1. PICK h \in Wipers : Wipe(h) /\ h \in Sessions
    BY <1>4 DEF Sessions
  <2>2. AppendAudit(h, LastHash(chain)) /\ LastHash(chain) \in Hashes
    BY <2>1, LastHashTyped DEF Wipe
  <2> QED
    BY <1>1, <2>1, <2>2 DEF Disturbed
<1>5. CASE \E h \in Savers \cup Limits : CommitSetting(h) \/ CommitLimits(h)
  <2>1. PICK h \in Savers \cup Limits : (CommitSetting(h) \/ CommitLimits(h)) /\ h \in Sessions
    BY <1>5 DEF Sessions
  <2>2. AppendAudit(h, top[h]) /\ top[h] \in Hashes /\ UNCHANGED events
    BY <2>1 DEF CommitSetting, CommitLimits, TypeOK
  <2> QED
    BY <1>1, <2>1, <2>2 DEF Disturbed, AcrossMidnight
<1>6. CASE UNCHANGED <<events, chain>>
  BY <1>0, <1>6 DEF Disturbed, AcrossMidnight
<1> QED
  BY <1>2, <1>3, <1>4, <1>5, <1>6
  DEF Next, vars, tables, Tick, Decide, Insert, ReadEvent, EventGone, StartSave,
      LoadUser, FormArrives, ReadHash, Locked

LEMMA TokensStep ==
    TypeOK /\ CountsMatchEvents /\ EventsInv /\ TokensInv /\ [Next]_vars => TokensInv'
<1> SUFFICES ASSUME TypeOK, CountsMatchEvents, EventsInv, TokensInv, [Next]_vars,
                    ~Disturbed'
             PROVE  AllAccounted'
  BY LoopStep DEF TokensInv
<1>1. ~Disturbed /\ AllAccounted /\ LoopHeld /\ IdsOwned /\ ~AcrossMidnight
  BY DisturbedStays DEF TokensInv, EventsInv, Disturbed
<1>2. CASE \E c \in Calls : Record(c)
  BY <1>1, <1>2, RecordTokens
<1>3. CASE \E c \in Calls : ReadEvent(c)
  BY <1>1, <1>3, ReadTokens
<1>4. CASE \E c \in Calls : Patch(c)
  BY <1>1, <1>4, PatchTokens
<1>5. CASE \E h \in Wipers : Wipe(h)
  <2>1. PICK h \in Wipers : Wipe(h) /\ h \in Sessions
    BY <1>5 DEF Sessions
  <2>2. AppendAudit(h, LastHash(chain)) /\ LastHash(chain) \in Hashes
    BY <2>1, LastHashTyped DEF Wipe
  <2> QED
    BY <2>1, <2>2, WipedStays DEF Disturbed
<1>6. CASE \E c \in Calls : Decide(c) \/ Insert(c) \/ EventGone(c)
  <2>1. PICK c \in Calls : Decide(c) \/ Insert(c) \/ EventGone(c)
    BY <1>6
  <2>2. UNCHANGED <<events, rows, id, patch>>
    BY <2>1 DEF Decide, Insert, EventGone, tables
  <2>3. \A x \in Calls : pc'[x] = "patching" => pc[x] = "patching"
    BY <2>1 DEF Decide, Insert, EventGone, Goto, TypeOK, Sessions
  <2> QED
    BY <1>1, <2>2, <2>3, TokensUntouched
<1>7. CASE \E h \in Savers \cup Limits : \/ StartSave(h) \/ CommitSetting(h) \/ LoadUser(h)
                                         \/ FormArrives(h) \/ CommitLimits(h)
  <2>1. PICK h \in Savers \cup Limits : \/ StartSave(h) \/ CommitSetting(h) \/ LoadUser(h)
                                         \/ FormArrives(h) \/ CommitLimits(h)
    BY <1>7
  <2>2. UNCHANGED <<events, rows, id, patch>>
    BY <2>1 DEF StartSave, CommitSetting, LoadUser, FormArrives, CommitLimits, ReadHash, tables
  <2>3. \A x \in Calls : pc'[x] = "patching" => pc[x] = "patching"
    BY <2>1 DEF StartSave, CommitSetting, LoadUser, FormArrives, CommitLimits, Goto, TypeOK, Sessions
  <2> QED
    BY <1>1, <2>2, <2>3, TokensUntouched
<1>8. CASE \E s \in Sessions : Locked(s)
  <2>1. PICK s \in Sessions : Locked(s)
    BY <1>8
  <2>2. /\ UNCHANGED <<events, rows, id>>
        /\ \A x \in Sessions : pc'[x] = IF x = s THEN "done" ELSE pc[x]
        /\ patch' = IF pc[s] = "patching" THEN Unread ELSE patch
    BY <2>1 DEF Locked, TypeOK, tables
  <2>3. ASSUME NEW x \in Calls, pc'[x] = "patching" PROVE pc[x] = "patching" /\ patch' = patch
    <3>1. x # s /\ pc[x] = "patching" /\ loop = x
      BY <1>1, <2>2, <2>3 DEF LoopHeld, Sessions
    <3> QED
      BY <1>1, <2>2, <3>1 DEF LoopHeld
  <2> QED
    BY <1>1, <2>2, <2>3, TokensUntouched
<1>9. CASE Tick \/ UNCHANGED vars
  BY <1>1, <1>9, TokensUntouched DEF Tick, vars, tables
<1> QED
  BY <1>2, <1>3, <1>4, <1>5, <1>6, <1>7, <1>8, <1>9 DEF Next

\* Unless usage was deleted or a call was booked across midnight, a day shows the
\* tokens of its events: never more, and fewer only if an early call was recorded
\* (finalize_usage_metering and bump_usage_daily, app/audit.py).
THEOREM TokensAreAccounted == Spec => []TokensAccounted
<1>1. Init => TypeOK /\ CountsMatchEvents /\ EventsInv /\ TokensInv
  BY TypeInit, EmptyCounts, EventsInit, TokensInit DEF Init
<1>2. TypeOK /\ CountsMatchEvents /\ EventsInv /\ TokensInv /\ [Next]_vars
        => (TypeOK /\ CountsMatchEvents /\ EventsInv /\ TokensInv)'
  BY TypeStep, CountsStep, EventsStep, TokensStep
<1>3. TokensInv => TokensAccounted
  BY DEF TokensInv, Disturbed, AllAccounted, Accounted, Booked, TokensAccounted
<1> QED
  BY <1>1, <1>2, <1>3, PTL DEF Spec
=============================================================================
