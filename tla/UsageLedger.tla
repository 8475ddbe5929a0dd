---------------------------- MODULE UsageLedger ----------------------------
(***************************************************************************)
(* What the gateway books in its SQLite database about the requests of one *)
(* API key for one model: usage events, daily rollups and the token pool   *)
(* of the key's owner, and the audit rows of the handlers that change them *)
(* (app/auth/check.py, app/audit.py, app/usage_pool.py, app/privacy.py).   *)
(*                                                                         *)
(* Sessions do not flush by themselves and SELECTs open no transaction: a  *)
(* session owns the database's write lock from its first flushed statement *)
(* to its commit, and everything it has read before may be stale by then.  *)
(* A flush writes absolute values, of the columns whose value differs from *)
(* the one that was loaded.  Primary keys are reused after the newest rows *)
(* are deleted, so both tables are sequences indexed by id.                *)
(*                                                                         *)
(* Code on the event loop runs alone from one await to the next; the       *)
(* authorize() of an early call, and the handlers FastAPI runs in its      *)
(* thread pool, run beside it.                                             *)
(***************************************************************************)
EXTENDS AuditChain, FiniteSets

CONSTANTS
    Calls,       \* requests of the key
    Early,       \* those authorized in a worker thread
    Savers,      \* admin forms handled in the thread pool
    Limits,      \* posts of the user limits form, handled on the event loop
    Wipers,      \* posts of the privacy form that deletes the user's usage
    Estimate,    \* prompt tokens estimated from a call's body: its pool cost
    Actual,      \* tokens its upstream reports
    PoolLimit,
    LastDay,     \* bound on the clock
    Free, None

Sessions == Calls \cup Savers \cup Limits \cup Wipers
Days == 1..LastDay

ASSUME LedgerAssumption ==
    /\ Early \subseteq Calls
    /\ Calls \cap (Savers \cup Limits \cup Wipers) = {}
    /\ Savers \cap Limits = {} /\ Wipers \cap (Savers \cup Limits) = {}
    /\ Estimate \in [Calls -> Nat \ {0}] /\ Actual \in [Calls -> Nat]
    /\ PoolLimit \in Nat /\ LastDay \in Nat \ {0}
    /\ Free \notin Sessions /\ None \notin Nat

VARIABLES
    now,      \* the day
    lock,     \* the session that owns the write lock
    loop,     \* the session that occupies the event loop
    pc,       \* where a session is
    seen,     \* what a session has read and decided
    top,      \* the hash an audit row will be put on top of
    id,       \* the usage_event_id a call has been given
    patch,    \* what the running finalize_usage_metering has read
    events,   \* usage_events
    rows,     \* usage_daily
    pool,     \* pool_used and pool_window_start of the owner
    spent,    \* history: the tokens charged since the window started
    chain     \* audit_logs

tables == <<events, rows, pool, spent, chain>>
vars == <<now, lock, loop, pc, seen, top, id, patch, tables>>

Threads == Early \cup Savers \cup Wipers

Results == {"denied", "exhausted", "overheated", "ok"}
Unseen == [used |-> 0, start |-> 0, stamp |-> 0, result |-> "denied"]
Unread == [event |-> 0, row |-> None, tokens |-> 0]

\* pool_window_start = 0: no window has started.
Init ==
    /\ now = 1 /\ lock = Free /\ loop = Free
    /\ pc = [s \in Sessions |-> "idle"]
    /\ seen = [s \in Calls \cup Limits |-> Unseen]
    /\ top = [h \in Savers \cup Limits |-> GENESIS]
    /\ id = [c \in Calls |-> 0]
    /\ patch = Unread
    /\ events = << >> /\ rows = << >> /\ chain = << >>
    /\ pool = [used |-> 0, start |-> 0] /\ spent = 0

Goto(s, from, to) == pc[s] = from /\ pc' = [pc EXCEPT ![s] = to]

\* A turn of the event loop starts and ends; threads take no part in it.
TakeLoop(s) == loop = Free /\ loop' = s
LeaveLoop(s) == loop' = IF loop = s THEN Free ELSE loop

\* What a session has read ends with it.
Forget(s) ==
    /\ seen' = [x \in DOMAIN seen |-> IF x = s THEN Unseen ELSE seen[x]]
    /\ top' = [x \in DOMAIN top |-> IF x = s THEN GENESIS ELSE top[x]]

\* What a column holds after the flush of a session that loaded `old`.
Flushed(stored, old, new) == IF new = old THEN stored ELSE new

Tick == now < LastDay /\ now' = now + 1
        /\ UNCHANGED <<lock, loop, pc, seen, top, id, patch, tables>>
------------------------------------------------------------------------------
(* authorize(), as far as it touches the database. *)

\* _maybe_reset_window and the test of check_and_consume_pool.
WindowOver(view) == view.stamp >= view.start + 1
UsedInWindow(view) == IF WindowOver(view) THEN 0 ELSE view.used
Affordable(c, view) == UsedInWindow(view) + Estimate[c] <= PoolLimit

PossibleResults(c, view) ==
    {"denied"} \cup IF Affordable(c, view) THEN {"overheated", "ok"} ELSE {"exhausted"}

\* Mutant: authorize() awaits between its reads and its flush.
DecideAsync(c) ==
    /\ Goto(c, "idle", "inserting")
    /\ \E result \in Results :
         LET view == [used |-> pool.used, start |-> pool.start,
                      stamp |-> now, result |-> result]
         IN  result \in PossibleResults(c, view) /\ seen' = [seen EXCEPT ![c] = view]
    /\ UNCHANGED <<now, lock, loop, top, id, patch, tables>>

\* authorize() up to its first flush: the key and its owner are read, the
\* checks are made.  created_at of the event is taken before the flush waits
\* for the write lock.
Decide(c) ==
    /\ Goto(c, "idle", "inserting")
    /\ IF c \in Early THEN UNCHANGED loop ELSE TakeLoop(c)
    /\ \E result \in Results :
         LET view == [used |-> pool.used, start |-> pool.start,
                      stamp |-> now, result |-> result]
         IN  /\ result \in PossibleResults(c, view)
             /\ seen' = [seen EXCEPT ![c] = view]
    /\ UNCHANGED <<now, lock, top, id, patch, tables>>

\* db.flush() in log_usage: INSERT of the event.
Insert(c) ==
    /\ Goto(c, "inserting", "recording")
    /\ lock = Free /\ lock' = c
    /\ UNCHANGED <<now, loop, seen, top, id, patch, tables>>

Allowed(c) == seen[c].result = "ok"
Cost(c) == IF seen[c].result \in {"overheated", "ok"} THEN Estimate[c] ELSE 0
NewEvent(c) == [by |-> c, ok |-> Allowed(c), day |-> seen[c].stamp, counted |-> now,
                tokens |-> IF Allowed(c) THEN Estimate[c] ELSE 0, patchedBy |-> {}]

RowsOf(day) == {i \in DOMAIN rows : rows[i].day = day}
RowOf(day) == IF RowsOf(day) = {} THEN None ELSE CHOOSE i \in RowsOf(day) : TRUE
Bumped(row, e) == [day |-> row.day, ok |-> row.ok + IF e.ok THEN 1 ELSE 0,
                   deny |-> row.deny + IF e.ok THEN 0 ELSE 1,
                   tokens |-> row.tokens + e.tokens]

bump_usage_daily(e) ==
    rows' = IF RowsOf(now) = {}
            THEN Append(rows, Bumped([day |-> now, ok |-> 0, deny |-> 0, tokens |-> 0], e))
            ELSE [i \in DOMAIN rows |-> IF i \in RowsOf(now) THEN Bumped(rows[i], e)
                                                             ELSE rows[i]]

ChargePool(c) ==
    LET view == seen[c]
        restarts == WindowOver(view)
    IN  IF view.result = "denied" THEN UNCHANGED <<pool, spent>>
        ELSE /\ pool' = [used |-> Flushed(pool.used, view.used, UsedInWindow(view) + Cost(c)),
                         start |-> IF restarts THEN view.stamp ELSE pool.start]
             /\ spent' = IF pool'.start # pool.start THEN Cost(c) ELSE spent + Cost(c)

\* Mutant: the id of the newest event is taken before the insert.
LastId == IF events = << >> THEN 1 ELSE Len(events)

\* usage_events has no AUTOINCREMENT.
NewId == Len(events) + 1

\* The rest of log_usage, check_quota_alert and the commit.  Nobody else
\* writes meanwhile, so the rollup is read and written in one step.
Record(c) ==
    /\ Goto(c, "recording", IF Allowed(c) THEN "open" ELSE "done")
    /\ lock' = Free /\ LeaveLoop(c)
    /\ events' = Append(events, NewEvent(c))
    /\ id' = [id EXCEPT ![c] = NewId]
    /\ bump_usage_daily(NewEvent(c))
    /\ ChargePool(c)
    /\ Forget(c)
    /\ UNCHANGED <<now, patch, chain>>
------------------------------------------------------------------------------
(* finalize_usage_metering, on the event loop. *)

ReadEvent(c) ==
    /\ Goto(c, "open", "patching")
    /\ id[c] \in DOMAIN events
    /\ TakeLoop(c)
    /\ LET e == events[id[c]]
           row == RowOf(e.day)
       IN  patch' = [event |-> e.tokens, row |-> row,
                     tokens |-> IF row = None THEN 0 ELSE rows[row].tokens]
    /\ UNCHANGED <<now, lock, seen, top, id, tables>>

\* The event is gone: return.
EventGone(c) ==
    /\ Goto(c, "open", "done")
    /\ id[c] \notin DOMAIN events /\ loop = Free
    /\ UNCHANGED <<now, lock, loop, seen, top, id, patch, tables>>

\* Mutant: the estimate stays counted.
CorrectedWithoutEstimate(total, old, new) == total + new

\* The rollup's tokens with a call's estimate replaced, at least 0.
Corrected(total, old, new) == IF total + new < old THEN 0 ELSE total + new - old

\* An UPDATE that finds its row deleted rolls the session back.
RowsGone(c) == id[c] \notin DOMAIN events \/ patch.row \notin DOMAIN rows \cup {None}

Patch(c) ==
    /\ Goto(c, "patching", "done") /\ lock = Free /\ LeaveLoop(c)
    /\ patch' = Unread
    /\ IF RowsGone(c)
       THEN UNCHANGED <<events, rows>>
       ELSE \E tokens \in {patch.event, Actual[c]} :   \* not reported, or reported
              /\ events' = [events EXCEPT
                     ![id[c]].tokens = Flushed(@, patch.event, tokens),
                     ![id[c]].patchedBy = @ \cup {c}]
              /\ rows' = IF patch.row = None THEN rows
                         ELSE [rows EXCEPT ![patch.row].tokens =
                                Flushed(@, patch.tokens,
                                        Corrected(patch.tokens, patch.event, tokens))]
    /\ UNCHANGED <<now, lock, seen, top, id, pool, spent, chain>>
------------------------------------------------------------------------------
(* The handlers that write an audit row. *)

\* users_grant_limits_save loads the user, then awaits the form.
LoadUser(h) ==
    /\ Goto(h, "idle", "awaitingForm") /\ loop = Free
    /\ seen' = [seen EXCEPT ![h].used = pool.used]
    /\ UNCHANGED <<now, lock, loop, top, id, patch, tables>>

\* write_audit reads the last hash; a form of the thread pool starts here.
ReadHash(h) ==
    /\ top' = [top EXCEPT ![h] = LastHash(chain)]
    /\ UNCHANGED <<now, lock, seen, id, patch, tables>>

FormArrives(h) == Goto(h, "awaitingForm", "saving") /\ TakeLoop(h) /\ ReadHash(h)

StartSave(h) == Goto(h, "idle", "saving") /\ UNCHANGED loop /\ ReadHash(h)

AppendAudit(h, prev) == chain' = write_audit(chain, prev, h)

\* settings_system_save and the other forms: flush and commit of a setting that
\* this module does not model.
CommitSetting(h) ==
    /\ Goto(h, "saving", "done") /\ lock = Free /\ Forget(h)
    /\ AppendAudit(h, top[h])
    /\ UNCHANGED <<now, lock, loop, id, patch, events, rows, pool, spent>>

\* apply_user_limits_from_form with or without pool_reset_now.
CommitLimits(h) ==
    /\ Goto(h, "saving", "done") /\ lock = Free /\ LeaveLoop(h) /\ Forget(h)
    /\ AppendAudit(h, top[h])
    /\ \/ UNCHANGED <<pool, spent>>
       \/ /\ pool' = [used |-> Flushed(pool.used, seen[h].used, 0), start |-> now]
          /\ spent' = 0
    /\ UNCHANGED <<now, lock, id, patch, events, rows>>

\* Mutant: wipe_usage_for_keys leaves the rollup.
WipeEventsOnly(h) ==
    /\ Goto(h, "idle", "done") /\ lock = Free
    /\ events' = << >>
    /\ AppendAudit(h, LastHash(chain))
    /\ UNCHANGED <<now, lock, loop, seen, top, id, patch, rows, pool, spent>>

\* privacy_wipe_usage deletes first, so its audit row is written under the lock.
Wipe(h) ==
    /\ Goto(h, "idle", "done") /\ lock = Free
    /\ events' = << >> /\ rows' = << >>
    /\ AppendAudit(h, LastHash(chain))
    /\ UNCHANGED <<now, lock, loop, seen, top, id, patch, pool, spent>>
------------------------------------------------------------------------------
\* SQLite's busy timeout ends the wait for the lock; the session rolls back.
Locked(s) ==
    /\ pc[s] \in {"inserting", "patching", "saving"} /\ lock # Free
    /\ pc' = [pc EXCEPT ![s] = "done"] /\ LeaveLoop(s) /\ Forget(s)
    /\ patch' = IF pc[s] = "patching" THEN Unread ELSE patch
    /\ UNCHANGED <<now, lock, id, tables>>

Next ==
    \/ Tick
    \/ \E c \in Calls : \/ Decide(c) \/ Insert(c) \/ Record(c)
                       \/ ReadEvent(c) \/ EventGone(c) \/ Patch(c)
    \/ \E h \in Savers : StartSave(h) \/ CommitSetting(h)
    \/ \E h \in Limits : LoadUser(h) \/ FormArrives(h) \/ CommitLimits(h)
    \/ \E h \in Wipers : Wipe(h)
    \/ \E s \in Sessions : Locked(s)

Spec == Init /\ [][Next]_vars
------------------------------------------------------------------------------
Phases == {"idle", "inserting", "recording", "open", "patching",
           "awaitingForm", "saving", "done"}
\* deny stands for both counters of refused requests.
EventType == [by : Calls, ok : BOOLEAN, day : Nat, counted : Days,
              tokens : Nat, patchedBy : SUBSET Calls]
RowType == [day : Days, ok : Nat, deny : Nat, tokens : Nat]
ViewType == [used : Nat, start : Nat, stamp : Nat, result : Results]
Hashes == Seq(Sessions)

TypeOK ==
    /\ now \in Days
    /\ lock \in Sessions \cup {Free} /\ loop \in Sessions \cup {Free}
    /\ pc \in [Sessions -> Phases]
    /\ seen \in [Calls \cup Limits -> ViewType]
    /\ top \in [Savers \cup Limits -> Hashes]
    /\ id \in [Calls -> Nat]
    /\ patch \in [event : Nat, row : Nat \cup {None}, tokens : Nat]
    /\ events \in Seq(EventType) /\ rows \in Seq(RowType)
    /\ pool \in [used : Nat, start : Nat] /\ spent \in Nat
    /\ chain \in Seq([by : Sessions, prev : Hashes, hash : Hashes])

CountedOn(d) == {i \in DOMAIN events : events[i].counted = d}

\* The sum of the tokens of some events, as the number of their tokens.
TokensOf(ids) == Cardinality(UNION {{i} \X (1 .. events[i].tokens) : i \in ids})

\* The counts of a day's rollup are the numbers of the events counted in it,
\* through every race, reset, wipe and lock timeout: a day has one row and no
\* count is lost (bump_usage_daily runs under the write lock).
CountsMatchEvents ==
    \A d \in Days :
        /\ Cardinality(RowsOf(d)) = IF CountedOn(d) = {} THEN 0 ELSE 1
        /\ \A r \in RowsOf(d) :
             /\ rows[r].ok = Cardinality({i \in CountedOn(d) : events[i].ok})
             /\ rows[r].deny = Cardinality({i \in CountedOn(d) : ~events[i].ok})

Wiped == \E i \in DOMAIN chain : chain[i].by \in Wipers
AcrossMidnight == \E i \in DOMAIN events : events[i].day # events[i].counted
ThreadRecorded == \E c \in Early : id[c] # 0

\* finalize_usage_metering corrects the rollup by the difference between the
\* estimate and the tokens the upstream reports.  Unless usage was deleted or
\* a call was booked across midnight, a day never shows more tokens than its
\* events, and fewer only if an early call was recorded (it may commit
\* between the read and the write of a finalize on the event loop).
TokensAccounted ==
    ~Wiped /\ ~AcrossMidnight =>
        \A i \in DOMAIN rows :
            LET booked == TokensOf(CountedOn(rows[i].day))
            IN  /\ rows[i].tokens <= booked
                /\ ThreadRecorded \/ rows[i].tokens = booked

\* check_and_consume_pool compares and charges a value it has read before the
\* lock.  The tokens charged in a window exceed the user's budget only if an
\* early call was charged beside the event loop; resets of the window by time
\* or by the admin, denials after the charge and lock timeouts never do it.
BudgetHeld == spent <= PoolLimit \/ ThreadRecorded

\* verify_audit_chain reports a break at a row only if its writer had read the
\* last hash before the write lock, and it or the writer of the row before it
\* ran beside the event loop.  A handler that deletes first never breaks it.
BreaksNeedThreads ==
    \A i \in Breaks(chain) :
        /\ chain[i].by \notin Wipers
        /\ i > 1
        /\ chain[i].by \in Threads \/ chain[i - 1].by \in Threads

\* A call's measurements end up in its own event ("Patch UsageEvent after
\* upstream finishes", audit.py): ids are not taken over by later events.
PatchedByItsCall ==
    \A i \in DOMAIN events : events[i].patchedBy \subseteq {events[i].by}

\* As long as nothing was deleted, that is so.
PatchedAfterWipeOnly == Wiped \/ PatchedByItsCall
=============================================================================
