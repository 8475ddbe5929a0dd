# OnPrem AI Gateway: formal models

TLA+ models of the gateway in `src/app`, checked with TLC on small instances, and
theorems about them proved with TLAPS for every value of the constants. Each
definition that models code names its lines in `PROJECT.json` ("map").

## The system and its parts

The gateway stands between API clients and self-hosted model servers ("sources").
A FastAPI process (`app/main.py`) authenticates a request by its API key, applies
limits and quotas, picks a source, waits for a slot of that source, proxies the
stream, meters power and tokens, and writes usage to SQLite. Sync code runs in
worker threads, stream generators on the event loop.

| part | state | operations | what is hard | what makes it correct |
|---|---|---|---|---|
| Upstream admission gate (`auth/source_admission.py`) | per address: limit, inflight counter, holder records, sorted waiters | acquire with timeout, release by key, promotion | threads asleep on events outside the lock; timeout racing promotion; limits that change | counter equals holders, no lost wake-up while no slot has leaked, no overtaking, never more grants than the limit |
| Rate limiter (`auth/rate_limit.py`) | sliding windows, concurrency counters, daily counters per bucket | check_and_acquire, release | clock and date read before the lock; limits edited between admission and release; several buckets, denial half way | window, day and concurrency limits hold; no slot is lost |
| Priority gate (`auth/priority.py`) | global slots, waiters | acquire, release | as the admission gate | disabled by default (`global_slots=0`) |
| Authorization (`auth/check.py`) | none of its own; charges limiter, pool, usage events | authorize, log_usage, check_temperature | several side effects in a row, any of which may fail | a denied request costs nothing, an admitted one is metered once |
| Request lifecycle (`main.py`, `auth/concurrency.py`, `vision_route.py`) | lease, slot, usage event of each request | onprem_entry, auth_check, onprem_forward, stream generators, reaper | a worker thread that outlives its coroutine; disconnects at every await; ownership of the lease handed on three times | every lease is given back exactly once; no upstream without authorization |
| Anthropic stream translation (`anthropic_messages.py`) | block indices, open blocks, line buffer | bootstrap, feed, flush | interleaved text and tool calls, streams that stop anywhere | the client sees a well-formed message |
| Metering (`audit.py`, `usage_pool.py`, `data/usage_weights.py`) | usage events, daily rollups, pool windows, audit chain, alerts | log_usage, finalize_usage_metering, check_and_consume_pool, write_audit, maybe_alert | read-modify-write in concurrent sessions; deferred events that are never finalized | sums equal events, the chain verifies, one alert per threshold |
| Sources and catalog (`data/backends.py`, `data/catalog.py`, `catalog_auto_sync.py`, `web/platform/services.py`, `models.py`, `setup.py`) | source rows, catalog rows, names of sources in grants and lists | create, edit, rename one or many, delete, sync by form, worker or wizard, save the catalog | syncs that take seconds beside edits; names as references that outlive what they name; unique constraints | an administrator's choice survives a sync; a renamed source keeps all that names it |
| Fleet and load (`data/fleet_status.py`, `data/source_load.py`, `upstream_preflight.py`, `data/source_capacity.py`) | poll results, load cache with TTL | poll, get/put, preflight decision | stale entries read by the gates | inputs of the models here |
| Routing and aliases (`routing.py`, `data/routing_strategy.py`, `auth/check.py`, `model_aliases.py`) | alias rows, the round-robin cursor, calls under way | rewrite a model, pick a source, authorize, look up its address | four reads of one call with others' commits in between | a call reaches no source its key could not use |
| Grants and keys (`data/grants.py`, `web/portal/keys.py`, `teams.py`, `web/platform/users.py`, `settings.py`, `web/shared.py`) | grants and allow-lists of users, teams and keys, the default grant, keys, teams | grant, take away, list models, create, edit, rotate and revoke a key, delete a team | empty means "inherit"; forms saved over rows loaded before; limits checked before an insert | a key reaches only what its owner or team may; what was taken away or revoked stays so |
| Accounts (`web/accounts.py`, `web/invites.py`, `web/session.py`, `forgot_limit.py`) | users, invites, reset tokens, sessions | register, invite, revoke, reset, promote, switch off | rows loaded before a form is awaited; links used twice; mails sent within a transaction | what was replaced stays replaced; an invitation opens one account; the link mailed last is the one stored |
| Sidecar (`services/source-sidecar`) | none: reads sensor files | read | | |
| Pages, statistics, setup, storage | | | | |

Interactions: `authorize` charges the limiter and creates the lease
(`auth/check.py:435-471`); the lease is a value that `main.py` passes on until
`release_concurrency_lease` (`auth/concurrency.py:19-27`) gives back the limiter's
buckets, the priority gate's slot and the holder record of the admission gate.
The prepare thread of an early stream passes the lease in its result to the
generator, a ticket (`vision_route.py`) passes it to a second HTTP request. The
generator drives the stream translation and, when it ends, the metering.

## Modules

| module | models | refines / composed with |
|---|---|---|
| `SlotPool` | what a semaphore with an adjustable capacity promises | abstract |
| `SourceAdmission` | the admission gate of one upstream address | implements `SlotPool` (`PoolSpec`) |
| `RateLimiter` | the limiter, buckets given per call | |
| `Gateway` | the life of a request on the plain, early and ticket paths, with the lease, the slot and the usage event | its `ReleaseSlot`, `RefusedByGate` are the gate of `SourceAdmission` seen from one request |
| `MessageProtocol` | what a Messages client may be sent | abstract |
| `AnthropicStream` | `OpenAIToAnthropicStream` and the generator around it | implements `MessageProtocol` (`ClientSpec`) |
| `AuditChain` | the hash chain of the audit log as operators | |
| `UsageLedger` | what the sessions of one key write to SQLite: events, rollups, pool, audit rows | extends `AuditChain` |
| `Accounts` | the forms that write users, reset links and invitations | |
| `Inventory` | sources and catalog: what forms and synchronisations read and write | |
| `Aliases` | public names of models | extends `Inventory` |
| `Grants` | grants, allow-lists, teams, keys and the forms that write them | extends `Inventory` |
| `Routing` | calls against all of that, the specification of the whole and its properties | composes `Inventory`, `Aliases`, `Grants` |
| `*Proofs` | the theorems about all seven specifications: gate, limiter, request, stream, ledger, accounts, access (`RoutingProofs`) | |
| `MC*` | the instances TLC checks | |

### SourceAdmission

A call is a thread in `acquire()` and later in `release()`. `pc` says where it is:
before the lock (`arrived`), queued and not yet asleep (`queued`), asleep
(`waiting`), timed out but not back under the lock (`expired`), streaming, let
through without a slot (`ungated`) and such a call after its end (`passed`). `limit`, `inflight`, `holders` and `waiters` are
`_GateState`. Each locked section is one action: `Enter` (`TakeSlot` or
`JoinQueue`), `GiveUp`, `Finish` (which contains the whole of `release`, including
`_promote_waiters`, as `DropAndPromote`). Between them the threads interleave. A
holder record is named by the call it was made for; `release` matches by key, so a
call without a record of its own drops any record of its key. The promotion is
described by its result: a front of the queue, as large as fits. The clock that
orders equal priorities is taken to be strictly increasing.

### RateLimiter

`ReadClock` is the part of `check_and_acquire` before the lock, `CheckAndAcquire`
the locked section: quotas, windows and concurrency are checked in the code's order
over the buckets in the code's order; the first failure denies, with the effects
that the reads up to there have on the tables (`DailyRead`, `WindowsRead`). The
limits are chosen anew for each call: an administrator may have edited them.
`ReadAlertDate` and `AlertRead` are `quota_usage_pct` before and under the lock, which
`authorize` calls for every admitted request, before the release of a stream and after that
of a call answered at once: what looks like a read moves the counters to its date. The
ghosts `counted` and `rated` remember in which buckets a call was recorded, `late` whether
it was overtaken between reading the clock and taking the lock, `behind` whether it, or
its alert check, came with a date older than one used before.

### Gateway

Each request has a coroutine or response generator (`gen`) and, on the early path,
a prepare thread (`thr`). `leased` is the lease in the limiter, `slots` the holder
records of the upstream gate, `event` the usage event. Every place where the code
may stop is an action: denials, the two gates, exceptions in the handler and in the
thread, a client that goes away before, during and after the prepare task, the
reaper, an upstream that refuses. `lost` marks the requests for which the code
leaves nobody to release the lease; `doubled` marks a second release. A ticket is not
marked as used (`parse_forward_ticket` looks at its signature and time), so the hop may be
made again while or after the first one streams: `replays` says where each of these further
hops is, and each of them releases the lease of its ticket when it ends. Their number is
bounded by `Hops`; the 90 seconds are not modelled, a hop may come at any time. `SourceAdmission` and
`RateLimiter` model calls whose lease is released once, which is all calls but those whose
ticket was presented twice; for these `leased` follows whose lease is out, not whose count a
second release lowers.

### AnthropicStream

An item is a delta of text, a delta of a tool call, or the end mark. Each event the
translator sends is a step of its own, so the refinement to `MessageProtocol` sees
them one by one. `Feed` takes a chunk of up to `MaxItems` items, `Flush` what is
left in the line buffer and the closing events, `Fail` the error event of an early
start, `Disconnect` the client's leaving at any point.

### UsageLedger and AuditChain

A session is a call (`Calls`; those in `Early` run `authorize` in a worker thread) or
a form: one the thread pool handles (`Savers`), one the event loop handles and that
awaits its body between two reads (`Limits`), one that deletes first (`Wipers`).
What the model rests on:

* `make_session_factory` sets `autoflush=False`, and a SELECT opens no transaction in
  SQLite: a session reads without a lock, takes the database's write lock with its
  first flushed statement and keeps it to its commit. So `Decide` (the reads and
  checks of `authorize`), `Insert` (the flush in `log_usage`) and `Record` (the rest, up
  to the commit) are separate steps, and `seen` is what was read in the first.
* A flush writes the columns whose value differs from the value loaded, as absolute
  values (`Flushed`). A stale read therefore overwrites, and a change back to the
  loaded value writes nothing.
* Code on the event loop keeps it from one await to the next (`loop`); threads do not.
* `usage_events` has no AUTOINCREMENT, so an id is reused when the newest row has been
  deleted. The tables are sequences indexed by id (`NewId`). Events of other keys,
  which would keep ids apart, are left out.
* The wait for the write lock ends with SQLite's busy timeout, and the session rolls
  back (`Locked`).
* A day is the unit of the clock. The event's stamp (`stamp`) is taken before the wait
  for the lock, the rollup's date (`counted`) after it. The pool window is one day.

`ReadEvent` and `Patch` are `finalize_usage_metering` before and after its wait for the
lock, `EventGone` its early return, `RowsGone` the UPDATE that finds no row.
`tokens` stands for `tokens_in` and `tokens_out`, which are treated alike; `deny` for both
counters of refused requests. In `AuditChain` a hash is the sequence of the writers it
covers (hashing without collisions), and `Breaks` is the set of the rows at which
`verify_audit_chain` stops; the code reports the first one. `spent` is a ghost: what
was charged since the window in force began.

### Accounts

A request (`Requests`, of a `Kind`) is one form post with its database session. As in
`UsageLedger` it reads without a lock, one query a step: `at` goes from `new` over
`checked` (`require_platform_admin`) or `found` (the reset link) to `loaded`, and `seen`
is the row as it was loaded. Between the last query and the commit other requests run:
`users_update` awaits its form there, the others are threads of the pool.

* `Save` is the flush: only columns whose value differs from `seen` are written
  (`Flushed`). The operator's own row is loaded once, by `require_platform_admin`.
* A password is the name of the request that set it (hashes are salted, so a new
  hash always differs from the old one), a link the name of the request that made it.
* `forgot_submit` and `users_send_reset` delete the user's open links, send the mail and
  commit, with the write lock held from the DELETE on (`writer`); the other requests take
  the lock and commit in one step. A failed mail rolls back (`MailFails`).
* `reset_submit` finds the row of its link (`LoadToken`) and then compares the row's
  `expires_at`, which SQLite returns without a time zone, with a time that has one. That
  raises, so that the lines after it, which would set the password and mark the link as
  used, are never reached with a link in force: `ResetRaises` is all that follows. A link
  is therefore never marked as used, and a reset link is deleted or stays.
* `registration_invites` has no AUTOINCREMENT: `NewId` gives an id again when the newest
  rows are gone, and UPDATE and DELETE find their row by id (`Closed`, `RowsWith`). A DELETE
  of no row is not refused (`RevokeInvite`).
* `lapsed` are the links past `RESET_TTL` or `INVITE_TTL`; that of an invitation is
  checked when it is loaded and once more under the lock.
* `joined` and `mailed` are ghosts: who registered with an invitation, and the link
  mailed last.

### Inventory, Aliases, Grants and Routing

One specification (`Routing!Spec`) in four modules, because the tables name each other:
a grant, a list, a catalog row, a pin and a call name a source by its name, not by its id.
A request (`Requests`, with a `kind` that `Init` chooses among `Starts`) is a form, a
synchronisation or a call of a client. `at` says where it is, `read` holds the rows it has
loaded (by id), `draft` the same rows as it will write them, `fresh` the rows it will insert,
`plan` what it will write about the grants of somebody. The rules are those of `Accounts`:
reads take no lock, a flush writes the columns that differ from the row as loaded
(`Flushed`, `Updated`), a commit is one step, and a row of an UPDATE that is gone rolls back.

* The handlers that are `async def` run on the event loop and await their form: what they
  load before that is stale (`LoadGrants`, `LoadKey`, `LoadAlias`, and the switch of teams in
  `LoadSettings`, kept in `switch`), and from there on they keep the loop (`loop`) until they
  answer (`TakeLoop`, `End`). The others run in the thread pool beside them. `Refuse` ends any
  form that fails a check or finds no row.
* `register_submit` is one of the others: it loads the settings with the default grant
  (`LoadSettings`), hashes the password, and grants from the row it has loaded (`Register`), whatever
  the settings say by then.
* `SaveAll` renames all sources of a form at once, through free names in the code and in one
  step here; `RenameRows` is what `rename_source` does to every table that is modelled.
  Usage rows and limits, which are renamed alike, are not.
* `SyncSource` asks one upstream and reads the rows of its name; `SyncCommit` writes all that
  the session has found. The setting that allows to prune is read once, when the
  synchronisation begins (`BeginSync`). Whether an upstream lists its models or does not answer
  (`Listings`) is open at every visit. `disabled_by` is what tells the
  switch of an administrator from that of a sync.
* `PostModels` is the form of the whole catalog: rows that were not on the page have no box.
* A grant is a name. Deleting a source (`DeleteSource`) leaves what names it, and a source of
  that name inherits it. `ticked` in a plan is kept for the properties.
* `EffectiveSources` and `EffectiveModels` are `effective_services` and `effective_models`.
  `MayUse` in `Routing` says the same without ceilings, from the sentence above the code
  ("Keys may only use a subset of their ceiling. Empty key fields inherit the grant"), so that
  `CallsStayGranted` does not compare the code with itself.
* A call is rewritten and routed in one step (`Route`, or `RouteNamed` where the path names the
  source), authorized in a second (`Authorize`: the key is looked up by its secret again) and
  looks up the address of the source's name in a third (`Reach`). `auth_check` keeps the loop
  over the three; the streams of Anthropic clients are prepared in a worker thread beside
  it (`Prepare` takes the loop or does not). Which of the sources that
  tie is picked is open, but for pins and the round-robin turn: the load is not modelled.
* `moved`, `cleared` and `reached` are ghosts: the names that changed hands while a
  request was under way, the sources a call's key could use when it was authorized, and the
  source that was called. A name changes hands when another source has it, and also when a
  form renames rows away from it: a form of sources that was loaded before a rename writes
  grants of the old name to the new one although that name belongs to another source by then.

## Runs

| run | question | bounds | result |
|---|---|---|---|
| `admission` | counter, wake-ups, order of grants, refinement of the pool, who can cost a stream its slot, calls answered, queue drains | 3 calls, 2 keys of different priority, limits none, 1, 2 | holds |
| `admission_leak` | a refused call holds nothing | 4 calls, limit 1 | **violated** |
| `admission_steal` | streams keep their slot | 4 calls, limits none, 1 | **violated** |
| `rate_limits` | counters under changing limits, windows, daily quotas with dates of calls and alert checks that come late | 2 keys of one user; either 3 calls with concurrency limits none, 1, 2, 1 or 2 calls a window of 1, a daily quota of 2 and a clock to 2, or 4 calls with quotas of 2 and alert checks (`OneGroup`); one midnight; two calls of one key are symmetric | holds |
| `gateway_lease` | ownership of leases and slots, and that they come back | one request on each path, two of them with one key; a ticket presented once or twice | holds |
| `gateway_reap` | a lease nobody adopted is released | as above | **violated** |
| `stream_protocol` | well-formed messages, streams that close complete | 2 tool calls, 2 deltas per chunk, 3 chunks | holds |
| `stream_json` | a client of events gets events | 1 delta, 1 chunk, JSON answers allowed | **violated** |
| `ledger` | rollups equal events, budget of a window, audit chain, events patched by their calls | 2 calls on the loop, 1 in a thread, 2 limits forms, 1 setting, 1 wipe, four of these seven (`FourStart`); 2 days; budget 2 | holds |
| `access` | what may widen a key, come back after it was taken away, or reach a source never granted; renames, syncs, limits of keys | 2 sources and a free third name, 2 models, an alias, an operator, a user, a team, 2 keys, 4 forms as ticked (`MCTicks`), at most 3 active keys a user; any 2 of 25 kinds of requests (the worker's sync, the 26th, is in a triple), or 12 chains of 3 (`Threes`) and 4 starts with teams on and pruning off | holds |
| `accounts` | what stale rows may overwrite, rights and the last operator, links in force, links mailed, invitations | 2 operators (alike), 1 user; 12 forms, of which any 3, all 4 about an invitation, or 3 that mail a link and 1 that is posted with one (`FewStart`); of two of a kind the first starts first (`InOrder`) | holds |
| `accounts_reset` | a link in force sets the password | as above | **violated** |

Why the bounds are enough: the admission gate compares pairs of calls, and three
calls of two keys give a holder that ends, a waiter and an overtaker, two of them of
one key; the violations, which need a fourth, have four. A bucket sees at most three calls at a limit of two, so that the
limit is reached and exceeded by one; of the four calls with quotas, one has a late alert
check that resets the new day after two others. The requests of the gateway interact only
through the records of one key, which two of the three share. Two tool calls and
two deltas a chunk give every order of text and tools; three chunks let a stream go
on after its end mark. The races of the ledger are between a reader and one writer
that commits meanwhile; four sessions give two of these pairs, or one after a wipe and
a reset. A second day is what midnight and the end of a window need. The two limits
forms are interchangeable (`LimitsSymmetry`), the calls are not: their costs differ. A race of
accounts is between a form that has loaded a row and one or two that commit meanwhile;
the links of a user need two or three forms that mail one, of which some fail, and an invitation
its maker, two visitors and a revocation. The races of access are between a request that has read something and one that
commits meanwhile: all pairs of kinds. A name that is given on needs a delete or rename, a
create and the request that still uses the name; rows that change twice need two writers beside
a reader: these are the triples, among them a stale rename (`update` beside `save_all`) before a form that grants. Three names let two sources swap theirs or
move to a free one. Teams are on in the starts where a form needs them. The theorems drop
these bounds.

All runs but `access` have CHECK_DEADLOCK FALSE: calls and requests are made once and streams
end, so every behaviour stops. In `access` deadlock is checked: the only state without a step
but `Finished` would be one in which requests wait for the event loop for ever.

The type invariants of the other six specifications are theorems and are not checked
by the runs any more; `Routing!TypeOK`, which contains the unique constraints of the tables
and the references of keys to teams, is checked by `access` and proved (`TablesStayWellFormed`).

### The five violations

They are in `PROJECT.json` under "findings", with the line of the code and the
line of the comment or the test that says otherwise.

* `admission_leak`: the timeout of a waiter races its promotion. `acquire` returns
  False, the holder record stays for ever, and the address has one slot less.
* `admission_steal`: a lease names the upstream even if no slot was taken (no limit
  known at that time); its release frees the slot of another stream of the key.
* `gateway_reap`: a thread cannot be cancelled; the lease that it takes after its
  task was cancelled is in a result nobody reads.
* `accounts_reset`: every link that was mailed and not used ends in a TypeError: its time
  is compared with one that has a time zone.
* `stream_json`: `flush` sends a bare JSON body into an event stream.

### What the properties make exceptions for

Four more things the code does are met in the models, and the properties that hold name
them as their exceptions; the code and what it says of itself disagree there too.

* `CountedUntilRelease` is about buckets that always had a limit: `release`
  (`auth/rate_limit.py:174`) lowers every bucket of a request, also one that had no limit when
  the request was admitted. If the limit is set in between, the count of another running request
  is given back ("Concurrency held until explicit release", `tests/test_concurrency_stream.py`).
* `NoDoubleRelease` and `StreamHoldsLease` are about tickets that were presented once
  (`Replayed`): a ticket is good for 90 s and any number of hops (`vision_route.py:306-326`). The
  second hop of a request whose first one has ended streams without a lease and releases it again.
* `NothingGrantedUnasked` lets the form that adds sources bring back what was granted when it
  was begun (`web/platform/users.py:198`): it loads the grants before it has arrived and writes them back
  with what it adds, although it answers "Added ..." with the new sources only.
* It also lets a registration grant the default as it was when that began (`web/accounts.py:278`
  and `405`), although the administrator who has emptied it meanwhile was told "Saved: new users get
  no sources until you grant them." (`web/platform/settings.py:195`).

### Fairness

`SourceAdmission!FairSpec`: a thread that can run runs (`Enter`, `StartWait`,
`Wake`, `GiveUp`) and a stream ends (`Finish`: the upstream ends it, the client
leaves, or a read timeout or the max-hold watchdog closes it). New calls are not
forced. `EveryCallAnswered` assumes in addition that a wait times out
(`event.wait` always has a finite timeout); `QueueDrains` does not.
`Gateway!FairSpec`: coroutines, threads and upstream calls go on, and a ticket is
presented or expires. No mishap is forced, and no second hop, nor its end. `AnthropicStream!FairSpec`: the
generator goes on; that the upstream ends is not assumed.

## Theorems

All proofs are checked by tlapm to the last leaf. They assume only the named
assumptions on the constants (`AdmissionAssumption`, `LimiterAssumption`,
`GatewayAssumption`, `StreamAssumption`, `LedgerAssumption`, `AccountsAssumption`, and of access
`InventoryAssumption`, `GrantsAssumption`, `RoutingAssumption`) and what a theorem states.

* `SourceAdmissionProofs`: the inductive invariant `IInv` adds `QueueShape` to the
  properties: who waits is in the queue's phases and not signalled, a holder that is
  still queued has been signalled, a call that has ended left no record, and a gate in use
  has a positive limit. Without it neither the count of holders (a waiter promoted twice) nor
  `QueueHasHolder` (a promotion with limit 0) is inductive. From it follow the four invariants,
  that grants follow the queue, and the refinement `GateImplementsPool`. A holder alone wakes
  nobody: `NoLostWakeup` is about holders that will still release, and holds while no slot has
  leaked; behind the leaked slots of `admission_leak` a call waits for its own timeout, even
  after the limit has been raised.
  `StreamsAreBacked` says that a stream loses its slot only to a call of its own key that
  bypassed the gate and has ended (`SlotLostToBypassOnly`); its inductive form
  `SlotsKept` says the same of calls that were promoted and have not woken up, and
  `admission_steal` shows that the exception does happen.
* `RateLimiterProofs`: the types (what is left of a pruned window is a sequence, because
  some position is the first one to keep), and `CInv` for the concurrency counters. A call is counted only in
  buckets its release looks at; every counter lies between the number of held
  calls counted in it (`CountedUntilRelease`, for buckets that always had a limit) and
  the same number from above (`NoPhantomInflight`). `WindowInv`: a window keeps one entry for
  each request that was recorded since its beginning, as seen by a clock at least as new as
  those of all calls that have been through; a clock that is older may prune more, which is why
  overtaken calls (`late`) are left out of `RateHeld`. `DayInv`: a bucket none of whose calls is
  `behind` counts the requests of the newest day it was asked about and admitted none on a
  later one; a denial and an alert check move it alike (`ReadDays`). It is proved for a set of quotas that is not empty and does not contain 0, which
  the code reads as no quota (`WindowLimitsHold`, `DailyQuotasHold`).
* `GatewayProofs`: `IInv` says which phases of coroutine and thread go together
  (`PhasesFit`) and that a lease is out exactly if somebody answers for it or it is
  lost (`LeaseFits`), the first of both unless its ticket was presented twice, and that only
  tickets of admitted requests are (`ReplaysFit`). At most one release and a stream that holds its
  lease, both of requests whose ticket was presented once at most, that every stream was admitted, and
  the return of the lease follow for any set of requests and of further hops. `SlotsInv` counts holder records by key, because a
  release drops any record of its key: every step that adds a record to a key makes one of its
  requests `MayHold`, and a request stops being one only by a release that drops a record if
  there is one (`SlotsAreBounded`).
* `AnthropicStreamProofs`: `StreamInv` relates what was sent to what the translator
  remembers: started blocks are exactly the indices below `_next_block_index`, live
  blocks exactly the open text and tool blocks. From it follow `BlocksDistinct` and
  the refinement of `MessageProtocol` for chunks and streams of any length, provided
  that no upstream answers a stream with JSON (`stream_json`).
* `UsageLedgerProofs`: five inductive invariants beside the types. `ChainInv`: a form
  of the event loop that has read the last hash still has the loop (`LoopOwned`), so
  only threads can have appended a row since (`ChainBreaksNeedThreads`). `BudgetInv`:
  while no early call is recorded, what a call of the event loop has read of the pool
  is still so when it charges it (`Fresh`), and `spent` is at most the stored value, which
  is within the limit (`BudgetNeedsThreads`). `EventsInv`: until something is deleted, an id
  points to the event of its call (`PatchesAreOwn`). `CountsMatchEvents` is inductive with
  the types: the rollup is read and written under the lock (`CountsAreExact`). `TokensInv`: while a
  finalize holds the loop, the tokens it has read of its event are still those of the event, and
  its rollup row has only grown since, by no more than what early calls have added to the other
  events of the day (`TokensAreAccounted`). A sum of tokens is written as the number of pairs of
  an event and one of its tokens (`TokensOf`), so that it grows with the set by the theorems on
  cardinalities; a recursive sum would need induction over data.
* `AccountsProofs`: the types and all seven properties of `accounts`, for any accounts and requests. `WritersSave` puts
  the four forms that write an account into one shape: a flush of a form that changes
  a column only if it asks for that. Rights and the last operator follow with
  `TogglesOthers`, the demand to change a password with `PasswordsFresh` (a request's
  password is nowhere before it is answered, so that it differs from what it replaces).
  For invitations, `InvitesShape` says that a used one is closed for good; an id that a form has
  loaded may be another invitation's by then, but new ids are above those of the table. That
  `NewId` is above all ids of a finite table needs the least number of a set of naturals
  (`LeastNatural`), which the library's theorems on well-founded relations give. For reset links,
  `MailedShape` adds that who has mailed a link still has the lock and the row of its user, so that
  the next link stored is the last one mailed (`MailedLinksAreStored`).
* `RoutingProofs`: all eight properties of `access`, for any sources, models, requests and
  tables to begin with. `Inv` is the types (`Tables`: ids grow, names and pairs are unique;
  `People`: keys refer to users and teams that exist) and `Shape`, which says what a request has
  loaded and drafted by its kind and by where it is. Types alone are not inductive: a commit
  writes what was loaded steps ago, and only `Shape` tells that a synchronisation drafts rows
  of the names it has visited, or that a form saves the row it loaded. Revocations, the word of
  administrators and the types follow from it. What else a request carries across steps has an
  invariant of its own. `CallsFit`: a call between authorization and look-up has a name that has
  changed hands, or one whose holders its key might use. `KeysFit`: who has passed the limit of keys
  has the loop, so that the count is still below the limit when its key is inserted. `PlansFit`:
  every name that a posted plan would grant is ticked, kept, given by default, still granted, or has
  changed hands. A registration has no plan: it writes what it has loaded, and its user is new (`RegisterRows`).
  `FormsFit`: the plan of a removal leaves out what it takes. Of the
  operators, `RenamedOnly` says that simultaneous renames give each source the rows of its old name
  and nobody else's, `ReachShrinks` that a key whose own rows stay reaches no more when grants above it
  are taken away and the lists of those that are left stay (a list that becomes empty would widen it,
  as would a row of the key itself: those forms are the exceptions), and `AuthorizedUse` that the ceilings of the code allow no more than `MayUse`
  (`KeysUseTheirGrants`, which is stated of every state and every model and is not run).
  `NothingGrantedUnasked` was first false of a form whose rename is stale; a chain of three
  requests shows it, and `moved` was corrected.

Only model-checked: everything about fairness (`EveryCallAnswered`, `QueueDrains`,
`LeaseComesBack`, `CloseCompletes`), which the prover cannot do. Every invariant and action
property of the passing runs is a theorem.

## What is not modelled

Header and body handling, formats, logging and pages; the wording of errors. The
priority gate is off in the code. What `authorize` decides is an outcome in `Gateway`
(denied, admitted, raised). A process crash loses all of the state modelled so far,
which lives in memory, but for the ledger's tables: there a crash is a session that
stops before its commit, which leaves what a rollback (`Locked`) leaves.

Of the metering, alerts, watt-hours and latencies, the arithmetic of a cost, the
purge by retention and edits of the pool limit are not modelled.

Of sources, catalog and routing: kinds of sources (all are one kind), the score of a pattern and
tags of model ids (`name:tag` counts as its own model), the order of loads, the round-robin
cursor's loss at a restart, pins of teams, route patterns of sources without a catalog, preflight,
auto and vision routing, sampling, notes and weights of models. Of grants and keys: limits,
priorities and expiry of keys, members of teams, and who may post a form: the actors are taken to have
the rights for it (those of accounts are in `Accounts`). New accounts are users, not operators.
The forms of settings change `teams_enabled` and `catalog_prune_on_sync` and send the
other settings as they were, the number of keys a user may have among them. The list of models
that a client sees, candidates of aliases, and the pages that import and merge catalogs are not
modelled.

Two things met while reading that no run states, because no document or test says otherwise.
An operator's own key that is restricted to some sources is routed as if it were not
(`routing.py:13`), so that a call may be sent to a source that then refuses it although another
would serve it. And `keys_update` refreshes a key of a team from the database before it is
flushed (`web/portal/keys.py:433`), which drops what the form has set in the row (`PostTeamKey`):
a box "active" or a team chosen on that form is not saved, only the grants and the limits by model are.

What stays out as a component: the load cache, the pollers and the preflight return values that the
models take as inputs; alerts send messages and decide nothing; the arithmetic of weights and
the parsers of upstream answers have no state that another part relies on; the sidecar reads
sensor files; pages and statistics only read.

Of the accounts, those made by an operator (`users_create`) or without an invitation, e-mail
addresses and user names, the limiter of the public forms and what a new account does
later are not modelled; no form deletes an account. A session cookie is the account it
names. A crash is a request that ends before its commit (`GiveUp`, `MailFails`).

Waiters whose priority and float timestamp are both equal compare equal in the code
(`_Waiter` compares its sort key only), so that a timed-out waiter could remove the
other one from the queue; with a strictly increasing clock this does not arise.

## Plan

1. Done: admission gate, limiter, request lifecycle, stream translation, with their
   invariants and refinements proved.
2. Done: metering. Usage events through log_usage, deferral and finalize, daily rollups,
   the pool and the audit chain between concurrent sessions. Left: the cooldown of
   alerts, retention purges, pool limits that change.
3. Done: sources, catalog, aliases, grants, keys and calls, as one specification.
4. Done: accounts, with all properties proved.
5. Done: theorems about `Routing`, all eight properties of the run.
6. Done: the window and day limits, the slots of a key, the tokens of a day.
