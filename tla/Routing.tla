------------------------------ MODULE Routing ------------------------------
(***************************************************************************)
(* Calls of clients against the inventory and the grants: a call is        *)
(* rewritten, routed to one of the sources that serve its model, then      *)
(* authorized for that source, whose address is looked up last             *)
(* (app/main.py auth_check, app/routing.py, app/data/routing_strategy.py,  *)
(* app/auth/check.py).  Composes Inventory, Aliases and Grants.            *)
(***************************************************************************)
EXTENDS Aliases, Grants

CONSTANT Starts   \* bound: the requests that run against each other, and the tables they find

Kinds == SourceKinds \cup {"sync", "auto_sync", "models"} \cup AliasKinds \cup GrantKinds
         \cup KeyKinds \cup SettingKinds \cup {"call"}

\* A kind of None: no request, where fewer than all run.  Names of sources, and
\* sources and models of catalog rows, are unique; keys refer to what there is.
ASSUME RoutingAssumption ==
    \A s \in Starts :
        /\ s.kind \in [Requests -> Kinds \cup {None}]
        /\ s.sources \in Seq(Source) /\ s.catalog \in Seq(Entry) /\ s.aliases \in Seq(Alias)
        /\ \A i, j \in DOMAIN s.sources : s.sources[i].name = s.sources[j].name => i = j
        /\ \A i, j \in DOMAIN s.catalog :
             s.catalog[i].source = s.catalog[j].source /\ s.catalog[i].model = s.catalog[j].model => i = j
        /\ s.keys \in [Keys -> Key]
        /\ \A k \in Keys : s.keys[k].owner \in Users \cup {None} /\ s.keys[k].team \in Teams \cup {None}
        /\ s.granted \in [Grantees -> SUBSET Names] /\ s.allowed \in [Grantees -> SUBSET Pairs]
        /\ s.default \in [sources : SUBSET Names, pairs : SUBSET Pairs]
        /\ s.teams_on \in BOOLEAN /\ s.prune \in BOOLEAN

VARIABLES
    cursor,   \* round_robin_state: by model and tied sources, who is next
    call,     \* the calls under way: key, its secret, model and source name
    moved,    \* history: the names that changed hands or were renamed from while a request was under way
    cleared,  \* history: the sources a call's key could use when it was authorized
    reached   \* history: the source a call has reached

setup == <<people, teams_on, plan>>
history == <<cleared, reached>>
calls == <<cursor, call, history>>
vars == <<inventory, grants, aliases, setup, kind, prune, loop, at, read, draft, fresh, switch, todo, calls, moved>>

NoCall == [key |-> None, secret |-> None, model |-> None, source |-> None]

Init ==
    /\ \E s \in Starts :
         /\ kind = s.kind /\ at = [r \in Requests |-> IF kind[r] = None THEN "done" ELSE "new"]
         /\ sources = s.sources /\ catalog = s.catalog /\ aliases = s.aliases /\ keys = s.keys
         /\ granted = s.granted /\ allowed = s.allowed /\ default = s.default
         /\ teams_on = s.teams_on /\ prune = s.prune
    /\ users = Users /\ teams = Teams
    /\ loop = None
    /\ read = [r \in Requests |-> <<>>] /\ draft = [r \in Requests |-> <<>>]
    /\ fresh = [r \in Requests |-> <<>>] /\ todo = [r \in Requests |-> {}]
    /\ switch = [r \in Requests |-> FALSE]
    /\ plan = [r \in Requests |-> NoPlan]
    /\ cursor = <<>> /\ call = [r \in Requests |-> NoCall]
    /\ moved = [r \in Requests |-> {}]
    /\ cleared = [r \in Requests |-> {}] /\ reached = [r \in Requests |-> 0]
------------------------------------------------------------------------------
(* Routing (routing.py, data/backends.py). *)

\* allowed_services_for_key: no filter for operators and for unknown keys.
RoutedSources(k, key) ==
    IF ~key.active \/ key.owner \in Admins THEN SourceNames ELSE EffectiveSources(k, key)

\* resolve_source_for_kind: the sources that tie for a model.
Tied(k, key, model) ==
    {n \in RoutedSources(k, key) \cap SourceNames :
        /\ \E i \in DOMAIN sources : sources[i].name = n /\ sources[i].addressed
        /\ model \in EnabledModels(n)}

\* Who is next among tied sources, and the cursor after that.
Turn(model, tied) == IF <<model, tied>> \in DOMAIN cursor THEN cursor[<<model, tied>>] ELSE 0
NextTurn(model, tied) ==
    cursor' = (<<model, tied>> :> ((Turn(model, tied) % Cardinality(tied)) + 1)) @@ cursor

\* The source a call is routed to: the only one, the one it is pinned to, the
\* next in turn, or the least busy (by name, if the loads are not compared).
Pick(tied, model, pin, name) ==
    \/ /\ Cardinality(tied) = 1 \/ pin \in tied
       /\ name = IF pin \in tied THEN pin ELSE Min(tied)
       /\ UNCHANGED cursor
    \/ /\ Cardinality(tied) > 1 /\ pin \notin tied
       /\ \/ name \in tied /\ UNCHANGED cursor
          \/ /\ name = SetToSortSeq(tied, <)[(Turn(model, tied) % Cardinality(tied)) + 1]
             /\ NextTurn(model, tied)

\* A call names a model or an alias, which is replaced by its model.
Target(asked) == IF Rewrites(asked) = {} THEN asked ELSE aliases[CHOOSE i \in Rewrites(asked) : TRUE].target

\* The pin of the alias counts before the key's.  A team's is one of the sources
\* that Pick may take.
PinOf(key, asked) ==
    LET pins == {aliases[i].pin : i \in Rewrites(asked)} \ {None}
    IN  IF pins = {} THEN key.pin ELSE CHOOSE p \in pins : TRUE

Routed(r, k, model, name) ==
    call' = [call EXCEPT ![r] = [key |-> k, secret |-> keys[k].secret, model |-> model, source |-> name]]

\* The call's body has arrived.  auth_check keeps the event loop until it answers;
\* the streams of Anthropic clients are prepared in a worker thread beside it.
Prepare(r) == kind[r] = "call" /\ Goto(r, "new", "routed") /\ (TakeLoop(r) \/ UNCHANGED loop)

\* One of the sources that serve its model is picked.
Route(r) ==
    /\ Prepare(r)
    /\ \E k \in DOMAIN keys, asked \in Models \cup AliasNames, name \in Names :
         LET tied == Tied(k, keys[k], Target(asked))
         IN  /\ tied # {} /\ Pick(tied, Target(asked), PinOf(keys[k], asked), name)
             /\ Routed(r, k, Target(asked), name)
    /\ UNCHANGED <<inventory, grants, aliases, setup, prune, read, draft, fresh, switch, todo, history>>

\* A call whose path names the source.
RouteNamed(r) ==
    /\ Prepare(r)
    /\ \E k \in DOMAIN keys, asked \in Models \cup AliasNames, name \in SourceNames :
         Routed(r, k, Target(asked), name)
    /\ UNCHANGED <<inventory, grants, aliases, setup, prune, read, draft, fresh, switch, todo, cursor, history>>

\* No source serves the model.
Unresolved(r) ==
    /\ kind[r] = "call" /\ End(r, "new")
    /\ \E k \in DOMAIN keys, model \in Models : Tied(k, keys[k], model) = {}
    /\ UNCHANGED <<inventory, grants, aliases, setup, prune, todo, calls>>
------------------------------------------------------------------------------
(* Authorization (auth/check.py) for the source a call was routed to. *)

ModelAllowed(k, key, name, model) ==
    LET allow == EffectiveModels(k, key, name)
    IN  allow # None => model \in allow

\* Mutant: the lists are not looked at.
AuthorizedAnyModel(k, key, name, model) ==
    key.active /\ name \in EffectiveSources(k, key) /\ model \in EnabledModels(name)

Authorized(k, key, name, model) ==
    /\ key.active
    /\ name \in EffectiveSources(k, key)
    /\ ~ModelAllowed(k, key, name, model) => AllowedViaAlias(EffectiveModels(k, key, name), model)
    /\ model \in EnabledModels(name)

\* "Keys may only use a subset of their ceiling.  Empty key fields inherit the
\* grant": what a key may use, said without ceilings.  A list names a model by
\* itself or by an alias.
Suits(g, name, model) ==
    \/ Listed(g, name) = {} \/ model \in Listed(g, name)
    \/ \E i \in DOMAIN aliases : aliases[i].target = model /\ aliases[i].name \in Listed(g, name)
MayUse(k, i, model) ==
    LET name == sources[i].name
        above == IF keys[k].team # None THEN keys[k].team ELSE keys[k].owner
    IN  /\ keys[k].active /\ model \in EnabledModels(name)
        /\ above \in Admins \cup {None} \/ (name \in granted[above] /\ Suits(above, name, model))
        /\ granted[k] = {} \/ name \in granted[k]
        /\ Suits(k, name, model)

\* The key is looked up by its secret and read again, with its grants.
Authorize(r) ==
    /\ kind[r] = "call" /\ at[r] = "routed"
    /\ LET c == call[r]
           granted_call == keys[c.key].secret = c.secret /\ Authorized(c.key, keys[c.key], c.source, c.model)
       IN  \/ /\ granted_call /\ Goto(r, "routed", "authorized")
              /\ cleared' = [cleared EXCEPT ![r] = {i \in DOMAIN sources : MayUse(c.key, i, c.model)}]
              /\ UNCHANGED <<loop, read, draft, fresh, switch, call>>
           \/ /\ ~granted_call /\ End(r, "routed")
              /\ call' = [call EXCEPT ![r] = NoCall] /\ UNCHANGED cleared
    /\ UNCHANGED <<inventory, grants, aliases, setup, prune, todo, cursor, reached>>

\* address_for_source: whoever has the name now.  Without an address the call fails.
Reach(r) ==
    /\ kind[r] = "call" /\ End(r, "authorized") /\ call' = [call EXCEPT ![r] = NoCall]
    /\ LET at_name == {i \in DOMAIN sources : sources[i].name = call[r].source /\ sources[i].addressed}
       IN  reached' = [reached EXCEPT ![r] = Max({0} \cup at_name)]
    /\ UNCHANGED <<inventory, grants, aliases, setup, prune, todo, cursor, cleared>>
------------------------------------------------------------------------------
Holder(name) == {i \in DOMAIN sources : sources[i].name = name}

\* A request writes what it has decided on.
Saves(r, kinds) ==
    /\ kind[r] \in kinds /\ at[r] \in {"loaded", "posted", "syncing"}
    /\ at'[r] \in {"saved", "done"}

\* It may give sources new names.
Renames(r) == at[r] = "loaded" /\ Saves(r, {"update", "save_all"})

\* The names it had loaded of sources that have other names after it.
LeftBy(r) ==
    {read[r][i].name : i \in {j \in DOMAIN read[r] \cap DOMAIN sources : sources'[j].name # read[r][j].name}}

\* Which names change hands, or lose what is stored under them to another name
\* (a source renamed from a name that it has lost meanwhile), for the requests under way.
Watch ==
    LET changed == {n \in Names : Holder(n)' # Holder(n)}
                   \cup UNION {LeftBy(q) : q \in {p \in Requests : Renames(p)}}
    IN  moved' = [q \in Requests |->
                    IF at[q] = "new" \/ at'[q] = "done" THEN {} ELSE moved[q] \cup changed]

Step(r) ==
    \/ InventoryStep(r) /\ UNCHANGED <<aliases, setup, calls>>
    \/ AliasStep(r) /\ UNCHANGED <<setup, calls>>
    \/ GrantStep(r) /\ UNCHANGED <<aliases, calls>>
    \/ Route(r) \/ RouteNamed(r) \/ Unresolved(r) \/ Authorize(r) \/ Reach(r)

\* All requests are answered.
Finished == (\A r \in Requests : at[r] = "done") /\ UNCHANGED vars

Next == ((\E r \in Requests : Step(r)) /\ Watch /\ UNCHANGED kind) \/ Finished

Spec == Init /\ [][Next]_vars
------------------------------------------------------------------------------
TypeOK ==
    /\ \A i \in DOMAIN sources : i \in Nat \ {0} /\ sources[i] \in Source
    /\ \A i \in DOMAIN catalog : i \in Nat \ {0} /\ catalog[i] \in Entry
    /\ \A i \in DOMAIN aliases : i \in Nat \ {0} /\ aliases[i] \in Alias
    /\ \A i, j \in DOMAIN sources : sources[i].name = sources[j].name => i = j
    /\ \A i, j \in DOMAIN catalog :
         catalog[i].source = catalog[j].source /\ catalog[i].model = catalog[j].model => i = j
    /\ granted \in [Grantees -> SUBSET Names] /\ allowed \in [Grantees -> SUBSET Pairs]
    /\ default \in [sources : SUBSET Names, pairs : SUBSET Pairs]
    /\ users \subseteq Users \cup Requests /\ teams \subseteq Teams \cup Requests
    /\ \A k \in DOMAIN keys : k \in Keys \cup Requests /\ keys[k] \in Key
    /\ \A k \in DOMAIN keys : keys[k].team \in teams \cup {None}
    /\ loop \in Requests \cup {None}
    /\ at \in [Requests -> {"new", "shown", "loaded", "posted", "saved", "syncing",
                            "routed", "authorized", "done"}]

\* What an administrator switched off in the catalog stays off through every
\* synchronisation that has seen it, and through every form that was shown it
\* and has not ticked it (catalog.py, prune_missing_catalog_models; models_save).
AdminWordStands == [][
    \A i \in DOMAIN catalog : catalog[i].disabled_by = "admin" /\ catalog'[i].disabled_by # "admin" =>
        \E r \in Requests :
            \/ Saves(r, {"models"}) /\ draft[r][i].enabled /\ ~read[r][i].enabled
            \/ at[r] = "syncing" /\ at'[r] = "done" /\ read[r][i].disabled_by # "admin"]_vars

\* Nothing in the database has the name: neither a source nor what one has left.
Unused(name) ==
    /\ name \notin SourceNames \cup default.sources /\ Rows(name) = {}
    /\ \A g \in Grantees : name \notin granted[g] /\ Listed(g, name) = {}
    /\ \A p \in default.pairs : p[1] # name

\* All that is stored under the name of a source.
Estate(name) ==
    [rows |-> Rows(name), holders |-> {g \in Grantees : name \in granted[g]},
     listed |-> [g \in Grantees |-> Listed(g, name)], default |-> name \in default.sources,
     pairs |-> {p[2] : p \in {q \in default.pairs : q[1] = name}}]

\* Sources renamed, also to each other's names, keep all that is stored under
\* their names, unless a name was stale or leftovers bore the new one
\* (backends.py, rename_source and apply_source_row_edits).
RenamesKeepGrants == [][
    \A r \in Requests :
        /\ Renames(r)
        /\ \A i \in DOMAIN read[r] : i \in DOMAIN sources /\ read[r][i].name = sources[i].name
        /\ \A n \in Names : n \in SourceNames' \ SourceNames => Unused(n)
        => \A i \in DOMAIN sources, n \in Names :
             n = sources'[i].name => Estate(n)' = Estate(sources[i].name)]_vars

\* Nobody is granted a source that no form about it has ticked, but by a source
\* that takes on another's name, by a merge with what was granted when the form was
\* begun (users.py, users_grant_sources_add), or to a new user by the default grant
\* (for one who registers, as it was when the request began; grants.py,
\* apply_default_grant).
NothingGrantedUnasked == [][
    \A g \in Grantees : \A n \in granted'[g] \ granted[g] :
        \E r \in Requests :
            \/ /\ Saves(r, GrantKinds \cup KeyKinds) /\ plan[r].who = g
               /\ \/ \E t \in plan[r].ticked : n \in t.sources
                  \/ kind[r] = "grant_add" /\ n \in read[r][g]
                  \/ kind[r] = "user" /\ n \in default.sources
                  \/ n \in moved[r]
            \/ Saves(r, {"register"}) /\ r = g /\ n \in read[r][r].sources
            \/ /\ Renames(r)
               /\ \E i \in DOMAIN sources \cap DOMAIN read[r] :
                    read[r][i].name \in granted[g] /\ sources'[i].name = n]_vars

\* What a key may use.
Usable(k) ==
    {p \in (DOMAIN sources) \X Models : Authorized(k, keys[k], sources[p[1]].name, p[2])}

\* A key comes to reach more only by a form about itself, its owner or its team,
\* by what becomes of sources, models and aliases, and when its team goes: never
\* by a grant taken away ("Keys may only use a subset of their ceiling",
\* grants.py, effective_services).
KeysWidenByOwnForms == [][
    \A k \in DOMAIN keys : ~(Usable(k)' \subseteq Usable(k)) =>
        \E r \in Requests :
            \/ Saves(r, SourceKinds \cup AliasKinds \cup {"sync", "auto_sync", "models"})
            \/ /\ Saves(r, {"grant_add", "grant_models", "team", "key_edit"})
               /\ plan[r].who \in {k, keys[k].team, keys[k].owner}
            \/ kind[r] = "team_delete" /\ keys[k].team # None /\ keys'[k].team = None
            \/ Saves(r, GrantKinds) /\ moved[r] # {}]_vars

\* A revoked key stays revoked through every form that was loaded before; only
\* an edit of a key loaded as revoked makes it active (keys.py, keys_revoke).
RevocationsStand == [][
    \A k \in DOMAIN keys : ~keys[k].active /\ keys'[k].active =>
        \E r \in Requests : Saves(r, {"key_edit"}) /\ ~read[r][k].active]_vars

\* New keys of a user never exceed the limit, whoever else makes keys for it at
\* the time (accounts.py, assert_can_create_key).
NewKeysWithinLimit == [][
    \A r \in Requests : Saves(r, {"key_new"}) /\ MaxKeys # 0 =>
        \A u \in users \ Admins : Cardinality(ActiveKeys(u)) < Cardinality(ActiveKeys(u)') =>
            Cardinality(ActiveKeys(u)') <= MaxKeys]_vars

\* A call reaches only a source that its key might use when it was authorized,
\* unless the name has changed hands since (main.py, auth_check).
CallsStayGranted == [][
    \A r \in Requests : reached'[r] # reached[r] /\ reached'[r] # 0 =>
        reached'[r] \in cleared[r] \/ call[r].source \in moved[r]]_vars
=============================================================================
