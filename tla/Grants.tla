------------------------------- MODULE Grants -------------------------------
(***************************************************************************)
(* Who may use which source and model: the grants of users and teams, the  *)
(* keys under them, and the forms that write both (app/data/grants.py,     *)
(* app/web/shared.py, app/web/portal/keys.py, teams.py,                    *)
(* app/web/platform/users.py, settings.py, setup.py).                      *)
(***************************************************************************)
EXTENDS Inventory

CONSTANTS
    Users, Admins,   \* the users there are from the start; platform admins
    Teams, Keys,     \* the teams and keys there are from the start
    MaxKeys,         \* max_keys_per_user
    Ticks            \* bound: what a form about grants may have ticked

\* A row of api_keys.  Its secret is None until a request has replaced it.
Key == [owner : Users \cup Requests \cup {None}, team : Teams \cup Requests \cup {None},
        active : BOOLEAN, secret : Requests \cup {None}, pin : Names \cup {None}]

GrantKinds == {"grant_add", "grant_remove", "grant_models", "user", "register", "default",
               "team", "team_delete"}
SettingKinds == {"set_access", "set_routing"}
KeyKinds == {"key_new", "key_setup", "key_edit", "key_rotate", "key_revoke"}

ASSUME GrantsAssumption ==
    /\ Admins \subseteq Users
    /\ Users \cup Teams \cup Keys \cup Requests = Grantees
    /\ Users \cap Teams = {} /\ (Users \cup Teams) \cap Keys = {}
    /\ (Users \cup Teams \cup Keys) \cap Requests = {}
    /\ IsFiniteSet(Keys)
    /\ None \notin Grantees
    /\ \A list \in (SUBSET (Models \cup Aliases)) \cup (SUBSET Names) : list # None
    /\ MaxKeys \in Nat
    /\ Ticks \subseteq [sources : SUBSET Names, pairs : SUBSET Pairs, pin : Names \cup {None}]

VARIABLES
    users,     \* web_users, by name
    teams,     \* teams, by name
    keys,      \* api_keys
    teams_on,  \* the setting teams_enabled
    plan       \* what a request will write about a grantee, and what its form had ticked

people == <<users, teams, keys>>

\* No plan, or the grants and allow-list rows of `who`: the sources that replace
\* those granted (None: they stay), the sources whose list is cut, what is listed.
NoPlan == [who |-> None, ticked |-> {}, sources |-> None, cut |-> {}, pairs |-> {}]
Planned(r, who, tick, names, cut, pairs) ==
    plan' = [plan EXCEPT ![r] =
        [who |-> who, ticked |-> {tick}, sources |-> names, cut |-> cut, pairs |-> pairs]]
------------------------------------------------------------------------------
(* Ceilings (data/grants.py). *)

Listed(g, name) == {p[2] : p \in {q \in allowed[g] : q[1] = name}}

\* AccessCeiling.  No list for a source: all its models, here None.
Unrestricted == [all |-> TRUE, sources |-> {}, models |-> [n \in Names |-> None]]
NoAccess == [all |-> FALSE, sources |-> {}, models |-> [n \in Names |-> None]]
CeilingFrom(g) ==
    IF g \in Admins THEN Unrestricted
    ELSE [all |-> FALSE, sources |-> granted[g],
          models |-> [n \in Names |-> IF Listed(g, n) = {} THEN None ELSE Listed(g, n)]]

\* models_for: None, or the models of a source.
ModelsFor(c, name) ==
    IF c.all THEN None ELSE IF name \notin c.sources THEN {} ELSE c.models[name]

\* ceiling_for_key.
Ceiling(key) ==
    IF key.team # None THEN CeilingFrom(key.team)
    ELSE IF key.owner # None THEN CeilingFrom(key.owner)
    ELSE Unrestricted

\* Mutant: a key left with nothing of its own inherits.
EffectiveSourcesInherit(k, key) ==
    LET c == Ceiling(key)
        above == IF c.all THEN SourceNames ELSE c.sources
    IN  IF granted[k] \cap above # {} THEN granted[k] \cap above ELSE above

\* effective_services and effective_models of a key k with the row `key`.
EffectiveSources(k, key) ==
    LET c == Ceiling(key)
    IN  IF c.all THEN IF granted[k] # {} THEN granted[k] ELSE SourceNames
        ELSE IF granted[k] # {} THEN granted[k] \cap c.sources
        ELSE c.sources

EffectiveModels(k, key, name) ==
    LET above == ModelsFor(Ceiling(key), name)
    IN  IF name \notin EffectiveSources(k, key) THEN {}
        ELSE IF Listed(k, name) = {} THEN above
        ELSE IF above = None THEN Listed(k, name)
        ELSE Listed(k, name) \cap above

ClampSources(names, c) == names \cap (IF c.all THEN SourceNames ELSE c.sources)

ClampPairs(pairs, c) ==
    IF c.all THEN pairs
    ELSE {p \in pairs : p[1] \in c.sources /\ (ModelsFor(c, p[1]) = None \/ p[2] \in ModelsFor(c, p[1]))}

EnabledPairs(names) == UNION {{n} \X EnabledModels(n) : n \in names}

\* normalize_model_allowlist: all enabled models ticked means no list.
NormalPairs(names, pairs) ==
    LET kept == {p \in pairs : p[1] \in names}
    IN  IF kept = EnabledPairs(names) THEN {} ELSE kept

\* configured_default_sources.
DefaultSources == default.sources \cap SourceNames

\* The names on a form that are sources' names.
TickedSources(t) == t.sources \cap SourceNames
TickedPairs(t, names) == {p \in t.pairs : p[1] \in names}
------------------------------------------------------------------------------
(* Grants of users and teams, and the default grant.  Those of users are    *)
(* edited while teams are off.                                              *)

\* auth_settings are read: by register_submit in the thread pool, before it hashes
\* the password; by keys_create, teams_create and teams_update before their form
\* has arrived.
LoadSettings(r) ==
    /\ kind[r] \in {"register", "key_new", "team"} /\ Goto(r, "new", "loaded")
    /\ kind[r] = "team" => teams_on
    /\ switch' = [switch EXCEPT ![r] = teams_on]
    /\ read' = [read EXCEPT ![r] = IF kind[r] = "register" THEN Only(r, default) ELSE <<>>]
    /\ UNCHANGED <<inventory, grants, people, teams_on, prune, loop, draft, fresh, todo, plan>>

\* users_grant_sources_add and users_grant_source_save load the user and the
\* grants before the form has arrived.
LoadGrants(r) ==
    /\ kind[r] \in {"grant_add", "grant_models"} /\ Goto(r, "new", "loaded")
    /\ ~teams_on
    /\ \E u \in users \ Admins : read' = [read EXCEPT ![r] = Only(u, granted[u])]
    /\ UNCHANGED <<inventory, grants, people, teams_on, prune, loop, draft, fresh, switch, todo, plan>>

\* What the request writes later is known; the handler still has the loop.
Post(r, from) ==
    /\ TakeLoop(r) /\ Goto(r, from, "posted")
    /\ UNCHANGED <<inventory, grants, people, teams_on, prune, fresh, switch, todo>>

\* Mutant: the merge takes all sources.
PostAddAll(r) ==
    /\ kind[r] = "grant_add" /\ Post(r, "loaded")
    /\ \E u \in DOMAIN read[r], t \in Ticks :
         /\ TickedSources(t) # {}
         /\ Planned(r, u, t, read[r][u] \cup SourceNames, {}, {})
    /\ UNCHANGED <<read, draft>>

PostAdd(r) ==
    /\ kind[r] = "grant_add" /\ Post(r, "loaded")
    /\ \E u \in DOMAIN read[r], t \in Ticks :
         /\ TickedSources(t) # {}
         /\ Planned(r, u, t, read[r][u] \cup TickedSources(t), {}, {})
    /\ UNCHANGED <<read, draft>>

\* users_grant_source_save: nothing ticked, or all enabled models, is no list.
PostModelList(r) ==
    /\ kind[r] = "grant_models" /\ Post(r, "loaded")
    /\ \E u \in DOMAIN read[r], t \in Ticks : \E n \in SourceNames \cap read[r][u] :
         LET picked == {p \in t.pairs : p[1] = n}
             enabled == EnabledPairs({n})
             full == enabled # {} /\ enabled \subseteq picked
         IN  Planned(r, u, t, None, {n}, IF full THEN {} ELSE picked)
    /\ UNCHANGED <<read, draft>>

\* users_grant_source_remove.
PostRemove(r) ==
    /\ kind[r] = "grant_remove" /\ Post(r, "new") /\ ~teams_on
    /\ \E u \in users \ Admins, t \in Ticks : \E n \in SourceNames \cap granted[u] :
         t.sources = {n} /\ Planned(r, u, t, granted[u] \ {n}, {n}, {})
    /\ UNCHANGED <<read, draft>>

\* users_create: the ticked sources, or else the default ones, and only the
\* models ticked.
PostUser(r) ==
    /\ kind[r] = "user" /\ Post(r, "new")
    /\ \E t \in Ticks :
         LET names == IF TickedSources(t) # {} THEN TickedSources(t) ELSE DefaultSources
         IN  IF teams_on THEN Planned(r, r, t, {}, {}, {})
             ELSE Planned(r, r, t, names, {}, TickedPairs(t, names))
    /\ UNCHANGED <<read, draft>>

\* register_submit from the flush of the account on, which takes the write lock:
\* the default grant as loaded, of the sources there are now.
Register(r) ==
    /\ kind[r] = "register" /\ End(r, "loaded")
    /\ LET names == IF switch[r] THEN {} ELSE read[r][r].sources \cap SourceNames
       IN  /\ granted' = [granted EXCEPT ![r] = names]
           /\ allowed' = [allowed EXCEPT ![r] = {p \in read[r][r].pairs : p[1] \in names}]
    /\ users' = users \cup {r}
    /\ UNCHANGED <<inventory, default, teams, keys, teams_on, prune, todo, plan>>

\* settings_default_grant_save, setup_access_save.
PostDefault(r) ==
    /\ kind[r] = "default" /\ Post(r, "new")
    /\ \E t \in Ticks :
         LET names == TickedSources(t)
         IN  Planned(r, None, t, names, {}, NormalPairs(names, TickedPairs(t, names)))
    /\ UNCHANGED <<read, draft>>

\* teams_create, teams_update.
PostTeam(r) ==
    /\ kind[r] = "team" /\ Post(r, "loaded")
    /\ \E g \in teams \cup {r}, t \in Ticks : Planned(r, g, t, TickedSources(t), Names, t.pairs)
    /\ UNCHANGED <<read, draft>>

\* teams_delete: the team's rows go with it, its keys stay without a team.
DeleteTeam(r) ==
    /\ kind[r] = "team_delete" /\ End(r, "new") /\ teams_on
    /\ \E t \in teams :
         /\ teams' = teams \ {t}
         /\ keys' = [k \in DOMAIN keys |-> [keys[k] EXCEPT !.team = IF @ = t THEN None ELSE @]]
         /\ granted' = [granted EXCEPT ![t] = {}]
         /\ allowed' = [allowed EXCEPT ![t] = {}]
    /\ UNCHANGED <<inventory, default, users, teams_on, prune, todo, plan>>
------------------------------------------------------------------------------
(* Keys (web/portal/keys.py). *)

ActiveKeys(u) == {k \in DOMAIN keys : keys[k].owner = u /\ keys[k].active}

\* assert_can_create_key; MaxKeys 0 is no limit.
MayCreate(u) == u \in Admins \/ MaxKeys = 0 \/ Cardinality(ActiveKeys(u)) < MaxKeys

PlanKey(r, k, t, c) ==
    LET names == ClampSources(TickedSources(t), c)
    IN  Planned(r, k, t, names, Names, NormalPairs(names, ClampPairs(t.pairs, c)))

NewKey(owner, team, t) ==
    [owner |-> owner, team |-> team, active |-> TRUE, secret |-> None,
     pin |-> IF t.pin \in SourceNames THEN t.pin ELSE None]

\* keys_create, for a team if teams were on.
PostKey(r) ==
    /\ kind[r] = "key_new" /\ Post(r, "loaded")
    /\ \E u \in users, g \in (IF switch[r] THEN teams \cup {None} ELSE {None}), t \in Ticks :
         /\ MayCreate(u) /\ (switch[r] /\ g = None => u \in Admins)
         /\ PlanKey(r, r, t, IF g # None THEN CeilingFrom(g)
                             ELSE IF switch[r] THEN NoAccess ELSE CeilingFrom(u))
         /\ draft' = [draft EXCEPT ![r] = Only(r, NewKey(u, g, t))]
    /\ UNCHANGED read

\* setup_key_create: an operator's own key, for some source.
PostSetupKey(r) ==
    /\ kind[r] = "key_setup" /\ Post(r, "new")
    /\ \E u \in Admins, t \in Ticks :
         /\ TickedSources(t) # {}
         /\ PlanKey(r, r, t, Unrestricted)
         /\ draft' = [draft EXCEPT ![r] = Only(r, NewKey(u, None, [t EXCEPT !.pin = None]))]
    /\ UNCHANGED read

\* The switch and the key are read: keys_update awaits its form after that.
LoadKey(r) ==
    /\ kind[r] \in {"key_edit", "key_rotate", "key_revoke"} /\ Goto(r, "new", "loaded")
    /\ \E k \in DOMAIN keys : read' = [read EXCEPT ![r] = Only(k, keys[k])]
    /\ switch' = [switch EXCEPT ![r] = kind[r] = "key_edit" /\ teams_on]
    /\ UNCHANGED <<inventory, grants, people, teams_on, prune, loop, draft, fresh, todo, plan>>

\* keys_update with a team: the refresh drops what the form has set in the row,
\* and the stored team's ceiling counts, or else the one the form chose.
PostTeamKey(r) ==
    /\ kind[r] = "key_edit" /\ Post(r, "loaded") /\ switch[r]
    /\ \E k \in DOMAIN read[r], g \in teams, t \in Ticks :
         /\ PlanKey(r, k, t, CeilingFrom(IF keys[k].team # None THEN keys[k].team ELSE g))
         /\ read' = [read EXCEPT ![r] = Only(k, keys[k])]
         /\ draft' = [draft EXCEPT ![r] = Only(k, keys[k])]

\* keys_update without a team: the owner's ceiling counts.
PostOwnKey(r) ==
    /\ kind[r] = "key_edit" /\ Post(r, "loaded")
    /\ \E k \in DOMAIN read[r], u \in users \cup {None}, active \in BOOLEAN, t \in Ticks :
         /\ IF switch[r] THEN u = read[r][k].owner ELSE u # None
         /\ PlanKey(r, k, t, IF u = None THEN Unrestricted ELSE CeilingFrom(u))
         /\ draft' = [draft EXCEPT ![r] = Only(k,
                [read[r][k] EXCEPT !.owner = u, !.team = None, !.active = active,
                                   !.pin = IF t.pin \in SourceNames THEN t.pin ELSE None])]
    /\ UNCHANGED read

\* keys_rotate and keys_revoke, which change one column.
SaveKey(r, column, value) ==
    /\ End(r, "loaded")
    /\ LET new == [k \in DOMAIN read[r] |-> [read[r][k] EXCEPT ![column] = value]]
       IN  keys' = Updated(keys, read[r], new)
    /\ UNCHANGED <<inventory, grants, users, teams, teams_on, prune, todo, plan>>
RotateKey(r) == kind[r] = "key_rotate" /\ SaveKey(r, "secret", r)
RevokeKey(r) == kind[r] = "key_revoke" /\ SaveKey(r, "active", FALSE)
------------------------------------------------------------------------------
\* settings_access_save, settings_routing_save: forms that change no other setting.
SetAccess(r) ==
    /\ kind[r] = "set_access" /\ End(r, "new") /\ teams_on' \in BOOLEAN
    /\ UNCHANGED <<inventory, grants, people, prune, todo, plan>>
SetRouting(r) ==
    /\ kind[r] = "set_routing" /\ End(r, "new") /\ prune' \in BOOLEAN
    /\ UNCHANGED <<inventory, grants, people, teams_on, todo, plan>>
------------------------------------------------------------------------------
\* The transaction of a form.  A team that is gone by now cannot be referred to.
Commit(r) ==
    /\ plan[r] # NoPlan /\ End(r, "posted")
    /\ plan' = [plan EXCEPT ![r] = NoPlan]
    /\ LET p == plan[r]
           rows == draft[r]
           orphan == \/ kind[r] = "team" /\ p.who \notin teams \cup {r}
                     \/ \E k \in DOMAIN rows \ DOMAIN keys : rows[k].team \notin teams \cup {None}
       IN  IF orphan THEN UNCHANGED <<grants, people>>
           ELSE /\ users' = IF kind[r] = "user" THEN users \cup {r} ELSE users
                /\ teams' = IF kind[r] = "team" THEN teams \cup {p.who} ELSE teams
                /\ keys' = Beside(Updated(keys, read[r], rows), rows)
                /\ default' = IF kind[r] = "default" THEN [sources |-> p.sources, pairs |-> p.pairs] ELSE default
                /\ granted' = [g \in Grantees |-> IF g = p.who /\ p.sources # None THEN p.sources ELSE granted[g]]
                /\ allowed' = [g \in Grantees |->
                       IF g = p.who THEN {q \in allowed[g] : q[1] \notin p.cut} \cup p.pairs ELSE allowed[g]]
    /\ UNCHANGED <<inventory, teams_on, prune, todo>>

GrantStep(r) ==
    \/ LoadSettings(r) \/ LoadGrants(r) \/ PostAdd(r) \/ PostModelList(r) \/ PostRemove(r) \/ PostUser(r) \/ Register(r)
    \/ PostDefault(r) \/ PostTeam(r) \/ DeleteTeam(r)
    \/ PostKey(r) \/ PostSetupKey(r) \/ LoadKey(r) \/ PostTeamKey(r) \/ PostOwnKey(r)
    \/ RotateKey(r) \/ RevokeKey(r) \/ SetAccess(r) \/ SetRouting(r) \/ Commit(r)
=============================================================================
