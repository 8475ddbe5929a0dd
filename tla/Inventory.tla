----------------------------- MODULE Inventory -----------------------------
(***************************************************************************)
(* The upstream sources and the catalog of their models: what the forms of *)
(* operators and the synchronisation with the upstreams read and write in  *)
(* backend_sources, catalog_models and the tables that name a source       *)
(* (app/data/backends.py, app/data/catalog.py, app/catalog_auto_sync.py,   *)
(* app/web/platform/services.py, models.py, setup.py).                     *)
(*                                                                         *)
(* A request reads without a lock and writes in one transaction.  A flush  *)
(* writes the columns that differ from the row as loaded, and finds rows   *)
(* by id.  A handler of the event loop keeps it from the moment its form   *)
(* has arrived until it answers; those of the thread pool run beside.      *)
(***************************************************************************)
EXTENDS Naturals, FiniteSets, FiniteSetsExt, Sequences, SequencesExt, Functions, TLC

CONSTANTS
    Names,      \* names a source may have; sources are visited in their order
    Models,     \* ids of the models the upstreams list
    Aliases,    \* public names of models
    Grantees,   \* users, teams and keys: who can hold grants
    Requests,
    None

\* What an allow-list names: a model, or an alias, of a source.
Pairs == Names \X (Models \cup Aliases)

\* A row of backend_sources, and one of catalog_models.  Tags are none, the
\* ones inferred from the model's id, or those a request has written.
Source == [name : Names, addressed : BOOLEAN]
Entry == [source : Names, model : Models, enabled : BOOLEAN,
          disabled_by : {"", "admin", "sync"}, tags : {None, "inferred"} \cup Requests]

SourceKinds == {"create", "update", "delete", "save_all"}

ASSUME InventoryAssumption ==
    /\ Names \subseteq Nat /\ IsFiniteSet(Names) /\ IsFiniteSet(Models)
    /\ None \notin Requests \cup {"inferred"} /\ "inferred" \notin Requests
    /\ Requests \subseteq Grantees

VARIABLES
    sources,   \* backend_sources, by id
    catalog,   \* catalog_models, by id
    granted,   \* service_grants: the sources granted to each grantee
    allowed,   \* model_allowlists: what is listed for each grantee
    default,   \* the default grant of auth_settings: sources and pairs
    kind,      \* what a request is
    prune,     \* the setting catalog_prune_on_sync
    loop,      \* the request the event loop is running
    at,        \* where a request is
    read,      \* the rows it has loaded, by id
    draft,     \* the same rows as it will write them
    fresh,     \* the rows it will insert
    switch,    \* the switch it goes by, as it has read it: prune, or one of auth_settings
    todo       \* the sources a synchronisation has yet to visit

inventory == <<sources, catalog>>
grants == <<granted, allowed, default>>

SourceNames == {sources[i].name : i \in DOMAIN sources}
Rows(name) == {i \in DOMAIN catalog : catalog[i].source = name}
EnabledModels(name) == {catalog[i].model : i \in {j \in Rows(name) : catalog[j].enabled}}

\* A table of one row, and the rows of f with those of g that have other ids.
Only(i, row) == [j \in {i} |-> row]
Beside(f, g) == [i \in DOMAIN f \cup DOMAIN g |-> IF i \in DOMAIN f THEN f[i] ELSE g[i]]

\* The id SQLite gives a new row of an INTEGER PRIMARY KEY table.
NewId(table) == Max({0} \cup DOMAIN table) + 1

Goto(r, from, to) == at[r] = from /\ at' = [at EXCEPT ![r] = to]

\* Mutant: forms are handled by the thread pool.
TakeNoLoop(r) == UNCHANGED loop

\* The event loop runs one handler until it awaits something or answers.
TakeLoop(r) == loop = None /\ loop' = r

\* A request is answered.
End(r, from) ==
    /\ Goto(r, from, "done")
    /\ loop' = IF loop = r THEN None ELSE loop
    /\ read' = [read EXCEPT ![r] = <<>>] /\ draft' = [draft EXCEPT ![r] = <<>>]
    /\ fresh' = [fresh EXCEPT ![r] = <<>>] /\ switch' = [switch EXCEPT ![r] = FALSE]

\* A form is refused, or names a row that is not there.
Refuse(r) ==
    /\ kind[r] \notin {"call", "sync", "auto_sync"} /\ loop \in {None, r}
    /\ at[r] \in {"new", "shown", "loaded"} /\ End(r, at[r])
    /\ UNCHANGED <<inventory, grants, prune, todo>>

\* Mutant: the flush writes whole rows.
FlushedRow(stored, old, new) == new

\* What a row holds after the flush of a session that loaded `old`.
Flushed(stored, old, new) ==
    [c \in DOMAIN stored |-> IF new[c] = old[c] THEN stored[c] ELSE new[c]]

\* UPDATE of the rows in `new` of a session that loaded them as `old`.
Updated(table, old, new) ==
    [i \in DOMAIN table |-> IF i \in DOMAIN new THEN Flushed(table[i], old[i], new[i]) ELSE table[i]]

\* INSERT of the rows of a sequence.
Inserted(table, rows) ==
    LET first == NewId(table)
    IN  Beside(table, [i \in first..(first + Len(rows) - 1) |-> rows[i - first + 1]])
------------------------------------------------------------------------------
(* Renaming: the rows of every table that stores the name follow it. *)

Renamed(f, name) == IF name \in DOMAIN f THEN f[name] ELSE name
RenamePairs(f, pairs) == {<<Renamed(f, p[1]), p[2]>> : p \in pairs}

\* A unique constraint fails: rows of a source that is gone still have the name.
Clash(f) ==
    \/ \E i, j \in DOMAIN catalog :
         /\ i # j /\ catalog[i].model = catalog[j].model
         /\ Renamed(f, catalog[i].source) = Renamed(f, catalog[j].source)
    \/ \E g \in Grantees : \E m, n \in granted[g] : m # n /\ Renamed(f, m) = Renamed(f, n)

\* Mutant: the allow-lists are forgotten.
RenameRowsNotLists(f) ==
    /\ catalog' = [i \in DOMAIN catalog |-> [catalog[i] EXCEPT !.source = Renamed(f, @)]]
    /\ granted' = [g \in Grantees |-> {Renamed(f, n) : n \in granted[g]}]
    /\ UNCHANGED <<allowed, default>>

\* rename_source, for one source or, parked under free names in between, for
\* all of a form.
RenameRows(f) ==
    /\ catalog' = [i \in DOMAIN catalog |-> [catalog[i] EXCEPT !.source = Renamed(f, @)]]
    /\ granted' = [g \in Grantees |-> {Renamed(f, n) : n \in granted[g]}]
    /\ allowed' = [g \in Grantees |-> RenamePairs(f, allowed[g])]
    /\ default' = [sources |-> {Renamed(f, n) : n \in default.sources},
                   pairs   |-> RenamePairs(f, default.pairs)]

\* The names a session's sources had when loaded, each with its new one.
NewNames(r, new) ==
    [n \in {read[r][i].name : i \in DOMAIN new} |->
        new[CHOOSE i \in DOMAIN new : read[r][i].name = n].name]

\* The save of a form with the names and addresses `new` of sources, where the
\* names `taken` belong to others.  Sources to be renamed are out of each other's
\* way.  A changed row that is gone, or a constraint that fails, rolls it back.
Savable(r, new, taken) ==
    /\ Cardinality({new[i].name : i \in DOMAIN new}) = Cardinality(DOMAIN new)
    /\ \A i \in DOMAIN new :
         /\ new[i].name \notin taken
         /\ i \in DOMAIN sources \/ new[i] = read[r][i]
    /\ LET renamed == {i \in DOMAIN new : new[i].name # read[r][i].name}
       IN  \A i \in renamed, j \in DOMAIN sources \ renamed : sources[j].name # new[i].name
    /\ ~Clash(NewNames(r, new))

SaveSources(r, new) ==
    /\ sources' = Updated(sources, read[r], new)
    /\ RenameRows(NewNames(r, new))

\* db.get of the source an operator edits or deletes.
LoadSource(r) ==
    /\ kind[r] \in {"update", "delete"} /\ Goto(r, "new", "loaded")
    /\ \E i \in DOMAIN sources : read' = [read EXCEPT ![r] = Only(i, sources[i])]
    /\ UNCHANGED <<inventory, grants, prune, loop, draft, fresh, switch, todo>>

\* services_update: the new name must be free, whoever has it.
UpdateSource(r) ==
    /\ kind[r] = "update" /\ End(r, "loaded")
    /\ \E i \in DOMAIN read[r] : \E name \in Names, addressed \in BOOLEAN :
         LET new == Only(i, [name |-> name, addressed |-> addressed])
         IN  IF Savable(r, new, SourceNames \ {read[r][i].name})
             THEN SaveSources(r, new)
             ELSE UNCHANGED <<inventory, grants>>
    /\ UNCHANGED <<prune, todo>>

\* services_delete.  What names the source stays.  A row that is gone is not
\* missed; a later row with its id is deleted in its place.
DeleteSource(r) ==
    /\ kind[r] = "delete" /\ End(r, "loaded")
    /\ sources' = Restrict(sources, DOMAIN sources \ DOMAIN read[r])
    /\ UNCHANGED <<catalog, grants, prune, todo>>

\* services_create, setup_sources_save: the name must be free.
CheckName(r) ==
    /\ kind[r] = "create" /\ Goto(r, "new", "loaded")
    /\ \E name \in Names \ SourceNames, addressed \in BOOLEAN :
         fresh' = [fresh EXCEPT ![r] = <<[name |-> name, addressed |-> addressed]>>]
    /\ UNCHANGED <<inventory, grants, prune, loop, read, draft, switch, todo>>

\* Mutant: the name is not looked for again.
UpsertInserts(r) ==
    /\ kind[r] = "create" /\ End(r, "loaded")
    /\ sources' = Inserted(sources, fresh[r])
    /\ UNCHANGED <<catalog, grants, prune, todo>>

\* upsert_source writes into a source of the name that has come meanwhile.
Upsert(r) ==
    /\ kind[r] = "create" /\ End(r, "loaded")
    /\ LET new == fresh[r][1]
           same == {i \in DOMAIN sources : sources[i].name = new.name}
       IN  sources' = IF same = {} THEN Inserted(sources, fresh[r])
                      ELSE [i \in DOMAIN sources |-> IF i \in same THEN new ELSE sources[i]]
    /\ UNCHANGED <<catalog, grants, prune, todo>>

\* setup_sources_save_all: the form has arrived; all addressed sources are read.
LoadAll(r) ==
    /\ kind[r] = "save_all" /\ TakeLoop(r) /\ Goto(r, "new", "loaded")
    /\ read' = [read EXCEPT ![r] =
                   Restrict(sources, {i \in DOMAIN sources : sources[i].addressed})]
    /\ UNCHANGED <<inventory, grants, prune, draft, fresh, switch, todo>>

\* apply_source_row_edits; a synchronisation follows.
SaveAll(r) ==
    /\ kind[r] = "save_all" /\ at[r] = "loaded"
    /\ \E name \in [DOMAIN read[r] -> Names] :
         LET new == [i \in DOMAIN read[r] |-> [read[r][i] EXCEPT !.name = name[i]]]
             taken == {sources[i].name : i \in DOMAIN sources \ DOMAIN new}
         IN  \/ /\ Savable(r, new, taken) /\ SaveSources(r, new)
                /\ Goto(r, "loaded", "saved") /\ read' = [read EXCEPT ![r] = <<>>]
                /\ UNCHANGED <<loop, draft, fresh, switch>>
             \/ /\ ~Savable(r, new, taken) /\ End(r, "loaded")
                /\ UNCHANGED <<inventory, grants>>
    /\ UNCHANGED <<prune, todo>>
------------------------------------------------------------------------------
(* The catalog: synchronised with the upstreams, and edited by operators. *)

\* What an upstream answers: the models it has, or no answer.
Listings == [ok : {TRUE}, models : SUBSET Models] \cup {[ok |-> FALSE, models |-> {}]}

\* A row whose model the upstream lists, and one whose model it does not.
Found(row) ==
    [row EXCEPT !.enabled = @ \/ row.disabled_by = "sync",
                !.disabled_by = IF @ = "sync" THEN "" ELSE @,
                !.tags = IF @ = None THEN "inferred" ELSE @]
\* Mutant: what an administrator has switched off is pruned as well.
MissingAny(row) == [row EXCEPT !.enabled = FALSE, !.disabled_by = "sync"]

Missing(row) ==
    IF row.disabled_by = "admin" THEN row
    ELSE [row EXCEPT !.enabled = FALSE, !.disabled_by = "sync"]

\* sync_catalog_from_sources starts with the addressed sources there are.
BeginSync(r, from) ==
    /\ Goto(r, from, "syncing")
    /\ switch' = [switch EXCEPT ![r] = prune]
    /\ todo' = [todo EXCEPT ![r] = {sources[i].name : i \in {j \in DOMAIN sources : sources[j].addressed}}]
    /\ UNCHANGED <<inventory, grants, prune, loop, read, draft, fresh>>

\* An operator's form, the background worker, or the end of
\* setup_sources_save_all, which still has the event loop.
PostSync(r) == kind[r] = "sync" /\ BeginSync(r, "new")
AutoSync(r) == kind[r] = "auto_sync" /\ BeginSync(r, "new")
WizardSync(r) == kind[r] = "save_all" /\ BeginSync(r, "saved")

\* The next source is asked, then the rows of its name are read and changed in
\* the session: a row the session has changed before is not read again.
SyncSource(r) ==
    /\ at[r] = "syncing" /\ todo[r] # {}
    /\ LET name == Min(todo[r])
           rows == [i \in Rows(name) |-> IF i \in DOMAIN draft[r] THEN draft[r][i] ELSE catalog[i]]
       IN  \E l \in Listings :
             LET found == {i \in DOMAIN rows : rows[i].model \in l.models}
                 gone == IF switch[r] /\ l.ok THEN {i \in DOMAIN rows \ found : Missing(rows[i]) # rows[i]} ELSE {}
                 new == l.models \ {rows[i].model : i \in found}
             IN  /\ draft' = [draft EXCEPT ![r] =
                        Beside([i \in found \cup gone |-> IF i \in found THEN Found(rows[i]) ELSE Missing(rows[i])], @)]
                 /\ read' = [read EXCEPT ![r] = Beside(@, Restrict(catalog, found \cup gone))]
                 /\ fresh' = [fresh EXCEPT ![r] = @ \o SetToSeq(
                        {[source |-> name, model |-> m, enabled |-> TRUE, disabled_by |-> "",
                          tags |-> "inferred"] : m \in new})]
             /\ todo' = [todo EXCEPT ![r] = @ \ {name}]
    /\ UNCHANGED <<inventory, grants, prune, loop, at, switch>>

\* The flush inserts before it updates; a row that has come meanwhile rolls all back.
SyncCommit(r) ==
    /\ todo[r] = {} /\ End(r, "syncing")
    /\ LET known(e) == \E i \in DOMAIN catalog : catalog[i].source = e.source /\ catalog[i].model = e.model
           clash == \E e \in ToSet(fresh[r]) : known(e)
       IN  catalog' = IF clash THEN catalog
                      ELSE Inserted(Updated(catalog, read[r], draft[r]), fresh[r])
    /\ UNCHANGED <<sources, grants, prune, todo>>

\* models_page: an operator is shown the catalog.
ShowModels(r) ==
    /\ kind[r] = "models" /\ Goto(r, "new", "shown")
    /\ read' = [read EXCEPT ![r] = catalog]
    /\ UNCHANGED <<inventory, grants, prune, loop, draft, fresh, switch, todo>>

\* update_catalog_meta: the tags a form has for row j, which are new ones for row
\* `edited`, and none for a row that was not on the page.
FormTags(r, j, shown, edited) ==
    IF j = edited THEN r ELSE IF j \in DOMAIN shown THEN shown[j].tags ELSE None

\* models_save: the form has the boxes as shown but for one, whose tags may be
\* new as well.  Rows that were not on the page have no box.
PostModels(r) ==
    /\ kind[r] = "models" /\ TakeLoop(r) /\ Goto(r, "shown", "loaded")
    /\ \E i \in DOMAIN read[r] \cup {0} : \E edited \in {0, i} :
         LET shown == read[r]
             ticked == SymDiff({j \in DOMAIN shown : shown[j].enabled}, {i})
             saved(j) ==
                [catalog[j] EXCEPT
                    !.enabled = j \in ticked,
                    !.disabled_by = IF (j \in ticked) = catalog[j].enabled THEN @
                                    ELSE IF j \in ticked THEN "" ELSE "admin",
                    !.tags = FormTags(r, j, shown, edited)]
         IN  draft' = [draft EXCEPT ![r] = [j \in DOMAIN catalog |-> saved(j)]]
    /\ read' = [read EXCEPT ![r] = catalog]
    /\ UNCHANGED <<inventory, grants, prune, fresh, switch, todo>>

SaveModels(r) ==
    /\ kind[r] = "models" /\ End(r, "loaded")
    /\ catalog' = Updated(catalog, read[r], draft[r])
    /\ UNCHANGED <<sources, grants, prune, todo>>
------------------------------------------------------------------------------
InventoryStep(r) ==
    \/ Refuse(r) \/ LoadSource(r) \/ UpdateSource(r) \/ DeleteSource(r) \/ CheckName(r) \/ Upsert(r)
    \/ LoadAll(r) \/ SaveAll(r) \/ PostSync(r) \/ AutoSync(r) \/ WizardSync(r)
    \/ SyncSource(r) \/ SyncCommit(r) \/ ShowModels(r) \/ PostModels(r) \/ SaveModels(r)
=============================================================================
